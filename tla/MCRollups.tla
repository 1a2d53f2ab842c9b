----------------------------- MODULE MCRollups -----------------------------
(***************************************************************************)
(* Two units of one node and days of two hours.  The detail is kept for  *)
(* two or three days, the aggregates for three or four.                    *)
(***************************************************************************)
EXTENDS Rollups

MCUnit == {1, 2}
MCNode(u) == "node"
MCRetention == {[detail |-> 3, aggregate |-> 4], [detail |-> 2, aggregate |-> 3],
                [detail |-> 3, aggregate |-> 3]}

=============================================================================

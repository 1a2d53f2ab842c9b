------------------------------ MODULE MCSpool ------------------------------
(* The spool alone, queued into and acknowledged at any time, interrupted   *)
(* anywhere.                                                                *)
EXTENDS SpoolInv, TLC

Symmetry == Permutations(Unit)

=============================================================================

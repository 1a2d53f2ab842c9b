------------------------------ MODULE Batches ------------------------------
(***************************************************************************)
(* The batches an agent queues and a server stores, internal/model, reduced*)
(* to what delivery tells apart.                                           *)
(*                                                                         *)
(* An identifier is a pair: what produced the batch (Sample "batch", Record*)
(* "detail", enqueueSpoolHealth "health-batch", compaction                 *)
(* "minute-summary") and the time that was hashed into the name, which is  *)
(* also the batch's SentAt.  Interface traffic is counted in units, so that*)
(* a total can be lost or doubled unit by unit.                            *)
(***************************************************************************)
EXTENDS Integers, FiniteSets

CONSTANTS
    Unit,         \* units of interface traffic
    HealthEvent   \* contents of a spool health event

Kind == {"batch", "detail", "health-batch", "minute-summary"}
BatchID == Kind \X Int
Bytes == [Unit -> Nat]
Batch == [id : BatchID, bytes : Bytes, compacted : SUBSET BatchID,
          health : SUBSET HealthEvent]

NoBytes == [u \in Unit |-> 0]
Plus(a, b) == [u \in Unit |-> a[u] + b[u]]
Carries(b, u) == b.bytes[u] > 0

\* A batch as the agent makes it; only compaction lists other batches.
NewBatch(k, t, U, H) ==
    [id |-> <<k, t>>, bytes |-> [u \in Unit |-> IF u \in U THEN 1 ELSE 0],
     compacted |-> {}, health |-> H]

IsSummary(b) == b.id[1] = "minute-summary"
interfaceOnly(b) == b.id[1] \in {"batch", "minute-summary"}
protectedBatch(b) == interfaceOnly(b) \/ b.id[1] = "health-batch"

=============================================================================

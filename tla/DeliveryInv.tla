---------------------------- MODULE DeliveryInv ----------------------------
(***************************************************************************)
(* The inductive invariant behind the theorems of DeliveryProofs on one    *)
(* agent: what the checkpoint, the memory of App and the spool know of each*)
(* other wherever the agent is killed or an I/O operation fails.           *)
(***************************************************************************)
EXTENDS AgentDelivery

\* What the agent's invariant needs to know of the spool's.
SpoolKnown ==
    /\ files \subseteq [at : Int, batch : Batch]
    /\ report.dropped \in Nat /\ report.pressured \in BOOLEAN
    /\ submitted \subseteq Batch /\ acked \subseteq Unit
    /\ \A b \in submitted : /\ b.id[1] = "batch"
                            /\ \A u \in Unit : b.bytes[u] \in {0, 1}
    /\ \A b, c \in submitted : b # c =>
          b.id # c.id /\ \A u \in Unit : ~(Carries(b, u) /\ Carries(c, u))
    /\ \A f \in files : /\ f.batch.id[1] = "batch" => f.batch \in submitted
                        /\ ~interfaceOnly(f.batch) => \A u \in Unit : ~Carries(f.batch, u)
    /\ \A b \in submitted, u \in Unit :
          Carries(b, u) => u \in acked \/ \E f \in files : Carries(f.batch, u)

\* recoverCounterState has queued the pending batch and has not returned.
InRecovery == pc = "recovered" \/ (pc \in {"enqueue", "health"} /\ caller = "recover")

\* Sample has queued its batch and has not cleared it in the checkpoint.
InSample == pc = "clear" \/ (pc = "enqueue" /\ caller = "sample" /\ ~inHealth)

\* No batch is on its way from the counters to the spool.
Quiet == {"down", "main", "drain", "send", "ack"}

\* What is known of the flow of control.
PlaceInv ==
    /\ pc \in {"recovered", "clear", "health"} => ~inHealth
    /\ pc = "recovered" => caller = "recover"
    /\ pc = "clear" => caller = "sample"
    /\ pc \in {"read", "queue", "clear"} => stateLoaded
    /\ pc \in {"enqueue", "health"} /\ caller = "sample" => stateLoaded
    /\ InRecovery => ~stateLoaded
    /\ pc \in {"load", "recovered", "read", "queue", "clear", "enqueue", "health"} => observedAt >= 0

\* The instants that the calls of Enqueue have taken since the tick.
Spent ==
    CASE pc = "load" -> -1
      [] pc \in {"enqueue", "recovered", "clear", "health"} ->
            (IF caller = "sample" THEN 2 ELSE 0) + (IF inHealth THEN 1 ELSE 0)
      [] pc \in {"read", "queue"} -> 1
      [] OTHER -> 3

ClockInv ==
    /\ now \in Nat /\ now <= MaxTime + Spent
    /\ -1 <= observedAt /\ observedAt <= now

CounterInv ==
    /\ 0 <= counter /\ counter <= TopUnit
    /\ NoCounter <= previous /\ previous <= counter
    /\ NoCounter <= checkpoint.counters /\ checkpoint.counters <= counter
    /\ ~checkpoint.found => checkpoint.counters = NoCounter /\ checkpoint.pending = {}
    /\ checkpoint.found => 0 <= checkpoint.counters
    /\ InRecovery => checkpoint.found
    /\ pc = "queue" \/ InSample =>
          /\ NoCounter < previous /\ previous < current
          /\ current = checkpoint.counters

\* Time and traffic of what was queued.
QueuedInv ==
    \A b \in submitted :
        /\ b.id[1] = "batch" /\ b.id[2] <= observedAt
        /\ pc \in {"load", "read", "queue"} \/ InRecovery => b.id[2] < observedAt
        /\ \A u \in Unit : Carries(b, u) =>
              /\ u <= checkpoint.counters
              /\ stateLoaded /\ ~InSample => u <= previous

\* The batch in the checkpoint has been queued, or may be as a new one.
PendingInv ==
    /\ \A b, c \in checkpoint.pending : b = c
    /\ \A b \in checkpoint.pending :
          /\ \E U \in SUBSET Unit : U # {} /\ b = NewBatch("batch", b.id[2], U, {})
          /\ 0 <= b.id[2] /\ b.id[2] <= observedAt
          /\ pc = "load" \/ InRecovery => b.id[2] < observedAt
          /\ \A u \in Unit : Carries(b, u) => u <= checkpoint.counters
          /\ b \in submitted \/ Queue!IsNew(b)
    /\ pc = "queue" => checkpoint.pending = {Delta(previous, current)}
    /\ InSample \/ InRecovery => checkpoint.pending \subseteq submitted

Queued(u) == \E b \in submitted : Carries(b, u)

\* Nothing is left out between the first checkpoint and the present one.
CoveredInv ==
    established =>
        /\ checkpoint.found
        /\ \A u \in Unit : baseline < u /\ u <= checkpoint.counters =>
              Queued(u) \/ \E b \in checkpoint.pending : Carries(b, u)
        /\ stateLoaded => previous # NoCounter
        /\ stateLoaded => \A u \in Unit : baseline < u /\ u <= previous => Queued(u)

DataInv ==
    /\ PlaceInv
    /\ ClockInv
    /\ CounterInv
    /\ QueuedInv
    /\ PendingInv
    /\ CoveredInv

\* What eviction may take.
Details == {f \in files : f.batch.id[1] = "detail"}

\* A report counts details that were queued, each in an instant of its own.
DropInv ==
    /\ IsFiniteSet(files) /\ Cardinality(Details) \in Nat
    /\ report.dropped + Cardinality(Details) <= now
    /\ report.dropped + Cardinality(Details) <= MaxTime

\* The health events that are waiting in the spool or have been stored.
Told == collectorHealth \cup
            UNION {{healthEvent(self, f.batch, h) : h \in f.batch.health} : f \in files}

\* What the last report counts and no event tells yet.
Untold ==
    IF pc \in {"recovered", "clear", "health"} \/ (pc = "enqueue" /\ ~inHealth)
    THEN report.dropped ELSE 0

\* Every eviction is told once at most, and not before it is in a report.
GapInv ==
    /\ dropped \in Nat
    /\ IsFiniteSet(GapUnits(Told))
    /\ Cardinality(GapUnits(Told)) + Untold <= dropped

AgentInv == TypeOK /\ DataInv /\ DropInv

-----------------------------------------------------------------------------

Stored(b) == <<self, b.id>> \in ingestBatches

\* As long as the server has stored no summary, its totals are those of the
\* samples it has stored, and these include what was acknowledged.
TotalsInv ==
    ~SummaryStored =>
        /\ \A u \in Unit : trafficMinute[self][u] =
              IF \E b \in submitted : Stored(b) /\ Carries(b, u) THEN 1 ELSE 0
        /\ \A u \in acked : \E b \in submitted : Stored(b) /\ Carries(b, u)
        /\ \A d \in interfaceDeltas : \E b \in submitted :
              Stored(b) /\ d = interfaceEventID(self, b)

ServerInv ==
    /\ \A x \in ingestBatches :
          /\ x[2][1] = "minute-summary" => SummaryStored
          /\ x[2][1] = "batch" => \E b \in submitted : x[2] = b.id
    /\ TotalsInv
    /\ pc = "ack" => \A f \in files : Queue!IsOldest(f, files) => Stored(f.batch)

=============================================================================

------------------------------ MODULE SpoolInv ------------------------------
(***************************************************************************)
(* The inductive invariant behind the theorems of SpoolProofs, and the     *)
(* reasons the limits and the contents of the spool survive an Enqueue     *)
(* that may stop between any two of its steps.                             *)
(***************************************************************************)
EXTENDS Spool

IsSample(b) == b.id[1] = "batch"

\* Interface batches are told apart by their identifier, and no two of them
\* carry the same traffic.
SubmittedInv ==
    /\ \A b \in submitted : /\ IsSample(b)
                            /\ b.id[2] <= now
                            /\ \A u \in Unit : b.bytes[u] \in {0, 1}
    /\ \A b, c \in submitted : b # c =>
          /\ b.id # c.id
          /\ \A u \in Unit : ~(Carries(b, u) /\ Carries(c, u))

\* s holds the traffic of the batches it lists, each once.
Exact(s) ==
    /\ IsSummary(s)
    /\ \A i \in s.compacted : \E b \in submitted : b.id = i
    /\ \A u \in Unit : s.bytes[u] = IF Lists(s, u) THEN 1 ELSE 0

\* What a file may contain.  A sample is queued after it was observed, so the
\* summary of its minute sorts before it.
FilesInv ==
    /\ \A f \in files :
          /\ IsSample(f.batch) => /\ f.batch \in submitted
                                  /\ f.at >= Minute(f.batch.id[2])
          /\ IsSummary(f.batch) => f.at = f.batch.id[2] /\ Exact(f.batch)
          /\ ~interfaceOnly(f.batch) => \A u \in Unit : ~Carries(f.batch, u)
    /\ \A f, g \in files : IsSummary(f.batch) /\ f.batch.id = g.batch.id => f = g

SummariesInv ==
    /\ \A s \in summaries : Exact(s)
    /\ \A s, t \in summaries : s.id = t.id => s = t

\* The loop of compactExpiredInterfaces has looked at files \ todo.
ScanInv ==
    /\ todo \subseteq files
    /\ \A f \in files \ todo, g \in todo : Before(f, g)
    /\ \A f \in files \ todo :
          /\ IsSummary(f.batch) =>
                \E s \in summaries : /\ s.id = f.batch.id
                                     /\ f.batch.compacted \subseteq s.compacted
          /\ IsSample(f.batch) /\ Expired(f) => f \in remove
    /\ \A f \in remove :
          /\ f \in files \ todo
          /\ IsSample(f.batch)
          /\ \E s \in summaries :
                /\ s.id = minuteSummaryBatchID(Minute(f.batch.id[2]))
                /\ f.batch.id \in s.compacted

\* Every file to be removed is listed by a summary on disk or still to be
\* written, and a summary to be written lists all that the one it replaces does.
WriteInv ==
    /\ \A s \in summaries, f \in files :
          f.batch.id = s.id => f.batch.compacted \subseteq s.compacted
    /\ \A f \in files : IsSample(f.batch) /\ Expired(f) => f \in remove
    /\ \A f \in remove :
          /\ f \in files
          /\ IsSample(f.batch)
          /\ \/ \E s \in summaries : f.batch.id \in s.compacted
             \/ \E g \in files : IsSummary(g.batch) /\ f.batch.id \in g.batch.compacted

RemoveInv ==
    /\ \A f \in files : IsSample(f.batch) /\ Expired(f) => f \in remove
    /\ \A f \in remove :
          /\ IsSample(f.batch)
          /\ f.batch \in submitted
          /\ \E g \in files : IsSummary(g.batch) /\ f.batch.id \in g.batch.compacted

\* Summaries carry interface traffic only.
SummariesPlain ==
    /\ \A s \in summaries : s.health = {}
    /\ \A f \in files : IsSummary(f.batch) => f.batch.health = {}

\* What eviction may take.
Details == {f \in files : f.batch.id[1] = "detail"}

EvictInv == \A f \in files : IsSample(f.batch) => ~Expired(f)

\* The inductive invariant: it implies Durable, SummaryExact and LimitsEnforced
\* and is preserved by every step of the spool (spool.go:72-297).
IInv ==
    /\ TypeOK
    /\ SubmittedInv
    /\ FilesInv
    /\ Durable
    /\ phase \in {"scan", "write"} => SummariesInv
    /\ phase = "scan" => ScanInv
    /\ phase = "write" => WriteInv
    /\ phase = "remove" => RemoveInv
    /\ phase \in {"evict", "done"} => EvictInv
    /\ LimitsEnforced

=============================================================================

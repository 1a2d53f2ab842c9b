----------------------------- MODULE ManyAgents -----------------------------
(***************************************************************************)
(* The server fed by several agents.  Each agent sends the batches of Sent *)
(* in any order and as often as its retries make it; the history answered  *)
(* collects the ones the server answered with "accepted" or "duplicate",   *)
(* which is when an agent forgets a batch.                                 *)
(***************************************************************************)
EXTENDS Ingest

CONSTANT Sent   \* pairs of a node and a batch it sends

\* A sample has its identifier and its traffic to itself among the samples of its
\* node, and summaries of different minutes share no traffic.  Anything else may
\* be sent twice: a summary carries what samples have carried, the summary of a
\* minute that grows or is written again keeps its identifier, and so do the
\* reports of one tick.
ASSUME SentAssumption ==
    /\ Sent \subseteq Node \X Batch
    /\ \A p, q \in Sent : p # q /\ p[1] = q[1] /\ p[2].id[1] = q[2].id[1] =>
        /\ p[2].id[1] = "batch" => p[2].id # q[2].id
        /\ p[2].id = q[2].id \/ \A u \in Unit : ~(Carries(p[2], u) /\ Carries(q[2], u))
    /\ \A p \in Sent :
        /\ \A u \in Unit : p[2].bytes[u] <= IF interfaceOnly(p[2]) THEN 1 ELSE 0
        /\ p[2].health # {} => p[2].id[1] = "health-batch"

VARIABLE answered

ManyInit == IngestInit /\ answered = {}

\* POST /api/v1/agent/batches, answered 202 or 200.  A request that fails
\* (4xx, 5xx, rollback) changes nothing.
Deliver(n, b) ==
    /\ InsertBatch(n, b)
    /\ answered' = answered \cup {<<n, b>>}

ManyNext == \E p \in Sent : Deliver(p[1], p[2])

ManySpec == ManyInit /\ [][ManyNext]_<<ingestVars, answered>>

-----------------------------------------------------------------------------

TablesOK ==
    /\ lastSeen \in [Node -> Int]
    /\ ingestBatches \subseteq Node \X BatchID
    /\ trafficMinute \in [Node -> Bytes]
    /\ answered \subseteq Sent

\* q is p, or another version of it: the server cannot tell them apart.
SameID(p, q) == p[1] = q[1] /\ p[2].id = q[2].id

\* Of the batches that were answered under one identifier, one is in the totals
\* with all its traffic, whatever else shares its traffic, its minute or its
\* instant.  So a batch with an identifier of its own is not swallowed, and a
\* summary only by an earlier version of itself (postgres.go:57-95,
\* event.go:227-250, spool.go:258-282).
AnsweredCounted ==
    \A p \in answered : \E q \in answered :
        /\ SameID(p, q)
        /\ \A u \in Unit : Carries(q[2], u) => trafficMinute[q[1]][u] > 0

AnsweredAs(k, n, u) == \E p \in answered : p[1] = n /\ p[2].id[1] = k /\ Carries(p[2], u)
One(P) == IF P THEN 1 ELSE 0

\* However often batches are retried and summaries are sent in new versions,
\* traffic is counted at most once as a sample and once in its minute's summary,
\* and only for the node that sent it.
CountedAtMost ==
    \A n \in Node, u \in Unit :
        trafficMinute[n][u] <=
            One(AnsweredAs("batch", n, u)) + One(AnsweredAs("minute-summary", n, u))

\* Of the reports that were answered under one identifier, one is stored with all
\* its events (event.go:209-218).  The reports of one tick have one identifier
\* (app.go:199-219).
HealthStored ==
    \A p \in answered : \E q \in answered :
        /\ SameID(p, q)
        /\ \A h \in q[2].health : healthEvent(q[1], q[2], h) \in collectorHealth

=============================================================================

------------------------------- MODULE Ingest -------------------------------
(***************************************************************************)
(* What the server does with a batch: ServeHTTP of internal/server/ingest  *)
(* and InsertBatch of internal/server/store, with the two kinds of event   *)
(* that delivery is judged by, interface deltas and spool health.          *)
(*                                                                         *)
(* InsertBatch is one database transaction: it takes effect completely or, *)
(* when any statement fails, not at all, and two inserts of the same key   *)
(* wait for each other at the unique index.  Inserting is one action here; *)
(* the answer to the agent may be lost afterwards.                         *)
(***************************************************************************)
EXTENDS Batches

CONSTANTS
    Node,         \* agents
    Interface     \* Interface[n]: the name of the interface node n counts on

VARIABLES
    lastSeen,         \* nodes.last_seen_at, per node (-1: no row)
    ingestBatches,    \* ingest_batches, keys <<node_id, batch_id>>
    interfaceDeltas,  \* interface_deltas, keys <<event_id, observed_at>>
    trafficMinute,    \* traffic_minute, summed over the minutes, per node
    collectorHealth   \* collector_health of the spool collector

ingestVars == <<lastSeen, ingestBatches, interfaceDeltas, trafficMinute, collectorHealth>>

-----------------------------------------------------------------------------

\* Faulty variant: a summary is named like a sample.
eventIDWithoutKind(n, b) == <<"interface", Interface[n], b.id[2]>>

\* The event_id of a batch's interface event and its observed_at.  Neither
\* directionDelta nor mergeInterfaceEvent puts the node into it.
interfaceEventID(n, b) ==
    IF IsSummary(b) THEN <<"minute-interface", Interface[n], b.id[2]>>
                    ELSE <<"interface", Interface[n], b.id[2]>>

\* The event_id of a spool health event hashes node, code and time.
healthEvent(n, b, h) == [node |-> n, at |-> b.id[2], code |-> h.code, dropped |-> h.dropped]

\* Faulty variant: the time is not part of the identifier.
SameHealthCode(e, f) == e.node = f.node /\ e.code = f.code

SameHealthID(e, f) == e.node = f.node /\ e.at = f.at /\ e.code = f.code

Later(s, t) == IF s < t THEN t ELSE s

\* Faulty variant: the total is found by its minute alone.
insertInterfaceDeltaOfAll(n, b) ==
    IF interfaceOnly(b) /\ interfaceEventID(n, b) \notin interfaceDeltas
    THEN /\ interfaceDeltas' = interfaceDeltas \cup {interfaceEventID(n, b)}
         /\ trafficMinute' = [m \in Node |-> Plus(trafficMinute[m], b.bytes)]
    ELSE UNCHANGED <<interfaceDeltas, trafficMinute>>

insertInterfaceDelta(n, b) ==
    IF interfaceOnly(b) /\ interfaceEventID(n, b) \notin interfaceDeltas
    THEN /\ interfaceDeltas' = interfaceDeltas \cup {interfaceEventID(n, b)}
         /\ trafficMinute' = [trafficMinute EXCEPT ![n] = Plus(@, b.bytes)]
    ELSE UNCHANGED <<interfaceDeltas, trafficMinute>>

insertHealth(n, b) ==
    collectorHealth' = collectorHealth \cup
        {e \in {healthEvent(n, b, h) : h \in b.health} :
            \A f \in collectorHealth : ~SameHealthID(e, f)}

\* The node is marked as seen even by a duplicate.
InsertBatch(n, b) ==
    /\ lastSeen' = [lastSeen EXCEPT ![n] = Later(@, b.id[2])]
    /\ IF <<n, b.id>> \in ingestBatches
       THEN UNCHANGED <<ingestBatches, interfaceDeltas, trafficMinute, collectorHealth>>
       ELSE /\ ingestBatches' = ingestBatches \cup {<<n, b.id>>}
            /\ insertInterfaceDelta(n, b)
            /\ insertHealth(n, b)

IngestInit ==
    /\ lastSeen = [n \in Node |-> -1]
    /\ ingestBatches = {}
    /\ interfaceDeltas = {}
    /\ trafficMinute = [n \in Node |-> NoBytes]
    /\ collectorHealth = {}

=============================================================================

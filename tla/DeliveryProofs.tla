--------------------------- MODULE DeliveryProofs ---------------------------
(***************************************************************************)
(* Theorems on delivery.  Of the batches that any number of agents send    *)
(* under one identifier the server counts or stores one, and it counts     *)
(* nothing twice in the same way.  The first needs that interface events   *)
(* of different nodes have different identifiers, which two agents whose   *)
(* interfaces have the same name break.                                    *)
(*                                                                         *)
(* One agent uses the spool as its specification expects, loses no traffic *)
(* wherever it is killed and whatever write fails, and is counted once     *)
(* until a summary is stored.                                              *)
(***************************************************************************)
EXTENDS DeliveryInv, ManyAgents, TLAPS

-----------------------------------------------------------------------------
(* The server and many agents                                              *)

\* Interface events of different nodes have different identifiers.
EventsDistinct ==
    \A p, q \in Sent :
        p[1] # q[1] /\ interfaceOnly(p[2]) /\ interfaceOnly(q[2])
            => interfaceEventID(p[1], p[2]) # interfaceEventID(q[1], q[2])

\* What the guards of InsertBatch and of the inserts of events know: what was
\* answered, by identifier.
GuardsKnow ==
    /\ \A p \in answered : <<p[1], p[2].id>> \in ingestBatches
    /\ \A x \in ingestBatches : \E p \in answered : x = <<p[1], p[2].id>>
    /\ \A x \in interfaceDeltas : \E p \in answered :
          interfaceOnly(p[2]) /\ x = interfaceEventID(p[1], p[2])
    /\ \A e \in collectorHealth : \E p \in answered : \E h \in p[2].health :
          e = healthEvent(p[1], p[2], h)

\* Sums of bytes are bytes.
LEMMA PlusType == \A a, b \in Bytes : Plus(a, b) \in Bytes
BY DEF Plus, Bytes

\* The tables have their types (postgres.go:38-95).
LEMMA TablesTyped == ManySpec => []TablesOK
<1>1. ManyInit => TablesOK
  BY DEF ManyInit, IngestInit, TablesOK, NoBytes, Bytes
<1>2. TablesOK /\ [ManyNext]_<<ingestVars, answered>> => TablesOK'
  <2> SUFFICES ASSUME TablesOK, ManyNext PROVE TablesOK'
    BY DEF ingestVars, TablesOK
  <2>1. PICK p \in Sent : Deliver(p[1], p[2])
    BY DEF ManyNext
  <2>2. p[1] \in Node /\ p[2].id \in BatchID /\ p[2].id[2] \in Int /\ p[2].bytes \in Bytes
    BY SentAssumption DEF Batch, BatchID
  <2>3. p = <<p[1], p[2]>>
    BY SentAssumption
  <2>4. lastSeen' \in [Node -> Int]
    BY <2>1, <2>2 DEF Deliver, InsertBatch, Later, TablesOK
  <2>5. ingestBatches' \subseteq Node \X BatchID
    BY <2>1, <2>2 DEF Deliver, InsertBatch, TablesOK
  <2>6. trafficMinute' \in [Node -> Bytes]
    BY <2>1, <2>2, PlusType DEF Deliver, InsertBatch, insertInterfaceDelta, TablesOK
  <2>7. answered' \subseteq Sent
    BY <2>1, <2>3 DEF Deliver, TablesOK
  <2>8. QED
    BY <2>4, <2>5, <2>6, <2>7 DEF TablesOK
<1>3. QED
  BY <1>1, <1>2, PTL DEF ManySpec

\* What a first delivery does and a repeated one leaves alone.
LEMMA DeliverEffect ==
    ASSUME TablesOK, NEW p \in Sent, Deliver(p[1], p[2])
    PROVE  /\ answered' = answered \cup {p}
           /\ <<p[1], p[2].id>> \in ingestBatches =>
                UNCHANGED <<ingestBatches, interfaceDeltas, trafficMinute, collectorHealth>>
           /\ <<p[1], p[2].id>> \notin ingestBatches =>
                /\ ingestBatches' = ingestBatches \cup {<<p[1], p[2].id>>}
                /\ insertInterfaceDelta(p[1], p[2])
                /\ insertHealth(p[1], p[2])
<1>1. p = <<p[1], p[2]>>
  BY SentAssumption
<1>2. QED
  BY <1>1 DEF Deliver, InsertBatch

\* GuardsKnow are kept by every delivery.
LEMMA GuardsKept == TablesOK /\ GuardsKnow /\ [ManyNext]_<<ingestVars, answered>> => GuardsKnow'
<1> SUFFICES ASSUME TablesOK, GuardsKnow, ManyNext PROVE GuardsKnow'
  BY DEF ingestVars, GuardsKnow
<1>1. PICK p \in Sent : Deliver(p[1], p[2])
  BY DEF ManyNext
<1>2. answered' = answered \cup {p}
  BY Zenon, <1>1, DeliverEffect
<1>3. CASE <<p[1], p[2].id>> \in ingestBatches
  BY <1>1, <1>2, <1>3, DeliverEffect DEF GuardsKnow
<1>4. CASE <<p[1], p[2].id>> \notin ingestBatches
  <2>1. ingestBatches' = ingestBatches \cup {<<p[1], p[2].id>>}
    BY Zenon, <1>1, <1>4, DeliverEffect
  <2>2. ASSUME NEW x \in interfaceDeltas'
        PROVE  \E q \in answered' : interfaceOnly(q[2]) /\ x = interfaceEventID(q[1], q[2])
    <3>1. x \in interfaceDeltas \/ (interfaceOnly(p[2]) /\ x = interfaceEventID(p[1], p[2]))
      BY <1>1, <1>4, <2>2, DeliverEffect DEF insertInterfaceDelta
    <3>2. QED
      BY <1>2, <3>1 DEF GuardsKnow
  <2>3. ASSUME NEW e \in collectorHealth'
        PROVE  \E q \in answered' : \E h \in q[2].health : e = healthEvent(q[1], q[2], h)
    <3>1. e \in collectorHealth \/ \E h \in p[2].health : e = healthEvent(p[1], p[2], h)
      BY <1>1, <1>4, <2>3, DeliverEffect DEF insertHealth
    <3>2. QED
      BY <1>2, <3>1 DEF GuardsKnow
  <2>4. /\ \A q \in answered' : <<q[1], q[2].id>> \in ingestBatches'
        /\ \A x \in ingestBatches' : \E q \in answered' : x = <<q[1], q[2].id>>
    BY Zenon, <1>2, <2>1 DEF GuardsKnow
  <2>5. QED
    BY <2>2, <2>3, <2>4 DEF GuardsKnow, interfaceOnly, interfaceEventID, healthEvent, IsSummary
<1>5. QED
  BY <1>3, <1>4

\* A batch that is taken for a duplicate is one: another version was answered.
LEMMA DuplicateOf ==
    ASSUME GuardsKnow, NEW p \in Sent
    PROVE  <<p[1], p[2].id>> \in ingestBatches <=> \E q \in answered : SameID(p, q)
BY DEF GuardsKnow, SameID

\* A batch that is not taken for a duplicate finds its events unknown.
LEMMA EventsFresh ==
    ASSUME TablesOK, GuardsKnow, NEW p \in Sent, <<p[1], p[2].id>> \notin ingestBatches
    PROVE  /\ EventsDistinct /\ interfaceOnly(p[2]) => interfaceEventID(p[1], p[2]) \notin interfaceDeltas
           /\ \A h \in p[2].health, f \in collectorHealth : ~SameHealthID(healthEvent(p[1], p[2], h), f)
<1>0. \A q \in Sent : q[2].id \in BatchID /\ q[2].id = <<q[2].id[1], q[2].id[2]>>
  BY SentAssumption DEF Batch, BatchID
<1>1. \A q \in answered : q \in Sent /\ ~SameID(p, q)
  BY DuplicateOf DEF TablesOK
<1>2. ASSUME EventsDistinct, interfaceOnly(p[2]), interfaceEventID(p[1], p[2]) \in interfaceDeltas
      PROVE  FALSE
  <2>1. PICK q \in answered : interfaceOnly(q[2]) /\ interfaceEventID(p[1], p[2]) = interfaceEventID(q[1], q[2])
    BY Zenon, <1>2 DEF GuardsKnow
  <2>2. q[1] = p[1]
    BY <1>1, <1>2, <2>1 DEF EventsDistinct
  <2>3. p[2].id[1] = q[2].id[1] /\ p[2].id[2] = q[2].id[2]
    BY <1>2, <2>1 DEF interfaceEventID, interfaceOnly, IsSummary
  <2>4. QED
    BY <1>0, <1>1, <2>2, <2>3 DEF SameID
<1>3. ASSUME NEW h \in p[2].health, NEW f \in collectorHealth, SameHealthID(healthEvent(p[1], p[2], h), f)
      PROVE  FALSE
  <2>1. PICK q \in answered : \E g \in q[2].health : f = healthEvent(q[1], q[2], g)
    BY DEF GuardsKnow
  <2>2. q \in Sent /\ q[2].id[1] = "health-batch" /\ p[2].id[1] = "health-batch"
    BY <1>1, <1>3, <2>1, SentAssumption
  <2>3. q[1] = p[1] /\ q[2].id[2] = p[2].id[2]
    BY <1>3, <2>1 DEF SameHealthID, healthEvent
  <2>4. QED
    BY <1>0, <1>1, <2>2, <2>3 DEF SameID
<1>4. QED
  BY Zenon, <1>2, <1>3

\* What a delivery does to a total: nothing, or it adds what the batch carries;
\* and it does add the traffic of a batch whose event is new.
LEMMA TotalAfter ==
    ASSUME TablesOK, NEW p \in Sent, Deliver(p[1], p[2]), NEW n \in Node, NEW u \in Unit
    PROVE  /\ trafficMinute[n][u] \in Nat
           /\ trafficMinute'[n][u] \in {trafficMinute[n][u], trafficMinute[n][u] + 1}
           /\ trafficMinute'[n][u] # trafficMinute[n][u] =>
                /\ <<p[1], p[2].id>> \notin ingestBatches
                /\ p[1] = n /\ Carries(p[2], u) /\ interfaceOnly(p[2])
           /\ /\ <<p[1], p[2].id>> \notin ingestBatches
              /\ p[1] = n /\ Carries(p[2], u)
              /\ interfaceEventID(p[1], p[2]) \notin interfaceDeltas
              => trafficMinute'[n][u] = trafficMinute[n][u] + 1
<1>1. p[1] \in Node /\ p[2].bytes[u] \in Nat /\ trafficMinute[n][u] \in Nat
  BY SentAssumption DEF TablesOK, Batch, Bytes
<1>2. p[2].bytes[u] = IF Carries(p[2], u) THEN 1 ELSE 0
  BY <1>1, SentAssumption DEF Carries
<1>3. Carries(p[2], u) => interfaceOnly(p[2])
  BY <1>1, SentAssumption DEF Carries
<1>4. CASE trafficMinute' = [trafficMinute EXCEPT ![p[1]] = Plus(@, p[2].bytes)]
  <2>1. trafficMinute'[n][u] = IF p[1] = n THEN trafficMinute[n][u] + p[2].bytes[u] ELSE trafficMinute[n][u]
    BY <1>1, <1>4 DEF TablesOK, Plus
  <2>2. trafficMinute'[n][u] = trafficMinute[n][u] + (IF p[1] = n /\ Carries(p[2], u) THEN 1 ELSE 0)
    BY <1>1, <1>2, <2>1
  <2>3. <<p[1], p[2].id>> \in ingestBatches => trafficMinute' = trafficMinute
    BY Zenon, DeliverEffect
  <2>4. QED
    BY <1>1, <1>3, <2>2, <2>3
<1>5. CASE trafficMinute' = trafficMinute
  <2>1. ~(/\ <<p[1], p[2].id>> \notin ingestBatches
          /\ p[1] = n /\ Carries(p[2], u)
          /\ interfaceEventID(p[1], p[2]) \notin interfaceDeltas)
    <3>1. SUFFICES ASSUME <<p[1], p[2].id>> \notin ingestBatches, p[1] = n, Carries(p[2], u),
                          interfaceEventID(p[1], p[2]) \notin interfaceDeltas
                   PROVE  FALSE
      OBVIOUS
    <3>2. trafficMinute' = [trafficMinute EXCEPT ![p[1]] = Plus(@, p[2].bytes)]
      BY Zenon, <1>3, <3>1, DeliverEffect DEF insertInterfaceDelta
    <3>3. trafficMinute'[n][u] = trafficMinute[n][u] + 1
      BY <1>1, <1>2, <3>1, <3>2 DEF TablesOK, Plus
    <3>4. QED
      BY <1>1, <1>5, <3>3
  <2>2. QED
    BY <1>1, <1>5, <2>1
<1>6. QED
  BY Zenon, <1>4, <1>5, DeliverEffect DEF insertInterfaceDelta

\* A delivery leaves one version of every answered batch counted.
LEMMA AnsweredKept ==
    ASSUME EventsDistinct, TablesOK, GuardsKnow, AnsweredCounted, ManyNext
    PROVE  AnsweredCounted'
<1>1. PICK p \in Sent : Deliver(p[1], p[2])
  BY DEF ManyNext
<1>2. answered' = answered \cup {p} /\ answered \subseteq Sent
  BY Zenon, <1>1, DeliverEffect DEF TablesOK
<1> DEFINE Counted(q, total) == \A u \in Unit : Carries(q[2], u) => total[q[1]][u] > 0
<1>3. ASSUME NEW q \in answered, Counted(q, trafficMinute) PROVE Counted(q, trafficMinute')
  <2>1. q[1] \in Node
    BY <1>2, SentAssumption
  <2>2. ASSUME NEW u \in Unit, Carries(q[2], u) PROVE trafficMinute'[q[1]][u] > 0
    <3>1. trafficMinute[q[1]][u] > 0
      BY <1>3, <2>2
    <3>2. /\ trafficMinute[q[1]][u] \in Nat
          /\ trafficMinute'[q[1]][u] \in {trafficMinute[q[1]][u], trafficMinute[q[1]][u] + 1}
      BY Zenon, <1>1, <2>1, TotalAfter
    <3>3. QED
      BY <3>1, <3>2
  <2>3. QED
    BY Zenon, <2>2
<1>4. ASSUME NEW q \in answered
      PROVE  \E r \in answered' : SameID(q, r) /\ Counted(r, trafficMinute')
  <2>1. PICK r \in answered : SameID(q, r) /\ Counted(r, trafficMinute)
    BY DEF AnsweredCounted
  <2>2. QED
    BY Zenon, <1>2, <1>3, <2>1
<1>5. \E r \in answered' : SameID(p, r) /\ Counted(r, trafficMinute')
  <2>1. CASE <<p[1], p[2].id>> \in ingestBatches
    <3>1. PICK q \in answered : SameID(p, q)
      BY Zenon, <2>1, DuplicateOf
    <3>2. PICK r \in answered' : SameID(q, r) /\ Counted(r, trafficMinute')
      BY Zenon, <1>4, <3>1
    <3>3. SameID(p, r)
      BY <3>1, <3>2 DEF SameID
    <3>4. QED
      BY Zenon, <3>2, <3>3
  <2>2. CASE <<p[1], p[2].id>> \notin ingestBatches
    <3>1. ASSUME NEW u \in Unit, Carries(p[2], u) PROVE trafficMinute'[p[1]][u] > 0
      <4>1. p[1] \in Node /\ p[2].bytes[u] \in Nat
        BY SentAssumption DEF Batch, Bytes
      <4>2. interfaceOnly(p[2])
        BY <3>1, <4>1, SentAssumption DEF Carries
      <4>3. interfaceEventID(p[1], p[2]) \notin interfaceDeltas
        BY Zenon, <2>2, <4>2, EventsFresh
      <4>4. QED
        BY <1>1, <2>2, <3>1, <4>1, <4>3, TotalAfter
    <3>2. SameID(p, p)
      BY DEF SameID
    <3>3. QED
      BY Zenon, <1>2, <3>1, <3>2
  <2>3. QED
    BY <2>1, <2>2
<1>6. QED
  BY <1>2, <1>4, <1>5 DEF AnsweredCounted, SameID, Carries

\* A delivery counts nothing that was counted in the same way.
LEMMA AtMostKept ==
    ASSUME TablesOK, GuardsKnow, CountedAtMost, ManyNext
    PROVE  CountedAtMost'
<1>1. PICK p \in Sent : Deliver(p[1], p[2])
  BY DEF ManyNext
<1>2. answered' = answered \cup {p} /\ answered \subseteq Sent
  BY Zenon, <1>1, DeliverEffect DEF TablesOK
<1> SUFFICES ASSUME NEW n \in Node, NEW u \in Unit
             PROVE  trafficMinute'[n][u] <=
                      One(AnsweredAs("batch", n, u)') + One(AnsweredAs("minute-summary", n, u)')
  BY DEF CountedAtMost, One, AnsweredAs, Carries
<1>3. /\ AnsweredAs("batch", n, u) => AnsweredAs("batch", n, u)'
      /\ AnsweredAs("minute-summary", n, u) => AnsweredAs("minute-summary", n, u)'
  BY Zenon, <1>2 DEF AnsweredAs, Carries
<1>4. trafficMinute[n][u] <= One(AnsweredAs("batch", n, u)) + One(AnsweredAs("minute-summary", n, u))
  BY DEF CountedAtMost
<1>5. CASE trafficMinute'[n][u] = trafficMinute[n][u]
  <2>1. trafficMinute[n][u] \in Nat
    BY Zenon, <1>1, TotalAfter
  <2>2. QED
    BY <1>3, <1>4, <1>5, <2>1 DEF One
<1>6. CASE trafficMinute'[n][u] # trafficMinute[n][u]
  <2>1. /\ <<p[1], p[2].id>> \notin ingestBatches
        /\ p[1] = n /\ Carries(p[2], u) /\ interfaceOnly(p[2])
        /\ trafficMinute'[n][u] = trafficMinute[n][u] + 1 /\ trafficMinute[n][u] \in Nat
    BY <1>1, <1>6, TotalAfter
  <2>2. p[2].id[1] \in {"batch", "minute-summary"}
    BY <2>1 DEF interfaceOnly
  <2>3. ~AnsweredAs(p[2].id[1], n, u)
    <3>1. SUFFICES ASSUME NEW q \in answered, q[1] = n, q[2].id[1] = p[2].id[1], Carries(q[2], u)
                   PROVE  FALSE
      BY DEF AnsweredAs
    <3>2. ~SameID(p, q)
      BY <2>1, DuplicateOf
    <3>3. q \in Sent /\ p # q /\ p[2].id # q[2].id
      BY <1>2, <2>1, <3>1, <3>2 DEF SameID
    <3>4. QED
      BY <2>1, <3>1, <3>3, SentAssumption
  <2>4. AnsweredAs(p[2].id[1], n, u)'
    BY <1>2, <2>1 DEF AnsweredAs, Carries
  <2>5. QED
    BY <1>3, <1>4, <2>1, <2>2, <2>3, <2>4 DEF One
<1>7. QED
  BY <1>5, <1>6

\* Of the batches answered under one identifier, one is counted with all its
\* traffic (postgres.go:57-95, event.go:227-250), as long as nodes are told apart
\* by the names of their interfaces.
THEOREM EachAnsweredCounted == EventsDistinct /\ ManySpec => []AnsweredCounted
<1> SUFFICES ASSUME EventsDistinct PROVE ManySpec => []AnsweredCounted
  OBVIOUS
<1>1. ManyInit => AnsweredCounted /\ GuardsKnow
  BY DEF ManyInit, IngestInit, AnsweredCounted, GuardsKnow
<1>2. TablesOK /\ GuardsKnow /\ AnsweredCounted /\ [ManyNext]_<<ingestVars, answered>> => AnsweredCounted'
  <2>1. CASE UNCHANGED <<ingestVars, answered>>
    BY <2>1 DEF ingestVars, AnsweredCounted, SameID, Carries
  <2>2. QED
    BY <2>1, AnsweredKept
<1>3. QED
  BY <1>1, <1>2, GuardsKept, TablesTyped, PTL DEF ManySpec

\* Retries and new versions of a summary count nothing again, whatever the
\* interfaces are called (postgres.go:57-69).
THEOREM NothingCountedAgain == ManySpec => []CountedAtMost
<1>1. ManyInit => CountedAtMost /\ GuardsKnow
  BY DEF ManyInit, IngestInit, CountedAtMost, GuardsKnow, NoBytes, One, AnsweredAs
<1>2. TablesOK /\ GuardsKnow /\ CountedAtMost /\ [ManyNext]_<<ingestVars, answered>> => CountedAtMost'
  <2>1. CASE UNCHANGED <<ingestVars, answered>>
    BY <2>1 DEF ingestVars, CountedAtMost, One, AnsweredAs, Carries
  <2>2. QED
    BY <2>1, AtMostKept
<1>3. QED
  BY <1>1, <1>2, GuardsKept, TablesTyped, PTL DEF ManySpec

\* Of the reports answered under one identifier, one is stored with all its events
\* (event.go:209-218).
THEOREM EachReportStored == ManySpec => []HealthStored
<1>1. ManyInit => HealthStored /\ GuardsKnow
  BY DEF ManyInit, IngestInit, HealthStored, GuardsKnow
<1>2. TablesOK /\ GuardsKnow /\ HealthStored /\ [ManyNext]_<<ingestVars, answered>> => HealthStored'
  <2> SUFFICES ASSUME TablesOK, GuardsKnow, HealthStored, ManyNext PROVE HealthStored'
    BY DEF ingestVars, HealthStored, SameID, healthEvent
  <2>1. PICK p \in Sent : Deliver(p[1], p[2])
    BY DEF ManyNext
  <2>2. answered' = answered \cup {p}
    BY Zenon, <2>1, DeliverEffect
  <2>3. collectorHealth \subseteq collectorHealth'
    BY Zenon, <2>1, DeliverEffect DEF insertHealth
  <2> DEFINE InTable(q, table) == \A h \in q[2].health : healthEvent(q[1], q[2], h) \in table
  <2>4. ASSUME NEW q \in answered
        PROVE  \E r \in answered' : SameID(q, r) /\ InTable(r, collectorHealth')
    BY Zenon, <2>2, <2>3 DEF HealthStored
  <2>5. \E r \in answered' : SameID(p, r) /\ InTable(r, collectorHealth')
    <3>1. CASE <<p[1], p[2].id>> \in ingestBatches
      <4>1. PICK q \in answered : SameID(p, q)
        BY Zenon, <3>1, DuplicateOf
      <4>2. PICK r \in answered' : SameID(q, r) /\ InTable(r, collectorHealth')
        BY Zenon, <2>4, <4>1
      <4>3. SameID(p, r)
        BY <4>1, <4>2 DEF SameID
      <4>4. QED
        BY Zenon, <4>2, <4>3
    <3>2. CASE <<p[1], p[2].id>> \notin ingestBatches
      <4>1. insertHealth(p[1], p[2])
        BY Zenon, <2>1, <3>2, DeliverEffect
      <4>2. \A h \in p[2].health, f \in collectorHealth : ~SameHealthID(healthEvent(p[1], p[2], h), f)
        BY Zenon, <3>2, EventsFresh
      <4>3. InTable(p, collectorHealth')
        BY <4>1, <4>2 DEF insertHealth
      <4>4. SameID(p, p)
        BY DEF SameID
      <4>5. QED
        BY Zenon, <2>2, <4>3, <4>4
    <3>3. QED
      BY <3>1, <3>2
  <2>6. QED
    BY <2>2, <2>4, <2>5 DEF HealthStored, SameID, healthEvent
<1>3. QED
  BY <1>1, <1>2, GuardsKept, TablesTyped, PTL DEF ManySpec

-----------------------------------------------------------------------------
(* One agent: types                                                        *)

\* The constants of the agent, as the leaves need them.
LEMMA Constants ==
    /\ TopUnit \in Nat \ {0} /\ Unit = 1..TopUnit
    /\ Attempts \in Nat \ {0}
    /\ MaxTime \in Nat /\ MaxRecords \in Nat /\ MaxFaults \in Nat /\ MaxLag \in Nat
    /\ LastInstant \in Nat /\ MaxTime + 4 <= LastInstant
  BY SMTT(30), AgentAssumption DEF LastInstant, TopUnit

\* SpoolKnown, conjunct by conjunct.
LEMMA SpoolKnows ==
    ASSUME SpoolKnown
    PROVE  /\ files \subseteq [at : Int, batch : Batch]
           /\ report.dropped \in Nat /\ report.pressured \in BOOLEAN
           /\ submitted \subseteq Batch /\ acked \subseteq Unit
           /\ \A b \in submitted : /\ b.id[1] = "batch"
                                   /\ \A u \in Unit : b.bytes[u] \in {0, 1}
           /\ \A b, c \in submitted : b # c =>
                 b.id # c.id /\ \A u \in Unit : ~(Carries(b, u) /\ Carries(c, u))
           /\ \A f \in files : /\ f.batch.id[1] = "batch" => f.batch \in submitted
                               /\ ~interfaceOnly(f.batch) => \A u \in Unit : ~Carries(f.batch, u)
           /\ \A b \in submitted, u \in Unit :
                 Carries(b, u) => u \in acked \/ \E f \in files : Carries(f.batch, u)
  BY Zenon DEF SpoolKnown

\* Faults stay within their bound.
LEMMA FaultType ==
    ASSUME TypeOK, Fault
    PROVE  faults' \in 0..MaxFaults
  BY Constants DEF TypeOK, Fault

\* A delta is a batch of the units counted since.
LEMMA DeltaIs ==
    ASSUME observedAt \in Int, NEW p \in Int, NEW c \in Int
    PROVE  /\ Delta(p, c) \in Batch
           /\ Delta(p, c) = NewBatch("batch", observedAt, {u \in Unit : p < u /\ u <= c}, {})
           /\ Delta(p, c).id = <<"batch", observedAt>>
           /\ Delta(p, c).id[1] = "batch" /\ Delta(p, c).id[2] = observedAt
           /\ \A u \in Unit : Carries(Delta(p, c), u) <=> p < u /\ u <= c
           /\ NoCounter < p /\ p < c /\ c <= TopUnit => {u \in Unit : p < u /\ u <= c} # {}
<1>1. Delta(p, c) = NewBatch("batch", observedAt, {u \in Unit : p < u /\ u <= c}, {})
  BY Zenon DEF Delta
<1>2. Delta(p, c) \in Batch
  BY <1>1 DEF NewBatch, Batch, BatchID, Bytes, Kind
<1>3. /\ Delta(p, c).id = <<"batch", observedAt>>
      /\ Delta(p, c).id[1] = "batch" /\ Delta(p, c).id[2] = observedAt
  BY <1>1 DEF NewBatch
<1>4. \A u \in Unit : Carries(Delta(p, c), u) <=> p < u /\ u <= c
  BY <1>1 DEF NewBatch, Carries
<1>5. ASSUME NoCounter < p, p < c, c <= TopUnit PROVE c \in {u \in Unit : p < u /\ u <= c}
  BY <1>5, Constants DEF NoCounter
<1>6. QED
  BY Zenon, <1>1, <1>2, <1>3, <1>4, <1>5

\* A call of Enqueue keeps the types of what it assigns.
LEMMA TypeOfEnqueueCall ==
    ASSUME TypeOK, NEW b, NEW who \in {"recover", "sample", "record"}, NEW health \in BOOLEAN,
           EnqueueCall(b, who, health)
    PROVE  /\ pc' \in {"enqueue", "main"}
           /\ caller' \in {"recover", "sample", "record"} /\ inHealth' \in BOOLEAN
           /\ previous' \in Int /\ stateLoaded' \in BOOLEAN
           /\ faults' \in 0..MaxFaults
<1>1. CASE Fault /\ QueueError(who, health) /\ UNCHANGED <<spoolVars, caller, inHealth>>
  <2>1. NoCounter \in Int
    BY DEF NoCounter
  <2>2. QED
    BY Zenon, <1>1, <2>1, FaultType DEF QueueError, invalidateCounterState, TypeOK
<1>2. CASE /\ pc' = "enqueue" /\ caller' = who /\ inHealth' = health
           /\ UNCHANGED <<previous, stateLoaded, faults>>
  BY Zenon, <1>2 DEF TypeOK
<1>3. QED
  BY Zenon, <1>1, <1>2 DEF EnqueueCall

\* The tables keep their types when a batch is inserted.
LEMMA InsertType ==
    ASSUME trafficMinute \in [Node -> Bytes], NEW b \in Batch, InsertBatch(self, b)
    PROVE  trafficMinute' \in [Node -> Bytes]
<1>1. b.bytes \in Bytes
  BY DEF Batch
<1>2. \A x, y \in Bytes : Plus(x, y) \in Bytes
  BY DEF Plus, Bytes
<1>3. trafficMinute' = trafficMinute \/ trafficMinute' = [trafficMinute EXCEPT ![self] = Plus(@, b.bytes)]
  BY Zenon DEF InsertBatch, insertInterfaceDelta
<1>4. QED
  BY <1>1, <1>2, <1>3, AgentAssumption

\* The number of the request stays within the attempts of Send.
LEMMA RetryType ==
    ASSUME TypeOK, Retry
    PROVE  attempt' \in 0..Attempts /\ pc' \in {"send", "main"}
  BY Constants DEF TypeOK, Retry

\* The checkpoint keeps its type, saved or not.
LEMMA SaveType ==
    ASSUME TypeOK, NEW c \in Int, NEW p \in SUBSET Batch,
           checkpoint' = [found |-> TRUE, counters |-> c, pending |-> p] \/ checkpoint' = checkpoint
    PROVE  checkpoint' \in [found : BOOLEAN, counters : Int, pending : SUBSET Batch]
<1>1. [found |-> TRUE, counters |-> c, pending |-> p]
         \in [found : BOOLEAN, counters : Int, pending : SUBSET Batch]
  OBVIOUS
<1>2. QED
  BY Zenon, <1>1 DEF TypeOK

\* Every step keeps the types.
LEMMA TypeStep ==
    ASSUME TypeOK, now \in Int, SpoolKnown, Next
    PROVE  TypeOK'
<1>1. NoCounter \in Int /\ 0 \in 0..Attempts /\ 1 \in 0..Attempts
  BY Constants DEF NoCounter
<1>2. CASE Start \/ RecordNothing \/ Drain \/ Elapse
  BY ZenonT(40), <1>1, <1>2 DEF Start, RecordNothing, Drain, Elapse, TypeOK, callVars, appVars, ingestVars
<1>3. CASE LoadFails \/ ReadFails \/ PeekFails
  BY Zenon, <1>3, FaultType DEF LoadFails, ReadFails, PeekFails, TypeOK, callVars, appVars, ingestVars
<1>4. CASE Crash
  BY Zenon, <1>1, <1>4, FaultType DEF Crash, TypeOK, ingestVars
<1>5. ASSUME NEW t \in (now - MaxLag)..now, Tick(t) PROVE TypeOK'
  <2>1. t \in Int
    BY Constants
  <2>2. QED
    BY Zenon, <1>5, <2>1 DEF Tick, TypeOK, appVars, ingestVars
<1>6. CASE Record
  BY Zenon, <1>6, TypeOfEnqueueCall DEF Record, TypeOK, ingestVars
<1>7. CASE RecoverPending
  BY Zenon, <1>7, TypeOfEnqueueCall DEF RecoverPending, TypeOK, ingestVars
<1>8. CASE QueueSample
  BY Zenon, <1>8, TypeOfEnqueueCall DEF QueueSample, TypeOK, ingestVars
<1>9. CASE LoadCheckpoint
  <2>1. checkpoint.counters \in Int
    BY DEF TypeOK
  <2>2. QED
    BY Zenon, <1>9, <2>1 DEF LoadCheckpoint, TypeOK, callVars, ingestVars
<1>10. CASE ClearRecovered
  <2>1. checkpoint.counters \in Int
    BY DEF TypeOK
  <2>2. checkpoint' \in [found : BOOLEAN, counters : Int, pending : SUBSET Batch]
    BY <1>10, <2>1, SaveType DEF ClearRecovered, SaveThen
  <2>3. faults' \in 0..MaxFaults /\ pc' \in {"health", "main"}
    BY Zenon, <1>10, FaultType DEF ClearRecovered, SaveThen, TypeOK
  <2>4. QED
    BY Zenon, <1>10, <2>2, <2>3 DEF ClearRecovered, TypeOK, callVars, appVars, ingestVars
<1>11. ASSUME NEW c \in counter..TopUnit, ReadNothing(c) PROVE TypeOK'
  <2>1. c \in Int
    BY SMTT(30), Constants DEF TypeOK
  <2>2. checkpoint' \in [found : BOOLEAN, counters : Int, pending : SUBSET Batch]
    BY SMTT(30), <1>11, <2>1, SaveType DEF ReadNothing, SaveThen
  <2>3. /\ faults' \in 0..MaxFaults /\ pc' \in {"drain", "main"} /\ previous' \in Int
        /\ caller' \in {"recover", "sample", "record"}
    BY Zenon, <1>11, <2>1, FaultType DEF ReadNothing, SaveThen, TypeOK
  <2>4. QED
    BY Zenon, <1>11, <2>1, <2>2, <2>3 DEF ReadNothing, TypeOK, ingestVars
<1>12. ASSUME NEW c \in counter..TopUnit, ReadTraffic(c) PROVE TypeOK'
  <2>1. c \in Int /\ previous \in Int /\ observedAt \in Int
    BY Constants DEF TypeOK
  <2>2. {Delta(previous, c)} \in SUBSET Batch
    BY ZenonT(40), <2>1, DeltaIs
  <2>3. checkpoint' \in [found : BOOLEAN, counters : Int, pending : SUBSET Batch]
    BY Zenon, <1>12, <2>1, <2>2, SaveType DEF ReadTraffic, SaveThen
  <2>4. faults' \in 0..MaxFaults /\ pc' \in {"queue", "main"}
    BY Zenon, <1>12, FaultType DEF ReadTraffic, SaveThen, TypeOK
  <2>5. QED
    BY Zenon, <1>12, <2>1, <2>3, <2>4 DEF ReadTraffic, TypeOK, appVars, ingestVars
<1>13. CASE ClearPending
  <2>1. checkpoint' \in [found : BOOLEAN, counters : Int, pending : SUBSET Batch]
    <3>1. current \in Int
      BY Zenon DEF TypeOK
    <3>2. QED
      BY <1>13, <3>1, SaveType DEF ClearPending, SaveThen
  <2>2. /\ faults' \in 0..MaxFaults /\ pc' \in {"health", "main"}
        /\ previous' \in Int /\ stateLoaded' \in BOOLEAN
    BY Zenon, <1>1, <1>13, FaultType DEF ClearPending, SaveThen, TypeOK, invalidateCounterState
  <2>3. QED
    BY Zenon, <1>13, <2>1, <2>2 DEF ClearPending, TypeOK, callVars, ingestVars
<1>14. CASE EnqueueStep
  BY Zenon, <1>14 DEF EnqueueStep, TypeOK, callVars, appVars, ingestVars
<1>15. ASSUME HealthDone PROVE pc' \in {"read", "drain"} /\ previous' \in Int /\ stateLoaded' \in BOOLEAN
  <2>1. checkpoint.counters \in Int
    BY DEF TypeOK
  <2>2. QED
    BY Zenon, <1>15, <2>1 DEF HealthDone, TypeOK
<1>16. CASE EnqueueReturns
  <2>1. [recover |-> "recovered", sample |-> "clear", record |-> "health"][caller]
           \in {"recovered", "clear", "health"}
    BY DEF TypeOK
  <2>2. QED
    BY Zenon, <1>15, <1>16, <2>1 DEF EnqueueReturns, TypeOK, callVars, ingestVars
<1>17. CASE EnqueueFails
  BY Zenon, <1>1, <1>17, FaultType DEF EnqueueFails, QueueError, invalidateCounterState, TypeOK,
     callVars, ingestVars
<1>18. CASE enqueueSpoolHealth
  <2>1. report.pressured \in BOOLEAN
    BY Zenon, SpoolKnows
  <2>2. QED
    BY Zenon, <1>15, <1>18, <2>1, TypeOfEnqueueCall DEF enqueueSpoolHealth, TypeOK, ingestVars
<1>19. CASE SendAnswered \/ SendAnswerLost \/ SendNotStored \/ SendRefused
  <2>1. \A f \in files : f.batch \in Batch
    BY SpoolKnows
  <2>2. trafficMinute' \in [Node -> Bytes]
    BY Zenon, <1>19, <2>1, InsertType DEF SendAnswered, SendAnswerLost, SendNotStored, SendRefused,
       Request, Answered, AnswerLost, NotStored, Refused, ingestVars, TypeOK
  <2>3. attempt' \in 0..Attempts /\ pc' \in {"send", "main", "ack"}
    BY Zenon, <1>1, <1>19, RetryType DEF SendAnswered, SendAnswerLost, SendNotStored, SendRefused,
       Request, Answered, AnswerLost, NotStored, Refused
  <2>4. QED
    BY Zenon, <1>19, <2>2, <2>3 DEF SendAnswered, SendAnswerLost, SendNotStored, SendRefused,
       Request, appVars, TypeOK
<1>20. CASE Ack
  BY Zenon, <1>20, FaultType DEF Ack, TypeOK, callVars, appVars, ingestVars
<1>21. QED
  BY Zenon, <1>2, <1>3, <1>4, <1>5, <1>6, <1>7, <1>8, <1>9, <1>10, <1>11, <1>12, <1>13, <1>14,
     <1>16, <1>17, <1>18, <1>19, <1>20 DEF Next, AgentStep

-----------------------------------------------------------------------------
(* The checkpoint, the memory of App and the batches queued                *)

\* A batch is named after its producer.
LEMMA Producer ==
    \A t, U, H : /\ NewBatch("batch", t, U, H).id[1] # "detail"
                 /\ NewBatch("detail", t, U, H).id[1] # "batch"
                 /\ NewBatch("health-batch", t, U, H).id[1] # "batch"
  BY DEF NewBatch

\* What TypeOK says of the numbers and of the checkpoint.
LEMMA Types ==
    ASSUME TypeOK
    PROVE  /\ checkpoint.counters \in Int /\ checkpoint.found \in BOOLEAN
           /\ checkpoint.pending \subseteq Batch
           /\ NoCounter \in Int /\ NoCounter < 0
           /\ Spent \in -1..3
<1>1. Spent \in {-1, 0, 1, 2, 3}
  BY DEF TypeOK, Spent
<1>2. QED
  BY <1>1 DEF TypeOK, NoCounter

\* What ClockInv says of the clock.
LEMMA Times ==
    ASSUME TypeOK, SpoolKnown
    PROVE  \A b \in submitted \cup checkpoint.pending : b.id[2] \in Int
<1>1. \A b \in Batch : b.id[2] \in Int
  BY DEF Batch, BatchID
<1>2. QED
  BY Zenon, <1>1, Types, SpoolKnows

\* Nothing that DataInv speaks of changes.
LEMMA Idle ==
    ASSUME DataInv,
           UNCHANGED <<pc, caller, inHealth, stateLoaded, previous, current, observedAt, now,
                       counter, checkpoint, submitted, established, baseline>>
    PROVE  DataInv'
<1>1. /\ InRecovery' <=> InRecovery
      /\ InSample' <=> InSample
      /\ Spent' = Spent
      /\ Delta(previous, current)' = Delta(previous, current)
      /\ \A u : Queued(u)' <=> Queued(u)
      /\ \A b : Queue!IsNew(b)' <=> Queue!IsNew(b)
  BY Zenon DEF InRecovery, InSample, Spent, Delta, Queued, Queue!IsNew
<1>2. PlaceInv' /\ ClockInv' /\ CounterInv'
  BY Zenon, <1>1 DEF DataInv, PlaceInv, ClockInv, CounterInv
<1>3. QueuedInv' /\ CoveredInv'
  BY Zenon, <1>1 DEF DataInv, QueuedInv, CoveredInv
<1>4. PendingInv'
  BY Zenon, <1>1 DEF DataInv, PendingInv
<1>5. QED
  BY Zenon, <1>2, <1>3, <1>4 DEF DataInv

\* With no batch on its way there is nothing to recover or to clear.
LEMMA AtQuiet ==
    ASSUME pc \in Quiet
    PROVE  ~InRecovery /\ ~InSample /\ Spent = 3
           /\ pc \notin {"load", "recovered", "read", "queue", "clear", "enqueue", "health"}
  BY DEF Quiet, InRecovery, InSample, Spent

\* The call ends, or what it did is over: the state on disk stays.
LEMMA ToQuiet ==
    ASSUME TypeOK, DataInv, TypeOK',
           pc' \in Quiet, counter' \in counter..TopUnit,
           UNCHANGED <<observedAt, now, checkpoint, submitted, established, baseline>>,
           \/ UNCHANGED <<previous, stateLoaded>> /\ ~InSample
           \/ previous' = NoCounter /\ stateLoaded' = FALSE
    PROVE  DataInv'
<1>1. /\ ~InRecovery' /\ ~InSample' /\ Spent' = 3
      /\ pc' \notin {"load", "recovered", "read", "queue", "clear", "enqueue", "health"}
  BY Zenon, AtQuiet DEF Quiet, InRecovery, InSample, Spent
<1>2. /\ \A u : Queued(u)' <=> Queued(u)
      /\ \A b : Queue!IsNew(b)' <=> Queue!IsNew(b)
  BY Zenon DEF Queued, Queue!IsNew
<1>3. PlaceInv'
  BY Zenon, <1>1 DEF PlaceInv
<1>4. ClockInv'
  <2>1. now <= MaxTime + 3
    BY Types, Constants DEF DataInv, ClockInv
  <2>2. QED
    BY Zenon, <1>1, <2>1 DEF DataInv, ClockInv
<1>5. CounterInv'
  <2>1. 0 <= counter' /\ counter' <= TopUnit /\ counter <= counter' /\ counter' \in Int
    BY SMTT(30), Constants DEF DataInv, CounterInv, TypeOK
  <2>2. NoCounter <= previous' /\ previous' <= counter'
    BY SMTT(30), <2>1, Types DEF DataInv, CounterInv, TypeOK, NoCounter
  <2>3. NoCounter <= checkpoint.counters /\ checkpoint.counters <= counter'
    BY <2>1, Types DEF DataInv, CounterInv, TypeOK
  <2>4. QED
    BY Zenon, <1>1, <2>1, <2>2, <2>3 DEF DataInv, CounterInv
<1>6. QueuedInv'
  BY Zenon, <1>1 DEF DataInv, QueuedInv
<1>7. PendingInv'
  BY Zenon, <1>1, <1>2 DEF DataInv, PendingInv
<1>8. CoveredInv'
  BY Zenon, <1>2 DEF DataInv, CoveredInv
<1>9. QED
  BY Zenon, <1>3, <1>4, <1>5, <1>6, <1>7, <1>8 DEF DataInv

\* Time passes while no tick is under way.
LEMMA ElapseData ==
    ASSUME TypeOK, DataInv, Elapse
    PROVE  DataInv'
<1>1. /\ pc \in Quiet /\ now < MaxTime /\ now' = now + 1
      /\ UNCHANGED <<pc, caller, inHealth, stateLoaded, previous, current, observedAt,
                     counter, checkpoint, submitted, established, baseline>>
  BY Zenon DEF Elapse, Queue!Elapse, Quiet, callVars, appVars, historyVars
<1>2. /\ InRecovery' <=> InRecovery
      /\ InSample' <=> InSample
      /\ Spent' = Spent
      /\ Delta(previous, current)' = Delta(previous, current)
      /\ \A u : Queued(u)' <=> Queued(u)
      /\ \A b : Queue!IsNew(b)' <=> Queue!IsNew(b)
  BY Zenon, <1>1 DEF InRecovery, InSample, Spent, Delta, Queued, Queue!IsNew
<1>3. ClockInv'
  <2>1. Spent = 3
    BY Zenon, <1>1, AtQuiet
  <2>2. QED
    BY <1>1, <1>2, <2>1, Constants DEF DataInv, ClockInv, TypeOK
<1>4. PlaceInv' /\ CounterInv'
  BY Zenon, <1>1, <1>2 DEF DataInv, PlaceInv, CounterInv
<1>5. QueuedInv' /\ CoveredInv'
  BY Zenon, <1>1, <1>2 DEF DataInv, QueuedInv, CoveredInv
<1>6. PendingInv'
  BY Zenon, <1>1, <1>2 DEF DataInv, PendingInv
<1>7. QED
  BY Zenon, <1>3, <1>4, <1>5, <1>6 DEF DataInv

\* A tick takes a time of its own.
LEMMA TickData ==
    ASSUME TypeOK, SpoolKnown, DataInv, NEW t \in (now - MaxLag)..now, t >= 0, Tick(t)
    PROVE  DataInv'
<1>1. /\ pc = "main" /\ pc' = "load" /\ now < MaxTime /\ t > observedAt /\ observedAt' = t
      /\ UNCHANGED <<now, stateLoaded, previous, current, counter, checkpoint, submitted,
                     established, baseline>>
  BY Zenon DEF Tick, appVars, historyVars, spoolVars
<1>2. /\ ~InRecovery' /\ ~InSample' /\ ~InSample /\ Spent' = -1
      /\ \A u : Queued(u)' <=> Queued(u)
      /\ \A b : Queue!IsNew(b)' <=> Queue!IsNew(b)
  BY Zenon, <1>1 DEF InRecovery, InSample, Spent, Queued, Queue!IsNew
<1>3. t \in Int /\ t <= now /\ now \in Nat
  BY Constants DEF DataInv, ClockInv
<1>4. PlaceInv'
  BY Zenon, <1>1, <1>2 DEF PlaceInv
<1>5. ClockInv'
  BY <1>1, <1>2, <1>3, Constants DEF DataInv, ClockInv
<1>6. CounterInv' /\ CoveredInv'
  BY Zenon, <1>1, <1>2 DEF DataInv, CounterInv, CoveredInv
<1>a. \A n \in Int : n <= observedAt => n < t /\ n <= t
  BY <1>1, <1>3 DEF TypeOK
<1>7. QueuedInv'
  <2>1. \A b \in submitted : b.id[2] < t /\ b.id[2] <= t
    BY Zenon, <1>a, Times DEF DataInv, QueuedInv
  <2>2. QED
    BY Zenon, <1>1, <1>2, <2>1 DEF DataInv, QueuedInv
<1>8. PendingInv'
  <2>1. \A b \in checkpoint.pending : b.id[2] < t /\ b.id[2] <= t
    BY Zenon, <1>a, Times DEF DataInv, PendingInv
  <2>2. QED
    BY ZenonT(40), <1>1, <1>2, <2>1 DEF DataInv, PendingInv
<1>9. QED
  BY Zenon, <1>4, <1>5, <1>6, <1>7, <1>8 DEF DataInv

\* recoverCounterState returns: previous is what the checkpoint says.
LEMMA LoadedData ==
    ASSUME TypeOK, SpoolKnown, DataInv,
           pc' = "read", stateLoaded', now <= MaxTime + 1, observedAt >= 0,
           UNCHANGED <<observedAt, now, counter, checkpoint, submitted, established, baseline>>,
           \A b \in submitted : b.id[2] < observedAt,
           checkpoint.pending \subseteq submitted \/ (previous' = previous /\ stateLoaded),
           \/ previous' = checkpoint.counters
           \/ previous' = previous /\ (stateLoaded \/ ~checkpoint.found) /\ ~InSample
    PROVE  DataInv'
<1>1. /\ ~InRecovery' /\ ~InSample' /\ Spent' = 1
      /\ \A u : Queued(u)' <=> Queued(u)
      /\ \A b : Queue!IsNew(b)' <=> Queue!IsNew(b)
  BY Zenon DEF InRecovery, InSample, Spent, Queued, Queue!IsNew
<1>2. PlaceInv'
  BY Zenon, <1>1 DEF PlaceInv
<1>3. ClockInv'
  BY Zenon, <1>1, Constants DEF DataInv, ClockInv
<1>4. CounterInv'
  BY Zenon, <1>1 DEF DataInv, CounterInv
<1>5. QueuedInv'
  <2>1. ASSUME NEW b \in submitted, NEW u \in Unit, Carries(b, u) PROVE u <= previous'
    <3>1. u <= checkpoint.counters
      BY Zenon, <2>1 DEF DataInv, QueuedInv
    <3>2. CASE ~checkpoint.found
      BY <3>1, <3>2, Constants, Types DEF DataInv, CounterInv
    <3>3. QED
      BY Zenon, <2>1, <3>1, <3>2 DEF DataInv, QueuedInv
  <2>2. QED
    BY Zenon, <1>1, <2>1 DEF DataInv, QueuedInv
<1>6. PendingInv'
  BY Zenon, <1>1 DEF DataInv, PendingInv
<1>7. CoveredInv'
  <2>1. SUFFICES ASSUME established
                 PROVE  /\ previous' # NoCounter
                        /\ \A u \in Unit : baseline < u /\ u <= previous' => Queued(u)
    BY Zenon, <1>1 DEF DataInv, CoveredInv
  <2>2. CASE previous' = previous /\ stateLoaded
    BY Zenon, <2>1, <2>2 DEF DataInv, CoveredInv
  <2>3. CASE previous' = checkpoint.counters /\ checkpoint.pending \subseteq submitted
    <3>1. checkpoint.counters # NoCounter
      BY <2>1, Types DEF DataInv, CoveredInv, CounterInv
    <3>2. QED
      BY Zenon, <2>1, <2>3, <3>1 DEF DataInv, CoveredInv, Queued
  <2>4. QED
    BY Zenon, <2>1, <2>2, <2>3 DEF DataInv, CoveredInv
<1>8. QED
  BY Zenon, <1>2, <1>3, <1>4, <1>5, <1>6, <1>7 DEF DataInv

\* The checkpoint has no pending batch, or there is no checkpoint.
LEMMA LoadCheckpointData ==
    ASSUME TypeOK, SpoolKnown, DataInv, LoadCheckpoint
    PROVE  DataInv'
<1>1. /\ pc = "load" /\ pc' = "read" /\ stateLoaded'
      /\ stateLoaded \/ ~checkpoint.found \/ checkpoint.pending = {}
      /\ UNCHANGED <<observedAt, now, counter, checkpoint, submitted, established, baseline>>
      /\ \/ previous' = checkpoint.counters /\ ~stateLoaded /\ checkpoint.found
         \/ previous' = previous /\ (stateLoaded \/ ~checkpoint.found)
  BY Zenon DEF LoadCheckpoint, callVars, historyVars, spoolVars
<1>2. now <= MaxTime + 1 /\ observedAt >= 0
  <2>1. Spent = -1
    BY Zenon, <1>1 DEF Spent
  <2>2. QED
    BY <1>1, <2>1, Constants DEF DataInv, ClockInv, PlaceInv
<1>3. (\A b \in submitted : b.id[2] < observedAt) /\ ~InSample
  BY Zenon, <1>1 DEF DataInv, QueuedInv, InSample
<1>4. checkpoint.pending \subseteq submitted \/ (previous' = previous /\ stateLoaded)
  BY Zenon, <1>1 DEF DataInv, CounterInv
<1>5. QED
  BY Zenon, <1>1, <1>2, <1>3, <1>4, LoadedData

\* The end of recoverCounterState.
LEMMA RecoveredData ==
    ASSUME TypeOK, SpoolKnown, DataInv, InRecovery, caller = "recover",
           pc' = "read", stateLoaded', previous' = checkpoint.counters,
           UNCHANGED <<observedAt, now, counter, checkpoint, submitted, established, baseline>>
    PROVE  DataInv'
<1>1. now <= MaxTime + 1 /\ observedAt >= 0
  <2>1. Spent \in {0, 1}
    BY DEF InRecovery, Spent, TypeOK
  <2>2. observedAt >= 0
    BY Zenon DEF InRecovery, DataInv, PlaceInv
  <2>3. QED
    BY <2>1, <2>2, Constants DEF DataInv, ClockInv
<1>2. (\A b \in submitted : b.id[2] < observedAt) /\ checkpoint.pending \subseteq submitted
  BY Zenon DEF DataInv, QueuedInv, PendingInv
<1>3. QED
  BY Zenon, <1>1, <1>2, LoadedData

\* Enqueue returns to recoverCounterState, Sample or Record.
LEMMA ReturnedData ==
    ASSUME TypeOK, DataInv, pc = "enqueue", ~inHealth,
           pc' = [recover |-> "recovered", sample |-> "clear", record |-> "health"][caller],
           UNCHANGED <<caller, inHealth, stateLoaded, previous, current, observedAt, now,
                       counter, checkpoint, submitted, established, baseline>>
    PROVE  DataInv'
<1>1. \/ caller = "recover" /\ pc' = "recovered"
      \/ caller = "sample" /\ pc' = "clear"
      \/ caller = "record" /\ pc' = "health"
  BY DEF TypeOK
<1>2. /\ InRecovery' <=> InRecovery
      /\ InSample' <=> InSample
      /\ Spent' = Spent
      /\ \A u : Queued(u)' <=> Queued(u)
      /\ \A b : Queue!IsNew(b)' <=> Queue!IsNew(b)
  BY Zenon, <1>1 DEF InRecovery, InSample, Spent, Queued, Queue!IsNew
<1>3. pc' \notin {"load", "read", "queue"}
  BY Zenon, <1>1
<1>4. PlaceInv'
  BY Zenon, <1>1, <1>2 DEF DataInv, PlaceInv
<1>5. ClockInv' /\ CounterInv'
  BY Zenon, <1>2, <1>3 DEF DataInv, ClockInv, CounterInv
<1>6. QueuedInv' /\ CoveredInv'
  BY Zenon, <1>2, <1>3 DEF DataInv, QueuedInv, CoveredInv
<1>7. PendingInv'
  BY Zenon, <1>2, <1>3 DEF DataInv, PendingInv
<1>8. QED
  BY Zenon, <1>4, <1>5, <1>6, <1>7 DEF DataInv

\* A checkpoint has counters, and none is the least value of a counter.
LEMMA Least ==
    ASSUME TypeOK, DataInv
    PROVE  /\ NoCounter <= counter /\ NoCounter <= NoCounter
           /\ checkpoint.found => 0 <= checkpoint.counters /\ checkpoint.counters # NoCounter
  BY Types DEF DataInv, CounterInv, TypeOK

\* The pending batch is in the spool and leaves the checkpoint.
LEMMA ClearedData ==
    ASSUME TypeOK, TypeOK', DataInv,
           checkpoint' = [found |-> TRUE, counters |-> checkpoint.counters, pending |-> {}],
           checkpoint.found, checkpoint.pending \subseteq submitted,
           UNCHANGED <<observedAt, now, counter, submitted, established, baseline>>,
           Spent <= Spent', ~InSample', pc' # "queue",
           pc' \in Quiet \/ (pc' = "health" /\ ~inHealth' /\ observedAt >= 0),
           InRecovery' => InRecovery /\ ~stateLoaded',
           pc' = "health" /\ caller' = "sample" => stateLoaded',
           stateLoaded' => previous' = checkpoint.counters,
           previous' = checkpoint.counters \/ previous' = NoCounter \/ previous' = previous
    PROVE  DataInv'
<1>1. /\ checkpoint'.found /\ checkpoint'.counters = checkpoint.counters /\ checkpoint'.pending = {}
  BY Zenon
<1>2. \A u : Queued(u)' <=> Queued(u)
  BY Zenon DEF Queued
<1>3. PlaceInv'
  BY Zenon DEF PlaceInv, Quiet
<1>4. ClockInv'
  <2>1. Spent' \in Int
    BY DEF Spent, TypeOK
  <2>2. now \in Nat /\ -1 <= observedAt /\ observedAt <= now /\ now <= MaxTime + Spent
    BY Zenon DEF DataInv, ClockInv
  <2>3. now <= MaxTime + Spent'
    <3>1. Spent \in Int /\ MaxTime \in Int /\ now \in Int
      BY SMTT(30), <2>2, Types, Constants
    <3>2. \A n, m, s, t \in Int : n <= m + s /\ s <= t => n <= m + t
      OBVIOUS
    <3>3. QED
      BY Zenon, <2>1, <2>2, <3>1, <3>2
  <2>4. QED
    BY Zenon, <2>2, <2>3 DEF ClockInv
<1>5. CounterInv'
  BY ZenonT(40), <1>1, Least DEF DataInv, CounterInv
<1>6. QueuedInv'
  <2>1. pc' \notin {"load", "read", "queue"}
    BY Zenon DEF Quiet
  <2>2. QED
    BY Zenon, <1>1, <2>1 DEF DataInv, QueuedInv
<1>7. PendingInv'
  BY Zenon, <1>1 DEF PendingInv
<1>8. CoveredInv'
  BY ZenonT(40), <1>1, <1>2, Least DEF DataInv, CoveredInv, Queued
<1>9. QED
  BY Zenon, <1>3, <1>4, <1>5, <1>6, <1>7, <1>8 DEF DataInv

\* recoverCounterState clears the batch it has queued.
LEMMA ClearRecoveredData ==
    ASSUME TypeOK, TypeOK', DataInv, ClearRecovered
    PROVE  DataInv'
<1>1. /\ pc = "recovered"
      /\ UNCHANGED <<caller, inHealth, stateLoaded, previous, current, observedAt, now,
                     counter, submitted, established, baseline>>
  BY Zenon DEF ClearRecovered, callVars, appVars, historyVars, spoolVars
<1>2. /\ InRecovery /\ caller = "recover" /\ ~inHealth /\ ~stateLoaded /\ ~InSample
      /\ checkpoint.found /\ checkpoint.pending \subseteq submitted /\ observedAt >= 0
  BY Zenon, <1>1 DEF DataInv, PlaceInv, CounterInv, PendingInv, InRecovery, InSample
<1>3. /\ Spent = 0 /\ (pc' = "health" => Spent' = 0) /\ (pc' = "main" => Spent' = 3)
      /\ ~InSample' /\ (pc' = "main" => ~InRecovery')
  <2>1. pc' \in {"health", "main"}
    BY Zenon DEF ClearRecovered, SaveThen
  <2>2. QED
    BY <1>1, <1>2, <2>1 DEF Spent, InRecovery, InSample
<1>4. CASE checkpoint' = [found |-> TRUE, counters |-> checkpoint.counters, pending |-> {}]
  <2>1. pc' \in {"health", "main"}
    BY Zenon DEF ClearRecovered, SaveThen
  <2>2. Spent <= Spent'
    BY <1>3, <2>1
  <2>3. pc' \in Quiet \/ (pc' = "health" /\ ~inHealth' /\ observedAt >= 0)
    BY Zenon, <1>1, <1>2, <2>1 DEF Quiet
  <2>4. pc' # "queue" /\ ~(pc' = "health" /\ caller' = "sample")
    BY Zenon, <1>1, <1>2, <2>1
  <2>5. QED
    BY Zenon, <1>1, <1>2, <1>3, <1>4, <2>2, <2>3, <2>4, ClearedData
<1>5. CASE checkpoint' = checkpoint /\ pc' = "main"
  <2>1. pc' \in Quiet /\ counter' \in counter..TopUnit
    BY <1>1, <1>5, Constants DEF Quiet, DataInv, CounterInv, TypeOK
  <2>2. QED
    BY Zenon, <1>1, <1>2, <1>5, <2>1, ToQuiet
<1>6. QED
  BY Zenon, <1>4, <1>5 DEF ClearRecovered, SaveThen

\* Sample clears the batch it has queued.
LEMMA ClearPendingData ==
    ASSUME TypeOK, TypeOK', SpoolKnown, DataInv, ClearPending
    PROVE  DataInv'
<1>1. /\ pc = "clear"
      /\ UNCHANGED <<caller, inHealth, current, observedAt, now, counter, submitted,
                     established, baseline>>
  BY Zenon DEF ClearPending, callVars, historyVars, spoolVars
<1>2. /\ InSample /\ ~InRecovery /\ caller = "sample" /\ ~inHealth /\ stateLoaded
      /\ current = checkpoint.counters
      /\ checkpoint.pending \subseteq submitted /\ observedAt >= 0
  BY Zenon, <1>1 DEF DataInv, PlaceInv, CounterInv, PendingInv, InRecovery, InSample
<1>3. checkpoint.found
  BY <1>2, Types DEF DataInv, CounterInv, TypeOK
<1>4. /\ Spent = 2 /\ (pc' = "health" => Spent' = 2) /\ (pc' = "main" => Spent' = 3)
      /\ pc' \in {"main", "health"} => ~InSample' /\ ~InRecovery'
  BY <1>1, <1>2 DEF Spent, InRecovery, InSample
<1>5. \/ pc' = "health" /\ previous' = current /\ stateLoaded' = stateLoaded
      \/ pc' = "main" /\ previous' = NoCounter /\ stateLoaded' = FALSE
  BY Zenon DEF ClearPending, SaveThen, invalidateCounterState
<1>6. CASE checkpoint' = [found |-> TRUE, counters |-> checkpoint.counters, pending |-> {}]
  <2>1. Spent <= Spent'
    BY <1>4, <1>5
  <2>2. /\ pc' \in Quiet \/ (pc' = "health" /\ ~inHealth' /\ observedAt >= 0)
        /\ pc' # "queue" /\ ~InSample' /\ ~InRecovery'
        /\ pc' = "health" /\ caller' = "sample" => stateLoaded'
        /\ stateLoaded' => previous' = checkpoint.counters
        /\ previous' = checkpoint.counters \/ previous' = NoCounter
    BY Zenon, <1>1, <1>2, <1>4, <1>5 DEF Quiet
  <2>3. QED
    BY Zenon, <1>1, <1>2, <1>3, <1>6, <2>1, <2>2, ClearedData
<1>7. CASE checkpoint' = checkpoint /\ pc' = "main"
  <2>1. pc' \in Quiet /\ counter' \in counter..TopUnit
    BY <1>1, <1>7, Constants DEF Quiet, DataInv, CounterInv, TypeOK
  <2>2. QED
    BY Zenon, <1>1, <1>5, <1>7, <2>1, ToQuiet
<1>8. QED
  BY Zenon, <1>2, <1>6, <1>7 DEF ClearPending, SaveThen

\* What Sample knows when it reads the counters.
LEMMA AtRead ==
    ASSUME TypeOK, DataInv, pc = "read", NEW c \in counter..TopUnit
    PROVE  /\ c \in Int /\ counter <= c /\ 0 <= c /\ c <= TopUnit
           /\ NoCounter <= previous /\ previous <= c
           /\ checkpoint.counters <= c
           /\ stateLoaded /\ ~InSample /\ ~InRecovery /\ observedAt >= 0 /\ Spent = 1
           /\ \A u \in Unit : u <= previous => u <= c
           /\ \A u \in Unit : u <= checkpoint.counters => u <= c
<1>1. c \in Int /\ counter <= c /\ 0 <= c /\ c <= TopUnit
  BY SMTT(30), Constants DEF DataInv, CounterInv, TypeOK
<1>2. NoCounter <= previous /\ previous <= c /\ checkpoint.counters <= c
  BY <1>1, Types DEF DataInv, CounterInv, TypeOK
<1>3. stateLoaded /\ ~InSample /\ ~InRecovery /\ observedAt >= 0 /\ Spent = 1
  BY Zenon DEF DataInv, PlaceInv, InSample, InRecovery, Spent
<1>4. /\ \A u \in Unit : u <= previous => u <= c
      /\ \A u \in Unit : u <= checkpoint.counters => u <= c
  BY <1>1, <1>2, Types, Constants DEF TypeOK
<1>5. QED
  BY Zenon, <1>1, <1>2, <1>3, <1>4

\* Sample reads the counters for the first time, or as they were.
LEMMA ReadNothingData ==
    ASSUME TypeOK, TypeOK', SpoolKnown, DataInv, NEW c \in counter..TopUnit, ReadNothing(c)
    PROVE  DataInv'
<1>1. /\ pc = "read" /\ previous \in {NoCounter, c} /\ counter' = c /\ pc' \in {"drain", "main"}
      /\ UNCHANGED <<inHealth, stateLoaded, current, observedAt, now, submitted>>
  BY Zenon DEF ReadNothing, SaveThen, historyVars, spoolVars
<1>2. pc' \in Quiet
  BY Zenon, <1>1 DEF Quiet
<1>3. CASE checkpoint' = checkpoint /\ UNCHANGED <<previous, established, baseline>>
  BY Zenon, <1>1, <1>2, <1>3, AtRead, ToQuiet
<1>4. CASE /\ checkpoint' = [found |-> TRUE, counters |-> c, pending |-> {}]
           /\ \/ previous' = c /\ established' /\ baseline' = IF established THEN baseline ELSE c
              \/ UNCHANGED <<previous, established, baseline>>
  <2>1. checkpoint'.found /\ checkpoint'.counters = c /\ checkpoint'.pending = {}
    BY Zenon, <1>4
  <2>2. /\ ~InRecovery' /\ ~InSample' /\ Spent' = 3
        /\ pc' \notin {"load", "recovered", "read", "queue", "clear", "enqueue", "health"}
        /\ \A u : Queued(u)' <=> Queued(u)
    BY Zenon, <1>1 DEF Quiet, InRecovery, InSample, Spent, Queued
  <2>3. PlaceInv'
    BY Zenon, <2>2 DEF PlaceInv
  <2>4. ClockInv'
    BY <1>1, <2>2, AtRead, Constants DEF DataInv, ClockInv
  <2>5. CounterInv'
    <3>1. NoCounter <= c /\ c <= c
      BY <1>1, AtRead DEF NoCounter
    <3>2. QED
      BY Zenon, <1>1, <1>4, <2>1, <2>2, <3>1, AtRead DEF CounterInv
  <2>6. QueuedInv'
    BY Zenon, <1>1, <1>4, <2>1, <2>2, AtRead DEF DataInv, QueuedInv
  <2>7. PendingInv'
    BY Zenon, <2>1, <2>2 DEF PendingInv
  <2>8. CoveredInv'
    <3>1. CASE established
      <4>1. previous = c /\ c # NoCounter /\ previous' = c /\ baseline' = baseline
        BY Zenon, <1>1, <1>4, <3>1, AtRead DEF DataInv, CoveredInv
      <4>2. QED
        BY Zenon, <1>1, <2>1, <2>2, <3>1, <4>1, AtRead DEF DataInv, CoveredInv
    <3>2. CASE ~established /\ previous' = c /\ baseline' = c
      <4>1. c # NoCounter /\ \A u \in Unit : ~(c < u /\ u <= c)
        BY <1>1, AtRead, Constants DEF NoCounter
      <4>2. QED
        BY Zenon, <2>1, <3>2, <4>1 DEF CoveredInv
    <3>3. CASE ~established /\ UNCHANGED <<previous, established, baseline>>
      BY Zenon, <3>3 DEF CoveredInv
    <3>4. QED
      BY Zenon, <1>4, <3>1, <3>2, <3>3
  <2>9. QED
    BY Zenon, <2>3, <2>4, <2>5, <2>6, <2>7, <2>8 DEF DataInv
<1>5. QED
  BY Zenon, <1>3, <1>4 DEF ReadNothing, SaveThen

\* The batch of a sample is new to the spool.
LEMMA NewDelta ==
    ASSUME TypeOK, SpoolKnown, DataInv, pc = "read", NEW c \in counter..TopUnit, previous # c,
           previous # NoCounter
    PROVE  /\ Queue!IsNew(Delta(previous, c))
           /\ NoCounter < previous /\ previous < c
           /\ \E U \in SUBSET Unit : /\ U # {}
                                     /\ Delta(previous, c) = NewBatch("batch", observedAt, U, {})
           /\ \A u \in Unit : u <= c => u <= previous \/ Carries(Delta(previous, c), u)
<1>1. c \in Int /\ previous \in Int /\ observedAt \in Int
  BY Zenon, AtRead DEF TypeOK
<1>2. NoCounter < previous /\ previous < c /\ c <= TopUnit
  BY <1>1, AtRead, Types
<1>3. \E U \in SUBSET Unit : U # {} /\ Delta(previous, c) = NewBatch("batch", observedAt, U, {})
  <2>1. {u \in Unit : previous < u /\ u <= c} \in SUBSET Unit
    OBVIOUS
  <2>2. QED
    BY Zenon, <1>1, <1>2, <2>1, DeltaIs
<1>4. \A u \in Unit : u <= c => u <= previous \/ Carries(Delta(previous, c), u)
  <2>1. \A u \in Unit : u <= previous \/ previous < u
    BY <1>1, Constants
  <2>2. QED
    BY Zenon, <1>1, <2>1, DeltaIs
<1>5. ASSUME NEW b \in submitted PROVE b.id # Delta(previous, c).id
  <2>1. b.id[2] < observedAt /\ b.id[2] \in Int
    BY Zenon, Times DEF DataInv, QueuedInv
  <2>2. b.id[2] # observedAt
    BY <1>1, <2>1
  <2>3. QED
    BY Zenon, <1>1, <2>2, DeltaIs
<1>6. ASSUME NEW b \in submitted, NEW u \in Unit
      PROVE  ~(Carries(Delta(previous, c), u) /\ Carries(b, u))
  <2>1. Carries(b, u) => u <= previous
    BY Zenon, AtRead DEF DataInv, QueuedInv
  <2>2. Carries(Delta(previous, c), u) => previous < u
    BY Zenon, <1>1, DeltaIs
  <2>3. ~(u <= previous /\ previous < u)
    BY <1>1, Constants
  <2>4. QED
    BY Zenon, <2>1, <2>2, <2>3
<1>7. Queue!IsNew(Delta(previous, c))
  <2>1. \A b, u : Queue!Carries(b, u) <=> Carries(b, u)
    BY Zenon DEF Queue!Carries, Carries
  <2>2. QED
    BY Zenon, <1>5, <1>6, <2>1 DEF Queue!IsNew
<1>8. QED
  BY Zenon, <1>2, <1>3, <1>4, <1>7

\* Sample saves the new counters together with their batch.
LEMMA ReadTrafficData ==
    ASSUME TypeOK, TypeOK', SpoolKnown, DataInv, NEW c \in counter..TopUnit, ReadTraffic(c)
    PROVE  DataInv'
<1> DEFINE d == Delta(previous, c)
<1>1. /\ pc = "read" /\ previous # c /\ previous # NoCounter /\ counter' = c /\ current' = c
      /\ UNCHANGED <<stateLoaded, previous, observedAt, now, submitted, established, baseline>>
  BY Zenon DEF ReadTraffic, historyVars, spoolVars, appVars
<1>2. CASE checkpoint' = checkpoint /\ pc' = "main"
  <2>1. pc' \in Quiet
    BY Zenon, <1>2 DEF Quiet
  <2>2. QED
    BY Zenon, <1>1, <1>2, <2>1, AtRead, ToQuiet
<1>3. CASE checkpoint' = [found |-> TRUE, counters |-> c, pending |-> {d}] /\ pc' \in {"queue", "main"}
  <2> HIDE DEF d
  <2>1. checkpoint'.found /\ checkpoint'.counters = c /\ checkpoint'.pending = {d}
    BY Zenon, <1>3
  <2>2. /\ ~InRecovery' /\ ~InSample'
        /\ pc' \notin {"load", "recovered", "read", "clear", "enqueue", "health"}
        /\ \A u : Queued(u)' <=> Queued(u)
        /\ \A b : Queue!IsNew(b)' <=> Queue!IsNew(b)
        /\ Spent' \in {1, 3}
    BY Zenon, <1>1, <1>3 DEF InRecovery, InSample, Spent, Queued, Queue!IsNew
  <2>3. PlaceInv'
    BY Zenon, <1>1, <2>2, AtRead DEF PlaceInv
  <2>4. ClockInv'
    <3>1. now \in Nat /\ now <= MaxTime + 1 /\ -1 <= observedAt /\ observedAt <= now
      BY Zenon, <1>1, AtRead DEF DataInv, ClockInv
    <3>2. now <= MaxTime + 3
      BY <3>1, Constants
    <3>3. QED
      BY Zenon, <1>1, <2>2, <3>1, <3>2 DEF ClockInv
  <2>5. CounterInv'
    <3>1. NoCounter <= c /\ c <= c
      BY <1>1, AtRead DEF NoCounter
    <3>2. QED
      BY Zenon, <1>1, <2>1, <2>2, <3>1, AtRead, NewDelta DEF CounterInv
  <2>6. QueuedInv'
    BY Zenon, <1>1, <2>1, <2>2, AtRead DEF DataInv, QueuedInv
  <2>7. d \in Batch /\ d.id[2] = observedAt /\ \A u \in Unit : Carries(d, u) => u <= c
    BY Zenon, <1>1, AtRead, DeltaIs DEF d, TypeOK
  <2>8. PendingInv'
    <3>1. (pc = "queue" => checkpoint.pending = {Delta(previous, current)})'
      BY Zenon, <1>1, <2>1 DEF d, Delta
    <3>2. observedAt <= observedAt
      BY SMTT(30) DEF TypeOK
    <3>3. 0 <= observedAt
      BY <1>1, AtRead DEF TypeOK
    <3>4. \E U \in SUBSET Unit : U # {} /\ d = NewBatch("batch", d.id[2], U, {})
      BY Zenon, <1>1, <2>7, NewDelta DEF d
    <3>5. \A b : b = d => Queue!IsNew(b)'
      <4>1. Queue!IsNew(d)
        BY Zenon, <1>1, NewDelta DEF d
      <4>2. QED
        BY Zenon, <2>2, <4>1
    <3>6. \A b, e \in checkpoint'.pending : b = e
      BY Zenon, <2>1
    <3>7. \A b \in checkpoint'.pending :
            /\ \E U \in SUBSET Unit : U # {} /\ b = NewBatch("batch", b.id[2], U, {})
            /\ 0 <= b.id[2] /\ b.id[2] <= observedAt'
            /\ \A u \in Unit : Carries(b, u) => u <= checkpoint'.counters
            /\ Queue!IsNew(b)'
      BY Zenon, <1>1, <2>1, <2>7, <3>2, <3>3, <3>4, <3>5
    <3>8. QED
      BY Zenon, <2>2, <3>1, <3>6, <3>7 DEF PendingInv
  <2>9. CoveredInv'
    BY Zenon, <1>1, <2>1, <2>2, AtRead, NewDelta DEF DataInv, CoveredInv, d
  <2>10. QED
    BY Zenon, <2>3, <2>4, <2>5, <2>6, <2>8, <2>9 DEF DataInv
<1>4. QED
  BY Zenon, <1>2, <1>3 DEF ReadTraffic, SaveThen

\* Details or health are published.
LEMMA OtherPublished ==
    ASSUME TypeOK, DataInv, NEW b, Queue!Publish(b), b.id[1] # "batch", observedAt >= 0,
           pc' = "enqueue", ~InSample, ~InSample', InRecovery' <=> InRecovery,
           Spent' \in Int, now + 1 <= MaxTime + Spent',
           caller' = "sample" => stateLoaded,
           UNCHANGED <<stateLoaded, previous, observedAt, counter, checkpoint, established, baseline>>
    PROVE  DataInv'
<1>1. submitted' = submitted /\ now' = now + 1
  BY Zenon DEF Queue!Publish
<1>2. /\ \A u : Queued(u)' <=> Queued(u)
      /\ \A c : Queue!IsNew(c)' <=> Queue!IsNew(c)
  BY Zenon, <1>1 DEF Queued, Queue!IsNew
<1>3. PlaceInv'
  BY Zenon, <1>1 DEF DataInv, PlaceInv
<1>4. ClockInv'
  <2>1. now \in Nat /\ -1 <= observedAt /\ observedAt <= now
    BY Zenon DEF DataInv, ClockInv
  <2>2. now + 1 \in Nat /\ observedAt <= now + 1
    BY <2>1 DEF TypeOK
  <2>3. QED
    BY Zenon, <1>1, <2>1, <2>2 DEF ClockInv
<1>5. CounterInv' /\ CoveredInv'
  BY Zenon, <1>2 DEF DataInv, CounterInv, CoveredInv
<1>6. QueuedInv'
  BY Zenon, <1>1 DEF DataInv, QueuedInv
<1>7. PendingInv'
  BY Zenon, <1>1, <1>2 DEF DataInv, PendingInv
<1>8. QED
  BY Zenon, <1>3, <1>4, <1>5, <1>6, <1>7 DEF DataInv

\* The batch in the checkpoint is published.
LEMMA PendingPublished ==
    ASSUME TypeOK, DataInv, NEW b \in checkpoint.pending, Queue!Publish(b),
           pc' = "enqueue", ~inHealth', observedAt >= 0,
           \/ InRecovery' /\ ~InSample' /\ ~stateLoaded /\ pc = "load" /\ caller' # "sample"
           \/ InSample' /\ ~InRecovery' /\ stateLoaded /\ pc = "queue",
           Spent' \in Int, now + 1 <= MaxTime + Spent',
           UNCHANGED <<stateLoaded, previous, current, observedAt, counter, checkpoint,
                       established, baseline>>
    PROVE  DataInv'
<1>1. b.id[1] = "batch"
  <2>1. PICK U \in SUBSET Unit : b = NewBatch("batch", b.id[2], U, {})
    BY Zenon DEF DataInv, PendingInv
  <2>2. NewBatch("batch", b.id[2], U, {}).id[1] = "batch"
    BY Zenon DEF NewBatch
  <2>3. QED
    BY Zenon, <2>1, <2>2
<1>2. submitted' = submitted \cup {b} /\ now' = now + 1
  BY Zenon, <1>1 DEF Queue!Publish
<1>3. \A u : Queued(u) => Queued(u)'
  BY Zenon, <1>2 DEF Queued
<1>4. checkpoint.pending \subseteq submitted'
  BY Zenon, <1>2 DEF DataInv, PendingInv
<1>5. PlaceInv'
  BY Zenon DEF DataInv, PlaceInv, InRecovery
<1>6. ClockInv'
  <2>1. now \in Nat /\ -1 <= observedAt /\ observedAt <= now
    BY Zenon DEF DataInv, ClockInv
  <2>2. now + 1 \in Nat /\ observedAt <= now + 1
    BY <2>1 DEF TypeOK
  <2>3. QED
    BY Zenon, <1>2, <2>1, <2>2 DEF ClockInv
<1>7. CounterInv'
  BY Zenon DEF DataInv, CounterInv
<1>8. QueuedInv'
  <2>1. /\ b.id[2] <= observedAt /\ (InRecovery' => b.id[2] < observedAt)
        /\ \A u \in Unit : Carries(b, u) => u <= checkpoint.counters
    BY Zenon DEF DataInv, PendingInv
  <2>2. \A c \in submitted :
            /\ c.id[1] = "batch" /\ c.id[2] <= observedAt /\ (InRecovery' => c.id[2] < observedAt)
            /\ \A u \in Unit : Carries(c, u) => u <= checkpoint.counters
    BY Zenon DEF DataInv, QueuedInv
  <2>3. ~(stateLoaded /\ ~InSample')
    BY Zenon
  <2>4. QED
    BY Zenon, <1>1, <1>2, <2>1, <2>2, <2>3 DEF QueuedInv
<1>9. PendingInv'
  <2>1. InRecovery' => pc = "load"
    BY Zenon
  <2>2. QED
    BY Zenon, <1>4, <2>1 DEF DataInv, PendingInv
<1>10. CoveredInv'
  BY Zenon, <1>3 DEF DataInv, CoveredInv
<1>11. QED
  BY Zenon, <1>5, <1>6, <1>7, <1>8, <1>9, <1>10 DEF DataInv

\* Enqueue fails before it publishes.
LEMMA NotPublished ==
    ASSUME TypeOK, TypeOK', DataInv, ~InSample, pc' = "main",
           NEW who, NEW health, QueueError(who, health), UNCHANGED spoolVars,
           UNCHANGED <<observedAt, counter, checkpoint, established, baseline>>
    PROVE  DataInv'
<1>1. pc' \in Quiet /\ counter' \in counter..TopUnit
  BY Constants DEF Quiet, DataInv, CounterInv, TypeOK
<1>2. \/ UNCHANGED <<previous, stateLoaded>>
      \/ previous' = NoCounter /\ stateLoaded' = FALSE
  BY Zenon DEF QueueError, invalidateCounterState
<1>3. UNCHANGED <<now, submitted>>
  BY Zenon DEF spoolVars
<1>4. QED
  BY ZenonT(40), <1>1, <1>2, <1>3, ToQuiet

\* Record queues details.
LEMMA RecordData ==
    ASSUME TypeOK, TypeOK', DataInv, Record
    PROVE  DataInv'
<1> DEFINE b == NewBatch("detail", observedAt, {}, {})
<1>1. /\ pc = "main" /\ observedAt >= 0 /\ now < MaxTime
      /\ UNCHANGED <<observedAt, counter, checkpoint, established, baseline>>
  BY Zenon DEF Record, historyVars
<1>2. ~InSample /\ ~InRecovery
  BY Zenon, <1>1 DEF InSample, InRecovery
<1>3. CASE /\ Queue!Publish(b) /\ pc' = "enqueue" /\ caller' = "record" /\ inHealth' = FALSE
           /\ UNCHANGED <<previous, stateLoaded>>
  <2>1. b.id[1] # "batch"
    BY Zenon, Producer
  <2>2. ~InSample' /\ ~InRecovery'
    BY Zenon, <1>3 DEF InSample, InRecovery
  <2>3. Spent' = 0
    BY <1>3 DEF Spent
  <2>4. Spent' \in Int /\ now + 1 <= MaxTime + Spent'
    BY <1>1, <2>3, Constants DEF DataInv, ClockInv
  <2>5. caller' # "sample"
    BY Zenon, <1>3
  <2>6. QED
    BY Zenon, <1>1, <1>2, <1>3, <2>1, <2>2, <2>4, <2>5, OtherPublished
<1>4. CASE QueueError("record", FALSE) /\ UNCHANGED spoolVars
  <2>1. pc' = "main"
    BY Zenon, <1>4 DEF QueueError
  <2>2. QED
    BY Zenon, <1>1, <1>2, <1>4, <2>1, NotPublished
<1>5. QED
  BY Zenon, <1>3, <1>4 DEF Record, EnqueueCall

\* recoverCounterState queues the batch of the checkpoint.
LEMMA RecoverPendingData ==
    ASSUME TypeOK, TypeOK', DataInv, RecoverPending
    PROVE  DataInv'
<1>1. /\ pc = "load" /\ ~stateLoaded
      /\ UNCHANGED <<observedAt, current, counter, checkpoint, established, baseline>>
  BY Zenon DEF RecoverPending, historyVars
<1>2. ~InSample /\ observedAt >= 0 /\ Spent = -1
  BY Zenon, <1>1 DEF InSample, DataInv, PlaceInv, Spent
<1>3. PICK b \in checkpoint.pending : EnqueueCall(b, "recover", FALSE)
  BY Zenon DEF RecoverPending
<1>4. CASE /\ Queue!Publish(b) /\ pc' = "enqueue" /\ caller' = "recover" /\ inHealth' = FALSE
           /\ UNCHANGED <<previous, stateLoaded>>
  <2>1. ~InSample' /\ InRecovery' /\ caller' # "sample"
    BY Zenon, <1>4 DEF InSample, InRecovery
  <2>2. Spent' = 0
    BY <1>4 DEF Spent
  <2>3. Spent' \in Int /\ now + 1 <= MaxTime + Spent'
    BY <1>2, <2>2, Constants DEF DataInv, ClockInv
  <2>4. QED
    BY Zenon, <1>1, <1>2, <1>4, <2>1, <2>3, PendingPublished
<1>5. CASE QueueError("recover", FALSE) /\ UNCHANGED spoolVars
  <2>1. pc' = "main"
    BY Zenon, <1>5 DEF QueueError
  <2>2. QED
    BY Zenon, <1>1, <1>2, <1>5, <2>1, NotPublished
<1>6. QED
  BY Zenon, <1>3, <1>4, <1>5 DEF EnqueueCall

\* Sample queues the batch it has saved.
LEMMA QueueSampleData ==
    ASSUME TypeOK, TypeOK', DataInv, QueueSample
    PROVE  DataInv'
<1> DEFINE b == Delta(previous, current)
<1>1. /\ pc = "queue"
      /\ UNCHANGED <<observedAt, current, counter, checkpoint, established, baseline>>
  BY Zenon DEF QueueSample, historyVars
<1>2. ~InSample /\ observedAt >= 0 /\ stateLoaded /\ Spent = 1 /\ b \in checkpoint.pending
  BY Zenon, <1>1 DEF InSample, DataInv, PlaceInv, PendingInv, Spent
<1>3. CASE /\ Queue!Publish(b) /\ pc' = "enqueue" /\ caller' = "sample" /\ inHealth' = FALSE
           /\ UNCHANGED <<previous, stateLoaded>>
  <2>1. InSample' /\ ~InRecovery'
    BY Zenon, <1>3 DEF InSample, InRecovery
  <2>2. Spent' = 2
    BY <1>3 DEF Spent
  <2>3. Spent' \in Int /\ now + 1 <= MaxTime + Spent'
    BY <1>2, <2>2, Constants DEF DataInv, ClockInv
  <2>4. QED
    BY Zenon, <1>1, <1>2, <1>3, <2>1, <2>3, PendingPublished
<1>4. CASE QueueError("sample", FALSE) /\ UNCHANGED spoolVars
  <2>1. pc' = "main"
    BY Zenon, <1>4 DEF QueueError
  <2>2. QED
    BY Zenon, <1>1, <1>2, <1>4, <2>1, NotPublished
<1>5. QED
  BY Zenon, <1>3, <1>4 DEF QueueSample, EnqueueCall

\* enqueueSpoolHealth returns to recoverCounterState, Sample or Record.
LEMMA HealthDoneData ==
    ASSUME TypeOK, TypeOK', SpoolKnown, DataInv, HealthDone, ~InSample,
           pc = "health" \/ (pc = "enqueue" /\ inHealth),
           UNCHANGED <<observedAt, now, counter, checkpoint, submitted, established, baseline>>
    PROVE  DataInv'
<1>1. CASE caller = "recover"
  <2>1. InRecovery
    BY Zenon, <1>1 DEF InRecovery
  <2>2. pc' = "read" /\ stateLoaded' /\ previous' = checkpoint.counters
    BY Zenon, <1>1 DEF HealthDone
  <2>3. QED
    BY Zenon, <1>1, <2>1, <2>2, RecoveredData
<1>2. CASE caller # "recover"
  <2>1. pc' = "drain" /\ UNCHANGED <<previous, stateLoaded>>
    BY Zenon, <1>2 DEF HealthDone
  <2>2. pc' \in Quiet /\ counter' \in counter..TopUnit
    BY <2>1, Constants DEF Quiet, DataInv, CounterInv, TypeOK
  <2>3. QED
    BY Zenon, <2>1, <2>2, ToQuiet
<1>3. QED
  BY Zenon, <1>1, <1>2

\* enqueueSpoolHealth queues a report, or has none.
LEMMA HealthData ==
    ASSUME TypeOK, TypeOK', SpoolKnown, DataInv, enqueueSpoolHealth
    PROVE  DataInv'
<1> DEFINE b == NewBatch("health-batch", observedAt, {}, HealthEvents)
<1>1. /\ pc = "health"
      /\ UNCHANGED <<observedAt, counter, checkpoint, established, baseline>>
  BY Zenon DEF enqueueSpoolHealth, historyVars
<1>2. ~InSample /\ observedAt >= 0 /\ ~inHealth /\ (caller = "sample" => stateLoaded)
  BY Zenon, <1>1 DEF InSample, DataInv, PlaceInv
<1>3. CASE /\ Queue!Publish(b) /\ pc' = "enqueue" /\ caller' = caller /\ inHealth' = TRUE
           /\ UNCHANGED <<previous, stateLoaded>>
  <2>1. b.id[1] # "batch"
    BY Zenon, Producer
  <2>2. ~InSample' /\ (InRecovery' <=> InRecovery)
    BY Zenon, <1>1, <1>3 DEF InSample, InRecovery
  <2>3. Spent' = Spent + 1
    BY SMTT(30), <1>1, <1>2, <1>3 DEF Spent
  <2>4. Spent' \in Int /\ now + 1 <= MaxTime + Spent'
    BY SMTT(30), <2>3, Types, Constants DEF DataInv, ClockInv
  <2>5. caller' = "sample" => stateLoaded
    BY Zenon, <1>2, <1>3
  <2>6. QED
    BY Zenon, <1>1, <1>2, <1>3, <2>1, <2>2, <2>4, <2>5, OtherPublished
<1>4. CASE QueueError(caller, TRUE) /\ UNCHANGED spoolVars
  <2>1. pc' = "main"
    BY Zenon, <1>4 DEF QueueError
  <2>2. QED
    BY Zenon, <1>1, <1>2, <1>4, <2>1, NotPublished
<1>5. CASE HealthDone /\ UNCHANGED spoolVars
  <2>1. UNCHANGED <<now, submitted>>
    BY Zenon, <1>5 DEF spoolVars
  <2>2. QED
    BY Zenon, <1>1, <1>2, <1>5, <2>1, HealthDoneData
<1>6. QED
  BY Zenon, <1>3, <1>4, <1>5 DEF enqueueSpoolHealth, EnqueueCall

\* Enqueue returns to whoever called it.
LEMMA ReturnsData ==
    ASSUME TypeOK, TypeOK', SpoolKnown, DataInv, EnqueueReturns
    PROVE  DataInv'
<1>1. /\ pc = "enqueue"
      /\ UNCHANGED <<caller, inHealth, current, observedAt, now, counter, checkpoint, submitted,
                     established, baseline>>
  BY Zenon DEF EnqueueReturns, Queue!Return, callVars, historyVars
<1>2. CASE inHealth /\ HealthDone
  <2>1. ~InSample
    BY Zenon, <1>1, <1>2 DEF InSample
  <2>2. QED
    BY Zenon, <1>1, <1>2, <2>1, HealthDoneData
<1>3. CASE /\ ~inHealth
           /\ pc' = [recover |-> "recovered", sample |-> "clear", record |-> "health"][caller]
           /\ UNCHANGED <<previous, stateLoaded>>
  BY Zenon, <1>1, <1>3, ReturnedData
<1>4. QED
  BY Zenon, <1>2, <1>3 DEF EnqueueReturns

\* Every step keeps what is known of counters, checkpoint and batches.
LEMMA DataStep ==
    ASSUME TypeOK, TypeOK', SpoolKnown, DataInv, [Next]_vars
    PROVE  DataInv'
<1>1. CASE UNCHANGED vars \/ EnqueueStep
  <2>1. /\ UNCHANGED <<pc, caller, inHealth, stateLoaded, previous, current, observedAt, counter,
                       checkpoint, established, baseline>>
        /\ UNCHANGED <<now, submitted>>
    BY Zenon, <1>1 DEF vars, spoolVars, EnqueueStep, callVars, appVars, historyVars,
       Queue!EnqueueStep, Queue!Scan, Queue!ScanDone, Queue!WriteSummary, Queue!WriteDone,
       Queue!RemoveCompacted, Queue!RemoveDone, Queue!Evict, Queue!EvictDone, Queue!Return
  <2>2. QED
    BY Zenon, <2>1, Idle
<1>2. counter \in counter..TopUnit
  BY Constants DEF DataInv, CounterInv, TypeOK
<1>3. CASE Start \/ RecordNothing \/ LoadFails \/ ReadFails \/ Drain \/ PeekFails
  <2>1. /\ pc' \in Quiet /\ ~InSample
        /\ UNCHANGED <<previous, stateLoaded, observedAt, now, counter, checkpoint, submitted,
                       established, baseline>>
    BY Zenon, <1>3 DEF Start, RecordNothing, LoadFails, ReadFails, Drain, PeekFails, Quiet, InSample,
       spoolVars, callVars, appVars, historyVars
  <2>2. QED
    BY Zenon, <1>2, <2>1, ToQuiet
<1>4. CASE SendAnswered \/ SendAnswerLost \/ SendNotStored \/ SendRefused
  <2>1. /\ pc' \in Quiet /\ ~InSample
        /\ UNCHANGED <<previous, stateLoaded, observedAt, now, counter, checkpoint, submitted,
                       established, baseline>>
    BY Zenon, <1>4 DEF SendAnswered, SendAnswerLost, SendNotStored, SendRefused, Request, Answered,
       AnswerLost, NotStored, Refused, Retry, Quiet, InSample, spoolVars, appVars, historyVars
  <2>2. QED
    BY Zenon, <1>2, <2>1, ToQuiet
<1>5. CASE Ack
  <2>1. /\ pc' \in Quiet /\ ~InSample
        /\ UNCHANGED <<previous, stateLoaded, observedAt, now, counter, checkpoint, submitted,
                       established, baseline>>
    BY Zenon, <1>5 DEF Ack, Queue!Ack, Quiet, InSample, spoolVars, callVars, appVars, historyVars
  <2>2. QED
    BY Zenon, <1>2, <2>1, ToQuiet
<1>6. CASE Crash \/ EnqueueFails
  <2>1. /\ pc' \in Quiet
        /\ UNCHANGED <<observedAt, now, counter, checkpoint, submitted, established, baseline>>
    BY Zenon, <1>6 DEF Crash, EnqueueFails, QueueError, Queue!Abort, Quiet, spoolVars, callVars,
       historyVars
  <2>2. \/ UNCHANGED <<previous, stateLoaded>> /\ ~InSample
        \/ previous' = NoCounter /\ stateLoaded' = FALSE
    BY Zenon, <1>6 DEF Crash, EnqueueFails, QueueError, invalidateCounterState, InSample
  <2>3. QED
    BY Zenon, <1>2, <2>1, <2>2, ToQuiet
<1>7. QED
  BY ZenonT(40), <1>1, <1>3, <1>4, <1>5, <1>6, ElapseData, TickData, LoadCheckpointData,
     ClearRecoveredData, ClearPendingData, ReadNothingData, ReadTrafficData, RecordData,
     RecoverPendingData, QueueSampleData, HealthData, ReturnsData DEF Next, AgentStep

-----------------------------------------------------------------------------
(* What the agent asks of the spool                                        *)

\* A report makes one event or two.
LEMMA HealthPair ==
    ASSUME SpoolKnown, DropInv, HealthEvents # {}
    PROVE  \E d, e \in HealthEvent : HealthEvents = {d, e}
<1> DEFINE gap == [code |-> "data_gap", dropped |-> report.dropped]
           pressure == [code |-> "buffer_pressure", dropped |-> 0]
           recovered == [code |-> "buffer_recovered", dropped |-> 0]
<1>1. report.dropped > 0 => gap \in HealthEvent
  <2>1. Cardinality(Details) \in Nat
    BY Zenon DEF DropInv
  <2>2. /\ report.dropped \in Nat /\ MaxTime \in Nat
        /\ report.dropped + Cardinality(Details) <= MaxTime
    BY Zenon, SpoolKnows, Constants DEF DropInv
  <2>3. report.dropped > 0 => report.dropped \in 1..MaxTime
    BY <2>1, <2>2
  <2>4. QED
    BY Zenon, <2>3, HealthAssumption
<1>2. pressure \in HealthEvent /\ recovered \in HealthEvent
  BY Zenon, HealthAssumption
<1> HIDE DEF gap, pressure, recovered
<1>3. HealthEvents = {x \in {gap} : report.dropped > 0}
                       \cup {x \in {pressure} : report.pressured /\ ~spoolPressured}
                       \cup {x \in {recovered} : ~report.pressured /\ spoolPressured}
  BY Zenon DEF HealthEvents, gap, pressure, recovered
<1>4. \E d, e \in {gap, pressure, recovered} : /\ HealthEvents = {d, e}
                                               /\ gap \in {d, e} => report.dropped > 0
  <2>1. CASE report.dropped > 0 /\ report.pressured /\ ~spoolPressured
    <3>1. HealthEvents = {gap, pressure}
      BY Zenon, <1>3, <2>1
    <3>2. QED
      BY Zenon, <2>1, <3>1
  <2>2. CASE report.dropped > 0 /\ ~report.pressured /\ spoolPressured
    <3>1. HealthEvents = {gap, recovered}
      BY Zenon, <1>3, <2>2
    <3>2. QED
      BY Zenon, <2>2, <3>1
  <2>3. CASE report.dropped > 0 /\ ~(report.pressured /\ ~spoolPressured)
             /\ ~(~report.pressured /\ spoolPressured)
    <3>1. HealthEvents = {gap, gap}
      BY Zenon, <1>3, <2>3
    <3>2. QED
      BY Zenon, <2>3, <3>1
  <2>4. CASE ~(report.dropped > 0) /\ report.pressured /\ ~spoolPressured
    <3>1. HealthEvents = {pressure, pressure}
      BY Zenon, <1>3, <2>4
    <3>2. pressure # gap
      BY DEF gap, pressure
    <3>3. QED
      BY Zenon, <3>1, <3>2
  <2>5. CASE ~(report.dropped > 0) /\ ~report.pressured /\ spoolPressured
    <3>1. HealthEvents = {recovered, recovered}
      BY Zenon, <1>3, <2>5
    <3>2. recovered # gap
      BY DEF gap, recovered
    <3>3. QED
      BY Zenon, <3>1, <3>2
  <2>6. QED
    BY Zenon, <1>3, <2>1, <2>2, <2>3, <2>4, <2>5
<1>5. QED
  BY Zenon, <1>1, <1>2, <1>4

\* There is an instant left for every call of Enqueue.
LEMMA InTime ==
    ASSUME TypeOK, DataInv
    PROVE  /\ now < LastInstant
           /\ \A t \in Int : 0 <= t /\ t <= observedAt => t \in (now - LastInstant)..now
<1>1. now \in Nat /\ now < LastInstant
  BY Types, Constants DEF DataInv, ClockInv
<1>2. QED
  BY SMTT(30), <1>1, Constants DEF DataInv, ClockInv, TypeOK

\* The batch in the checkpoint is one the spool expects.
LEMMA PendingExpected ==
    ASSUME TypeOK, SpoolKnown, DataInv, NEW b \in checkpoint.pending, Queue!Publish(b)
    PROVE  Queue!Enqueue
<1>1. CASE b \in submitted
  BY Zenon, <1>1, InTime DEF Queue!Enqueue, Queue!EnqueueAgain
<1>2. CASE Queue!IsNew(b)
  <2>1. PICK U \in SUBSET Unit : U # {} /\ b = NewBatch("batch", b.id[2], U, {})
    BY Zenon DEF DataInv, PendingInv
  <2>2. NewBatch("batch", b.id[2], U, {}) = Queue!NewBatch("batch", b.id[2], U, {})
    BY Zenon DEF NewBatch, Queue!NewBatch
  <2>3. Queue!EnqueueSample(b.id[2], U)
    BY Zenon, <1>2, <2>1, <2>2 DEF Queue!EnqueueSample
  <2>4. b.id[2] \in (now - LastInstant)..now
    BY Zenon, Times, InTime DEF DataInv, PendingInv
  <2>5. QED
    BY Zenon, <2>3, <2>4, InTime DEF Queue!Enqueue
<1>3. QED
  BY Zenon, <1>1, <1>2 DEF DataInv, PendingInv

\* A step of the agent is one of the spool, or leaves the spool alone.
LEMMA SpoolStep ==
    ASSUME TypeOK, SpoolKnown, DataInv, DropInv, [Next]_vars
    PROVE  \/ UNCHANGED spoolVars
           \/ Queue!EnqueueStep \/ Queue!Abort \/ Queue!Ack \/ Queue!Elapse
           \/ Queue!Enqueue /\ \E b : Queue!Publish(b) /\ (b.id[1] = "detail" => now < MaxTime)
<1>1. CASE UNCHANGED vars
  BY Zenon, <1>1 DEF vars
<1>2. CASE \/ Start \/ RecordNothing \/ LoadCheckpoint \/ ClearRecovered
           \/ \E c \in counter..TopUnit : ReadNothing(c) \/ ReadTraffic(c)
           \/ ClearPending \/ Drain \/ LoadFails \/ ReadFails \/ PeekFails
           \/ \E t \in (now - MaxLag)..now : t >= 0 /\ Tick(t)
  BY Zenon, <1>2 DEF Start, RecordNothing, LoadCheckpoint, ClearRecovered, ReadNothing, ReadTraffic,
     ClearPending, Drain, LoadFails, ReadFails, PeekFails, Tick
<1>3. CASE SendAnswered \/ SendAnswerLost \/ SendNotStored \/ SendRefused
  BY Zenon, <1>3 DEF SendAnswered, SendAnswerLost, SendNotStored, SendRefused, Request
<1>4. CASE EnqueueStep \/ EnqueueReturns \/ EnqueueFails \/ Ack \/ Elapse \/ Crash
  BY Zenon, <1>4 DEF EnqueueStep, EnqueueReturns, EnqueueFails, Ack, Elapse, Crash, Queue!EnqueueStep
<1>5. CASE Record
  <2>1. now < MaxTime /\ observedAt >= 0
    BY Zenon, <1>5 DEF Record
  <2>2. NewBatch("detail", observedAt, {}, {}) = Queue!NewBatch("detail", observedAt, {}, {})
    BY Zenon DEF NewBatch, Queue!NewBatch
  <2>3. observedAt \in (now - LastInstant)..now
    <3>1. 0 <= observedAt /\ observedAt <= observedAt /\ observedAt \in Int
      BY <2>1 DEF TypeOK
    <3>2. QED
      BY Zenon, <3>1, InTime
  <2>4. CASE UNCHANGED spoolVars
    BY Zenon, <2>4
  <2>5. CASE Queue!Publish(NewBatch("detail", observedAt, {}, {}))
    <3>1. Queue!EnqueueDetail(observedAt)
      BY Zenon, <2>2, <2>5 DEF Queue!EnqueueDetail
    <3>2. Queue!Enqueue
      BY Zenon, <2>3, <3>1, InTime DEF Queue!Enqueue
    <3>3. QED
      BY Zenon, <2>1, <2>5, <3>2
  <2>6. QED
    BY Zenon, <1>5, <2>4, <2>5 DEF Record, EnqueueCall
<1>6. ASSUME NEW b \in checkpoint.pending, Queue!Publish(b)
      PROVE  Queue!Enqueue /\ \E c : Queue!Publish(c) /\ (c.id[1] = "detail" => now < MaxTime)
  <2>1. b.id[1] # "detail"
    <3>1. PICK U \in SUBSET Unit : b = NewBatch("batch", b.id[2], U, {})
      BY ZenonT(40) DEF DataInv, PendingInv
    <3>2. QED
      BY Zenon, <3>1, Producer
  <2>2. QED
    BY Zenon, <1>6, <2>1, PendingExpected
<1>7. CASE RecoverPending
  BY Zenon, <1>6, <1>7 DEF RecoverPending, EnqueueCall
<1>8. CASE QueueSample
  <2>1. Delta(previous, current) \in checkpoint.pending
    BY Zenon, <1>8 DEF QueueSample, DataInv, PendingInv
  <2>2. QED
    BY Zenon, <1>6, <1>8, <2>1 DEF QueueSample, EnqueueCall
<1>9. CASE enqueueSpoolHealth
  <2>1. CASE UNCHANGED spoolVars
    BY Zenon, <2>1
  <2>2. CASE /\ HealthEvents # {}
             /\ Queue!Publish(NewBatch("health-batch", observedAt, {}, HealthEvents))
    <3>1. observedAt \in (now - LastInstant)..now
      <4>1. 0 <= observedAt /\ observedAt <= observedAt /\ observedAt \in Int
        BY <1>9 DEF TypeOK, DataInv, PlaceInv, enqueueSpoolHealth
      <4>2. QED
        BY Zenon, <4>1, InTime
    <3>2. PICK d \in HealthEvent, e \in HealthEvent : HealthEvents = {d, e}
      BY Zenon, <2>2, HealthPair
    <3>3. NewBatch("health-batch", observedAt, {}, HealthEvents)
             = Queue!NewBatch("health-batch", observedAt, {}, {d, e})
      BY Zenon, <3>2 DEF NewBatch, Queue!NewBatch
    <3>4. Queue!EnqueueHealth(observedAt, d, e)
      BY Zenon, <2>2, <3>3 DEF Queue!EnqueueHealth
    <3>5. Queue!Enqueue
      BY Zenon, <3>1, <3>4, InTime DEF Queue!Enqueue
    <3>6. NewBatch("health-batch", observedAt, {}, HealthEvents).id[1] # "detail"
      BY DEF NewBatch
    <3>7. QED
      BY ZenonT(40), <2>2, <3>5, <3>6
  <2>3. QED
    BY Zenon, <1>9, <2>1, <2>2 DEF enqueueSpoolHealth, EnqueueCall
<1>10. QED
  BY Zenon, <1>1, <1>2, <1>3, <1>4, <1>5, <1>7, <1>8, <1>9 DEF Next, AgentStep

\* A step of the agent is a step of the spool, or leaves it alone.
LEMMA StepRefines ==
    ASSUME TypeOK, SpoolKnown, DataInv, DropInv, [Next]_vars
    PROVE  [Queue!Next]_(Queue!vars)
<1>1. UNCHANGED spoolVars => UNCHANGED Queue!vars
  BY Zenon DEF spoolVars, Queue!vars
<1>2. QED
  BY Zenon, <1>1, SpoolStep DEF Queue!Next

-----------------------------------------------------------------------------
(* What the server has counted                                             *)

\* The server's tables stay; the spool may get another sample.
LEMMA ServerIdle ==
    ASSUME SpoolKnown, SpoolKnown', ServerInv, submitted \subseteq submitted',
           UNCHANGED <<ingestBatches, interfaceDeltas, trafficMinute, acked>>,
           pc' # "ack" \/ (pc = "ack" /\ files' = files)
    PROVE  ServerInv'
<1>1. (SummaryStored' <=> SummaryStored) /\ \A b : Stored(b)' <=> Stored(b)
  BY Zenon DEF SummaryStored, Stored
<1>2. \A b, c \in submitted' : b.id = c.id => b = c
  BY Zenon DEF SpoolKnown
<1>3. \A b \in submitted' : b.id[1] = "batch"
  BY Zenon DEF SpoolKnown
<1>4. \A b \in submitted' : Stored(b) => b \in submitted
  <2> SUFFICES ASSUME NEW b \in submitted', Stored(b) PROVE b \in submitted
    OBVIOUS
  <2>1. <<self, b.id>>[2] = b.id
    BY Zenon
  <2>2. PICK c \in submitted : b.id = c.id
    BY Zenon, <1>3, <2>1 DEF ServerInv, Stored
  <2>3. QED
    BY Zenon, <1>2, <2>2
<1>5. /\ \A u : (\E b \in submitted' : Stored(b) /\ Carries(b, u))
                  <=> (\E b \in submitted : Stored(b) /\ Carries(b, u))
      /\ \A d : (\E b \in submitted' : Stored(b) /\ d = interfaceEventID(self, b))
                  <=> (\E b \in submitted : Stored(b) /\ d = interfaceEventID(self, b))
  BY Zenon, <1>4
<1>6. TotalsInv'
  BY Zenon, <1>1, <1>5 DEF ServerInv, TotalsInv
<1>7. \A x \in ingestBatches' :
          /\ x[2][1] = "minute-summary" => SummaryStored'
          /\ x[2][1] = "batch" => \E b \in submitted' : x[2] = b.id
  BY Zenon, <1>1 DEF ServerInv
<1>8. pc' = "ack" => \A f \in files' : Queue!IsOldest(f, files)' => Stored(f.batch)'
  BY Zenon, <1>1 DEF ServerInv, Queue!IsOldest
<1>9. QED
  BY Zenon, <1>6, <1>7, <1>8 DEF ServerInv

\* The first file of the spool's order is one file.
LEMMA OneOldest ==
    ASSUME SpoolKnown, NEW f \in files, NEW g \in files, Queue!IsOldest(f, files), Queue!IsOldest(g, files)
    PROVE  f = g
<1>1. f.at \in Int /\ g.at \in Int
  <2>1. f \in [at : Int, batch : Batch] /\ g \in [at : Int, batch : Batch]
    BY Zenon, SpoolKnows
  <2>2. QED
    BY <2>1
<1>2. ~(Queue!Before(f, g) /\ Queue!Before(g, f))
  BY <1>1 DEF Queue!Before
<1>3. QED
  BY Zenon, <1>2 DEF Queue!IsOldest

\* What the insertion of a batch adds to the total of a unit.
LEMMA PlusAt ==
    ASSUME TypeOK, NEW x, NEW u \in Unit
    PROVE  [trafficMinute EXCEPT ![self] = Plus(@, x)][self][u] = trafficMinute[self][u] + x[u]
  BY AgentAssumption DEF TypeOK, Plus

\* A batch the server stores for the first time.
LEMMA InsertNew ==
    ASSUME TypeOK, SpoolKnown, ServerInv, NEW f \in files, InsertBatch(self, f.batch), ~Stored(f.batch),
           UNCHANGED <<submitted, acked>>
    PROVE  /\ TotalsInv'
           /\ \A x \in ingestBatches' :
                 /\ x[2][1] = "minute-summary" => SummaryStored'
                 /\ x[2][1] = "batch" => \E b \in submitted' : x[2] = b.id
           /\ Stored(f.batch)'
<1> DEFINE a == f.batch
           e == interfaceEventID(self, a)
<1>1. a \in Batch /\ a.id \in BatchID /\ a.id[1] \in Kind
  <2>1. f \in [at : Int, batch : Batch]
    BY Zenon, SpoolKnows
  <2>2. QED
    BY <2>1 DEF Batch, BatchID
<1>2. /\ (a.id[1] = "batch" => a \in submitted)
      /\ \A b \in submitted : b.id[1] = "batch"
      /\ \A b \in submitted : b \in Batch
  BY Zenon, SpoolKnows
<1> HIDE DEF a, e
<1>3. /\ ingestBatches' = ingestBatches \cup {<<self, a.id>>}
      /\ insertInterfaceDelta(self, a)
      /\ <<self, a.id>> \notin ingestBatches
  BY Zenon DEF InsertBatch, Stored, a
<1>4. \A c : c.id = a.id => Stored(c)'
  BY Zenon, <1>3 DEF Stored
<1>5. \A c : Stored(c)' <=> Stored(c) \/ c.id = a.id
  <2>1. \A x, y : <<self, x>> = <<self, y>> => x = y
    OBVIOUS
  <2>2. QED
    BY Zenon, <1>3, <1>4, <2>1 DEF Stored
<1>6. CASE a.id[1] = "minute-summary"
  <2>1. e[1] = "minute-interface" /\ interfaceOnly(a)
    BY <1>6 DEF e, interfaceEventID, IsSummary, interfaceOnly
  <2>2. e \in interfaceDeltas'
    BY Zenon, <1>3, <2>1 DEF insertInterfaceDelta, e
  <2>3. SummaryStored'
    BY Zenon, <2>1, <2>2 DEF SummaryStored
  <2>4. <<self, a.id>>[2][1] # "batch"
    BY <1>6
  <2>5. QED
    BY Zenon, <1>3, <1>4, <2>3, <2>4 DEF ServerInv, TotalsInv, a
<1>7. CASE a.id[1] \in {"detail", "health-batch"}
  <2>1. UNCHANGED <<interfaceDeltas, trafficMinute>>
    BY Zenon, <1>3, <1>7 DEF insertInterfaceDelta, interfaceOnly
  <2>2. \A b \in submitted : Stored(b)' <=> Stored(b)
    BY Zenon, <1>2, <1>5, <1>7
  <2>3. TotalsInv'
    BY Zenon, <2>1, <2>2 DEF ServerInv, TotalsInv, SummaryStored
  <2>4. <<self, a.id>>[2][1] \notin {"batch", "minute-summary"}
    BY <1>7
  <2>5. QED
    BY Zenon, <1>3, <1>4, <2>1, <2>3, <2>4 DEF ServerInv, SummaryStored, a
<1>8. CASE a.id[1] = "batch"
  <2>1. a \in submitted /\ interfaceOnly(a) /\ ~IsSummary(a)
    BY Zenon, <1>2, <1>8 DEF interfaceOnly, IsSummary
  <2>2. e = <<"interface", Interface[self], a.id[2]>> /\ e[1] # "minute-interface"
    BY <2>1 DEF e, interfaceEventID
  <2>3. SummaryStored' <=> SummaryStored
    <3>1. interfaceDeltas' = interfaceDeltas \/ interfaceDeltas' = interfaceDeltas \cup {e}
      BY Zenon, <1>3 DEF insertInterfaceDelta, e
    <3>2. QED
      BY Zenon, <2>2, <3>1 DEF SummaryStored
  <2>4. ASSUME NEW x \in ingestBatches'
        PROVE  /\ x[2][1] = "minute-summary" => SummaryStored'
               /\ x[2][1] = "batch" => \E b \in submitted' : x[2] = b.id
    <3>1. <<self, a.id>>[2] = a.id
      OBVIOUS
    <3>2. CASE x = <<self, a.id>>
      BY Zenon, <1>8, <2>1, <3>1, <3>2
    <3>3. CASE x \in ingestBatches
      BY Zenon, <2>3, <3>3 DEF ServerInv
    <3>4. QED
      BY Zenon, <1>3, <3>2, <3>3
  <2>5. ASSUME ~SummaryStored PROVE TotalsInv'
    <3>1. e \notin interfaceDeltas
      <4> SUFFICES ASSUME e \in interfaceDeltas PROVE FALSE
        OBVIOUS
      <4>1. PICK c \in submitted : Stored(c) /\ e = interfaceEventID(self, c)
        BY Zenon, <2>5 DEF ServerInv, TotalsInv
      <4>2. c.id[1] = "batch" /\ ~IsSummary(c) /\ c.id \in BatchID
        BY SMTT(30), <1>2 DEF IsSummary, Batch
      <4>3. c.id[2] = a.id[2]
        BY SMTT(30), <2>2, <4>1, <4>2 DEF interfaceEventID
      <4>4. c.id = a.id
        BY <1>1, <1>8, <4>2, <4>3 DEF BatchID
      <4>5. QED
        BY Zenon, <1>3, <4>1, <4>4 DEF Stored
    <3>2. /\ interfaceDeltas' = interfaceDeltas \cup {e}
          /\ trafficMinute' = [trafficMinute EXCEPT ![self] = Plus(@, a.bytes)]
      BY Zenon, <1>3, <2>1, <3>1 DEF insertInterfaceDelta, e
    <3>3. ASSUME NEW u \in Unit
          PROVE  trafficMinute'[self][u] =
                    IF \E b \in submitted : Stored(b)' /\ Carries(b, u) THEN 1 ELSE 0
      <4>1. trafficMinute'[self][u] = trafficMinute[self][u] + a.bytes[u]
        BY Zenon, <3>2, PlusAt
      <4>2. trafficMinute[self][u] =
               IF \E b \in submitted : Stored(b) /\ Carries(b, u) THEN 1 ELSE 0
        BY Zenon, <2>5 DEF ServerInv, TotalsInv
      <4>3. a.bytes[u] \in {0, 1}
        BY Zenon, <2>1, SpoolKnows
      <4>4. CASE Carries(a, u)
        <5>1. ~\E b \in submitted : Stored(b) /\ Carries(b, u)
          BY ZenonT(40), <1>3, <2>1, <4>4, SpoolKnows DEF Stored
        <5>2. a.bytes[u] = 1
          BY <4>3, <4>4 DEF Carries
        <5>3. \E b \in submitted : Stored(b)' /\ Carries(b, u)
          BY Zenon, <1>4, <2>1, <4>4
        <5>4. trafficMinute[self][u] = 0
          BY Zenon, <4>2, <5>1
        <5>5. trafficMinute'[self][u] = 1
          <6>1. 0 + 1 = 1
            OBVIOUS
          <6>2. QED
            BY Zenon, <4>1, <5>2, <5>4, <6>1
        <5>6. QED
          BY Zenon, <5>3, <5>5
      <4>5. CASE ~Carries(a, u)
        <5>1. a.bytes[u] = 0
          BY <4>3, <4>5 DEF Carries
        <5>2. \A b \in submitted : Stored(b)' /\ Carries(b, u) => Stored(b)
          BY Zenon, <1>5, <2>1, <4>5, SpoolKnows
        <5>3. (\E b \in submitted : Stored(b)' /\ Carries(b, u))
                 <=> (\E b \in submitted : Stored(b) /\ Carries(b, u))
          BY Zenon, <1>5, <5>2
        <5>4. trafficMinute'[self][u] = trafficMinute[self][u]
          <6>1. \A n \in {0, 1} : n + 0 = n
            OBVIOUS
          <6>2. trafficMinute[self][u] \in {0, 1}
            BY Zenon, <4>2
          <6>3. QED
            BY Zenon, <4>1, <5>1, <6>1, <6>2
        <5>5. QED
          BY Zenon, <4>2, <5>3, <5>4
      <4>6. QED
        BY ZenonT(40), <4>4, <4>5
    <3>4. /\ \A u \in acked : \E b \in submitted : Stored(b)' /\ Carries(b, u)
          /\ \A d \in interfaceDeltas' : \E b \in submitted :
                Stored(b)' /\ d = interfaceEventID(self, b)
      BY Zenon, <1>4, <1>5, <2>1, <2>5, <3>2 DEF ServerInv, TotalsInv, e
    <3>5. QED
      BY Zenon, <3>3, <3>4 DEF TotalsInv
  <2>6. TotalsInv'
    BY Zenon, <2>3, <2>5 DEF TotalsInv
  <2>7. Stored(f.batch)'
    BY Zenon, <1>4 DEF a
  <2>8. QED
    BY Zenon, <2>4, <2>6, <2>7
<1>9. QED
  BY Zenon, <1>1, <1>6, <1>7, <1>8 DEF Kind

\* The server answers a request, or has stored the batch when the answer is lost.
LEMMA ServerInserts ==
    ASSUME TypeOK, SpoolKnown, SpoolKnown', ServerInv, NEW f \in files, Queue!IsOldest(f, files),
           InsertBatch(self, f.batch), UNCHANGED spoolVars
    PROVE  ServerInv'
<1>1. UNCHANGED <<submitted, acked, files>>
  BY Zenon DEF spoolVars
<1>2. Stored(f.batch)' => (\A g \in files' : Queue!IsOldest(g, files)' => Stored(g.batch)')
  <2>1. \A g \in files : Queue!IsOldest(g, files)' => g = f
    BY Zenon, <1>1, OneOldest DEF Queue!IsOldest
  <2>2. QED
    BY Zenon, <1>1, <2>1
<1>3. CASE Stored(f.batch)
  <2>1. UNCHANGED <<ingestBatches, interfaceDeltas, trafficMinute>>
    BY Zenon, <1>3 DEF InsertBatch, Stored
  <2>2. (SummaryStored' <=> SummaryStored) /\ \A b : Stored(b)' <=> Stored(b)
    BY Zenon, <2>1 DEF SummaryStored, Stored
  <2>3. TotalsInv'
    BY Zenon, <1>1, <2>1, <2>2 DEF ServerInv, TotalsInv
  <2>4. QED
    BY Zenon, <1>1, <1>2, <1>3, <2>1, <2>2, <2>3 DEF ServerInv
<1>4. CASE ~Stored(f.batch)
  BY Zenon, <1>1, <1>2, <1>4, InsertNew DEF ServerInv
<1>5. QED
  BY Zenon, <1>3, <1>4

\* The agent removes the file it was answered for.
LEMMA ServerAcked ==
    ASSUME TypeOK, SpoolKnown, ServerInv, pc = "ack", pc' # "ack", Queue!Ack,
           UNCHANGED <<ingestBatches, interfaceDeltas, trafficMinute>>
    PROVE  ServerInv'
<1>1. PICK f \in files : /\ Queue!IsOldest(f, files)
                         /\ acked' = acked \cup {u \in Unit : Queue!Carries(f.batch, u)}
  BY Zenon DEF Queue!Ack
<1>2. submitted' = submitted /\ Stored(f.batch)
  BY Zenon, <1>1 DEF Queue!Ack, ServerInv
<1>3. (SummaryStored' <=> SummaryStored) /\ \A b : Stored(b)' <=> Stored(b)
  BY Zenon DEF SummaryStored, Stored
<1>4. ASSUME NEW u \in Unit, Queue!Carries(f.batch, u), ~SummaryStored
      PROVE  \E b \in submitted : Stored(b) /\ Carries(b, u)
  <2>1. Carries(f.batch, u)
    BY Zenon, <1>4 DEF Carries, Queue!Carries
  <2>2. f.batch.id[1] \in {"batch", "minute-summary"}
    BY Zenon, <2>1, SpoolKnows DEF interfaceOnly
  <2>3. <<self, f.batch.id>>[2] = f.batch.id
    OBVIOUS
  <2>4. f.batch.id[1] # "minute-summary"
    BY Zenon, <1>2, <1>4, <2>3 DEF ServerInv, Stored
  <2>5. f.batch \in submitted
    BY Zenon, <2>2, <2>4, SpoolKnows
  <2>6. QED
    BY Zenon, <1>2, <2>1, <2>5
<1>5. TotalsInv'
  BY Zenon, <1>1, <1>2, <1>3, <1>4 DEF ServerInv, TotalsInv
<1>6. QED
  BY Zenon, <1>2, <1>3, <1>5 DEF ServerInv

\* Every step keeps what is known of the server.
LEMMA ServerStep ==
    ASSUME AgentInv, SpoolKnown, SpoolKnown', ServerInv, [Next]_vars
    PROVE  ServerInv'
<1>1. TypeOK /\ DataInv /\ DropInv
  BY Zenon DEF AgentInv
<1>2. submitted \subseteq submitted'
  <2>1. (\E b : Queue!Publish(b)) => submitted \subseteq submitted'
    BY Zenon DEF Queue!Publish
  <2>2. UNCHANGED spoolVars => submitted \subseteq submitted'
    BY Zenon DEF spoolVars
  <2>3. Queue!EnqueueStep \/ Queue!Abort \/ Queue!Ack \/ Queue!Elapse => submitted \subseteq submitted'
    BY Zenon DEF Queue!EnqueueStep, Queue!Abort, Queue!Ack, Queue!Elapse, Queue!Scan,
       Queue!ScanDone, Queue!WriteSummary, Queue!WriteDone, Queue!RemoveCompacted, Queue!RemoveDone,
       Queue!Evict, Queue!EvictDone, Queue!Return
  <2>4. QED
    BY Zenon, <1>1, <2>1, <2>2, <2>3, SpoolStep
<1>3. CASE UNCHANGED vars
  BY Zenon, <1>2, <1>3, ServerIdle DEF vars, ingestVars, spoolVars
<1>4. CASE SendAnswered \/ SendAnswerLost
  <2>1. PICK f \in files : Queue!IsOldest(f, files) /\ InsertBatch(self, f.batch)
    BY Zenon, <1>4 DEF SendAnswered, SendAnswerLost, Request, Answered, AnswerLost
  <2>2. UNCHANGED spoolVars
    BY Zenon, <1>4 DEF SendAnswered, SendAnswerLost, Request
  <2>3. QED
    BY Zenon, <1>1, <2>1, <2>2, ServerInserts
<1>5. CASE Ack
  <2>1. /\ pc = "ack" /\ pc' \in {"drain", "main"} /\ UNCHANGED ingestVars
        /\ Queue!Ack \/ UNCHANGED spoolVars
    BY Zenon, <1>5 DEF Ack
  <2>2. UNCHANGED <<ingestBatches, interfaceDeltas, trafficMinute>> /\ pc' # "ack"
    BY Zenon, <2>1 DEF ingestVars
  <2>3. CASE Queue!Ack
    BY Zenon, <1>1, <2>1, <2>2, <2>3, ServerAcked
  <2>4. CASE UNCHANGED spoolVars
    BY Zenon, <1>2, <2>2, <2>4, ServerIdle DEF spoolVars
  <2>5. QED
    BY Zenon, <2>1, <2>3, <2>4
<1>6. CASE \/ Start \/ RecordNothing \/ LoadCheckpoint \/ ClearRecovered
           \/ \E c \in counter..TopUnit : ReadNothing(c) \/ ReadTraffic(c)
           \/ ClearPending \/ Drain \/ LoadFails \/ ReadFails \/ PeekFails
           \/ \E t \in (now - MaxLag)..now : t >= 0 /\ Tick(t)
  <2>1. pc' # "ack" /\ UNCHANGED <<ingestBatches, interfaceDeltas, trafficMinute, acked>>
    BY Zenon, <1>6 DEF Start, RecordNothing, LoadCheckpoint, ClearRecovered, ReadNothing, ReadTraffic,
       ClearPending, Drain, LoadFails, ReadFails, PeekFails, Tick, SaveThen, ingestVars, spoolVars
  <2>2. QED
    BY Zenon, <1>2, <2>1, ServerIdle
<1>7. CASE SendNotStored \/ SendRefused \/ Elapse \/ Crash \/ EnqueueFails
  <2>1. pc' # "ack" /\ UNCHANGED <<ingestBatches, interfaceDeltas, trafficMinute, acked>>
    BY Zenon, <1>7 DEF SendNotStored, SendRefused, Request, NotStored, Refused, Retry, Elapse, Crash,
       EnqueueFails, QueueError, Queue!Abort, Queue!Elapse, ingestVars, spoolVars
  <2>2. QED
    BY Zenon, <1>2, <2>1, ServerIdle
<1>8. CASE EnqueueStep \/ EnqueueReturns
  <2>1. UNCHANGED acked
    BY ZenonT(40), <1>8 DEF EnqueueStep, EnqueueReturns, Queue!EnqueueStep, Queue!Scan,
       Queue!ScanDone, Queue!WriteSummary, Queue!WriteDone, Queue!RemoveCompacted, Queue!RemoveDone,
       Queue!Evict, Queue!EvictDone, Queue!Return
  <2>2. [recover |-> "recovered", sample |-> "clear", record |-> "health"][caller] # "ack"
    BY <1>1 DEF TypeOK
  <2>3. pc' # "ack" /\ UNCHANGED <<ingestBatches, interfaceDeltas, trafficMinute>>
    BY Zenon, <1>8, <2>2 DEF EnqueueStep, EnqueueReturns, HealthDone, ingestVars
  <2>4. QED
    BY Zenon, <1>2, <2>1, <2>3, ServerIdle
<1>9. CASE Record \/ RecoverPending \/ QueueSample \/ enqueueSpoolHealth
  <2>1. pc' # "ack" /\ UNCHANGED <<ingestBatches, interfaceDeltas, trafficMinute, acked>>
    BY Zenon, <1>9 DEF Record, RecoverPending, QueueSample, enqueueSpoolHealth, EnqueueCall, QueueError,
       HealthDone, Queue!Publish, ingestVars, spoolVars
  <2>2. QED
    BY Zenon, <1>2, <2>1, ServerIdle
<1>10. QED
  BY Zenon, <1>3, <1>4, <1>5, <1>6, <1>7, <1>8, <1>9 DEF Next, AgentStep

\* An empty database has counted nothing.
LEMMA ServerInit == Init => ServerInv
<1> SUFFICES ASSUME Init PROVE ServerInv
  OBVIOUS
<1>1. /\ ingestBatches = {} /\ interfaceDeltas = {} /\ submitted = {} /\ acked = {} /\ pc = "down"
      /\ trafficMinute = [n \in Node |-> NoBytes]
  BY Zenon DEF Init, Queue!Init, IngestInit
<1>2. \A u \in Unit : trafficMinute[self][u] = 0
  BY <1>1, AgentAssumption DEF NoBytes
<1>3. QED
  BY Zenon, <1>1, <1>2 DEF ServerInv, TotalsInv

\* A new agent has queued nothing.
LEMMA AgentStarts == Init => TypeOK /\ DataInv
<1> SUFFICES ASSUME Init PROVE TypeOK /\ DataInv
  OBVIOUS
<1>2. /\ pc = "down" /\ observedAt = -1 /\ current = NoCounter /\ caller = "sample" /\ ~inHealth
      /\ attempt = 0 /\ previous = NoCounter /\ ~stateLoaded
      /\ checkpoint.found = FALSE /\ checkpoint.counters = NoCounter /\ checkpoint.pending = {}
      /\ counter = 0 /\ ~established /\ now = 0 /\ submitted = {} /\ files = {}
      /\ report.dropped = 0
  BY Zenon DEF Init, Queue!Init
<1>3. ~InRecovery /\ ~InSample /\ Spent = 3
  BY Zenon, <1>2 DEF InRecovery, InSample, Spent
<1>4. TypeOK
  <2>1. trafficMinute \in [Node -> Bytes]
    BY SMTT(30) DEF Init, IngestInit, NoBytes, Bytes
  <2>2. checkpoint \in [found : BOOLEAN, counters : Int, pending : SUBSET Batch]
    BY SMTT(30) DEF Init, NoCounter
  <2>3. 0 \in 0..Attempts /\ 0 \in 0..MaxFaults /\ NoCounter \in Int /\ -1 \in Int /\ 0 \in Int
    BY Constants DEF NoCounter
  <2>4. QED
    BY ZenonT(40), <2>1, <2>2, <2>3 DEF Init, TypeOK
<1>5. PlaceInv /\ QueuedInv /\ PendingInv /\ CoveredInv
  BY ZenonT(40), <1>2, <1>3 DEF PlaceInv, QueuedInv, PendingInv, CoveredInv
<1>6. ClockInv /\ CounterInv
  BY SMTT(30), <1>2, <1>3, Constants DEF ClockInv, CounterInv, NoCounter
<1>7. QED
  BY Zenon, <1>4, <1>5, <1>6 DEF DataInv

-----------------------------------------------------------------------------
(* What the server is told of evictions                                    *)

\* Told, member by member.
LEMMA ToldIs ==
    /\ \A e : e \in Told <=>
          e \in collectorHealth \/ \E f \in files : \E h \in f.batch.health : e = healthEvent(self, f.batch, h)
    /\ \A e : e \in Told' <=>
          e \in collectorHealth' \/ \E f \in files' : \E h \in f.batch.health : e = healthEvent(self, f.batch, h)
<1>1. \A e : e \in Told <=>
          e \in collectorHealth \/ \E f \in files : \E h \in f.batch.health : e = healthEvent(self, f.batch, h)
  BY DEF Told
<1>2. \A e : e \in Told' <=>
          e \in collectorHealth' \/ \E f \in files' : \E h \in f.batch.health : e = healthEvent(self, f.batch, h)
  BY SMTT(30) DEF Told, healthEvent
<1>3. QED
  BY Zenon, <1>1, <1>2

\* No health event is added where none is stored and no file with one appears.
LEMMA NothingTold ==
    ASSUME collectorHealth' \subseteq Told, \A f \in files' : f.batch.health = {} \/ f \in files
    PROVE  Told' \subseteq Told
BY Zenon, ToldIs

\* An insert stores what waits in the spool.
LEMMA InsertTold ==
    ASSUME NEW f \in files, InsertBatch(self, f.batch)
    PROVE  collectorHealth' \subseteq Told
<1>1. collectorHealth' \subseteq collectorHealth \cup {healthEvent(self, f.batch, h) : h \in f.batch.health}
  BY Zenon DEF InsertBatch, insertHealth
<1>2. QED
  BY Zenon, <1>1, ToldIs

\* The events of a report tell of its drops and of nothing else.
LEMMA ReportTold ==
    ASSUME report.dropped \in Nat, NEW b, b.health = HealthEvents, NEW t,
           files' = files \cup {[at |-> t, batch |-> b]}, collectorHealth' = collectorHealth
    PROVE  GapUnits(Told') \subseteq
             GapUnits(Told) \cup ({healthEvent(self, b, [code |-> "data_gap", dropped |-> report.dropped])}
                                    \X (1..report.dropped))
<1> DEFINE gap == healthEvent(self, b, [code |-> "data_gap", dropped |-> report.dropped])
<1> SUFFICES ASSUME NEW x \in GapUnits(Told')
             PROVE  x \in GapUnits(Told) \/ x \in {gap} \X (1..report.dropped)
  OBVIOUS
<1>1. PICK e \in Told' : x \in {e} \X (1..e.dropped)
  BY Zenon DEF GapUnits
<1>2. CASE e \in Told
  BY Zenon, <1>1, <1>2 DEF GapUnits
<1>3. CASE e \notin Told
  <2>1. PICK h \in HealthEvents : e = healthEvent(self, b, h)
    <3>1. PICK f \in files' : \E h \in f.batch.health : e = healthEvent(self, f.batch, h)
      BY Zenon, <1>3, ToldIs
    <3>2. f \notin files
      BY Zenon, <1>3, <3>1, ToldIs
    <3>3. f.batch = b
      BY <3>2
    <3>4. QED
      BY Zenon, <3>1, <3>3
  <2>2. e.dropped = h.dropped
    BY <2>1 DEF healthEvent
  <2>3. h = [code |-> "data_gap", dropped |-> report.dropped] \/ h.dropped = 0
    BY SMTT(30) DEF HealthEvents
  <2>4. h.dropped # 0
    BY SMTT(30), <1>1, <2>2
  <2>5. e = gap /\ e.dropped = report.dropped
    BY SMTT(30), <2>1, <2>2, <2>3, <2>4
  <2>6. QED
    BY Zenon, <1>1, <2>5
<1>4. QED
  BY Zenon, <1>2, <1>3

\* A step tells nothing new, or what the last report counts; and what is left
\* to tell grows only by what is evicted.
LEMMA ToldStep ==
    ASSUME TypeOK, SpoolKnown, DataInv, DropInv, [Next]_vars,
           Queue!EnqueueStep \/ Queue!Abort \/ Queue!Ack \/ Queue!Elapse =>
               \A f \in files' : f.batch.health = {} \/ f \in files,
           Queue!EnqueueStep => report.dropped <= report'.dropped,
           report'.dropped \in Nat, dropped \in Nat
    PROVE  \/ Told' \subseteq Told /\ dropped' \in Nat /\ Untold' + dropped <= Untold + dropped'
           \/ /\ \E e : GapUnits(Told') \subseteq GapUnits(Told) \cup ({e} \X (1..report.dropped))
              /\ Untold' = 0 /\ Untold = report.dropped /\ dropped' = dropped
<1> DEFINE Places == {"enqueue", "recovered", "clear", "health"}
           Quietly == Told' \subseteq Told /\ dropped' \in Nat /\ Untold' + dropped <= Untold + dropped'
<1>1. report.dropped \in Nat /\ Untold \in Nat
  BY SpoolKnows DEF Untold
<1>2. \A f \in files : f \in files
  OBVIOUS
<1>3. ASSUME Told' \subseteq Told, pc' \notin Places, dropped' = dropped PROVE Quietly
  <2>1. Untold' = 0
    BY Zenon, <1>3 DEF Untold
  <2>2. QED
    BY <1>1, <1>3, <2>1
<1>4. ASSUME Told' \subseteq Told, Untold' = Untold, dropped' = dropped PROVE Quietly
  BY <1>1, <1>4
<1>5. UNCHANGED <<files, collectorHealth>> => Told' \subseteq Told
  BY Zenon DEF Told, healthEvent
<1>6. CASE UNCHANGED vars
  <2>1. UNCHANGED <<files, collectorHealth, dropped, pc, inHealth, report>>
    BY Zenon, <1>6 DEF vars, spoolVars, ingestVars, callVars, historyVars
  <2>2. Untold' = Untold
    BY Zenon, <2>1 DEF Untold
  <2>3. QED
    BY Zenon, <1>4, <1>5, <2>1, <2>2
<1>7. CASE \/ Start \/ RecordNothing \/ LoadCheckpoint
           \/ \E c \in counter..TopUnit : ReadNothing(c) \/ ReadTraffic(c)
           \/ Drain \/ LoadFails \/ ReadFails \/ PeekFails
           \/ \E t \in (now - MaxLag)..now : t >= 0 /\ Tick(t)
  <2>1. pc' \notin Places /\ UNCHANGED <<files, collectorHealth, dropped>>
    BY Zenon, <1>7 DEF Start, RecordNothing, LoadCheckpoint, ReadNothing, ReadTraffic,
       Drain, LoadFails, ReadFails, PeekFails, Tick, SaveThen, ingestVars, spoolVars, historyVars
  <2>2. QED
    BY Zenon, <1>3, <1>5, <2>1
<1>8. CASE SendNotStored \/ SendRefused \/ Elapse \/ Crash \/ EnqueueFails
  <2>1. pc' \notin Places /\ UNCHANGED <<files, collectorHealth, dropped>>
    BY Zenon, <1>8 DEF SendNotStored, SendRefused, Request, NotStored, Refused, Retry, Elapse, Crash,
       EnqueueFails, QueueError, Queue!Abort, Queue!Elapse, ingestVars, spoolVars, historyVars
  <2>2. QED
    BY Zenon, <1>3, <1>5, <2>1
<1>9. CASE SendAnswered \/ SendAnswerLost
  <2>1. PICK f \in files : InsertBatch(self, f.batch)
    BY Zenon, <1>9 DEF SendAnswered, SendAnswerLost, Request, Answered, AnswerLost
  <2>2. pc' \notin Places /\ UNCHANGED <<files, dropped>>
    BY Zenon, <1>9 DEF SendAnswered, SendAnswerLost, Request, Answered, AnswerLost, Retry,
       spoolVars, historyVars
  <2>3. Told' \subseteq Told
    BY Zenon, <2>1, <2>2, InsertTold, NothingTold
  <2>4. QED
    BY Zenon, <1>3, <2>2, <2>3
<1>10. CASE Ack
  <2>1. /\ pc' \notin Places /\ UNCHANGED <<collectorHealth, dropped>>
        /\ Queue!Ack \/ UNCHANGED files
    BY Zenon, <1>10 DEF Ack, ingestVars, historyVars, spoolVars
  <2>2. Told' \subseteq Told
    <3>1. collectorHealth' \subseteq Told
      BY Zenon, <2>1 DEF Told
    <3>2. QED
      BY Zenon, <2>1, <3>1, NothingTold
  <2>3. QED
    BY Zenon, <1>3, <2>1, <2>2
<1>11. CASE ClearRecovered \/ ClearPending
  <2>1. /\ pc \in {"recovered", "clear"} /\ pc' \in {"health", "main"}
        /\ UNCHANGED <<files, collectorHealth, dropped, report>>
    BY Zenon, <1>11 DEF ClearRecovered, ClearPending, SaveThen, ingestVars, spoolVars, historyVars
  <2>2. CASE pc' = "main"
    BY Zenon, <1>3, <1>5, <2>1, <2>2
  <2>3. CASE pc' = "health"
    <3>1. Untold' = Untold
      BY Zenon, <2>1, <2>3 DEF Untold
    <3>2. QED
      BY Zenon, <1>4, <1>5, <2>1, <3>1
  <2>4. QED
    BY Zenon, <2>1, <2>2, <2>3
<1>12. CASE EnqueueReturns
  <2>1. /\ pc = "enqueue" /\ UNCHANGED <<files, collectorHealth, dropped, report>>
        /\ inHealth => pc' \in {"read", "drain"}
        /\ ~inHealth => pc' = [recover |-> "recovered", sample |-> "clear", record |-> "health"][caller]
    BY Zenon, <1>12 DEF EnqueueReturns, HealthDone, Queue!Return, ingestVars, historyVars
  <2>2. CASE inHealth
    BY Zenon, <1>3, <1>5, <2>1, <2>2
  <2>3. CASE ~inHealth
    <3>1. [recover |-> "recovered", sample |-> "clear", record |-> "health"][caller]
             \in {"recovered", "clear", "health"}
      BY SMTT(30) DEF TypeOK
    <3>2. Untold' = Untold
      BY Zenon, <2>1, <2>3, <3>1 DEF Untold
    <3>3. QED
      BY Zenon, <1>4, <1>5, <2>1, <3>2
  <2>4. QED
    BY Zenon, <2>2, <2>3
<1>13. CASE EnqueueStep
  <2>1. /\ pc = "enqueue" /\ Queue!EnqueueStep /\ UNCHANGED <<collectorHealth, pc, inHealth>>
        /\ dropped' = dropped + (report'.dropped - report.dropped)
    BY Zenon, <1>13 DEF EnqueueStep, ingestVars, callVars
  <2>2. Told' \subseteq Told
    <3>1. collectorHealth' \subseteq Told
      BY Zenon, <2>1 DEF Told
    <3>2. QED
      BY Zenon, <2>1, <3>1, NothingTold
  <2>3. CASE inHealth
    <3>1. Untold' = 0 /\ Untold = 0
      BY Zenon, <2>1, <2>3 DEF Untold
    <3>2. report.dropped <= report'.dropped
      BY Zenon, <2>1
    <3>3. QED
      BY SMTT(30), <1>1, <2>1, <2>2, <3>1, <3>2
  <2>4. CASE ~inHealth
    <3>1. Untold' = report'.dropped /\ Untold = report.dropped
      BY Zenon, <2>1, <2>4 DEF Untold
    <3>2. report.dropped <= report'.dropped
      BY Zenon, <2>1
    <3>3. QED
      BY <1>1, <2>1, <2>2, <3>1, <3>2
  <2>5. QED
    BY Zenon, <2>3, <2>4
<1>14. ASSUME NEW b, b.health = {}, NEW who, EnqueueCall(b, who, FALSE),
              UNCHANGED <<collectorHealth, dropped>>, pc \notin Places
       PROVE  Quietly
  <2>1. CASE Queue!Publish(b) /\ pc' = "enqueue" /\ inHealth' = FALSE
    <3>1. files' = files \cup {[at |-> now + 1, batch |-> b]} /\ report' = [dropped |-> 0, pressured |-> FALSE]
      BY Zenon, <2>1 DEF Queue!Publish
    <3>2. Untold' = 0 /\ Untold = 0
      BY <1>14, <2>1, <3>1 DEF Untold
    <3>3. \A f \in files' : f.batch.health = {} \/ f \in files
      BY SMTT(30), <1>14, <3>1
    <3>4. collectorHealth' \subseteq Told
      BY Zenon, <1>14 DEF Told
    <3>5. Told' \subseteq Told
      BY Zenon, <3>3, <3>4, NothingTold
    <3>6. QED
      BY Zenon, <1>4, <1>14, <3>2, <3>5
  <2>2. CASE pc' = "main" /\ UNCHANGED files
    BY Zenon, <1>3, <1>5, <1>14, <2>2
  <2>3. QED
    BY Zenon, <1>14, <2>1, <2>2 DEF EnqueueCall, QueueError, spoolVars
<1>15. \A k, t, U : NewBatch(k, t, U, {}).health = {}
  BY DEF NewBatch
<1>16. CASE Record
  <2>1. /\ pc \notin Places /\ UNCHANGED <<collectorHealth, dropped>>
        /\ EnqueueCall(NewBatch("detail", observedAt, {}, {}), "record", FALSE)
    BY Zenon, <1>16 DEF Record, ingestVars, historyVars
  <2>2. QED
    BY Zenon, <1>14, <1>15, <2>1
<1>17. CASE RecoverPending
  <2>1. PICK b \in checkpoint.pending : EnqueueCall(b, "recover", FALSE)
    BY Zenon, <1>17 DEF RecoverPending
  <2>2. b.health = {}
    BY Zenon, <1>15 DEF DataInv, PendingInv
  <2>3. pc \notin Places /\ UNCHANGED <<collectorHealth, dropped>>
    BY Zenon, <1>17 DEF RecoverPending, ingestVars, historyVars
  <2>4. QED
    BY Zenon, <1>14, <2>1, <2>2, <2>3
<1>18. CASE QueueSample
  <2>1. /\ pc \notin Places /\ UNCHANGED <<collectorHealth, dropped>>
        /\ EnqueueCall(Delta(previous, current), "sample", FALSE)
    BY Zenon, <1>18 DEF QueueSample, ingestVars, historyVars
  <2>2. Delta(previous, current).health = {}
    BY Zenon, <1>15 DEF Delta
  <2>3. QED
    BY Zenon, <1>14, <2>1, <2>2
<1>19. CASE enqueueSpoolHealth
  <2>1. pc = "health" /\ UNCHANGED <<collectorHealth, dropped>>
    BY Zenon, <1>19 DEF enqueueSpoolHealth, ingestVars, historyVars
  <2>2. CASE pc' \in {"main", "read", "drain"} /\ UNCHANGED files
    BY Zenon, <1>3, <1>5, <2>1, <2>2
  <2>3. CASE /\ Queue!Publish(NewBatch("health-batch", observedAt, {}, HealthEvents))
             /\ pc' = "enqueue" /\ inHealth' = TRUE
    <3> DEFINE b == NewBatch("health-batch", observedAt, {}, HealthEvents)
    <3>1. b.health = HealthEvents
      BY DEF NewBatch
    <3>2. files' = files \cup {[at |-> now + 1, batch |-> b]}
      BY Zenon, <2>3 DEF Queue!Publish
    <3>3. Untold' = 0 /\ Untold = report.dropped
      BY Zenon, <2>1, <2>3 DEF Untold
    <3> HIDE DEF b
    <3>4. \E e : GapUnits(Told') \subseteq GapUnits(Told) \cup ({e} \X (1..report.dropped))
      BY Zenon, <1>1, <2>1, <3>1, <3>2, ReportTold
    <3>5. QED
      BY Zenon, <2>1, <3>3, <3>4
  <2>4. QED
    BY Zenon, <1>19, <2>2, <2>3 DEF enqueueSpoolHealth, EnqueueCall, QueueError, HealthDone, spoolVars
<1>20. QED
  BY Zenon, <1>6, <1>7, <1>8, <1>9, <1>10, <1>11, <1>12, <1>13, <1>16, <1>17, <1>18, <1>19
     DEF Next, AgentStep

-----------------------------------------------------------------------------
(* The theorems about the spool, for the agent's                           *)

SP == INSTANCE SpoolProofs WITH MaxTime <- LastInstant, MaxLag <- LastInstant

\* The agent gives the spool constants as the spool demands them.
LEMMA SpoolConstants == SP!SpoolAssumption
  BY SMTT(30), AgentAssumption DEF SP!SpoolAssumption, LastInstant

\* The instances count alike.
LEMMA Counting ==
    \A S : /\ Cardinality(S) = SP!Cardinality(S) /\ Cardinality(S) = Queue!Cardinality(S)
           /\ IsFiniteSet(S) = SP!IsFiniteSet(S)
  BY Zenon DEF Cardinality, SP!Cardinality, Queue!Cardinality, IsFiniteSet, SP!IsFiniteSet

\* The spool that the agent uses is the one the theorems are about.
LEMMA SameSpool ==
    /\ Queue!Init <=> SP!Init
    /\ Queue!Next <=> SP!Next
    /\ Queue!vars = SP!vars
    /\ Queue!EnqueueStep \/ Queue!Abort \/ Queue!Ack \/ Queue!Elapse
          <=> SP!EnqueueStep \/ SP!Abort \/ SP!Ack \/ SP!Elapse
    /\ Queue!EnqueueStep <=> SP!EnqueueStep
    /\ \A b : Queue!Publish(b) <=> SP!Publish(b)
<1>1. (Queue!Init <=> SP!Init) /\ Queue!vars = SP!vars
  BY Zenon DEF Queue!Init, SP!Init, Queue!vars, SP!vars
<1>2. /\ Queue!Elapse <=> SP!Elapse
      /\ Queue!Abort <=> SP!Abort
  BY Zenon DEF Queue!Elapse, SP!Elapse, Queue!Abort, SP!Abort
<1>3. \A b, u : Queue!Carries(b, u) <=> SP!Carries(b, u)
  BY Zenon DEF Queue!Carries, SP!Carries
<1>4. \A f, F : Queue!IsOldest(f, F) <=> SP!IsOldest(f, F)
  BY Zenon DEF Queue!IsOldest, SP!IsOldest, Queue!Before, SP!Before, Queue!IsSummary, SP!IsSummary
<1>5. Queue!Ack <=> SP!Ack
  BY ZenonT(40), <1>3, <1>4 DEF Queue!Ack, SP!Ack, Queue!Carries, SP!Carries
<1>6. \A b : Queue!Publish(b) <=> SP!Publish(b)
  BY Zenon DEF Queue!Publish, SP!Publish
<1>7. Queue!Enqueue <=> SP!Enqueue
  BY ZenonT(40), <1>3, <1>6 DEF Queue!Enqueue, SP!Enqueue, Queue!EnqueueAgain, SP!EnqueueAgain,
     Queue!EnqueueDetail, SP!EnqueueDetail, Queue!EnqueueHealth, SP!EnqueueHealth,
     Queue!EnqueueSample, SP!EnqueueSample, Queue!IsNew, SP!IsNew, Queue!NewBatch, SP!NewBatch
<1>8. Queue!Scan <=> SP!Scan
  BY ZenonT(40), <1>4 DEF Queue!Scan, SP!Scan, Queue!Expired, SP!Expired,
     Queue!IsSummary, SP!IsSummary, Queue!interfaceOnly, SP!interfaceOnly,
     Queue!mergeInterface, SP!mergeInterface, Queue!summaryOf, SP!summaryOf, Queue!Plus, SP!Plus,
     Queue!minuteSummaryBatchID, SP!minuteSummaryBatchID, Queue!Minute, SP!Minute,
     Queue!NoBytes, SP!NoBytes
<1>9. /\ Queue!ScanDone <=> SP!ScanDone
      /\ Queue!WriteSummary <=> SP!WriteSummary
      /\ Queue!WriteDone <=> SP!WriteDone
      /\ Queue!RemoveCompacted <=> SP!RemoveCompacted
      /\ Queue!RemoveDone <=> SP!RemoveDone
      /\ Queue!Return <=> SP!Return
  BY Zenon DEF Queue!ScanDone, SP!ScanDone, Queue!WriteSummary, SP!WriteSummary,
     Queue!WriteDone, SP!WriteDone, Queue!RemoveCompacted, SP!RemoveCompacted,
     Queue!RemoveDone, SP!RemoveDone, Queue!Return, SP!Return
<1>10. \A f : Queue!Evictable(f) <=> SP!Evictable(f)
  BY ZenonT(40), Counting DEF Queue!Evictable, SP!Evictable, Queue!protectedBatch, SP!protectedBatch,
     Queue!interfaceOnly, SP!interfaceOnly, Queue!Expired, SP!Expired
<1>11. Queue!Evict <=> SP!Evict
  <2>1. {g \in files : Queue!Evictable(g)} = {g \in files : SP!Evictable(g)}
    BY ZenonT(40), <1>10
  <2>2. QED
    BY ZenonT(40), <1>4, <2>1, Counting DEF Queue!Evict, SP!Evict
<1>12. Queue!EvictDone <=> SP!EvictDone
  <2>1. Queue!Pressured(files) = SP!Pressured(files)
    BY ZenonT(40), <1>4, Counting DEF Queue!Pressured, SP!Pressured
  <2>2. QED
    BY ZenonT(40), <1>10, <2>1, Counting DEF Queue!EvictDone, SP!EvictDone
<1>13. Queue!EnqueueStep <=> SP!EnqueueStep
  BY ZenonT(40), <1>8, <1>9, <1>11, <1>12 DEF Queue!EnqueueStep, SP!EnqueueStep
<1>14. QED
  BY ZenonT(40), <1>1, <1>2, <1>5, <1>6, <1>7, <1>13 DEF Queue!Next, SP!Next

\* What the spool's invariant says in the agent's words.
LEMMA SpoolInvKnown == SP!IInv => SpoolKnown
<1> SUFFICES ASSUME SP!IInv PROVE SpoolKnown
  OBVIOUS
<1>1. \A b, u : SP!Carries(b, u) <=> Carries(b, u)
  BY Zenon DEF SP!Carries, Carries
<1>2. SP!Batch = Batch
  BY Zenon DEF SP!Batch, Batch, SP!BatchID, BatchID, SP!Kind, Kind, SP!Bytes, Bytes
<1>3. \A b : SP!interfaceOnly(b) <=> interfaceOnly(b)
  BY Zenon DEF SP!interfaceOnly, interfaceOnly
<1>4. /\ files \subseteq [at : Int, batch : Batch]
      /\ report \in [dropped : Nat, pressured : BOOLEAN]
      /\ submitted \subseteq Batch /\ acked \subseteq Unit
  BY ZenonT(40), <1>2 DEF SP!IInv, SP!TypeOK, SP!File, SP!DropReport
<1>5. report.dropped \in Nat /\ report.pressured \in BOOLEAN
  BY SMTT(30), <1>4
<1>6. QED
  BY ZenonT(40), <1>1, <1>3, <1>4, <1>5 DEF SP!IInv, SP!SubmittedInv, SP!FilesInv, SP!IsSample, SP!Durable,
     SpoolKnown

\* Every step keeps the bound on what a report counts.
LEMMA DropStep ==
    ASSUME TypeOK, SP!IInv, SP!IInv', SpoolKnown, DataInv, DropInv, [Next]_vars
    PROVE  DropInv'
<1>1. /\ Details = SP!Details /\ Details' = SP!Details'
      /\ SP!IsFiniteSet(files) /\ (SP!IsFiniteSet(files') => IsFiniteSet(files'))
  BY ZenonT(40), Counting DEF Details, SP!Details, DropInv
<1>2. /\ Cardinality(Details) = SP!Cardinality(SP!Details)
      /\ Cardinality(Details') = SP!Cardinality(SP!Details')
      /\ Cardinality(Details)' = Cardinality(Details')
  BY ZenonT(40), <1>1, Counting DEF Cardinality
<1>3. Cardinality(Details) \in Nat /\ report.dropped \in Nat /\ now \in Nat
  BY Zenon, SpoolKnows DEF DropInv, DataInv, ClockInv
<1>4. CASE UNCHANGED spoolVars
  BY ZenonT(40), <1>4 DEF spoolVars, DropInv, Details
<1>5. CASE Queue!EnqueueStep \/ Queue!Abort \/ Queue!Ack \/ Queue!Elapse
  <2>1. /\ IsFiniteSet(files')
        /\ Cardinality(Details') \in Nat
        /\ report'.dropped + Cardinality(Details') <= report.dropped + Cardinality(Details)
    BY ZenonT(40), <1>1, <1>2, <1>5, SameSpool, SpoolConstants, SP!DropsCounted
  <2>2. now' = now \/ now' = now + 1
    BY ZenonT(40), <1>5 DEF Queue!EnqueueStep, Queue!Abort, Queue!Ack, Queue!Elapse, Queue!Scan,
       Queue!ScanDone, Queue!WriteSummary, Queue!WriteDone, Queue!RemoveCompacted, Queue!RemoveDone,
       Queue!Evict, Queue!EvictDone, Queue!Return
  <2>3. report'.dropped \in Nat
    <3>1. report' \in [dropped : Nat, pressured : BOOLEAN]
      BY ZenonT(40) DEF SP!IInv, SP!TypeOK, SP!DropReport
    <3>2. QED
      BY SMTT(30), <3>1
  <2>4. \A c, d, r, q, n \in Nat : r + c <= n /\ q + d <= r + c => q + d <= n /\ q + d <= n + 1
    OBVIOUS
  <2>5. /\ report'.dropped + Cardinality(Details') <= now
        /\ report'.dropped + Cardinality(Details') <= now + 1
        /\ report'.dropped + Cardinality(Details') <= MaxTime
    BY ZenonT(40), <1>3, <2>1, <2>3, <2>4, Constants DEF DropInv
  <2>6. QED
    BY ZenonT(40), <1>2, <2>1, <2>2, <2>5 DEF DropInv
<1>6. ASSUME NEW b, Queue!Publish(b), b.id[1] = "detail" => now < MaxTime
      PROVE  DropInv'
  <2>1. /\ IsFiniteSet(files') /\ report'.dropped = 0 /\ Cardinality(Details') \in Nat
        /\ Cardinality(Details') <= Cardinality(Details) + 1
        /\ b.id[1] # "detail" => Cardinality(Details') = Cardinality(Details)
    BY ZenonT(40), <1>1, <1>2, <1>6, SameSpool, SpoolConstants, SP!PublishDetails
  <2>2. now' = now + 1
    BY ZenonT(40), <1>6 DEF Queue!Publish
  <2>3. \A c, d, r, n, m \in Nat :
           /\ r + c <= n /\ r + c <= m /\ d <= c + 1 /\ (d = c \/ n < m)
           => 0 + d <= n + 1 /\ 0 + d <= m
    OBVIOUS
  <2>4. Cardinality(Details') = Cardinality(Details) \/ now < MaxTime
    BY ZenonT(40), <1>6, <2>1
  <2>5. 0 + Cardinality(Details') <= now + 1 /\ 0 + Cardinality(Details') <= MaxTime
    BY ZenonT(40), <1>3, <2>1, <2>3, <2>4, Constants DEF DropInv
  <2>6. QED
    BY ZenonT(40), <1>2, <2>1, <2>2, <2>5 DEF DropInv
<1>7. QED
  BY ZenonT(40), <1>4, <1>5, <1>6, SpoolStep

\* The invariant holds before the agent is started.
LEMMA AgentInit == Init => AgentInv /\ SP!IInv
<1>1. Init => SP!IInv
  BY ZenonT(40), SameSpool, SpoolConstants, SP!InitInv DEF Init
<1>2. ASSUME Init PROVE DropInv
  <2>1. now = 0 /\ report.dropped = 0 /\ Details = {}
    BY Zenon, <1>2 DEF Init, Queue!Init, Details
  <2>2. IsFiniteSet(files) /\ Cardinality(Details) = 0
    <3>1. IsFiniteSet({}) /\ Cardinality({}) = 0
      BY ZenonT(40), SP!FS_EmptySet, SpoolConstants, Counting
    <3>2. files = {}
      BY Zenon, <1>2 DEF Init, Queue!Init
    <3>3. QED
      BY ZenonT(40), <2>1, <3>1, <3>2
  <2>3. 0 \in Nat /\ 0 + 0 <= 0 /\ \A n \in Nat : 0 + 0 <= n
    OBVIOUS
  <2>4. QED
    BY ZenonT(40), <2>1, <2>2, <2>3, Constants DEF DropInv
<1>3. QED
  BY ZenonT(40), <1>1, <1>2, AgentStarts DEF AgentInv

\* Every step keeps the invariant and is a step of the spool or none.
LEMMA AgentNext ==
    ASSUME AgentInv, SP!IInv, [Next]_vars
    PROVE  AgentInv' /\ SP!IInv' /\ [Queue!Next]_(Queue!vars)
<1>1. TypeOK /\ DataInv /\ DropInv /\ SpoolKnown
  BY Zenon, SpoolInvKnown DEF AgentInv
<1>2. [Queue!Next]_(Queue!vars)
  BY ZenonT(40), <1>1, StepRefines
<1>3. SP!IInv'
  <2>1. [SP!Next]_(SP!vars)
    BY ZenonT(40), <1>2, SameSpool DEF Queue!vars, SP!vars
  <2>2. QED
    BY ZenonT(40), <2>1, SpoolConstants, SP!NextInv
<1>4. TypeOK'
  <2>1. CASE Next
    <3>1. now \in Int
      BY SMTT(30), <1>1 DEF DataInv, ClockInv
    <3>2. QED
      BY ZenonT(40), <1>1, <2>1, <3>1, TypeStep
  <2>2. CASE UNCHANGED vars
    BY ZenonT(40), <1>1, <2>2 DEF vars, callVars, appVars, ingestVars, TypeOK
  <2>3. QED
    BY ZenonT(40), <2>1, <2>2
<1>5. DataInv' /\ DropInv'
  BY ZenonT(40), <1>1, <1>3, <1>4, DataStep, DropStep
<1>6. QED
  BY ZenonT(40), <1>2, <1>3, <1>4, <1>5 DEF AgentInv

\* The invariant of one agent holds wherever it is killed and whatever fails.
THEOREM AgentInvariant == Spec => [](AgentInv /\ SP!IInv)
  BY AgentInit, AgentNext, PTL DEF Spec

\* Every variable of the agent and of the server keeps its type.
THEOREM AgentTypeOK == Spec => []TypeOK
<1>1. AgentInv => TypeOK
  BY Zenon DEF AgentInv
<1>2. QED
  BY <1>1, AgentInvariant, PTL

\* The agent implements the spool's specification: what it queues is new
\* traffic under a new identifier or a batch queued before, at any number of
\* crashes, failed writes and recoveries (app.go:54-146, 184-220).
THEOREM AgentUsesSpool == Spec => SpoolSpec
<1>1. Init => Queue!Init
  BY DEF Init
<1>2. AgentInv /\ SP!IInv /\ [Next]_vars => [Queue!Next]_(Queue!vars)
  BY ZenonT(40), AgentNext
<1>3. QED
  BY <1>1, <1>2, AgentInvariant, PTL DEF Spec, SpoolSpec, Queue!Spec

\* Traffic counted after the first checkpoint is in the checkpoint, in the
\* spool or acknowledged, wherever the agent is killed and whatever write
\* fails (app.go:54-146, state.go:52-99).
THEOREM NoTrafficLost == Spec => []NothingLost
<1>1. ASSUME AgentInv, SP!IInv PROVE NothingLost
  BY ZenonT(40), <1>1, SpoolInvKnown, SpoolKnows DEF AgentInv, DataInv, CoveredInv, Queued, NothingLost, Waiting
<1>2. QED
  BY <1>1, AgentInvariant, PTL

\* Until the server stores a summary, what the agent forgets is in the server's
\* totals, and in them once, however often it is queued, recovered and sent
\* (app.go:54-146, 222-236; sender.go:63-125; postgres.go:60-90).
THEOREM SamplesCountedOnce == Spec => []SamplesExact
<1>1. Init => AgentInv /\ SP!IInv /\ ServerInv
  BY ZenonT(40), AgentInit, ServerInit
<1>2. /\ AgentInv /\ SP!IInv /\ ServerInv
      /\ [Next]_vars
      => (AgentInv /\ SP!IInv /\ ServerInv)'
  <2>1. SP!IInv => SpoolKnown
    BY Zenon, SpoolInvKnown
  <2>2. SP!IInv' => SpoolKnown'
    BY SpoolInvKnown, PTL
  <2>3. QED
    BY ZenonT(40), <2>1, <2>2, AgentNext, ServerStep
<1>3. AgentInv /\ SP!IInv /\ ServerInv => SamplesExact
  <2> SUFFICES ASSUME AgentInv, SP!IInv, ServerInv, ~SummaryStored, NEW u \in Unit
               PROVE  /\ u \in acked => trafficMinute[self][u] >= 1
                      /\ trafficMinute[self][u] <= 1
    BY DEF SamplesExact
  <2>1. trafficMinute[self][u] = IF \E b \in submitted : Stored(b) /\ Carries(b, u) THEN 1 ELSE 0
    BY Zenon DEF ServerInv, TotalsInv
  <2>2. u \in acked => \E b \in submitted : Stored(b) /\ Carries(b, u)
    BY Zenon DEF ServerInv, TotalsInv
  <2>3. QED
    BY SMTT(30), <2>1, <2>2
<1>4. QED
  BY <1>1, <1>2, <1>3, PTL DEF Spec

\* The sizes of sets of evictions, by the theorems on sets of the spool's proofs.
LEMMA AtMost ==
    ASSUME NEW A, IsFiniteSet(A), NEW e, NEW n \in Nat, NEW B \in SUBSET (A \cup ({e} \X (1..n)))
    PROVE  /\ IsFiniteSet(B) /\ Cardinality(A) \in Nat /\ Cardinality(B) \in Nat
           /\ Cardinality(B) <= Cardinality(A) + n
<1>1. SP!IsFiniteSet(A)
  BY ZenonT(40), Counting
<1>2. /\ SP!IsFiniteSet(B) /\ SP!Cardinality(A) \in Nat /\ SP!Cardinality(B) \in Nat
      /\ SP!Cardinality(B) <= SP!Cardinality(A) + n
  BY ZenonT(40), <1>1, SpoolConstants, SP!AtMostMore
<1>3. QED
  BY ZenonT(40), <1>2, Counting

\* A part of a finite set is finite and no larger.
LEMMA NoMore ==
    ASSUME NEW A, IsFiniteSet(A), NEW B \in SUBSET A
    PROVE  /\ IsFiniteSet(B) /\ Cardinality(A) \in Nat /\ Cardinality(B) \in Nat
           /\ Cardinality(B) <= Cardinality(A)
<1>1. B \in SUBSET (A \cup ({0} \X (1..0))) /\ 0 \in Nat
  BY Zenon
<1>2. /\ IsFiniteSet(B) /\ Cardinality(A) \in Nat /\ Cardinality(B) \in Nat
      /\ Cardinality(B) <= Cardinality(A) + 0
  BY ZenonT(40), <1>1, AtMost
<1>3. \A a, b \in Nat : b <= a + 0 => b <= a
  OBVIOUS
<1>4. QED
  BY ZenonT(40), <1>2, <1>3

\* Every step keeps the account of what was told.
LEMMA GapStep ==
    ASSUME TypeOK, SP!IInv, SpoolKnown, SpoolKnown', DataInv, DropInv, SP!SummariesPlain, GapInv,
           [Next]_vars
    PROVE  GapInv'
<1> DEFINE Units == GapUnits(Told)
<1>1. /\ Queue!EnqueueStep \/ Queue!Abort \/ Queue!Ack \/ Queue!Elapse =>
            \A f \in files' : f.batch.health = {} \/ f \in files
      /\ Queue!EnqueueStep => report.dropped <= report'.dropped
  BY ZenonT(40), SameSpool, SpoolConstants, SP!NoHealthAdded
<1>2. /\ report.dropped \in Nat /\ report'.dropped \in Nat /\ dropped \in Nat
      /\ IsFiniteSet(Units) /\ Cardinality(Units) + Untold <= dropped
  BY ZenonT(40) DEF SpoolKnown, GapInv
<1>3. Untold \in Nat /\ Untold' \in Nat
  <2>1. 0 \in Nat
    OBVIOUS
  <2>2. QED
    BY ZenonT(40), <1>2, <2>1 DEF Untold
<1>4. /\ GapUnits(Told)' = GapUnits(Told')
      /\ \A S : Cardinality(S)' = Cardinality(S) /\ IsFiniteSet(S)' = IsFiniteSet(S)
  BY ZenonT(40) DEF GapUnits
<1>5. CASE Told' \subseteq Told /\ dropped' \in Nat /\ Untold' + dropped <= Untold + dropped'
  <2>1. GapUnits(Told') \in SUBSET Units
    BY ZenonT(40), <1>5 DEF GapUnits
  <2>2. /\ IsFiniteSet(GapUnits(Told')) /\ Cardinality(Units) \in Nat
        /\ Cardinality(GapUnits(Told')) \in Nat
        /\ Cardinality(GapUnits(Told')) <= Cardinality(Units)
    BY ZenonT(40), <1>2, <2>1, NoMore
  <2>3. \A a, b, u, v, d, e \in Nat : b <= a /\ a + u <= d /\ v + d <= u + e => b + v <= e
    OBVIOUS
  <2>4. Cardinality(GapUnits(Told')) + Untold' <= dropped'
    BY ZenonT(40), <1>2, <1>3, <1>5, <2>2, <2>3
  <2>5. QED
    BY ZenonT(40), <1>4, <1>5, <2>2, <2>4 DEF GapInv
<1>6. CASE /\ \E e : GapUnits(Told') \subseteq GapUnits(Told) \cup ({e} \X (1..report.dropped))
           /\ Untold' = 0 /\ Untold = report.dropped /\ dropped' = dropped
  <2>1. PICK e : GapUnits(Told') \in SUBSET (Units \cup ({e} \X (1..report.dropped)))
    BY ZenonT(40), <1>6
  <2>2. /\ IsFiniteSet(GapUnits(Told')) /\ Cardinality(Units) \in Nat
        /\ Cardinality(GapUnits(Told')) \in Nat
        /\ Cardinality(GapUnits(Told')) <= Cardinality(Units) + report.dropped
    BY ZenonT(40), <1>2, <2>1, AtMost
  <2>3. \A a, b, u, d \in Nat : b <= a + u /\ a + u <= d => b + 0 <= d
    OBVIOUS
  <2>4. Cardinality(GapUnits(Told')) + Untold' <= dropped'
    BY ZenonT(40), <1>2, <1>6, <2>2, <2>3
  <2>5. QED
    BY ZenonT(40), <1>2, <1>4, <1>6, <2>2, <2>4 DEF GapInv
<1>7. QED
  BY ZenonT(40), <1>1, <1>2, <1>5, <1>6, ToldStep

\* Before the agent is started nothing was dropped and nothing told.
LEMMA GapInit == Init => GapInv /\ SP!SummariesPlain
<1> SUFFICES ASSUME Init PROVE GapInv /\ SP!SummariesPlain
  OBVIOUS
<1>1. files = {} /\ summaries = {} /\ collectorHealth = {} /\ dropped = 0 /\ pc = "down"
  BY ZenonT(40) DEF Init, Queue!Init, IngestInit
<1>2. GapUnits(Told) = {} /\ Untold = 0
  <2>1. Told = {}
    BY ZenonT(40), <1>1 DEF Told
  <2>2. QED
    BY ZenonT(40), <1>1, <2>1 DEF GapUnits, Untold
<1>3. IsFiniteSet({}) /\ Cardinality({}) = 0
  BY ZenonT(40), SP!FS_EmptySet, SpoolConstants, Counting
<1>4. 0 \in Nat /\ 0 + 0 <= 0
  OBVIOUS
<1>5. QED
  BY ZenonT(40), <1>1, <1>2, <1>3, <1>4 DEF GapInv, SP!SummariesPlain

\* The server is told of no more evictions than there were, however often the
\* agent is killed, a write fails or a batch is sent again (app.go:184-220,
\* event.go:209-218).
THEOREM GapsAreReal == Spec => []NoPhantomGap
<1>1. Init => AgentInv /\ SP!IInv /\ SP!SummariesPlain /\ GapInv
  BY ZenonT(40), AgentInit, GapInit
<1>2. /\ AgentInv /\ SP!IInv /\ SP!SummariesPlain /\ GapInv
      /\ [Next]_vars
      => (AgentInv /\ SP!IInv /\ SP!SummariesPlain /\ GapInv)'
  <2> SUFFICES ASSUME AgentInv, SP!IInv, SP!SummariesPlain, GapInv, [Next]_vars
               PROVE  (AgentInv /\ SP!IInv /\ SP!SummariesPlain /\ GapInv)'
    BY Zenon
  <2>1. AgentInv' /\ SP!IInv' /\ [Queue!Next]_(Queue!vars)
    BY ZenonT(40), AgentNext
  <2>2. SP!SummariesPlain'
    <3>1. [SP!Next]_(SP!vars)
      BY ZenonT(40), <2>1, SameSpool DEF Queue!vars, SP!vars
    <3>2. QED
      BY ZenonT(40), <3>1, SpoolConstants, SP!PlainNext
  <2>3. SpoolKnown
    BY ZenonT(40), SpoolInvKnown
  <2>4. SP!IInv' => SpoolKnown'
    BY SpoolInvKnown, PTL
  <2>5. TypeOK /\ DataInv /\ DropInv
    BY ZenonT(40) DEF AgentInv
  <2>6. GapInv'
    BY ZenonT(40), <2>1, <2>3, <2>4, <2>5, GapStep
  <2>7. QED
    BY ZenonT(40), <2>1, <2>2, <2>6
<1>3. ASSUME GapInv, AgentInv, SP!IInv PROVE NoPhantomGap
  <2>1. collectorHealth \subseteq Told
    BY ZenonT(40) DEF Told
  <2>2. GapUnits(collectorHealth) \in SUBSET GapUnits(Told) /\ IsFiniteSet(GapUnits(Told))
    BY ZenonT(40), <1>3, <2>1 DEF GapUnits, GapInv
  <2>3. /\ Cardinality(GapUnits(Told)) \in Nat /\ ReportedDrops \in Nat
        /\ ReportedDrops <= Cardinality(GapUnits(Told))
    BY ZenonT(40), <2>2, NoMore DEF ReportedDrops
  <2>4. Untold \in Nat
    <3>1. 0 \in Nat /\ SpoolKnown
      BY Zenon, <1>3, SpoolInvKnown
    <3>2. QED
      BY ZenonT(40), <3>1 DEF SpoolKnown, Untold
  <2>5. \A r, c, u, d \in Nat : r <= c /\ c + u <= d => r <= d
    OBVIOUS
  <2>6. QED
    BY ZenonT(40), <1>3, <2>3, <2>4, <2>5 DEF GapInv, NoPhantomGap
<1>4. QED
  BY <1>1, <1>2, <1>3, PTL DEF Spec

=============================================================================

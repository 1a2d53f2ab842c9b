---------------------------- MODULE SpoolProofs ----------------------------
(***************************************************************************)
(* What the spool guarantees for every clock, limit and load: IInv of      *)
(* SpoolInv is an invariant, and with it TypeOK, Durable, SummaryExact and *)
(* LimitsEnforced.                                                         *)
(***************************************************************************)
EXTENDS SpoolInv, FiniteSetTheorems, TLAPS

\* A minute starts no later than the instants in it (Truncate, spool.go:258).
LEMMA MinuteStart == ASSUME NEW t \in Int
                     PROVE  Minute(t) \in Int /\ Minute(t) <= t
  <1>1. t % MinuteLen \in 0..(MinuteLen - 1)
    BY SpoolAssumption
  <1> QED BY <1>1, SpoolAssumption DEF Minute

\* The empty spool satisfies the invariant.
LEMMA InitInv == Init => IInv
  <1> SUFFICES ASSUME Init PROVE IInv
    OBVIOUS
  <1>1. TypeOK
    BY DEF Init, TypeOK, DropReport
  <1>2. SubmittedInv /\ FilesInv /\ Durable /\ LimitsEnforced
    BY DEF Init, SubmittedInv, FilesInv, Durable, LimitsEnforced
  <1> QED BY <1>1, <1>2 DEF Init, IInv

-----------------------------------------------------------------------------
(* Exact speaks of the batches submitted so far.                           *)

\* A step that submits nothing leaves what a summary is compared with alone.
LEMMA ExactUnchanged == ASSUME NEW s, UNCHANGED submitted
                        PROVE  Exact(s)' = Exact(s)
  BY DEF Exact, Lists

\* A batch with an identifier of its own changes no summary's total.
LEMMA ExactGrows ==
    ASSUME NEW s, Exact(s), NEW b, submitted' = submitted \cup {b},
           \A c \in submitted : c.id # b.id
    PROVE  Exact(s)'
  <1>1. b.id \notin s.compacted
    BY DEF Exact
  <1>2. ASSUME NEW u \in Unit PROVE Lists(s, u)' = Lists(s, u)
    BY <1>1 DEF Lists
  <1> QED BY <1>1, <1>2 DEF Exact

-----------------------------------------------------------------------------
(* Publish                                                                 *)

\* The batches Enqueue is called with.
Enqueued(b) ==
    /\ b \in Batch
    /\ \/ b \in submitted
       \/ /\ b.id[1] \in {"detail", "health-batch"}
          /\ \A u \in Unit : ~Carries(b, u)
       \/ /\ IsSample(b)
          /\ b.id[2] <= now
          /\ \A u \in Unit : b.bytes[u] \in {0, 1}
          /\ IsNew(b)

\* Publishing a batch preserves the invariant.
LEMMA PublishInv == ASSUME IInv, NEW b, Enqueued(b), Publish(b)
                    PROVE  IInv'
  <1> DEFINE F == [at |-> now + 1, batch |-> b]
  <1>0. /\ TypeOK /\ SubmittedInv /\ FilesInv /\ Durable
        /\ b \in Batch /\ F \in File /\ now \in Int
        /\ files' = files \cup {F} /\ now' = now + 1 /\ phase' = "scan"
        /\ todo' = files' /\ remove' = {} /\ summaries' = {} /\ acked' = acked
    BY DEF IInv, Enqueued, Publish, TypeOK, File
  <1>1. TypeOK'
    BY <1>0 DEF TypeOK, Publish, DropReport
  <1>2. \/ /\ submitted' = submitted
           /\ b \in submitted \/ (~interfaceOnly(b) /\ \A u \in Unit : ~Carries(b, u))
        \/ /\ submitted' = submitted \cup {b}
           /\ IsSample(b) /\ IsNew(b) /\ b.id[2] <= now
           /\ \A u \in Unit : b.bytes[u] \in {0, 1}
    BY <1>0 DEF Enqueued, Publish, IsSample, interfaceOnly, SubmittedInv
  <1>3. SubmittedInv'
    <2>1. \A c \in submitted : c.id[2] <= now + 1
      BY <1>0 DEF SubmittedInv, TypeOK, Batch, BatchID
    <2>2. CASE submitted' = submitted
      BY <1>0, <2>1, <2>2 DEF SubmittedInv
    <2>3. CASE submitted' = submitted \cup {b} /\ IsSample(b) /\ IsNew(b) /\ b.id[2] <= now
      <3>1. b.id[2] <= now + 1
        BY <1>0, <2>3 DEF Batch, BatchID
      <3> QED BY <1>0, <1>2, <2>1, <2>3, <3>1 DEF SubmittedInv, IsNew
    <2> QED BY <1>2, <2>2, <2>3
  <1>4. ASSUME NEW s, Exact(s) PROVE Exact(s)'
    BY <1>2, <1>4, ExactUnchanged, ExactGrows DEF IsNew
  <1>5. FilesInv'
    <2>1. IsSample(b) => b \in submitted' /\ F.at >= Minute(b.id[2])
      <3>1. IsSample(b) => b \in submitted'
        BY <1>2 DEF IsSample, interfaceOnly
      <3>2. b \in submitted' => b.id[2] <= now /\ b.id[2] \in Int
        BY <1>0, <1>2 DEF SubmittedInv, Batch, BatchID
      <3> QED BY <1>0, <3>1, <3>2, MinuteStart
    <2>2. ~IsSummary(b)
      BY <1>0, <1>2 DEF IsSummary, interfaceOnly, IsSample, SubmittedInv
    <2>3. ~interfaceOnly(b) => \A u \in Unit : ~Carries(b, u)
      BY <1>0, <1>2 DEF SubmittedInv, interfaceOnly, IsSample
    <2>4. submitted \subseteq submitted'
      BY <1>2
    <2>5. \A f \in files' : f \in files \/ f = F
      BY <1>0
    <2>6. \A f \in files' :
             /\ IsSample(f.batch) => /\ f.batch \in submitted'
                                     /\ f.at >= Minute(f.batch.id[2])
             /\ IsSummary(f.batch) => f.at = f.batch.id[2] /\ Exact(f.batch)'
             /\ ~interfaceOnly(f.batch) => \A u \in Unit : ~Carries(f.batch, u)
      BY <1>0, <1>4, <2>1, <2>2, <2>3, <2>4, <2>5 DEF FilesInv
    <2>7. \A f, g \in files' : IsSummary(f.batch) /\ f.batch.id = g.batch.id => f = g
      BY <1>0, <2>2, <2>5 DEF FilesInv, IsSummary
    <2> QED BY <2>6, <2>7 DEF FilesInv
  <1>6. Durable'
    <2> SUFFICES ASSUME NEW c \in submitted', NEW u \in Unit, Carries(c, u)
                 PROVE  u \in acked' \/ \E f \in files' : Carries(f.batch, u)
      BY DEF Durable
    <2>1. c \in submitted \/ c = b
      BY <1>2
    <2> QED BY <1>0, <2>1 DEF Durable
  <1>7. SummariesInv' /\ ScanInv' /\ LimitsEnforced'
    BY <1>0 DEF SummariesInv, ScanInv, LimitsEnforced
  <1> QED BY <1>0, <1>1, <1>3, <1>5, <1>6, <1>7 DEF IInv

-----------------------------------------------------------------------------
(* compactExpiredInterfaces                                                *)

\* The steps of a call change neither the clock nor the histories.
InCall == UNCHANGED <<now, submitted, acked>>

\* What a call's step leaves alone when it leaves the directory alone.
LEMMA DirectoryUnchanged ==
    ASSUME IInv, InCall, UNCHANGED files
    PROVE  SubmittedInv' /\ FilesInv' /\ Durable'
  <1>1. ASSUME NEW s PROVE Exact(s)' = Exact(s)
    BY ExactUnchanged DEF InCall
  <1> QED BY <1>1 DEF IInv, InCall, SubmittedInv, FilesInv, Durable

\* The summary of a minute, new or found, is exact before the merge.
LEMMA SummaryOfExact ==
    ASSUME TypeOK, SummariesInv, NEW m \in Int
    PROVE  LET s == summaryOf(summaries, m)
           IN  /\ s \in Batch
               /\ s.id = minuteSummaryBatchID(m)
               /\ Exact(s)
               /\ \A t \in summaries : t.id = s.id => t = s
  <1> DEFINE s == summaryOf(summaries, m)
             new == [id |-> minuteSummaryBatchID(m), bytes |-> NoBytes,
                     compacted |-> {}, health |-> {}]
  <1>1. CASE \E t \in summaries : t.id = minuteSummaryBatchID(m)
    <2>1. s \in summaries /\ s.id = minuteSummaryBatchID(m)
      BY <1>1 DEF summaryOf
    <2> QED BY <2>1 DEF SummariesInv, TypeOK
  <1>2. CASE ~\E t \in summaries : t.id = minuteSummaryBatchID(m)
    <2>1. s = new
      BY <1>2 DEF summaryOf
    <2>2. new \in Batch /\ new.id = minuteSummaryBatchID(m)
      BY DEF Batch, BatchID, Kind, minuteSummaryBatchID, NoBytes, Bytes
    <2>3. Exact(new)
      BY DEF Exact, Lists, NoBytes, IsSummary, minuteSummaryBatchID
    <2> QED BY <1>2, <2>1, <2>2, <2>3
  <1> QED BY <1>1, <1>2

\* Merging a batch keeps every summary exact, forgets no batch merged before
\* and lists the new one (spool.go:262-276).
LEMMA MergeExact ==
    ASSUME TypeOK, SubmittedInv, SummariesInv, NEW b \in submitted
    PROVE  LET M == mergeInterface(summaries, b)
           IN  /\ M \in SUBSET Batch
               /\ \A s \in M : Exact(s)
               /\ \A s, t \in M : s.id = t.id => s = t
               /\ \A s \in summaries :
                     \E t \in M : t.id = s.id /\ s.compacted \subseteq t.compacted
               /\ \E t \in M : /\ t.id = minuteSummaryBatchID(Minute(b.id[2]))
                               /\ b.id \in t.compacted
  <1> DEFINE M == mergeInterface(summaries, b)
             s == summaryOf(summaries, Minute(b.id[2]))
             n == [s EXCEPT !.bytes = Plus(s.bytes, b.bytes),
                            !.compacted = s.compacted \cup {b.id}]
  <1>1. b \in Batch /\ b.id \in BatchID /\ b.id[2] \in Int
    BY DEF TypeOK, Batch, BatchID
  <1>2. /\ s \in Batch
        /\ s.id = minuteSummaryBatchID(Minute(b.id[2]))
        /\ Exact(s)
        /\ \A t \in summaries : t.id = s.id => t = s
    <2>1. Minute(b.id[2]) \in Int
      BY <1>1, MinuteStart
    <2> QED BY <2>1, SummaryOfExact
  <1>3. CASE b.id \in s.compacted
    <2>1. M = summaries
      BY <1>3 DEF mergeInterface
    <2>2. s \in summaries
      <3>1. s.compacted # {}
        BY <1>3
      <3> QED BY <3>1 DEF summaryOf
    <2> QED BY <1>2, <1>3, <2>1, <2>2 DEF SummariesInv, TypeOK
  <1>4. CASE b.id \notin s.compacted
    <2>1. M = (summaries \ {s}) \cup {n}
      BY <1>4 DEF mergeInterface
    <2>2. n.id = s.id /\ n.bytes = Plus(s.bytes, b.bytes) /\ n.compacted = s.compacted \cup {b.id}
      BY <1>2 DEF Batch
    <2>3. n \in Batch
      <3>1. Plus(s.bytes, b.bytes) \in Bytes
        BY <1>1, <1>2 DEF Batch, Bytes, Plus
      <3> QED BY <1>1, <1>2, <3>1 DEF Batch
    <2>4. Exact(n)
      <3>1. IsSummary(n) /\ \A i \in n.compacted : \E c \in submitted : c.id = i
        BY <1>2, <2>2 DEF Exact, IsSummary
      <3>2. ASSUME NEW u \in Unit PROVE n.bytes[u] = IF Lists(n, u) THEN 1 ELSE 0
        <4>1. n.bytes[u] = s.bytes[u] + b.bytes[u] /\ s.bytes[u] \in Nat /\ b.bytes[u] \in {0, 1}
          BY <1>1, <1>2, <2>2 DEF Plus, Batch, Bytes, SubmittedInv
        <4>2. Lists(n, u) <=> Lists(s, u) \/ Carries(b, u)
          BY <2>2 DEF Lists, SubmittedInv
        <4>3. ~(Lists(s, u) /\ Carries(b, u))
          BY <1>4 DEF Lists, SubmittedInv
        <4>4. Carries(b, u) <=> b.bytes[u] = 1
          BY <4>1 DEF Carries
        <4>5. s.bytes[u] = IF Lists(s, u) THEN 1 ELSE 0
          BY <1>2 DEF Exact
        <4> QED BY <4>1, <4>2, <4>3, <4>4, <4>5
      <3> QED BY <3>1, <3>2 DEF Exact
    <2>5. M \in SUBSET Batch /\ \A t \in M : Exact(t)
      BY <2>1, <2>3, <2>4 DEF SummariesInv, TypeOK
    <2>6. \A t, r \in M : t.id = r.id => t = r
      BY <1>2, <2>1, <2>2 DEF SummariesInv
    <2>7. \A t \in summaries : \E r \in M : r.id = t.id /\ t.compacted \subseteq r.compacted
      BY <2>1, <2>2
    <2>8. n \in M /\ n.id = minuteSummaryBatchID(Minute(b.id[2])) /\ b.id \in n.compacted
      BY <1>2, <2>1, <2>2
    <2> HIDE DEF n
    <2> QED BY <2>5, <2>6, <2>7, <2>8
  <1> QED BY <1>3, <1>4

\* One iteration of the scan preserves the invariant.
LEMMA ScanStepInv == ASSUME IInv, Scan PROVE IInv'
  <1>1. PICK f \in todo :
          /\ IsOldest(f, todo)
          /\ todo' = todo \ {f}
          /\ \/ /\ IsSummary(f.batch)
                /\ summaries' = {s \in summaries : s.id # f.batch.id} \cup {f.batch}
                /\ remove' = remove
             \/ /\ ~IsSummary(f.batch)
                /\ ~(Expired(f) /\ interfaceOnly(f.batch))
                /\ summaries' = summaries /\ remove' = remove
             \/ /\ ~IsSummary(f.batch)
                /\ Expired(f) /\ interfaceOnly(f.batch)
                /\ summaries' = mergeInterface(summaries, f.batch)
                /\ remove' = remove \cup {f}
    BY DEF Scan
  <1>2. /\ InCall /\ phase = "scan" /\ phase' = phase /\ files' = files /\ report' = report
        /\ TypeOK /\ SubmittedInv /\ FilesInv /\ SummariesInv /\ ScanInv
    BY DEF Scan, InCall, IInv
  <1>3. SubmittedInv' /\ FilesInv' /\ Durable'
    BY <1>2, DirectoryUnchanged
  <1>4. f \in files /\ f \in File /\ f.batch \in Batch
    BY <1>2 DEF ScanInv, TypeOK, File
  <1>5. \A g \in files \ todo', h \in todo' : Before(g, h)
    BY <1>1, <1>2 DEF ScanInv, IsOldest
  <1>6. files \ todo' = (files \ todo) \cup {f}
    BY <1>1, <1>4
  <1>7. \A g : Expired(g)' = Expired(g)
    BY <1>2 DEF InCall, Expired
  <1>8. ASSUME NEW s PROVE Exact(s)' = Exact(s)
    BY <1>2, ExactUnchanged DEF InCall
  <1>9. ASSUME /\ summaries' \in SUBSET Batch /\ remove' \in SUBSET File
               /\ SummariesInv' /\ ScanInv'
        PROVE  IInv'
    <2>1. TypeOK'
      BY <1>1, <1>2, <1>9 DEF TypeOK, InCall
    <2>2. LimitsEnforced'
      BY <1>2 DEF LimitsEnforced
    <2> QED BY <1>2, <1>3, <1>9, <2>1, <2>2 DEF IInv
  <1>10. CASE /\ IsSummary(f.batch)
              /\ summaries' = {s \in summaries : s.id # f.batch.id} \cup {f.batch}
              /\ remove' = remove
    <2>1. Exact(f.batch) /\ f.at = f.batch.id[2]
      BY <1>2, <1>4, <1>10 DEF FilesInv
    <2>2. SummariesInv'
      BY <1>2, <1>8, <1>10, <2>1 DEF SummariesInv
    <2>3. ASSUME NEW g \in remove PROVE minuteSummaryBatchID(Minute(g.batch.id[2])) # f.batch.id
      <3>1. /\ IsSample(g.batch) /\ ~IsSummary(g.batch)
            /\ g.at >= Minute(g.batch.id[2]) /\ Before(g, f)
        BY <1>1, <1>2, <2>3 DEF ScanInv, FilesInv, IsSample, IsSummary
      <3>2. g.at < f.at /\ g.at \in Int /\ f.at \in Int /\ g.batch.id[2] \in Int
        BY <1>2, <1>4, <2>3, <3>1 DEF Before, TypeOK, File, Batch, BatchID
      <3>3. Minute(g.batch.id[2]) < f.batch.id[2]
        BY <2>1, <3>1, <3>2, MinuteStart
      <3>4. Minute(g.batch.id[2]) \in Int
        BY <3>2, MinuteStart
      <3> QED BY <3>3, <3>4, <2>1, <3>2 DEF minuteSummaryBatchID
    <2>4. ASSUME NEW g \in files \ todo', IsSummary(g.batch)
          PROVE  \E s \in summaries' : /\ s.id = g.batch.id
                                       /\ g.batch.compacted \subseteq s.compacted
      <3>1. CASE g = f
        BY <1>10, <3>1
      <3>2. CASE g # f
        <4>1. g.batch.id # f.batch.id
          BY <1>2, <1>4, <2>4, <3>2 DEF FilesInv
        <4> QED BY <1>2, <1>6, <1>10, <2>4, <3>2, <4>1 DEF ScanInv
      <3> QED BY <3>1, <3>2
    <2>5. ScanInv'
      BY <1>1, <1>2, <1>5, <1>6, <1>7, <1>10, <2>3, <2>4, SMTT(30) DEF ScanInv, IsSample, IsSummary
    <2> QED BY <1>2, <1>4, <1>9, <1>10, <2>2, <2>5 DEF TypeOK
  <1>11. CASE /\ ~IsSummary(f.batch)
              /\ ~(Expired(f) /\ interfaceOnly(f.batch))
              /\ summaries' = summaries /\ remove' = remove
    <2>1. SummariesInv'
      BY <1>2, <1>8, <1>11 DEF SummariesInv
    <2>2. ~(IsSample(f.batch) /\ Expired(f))
      BY <1>11 DEF IsSample, interfaceOnly
    <2>3. ScanInv'
      BY <1>1, <1>2, <1>5, <1>6, <1>7, <1>11, <2>2 DEF ScanInv
    <2> QED BY <1>2, <1>9, <1>11, <2>1, <2>3 DEF TypeOK
  <1>12. CASE /\ ~IsSummary(f.batch)
              /\ Expired(f) /\ interfaceOnly(f.batch)
              /\ summaries' = mergeInterface(summaries, f.batch)
              /\ remove' = remove \cup {f}
    <2>1. IsSample(f.batch) /\ f.batch \in submitted
      BY <1>2, <1>4, <1>12 DEF FilesInv, IsSample, IsSummary, interfaceOnly
    <2>2. /\ summaries' \in SUBSET Batch
          /\ \A s \in summaries' : Exact(s)
          /\ \A s, t \in summaries' : s.id = t.id => s = t
          /\ \A s \in summaries :
                \E t \in summaries' : t.id = s.id /\ s.compacted \subseteq t.compacted
          /\ \E t \in summaries' : /\ t.id = minuteSummaryBatchID(Minute(f.batch.id[2]))
                                   /\ f.batch.id \in t.compacted
      BY <1>2, <1>12, <2>1, MergeExact
    <2>3. SummariesInv'
      BY <1>8, <2>2 DEF SummariesInv
    <2>4. ASSUME NEW g \in files \ todo', IsSummary(g.batch)
          PROVE  \E s \in summaries' : /\ s.id = g.batch.id
                                       /\ g.batch.compacted \subseteq s.compacted
      <3>1. PICK s \in summaries : s.id = g.batch.id /\ g.batch.compacted \subseteq s.compacted
        BY <1>2, <1>6, <1>12, <2>4 DEF ScanInv
      <3> QED BY <2>2, <3>1
    <2>5. ASSUME NEW g \in remove'
          PROVE  \E s \in summaries' : /\ s.id = minuteSummaryBatchID(Minute(g.batch.id[2]))
                                       /\ g.batch.id \in s.compacted
      <3>1. CASE g = f
        BY <2>2, <3>1
      <3>2. CASE g \in remove
        <4>1. PICK s \in summaries : /\ s.id = minuteSummaryBatchID(Minute(g.batch.id[2]))
                                     /\ g.batch.id \in s.compacted
          BY <1>2, <3>2 DEF ScanInv
        <4> QED BY <2>2, <4>1
      <3> QED BY <1>12, <2>5, <3>1, <3>2
    <2>6. ScanInv'
      BY <1>1, <1>2, <1>4, <1>5, <1>6, <1>7, <1>12, <2>1, <2>4, <2>5 DEF ScanInv
    <2> QED BY <1>2, <1>4, <1>9, <1>12, <2>2, <2>3, <2>6 DEF TypeOK
  <1> QED BY <1>1, <1>10, <1>11, <1>12

\* The end of the scan establishes what the writes, or the eviction, rely on.
LEMMA ScanDoneInv == ASSUME IInv, ScanDone PROVE IInv'
  <1>1. /\ InCall /\ phase = "scan" /\ todo = {} /\ files' = files /\ remove' = remove
        /\ TypeOK /\ FilesInv /\ SummariesInv /\ ScanInv
    BY DEF ScanDone, InCall, IInv
  <1>2. SubmittedInv' /\ FilesInv' /\ Durable'
    BY <1>1, DirectoryUnchanged
  <1>3. TypeOK'
    BY <1>1 DEF TypeOK, ScanDone
  <1>4. \A g : Expired(g)' = Expired(g)
    BY <1>1 DEF InCall, Expired
  <1>5. CASE remove = {}
    <2>1. EvictInv'
      BY <1>1, <1>4, <1>5 DEF ScanInv, EvictInv
    <2>2. phase' = "evict"
      BY <1>5 DEF ScanDone
    <2> QED BY <1>2, <1>3, <2>1, <2>2 DEF IInv, LimitsEnforced
  <1>6. CASE remove # {}
    <2>1. phase' = "write" /\ summaries' = summaries
      BY <1>6 DEF ScanDone
    <2>2. ASSUME NEW s PROVE Exact(s)' = Exact(s)
      BY <1>1, ExactUnchanged DEF InCall
    <2>3. SummariesInv'
      BY <1>1, <2>1, <2>2 DEF SummariesInv
    <2>4. ASSUME NEW s \in summaries, NEW f \in files, f.batch.id = s.id
          PROVE  f.batch.compacted \subseteq s.compacted
      <3>1. IsSummary(f.batch)
        BY <1>1, <2>4 DEF SummariesInv, Exact, IsSummary
      <3>2. PICK t \in summaries : t.id = f.batch.id /\ f.batch.compacted \subseteq t.compacted
        BY <1>1, <3>1 DEF ScanInv
      <3> QED BY <1>1, <2>4, <3>2 DEF SummariesInv
    <2>5. WriteInv'
      BY <1>1, <1>4, <2>1, <2>4 DEF ScanInv, WriteInv
    <2> QED BY <1>2, <1>3, <2>1, <2>3, <2>5 DEF IInv, LimitsEnforced
  <1> QED BY <1>5, <1>6

\* Replacing a summary file by one that lists more loses nothing.
LEMMA WriteSummaryInv == ASSUME IInv, WriteSummary PROVE IInv'
  <1> DEFINE F(s) == [at |-> s.id[2], batch |-> s]
  <1>1. PICK s \in summaries :
          /\ summaries' = summaries \ {s}
          /\ files' = {f \in files : f.batch.id # s.id} \cup {F(s)}
    BY DEF WriteSummary
  <1>2. /\ InCall /\ phase = "write" /\ phase' = phase /\ remove' = remove
        /\ UNCHANGED <<submitted, acked>>
        /\ TypeOK /\ SubmittedInv /\ FilesInv /\ Durable /\ SummariesInv /\ WriteInv
    BY DEF WriteSummary, InCall, IInv
  <1>3. s \in Batch /\ s.id[2] \in Int /\ F(s) \in File /\ Exact(s) /\ IsSummary(s)
    BY <1>2 DEF TypeOK, Batch, BatchID, File, SummariesInv, Exact
  <1>4. TypeOK'
    BY <1>1, <1>2, <1>3 DEF TypeOK, WriteSummary
  <1>5. ASSUME NEW t PROVE Exact(t)' = Exact(t)
    BY <1>2, ExactUnchanged
  <1>6. SubmittedInv' /\ SummariesInv'
    BY <1>1, <1>2, <1>5 DEF SubmittedInv, SummariesInv, InCall
  <1>7. F(s).batch = s /\ F(s).at = s.id[2]
    OBVIOUS
  <1>8. ~IsSample(s) /\ interfaceOnly(s)
    BY <1>3 DEF IsSummary, IsSample, interfaceOnly
  <1>9. FilesInv'
    <2>1. \A f \in files' :
             /\ IsSample(f.batch) => /\ f.batch \in submitted'
                                     /\ f.at >= Minute(f.batch.id[2])
             /\ IsSummary(f.batch) => f.at = f.batch.id[2] /\ Exact(f.batch)'
             /\ ~interfaceOnly(f.batch) => \A u \in Unit : ~Carries(f.batch, u)
      BY <1>1, <1>2, <1>3, <1>5, <1>7, <1>8 DEF FilesInv
    <2>2. \A f, g \in files' : IsSummary(f.batch) /\ f.batch.id = g.batch.id => f = g
      BY <1>1, <1>2, <1>7 DEF FilesInv
    <2> QED BY <2>1, <2>2 DEF FilesInv
  <1>10. Durable'
    <2> SUFFICES ASSUME NEW b \in submitted, NEW u \in Unit, Carries(b, u)
                 PROVE  u \in acked \/ \E f \in files' : Carries(f.batch, u)
      BY <1>2 DEF Durable
    <2>1. CASE u \in acked
      BY <2>1
    <2>2. ASSUME NEW f \in files, Carries(f.batch, u)
          PROVE  \E g \in files' : Carries(g.batch, u)
      <3>1. CASE f.batch.id # s.id
        BY <1>1, <2>2, <3>1
      <3>2. CASE f.batch.id = s.id
        <4>1. IsSummary(f.batch) /\ Exact(f.batch) /\ f.batch.compacted \subseteq s.compacted
          BY <1>2, <1>3, <3>2 DEF FilesInv, WriteInv, IsSummary
        <4>2. Lists(f.batch, u)
          BY <2>2, <4>1, SMTT(30) DEF Exact, Carries
        <4>3. Carries(s, u)
          BY <1>3, <4>1, <4>2 DEF Exact, Lists, Carries
        <4> QED BY <1>1, <1>7, <4>3
      <3> QED BY <3>1, <3>2
    <2> QED BY <1>2, <2>1, <2>2 DEF Durable
  <1>11. WriteInv'
    <2>1. \A t \in summaries', f \in files' :
             f.batch.id = t.id => f.batch.compacted \subseteq t.compacted
      BY <1>1, <1>2, <1>7 DEF WriteInv, SummariesInv
    <2>2. \A f \in files' : IsSample(f.batch) /\ Expired(f)' => f \in remove'
      BY <1>1, <1>2, <1>7, <1>8 DEF WriteInv, InCall, Expired
    <2>3. ASSUME NEW f \in remove'
          PROVE  /\ f \in files' /\ IsSample(f.batch)
                 /\ \/ \E t \in summaries' : f.batch.id \in t.compacted
                    \/ \E g \in files' : IsSummary(g.batch) /\ f.batch.id \in g.batch.compacted
      <3>1. f \in files /\ IsSample(f.batch)
        BY <1>2 DEF WriteInv
      <3>2. f \in files'
        BY <1>1, <1>3, <3>1 DEF IsSample, IsSummary
      <3>3. F(s) \in files' /\ IsSummary(F(s).batch)
        BY <1>1, <1>3
      <3>4. ASSUME NEW g \in files, IsSummary(g.batch), f.batch.id \in g.batch.compacted
            PROVE  \E h \in files' : IsSummary(h.batch) /\ f.batch.id \in h.batch.compacted
        BY <1>1, <1>2, <1>7, <3>3, <3>4 DEF WriteInv
      <3>5. ASSUME NEW t \in summaries, f.batch.id \in t.compacted
            PROVE  \/ \E r \in summaries' : f.batch.id \in r.compacted
                   \/ \E h \in files' : IsSummary(h.batch) /\ f.batch.id \in h.batch.compacted
        BY <1>1, <1>7, <3>3, <3>5
      <3> QED BY <1>2, <3>1, <3>2, <3>4, <3>5 DEF WriteInv
    <2> QED BY <2>1, <2>2, <2>3 DEF WriteInv
  <1> QED BY <1>2, <1>4, <1>6, <1>9, <1>10, <1>11 DEF IInv, LimitsEnforced

\* When all summaries are on disk each of them lists its files to be removed.
LEMMA WriteDoneInv == ASSUME IInv, WriteDone PROVE IInv'
  <1>1. /\ InCall /\ phase = "write" /\ phase' = "remove" /\ summaries = {}
        /\ files' = files /\ remove' = remove /\ UNCHANGED <<todo, summaries, report>>
        /\ TypeOK /\ FilesInv /\ WriteInv
    BY DEF WriteDone, InCall, IInv
  <1>2. SubmittedInv' /\ FilesInv' /\ Durable'
    BY <1>1, DirectoryUnchanged
  <1>3. TypeOK'
    BY <1>1 DEF TypeOK, InCall
  <1>4. RemoveInv'
    BY <1>1 DEF RemoveInv, WriteInv, FilesInv, InCall, Expired
  <1> QED BY <1>1, <1>2, <1>3, <1>4 DEF IInv, LimitsEnforced

\* Removing files leaves the rest of the directory as it was.
LEMMA FilesShrink ==
    ASSUME IInv, UNCHANGED <<now, submitted>>, files' \subseteq files
    PROVE  SubmittedInv' /\ FilesInv'
  <1>1. ASSUME NEW s PROVE Exact(s)' = Exact(s)
    BY ExactUnchanged
  <1> QED BY <1>1 DEF IInv, SubmittedInv, FilesInv

\* A file that a summary on disk lists may go.
LEMMA RemoveCompactedInv == ASSUME IInv, RemoveCompacted PROVE IInv'
  <1>1. PICK f \in remove : remove' = remove \ {f} /\ files' = files \ {f}
    BY DEF RemoveCompacted
  <1>2. /\ InCall /\ phase = "remove" /\ phase' = phase /\ UNCHANGED <<todo, summaries, report>>
        /\ UNCHANGED <<now, submitted, acked>>
        /\ TypeOK /\ SubmittedInv /\ FilesInv /\ Durable /\ RemoveInv
    BY DEF RemoveCompacted, InCall, IInv
  <1>3. TypeOK'
    BY <1>1, <1>2 DEF TypeOK
  <1>4. SubmittedInv' /\ FilesInv'
    BY <1>1, <1>2, FilesShrink
  <1>5. PICK g \in files : IsSummary(g.batch) /\ f.batch.id \in g.batch.compacted
    BY <1>2 DEF RemoveInv
  <1>6. IsSample(f.batch) /\ f.batch \in submitted /\ g # f
    BY <1>2, <1>5 DEF RemoveInv, IsSample, IsSummary
  <1>7. ASSUME NEW u \in Unit, Carries(f.batch, u) PROVE Carries(g.batch, u)
    <2>1. Lists(g.batch, u)
      BY <1>5, <1>6, <1>7 DEF Lists
    <2>2. Exact(g.batch)
      BY <1>2, <1>5, Zenon DEF FilesInv
    <2>3. g.batch.bytes[u] = 1
      BY <2>1, <2>2, Zenon DEF Exact
    <2> QED BY <2>3 DEF Carries
  <1>8. Durable'
    BY <1>1, <1>2, <1>5, <1>6, <1>7 DEF Durable
  <1>9. RemoveInv'
    BY <1>1, <1>2 DEF RemoveInv, Expired, IsSample, IsSummary
  <1> QED BY <1>2, <1>3, <1>4, <1>8, <1>9 DEF IInv, LimitsEnforced

\* After the removals no expired sample is left.
LEMMA RemoveDoneInv == ASSUME IInv, RemoveDone PROVE IInv'
  <1>1. /\ InCall /\ phase = "remove" /\ phase' = "evict" /\ remove = {}
        /\ files' = files /\ remove' = remove /\ UNCHANGED <<todo, summaries, report>>
        /\ TypeOK /\ RemoveInv
    BY DEF RemoveDone, InCall, IInv
  <1>2. SubmittedInv' /\ FilesInv' /\ Durable'
    BY <1>1, DirectoryUnchanged
  <1>3. TypeOK'
    BY <1>1 DEF TypeOK, InCall
  <1>4. EvictInv'
    BY <1>1 DEF RemoveInv, EvictInv, InCall, Expired
  <1> QED BY <1>1, <1>2, <1>3, <1>4 DEF IInv, LimitsEnforced

-----------------------------------------------------------------------------
(* The rest of Enqueue, and Ack                                            *)

\* Eviction never takes a file with interface traffic.
LEMMA EvictStepInv == ASSUME IInv, Evict PROVE IInv'
  <1>1. PICK f \in files : Evictable(f) /\ files' = files \ {f}
    BY DEF Evict, IsOldest
  <1>2. /\ phase = "evict" /\ phase' = phase /\ UNCHANGED <<now, todo, summaries, remove>>
        /\ UNCHANGED <<submitted, acked>> /\ report' = [report EXCEPT !.dropped = @ + 1]
        /\ TypeOK /\ FilesInv /\ Durable /\ EvictInv
    BY DEF Evict, IInv
  <1>3. TypeOK'
    BY <1>1, <1>2 DEF TypeOK, DropReport
  <1>4. SubmittedInv' /\ FilesInv'
    BY <1>1, <1>2, FilesShrink
  <1>5. \A u \in Unit : ~Carries(f.batch, u)
    BY <1>1, <1>2 DEF Evictable, protectedBatch, FilesInv
  <1>6. Durable'
    BY <1>1, <1>2, <1>5 DEF Durable
  <1>7. EvictInv'
    BY <1>1, <1>2 DEF EvictInv, Expired
  <1> QED BY <1>2, <1>3, <1>4, <1>6, <1>7 DEF IInv, LimitsEnforced

\* The loop of prune ends with the limits in force.
LEMMA EvictDoneInv == ASSUME IInv, EvictDone PROVE IInv'
  <1>1. /\ InCall /\ phase = "evict" /\ phase' = "done" /\ files' = files
        /\ UNCHANGED <<now, todo, summaries, remove>>
        /\ report' = [report EXCEPT !.pressured = Pressured(files)]
        /\ Cardinality(files) <= 1 \/ \A f \in files : ~Evictable(f)
        /\ TypeOK /\ EvictInv
    BY DEF EvictDone, InCall, IInv
  <1>2. SubmittedInv' /\ FilesInv' /\ Durable'
    BY <1>1, DirectoryUnchanged
  <1>3. TypeOK'
    <2>1. Pressured(files) \in BOOLEAN
      BY DEF Pressured
    <2> QED BY <1>1, <2>1 DEF TypeOK, DropReport, InCall
  <1>4. EvictInv'
    BY <1>1 DEF EvictInv, Expired
  <1>5. LimitsEnforced'
    BY <1>1, <1>4 DEF LimitsEnforced, Evictable, Expired, EvictInv, IsSample
  <1> QED BY <1>1, <1>2, <1>3, <1>4, <1>5 DEF IInv

\* A call may end, by returning or by failing, after any of its steps.
LEMMA EndOfCallInv == ASSUME IInv, Return \/ Abort PROVE IInv'
  <1>1. /\ InCall /\ phase' = "idle" /\ files' = files /\ TypeOK
    BY DEF Return, Abort, InCall, IInv
  <1>2. SubmittedInv' /\ FilesInv' /\ Durable'
    BY <1>1, DirectoryUnchanged
  <1>3. TypeOK'
    <2>1. CASE Return
      BY <1>1, <2>1 DEF TypeOK, Return
    <2>2. CASE Abort
      BY <1>1, <2>2 DEF TypeOK, Abort, DropReport
    <2> QED BY <2>1, <2>2
  <1> QED BY <1>1, <1>2, <1>3 DEF IInv, LimitsEnforced

\* An acknowledged file's traffic is accounted for.
LEMMA AckInv == ASSUME IInv, Ack PROVE IInv'
  <1>1. PICK f \in files : /\ files' = files \ {f}
                           /\ acked' = acked \cup {u \in Unit : Carries(f.batch, u)}
    BY DEF Ack
  <1>2. /\ phase = "idle" /\ UNCHANGED <<now, phase, todo, summaries, remove, report, submitted>>
        /\ TypeOK /\ Durable
    BY DEF Ack, IInv
  <1>3. TypeOK'
    BY <1>1, <1>2 DEF TypeOK
  <1>4. SubmittedInv' /\ FilesInv'
    BY <1>1, <1>2, FilesShrink
  <1>5. Durable'
    BY <1>1, <1>2 DEF Durable
  <1> QED BY <1>2, <1>3, <1>4, <1>5 DEF IInv, LimitsEnforced

\* Time passes between calls.
LEMMA ElapseInv == ASSUME IInv, Elapse PROVE IInv'
  <1>1. /\ phase = "idle" /\ now' = now + 1 /\ now \in Int /\ files' = files /\ phase' = phase
        /\ UNCHANGED <<todo, summaries, remove, report, submitted, acked>>
        /\ TypeOK /\ SubmittedInv /\ FilesInv /\ Durable
    BY DEF Elapse, IInv, TypeOK
  <1>2. TypeOK'
    BY <1>1 DEF TypeOK
  <1>3. SubmittedInv'
    <2>1. \A b \in submitted : b.id[2] \in Int
      BY <1>1 DEF TypeOK, Batch, BatchID
    <2> QED BY <1>1, <2>1 DEF SubmittedInv
  <1>4. ASSUME NEW s PROVE Exact(s)' = Exact(s)
    BY <1>1, ExactUnchanged
  <1>5. FilesInv' /\ Durable'
    BY <1>1, <1>4 DEF FilesInv, Durable
  <1> QED BY <1>1, <1>2, <1>3, <1>5 DEF IInv, LimitsEnforced

-----------------------------------------------------------------------------

\* Every batch the model queues is one Enqueue may be called with.
LEMMA EnqueueInv == ASSUME IInv, Enqueue PROVE IInv'
  <1>0. TypeOK /\ SubmittedInv /\ now \in Int
    BY DEF IInv, TypeOK
  <1>1. (now - MaxLag)..now \subseteq Int
    OBVIOUS
  <1>2. ASSUME NEW b \in submitted, Publish(b) PROVE IInv'
    BY <1>0, <1>2, PublishInv DEF Enqueued, TypeOK
  <1>3. ASSUME NEW t \in (now - MaxLag)..now, EnqueueDetail(t) PROVE IInv'
    <2> DEFINE b == NewBatch("detail", t, {}, {})
    <2>1. b \in Batch /\ b.id = <<"detail", t>> /\ \A u \in Unit : b.bytes[u] = 0
      BY <1>1 DEF NewBatch, Batch, BatchID, Bytes, Kind
    <2>2. Enqueued(b)
      <3> HIDE DEF b
      <3>1. b.id[1] \in {"detail", "health-batch"}
        BY <2>1
      <3>2. \A u \in Unit : ~Carries(b, u)
        BY <2>1 DEF Carries
      <3> QED
        BY <2>1, <3>1, <3>2 DEF Enqueued
    <2> QED BY <1>3, <2>2, PublishInv DEF EnqueueDetail
  <1>4. ASSUME NEW t \in (now - MaxLag)..now, NEW d \in HealthEvent, NEW e \in HealthEvent,
               EnqueueHealth(t, d, e)
        PROVE  IInv'
    <2> DEFINE b == NewBatch("health-batch", t, {}, {d, e})
    <2>1. b \in Batch /\ b.id = <<"health-batch", t>> /\ \A u \in Unit : b.bytes[u] = 0
      BY <1>1 DEF NewBatch, Batch, BatchID, Bytes, Kind
    <2>2. Enqueued(b)
      <3> HIDE DEF b
      <3>1. b.id[1] \in {"detail", "health-batch"}
        BY <2>1
      <3>2. \A u \in Unit : ~Carries(b, u)
        BY <2>1 DEF Carries
      <3> QED
        BY <2>1, <3>1, <3>2 DEF Enqueued
    <2> QED BY <1>4, <2>2, PublishInv DEF EnqueueHealth
  <1>5. ASSUME NEW t \in (now - MaxLag)..now, NEW U \in SUBSET Unit, EnqueueSample(t, U)
        PROVE  IInv'
    <2> DEFINE b == NewBatch("batch", t, U, {})
    <2>1. b \in Batch /\ b.id = <<"batch", t>> /\ \A u \in Unit : b.bytes[u] \in {0, 1}
      BY <1>1 DEF NewBatch, Batch, BatchID, Bytes, Kind
    <2>2. t <= now
      BY <1>0, SpoolAssumption
    <2>3. Enqueued(b)
      <3>1. IsNew(b)
        BY <1>5 DEF EnqueueSample
      <3> HIDE DEF b
      <3>2. IsSample(b) /\ b.id[2] <= now
        BY <2>1, <2>2 DEF IsSample
      <3> QED
        BY <2>1, <3>1, <3>2 DEF Enqueued
    <2> QED BY <1>5, <2>3, PublishInv DEF EnqueueSample
  <1> QED BY <1>2, <1>3, <1>4, <1>5 DEF Enqueue, EnqueueAgain

\* A new file is at most one more that may be evicted.
LEMMA PublishDetails ==
    ASSUME IsFiniteSet(files), NEW b, Publish(b)
    PROVE  /\ IsFiniteSet(files') /\ report'.dropped = 0
           /\ Cardinality(Details) \in Nat /\ Cardinality(Details') \in Nat
           /\ Cardinality(Details') <= Cardinality(Details) + 1
           /\ b.id[1] # "detail" => Cardinality(Details') = Cardinality(Details)
  <1> DEFINE F == [at |-> now + 1, batch |-> b]
  <1>1. files' = files \cup {F} /\ report'.dropped = 0
    BY DEF Publish
  <1>2. IsFiniteSet(files') /\ IsFiniteSet(Details)
    BY <1>1, FS_AddElement, FS_Subset DEF Details
  <1>3. Details' = IF b.id[1] = "detail" THEN Details \cup {F} ELSE Details
    BY <1>1 DEF Details
  <1>4. Cardinality(Details) \in Nat /\ Cardinality(Details \cup {F}) \in Nat
    BY <1>2, FS_AddElement, FS_CardinalityType
  <1>5. \/ Cardinality(Details \cup {F}) = Cardinality(Details)
        \/ Cardinality(Details \cup {F}) = Cardinality(Details) + 1
    BY Zenon, <1>2, FS_AddElement
  <1> QED BY <1>1, <1>2, <1>3, <1>4, <1>5

\* What a call reports as dropped is gone from the directory.
LEMMA DropsCounted ==
    ASSUME IInv, IsFiniteSet(files), EnqueueStep \/ Abort \/ Ack \/ Elapse
    PROVE  /\ IsFiniteSet(files')
           /\ Cardinality(Details) \in Nat /\ Cardinality(Details') \in Nat
           /\ report'.dropped + Cardinality(Details') <= report.dropped + Cardinality(Details)
  <1>1. IsFiniteSet(Details) /\ Cardinality(Details) \in Nat /\ report.dropped \in Nat
    BY FS_Subset, FS_CardinalityType DEF Details, IInv, TypeOK, DropReport
  <1>2. ASSUME Details' \subseteq Details, IsFiniteSet(files'),
               report'.dropped = report.dropped \/ report'.dropped = 0
        PROVE  /\ Cardinality(Details') \in Nat
               /\ report'.dropped + Cardinality(Details') <= report.dropped + Cardinality(Details)
    <2>1. Cardinality(Details') \in Nat /\ Cardinality(Details') <= Cardinality(Details)
      BY <1>1, <1>2, FS_Subset, FS_CardinalityType
    <2> QED BY <1>1, <1>2, <2>1
  <1>3. ASSUME files' \subseteq files, report'.dropped = report.dropped \/ report'.dropped = 0
        PROVE  /\ IsFiniteSet(files') /\ Cardinality(Details') \in Nat
               /\ report'.dropped + Cardinality(Details') <= report.dropped + Cardinality(Details)
    <2>1. IsFiniteSet(files') /\ Details' \subseteq Details
      BY <1>3, FS_Subset DEF Details
    <2> QED BY <1>2, <1>3, <2>1
  <1>4. CASE Evict
    <2>1. PICK f \in files : Evictable(f) /\ files' = files \ {f}
      BY <1>4 DEF Evict, IsOldest
    <2>2. f \in Details
      <3>1. f.batch \in Batch /\ f.batch.id[1] \in Kind
        BY DEF IInv, TypeOK, File, Batch, BatchID
      <3> QED BY <2>1, <3>1 DEF Details, Evictable, protectedBatch, interfaceOnly, Kind
    <2>3. Details' = Details \ {f} /\ IsFiniteSet(files')
      BY <2>1, FS_Subset DEF Details
    <2>4. Cardinality(Details') = Cardinality(Details) - 1 /\ Cardinality(Details') \in Nat
      BY <1>1, <2>2, <2>3, FS_RemoveElement, FS_CardinalityType
    <2>5. report'.dropped = report.dropped + 1
      BY <1>4 DEF Evict, IInv, TypeOK, DropReport
    <2> QED BY <1>1, <2>3, <2>4, <2>5
  <1>5. CASE WriteSummary
    <2>1. PICK s \in summaries :
            files' = {f \in files : f.batch.id # s.id} \cup {[at |-> s.id[2], batch |-> s]}
      BY <1>5 DEF WriteSummary
    <2>2. s.id[1] = "minute-summary"
      BY <1>5 DEF WriteSummary, IInv, SummariesInv, Exact, IsSummary
    <2>3. Details' \subseteq Details
      BY <2>1, <2>2 DEF Details
    <2>4. IsFiniteSet({f \in files : f.batch.id # s.id})
      BY FS_Subset
    <2>5. IsFiniteSet(files')
      BY <2>1, <2>4, FS_AddElement
    <2>6. report' = report
      BY <1>5 DEF WriteSummary
    <2> QED BY <1>1, <1>2, <2>3, <2>5, <2>6
  <1>6. CASE Scan \/ ScanDone \/ WriteDone \/ RemoveCompacted \/ RemoveDone \/ Return
    <2>1. files' \subseteq files /\ report' = report
      BY <1>6 DEF Scan, ScanDone, WriteDone, RemoveCompacted, RemoveDone, Return
    <2> QED BY <1>1, <1>3, <2>1
  <1>7. CASE EvictDone \/ Abort \/ Ack \/ Elapse
    <2>1. files' \subseteq files /\ (report'.dropped = report.dropped \/ report'.dropped = 0)
      BY <1>7 DEF EvictDone, Abort, Ack, Elapse, IInv, TypeOK, DropReport
    <2> QED BY <1>1, <1>3, <2>1
  <1> QED BY <1>4, <1>5, <1>6, <1>7, <1>1 DEF EnqueueStep

\* Merging a batch puts no health event into a summary.
LEMMA MergePlain ==
    ASSUME TypeOK, SummariesInv, SummariesPlain, NEW b \in Batch
    PROVE  \A s \in mergeInterface(summaries, b) : s.health = {}
  <1> DEFINE s == summaryOf(summaries, Minute(b.id[2]))
             n == [s EXCEPT !.bytes = Plus(s.bytes, b.bytes),
                            !.compacted = s.compacted \cup {b.id}]
  <1>1. s \in Batch
    <2>1. b.id[2] \in Int
      BY DEF Batch, BatchID
    <2> QED BY <2>1, MinuteStart, SummaryOfExact
  <1>2. s.health = {}
    BY DEF summaryOf, SummariesPlain
  <1>3. n.health = {}
    BY <1>1, <1>2 DEF Batch
  <1>4. mergeInterface(summaries, b) \subseteq summaries \cup {n}
    BY Zenon DEF mergeInterface
  <1> QED BY Zenon, <1>3, <1>4 DEF SummariesPlain

\* A call that runs, and Ack, bring no health event into the directory, and an
\* eviction is added to the report.
LEMMA NoHealthAdded ==
    ASSUME IInv, SummariesPlain, EnqueueStep \/ Abort \/ Ack \/ Elapse
    PROVE  /\ SummariesPlain'
           /\ \A f \in files' : f.batch.health = {} \/ f \in files
           /\ EnqueueStep => report.dropped <= report'.dropped
  <1>1. report.dropped \in Nat
    BY DEF IInv, TypeOK, DropReport
  <1>2. CASE Scan
    <2>1. PICK f \in todo :
            \/ /\ IsSummary(f.batch)
               /\ summaries' = {s \in summaries : s.id # f.batch.id} \cup {f.batch}
            \/ summaries' = summaries
            \/ summaries' = mergeInterface(summaries, f.batch)
      BY Zenon, <1>2 DEF Scan
    <2>2. f \in files /\ f.batch \in Batch /\ TypeOK /\ SummariesInv
      BY <1>2 DEF Scan, IInv, ScanInv, TypeOK, File
    <2>3. files' = files /\ report' = report
      BY <1>2 DEF Scan
    <2>4. \A s \in summaries' : s.health = {}
      BY Zenon, <2>1, <2>2, MergePlain DEF SummariesPlain
    <2> QED BY <1>1, <2>3, <2>4 DEF SummariesPlain
  <1>3. CASE WriteSummary
    <2>1. PICK s \in summaries :
            /\ summaries' = summaries \ {s}
            /\ files' = {f \in files : f.batch.id # s.id} \cup {[at |-> s.id[2], batch |-> s]}
      BY <1>3 DEF WriteSummary
    <2>2. \A f \in files' : f \in files \/ f.batch = s
      BY <2>1
    <2>3. report' = report
      BY <1>3 DEF WriteSummary
    <2> QED BY <1>1, <2>1, <2>2, <2>3 DEF SummariesPlain
  <1>4. CASE Evict
    <2>1. files' \subseteq files /\ summaries' = summaries /\ report'.dropped = report.dropped + 1
      BY <1>4 DEF Evict, IInv, TypeOK, DropReport
    <2> QED BY <1>1, <2>1 DEF SummariesPlain
  <1>5. CASE ScanDone \/ WriteDone \/ RemoveCompacted \/ RemoveDone \/ EvictDone \/ Return
    <2>1. /\ files' \subseteq files /\ summaries' \subseteq summaries
          /\ report'.dropped = report.dropped
      BY <1>5 DEF ScanDone, WriteDone, RemoveCompacted, RemoveDone, EvictDone, Return,
           IInv, TypeOK, DropReport
    <2> QED BY <1>1, <2>1 DEF SummariesPlain
  <1>6. CASE (Abort \/ Ack \/ Elapse) /\ ~EnqueueStep
    <2>1. files' \subseteq files /\ summaries' \subseteq summaries
      BY <1>6 DEF Abort, Ack, Elapse
    <2> QED BY <1>6, <2>1 DEF SummariesPlain
  <1> QED BY <1>2, <1>3, <1>4, <1>5, <1>6 DEF EnqueueStep

\* No step of the spool puts a health event into a summary.
LEMMA PlainNext ==
    ASSUME IInv, SummariesPlain, [Next]_vars
    PROVE  SummariesPlain'
  <1>1. CASE UNCHANGED vars
    BY <1>1 DEF vars, SummariesPlain
  <1>2. CASE EnqueueStep \/ Abort \/ Ack \/ Elapse
    BY <1>2, NoHealthAdded
  <1>3. CASE Enqueue
    <2>1. PICK b : ~IsSummary(b) /\ Publish(b)
      <3>1. \A t, U, H : /\ ~IsSummary(NewBatch("batch", t, U, H))
                         /\ ~IsSummary(NewBatch("detail", t, U, H))
                         /\ ~IsSummary(NewBatch("health-batch", t, U, H))
        BY DEF NewBatch, IsSummary
      <3>2. \A b \in submitted : ~IsSummary(b)
        BY DEF IInv, SubmittedInv, IsSample, IsSummary
      <3> QED BY Zenon, <1>3, <3>1, <3>2 DEF Enqueue, EnqueueAgain, EnqueueDetail, EnqueueSample,
                   EnqueueHealth
    <2>2. summaries' = {} /\ files' = files \cup {[at |-> now + 1, batch |-> b]}
      BY <2>1 DEF Publish
    <2>3. [at |-> now + 1, batch |-> b].batch = b
      OBVIOUS
    <2> QED BY Zenon, <2>1, <2>2, <2>3 DEF SummariesPlain
  <1> QED BY <1>1, <1>2, <1>3 DEF Next

\* n more things than A has.
LEMMA AtMostMore ==
    ASSUME NEW A, IsFiniteSet(A), NEW e, NEW n \in Nat, NEW B \in SUBSET (A \cup ({e} \X (1..n)))
    PROVE  /\ IsFiniteSet(B) /\ Cardinality(A) \in Nat /\ Cardinality(B) \in Nat
           /\ Cardinality(B) <= Cardinality(A) + n
  <1> DEFINE X == {e} \X (1..n)
  <1>1. IsFiniteSet({e}) /\ Cardinality({e}) = 1 /\ IsFiniteSet(1..n) /\ Cardinality(1..n) = n
    <2>1. IsFiniteSet({e}) /\ Cardinality({e}) = 1
      BY FS_Singleton
    <2>2. IsFiniteSet(1..n) /\ Cardinality(1..n) = n
      BY FS_Interval
    <2> QED BY <2>1, <2>2
  <1>2. IsFiniteSet(X) /\ Cardinality(X) = Cardinality({e}) * Cardinality(1..n)
    BY Zenon, <1>1, FS_Product
  <1>3. Cardinality(X) = n
    BY <1>1, <1>2
  <1> HIDE DEF X
  <1>4. /\ IsFiniteSet(A \cup X) /\ IsFiniteSet(A \cap X)
        /\ Cardinality(A \cup X) = Cardinality(A) + Cardinality(X) - Cardinality(A \cap X)
    BY Zenon, <1>2, FS_Union, FS_Intersection
  <1>5. IsFiniteSet(B) /\ Cardinality(B) <= Cardinality(A \cup X)
    BY Zenon, <1>4, FS_Subset DEF X
  <1>6. /\ Cardinality(A) \in Nat /\ Cardinality(B) \in Nat
        /\ Cardinality(A \cup X) \in Nat /\ Cardinality(A \cap X) \in Nat
    BY Zenon, <1>4, <1>5, FS_CardinalityType
  <1> QED BY <1>3, <1>4, <1>5, <1>6

\* IInv is preserved by every step of the spool (spool.go:72-297).
LEMMA NextInv == ASSUME IInv, [Next]_vars PROVE IInv'
  <1>1. CASE UNCHANGED vars
    <2>1. ASSUME NEW s PROVE Exact(s)' = Exact(s)
      BY <1>1, ExactUnchanged DEF vars
    <2> QED BY <1>1, <2>1 DEF vars, IInv, TypeOK, SubmittedInv, FilesInv, Durable, Expired,
              SummariesInv, ScanInv, WriteInv, RemoveInv, EvictInv, LimitsEnforced, Evictable
  <1>2. CASE Next
    BY <1>2, ElapseInv, EnqueueInv, ScanStepInv, ScanDoneInv, WriteSummaryInv, WriteDoneInv,
       RemoveCompactedInv, RemoveDoneInv, EvictStepInv, EvictDoneInv, EndOfCallInv, AckInv
       DEF Next, EnqueueStep
  <1> QED BY <1>1, <1>2

\* The spool never leaves the inductive invariant, whatever is queued and
\* wherever its calls are cut short.
THEOREM SpoolInvariant == Spec => []IInv
  BY InitInv, NextInv, PTL DEF Spec

\* Type correctness of the spool's directory, call state and histories.
THEOREM SpoolTypeOK == Spec => []TypeOK
  <1>1. IInv => TypeOK
    BY DEF IInv
  <1> QED BY <1>1, SpoolInvariant, PTL

\* No interface traffic that Enqueue accepted is lost before it is
\* acknowledged: not by eviction, not by compaction cut short anywhere.
THEOREM SpoolDurable == Spec => []Durable
  <1>1. IInv => Durable
    BY DEF IInv
  <1> QED BY <1>1, SpoolInvariant, PTL

\* A summary's total is that of the batches it lists, each counted once.
THEOREM SpoolSummaryExact == Spec => []SummaryExact
  <1>1. IInv => SummaryExact
    BY DEF IInv, FilesInv, Exact, SummaryExact
  <1> QED BY <1>1, SpoolInvariant, PTL

\* A call that returns leaves the age and size limits enforced.
THEOREM SpoolLimitsEnforced == Spec => []LimitsEnforced
  <1>1. IInv => LimitsEnforced
    BY DEF IInv
  <1> QED BY <1>1, SpoolInvariant, PTL

=============================================================================

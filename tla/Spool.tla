------------------------------- MODULE Spool -------------------------------
(***************************************************************************)
(* The agent's on-disk queue, internal/agent/spool/spool.go.               *)
(*                                                                         *)
(* A file of the spool directory is a record: "at" is both the timestamp   *)
(* in its name and its modification time (Enqueue and writeBatchFile set   *)
(* the two to the same instant), "batch" is its content.  The directory is *)
(* a set, its order is the order of the names.                             *)
(*                                                                         *)
(* Enqueue is not atomic: every change it makes to the directory is a step *)
(* of its own, and the process may die, or an I/O error may end the call,  *)
(* between any two of them.                                                *)
(***************************************************************************)
EXTENDS Batches

CONSTANTS
    MinuteLen,    \* instants in a minute
    MaxAge,       \* Spool.maxAge, in instants
    MaxBytes,     \* Spool.maxBytes, counting every file as one
    MaxLag,       \* bound on the time from observing a batch to queueing it
    MaxTime       \* bound on the clock

ASSUME SpoolAssumption ==
    /\ MinuteLen \in Nat \ {0}
    /\ MaxAge \in Nat \ {0}
    /\ MaxBytes \in Nat \ {0}
    /\ MaxLag \in Nat
    /\ MaxTime \in Nat

VARIABLES
    now,        \* the clock
    files,      \* the published files (*.json.gz) of the directory
    phase,      \* how far the running Enqueue has come, "idle" when none runs
    todo,       \* files compactExpiredInterfaces has not looked at yet
    summaries,  \* its in-memory minute summaries, or those still to be written
    remove,     \* files it has still to remove
    report,     \* the DropReport of the last Enqueue
    submitted,  \* history: every interface batch Enqueue ever published
    acked       \* history: units of batches removed by Ack

vars == <<now, files, phase, todo, summaries, remove, report, submitted, acked>>

-----------------------------------------------------------------------------
File == [at : Int, batch : Batch]
DropReport == [dropped : Nat, pressured : BOOLEAN]

\* The minute of an instant, named by the instant it starts at.
Minute(t) == t - (t % MinuteLen)
\* Faulty variant: a prefix the rest of the code does not know.
unknownPrefixBatchID(m) == <<"minute", m>>

minuteSummaryBatchID(m) == <<"minute-summary", m>>

-----------------------------------------------------------------------------
(* Order of the directory.  Two files never have the same nanosecond in    *)
(* their name, except that the model's coarse clock may queue a batch at   *)
(* the instant its minute starts: the summary of that minute is the older. *)

Before(f, g) ==
    \/ f.at < g.at
    \/ f.at = g.at /\ IsSummary(f.batch) /\ ~IsSummary(g.batch)

IsOldest(f, F) == f \in F /\ \A g \in F \ {f} : Before(f, g)

Expired(f) == now - f.at > MaxAge

-----------------------------------------------------------------------------
(* compactExpiredInterfaces: the summary a minute has so far, or a new one *)

summaryOf(S, m) ==
    IF \E s \in S : s.id = minuteSummaryBatchID(m)
    THEN CHOOSE s \in S : s.id = minuteSummaryBatchID(m)
    ELSE [id |-> minuteSummaryBatchID(m), bytes |-> NoBytes,
          compacted |-> {}, health |-> {}]

\* Faulty variant: a batch may be merged again.
mergeAgain(S, b) ==
    LET s == summaryOf(S, Minute(b.id[2]))
    IN  (S \ {s}) \cup {[s EXCEPT !.bytes = Plus(s.bytes, b.bytes),
                                 !.compacted = s.compacted \cup {b.id}]}

\* mergeInterfaceEvent for every event of b, unless b was merged before.
mergeInterface(S, b) ==
    LET s == summaryOf(S, Minute(b.id[2]))
    IN  IF b.id \in s.compacted
        THEN S
        ELSE (S \ {s}) \cup
               {[s EXCEPT !.bytes = Plus(s.bytes, b.bytes),
                          !.compacted = s.compacted \cup {b.id}]}

-----------------------------------------------------------------------------
(* prune: eviction                                                         *)

Evictable(f) ==
    /\ ~protectedBatch(f.batch)
    /\ Expired(f) \/ Cardinality(files) > MaxBytes

\* DropReport.UsagePercent >= 80, the only use App makes of it.
Pressured(F) ==
    /\ F # {}
    /\ \/ 5 * Cardinality(F) >= 4 * MaxBytes
       \/ \E f \in F : IsOldest(f, F) /\ 5 * (now - f.at) >= 4 * MaxAge

-----------------------------------------------------------------------------

Init ==
    /\ now = 0
    /\ files = {}
    /\ phase = "idle"
    /\ todo = {}
    /\ summaries = {}
    /\ remove = {}
    /\ report = [dropped |-> 0, pressured |-> FALSE]
    /\ submitted = {}
    /\ acked = {}

\* Time passes.  A call is short beside the instants of the clock: its own
\* duration is the one instant Publish takes.
Elapse ==
    /\ phase = "idle"
    /\ now < MaxTime
    /\ now' = now + 1
    /\ UNCHANGED <<files, phase, todo, summaries, remove, report, submitted, acked>>

\* Faulty variant: the report of the call before is carried on.
PublishKeepingReport(b) ==
    /\ phase = "idle"
    /\ now' = now + 1
    /\ files' = files \cup {[at |-> now + 1, batch |-> b]}
    /\ phase' = "scan"
    /\ todo' = files'
    /\ summaries' = {}
    /\ remove' = {}
    /\ submitted' = IF b.id[1] = "batch" THEN submitted \cup {b} ELSE submitted
    /\ UNCHANGED <<report, acked>>

\* Enqueue up to the rename that publishes the batch, and the directory
\* listing prune starts from.  Each call takes an instant of its own.
Publish(b) ==
    /\ phase = "idle"
    /\ now' = now + 1
    /\ files' = files \cup {[at |-> now + 1, batch |-> b]}
    /\ phase' = "scan"
    /\ todo' = files'
    /\ summaries' = {}
    /\ remove' = {}
    /\ report' = [dropped |-> 0, pressured |-> FALSE]
    /\ submitted' = IF b.id[1] = "batch" THEN submitted \cup {b} ELSE submitted
    /\ UNCHANGED acked

\* Faulty variant: existing summaries are skipped and later overwritten.
ScanSkippingSummaries ==
    /\ phase = "scan"
    /\ \E f \in todo :
          /\ IsOldest(f, todo)
          /\ todo' = todo \ {f}
          /\ \/ /\ ~(f.batch.id[1] = "batch" /\ Expired(f))
                /\ UNCHANGED <<summaries, remove>>
             \/ /\ f.batch.id[1] = "batch" /\ Expired(f)
                /\ summaries' = mergeInterface(summaries, f.batch)
                /\ remove' = remove \cup {f}
    /\ UNCHANGED <<now, files, phase, report, submitted, acked>>

\* One iteration of the first loop of compactExpiredInterfaces.
Scan ==
    /\ phase = "scan"
    /\ \E f \in todo :
          /\ IsOldest(f, todo)
          /\ todo' = todo \ {f}
          /\ \/ /\ IsSummary(f.batch)
                /\ summaries' = {s \in summaries : s.id # f.batch.id} \cup {f.batch}
                /\ UNCHANGED remove
             \/ /\ ~IsSummary(f.batch)
                /\ ~(Expired(f) /\ interfaceOnly(f.batch))
                /\ UNCHANGED <<summaries, remove>>
             \/ /\ ~IsSummary(f.batch)
                /\ Expired(f) /\ interfaceOnly(f.batch)
                /\ summaries' = mergeInterface(summaries, f.batch)
                /\ remove' = remove \cup {f}
    /\ UNCHANGED <<now, files, phase, report, submitted, acked>>

\* Nothing expired: compaction writes nothing.
ScanDone ==
    /\ phase = "scan"
    /\ todo = {}
    /\ phase' = IF remove = {} THEN "evict" ELSE "write"
    /\ summaries' = IF remove = {} THEN {} ELSE summaries
    /\ UNCHANGED <<now, files, todo, remove, report, submitted, acked>>

\* writeBatchFile: the summary replaces the file of the same name.
WriteSummary ==
    /\ phase = "write"
    /\ \E s \in summaries :
          /\ summaries' = summaries \ {s}
          /\ files' = {f \in files : f.batch.id # s.id}
                        \cup {[at |-> s.id[2], batch |-> s]}
    /\ UNCHANGED <<now, phase, todo, remove, report, submitted, acked>>

WriteDone ==
    /\ phase = "write"
    /\ summaries = {}
    /\ phase' = "remove"
    /\ UNCHANGED <<now, files, todo, summaries, remove, report, submitted, acked>>

\* The originals go once every summary is on disk.  Before the final sync a
\* power failure may keep any of the removals, hence any order.
RemoveCompacted ==
    /\ phase = "remove"
    /\ \E f \in remove :
          /\ remove' = remove \ {f}
          /\ files' = files \ {f}
    /\ UNCHANGED <<now, phase, todo, summaries, report, submitted, acked>>

RemoveDone ==
    /\ phase = "remove"
    /\ remove = {}
    /\ phase' = "evict"
    /\ UNCHANGED <<now, files, todo, summaries, remove, report, submitted, acked>>

\* One iteration of prune's loop: the oldest evictable file goes.
Evict ==
    /\ phase = "evict"
    /\ Cardinality(files) > 1
    /\ \E f \in files :
          /\ IsOldest(f, {g \in files : Evictable(g)})
          /\ files' = files \ {f}
    /\ report' = [report EXCEPT !.dropped = @ + 1]
    /\ UNCHANGED <<now, phase, todo, summaries, remove, submitted, acked>>

\* Faulty variant: the loop ends one file early.
EvictDoneEarly ==
    /\ phase = "evict"
    /\ Cardinality(files) <= 2 \/ \A f \in files : ~Evictable(f)
    /\ phase' = "done"
    /\ report' = [report EXCEPT !.pressured = Pressured(files)]
    /\ UNCHANGED <<now, files, todo, summaries, remove, submitted, acked>>

EvictDone ==
    /\ phase = "evict"
    /\ Cardinality(files) <= 1 \/ \A f \in files : ~Evictable(f)
    /\ phase' = "done"
    /\ report' = [report EXCEPT !.pressured = Pressured(files)]
    /\ UNCHANGED <<now, files, todo, summaries, remove, submitted, acked>>

\* Enqueue returns its report.
Return ==
    /\ phase = "done"
    /\ phase' = "idle"
    /\ UNCHANGED <<now, files, todo, summaries, remove, report, submitted, acked>>

\* The call ends early: an I/O error is returned, or the process dies.
Abort ==
    /\ phase # "idle"
    /\ phase' = "idle"
    /\ todo' = {}
    /\ summaries' = {}
    /\ remove' = {}
    /\ report' = [dropped |-> 0, pressured |-> FALSE]
    /\ UNCHANGED <<now, files, submitted, acked>>

\* Ack of the item Peek returned: the first file of the directory.
Ack ==
    /\ phase = "idle"
    /\ \E f \in files :
          /\ IsOldest(f, files)
          /\ files' = files \ {f}
          /\ acked' = acked \cup {u \in Unit : Carries(f.batch, u)}
    /\ UNCHANGED <<now, phase, todo, summaries, remove, report, submitted>>

EnqueueStep ==
    \/ Scan \/ ScanDone \/ WriteSummary \/ WriteDone \/ RemoveCompacted
    \/ RemoveDone \/ Evict \/ EvictDone \/ Return

-----------------------------------------------------------------------------
(* What the spool may be asked to queue.  A batch is identified by the     *)
(* instant t it was observed at.  An interface batch is new, with traffic  *)
(* no other batch carries, or one queued before (the recovery of a pending *)
(* batch).  Summaries are written by compaction alone.                     *)

IsNew(b) == \A c \in submitted :
                /\ c.id # b.id
                /\ \A u \in Unit : ~(Carries(b, u) /\ Carries(c, u))

EnqueueSample(t, U) ==
    /\ U # {}
    /\ IsNew(NewBatch("batch", t, U, {}))
    /\ Publish(NewBatch("batch", t, U, {}))

EnqueueAgain == \E b \in submitted : Publish(b)

EnqueueDetail(t) == Publish(NewBatch("detail", t, {}, {}))

\* A report is told in one event or two.
EnqueueHealth(t, d, e) == Publish(NewBatch("health-batch", t, {}, {d, e}))

Enqueue ==
    /\ now < MaxTime
    /\ \/ EnqueueAgain
       \/ \E t \in (now - MaxLag)..now :
             \/ EnqueueDetail(t)
             \/ \E U \in SUBSET Unit : EnqueueSample(t, U)
             \/ \E d, e \in HealthEvent : EnqueueHealth(t, d, e)

Next == Elapse \/ EnqueueStep \/ Abort \/ Ack \/ Enqueue

Spec == Init /\ [][Next]_vars

-----------------------------------------------------------------------------

TypeOK ==
    /\ now \in Int
    /\ files \in SUBSET File
    /\ phase \in {"idle", "scan", "write", "remove", "evict", "done"}
    /\ todo \in SUBSET File
    /\ summaries \in SUBSET Batch
    /\ remove \in SUBSET File
    /\ report \in DropReport
    /\ submitted \in SUBSET Batch
    /\ acked \in SUBSET Unit

\* Interface traffic accepted by Enqueue stays on disk until a file that
\* carries it is acknowledged: neither compaction cut short at any point, nor
\* eviction, nor a batch queued twice, loses a unit (spool.go:165-297).
Durable ==
    \A b \in submitted, u \in Unit :
        Carries(b, u) => \/ u \in acked
                         \/ \E f \in files : Carries(f.batch, u)

\* A minute summary holds exactly the traffic of the batches it lists, each
\* merged once, however often compaction is interrupted and repeated
\* (spool.go:262-276).
Lists(s, u) == \E b \in submitted : b.id \in s.compacted /\ Carries(b, u)

SummaryExact ==
    \A f \in files : IsSummary(f.batch) =>
        \A u \in Unit : f.batch.bytes[u] = IF Lists(f.batch, u) THEN 1 ELSE 0

\* When Enqueue returns, no expired sample is left outside a summary, and the
\* limits hold or only what may not be evicted is left: at most one file, or
\* protected files only (spool.go:170-216).
LimitsEnforced ==
    phase = "done" =>
        /\ \A f \in files : f.batch.id[1] = "batch" => ~Expired(f)
        /\ \/ Cardinality(files) <= 1
           \/ \A f \in files : ~Evictable(f)

=============================================================================

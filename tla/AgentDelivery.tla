--------------------------- MODULE AgentDelivery ---------------------------
(***************************************************************************)
(* One agent and the server: App (internal/agent/app), its checkpoint      *)
(* (internal/agent/interfacecounter/state.go), the Sender                  *)
(* (internal/agent/sender) and the calls the main loop of                  *)
(* cmd/flowlens-agent makes, over the spool of module Spool and the        *)
(* database of module Ingest.                                              *)
(*                                                                         *)
(* The agent is one goroutine: pc is the place in its code.  Every write to*)
(* disk and every request is a step; the process may be killed between any *)
(* two of them, and any I/O operation may fail.  The number of such faults *)
(* is bounded by MaxFaults; requests may fail any number of times.         *)
(*                                                                         *)
(* The kernel's counter is the number of units that have passed; unit u is *)
(* the one that brought it to u.                                           *)
(***************************************************************************)
EXTENDS Ingest

CONSTANTS
    self,         \* config.NodeID
    MinuteLen, MaxAge, MaxBytes,   \* as in Spool
    MaxLag,       \* bound on the age of a tick when the loop receives it
    MaxTime,      \* bound on the time of the last tick
    Attempts,     \* len(backoff) + 1, the requests one Send makes
    MaxRecords,   \* bound on the batches of details recorded in a tick
    MaxFaults     \* bound on crashes and I/O errors

\* The limits of the spool are positive, as New demands.
ASSUME AgentAssumption ==
    /\ self \in Node
    /\ Cardinality(Unit) \in Nat \ {0} /\ Unit = 1..Cardinality(Unit)
    /\ {MinuteLen, MaxAge, MaxBytes, Attempts} \subseteq Nat \ {0}
    /\ {MaxLag, MaxTime, MaxRecords, MaxFaults} \subseteq Nat

VARIABLES
    now, files, phase, todo, summaries, remove, report, submitted, acked,
    pc,              \* where the agent is, "down" when it does not run
    observedAt,      \* argument of the running Sample or Record
    current,         \* the counters Sample has read
    caller,          \* who called Enqueue or drain: "recover", "sample", "record"
    inHealth,        \* the Enqueue is that of enqueueSpoolHealth
    attempt,         \* number of the request Send is making
    previous, stateLoaded, spoolPressured,   \* fields of App
    checkpoint,      \* the contents of interface-counters.json
    counter,         \* the kernel's interface counter
    records,         \* batches recorded in this tick
    faults,          \* faults so far
    established,     \* history: a checkpoint has been saved without error
    baseline,        \* history: the counter that checkpoint was taken at
    dropped          \* history: batches evicted from the spool

\* The clock runs on while a tick that started in time queues its batches: at
\* most the recovered one, the sample, MaxRecords and a health batch for each.
LastInstant == MaxTime + 4 + 2 * MaxRecords

\* What enqueueSpoolHealth reports.  Only details are evicted, and each takes an
\* instant to queue.
ASSUME HealthAssumption ==
    /\ \A d \in 1..MaxTime : [code |-> "data_gap", dropped |-> d] \in HealthEvent
    /\ \A c \in {"buffer_pressure", "buffer_recovered"} : [code |-> c, dropped |-> 0] \in HealthEvent

Queue == INSTANCE Spool WITH MaxTime <- LastInstant, MaxLag <- LastInstant

spoolVars == <<now, files, phase, todo, summaries, remove, report, submitted, acked>>
callVars == <<observedAt, current, caller, inHealth, attempt, records>>
appVars == <<previous, stateLoaded, spoolPressured>>
historyVars == <<established, baseline, dropped>>
vars == <<spoolVars, ingestVars, pc, callVars, appVars, checkpoint, counter, faults, historyVars>>

NoCounter == -1
TopUnit == Cardinality(Unit)

-----------------------------------------------------------------------------

Init ==
    /\ Queue!Init
    /\ IngestInit
    /\ pc = "down"
    /\ observedAt = -1 /\ current = NoCounter /\ caller = "sample" /\ inHealth = FALSE
    /\ attempt = 0 /\ records = 0
    /\ previous = NoCounter /\ stateLoaded = FALSE /\ spoolPressured = FALSE
    /\ checkpoint = [found |-> FALSE, counters |-> NoCounter, pending |-> {}]
    /\ counter = 0
    /\ faults = 0
    /\ established = FALSE /\ baseline = 0 /\ dropped = 0

\* interfacecounter.Delta and the batch Sample makes of it.
Delta(p, c) == NewBatch("batch", observedAt, {u \in Unit : p < u /\ u <= c}, {})

Fault == faults < MaxFaults /\ faults' = faults + 1

\* StateFile.Save and what its caller does next: an error may be returned
\* before or after the rename that publishes the new checkpoint.
SaveThen(c, p, Ok, Failed) ==
    LET Save == checkpoint' = [found |-> TRUE, counters |-> c, pending |-> p]
    IN  \/ Save /\ Ok /\ UNCHANGED faults
        \/ (Save \/ UNCHANGED checkpoint) /\ Failed /\ Fault

invalidateCounterState == previous' = NoCounter /\ stateLoaded' = FALSE

\* Faulty variant: the loaded state is kept.
QueueErrorKeepingState(who, health) == pc' = "main" /\ UNCHANGED <<previous, stateLoaded>>

\* What the caller of Enqueue does with an error.
QueueError(who, health) ==
    /\ pc' = "main"
    /\ IF who = "sample" /\ ~health THEN invalidateCounterState
                                    ELSE UNCHANGED <<previous, stateLoaded>>

\* Enqueue is called, and publishes the batch or fails before that.
EnqueueCall(b, who, health) ==
    \/ /\ Queue!Publish(b)
       /\ pc' = "enqueue" /\ caller' = who /\ inHealth' = health
       /\ UNCHANGED <<previous, stateLoaded, faults>>
    \/ /\ Fault
       /\ QueueError(who, health)
       /\ UNCHANGED <<spoolVars, caller, inHealth>>

\* enqueueSpoolHealth has returned nil.
HealthDone ==
    IF caller = "recover"
    THEN /\ previous' = checkpoint.counters
         /\ stateLoaded' = TRUE
         /\ pc' = "read"
    ELSE /\ pc' = "drain"
         /\ UNCHANGED <<previous, stateLoaded>>

-----------------------------------------------------------------------------
(* The process and its main loop                                           *)

Start ==
    /\ pc = "down"
    /\ pc' = "main"
    /\ UNCHANGED <<spoolVars, ingestVars, callVars, appVars, checkpoint, counter, faults, historyVars>>

\* Whatever is in memory is gone.
Crash ==
    /\ pc # "down"
    /\ Fault
    /\ pc' = "down"
    /\ current' = NoCounter /\ caller' = "sample" /\ inHealth' = FALSE /\ attempt' = 0
    /\ previous' = NoCounter /\ stateLoaded' = FALSE /\ spoolPressured' = FALSE
    /\ IF phase = "idle" THEN UNCHANGED spoolVars ELSE Queue!Abort
    /\ UNCHANGED <<ingestVars, observedAt, records, checkpoint, counter, historyVars>>

Elapse ==
    /\ pc \in {"down", "main", "send"}
    /\ now < MaxTime
    /\ Queue!Elapse
    /\ UNCHANGED <<ingestVars, pc, callVars, appVars, checkpoint, counter, faults, historyVars>>

\* The ticker's channel holds one tick, so the loop may receive an old one.
Tick(t) ==
    /\ pc = "main"
    /\ now < MaxTime
    /\ t > observedAt
    /\ observedAt' = t
    /\ records' = 0
    /\ pc' = "load"
    /\ UNCHANGED <<spoolVars, ingestVars, current, caller, inHealth, attempt, appVars,
                   checkpoint, counter, faults, historyVars>>

\* Record with events, at the time of the last tick.
Record ==
    /\ pc = "main"
    /\ observedAt >= 0
    /\ now < MaxTime
    /\ records < MaxRecords
    /\ records' = records + 1
    /\ EnqueueCall(NewBatch("detail", observedAt, {}, {}), "record", FALSE)
    /\ UNCHANGED <<ingestVars, observedAt, current, attempt, spoolPressured,
                   checkpoint, counter, historyVars>>

\* Faulty variant: without events there is nothing to do.
RecordReturning ==
    /\ pc = "main"
    /\ UNCHANGED vars

\* Record without events only drains.
RecordNothing ==
    /\ pc = "main"
    /\ pc' = "drain"
    /\ caller' = "record"
    /\ inHealth' = FALSE
    /\ UNCHANGED <<spoolVars, ingestVars, observedAt, current, attempt, records, appVars,
                   checkpoint, counter, faults, historyVars>>

-----------------------------------------------------------------------------
(* recoverCounterState                                                     *)

LoadCheckpoint ==
    /\ pc = "load"
    /\ stateLoaded \/ ~checkpoint.found \/ checkpoint.pending = {}
    /\ previous' = IF ~stateLoaded /\ checkpoint.found THEN checkpoint.counters ELSE previous
    /\ stateLoaded' = TRUE
    /\ pc' = "read"
    /\ UNCHANGED <<spoolVars, ingestVars, callVars, spoolPressured, checkpoint, counter,
                   faults, historyVars>>

LoadFails ==
    /\ pc = "load"
    /\ ~stateLoaded
    /\ Fault
    /\ pc' = "main"
    /\ UNCHANGED <<spoolVars, ingestVars, callVars, appVars, checkpoint, counter, historyVars>>

\* Faulty variant: the recovered batch gets an identifier of its own.
RecoverRenamed ==
    /\ pc = "load"
    /\ ~stateLoaded
    /\ \E b \in checkpoint.pending :
          EnqueueCall([b EXCEPT !.id = <<"batch", observedAt>>], "recover", FALSE)
    /\ UNCHANGED <<ingestVars, observedAt, current, attempt, records, spoolPressured,
                   checkpoint, counter, historyVars>>

RecoverPending ==
    /\ pc = "load"
    /\ ~stateLoaded
    /\ \E b \in checkpoint.pending : EnqueueCall(b, "recover", FALSE)
    /\ UNCHANGED <<ingestVars, observedAt, current, attempt, records, spoolPressured,
                   checkpoint, counter, historyVars>>

ClearRecovered ==
    /\ pc = "recovered"
    /\ SaveThen(checkpoint.counters, {}, pc' = "health", pc' = "main")
    /\ UNCHANGED <<spoolVars, ingestVars, callVars, appVars, counter, historyVars>>

-----------------------------------------------------------------------------
(* Sample                                                                  *)

ReadFails ==
    /\ pc = "read"
    /\ Fault
    /\ pc' = "main"
    /\ UNCHANGED <<spoolVars, ingestVars, callVars, appVars, checkpoint, counter, historyVars>>

\* The first sample, or one without traffic: a checkpoint and nothing to queue.
ReadNothing(c) ==
    /\ pc = "read"
    /\ previous \in {NoCounter, c}
    /\ counter' = c
    /\ SaveThen(c, {},
          /\ pc' = "drain" /\ caller' = "sample" /\ previous' = c
          /\ established' = TRUE
          /\ baseline' = IF established THEN baseline ELSE c,
          pc' = "main" /\ UNCHANGED <<previous, caller, established, baseline>>)
    /\ UNCHANGED <<spoolVars, ingestVars, observedAt, current, inHealth, attempt, records,
                   stateLoaded, spoolPressured, dropped>>

\* Faulty variant: the checkpoint moves on without the batch.
ReadTrafficUnguarded(c) ==
    /\ pc = "read"
    /\ previous \notin {NoCounter, c}
    /\ counter' = c
    /\ current' = c
    /\ SaveThen(c, {}, pc' = "queue", pc' = "main")
    /\ UNCHANGED <<spoolVars, ingestVars, observedAt, caller, inHealth, attempt, records,
                   appVars, historyVars>>

\* The batch is in the checkpoint before it is in the spool.
ReadTraffic(c) ==
    /\ pc = "read"
    /\ previous \notin {NoCounter, c}
    /\ counter' = c
    /\ current' = c
    /\ SaveThen(c, {Delta(previous, c)}, pc' = "queue", pc' = "main")
    /\ UNCHANGED <<spoolVars, ingestVars, observedAt, caller, inHealth, attempt, records,
                   appVars, historyVars>>

QueueSample ==
    /\ pc = "queue"
    /\ EnqueueCall(Delta(previous, current), "sample", FALSE)
    /\ UNCHANGED <<ingestVars, observedAt, current, attempt, records, spoolPressured,
                   checkpoint, counter, historyVars>>

ClearPending ==
    /\ pc = "clear"
    /\ SaveThen(current, {},
          pc' = "health" /\ previous' = current /\ UNCHANGED stateLoaded,
          pc' = "main" /\ invalidateCounterState)
    /\ UNCHANGED <<spoolVars, ingestVars, callVars, spoolPressured, counter, historyVars>>

-----------------------------------------------------------------------------
(* Enqueue, by whoever called it, and enqueueSpoolHealth                   *)

EnqueueStep ==
    /\ pc = "enqueue"
    /\ phase # "done"
    /\ Queue!EnqueueStep
    /\ dropped' = dropped + (report'.dropped - report.dropped)
    /\ UNCHANGED <<ingestVars, pc, callVars, appVars, checkpoint, counter, faults,
                   established, baseline>>

EnqueueReturns ==
    /\ pc = "enqueue"
    /\ Queue!Return
    /\ IF inHealth
       THEN HealthDone
       ELSE /\ pc' = [recover |-> "recovered", sample |-> "clear", record |-> "health"][caller]
            /\ UNCHANGED <<previous, stateLoaded>>
    /\ UNCHANGED <<ingestVars, callVars, spoolPressured, checkpoint, counter, faults, historyVars>>

EnqueueFails ==
    /\ pc = "enqueue"
    /\ Fault
    /\ Queue!Abort
    /\ QueueError(caller, inHealth)
    /\ UNCHANGED <<ingestVars, callVars, spoolPressured, checkpoint, counter, historyVars>>

\* The events of a DropReport.
HealthEvents ==
    {e \in {[code |-> "data_gap", dropped |-> report.dropped]} : report.dropped > 0}
      \cup
    {e \in {[code |-> "buffer_pressure", dropped |-> 0]} : report.pressured /\ ~spoolPressured}
      \cup
    {e \in {[code |-> "buffer_recovered", dropped |-> 0]} : ~report.pressured /\ spoolPressured}

\* The report of the health batch's own Enqueue is discarded.
enqueueSpoolHealth ==
    /\ pc = "health"
    /\ spoolPressured' = report.pressured
    /\ \/ /\ HealthEvents = {}
          /\ HealthDone
          /\ UNCHANGED <<spoolVars, caller, inHealth, faults>>
       \/ /\ HealthEvents # {}
          /\ EnqueueCall(NewBatch("health-batch", observedAt, {}, HealthEvents), caller, TRUE)
    /\ UNCHANGED <<ingestVars, observedAt, current, attempt, records, checkpoint, counter, historyVars>>

-----------------------------------------------------------------------------
(* drain and Sender.Send                                                   *)

Drain ==
    /\ pc = "drain"
    /\ pc' = IF files = {} THEN "main" ELSE "send"
    /\ attempt' = IF files = {} THEN 0 ELSE 1
    /\ UNCHANGED <<spoolVars, ingestVars, observedAt, current, caller, inHealth, records,
                   appVars, checkpoint, counter, faults, historyVars>>

\* Peek cannot list the directory or read its first file.
PeekFails ==
    /\ pc = "drain"
    /\ Fault
    /\ pc' = "main"
    /\ UNCHANGED <<spoolVars, ingestVars, callVars, appVars, checkpoint, counter, historyVars>>

\* Faulty variant: one request too many.
RetryOnceMore ==
    IF attempt <= Attempts THEN attempt' = attempt + 1 /\ pc' = "send"
                           ELSE attempt' = 0 /\ pc' = "main"

\* Another request after the backoff, or an error.
Retry ==
    IF attempt < Attempts THEN attempt' = attempt + 1 /\ pc' = "send"
                          ELSE attempt' = 0 /\ pc' = "main"

Request(Outcome(_)) ==
    /\ pc = "send"
    /\ \E f \in files : Queue!IsOldest(f, files) /\ Outcome(f.batch)
    /\ UNCHANGED <<spoolVars, observedAt, current, caller, inHealth, records, appVars,
                   checkpoint, counter, faults, historyVars>>

\* 202 accepted or 200 duplicate.
Answered(b) == InsertBatch(self, b) /\ attempt' = 0 /\ pc' = "ack"
\* Stored, but the answer does not arrive in time.
AnswerLost(b) == InsertBatch(self, b) /\ Retry
\* Not reached, or 5xx.
NotStored(b) == UNCHANGED ingestVars /\ Retry
\* 4xx, or the context ends the backoff.
Refused(b) == UNCHANGED ingestVars /\ attempt' = 0 /\ pc' = "main"

SendAnswered == Request(Answered)
SendAnswerLost == Request(AnswerLost)
SendNotStored == Request(NotStored)
SendRefused == Request(Refused)

\* An error of Ack comes from the removal or from the sync after it.
Ack ==
    /\ pc = "ack"
    /\ \/ Queue!Ack /\ pc' = "drain" /\ UNCHANGED faults
       \/ (Queue!Ack \/ UNCHANGED spoolVars) /\ pc' = "main" /\ Fault
    /\ UNCHANGED <<ingestVars, callVars, appVars, checkpoint, counter, historyVars>>

-----------------------------------------------------------------------------

\* What the agent does by itself.
AgentStep ==
    \/ Start \/ RecordNothing
    \/ LoadCheckpoint \/ RecoverPending \/ ClearRecovered
    \/ \E c \in counter..TopUnit : ReadNothing(c) \/ ReadTraffic(c)
    \/ QueueSample \/ ClearPending \/ EnqueueStep \/ EnqueueReturns \/ enqueueSpoolHealth
    \/ Drain \/ Ack

Next ==
    \/ AgentStep
    \/ Elapse \/ Record
    \/ \E t \in (now - MaxLag)..now : t >= 0 /\ Tick(t)
    \/ Crash \/ LoadFails \/ ReadFails \/ EnqueueFails \/ PeekFails
    \/ SendAnswered \/ SendAnswerLost \/ SendNotStored \/ SendRefused

Spec == Init /\ [][Next]_vars

\* The process is restarted and its loop keeps running; a server that is
\* tried again and again answers in the end.
Fairness == WF_vars(AgentStep) /\ SF_vars(SendAnswered)

FairSpec == Spec /\ Fairness

-----------------------------------------------------------------------------

TypeOK ==
    /\ pc \in {"down", "main", "load", "recovered", "read", "queue", "clear", "enqueue",
               "health", "drain", "send", "ack"}
    /\ observedAt \in Int /\ current \in Int /\ previous \in Int /\ counter \in Int
    /\ caller \in {"recover", "sample", "record"}
    /\ inHealth \in BOOLEAN /\ stateLoaded \in BOOLEAN /\ spoolPressured \in BOOLEAN
    /\ attempt \in 0..Attempts
    /\ checkpoint \in [found : BOOLEAN, counters : Int, pending : SUBSET Batch]
    /\ trafficMinute \in [Node -> Bytes]
    /\ faults \in 0..MaxFaults

Waiting(u) ==
    \/ \E b \in checkpoint.pending : Carries(b, u)
    \/ \E f \in files : Carries(f.batch, u)

\* Every unit between the first checkpoint and the present one is waiting in
\* the checkpoint or the spool, or has been acknowledged: no crash or error
\* between reading the counters and queueing them loses traffic
\* (app.go:54-146, state.go:52-99).
NothingLost ==
    \A u \in Unit :
        established /\ baseline < u /\ u <= checkpoint.counters => Waiting(u) \/ u \in acked

\* The server has stored a summary that compaction made.
SummaryStored == \E d \in interfaceDeltas : d[1] = "minute-interface"

\* Unless a summary has been stored, traffic the agent forgets is in the
\* server's totals, and in them once, however often it was queued, recovered
\* and sent (app.go:54-146, 222-236; sender.go:63-125; postgres.go:60-90).
SamplesExact ==
    ~SummaryStored =>
        \A u \in Unit : /\ u \in acked => trafficMinute[self][u] >= 1
                        /\ trafficMinute[self][u] <= 1

\* No unit is counted twice, however often it is queued, recovered and sent.
CountedOnce == \A u \in Unit : trafficMinute[self][u] <= 1

\* The batches that the events E report as dropped, one by one.
GapUnits(E) == UNION {{e} \X (1..e.dropped) : e \in E}
ReportedDrops == Cardinality(GapUnits(collectorHealth))

\* A gap the server knows of is a gap: restarts, retries and recovered batches
\* never report an eviction twice (app.go:184-220, event.go:209-218).
NoPhantomGap == ReportedDrops <= dropped

\* The agent uses the spool the way module Spool assumes: new batches with
\* identifiers and traffic of their own, or batches queued before.
SpoolSpec == Queue!Spec

\* What has been queued is acknowledged in the end.
Delivered ==
    \A u \in Unit : (\E b \in submitted : Carries(b, u)) ~> u \in acked

=============================================================================

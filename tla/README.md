# FlowLens: specifications and proofs

FlowLens measures the traffic of a set of hosts. An **agent** on each host samples
interface counters, traces sockets, reads proxy logs and captures names, queues
what it saw in batches on disk and posts them to a **server**. The server stores
them in PostgreSQL, attributes and rolls them up, raises alerts and sends webhooks.
This directory holds TLA+ specifications of that system, translated from the
source, TLC models that check them on small instances and TLAPS proofs.

## The parts of the system and how they interact

| Part | Source | Module |
|---|---|---|
| Batches and events | `internal/model` | `Batches` |
| Spool: on-disk queue, compaction, eviction | `internal/agent/spool` | `Spool`, `SpoolInv`, `SpoolProofs` |
| Application: sampling, checkpoint, recovery, health, drain | `internal/agent/app`, `interfacecounter/state.go` | `AgentDelivery`, `DeliveryInv`, `DeliveryProofs` |
| Sender: retries | `internal/agent/sender` | `AgentDelivery` |
| Agent main loop | `cmd/flowlens-agent` | `AgentDelivery`, `Tracer`, `Tailer` |
| Socket tracer: probes, ring buffer, goroutine, connection totals | `internal/agent/ebpf`, `ownership/collector.go` | `Tracer`, `TracerProofs` |
| Proxy-log tailer | `internal/agent/npm` | `Tailer`, `TailerProofs` |
| Ingest and batch store | `internal/server/ingest`, `store`, `migrations/001` | `Ingest`, `ManyAgents`, `DeliveryProofs` |
| Scheduler: periodic jobs of several servers | `internal/server/scheduler`, `cmd/flowlens-server` | `Scheduler`, `SchedulerProofs` |
| Webhook outbox: queue, claims, retries, settings | `internal/server/webhook`, `cmd/flowlens-server` | `Webhook`, `Outbox`, `WebhookProofs` |
| Alert evaluation, editing of rules | `internal/server/alerts`, `operations` | `Alerts`, `AlertsProofs` |
| Rollups and retention | `internal/server/{rollup,retention}`, `operations` | `Rollups`, `RollupsProofs` |

The path of a byte: the kernel's counter is read by `App.Sample`; the difference to
the last checkpoint becomes a batch; the batch goes into the checkpoint, then into
the spool, then the checkpoint is cleared; `drain` posts the oldest file of the
spool until one fails; the server inserts the batch in one transaction guarded by
`(node_id, batch_id)` and each interface event guarded by `(event_id, observed_at)`;
the file is removed when the server has answered `accepted` or `duplicate`. While
the server is away, samples older than the age limit are compacted into summaries
of a minute and other details are evicted. Beside it, the probes and the tailer feed
the main loop with connections and requests that go the same way as details.

On the server, jobs under leases (`Scheduler`) build totals of hours and days from the
stored minutes, delete what is old (`Rollups`) and evaluate alert rules (`Alerts`);
an alert that opens or gets worse queues a delivery, which a dispatcher posts
(`Webhook`).

## Modules

**`Batches`**. A batch is its identifier, its interface traffic, the identifiers
of the batches compacted into it and its spool health events. The identifier is a
pair (producer, time): the code hashes the node and formats the time, and one agent
has one node, so the pair tells apart exactly what the string does. Traffic is
counted in *units*, `bytes[u]` being how often unit `u` is contained, so that losing
one batch and doubling another cannot cancel out.

**`Spool`**. `files` is the directory. `Enqueue` is `Publish` (up to the rename),
then one step for each file `compactExpiredInterfaces` looks at (`Scan`), each
summary it writes (`WriteSummary`), each original it removes (`RemoveCompacted`)
and each file `prune` evicts (`Evict`), and `Return`. `Abort` ends the call at any
of these points: an I/O error or the end of the process. `Ack` removes the first
file. A health batch holds one event or two, as many as
`enqueueSpoolHealth` can make of a report. The histories `submitted` and `acked` are
not in the code.
The size limit counts files instead of bytes. The clock moves one instant with each
`Enqueue`, because two calls never get the same nanosecond, and stands still during
a call. A sample's events all have its time, so it falls into one minute. Files that
cannot be decoded, a clock set back and saturation at 2^63 are left out.

**`Ingest`, `ManyAgents`**. `InsertBatch` is one action: it is one transaction.
`traffic_minute` is summed over minutes. In `ManyAgents` several nodes deliver a
fixed set of batches in any order and any number of times. `SentAssumption` says of the
set what agents guarantee: a sample has its identifier and, among the samples, its traffic
to itself, and summaries of different minutes share none. A summary may carry what samples
have carried, and several versions of a summary, or several reports of one tick, may have
one identifier; so what compaction, lost answers and restarts can make an agent send is
among what the server is fed here.

**`AgentDelivery`** composes the agent with `Spool` (as the instance `Queue`, whose
variables it shares) and `Ingest`. `pc` is the place in the single goroutine:

| `pc` | code |
|---|---|
| `main` | the select of `run`; `Sample` and `Record` are called from here |
| `load`, `recovered` | `recoverCounterState` before and after its `Enqueue` |
| `read`, `queue`, `clear` | `Sample`: read and save pending, `Enqueue`, save cleared |
| `enqueue` | inside `Spool.Enqueue`, called by `caller` (`inHealth`: from `enqueueSpoolHealth`) |
| `health` | `enqueueSpoolHealth` |
| `drain`, `send`, `ack` | `drain`: `Peek`, the requests of `Send`, `Ack` |
| `down` | no process |

Any disk operation may fail (`Save` before or after its rename, `Ack` before or after
its removal, `Enqueue` before publishing or between any two of its steps), the process
may be killed anywhere (`Crash`), and a request may be answered, stored with the answer
lost, not stored, or refused. Not in the model: several interfaces, counters that
restart, a checkpoint of another node, batches of more than 5000 events.

**`Scheduler`**. The table `job_leases` (`rows`, `owner`, `left`, `due`) and, for each
server, the place in `RunDue`: `idle`, `insert` and `claim` (the two statements of
`Claim`), `run`, `finish`, `down`. The heartbeat runs beside the job, so its steps
interleave with it. Times are distances from the present, which makes the state space
finite without stopping the clock. A statement uses a clock value read up to `MaxDelay`
earlier, may fail, and may be executed with only its answer lost. `punctual` is a history:
no server has missed more heartbeats in a row than the lease tolerates. The servers'
clocks agree. A heartbeat still under way when `RunDue` returns is left out: its
`UPDATE` asks for the owner, which `Finish` has cleared, and when `Finish` has failed it
prolongs the lease of the same server once more.

**`Webhook`**. The table `webhook_deliveries` (`status`, `attempt`, `owner`, `left`,
`due`), the switch of `webhook_settings`, and for each dispatcher the place in `RunOne`:
`idle`, `claim` (settings read), `request` (claimed, posting), `record` (answered). The
outcome of a request is chosen when it is recorded. Times are as in `Scheduler`; a worker
may hold a delivery for up to `MaxHold`, longer than its lease. `SaveSettings` may come
between any two steps and cancels the tests. Left out: the endpoint, its validation, the
secret and the signature; which of several due rows is taken first; the removal of
finished rows by the retention after months.

**`Outbox`** is what `Webhook` promises to those who queue deliveries, with no dispatcher,
lease, clock or crash: a delivery is open until it is delivered, refused, exhausted or
cancelled, once and for all; a failed attempt counts once, against the number there is now;
only tests are cancelled. `Webhook` implements it as the instance `Promised`: a leased row
is open, and a terminal one is refused or exhausted (`StateOf`).

**`Tracer`** follows a socket call from the kernel to a recorded connection.

| action | code |
|---|---|
| `Enter`, `Leave` | `tcp_sendmsg`, `udp_sendmsg`, `udp_recvmsg` with their entry and return probes (`save_send`, `emit_send`, `trace_udp_recvmsg*`) |
| `tcp_cleanup_rbuf` | `trace_tcp_cleanup_rbuf`, `emit` |
| `Attach`, `AttachFails`, `Close` | `NewTracer` link by link, `Close` |
| `RunRead`, `RunSend`, `RunReturns` | the goroutine of `Run` |
| `Observe`, `Tick`, `Done`, `TracerStopped` | the cases of the select in `run`, with `Observe` and `Drain` of the collector |

An event is a pair of calls: `from`, whose entry filled it, and `call`, whose return gave
it its bytes. So an event that describes the wrong connection is visible. `saved` are the
two maps; an LRU map that is full loses any one entry. The kernel may skip a probe
(`misses`), and a return probe runs only for a call that found it attached on entry; both
are modelled from how kprobes and kretprobes behave, as is `Connect`. A call that has
come to its end is `Over`, whatever the end. Of the checks of `Observe` on an event, those
on its addresses and ports are one: whether the socket was connected (`NoPeer`). `Close` is one step, because nobody reads
what the probes submit once the reader is closed. The owner of a thread is a constant
(`Process`). What the kernel passes to `tcp_cleanup_rbuf` is taken as the bytes of that
read.

**`Tailer`** is `Poll` on one log, with every look at the file system a step: `load` and
`Glob` (`Begin`), `Stat`, `findInode`, the read of the renamed log (`ReadRotated`), the
read of the log (`Read`), `Persist`; then the tick's `Record`. Between any two of them the
proxy writes and log rotation renames, creates, reopens or truncates. A line is its
number; offsets count lines; `Malformed` are the lines `ParseLine` refuses. An inode is
used again once no name leads to it. A failing path of another log is `PersistFails`:
the cursor of this one has moved and the result is discarded. Crashes are of the
process, not of the machine. `gen`, `recorded`, `doubled`, `late`, `reset`, `raced`,
`outcome` and `untold` are histories.

**`Alerts`**. Each server is in a run of `alert-evaluation` or `idle`; a run has read the
rules at its start and goes through rules and nodes. `Reconcile` is one step: it is one
transaction that locks the row of the rule first, so that another run sees all of it or
nothing. Whether the values of an observation exceed a rule's is a condition that changes
at any time. `told` is a history: the severity in the delivery queued last for an alert.

**`Rollups`**. Times are distances from the present here too, in midnights and hours; a day
has `DayLen` hours. The minute tables and the details, which are deleted by the same rule,
are one table of units. `RollDay` and `RollHour` are `RollupRange` over the ranges the
jobs pass; `CleanMinutes` and `CleanRollups` are the two halves of `Cleanup`, and
`CleanupFails` leaves it between any two batches, with any of the rows that were to go
deleted (`HourRow`, `DayRow`: an hour's or a day's row goes as a whole). Months are days. An hour in which all
jobs fail is `Elapse` without them; `skipped` notes a day without a rollup.

The `MC` modules give the constants values.
Definitions commented "Faulty variant" are plausible mistakes in the code, each
breaking a property; no specification uses them.

## Runs

| Run | Checks | Shows |
|---|---|---|
| `spool` | `TypeOK`, `Durable`, `SummaryExact`, `LimitsEnforced` | Interrupted anywhere, the spool keeps every unit until acknowledged, a summary holds each listed batch once, and a call that returns has enforced the limits. |
| `agent_faults` | `TypeOK`, `NothingLost`, `SamplesExact`, `NoPhantomGap` | With a crash or a failing write anywhere, any number of lost answers, compaction and evicted details: the agent loses nothing, units are counted exactly once until a summary is stored, and no eviction is reported twice. |
| `agent_outage` | `SpoolSpec`, `Delivered` | With compaction and two faults the agent uses the spool as `Spool` assumes, and what is queued is acknowledged in the end. |
| `many_agents` | `AnsweredCounted`, `CountedAtMost`, `HealthStored` | Batches of two nodes, repeated and reordered, with samples that are also in a summary, a summary that has grown and two reports of one tick: of what was answered under one identifier one version is counted or stored whole; traffic is counted at most once as a sample and once in a summary. |
| `tracer` | `TypeOK`, `SnapshotOfItsCall`, `SavedUntilReturn`, `SubmittedOnce`, `TotalsExact`, `Settles` | Two threads, probes attached and missed, all buffers at their limits: an event describes its own call; what was submitted is in one place until recorded or given up, which it is in the end; totals are those of their calls. |
| `tailer` | `TypeOK`, `AtMostOnce`, `HealthTold`, `LosesOnly`, `Found` | A line is recorded at most once unless a file was exchanged during a poll; the ways to lose one are those `LosesOnly` lists; every other line is recorded in the end; the reported health is that of the last poll. |
| `scheduler` | `TypeOK`, `OneRunner`, `LeaseRespected`, `JobsRun` | Two servers, late and failing statements, lost answers, a crash: a job runs on one server at a time while `punctual`; late or not, a lease is taken only when expired and released only by its owner; every job runs again and again. |
| `webhook` | `TypeOK`, `OneSender`, `GaveUpRightly`, `OutboxSpec`, `Settled` | Two dispatchers, an alert and a test, overrun leases, a crash, settings saved meanwhile: two post one delivery at once only when one has overrun its lease; a delivery is given up after all attempts or a final failure; the dispatchers together behave like `Outbox`, so a late report never changes a finished delivery; every one finishes. |
| `alerts` | `Told`, `EditsStay`, `Converges` | Two overlapping evaluations with rules of different age, a failing run: every open alert was announced at its severity; an edit made while nothing runs stays; alerts settle on the conditions. |
| `rollups` | `TypeOK`, `Counted`, `HoursKept`, `Cleaned` | With three days of detail and a rollup every day, traffic is in the minutes or in its day's total until it is too old; hours go only into days; rolled-up minutes are deleted in the end if the aggregates outlive the detail. |

`SpoolSpec` is `Queue!Spec`: the composed agent implements the spool specification,
so what is proved of `Spool` holds of the spool inside the agent. `AgentUsesSpool`
proves the same for all constants. `OutboxSpec` is `Promised!Spec`, and
`WebhookImplementsOutbox` proves it for all constants.

Runs that end in a counterexample record where the code does something other than
its tests or documents say:

| Run | Property | What happens |
|---|---|---|
| `lost_answer_compaction` | `CountedOnce` | A stored sample whose answer was lost is compacted; the summary has new identifiers and is added again. |
| `same_interface_name` | `AnsweredCounted` | Summaries of two nodes for one minute and equal interface names have the same event key; the second is dropped silently. |

### Known limits of the code

Met while modelling, and excluded by a condition of a property or a theorem:

- A summary that was stored and then grows keeps its batch identifier, so the server
  takes it for a duplicate and the added traffic is in no total (`spool.go:265`).
  `SamplesExact` stops at the first stored summary, and `AnsweredCounted` promises one
  version of a summary, not the last.
- Batches evicted by the `Enqueue` of a health batch are reported to nobody
  (`app.go:216`), and several health batches of one tick have one identifier
  (`app.go:211`): `NoPhantomGap` is one direction only, and `HealthStored` promises one
  of those reports.
- A rule edited during an evaluation is written back as the evaluation had read it
  (`alerts/repository.go:26`): the exception of `EditsStay`.
- With one or two days of detail, rebuilding the day before yesterday from the minutes
  that are left undoes its total (`rollup/service.go:34`); traffic that arrives after
  the second midnight is in no total and deleted with its day; with aggregates kept no
  longer than the detail the day's row goes first, and minutes without one are never
  deleted (`retention/service.go:65`): the conditions of `Counted` and `Cleaned`.
- When the context ends, the select may take the tracer's return instead and the last
  interval is not recorded (`main.go:162`); any error of the tracer ends the agent.
- A call whose return probe was skipped leaves its entry to the thread's next call
  whose entry is skipped: the exception of `SnapshotOfItsCall`.
- The first health event after an error is not repeated when it cannot be recorded
  (`main.go:186`): `untold` in `HealthTold`.

### Bounds

`spool`: two units, a minute of three instants, age limit 1, two files, clock to 5.
That is enough for a summary to be written, grown, acknowledged and written again,
for a batch to be queued again after its compaction, and for two minutes to be
compacted in one call. Units are symmetric. The agent runs use two units (the least
for two samples), an age limit of 1 and two files, so that compaction and eviction
happen, and a clock to 5; `MaxFaults` bounds crashes and I/O errors, never requests.
`LastInstant` lets a call that started in time finish. `many_agents`: eight batches of
each node, three units, so that a unit is in a sample only, in both versions of the summary
only, or in a sample and one version.

`scheduler`: a lease of 6 with a heartbeat every 2 and statements one late is `punctual`
until the first heartbeat is missed, and two missed in a row let the lease lapse under a
running job, so both sides of `punctual` are reached. `webhook`: a lease of 0 and a hold
of 1 is the least at which a lease is overrun; two attempts are the least with a retry;
a `Retry-After` of 2 exceeds the delay of 1.

`tracer`: two threads of one process, a TCP, a UDP and an unsupported socket, two calls,
one missed probe, and room for one everywhere, so that eviction, a full ring, a full
channel and a full table of connections all happen. A call moves one or two bytes and
totals stop at two, so that two calls are added both below that limit and past it. The proofs cover any number of
calls. `tailer`: three inodes, the least with which one is used again while the renamed
log is still there, two lines, one of them malformed, two rotations or truncations and
one fault. `alerts`: two servers, one rule with two severities on two nodes, one edit,
two changes of conditions, one failing run. `rollups`: two units of one node, days of two
hours, ages up to five days; settings on both sides of each condition.

Deadlock checking is off where the clock's bound ends a behaviour.

### Fairness

`agent_outage` assumes weak fairness of the agent's own steps: the service manager
restarts a process that failed (`deploy/flowlens-agent.service`, `Restart=on-failure`) and the loop calls `Record` and thus
`drain` on every tick. It assumes strong fairness of `SendAnswered`: a server that is
asked again and again answers one request in the end. Without the latter the code
promises nothing; a batch the server refuses for ever blocks the queue for ever.

`scheduler` assumes that time passes, that every server keeps looping (its ticker), that a
job returns, and strong fairness of the two statements of `Claim`: a database asked again
and again executes one. `webhook` assumes the same of `Claim`, and strong fairness of
posting and recording while the lease is held: the client gives a request ten seconds
and the lease is two minutes, so a worker does not overrun it every time. A crash is
never obliged to happen, and a failed statement never ends a loop.

`tracer`: the goroutines run, the ticker ticks and a process that stops gets to its end;
nobody has to make a call or start the agent. `tailer`: the ticker ticks, and a log that
was renamed is replaced; the bound on faults is why reading does not fail for ever.
`alerts`: each server's job runs again and again, and a run ends. `rollups`: time passes,
the retention job runs every hour and does not fail every time. No fairness is assumed of
`RollDay`: minutes of a day without a total may stay.

## Proofs

`SpoolProofs` proves of `Spool`, for every set of units, limit, minute length and
clock bound (`SpoolAssumption`: positive limits and lengths, which `New` demands):
`SpoolTypeOK`, `SpoolDurable`, `SpoolSummaryExact`, `SpoolLimitsEnforced`, all from
`SpoolInvariant`, `Spec => []IInv`.

`Durable` is not inductive: when an original is removed one must know that its
traffic is in a file that stays. `SpoolInv` adds: submitted batches have distinct
identifiers, no traffic in common and at most one of a unit (`SubmittedInv`); files are
submitted batches or exact summaries, and one minute has one summary file (`FilesInv`);
the summaries in memory are exact (`SummariesInv`); and per phase, a file to be removed
is covered by a summary in memory while scanning (`ScanInv`), in memory or already on
disk while writing (`WriteInv`), on disk while removing (`RemoveInv`); a scanned
directory has no expired sample left (`EvictInv`). `Exact` is the notion they share:
a summary holds what the submitted batches it lists hold, once. There is one lemma per
action and one for `summaryOf` and `mergeInterface` each.

`SchedulerProofs` proves of `Scheduler`, for any number of servers and jobs and any lease,
delay and bound (`SchedulerAssumption`): `SchedulerTypeOK`, `SchedulerInvariant`,
`SchedulerOneRunner` and, without the condition `punctual`, `SchedulerLeaseRespected`.
Mutual exclusion is not inductive because the table and the servers' clocks drift apart.
`IInv` says why it holds: whoever holds a job is its owner in the table, and the lease has
at least `leaseDuration - MaxDelay - missed * HeartbeatInterval - beat` left
(`LeaseHeld`). With `beat` at most `HeartbeatInterval + MaxDelay`, `Timely` makes that
positive, so no other server finds the job free. `MaxDelay` is an assumption on the
environment: the context of `Claim` has no timeout of its own.

`WebhookProofs` proves of `Webhook`, for any number of dispatchers and deliveries, any
lease, number of attempts and delays (`WebhookAssumption`): `WebhookTypeOK`,
`WebhookInvariant`, `WebhookOneSender`, `WebhookGaveUpRightly`, `WebhookImplementsOutbox`.
Here workers may overrun their leases and nothing is assumed of it. `OneSender` is
strengthened to all holders (`OneHolder`); a holder within its lease owns the row, whose
lease runs down with the holder's clock, or the row was cancelled; and an owner, late or not,
has read the count that is in the table (`Held`). The last is what makes giving up right
although the decision uses the count read at the claim. There is one lemma for what each
statement on the table does to a holder that did not issue it. The refinement goes step by
step: a claim is not seen (`ClaimUnseen`), a recorded failure is a step `Fail` of the outbox
because of `Held` (`FailPromised`), saving the settings is `CancelTests`, and a report
without the lease changes nothing (`PromiseStep`).

`DeliveryProofs` proves of `AgentDelivery`, for any number of units, limits, attempts,
faults, records in a tick and any bound of the clock (`AgentAssumption`: positive limits;
`HealthAssumption`: the events that `enqueueSpoolHealth` makes are among those of the model):
`AgentTypeOK`, `NoTrafficLost`, `AgentUsesSpool`, `SamplesCountedOnce` and `GapsAreReal`, all
from `AgentInvariant`. None of these properties is inductive, and the refinement depends on them:
that a batch is new to the spool follows from what the checkpoint holds. `DeliveryInv`
says, for every place at which the process can be killed:

- the counters in memory and in the checkpoint are behind the kernel's, and between reading
  and clearing them Sample holds what the checkpoint says (`CounterInv`);
- a queued batch is not later than the tick, carries nothing past the checkpoint, and, once
  the state is loaded, nothing past `previous` (`QueuedInv`): the next difference is new;
- the batch in the checkpoint is the only one, and is queued already or shares no
  identifier and no traffic with what is (`PendingInv`): recovering it repeats or adds;
- what the checkpoint has counted since the first one is queued or in its batch, and what
  `previous` has counted is queued (`CoveredInv`);
- the clock is at most as many instants past `MaxTime` as the calls of a tick have taken
  (`ClockInv`), and a report counts no more drops than details were queued (`DropInv`).

`SpoolKnown` is what this needs of the spool. It follows from the invariant of `SpoolProofs`,
which is used as the instance `SP`; `SameSpool` shows that its actions are those of `Queue`.
Each step of the agent therefore is shown to be a step of the spool before the spool's
invariant is used after it. For `SamplesCountedOnce`, `ServerInv` adds that a stored batch was
submitted, that the totals are those of the stored batches, and that the file `drain` is about
to remove has been stored. For `GapsAreReal`, `GapInv` counts the events stored and those
waiting in the spool together (`Told`), and adds what the last report counts and no event
tells yet (`Untold`): a file sent twice or queued again is the same event, and a compacted
one had none (`SummariesPlain`, proved of the spool). There is one lemma for each action, and one for what it means that
no batch is on its way (`ToQuiet`), that a batch is published (`OtherPublished`,
`PendingPublished`) and that recovery has returned (`LoadedData`).

`DeliveryProofs` also proves of `ManyAgents`, for any nodes, units and sets of batches
within `SentAssumption`: `EachAnsweredCounted` if event identifiers are distinct across
nodes (`EventsDistinct`, which `same_interface_name` shows to be needed), and without that
condition `NothingCountedAgain` and `EachReportStored`. The invariant (`GuardsKnow`) says
that the guard table holds exactly the identifiers that were answered and the event tables
nothing else; so a batch with a new identifier also finds its events new (`EventsFresh`).
The first two theorems together say that a unit which was answered in one batch only, under
an identifier nothing else was answered under, is in the totals exactly once.

`TracerProofs` proves of `Tracer`, for any finite set of threads, any sockets, limits,
numbers of calls and missed probes (`TracerAssumption`): `TypesKept`,
`EventsDescribeTheirCall`, `EntriesStay`, `InOnePlace` and `TotalsOfCalls`. The invariant `IInv` says that a thread's call is its
own and open (`ActiveOwn`); that what a map holds for a thread was saved by its open call
or by one whose return probe did not run (`SavedOwn`, `EvictedGone`); that no event in the
pipeline was filled from an entry that is still saved (`Filled`), so that none is submitted
twice; and that the places an event can be in are disjoint (`Accounted`, `Unique`, `Apart`,
`HeldOne`). There is one lemma for what each kind of step does to maps and pipeline. For
`TotalsOfCalls`, `TotalsInv` adds that submitted calls moved a natural number of bytes and
that the set of recorded events is finite.

`TotalsExact` and `NoPhantomGap` speak of a sum over a set that grows. The sum is written as
the number of elements of a set that has, for each member, as many pairs as it counts
(`BytesOf`, `GapUnits`). What one more member adds then follows from the theorems on finite
sets (`BytesAdded`, `AtMostMore`), without induction over the set.

`RollupsProofs` proves of `Rollups`, for any units, settings, length of the day and
lateness (`RollupsAssumption`): `TypeInvariant`, `NoUnitLost` and `HoursGoIntoDays`. The
invariant (`Sheltered`) says that a unit is in the minutes before its third midnight and
in its day's total from then on; the rebuild after the second midnight puts it there, and
afterwards its day is out of the range of `RollDay`.

`AlertsProofs` proves of `Alerts`, for any servers, rules, nodes, objects and severities
(`AlertsAssumption`): `ReceiverTold` and `QuietEditsStay`. For the second, the invariant
(`ReadAsWanted`) says that what a run under way has read of a rule is what the operator
wants of it, unless it was edited during a run.

`TailerProofs` proves of `Tailer`, for any inodes, lines, malformed lines, rotations and
faults (`TailerAssumption`, and `CursorAssumption`: no cursor is `None`): `TypeCorrect`,
`ServerKnowsHealth`, `RecordedOnce` and `LossesKnown`. `AtMostOnce` is not inductive: one
must know that no line is in two files (`Apart`), that what is recorded can be found neither
from the cursor saved nor from the one in memory (`Unrecorded`), that the cursor is saved,
past what a poll returns, before that is recorded (`Passed`), and where the poll under way
will read (`Underway`). `Once` holds these while no file was exchanged during a poll, and
`OnceInv` adds it to `AtMostOnce`. `LosesOnly` rests on `LossInv`: only files with a name
have contents (`Files`); a cursor is within the contents it was taken from (`Kept`) and the
one saved is not past the one in memory (`Behindhand`); a renamed log has been read to its
end before the new one is (`ReadWhole`); and what a poll has read can be read again from the
cursor saved as long as the log is neither renamed nor truncated (`Undisturbed`), which is
why a crash before `persist` loses nothing. The proof also covers what the run's two
rotations are too few for, such as an inode used again by the second rotation of one poll.

Only model-checked: liveness (`Delivered`, `Settles`, `Found`, `JobsRun`, `Settled`,
`Converges`, `Cleaned`), which needs `ENABLED`. Every invariant, action property and
refinement that a passing run checks is also proved.

## Not modelled

- Attribution and owners on the server: decisions about one row (address ranges, ports,
  validity of evidence) inside the transaction that `Ingest` models.
- Process lookup and container inventory: reads with a cache whose results name owners.
- Name capture: packet and TLS parsing is byte layout; its flow table is best effort.
- Counter parsing, several interfaces and counters that restart, for which
  `directionDelta` gives up an interval on purpose.
- Partitions: idempotent statements. Sessions and enrollment: single guarded statements
  and cryptography. Queries, overview, health, GeoIP: read-only. Routing and
  configuration: wiring. Dashboard and scripts: presentation and operator shell.
- `ebpf/vmlinux.h` is a generated header of kernel types without any behaviour; it is
  by far the largest file of the repository.

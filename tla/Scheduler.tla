----------------------------- MODULE Scheduler -----------------------------
(***************************************************************************)
(* The periodic jobs of the server, internal/server/scheduler: several     *)
(* server processes share the table job_leases, and each tries its jobs in *)
(* turn.                                                                   *)
(*                                                                         *)
(* Times are kept as distances from the present: left[j] is                *)
(* lease_expires_at - now, due[j] is next_run_at - now, ago[s] the time    *)
(* since server s last read its clock, beat[s] the time since the last tick*)
(* of its heartbeat.  A time in the past is only ever compared with a clock*)
(* value at most MaxDelay old, so the distances stop at -MaxDelay.  The    *)
(* clocks of the servers agree.                                            *)
(***************************************************************************)
EXTENDS Integers

CONSTANTS
    Server,          \* scheduler processes, by owner name
    Nobody,          \* lease_owner NULL
    JobCount,        \* len(jobs)
    leaseDuration,
    Interval,        \* Job.Interval, or the time to Job.NextRun
    MaxDelay,        \* bound on the time from reading the clock to the statement
    MaxMissed,       \* bound on heartbeats that fail one after the other
    MaxCrashes       \* bound on crashes

ASSUME SchedulerAssumption ==
    /\ Nobody \notin Server
    /\ JobCount \in Nat \ {0}
    /\ leaseDuration \in Nat \ {0}
    /\ Interval \in Nat \ {0}
    /\ MaxDelay \in Nat
    /\ MaxMissed \in Nat
    /\ MaxCrashes \in Nat

VARIABLES
    rows,      \* the jobs that have a row in job_leases
    owner,     \* lease_owner
    left,      \* lease_expires_at
    due,       \* next_run_at
    pc,        \* where RunDue of a server is; "down" when the server is
    job,       \* the job it is about
    ago,       \* age of "started" or "finished"
    beat,      \* time since the heartbeat's last tick
    missed,    \* heartbeats failed since the last that succeeded
    crashes,
    punctual   \* history: no server has missed more heartbeats than Timely allows

leases == <<rows, owner, left, due>>
vars == <<leases, pc, job, ago, beat, missed, crashes, punctual>>

-----------------------------------------------------------------------------

Job == 1..JobCount
Holding(s) == pc[s] \in {"run", "finish"}

HeartbeatInterval == leaseDuration \div 3

\* The lease outlasts the delays and m heartbeats that fail.
Timely(m) == 2 * MaxDelay + (m + 1) * HeartbeatInterval < leaseDuration

Past(t) == IF t > -MaxDelay THEN t - 1 ELSE t

\* next_run_at - finished: the interval, an earlier retry after an error, at
\* once when the job was cancelled.
NextRun == {Interval, 1, 0}

Init ==
    /\ rows = {}
    /\ owner = [j \in Job |-> Nobody]
    /\ left = [j \in Job |-> 0]
    /\ due = [j \in Job |-> 0]
    /\ pc = [s \in Server |-> "idle"]
    /\ job = [s \in Server |-> 1]
    /\ ago = [s \in Server |-> 0]
    /\ beat = [s \in Server |-> 0]
    /\ missed = [s \in Server |-> 0]
    /\ crashes = 0
    /\ punctual = Timely(0)

\* Faulty variant: the loop runs past the last job.
LeaveWithoutWrap(s) ==
    /\ pc' = [pc EXCEPT ![s] = "idle"]
    /\ job' = [job EXCEPT ![s] = @ + 1]
    /\ ago' = [ago EXCEPT ![s] = 0]
    /\ beat' = [beat EXCEPT ![s] = 0]
    /\ missed' = [missed EXCEPT ![s] = 0]

\* RunDue returns and the loop of Run goes on to the next job.
Leave(s) ==
    /\ pc' = [pc EXCEPT ![s] = "idle"]
    /\ job' = [job EXCEPT ![s] = IF @ = JobCount THEN 1 ELSE @ + 1]
    /\ ago' = [ago EXCEPT ![s] = 0]
    /\ beat' = [beat EXCEPT ![s] = 0]
    /\ missed' = [missed EXCEPT ![s] = 0]

-----------------------------------------------------------------------------

\* started := now()
RunDue(s) ==
    /\ pc[s] = "idle"
    /\ pc' = [pc EXCEPT ![s] = "insert"]
    /\ UNCHANGED <<leases, job, ago, beat, missed, crashes, punctual>>

\* The first statement of Claim: ON CONFLICT DO NOTHING.
WriteRow(s) ==
    /\ rows' = rows \cup {job[s]}
    /\ due' = IF job[s] \in rows THEN due ELSE [due EXCEPT ![job[s]] = -ago[s]]
    /\ UNCHANGED <<owner, left>>

InsertRow(s) ==
    /\ pc[s] = "insert"
    /\ WriteRow(s)
    /\ pc' = [pc EXCEPT ![s] = "claim"]
    /\ UNCHANGED <<job, ago, beat, missed, crashes, punctual>>

\* Faulty variant: the lease is not looked at.
FreeAnyway(j, age) == due[j] <= -age

\* Faulty variant: an expired lease still counts.
FreeWhenReleased(j, age) == due[j] <= -age /\ owner[j] = Nobody

Free(j, age) == due[j] <= -age /\ (owner[j] = Nobody \/ left[j] <= -age)

\* The second: the lease runs from "started", however long the statement took.
WriteLease(s) ==
    /\ Free(job[s], ago[s])
    /\ owner' = [owner EXCEPT ![job[s]] = s]
    /\ left' = [left EXCEPT ![job[s]] = leaseDuration - ago[s]]
    /\ UNCHANGED <<rows, due>>

Claim(s) ==
    /\ pc[s] = "claim"
    /\ WriteLease(s)
    /\ pc' = [pc EXCEPT ![s] = "run"]
    /\ ago' = [ago EXCEPT ![s] = 0]
    /\ UNCHANGED <<job, beat, missed, crashes, punctual>>

\* Not due, or leased: no row is updated.
NotClaimed(s) ==
    /\ pc[s] = "claim"
    /\ ~Free(job[s], ago[s])
    /\ Leave(s)
    /\ UNCHANGED <<leases, crashes, punctual>>

\* A statement returns an error: it was not executed, or only its answer was
\* lost.  In the second case nobody runs the job that is now leased.
ClaimFails(s) ==
    /\ \/ pc[s] \in {"insert", "claim"} /\ UNCHANGED leases
       \/ pc[s] = "insert" /\ WriteRow(s)
       \/ pc[s] = "claim" /\ WriteLease(s)
    /\ Leave(s)
    /\ UNCHANGED <<crashes, punctual>>

\* The heartbeat's statement is executed within MaxDelay of its tick; the clock
\* was read in between, a instants ago.
Heartbeat(s) ==
    /\ Holding(s)
    /\ beat[s] >= HeartbeatInterval
    /\ beat' = [beat EXCEPT ![s] = @ - HeartbeatInterval]
    /\ missed' = [missed EXCEPT ![s] = 0]
    /\ IF owner[job[s]] = s
       THEN \E a \in 0..(beat[s] - HeartbeatInterval) :
               left' = [left EXCEPT ![job[s]] = leaseDuration - a]
       ELSE left' = left
    /\ UNCHANGED <<rows, owner, due, pc, job, ago, crashes, punctual>>

HeartbeatFails(s) ==
    /\ Holding(s)
    /\ beat[s] >= HeartbeatInterval
    /\ missed[s] < MaxMissed
    /\ beat' = [beat EXCEPT ![s] = @ - HeartbeatInterval]
    /\ missed' = [missed EXCEPT ![s] = @ + 1]
    /\ punctual' = (punctual /\ Timely(missed[s] + 1))
    /\ UNCHANGED <<leases, pc, job, ago, crashes>>

\* Job.Run returns, finished := now()
JobReturns(s) ==
    /\ pc[s] = "run"
    /\ pc' = [pc EXCEPT ![s] = "finish"]
    /\ ago' = [ago EXCEPT ![s] = 0]
    /\ UNCHANGED <<leases, job, beat, missed, crashes, punctual>>

\* Faulty variant: whoever finishes releases the lease.
FinishAnyway(s) ==
    /\ pc[s] = "finish"
    /\ \E n \in NextRun :
          /\ owner' = [owner EXCEPT ![job[s]] = Nobody]
          /\ left' = [left EXCEPT ![job[s]] = 0]
          /\ due' = [due EXCEPT ![job[s]] = n - ago[s]]
    /\ Leave(s)
    /\ UNCHANGED <<rows, crashes, punctual>>

\* Finish by a server that has lost its lease changes nothing.
Finish(s) ==
    /\ pc[s] = "finish"
    /\ IF owner[job[s]] = s
       THEN \E n \in NextRun :
               /\ owner' = [owner EXCEPT ![job[s]] = Nobody]
               /\ left' = [left EXCEPT ![job[s]] = 0]
               /\ due' = [due EXCEPT ![job[s]] = n - ago[s]]
       ELSE UNCHANGED <<owner, left, due>>
    /\ Leave(s)
    /\ UNCHANGED <<rows, crashes, punctual>>

\* The statement of Finish fails or times out: the lease is left to expire.
FinishFails(s) ==
    /\ pc[s] = "finish"
    /\ Leave(s)
    /\ UNCHANGED <<leases, crashes, punctual>>

Crash(s) ==
    /\ pc[s] # "down"
    /\ crashes < MaxCrashes
    /\ crashes' = crashes + 1
    /\ pc' = [pc EXCEPT ![s] = "down"]
    /\ job' = [job EXCEPT ![s] = 1]
    /\ ago' = [ago EXCEPT ![s] = 0]
    /\ beat' = [beat EXCEPT ![s] = 0]
    /\ missed' = [missed EXCEPT ![s] = 0]
    /\ UNCHANGED <<leases, punctual>>

Start(s) ==
    /\ pc[s] = "down"
    /\ pc' = [pc EXCEPT ![s] = "idle"]
    /\ UNCHANGED <<leases, job, ago, beat, missed, crashes, punctual>>

\* Time passes, but not past the moment a statement must have been executed.
Elapse ==
    /\ \A s \in Server :
          /\ pc[s] \in {"insert", "claim", "finish"} => ago[s] < MaxDelay
          /\ Holding(s) => beat[s] < HeartbeatInterval + MaxDelay
    /\ left' = [j \in Job |-> Past(left[j])]
    /\ due' = [j \in Job |-> Past(due[j])]
    /\ ago' = [s \in Server |-> IF pc[s] \in {"insert", "claim", "finish"}
                                THEN ago[s] + 1 ELSE ago[s]]
    /\ beat' = [s \in Server |-> IF Holding(s) THEN beat[s] + 1 ELSE beat[s]]
    /\ UNCHANGED <<rows, owner, pc, job, missed, crashes, punctual>>

-----------------------------------------------------------------------------

Step(s) ==
    \/ RunDue(s) \/ InsertRow(s) \/ Claim(s) \/ NotClaimed(s) \/ ClaimFails(s)
    \/ Heartbeat(s) \/ HeartbeatFails(s)
    \/ JobReturns(s) \/ Finish(s) \/ FinishFails(s) \/ Start(s)

Next == Elapse \/ \E s \in Server : Step(s) \/ Crash(s)

Spec == Init /\ [][Next]_vars

\* Every process keeps running, is restarted when it crashed, and its jobs
\* return; a statement tried again and again does not fail every time.
Fairness ==
    /\ WF_vars(Elapse)
    /\ \A s \in Server :
          /\ WF_vars(Step(s))
          /\ WF_vars(JobReturns(s))
          /\ \A j \in Job : /\ SF_vars(job[s] = j /\ InsertRow(s))
                            /\ SF_vars(job[s] = j /\ Claim(s))

FairSpec == Spec /\ Fairness

-----------------------------------------------------------------------------

TypeOK ==
    /\ rows \subseteq Job
    /\ owner \in [Job -> Server \cup {Nobody}]
    /\ left \in [Job -> Int]
    /\ due \in [Job -> Int]
    /\ pc \in [Server -> {"down", "idle", "insert", "claim", "run", "finish"}]
    /\ job \in [Server -> Job]
    /\ ago \in [Server -> 0..MaxDelay]
    /\ beat \in [Server -> 0..(HeartbeatInterval + MaxDelay)]
    /\ missed \in [Server -> 0..MaxMissed]
    /\ crashes \in 0..MaxCrashes
    /\ punctual \in BOOLEAN

\* As long as the lease outlasts the heartbeats that failed, no two servers run
\* the same job at the same time, although the lease is counted from a clock
\* read before the statement and statements are late (scheduler.go:35-44 and
\* 95-108, repository.go:20-31).
OneRunner ==
    punctual => \A s, t \in Server :
        pc[s] = "run" /\ pc[t] = "run" /\ job[s] = job[t] => s = t

\* Why: a server that holds a lease has it in the table, and for longer than
\* its heartbeat can keep silent (scheduler.go:95-108).
LeaseHeld(s) ==
    /\ owner[job[s]] = s
    /\ left[job[s]] >= leaseDuration - MaxDelay - missed[s] * HeartbeatInterval - beat[s]

IInv ==
    /\ TypeOK
    /\ punctual => \A s \in Server : Timely(missed[s]) /\ (Holding(s) => LeaseHeld(s))

\* A lease changes hands only when it has expired, and is released and the job
\* rescheduled only by its owner, whatever finishes late
\* (repository.go:20-24 and 38-42).
LeaseRespected ==
    [][\A j \in Job :
          /\ owner[j] \in Server /\ owner'[j] # owner[j] =>
                \/ left[j] <= 0
                \/ pc[owner[j]] = "finish" /\ job[owner[j]] = j
          /\ j \in rows /\ due'[j] > due[j] => owner[j] \in Server /\ owner'[j] = Nobody]_vars

\* Every job is run again and again: a lease left by a crash, a failed Finish
\* or a cancelled run never keeps the others from it for ever.
JobsRun == \A j \in Job : []<>(\E s \in Server : pc[s] = "run" /\ job[s] = j)

=============================================================================

-------------------------- MODULE SchedulerProofs --------------------------
(***************************************************************************)
(* Proof that no two servers run a job at the same time, for any number of *)
(* servers and jobs, as long as the lease outlasts the delays and the      *)
(* heartbeats that fail (punctual).                                        *)
(***************************************************************************)
EXTENDS Scheduler, TLAPS

\* A product grows with its first factor.
LEMMA TimesMonotonic ==
    ASSUME NEW a \in Nat, NEW b \in Nat, NEW c \in Nat, a <= b
    PROVE  /\ a * c \in Nat
           /\ a * c <= b * c
  BY Z3

\* One factor more is one summand more.
LEMMA TimesSuccessor ==
    ASSUME NEW a \in Nat, NEW c \in Nat
    PROVE  (a + 1) * c = a * c + c
  BY Z3

\* The heartbeat's interval is a number of instants.
LEMMA IntervalType == HeartbeatInterval \in Nat
  BY SchedulerAssumption, Z3 DEF HeartbeatInterval

\* A lease that is held has not expired, for any clock value read before.
LEMMA HeldNotExpired ==
    ASSUME punctual, IInv, NEW s \in Server, Holding(s)
    PROVE  left[job[s]] > 0
  <1> DEFINE H == HeartbeatInterval
  <1>1. /\ left[job[s]] >= leaseDuration - MaxDelay - missed[s] * H - beat[s]
        /\ left[job[s]] \in Int
    BY DEF IInv, TypeOK, LeaseHeld
  <1>2. beat[s] \in Nat /\ beat[s] <= H + MaxDelay /\ missed[s] \in Nat
    BY IntervalType, SchedulerAssumption DEF IInv, TypeOK
  <1>3. missed[s] * H \in Nat
    BY <1>2, IntervalType, TimesMonotonic
  <1>4. (missed[s] + 1) * H = missed[s] * H + H
    BY <1>2, IntervalType, TimesSuccessor
  <1>5. 2 * MaxDelay + (missed[s] * H + H) < leaseDuration
    BY <1>4 DEF IInv, Timely
  <1> QED
    BY <1>1, <1>2, <1>3, <1>5, IntervalType, SchedulerAssumption

-----------------------------------------------------------------------------
(* Initial states and type correctness                                     *)

\* Nobody runs anything at first.
LEMMA InitInv == Init => IInv
  <1> SUFFICES ASSUME Init PROVE IInv
    OBVIOUS
  <1>1. Timely(0) \in BOOLEAN
    BY SchedulerAssumption, IntervalType DEF Timely
  <1>2. TypeOK
    BY <1>1, SchedulerAssumption, IntervalType DEF Init, TypeOK, Job
  <1>3. ASSUME punctual, NEW s \in Server PROVE Timely(missed[s]) /\ ~Holding(s)
    BY <1>3 DEF Init, Holding
  <1> QED
    BY <1>2, <1>3 DEF IInv

\* The loop over the jobs stays within them.
LEMMA LeaveType ==
    ASSUME TypeOK, NEW s \in Server, Leave(s)
    PROVE  /\ pc' \in [Server -> {"down", "idle", "insert", "claim", "run", "finish"}]
           /\ job' \in [Server -> Job]
           /\ ago' \in [Server -> 0..MaxDelay]
           /\ beat' \in [Server -> 0..(HeartbeatInterval + MaxDelay)]
           /\ missed' \in [Server -> 0..MaxMissed]
           /\ ~Holding(s)'
           /\ \A t \in Server : Holding(t)' =>
                 /\ t # s /\ Holding(t)
                 /\ job'[t] = job[t] /\ beat'[t] = beat[t] /\ missed'[t] = missed[t]
  <1> USE SchedulerAssumption, IntervalType
  <1>1. job' \in [Server -> Job]
    <2>1. job[s] \in Job
      BY DEF TypeOK
    <2>2. (IF job[s] = JobCount THEN 1 ELSE job[s] + 1) \in Job
      BY <2>1 DEF Job
    <2> QED
      BY <2>2 DEF TypeOK, Leave
  <1>2. /\ pc' \in [Server -> {"down", "idle", "insert", "claim", "run", "finish"}]
        /\ ago' \in [Server -> 0..MaxDelay]
        /\ beat' \in [Server -> 0..(HeartbeatInterval + MaxDelay)]
        /\ missed' \in [Server -> 0..MaxMissed]
    BY DEF TypeOK, Leave
  <1>3. ~Holding(s)'
    BY DEF TypeOK, Leave, Holding
  <1>4. ASSUME NEW t \in Server, Holding(t)'
        PROVE  /\ t # s /\ Holding(t)
               /\ job'[t] = job[t] /\ beat'[t] = beat[t] /\ missed'[t] = missed[t]
    BY <1>4 DEF TypeOK, Leave, Holding
  <1> QED
    BY <1>1, <1>2, <1>3, <1>4

\* Every step keeps the types (scheduler.go:35-108).
LEMMA TypeStep == ASSUME TypeOK, [Next]_vars PROVE TypeOK'
  <1> USE SchedulerAssumption, IntervalType
  <1>1. ASSUME NEW s \in Server, RunDue(s) \/ JobReturns(s) \/ Start(s) PROVE TypeOK'
    BY <1>1 DEF TypeOK, RunDue, JobReturns, Start, leases
  <1>2. ASSUME NEW s \in Server, InsertRow(s) PROVE TypeOK'
    BY <1>2 DEF TypeOK, InsertRow, WriteRow
  <1>3. ASSUME NEW s \in Server, Claim(s) PROVE TypeOK'
    BY <1>3 DEF TypeOK, Claim, WriteLease
  <1>4. ASSUME NEW s \in Server, NotClaimed(s) \/ ClaimFails(s) \/ FinishFails(s) PROVE TypeOK'
    <2>1. Leave(s) /\ UNCHANGED <<crashes, punctual>>
      BY <1>4 DEF NotClaimed, ClaimFails, FinishFails
    <2>2. UNCHANGED leases \/ WriteRow(s) \/ WriteLease(s)
      BY <1>4 DEF NotClaimed, ClaimFails, FinishFails
    <2>3. /\ rows' \subseteq Job
          /\ owner' \in [Job -> Server \cup {Nobody}]
          /\ left' \in [Job -> Int]
          /\ due' \in [Job -> Int]
      BY <2>2 DEF TypeOK, leases, WriteRow, WriteLease
    <2> QED
      BY <2>1, <2>3, LeaveType DEF TypeOK
  <1>5. ASSUME NEW s \in Server, Heartbeat(s) PROVE TypeOK'
    <2>1. /\ beat[s] \in 0..(HeartbeatInterval + MaxDelay) /\ beat[s] >= HeartbeatInterval
          /\ beat[s] - HeartbeatInterval \in 0..(HeartbeatInterval + MaxDelay)
      BY <1>5 DEF TypeOK, Heartbeat
    <2>2. beat' \in [Server -> 0..(HeartbeatInterval + MaxDelay)]
      BY <1>5, <2>1 DEF TypeOK, Heartbeat
    <2>3. left' \in [Job -> Int]
      BY <1>5, <2>1 DEF TypeOK, Heartbeat
    <2>4. missed' \in [Server -> 0..MaxMissed]
      BY <1>5 DEF TypeOK, Heartbeat
    <2> QED
      BY <1>5, <2>2, <2>3, <2>4 DEF TypeOK, Heartbeat
  <1>6. ASSUME NEW s \in Server, HeartbeatFails(s) PROVE TypeOK'
    BY <1>6 DEF TypeOK, HeartbeatFails, leases
  <1>7. ASSUME NEW s \in Server, Finish(s) PROVE TypeOK'
    <2>1. /\ owner' \in [Job -> Server \cup {Nobody}]
          /\ left' \in [Job -> Int]
          /\ due' \in [Job -> Int]
      BY <1>7 DEF TypeOK, Finish, NextRun
    <2>2. Leave(s) /\ UNCHANGED <<rows, crashes, punctual>>
      BY <1>7 DEF Finish
    <2> QED
      BY <2>1, <2>2, LeaveType DEF TypeOK
  <1>8. ASSUME NEW s \in Server, Crash(s) PROVE TypeOK'
    <2>1. 1 \in Job
      BY DEF Job
    <2> QED
      BY <1>8, <2>1 DEF TypeOK, Crash, leases
  <1>9. CASE Elapse
    BY <1>9 DEF TypeOK, Elapse, Past, Holding
  <1>10. CASE UNCHANGED vars
    BY <1>10 DEF TypeOK, vars, leases
  <1> QED
    BY <1>1, <1>2, <1>3, <1>4, <1>5, <1>6, <1>7, <1>8, <1>9, <1>10 DEF Next, Step

-----------------------------------------------------------------------------
(* A lease that is held stays held                                         *)

\* What a step of s leaves alone: the lease of another server t.
LEMMA OtherHeld ==
    ASSUME punctual, IInv, NEW t \in Server, Holding(t),
           owner'[job[t]] = owner[job[t]], left'[job[t]] = left[job[t]],
           job'[t] = job[t], beat'[t] = beat[t], missed'[t] = missed[t]
    PROVE  LeaseHeld(t)'
  BY DEF IInv, LeaseHeld, HeartbeatInterval

\* A server that writes a lease takes no lease that is held, for Free asks that
\* it has expired (repository.go:20-23).
LEMMA WriteLeaseHeld ==
    ASSUME punctual, IInv, NEW s \in Server, WriteLease(s), NEW t \in Server, Holding(t)
    PROVE  owner'[job[t]] = owner[job[t]] /\ left'[job[t]] = left[job[t]]
  <1>1. left[job[t]] > 0 /\ owner[job[t]] \in Server
    BY HeldNotExpired DEF IInv, LeaseHeld
  <1>2. job[s] # job[t]
    BY <1>1, SchedulerAssumption DEF IInv, TypeOK, WriteLease, Free
  <1> QED
    BY <1>2 DEF IInv, TypeOK, WriteLease

\* Every step keeps the leases of those that hold one.
LEMMA LeaseStep ==
    ASSUME punctual, IInv, [Next]_vars, NEW t \in Server, Holding(t)'
    PROVE  LeaseHeld(t)'
  <1> USE SchedulerAssumption, IntervalType
  <1> TypeOK /\ TypeOK'
    BY TypeStep DEF IInv
  <1>1. ASSUME NEW s \in Server, RunDue(s) \/ JobReturns(s) \/ Start(s) PROVE LeaseHeld(t)'
    <2>1. Holding(t)
      BY <1>1 DEF TypeOK, RunDue, JobReturns, Start, Holding
    <2> QED
      BY <1>1, <2>1, OtherHeld DEF RunDue, JobReturns, Start, leases
  <1>2. ASSUME NEW s \in Server, InsertRow(s) PROVE LeaseHeld(t)'
    <2>1. Holding(t)
      BY <1>2 DEF TypeOK, InsertRow, Holding
    <2> QED
      BY <1>2, <2>1, OtherHeld DEF InsertRow, WriteRow
  <1>3. ASSUME NEW s \in Server, Claim(s) PROVE LeaseHeld(t)'
    <2>1. CASE t = s
      <3>1. /\ job'[s] = job[s] /\ owner'[job[s]] = s
            /\ left'[job[s]] = leaseDuration - ago[s]
            /\ missed'[s] = missed[s] /\ beat'[s] = beat[s]
        BY <1>3 DEF TypeOK, Claim, WriteLease
      <3>2. ago[s] \in Nat /\ ago[s] <= MaxDelay /\ beat[s] \in Nat /\ missed[s] \in Nat
        BY DEF TypeOK
      <3>3. missed[s] * HeartbeatInterval \in Nat
        BY <3>2, TimesMonotonic
      <3>4. left'[job[s]] >= leaseDuration - MaxDelay - missed[s] * HeartbeatInterval - beat[s]
        BY <3>1, <3>2, <3>3
      <3> QED
        BY <2>1, <3>1, <3>4 DEF LeaseHeld, HeartbeatInterval
    <2>2. CASE t # s
      <3>1. Holding(t)
        BY <1>3, <2>2 DEF TypeOK, Claim, Holding
      <3>2. WriteLease(s) /\ job' = job /\ beat' = beat /\ missed' = missed
        BY <1>3 DEF Claim
      <3> QED
        BY <3>1, <3>2, WriteLeaseHeld, OtherHeld
    <2> QED
      BY <2>1, <2>2
  <1>4. ASSUME NEW s \in Server, NotClaimed(s) \/ ClaimFails(s) \/ FinishFails(s) PROVE LeaseHeld(t)'
    <2>1. Leave(s)
      BY <1>4 DEF NotClaimed, ClaimFails, FinishFails
    <2>2. UNCHANGED leases \/ WriteRow(s) \/ WriteLease(s)
      BY <1>4 DEF NotClaimed, ClaimFails, FinishFails
    <2>3. /\ Holding(t)
          /\ job'[t] = job[t] /\ beat'[t] = beat[t] /\ missed'[t] = missed[t]
      BY <2>1, LeaveType
    <2>4. owner'[job[t]] = owner[job[t]] /\ left'[job[t]] = left[job[t]]
      BY <2>2, <2>3, WriteLeaseHeld DEF leases, WriteRow
    <2> QED
      BY <2>3, <2>4, OtherHeld
  <1>5. ASSUME NEW s \in Server, Heartbeat(s) PROVE LeaseHeld(t)'
    <2>1. Holding(t) /\ Holding(s) /\ job' = job /\ owner' = owner
      BY <1>5 DEF TypeOK, Heartbeat, Holding
    <2>2. owner[job[s]] = s /\ owner[job[t]] = t /\ job[s] \in Job /\ job[t] \in Job
      BY <2>1 DEF IInv, LeaseHeld, TypeOK
    <2>3. PICK a \in 0..(beat[s] - HeartbeatInterval) :
             left' = [left EXCEPT ![job[s]] = leaseDuration - a]
      BY <1>5, <2>2 DEF Heartbeat
    <2>4. CASE t = s
      <3>1. /\ beat[s] \in Int /\ beat'[s] = beat[s] - HeartbeatInterval
            /\ missed'[s] = 0 /\ left'[job[s]] = leaseDuration - a
        BY <1>5, <2>2, <2>3 DEF TypeOK, Heartbeat
      <3>2. 0 * HeartbeatInterval = 0
        OBVIOUS
      <3>3. left'[job[s]] >= leaseDuration - MaxDelay - 0 - beat'[s]
        BY <2>3, <3>1
      <3> QED
        BY <2>1, <2>2, <2>4, <3>1, <3>2, <3>3 DEF LeaseHeld, HeartbeatInterval
    <2>5. CASE t # s
      <3>1. /\ beat'[t] = beat[t] /\ missed'[t] = missed[t]
            /\ left'[job[t]] = left[job[t]]
        BY <1>5, <2>2, <2>3, <2>5 DEF TypeOK, Heartbeat
      <3> QED
        BY <2>1, <3>1, OtherHeld
    <2> QED
      BY <2>4, <2>5
  <1>6. ASSUME NEW s \in Server, HeartbeatFails(s) PROVE LeaseHeld(t)'
    <2>1. Holding(t) /\ job' = job /\ owner' = owner /\ left' = left
      BY <1>6 DEF TypeOK, HeartbeatFails, Holding, leases
    <2>2. CASE t = s
      <3>1. /\ beat[s] \in Int /\ missed[s] \in Nat /\ left[job[s]] \in Int
            /\ beat'[s] = beat[s] - HeartbeatInterval
            /\ missed'[s] = missed[s] + 1
        BY <1>6 DEF TypeOK, HeartbeatFails
      <3>2. /\ (missed[s] + 1) * HeartbeatInterval = missed[s] * HeartbeatInterval + HeartbeatInterval
            /\ missed[s] * HeartbeatInterval \in Nat
        <4>1. missed[s] * HeartbeatInterval \in Nat
          BY <3>1, TimesMonotonic
        <4> QED
          BY <3>1, <4>1, TimesSuccessor
      <3>3. left[job[s]] >= leaseDuration - MaxDelay - missed[s] * HeartbeatInterval - beat[s]
        BY <2>1, <2>2 DEF IInv, LeaseHeld
      <3>4. left[job[s]] >= leaseDuration - MaxDelay - missed'[s] * HeartbeatInterval - beat'[s]
        BY <3>1, <3>2, <3>3
      <3>5. owner[job[s]] = s
        BY <2>1, <2>2 DEF IInv, LeaseHeld
      <3> QED
        BY <2>1, <2>2, <3>4, <3>5 DEF LeaseHeld, HeartbeatInterval
    <2>3. CASE t # s
      <3>1. beat'[t] = beat[t] /\ missed'[t] = missed[t]
        BY <1>6, <2>3 DEF TypeOK, HeartbeatFails
      <3> QED
        BY <2>1, <3>1, OtherHeld
    <2> QED
      BY <2>2, <2>3
  <1>7. ASSUME NEW s \in Server, Finish(s) PROVE LeaseHeld(t)'
    <2>1. Leave(s) /\ Holding(s)
      BY <1>7 DEF Finish, Holding
    <2>2. /\ t # s /\ Holding(t)
          /\ job'[t] = job[t] /\ beat'[t] = beat[t] /\ missed'[t] = missed[t]
      BY <2>1, LeaveType
    <2>3. job[s] # job[t] /\ owner[job[s]] = s
      BY <2>1, <2>2 DEF IInv, LeaseHeld
    <2>4. owner'[job[t]] = owner[job[t]] /\ left'[job[t]] = left[job[t]]
      BY <1>7, <2>3 DEF TypeOK, Finish
    <2> QED
      BY <2>2, <2>4, OtherHeld
  <1>8. ASSUME NEW s \in Server, Crash(s) PROVE LeaseHeld(t)'
    <2>1. t # s /\ Holding(t)
      BY <1>8 DEF TypeOK, Crash, Holding
    <2>2. job'[t] = job[t] /\ beat'[t] = beat[t] /\ missed'[t] = missed[t]
      BY <1>8, <2>1 DEF TypeOK, Crash
    <2> QED
      BY <1>8, <2>1, <2>2, OtherHeld DEF Crash, leases
  <1>9. CASE Elapse
    <2>1. Holding(t) /\ job' = job /\ owner' = owner /\ missed' = missed
      BY <1>9 DEF Elapse, Holding
    <2>2. /\ left[job[t]] \in Int /\ job[t] \in Job
          /\ beat[t] \in Int /\ beat'[t] = beat[t] + 1
      BY <1>9, <2>1 DEF TypeOK, Elapse
    <2>3. left'[job[t]] = left[job[t]] - 1
      BY <1>9, <2>1, <2>2, HeldNotExpired DEF Elapse, Past
    <2>4. /\ owner[job[t]] = t
          /\ left[job[t]] >= leaseDuration - MaxDelay - missed[t] * HeartbeatInterval - beat[t]
      BY <2>1 DEF IInv, LeaseHeld
    <2>5. missed[t] * HeartbeatInterval \in Int
      BY TimesMonotonic DEF TypeOK
    <2>6. left'[job[t]] >= leaseDuration - MaxDelay - missed[t] * HeartbeatInterval - beat'[t]
      BY <2>2, <2>3, <2>4, <2>5
    <2> QED
      BY <2>1, <2>4, <2>6 DEF LeaseHeld, HeartbeatInterval
  <1>10. CASE UNCHANGED vars
    <2>1. Holding(t) /\ UNCHANGED <<owner, left, job, beat, missed>>
      BY <1>10 DEF vars, leases, Holding
    <2> QED
      BY <2>1, OtherHeld
  <1> QED
    BY <1>1, <1>2, <1>3, <1>4, <1>5, <1>6, <1>7, <1>8, <1>9, <1>10 DEF Next, Step

\* A heartbeat fails only within what the lease allows for, or the servers are
\* not punctual any more.
LEMMA TimelyStep ==
    ASSUME IInv, [Next]_vars, punctual', NEW t \in Server
    PROVE  punctual /\ Timely(missed'[t])
  <1> USE SchedulerAssumption, IntervalType
  <1>1. punctual /\ (\A s \in Server : missed'[s] \in {missed[s], 0} \/ Timely(missed'[s]))
    <2>1. ASSUME NEW s \in Server, HeartbeatFails(s)
          PROVE  punctual /\ (\A r \in Server : missed'[r] = missed[r] \/ Timely(missed'[r]))
      BY <2>1 DEF IInv, TypeOK, HeartbeatFails
    <2>2. ASSUME NEW s \in Server, Step(s) \/ Crash(s), ~HeartbeatFails(s)
          PROVE  punctual /\ (\A r \in Server : missed'[r] \in {missed[r], 0})
      BY <2>2 DEF IInv, TypeOK, Step, Crash, RunDue, InsertRow, Claim, NotClaimed, ClaimFails,
                  Heartbeat, JobReturns, Finish, FinishFails, Start, Leave
    <2>3. ASSUME Elapse \/ UNCHANGED vars PROVE punctual /\ missed' = missed
      BY <2>3 DEF Elapse, vars
    <2> QED
      BY <2>1, <2>2, <2>3 DEF Next
  <1>2. missed[t] \in Nat /\ Timely(missed[t])
    <2>1. missed[t] \in Nat
      BY DEF IInv, TypeOK
    <2>2. punctual => Timely(missed[t])
      BY DEF IInv
    <2> QED
      BY <1>1, <2>1, <2>2
  <1>3. missed[t] + 1 \in Nat /\ 1 <= missed[t] + 1
    BY <1>2
  <1>4. 1 * HeartbeatInterval <= (missed[t] + 1) * HeartbeatInterval
    BY <1>3, TimesMonotonic
  <1>5. (missed[t] + 1) * HeartbeatInterval \in Nat /\ 1 * HeartbeatInterval \in Nat
    BY <1>3, TimesMonotonic
  <1>6. (0 + 1) * HeartbeatInterval = 1 * HeartbeatInterval
    OBVIOUS
  <1>7. Timely(0)
    BY <1>2, <1>4, <1>5, <1>6 DEF Timely
  <1> QED
    BY <1>1, <1>2, <1>7

\* The inductive invariant is kept by every step (scheduler.go:35-108).
LEMMA InvStep == ASSUME IInv, [Next]_vars PROVE IInv'
  <1>1. TypeOK'
    BY TypeStep DEF IInv
  <1>2. ASSUME punctual', NEW t \in Server
        PROVE  Timely(missed[t])' /\ (Holding(t)' => LeaseHeld(t)')
    BY <1>2, TimelyStep, LeaseStep DEF Timely, HeartbeatInterval
  <1> QED
    BY <1>1, <1>2 DEF IInv

-----------------------------------------------------------------------------
(* The theorems                                                            *)

\* The scheduler's state is well typed, punctual or not (scheduler.go:35-108).
THEOREM SchedulerTypeOK == Spec => []TypeOK
  <1>1. Init => TypeOK
    BY InitInv DEF IInv
  <1>2. TypeOK /\ [Next]_vars => TypeOK'
    BY TypeStep
  <1> QED
    BY <1>1, <1>2, PTL DEF Spec

\* While the servers are punctual, one that runs a job, or has yet to record that
\* it ran, has an unexpired lease in the table (scheduler.go:35-108).
THEOREM SchedulerInvariant == Spec => []IInv
  <1>1. IInv /\ [Next]_vars => IInv'
    BY InvStep
  <1> QED
    BY <1>1, InitInv, PTL DEF Spec

\* Then no two servers run the same job at the same time: the row of the job
\* names one owner (repository.go:20-24).
THEOREM SchedulerOneRunner == Spec => []OneRunner
  <1>1. IInv => OneRunner
    BY DEF IInv, LeaseHeld, OneRunner, Holding
  <1> QED
    BY <1>1, SchedulerInvariant, PTL

\* Punctual or not, a lease is taken only when it has expired and released, with
\* the job rescheduled, only by its owner (repository.go:20-24 and 38-42).
THEOREM SchedulerLeaseRespected == Spec => LeaseRespected
  <1> DEFINE A == \A j \in Job :
          /\ owner[j] \in Server /\ owner'[j] # owner[j] =>
                \/ left[j] <= 0
                \/ pc[owner[j]] = "finish" /\ job[owner[j]] = j
          /\ j \in rows /\ due'[j] > due[j] => owner[j] \in Server /\ owner'[j] = Nobody
  <1>1. TypeOK /\ [Next]_vars => [A]_vars
    <2> SUFFICES ASSUME TypeOK, Next PROVE A
      OBVIOUS
    <2> USE SchedulerAssumption
    <2>1. ASSUME UNCHANGED <<owner, due>> PROVE A
      BY <2>1 DEF TypeOK
    <2>2. ASSUME NEW s \in Server, WriteRow(s) PROVE A
      BY <2>2 DEF TypeOK, WriteRow
    <2>3. ASSUME NEW s \in Server, WriteLease(s) PROVE A
      BY <2>3 DEF TypeOK, WriteLease, Free
    <2>4. ASSUME NEW s \in Server, Finish(s) PROVE A
      <3>1. CASE owner[job[s]] = s
        <4>1. /\ pc[s] = "finish" /\ owner' = [owner EXCEPT ![job[s]] = Nobody]
              /\ \E n \in NextRun : due' = [due EXCEPT ![job[s]] = n - ago[s]]
          BY <2>4, <3>1 DEF Finish
        <4> QED
          BY <3>1, <4>1 DEF TypeOK
      <3>2. CASE owner[job[s]] # s
        BY <2>1, <2>4, <3>2 DEF Finish
      <3> QED
        BY <3>1, <3>2
    <2>5. CASE Elapse
      BY <2>5 DEF TypeOK, Elapse, Past
    <2>6. ASSUME NEW s \in Server, Step(s) \/ Crash(s), ~Finish(s) PROVE A
      <3>1. UNCHANGED <<owner, due>> \/ WriteRow(s) \/ WriteLease(s)
        BY <2>6 DEF Step, Crash, leases, RunDue, InsertRow, Claim, NotClaimed, ClaimFails,
                    Heartbeat, HeartbeatFails, JobReturns, FinishFails, Start
      <3> QED
        BY <3>1, <2>1, <2>2, <2>3
    <2> QED
      BY <2>4, <2>5, <2>6 DEF Next
  <1> QED
    BY <1>1, SchedulerTypeOK, PTL DEF Spec, LeaseRespected

=============================================================================

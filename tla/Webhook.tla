------------------------------ MODULE Webhook ------------------------------
(***************************************************************************)
(* The webhook outbox, internal/server/webhook: alerts and the operator    *)
(* queue deliveries, the dispatchers of several server processes claim     *)
(* them, post them and record the outcome, and the operator may replace the*)
(* settings at any moment.                                                 *)
(*                                                                         *)
(* Times are distances from the present, as in Scheduler: left[d] is       *)
(* lease_expires_at - now, due[d] is next_attempt_at - now, ago[w] the age *)
(* of the worker's "now".  They stop at -(MaxDelay + 1), which is past for *)
(* every clock value a claim may use.                                      *)
(***************************************************************************)
EXTENDS Integers, Sequences

CONSTANTS
    Worker,        \* dispatchers, by owner name
    Nobody,        \* lease_owner NULL
    Alert,         \* deliveries queued by alerts
    Test,          \* deliveries queued by the operator to test the settings
    LeaseTime,     \* two minutes
    MaxAttempts,   \* six
    Delays,        \* the delays of retryDelay
    RetryAfter,    \* the delay a rate-limited answer asks for
    MaxDelay,      \* bound on the time from reading the clock to the claim
    MaxHold,       \* bound on the time from reading the clock to the outcome
    MaxSaves,      \* bound on changes of the settings
    MaxCrashes

ASSUME WebhookAssumption ==
    /\ Nobody \notin Worker
    /\ Alert \cap Test = {}
    /\ LeaseTime \in Nat
    /\ MaxAttempts \in Nat \ {0}
    /\ Delays \in Seq(Nat) /\ Delays # <<>>
    /\ RetryAfter \in Nat
    /\ MaxDelay \in Nat
    /\ MaxHold \in Nat /\ MaxDelay <= MaxHold
    /\ MaxSaves \in Nat
    /\ MaxCrashes \in Nat

VARIABLES
    enabled,   \* webhook_settings.enabled
    status,    \* webhook_deliveries.status, "none" when there is no row yet
    attempt,   \* webhook_deliveries.attempt
    owner,     \* lease_owner
    left,      \* lease_expires_at
    due,       \* next_attempt_at
    pc,        \* where RunOne of a worker is
    delivery,  \* the delivery it claimed
    seen,      \* delivery.Attempt
    ago,       \* age of its "now"
    checked,   \* a test request has found the settings enabled
    saves,
    crashes,
    refused    \* history: deliveries whose recorded failure was final

outbox == <<status, attempt, owner, left, due>>
worker == <<pc, delivery, seen, ago>>
vars == <<enabled, outbox, worker, checked, saves, crashes, refused>>

-----------------------------------------------------------------------------

Delivery == Alert \cup Test
Finished == {"delivered", "terminal", "cancelled"}
Holding(w) == pc[w] \in {"request", "record"}

\* A 4xx other than 408 and 429, or a request that cannot be built; a 429; any
\* other status, error or timeout.
Failure == {"refused", "limited", "failed"}

Past(t) == IF t > -(MaxDelay + 1) THEN t - 1 ELSE t

retryDelay(n) == Delays[IF n < 1 THEN 1 ELSE IF n > Len(Delays) THEN Len(Delays) ELSE n]

Init ==
    /\ enabled \in BOOLEAN
    /\ status = [d \in Delivery |-> "none"]
    /\ attempt = [d \in Delivery |-> 0]
    /\ owner = [d \in Delivery |-> Nobody]
    /\ left = [d \in Delivery |-> 0]
    /\ due = [d \in Delivery |-> 0]
    /\ pc = [w \in Worker |-> "idle"]
    /\ delivery = [w \in Worker |-> Nobody]
    /\ seen = [w \in Worker |-> 0]
    /\ ago = [w \in Worker |-> 0]
    /\ checked = FALSE
    /\ saves = 0
    /\ crashes = 0
    /\ refused = {}

\* RunOne returns.
Forget(w) ==
    /\ pc' = [pc EXCEPT ![w] = "idle"]
    /\ delivery' = [delivery EXCEPT ![w] = Nobody]
    /\ seen' = [seen EXCEPT ![w] = 0]
    /\ ago' = [ago EXCEPT ![w] = 0]

-----------------------------------------------------------------------------
(* The operator and the alerts                                             *)

Queue(d) ==
    /\ status[d] = "none"
    /\ status' = [status EXCEPT ![d] = "pending"]
    /\ due' = [due EXCEPT ![d] = 0]
    /\ UNCHANGED <<enabled, attempt, owner, left, worker, saves, crashes, refused>>

\* Queued in the transaction that opens an alert or raises its severity.
insertDelivery(d) == d \in Alert /\ Queue(d) /\ UNCHANGED checked

\* The handler looks at the settings, then inserts the row.
CheckTest ==
    /\ enabled
    /\ checked' = TRUE
    /\ UNCHANGED <<enabled, outbox, worker, saves, crashes, refused>>

QueueTest(d) == d \in Test /\ checked /\ Queue(d) /\ checked' = FALSE

SaveSettings(e) ==
    /\ saves < MaxSaves
    /\ saves' = saves + 1
    /\ enabled' = e
    /\ LET cancelled == {d \in Test : status[d] \in {"pending", "leased"}} IN
          /\ status' = [d \in Delivery |-> IF d \in cancelled THEN "cancelled" ELSE status[d]]
          /\ owner' = [d \in Delivery |-> IF d \in cancelled THEN Nobody ELSE owner[d]]
          /\ left' = [d \in Delivery |-> IF d \in cancelled THEN 0 ELSE left[d]]
          /\ due' = [d \in Delivery |-> IF d \in cancelled THEN 0 ELSE due[d]]
    /\ UNCHANGED <<attempt, worker, checked, crashes, refused>>

-----------------------------------------------------------------------------
(* The dispatcher of a process                                             *)

\* Dispatcher.RunOne reads the settings; "enabled" includes that they are valid.
GetSettings(w) ==
    /\ pc[w] = "idle"
    /\ enabled
    /\ pc' = [pc EXCEPT ![w] = "claim"]
    /\ UNCHANGED <<enabled, outbox, delivery, seen, ago, checked, saves, crashes, refused>>

\* Faulty variant: leases do not count.
ClaimableAnyway(d, a) == status[d] \in {"pending", "leased"} /\ due[d] <= -a

\* Faulty variant: an expired lease is not reclaimed.
ClaimablePending(d, a) == status[d] = "pending" /\ due[d] <= -a

\* Claimable for a clock value read a instants ago.
Claimable(d, a) ==
    \/ status[d] = "pending" /\ due[d] <= -a
    \/ status[d] = "leased" /\ left[d] < -a

\* next_attempt_at keeps its value, which nothing reads before Fail replaces it.
Lease(w, d, a) ==
    /\ status' = [status EXCEPT ![d] = "leased"]
    /\ owner' = [owner EXCEPT ![d] = w]
    /\ left' = [left EXCEPT ![d] = LeaseTime - a]
    /\ due' = [due EXCEPT ![d] = 0]
    /\ UNCHANGED attempt

\* Worker.RunOne reads the clock and claims in one transaction.  The order of
\* next_attempt_at only decides which of several rows is taken, and not even
\* that when other claims hold locks: any of them may be.
Claim(w) ==
    /\ pc[w] = "claim"
    /\ \E d \in Delivery, a \in 0..MaxDelay :
          /\ Claimable(d, a)
          /\ Lease(w, d, a)
          /\ delivery' = [delivery EXCEPT ![w] = d]
          /\ seen' = [seen EXCEPT ![w] = attempt[d]]
          /\ ago' = [ago EXCEPT ![w] = a]
    /\ pc' = [pc EXCEPT ![w] = "request"]
    /\ UNCHANGED <<enabled, checked, saves, crashes, refused>>

\* No row, an error, or a commit of which only the answer is lost.
NotClaimed(w) ==
    /\ pc[w] = "claim"
    /\ \/ UNCHANGED outbox
       \/ \E d \in Delivery, a \in 0..MaxDelay : Claimable(d, a) /\ Lease(w, d, a)
    /\ Forget(w)
    /\ UNCHANGED <<enabled, checked, saves, crashes, refused>>

\* client.Do returns; what it returned is chosen when it is recorded.  A request
\* that cannot be built fails for good at the same place.
Request(w) ==
    /\ pc[w] = "request"
    /\ pc' = [pc EXCEPT ![w] = "record"]
    /\ UNCHANGED <<enabled, outbox, delivery, seen, ago, checked, saves, crashes, refused>>

Mine(w) == status[delivery[w]] = "leased" /\ owner[delivery[w]] = w

Settle(d, outcomeStatus) ==
    /\ status' = [status EXCEPT ![d] = outcomeStatus]
    /\ owner' = [owner EXCEPT ![d] = Nobody]
    /\ left' = [left EXCEPT ![d] = 0]

\* A 2xx; without the lease the row is left alone.
Complete(w) ==
    /\ pc[w] = "record"
    /\ IF Mine(w) THEN Settle(delivery[w], "delivered") /\ UNCHANGED <<attempt, due>>
                  ELSE UNCHANGED outbox
    /\ Forget(w)
    /\ UNCHANGED <<enabled, checked, saves, crashes, refused>>

\* Faulty variant: one attempt too few.
TerminalEarly(w, f) == seen[w] + 2 >= MaxAttempts \/ f = "refused"

\* Faulty variant: one attempt too many.
TerminalLate(w, f) == seen[w] + 1 > MaxAttempts \/ f = "refused"

Terminal(w, f) == seen[w] + 1 >= MaxAttempts \/ f = "refused"

\* next_attempt_at counts from the clock read before the claim.
NextAttempt(w, f) ==
    LET wait == retryDelay(seen[w] + 1) IN
    (IF f = "limited" /\ RetryAfter > wait THEN RetryAfter ELSE wait) - ago[w]

\* The UPDATE of Fail.
CountFailure(w, f) ==
    /\ Settle(delivery[w], IF Terminal(w, f) THEN "terminal" ELSE "pending")
    /\ attempt' = [attempt EXCEPT ![delivery[w]] = @ + 1]
    /\ due' = IF Terminal(w, f) THEN due ELSE [due EXCEPT ![delivery[w]] = NextAttempt(w, f)]
    /\ refused' = IF f = "refused" THEN refused \cup {delivery[w]} ELSE refused

\* Faulty variant: the lease is not asked for.
FailAnyway(w) ==
    /\ pc[w] = "record"
    /\ \E f \in Failure : CountFailure(w, f)
    /\ Forget(w)
    /\ UNCHANGED <<enabled, checked, saves, crashes>>

Fail(w) ==
    /\ pc[w] = "record"
    /\ IF Mine(w) THEN \E f \in Failure : CountFailure(w, f)
                  ELSE UNCHANGED <<outbox, refused>>
    /\ Forget(w)
    /\ UNCHANGED <<enabled, checked, saves, crashes>>

\* The statement is not executed: the delivery stays leased until the lease
\* lapses, and the attempt is not counted.
RecordFails(w) ==
    /\ pc[w] = "record"
    /\ Forget(w)
    /\ UNCHANGED <<enabled, outbox, checked, saves, crashes, refused>>

\* The process dies and is started again, or its context is cancelled.
Crash(w) ==
    /\ pc[w] # "idle"
    /\ crashes < MaxCrashes
    /\ crashes' = crashes + 1
    /\ Forget(w)
    /\ UNCHANGED <<enabled, outbox, checked, saves, refused>>

\* Time passes.  next_attempt_at is only looked at while a delivery is pending,
\* lease_expires_at while it is leased, and they are 0 here when they are not.
Elapse ==
    /\ \A w \in Worker : Holding(w) => ago[w] < MaxHold
    /\ left' = [d \in Delivery |-> IF status[d] = "leased" THEN Past(left[d]) ELSE left[d]]
    /\ due' = [d \in Delivery |-> IF status[d] = "pending" THEN Past(due[d]) ELSE due[d]]
    /\ ago' = [w \in Worker |-> IF Holding(w) THEN ago[w] + 1 ELSE ago[w]]
    /\ UNCHANGED <<enabled, status, attempt, owner, pc, delivery, seen,
                   checked, saves, crashes, refused>>

-----------------------------------------------------------------------------

Step(w) ==
    \/ GetSettings(w) \/ Claim(w) \/ NotClaimed(w) \/ Request(w)
    \/ Complete(w) \/ Fail(w) \/ RecordFails(w)

Next ==
    \/ \E d \in Delivery : insertDelivery(d) \/ QueueTest(d)
    \/ CheckTest
    \/ \E e \in BOOLEAN : SaveSettings(e)
    \/ \E w \in Worker : Step(w) \/ Crash(w)
    \/ Elapse

Spec == Init /\ [][Next]_vars

\* Time passes, every dispatcher keeps looping, a statement tried again and again
\* does not fail every time, and a worker does not overrun its lease every time:
\* the client gives a request ten seconds.
Fairness ==
    /\ WF_vars(Elapse)
    /\ \A w \in Worker : /\ WF_vars(Step(w))
                         /\ SF_vars(Claim(w))
                         /\ SF_vars(Request(w) /\ Mine(w))
                         /\ SF_vars((Complete(w) \/ Fail(w)) /\ Mine(w))

FairSpec == Spec /\ Fairness

-----------------------------------------------------------------------------

TypeOK ==
    /\ enabled \in BOOLEAN
    /\ status \in [Delivery -> {"none", "pending", "leased"} \cup Finished]
    /\ attempt \in [Delivery -> 0..MaxAttempts]
    /\ owner \in [Delivery -> Worker \cup {Nobody}]
    /\ left \in [Delivery -> Int]
    /\ due \in [Delivery -> Int]
    /\ pc \in [Worker -> {"idle", "claim", "request", "record"}]
    /\ delivery \in [Worker -> Delivery \cup {Nobody}]
    /\ \A w \in Worker : Holding(w) => delivery[w] \in Delivery
    /\ seen \in [Worker -> 0..MaxAttempts]
    /\ ago \in [Worker -> 0..MaxHold]
    /\ checked \in BOOLEAN
    /\ saves \in 0..MaxSaves
    /\ crashes \in 0..MaxCrashes
    /\ refused \subseteq Delivery

\* Of two workers that post the same delivery at the same time, one has been at
\* it for longer than its lease: nothing renews the lease, and only a worker
\* that overruns it is overtaken (repository.go:34-61).
OneSender ==
    \A w, v \in Worker :
        /\ w # v
        /\ pc[w] = "request" /\ pc[v] = "request" /\ delivery[w] = delivery[v]
        => ago[w] > LeaseTime \/ ago[v] > LeaseTime

\* A delivery is given up only after the full number of counted attempts or a
\* final failure, although the count is read when the delivery is claimed
\* and used when the request is over (worker.go:90-91, repository.go:129-135).
GaveUpRightly ==
    \A d \in Delivery : status[d] = "terminal" => attempt[d] = MaxAttempts \/ d \in refused

\* Why: no two workers hold a delivery within their leases; one that is within
\* its lease has it in the table, unless the delivery was cancelled; and the
\* count an owner has read is the one in the table (repository.go:34-61).
OneHolder ==
    \A w, v \in Worker :
        w # v /\ Holding(w) /\ Holding(v) /\ delivery[w] = delivery[v]
        => ago[w] > LeaseTime \/ ago[v] > LeaseTime

Held(w) ==
    /\ ago[w] <= LeaseTime => \/ Mine(w) /\ left[delivery[w]] = LeaseTime - ago[w]
                              \/ status[delivery[w]] = "cancelled"
    /\ Mine(w) => seen[w] = attempt[delivery[w]]

IInv ==
    /\ TypeOK
    /\ OneHolder
    /\ \A w \in Worker : Holding(w) => Held(w)
    /\ \A d \in Delivery : status[d] \in {"none", "pending", "leased"} => attempt[d] < MaxAttempts
    /\ GaveUpRightly

\* The states of module Outbox: a lease is no state of the delivery, and "terminal"
\* is two.
StateOf(d) ==
    CASE status[d] \in {"pending", "leased"} -> "open"
      [] status[d] = "terminal" -> IF d \in refused THEN "refused" ELSE "exhausted"
      [] OTHER -> status[d]

Promised == INSTANCE Outbox WITH state <- [d \in Delivery |-> StateOf(d)], tries <- attempt

\* The dispatchers together implement the outbox: however leases lapse, workers
\* overrun them, die and report late, each attempt counts once, from the number
\* in the table, and a finished delivery never changes again
\* (repository.go:34-61, 79-97, 114-143, worker.go:78-96).
OutboxSpec == Promised!Spec

\* Unless the operator keeps the webhook switched off, every queued delivery is
\* delivered, given up or cancelled in the end.
Settled ==
    <>[]enabled => \A d \in Delivery : status[d] = "pending" ~> status[d] \in Finished

=============================================================================

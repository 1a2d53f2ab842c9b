--------------------------- MODULE WebhookProofs ---------------------------
(***************************************************************************)
(* Proofs about the outbox for any number of dispatchers and deliveries,   *)
(* any lease and delays, and workers that overrun their leases.            *)
(***************************************************************************)
EXTENDS Webhook, TLAPS

\* A retry waits for one of the delays.
LEMMA RetryDelayType == ASSUME NEW n \in Int PROVE retryDelay(n) \in Int
  <1>1. Len(Delays) \in Nat /\ Len(Delays) >= 1 /\ \A i \in 1..Len(Delays) : Delays[i] \in Int
    BY WebhookAssumption
  <1> QED
    BY <1>1 DEF retryDelay

\* A worker that returns holds nothing.
LEMMA ForgetType ==
    ASSUME TypeOK, NEW w \in Worker, Forget(w)
    PROVE  /\ pc' \in [Worker -> {"idle", "claim", "request", "record"}]
           /\ delivery' \in [Worker -> Delivery \cup {Nobody}]
           /\ seen' \in [Worker -> 0..MaxAttempts]
           /\ ago' \in [Worker -> 0..MaxHold]
           /\ \A v \in Worker : Holding(v)' =>
                 /\ v # w /\ Holding(v)
                 /\ delivery'[v] = delivery[v] /\ seen'[v] = seen[v] /\ ago'[v] = ago[v]
  <1> USE WebhookAssumption
  <1>1. /\ pc' \in [Worker -> {"idle", "claim", "request", "record"}]
        /\ delivery' \in [Worker -> Delivery \cup {Nobody}]
        /\ seen' \in [Worker -> 0..MaxAttempts]
        /\ ago' \in [Worker -> 0..MaxHold]
    BY DEF TypeOK, Forget
  <1>2. ASSUME NEW v \in Worker, Holding(v)'
        PROVE  /\ v # w /\ Holding(v)
               /\ delivery'[v] = delivery[v] /\ seen'[v] = seen[v] /\ ago'[v] = ago[v]
    BY <1>2 DEF TypeOK, Forget, Holding
  <1> QED
    BY <1>1, <1>2

-----------------------------------------------------------------------------
(* What the statements on the outbox do to the types                       *)

OutboxType ==
    /\ status \in [Delivery -> {"none", "pending", "leased"} \cup Finished]
    /\ attempt \in [Delivery -> 0..MaxAttempts]
    /\ owner \in [Delivery -> Worker \cup {Nobody}]
    /\ left \in [Delivery -> Int]
    /\ due \in [Delivery -> Int]

\* A claim leaves the outbox well typed (repository.go:59-61).
LEMMA LeaseType ==
    ASSUME TypeOK, NEW w \in Worker, NEW d \in Delivery, NEW a \in 0..MaxDelay, Lease(w, d, a)
    PROVE  OutboxType'
  BY WebhookAssumption DEF TypeOK, OutboxType, Lease

\* So does the outcome of a request (repository.go:129-135).
LEMMA CountFailureType ==
    ASSUME IInv, NEW w \in Worker, Holding(w), Mine(w), NEW f \in Failure, CountFailure(w, f)
    PROVE  OutboxType' /\ refused' \subseteq Delivery
  <1>1. delivery[w] \in Delivery /\ seen[w] \in Int /\ ago[w] \in Int
    BY DEF IInv, TypeOK
  <1>2. NextAttempt(w, f) \in Int
    <2>1. retryDelay(seen[w] + 1) \in Int
      BY <1>1, RetryDelayType
    <2> QED
      BY <1>1, <2>1, WebhookAssumption DEF NextAttempt
  <1>3. attempt[delivery[w]] + 1 \in 0..MaxAttempts
    <2>1. status[delivery[w]] \in {"none", "pending", "leased"}
      BY DEF Mine
    <2>2. attempt[delivery[w]] < MaxAttempts /\ attempt[delivery[w]] \in 0..MaxAttempts
      BY <1>1, <2>1 DEF IInv, TypeOK
    <2> QED
      BY <2>2, WebhookAssumption
  <1>4. attempt' \in [Delivery -> 0..MaxAttempts]
    BY <1>1, <1>3 DEF IInv, TypeOK, CountFailure
  <1>5. due' \in [Delivery -> Int]
    BY <1>1, <1>2 DEF IInv, TypeOK, CountFailure
  <1>6. /\ status' \in [Delivery -> {"none", "pending", "leased"} \cup Finished]
        /\ owner' \in [Delivery -> Worker \cup {Nobody}]
        /\ left' \in [Delivery -> Int]
    BY <1>1 DEF IInv, TypeOK, CountFailure, Settle, Finished
  <1>7. refused' \subseteq Delivery
    BY <1>1 DEF IInv, TypeOK, CountFailure
  <1> QED
    BY <1>4, <1>5, <1>6, <1>7 DEF OutboxType

\* Every step keeps the types.
LEMMA TypeStep == ASSUME IInv, [Next]_vars PROVE TypeOK'
  <1> USE WebhookAssumption
  <1> TypeOK
    BY DEF IInv
  <1>1. ASSUME NEW d \in Delivery, insertDelivery(d) \/ QueueTest(d) PROVE TypeOK'
    <2>1. Queue(d) /\ checked' \in BOOLEAN
      BY <1>1 DEF insertDelivery, QueueTest, TypeOK
    <2>2. OutboxType'
      BY <2>1 DEF Queue, TypeOK, OutboxType
    <2> QED
      BY <2>1, <2>2 DEF TypeOK, OutboxType, Queue, worker, Holding
  <1>2. CASE CheckTest
    BY <1>2 DEF TypeOK, CheckTest, outbox, worker, Holding
  <1>3. ASSUME NEW e \in BOOLEAN, SaveSettings(e) PROVE TypeOK'
    <2> DEFINE cancelled == {d \in Test : status[d] \in {"pending", "leased"}}
    <2>1. /\ status' = [d \in Delivery |-> IF d \in cancelled THEN "cancelled" ELSE status[d]]
          /\ owner' = [d \in Delivery |-> IF d \in cancelled THEN Nobody ELSE owner[d]]
          /\ left' = [d \in Delivery |-> IF d \in cancelled THEN 0 ELSE left[d]]
          /\ due' = [d \in Delivery |-> IF d \in cancelled THEN 0 ELSE due[d]]
          /\ attempt' = attempt
      BY <1>3 DEF SaveSettings
    <2> HIDE DEF cancelled
    <2>2. OutboxType'
      BY <2>1 DEF TypeOK, OutboxType, Finished
    <2> QED
      BY <1>3, <2>2 DEF TypeOK, OutboxType, SaveSettings, worker, Holding
  <1>4. ASSUME NEW w \in Worker, GetSettings(w) PROVE TypeOK'
    BY <1>4 DEF TypeOK, GetSettings, outbox, Holding
  <1>5. ASSUME NEW w \in Worker, Claim(w) PROVE TypeOK'
    <2>1. PICK d \in Delivery, a \in 0..MaxDelay :
             /\ Lease(w, d, a)
             /\ delivery' = [delivery EXCEPT ![w] = d]
             /\ seen' = [seen EXCEPT ![w] = attempt[d]]
             /\ ago' = [ago EXCEPT ![w] = a]
      BY <1>5 DEF Claim
    <2>2. /\ pc' \in [Worker -> {"idle", "claim", "request", "record"}]
          /\ delivery' \in [Worker -> Delivery \cup {Nobody}]
          /\ seen' \in [Worker -> 0..MaxAttempts]
          /\ ago' \in [Worker -> 0..MaxHold]
          /\ \A v \in Worker : Holding(v)' => delivery'[v] \in Delivery
      BY <1>5, <2>1 DEF TypeOK, Claim, Holding
    <2> QED
      BY <1>5, <2>1, <2>2, LeaseType DEF TypeOK, OutboxType, Claim, Holding
  <1>6. ASSUME NEW w \in Worker, NotClaimed(w) PROVE TypeOK'
    <2>1. Forget(w) /\ UNCHANGED <<enabled, checked, saves, crashes, refused>>
      BY <1>6 DEF NotClaimed
    <2>2. OutboxType'
      BY <1>6, LeaseType DEF NotClaimed, outbox, TypeOK, OutboxType
    <2> QED
      BY <2>1, <2>2, ForgetType DEF TypeOK, OutboxType
  <1>7. ASSUME NEW w \in Worker, Request(w) PROVE TypeOK'
    BY <1>7 DEF TypeOK, Request, outbox, Holding
  <1>8. ASSUME NEW w \in Worker, Complete(w) PROVE TypeOK'
    <2>1. Forget(w) /\ UNCHANGED <<enabled, checked, saves, crashes, refused>>
      BY <1>8 DEF Complete
    <2>2. CASE Mine(w)
      <3>1. Settle(delivery[w], "delivered") /\ UNCHANGED <<attempt, due>> /\ delivery[w] \in Delivery
        BY <1>8, <2>2 DEF Complete, TypeOK, Holding
      <3>2. OutboxType'
        BY <3>1 DEF TypeOK, OutboxType, Settle, Finished
      <3> QED
        BY <2>1, <3>2, ForgetType DEF TypeOK, OutboxType
    <2>3. CASE ~Mine(w)
      BY <1>8, <2>1, <2>3, ForgetType DEF Complete, TypeOK, outbox
    <2> QED
      BY <2>2, <2>3
  <1>9. ASSUME NEW w \in Worker, Fail(w) PROVE TypeOK'
    <2>1. Forget(w) /\ Holding(w) /\ UNCHANGED <<enabled, checked, saves, crashes>>
      BY <1>9 DEF Fail, Holding
    <2>2. CASE Mine(w)
      <3>1. OutboxType' /\ refused' \subseteq Delivery
        BY <1>9, <2>1, <2>2, CountFailureType DEF Fail
      <3> QED
        BY <2>1, <3>1, ForgetType DEF TypeOK, OutboxType
    <2>3. CASE ~Mine(w)
      BY <1>9, <2>1, <2>3, ForgetType DEF Fail, TypeOK, outbox
    <2> QED
      BY <2>2, <2>3
  <1>10. ASSUME NEW w \in Worker, RecordFails(w) \/ Crash(w) PROVE TypeOK'
    <2>1. Forget(w) /\ UNCHANGED <<enabled, outbox, checked, saves, refused>> /\ crashes' \in 0..MaxCrashes
      BY <1>10 DEF RecordFails, Crash, TypeOK
    <2> QED
      BY <2>1, ForgetType DEF TypeOK, outbox
  <1>11. CASE Elapse
    BY <1>11, SMTT(30) DEF TypeOK, Elapse, Past, Holding
  <1>12. CASE UNCHANGED vars
    BY <1>12 DEF TypeOK, vars, outbox, worker, Holding
  <1> QED
    BY <1>1, <1>2, <1>3, <1>4, <1>5, <1>6, <1>7, <1>8, <1>9, <1>10, <1>11, <1>12 DEF Next, Step

-----------------------------------------------------------------------------
(* What the statements on the outbox do to a worker that holds a delivery  *)

\* Worker v holds the same delivery before and after a step.
Keeps(v) ==
    /\ Holding(v)
    /\ delivery'[v] = delivery[v] /\ seen'[v] = seen[v] /\ ago'[v] = ago[v]

\* Only a delivery whose holders have overrun their leases can be claimed
\* (repository.go:37-38).
LEMMA ClaimableOverrun ==
    ASSUME IInv, NEW v \in Worker, Holding(v), NEW a \in 0..MaxDelay, Claimable(delivery[v], a)
    PROVE  ago[v] > LeaseTime
  <1>1. SUFFICES ASSUME ago[v] <= LeaseTime PROVE FALSE
    BY WebhookAssumption DEF IInv, TypeOK
  <1>2. Mine(v) /\ left[delivery[v]] = LeaseTime - ago[v]
    BY <1>1 DEF IInv, Held, Claimable
  <1> QED
    BY <1>1, <1>2, WebhookAssumption DEF IInv, TypeOK, Claimable, Mine

\* A delivery nobody touches.
LEMMA HeldUnchanged ==
    ASSUME IInv, NEW v \in Worker, Keeps(v), UNCHANGED outbox
    PROVE  Held(v)'
  BY DEF IInv, Keeps, Held, Mine, outbox

\* A new row.
LEMMA HeldQueue ==
    ASSUME IInv, NEW v \in Worker, Keeps(v), NEW d \in Delivery, Queue(d)
    PROVE  Held(v)'
  <1>1. delivery[v] \in Delivery /\ Held(v)
    BY DEF IInv, TypeOK, Keeps
  <1>2. CASE delivery[v] = d
    BY <1>1, <1>2 DEF IInv, TypeOK, Keeps, Held, Mine, Queue
  <1>3. CASE delivery[v] # d
    BY <1>1, <1>3 DEF IInv, TypeOK, Keeps, Held, Mine, Queue
  <1> QED
    BY <1>2, <1>3

\* New settings cancel a test or leave the row alone.
LEMMA HeldSave ==
    ASSUME IInv, NEW v \in Worker, Keeps(v), NEW e \in BOOLEAN, SaveSettings(e)
    PROVE  Held(v)'
  <1> DEFINE cancelled == {d \in Test : status[d] \in {"pending", "leased"}}
  <1>1. /\ status' = [d \in Delivery |-> IF d \in cancelled THEN "cancelled" ELSE status[d]]
        /\ owner' = [d \in Delivery |-> IF d \in cancelled THEN Nobody ELSE owner[d]]
        /\ left' = [d \in Delivery |-> IF d \in cancelled THEN 0 ELSE left[d]]
        /\ attempt' = attempt
    BY DEF SaveSettings
  <1>2. delivery[v] \in Delivery /\ Held(v)
    BY DEF IInv, TypeOK, Keeps
  <1> HIDE DEF cancelled
  <1>3. CASE delivery[v] \in cancelled
    <2>1. status'[delivery[v]] = "cancelled"
      BY <1>1, <1>2, <1>3
    <2> QED
      BY <2>1 DEF Keeps, Held, Mine
  <1>4. CASE delivery[v] \notin cancelled
    <2>1. /\ status'[delivery[v]] = status[delivery[v]] /\ owner'[delivery[v]] = owner[delivery[v]]
          /\ left'[delivery[v]] = left[delivery[v]] /\ attempt'[delivery[v]] = attempt[delivery[v]]
      BY <1>1, <1>2, <1>4
    <2> QED
      BY <1>2, <2>1 DEF Keeps, Held, Mine
  <1> QED
    BY <1>3, <1>4

\* Another worker's claim.
LEMMA HeldLease ==
    ASSUME IInv, NEW v \in Worker, Keeps(v), NEW w \in Worker, w # v,
           NEW d \in Delivery, NEW a \in 0..MaxDelay, Claimable(d, a), Lease(w, d, a)
    PROVE  Held(v)'
  <1>1. delivery[v] \in Delivery /\ Held(v)
    BY DEF IInv, TypeOK, Keeps
  <1>2. CASE delivery[v] = d
    <2>1. ago[v] > LeaseTime
      BY <1>2, ClaimableOverrun DEF Keeps
    <2>2. owner'[d] = w
      BY DEF IInv, TypeOK, Lease
    <2>3. ~(ago[v] <= LeaseTime)
      BY <2>1, WebhookAssumption DEF IInv, TypeOK
    <2> QED
      BY <1>2, <2>2, <2>3 DEF Keeps, Held, Mine
  <1>3. CASE delivery[v] # d
    BY <1>1, <1>3 DEF IInv, TypeOK, Keeps, Held, Mine, Lease
  <1> QED
    BY <1>2, <1>3

\* An outcome recorded by another worker that owns its delivery.
LEMMA HeldSettle ==
    ASSUME IInv, NEW v \in Worker, Keeps(v), NEW w \in Worker, w # v, Holding(w), Mine(w),
           NEW s \in {"pending", "delivered", "terminal"}, Settle(delivery[w], s),
           \A d \in Delivery \ {delivery[w]} : attempt'[d] = attempt[d]
    PROVE  Held(v)'
  <1>1. delivery[v] \in Delivery /\ delivery[w] \in Delivery /\ Held(v)
    BY DEF IInv, TypeOK, Keeps
  <1>2. CASE delivery[v] = delivery[w]
    <2>1. ~(ago[v] <= LeaseTime)
      BY <1>1, <1>2 DEF Held, Mine
    <2>2. status'[delivery[v]] # "leased"
      BY <1>1, <1>2 DEF IInv, TypeOK, Settle
    <2> QED
      BY <2>1, <2>2 DEF Keeps, Held, Mine
  <1>3. CASE delivery[v] # delivery[w]
    BY <1>1, <1>3 DEF IInv, TypeOK, Keeps, Held, Mine, Settle
  <1> QED
    BY <1>2, <1>3

\* When nobody starts to hold a delivery, two do not start to share one.
LEMMA KeptOneHolder ==
    ASSUME IInv, \A v \in Worker : Holding(v)' => Keeps(v)
    PROVE  OneHolder'
  BY DEF IInv, OneHolder, Keeps

\* The worker that claims is the only holder within its lease, and knows the count.
LEMMA ClaimHolders ==
    ASSUME IInv, NEW w \in Worker, Claim(w)
    PROVE  OneHolder' /\ \A v \in Worker : Holding(v)' => Held(v)'
  <1> USE WebhookAssumption
  <1>1. PICK d \in Delivery, a \in 0..MaxDelay :
           /\ Claimable(d, a)
           /\ Lease(w, d, a)
           /\ delivery' = [delivery EXCEPT ![w] = d]
           /\ seen' = [seen EXCEPT ![w] = attempt[d]]
           /\ ago' = [ago EXCEPT ![w] = a]
    BY DEF Claim
  <1>2. delivery'[w] = d /\ seen'[w] = attempt[d] /\ ago'[w] = a
    BY <1>1 DEF IInv, TypeOK
  <1>3. ASSUME NEW v \in Worker, v # w, Holding(v)' PROVE Keeps(v)
    BY <1>1, <1>3 DEF IInv, TypeOK, Claim, Holding, Keeps
  <1>4. OneHolder'
    <2>1. ASSUME NEW v \in Worker, v # w, Holding(v)', delivery'[v] = d PROVE ago'[v] > LeaseTime
      <3>1. Keeps(v)
        BY <1>3, <2>1
      <3> QED
        BY <1>1, <2>1, <3>1, ClaimableOverrun DEF Keeps
    <2>2. ASSUME NEW u \in Worker, NEW v \in Worker, u # v, u # w, v # w,
                 Holding(u)', Holding(v)', delivery'[u] = delivery'[v]
          PROVE  ago'[u] > LeaseTime \/ ago'[v] > LeaseTime
      BY <1>3, <2>2 DEF IInv, OneHolder, Keeps
    <2> QED
      BY <1>2, <2>1, <2>2 DEF OneHolder
  <1>5. Held(w)'
    <2>1. /\ status'[d] = "leased" /\ owner'[d] = w
          /\ left'[d] = LeaseTime - a /\ attempt'[d] = attempt[d]
      BY <1>1 DEF IInv, TypeOK, Lease
    <2> QED
      BY <1>2, <2>1 DEF Held, Mine
  <1>6. ASSUME NEW v \in Worker, v # w, Holding(v)' PROVE Held(v)'
    BY <1>1, <1>3, <1>6, HeldLease
  <1> QED
    BY <1>4, <1>5, <1>6

\* A lease and the time a worker has held it run down together.
LEMMA ElapseHolders ==
    ASSUME IInv, Elapse
    PROVE  OneHolder' /\ \A v \in Worker : Holding(v)' => Held(v)'
  <1> USE WebhookAssumption
  <1>1. ASSUME NEW v \in Worker, Holding(v)'
        PROVE  Holding(v) /\ delivery'[v] = delivery[v] /\ seen'[v] = seen[v] /\ ago'[v] = ago[v] + 1
    BY <1>1 DEF Elapse, Holding
  <1>2. OneHolder'
    <2>1. ASSUME NEW u \in Worker, NEW v \in Worker, u # v,
                 Holding(u)', Holding(v)', delivery'[u] = delivery'[v]
          PROVE  ago'[u] > LeaseTime \/ ago'[v] > LeaseTime
      <3>1. ago[u] > LeaseTime \/ ago[v] > LeaseTime
        BY <1>1, <2>1 DEF IInv, OneHolder
      <3>2. ago'[u] = ago[u] + 1 /\ ago'[v] = ago[v] + 1
        BY <1>1, <2>1
      <3>3. ago[u] \in Int /\ ago[v] \in Int
        BY DEF IInv, TypeOK
      <3> QED
        BY <3>1, <3>2, <3>3
    <2> QED
      BY <2>1 DEF OneHolder
  <1>3. ASSUME NEW v \in Worker, Holding(v)' PROVE Held(v)'
    <2>1. delivery[v] \in Delivery /\ ago[v] \in Int /\ Held(v) /\ delivery'[v] = delivery[v]
      BY <1>1, <1>3 DEF IInv, TypeOK
    <2>2. Mine(v)' <=> Mine(v)
      BY <2>1 DEF Elapse, Mine
    <2>3. Mine(v)' => seen'[v] = attempt'[delivery'[v]]
      BY <1>1, <1>3, <2>1, <2>2 DEF Elapse, Held
    <2>4. ASSUME ago'[v] <= LeaseTime, status'[delivery'[v]] # "cancelled"
          PROVE  Mine(v)' /\ left'[delivery'[v]] = LeaseTime - ago'[v]
      <3>1. ago[v] + 1 <= LeaseTime /\ ago'[v] = ago[v] + 1
        BY <1>1, <1>3, <2>4
      <3>2. Mine(v) /\ left[delivery[v]] = LeaseTime - ago[v]
        BY <2>1, <2>4, <3>1, SMTT(30) DEF Held, Elapse
      <3>3. left'[delivery[v]] = left[delivery[v]] - 1
        BY <2>1, <3>1, <3>2 DEF Elapse, Past, Mine
      <3>4. Mine(v)'
        BY <2>2, <3>2
      <3>5. (LeaseTime - ago[v]) - 1 = LeaseTime - (ago[v] + 1)
        BY <2>1
      <3> QED
        BY <2>1, <3>1, <3>2, <3>3, <3>4, <3>5
    <2> QED
      BY <2>3, <2>4 DEF Held
  <1> QED
    BY <1>2, <1>3

\* Every step keeps the leases exclusive and what their holders rely on.
LEMMA HolderStep ==
    ASSUME IInv, [Next]_vars
    PROVE  OneHolder' /\ \A v \in Worker : Holding(v)' => Held(v)'
  <1> DEFINE Goal == OneHolder' /\ \A v \in Worker : Holding(v)' => Held(v)'
  <1> TypeOK
    BY DEF IInv
  <1>0. ASSUME \A v \in Worker : Holding(v)' => Keeps(v),
               \A v \in Worker : Holding(v)' => Held(v)'
        PROVE  Goal
    BY <1>0, KeptOneHolder
  <1>1. ASSUME NEW w \in Worker, Forget(w), NEW v \in Worker, Holding(v)' PROVE Keeps(v) /\ v # w
    BY <1>1, ForgetType DEF Keeps
  <1>2. ASSUME UNCHANGED worker PROVE \A v \in Worker : Holding(v)' => Keeps(v)
    BY <1>2 DEF worker, Holding, Keeps
  <1> HIDE DEF Goal
  <1>3. ASSUME NEW d \in Delivery, insertDelivery(d) \/ QueueTest(d) PROVE Goal
    <2>1. Queue(d)
      BY <1>3 DEF insertDelivery, QueueTest
    <2>2. UNCHANGED worker
      BY <2>1 DEF Queue
    <2> QED
      BY <1>0, <1>2, <2>1, <2>2, HeldQueue
  <1>4. ASSUME CheckTest PROVE Goal
    <2>1. UNCHANGED worker /\ UNCHANGED outbox
      BY <1>4 DEF CheckTest
    <2>2. \A v \in Worker : Holding(v)' => Keeps(v)
      BY <1>2, <2>1
    <2> QED
      BY <1>0, <2>1, <2>2, HeldUnchanged
  <1>5. ASSUME NEW e \in BOOLEAN, SaveSettings(e) PROVE Goal
    <2>1. UNCHANGED worker
      BY <1>5 DEF SaveSettings
    <2> QED
      BY <1>0, <1>2, <1>5, <2>1, HeldSave
  <1>6. ASSUME NEW w \in Worker, GetSettings(w) \/ Request(w) PROVE Goal
    <2>1. \A v \in Worker : Holding(v)' => Keeps(v)
      BY <1>6 DEF GetSettings, Request, TypeOK, Holding, Keeps
    <2>2. UNCHANGED outbox
      BY <1>6 DEF GetSettings, Request
    <2> QED
      BY <1>0, <2>1, <2>2, HeldUnchanged
  <1>7. ASSUME NEW w \in Worker, Claim(w) PROVE Goal
    BY <1>7, ClaimHolders DEF Goal
  <1>8. ASSUME NEW w \in Worker, NotClaimed(w) PROVE Goal
    <2>1. Forget(w)
      BY <1>8 DEF NotClaimed
    <2>2. CASE UNCHANGED outbox
      BY <1>0, <1>1, <2>1, <2>2, HeldUnchanged
    <2>3. ASSUME NEW d \in Delivery, NEW a \in 0..MaxDelay, Claimable(d, a), Lease(w, d, a)
          PROVE  Goal
      BY <1>0, <1>1, <2>1, <2>3, HeldLease
    <2> QED
      BY <1>8, <2>2, <2>3 DEF NotClaimed
  <1>9. ASSUME NEW w \in Worker, Complete(w) PROVE Goal
    <2>1. Forget(w) /\ Holding(w)
      BY <1>9 DEF Complete, Holding
    <2>2. CASE ~Mine(w)
      <3>1. UNCHANGED outbox
        BY <1>9, <2>2 DEF Complete
      <3> QED
        BY <1>0, <1>1, <2>1, <3>1, HeldUnchanged
    <2>3. CASE Mine(w)
      <3>1. Settle(delivery[w], "delivered") /\ attempt' = attempt
        BY <1>9, <2>3 DEF Complete
      <3> QED
        BY <1>0, <1>1, <2>1, <2>3, <3>1, HeldSettle
    <2> QED
      BY <2>2, <2>3
  <1>10. ASSUME NEW w \in Worker, Fail(w) PROVE Goal
    <2>1. Forget(w) /\ Holding(w)
      BY <1>10 DEF Fail, Holding
    <2>2. CASE ~Mine(w)
      <3>1. UNCHANGED outbox
        BY <1>10, <2>2 DEF Fail
      <3> QED
        BY <1>0, <1>1, <2>1, <3>1, HeldUnchanged
    <2>3. CASE Mine(w)
      <3>1. PICK f \in Failure : CountFailure(w, f)
        BY <1>10, <2>3 DEF Fail
      <3>2. PICK s \in {"pending", "delivered", "terminal"} : Settle(delivery[w], s)
        BY <3>1 DEF CountFailure
      <3>3. \A d \in Delivery \ {delivery[w]} : attempt'[d] = attempt[d]
        BY <3>1 DEF CountFailure, TypeOK
      <3> QED
        BY <1>0, <1>1, <2>1, <2>3, <3>2, <3>3, HeldSettle
    <2> QED
      BY <2>2, <2>3
  <1>11. ASSUME NEW w \in Worker, RecordFails(w) \/ Crash(w) PROVE Goal
    <2>1. Forget(w) /\ UNCHANGED outbox
      BY <1>11 DEF RecordFails, Crash
    <2> QED
      BY <1>0, <1>1, <2>1, HeldUnchanged
  <1>12. ASSUME Elapse PROVE Goal
    BY <1>12, ElapseHolders DEF Goal
  <1>13. ASSUME UNCHANGED vars PROVE Goal
    <2>1. UNCHANGED worker /\ UNCHANGED outbox
      BY <1>13 DEF vars
    <2>2. \A v \in Worker : Holding(v)' => Keeps(v)
      BY <1>2, <2>1
    <2> QED
      BY <1>0, <2>1, <2>2, HeldUnchanged
  <1>14. ASSUME NEW w \in Worker, Step(w) \/ Crash(w) PROVE Goal
    BY <1>6, <1>7, <1>8, <1>9, <1>10, <1>11, <1>14 DEF Step
  <1>15. Goal
    BY <1>3, <1>4, <1>5, <1>12, <1>13, <1>14 DEF Next
  <1> QED
    BY <1>15 DEF Goal

-----------------------------------------------------------------------------
(* The number of attempts                                                  *)

\* What IInv says of one row.
CountOK(d) ==
    /\ status[d] \in {"none", "pending", "leased"} => attempt[d] < MaxAttempts
    /\ status[d] = "terminal" => attempt[d] = MaxAttempts \/ d \in refused

\* An owner's failure counts from the number in the table, so that the delivery
\* is given up neither early nor late.
LEMMA FailCount ==
    ASSUME IInv, NEW w \in Worker, Holding(w), Mine(w), NEW f \in Failure, CountFailure(w, f),
           NEW d \in Delivery
    PROVE  CountOK(d)'
  <1> USE WebhookAssumption
  <1>1. delivery[w] \in Delivery /\ TypeOK
    BY DEF IInv, TypeOK
  <1>2. CASE d # delivery[w]
    <2>1. status'[d] = status[d] /\ attempt'[d] = attempt[d]
      BY <1>1, <1>2 DEF CountFailure, Settle, TypeOK
    <2>2. d \in refused => d \in refused'
      BY DEF CountFailure
    <2> QED
      BY <2>1, <2>2 DEF IInv, GaveUpRightly, CountOK
  <1>3. CASE d = delivery[w]
    <2>1. seen[w] = attempt[d] /\ attempt[d] \in Nat /\ attempt[d] < MaxAttempts
      BY <1>1, <1>3, SMTT(30) DEF IInv, Held, Mine, TypeOK
    <2>2. attempt'[d] = seen[w] + 1
      BY <1>1, <1>3, <2>1 DEF CountFailure, TypeOK
    <2>3. status'[d] = IF Terminal(w, f) THEN "terminal" ELSE "pending"
      BY <1>1, <1>3 DEF CountFailure, Settle, TypeOK
    <2>4. f = "refused" => d \in refused'
      BY <1>3 DEF CountFailure
    <2>5. CASE Terminal(w, f)
      BY <2>1, <2>2, <2>3, <2>4, <2>5 DEF Terminal, CountOK
    <2>6. CASE ~Terminal(w, f)
      BY <2>1, <2>2, <2>3, <2>6 DEF Terminal, CountOK
    <2> QED
      BY <2>5, <2>6
  <1> QED
    BY <1>2, <1>3

\* Every step keeps the counts right.
LEMMA CountStep ==
    ASSUME IInv, [Next]_vars, NEW d \in Delivery
    PROVE  CountOK(d)'
  <1> TypeOK /\ CountOK(d)
    BY DEF IInv, GaveUpRightly, CountOK
  <1>1. ASSUME UNCHANGED <<status, attempt, refused>> PROVE CountOK(d)'
    BY <1>1 DEF CountOK
  <1>2. ASSUME NEW e \in Delivery, insertDelivery(e) \/ QueueTest(e) PROVE CountOK(d)'
    <2>1. Queue(e)
      BY <1>2 DEF insertDelivery, QueueTest
    <2> QED
      BY <2>1 DEF Queue, TypeOK, CountOK
  <1>3. ASSUME NEW e \in BOOLEAN, SaveSettings(e) PROVE CountOK(d)'
    <2>1. /\ status'[d] = status[d] \/ status'[d] = "cancelled"
          /\ UNCHANGED <<attempt, refused>>
      BY <1>3 DEF SaveSettings
    <2> QED
      BY <2>1 DEF CountOK
  <1>4. ASSUME NEW w \in Worker, NEW e \in Delivery, NEW a \in 0..MaxDelay, Claimable(e, a),
               Lease(w, e, a), UNCHANGED refused
        PROVE  CountOK(d)'
    BY <1>4 DEF Claimable, Lease, TypeOK, CountOK
  <1>5. ASSUME NEW w \in Worker, Complete(w) PROVE CountOK(d)'
    <2>1. CASE Mine(w)
      BY <1>5, <2>1 DEF Complete, Settle, TypeOK, CountOK
    <2>2. CASE ~Mine(w)
      BY <1>1, <1>5, <2>2 DEF Complete, outbox
    <2> QED
      BY <2>1, <2>2
  <1>6. ASSUME NEW w \in Worker, Fail(w) PROVE CountOK(d)'
    <2>1. CASE Mine(w)
      BY <1>6, <2>1, FailCount DEF Fail, Holding
    <2>2. CASE ~Mine(w)
      BY <1>1, <1>6, <2>2 DEF Fail, outbox
    <2> QED
      BY <2>1, <2>2
  <1>7. ASSUME NEW w \in Worker, Step(w) \/ Crash(w) PROVE CountOK(d)'
    <2>1. CASE Claim(w)
      BY <1>4, <2>1 DEF Claim
    <2>2. CASE NotClaimed(w)
      BY <1>1, <1>4, <2>2 DEF NotClaimed, outbox
    <2>3. CASE GetSettings(w) \/ Request(w) \/ RecordFails(w) \/ Crash(w)
      BY <1>1, <2>3 DEF GetSettings, Request, RecordFails, Crash, outbox
    <2> QED
      BY <1>5, <1>6, <1>7, <2>1, <2>2, <2>3 DEF Step
  <1>8. CASE CheckTest \/ Elapse \/ UNCHANGED vars
    BY <1>1, <1>8 DEF CheckTest, Elapse, vars, outbox
  <1> QED
    BY <1>2, <1>3, <1>7, <1>8 DEF Next

-----------------------------------------------------------------------------

\* The outbox starts with no row and no holder.
LEMMA InitInv == Init => IInv
  <1> SUFFICES ASSUME Init PROVE IInv
    OBVIOUS
  <1>1. \A w \in Worker : ~Holding(w)
    BY DEF Init, Holding
  <1>2. TypeOK
    <2>1. enabled \in BOOLEAN /\ checked \in BOOLEAN
      BY DEF Init
    <2>2. OutboxType
      BY WebhookAssumption DEF Init, OutboxType
    <2>3. /\ pc \in [Worker -> {"idle", "claim", "request", "record"}]
          /\ delivery \in [Worker -> Delivery \cup {Nobody}]
          /\ seen \in [Worker -> 0..MaxAttempts]
          /\ ago \in [Worker -> 0..MaxHold]
      BY WebhookAssumption DEF Init
    <2>4. saves \in 0..MaxSaves /\ crashes \in 0..MaxCrashes /\ refused \subseteq Delivery
      BY WebhookAssumption DEF Init
    <2> QED
      BY <1>1, <2>1, <2>2, <2>3, <2>4 DEF TypeOK, OutboxType
  <1>3. \A d \in Delivery : status[d] = "none" /\ attempt[d] < MaxAttempts
    BY WebhookAssumption DEF Init
  <1> QED
    BY <1>1, <1>2, <1>3 DEF IInv, OneHolder, GaveUpRightly

\* The inductive invariant, whatever the numbers of dispatchers, deliveries and
\* attempts and the length of the lease (repository.go, worker.go).
THEOREM WebhookInvariant == Spec => []IInv
  <1>1. IInv /\ [Next]_vars => IInv'
    <2> SUFFICES ASSUME IInv, [Next]_vars PROVE IInv'
      OBVIOUS
    <2>1. TypeOK'
      BY TypeStep
    <2>2. OneHolder' /\ \A w \in Worker : Holding(w)' => Held(w)'
      BY HolderStep
    <2>3. \A d \in Delivery : CountOK(d)'
      BY CountStep
    <2> QED
      BY <2>1, <2>2, <2>3 DEF IInv, GaveUpRightly, CountOK
  <1> QED
    BY InitInv, <1>1, PTL DEF Spec

\* Type correctness of the outbox and its dispatchers.
THEOREM WebhookTypeOK == Spec => []TypeOK
  <1>1. IInv => TypeOK
    BY DEF IInv
  <1> QED
    BY <1>1, WebhookInvariant, PTL

\* Two dispatchers post one delivery at once only when one has overrun its lease.
THEOREM WebhookOneSender == Spec => []OneSender
  <1>1. IInv => OneSender
    BY DEF IInv, OneHolder, OneSender, Holding
  <1> QED
    BY <1>1, WebhookInvariant, PTL

\* A delivery is given up after all its attempts or a permanent refusal only.
THEOREM WebhookGaveUpRightly == Spec => []GaveUpRightly
  <1>1. IInv => GaveUpRightly
    BY DEF IInv
  <1> QED
    BY <1>1, WebhookInvariant, PTL

-----------------------------------------------------------------------------
(* The promise                                                             *)

\* What module Outbox sees of the table.
States == [d \in Delivery |-> StateOf(d)]

\* The states of a delivery, before and after a step.
LEMMA StateIs ==
    ASSUME NEW d \in Delivery
    PROVE  /\ status[d] \in {"pending", "leased"} => StateOf(d) = "open"
           /\ status[d] \in {"none", "delivered", "cancelled"} => StateOf(d) = status[d]
           /\ status[d] = "terminal" =>
                 StateOf(d) = IF d \in refused THEN "refused" ELSE "exhausted"
           /\ status'[d] \in {"pending", "leased"} => StateOf(d)' = "open"
           /\ status'[d] \in {"none", "delivered", "cancelled"} => StateOf(d)' = status'[d]
           /\ status'[d] = "terminal" =>
                 StateOf(d)' = IF d \in refused' THEN "refused" ELSE "exhausted"
  BY DEF StateOf

\* A step that touches one row changes the state of one delivery.
LEMMA OneState ==
    ASSUME NEW d \in Delivery,
           \A e \in Delivery \ {d} : status'[e] = status[e] /\ (e \in refused' <=> e \in refused)
    PROVE  States' = [States EXCEPT ![d] = StateOf(d)']
  <1>1. ASSUME NEW e \in Delivery, e # d PROVE StateOf(e)' = StateOf(e)
    BY <1>1 DEF StateOf
  <1> QED
    BY <1>1 DEF States

\* And a step that touches none changes none.
LEMMA SameStates ==
    ASSUME UNCHANGED <<status, attempt, refused>>
    PROVE  UNCHANGED <<States, attempt>>
  BY DEF States, StateOf

\* A claim is not seen: the delivery was open and is open (repository.go:34-61).
LEMMA ClaimUnseen ==
    ASSUME TypeOK, NEW w \in Worker, NEW d \in Delivery, NEW a \in 0..MaxDelay,
           Claimable(d, a), Lease(w, d, a), UNCHANGED refused
    PROVE  UNCHANGED <<States, attempt>>
  <1>1. StateOf(d) = "open" /\ StateOf(d)' = "open" /\ attempt' = attempt
    BY StateIs DEF TypeOK, Claimable, Lease
  <1>2. \A e \in Delivery \ {d} : status'[e] = status[e]
    BY DEF TypeOK, Lease
  <1>3. States' = [States EXCEPT ![d] = "open"]
    BY <1>1, <1>2, OneState
  <1> QED
    BY <1>1, <1>3 DEF States

\* A failure the owner records counts once, and gives up when none is left
\* (worker.go:90-91, repository.go:129-135).
LEMMA FailPromised ==
    ASSUME IInv, NEW w \in Worker, Holding(w), Mine(w), NEW f \in Failure, CountFailure(w, f)
    PROVE  Promised!Fail(delivery[w])
  <1> USE WebhookAssumption
  <1>0. TypeOK
    BY DEF IInv
  <1>1. PICK d \in Delivery : d = delivery[w]
    BY <1>0 DEF TypeOK
  <1>2. StateOf(d) = "open"
    BY <1>1, StateIs DEF Mine
  <1>3. seen[w] = attempt[d] /\ attempt[d] \in Nat /\ attempt[d] < MaxAttempts
    BY <1>1, SMTT(30) DEF IInv, Held, Mine, TypeOK
  <1>4. status'[d] = IF Terminal(w, f) THEN "terminal" ELSE "pending"
    BY <1>0, <1>1 DEF CountFailure, Settle, TypeOK
  <1>5. \A e \in Delivery \ {d} : status'[e] = status[e] /\ (e \in refused' <=> e \in refused)
    BY <1>0, <1>1 DEF CountFailure, Settle, TypeOK
  <1>6. States' = [States EXCEPT ![d] = StateOf(d)']
    BY <1>1, <1>5, OneState
  <1>7. attempt' = [attempt EXCEPT ![d] = @ + 1]
    BY <1>1 DEF CountFailure
  <1>8. \/ attempt[d] + 1 < MaxAttempts /\ StateOf(d)' = "open"
        \/ attempt[d] + 1 = MaxAttempts /\ StateOf(d)' = "exhausted"
        \/ StateOf(d)' = "refused"
    <2>1. CASE Terminal(w, f) /\ d \in refused'
      BY <1>1, <1>4, <2>1, StateIs
    <2>2. CASE Terminal(w, f) /\ d \notin refused'
      <3>1. f # "refused"
        BY <1>1, <2>2 DEF CountFailure
      <3>2. attempt[d] + 1 = MaxAttempts
        BY <1>3, <2>2, <3>1 DEF Terminal
      <3> QED
        BY <1>1, <1>4, <2>2, <3>2, StateIs
    <2>3. CASE ~Terminal(w, f)
      <3>1. attempt[d] + 1 < MaxAttempts
        BY <1>3, <2>3 DEF Terminal
      <3> QED
        BY <1>1, <1>4, <2>3, <3>1, StateIs
    <2> QED
      BY <2>1, <2>2, <2>3
  <1>9. States[d] = "open"
    BY <1>1, <1>2 DEF States
  <1>10. StateOf(d)' = "open" => States' = States
    BY <1>6, <1>9 DEF States
  <1>11. Promised!Fail(d)
    BY <1>6, <1>7, <1>8, <1>9, <1>10 DEF Promised!Fail, States
  <1> QED
    BY <1>1, <1>11

\* Every step is a step of the outbox or is not seen.
LEMMA PromiseStep ==
    ASSUME IInv, [Next]_vars
    PROVE  Promised!Next \/ UNCHANGED <<States, attempt>>
  <1> DEFINE Goal == Promised!Next \/ UNCHANGED <<States, attempt>>
  <1> TypeOK
    BY DEF IInv
  <1>0. ASSUME UNCHANGED <<status, attempt, refused>> PROVE Goal
    BY <1>0, SameStates
  <1>1. ASSUME NEW d \in Delivery,
               Promised!Queue(d) \/ Promised!Deliver(d) \/ Promised!Fail(d)
        PROVE  Goal
    BY <1>1 DEF Promised!Next, Promised!Delivery, Delivery
  <1>2. ASSUME Promised!CancelTests PROVE Goal
    BY <1>2 DEF Promised!Next
  <1>3. ASSUME NEW w \in Worker, NEW d \in Delivery, NEW a \in 0..MaxDelay,
               Claimable(d, a), Lease(w, d, a), UNCHANGED refused
        PROVE  Goal
    BY <1>3, ClaimUnseen
  <1> HIDE DEF Goal
  <1>4. ASSUME NEW d \in Delivery, insertDelivery(d) \/ QueueTest(d) PROVE Goal
    <2>1. Queue(d)
      BY <1>4 DEF insertDelivery, QueueTest
    <2>2. /\ status[d] = "none" /\ status'[d] = "pending" /\ attempt' = attempt
          /\ \A e \in Delivery \ {d} : status'[e] = status[e] /\ (e \in refused' <=> e \in refused)
      BY <2>1 DEF Queue, TypeOK
    <2>3. States[d] = "none" /\ States' = [States EXCEPT ![d] = "open"]
      BY <2>2, StateIs, OneState DEF States
    <2>4. Promised!Queue(d)
      BY <2>2, <2>3 DEF Promised!Queue, States
    <2> QED
      BY <1>1, <2>4
  <1>5. ASSUME NEW e \in BOOLEAN, SaveSettings(e) PROVE Goal
    <2>1. ASSUME NEW d \in Delivery
          PROVE  StateOf(d)' = IF d \in Test /\ StateOf(d) = "open" THEN "cancelled" ELSE StateOf(d)
      <3>1. /\ status'[d] = IF d \in Test /\ status[d] \in {"pending", "leased"}
                            THEN "cancelled" ELSE status[d]
            /\ refused' = refused
        BY <1>5 DEF SaveSettings
      <3>2. status[d] \in {"none", "pending", "leased", "delivered", "terminal", "cancelled"}
        BY DEF TypeOK, Finished
      <3> QED
        BY <3>1, <3>2, StateIs
    <2>2. States' = [d \in Delivery |-> IF d \in Test /\ States[d] = "open"
                                        THEN "cancelled" ELSE States[d]]
      BY <2>1 DEF States
    <2>3. Promised!CancelTests
      BY <1>5, <2>2 DEF SaveSettings, Promised!CancelTests, Promised!Delivery, Delivery, States
    <2> QED
      BY <1>2, <2>3
  <1>6. ASSUME NEW w \in Worker, Complete(w) PROVE Goal
    <2>1. CASE ~Mine(w)
      BY <1>0, <1>6, <2>1 DEF Complete, outbox
    <2>2. CASE Mine(w)
      <3>1. PICK d \in Delivery : d = delivery[w]
        BY <1>6 DEF Complete, TypeOK, Holding
      <3>2. /\ status[d] = "leased" /\ status'[d] = "delivered" /\ attempt' = attempt
            /\ \A e \in Delivery \ {d} : status'[e] = status[e] /\ (e \in refused' <=> e \in refused)
        BY <1>6, <2>2, <3>1 DEF Complete, Mine, Settle, TypeOK
      <3>3. States[d] = "open" /\ States' = [States EXCEPT ![d] = "delivered"]
        BY <3>2, StateIs, OneState DEF States
      <3>4. Promised!Deliver(d)
        BY <3>2, <3>3 DEF Promised!Deliver, States
      <3> QED
        BY <1>1, <3>4
    <2> QED
      BY <2>1, <2>2
  <1>7. ASSUME NEW w \in Worker, Fail(w) PROVE Goal
    <2>1. CASE ~Mine(w)
      BY <1>0, <1>7, <2>1 DEF Fail, outbox
    <2>2. CASE Mine(w)
      <3>1. Holding(w) /\ delivery[w] \in Delivery
        BY <1>7 DEF Fail, Holding, TypeOK
      <3>2. Promised!Fail(delivery[w])
        BY <1>7, <2>2, <3>1, FailPromised DEF Fail
      <3> QED
        BY <1>1, <3>1, <3>2
    <2> QED
      BY <2>1, <2>2
  <1>8. ASSUME NEW w \in Worker, Step(w) \/ Crash(w) PROVE Goal
    <2>1. CASE Claim(w)
      BY <1>3, <2>1 DEF Claim
    <2>2. CASE NotClaimed(w)
      BY <1>0, <1>3, <2>2 DEF NotClaimed, outbox
    <2>3. CASE GetSettings(w) \/ Request(w) \/ RecordFails(w) \/ Crash(w)
      BY <1>0, <2>3 DEF GetSettings, Request, RecordFails, Crash, outbox
    <2> QED
      BY <1>6, <1>7, <1>8, <2>1, <2>2, <2>3 DEF Step
  <1>9. ASSUME CheckTest \/ Elapse \/ UNCHANGED vars PROVE Goal
    BY <1>0, <1>9 DEF CheckTest, Elapse, vars, outbox
  <1>10. Goal
    BY <1>4, <1>5, <1>8, <1>9 DEF Next
  <1> QED
    BY <1>10 DEF Goal

\* The dispatchers together implement the outbox of module Outbox, whatever their
\* number: leases, lapses, late reports and crashes are not seen from outside
\* (repository.go:34-61, 79-97, 114-143, worker.go:78-96).
THEOREM WebhookImplementsOutbox == Spec => OutboxSpec
  <1>1. Init => Promised!Init
    BY DEF Init, Promised!Init, Promised!Delivery, Delivery, StateOf
  <1>2. IInv /\ [Next]_vars => [Promised!Next]_(Promised!vars)
    BY PromiseStep DEF Promised!vars, States
  <1> QED
    BY <1>1, <1>2, WebhookInvariant, PTL DEF Spec, OutboxSpec, Promised!Spec

=============================================================================

------------------------------- MODULE Outbox -------------------------------
(***************************************************************************)
(* What the webhook outbox promises to those who queue deliveries, without *)
(* the dispatchers, leases, clocks and crashes of module Webhook: one      *)
(* attempt counts at a time, against the number there is now; a delivery is*)
(* delivered, refused, exhausted or cancelled once and for all; exhausted  *)
(* means exactly MaxAttempts failed attempts; and only tests are cancelled,*)
(* all that are open together.                                             *)
(***************************************************************************)
EXTENDS Naturals

CONSTANTS
    Alert,        \* deliveries queued by alerts
    Test,         \* deliveries queued by the operator to test the settings
    MaxAttempts

VARIABLES
    state,        \* of each delivery
    tries         \* failed attempts counted

vars == <<state, tries>>

Delivery == Alert \cup Test

Init ==
    /\ state = [d \in Delivery |-> "none"]
    /\ tries = [d \in Delivery |-> 0]

Queue(d) ==
    /\ state[d] = "none"
    /\ state' = [state EXCEPT ![d] = "open"]
    /\ UNCHANGED tries

Deliver(d) ==
    /\ state[d] = "open"
    /\ state' = [state EXCEPT ![d] = "delivered"]
    /\ UNCHANGED tries

\* A failed attempt leaves the delivery open as long as one more is allowed; the
\* receiver may refuse it for good at any attempt.
Fail(d) ==
    /\ state[d] = "open"
    /\ tries' = [tries EXCEPT ![d] = @ + 1]
    /\ \/ tries[d] + 1 < MaxAttempts /\ UNCHANGED state
       \/ tries[d] + 1 = MaxAttempts /\ state' = [state EXCEPT ![d] = "exhausted"]
       \/ state' = [state EXCEPT ![d] = "refused"]

CancelTests ==
    /\ state' = [d \in Delivery |-> IF d \in Test /\ state[d] = "open" THEN "cancelled" ELSE state[d]]
    /\ UNCHANGED tries

Next == CancelTests \/ \E d \in Delivery : Queue(d) \/ Deliver(d) \/ Fail(d)

Spec == Init /\ [][Next]_vars

=============================================================================

----------------------------- MODULE MCWebhook -----------------------------
(***************************************************************************)
(* Two dispatchers, a delivery of an alert and one of a test.  A worker may*)
(* hold a delivery for longer than its lease.                              *)
(***************************************************************************)
EXTENDS Webhook

MCWorker == {"server-a", "server-b"}
MCNobody == "NULL"
MCAlert == {"opened"}
MCTest == {"test"}
MCDelays == <<1>>

=============================================================================

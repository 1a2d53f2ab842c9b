---------------------------- MODULE MCScheduler ----------------------------
(***************************************************************************)
(* Two servers and one job.  With a lease of six instants, heartbeats every*)
(* two and delays of one, no heartbeat may fail: the first that does ends  *)
(* "punctual", and the second lets the lease lapse.                        *)
(***************************************************************************)
EXTENDS Scheduler

MCServer == {"server-a", "server-b"}
MCNobody == "NULL"

=============================================================================

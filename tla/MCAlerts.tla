------------------------------ MODULE MCAlerts ------------------------------
(* Two servers and a rule with two severities, evaluated for two nodes. *)
EXTENDS Alerts

MCServer == {"server-a", "server-b"}
MCObject == {"owner"}

=============================================================================

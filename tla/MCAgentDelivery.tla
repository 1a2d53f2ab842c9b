-------------------------- MODULE MCAgentDelivery --------------------------
(* One agent with one interface.                                            *)
EXTENDS AgentDelivery

MCHealthEvent ==
    [code : {"data_gap"}, dropped : 1..MaxTime]
      \cup [code : {"buffer_pressure", "buffer_recovered"}, dropped : {0}]
MCInterface == [n \in Node |-> "eth0"]

=============================================================================

---------------------------- MODULE MCManyAgents ----------------------------
(***************************************************************************)
(* Two agents, each with two samples, a summary of their minute that grows *)
(* by the second of them after it was sent, a detail batch and three       *)
(* reports of the spool, two of them in one tick.  No two nodes sample at  *)
(* one instant.                                                            *)
(***************************************************************************)
EXTENDS ManyAgents

MCHealthEvent == [code : {"data_gap", "buffer_pressure"}, dropped : 0..2]

gap(k) == [code |-> "data_gap", dropped |-> k]
pressure == [code |-> "buffer_pressure", dropped |-> 0]

Summary(U, samples) == [NewBatch("minute-summary", 3, U, {}) EXCEPT !.compacted = samples]

AgentBatches(n) ==
    {NewBatch("batch", n + 2, {1}, {}), NewBatch("batch", n + 4, {2}, {}),
     Summary({3}, {<<"batch", n + 3>>}),
     Summary({2, 3}, {<<"batch", n + 3>>, <<"batch", n + 4>>}),
     NewBatch("detail", 4, {}, {}),
     NewBatch("health-batch", 3, {}, {gap(1), pressure}),
     NewBatch("health-batch", 4, {}, {gap(2)}), NewBatch("health-batch", 4, {}, {gap(1)})}

MCSent == UNION {{n} \X AgentBatches(n) : n \in Node}

\* Two hosts whose interfaces have different names, or the same name.
OwnNames == [n \in Node |-> n]
SameName == [n \in Node |-> "eth0"]

=============================================================================

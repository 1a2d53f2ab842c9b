------------------------------ MODULE MCTracer ------------------------------
(* Two threads of one process, a TCP and a UDP socket.                      *)
EXTENDS Tracer

MCProcess == [t \in Thread |-> "p"]
MCSock == {"tcp", "udp", "odd"}
MCProtocol == [s \in Sock |-> IF s = "udp" THEN "udp" ELSE "tcp"]
MCFamily == [s \in Sock |-> IF s = "odd" THEN "other" ELSE "inet"]
MCCopied == {-1, 1, 2}

=============================================================================

------------------------------- MODULE Tracer -------------------------------
(***************************************************************************)
(* From a socket call in the kernel to a recorded connection event: the    *)
(* probes of internal/agent/ebpf/socket_flow.bpf.c, the tracer that attaches*)
(* them and reads their ring buffer, the channel to the main loop of       *)
(* cmd/flowlens-agent and the connection Collector of                      *)
(* internal/agent/ownership.                                               *)
(*                                                                         *)
(* A thread makes one call at a time.  What fill_event reads when a call is*)
(* entered is named by the number of that call, so an event is a pair: the *)
(* call whose entry filled it and the call whose return gave it its bytes. *)
(* The kernel may fail to run a probe, and runs a return probe only for a  *)
(* call that found the probe attached, with an instance free, when it was  *)
(* entered; it evicts some entry of an LRU map that is full.               *)
(***************************************************************************)
EXTENDS Integers, Sequences, FiniteSets, Functions

CONSTANTS
    Thread,         \* keys bpf_get_current_pid_tgid
    Process,        \* Process[t]: the owner Attribute finds for thread t
    Sock,           \* sockets
    Protocol,       \* Protocol[s]: "tcp" or "udp"
    Family,         \* Family[s]: "inet", "inet6" or another one
    Peer,           \* remote ends
    NoPeer,         \* remote port 0
    Copied,         \* what a call can return
    MaxEntries,     \* max_entries of pending_sends and udp_receives
    RingSize,       \* events the ring buffer holds
    ChannelSize,    \* capacity of the channel observations
    MaxConnections, \* maxActiveConnections
    MaxInt64,       \* where saturatingAdd stops
    MaxCalls,       \* bound on the calls
    MaxMisses       \* bound on the probes the kernel does not run

ASSUME TracerAssumption ==
    /\ IsFiniteSet(Thread)
    /\ Protocol \in [Sock -> {"tcp", "udp"}]
    /\ NoPeer \notin Peer
    /\ Copied \subseteq Int
    /\ MaxEntries \in Nat \ {0} /\ RingSize \in Nat \ {0} /\ ChannelSize \in Nat \ {0}
    /\ MaxConnections \in Nat /\ MaxInt64 \in Nat /\ MaxCalls \in Nat /\ MaxMisses \in Nat

VARIABLES
    peer,           \* skc_daddr and skc_dport, per socket
    count,          \* the number of calls so far
    calls,          \* the calls, numbered in the order they were entered
    active,         \* the call a thread is in, 0 for none
    armed,          \* the threads whose call will run its return probe
    misses,         \* probes the kernel did not run
    saved,          \* pending_sends and udp_receives: per thread, the call
                    \* whose entry was saved, 0 for none
    events,         \* the ring buffer
    attached,       \* how many links are open, in the order of NewTracer
    phase,          \* of the process: "down", "attach", "run"
    cancelled,      \* the context is done
    runner,         \* Run: "read", "send", "nil" or "error"
    held,           \* the observations Run has read and not sent
    output,         \* the channel observations
    values,         \* Collector.values
    merged          \* history: the events added up in values

kernelVars == <<peer, count, calls, active, armed, misses, saved, events>>
agentVars == <<attached, phase, cancelled, runner, held, output, values, merged>>
vars == <<kernelVars, agentVars>>

CallID == Nat \ {0}
Event == [from : CallID, call : CallID]
Op == {"tcp_sendmsg", "tcp_cleanup_rbuf", "udp_sendmsg", "udp_recvmsg"}
Direction == {"sent", "received"}

\* What the entry probe of a call has left behind for its return probe.
Entry == {"saved", "evicted", "missed", "unsupported"}

\* A call is open until it returns; then its bytes are submitted, or lost for
\* want of a return probe.  Over stands for all calls that have come to an
\* end: without bytes, not saved, no room in the ring buffer, dropped,
\* recorded, not recorded, or abandoned when the process ended.
Call == [thread : Thread, sock : Sock, op : Op, remote : Peer \cup {NoPeer},
         entry : Entry, copied : Int, fate : {"open", "submitted", "unreturned"}]
Over == [fate |-> "over"]

\* The links NewTracer opens, numbered in the order in which it does.
EntryLink == [tcp_sendmsg |-> 1, tcp_cleanup_rbuf |-> 3, udp_sendmsg |-> 4, udp_recvmsg |-> 6]
ReturnLink == [tcp_sendmsg |-> 2, udp_sendmsg |-> 5, udp_recvmsg |-> 7]
Links == 7

\* tcp_sendmsg and udp_sendmsg share a map.
Map == {"pending_sends", "udp_receives"}
MapOf(op) == IF op = "udp_recvmsg" THEN "udp_receives" ELSE "pending_sends"
EmptyMaps == [m \in Map |-> [t \in Thread |-> 0]]

CallsOf(E) == {e.call : e \in E}
Pipeline == Range(events) \cup held \cup Range(output) \cup merged

\* The bytes of the events E have come to their end.
Settled(E) == [n \in 1..count |-> IF n \in CallsOf(E) THEN Over ELSE calls[n]]

-----------------------------------------------------------------------------
(* The programs of socket_flow.bpf.c                                       *)

\* Faulty variant: the upper half, the process.
ProcessID(t) == CHOOSE u \in Thread : Process[u] = Process[t]

\* bpf_get_current_pid_tgid
ID(t) == t

fill_event(s) == Family[s] \in {"inet", "inet6"}

\* bpf_map_update_elem with BPF_ANY on an LRU map: what the map may become.
Updated(map, id, n) ==
    LET used == {u \in Thread : map[u] # 0}
    IN  IF map[id] # 0 \/ Cardinality(used) < MaxEntries
        THEN {[map EXCEPT ![id] = n]}
        ELSE {[map EXCEPT ![id] = n, ![v] = 0] : v \in used}

\* Whether the kernel runs a probe that is there to be run.
Runs(probe) == IF ~probe THEN {FALSE} ELSE IF misses < MaxMisses THEN BOOLEAN ELSE {TRUE}
Miss(probe, run) == IF probe /\ ~run THEN 1 ELSE 0

\* A thread enters tcp_sendmsg, udp_sendmsg or udp_recvmsg.  The entry probe
\* fills an event and saves it; one that cannot be filled leaves the map alone.
Enter(t, s, op) ==
    LET n == count + 1
        map == saved[MapOf(op)]
        probe == EntryLink[op] <= attached
        returnProbe == ReturnLink[op] <= attached
    IN  /\ phase # "down" /\ active[t] = 0
        /\ n <= MaxCalls
        /\ \E run \in Runs(probe), arm \in Runs(returnProbe) :
             \E after \in IF run /\ fill_event(s) THEN Updated(map, ID(t), n) ELSE {map} :
                /\ misses' = misses + Miss(probe, run) + Miss(returnProbe, arm)
                /\ armed' = IF arm THEN armed \cup {t} ELSE armed
                /\ saved' = [saved EXCEPT ![MapOf(op)] = after]
                /\ calls' = [m \in 1..n |->
                     IF m = n
                     THEN [thread |-> t, sock |-> s, op |-> op, remote |-> peer[s],
                           entry |-> IF ~run THEN "missed"
                                     ELSE IF fill_event(s) THEN "saved" ELSE "unsupported",
                           copied |-> 0, fate |-> "open"]
                     ELSE IF \E u \in Thread : active[u] = m /\ map[u] = m /\ after[u] = 0
                     THEN [calls[m] EXCEPT !.entry = "evicted"]
                     ELSE calls[m]]
        /\ count' = n
        /\ active' = [active EXCEPT ![t] = n]
        /\ UNCHANGED <<peer, events, agentVars>>

\* bpf_ringbuf_reserve finds room.
Room == Len(events) < RingSize

\* Faulty variant: an entry without bytes to report is kept.
LeaveKeepingEmpty(t, copied) ==
    LET n == active[t]
        m == MapOf(calls[n].op)
        from == saved[m][ID(t)]
        emits == t \in armed /\ from # 0 /\ copied > 0 /\ Room
    IN  /\ n # 0
        /\ saved' = IF t \in armed /\ copied > 0 THEN [saved EXCEPT ![m][ID(t)] = 0] ELSE saved
        /\ events' = IF emits THEN Append(events, [from |-> from, call |-> n]) ELSE events
        /\ calls' = [calls EXCEPT ![n] =
             IF emits THEN [@ EXCEPT !.copied = copied, !.fate = "submitted"]
             ELSE IF t \notin armed /\ from = n THEN [@ EXCEPT !.copied = copied, !.fate = "unreturned"]
             ELSE Over]
        /\ active' = [active EXCEPT ![t] = 0]
        /\ armed' = armed \ {t}
        /\ UNCHANGED <<peer, count, misses, agentVars>>

\* The call returns.  If its return probe runs, emit_send or
\* trace_udp_recvmsg_return submits what the thread has saved with the bytes
\* of this call, and deletes it whatever happens.
Leave(t, copied) ==
    LET n == active[t]
        m == MapOf(calls[n].op)
        from == saved[m][ID(t)]
        emits == t \in armed /\ from # 0 /\ copied > 0 /\ Room
    IN  /\ n # 0
        /\ saved' = IF t \in armed THEN [saved EXCEPT ![m][ID(t)] = 0] ELSE saved
        /\ events' = IF emits THEN Append(events, [from |-> from, call |-> n]) ELSE events
        /\ calls' = [calls EXCEPT ![n] =
             IF emits THEN [@ EXCEPT !.copied = copied, !.fate = "submitted"]
             ELSE IF t \notin armed /\ from = n THEN [@ EXCEPT !.copied = copied, !.fate = "unreturned"]
             ELSE Over]
        /\ active' = [active EXCEPT ![t] = 0]
        /\ armed' = armed \ {t}
        /\ UNCHANGED <<peer, count, misses, agentVars>>

\* A thread has read from a TCP socket: trace_tcp_cleanup_rbuf, emit.
tcp_cleanup_rbuf(t, s, copied) ==
    LET n == count + 1
        probe == EntryLink["tcp_cleanup_rbuf"] <= attached
    IN  /\ phase # "down" /\ active[t] = 0
        /\ n <= MaxCalls
        /\ \E run \in Runs(probe) :
            LET emits == run /\ copied > 0 /\ Room /\ fill_event(s)
            IN  /\ misses' = misses + Miss(probe, run)
                /\ events' = IF emits THEN Append(events, [from |-> n, call |-> n]) ELSE events
                /\ calls' = [m \in 1..n |->
                     IF m # n THEN calls[m]
                     ELSE IF ~emits THEN Over
                     ELSE [thread |-> t, sock |-> s, op |-> "tcp_cleanup_rbuf",
                           remote |-> peer[s], entry |-> "saved",
                           copied |-> copied, fate |-> "submitted"]]
        /\ count' = n
        /\ UNCHANGED <<peer, active, armed, saved, agentVars>>

\* An application connects a UDP socket, perhaps while another of its threads
\* is in a call on it.
Connect(s, p) ==
    /\ phase # "down" /\ Protocol[s] = "udp"
    /\ peer' = [peer EXCEPT ![s] = p]
    /\ UNCHANGED <<count, calls, active, armed, misses, saved, events, agentVars>>

Kernel ==
    \/ \E t \in Thread, s \in Sock :
        \/ Protocol[s] = "tcp" /\ Enter(t, s, "tcp_sendmsg")
        \/ Protocol[s] = "udp" /\ Enter(t, s, "udp_sendmsg")
        \/ Protocol[s] = "udp" /\ Enter(t, s, "udp_recvmsg")
        \/ Protocol[s] = "tcp" /\ \E copied \in Copied : tcp_cleanup_rbuf(t, s, copied)
    \/ \E t \in Thread, copied \in Copied : Leave(t, copied)
    \/ \E s \in Sock, p \in Peer : Connect(s, p)

-----------------------------------------------------------------------------
(* NewTracer and Close                                                     *)

\* The agent is started and loads the objects.
Start ==
    /\ phase = "down"
    /\ phase' = "attach"
    /\ UNCHANGED <<kernelVars, attached, cancelled, runner, held, output, values, merged>>

\* Faulty variant: a link too many.
AttachOneMore ==
    /\ phase = "attach"
    /\ IF attached <= Links THEN attached' = attached + 1 /\ UNCHANGED phase
                            ELSE phase' = "run" /\ UNCHANGED attached
    /\ UNCHANGED <<kernelVars, cancelled, runner, held, output, values, merged>>

\* The next link, or the reader of the ring buffer, is opened.
Attach ==
    /\ phase = "attach"
    /\ IF attached < Links THEN attached' = attached + 1 /\ UNCHANGED phase
                           ELSE phase' = "run" /\ UNCHANGED attached
    /\ UNCHANGED <<kernelVars, cancelled, runner, held, output, values, merged>>

\* Reader, links and objects are closed and the process ends.  It is one
\* step: from the first link on nobody reads what the probes submit, and the
\* maps go with the objects.
Close ==
    /\ attached' = 0 /\ armed' = {} /\ saved' = EmptyMaps
    /\ calls' = Settled(Pipeline)
    /\ events' = <<>> /\ held' = {} /\ output' = <<>>
    /\ values' = <<>> /\ merged' = {}
    /\ phase' = "down" /\ cancelled' = FALSE /\ runner' = "read"
    /\ UNCHANGED <<peer, count, active, misses>>

AttachFails == phase = "attach" /\ Close

-----------------------------------------------------------------------------
(* Run, in its own goroutine                                               *)

\* Run looks at the context before it waits for an event; one it is already
\* waiting for is read even when the context is done in the meantime.
RunRead ==
    /\ phase = "run" /\ runner = "read" /\ events # <<>>
    /\ held' = {Head(events)}
    /\ events' = Tail(events)
    /\ runner' = "send"
    /\ UNCHANGED <<peer, count, calls, active, armed, misses, saved,
                   attached, phase, cancelled, output, values, merged>>

\* Faulty variant: a place of the channel is left free.
RunSendReserving ==
    /\ phase = "run" /\ runner = "send" /\ Len(output) + 1 < ChannelSize
    /\ \E e \in held : output' = Append(output, e)
    /\ held' = {}
    /\ runner' = "read"
    /\ UNCHANGED <<kernelVars, attached, phase, cancelled, values, merged>>

RunSend ==
    /\ phase = "run" /\ runner = "send" /\ Len(output) < ChannelSize
    /\ \E e \in held : output' = Append(output, e)
    /\ held' = {}
    /\ runner' = "read"
    /\ UNCHANGED <<kernelVars, attached, phase, cancelled, values, merged>>

RunReturns ==
    /\ phase = "run" /\ runner \in {"read", "send"}
    /\ \/ cancelled /\ runner' = "nil"
       \/ runner = "read" /\ runner' = "error"
    /\ UNCHANGED <<kernelVars, attached, phase, cancelled, held, output, values, merged>>

-----------------------------------------------------------------------------
(* The main loop and the connection Collector                              *)

saturatingAdd(a, b) == IF a > MaxInt64 - b THEN MaxInt64 ELSE a + b

\* The connectionKey of an event, from what fill_event read.
Key(e) == LET c == calls[e.from] IN <<Process[c.thread], c.sock, c.remote>>

\* BytesSent and BytesReceived of an event.
Bytes(e, d) ==
    LET c == calls[e.call]
    IN  IF (d = "sent") = (c.op \in {"tcp_sendmsg", "udp_sendmsg"}) THEN c.copied ELSE 0

Current(k, d) == IF k \in DOMAIN values THEN values[k][d] ELSE 0

\* Faulty variant: the last event wins.
MergeLast(e) ==
    [k \in DOMAIN values \cup {Key(e)} |->
        IF k = Key(e) THEN [d \in Direction |-> Bytes(e, d)] ELSE values[k]]

Merge(e) ==
    [k \in DOMAIN values \cup {Key(e)} |->
        IF k = Key(e) THEN [d \in Direction |-> saturatingAdd(Current(k, d), Bytes(e, d))]
                      ELSE values[k]]

Accepted(e) ==
    /\ calls[e.from].remote # NoPeer
    /\ Key(e) \in DOMAIN values \/ Cardinality(DOMAIN values) < MaxConnections

Observe ==
    /\ phase = "run" /\ output # <<>>
    /\ LET e == Head(output)
       IN  IF Accepted(e)
           THEN /\ values' = Merge(e) /\ merged' = merged \cup {e}
                /\ UNCHANGED calls
           ELSE /\ calls' = Settled({e})
                /\ UNCHANGED <<values, merged>>
    /\ output' = Tail(output)
    /\ UNCHANGED <<peer, count, active, armed, misses, saved, events,
                   attached, phase, cancelled, runner, held>>

\* Faulty variant: the values are recorded and kept.
TickKeepingValues ==
    /\ phase = "run" /\ merged # {}
    /\ calls' = Settled(merged)
    /\ UNCHANGED <<peer, count, active, armed, misses, saved, events,
                   attached, phase, cancelled, runner, held, output, values, merged>>

\* Record(Drain()): the values are forgotten even if queueing them fails.
Tick ==
    /\ phase = "run" /\ merged # {}
    /\ values' = <<>> /\ merged' = {}
    /\ calls' = Settled(merged)
    /\ UNCHANGED <<peer, count, active, armed, misses, saved, events,
                   attached, phase, cancelled, runner, held, output>>

Cancel ==
    /\ phase \in {"attach", "run"} /\ ~cancelled
    /\ cancelled' = TRUE
    /\ UNCHANGED <<kernelVars, attached, phase, runner, held, output, values, merged>>

\* ctx.Done(): what has been observed is recorded, the channel is not emptied.
Done == phase = "run" /\ cancelled /\ Close

\* Run has returned: the loop ends without Drain, also when the context is
\* done and it is this case that select has chosen.
TracerStopped == phase = "run" /\ runner \in {"nil", "error"} /\ Close

-----------------------------------------------------------------------------

Init ==
    /\ peer \in [Sock -> Peer \cup {NoPeer}]
    /\ \A s \in Sock : peer[s] = NoPeer <=> Protocol[s] = "udp"
    /\ count = 0 /\ calls = <<>>
    /\ active = [t \in Thread |-> 0] /\ armed = {} /\ misses = 0
    /\ saved = EmptyMaps /\ events = <<>>
    /\ attached = 0 /\ phase = "down" /\ cancelled = FALSE
    /\ runner = "read" /\ held = {} /\ output = <<>>
    /\ values = <<>> /\ merged = {}

Agent ==
    \/ Start \/ Attach \/ AttachFails
    \/ RunRead \/ RunSend \/ RunReturns
    \/ Observe \/ Tick \/ Cancel \/ Done \/ TracerStopped

Next == Kernel \/ Agent

Spec == Init /\ [][Next]_vars

\* The goroutines run, the ticker ticks, and a process that stops gets to its
\* end.  Nobody need make a call, cancel the context or start the agent.
FairSpec ==
    /\ Spec
    /\ WF_vars(Attach \/ AttachFails) /\ WF_vars(RunRead) /\ WF_vars(RunSend)
    /\ WF_vars(Observe) /\ WF_vars(Tick)
    /\ WF_vars(Done \/ TracerStopped)

-----------------------------------------------------------------------------

TypeOK ==
    /\ peer \in [Sock -> Peer \cup {NoPeer}]
    /\ count \in Nat /\ calls \in [1..count -> Call \cup {Over}]
    /\ active \in [Thread -> 0..count] /\ armed \subseteq Thread /\ misses \in Nat
    /\ saved \in [Map -> [Thread -> 0..count]]
    /\ events \in Seq(Event) /\ output \in Seq(Event)
    /\ held \subseteq Event /\ merged \subseteq Event
    /\ attached \in 0..Links /\ phase \in {"down", "attach", "run"}
    /\ cancelled \in BOOLEAN /\ runner \in {"read", "send", "nil", "error"}

\* An event tells the connection of the very call that moved its bytes.  The
\* one exception needs two probes of a thread that did not run: the entry of
\* this call and, before it, the return of the call whose entry is used
\* (socket_flow.bpf.c:98-190).
SnapshotOfItsCall ==
    \A e \in Pipeline :
        e.from = e.call \/ /\ calls[e.from].fate = "unreturned"
                           /\ calls[e.call].entry \in {"missed", "unsupported"}
                           /\ calls[e.from].thread = calls[e.call].thread

\* The event saved for a call is there when the call returns, unless the
\* kernel has evicted it: no other thread and no other call takes it away
\* (socket_flow.bpf.c:36-48, 98-125).
SavedUntilReturn ==
    \A t \in Thread :
        active[t] # 0 /\ t \in armed /\ calls[active[t]].entry = "saved"
            => saved[MapOf(calls[active[t]].op)][ID(t)] = active[t]

Place == <<Range(events), held, Range(output), merged>>

\* Between the kernel and the recorded events nothing is lost silently and
\* nothing is counted twice: the bytes that were submitted are in one place.
SubmittedOnce ==
    /\ \A n \in 1..count : calls[n].fate = "submitted" <=> n \in CallsOf(Pipeline)
    /\ \A e, f \in Pipeline : e.call = f.call \/ e.from = f.from => e = f
    /\ IsInjective(events) /\ IsInjective(output)
    /\ \A i, j \in 1..4 : i # j => Place[i] \cap Place[j] = {}

\* The bytes of the events E, one by one: their number is the sum.
BytesOf(E, d) == UNION {{e} \X (1..Bytes(e, d)) : e \in E}
Saturated(n) == IF n > MaxInt64 THEN MaxInt64 ELSE n

\* The totals of a connection are those of its calls (collector.go:88-107).
TotalsExact ==
    /\ DOMAIN values = {Key(e) : e \in merged}
    /\ \A k \in DOMAIN values, d \in Direction :
        values[k][d] = Saturated(Cardinality(BytesOf({e \in merged : Key(e) = k}, d)))

\* What has been submitted is recorded or given up in the end, however long
\* the main loop keeps the channel and the ring buffer full.
Settles ==
    \A n \in 1..MaxCalls :
        (n <= count /\ calls[n].fate = "submitted") ~> (n <= count /\ calls[n] = Over)

=============================================================================

---------------------------- MODULE TracerProofs ----------------------------
(***************************************************************************)
(* The probes and the pipeline behind them, for any number of threads,     *)
(* sockets and calls and any size of the maps, the ring buffer and the     *)
(* channel: events describe their own call, entries stay until the return, *)
(* and what was submitted is in one place.                                 *)
(***************************************************************************)
EXTENDS Tracer, TLAPS

Probed == Op \ {"tcp_cleanup_rbuf"}
Threaded(n, t) == calls[n] \in Call /\ calls[n].thread = t /\ calls[n].op \in Probed

\* A thread's call is its own and open.
ActiveOwn ==
    \A t \in Thread : active[t] # 0 => Threaded(active[t], t) /\ calls[active[t]].fate = "open"

\* What is saved for a thread is its own, in the map of its call, and belongs to
\* the call it is in or to one whose return probe did not run.
SavedOwn ==
    \A m \in Map, t \in Thread : saved[m][t] # 0 =>
        /\ Threaded(saved[m][t], t) /\ MapOf(calls[saved[m][t]].op) = m
        /\ saved[m][t] = active[t] \/ calls[saved[m][t]].fate = "unreturned"

\* Nothing is saved for a thread whose entry was evicted, until its next call.
EvictedGone ==
    \A t \in Thread : active[t] # 0 /\ calls[active[t]].entry = "evicted" =>
        saved[MapOf(calls[active[t]].op)][t] = 0

\* Events are filled and submitted, and none is filled from what is still saved.
Filled ==
    \A e \in Pipeline :
        /\ e.call \in 1..count /\ e.from \in 1..count
        /\ calls[e.call] \in Call /\ calls[e.call].fate = "submitted"
        /\ \A m \in Map, t \in Thread : saved[m][t] # e.from

\* Run holds at most one event, and none when it waits for the next.
HeldOne ==
    /\ runner = "read" => held = {}
    /\ \A e, f \in held : e = f

\* The conjuncts of SubmittedOnce.
Accounted == \A n \in 1..count : calls[n].fate = "submitted" <=> n \in CallsOf(Pipeline)
Unique == \A e, f \in Pipeline : e.call = f.call \/ e.from = f.from => e = f
Apart ==
    /\ IsInjective(events) /\ IsInjective(output)
    /\ Range(events) \cap held = {} /\ Range(events) \cap Range(output) = {}
    /\ Range(events) \cap merged = {} /\ held \cap Range(output) = {}
    /\ held \cap merged = {} /\ Range(output) \cap merged = {}

IInv ==
    /\ ActiveOwn /\ SavedOwn /\ EvictedGone /\ Filled /\ HeldOne
    /\ SavedUntilReturn /\ SnapshotOfItsCall /\ Accounted /\ Unique /\ Apart

-----------------------------------------------------------------------------
(* Sequences                                                               *)

LEMMA TailFacts ==
    ASSUME NEW S, NEW s \in Seq(S), s # <<>>
    PROVE  /\ Head(s) \in S /\ Tail(s) \in Seq(S)
           /\ Range(s) = {Head(s)} \cup Range(Tail(s))
           /\ IsInjective(s) => IsInjective(Tail(s)) /\ Head(s) \notin Range(Tail(s))
<1>1. /\ Len(s) \in Nat /\ Len(s) > 0 /\ DOMAIN s = 1..Len(s)
      /\ Head(s) = s[1] /\ s[1] \in S /\ Tail(s) \in Seq(S)
  OBVIOUS
<1>2. DOMAIN Tail(s) = 1..(Len(s) - 1) /\ \A i \in 1..(Len(s) - 1) : Tail(s)[i] = s[i + 1]
  BY <1>1
<1>3. Range(Tail(s)) \subseteq Range(s) /\ Head(s) \in Range(s)
  BY <1>1, <1>2 DEF Range
<1>4. ASSUME NEW x \in Range(s), x # Head(s) PROVE x \in Range(Tail(s))
  <2>1. PICK i \in 1..Len(s) : x = s[i]
    BY <1>1, <1>4 DEF Range
  <2>2. i - 1 \in 1..(Len(s) - 1) /\ Tail(s)[i - 1] = x
    BY <1>1, <1>2, <1>4, <2>1
  <2>3. QED
    BY <1>2, <2>2, Zenon DEF Range
<1>5. ASSUME IsInjective(s) PROVE IsInjective(Tail(s)) /\ Head(s) \notin Range(Tail(s))
  BY <1>1, <1>2, <1>5 DEF IsInjective, Range
<1>6. QED
  BY <1>1, <1>3, <1>4, <1>5

LEMMA AppendFacts ==
    ASSUME NEW S, NEW s \in Seq(S), NEW e \in S
    PROVE  /\ Append(s, e) \in Seq(S)
           /\ Range(Append(s, e)) = Range(s) \cup {e}
           /\ IsInjective(s) /\ e \notin Range(s) => IsInjective(Append(s, e))
<1>1. /\ Len(s) \in Nat /\ DOMAIN s = 1..Len(s) /\ Append(s, e) \in Seq(S)
      /\ DOMAIN Append(s, e) = 1..(Len(s) + 1)
  OBVIOUS
<1>2. /\ \A i \in 1..Len(s) : Append(s, e)[i] = s[i]
      /\ Append(s, e)[Len(s) + 1] = e
  BY <1>1
<1>3. Range(Append(s, e)) = Range(s) \cup {e}
  <2>1. Range(s) \cup {e} \subseteq Range(Append(s, e))
    BY <1>1, <1>2 DEF Range
  <2>2. ASSUME NEW i \in 1..(Len(s) + 1) PROVE Append(s, e)[i] \in Range(s) \cup {e}
    <3>1. CASE i \in 1..Len(s)
      BY <1>1, <1>2, <3>1 DEF Range
    <3>2. CASE i = Len(s) + 1
      BY <1>2, <3>2
    <3>3. QED
      BY <1>1, <3>1, <3>2
  <2>3. QED
    BY <1>1, <2>1, <2>2 DEF Range
<1>4. ASSUME IsInjective(s), e \notin Range(s) PROVE IsInjective(Append(s, e))
  BY <1>1, <1>2, <1>4 DEF IsInjective, Range
<1>5. QED
  BY <1>1, <1>3, <1>4

\* SubmittedOnce, conjunct by conjunct.
LEMMA Split == SubmittedOnce <=> Accounted /\ Unique /\ Apart
<1>1. (\A i, j \in 1..4 : i # j => Place[i] \cap Place[j] = {}) <=>
        /\ Range(events) \cap held = {} /\ Range(events) \cap Range(output) = {}
        /\ Range(events) \cap merged = {} /\ held \cap Range(output) = {}
        /\ held \cap merged = {} /\ Range(output) \cap merged = {}
  <2>1. /\ Place[1] = Range(events) /\ Place[2] = held
        /\ Place[3] = Range(output) /\ Place[4] = merged
    BY DEF Place
  <2>2. 1..4 = {1, 2, 3, 4}
    OBVIOUS
  <2>3. QED
    BY <2>1, <2>2
<1>2. QED
  BY <1>1 DEF SubmittedOnce, Accounted, Unique, Apart

-----------------------------------------------------------------------------
(* What the steps do, in terms of single entries                           *)

\* An update of an LRU map sets the entry, and at most takes others away.
LEMMA UpdatedFacts ==
    ASSUME NEW N \in Nat, NEW map \in [Thread -> 0..N], NEW t \in Thread,
           NEW n \in 0..N, NEW after \in Updated(map, t, n)
    PROVE  /\ after \in [Thread -> 0..N]
           /\ after[t] = n
           /\ \A u \in Thread : u # t => after[u] \in {0, map[u]}
<1>1. CASE after = [map EXCEPT ![t] = n]
  BY <1>1
<1>2. CASE map[t] = 0 /\ \E v \in {u \in Thread : map[u] # 0} : after = [map EXCEPT ![t] = n, ![v] = 0]
  <2>1. PICK v \in Thread : map[v] # 0 /\ after = [map EXCEPT ![t] = n, ![v] = 0]
    BY <1>2, Zenon
  <2>2. v # t
    BY <1>2, <2>1
  <2>3. QED
    BY <2>1, <2>2
<1>3. QED
  BY <1>1, <1>2 DEF Updated

\* The update of map M takes the entry of call m away while its thread is in it.
Evicts(M, m) == \E u \in Thread : active[u] = m /\ saved[M][u] = m /\ saved'[M][u] = 0

\* A thread enters a call.
LEMMA Entered ==
    ASSUME TypeOK, ActiveOwn,
           NEW t \in Thread, NEW s \in Sock, NEW op \in Probed, Enter(t, s, op)
    PROVE  LET n == count + 1
               M == MapOf(op)
           IN  /\ count' = n /\ active[t] = 0 /\ active' = [active EXCEPT ![t] = n]
               /\ M \in Map /\ misses' \in Nat
               /\ armed \ {t} = armed' \ {t} /\ armed' \subseteq Thread
               /\ saved' \in [Map -> [Thread -> 0..n]]
               /\ \A m \in Map, u \in Thread : m # M => saved'[m][u] = saved[m][u]
               /\ \A u \in Thread : u # t => saved'[M][u] \in {0, saved[M][u]}
               /\ saved'[M][t] \in {n, saved[M][t]}
               /\ calls' \in [1..n -> Call \cup {Over}]
               /\ calls'[n] \in Call /\ calls'[n].thread = t /\ calls'[n].op = op
               /\ calls'[n].fate = "open" /\ calls'[n].entry # "evicted"
               /\ calls'[n].entry = "saved" => saved'[M][t] = n
               /\ \A m \in 1..count :
                     IF Evicts(M, m) THEN calls'[m] = [calls[m] EXCEPT !.entry = "evicted"]
                     ELSE calls'[m] = calls[m]
               /\ UNCHANGED <<peer, events, agentVars>>
<1> DEFINE n == count + 1
           M == MapOf(op)
           map == saved[M]
           probe == EntryLink[op] <= attached
           returnProbe == ReturnLink[op] <= attached
<1>1. n \in Nat /\ n # 0 /\ M \in Map /\ map \in [Thread -> 0..count] /\ map \in [Thread -> 0..n]
  BY DEF TypeOK, MapOf, Map
<1>2. PICK run \in Runs(probe), arm \in Runs(returnProbe) :
        \E after \in IF run /\ fill_event(s) THEN Updated(map, ID(t), n) ELSE {map} :
                /\ misses' = misses + Miss(probe, run) + Miss(returnProbe, arm)
                /\ armed' = IF arm THEN armed \cup {t} ELSE armed
                /\ saved' = [saved EXCEPT ![MapOf(op)] = after]
                /\ calls' = [m \in 1..n |->
                     IF m = n
                     THEN [thread |-> t, sock |-> s, op |-> op, remote |-> peer[s],
                           entry |-> IF ~run THEN "missed"
                                     ELSE IF fill_event(s) THEN "saved" ELSE "unsupported",
                           copied |-> 0, fate |-> "open"]
                     ELSE IF \E u \in Thread : active[u] = m /\ map[u] = m /\ after[u] = 0
                     THEN [calls[m] EXCEPT !.entry = "evicted"]
                     ELSE calls[m]]
  BY Zenon DEF Enter
<1>3. PICK after \in IF run /\ fill_event(s) THEN Updated(map, t, n) ELSE {map} :
                /\ saved' = [saved EXCEPT ![M] = after]
                /\ calls' = [m \in 1..n |->
                     IF m = n
                     THEN [thread |-> t, sock |-> s, op |-> op, remote |-> peer[s],
                           entry |-> IF ~run THEN "missed"
                                     ELSE IF fill_event(s) THEN "saved" ELSE "unsupported",
                           copied |-> 0, fate |-> "open"]
                     ELSE IF \E u \in Thread : active[u] = m /\ map[u] = m /\ after[u] = 0
                     THEN [calls[m] EXCEPT !.entry = "evicted"]
                     ELSE calls[m]]
  BY <1>2, Zenon DEF ID
<1>4. /\ after \in [Thread -> 0..n]
      /\ run /\ fill_event(s) => after[t] = n
      /\ after[t] \in {n, map[t]}
      /\ \A u \in Thread : u # t => after[u] \in {0, map[u]}
  <2>1. CASE run /\ fill_event(s)
    BY <1>1, <1>3, <2>1, UpdatedFacts
  <2>2. CASE ~(run /\ fill_event(s))
    BY <1>1, <1>3, <2>2
  <2>3. QED
    BY <2>1, <2>2
<1>5. /\ count' = n /\ active[t] = 0 /\ active' = [active EXCEPT ![t] = n]
      /\ UNCHANGED <<peer, events, agentVars>>
  BY DEF Enter
<1>6. armed \ {t} = armed' \ {t} /\ armed' \subseteq Thread
  BY <1>2 DEF TypeOK
<1>7. misses' \in Nat
  BY <1>2 DEF TypeOK, Miss
<1>8. saved'[M] = after /\ \A m \in Map : m # M => saved'[m] = saved[m]
  BY <1>1, <1>3 DEF TypeOK
<1>9. saved' \in [Map -> [Thread -> 0..n]]
  <2>1. saved \in [Map -> [Thread -> 0..n]]
    BY <1>1 DEF TypeOK
  <2>2. QED
    BY <1>3, <1>4, <2>1, Zenon
<1>10. /\ calls'[n] \in Call /\ calls'[n].thread = t /\ calls'[n].op = op
       /\ calls'[n].fate = "open" /\ calls'[n].entry # "evicted"
       /\ calls'[n].entry = "saved" => run /\ fill_event(s)
  <2> DEFINE e == IF ~run THEN "missed" ELSE IF fill_event(s) THEN "saved" ELSE "unsupported"
  <2>1. calls'[n] = [thread |-> t, sock |-> s, op |-> op, remote |-> peer[s],
                     entry |-> e, copied |-> 0, fate |-> "open"]
    BY <1>1, <1>3
  <2>2. e \in Entry /\ e # "evicted" /\ (e = "saved" => run /\ fill_event(s))
    BY DEF Entry
  <2>3. peer[s] \in Peer \cup {NoPeer} /\ op \in Op
    BY DEF TypeOK, Probed
  <2> HIDE DEF e
  <2>4. QED
    BY <2>1, <2>2, <2>3 DEF Call
<1>11. ASSUME NEW m \in 1..count
       PROVE  IF Evicts(M, m) THEN calls'[m] = [calls[m] EXCEPT !.entry = "evicted"]
                              ELSE calls'[m] = calls[m]
  BY <1>1, <1>3, <1>8 DEF TypeOK, Evicts
<1>12. calls' \in [1..n -> Call \cup {Over}]
  <2>1. DOMAIN calls' = 1..n /\ calls' = [m \in 1..n |-> calls'[m]]
    BY <1>3
  <2>2. ASSUME NEW m \in 1..count PROVE calls'[m] \in Call \cup {Over}
    <3>1. CASE Evicts(M, m)
      <4>1. calls'[m] = [calls[m] EXCEPT !.entry = "evicted"]
        BY <1>11, <3>1
      <4>2. calls[m] \in Call
        BY <3>1 DEF Evicts, ActiveOwn, Threaded
      <4>3. QED
        BY <4>1, <4>2 DEF Call, Entry
    <3>2. CASE calls'[m] = calls[m]
      BY <3>2, Zenon DEF TypeOK
    <3>3. QED
      BY <1>11, <3>1, <3>2, Zenon
  <2>3. QED
    BY <1>1, <1>10, <2>1, <2>2 DEF TypeOK
<1>13. QED
  BY <1>1, <1>4, <1>5, <1>6, <1>7, <1>8, <1>9, <1>10, <1>11, <1>12

\* A call returns.
LEMMA Left ==
    ASSUME TypeOK, ActiveOwn, NEW t \in Thread, NEW copied \in Int, Leave(t, copied)
    PROVE  LET n == active[t]
               M == MapOf(calls[n].op)
               from == saved[M][t]
           IN  /\ n \in 1..count /\ M \in Map /\ count' = count /\ misses' = misses
               /\ active' = [active EXCEPT ![t] = 0] /\ armed' = armed \ {t}
               /\ saved' \in [Map -> [Thread -> 0..count]]
               /\ \A m \in Map, u \in Thread : m # M \/ u # t => saved'[m][u] = saved[m][u]
               /\ saved'[M][t] = IF t \in armed THEN 0 ELSE from
               /\ calls' \in [1..count -> Call \cup {Over}]
               /\ \A m \in 1..count : m # n => calls'[m] = calls[m]
               /\ \/ /\ t \in armed /\ from # 0 /\ calls'[n].fate = "submitted"
                     /\ calls'[n] \in Call /\ calls'[n].entry = calls[n].entry
                     /\ calls'[n].thread = t
                     /\ events' = Append(events, [from |-> from, call |-> n])
                  \/ /\ t \notin armed /\ from = n /\ events' = events
                     /\ calls'[n] \in Call /\ calls'[n].fate = "unreturned"
                     /\ calls'[n].thread = t /\ calls'[n].op = calls[n].op
                  \/ /\ t \in armed \/ from # n
                     /\ calls'[n] = Over /\ events' = events
               /\ UNCHANGED <<peer, agentVars>>
<1> DEFINE n == active[t]
           M == MapOf(calls[n].op)
           from == saved[M][t]
           emits == t \in armed /\ from # 0 /\ copied > 0 /\ Room
           left == IF emits THEN [calls[n] EXCEPT !.copied = copied, !.fate = "submitted"]
                   ELSE IF t \notin armed /\ from = n
                        THEN [calls[n] EXCEPT !.copied = copied, !.fate = "unreturned"]
                        ELSE Over
<1>1. n \in 1..count /\ M \in Map
  BY DEF Leave, TypeOK, MapOf, Map
<1>2. calls[n] \in Call /\ calls[n].thread = t
  BY <1>1 DEF ActiveOwn, Threaded
<1>3. /\ saved' = IF t \in armed THEN [saved EXCEPT ![M][t] = 0] ELSE saved
      /\ events' = IF emits THEN Append(events, [from |-> from, call |-> n]) ELSE events
      /\ active' = [active EXCEPT ![t] = 0] /\ armed' = armed \ {t}
      /\ UNCHANGED <<peer, count, misses, agentVars>>
  BY Zenon DEF Leave, ID
<1>4. calls' = [calls EXCEPT ![n] = left]
  BY Zenon DEF Leave, ID
<1>5. /\ saved' \in [Map -> [Thread -> 0..count]]
      /\ \A m \in Map, u \in Thread : m # M \/ u # t => saved'[m][u] = saved[m][u]
      /\ saved'[M][t] = IF t \in armed THEN 0 ELSE from
  <2>1. CASE t \in armed
    <3>1. saved' = [saved EXCEPT ![M] = [saved[M] EXCEPT ![t] = 0]]
      BY <1>3, <2>1
    <3>2. [saved[M] EXCEPT ![t] = 0] \in [Thread -> 0..count]
      BY <1>1 DEF TypeOK
    <3>3. QED
      BY <1>1, <2>1, <3>1, <3>2 DEF TypeOK
  <2>2. CASE t \notin armed
    BY <1>3, <2>2 DEF TypeOK
  <2>3. QED
    BY <2>1, <2>2
<1>6. \/ /\ emits /\ left \in Call /\ left.fate = "submitted" /\ left.entry = calls[n].entry
         /\ left.thread = t
      \/ /\ t \notin armed /\ from = n /\ ~emits
         /\ left \in Call /\ left.fate = "unreturned"
         /\ left.thread = t /\ left.op = calls[n].op
      \/ (t \in armed \/ from # n) /\ ~emits /\ left = Over
  <2> HIDE DEF n, M, from
  <2>1. CASE emits
    BY <1>2, <2>1, Zenon DEF Call
  <2>2. CASE ~emits /\ t \notin armed /\ from = n
    BY <1>2, <2>2, Zenon DEF Call
  <2>3. CASE ~emits /\ ~(t \notin armed /\ from = n)
    BY <2>3, Zenon
  <2>4. QED
    BY <2>1, <2>2, <2>3
<1>7. left \in Call \cup {Over}
  BY <1>6, Zenon
<1>8. /\ calls' \in [1..count -> Call \cup {Over}] /\ calls'[n] = left
      /\ \A m \in 1..count : m # n => calls'[m] = calls[m]
  <2> HIDE DEF left, n
  <2>1. QED
    BY <1>1, <1>4, <1>7 DEF TypeOK
<1>9. QED
  <2> HIDE DEF left, n, M, from
  <2>1. /\ n \in 1..count /\ M \in Map /\ count' = count /\ misses' = misses
        /\ active' = [active EXCEPT ![t] = 0] /\ armed' = armed \ {t}
        /\ UNCHANGED <<peer, agentVars>>
    BY <1>1, <1>3
  <2>2. \/ /\ t \in armed /\ from # 0 /\ calls'[n].fate = "submitted"
           /\ calls'[n] \in Call /\ calls'[n].entry = calls[n].entry
           /\ calls'[n].thread = t
           /\ events' = Append(events, [from |-> from, call |-> n])
        \/ /\ t \notin armed /\ from = n /\ events' = events
           /\ calls'[n] \in Call /\ calls'[n].fate = "unreturned"
           /\ calls'[n].thread = t /\ calls'[n].op = calls[n].op
        \/ /\ t \in armed \/ from # n
           /\ calls'[n] = Over /\ events' = events
    BY <1>3, <1>6, <1>8
  <2>3. QED
    BY <2>1, <2>2, <1>5, <1>8, Zenon DEF n, M, from

-----------------------------------------------------------------------------
(* The agent                                                               *)

\* A step of the agent moves events on and brings the events E to their end;
\* Close also empties the maps.
LEMMA PipelineStep ==
    ASSUME TypeOK, IInv, NEW E \in SUBSET Pipeline,
           count' = count, active' = active,
           \/ saved' = saved /\ armed' = armed
           \/ saved' = EmptyMaps /\ armed' = {},
           \A n \in 1..count : calls'[n] = IF n \in CallsOf(E) THEN Over ELSE calls[n],
           Pipeline' = Pipeline \ E, Apart', HeldOne'
    PROVE  IInv'
<1>1. ASSUME NEW n \in 1..count, calls[n].fate # "submitted" PROVE calls'[n] = calls[n]
  BY <1>1 DEF IInv, Filled, CallsOf
<1>2. ASSUME NEW e \in Pipeline' PROVE calls'[e.call] = calls[e.call] /\ e \in Pipeline
  <2>1. e \in Pipeline /\ e \notin E /\ e.call \in 1..count
    BY DEF IInv, Filled
  <2>2. e.call \notin CallsOf(E)
    BY <2>1 DEF IInv, Unique, CallsOf
  <2>3. QED
    BY <2>1, <2>2
<1>3. \A t \in Thread : active[t] # 0 => active[t] \in 1..count
  BY DEF TypeOK
<1>4. \A t \in Thread : active[t] # 0 => calls'[active[t]] = calls[active[t]]
  BY <1>1, <1>3 DEF IInv, ActiveOwn
<1>5. ActiveOwn'
  BY <1>4 DEF IInv, ActiveOwn, Threaded
<1>6. \A m \in Map, t \in Thread : saved'[m][t] \in {0, saved[m][t]}
  BY DEF EmptyMaps
<1>7. SavedOwn'
  <2> SUFFICES ASSUME NEW m \in Map, NEW t \in Thread, saved'[m][t] # 0
               PROVE  /\ calls'[saved'[m][t]] \in Call /\ calls'[saved'[m][t]].thread = t
                      /\ calls'[saved'[m][t]].op \in Probed
                      /\ MapOf(calls'[saved'[m][t]].op) = m
                      /\ saved'[m][t] = active'[t] \/ calls'[saved'[m][t]].fate = "unreturned"
    BY DEF SavedOwn, Threaded
  <2> DEFINE n == saved[m][t]
  <2>1. saved'[m][t] = n /\ n \in 1..count
    BY <1>6 DEF TypeOK
  <2>2. /\ Threaded(n, t) /\ MapOf(calls[n].op) = m
        /\ n = active[t] \/ calls[n].fate = "unreturned"
    BY <2>1 DEF IInv, SavedOwn
  <2>3. calls[n].fate # "submitted"
    BY <2>1, <2>2 DEF IInv, ActiveOwn
  <2>4. calls'[n] = calls[n]
    BY <1>1, <2>1, <2>3
  <2>5. QED
    BY <2>1, <2>2, <2>4 DEF Threaded
<1>8. EvictedGone'
  <2> SUFFICES ASSUME NEW t \in Thread, active'[t] # 0, calls'[active'[t]].entry = "evicted"
               PROVE  saved'[MapOf(calls'[active'[t]].op)][t] = 0
    BY DEF EvictedGone
  <2>1. calls'[active[t]] = calls[active[t]] /\ MapOf(calls[active[t]].op) \in Map
    BY <1>4 DEF MapOf, Map
  <2>2. QED
    BY <1>6, <2>1 DEF IInv, EvictedGone
<1>9. SavedUntilReturn'
  <2> SUFFICES ASSUME NEW t \in Thread, active'[t] # 0, t \in armed', calls'[active'[t]].entry = "saved"
               PROVE  saved'[MapOf(calls'[active'[t]].op)][t] = active'[t]
    BY DEF SavedUntilReturn, ID
  <2>1. calls'[active[t]] = calls[active[t]] /\ saved' = saved /\ armed' = armed
    BY <1>4
  <2>2. QED
    BY <2>1 DEF IInv, SavedUntilReturn, ID
<1>10. Filled'
  BY <1>2, <1>6 DEF IInv, Filled, TypeOK
<1>11. SnapshotOfItsCall'
  <2> SUFFICES ASSUME NEW e \in Pipeline', e.from # e.call
               PROVE  /\ calls'[e.from].fate = "unreturned"
                      /\ calls'[e.call].entry \in {"missed", "unsupported"}
                      /\ calls'[e.from].thread = calls'[e.call].thread
    BY DEF SnapshotOfItsCall
  <2>1. e \in Pipeline /\ calls'[e.call] = calls[e.call] /\ e.from \in 1..count
    BY <1>2 DEF IInv, Filled
  <2>2. /\ calls[e.from].fate = "unreturned"
        /\ calls[e.call].entry \in {"missed", "unsupported"}
        /\ calls[e.from].thread = calls[e.call].thread
    BY <2>1 DEF IInv, SnapshotOfItsCall
  <2>3. calls'[e.from] = calls[e.from]
    BY <1>1, <2>1, <2>2
  <2>4. QED
    BY <2>1, <2>2, <2>3
<1>12. Accounted'
  <2> SUFFICES ASSUME NEW n \in 1..count
               PROVE  calls'[n].fate = "submitted" <=> n \in CallsOf(Pipeline')
    BY DEF Accounted, CallsOf
  <2>1. CASE n \in CallsOf(E)
    <3>1. calls'[n].fate # "submitted"
      BY <2>1 DEF Over
    <3>2. n \notin CallsOf(Pipeline')
      BY <2>1 DEF IInv, Unique, CallsOf
    <3>3. QED
      BY <3>1, <3>2
  <2>2. CASE n \notin CallsOf(E)
    <3>1. calls'[n] = calls[n]
      BY <2>2
    <3>2. n \in CallsOf(Pipeline') <=> n \in CallsOf(Pipeline)
      BY <2>2 DEF CallsOf
    <3>3. QED
      BY <3>1, <3>2 DEF IInv, Accounted
  <2>3. QED
    BY <2>1, <2>2
<1>13. Unique'
  BY DEF IInv, Unique
<1>14. QED
  BY <1>5, <1>7, <1>8, <1>9, <1>10, <1>11, <1>12, <1>13 DEF IInv

\* The step of PipelineStep that brings nothing to its end.
LEMMA MoveStep ==
    ASSUME TypeOK, IInv, UNCHANGED <<count, calls, active, saved, armed>>,
           Pipeline' = Pipeline, Apart', HeldOne'
    PROVE  IInv'
<1>1. \A n \in 1..count : calls'[n] = IF n \in CallsOf({}) THEN Over ELSE calls[n]
  BY DEF CallsOf
<1>2. Pipeline' = Pipeline \ {}
  OBVIOUS
<1>3. {} \in SUBSET Pipeline
  OBVIOUS
<1>4. QED
  BY <1>1, <1>2, <1>3, PipelineStep

LEMMA EmptySequence == <<>> \in Seq(Event) /\ Range(<<>>) = {} /\ IsInjective(<<>>)
BY DEF Range, IsInjective

\* Settled keeps the type of calls.
LEMMA SettledType ==
    ASSUME TypeOK, NEW E
    PROVE  /\ Settled(E) \in [1..count -> Call \cup {Over}]
           /\ \A n \in 1..count : Settled(E)[n] = IF n \in CallsOf(E) THEN Over ELSE calls[n]
BY DEF Settled, TypeOK

LEMMA CloseKeeps == TypeOK /\ IInv /\ Close => TypeOK' /\ IInv'
<1> SUFFICES ASSUME TypeOK, IInv, Close PROVE TypeOK' /\ IInv'
  OBVIOUS
<1>1. EmptyMaps \in [Map -> [Thread -> 0..count]]
  BY DEF EmptyMaps, TypeOK
<1>2. Pipeline' = {}
  BY EmptySequence DEF Pipeline, Close
<1>3. Apart' /\ HeldOne'
  BY EmptySequence DEF Apart, HeldOne, Close
<1>4. TypeOK'
  <2>1. calls' \in [1..count -> Call \cup {Over}]
    BY SettledType DEF Close
  <2>2. events' \in Seq(Event) /\ output' \in Seq(Event)
    BY EmptySequence DEF Close
  <2>3. cancelled' \in BOOLEAN
    BY Zenon DEF Close
  <2>4. /\ UNCHANGED <<peer, count, active, misses>> /\ armed' = {} /\ saved' = EmptyMaps
        /\ held' = {} /\ merged' = {}
        /\ attached' = 0 /\ phase' = "down" /\ runner' = "read"
    BY DEF Close
  <2>5. QED
    BY <1>1, <2>1, <2>2, <2>3, <2>4 DEF TypeOK, Links
<1>5. \A n \in 1..count : calls'[n] = IF n \in CallsOf(Pipeline) THEN Over ELSE calls[n]
  BY SettledType DEF Close
<1>6. count' = count /\ active' = active /\ saved' = EmptyMaps /\ armed' = {}
  BY DEF Close
<1>7. Pipeline \in SUBSET Pipeline /\ Pipeline' = Pipeline \ Pipeline
  BY <1>2
<1>8. QED
  BY <1>3, <1>4, <1>5, <1>6, <1>7, PipelineStep

LEMMA RunReadKeeps == TypeOK /\ IInv /\ RunRead => TypeOK' /\ IInv'
<1> SUFFICES ASSUME TypeOK, IInv, RunRead PROVE TypeOK' /\ IInv'
  OBVIOUS
<1>1. /\ events \in Seq(Event) /\ events # <<>> /\ held = {}
      /\ held' = {Head(events)} /\ events' = Tail(events) /\ runner' = "send"
      /\ UNCHANGED <<output, merged, count, calls, active, saved, armed>>
  BY DEF RunRead, TypeOK, IInv, HeldOne
<1>2. /\ Head(events) \in Event /\ Tail(events) \in Seq(Event)
      /\ Range(events) = {Head(events)} \cup Range(Tail(events))
      /\ IsInjective(Tail(events)) /\ Head(events) \notin Range(Tail(events))
  BY <1>1, TailFacts DEF IInv, Apart
<1>3. TypeOK'
  BY <1>1, <1>2 DEF RunRead, TypeOK
<1>4. Pipeline' = Pipeline
  BY <1>1, <1>2 DEF Pipeline
<1>5. Apart'
  BY <1>1, <1>2 DEF IInv, Apart
<1>6. HeldOne'
  BY <1>1 DEF HeldOne
<1>7. QED
  BY <1>1, <1>3, <1>4, <1>5, <1>6, MoveStep

LEMMA RunSendKeeps == TypeOK /\ IInv /\ RunSend => TypeOK' /\ IInv'
<1> SUFFICES ASSUME TypeOK, IInv, RunSend PROVE TypeOK' /\ IInv'
  OBVIOUS
<1>1. PICK e \in held : output' = Append(output, e)
  BY DEF RunSend
<1>2. held = {e} /\ e \in Event /\ output \in Seq(Event) /\ e \notin Range(output)
  BY DEF IInv, HeldOne, Apart, TypeOK
<1>3. held' = {} /\ UNCHANGED <<events, merged, count, calls, active, saved, armed>>
  BY DEF RunSend, kernelVars
<1>4. /\ output' \in Seq(Event) /\ Range(output') = Range(output) \cup {e}
      /\ IsInjective(output')
  BY <1>1, <1>2, AppendFacts DEF IInv, Apart
<1>5. TypeOK'
  BY <1>3, <1>4 DEF RunSend, kernelVars, TypeOK
<1>6. Pipeline' = Pipeline
  BY <1>2, <1>3, <1>4 DEF Pipeline
<1>7. Apart'
  BY <1>2, <1>3, <1>4 DEF IInv, Apart
<1>8. HeldOne'
  BY <1>3 DEF HeldOne
<1>9. QED
  BY <1>3, <1>5, <1>6, <1>7, <1>8, MoveStep

LEMMA ObserveKeeps == TypeOK /\ IInv /\ Observe => TypeOK' /\ IInv'
<1> SUFFICES ASSUME TypeOK, IInv, Observe PROVE TypeOK' /\ IInv'
  OBVIOUS
<1> DEFINE e == Head(output)
<1>1. /\ output \in Seq(Event) /\ output # <<>> /\ output' = Tail(output)
      /\ UNCHANGED <<events, held, runner, count, active, saved, armed>>
  BY DEF Observe, TypeOK
<1>2. /\ e \in Event /\ Tail(output) \in Seq(Event)
      /\ Range(output) = {e} \cup Range(Tail(output))
      /\ IsInjective(Tail(output)) /\ e \notin Range(Tail(output))
  BY <1>1, TailFacts DEF IInv, Apart
<1>3. HeldOne'
  BY <1>1 DEF IInv, HeldOne
<1>4. CASE Accepted(e)
  <2>1. merged' = merged \cup {e} /\ calls' = calls
    BY <1>4 DEF Observe
  <2>2. TypeOK'
    BY <1>1, <1>2, <2>1 DEF Observe, TypeOK
  <2>3. Pipeline' = Pipeline
    BY <1>1, <1>2, <2>1 DEF Pipeline
  <2>4. Apart'
    BY <1>1, <1>2, <2>1 DEF IInv, Apart
  <2>5. QED
    BY <1>1, <1>3, <2>1, <2>2, <2>3, <2>4, MoveStep
<1>5. CASE ~Accepted(e)
  <2>1. merged' = merged /\ calls' = Settled({e})
    BY <1>5 DEF Observe
  <2>2. TypeOK'
    BY <1>1, <1>2, <2>1, SettledType DEF Observe, TypeOK
  <2>3. Pipeline' = Pipeline \ {e} /\ {e} \in SUBSET Pipeline
    BY <1>1, <1>2, <2>1 DEF IInv, Apart, Pipeline
  <2>4. Apart'
    BY <1>1, <1>2, <2>1 DEF IInv, Apart
  <2>5. \A n \in 1..count : calls'[n] = IF n \in CallsOf({e}) THEN Over ELSE calls[n]
    BY <2>1, SettledType, Zenon
  <2>6. QED
    BY <1>1, <1>3, <2>2, <2>3, <2>4, <2>5, PipelineStep, Zenon
<1>6. QED
  BY <1>4, <1>5

LEMMA TickKeeps == TypeOK /\ IInv /\ Tick => TypeOK' /\ IInv'
<1> SUFFICES ASSUME TypeOK, IInv, Tick PROVE TypeOK' /\ IInv'
  OBVIOUS
<1>1. /\ merged' = {} /\ calls' = Settled(merged)
      /\ UNCHANGED <<events, held, output, runner, count, active, saved, armed>>
  BY DEF Tick
<1>2. TypeOK'
  BY <1>1, SettledType DEF Tick, TypeOK
<1>3. Pipeline' = Pipeline \ merged /\ merged \in SUBSET Pipeline
  BY <1>1 DEF IInv, Apart, Pipeline
<1>4. Apart' /\ HeldOne'
  BY <1>1 DEF IInv, Apart, HeldOne
<1>5. \A n \in 1..count : calls'[n] = IF n \in CallsOf(merged) THEN Over ELSE calls[n]
  BY <1>1, SettledType
<1>6. QED
  BY <1>1, <1>2, <1>3, <1>4, <1>5, PipelineStep, Zenon

LEMMA AgentKeeps == TypeOK /\ IInv /\ Agent => TypeOK' /\ IInv'
<1> SUFFICES ASSUME TypeOK, IInv, Agent PROVE TypeOK' /\ IInv'
  OBVIOUS
<1>1. CASE Start \/ Attach \/ RunReturns \/ Cancel
  <2>1. /\ UNCHANGED <<peer, misses, count, calls, active, saved, armed, events, held, output, merged>>
        /\ runner' = runner \/ runner' \in {"nil", "error"}
    BY <1>1 DEF Start, Attach, RunReturns, Cancel, kernelVars
  <2>2. /\ attached' \in 0..Links /\ phase' \in {"down", "attach", "run"}
        /\ runner' \in {"read", "send", "nil", "error"}
    BY <1>1 DEF Start, Attach, RunReturns, Cancel, TypeOK, Links
  <2>3. cancelled' \in BOOLEAN
    BY <1>1, Zenon DEF Start, Attach, RunReturns, Cancel, TypeOK
  <2>4. TypeOK'
    BY <2>1, <2>2, <2>3 DEF TypeOK
  <2>5. Pipeline' = Pipeline /\ Apart' /\ HeldOne'
    BY <2>1 DEF IInv, Pipeline, Apart, HeldOne
  <2>6. QED
    BY <2>1, <2>4, <2>5, MoveStep
<1>2. CASE AttachFails \/ Done \/ TracerStopped
  BY <1>2, CloseKeeps DEF AttachFails, Done, TracerStopped
<1>3. QED
  BY <1>1, <1>2, RunReadKeeps, RunSendKeeps, ObserveKeeps, TickKeeps DEF Agent

-----------------------------------------------------------------------------
(* The probes                                                              *)

LEMMA SavedRange ==
    ASSUME TypeOK, NEW m \in Map, NEW u \in Thread, saved[m][u] # 0
    PROVE  saved[m][u] \in 1..count
<1> DEFINE k == saved[m][u]
<1>1. k \in 0..count /\ count \in Nat
  BY DEF TypeOK
<1> HIDE DEF k
<1>2. k # 0 => k \in 1..count
  BY <1>1
<1>3. QED
  BY <1>2 DEF k

LEMMA OverFate == Over.fate = "over"
BY DEF Over

LEMMA EnterKeeps ==
    ASSUME TypeOK, IInv, NEW t \in Thread, NEW s \in Sock, NEW op \in Probed, Enter(t, s, op)
    PROVE  TypeOK' /\ IInv'
<1> DEFINE n == count + 1
           M == MapOf(op)
<1>1. /\ count' = n /\ active[t] = 0 /\ active' = [active EXCEPT ![t] = n]
      /\ M \in Map /\ misses' \in Nat
      /\ armed \ {t} = armed' \ {t} /\ armed' \subseteq Thread
      /\ UNCHANGED <<peer, events, agentVars>>
  BY Entered DEF IInv
<1>2. /\ \A m \in Map, u \in Thread : m # M => saved'[m][u] = saved[m][u]
      /\ \A u \in Thread : u # t => saved'[M][u] \in {0, saved[M][u]}
      /\ saved'[M][t] \in {n, saved[M][t]}
  BY Entered DEF IInv
<1>3. /\ calls'[n] \in Call /\ calls'[n].thread = t /\ calls'[n].op = op
      /\ calls'[n].fate = "open" /\ calls'[n].entry # "evicted"
      /\ calls'[n].entry = "saved" => saved'[M][t] = n
  BY Entered DEF IInv
<1>types. saved' \in [Map -> [Thread -> 0..n]] /\ calls' \in [1..n -> Call \cup {Over}]
  BY Entered DEF IInv
<1>4. \A m \in 1..count : IF Evicts(M, m) THEN calls'[m] = [calls[m] EXCEPT !.entry = "evicted"]
                                      ELSE calls'[m] = calls[m]
  <2>1. ActiveOwn
    BY DEF IInv
  <2>2. QED
    BY <2>1, Entered, Zenon
<1>5. count \in Nat /\ n \in Nat /\ n \in 1..n /\ n \notin 1..count /\ 0 \notin 1..count
      /\ 1..count \subseteq 1..n
  BY DEF TypeOK
<1>6. \A u \in Thread : active[u] # 0 => active[u] \in 1..count
  BY DEF TypeOK
<1>7. \A u \in Thread : u # t => active'[u] = active[u]
  BY <1>1 DEF TypeOK
<1>8. active'[t] = n
  BY <1>1 DEF TypeOK
<1> HIDE DEF n, M
<1>9. ASSUME NEW m \in 1..count, calls[m].fate # "open" PROVE calls'[m] = calls[m]
  <2>1. ~Evicts(M, m)
    <3> SUFFICES ASSUME NEW u \in Thread, active[u] = m PROVE FALSE
      BY Zenon DEF Evicts
    <3>1. active[u] # 0
      BY <1>5
    <3>2. QED
      BY <1>9, <3>1, Zenon DEF IInv, ActiveOwn
  <2>2. QED
    BY <1>4, <2>1, Zenon
<1>10. ASSUME NEW m \in 1..count, calls[m] \in Call
       PROVE  /\ calls'[m] \in Call /\ calls'[m].thread = calls[m].thread
              /\ calls'[m].op = calls[m].op /\ calls'[m].fate = calls[m].fate
  <2>1. calls'[m] = calls[m] \/ calls'[m] = [calls[m] EXCEPT !.entry = "evicted"]
    BY <1>4
  <2>2. QED
    BY <1>10, <2>1 DEF Call, Entry
<1>11. UNCHANGED <<Pipeline, merged, held, runner, output, events>> 
  BY <1>1, Zenon DEF agentVars, Pipeline
<1>12. ActiveOwn'
  <2> SUFFICES ASSUME NEW u \in Thread, active'[u] # 0
               PROVE  /\ calls'[active'[u]] \in Call /\ calls'[active'[u]].thread = u
                      /\ calls'[active'[u]].op \in Probed /\ calls'[active'[u]].fate = "open"
    BY DEF ActiveOwn, Threaded
  <2>1. CASE u = t
    BY <1>3, <1>8, <2>1, Zenon
  <2>2. CASE u # t
    <3>1. active'[u] = active[u] /\ active[u] \in 1..count
      BY <1>6, <1>7, <2>2
    <3>2. Threaded(active[u], u) /\ calls[active[u]].fate = "open"
      BY <3>1, Zenon DEF IInv, ActiveOwn
    <3>3. QED
      BY <1>10, <3>1, <3>2, Zenon DEF Threaded
  <2>3. QED
    BY <2>1, <2>2, Zenon
<1>13. SavedOwn'
  <2> SUFFICES ASSUME NEW m \in Map, NEW u \in Thread, saved'[m][u] # 0
               PROVE  /\ calls'[saved'[m][u]] \in Call /\ calls'[saved'[m][u]].thread = u
                      /\ calls'[saved'[m][u]].op \in Probed
                      /\ MapOf(calls'[saved'[m][u]].op) = m
                      /\ saved'[m][u] = active'[u] \/ calls'[saved'[m][u]].fate = "unreturned"
    BY Zenon DEF SavedOwn, Threaded
  <2>1. CASE m = M /\ u = t /\ saved'[m][u] = n
    BY <1>3, <1>8, <2>1, Zenon DEF M
  <2>2. CASE saved'[m][u] = saved[m][u]
    <3> DEFINE k == saved[m][u]
    <3>1. k \in 1..count /\ k # 0
      BY <2>2, SavedRange, Zenon
    <3>2. /\ Threaded(k, u) /\ MapOf(calls[k].op) = m
          /\ k = active[u] \/ calls[k].fate = "unreturned"
      BY <3>1, Zenon DEF IInv, SavedOwn
    <3>3. /\ calls'[k] \in Call /\ calls'[k].thread = u /\ calls'[k].op = calls[k].op
          /\ calls'[k].fate = calls[k].fate /\ calls[k].op \in Probed
      BY <1>10, <3>1, <3>2, Zenon DEF Threaded
    <3>4. k = active'[u] \/ calls'[k].fate = "unreturned"
      BY <1>1, <1>7, <3>1, <3>2, <3>3, Zenon
    <3>5. QED
      BY <2>2, <3>2, <3>3, <3>4, Zenon
  <2>3. QED
    BY <1>2, <2>1, <2>2, Zenon
<1>14. EvictedGone'
  <2> SUFFICES ASSUME NEW u \in Thread, active'[u] # 0, calls'[active'[u]].entry = "evicted"
               PROVE  saved'[MapOf(calls'[active'[u]].op)][u] = 0
    BY DEF EvictedGone
  <2> DEFINE k == active[u]
  <2>1. u # t
    BY <1>3, <1>8, Zenon
  <2>2. active'[u] = k /\ k \in 1..count /\ k # 0
    BY <1>6, <1>7, <2>1, Zenon
  <2>3. Threaded(k, u)
    BY <2>2, Zenon DEF IInv, ActiveOwn
  <2>4. calls'[k].op = calls[k].op /\ MapOf(calls[k].op) \in Map
    BY <1>10, <2>2, <2>3, Zenon DEF Threaded, MapOf, Map
  <2>5. CASE Evicts(M, k)
    <3>1. PICK v \in Thread : active[v] = k /\ saved[M][v] = k /\ saved'[M][v] = 0
      BY <2>5, Zenon DEF Evicts
    <3>2. v = u
      BY <2>2, <2>3, <3>1, Zenon DEF IInv, ActiveOwn, Threaded
    <3>3. MapOf(calls[k].op) = M
      BY <1>1, <2>2, <3>1, Zenon DEF IInv, SavedOwn
    <3>4. QED
      BY <2>2, <2>4, <3>1, <3>2, <3>3, Zenon
  <2>6. CASE ~Evicts(M, k)
    <3>1. saved[MapOf(calls[k].op)][u] = 0
      BY <1>4, <2>2, <2>6, Zenon DEF IInv, EvictedGone
    <3>2. QED
      BY <1>2, <2>1, <2>2, <2>4, <3>1, Zenon
  <2>7. QED
    BY <2>5, <2>6, Zenon
<1>15. SavedUntilReturn'
  <2> SUFFICES ASSUME NEW u \in Thread, active'[u] # 0, u \in armed', calls'[active'[u]].entry = "saved"
               PROVE  saved'[MapOf(calls'[active'[u]].op)][u] = active'[u]
    BY Zenon DEF SavedUntilReturn, ID
  <2>1. CASE u = t
    BY <1>3, <1>8, <2>1, Zenon DEF M
  <2>2. CASE u # t
    <3> DEFINE k == active[u]
    <3>1. active'[u] = k /\ k \in 1..count /\ k # 0 /\ u \in armed
      BY <1>1, <1>6, <1>7, <2>2, Zenon
    <3>2. Threaded(k, u) /\ calls[k] \in Call
      BY <3>1, Zenon DEF IInv, ActiveOwn, Threaded
    <3>3. ~Evicts(M, k)
      BY <1>4, <3>1, <3>2, Zenon DEF Call
    <3>4. calls'[k] = calls[k] /\ MapOf(calls[k].op) \in Map
      BY <1>4, <3>1, <3>3, Zenon DEF MapOf, Map
    <3>5. saved[MapOf(calls[k].op)][u] = k
      BY <3>1, <3>4, Zenon DEF IInv, SavedUntilReturn, ID
    <3>6. saved'[MapOf(calls[k].op)][u] = k
      BY <1>2, <2>2, <3>1, <3>3, <3>4, <3>5, Zenon DEF Evicts
    <3>7. QED
      BY <3>1, <3>4, <3>6, Zenon
  <2>3. QED
    BY <2>1, <2>2, Zenon
<1>16. \A e \in Pipeline : calls'[e.call] = calls[e.call] /\ e.call \in 1..count /\ e.from \in 1..count
  BY <1>9, Zenon DEF IInv, Filled
<1>17. Filled'
  <2>1. \A e \in Pipeline : \A m \in Map, u \in Thread : saved'[m][u] # e.from
    <3> SUFFICES ASSUME NEW e \in Pipeline, NEW m \in Map, NEW u \in Thread, saved'[m][u] = e.from
                 PROVE  FALSE
      BY Zenon
    <3>1. e.from # 0 /\ e.from # n
      BY <1>5, <1>16, Zenon
    <3>2. saved[m][u] # e.from
      BY Zenon DEF IInv, Filled
    <3>3. QED
      BY <1>2, <3>1, <3>2, Zenon
  <2>2. \A e \in Pipeline : e.call \in 1..n /\ e.from \in 1..n
    BY <1>5, <1>16, Zenon
  <2>3. QED
    BY <1>1, <1>11, <1>16, <2>1, <2>2, Zenon DEF IInv, Filled
<1>18. SnapshotOfItsCall'
  <2>1. ASSUME NEW e \in Pipeline, calls[e.from].fate = "unreturned" PROVE calls'[e.from] = calls[e.from]
    BY <1>9, <1>16, <2>1, Zenon
  <2>2. QED
    BY <1>11, <1>16, <2>1, Zenon DEF IInv, SnapshotOfItsCall
<1>19. Accounted'
  <2> SUFFICES ASSUME NEW m \in 1..n PROVE calls'[m].fate = "submitted" <=> m \in CallsOf(Pipeline)
    BY <1>1, <1>11, Zenon DEF Accounted
  <2>1. CASE m = n
    <3>1. n \notin 1..count
      BY <1>5
    <3>2. n \notin CallsOf(Pipeline)
      BY <1>16, <3>1, Zenon DEF CallsOf
    <3>3. QED
      BY <1>3, <2>1, <3>2
  <2>2. CASE m \in 1..count
    <3>1. calls'[m].fate = calls[m].fate
      <4>1. CASE calls[m] = Over
        <5>1. calls[m].fate # "open"
          BY <4>1, OverFate
        <5>2. QED
          BY <1>9, <2>2, <5>1, Zenon
      <4>2. CASE calls[m] \in Call
        BY <1>10, <2>2, <4>2, Zenon
      <4>3. QED
        BY <2>2, <4>1, <4>2, Zenon DEF TypeOK
    <3>2. QED
      BY <2>2, <3>1, Zenon DEF IInv, Accounted
  <2>3. QED
    BY <1>5, <2>1, <2>2 DEF n
<1>20. Unique' /\ Apart' /\ HeldOne'
  BY <1>11, Zenon DEF IInv, Unique, Apart, HeldOne
<1>21. TypeOK'
  <2>1. active' \in [Thread -> 0..n]
    BY <1>1, <1>5 DEF TypeOK, n
  <2>2. QED
    BY <1>1, <1>types, <1>5, <1>11, <2>1, Zenon DEF TypeOK, agentVars
<1>22. QED
  BY <1>12, <1>13, <1>14, <1>15, <1>17, <1>18, <1>19, <1>20, <1>21 DEF IInv

LEMMA LeaveKeeps ==
    ASSUME TypeOK, IInv, NEW t \in Thread, NEW copied \in Int, Leave(t, copied)
    PROVE  TypeOK' /\ IInv'
<1> DEFINE n == active[t]
           M == MapOf(calls[n].op)
           from == saved[M][t]
           event == [from |-> from, call |-> n]
           Emits == /\ t \in armed /\ from # 0 /\ calls'[n].fate = "submitted"
                    /\ calls'[n] \in Call /\ calls'[n].entry = calls[n].entry
                    /\ calls'[n].thread = t
                    /\ events' = Append(events, event)
           Keeps == /\ t \notin armed /\ from = n /\ events' = events
                    /\ calls'[n] \in Call /\ calls'[n].fate = "unreturned"
                    /\ calls'[n].thread = t /\ calls'[n].op = calls[n].op
           Drops == /\ t \in armed \/ from # n
                    /\ calls'[n] = Over /\ events' = events
<1>0. ActiveOwn
  BY DEF IInv
<1>1. /\ n \in 1..count /\ M \in Map /\ count' = count /\ misses' = misses
      /\ active' = [active EXCEPT ![t] = 0] /\ armed' = armed \ {t}
      /\ UNCHANGED <<peer, agentVars>>
  BY <1>0, Left, Zenon
<1>2. /\ \A m \in Map, u \in Thread : m # M \/ u # t => saved'[m][u] = saved[m][u]
      /\ saved'[M][t] = IF t \in armed THEN 0 ELSE from
  BY <1>0, Left, Zenon
<1>3. \A m \in 1..count : m # n => calls'[m] = calls[m]
  BY <1>0, Left, Zenon
<1>types. saved' \in [Map -> [Thread -> 0..count]] /\ calls' \in [1..count -> Call \cup {Over}]
  BY <1>0, Left, Zenon
<1>4. Emits \/ Keeps \/ Drops
  BY <1>0, Left, Zenon
<1>5. Threaded(n, t) /\ calls[n].fate = "open" /\ n # 0 /\ count \in Nat
  BY <1>1 DEF IInv, ActiveOwn, TypeOK
<1>6. active'[t] = 0 /\ \A u \in Thread : u # t => active'[u] = active[u]
  BY <1>1 DEF TypeOK
<1>7. \A u \in Thread : u # t /\ active[u] # 0 => active[u] \in 1..count /\ active[u] # n
  BY <1>5 DEF IInv, ActiveOwn, Threaded, TypeOK
<1>8. /\ events' \in Seq(Event)
      /\ Emits => event \in Event /\ Range(events') = Range(events) \cup {event}
      /\ UNCHANGED <<held, output, merged, runner>>
  <2>1. events \in Seq(Event) /\ UNCHANGED <<held, output, merged, runner>>
    BY <1>1, Zenon DEF TypeOK, agentVars
  <2>2. from # 0 => event \in Event
    <3>1. from # 0 => from \in 1..count
      BY <1>1, SavedRange, Zenon
    <3> HIDE DEF n, from
    <3>2. n \in CallID /\ (from # 0 => from \in CallID)
      BY <1>1, <1>5, <3>1 DEF CallID
    <3>3. QED
      BY <3>2, Zenon DEF Event
  <2>3. CASE Emits
    <3> HIDE DEF event
    <3>1. event \in Event /\ events' = Append(events, event)
      BY <2>2, <2>3, Zenon
    <3>2. events' \in Seq(Event) /\ Range(events') = Range(events) \cup {event}
      <4> HIDE DEF Emits, Keeps, Drops, n, M, from
      <4>1. events \in Seq(Event)
        BY <2>1
      <4>2. QED
        BY ONLY <3>1, <4>1, AppendFacts
    <3>3. QED
      BY <2>1, <3>1, <3>2, Zenon
  <2>4. CASE events' = events /\ ~Emits
    BY <2>1, <2>4, Zenon
  <2>5. QED
    BY <1>4, <2>3, <2>4, Zenon
<1>9. \A e \in Pipeline : e.call # n /\ e.from # n /\ e.call \in 1..count /\ e.from \in 1..count
  BY <1>5, Zenon DEF IInv, Filled, SnapshotOfItsCall
<1>10. Pipeline' = IF Emits THEN Pipeline \cup {event} ELSE Pipeline
  <2>1. CASE Emits
    BY <1>8, <2>1, Zenon DEF Pipeline
  <2>2. CASE ~Emits
    BY <1>4, <1>8, <2>2, Zenon DEF Pipeline
  <2>3. QED
    BY <2>1, <2>2, Zenon
\* What is saved for the thread is of this call, or of one that did not return.
<1>11. from # 0 => /\ from \in 1..count /\ Threaded(from, t)
                   /\ from = n \/ calls[from].fate = "unreturned"
  <2>1. from # 0 => from \in 1..count
    BY <1>1, SavedRange, Zenon
  <2>2. from # 0 => Threaded(from, t) /\ (from = n \/ calls[from].fate = "unreturned")
    BY <1>1, Zenon DEF IInv, SavedOwn
  <2>3. QED
    BY <2>1, <2>2, Zenon
<1>12. t \in armed /\ from \notin {0, n} => calls[n].entry \in {"missed", "unsupported"}
  <2>1. calls[n].entry \in Entry
    BY <1>5, Zenon DEF Threaded, Call
  <2>2. t \in armed /\ calls[n].entry = "saved" => from = n
    BY <1>5, Zenon DEF IInv, SavedUntilReturn, ID
  <2>3. calls[n].entry = "evicted" => from = 0
    BY <1>5, Zenon DEF IInv, EvictedGone
  <2>4. QED
    BY <2>1, <2>2, <2>3, Zenon DEF Entry
<1> HIDE DEF n, M, from
<1>13. event.from = from /\ event.call = n
  OBVIOUS
<1> HIDE DEF event
<1>14. ActiveOwn'
  <2> SUFFICES ASSUME NEW u \in Thread, active'[u] # 0
               PROVE  /\ calls'[active'[u]] \in Call /\ calls'[active'[u]].thread = u
                      /\ calls'[active'[u]].op \in Probed /\ calls'[active'[u]].fate = "open"
    BY DEF ActiveOwn, Threaded
  <2>1. u # t /\ active'[u] = active[u] /\ calls'[active[u]] = calls[active[u]]
    BY <1>3, <1>6, <1>7
  <2>2. Threaded(active[u], u) /\ calls[active[u]].fate = "open"
    BY <2>1 DEF IInv, ActiveOwn
  <2>3. QED
    BY <2>1, <2>2, Zenon DEF Threaded
<1>15. SavedOwn'
  <2> SUFFICES ASSUME NEW m \in Map, NEW u \in Thread, saved'[m][u] # 0
               PROVE  /\ calls'[saved'[m][u]] \in Call /\ calls'[saved'[m][u]].thread = u
                      /\ calls'[saved'[m][u]].op \in Probed
                      /\ MapOf(calls'[saved'[m][u]].op) = m
                      /\ saved'[m][u] = active'[u] \/ calls'[saved'[m][u]].fate = "unreturned"
    BY Zenon DEF SavedOwn, Threaded
  <2> DEFINE k == saved[m][u]
  <2>1. saved'[m][u] = k /\ k # 0 /\ k \in 1..count
    <3>1. saved'[m][u] = k
      BY <1>2, Zenon DEF from
    <3>2. QED
      BY <3>1, SavedRange, Zenon
  <2>2. /\ Threaded(k, u) /\ MapOf(calls[k].op) = m
        /\ k = active[u] \/ calls[k].fate = "unreturned"
    BY <2>1, Zenon DEF IInv, SavedOwn
  <2>3. CASE k # n
    <3>1. calls'[k] = calls[k]
      BY <1>3, <2>1, <2>3, Zenon
    <3>2. k = active'[u] \/ calls[k].fate = "unreturned"
      BY <1>6, <2>2, <2>3, Zenon DEF n
    <3>3. QED
      BY <2>1, <2>2, <3>1, <3>2, Zenon DEF Threaded
  <2>4. CASE k = n
    <3>1. u = t /\ m = M
      BY <1>5, <2>2, <2>4, Zenon DEF Threaded, M
    <3>2. t \notin armed /\ from = n
      BY <1>2, <2>1, <2>4, <3>1, Zenon
    <3>3. Keeps
      BY <1>4, <3>2, Zenon
    <3>4. QED
      BY <1>5, <2>1, <2>2, <2>4, <3>1, <3>3, Zenon DEF Threaded
  <2>5. QED
    BY <2>3, <2>4, Zenon
<1>16. EvictedGone'
  <2> SUFFICES ASSUME NEW u \in Thread, active'[u] # 0, calls'[active'[u]].entry = "evicted"
               PROVE  saved'[MapOf(calls'[active'[u]].op)][u] = 0
    BY Zenon DEF EvictedGone
  <2>1. u # t /\ active'[u] = active[u] /\ calls'[active[u]] = calls[active[u]]
    BY <1>3, <1>6, <1>7, Zenon
  <2>2. saved[MapOf(calls[active[u]].op)][u] = 0 /\ MapOf(calls[active[u]].op) \in Map
    BY <2>1, Zenon DEF IInv, EvictedGone, MapOf, Map
  <2>3. QED
    BY <1>2, <2>1, <2>2, Zenon
<1>17. SavedUntilReturn'
  <2> SUFFICES ASSUME NEW u \in Thread, active'[u] # 0, u \in armed', calls'[active'[u]].entry = "saved"
               PROVE  saved'[MapOf(calls'[active'[u]].op)][u] = active'[u]
    BY DEF SavedUntilReturn, ID
  <2>1. u # t /\ u \in armed /\ active'[u] = active[u] /\ calls'[active[u]] = calls[active[u]]
    BY <1>1, <1>3, <1>6, <1>7, Zenon
  <2>2. saved[MapOf(calls[active[u]].op)][u] = active[u] /\ MapOf(calls[active[u]].op) \in Map
    BY <2>1, Zenon DEF IInv, SavedUntilReturn, ID, MapOf, Map
  <2>3. QED
    BY <1>2, <2>1, <2>2, Zenon
<1>18. Filled'
  <2>1. ASSUME NEW e \in Pipeline
        PROVE  /\ calls'[e.call] \in Call /\ calls'[e.call].fate = "submitted"
               /\ \A m \in Map, u \in Thread : saved'[m][u] # e.from
    <3>1. calls'[e.call] = calls[e.call]
      BY <1>3, <1>9, Zenon
    <3>2. \A m \in Map, u \in Thread : saved'[m][u] \in {0, saved[m][u]}
      BY <1>2, Zenon DEF from
    <3>3. QED
      <4>1. e.from # 0
        BY <1>5, <1>9
      <4>2. QED
        <5>1. calls[e.call] \in Call /\ calls[e.call].fate = "submitted"
          BY Zenon DEF IInv, Filled
        <5>2. \A m \in Map, u \in Thread : saved[m][u] # e.from
          BY Zenon DEF IInv, Filled
        <5>3. \A m \in Map, u \in Thread : saved'[m][u] # e.from
          BY <3>2, <4>1, <5>2, Zenon
        <5>4. QED
          BY <3>1, <5>1, <5>3, Zenon
  <2>2. ASSUME Emits, NEW m \in Map, NEW u \in Thread PROVE saved'[m][u] # from
    <3>1. CASE m = M /\ u = t
      BY <1>2, <2>2, <3>1
    <3>2. CASE ~(m = M /\ u = t)
      <4>1. saved'[m][u] = saved[m][u] /\ from # 0
        BY <1>2, <2>2, <3>2, Zenon
      <4>2. SUFFICES ASSUME saved[m][u] = from PROVE FALSE
        BY <4>1, Zenon
      <4>3. Threaded(from, u) /\ MapOf(calls[from].op) = m
        BY <4>1, <4>2, Zenon DEF IInv, SavedOwn
      <4>4. Threaded(from, t) /\ MapOf(calls[from].op) = M
        BY <1>1, <4>1, Zenon DEF IInv, SavedOwn, from
      <4>5. QED
        BY <3>2, <4>3, <4>4, Zenon DEF Threaded
    <3>3. QED
      BY <3>1, <3>2, Zenon
  <2>3. QED
    <3> SUFFICES ASSUME NEW e \in Pipeline'
                 PROVE  /\ e.call \in 1..count /\ e.from \in 1..count
                        /\ calls'[e.call] \in Call /\ calls'[e.call].fate = "submitted"
                        /\ \A m \in Map, u \in Thread : saved'[m][u] # e.from
      BY <1>1, Zenon DEF Filled
    <3>1. CASE e \in Pipeline
      BY <1>9, <2>1, <3>1, Zenon
    <3>2. CASE Emits /\ e = event
      <4>1. e.call = n /\ e.from = from
        BY <1>13, <3>2, Zenon
      <4>2. QED
        BY <1>1, <1>11, <2>2, <3>2, <4>1, Zenon
    <3>3. QED
      BY <1>10, <3>1, <3>2, Zenon
<1>19. SnapshotOfItsCall'
  <2>1. ASSUME NEW e \in Pipeline PROVE calls'[e.call] = calls[e.call] /\ calls'[e.from] = calls[e.from]
    BY <1>3, <1>9, Zenon
  <2>2. ASSUME Emits, from # n
        PROVE  /\ calls'[from].fate = "unreturned" /\ calls'[from].thread = t
               /\ calls'[n].entry \in {"missed", "unsupported"} /\ calls'[n].thread = t
    BY <1>3, <1>11, <1>12, <2>2, Zenon DEF Threaded
  <2>3. QED
    <3> SUFFICES ASSUME NEW e \in Pipeline', e.from # e.call
                 PROVE  /\ calls'[e.from].fate = "unreturned"
                        /\ calls'[e.from].thread = calls'[e.call].thread
                        /\ calls'[e.call].entry \in {"missed", "unsupported"}
      BY Zenon DEF SnapshotOfItsCall
    <3>1. CASE e \in Pipeline
      BY <2>1, <3>1, Zenon DEF IInv, SnapshotOfItsCall
    <3>2. CASE Emits /\ e = event
      <4>1. e.call = n /\ e.from = from
        BY <1>13, <3>2, Zenon
      <4>2. QED
        BY <2>2, <3>2, <4>1, Zenon
    <3>3. QED
      BY <1>10, <3>1, <3>2, Zenon
<1>20. Accounted'
  <2> SUFFICES ASSUME NEW m \in 1..count PROVE calls'[m].fate = "submitted" <=> m \in CallsOf(Pipeline')
    BY <1>1, Zenon DEF Accounted, CallsOf
  <2>1. CASE m # n
    <3>1. calls'[m] = calls[m]
      BY <1>3, <2>1, Zenon
    <3>2. m \in CallsOf(Pipeline') <=> m \in CallsOf(Pipeline)
      BY <1>10, <1>13, <2>1, Zenon DEF CallsOf
    <3>3. QED
      BY <3>1, <3>2 DEF IInv, Accounted
  <2>2. CASE m = n
    <3>1. n \in CallsOf(Pipeline') <=> Emits
      BY <1>9, <1>10, <1>13, Zenon DEF CallsOf
    <3>2. calls'[n].fate = "submitted" <=> Emits
      <4>1. CASE Emits
        BY <4>1, Zenon
      <4>2. CASE Keeps
        <5>1. ~Emits /\ calls'[n].fate = "unreturned"
          BY <4>2, Zenon
        <5>2. QED
          BY <5>1
      <4>3. CASE Drops
        <5>1. calls'[n].fate = "over"
          BY <4>3, OverFate, Zenon
        <5>2. calls'[n].fate # "submitted"
          BY <5>1
        <5>3. QED
          BY <5>2, Zenon
      <4>4. QED
        BY <1>4, <4>1, <4>2, <4>3, Zenon
    <3>3. QED
      BY <2>2, <3>1, <3>2, Zenon
  <2>3. QED
    BY <2>1, <2>2, Zenon
<1>21. \A e \in Pipeline : Emits => e.call # event.call /\ e.from # event.from
  BY <1>1, <1>9, <1>13, Zenon DEF IInv, Filled, from
<1>22. Unique'
  BY <1>10, <1>21, Zenon DEF IInv, Unique
<1>23. Apart'
  <2>1. CASE Emits
    <3>1. event \notin Pipeline
      BY <1>21, <2>1, Zenon
    <3>2. events \in Seq(Event) /\ events' = Append(events, event)
      BY <2>1, Zenon DEF TypeOK
    <3>3. IsInjective(events')
      <4>1. event \in Event /\ event \notin Range(events) /\ IsInjective(events)
        BY <1>8, <2>1, <3>1, Zenon DEF IInv, Apart, Pipeline
      <4>2. QED
        BY <3>2, <4>1, AppendFacts, Zenon
    <3>4. QED
      BY <1>8, <2>1, <3>1, <3>3, Zenon DEF IInv, Apart, Pipeline
  <2>2. CASE events' = events
    BY <1>8, <2>2, Zenon DEF IInv, Apart
  <2>3. QED
    BY <1>4, <2>1, <2>2, Zenon
<1>24. HeldOne'
  BY <1>8, Zenon DEF IInv, HeldOne
<1>25. TypeOK'
  <2>1. active' \in [Thread -> 0..count] /\ armed' \subseteq Thread
    BY <1>1, <1>5 DEF TypeOK
  <2>2. QED
    BY <1>1, <1>types, <1>8, <2>1, Zenon DEF TypeOK, agentVars
<1>26. QED
  BY <1>14, <1>15, <1>16, <1>17, <1>18, <1>19, <1>20, <1>22, <1>23, <1>24, <1>25 DEF IInv

LEMMA CleanupKeeps ==
    ASSUME TypeOK, IInv, NEW t \in Thread, NEW s \in Sock, NEW copied \in Int,
           tcp_cleanup_rbuf(t, s, copied)
    PROVE  TypeOK' /\ IInv'
<1> DEFINE n == count + 1
           probe == EntryLink["tcp_cleanup_rbuf"] <= attached
           event == [from |-> n, call |-> n]
           call == [thread |-> t, sock |-> s, op |-> "tcp_cleanup_rbuf",
                    remote |-> peer[s], entry |-> "saved",
                    copied |-> copied, fate |-> "submitted"]
<1>1. PICK run \in Runs(probe) :
        LET emits == run /\ copied > 0 /\ Room /\ fill_event(s)
        IN  /\ misses' = misses + Miss(probe, run)
            /\ events' = IF emits THEN Append(events, event) ELSE events
            /\ calls' = [m \in 1..n |-> IF m # n THEN calls[m] ELSE IF ~emits THEN Over ELSE call]
  BY Zenon DEF tcp_cleanup_rbuf
<1> DEFINE emits == run /\ copied > 0 /\ Room /\ fill_event(s)
<1>2. count' = n /\ UNCHANGED <<peer, active, armed, saved, agentVars>>
  BY Zenon DEF tcp_cleanup_rbuf
<1>3. misses' \in Nat
  <2>1. misses \in Nat /\ Miss(probe, run) \in Nat
    BY DEF TypeOK, Miss
  <2>2. misses' = misses + Miss(probe, run)
    BY <1>1, Zenon
  <2>3. QED
    BY ONLY <2>1, <2>2
<1>4. call \in Call /\ call.fate = "submitted"
  BY Zenon DEF Call, Op, Entry, TypeOK
<1>5. count \in Nat /\ n \in Nat /\ n \notin 0..count /\ n \in 1..n /\ n # 0
      /\ 1..count \subseteq 1..n /\ 0..count \subseteq 0..n /\ 1..n = 1..count \cup {n}
  BY DEF TypeOK
<1>6. event \in Event /\ event.from = n /\ event.call = n
  BY <1>5 DEF Event, CallID
<1> HIDE DEF n, call, event
<1>types. calls' \in [1..n -> Call \cup {Over}]
  <2>1. calls' = [m \in 1..n |-> IF m # n THEN calls[m] ELSE IF ~emits THEN Over ELSE call]
    BY <1>1, Zenon
  <2> HIDE DEF emits
  <2>2. calls'[n] = IF emits THEN call ELSE Over
    BY <1>5, <2>1
  <2>3. \A m \in 1..count : calls'[m] = calls[m]
    BY <1>5, <2>1
  <2>4. calls \in [1..count -> Call \cup {Over}]
    BY Zenon DEF TypeOK
  <2>5. \A m \in 1..n : calls'[m] \in Call \cup {Over}
    BY <1>4, <1>5, <2>2, <2>3, <2>4, Zenon
  <2>6. QED
    BY <2>1, <2>2, <2>3, <2>5
<1>7. /\ \A m \in 1..count : calls'[m] = calls[m]
      /\ calls'[n] = IF emits THEN call ELSE Over
  <2>1. calls' = [m \in 1..n |-> IF m # n THEN calls[m] ELSE IF ~emits THEN Over ELSE call]
    BY <1>1
  <2> HIDE DEF emits
  <2>2. QED
    BY <1>5, <2>1
<1>8. events' = IF emits THEN Append(events, event) ELSE events
  BY <1>1, Zenon
<1> HIDE DEF emits
<1>9. UNCHANGED <<held, output, merged, runner>> /\ events \in Seq(Event)
  BY <1>2, Zenon DEF agentVars, TypeOK
<1>10. \A e \in Pipeline : e.call \in 1..count /\ e.from \in 1..count
  BY Zenon DEF IInv, Filled
<1>11. event \notin Pipeline /\ n \notin CallsOf(Pipeline)
  <2>1. n \notin 1..count
    BY <1>5
  <2>2. QED
    BY <1>6, <1>10, <2>1, Zenon DEF CallsOf
<1>12. /\ events' \in Seq(Event) /\ IsInjective(events')
       /\ Range(events') = IF emits THEN Range(events) \cup {event} ELSE Range(events)
  <2>1. event \notin Range(events) /\ IsInjective(events)
    BY <1>11, Zenon DEF Pipeline, IInv, Apart
  <2>2. CASE emits
    <3>1. events' = Append(events, event)
      BY <1>8, <2>2, Zenon
    <3>2. events \in Seq(Event) /\ event \in Event
      BY <1>6, <1>9, Zenon
    <3>3. events' \in Seq(Event) /\ Range(events') = Range(events) \cup {event}
      <4>1. Append(events, event) \in Seq(Event)
        BY <3>2, AppendFacts, Zenon
      <4>2. Range(Append(events, event)) = Range(events) \cup {event}
        BY ONLY <3>2, AppendFacts
      <4>3. QED
        BY <3>1, <4>1, <4>2, Zenon
    <3>4. IsInjective(events')
      BY <2>1, <3>1, <3>2, AppendFacts, Zenon
    <3>5. QED
      BY <2>2, <3>3, <3>4, Zenon
  <2>3. CASE ~emits
    BY <1>8, <1>9, <2>1, <2>3, Zenon
  <2>4. QED
    BY <2>2, <2>3, Zenon
<1>13. Pipeline' = IF emits THEN Pipeline \cup {event} ELSE Pipeline
  BY <1>9, <1>12, Zenon DEF Pipeline
<1>14. Apart'
  BY <1>9, <1>11, <1>12, Zenon DEF IInv, Apart, Pipeline
<1>15. HeldOne'
  BY <1>9 DEF IInv, HeldOne
<1>16. \A u \in Thread : active[u] # 0 => active[u] \in 1..count
  BY DEF TypeOK
<1>17. \A m \in Map, u \in Thread : saved[m][u] # n /\ (saved[m][u] # 0 => saved[m][u] \in 1..count)
  BY <1>5 DEF TypeOK
<1>18. ASSUME NEW u \in Thread, active[u] # 0 PROVE active'[u] = active[u] /\ calls'[active[u]] = calls[active[u]]
  BY <1>2, <1>7, <1>16, <1>18, Zenon
<1>19. ActiveOwn'
  BY <1>2, <1>18, Zenon DEF IInv, ActiveOwn, Threaded
<1>20. EvictedGone' /\ SavedUntilReturn'
  BY <1>2, <1>18, Zenon DEF IInv, EvictedGone, SavedUntilReturn, ID
<1>21. SavedOwn'
  <2> SUFFICES ASSUME NEW m \in Map, NEW u \in Thread, saved[m][u] # 0
               PROVE  /\ calls'[saved[m][u]] \in Call /\ calls'[saved[m][u]].thread = u
                      /\ calls'[saved[m][u]].op \in Probed
                      /\ MapOf(calls'[saved[m][u]].op) = m
                      /\ saved[m][u] = active[u] \/ calls'[saved[m][u]].fate = "unreturned"
    BY <1>2, Zenon DEF SavedOwn, Threaded
  <2>1. calls'[saved[m][u]] = calls[saved[m][u]]
    BY <1>7, <1>17, Zenon
  <2>2. /\ Threaded(saved[m][u], u) /\ MapOf(calls[saved[m][u]].op) = m
        /\ saved[m][u] = active[u] \/ calls[saved[m][u]].fate = "unreturned"
    BY Zenon DEF IInv, SavedOwn
  <2>3. QED
    BY <2>1, <2>2, Zenon DEF Threaded
<1>22. Filled'
  <2>1. ASSUME NEW e \in Pipeline
        PROVE  /\ calls'[e.call] \in Call /\ calls'[e.call].fate = "submitted"
               /\ e.call \in 1..n /\ e.from \in 1..n
               /\ \A m \in Map, u \in Thread : saved'[m][u] # e.from
    BY <1>2, <1>5, <1>7, <1>10, Zenon DEF IInv, Filled
  <2>2. ASSUME emits
        PROVE  /\ calls'[event.call] \in Call /\ calls'[event.call].fate = "submitted"
               /\ event.call \in 1..n /\ event.from \in 1..n
               /\ \A m \in Map, u \in Thread : saved'[m][u] # event.from
    BY <1>2, <1>4, <1>5, <1>6, <1>7, <1>17, <2>2, Zenon
  <2>3. \A e \in Pipeline' : e \in Pipeline \/ (emits /\ e = event)
    BY <1>13
  <2>4. QED
    BY <1>2, <2>1, <2>2, <2>3, Zenon DEF Filled
<1>23. SnapshotOfItsCall'
  BY <1>6, <1>7, <1>10, <1>13, Zenon DEF IInv, SnapshotOfItsCall
<1>24. Unique'
  BY <1>5, <1>6, <1>10, <1>13 DEF IInv, Unique
<1>25. Accounted'
  <2> SUFFICES ASSUME NEW m \in 1..n PROVE calls'[m].fate = "submitted" <=> m \in CallsOf(Pipeline')
    BY <1>2, Zenon DEF Accounted, CallsOf
  <2>1. CASE m \in 1..count
    <3>1. m # n
      BY <1>5, <2>1
    <3>2. m \in CallsOf(Pipeline') <=> m \in CallsOf(Pipeline)
      BY <1>6, <1>13, <3>1, Zenon DEF CallsOf
    <3>3. QED
      BY <1>7, <2>1, <3>2, Zenon DEF IInv, Accounted
  <2>2. CASE m = n
    <3>1. n \in CallsOf(Pipeline') <=> emits
      BY <1>6, <1>11, <1>13, Zenon DEF CallsOf
    <3>2. QED
      BY <1>4, <1>7, <2>2, <3>1 DEF Over
  <2>3. QED
    BY <1>5, <2>1, <2>2, Zenon
<1>26. TypeOK'
  <2>1. active' \in [Thread -> 0..n] /\ saved' \in [Map -> [Thread -> 0..n]]
    BY <1>2, <1>5 DEF TypeOK
  <2>2. QED
    BY <1>2, <1>3, <1>5, <1>types, <1>9, <1>12, <2>1, Zenon DEF TypeOK, agentVars
<1>27. QED
  BY <1>14, <1>15, <1>19, <1>20, <1>21, <1>22, <1>23, <1>24, <1>25, <1>26 DEF IInv

-----------------------------------------------------------------------------
(* The theorems                                                            *)

\* The invariant holds when the agent has not been started, and every step of the
\* kernel and of the agent keeps it.
LEMMA Invariance == Spec => [](TypeOK /\ IInv)
<1>1. Init => TypeOK /\ IInv
  <2> SUFFICES ASSUME Init PROVE TypeOK /\ IInv
    OBVIOUS
  <2>1. /\ count = 0 /\ active = [t \in Thread |-> 0] /\ saved = EmptyMaps /\ armed = {}
        /\ events = <<>> /\ output = <<>> /\ held = {} /\ merged = {} /\ calls = <<>>
    BY DEF Init
  <2>2. Pipeline = {}
    BY <2>1, EmptySequence DEF Pipeline
  <2>3. ActiveOwn /\ SavedOwn /\ EvictedGone /\ SavedUntilReturn
    BY <2>1, Zenon DEF ActiveOwn, SavedOwn, EvictedGone, SavedUntilReturn, EmptyMaps
  <2>4. Filled /\ SnapshotOfItsCall /\ Unique
    BY <2>2 DEF Filled, SnapshotOfItsCall, Unique
  <2>5. Accounted
    BY <2>1 DEF Accounted
  <2>6. Apart /\ HeldOne
    BY <2>1, EmptySequence DEF Apart, HeldOne
  <2>7. calls \in [1..count -> Call \cup {Over}]
    BY <2>1
  <2>8. saved \in [Map -> [Thread -> 0..count]]
    BY <2>1 DEF EmptyMaps
  <2>9. TypeOK
    <3>1. events \in Seq(Event) /\ output \in Seq(Event)
      BY <2>1, EmptySequence, Zenon
    <3>2. /\ peer \in [Sock -> Peer \cup {NoPeer}] /\ misses = 0 /\ attached = 0
          /\ phase = "down" /\ runner = "read"
      BY DEF Init
    <3>3. cancelled \in BOOLEAN /\ armed = {} /\ held = {} /\ merged = {}
      BY Zenon DEF Init
    <3>4. count \in Nat /\ active \in [Thread -> 0..count]
      BY <2>1
    <3>5. QED
      BY <2>7, <2>8, <3>1, <3>2, <3>3, <3>4 DEF TypeOK, Links
  <2>10. QED
    BY <2>3, <2>4, <2>5, <2>6, <2>9 DEF IInv
<1>2. TypeOK /\ IInv /\ [Next]_vars => TypeOK' /\ IInv'
  <2> SUFFICES ASSUME TypeOK, IInv, [Next]_vars PROVE TypeOK' /\ IInv'
    OBVIOUS
  <2>1. CASE \E t \in Thread, s \in Sock : \E op \in Probed : Enter(t, s, op)
    BY <2>1, EnterKeeps, Zenon
  <2>2. CASE \E t \in Thread, s \in Sock, copied \in Copied : tcp_cleanup_rbuf(t, s, copied)
    BY <2>2, CleanupKeeps, TracerAssumption, Zenon
  <2>3. CASE \E t \in Thread, copied \in Copied : Leave(t, copied)
    BY <2>3, LeaveKeeps, TracerAssumption, Zenon
  <2>4. CASE (\E s \in Sock, p \in Peer : Connect(s, p)) \/ UNCHANGED vars
    <3>1. UNCHANGED <<count, calls, active, armed, misses, saved, events, agentVars>>
      BY <2>4 DEF Connect, vars, kernelVars
    <3>2. peer' \in [Sock -> Peer \cup {NoPeer}]
      BY <2>4, Zenon DEF Connect, vars, kernelVars, TypeOK
    <3>3. TypeOK'
      BY <3>1, <3>2, Zenon DEF TypeOK, agentVars
    <3>4. Pipeline' = Pipeline /\ Apart' /\ HeldOne'
      BY <3>1, Zenon DEF IInv, Pipeline, Apart, HeldOne, agentVars
    <3>5. QED
      BY <3>1, <3>3, <3>4, MoveStep, Zenon
  <2>5. CASE Agent
    BY <2>5, AgentKeeps
  <2>6. QED
    BY <2>1, <2>2, <2>3, <2>4, <2>5 DEF Next, Kernel, Probed, Op
<1>3. QED
  BY <1>1, <1>2, PTL DEF Spec

\* What the maps, the buffers and the tracer hold are calls, threads and events
\* that there are, and no more probes are attached than the tracer has
\* (socket_flow.bpf.c:36-96, tracer_linux.go:31-77).
THEOREM TypesKept == Spec => []TypeOK
  BY Invariance, PTL

\* Events are about the call that moved their bytes (socket_flow.bpf.c:98-190).
THEOREM EventsDescribeTheirCall == Spec => []SnapshotOfItsCall
<1>1. IInv => SnapshotOfItsCall
  BY DEF IInv
<1>2. QED
  BY <1>1, Invariance, PTL

\* Entries stay until the return of their call (socket_flow.bpf.c:36-48, 98-125).
THEOREM EntriesStay == Spec => []SavedUntilReturn
<1>1. IInv => SavedUntilReturn
  BY DEF IInv
<1>2. QED
  BY <1>1, Invariance, PTL

\* Nothing submitted is lost silently or counted twice on its way from the ring
\* buffer to the recorded events (tracer_linux.go:79-106, collector.go:88-127 of
\* ownership).
THEOREM InOnePlace == Spec => []SubmittedOnce
<1>1. IInv => SubmittedOnce
  BY Split DEF IInv
<1>2. QED
  BY <1>1, Invariance, PTL

-----------------------------------------------------------------------------
(* The totals                                                              *)

\* What was submitted has bytes.
Positive == \A n \in 1..count : calls[n].fate = "submitted" => calls[n].copied \in Nat

\* What the collector reads of a call.
Alike(n) ==
    /\ calls'[n].thread = calls[n].thread /\ calls'[n].sock = calls[n].sock
    /\ calls'[n].remote = calls[n].remote
    /\ calls'[n].op = calls[n].op /\ calls'[n].copied = calls[n].copied

\* The calls that an event is about are not open.
LEMMA EventCalls ==
    ASSUME IInv, NEW e \in Pipeline
    PROVE  /\ e.call \in 1..count /\ e.from \in 1..count
           /\ calls[e.call].fate = "submitted"
           /\ e.from = e.call \/ calls[e.from].fate = "unreturned"
BY DEF IInv, Filled, SnapshotOfItsCall

\* A probe leaves the calls alone that have returned, and submits bytes only.
LEMMA ProbeTotals ==
    ASSUME TypeOK, IInv, Positive,
           \/ \E t \in Thread, s \in Sock : \E op \in Probed : Enter(t, s, op)
           \/ \E t \in Thread, copied \in Int : Leave(t, copied)
           \/ \E t \in Thread, s \in Sock, copied \in Int : tcp_cleanup_rbuf(t, s, copied)
    PROVE  /\ Positive' /\ merged' = merged /\ values' = values
           /\ \A n \in 1..count : calls[n].fate # "open" => Alike(n)
<1>1. ASSUME NEW t \in Thread, NEW s \in Sock, NEW op \in Probed, Enter(t, s, op)
      PROVE  /\ Positive' /\ merged' = merged /\ values' = values
             /\ \A n \in 1..count : calls[n].fate # "open" => Alike(n)
  <2>1. /\ count' = count + 1 /\ calls'[count + 1].fate = "open"
        /\ \A m \in 1..count : IF Evicts(MapOf(op), m)
                               THEN calls'[m] = [calls[m] EXCEPT !.entry = "evicted"]
                               ELSE calls'[m] = calls[m]
        /\ UNCHANGED agentVars
    BY <1>1, Entered, Zenon DEF IInv
  <2>2. ASSUME NEW m \in 1..count, Evicts(MapOf(op), m) PROVE calls[m] \in Call /\ calls[m].fate = "open"
    <3>1. PICK u \in Thread : active[u] = m
      BY <2>2, Zenon DEF Evicts
    <3>2. m # 0
      OBVIOUS
    <3>3. QED
      BY <3>1, <3>2, Zenon DEF IInv, ActiveOwn, Threaded
  <2>3. \A m \in 1..count : calls[m].fate # "open" => calls'[m] = calls[m]
    BY <2>1, <2>2, Zenon
  <2>4. \A m \in 1..count : calls'[m].fate = calls[m].fate
    <3>1. \A c \in Call : [c EXCEPT !.entry = "evicted"].fate = c.fate
      BY DEF Call
    <3>2. QED
      BY <2>1, <2>2, <3>1, Zenon
  <2>5. Positive'
    <3>1. \A m \in 1..(count + 1) : m \in 1..count \/ m = count + 1
      BY DEF TypeOK
    <3>2. QED
      BY <2>1, <2>3, <2>4, <3>1 DEF Positive
  <2>6. QED
    BY <2>1, <2>3, <2>5, Zenon DEF Alike, agentVars
<1>2. ASSUME NEW t \in Thread, NEW copied \in Int, Leave(t, copied)
      PROVE  /\ Positive' /\ merged' = merged /\ values' = values
             /\ \A n \in 1..count : calls[n].fate # "open" => Alike(n)
  <2> DEFINE n == active[t]
  <2>1. /\ n \in 1..count /\ count' = count /\ UNCHANGED agentVars
        /\ \A m \in 1..count : m # n => calls'[m] = calls[m]
    BY <1>2, Left, Zenon DEF IInv
  <2>2. calls[n] \in Call /\ calls[n].fate = "open"
    <3>1. n # 0
      BY <1>2, Zenon DEF Leave
    <3>2. QED
      BY <3>1, Zenon DEF IInv, ActiveOwn, Threaded
  <2>3. calls'[n].fate = "submitted" => calls'[n].copied = copied /\ copied > 0
    <3> DEFINE from == saved[MapOf(calls[n].op)][ID(t)]
               emits == t \in armed /\ from # 0 /\ copied > 0 /\ Room
               left == IF emits THEN [calls[n] EXCEPT !.copied = copied, !.fate = "submitted"]
                       ELSE IF t \notin armed /\ from = n
                            THEN [calls[n] EXCEPT !.copied = copied, !.fate = "unreturned"]
                            ELSE Over
    <3>1. calls' = [calls EXCEPT ![n] = left]
      BY <1>2, Zenon DEF Leave
    <3>2. calls'[n] = left
      BY <2>1, <3>1, Zenon DEF TypeOK
    <3>3. \A c \in Call : /\ [c EXCEPT !.copied = copied, !.fate = "submitted"].copied = copied
                         /\ [c EXCEPT !.copied = copied, !.fate = "unreturned"].fate = "unreturned"
      BY DEF Call
    <3>4. QED
      BY <2>2, <3>2, <3>3, OverFate
  <2>4. Positive'
    <3>1. copied > 0 => copied \in Nat
      OBVIOUS
    <3>2. calls'[n].fate = "submitted" => calls'[n].copied \in Nat
      BY <2>3, <3>1, Zenon
    <3> HIDE DEF n
    <3>3. QED
      BY <2>1, <3>2, Zenon DEF Positive
  <2>5. QED
    BY <2>1, <2>2, <2>4, Zenon DEF Alike, agentVars
<1>3. ASSUME NEW t \in Thread, NEW s \in Sock, NEW copied \in Int, tcp_cleanup_rbuf(t, s, copied)
      PROVE  /\ Positive' /\ merged' = merged /\ values' = values
             /\ \A n \in 1..count : calls[n].fate # "open" => Alike(n)
  <2> DEFINE n == count + 1
             call == [thread |-> t, sock |-> s, op |-> "tcp_cleanup_rbuf", remote |-> peer[s],
                      entry |-> "saved", copied |-> copied, fate |-> "submitted"]
  <2>1. count' = n /\ UNCHANGED agentVars
    BY <1>3, Zenon DEF tcp_cleanup_rbuf
  <2>2. PICK run \in Runs(EntryLink["tcp_cleanup_rbuf"] <= attached) :
          calls' = [m \in 1..n |-> IF m # n THEN calls[m]
                                   ELSE IF ~(run /\ copied > 0 /\ Room /\ fill_event(s)) THEN Over
                                   ELSE call]
    BY <1>3, Zenon DEF tcp_cleanup_rbuf
  <2>3. n \in 1..n /\ \A m \in 1..n : m \in 1..count \/ m = n
    BY DEF TypeOK
  <2>4. \A m \in 1..count : m \in 1..n /\ m # n
    BY DEF TypeOK
  <2>5. calls'[n].fate = "submitted" => calls'[n].copied = copied /\ copied > 0
    BY <2>2, <2>3 DEF Over
  <2>6. \A m \in 1..count : calls'[m] = calls[m]
    BY <2>2, <2>4, Zenon
  <2>7. Positive'
    <3>1. copied > 0 => copied \in Nat
      OBVIOUS
    <3>2. calls'[n].fate = "submitted" => calls'[n].copied \in Nat
      BY <2>5, <3>1, Zenon
    <3>3. QED
      BY <2>1, <2>3, <2>6, <3>2, Zenon DEF Positive
  <2>8. QED
    BY <2>1, <2>6, <2>7, Zenon DEF Alike, agentVars
<1>4. QED
  BY <1>1, <1>2, <1>3, Zenon

\* A step accepts an event, forgets all or leaves the totals and what they are
\* the totals of.
LEMMA TotalsStep ==
    ASSUME TypeOK, IInv, Positive, [Next]_vars
    PROVE  /\ Positive'
           /\ \/ merged' = {} /\ values' = <<>>
              \/ /\ merged' = merged /\ values' = values
                 /\ \A e \in merged : Alike(e.from) /\ Alike(e.call)
              \/ Observe /\ Accepted(Head(output)) /\ calls' = calls
<1>1. merged \subseteq Pipeline
  BY DEF Pipeline
<1>2. CASE \/ \E t \in Thread, s \in Sock : \E op \in Probed : Enter(t, s, op)
           \/ \E t \in Thread, copied \in Int : Leave(t, copied)
           \/ \E t \in Thread, s \in Sock, copied \in Int : tcp_cleanup_rbuf(t, s, copied)
  <2>1. \A e \in merged : /\ e.call \in 1..count /\ calls[e.call].fate # "open"
                          /\ e.from \in 1..count /\ calls[e.from].fate # "open"
    BY <1>1, EventCalls
  <2>2. QED
    BY <1>2, <2>1, ProbeTotals, Zenon
<1>3. CASE \/ (\E s \in Sock, p \in Peer : Connect(s, p)) \/ UNCHANGED vars
           \/ Start \/ Attach \/ RunReturns \/ Cancel \/ RunRead \/ RunSend
  <2>1. UNCHANGED <<count, calls, merged, values>>
    BY <1>3 DEF Connect, vars, agentVars, kernelVars, Start, Attach, RunReturns, Cancel, RunRead, RunSend
  <2>2. QED
    BY <2>1, Zenon DEF Positive, Alike
<1>4. ASSUME NEW E, calls' = Settled(E), count' = count PROVE Positive'
  <2>1. \A n \in 1..count : calls'[n] = IF n \in CallsOf(E) THEN Over ELSE calls[n]
    BY <1>4, SettledType, Zenon
  <2>2. Over.fate # "submitted"
    BY OverFate, Zenon
  <2>3. QED
    BY <1>4, <2>1, <2>2, Zenon DEF Positive
<1>5. CASE Tick \/ AttachFails \/ Done \/ TracerStopped
  <2>1. /\ merged' = {} /\ values' = <<>> /\ count' = count
        /\ calls' = Settled(merged) \/ calls' = Settled(Pipeline)
    BY <1>5 DEF Tick, AttachFails, Done, TracerStopped, Close
  <2>2. QED
    BY <1>4, <2>1, Zenon
<1>6. CASE Observe
  <2> DEFINE e == Head(output)
  <2>1. CASE Accepted(e)
    <3>1. calls' = calls /\ count' = count
      BY <1>6, <2>1, Zenon DEF Observe
    <3>2. QED
      BY <1>6, <2>1, <3>1, Zenon DEF Positive
  <2>2. CASE ~Accepted(e)
    <3>1. calls' = Settled({e}) /\ count' = count /\ merged' = merged /\ values' = values
      BY <1>6, <2>2, Zenon DEF Observe
    <3>2. e \in Range(output) /\ Range(output) \cap merged = {}
      <4>1. output \in Seq(Event) /\ output # <<>>
        BY <1>6, Zenon DEF Observe, TypeOK
      <4>2. Range(output) = {e} \cup Range(Tail(output))
        BY <4>1, TailFacts, Zenon
      <4>3. QED
        BY <4>2, Zenon DEF IInv, Apart
    <3>3. e \in Pipeline /\ e \notin merged
      BY <3>2 DEF Pipeline
    <3>4. ASSUME NEW f \in merged PROVE f.call # e.call /\ f.from # e.call
      <4>1. f \in Pipeline /\ f # e
        BY <1>1, <3>3
      <4>2. f.call # e.call
        BY <3>3, <4>1, Zenon DEF IInv, Unique
      <4>3. f.from = e.call => f.from = f.call
        BY <3>3, <4>1, EventCalls
      <4>4. QED
        BY <4>2, <4>3
    <3>5. \A n \in 1..count : n # e.call => calls'[n] = calls[n]
      BY <3>1, SettledType DEF CallsOf
    <3>6. \A f \in merged : f.call \in 1..count /\ f.from \in 1..count
      BY <1>1, EventCalls
    <3>7. QED
      BY <1>4, <3>1, <3>4, <3>5, <3>6, Zenon DEF Alike
  <2>3. QED
    BY <2>1, <2>2, Zenon
<1>7. CASE Next
  <2>1. Copied \subseteq Int
    BY TracerAssumption
  <2>2. QED
    BY <1>2, <1>3, <1>5, <1>6, <1>7, <2>1, Zenon DEF Next, Kernel, Agent, Probed, Op
<1>8. QED
  BY <1>3, <1>7, Zenon

\* The instance comes last: the sizes of sets matter from here on only.
INSTANCE FiniteSetTheorems

LEMMA Share ==
    ASSUME NEW x, NEW n \in Nat
    PROVE  IsFiniteSet({x} \X (1..n)) /\ Cardinality({x} \X (1..n)) = n
<1>1. IsFiniteSet({x}) /\ Cardinality({x}) = 1
  BY FS_Singleton
<1>2. IsFiniteSet(1..n) /\ Cardinality(1..n) = n
  BY FS_Interval
<1>3. /\ IsFiniteSet({x} \X (1..n))
      /\ Cardinality({x} \X (1..n)) = Cardinality({x}) * Cardinality(1..n)
  BY <1>1, <1>2, FS_Product, Zenon
<1>4. QED
  BY <1>1, <1>2, <1>3

LEMMA DisjointUnion ==
    ASSUME NEW A, IsFiniteSet(A), NEW B, IsFiniteSet(B), A \cap B = {}
    PROVE  Cardinality(A \cup B) = Cardinality(A) + Cardinality(B)
<1>1. Cardinality(A \cup B) = Cardinality(A) + Cardinality(B) - Cardinality(A \cap B)
  BY FS_Union
<1>2. Cardinality(A \cap B) = 0
  BY FS_EmptySet
<1>3. Cardinality(A) \in Nat /\ Cardinality(B) \in Nat
  BY FS_CardinalityType
<1>4. QED
  BY <1>1, <1>2, <1>3

\* w[x] things for each member of S: their number is the sum of w over S.
Parts(S, w) == UNION {{x} \X (1..w[x]) : x \in S}

LEMMA PartsFinite ==
    ASSUME NEW S, IsFiniteSet(S), NEW w, \A x \in S : w[x] \in Nat
    PROVE  IsFiniteSet(Parts(S, w)) /\ Cardinality(Parts(S, w)) \in Nat
<1> DEFINE T == {{x} \X (1..w[x]) : x \in S}
           f == [x \in S |-> {x} \X (1..w[x])]
<1>1. f \in Surjection(S, T)
  <2>1. f \in [S -> T] /\ \A t \in T : \E x \in S : f[x] = t
    BY Zenon
  <2>2. QED
    BY <2>1, Zenon DEF Surjection
<1>2. IsFiniteSet(T)
  BY <1>1, FS_Surjection, Zenon
<1>3. \A t \in T : IsFiniteSet(t)
  <2>1. \A x \in S : IsFiniteSet({x} \X (1..w[x]))
    BY Share, Zenon
  <2>2. QED
    BY <2>1, Zenon
<1> HIDE DEF T
<1>4. IsFiniteSet(UNION T)
  BY <1>2, <1>3, FS_UNION, Zenon
<1>5. QED
  BY <1>4, FS_CardinalityType, Zenon DEF Parts, T

LEMMA PartsAdded ==
    ASSUME NEW S, IsFiniteSet(S), NEW x, x \notin S, NEW w, \A y \in S \cup {x} : w[y] \in Nat
    PROVE  Cardinality(Parts(S \cup {x}, w)) = Cardinality(Parts(S, w)) + w[x]
<1> DEFINE X == {x} \X (1..w[x])
<1>1. Parts(S \cup {x}, w) = Parts(S, w) \cup X
  BY Zenon DEF Parts
<1>2. Parts(S, w) \cap X = {}
  BY DEF Parts
<1>3. IsFiniteSet(X) /\ Cardinality(X) = w[x]
  BY Share, Zenon
<1>4. IsFiniteSet(Parts(S, w))
  BY PartsFinite, Zenon
<1> HIDE DEF X
<1>5. QED
  BY <1>1, <1>2, <1>3, <1>4, DisjointUnion, Zenon

\* The number of bytes of finitely many events is their sum.
LEMMA BytesAdded ==
    ASSUME NEW E, IsFiniteSet(E), NEW e, e \notin E, NEW d,
           \A f \in E \cup {e} : Bytes(f, d) \in Nat
    PROVE  /\ Cardinality(BytesOf(E, d)) \in Nat
           /\ Cardinality(BytesOf(E \cup {e}, d)) = Cardinality(BytesOf(E, d)) + Bytes(e, d)
<1> DEFINE w == [f \in E \cup {e} |-> Bytes(f, d)]
<1>1. \A f \in E \cup {e} : w[f] = Bytes(f, d)
  BY Zenon
<1> HIDE DEF w
<1>2. /\ BytesOf(E, d) = Parts(E, w)
      /\ BytesOf(E \cup {e}, d) = Parts(E \cup {e}, w)
  BY <1>1 DEF BytesOf, Parts
<1>3. \A f \in E \cup {e} : w[f] \in Nat
  BY <1>1, Zenon
<1>4. Cardinality(Parts(E, w)) \in Nat
  BY <1>3, PartsFinite, Zenon
<1>5. Cardinality(Parts(E \cup {e}, w)) = Cardinality(Parts(E, w)) + w[e]
  BY <1>3, PartsAdded, Zenon
<1>6. QED
  BY <1>1, <1>2, <1>4, <1>5, Zenon

\* Totals that have stopped at MaxInt64 stay there.
LEMMA Saturates ==
    \A a, b \in Nat : saturatingAdd(Saturated(a), b) = Saturated(a + b)
BY TracerAssumption DEF saturatingAdd, Saturated

LEMMA Unsaturated == Saturated(0) = 0
BY TracerAssumption DEF Saturated

LEMMA BytesNat ==
    ASSUME TypeOK, IInv, Positive, NEW e \in Pipeline, NEW d
    PROVE  Bytes(e, d) \in Nat
BY EventCalls DEF Positive, Bytes

TotalsInv == Positive /\ IsFiniteSet(merged) /\ TotalsExact

\* An event that is accepted is added to the totals of its connection.
LEMMA Observed ==
    ASSUME TypeOK, IInv, TotalsInv, Observe, Accepted(Head(output)), calls' = calls
    PROVE  IsFiniteSet(merged') /\ TotalsExact'
<1> DEFINE e == Head(output)
           Part(k) == {f \in merged : Key(f) = k}
<1>1. values' = Merge(e) /\ merged' = merged \cup {e}
  BY Zenon DEF Observe
<1>2. e \in Pipeline /\ e \notin merged /\ merged \subseteq Pipeline
  <2>1. e \in Range(output) /\ Range(output) \cap merged = {}
    <3>1. output \in Seq(Event) /\ output # <<>>
      BY Zenon DEF Observe, TypeOK
    <3>2. Range(output) = {e} \cup Range(Tail(output))
      BY <3>1, TailFacts, Zenon
    <3>3. QED
      BY <3>2, Zenon DEF IInv, Apart
  <2>2. QED
    BY <2>1 DEF Pipeline
<1>3. IsFiniteSet(merged')
  BY <1>1, FS_AddElement, Zenon DEF TotalsInv
<1>4. /\ \A f : Key(f)' = Key(f)
      /\ \A E, d : BytesOf(E, d)' = BytesOf(E, d)
  <2>1. ASSUME NEW f PROVE Key(f)' = Key(f)
    BY Zenon DEF Key
  <2>2. ASSUME NEW f, NEW d PROVE Bytes(f, d)' = Bytes(f, d)
    BY Zenon DEF Bytes
  <2>3. ASSUME NEW E, NEW d PROVE BytesOf(E, d)' = BytesOf(E, d)
    BY <2>2 DEF BytesOf
  <2>4. QED
    BY <2>1, <2>3, Zenon
<1> HIDE DEF e
<1>5. DOMAIN values' = {Key(f) : f \in merged'}
  <2>1. DOMAIN values' = DOMAIN values \cup {Key(e)}
    BY <1>1 DEF Merge
  <2>2. QED
    BY <1>1, <2>1, Zenon DEF TotalsInv, TotalsExact
<1>6. ASSUME NEW k \in DOMAIN values', NEW d \in Direction
      PROVE  values'[k][d] = Saturated(Cardinality(BytesOf({f \in merged' : Key(f) = k}, d)))
  <2>1. CASE k # Key(e)
    <3>1. {f \in merged' : Key(f) = k} = Part(k)
      BY <1>1, <2>1
    <3>2. k \in DOMAIN values /\ values'[k] = values[k]
      BY <1>1, <1>6, <2>1 DEF Merge
    <3>3. QED
      BY <3>1, <3>2, Zenon DEF TotalsInv, TotalsExact
  <2>2. CASE k = Key(e)
    <3>1. {f \in merged' : Key(f) = k} = Part(k) \cup {e} /\ e \notin Part(k)
      BY <1>1, <1>2, <2>2
    <3>2. IsFiniteSet(Part(k))
      BY FS_Subset, Zenon DEF TotalsInv
    <3>3. \A f \in Part(k) \cup {e} : Bytes(f, d) \in Nat
      BY <1>2, BytesNat DEF TotalsInv
    <3>4. /\ Cardinality(BytesOf(Part(k), d)) \in Nat
          /\ Cardinality(BytesOf(Part(k) \cup {e}, d)) = Cardinality(BytesOf(Part(k), d)) + Bytes(e, d)
      BY <3>1, <3>2, <3>3, BytesAdded, Zenon
    <3>5. Current(k, d) = Saturated(Cardinality(BytesOf(Part(k), d)))
      <4>1. CASE k \in DOMAIN values
        BY <4>1, Zenon DEF Current, TotalsInv, TotalsExact
      <4>2. CASE k \notin DOMAIN values
        <5>1. Part(k) = {}
          BY <4>2, Zenon DEF TotalsInv, TotalsExact
        <5>2. BytesOf(Part(k), d) = {}
          BY <5>1, Zenon DEF BytesOf
        <5>3. Cardinality(BytesOf(Part(k), d)) = 0
          BY <5>2, FS_EmptySet
        <5>4. QED
          BY <4>2, <5>3, Unsaturated, Zenon DEF Current
      <4>3. QED
        BY <4>1, <4>2
    <3>6. values'[k][d] = saturatingAdd(Current(k, d), Bytes(e, d))
      BY <1>1, <1>6, <2>2 DEF Merge
    <3>7. Bytes(e, d) \in Nat
      BY <3>3
    <3> HIDE DEF Part
    <3>8. QED
      BY <3>1, <3>4, <3>5, <3>6, <3>7, Saturates, Zenon
  <2>3. QED
    BY <2>1, <2>2
<1>7. QED
  BY <1>3, <1>4, <1>5, <1>6, Zenon DEF TotalsExact

\* Every step keeps the totals.
LEMMA TotalsKept ==
    ASSUME TypeOK, IInv, TotalsInv, [Next]_vars
    PROVE  TotalsInv'
<1>1. Positive /\ IsFiniteSet(merged) /\ TotalsExact
  BY DEF TotalsInv
<1>2. CASE merged' = {} /\ values' = <<>>
  <2>1. IsFiniteSet(merged')
    BY <1>2, FS_EmptySet
  <2>2. TotalsExact'
    BY <1>2 DEF TotalsExact
  <2>3. QED
    BY <1>1, <2>1, <2>2, TotalsStep DEF TotalsInv
<1>3. CASE /\ merged' = merged /\ values' = values
           /\ \A e \in merged : Alike(e.from) /\ Alike(e.call)
  <2>1. \A e \in merged : Key(e)' = Key(e)
    BY <1>3, Zenon DEF Key, Alike
  <2>2. \A d : \A e \in merged : Bytes(e, d)' = Bytes(e, d)
    BY <1>3, Zenon DEF Bytes, Alike
  <2>3. \A k : {e \in merged : Key(e) = k}' = {e \in merged : Key(e) = k}
    BY <1>3, <2>1
  <2>4. \A k, d : BytesOf({e \in merged : Key(e) = k}, d)' = BytesOf({e \in merged : Key(e) = k}, d)
    BY <2>2, <2>3, Zenon DEF BytesOf
  <2>5. {Key(e) : e \in merged}' = {Key(e) : e \in merged}
    BY <1>3, <2>1
  <2>6. TotalsExact'
    <3>1. DOMAIN values' = {Key(e) : e \in merged}'
      BY <1>1, <1>3, <2>5, Zenon DEF TotalsExact
    <3>2. ASSUME NEW k \in DOMAIN values', NEW d \in Direction
          PROVE  values'[k][d] = Saturated(Cardinality(BytesOf({e \in merged : Key(e) = k}, d)'))
      <4>1. values[k][d] = Saturated(Cardinality(BytesOf({e \in merged : Key(e) = k}, d)))
        BY <1>1, <1>3, <3>2, Zenon DEF TotalsExact
      <4>2. QED
        BY <1>3, <2>4, <4>1, Zenon
    <3>3. QED
      BY <3>1, <3>2, Zenon DEF TotalsExact
  <2>7. QED
    BY <1>1, <1>3, <2>6, TotalsStep, Zenon DEF TotalsInv
<1>4. CASE Observe /\ Accepted(Head(output)) /\ calls' = calls
  BY <1>1, <1>4, Observed, TotalsStep, Zenon DEF TotalsInv
<1>5. QED
  BY <1>1, <1>2, <1>3, <1>4, TotalsStep, Zenon

\* The totals of a connection are the sums of the bytes of its calls, up to the
\* largest number, for any number of calls of any size (collector.go:88-107 of
\* ownership).
THEOREM TotalsOfCalls == Spec => []TotalsExact
<1>1. Init => TotalsInv
  <2> SUFFICES ASSUME Init PROVE TotalsInv
    OBVIOUS
  <2>1. count = 0 /\ merged = {} /\ values = <<>>
    BY DEF Init
  <2>2. Positive
    BY <2>1 DEF Positive
  <2>3. IsFiniteSet(merged)
    BY <2>1, FS_EmptySet
  <2>4. TotalsExact
    BY <2>1 DEF TotalsExact
  <2>5. QED
    BY <2>2, <2>3, <2>4 DEF TotalsInv
<1>2. TypeOK /\ IInv /\ TotalsInv /\ [Next]_vars => TotalsInv'
  BY TotalsKept
<1>3. TotalsInv => TotalsExact
  BY DEF TotalsInv
<1>4. QED
  BY <1>1, <1>2, <1>3, Invariance, PTL DEF Spec

=============================================================================

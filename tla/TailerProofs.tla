---------------------------- MODULE TailerProofs ----------------------------
(***************************************************************************)
(* For any number of inodes, lines, rotations and faults: the tailer       *)
(* records no line twice unless the log was exchanged between two looks at *)
(* its name, what the server was told last is how the last poll went, and  *)
(* no step loses a line but the ones the specification lists.  Most leaves *)
(* are first-order facts about sets and go to Zenon; the ones left to SMT  *)
(* are about offsets and sequences.                                        *)
(***************************************************************************)
EXTENDS Tailer, TLAPS

\* A poll has found a log and has not read it yet.
Looking == pc \in {"find", "rotated", "read"}

TypeInv == TypeOK /\ (Looking => stat \in Inode /\ cursor # None)

\* What an inode's contents become by a step of the proxy or of rotation.
LEMMA ContentStep ==
    ASSUME TypeOK, Logs
    PROVE  /\ \A i \in Inode :
                 \/ content'[i] = content[i]
                 \/ content'[i] = <<>>
                 \/ Write /\ content'[i] = Append(content[i], lines + 1)
           /\ content' \in [Inode -> Seq(1..MaxLines)]
<1>1. CASE Write
  <2>1. lines + 1 \in 1..MaxLines
    BY <1>1, TailerAssumption DEF Write, TypeOK
  <2>2. \A i \in Inode : content'[i] = IF i = writer THEN Append(content[i], lines + 1) ELSE content[i]
    BY Zenon, <1>1 DEF Write, TypeOK
  <2>3. \A i \in Inode : Append(content[i], lines + 1) \in Seq(1..MaxLines)
    BY <2>1 DEF TypeOK
  <2>4. content' = [content EXCEPT ![writer] = Append(@, lines + 1)]
    BY Zenon, <1>1 DEF Write
  <2>5. content' = [i \in Inode |-> content'[i]]
    BY Zenon, <2>4 DEF TypeOK
  <2>6. \A i \in Inode : content'[i] \in Seq(1..MaxLines)
    BY Zenon, <2>2, <2>3 DEF TypeOK
  <2>7. QED
    BY <1>1, <2>2, <2>5, <2>6, Zenon
<1>2. CASE Rename
  <2>1. content' = [i \in Inode |-> IF i = rotated THEN <<>> ELSE content[i]]
    BY Zenon, <1>2 DEF Rename
  <2>2. \A i \in Inode : content'[i] = content[i] \/ content'[i] = <<>>
    BY Zenon, <2>1
  <2>3. \A i \in Inode : content[i] \in Seq(1..MaxLines)
    BY Zenon DEF TypeOK
  <2>4. <<>> \in Seq(1..MaxLines)
    OBVIOUS
  <2>5. QED
    BY <2>1, <2>2, <2>3, <2>4, Zenon
<1>3. CASE Create
  BY <1>3 DEF Create, TypeOK
<1>4. CASE Reopen
  BY Zenon, <1>4 DEF Reopen, TypeOK
<1>5. CASE Truncate
  BY <1>5 DEF Truncate, TypeOK
<1>6. QED
  BY Zenon, <1>1, <1>2, <1>3, <1>4, <1>5 DEF Logs

\* Return, for the type invariant.
LEMMA ReturnType ==
    ASSUME Return
    PROVE  /\ pc' = "idle" /\ stat' \in Inode \cup {None} /\ from' \in Nat
           /\ result' \subseteq 1..MaxLines /\ ~Looking'
  BY Zenon DEF Return, Looking

LEMMA PollErrorType ==
    ASSUME TypeOK, PollError
    PROVE  /\ health' \in {"none", "healthy", "degraded", "unhealthy"}
           /\ outcome' \in {"none", "healthy", "degraded", "unhealthy"}
  BY Zenon DEF PollError, TypeOK

LEMMA FaultType ==
    ASSUME TypeOK, Fault
    PROVE  faults' \in 0..MaxFaults
  BY TailerAssumption DEF Fault, TypeOK

LEMMA ElementsType ==
    ASSUME NEW S, NEW s \in Seq(S)
    PROVE  \A k \in DOMAIN s : s[k] \in S
  OBVIOUS

\* What is read are lines.
LEMMA BehindType ==
    ASSUME TypeOK, NEW i \in Inode, NEW o
    PROVE  Behind(i, o) \subseteq 1..MaxLines /\ After(i, o) \subseteq 1..MaxLines
<1>1. content[i] \in Seq(1..MaxLines)
  BY Zenon DEF TypeOK
<1>2. \A k \in DOMAIN content[i] : content[i][k] \in 1..MaxLines
  BY Zenon, <1>1, ElementsType
<1>3. QED
  BY Zenon, <1>2 DEF Behind, After

LEMMA TypeInit == Init => TypeInv
<1> SUFFICES ASSUME Init PROVE TypeInv
  OBVIOUS
<1>1. path \in Inode /\ writer \in Inode
  BY Zenon, TailerAssumption DEF Init
<1>2. <<>> \in Seq(1..MaxLines)
  OBVIOUS
<1>3. content \in [Inode -> Seq(1..MaxLines)] /\ gen \in [Inode -> Nat]
  BY Zenon, <1>2 DEF Init
<1>4. ~Looking
  BY Zenon DEF Init, Looking
<1>5. QED
  BY <1>1, <1>3, <1>4, TailerAssumption DEF Init, TypeInv, TypeOK

LEMMA LogsType ==
    ASSUME TypeInv, Logs
    PROVE  TypeInv'
<1>1. content' \in [Inode -> Seq(1..MaxLines)]
  BY Zenon, ContentStep DEF TypeInv
<1>2. /\ gen' \in [Inode -> Nat]
      /\ path' \in Inode \cup {None} /\ rotated' \in Inode \cup {None} /\ writer' \in Inode
      /\ lines' \in 0..MaxLines /\ resets' \in 0..MaxResets
  <2>1. CASE Write
    BY <2>1, TailerAssumption DEF Write, TypeInv, TypeOK
  <2>2. CASE Rename
    BY <2>2, TailerAssumption DEF Rename, TypeInv, TypeOK
  <2>3. CASE Create
    BY <2>3 DEF Create, TypeInv, TypeOK
  <2>4. CASE Reopen
    BY Zenon, <2>4 DEF Reopen, TypeInv, TypeOK
  <2>5. CASE Truncate
    BY <2>5, TailerAssumption DEF Truncate, TypeInv, TypeOK
  <2>6. QED
    BY Zenon, <2>1, <2>2, <2>3, <2>4, <2>5 DEF Logs
<1>3. UNCHANGED <<loaded, cursor, disk, pc, pollVars, recorded, doubled, raced, healthVars, faults>>
  BY Zenon DEF Logs, Write, Rename, Create, Reopen, Truncate, historyVars
<1>4. /\ UNCHANGED <<cursor, disk, pc, stat, from, result, recorded, doubled, faults>>
      /\ UNCHANGED <<health, outcome>>
  BY Zenon, <1>3 DEF pollVars, healthVars
<1>5. TypeOK'
  <2>1. /\ cursor' \in Cursor \cup {None} /\ disk' \in Cursor \cup {None}
        /\ pc' \in {"idle", "stat", "find", "rotated", "read", "persist", "record"}
        /\ stat' \in Inode \cup {None} /\ from' \in Nat /\ faults' \in 0..MaxFaults
    BY Zenon, <1>4 DEF TypeInv, TypeOK
  <2>2. /\ result' \subseteq 1..MaxLines /\ recorded' \subseteq 1..MaxLines /\ doubled' \subseteq recorded'
        /\ health' \in {"none", "healthy", "degraded", "unhealthy"}
        /\ outcome' \in {"none", "healthy", "degraded", "unhealthy"}
    BY Zenon, <1>4 DEF TypeInv, TypeOK
  <2>3. QED
    BY <1>1, <1>2, <2>1, <2>2, Zenon DEF TypeOK
<1>6. Looking' => stat' \in Inode /\ cursor' # None
  BY Zenon, <1>4 DEF TypeInv, Looking
<1>7. QED
  BY Zenon, <1>5, <1>6 DEF TypeInv

LEMMA PollType ==
    ASSUME TypeInv, Poll
    PROVE  TypeInv'
<1> USE DEF pollVars, healthVars, historyVars, logVars
<1>1. CASE Begin
  <2>1. pc' \in {"idle", "persist", "stat"} /\ ~Looking'
    BY Zenon, <1>1 DEF Begin, PollError, Return, Looking
  <2>2. CASE UNCHANGED <<pollVars, late, reset, healthVars, faults>>
    BY <1>1, <2>1, <2>2 DEF Begin, TypeInv, TypeOK
  <2>3. CASE Fault /\ PollError /\ UNCHANGED cursor
    <3>1. Return
      BY Zenon, <2>3 DEF PollError
    <3>2. faults' \in 0..MaxFaults
      BY Zenon, <2>3, FaultType DEF TypeInv
    <3>3. UNCHANGED <<logVars, cursor, disk, recorded, doubled>>
      BY Zenon, <1>1, <2>3 DEF Begin
    <3>4. /\ health' \in {"none", "healthy", "degraded", "unhealthy"}
          /\ outcome' \in {"none", "healthy", "degraded", "unhealthy"}
      BY Zenon, <2>3, PollErrorType DEF TypeInv
    <3>5. QED
      BY Zenon, <3>1, <3>2, <3>3, <3>4, ReturnType DEF TypeInv, TypeOK
  <2>4. QED
    BY Zenon, <1>1, <2>2, <2>3 DEF Begin
<1>2. CASE Stat
  <2>1. path \in Inode
    BY Zenon, <1>2 DEF Stat, TypeInv, TypeOK
  <2>2. Len(content[path]) \in Nat /\ gen[path] \in Nat
    BY <2>1 DEF TypeInv, TypeOK
  <2>3. cursor' \in Cursor \cup {None} /\ from' \in Nat
    <3>1. CASE cursor = None
      BY <1>2, <2>1, <2>2, <3>1 DEF Stat, TypeInv, TypeOK, Cursor
    <3>2. CASE cursor # None
      <4>1. cursor \in Cursor /\ cursor.offset \in Nat
        BY Zenon, <3>2 DEF TypeInv, TypeOK, Cursor
      <4>2. cursor' = cursor /\ from' = Starts(cursor, path)
        BY Zenon, <1>2, <3>2 DEF Stat
      <4>3. QED
        BY Zenon, <4>1, <4>2 DEF Starts
    <3>3. QED
      BY Zenon, <3>1, <3>2
  <2>4. stat' \in Inode /\ pc' \in {"find", "read", "persist"} /\ (Looking' => cursor' # None)
    BY Zenon, <1>2, <2>1 DEF Stat, Looking
  <2>5. QED
    BY Zenon, <1>2, <2>3, <2>4 DEF Stat, TypeInv, TypeOK
<1>3. CASE findInode
  BY Zenon, <1>3 DEF findInode, TypeInv, TypeOK, Looking
<1>4. CASE ReadRotated
  <2>1. result' \subseteq 1..MaxLines
    BY Zenon, <1>4, BehindType DEF ReadRotated, readRequests, TypeInv, TypeOK
  <2>2. QED
    BY Zenon, <1>4, <2>1 DEF ReadRotated, TypeInv, TypeOK, Looking
<1>5. CASE Read
  <2>1. path \in Inode /\ stat \in Inode /\ from \in Nat
    BY Zenon, <1>5 DEF Read, TypeInv, TypeOK, Looking
  <2>2. Len(content[path]) \in Nat /\ gen[path] \in Nat
    BY <2>1 DEF TypeInv, TypeOK
  <2>3. result' \subseteq 1..MaxLines
    BY Zenon, <1>5, <2>1, BehindType DEF Read, readRequests, TypeInv, TypeOK
  <2>4. cursor' \in Cursor
    BY Zenon, <1>5, <2>1, <2>2 DEF Read, Cursor
  <2>5. pc' = "persist"
    BY Zenon, <1>5 DEF Read
  <2>6. QED
    BY Zenon, <1>5, <2>3, <2>4, <2>5 DEF Read, TypeInv, TypeOK, Looking
<1>6. CASE ReadFails
  <2>1. Return /\ PollError
    BY Zenon, <1>6 DEF ReadFails, PollError
  <2>2. faults' \in 0..MaxFaults
    BY Zenon, <1>6, FaultType DEF ReadFails, TypeInv, TypeOK
  <2>3. QED
    BY Zenon, <1>6, <2>1, <2>2, ReturnType, PollErrorType DEF ReadFails, TypeInv, TypeOK
<1>7. CASE Persist
  BY Zenon, <1>7 DEF Persist, TypeInv, TypeOK, Looking
<1>8. CASE PersistFails
  <2>1. Return /\ PollError /\ faults' \in 0..MaxFaults
    BY Zenon, <1>8, FaultType DEF PersistFails, PollError, TypeInv
  <2>2. QED
    BY Zenon, <1>8, <2>1, ReturnType, PollErrorType DEF PersistFails, TypeInv, TypeOK
<1>9. CASE Record
  <2>1. Return
    BY Zenon, <1>9 DEF Record
  <2>2. faults' \in 0..MaxFaults
    BY Zenon, <1>9, FaultType DEF Record, TypeInv, TypeOK
  <2>3. /\ health' \in {"none", "healthy", "degraded", "unhealthy"}
        /\ outcome' \in {"none", "healthy", "degraded", "unhealthy"}
    BY Zenon, <1>9 DEF Record, HealthEvent, TypeInv, TypeOK
  <2>4. recorded' \subseteq 1..MaxLines /\ doubled' \subseteq recorded'
    BY Zenon, <1>9 DEF Record, TypeInv, TypeOK
  <2>5. QED
    BY Zenon, <1>9, <2>1, <2>2, <2>3, <2>4, ReturnType DEF Record, TypeInv, TypeOK
<1>10. QED
  BY <1>1, <1>2, <1>3, <1>4, <1>5, <1>6, <1>7, <1>8, <1>9, Zenon DEF Poll

LEMMA TypeInvariant == Spec => []TypeInv
<1>1. TypeInv /\ [Next]_vars => TypeInv'
  <2> SUFFICES ASSUME TypeInv, [Next]_vars PROVE TypeInv'
    OBVIOUS
  <2>1. CASE Crash
    <3>1. Return /\ faults' \in 0..MaxFaults
      BY Zenon, <2>1, FaultType DEF Crash, TypeInv
    <3>2. QED
      BY Zenon, <2>1, <3>1, ReturnType DEF Crash, TypeInv, TypeOK, logVars
  <2>2. CASE UNCHANGED vars
    BY <2>2 DEF vars, logVars, pollVars, historyVars, healthVars, TypeInv, TypeOK, Looking
  <2>3. QED
    BY Zenon, <2>1, <2>2, LogsType, PollType DEF Next
<1>2. QED
  BY <1>1, TypeInit, PTL DEF Spec

\* The files, cursors and results are what the code takes them for.
THEOREM TypeCorrect == Spec => []TypeOK
<1>1. TypeInv => TypeOK
  BY Zenon DEF TypeInv
<1>2. QED
  BY <1>1, TypeInvariant, PTL

-----------------------------------------------------------------------------

\* What run and the RecoveryTracker remember of the last poll.
HealthInv ==
    /\ npmFailed => outcome = "unhealthy"
    /\ reportedHealthy /\ ~needsRecovery => outcome = "healthy"
    /\ HealthTold

LEMMA PollErrorHealth ==
    ASSUME HealthInv, PollError
    PROVE  HealthInv'
  BY Zenon DEF HealthInv, PollError, HealthTold

\* The last health event recorded is how the last poll went, unless recording
\* one failed (tailer.go:44-56, main.go:185-203).
THEOREM ServerKnowsHealth == Spec => []HealthTold
<1>1. Init => HealthInv
  BY Zenon DEF Init, HealthInv, HealthTold
<1>2. HealthInv /\ [Next]_vars => HealthInv'
  <2> SUFFICES ASSUME HealthInv, [Next]_vars PROVE HealthInv'
    OBVIOUS
  <2>1. CASE UNCHANGED healthVars
    BY Zenon, <2>1 DEF healthVars, HealthInv, HealthTold
  <2>2. CASE PollError
    BY Zenon, <2>2, PollErrorHealth
  <2>3. CASE Record
    <3>1. CASE degraded
      BY Zenon, <2>3, <3>1 DEF Record, HealthEvent, HealthInv, HealthTold
    <3>2. CASE ~degraded
      BY Zenon, <2>3, <3>2 DEF Record, HealthEvent, HealthInv, HealthTold
    <3>3. QED
      BY Zenon, <3>1, <3>2
  <2>4. CASE Crash
    BY Zenon, <2>4 DEF Crash, HealthInv, HealthTold
  <2>5. UNCHANGED healthVars \/ PollError \/ Record \/ Crash
    <3>1. CASE Logs
      BY <3>1, Zenon DEF Logs, Write, Rename, Create, Reopen, Truncate
    <3>2. CASE Poll
      BY <3>2, Zenon DEF Poll, Begin, Stat, findInode, ReadRotated, Read, ReadFails, Persist, PersistFails
    <3>3. CASE UNCHANGED vars
      BY <3>3, Zenon DEF vars
    <3>4. QED
      BY <3>1, <3>2, <3>3, Zenon DEF Next
  <2>6. QED
    BY Zenon, <2>1, <2>2, <2>3, <2>4, <2>5
<1>3. HealthInv => HealthTold
  BY Zenon DEF HealthInv
<1>4. QED
  BY <1>1, <1>2, <1>3, PTL DEF Spec

-----------------------------------------------------------------------------

\* A line is in the contents of one inode, and what is recorded or about to be
\* has been written.
Apart ==
    /\ path # None => path # rotated
    /\ \A i \in Inode : Behind(i, 0) \subseteq 1..lines
    /\ \A i, j \in Inode : i # j => Behind(i, 0) \cap Behind(j, 0) = {}
    /\ recorded \subseteq 1..lines /\ result \subseteq 1..lines

\* What is recorded is neither found again from a cursor nor waiting.
Unrecorded ==
    /\ recorded \cap Ahead(disk) = {}
    /\ recorded \cap Ahead(cursor) = {}
    /\ recorded \cap result = {}

\* The cursor is past what a poll returns, and is saved before that is recorded.
Passed ==
    /\ pc \in {"persist", "record"} => result \cap Ahead(cursor) = {}
    /\ pc = "record" => disk = cursor
    /\ pc \in {"idle", "stat", "find", "rotated"} => result = {}

\* What a poll is about to read, if the log is still the file it has found.
Underway ==
    Looking =>
        /\ from # 0 => cursor.inode = stat /\ from = cursor.offset
        /\ pc # "read" => cursor.inode # stat
        /\ path = stat => recorded \cap After(path, from) = {} /\ result \cap Behind(path, 0) = {}

Once == Apart /\ Unrecorded /\ Passed /\ Underway

OnceInv == AtMostOnce /\ (~raced => Once)

LEMMA BehindIs ==
    ASSUME NEW i, NEW o
    PROVE  \A n : n \in Behind(i, o) <=> \E k \in DOMAIN content[i] : k > o /\ n = content[i][k]
  BY Zenon DEF Behind

LEMMA ApartKeeps ==
    ASSUME Apart, UNCHANGED <<content, path, rotated, lines>>,
           recorded' \subseteq 1..lines, result' \subseteq 1..lines
    PROVE  Apart'
<1>1. \A i \in Inode : Behind(i, 0)' = Behind(i, 0)
  BY Zenon DEF Behind
<1>2. QED
  BY Zenon, <1>1 DEF Apart

LEMMA BehindStart ==
    ASSUME TypeOK, NEW i \in Inode, NEW o \in Nat
    PROVE  Behind(i, o) \subseteq Behind(i, 0)
<1>1. \A k \in DOMAIN content[i] : k > 0
  BY DEF TypeOK
<1>2. QED
  BY <1>1, BehindIs

LEMMA BehindEnd ==
    ASSUME TypeOK, NEW i \in Inode, NEW o \in Nat, Len(content[i]) <= o
    PROVE  Behind(i, o) = {}
<1>1. \A k \in DOMAIN content[i] : ~(k > o)
  BY DEF TypeOK
<1>2. QED
  BY Zenon, <1>1 DEF Behind

\* The lines behind an offset only become fewer, but for the line just written.
LEMMA BehindStep ==
    ASSUME TypeOK, Logs, NEW i \in Inode, NEW o \in Nat, NEW n \in Behind(i, o)'
    PROVE  /\ content'[i] # <<>>
           /\ Len(content[i]) <= Len(content'[i])
           /\ \/ n \in Behind(i, o)
              \/ Write /\ n = lines + 1 /\ i = writer
<1>1. PICK k \in DOMAIN content'[i] : k > o /\ n = content'[i][k]
  BY Zenon DEF Behind
<1>2. content[i] \in Seq(1..MaxLines)
  BY Zenon DEF TypeOK
<1>3. CASE content'[i] = content[i]
  BY <1>1, <1>2, <1>3, BehindIs
<1>4. CASE content'[i] = <<>>
  BY <1>1, <1>4
<1>5. CASE Write /\ content'[i] = Append(content[i], lines + 1) /\ content'[i] # content[i]
  <2>1. i = writer
    BY Zenon, <1>5 DEF Write, TypeOK
  <2>2. Len(content'[i]) = Len(content[i]) + 1 /\ k \in 1..(Len(content[i]) + 1)
    BY <1>1, <1>2, <1>5
  <2>3. n = IF k = Len(content[i]) + 1 THEN lines + 1 ELSE content[i][k]
    BY <1>1, <1>2, <1>5, <2>2
  <2>4. CASE k = Len(content[i]) + 1
    BY <1>2, <1>5, <2>1, <2>2, <2>3, <2>4
  <2>5. CASE k # Len(content[i]) + 1
    <3>1. k \in DOMAIN content[i] /\ n = content[i][k]
      BY <1>2, <2>2, <2>3, <2>5
    <3>2. n \in Behind(i, o)
      BY Zenon, <1>1, <3>1, BehindIs
    <3>3. QED
      BY <1>2, <1>5, <2>2, <3>2
  <2>6. QED
    BY Zenon, <2>4, <2>5
<1>6. QED
  BY Zenon, <1>3, <1>4, <1>5, ContentStep

\* Nothing comes before a cursor that was not before it, but a new line.
LEMMA AheadStep ==
    ASSUME TypeOK, TypeOK', Apart, Logs
    PROVE  \A c \in Cursor \cup {None} : \A n \in 1..lines : n \in Ahead(c)' => n \in Ahead(c)
<1> SUFFICES ASSUME NEW c \in Cursor \cup {None}, NEW n \in 1..lines, n \in Ahead(c)'
             PROVE  n \in Ahead(c)
  OBVIOUS
<1>1. c \in Cursor /\ c # None /\ c.inode \in Inode /\ c.offset \in Nat /\ None \notin Inode
  BY Zenon, TailerAssumption DEF Ahead, Cursor
<1> DEFINE i == c.inode
<1>2. \/ i \in {path', rotated'} /\ n \in After(i, c.offset)'
      \/ i = path' /\ Len(content'[i]) < c.offset /\ n \in After(i, 0)'
      \/ path' \notin {None, i} /\ n \in After(path, 0)'
  BY Zenon, <1>1 DEF Ahead
<1>3. i \in {path, rotated} /\ n \in After(i, c.offset) => n \in Ahead(c)
  <2>1. Behind(i, c.offset) \subseteq Behind(i, 0)
    BY Zenon, <1>1, BehindStart
  <2>2. QED
    BY Zenon, <1>1, <2>1 DEF Ahead, After
<1>4. i = path /\ Len(content[i]) < c.offset /\ n \in After(i, 0) => n \in Ahead(c)
  BY Zenon, <1>1 DEF Ahead
<1>5. path \notin {None, i} /\ n \in After(path, 0) => n \in Ahead(c)
  BY Zenon, <1>1 DEF Ahead
<1>6. \A j \in Inode, o \in Nat :
         n \in After(j, o)' => /\ content'[j] # <<>> /\ Len(content[j]) <= Len(content'[j])
                              /\ n \in After(j, o)
  <2> SUFFICES ASSUME NEW j \in Inode, NEW o \in Nat, n \in After(j, o)'
               PROVE  /\ content'[j] # <<>> /\ Len(content[j]) <= Len(content'[j])
                      /\ n \in After(j, o)
    OBVIOUS
  <2>1. n \in Behind(j, o)' /\ n \notin Malformed
    BY Zenon DEF After
  <2>2. /\ content'[j] # <<>> /\ Len(content[j]) <= Len(content'[j])
        /\ n \in Behind(j, o) \/ n = lines + 1
    BY Zenon, <2>1, BehindStep
  <2>3. n # lines + 1
    BY DEF TypeOK
  <2>4. QED
    BY Zenon, <2>1, <2>2, <2>3 DEF After
<1>7. /\ i \in {path', rotated'} => i \in {path, rotated} \/ content'[i] = <<>>
      /\ path' # None => path' = path \/ content'[path'] = <<>>
  <2>1. CASE Create
    BY Zenon, <2>1, <1>1 DEF Create, TypeOK
  <2>2. CASE ~Create
    BY Zenon, <2>2, <1>1 DEF Logs, Write, Rename, Reopen, Truncate
  <2>3. QED
    BY Zenon, <2>1, <2>2
<1>8. CASE i \in {path', rotated'} /\ n \in After(i, c.offset)'
  BY Zenon, <1>1, <1>3, <1>6, <1>7, <1>8
<1>9. CASE i = path' /\ Len(content'[i]) < c.offset /\ n \in After(i, 0)'
  <2>1. content'[i] # <<>> /\ Len(content[i]) <= Len(content'[i]) /\ n \in After(i, 0)
    BY Zenon, <1>1, <1>6, <1>9
  <2>2. i = path
    BY Zenon, <1>1, <1>7, <1>9, <2>1
  <2>3. Len(content[i]) \in Nat /\ Len(content'[i]) \in Nat
    <3>1. content[i] \in Seq(1..MaxLines) /\ content'[i] \in Seq(1..MaxLines)
      BY Zenon, <1>1 DEF TypeOK
    <3>2. QED
      BY <3>1
  <2>4. QED
    BY <1>1, <1>4, <1>9, <2>1, <2>2, <2>3
<1>10. CASE path' \notin {None, i} /\ n \in After(path, 0)'
  <2>1. PICK j \in Inode : j = path'
    BY Zenon, <1>10 DEF TypeOK
  <2>2. n \in After(j, 0)'
    BY Zenon, <1>10, <2>1 DEF After, Behind
  <2>3. content'[j] # <<>> /\ n \in After(j, 0)
    BY Zenon, <1>6, <2>2
  <2>4. j = path
    BY Zenon, <1>7, <1>10, <2>1, <2>3
  <2>5. QED
    BY Zenon, <1>5, <1>10, <2>1, <2>3, <2>4
<1>11. QED
  BY Zenon, <1>2, <1>8, <1>9, <1>10

\* The proxy and rotation disturb nothing.
LEMMA LogsOnce ==
    ASSUME TypeInv, TypeOK', Once, Logs
    PROVE  Once'
<1>1. TypeOK /\ Apart /\ lines \in Nat /\ lines' \in Nat /\ lines <= lines'
  <2>1. lines' = lines \/ lines' = lines + 1
    BY Zenon DEF Logs, Write, Rename, Create, Reopen, Truncate
  <2>2. lines \in Nat
    BY DEF TypeInv, TypeOK
  <2>3. QED
    BY <2>1, <2>2 DEF TypeInv, Once
<1>2. UNCHANGED <<cursor, disk, pc, stat, from, result, recorded>>
  BY Zenon DEF Logs, Write, Rename, Create, Reopen, Truncate, pollVars, historyVars
<1>3. \A i \in Inode, o \in Nat : \A n \in Behind(i, o)' :
         /\ content'[i] # <<>>
         /\ n \in Behind(i, o) \/ (i = writer /\ n = lines + 1 /\ lines' = lines + 1)
  BY Zenon, <1>1, BehindStep DEF Write
<1>4. Apart'
  <2>1. path' # None => path' # rotated'
    <3>1. CASE Create
      BY Zenon, <3>1 DEF Create
    <3>2. CASE ~Create
      BY Zenon, <1>1, <3>2 DEF Logs, Write, Rename, Reopen, Truncate, Apart
    <3>3. QED
      BY Zenon, <3>1, <3>2
  <2>2. \A i \in Inode : Behind(i, 0)' \subseteq 1..lines'
    <3> SUFFICES ASSUME NEW i \in Inode, NEW n \in Behind(i, 0)' PROVE n \in 1..lines'
      OBVIOUS
    <3>1. n \in Behind(i, 0) \/ (n = lines + 1 /\ lines' = lines + 1)
      BY <1>3
    <3>2. n \in Behind(i, 0) => n \in 1..lines
      BY Zenon, <1>1 DEF Apart
    <3>3. QED
      BY <1>1, <3>1, <3>2
  <2>3. \A i, j \in Inode : i # j => (Behind(i, 0) \cap Behind(j, 0))' = {}
    <3> SUFFICES ASSUME NEW i \in Inode, NEW j \in Inode, i # j, NEW n \in Behind(i, 0)', n \in Behind(j, 0)'
                 PROVE  FALSE
      OBVIOUS
    <3>1. \A k \in Inode : lines + 1 \notin Behind(k, 0)
      BY <1>1 DEF Apart
    <3>2. /\ n \in Behind(i, 0) \/ (i = writer /\ n = lines + 1)
          /\ n \in Behind(j, 0) \/ (j = writer /\ n = lines + 1)
      BY <1>3
    <3>3. QED
      BY Zenon, <1>1, <3>1, <3>2 DEF Apart
  <2>4. recorded' \subseteq 1..lines' /\ result' \subseteq 1..lines'
    BY <1>1, <1>2 DEF Apart
  <2>5. QED
    BY Zenon, <2>1, <2>2, <2>3, <2>4 DEF Apart
<1>5. \A c \in Cursor \cup {None} : \A n \in 1..lines : n \in Ahead(c)' => n \in Ahead(c)
  BY Zenon, <1>1, AheadStep
<1>6. \A n \in 1..lines : /\ n \in Ahead(disk)' => n \in Ahead(disk)
                          /\ n \in Ahead(cursor)' => n \in Ahead(cursor)
  <2>1. PICK d \in Cursor \cup {None}, c \in Cursor \cup {None} :
           d = disk /\ d = disk' /\ c = cursor /\ c = cursor'
    BY Zenon, <1>1, <1>2 DEF TypeOK
  <2>2. Ahead(d)' = Ahead(disk)' /\ Ahead(d) = Ahead(disk) /\ Ahead(c)' = Ahead(cursor)' /\ Ahead(c) = Ahead(cursor)
    BY Zenon, <2>1 DEF Ahead
  <2>3. QED
    BY Zenon, <1>5, <2>2
<1>7. Unrecorded' /\ Passed'
  BY Zenon, <1>1, <1>2, <1>6 DEF Once, Apart, Unrecorded, Passed
<1>8. Underway'
  <2> SUFFICES ASSUME Looking', path' = stat'
               PROVE  recorded' \cap After(path, from)' = {} /\ result' \cap Behind(path, 0)' = {}
    BY Zenon, <1>2 DEF Underway, Once, Looking
  <2>1. stat \in Inode /\ from \in Nat /\ path' = stat
    BY Zenon, <1>1, <1>2 DEF TypeInv, TypeOK, Looking
  <2>2. After(path, from)' = After(stat, from)' /\ Behind(path, 0)' = Behind(stat, 0)'
    BY Zenon, <1>2, <2>1 DEF After, Behind
  <2>3. CASE content'[stat] = <<>>
    <3>1. Behind(stat, from)' = {} /\ Behind(stat, 0)' = {}
      BY <1>2, <2>3 DEF Behind
    <3>2. QED
      BY Zenon, <2>2, <3>1 DEF After
  <2>4. CASE content'[stat] # <<>>
    <3>1. path = stat
      BY Zenon, <1>1, <2>1, <2>4, TailerAssumption DEF Logs, Write, Rename, Create, Reopen, Truncate, TypeOK
    <3>2. recorded \cap After(stat, from) = {} /\ result \cap Behind(stat, 0) = {}
      BY Zenon, <1>2, <3>1 DEF Once, Underway, Looking
    <3>3. \A o \in Nat : Behind(stat, o)' \subseteq Behind(stat, o) \cup {lines + 1}
      <4>1. PICK i \in Inode : i = stat /\ i = stat'
        BY Zenon, <1>2, <2>1
      <4>2. \A o \in Nat : Behind(i, o)' = Behind(stat, o)' /\ Behind(i, o) = Behind(stat, o)
        BY Zenon, <4>1 DEF Behind
      <4>3. QED
        BY <1>3, <4>2
    <3>4. lines + 1 \notin recorded /\ lines + 1 \notin result
      BY <1>1 DEF Apart
    <3>5. QED
      BY Zenon, <1>2, <2>1, <2>2, <3>2, <3>3, <3>4 DEF After
  <2>5. QED
    BY Zenon, <2>3, <2>4
<1>9. QED
  BY Zenon, <1>4, <1>7, <1>8 DEF Once

\* A poll finds the log: what it will read of it lies before the cursor.
LEMMA StatOnce ==
    ASSUME TypeInv, Once, Stat
    PROVE  Once'
<1>1. TypeOK /\ path \in Inode /\ Len(content[path]) \in Nat
  <2>1. path \in Inode /\ content[path] \in Seq(1..MaxLines)
    BY Zenon DEF Stat, TypeInv, TypeOK
  <2>2. QED
    BY <2>1 DEF TypeInv
<1>2. UNCHANGED <<content, path, rotated, lines, disk, result, recorded>> /\ pc = "stat" /\ stat' = path
  BY Zenon DEF Stat, logVars, historyVars
<1>3. Apart' /\ result' = {}
  BY Zenon, <1>2, ApartKeeps DEF Once, Apart, Passed
<1>4. Ahead(disk)' = Ahead(disk)
  BY Zenon, <1>2 DEF Ahead, After, Behind
<1>5. CASE cursor = None
  <2>1. pc' = "persist" /\ cursor'.inode = path /\ cursor'.offset = Len(content[path])
    BY <1>5, <1>1 DEF Stat
  <2>2. Behind(path, Len(content[path])) = {}
    BY <1>1, BehindEnd
  <2>3. Ahead(cursor)' = {}
    BY <1>1, <1>2, <2>1, <2>2 DEF Ahead, After, Behind
  <2>4. QED
    BY Zenon, <1>2, <1>3, <1>4, <2>1, <2>3 DEF Once, Unrecorded, Passed, Underway, Looking
<1>6. CASE cursor # None
  <2>1. /\ pc' = (IF cursor.inode # path THEN "find" ELSE "read")
        /\ cursor' = cursor /\ from' = Starts(cursor, path)
    BY Zenon, <1>6 DEF Stat
  <2>2. Ahead(cursor)' = Ahead(cursor)
    BY Zenon, <1>2, <2>1 DEF Ahead, After, Behind
  <2>3. After(path, Starts(cursor, path)) \subseteq Ahead(cursor)
    BY Zenon, <1>1, <1>6, TailerAssumption DEF Ahead, Starts
  <2>4. After(path, from)' = After(path, Starts(cursor, path))
    BY Zenon, <1>2, <2>1 DEF After, Behind
  <2>5. from' # 0 => cursor'.inode = stat' /\ from' = cursor'.offset
    BY Zenon, <1>2, <2>1 DEF Starts
  <2>6. Underway'
    BY Zenon, <1>2, <1>3, <2>1, <2>3, <2>4, <2>5 DEF Once, Unrecorded, Underway
  <2>7. QED
    BY Zenon, <1>2, <1>3, <1>4, <2>1, <2>2, <2>6 DEF Once, Unrecorded, Passed
<1>7. QED
  BY Zenon, <1>5, <1>6

\* The rest of the renamed log lies before the cursor, and not in the log.
LEMMA ReadRotatedOnce ==
    ASSUME TypeInv, Once, ReadRotated, ~raced'
    PROVE  Once'
<1> DEFINE i == cursor.inode
<1>1. TypeOK /\ cursor \in Cursor /\ cursor # None /\ i \in Inode /\ cursor.offset \in Nat
  BY Zenon DEF ReadRotated, Looking, TypeInv, TypeOK, Cursor
<1>2. i \in {path, rotated} /\ result' = result \cup After(i, cursor.offset)
  BY Zenon DEF ReadRotated, readRequests
<1>3. /\ UNCHANGED <<content, path, rotated, lines, disk, cursor, stat, from, recorded>>
      /\ pc = "rotated" /\ pc' = "read"
  BY Zenon DEF ReadRotated, logVars
<1>4. After(i, cursor.offset) \subseteq Ahead(cursor)
  <2>1. Behind(i, cursor.offset) \subseteq Behind(i, 0)
    BY Zenon, <1>1, BehindStart
  <2>2. QED
    BY Zenon, <1>1, <1>2, <2>1 DEF Ahead, After
<1>5. result = {} /\ i # stat
  BY Zenon, <1>3 DEF Once, Passed, Underway, Looking
<1>6. After(i, cursor.offset) \subseteq Behind(i, 0) /\ Behind(i, 0) \subseteq 1..lines
  BY Zenon, <1>1, BehindStart DEF After, Once, Apart
<1>7. Apart'
  BY Zenon, <1>2, <1>3, <1>5, <1>6, ApartKeeps DEF Once, Apart
<1>8. Unrecorded' /\ Passed'
  <2>1. Ahead(cursor)' = Ahead(cursor) /\ Ahead(disk)' = Ahead(disk)
    BY Zenon, <1>3 DEF Ahead, After, Behind
  <2>2. QED
    BY Zenon, <1>2, <1>3, <1>4, <1>5, <2>1 DEF Once, Unrecorded, Passed
<1>9. Underway'
  <2>1. After(path, from)' = After(path, from) /\ Behind(path, 0)' = Behind(path, 0)
    BY Zenon, <1>3 DEF After, Behind
  <2>2. path = stat => result' \cap Behind(path, 0) = {}
    <3> SUFFICES ASSUME path = stat PROVE result' \cap Behind(path, 0) = {}
      OBVIOUS
    <3>1. path \in Inode /\ path # i
      BY Zenon, <1>3, <1>5 DEF TypeInv, Looking
    <3>2. Behind(i, 0) \cap Behind(path, 0) = {}
      BY Zenon, <1>1, <3>1 DEF Once, Apart
    <3>3. QED
      BY Zenon, <1>2, <1>5, <1>6, <3>2
  <2>3. QED
    BY Zenon, <1>3, <2>1, <2>2 DEF Once, Underway, Looking
<1>10. QED
  BY Zenon, <1>7, <1>8, <1>9 DEF Once

\* The log is read to its end, or is shorter than the cursor says.
LEMMA ReadOnce ==
    ASSUME TypeInv, Once, Read, ~raced'
    PROVE  Once'
<1> DEFINE end == Len(content[path])
<1>1. TypeOK /\ path \in Inode /\ path = stat /\ from \in Nat /\ cursor # None /\ end \in Nat
  <2>1. path \in Inode /\ path = stat /\ from \in Nat /\ cursor # None
    BY Zenon DEF Read, Looking, TypeInv, TypeOK
  <2>2. content[path] \in Seq(1..MaxLines)
    BY Zenon, <2>1 DEF TypeInv, TypeOK
  <2>3. QED
    BY <2>1, <2>2 DEF TypeInv
<1>2. /\ UNCHANGED <<content, path, rotated, lines, disk, recorded>>
      /\ pc = "read" /\ pc' = "persist"
      /\ result' = result \cup After(path, from)
  BY Zenon DEF Read, readRequests, logVars
<1>3. cursor'.inode = path /\ cursor'.offset = IF from < end THEN end ELSE from
  BY Zenon, <1>1 DEF Read
<1>4. /\ recorded \cap After(path, from) = {} /\ result \cap Behind(path, 0) = {}
      /\ recorded \cap result = {}
      /\ from # 0 => cursor.inode = path /\ from = cursor.offset
  BY Zenon, <1>1, <1>2 DEF Once, Underway, Looking, Unrecorded
<1>5. After(path, from) \subseteq Behind(path, 0) /\ Behind(path, 0) \subseteq 1..lines
  BY Zenon, <1>1, BehindStart DEF After, Once, Apart
<1>6. Apart'
  <2>1. recorded' \subseteq 1..lines /\ result' \subseteq 1..lines
    BY Zenon, <1>2, <1>5 DEF Once, Apart
  <2>2. QED
    BY Zenon, <1>2, <2>1, ApartKeeps DEF Once
<1>7. Ahead(disk)' = Ahead(disk)
  BY Zenon, <1>2 DEF Ahead, After, Behind
<1>8. (recorded' \cup result') \cap Ahead(cursor)' = {}
  <2>1. CASE from <= end
    <3>1. Behind(path, end) = {}
      BY <1>1, BehindEnd
    <3>2. cursor'.offset = end
      BY <1>1, <1>3, <2>1
    <3>3. ~(Len(content'[path']) < cursor'.offset) /\ path' \in {None, cursor'.inode} /\ cursor'.inode = path'
      BY <1>1, <1>2, <1>3, <3>2
    <3>4. Ahead(cursor)' \subseteq After(path, cursor.offset)'
      BY <3>3, Zenon DEF Ahead
    <3>5. After(path, cursor.offset)' = {}
      BY <1>2, <3>1, <3>2 DEF After, Behind
    <3>6. QED
      BY Zenon, <3>4, <3>5
  <2>2. CASE end < from
    <3>1. After(path, from) = {}
      BY <1>1, <2>2, BehindEnd DEF After
    <3>2. cursor'.offset = from /\ cursor.inode = path /\ cursor.offset = from
      BY <1>1, <1>3, <1>4, <2>2
    <3>3. Ahead(cursor)' \subseteq After(path, 0)
      BY Zenon, <1>1, <1>2, <1>3, <2>2, <3>2 DEF Ahead, After, Behind
    <3>4. Ahead(cursor) = After(path, 0)
      BY Zenon, <1>1, <2>2, <3>2, TailerAssumption DEF Ahead
    <3>5. recorded \cap Ahead(cursor) = {}
      BY Zenon DEF Once, Unrecorded
    <3>6. QED
      BY Zenon, <1>2, <1>4, <3>1, <3>3, <3>4, <3>5 DEF After
  <2>3. QED
    BY <1>1, <2>1, <2>2
<1>9. Unrecorded' /\ Passed' /\ Underway'
  BY Zenon, <1>2, <1>4, <1>7, <1>8 DEF Once, Unrecorded, Passed, Underway, Looking
<1>10. QED
  BY Zenon, <1>6, <1>9 DEF Once

\* A tick that ends without recording anything.
LEMMA ReturnOnce ==
    ASSUME Once, Return, UNCHANGED <<logVars, disk, recorded>>, cursor' \in {cursor, None}
    PROVE  Once'
<1>1. /\ UNCHANGED <<content, path, rotated, lines, disk, recorded>>
      /\ pc' = "idle" /\ result' = {} /\ ~Looking'
  BY Zenon DEF Return, logVars, Looking
<1>2. Ahead(disk)' = Ahead(disk) /\ Ahead(cursor)' \subseteq Ahead(cursor)
  <2>1. Ahead(disk)' = Ahead(disk)
    BY <1>1, Zenon DEF Ahead, After, Behind
  <2>2. cursor' = cursor => Ahead(cursor)' = Ahead(cursor)
    BY <1>1, Zenon DEF Ahead, After, Behind
  <2>3. cursor' = None => Ahead(cursor)' = {}
    BY Zenon DEF Ahead
  <2>4. QED
    BY Zenon, <2>1, <2>2, <2>3
<1>3. Apart'
  BY Zenon, <1>1, ApartKeeps DEF Once, Apart
<1>4. QED
  BY Zenon, <1>1, <1>2, <1>3 DEF Once, Unrecorded, Passed, Underway

\* The steps of a tick that neither look at a file nor lose what was read.
LEMMA TickOnce ==
    ASSUME TypeInv, Once, (Begin /\ pc' # "idle") \/ findInode \/ Persist \/ (Record /\ recorded' # recorded)
    PROVE  Once'
<1>1. UNCHANGED <<content, path, rotated, lines>>
  BY Zenon DEF Begin, findInode, Persist, Record, logVars
<1>2. /\ disk' = disk => Ahead(disk)' = Ahead(disk)
      /\ disk' = cursor => Ahead(disk)' = Ahead(cursor)
      /\ cursor' = cursor => Ahead(cursor)' = Ahead(cursor)
      /\ cursor' = disk => Ahead(cursor)' = Ahead(disk)
  <2>1. disk' = disk => Ahead(disk)' = Ahead(disk)
    BY <1>1, Zenon DEF Ahead, After, Behind
  <2>2. disk' = cursor => Ahead(disk)' = Ahead(cursor)
    BY <1>1, Zenon DEF Ahead, After, Behind
  <2>3. cursor' = cursor => Ahead(cursor)' = Ahead(cursor)
    BY <1>1, Zenon DEF Ahead, After, Behind
  <2>4. cursor' = disk => Ahead(cursor)' = Ahead(disk)
    BY <1>1, Zenon DEF Ahead, After, Behind
  <2>5. QED
    BY Zenon, <2>1, <2>2, <2>3, <2>4
<1>3. CASE Begin /\ pc' # "idle"
  <2>1. /\ pc = "idle" /\ pc' \in {"persist", "stat"} /\ cursor' \in {cursor, disk}
        /\ UNCHANGED <<disk, result, recorded>>
    BY Zenon, <1>3 DEF Begin, PollError, Return, pollVars
  <2>2. Apart'
    BY Zenon, <1>1, <2>1, ApartKeeps DEF Once, Apart
  <2>3. QED
    BY Zenon, <1>2, <2>1, <2>2 DEF Once, Unrecorded, Passed, Underway, Looking
<1>4. CASE findInode
  <2>1. /\ pc = "find" /\ pc' \in {"rotated", "read"}
        /\ UNCHANGED <<cursor, disk, stat, from, result, recorded>>
    BY Zenon, <1>4 DEF findInode, historyVars
  <2>2. Apart'
    BY Zenon, <1>1, <2>1, ApartKeeps DEF Once, Apart
  <2>3. After(path, from)' = After(path, from) /\ Behind(path, 0)' = Behind(path, 0)
    BY Zenon, <1>1, <2>1 DEF After, Behind
  <2>4. Underway'
    BY Zenon, <1>1, <2>1, <2>3 DEF Once, Underway, Looking
  <2>5. QED
    BY Zenon, <1>2, <2>1, <2>2, <2>4 DEF Once, Unrecorded, Passed
<1>5. CASE Persist
  <2>1. /\ pc = "persist" /\ pc' = "record" /\ disk' = cursor
        /\ UNCHANGED <<cursor, result, recorded>>
    BY Zenon, <1>5 DEF Persist, pollVars, historyVars
  <2>2. Apart'
    BY Zenon, <1>1, <2>1, ApartKeeps DEF Once, Apart
  <2>3. QED
    BY Zenon, <1>2, <2>1, <2>2 DEF Once, Unrecorded, Passed, Underway, Looking
<1>6. CASE Record /\ recorded' # recorded
  <2>1. /\ pc = "record" /\ pc' = "idle" /\ result' = {} /\ recorded' = recorded \cup result
        /\ UNCHANGED <<cursor, disk>>
    BY Zenon, <1>6 DEF Record, Return
  <2>2. Apart'
    BY Zenon, <1>1, <2>1, ApartKeeps DEF Once, Apart
  <2>3. QED
    BY Zenon, <1>2, <2>1, <2>2 DEF Once, Unrecorded, Passed, Underway, Looking
<1>7. QED
  BY Zenon, <1>3, <1>4, <1>5, <1>6

LEMMA PollOnce ==
    ASSUME TypeInv, Once, Poll, ~raced'
    PROVE  Once'
<1>1. CASE Begin /\ pc' = "idle"
  BY Zenon, <1>1, ReturnOnce DEF Begin, PollError, pollVars
<1>2. CASE ReadFails \/ PersistFails
  BY Zenon, <1>2, ReturnOnce DEF ReadFails, PersistFails, PollError
<1>3. CASE Record /\ recorded' = recorded
  BY Zenon, <1>3, ReturnOnce DEF Record
<1>4. CASE (Begin /\ pc' # "idle") \/ findInode \/ Persist \/ (Record /\ recorded' # recorded)
  BY Zenon, <1>4, TickOnce
<1>5. CASE Stat \/ ReadRotated \/ Read
  BY Zenon, <1>5, StatOnce, ReadRotatedOnce, ReadOnce
<1>6. QED
  BY Zenon, <1>1, <1>2, <1>3, <1>4, <1>5 DEF Poll

\* No line is recorded twice, whatever fails and whenever the agent is killed,
\* unless the log was exchanged between two looks of a poll at its name
\* (tailer.go:130-196, main.go:183-203).
THEOREM RecordedOnce == Spec => []AtMostOnce
<1>1. Init => OnceInv
  <2> SUFFICES ASSUME Init PROVE OnceInv
    OBVIOUS
  <2>1. \A i \in Inode : Behind(i, 0) = {}
    <3>1. \A i \in Inode : content[i] = <<>>
      BY Zenon DEF Init
    <3>2. DOMAIN <<>> = {}
      OBVIOUS
    <3>3. QED
      BY Zenon, <3>1, <3>2, BehindIs
  <2>2. path # rotated
    BY Zenon, TailerAssumption DEF Init
  <2>3. Apart
    BY Zenon, <2>1, <2>2 DEF Init, Apart
  <2>4. Unrecorded /\ Passed /\ Underway
    BY Zenon DEF Init, Unrecorded, Passed, Underway, Looking
  <2>5. AtMostOnce
    BY Zenon DEF Init, AtMostOnce
  <2>6. QED
    BY Zenon, <2>3, <2>4, <2>5 DEF OnceInv, Once
<1>2. TypeInv /\ TypeInv' /\ OnceInv /\ [Next]_vars => OnceInv'
  <2> SUFFICES ASSUME TypeInv, TypeInv', OnceInv, [Next]_vars, ~raced'
               PROVE  doubled' = {} /\ Once'
    BY Zenon DEF OnceInv, AtMostOnce
  <2>1. ~raced
    <3>1. CASE Logs
      BY <3>1, Zenon DEF Logs, Write, Rename, Create, Reopen, Truncate, historyVars
    <3>2. CASE Poll
      BY <3>2, Zenon DEF Poll, Begin, Stat, findInode, ReadRotated, Read, ReadFails, Persist,
                         PersistFails, Record, historyVars
    <3>3. CASE Crash \/ UNCHANGED vars
      BY <3>3, Zenon DEF Crash, vars, historyVars
    <3>4. QED
      BY <3>1, <3>2, <3>3, Zenon DEF Next
  <2>2. Once /\ doubled = {}
    BY Zenon, <2>1 DEF OnceInv, AtMostOnce
  <2>3. doubled' = {}
    <3>1. CASE Record
      BY Zenon, <2>2, <3>1 DEF Record, Once, Unrecorded
    <3>2. CASE Logs
      BY <2>2, <3>2, Zenon DEF Logs, Write, Rename, Create, Reopen, Truncate, historyVars
    <3>3. CASE Poll /\ ~Record
      BY <2>2, <3>3, Zenon DEF Poll, Begin, Stat, findInode, ReadRotated, Read, ReadFails, Persist,
                               PersistFails, historyVars
    <3>4. CASE Crash \/ UNCHANGED vars
      BY <2>2, <3>4, Zenon DEF Crash, vars, historyVars
    <3>5. QED
      BY <3>1, <3>2, <3>3, <3>4, Zenon DEF Next
  <2>4. CASE Crash
    BY Zenon, <2>2, <2>4, ReturnOnce DEF Crash
  <2>5. CASE UNCHANGED vars
    <3>1. UNCHANGED <<content, path, rotated, lines, disk, cursor, pc, stat, from, result, recorded>>
      BY Zenon, <2>5 DEF vars, logVars, pollVars, historyVars
    <3>2. Apart'
      BY Zenon, <2>2, <3>1, ApartKeeps DEF Once, Apart
    <3>3. /\ Ahead(disk)' = Ahead(disk) /\ Ahead(cursor)' = Ahead(cursor)
          /\ After(path, from)' = After(path, from) /\ Behind(path, 0)' = Behind(path, 0)
      BY Zenon, <3>1 DEF Ahead, After, Behind
    <3>4. Unrecorded' /\ Passed'
      BY Zenon, <2>2, <3>1, <3>3 DEF Once, Unrecorded, Passed
    <3>5. Underway'
      BY Zenon, <2>2, <3>1, <3>3 DEF Once, Underway, Looking
    <3>6. QED
      BY Zenon, <2>3, <3>2, <3>4, <3>5 DEF Once
  <2>6. QED
    BY Zenon, <2>2, <2>3, <2>4, <2>5, LogsOnce, PollOnce DEF Next, TypeInv
<1>3. OnceInv => AtMostOnce
  BY Zenon DEF OnceInv
<1>4. QED
  BY <1>1, <1>2, <1>3, TypeInvariant, PTL DEF Spec

-----------------------------------------------------------------------------

\* Contents are under a name, and the proxy writes to one that has a name.
Files ==
    /\ path # None => path # rotated
    /\ \A i \in Inode \ {path, rotated} : content[i] = <<>>
    /\ writer \in {path, rotated}

\* A cursor is within the contents it is a place in.
Kept(c) ==
    c # None => c.gen <= gen[c.inode] /\ (Sound(c) => c.offset <= Len(content[c.inode]))

\* The cursor saved is not past the one in memory.
Behindhand ==
    loaded /\ Sound(disk) /\ cursor # None =>
        \/ /\ cursor.inode = disk.inode /\ disk.offset <= cursor.offset
           /\ disk.inode = path => cursor.offset <= Len(content[path])
        \/ cursor.inode # disk.inode /\ disk.inode = rotated

\* What a poll has in its variables.
Tick ==
    /\ pc # "idle" => loaded
    /\ ~loaded => cursor = None
    /\ pc \in {"idle", "stat", "find", "rotated"} => result = {}
    /\ Looking => /\ from # 0 => cursor.inode = stat /\ from = cursor.offset
                  /\ pc # "read" => cursor.inode # stat
                  /\ Sound(disk) => IF stat = disk.inode THEN disk.offset <= from
                                    ELSE disk.inode = rotated

\* The renamed log has been read to its end.
ReadWhole ==
    pc = "read" /\ ~late /\ ~raced /\ cursor.inode # stat =>
        After(cursor.inode, cursor.offset) \subseteq result

\* While the log is neither renamed nor truncated in a poll, what the poll has
\* read can be read again from the cursor saved.
Undisturbed ==
    ~reset =>
        /\ pc = "stat" => path # None
        /\ Looking => path = stat
        /\ pc = "rotated" => place = "renamed" /\ cursor.inode = rotated
        /\ pc = "read" => \/ result = {}
                          \/ cursor.inode = rotated /\ result \subseteq After(rotated, cursor.offset)
        /\ pc \in {"read", "persist"} /\ Sound(disk) => result \subseteq Ahead(disk)

LossInv ==
    /\ Files /\ Kept(disk) /\ Kept(cursor)
    /\ Behindhand /\ Tick /\ ReadWhole /\ Undisturbed

\* What is behind an offset stays there while a file only grows.
LEMMA BehindGrows ==
    ASSUME TypeOK, NEW i \in Inode, NEW o \in Nat,
           content'[i] = content[i] \/ content'[i] = Append(content[i], lines + 1)
    PROVE  /\ Len(content[i]) \in Nat /\ Len(content'[i]) \in Nat /\ Len(content[i]) <= Len(content'[i])
           /\ Behind(i, o) \subseteq Behind(i, o)' /\ After(i, o) \subseteq After(i, o)'
<1>1. content[i] \in Seq(1..MaxLines)
  BY Zenon DEF TypeOK
<1>2. CASE content'[i] = content[i]
  BY <1>1, <1>2 DEF Behind, After
<1>3. CASE content'[i] = Append(content[i], lines + 1)
  <2>1. /\ Len(content[i]) \in Nat /\ Len(content'[i]) = Len(content[i]) + 1
        /\ \A k \in DOMAIN content[i] : k \in DOMAIN content'[i] /\ content'[i][k] = content[i][k]
    BY <1>1, <1>3
  <2>2. Behind(i, o) \subseteq Behind(i, o)'
    BY Zenon, <2>1 DEF Behind
  <2>3. QED
    BY <2>1, <2>2 DEF After
<1>4. QED
  BY Zenon, <1>2, <1>3

\* The proxy and rotation make no cursor sound, and what a sound one is in only grows.
LEMMA SoundStep ==
    ASSUME TypeOK, Files, Logs, NEW c \in Cursor, c # None, Kept(c)
    PROVE  /\ c.gen <= gen'[c.inode]
           /\ Sound(c)' =>
                /\ Sound(c)
                /\ content'[c.inode] = content[c.inode] \/ content'[c.inode] = Append(content[c.inode], lines + 1)
                /\ c.inode = path' => c.inode = path
                /\ c.inode = rotated => c.inode = rotated'
<1>1. c.inode \in Inode /\ c.gen \in Int /\ gen[c.inode] \in Int /\ c.gen <= gen[c.inode] /\ None \notin Inode
  BY TailerAssumption DEF Cursor, TypeOK, Kept
<1>2. CASE Write
  <2>1. UNCHANGED <<gen, path, rotated>>
    BY Zenon, <1>2 DEF Write
  <2>2. content'[c.inode] = content[c.inode] \/ content'[c.inode] = Append(content[c.inode], lines + 1)
    BY Zenon, <1>1, <1>2 DEF Write, TypeOK
  <2>3. QED
    BY Zenon, <1>1, <2>1, <2>2 DEF Sound
<1>3. CASE Rename
  <2>1. UNCHANGED gen /\ path' = None /\ rotated' = path /\ path # rotated
    BY Zenon, <1>3 DEF Rename, Files
  <2>2. c.inode # rotated => content'[c.inode] = content[c.inode]
    BY Zenon, <1>1, <1>3 DEF Rename
  <2>3. QED
    BY Zenon, <1>1, <2>1, <2>2 DEF Sound
<1>4. CASE Create
  <2>1. PICK i \in Inode \ {rotated} : /\ path' = i /\ content' = [content EXCEPT ![i] = <<>>]
                                      /\ gen' = [gen EXCEPT ![i] = @ + 1]
    BY Zenon, <1>4 DEF Create
  <2>2. UNCHANGED rotated /\ path = None
    BY Zenon, <1>4 DEF Create
  <2>3. gen'[c.inode] = IF c.inode = i THEN gen[c.inode] + 1 ELSE gen[c.inode]
    BY Zenon, <1>1, <2>1 DEF TypeOK
  <2>4. c.inode # i => content'[c.inode] = content[c.inode]
    BY Zenon, <1>1, <2>1 DEF TypeOK
  <2>5. QED
    BY <1>1, <2>1, <2>2, <2>3, <2>4 DEF Sound
<1>5. CASE Reopen
  BY Zenon, <1>1, <1>5 DEF Reopen, Sound
<1>6. CASE Truncate
  <2>1. UNCHANGED <<path, rotated>> /\ path \in Inode
    BY Zenon, <1>6 DEF Truncate, TypeOK
  <2>2. gen'[c.inode] = IF c.inode = path THEN gen[c.inode] + 1 ELSE gen[c.inode]
    BY Zenon, <1>1, <1>6, <2>1 DEF Truncate, TypeOK
  <2>3. c.inode # path => content'[c.inode] = content[c.inode]
    BY Zenon, <1>1, <1>6, <2>1 DEF Truncate, TypeOK
  <2>4. QED
    BY <1>1, <2>1, <2>2, <2>3 DEF Sound
<1>7. QED
  BY Zenon, <1>2, <1>3, <1>4, <1>5, <1>6 DEF Logs

\* What lies before a sound cursor.
LEMMA AheadOf ==
    ASSUME NEW c \in Cursor, Sound(c), Kept(c), Len(content[c.inode]) \in Nat
    PROVE  Ahead(c) = After(c.inode, c.offset) \cup (IF path \notin {None, c.inode} THEN After(path, 0) ELSE {})
<1>1. c # None /\ c.inode \in {path, rotated} /\ c.offset <= Len(content[c.inode]) /\ c.offset \in Nat
  BY Zenon DEF Sound, Kept, Cursor
<1>2. ~(c.inode = path /\ Len(content[path]) < c.offset)
  BY <1>1
<1>3. QED
  BY <1>1, <1>2, Zenon DEF Ahead

\* Writing, creating and reopening take nothing from before a cursor.
LEMMA AheadGrows ==
    ASSUME TypeOK, Files, Write \/ Create \/ Reopen, NEW c \in Cursor \cup {None}, Kept(c),
           Write => Sound(c)
    PROVE  Ahead(c) \subseteq Ahead(c)'
<1>1. CASE c = None
  BY Zenon, <1>1 DEF Ahead
<1>2. CASE c # None /\ Create
  <2>1. c.inode \in Inode /\ path = None /\ None \notin Inode /\ rotated' = rotated
    BY Zenon, <1>2, TailerAssumption DEF Create, Cursor
  <2>2. c.inode = rotated => path' # rotated /\ content'[c.inode] = content[c.inode]
    BY Zenon, <1>2, <2>1 DEF Create, TypeOK
  <2>3. Ahead(c) = IF c.inode = rotated THEN After(c.inode, c.offset) ELSE {}
    BY Zenon, <1>2, <2>1 DEF Ahead
  <2>4. c.inode = rotated => After(c.inode, c.offset)' = After(c.inode, c.offset)
    BY Zenon, <2>2 DEF After, Behind
  <2>5. c.inode = rotated => After(c.inode, c.offset)' \subseteq Ahead(c)'
    BY Zenon, <1>2, <2>1, <2>2 DEF Ahead
  <2>6. QED
    BY Zenon, <2>3, <2>4, <2>5
<1>3. CASE Reopen
  BY Zenon, <1>3 DEF Reopen, Ahead, After, Behind
<1>4. CASE c # None /\ Write
  <2> DEFINE i == c.inode
  <2>1. c \in Cursor /\ i \in Inode /\ c.offset \in Nat /\ Sound(c) /\ i \in {path, rotated}
    BY Zenon, <1>4 DEF Cursor, Sound
  <2>2. UNCHANGED <<path, rotated>>
    BY Zenon, <1>4 DEF Write
  <2>3. \A j \in Inode : content'[j] = content[j] \/ content'[j] = Append(content[j], lines + 1)
    BY Zenon, <1>4 DEF Write, TypeOK
  <2>4. /\ Len(content[i]) \in Nat /\ Len(content'[i]) \in Nat /\ Len(content[i]) <= Len(content'[i])
        /\ After(i, c.offset) \subseteq After(i, c.offset)'
    BY Zenon, <2>1, <2>3, BehindGrows
  <2>5. path # None => After(path, 0) \subseteq After(path, 0)'
    <3> SUFFICES ASSUME path # None PROVE After(path, 0) \subseteq After(path, 0)'
      OBVIOUS
    <3>1. PICK j \in Inode : j = path /\ j = path'
      BY Zenon, <2>2 DEF TypeOK
    <3>2. After(j, 0) = After(path, 0) /\ After(j, 0)' = After(path, 0)'
      BY Zenon, <3>1 DEF After, Behind
    <3>3. QED
      BY Zenon, <2>3, <3>2, BehindGrows
  <2>6. c.offset <= Len(content[i])
    BY Zenon, <1>4, <2>1 DEF Kept
  <2>7. ~(i = path' /\ Len(content'[path']) < c.offset)
    BY <2>1, <2>4, <2>6
  <2>8. Ahead(c)' = After(i, c.offset)' \cup (IF path' \notin {None, i} THEN After(path, 0)' ELSE {})
    BY <1>4, <2>1, <2>2, <2>7, Zenon DEF Ahead
  <2>9. Ahead(c) = After(i, c.offset) \cup (IF path \notin {None, i} THEN After(path, 0) ELSE {})
    BY Zenon, <2>1, <2>4, AheadOf
  <2>10. QED
    BY Zenon, <2>2, <2>4, <2>5, <2>8, <2>9
<1>5. QED
  BY Zenon, <1>1, <1>2, <1>3, <1>4

LEMMA LogsFiles ==
    ASSUME TypeOK, Files, Logs
    PROVE  Files'
<1>1. CASE Write
  <2>1. UNCHANGED <<path, rotated, writer>>
    BY Zenon, <1>1 DEF Write
  <2>2. \A i \in Inode \ {path, rotated} : content'[i] = content[i]
    BY Zenon, <1>1 DEF Write, TypeOK, Files
  <2>3. QED
    BY Zenon, <2>1, <2>2 DEF Files
<1>2. CASE Rename
  <2>1. path' = None /\ rotated' = path /\ writer' = path /\ path \in Inode
    BY Zenon, <1>2 DEF Rename, TypeOK
  <2>2. \A i \in Inode : content'[i] = IF i = rotated THEN <<>> ELSE content[i]
    BY Zenon, <1>2 DEF Rename
  <2>3. QED
    BY Zenon, <2>1, <2>2 DEF Files
<1>3. CASE Create
  <2>1. PICK i \in Inode \ {rotated} : path' = i /\ content' = [content EXCEPT ![i] = <<>>] /\ writer' \in {writer, i}
    BY Zenon, <1>3 DEF Create
  <2>2. path = None /\ rotated' = rotated
    BY Zenon, <1>3 DEF Create
  <2>3. writer = rotated
    BY Zenon, <2>2, TailerAssumption DEF Files, TypeOK
  <2>4. \A j \in Inode : j # i => content'[j] = content[j]
    BY Zenon, <2>1 DEF TypeOK
  <2>5. QED
    BY Zenon, <2>1, <2>2, <2>3, <2>4, TailerAssumption DEF Files
<1>4. CASE Reopen
  BY Zenon, <1>4 DEF Reopen, Files
<1>5. CASE Truncate
  <2>1. UNCHANGED <<path, rotated, writer>>
    BY Zenon, <1>5 DEF Truncate
  <2>2. \A i \in Inode : content'[i] \in {content[i], <<>>}
    BY Zenon, <1>5 DEF Truncate, TypeOK
  <2>3. QED
    BY Zenon, <2>1, <2>2 DEF Files
<1>6. QED
  BY Zenon, <1>1, <1>2, <1>3, <1>4, <1>5 DEF Logs

LEMMA LogsLoss ==
    ASSUME TypeInv, TypeOK', LossInv, Logs
    PROVE  LossInv'
<1>1. TypeOK /\ Files /\ None \notin Inode
  BY Zenon, TailerAssumption DEF TypeInv, LossInv
<1>2. UNCHANGED <<loaded, cursor, disk, pc, stat, place, from, result, raced>>
  BY Zenon DEF Logs, Write, Rename, Create, Reopen, Truncate, pollVars, historyVars
<1>3. \A c \in Cursor : c # None /\ Kept(c) =>
         /\ c.gen <= gen'[c.inode]
         /\ Sound(c)' =>
               /\ Sound(c)
               /\ c.offset <= Len(content'[c.inode]) /\ Len(content[c.inode]) <= Len(content'[c.inode])
               /\ Len(content[c.inode]) \in Nat /\ Len(content'[c.inode]) \in Nat
               /\ c.inode = path' => c.inode = path
               /\ c.inode = rotated => c.inode = rotated'
  <2> SUFFICES ASSUME NEW c \in Cursor, c # None, Kept(c), Sound(c)'
               PROVE  /\ Sound(c)
                      /\ c.offset <= Len(content'[c.inode]) /\ Len(content[c.inode]) <= Len(content'[c.inode])
                      /\ Len(content[c.inode]) \in Nat /\ Len(content'[c.inode]) \in Nat
                      /\ c.inode = path' => c.inode = path
                      /\ c.inode = rotated => c.inode = rotated'
    BY Zenon, <1>1, SoundStep
  <2>1. /\ Sound(c)
        /\ content'[c.inode] = content[c.inode] \/ content'[c.inode] = Append(content[c.inode], lines + 1)
        /\ c.inode = path' => c.inode = path
        /\ c.inode = rotated => c.inode = rotated'
    BY Zenon, <1>1, SoundStep
  <2>2. c.inode \in Inode /\ c.offset \in Nat /\ 0 \in Nat
    BY Zenon DEF Cursor
  <2>3. /\ Len(content[c.inode]) <= Len(content'[c.inode])
        /\ Len(content[c.inode]) \in Nat /\ Len(content'[c.inode]) \in Nat
    BY Zenon, <1>1, <2>1, <2>2, BehindGrows
  <2>4. c.offset <= Len(content[c.inode])
    BY Zenon, <2>1 DEF Kept
  <2>5. QED
    BY <2>1, <2>2, <2>3, <2>4
<1>4. Kept(disk)' /\ Kept(cursor)'
  BY Zenon, <1>1, <1>2, <1>3 DEF LossInv, Kept, Sound, TypeOK
<1>5. Sound(disk)' =>
         /\ Sound(disk) /\ disk \in Cursor /\ disk # None
         /\ Len(content[disk.inode]) <= Len(content'[disk.inode])
         /\ Len(content[disk.inode]) \in Nat /\ Len(content'[disk.inode]) \in Nat
         /\ disk.inode = path' => disk.inode = path
         /\ disk.inode = rotated => disk.inode = rotated'
  BY Zenon, <1>1, <1>2, <1>3 DEF LossInv, Sound, TypeOK
<1>6. Behindhand'
  <2> SUFFICES ASSUME loaded, Sound(disk)', cursor # None
               PROVE  \/ /\ cursor.inode = disk.inode /\ disk.offset <= cursor.offset
                         /\ disk.inode = path' => cursor.offset <= Len(content'[path'])
                      \/ cursor.inode # disk.inode /\ disk.inode = rotated'
    BY Zenon, <1>2 DEF Behindhand
  <2>1. cursor.offset \in Nat
    BY Zenon, <1>1 DEF TypeOK, Cursor
  <2>2. QED
    BY <1>5, <2>1 DEF LossInv, Behindhand
<1>7. Tick'
  <2>1. Looking' = Looking
    BY Zenon, <1>2 DEF Looking
  <2>2. QED
    BY Zenon, <1>2, <1>5, <2>1 DEF LossInv, Tick
<1>8. ReadWhole'
  <2> SUFFICES ASSUME pc = "read", ~late', ~raced, cursor.inode # stat,
                      NEW n \in After(cursor.inode, cursor.offset)'
               PROVE  n \in result
    BY Zenon, <1>2 DEF ReadWhole
  <2>1. PICK i \in Inode, o \in Nat : i = cursor.inode /\ i = cursor'.inode /\ o = cursor.offset /\ o = cursor'.offset
    BY Zenon, <1>2 DEF TypeInv, TypeOK, Looking, Cursor
  <2>2. /\ After(i, o)' = After(cursor.inode, cursor.offset)'
        /\ After(i, o) = After(cursor.inode, cursor.offset)
    BY Zenon, <2>1 DEF After, Behind
  <2>3. ~late /\ (Write => writer = stat)
    <3>1. Write => writer = stat
      BY Zenon DEF Write
    <3>2. late => late'
      BY Zenon DEF Logs, Write, Rename, Create, Reopen, Truncate, historyVars
    <3>3. QED
      BY <3>1, <3>2, Zenon
  <2>4. n \in Behind(i, o)' /\ n \notin Malformed
    BY Zenon, <2>2 DEF After
  <2>5. n \in Behind(i, o)
    BY Zenon, <1>1, <2>1, <2>3, <2>4, BehindStep
  <2>6. QED
    BY Zenon, <2>2, <2>3, <2>4, <2>5 DEF LossInv, ReadWhole, After
<1>9. Undisturbed'
  <2> SUFFICES ASSUME ~reset' PROVE Undisturbed'
    BY Zenon DEF Undisturbed
  <2>1. ~reset /\ (pc # "idle" => Write \/ Create \/ Reopen)
    <3>1. Rename \/ Truncate => pc = "idle"
      BY Zenon DEF Rename, Truncate
    <3>2. reset => reset'
      BY Zenon DEF Logs, Write, Rename, Create, Reopen, Truncate, historyVars
    <3>3. QED
      BY <3>1, <3>2, Zenon DEF Logs
  <2>2. Looking \/ pc = "stat" => path # None
    BY Zenon, <1>1, <2>1 DEF TypeInv, LossInv, Undisturbed
  <2>3. Looking \/ pc = "stat" => UNCHANGED <<path, rotated>>
    BY Zenon, <2>1, <2>2 DEF Write, Create, Reopen, Looking
  <2>4. pc = "stat" => path' # None
    BY Zenon, <2>2, <2>3
  <2>5. Looking => path' = stat
    BY Zenon, <2>1, <2>3 DEF LossInv, Undisturbed
  <2>6. pc = "rotated" => place = "renamed" /\ cursor.inode = rotated'
    BY Zenon, <2>1, <2>3 DEF LossInv, Undisturbed, Looking
  <2>7. pc = "read" => result = {} \/ (cursor.inode = rotated' /\ result \subseteq After(rotated, cursor.offset)')
    <3> SUFFICES ASSUME pc = "read", result # {}
                 PROVE  cursor.inode = rotated' /\ result \subseteq After(rotated, cursor.offset)'
      OBVIOUS
    <3>1. cursor.inode = rotated /\ rotated' = rotated /\ result \subseteq After(rotated, cursor.offset)
      BY Zenon, <2>1, <2>3 DEF LossInv, Undisturbed, Looking
    <3>2. PICK i \in Inode, o \in Nat : i = rotated /\ i = rotated' /\ o = cursor.offset /\ o = cursor'.offset
      BY Zenon, <1>2, <3>1 DEF TypeInv, TypeOK, Looking, Cursor
    <3>3. /\ After(i, o)' = After(rotated, cursor.offset)'
          /\ After(i, o) = After(rotated, cursor.offset)
      BY Zenon, <3>2 DEF After, Behind
    <3>4. content'[i] = content[i] \/ content'[i] = Append(content[i], lines + 1)
      BY Zenon, <1>1, <2>1, <2>2 DEF Write, Create, Reopen, TypeOK, Looking
    <3>5. QED
      BY Zenon, <1>1, <3>1, <3>3, <3>4, BehindGrows
  <2>8. pc \in {"read", "persist"} /\ Sound(disk)' => result \subseteq Ahead(disk)'
    <3> SUFFICES ASSUME pc \in {"read", "persist"}, Sound(disk)' PROVE result \subseteq Ahead(disk)'
      OBVIOUS
    <3>1. Sound(disk) /\ result \subseteq Ahead(disk)
      BY Zenon, <1>5, <2>1 DEF LossInv, Undisturbed
    <3>2. PICK d \in Cursor \cup {None} : d = disk /\ d = disk'
      BY Zenon, <1>1, <1>2 DEF TypeOK
    <3>3. Ahead(d) = Ahead(disk) /\ Ahead(d)' = Ahead(disk)' /\ Kept(d) /\ Sound(d)
      BY Zenon, <3>1, <3>2 DEF Ahead, Sound, LossInv, Kept
    <3>4. Ahead(d) \subseteq Ahead(d)'
      BY Zenon, <1>1, <2>1, <3>3, AheadGrows
    <3>5. QED
      BY Zenon, <3>1, <3>3, <3>4
  <2>9. QED
    BY Zenon, <1>2, <2>4, <2>5, <2>6, <2>7, <2>8 DEF Undisturbed, Looking
<1>10. QED
  BY Zenon, <1>1, <1>4, <1>6, <1>7, <1>8, <1>9, LogsFiles DEF LossInv

\* What a poll leaves alone.
LEMMA PollFrame ==
    ASSUME Files, UNCHANGED logVars
    PROVE  /\ Files'
           /\ UNCHANGED <<content, gen, path, rotated, lines>>
           /\ disk' = disk => /\ (Kept(disk)' <=> Kept(disk)) /\ (Sound(disk)' <=> Sound(disk))
                             /\ Ahead(disk)' = Ahead(disk)
           /\ cursor' = cursor => (Kept(cursor)' <=> Kept(cursor)) /\ Ahead(cursor)' = Ahead(cursor)
           /\ cursor' = disk => (Kept(cursor)' <=> Kept(disk)) /\ Ahead(cursor)' = Ahead(disk)
           /\ disk' = cursor => (Kept(disk)' <=> Kept(cursor))
<1>1. UNCHANGED <<content, gen, path, rotated, lines, writer>>
  BY Zenon DEF logVars
<1>2. Files'
  BY Zenon, <1>1 DEF Files
<1>3. ASSUME disk' = disk
      PROVE  (Kept(disk)' <=> Kept(disk)) /\ (Sound(disk)' <=> Sound(disk)) /\ Ahead(disk)' = Ahead(disk)
  BY <1>1, <1>3, Zenon DEF Kept, Sound, Ahead, After, Behind
<1>4. ASSUME cursor' = cursor
      PROVE  (Kept(cursor)' <=> Kept(cursor)) /\ Ahead(cursor)' = Ahead(cursor)
  BY <1>1, <1>4, Zenon DEF Kept, Sound, Ahead, After, Behind
<1>5. ASSUME cursor' = disk
      PROVE  (Kept(cursor)' <=> Kept(disk)) /\ Ahead(cursor)' = Ahead(disk)
  BY <1>1, <1>5, Zenon DEF Kept, Sound, Ahead, After, Behind
<1>6. ASSUME disk' = cursor
      PROVE  Kept(disk)' <=> Kept(cursor)
  BY <1>1, <1>6, Zenon DEF Kept, Sound
<1>7. QED
  BY Zenon, <1>1, <1>2, <1>3, <1>4, <1>5, <1>6

\* A tick that is over, or an agent that starts again.
LEMMA ReturnLoss ==
    ASSUME LossInv, Return, UNCHANGED <<logVars, disk>>,
           (cursor' = cursor /\ (loaded \/ cursor = None) /\ loaded') \/ (cursor' = None /\ ~loaded')
    PROVE  LossInv'
<1>1. /\ Files' /\ (Sound(disk)' <=> Sound(disk)) /\ Kept(disk)'
      /\ (cursor' = cursor => Kept(cursor)')
      /\ UNCHANGED <<content, path, rotated, disk>>
  BY Zenon, PollFrame DEF LossInv
<1>2. pc' = "idle" /\ result' = {} /\ ~Looking'
  BY Zenon DEF Return, Looking
<1>3. Kept(cursor)'
  BY Zenon, <1>1 DEF Kept
<1>4. Behindhand'
  BY Zenon, <1>1 DEF LossInv, Behindhand
<1>5. Tick' /\ ReadWhole' /\ Undisturbed'
  BY Zenon, <1>2 DEF Tick, ReadWhole, Undisturbed
<1>6. QED
  BY Zenon, <1>1, <1>3, <1>4, <1>5 DEF LossInv

LEMMA BeginLoss ==
    ASSUME TypeInv, LossInv, Begin
    PROVE  LossInv'
<1>1. CASE pc' = "idle"
  <2>1. Return /\ UNCHANGED <<logVars, disk, cursor>> /\ loaded' /\ ~loaded
    BY Zenon, <1>1 DEF Begin, PollError
  <2>2. QED
    BY Zenon, <2>1, ReturnLoss DEF LossInv, Tick
<1>2. CASE pc' # "idle"
  <2>1. /\ pc = "idle" /\ pc' = (IF path = None THEN "persist" ELSE "stat") /\ loaded'
        /\ cursor' = (IF loaded THEN cursor ELSE disk)
        /\ UNCHANGED <<logVars, disk, result>>
    BY Zenon, <1>2 DEF Begin, PollError, Return, pollVars
  <2>2. /\ Files' /\ (Sound(disk)' <=> Sound(disk)) /\ Kept(disk)' /\ Kept(cursor)'
        /\ UNCHANGED <<content, path, rotated>>
    BY <2>1, PollFrame, Zenon DEF LossInv
  <2>3. Behindhand'
    <3>1. CASE loaded
      BY Zenon, <2>1, <2>2, <3>1 DEF LossInv, Behindhand
    <3>2. CASE ~loaded
      <4>1. Sound(disk) => disk.offset <= Len(content[disk.inode]) /\ disk.offset \in Nat
        BY Zenon DEF LossInv, Kept, Sound, TypeInv, TypeOK, Cursor
      <4>2. QED
        BY <2>1, <2>2, <3>2, <4>1 DEF Behindhand
    <3>3. QED
      BY Zenon, <3>1, <3>2
  <2>4. result' = {} /\ ~Looking' /\ (pc' = "stat" => path' # None) /\ pc' \in {"persist", "stat"}
    BY Zenon, <2>1, <2>2 DEF LossInv, Tick, Looking
  <2>5. Tick' /\ ReadWhole' /\ Undisturbed'
    BY Zenon, <2>1, <2>4 DEF Tick, ReadWhole, Undisturbed
  <2>6. QED
    BY Zenon, <2>2, <2>3, <2>5 DEF LossInv
<1>3. QED
  BY Zenon, <1>1, <1>2

LEMMA StatLoss ==
    ASSUME TypeInv, LossInv, Stat
    PROVE  LossInv'
<1>1. /\ Files' /\ (Sound(disk)' <=> Sound(disk)) /\ Kept(disk)'
      /\ (cursor' = cursor => Kept(cursor)')
      /\ UNCHANGED <<content, gen, path, rotated, disk, loaded, result, reset>>
  BY Zenon, PollFrame DEF LossInv, Stat, historyVars
<1>2. path \in Inode /\ path # rotated /\ Len(content[path]) \in Nat /\ gen[path] \in Nat
  <2>1. path \in Inode /\ path # rotated /\ gen[path] \in Nat /\ content[path] \in Seq(1..MaxLines)
    BY Zenon DEF Stat, TypeInv, TypeOK, LossInv, Files
  <2>2. QED
    BY <2>1
<1>3. pc = "stat" /\ stat' = path /\ loaded /\ result = {} /\ result' = {}
  BY Zenon, <1>1 DEF Stat, LossInv, Tick
<1>4. Sound(disk) => /\ disk.inode \in {path, rotated} /\ disk.offset \in Nat
                     /\ disk.offset <= Len(content[disk.inode])
  BY Zenon DEF LossInv, Kept, Sound, TypeInv, TypeOK, Cursor
<1>5. CASE cursor = None
  <2>1. pc' = "persist" /\ cursor' = [inode |-> path, offset |-> Len(content[path]), gen |-> gen[path]]
    BY Zenon, <1>5 DEF Stat
  <2>2. cursor'.inode = path /\ cursor'.offset = Len(content[path]) /\ cursor'.gen = gen[path]
    BY Zenon, <2>1
  <2>3. Kept(cursor)'
    BY <1>1, <1>2, <2>2 DEF Kept
  <2>4. Behindhand'
    BY <1>1, <1>2, <1>4, <2>2 DEF Behindhand
  <2>5. Tick' /\ ReadWhole' /\ Undisturbed'
    BY Zenon, <1>1, <1>3, <2>1 DEF Tick, ReadWhole, Undisturbed, Looking
  <2>6. QED
    BY Zenon, <1>1, <2>3, <2>4, <2>5 DEF LossInv
<1>6. CASE cursor # None
  <2>1. /\ pc' = (IF cursor.inode # path THEN "find" ELSE "read")
        /\ cursor' = cursor /\ from' = Starts(cursor, path)
    BY Zenon, <1>6 DEF Stat
  <2>2. Behindhand'
    BY Zenon, <1>1, <2>1 DEF LossInv, Behindhand
  <2>3. from' # 0 => cursor.inode = path /\ from' = cursor.offset
    BY Zenon, <2>1 DEF Starts
  <2>4. Sound(disk) => IF path = disk.inode THEN disk.offset <= from' ELSE disk.inode = rotated
    <3> SUFFICES ASSUME Sound(disk), path = disk.inode PROVE disk.offset <= from'
      BY Zenon, <1>4
    <3>1. cursor.inode = path /\ disk.offset <= cursor.offset /\ cursor.offset <= Len(content[path])
      BY Zenon, <1>2, <1>3, <1>6 DEF LossInv, Behindhand
    <3>2. cursor.offset \in Nat
      BY Zenon, <1>6 DEF TypeInv, TypeOK, Cursor
    <3>3. from' = cursor.offset
      BY <1>2, <2>1, <3>1, <3>2 DEF Starts
    <3>4. QED
      BY Zenon, <3>1, <3>3
  <2>5. Tick'
    BY Zenon, <1>1, <1>3, <2>1, <2>3, <2>4 DEF Tick, Looking
  <2>6. ReadWhole'
    BY Zenon, <1>3, <2>1 DEF ReadWhole
  <2>7. Undisturbed'
    BY Zenon, <1>1, <1>3, <2>1 DEF Undisturbed, Looking
  <2>8. QED
    BY Zenon, <1>1, <2>1, <2>2, <2>5, <2>6, <2>7 DEF LossInv
<1>7. QED
  BY Zenon, <1>5, <1>6

LEMMA findInodeLoss ==
    ASSUME TypeInv, LossInv, findInode
    PROVE  LossInv'
<1>1. /\ Files' /\ (Sound(disk)' <=> Sound(disk)) /\ Kept(disk)' /\ Kept(cursor)'
      /\ UNCHANGED <<content, path, rotated, disk, cursor, loaded, stat, from, result, reset>>
  BY Zenon, PollFrame DEF LossInv, findInode, historyVars
<1>2. pc = "find" /\ loaded /\ result = {} /\ Looking /\ cursor.inode # stat /\ cursor.inode \in Inode
  BY Zenon DEF findInode, LossInv, Tick, Looking, TypeInv, TypeOK, Cursor
<1>3. \/ pc' = "read" /\ cursor.inode \notin {path, rotated}
      \/ pc' = "rotated" /\ place' = "log" /\ cursor.inode = path
      \/ pc' = "rotated" /\ place' = "renamed" /\ cursor.inode = rotated
  BY DEF findInode
<1>4. Behindhand'
  BY Zenon, <1>1 DEF LossInv, Behindhand
<1>5. Tick'
  BY Zenon, <1>1, <1>2, <1>3 DEF LossInv, Tick, Looking
<1>6. ReadWhole'
  <2> SUFFICES ASSUME pc' = "read" PROVE After(cursor.inode, cursor.offset)' = {}
    BY Zenon DEF ReadWhole
  <2>1. content[cursor.inode] = <<>>
    BY Zenon, <1>2, <1>3 DEF LossInv, Files
  <2>2. DOMAIN content'[cursor'.inode] = {}
    BY <1>1, <2>1
  <2>3. QED
    BY Zenon, <2>2 DEF After, Behind
<1>7. Undisturbed'
  BY Zenon, <1>1, <1>2, <1>3 DEF LossInv, Undisturbed, Looking
<1>8. QED
  BY Zenon, <1>1, <1>4, <1>5, <1>6, <1>7 DEF LossInv

LEMMA PersistLoss ==
    ASSUME TypeInv, LossInv, Persist
    PROVE  LossInv'
<1>1. /\ Files' /\ Kept(disk)' /\ Kept(cursor)' /\ disk' = cursor /\ cursor' = cursor
      /\ UNCHANGED <<content, path, rotated, loaded>>
  BY Zenon, PollFrame DEF LossInv, Persist
<1>2. pc = "persist" /\ pc' = "record" /\ loaded /\ ~Looking'
  BY Zenon DEF Persist, LossInv, Tick, Looking
<1>3. Behindhand'
  <2>1. Sound(disk)' => cursor.offset <= Len(content[cursor.inode]) /\ cursor.offset \in Nat
    BY Zenon, <1>1 DEF Kept, Sound, TypeInv, TypeOK, Cursor
  <2>2. QED
    BY <1>1, <2>1 DEF Behindhand
<1>4. Tick' /\ ReadWhole' /\ Undisturbed'
  BY Zenon, <1>1, <1>2 DEF Tick, ReadWhole, Undisturbed
<1>5. QED
  BY Zenon, <1>1, <1>3, <1>4 DEF LossInv

LEMMA BehindLess ==
    ASSUME TypeOK, NEW i \in Inode, NEW o \in Nat, NEW p \in Nat, o <= p
    PROVE  After(i, p) \subseteq After(i, o)
<1>1. content[i] \in Seq(1..MaxLines)
  BY Zenon DEF TypeOK
<1>2. DOMAIN content[i] \subseteq Nat
  BY <1>1
<1>3. \A k \in DOMAIN content[i] : k > p => k > o
  <2> SUFFICES ASSUME NEW k \in DOMAIN content[i], k > p PROVE k > o
    OBVIOUS
  <2>1. k \in Nat
    BY Zenon, <1>2
  <2>2. QED
    BY <2>1
<1>4. QED
  BY Zenon, <1>3 DEF After, Behind

\* What lies before the cursor saved, if that is sound.
LEMMA AheadDisk ==
    ASSUME TypeInv, LossInv, Sound(disk)
    PROVE  /\ disk \in Cursor /\ disk.inode \in Inode /\ disk.offset \in Nat
           /\ disk.inode \in {path, rotated} /\ disk.offset <= Len(content[disk.inode])
           /\ Ahead(disk) = After(disk.inode, disk.offset)
                            \cup (IF path \notin {None, disk.inode} THEN After(path, 0) ELSE {})
<1>1. disk \in Cursor /\ Kept(disk) /\ disk.inode \in Inode /\ disk.offset \in Nat /\ disk.inode \in {path, rotated}
  BY Zenon DEF TypeInv, TypeOK, LossInv, Sound, Cursor
<1>2. content[disk.inode] \in Seq(1..MaxLines)
  BY Zenon, <1>1 DEF TypeInv, TypeOK
<1>3. Len(content[disk.inode]) \in Nat
  BY <1>2
<1>4. disk.offset <= Len(content[disk.inode])
  BY Zenon, <1>1 DEF Kept, Sound
<1>5. QED
  BY Zenon, <1>1, <1>3, <1>4, AheadOf

LEMMA ReadRotatedLoss ==
    ASSUME TypeInv, LossInv, ReadRotated
    PROVE  LossInv'
<1>1. /\ Files' /\ (Sound(disk)' <=> Sound(disk)) /\ Kept(disk)' /\ Kept(cursor)' /\ Ahead(disk)' = Ahead(disk)
      /\ UNCHANGED <<content, path, rotated, disk, cursor, loaded, stat, from, reset>>
  BY Zenon, PollFrame DEF LossInv, ReadRotated
<1>2. /\ pc = "rotated" /\ pc' = "read" /\ loaded /\ result = {} /\ Looking
      /\ cursor \in Cursor /\ cursor # None /\ cursor.inode \in Inode /\ cursor.offset \in Nat
  BY Zenon DEF ReadRotated, LossInv, Tick, Looking, TypeInv, TypeOK, Cursor
<1>3. Behindhand'
  BY Zenon, <1>1 DEF LossInv, Behindhand
<1>4. Tick'
  BY Zenon, <1>1, <1>2 DEF LossInv, Tick, Looking
<1>5. /\ result' = After(IF place = "log" THEN path ELSE rotated, cursor.offset)
      /\ ~raced' => (IF place = "log" THEN path ELSE rotated) = cursor.inode
  BY Zenon, <1>2 DEF ReadRotated, readRequests
<1>6. After(cursor.inode, cursor.offset)' = After(cursor.inode, cursor.offset)
  BY <1>1, Zenon DEF After, Behind
<1>7. ReadWhole'
  BY Zenon, <1>5, <1>6 DEF ReadWhole
<1>8. Undisturbed'
  <2> SUFFICES ASSUME ~reset PROVE Undisturbed'
    BY Zenon, <1>1 DEF Undisturbed
  <2>1. path = stat /\ place = "renamed" /\ cursor.inode = rotated
    BY Zenon, <1>2 DEF LossInv, Undisturbed
  <2>2. result' = After(rotated, cursor.offset) /\ After(rotated, cursor.offset)' = After(rotated, cursor.offset)
    BY Zenon, <1>1, <1>5, <2>1 DEF After, Behind
  <2>3. Sound(disk) => result' \subseteq Ahead(disk)
    <3> SUFFICES ASSUME Sound(disk) PROVE result' \subseteq Ahead(disk)
      OBVIOUS
    <3>1. disk.inode = rotated /\ disk.offset <= cursor.offset
      BY Zenon, <1>2, <2>1 DEF LossInv, Behindhand
    <3>2. After(rotated, cursor.offset) \subseteq After(rotated, disk.offset)
      BY Zenon, <1>2, <3>1, AheadDisk, BehindLess DEF TypeInv
    <3>3. QED
      BY Zenon, <2>2, <3>1, <3>2, AheadDisk
  <2>4. QED
    BY Zenon, <1>1, <1>2, <2>1, <2>2, <2>3 DEF Undisturbed, Looking
<1>9. QED
  BY Zenon, <1>1, <1>3, <1>4, <1>7, <1>8 DEF LossInv

LEMMA ReadLoss ==
    ASSUME TypeInv, LossInv, Read
    PROVE  LossInv'
<1> DEFINE end == Len(content[path])
<1>1. /\ Files' /\ (Sound(disk)' <=> Sound(disk)) /\ Kept(disk)' /\ Ahead(disk)' = Ahead(disk)
      /\ UNCHANGED <<content, gen, path, rotated, disk, loaded, stat, from, reset>>
  BY Zenon, PollFrame DEF LossInv, Read
<1>2. /\ pc = "read" /\ pc' = "persist" /\ loaded /\ Looking /\ path \in Inode /\ stat \in Inode
      /\ cursor # None /\ from \in Nat /\ gen[path] \in Nat /\ gen[stat] \in Nat
      /\ result' = result \cup After(path, from)
  BY Zenon DEF Read, readRequests, LossInv, Tick, Looking, TypeInv, TypeOK
<1>3. end \in Nat
  <2>1. content[path] \in Seq(1..MaxLines)
    BY Zenon, <1>2 DEF TypeInv, TypeOK
  <2>2. QED
    BY <2>1
<1>4. /\ cursor'.inode = stat /\ cursor'.offset = (IF from < end THEN end ELSE from)
      /\ cursor'.gen = (IF path = stat /\ from <= end THEN gen[path] ELSE -1)
  BY Zenon DEF Read
<1>5. Kept(cursor)'
  <2>1. cursor'.gen <= gen[stat]
    BY <1>2, <1>4
  <2>2. gen[stat] = cursor'.gen => cursor'.offset <= Len(content[stat])
    BY <1>2, <1>3, <1>4
  <2>3. QED
    BY Zenon, <1>1, <1>4, <2>1, <2>2 DEF Kept, Sound
<1>6. Sound(disk) => IF stat = disk.inode THEN disk.offset <= from ELSE disk.inode = rotated
  BY Zenon, <1>2 DEF LossInv, Tick
<1>7. Behindhand'
  <2> SUFFICES ASSUME Sound(disk)
               PROVE  \/ /\ stat = disk.inode /\ disk.offset <= cursor'.offset
                         /\ disk.inode = path => cursor'.offset <= end
                      \/ stat # disk.inode /\ disk.inode = rotated
    BY Zenon, <1>1, <1>4 DEF Behindhand
  <2>1. CASE stat = disk.inode
    <3>1. disk.offset <= cursor'.offset
      BY <1>2, <1>3, <1>4, <1>6, <2>1, AheadDisk
    <3>2. ASSUME disk.inode = path PROVE from <= end
      <4>1. CASE from = 0
        BY <1>3, <4>1
      <4>2. CASE from # 0
        <5>1. cursor.inode = stat /\ from = cursor.offset
          BY Zenon, <1>2, <4>2 DEF LossInv, Tick
        <5>2. QED
          BY Zenon, <1>2, <2>1, <3>2, <5>1 DEF LossInv, Behindhand
      <4>3. QED
        BY Zenon, <4>1, <4>2
    <3>3. disk.inode = path => cursor'.offset <= end
      BY <1>2, <1>3, <1>4, <3>2
    <3>4. QED
      BY Zenon, <2>1, <3>1, <3>3
  <2>2. CASE stat # disk.inode
    BY Zenon, <1>6, <2>2
  <2>3. QED
    BY Zenon, <2>1, <2>2
<1>8. Tick' /\ ReadWhole'
  BY Zenon, <1>1, <1>2 DEF Tick, ReadWhole, Looking
<1>9. Undisturbed'
  <2> SUFFICES ASSUME ~reset, Sound(disk) PROVE result' \subseteq Ahead(disk)
    BY Zenon, <1>1, <1>2 DEF Undisturbed, Looking
  <2>1. path = stat /\ result \subseteq Ahead(disk)
    BY Zenon, <1>2 DEF LossInv, Undisturbed
  <2>2. After(path, from) \subseteq Ahead(disk)
    <3>1. CASE path = disk.inode
      <4>1. After(path, from) \subseteq After(path, disk.offset)
        BY Zenon, <1>2, <1>6, <2>1, <3>1, AheadDisk, BehindLess DEF TypeInv
      <4>2. QED
        BY Zenon, <3>1, <4>1, AheadDisk
    <3>2. CASE path # disk.inode
      <4>1. After(path, from) \subseteq After(path, 0)
        BY <1>2, BehindLess DEF TypeInv
      <4>2. QED
        BY Zenon, <1>2, <3>2, <4>1, AheadDisk, TailerAssumption
    <3>3. QED
      BY Zenon, <3>1, <3>2
  <2>3. QED
    BY Zenon, <1>2, <2>1, <2>2
<1>10. QED
  BY Zenon, <1>1, <1>5, <1>7, <1>8, <1>9 DEF LossInv

LEMMA LossInvariant == Spec => []LossInv
<1>1. Init => LossInv
  <2> SUFFICES ASSUME Init PROVE LossInv
    OBVIOUS
  <2>1. Files
    BY Zenon, TailerAssumption DEF Init, Files
  <2>2. Kept(disk) /\ Kept(cursor) /\ Behindhand
    BY Zenon DEF Init, Kept, Behindhand
  <2>3. Tick /\ ReadWhole /\ Undisturbed
    BY Zenon DEF Init, Tick, ReadWhole, Undisturbed, Looking
  <2>4. QED
    BY Zenon, <2>1, <2>2, <2>3 DEF LossInv
<1>2. TypeInv /\ TypeInv' /\ LossInv /\ [Next]_vars => LossInv'
  <2> SUFFICES ASSUME TypeInv, TypeInv', LossInv, [Next]_vars PROVE LossInv'
    OBVIOUS
  <2>1. CASE Logs
    BY Zenon, <2>1, LogsLoss DEF TypeInv
  <2>2. CASE ReadFails \/ PersistFails \/ Record
    <3>1. /\ Return /\ UNCHANGED <<logVars, disk, cursor, loaded>> /\ loaded
      BY Zenon, <2>2 DEF ReadFails, PersistFails, Record, PollError, LossInv, Tick
    <3>2. QED
      BY Zenon, <3>1, ReturnLoss
  <2>3. CASE Crash
    BY Zenon, <2>3, ReturnLoss DEF Crash
  <2>4. CASE UNCHANGED vars
    <3>1. /\ UNCHANGED logVars
          /\ UNCHANGED <<disk, cursor, loaded, pc, stat, place, from, result, late, reset, raced>>
      BY Zenon, <2>4 DEF vars, pollVars, historyVars
    <3>2. /\ Files' /\ Kept(disk)' /\ Kept(cursor)' /\ (Sound(disk)' <=> Sound(disk))
          /\ Ahead(disk)' = Ahead(disk) /\ UNCHANGED <<content, path, rotated>>
      BY Zenon, <3>1, PollFrame DEF LossInv
    <3>3. /\ After(cursor.inode, cursor.offset)' = After(cursor.inode, cursor.offset)
          /\ After(rotated, cursor.offset)' = After(rotated, cursor.offset)
      BY Zenon, <3>1, <3>2 DEF After, Behind
    <3>4. Behindhand'
      BY Zenon, <3>1, <3>2 DEF LossInv, Behindhand
    <3>5. Tick'
      BY Zenon, <3>1, <3>2 DEF LossInv, Tick, Looking
    <3>6. ReadWhole'
      BY Zenon, <3>1, <3>3 DEF LossInv, ReadWhole
    <3>7. Undisturbed'
      BY Zenon, <3>1, <3>2, <3>3 DEF LossInv, Undisturbed, Looking
    <3>8. QED
      BY Zenon, <3>2, <3>4, <3>5, <3>6, <3>7 DEF LossInv
  <2>5. QED
    BY Zenon, <2>1, <2>2, <2>3, <2>4, BeginLoss, StatLoss, findInodeLoss, ReadRotatedLoss, ReadLoss, PersistLoss
       DEF Next, Poll
<1>3. QED
  BY <1>1, <1>2, TypeInvariant, PTL DEF Spec

\* A step that keeps the files and takes nothing from what is recorded, waiting
\* or before the cursor loses nothing.
LEMMA NotLost ==
    ASSUME UNCHANGED lines,
           recorded \cup result \cup Ahead(Present) \subseteq recorded' \cup result' \cup Ahead(Present)'
    PROVE  Lost' \subseteq Lost
  BY Zenon DEF Lost

LEMMA LogsLose ==
    ASSUME TypeInv, LossInv, Logs
    PROVE  Lost' \subseteq Lost \/ MayLose
<1>1. TypeOK /\ Files /\ UNCHANGED <<loaded, cursor, disk, recorded, result>>
  BY Zenon DEF TypeInv, LossInv, Logs, Write, Rename, Create, Reopen, Truncate, pollVars, historyVars
<1>2. PICK c \in Cursor \cup {None} : c = Present /\ c = Present'
  BY Zenon, <1>1 DEF Present, TypeOK
<1>3. /\ Ahead(c) = Ahead(Present) /\ Ahead(c)' = Ahead(Present)' /\ Kept(c) /\ (Sound(c) <=> Sound(Present))
      /\ c.inode = Present.inode
  <2>1. Ahead(c) = Ahead(Present) /\ (Sound(c) <=> Sound(Present)) /\ c.inode = Present.inode
    BY Zenon, <1>2 DEF Ahead, Sound
  <2>2. Ahead(c)' = Ahead(Present)'
    BY Zenon, <1>2 DEF Ahead
  <2>3. Kept(c)
    BY Zenon, <1>2 DEF LossInv, Present
  <2>4. QED
    BY Zenon, <2>1, <2>2, <2>3
<1>4. CASE Create \/ Reopen
  <2>1. UNCHANGED lines /\ ~Write
    BY <1>1, <1>4 DEF Create, Reopen, Write, TypeOK
  <2>2. Ahead(c) \subseteq Ahead(c)'
    BY Zenon, <1>1, <1>3, <1>4, <2>1, AheadGrows
  <2>3. QED
    BY Zenon, <1>1, <1>3, <2>1, <2>2, NotLost
<1>5. CASE Write /\ writer = path /\ Sound(c)
  <2>1. /\ path \in Inode /\ UNCHANGED <<path, rotated>> /\ lines' = lines + 1 /\ lines \in Nat
        /\ content'[path] = Append(content[path], lines + 1) /\ content[path] \in Seq(1..MaxLines)
    BY <1>1, <1>5 DEF Write, TypeOK
  <2>2. /\ Len(content[path]) \in Nat /\ Len(content'[path]) = Len(content[path]) + 1
        /\ Len(content[path]) + 1 \in DOMAIN content'[path]
        /\ content'[path][Len(content[path]) + 1] = lines + 1
    BY <2>1
  <2>3. \A o \in Nat : o <= Len(content[path]) => lines + 1 \in Behind(path, o)'
    BY <2>1, <2>2 DEF Behind
  <2>4. c \in Cursor /\ c # None /\ c.inode \in {path, rotated} /\ c.offset \in Nat /\ c.offset <= Len(content[c.inode])
    BY Zenon, <1>3, <1>5 DEF Sound, Kept, Cursor
  <2>5. lines + 1 \in Ahead(c)' \cup Malformed
    <3>1. CASE c.inode = path
      <4>1. lines + 1 \in Behind(path, c.offset)'
        BY Zenon, <2>3, <2>4, <3>1
      <4>2. ~(Len(content'[path']) < c.offset)
        BY <2>1, <2>2, <2>4, <3>1
      <4>3. Behind(path, c.offset)' = Behind(c.inode, c.offset)'
        BY Zenon, <2>1, <3>1 DEF Behind
      <4>4. QED
        BY Zenon, <2>1, <2>4, <3>1, <4>1, <4>2, <4>3 DEF Ahead, After
    <3>2. CASE c.inode # path
      <4>1. lines + 1 \in Behind(path, 0)'
        BY <2>2, <2>3
      <4>2. QED
        BY Zenon, <2>1, <2>4, <3>2, <4>1, TailerAssumption DEF Ahead, After
    <3>3. QED
      BY Zenon, <3>1, <3>2
  <2>6. Ahead(c) \subseteq Ahead(c)'
    BY Zenon, <1>1, <1>3, <1>5, AheadGrows
  <2>7. QED
    BY <1>1, <1>3, <2>1, <2>5, <2>6 DEF Lost
<1>6. CASE Rename /\ Sound(c) /\ c.inode = path
  <2>1. /\ path \in Inode /\ path' = None /\ rotated' = path /\ UNCHANGED lines /\ path # rotated
        /\ content'[path] = content[path] /\ content[path] \in Seq(1..MaxLines)
    BY Zenon, <1>1, <1>6 DEF Rename, TypeOK, Files
  <2>2. c \in Cursor /\ c # None /\ Len(content[path]) \in Nat
    BY <1>6, <2>1 DEF Sound
  <2>3. Ahead(c) = After(c.inode, c.offset)
    BY Zenon, <1>3, <1>6, <2>2, AheadOf
  <2>4. After(c.inode, c.offset)' = After(c.inode, c.offset)
    BY Zenon, <1>6, <2>1 DEF After, Behind
  <2>5. After(c.inode, c.offset)' \subseteq Ahead(c)'
    BY Zenon, <1>6, <2>1, <2>2, TailerAssumption DEF Ahead
  <2>6. QED
    BY Zenon, <1>1, <1>3, <2>1, <2>3, <2>4, <2>5, NotLost
<1>7. QED
  BY Zenon, <1>3, <1>4, <1>5, <1>6 DEF Logs, MayLose

LEMMA ReadLose ==
    ASSUME TypeInv, LossInv, Read, ~raced', ~late
    PROVE  Lost' \subseteq Lost
<1> DEFINE end == Len(content[path])
<1>1. /\ UNCHANGED <<content, path, rotated, lines, loaded, recorded>> /\ pc = "read" /\ path = stat /\ ~raced
      /\ result' = result \cup After(path, from)
  <2>1. path = stat /\ ~raced
    BY Zenon DEF Read
  <2>2. QED
    BY Zenon, <2>1 DEF Read, readRequests, logVars
<1>2. /\ loaded /\ path \in Inode /\ from \in Nat /\ cursor \in Cursor /\ cursor # None
      /\ cursor.inode \in Inode /\ cursor.offset \in Nat /\ TypeOK /\ None \notin Inode
  BY Zenon, <1>1, TailerAssumption DEF LossInv, Tick, TypeInv, TypeOK, Looking, Cursor
<1>3. end \in Nat
  <2>1. content[path] \in Seq(1..MaxLines)
    BY Zenon, <1>2 DEF TypeOK
  <2>2. QED
    BY <2>1
<1>4. from # 0 => cursor.inode = path /\ from = cursor.offset
  BY Zenon, <1>1 DEF LossInv, Tick, Looking
<1>5. cursor'.inode = path /\ cursor'.offset = (IF from < end THEN end ELSE from)
  BY Zenon, <1>1 DEF Read
<1>6. /\ (cursor.inode # path => After(cursor.inode, cursor.offset) \subseteq result)
  BY Zenon, <1>1 DEF LossInv, ReadWhole
<1>7. Ahead(cursor) \subseteq result' \cup Ahead(cursor)'
  <2>1. CASE cursor.inode # path
    <3>1. Ahead(cursor) \subseteq After(cursor.inode, cursor.offset) \cup After(path, 0)
      BY Zenon, <1>2, <2>1 DEF Ahead
    <3>2. from = 0
      BY Zenon, <1>4, <2>1
    <3>3. QED
      BY Zenon, <1>1, <1>6, <2>1, <3>1, <3>2
  <2>2. CASE cursor.inode = path /\ (from = 0 \/ cursor.offset <= end)
    <3>1. Ahead(cursor) = After(path, IF end < cursor.offset THEN 0 ELSE cursor.offset)
      BY Zenon, <1>2, <2>2 DEF Ahead
    <3>2. After(path, cursor.offset) \subseteq After(path, 0)
      BY <1>2, BehindLess
    <3>3. Ahead(cursor) \subseteq After(path, from)
      BY <1>2, <1>3, <1>4, <2>2, <3>1, <3>2
    <3>4. QED
      BY Zenon, <1>1, <3>3
  <2>3. CASE cursor.inode = path /\ from # 0 /\ ~(cursor.offset <= end)
    <3>1. Ahead(cursor) = After(path, 0)
      BY <1>2, <1>3, <2>3 DEF Ahead
    <3>2. cursor' # None
      <4>1. gen[path] \in Nat
        BY Zenon, <1>2 DEF TypeOK
      <4>2. cursor' \in Cursor
        BY Zenon, <1>1, <1>2, <1>3, <4>1 DEF Read, Cursor
      <4>3. QED
        BY Zenon, <4>2, CursorAssumption
    <3>3. cursor'.inode = path' /\ path' # None /\ Len(content'[path']) < cursor'.offset
      BY <1>1, <1>2, <1>3, <1>4, <1>5, <2>3
    <3>4. Ahead(cursor)' = After(path, 0)'
      BY Zenon, <3>2, <3>3 DEF Ahead, After
    <3>5. After(path, 0)' = After(path, 0)
      BY Zenon, <1>1 DEF After, Behind
    <3>6. QED
      BY Zenon, <3>1, <3>4, <3>5
  <2>4. QED
    BY Zenon, <2>1, <2>2, <2>3
<1>8. QED
  BY Zenon, <1>1, <1>2, <1>7, NotLost DEF Present

LEMMA PollLose ==
    ASSUME TypeInv, LossInv, Poll
    PROVE  Lost' \subseteq Lost \/ MayLose
<1>1. CASE Begin /\ pc' # "idle"
  <2>1. /\ UNCHANGED <<logVars, recorded, result>> /\ loaded'
        /\ cursor' = (IF loaded THEN cursor ELSE disk)
    BY Zenon, <1>1 DEF Begin, PollError, Return, pollVars
  <2>2. Ahead(Present)' = Ahead(Present)
    <3>1. CASE loaded
      BY Zenon, <2>1, <3>1, PollFrame DEF LossInv, Present
    <3>2. CASE ~loaded
      BY Zenon, <2>1, <3>2, PollFrame DEF LossInv, Present
    <3>3. QED
      BY Zenon, <3>1, <3>2
  <2>3. QED
    BY Zenon, <2>1, <2>2, NotLost DEF logVars
<1>2. CASE Stat
  <2>1. UNCHANGED <<logVars, recorded, result, loaded, disk>> /\ loaded
    BY Zenon, <1>2 DEF Stat, LossInv, Tick, historyVars
  <2>2. Ahead(Present) \subseteq Ahead(Present)'
    <3>1. CASE cursor = None
      BY Zenon, <2>1, <3>1 DEF Present, Ahead
    <3>2. CASE cursor # None
      <4>1. cursor' = cursor
        BY Zenon, <1>2, <3>2 DEF Stat
      <4>2. QED
        BY Zenon, <2>1, <4>1, PollFrame DEF LossInv, Present
    <3>3. QED
      BY Zenon, <3>1, <3>2
  <2>3. QED
    BY Zenon, <2>1, <2>2, NotLost DEF logVars
<1>3. CASE findInode \/ ReadRotated \/ Persist
  <2>1. UNCHANGED <<logVars, recorded, cursor, loaded>> /\ loaded /\ result \subseteq result'
    BY Zenon, <1>3 DEF findInode, ReadRotated, Persist, readRequests, LossInv, Tick, historyVars, pollVars
  <2>2. Ahead(Present)' = Ahead(Present)
    BY Zenon, <2>1, PollFrame DEF LossInv, Present
  <2>3. QED
    BY Zenon, <2>1, <2>2, NotLost DEF logVars
<1>4. CASE Read
  BY Zenon, <1>4, ReadLose DEF MayLose
<1>5. CASE ReadFails /\ ~reset
  <2>1. UNCHANGED <<logVars, recorded, cursor, loaded>> /\ loaded /\ pc \in {"stat", "rotated", "read"}
    BY Zenon, <1>5 DEF ReadFails, LossInv, Tick
  <2>2. Ahead(Present)' = Ahead(Present) /\ Ahead(Present) = Ahead(cursor)
    BY Zenon, <2>1, PollFrame DEF LossInv, Present
  <2>3. result \subseteq Ahead(cursor)
    <3>1. CASE result = {}
      BY Zenon, <3>1
    <3>2. CASE result # {}
      <4>1. pc = "read" /\ path = stat /\ cursor.inode = rotated /\ result \subseteq After(rotated, cursor.offset)
        BY Zenon, <1>5, <2>1, <3>2 DEF LossInv, Tick, Undisturbed, Looking
      <4>2. path # rotated /\ cursor # None
        BY Zenon, <4>1, TailerAssumption DEF LossInv, Files, TypeInv, Looking
      <4>3. QED
        BY Zenon, <4>1, <4>2 DEF Ahead
    <3>3. QED
      BY Zenon, <3>1, <3>2
  <2>4. QED
    BY Zenon, <2>1, <2>2, <2>3, NotLost DEF logVars
<1>6. CASE Record /\ recorded' # recorded
  <2>1. UNCHANGED <<logVars, cursor, loaded, disk>> /\ loaded /\ recorded' = recorded \cup result
    BY Zenon, <1>6 DEF Record, LossInv, Tick
  <2>2. Ahead(Present)' = Ahead(Present)
    BY Zenon, <2>1, PollFrame DEF LossInv, Present
  <2>3. QED
    BY Zenon, <2>1, <2>2, NotLost DEF logVars
<1>7. QED
  BY Zenon, <1>1, <1>2, <1>3, <1>4, <1>5, <1>6 DEF Poll, MayLose

\* A killed agent goes back to the cursor saved, which is not past what it had.
LEMMA CrashLose ==
    ASSUME TypeInv, LossInv, Crash, pc # "record", Sound(disk), ~reset
    PROVE  Lost' \subseteq Lost
<1>1. UNCHANGED <<logVars, recorded, disk>> /\ ~loaded' /\ result' = {}
  BY Zenon DEF Crash, Return
<1>2. Ahead(Present)' = Ahead(disk)
  BY Zenon, <1>1, PollFrame DEF LossInv, Present
<1>3. result \subseteq Ahead(disk)
  BY Zenon DEF LossInv, Tick, Undisturbed, TypeInv, TypeOK
<1>4. Ahead(Present) \subseteq Ahead(disk)
  <2>1. CASE ~loaded
    BY Zenon, <2>1 DEF Present
  <2>2. CASE cursor = None
    BY Zenon, <2>2 DEF Present, Ahead
  <2>3. CASE loaded /\ cursor # None
    <3> DEFINE i == cursor.inode
    <3>1. /\ i \in Inode /\ cursor.offset \in Nat /\ TypeOK /\ Present = cursor /\ None \notin Inode
          /\ (path # None => path # rotated) /\ path \in Inode \cup {None}
      BY Zenon, <2>3, TailerAssumption DEF TypeInv, TypeOK, Cursor, Present, LossInv, Files
    <3>2. CASE i = disk.inode /\ disk.offset <= cursor.offset /\ (disk.inode = path => cursor.offset <= Len(content[path]))
      <4>1. After(i, cursor.offset) \subseteq After(i, disk.offset)
        BY Zenon, <3>1, <3>2, AheadDisk, BehindLess
      <4>2. ~(i = path /\ Len(content[path]) < cursor.offset)
        <5>1. i = path => content[path] \in Seq(1..MaxLines)
          BY Zenon, <3>1 DEF TypeOK
        <5>2. i = path => Len(content[path]) \in Nat
          BY <5>1
        <5>3. QED
          BY <3>1, <3>2, <5>2
      <4>3. Ahead(cursor) \subseteq After(i, cursor.offset) \cup (IF path \notin {None, i} THEN After(path, 0) ELSE {})
        BY Zenon, <2>3, <4>2 DEF Ahead
      <4>4. QED
        BY Zenon, <3>1, <3>2, <4>1, <4>3, AheadDisk
    <3>3. CASE i # disk.inode /\ disk.inode = rotated
      <4>1. path # None => After(path, 0) \subseteq Ahead(disk)
        BY Zenon, <3>1, <3>3, AheadDisk
      <4>2. \A o \in {0, cursor.offset} : path # None => After(path, o) \subseteq After(path, 0)
        BY <3>1, BehindLess
      <4>3. Ahead(cursor) \subseteq IF path = None THEN {} ELSE After(path, 0)
        BY Zenon, <2>3, <3>1, <3>3, <4>2 DEF Ahead
      <4>4. QED
        BY Zenon, <3>1, <4>1, <4>3
    <3>4. QED
      BY Zenon, <2>3, <3>2, <3>3 DEF LossInv, Behindhand
  <2>4. QED
    BY Zenon, <2>1, <2>2, <2>3
<1>5. QED
  BY Zenon, <1>1, <1>2, <1>3, <1>4, NotLost DEF logVars

\* Lines are lost in the cases of MayLose only (tailer.go:130-196, main.go:183-203).
THEOREM LossesKnown == Spec => LosesOnly
<1>1. TypeInv /\ LossInv /\ [Next]_vars => [Lost' \subseteq Lost \/ MayLose]_vars
  BY Zenon, LogsLose, PollLose, CrashLose DEF Next, MayLose
<1>2. QED
  BY <1>1, TypeInvariant, LossInvariant, PTL DEF Spec, LosesOnly

=============================================================================

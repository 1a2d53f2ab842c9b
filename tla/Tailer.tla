------------------------------- MODULE Tailer -------------------------------
(***************************************************************************)
(* The Tailer of internal/agent/npm on one access log, with the tick of    *)
(* cmd/flowlens-agent that polls it and records what it returns.           *)
(*                                                                         *)
(* Around it are the proxy, which appends lines to the file it has open,   *)
(* and log rotation, which renames the log, creates a new one and has the  *)
(* proxy reopen it, or truncates it in place.  Each of their steps may     *)
(* fall between any two looks of a poll at the files.  A line is its       *)
(* number; a line without its newline has not been written yet.  An inode  *)
(* is used again once no name leads to it; gen tells its successive        *)
(* contents apart.                                                         *)
(***************************************************************************)
EXTENDS Integers, Sequences

CONSTANTS
    Inode,       \* inodes of the directory
    None,        \* no inode, no cursor
    Malformed,   \* the lines that ParseLine refuses
    MaxLines,    \* bound on the lines written
    MaxResets,   \* bound on rotations and truncations
    MaxFaults    \* bound on crashes and I/O errors

ASSUME TailerAssumption ==
    Inode # {} /\ None \notin Inode /\ MaxLines \in Nat /\ MaxResets \in Nat /\ MaxFaults \in Nat

VARIABLES
    content,     \* the lines of an inode
    gen,         \* history: how often an inode's contents began anew
    path,        \* inode of the log, or None
    rotated,     \* inode of the renamed log, or None
    writer,      \* inode the proxy has open
    lines,       \* lines written so far
    resets,      \* rotations and truncations so far
    loaded, cursor,         \* fields of the Tailer
    disk,        \* the cursor file
    pc,          \* of the tick: "idle", "stat", "find", "rotated", "read", "persist", "record"
    stat,        \* the inode pollPath has found
    place,       \* where findInode has found the cursor's: "log", "renamed" or "gone"
    from,        \* the offset it will read from
    result,      \* PollResult.Requests
    degraded,    \* PollResult.Malformed > 0 or PollResult.Truncated
    recorded,    \* history: lines recorded
    doubled,     \* history: lines recorded again
    late,        \* history: another file than the log found grew before that was read
    reset,       \* history: the log was renamed or truncated during this poll
    raced,       \* history: a poll opened another file than it had found
    reportedHealthy, needsRecovery, npmFailed,   \* RecoveryTracker, and run
    health,      \* the last health event recorded
    outcome,     \* history: what the last poll since the start has shown
    untold,      \* history: the last health event could not be recorded
    faults

logVars == <<content, gen, path, rotated, writer, lines, resets>>
pollVars == <<stat, place, from, result, degraded>>
historyVars == <<recorded, doubled, late, reset, raced>>
healthVars == <<reportedHealthy, needsRecovery, npmFailed, health, outcome, untold>>
vars == <<logVars, loaded, cursor, disk, pc, pollVars, historyVars, healthVars, faults>>

\* A cursor, with (as history) the contents it is a place in, or -1.
Cursor == [inode : Inode, offset : Nat, gen : Nat \cup {-1}]

\* No cursor can be taken for the absence of one.
ASSUME CursorAssumption == None \notin Cursor

Behind(i, offset) == {content[i][k] : k \in {k \in DOMAIN content[i] : k > offset}}

\* The requests that reading an inode from an offset on yields.
After(i, offset) == Behind(i, offset) \ Malformed

\* The lines that the next poll finds if it starts from cursor c.
Ahead(c) ==
    IF c = None THEN {}
    ELSE (IF c.inode \in {path, rotated}
          THEN After(c.inode, IF c.inode = path /\ Len(content[path]) < c.offset
                              THEN 0 ELSE c.offset)
          ELSE {})
         \cup (IF path \notin {None, c.inode} THEN After(path, 0) ELSE {})

-----------------------------------------------------------------------------
(* The proxy and log rotation                                              *)

Write ==
    /\ lines < MaxLines
    /\ lines' = lines + 1
    /\ content' = [content EXCEPT ![writer] = Append(@, lines + 1)]
    /\ late' = (late \/ (pc = "read" /\ writer # stat))
    /\ UNCHANGED <<gen, path, rotated, writer, resets, loaded, cursor, disk, pc, pollVars,
                   recorded, doubled, reset, raced, healthVars, faults>>

\* The log becomes the renamed log; the one that was is removed.
Rename ==
    /\ path # None /\ writer = path
    /\ resets < MaxResets /\ resets' = resets + 1
    /\ rotated' = path
    /\ path' = None
    /\ content' = [i \in Inode |-> IF i = rotated THEN <<>> ELSE content[i]]
    /\ reset' = (reset \/ pc # "idle")
    /\ UNCHANGED <<gen, writer, lines, loaded, cursor, disk, pc, pollVars,
                   recorded, doubled, late, raced, healthVars, faults>>

\* A new log is created, and the proxy reopens it at once or later.
Create ==
    /\ path = None
    /\ \E i \in Inode \ {rotated} :
        /\ path' = i
        /\ content' = [content EXCEPT ![i] = <<>>]
        /\ gen' = [gen EXCEPT ![i] = @ + 1]
        /\ writer' \in {writer, i}
    /\ UNCHANGED <<rotated, lines, resets, loaded, cursor, disk, pc, pollVars,
                   historyVars, healthVars, faults>>

Reopen ==
    /\ path # None /\ writer # path
    /\ writer' = path
    /\ UNCHANGED <<content, gen, path, rotated, lines, resets, loaded, cursor, disk, pc, pollVars,
                   historyVars, healthVars, faults>>

Truncate ==
    /\ path # None /\ writer = path
    /\ resets < MaxResets /\ resets' = resets + 1
    /\ content' = [content EXCEPT ![path] = <<>>]
    /\ gen' = [gen EXCEPT ![path] = @ + 1]
    /\ reset' = (reset \/ pc # "idle")
    /\ UNCHANGED <<path, rotated, writer, lines, loaded, cursor, disk, pc, pollVars,
                   recorded, doubled, late, raced, healthVars, faults>>

-----------------------------------------------------------------------------
(* Poll, and what the tick makes of its result                             *)

Fault == faults < MaxFaults /\ faults' = faults + 1

\* The tick is over, and with it the local variables of Poll.
Return ==
    /\ pc' = "idle"
    /\ stat' = None /\ place' = "gone" /\ from' = 0
    /\ result' = {} /\ degraded' = FALSE
    /\ late' = FALSE /\ reset' = FALSE

\* Faulty variant: an error does not call for a recovery event.
PollErrorForgotten ==
    /\ Return
    /\ outcome' = "unhealthy"
    /\ npmFailed' = TRUE
    /\ health' = IF npmFailed THEN health ELSE "unhealthy"
    /\ UNCHANGED <<reportedHealthy, needsRecovery, untold>>

\* Poll returns an error and an empty result.  The first error in a row is
\* reported, if that can be recorded.
PollError ==
    /\ Return
    /\ outcome' = "unhealthy"
    /\ needsRecovery' = TRUE
    /\ npmFailed' = TRUE
    /\ IF npmFailed THEN UNCHANGED <<health, untold>>
       ELSE \/ health' = "unhealthy" /\ untold' = FALSE
            \/ UNCHANGED health /\ untold' = TRUE
    /\ UNCHANGED reportedHealthy

\* load, and Glob.  A cursor file that cannot be read is not read again.
Begin ==
    /\ pc = "idle"
    /\ loaded' = TRUE
    /\ \/ /\ cursor' = IF loaded THEN cursor ELSE disk
          /\ pc' = IF path = None THEN "persist" ELSE "stat"
          /\ UNCHANGED <<pollVars, late, reset, healthVars, faults>>
       \/ /\ ~loaded
          /\ Fault /\ PollError
          /\ UNCHANGED cursor
    /\ UNCHANGED <<logVars, disk, recorded, doubled, raced>>

\* Faulty variant: the last character of the line before is read again.
StartsBefore(c, i) == IF c.inode # i THEN 0 ELSE c.offset - 1

\* Where pollPath starts to read the inode it has found.
Starts(c, i) == IF c.inode # i \/ Len(content[i]) < c.offset THEN 0 ELSE c.offset

\* pollPath up to the first read.  A log met for the first time is read from
\* its present end on.
Stat ==
    /\ pc = "stat" /\ path # None
    /\ stat' = path
    /\ IF cursor = None
       THEN /\ cursor' = [inode |-> path, offset |-> Len(content[path]), gen |-> gen[path]]
            /\ pc' = "persist"
            /\ UNCHANGED <<from, degraded>>
       ELSE /\ from' = Starts(cursor, path)
            /\ degraded' = (cursor.inode = path /\ Len(content[path]) < cursor.offset)
            /\ pc' = IF cursor.inode # path THEN "find" ELSE "read"
            /\ UNCHANGED cursor
    /\ UNCHANGED <<logVars, loaded, disk, place, result, historyVars, healthVars, faults>>

\* Faulty variant: the cursor's inode is not looked for.
findInodeNever ==
    /\ pc = "find"
    /\ place' = "gone" /\ pc' = "read"
    /\ UNCHANGED <<logVars, loaded, cursor, disk, stat, from, result, degraded,
                   historyVars, healthVars, faults>>

\* Faulty variant: a log that is gone is an error.
findInodeStrict ==
    /\ pc = "find"
    /\ IF cursor.inode = rotated
       THEN /\ place' = "renamed" /\ pc' = "rotated"
            /\ UNCHANGED <<stat, from, result, degraded, late, reset, healthVars>>
       ELSE PollError
    /\ UNCHANGED <<logVars, loaded, cursor, disk, recorded, doubled, raced, faults>>

\* findInode: the name under which the cursor's inode is now found, if any.
findInode ==
    /\ pc = "find"
    /\ place' = CASE cursor.inode = path -> "log"
                  [] cursor.inode = rotated -> "renamed"
                  [] OTHER -> "gone"
    /\ pc' = IF place' = "gone" THEN "read" ELSE "rotated"
    /\ UNCHANGED <<logVars, loaded, cursor, disk, stat, from, result, degraded,
                   historyVars, healthVars, faults>>

\* readRequests on inode i.
readRequests(i, offset) ==
    /\ result' = result \cup After(i, offset)
    /\ degraded' = (degraded \/ Behind(i, offset) \cap Malformed # {})

\* The rest of the log that was renamed.
ReadRotated ==
    /\ pc = "rotated"
    /\ LET i == IF place = "log" THEN path ELSE rotated
       IN /\ i # None
          /\ readRequests(i, cursor.offset)
          /\ raced' = (raced \/ i # cursor.inode)
    /\ pc' = "read"
    /\ UNCHANGED <<logVars, loaded, cursor, disk, stat, place, from,
                   recorded, doubled, late, reset, healthVars, faults>>

\* Faulty variant: the offset reached is not kept.
ReadKeepingOffset ==
    /\ pc = "read" /\ path # None
    /\ readRequests(path, from)
    /\ cursor' = [inode |-> stat, offset |-> from,
                  gen |-> IF path = stat /\ from <= Len(content[path]) THEN gen[path] ELSE -1]
    /\ raced' = (raced \/ path # stat)
    /\ pc' = "persist"
    /\ UNCHANGED <<logVars, loaded, disk, stat, place, from,
                   recorded, doubled, late, reset, healthVars, faults>>

\* The log is opened by its name once more, and read to its end.
Read ==
    /\ pc = "read" /\ path # None
    /\ readRequests(path, from)
    /\ LET end == Len(content[path])
       IN cursor' = [inode |-> stat, offset |-> IF from < end THEN end ELSE from,
                     gen |-> IF path = stat /\ from <= end THEN gen[path] ELSE -1]
    /\ raced' = (raced \/ path # stat)
    /\ pc' = "persist"
    /\ UNCHANGED <<logVars, loaded, disk, stat, place, from,
                   recorded, doubled, late, reset, healthVars, faults>>

\* The log is gone, or reading fails, before the cursor has moved.
ReadFails ==
    /\ \/ pc \in {"stat", "read"} /\ path = None /\ UNCHANGED faults
       \/ pc = "rotated" /\ place = "log" /\ path = None /\ UNCHANGED faults
       \/ pc \in {"stat", "rotated", "read"} /\ Fault
    /\ PollError
    /\ UNCHANGED <<logVars, loaded, cursor, disk, recorded, doubled, raced>>

Persist ==
    /\ pc = "persist"
    /\ disk' = cursor
    /\ pc' = "record"
    /\ UNCHANGED <<logVars, loaded, cursor, pollVars, historyVars, healthVars, faults>>

\* The cursors cannot be written, or another log fails after this one.
PersistFails ==
    /\ pc = "persist"
    /\ Fault /\ PollError
    /\ UNCHANGED <<logVars, loaded, cursor, disk, recorded, doubled, raced>>

\* RecoveryTracker.Observe and Events: the health event of a good poll.
HealthEvent ==
    IF degraded THEN "degraded"
    ELSE IF reportedHealthy /\ ~needsRecovery THEN "none" ELSE "healthy"

\* The tick records the requests with the health event, if there is one.  An
\* error is logged and nothing is kept for later.
Record ==
    /\ pc = "record"
    /\ Return
    /\ npmFailed' = FALSE
    /\ outcome' = IF degraded THEN "degraded" ELSE "healthy"
    /\ needsRecovery' = degraded
    /\ reportedHealthy' = (reportedHealthy \/ ~degraded)
    /\ \/ /\ recorded' = recorded \cup result
          /\ doubled' = doubled \cup (recorded \cap result)
          /\ health' = IF HealthEvent = "none" THEN health ELSE HealthEvent
          /\ untold' = (untold /\ HealthEvent = "none")
          /\ UNCHANGED faults
       \/ /\ Fault
          /\ untold' = (untold \/ HealthEvent # "none")
          /\ UNCHANGED <<recorded, doubled, health>>
    /\ UNCHANGED <<logVars, loaded, cursor, disk, raced>>

\* The agent is killed and started again.
Crash ==
    /\ Fault
    /\ loaded' = FALSE /\ cursor' = None
    /\ Return
    /\ reportedHealthy' = FALSE /\ needsRecovery' = FALSE /\ npmFailed' = FALSE
    /\ outcome' = "none"
    /\ UNCHANGED <<logVars, disk, recorded, doubled, raced, health, untold>>

-----------------------------------------------------------------------------

Init ==
    /\ path = (CHOOSE i \in Inode : TRUE) /\ writer = path
    /\ content = [i \in Inode |-> <<>>] /\ gen = [i \in Inode |-> 0]
    /\ rotated = None /\ lines = 0 /\ resets = 0
    /\ loaded = FALSE /\ cursor = None /\ disk = None
    /\ pc = "idle" /\ stat = None /\ place = "gone" /\ from = 0 /\ result = {} /\ degraded = FALSE
    /\ recorded = {} /\ doubled = {} /\ late = FALSE /\ reset = FALSE /\ raced = FALSE
    /\ reportedHealthy = FALSE /\ needsRecovery = FALSE /\ npmFailed = FALSE
    /\ health = "none" /\ outcome = "none" /\ untold = FALSE
    /\ faults = 0

Logs == Write \/ Rename \/ Create \/ Reopen \/ Truncate

Poll == Begin \/ Stat \/ findInode \/ ReadRotated \/ Read \/ ReadFails \/ Persist \/ PersistFails \/ Record

Next == Logs \/ Poll \/ Crash

Spec == Init /\ [][Next]_vars

\* The ticker ticks, and rotation does not stop halfway.
FairSpec == Spec /\ WF_vars(Poll) /\ WF_vars(Create)

-----------------------------------------------------------------------------

TypeOK ==
    /\ content \in [Inode -> Seq(1..MaxLines)] /\ gen \in [Inode -> Nat]
    /\ path \in Inode \cup {None} /\ rotated \in Inode \cup {None} /\ writer \in Inode
    /\ lines \in 0..MaxLines /\ resets \in 0..MaxResets /\ faults \in 0..MaxFaults
    /\ cursor \in Cursor \cup {None} /\ disk \in Cursor \cup {None}
    /\ pc \in {"idle", "stat", "find", "rotated", "read", "persist", "record"}
    /\ stat \in Inode \cup {None} /\ from \in Nat
    /\ result \subseteq 1..MaxLines /\ recorded \subseteq 1..MaxLines /\ doubled \subseteq recorded
    /\ health \in {"none", "healthy", "degraded", "unhealthy"}
    /\ outcome \in {"none", "healthy", "degraded", "unhealthy"}

\* The cursor that the next poll starts from.
Present == IF loaded THEN cursor ELSE disk

\* The lines that the next poll will not find and that are not recorded.
Lost == (1..lines) \ (Malformed \cup recorded \cup result \cup Ahead(Present))

\* The contents the cursor was taken from are still under a name.
Sound(c) == c # None /\ c.inode \in {path, rotated} /\ gen[c.inode] = c.gen

\* What loses lines:
\*   - the proxy writes before there is a cursor, or to a log that has been
\*     renamed or truncated;
\*   - the log is renamed a second time before it was polled, or truncated;
\*   - a name leads to another file the second time a poll looks at it;
\*   - another file than the log a poll has found, such as the renamed one it
\*     has read, grows before it reads the log;
\*   - a poll fails after the cursor has moved, or because the cursors cannot
\*     be loaded, or after the log was renamed or truncated
\*     in the middle of it;
\*   - recording fails;
\*   - the agent is killed after the cursors are saved and before the requests
\*     are recorded, after the log was renamed or truncated in the middle of a
\*     poll, or when the cursor saved is of a log that is gone.
MayLose ==
    \/ Write /\ (writer # path \/ ~Sound(Present))
    \/ Rename /\ (~Sound(Present) \/ Present.inode # path)
    \/ Truncate
    \/ Read /\ (raced' \/ late)
    \/ Begin /\ pc' = "idle"
    \/ ReadFails /\ reset
    \/ PersistFails
    \/ Record /\ recorded' = recorded
    \/ Crash /\ (pc = "record" \/ ~Sound(disk) \/ reset)

\* Nothing else loses lines (tailer.go:130-196, main.go:183-203).  In particular
\* none is lost by one rotation between two polls, by a crash before the cursors
\* are saved, or by a read that fails.
LosesOnly == [][Lost' \subseteq Lost \/ MayLose]_vars

\* No line is recorded twice, whatever fails and whenever the agent is killed,
\* unless the log was exchanged between two looks of a poll at its name.
AtMostOnce == doubled # {} => raced

\* The server knows how the last poll went unless the report was lost
\* (tailer.go:44-56, main.go:185-203).
HealthTold == outcome # "none" /\ ~untold => health = outcome

\* Every line is recorded in the end or meets one of the fates of LosesOnly,
\* provided that the ticker goes on and that a log that was renamed is replaced.
Found == \A n \in (1..MaxLines) \ Malformed : (n \in Ahead(Present)) ~> (n \in recorded \cup Lost)

=============================================================================

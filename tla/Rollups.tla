------------------------------ MODULE Rollups ------------------------------
(***************************************************************************)
(* Rollups and retention of the server, internal/server/rollup and         *)
(* internal/server/retention, as the jobs of cmd/flowlens-server run them: *)
(* hour and day totals are rebuilt from the minutes, and the minutes are   *)
(* deleted once they are old and their day has been rolled up.             *)
(*                                                                         *)
(* The minute tables are one table of units.  A place in time is a number  *)
(* of midnights since then (days) and a time of day in hours (hour); the   *)
(* present is 0 days and the time of day of the variable hour.  Times move *)
(* away from the present, and days stops at MaxDays, beyond which nothing  *)
(* tells them apart: time goes on for ever in finitely many states.        *)
(***************************************************************************)
EXTENDS Integers

CONSTANTS
    Unit,        \* units of traffic
    Node(_),     \* the node a unit belongs to
    DayLen,      \* hours of a day
    Retention,   \* settings: detail days, and the aggregate months in days
    MaxDays,     \* bound on days, and on how late Cleanup is
    MaxLate,     \* bound on the midnights between a unit and its arrival
    MaxChanges   \* bound on changes of the settings

\* Cleanup refuses settings of less than a day.
ASSUME RollupsAssumption ==
    /\ DayLen \in Nat /\ DayLen > 1
    /\ Retention \subseteq [detail : Nat \ {0}, aggregate : Nat \ {0}] /\ Retention # {}
    /\ MaxDays \in Nat /\ \A s \in Retention : s.detail < MaxDays /\ s.aggregate < MaxDays
    /\ 3 < MaxDays
    /\ MaxLate \in Nat /\ MaxLate < MaxDays
    /\ MaxChanges \in Nat

VARIABLES
    hour,        \* time of day
    days, at,    \* of a unit: midnights since then, and its time of day
    stored,      \* units that were stored and not yet deleted everywhere by age
    minutes,     \* units in the minute tables
    hourly,      \* units counted in traffic_rollups, resolution hour
    daily,       \* units counted there, resolution day
    due,         \* day-rollup has not run since midnight
    pc,          \* of Cleanup: "idle", or "rollups" when the minutes are done
    job,         \* the settings that the running Cleanup has read, else those to read
    settings,    \* operation_settings
    changes,
    excused,     \* history: units that arrived after the second midnight, or
                 \* whose day's total was deleted by its age
    skipped,     \* history: day-rollup did not run on some day
    short,       \* history: less than three days of detail were asked for
    narrow       \* history: aggregates were asked to go with the detail or before

tables == <<minutes, hourly, daily>>
history == <<excused, skipped, short, narrow>>
vars == <<hour, days, at, stored, tables, due, pc, job, settings, changes, history>>

-----------------------------------------------------------------------------

\* The time d midnights ago at time of day h is more than n days ago.
Older(d, h, n) == d > n \/ (d = n /\ hour > h)

\* A day row exists for the unit's node and day.
Covered(u) == \E v \in daily : Node(v) = Node(u) /\ days[v] = days[u]

Short(s) == s.detail < 3
Narrow(s) == s.aggregate <= s.detail

Init ==
    /\ hour = 0
    /\ days = [u \in Unit |-> 0] /\ at = [u \in Unit |-> 0]
    /\ stored = {} /\ minutes = {} /\ hourly = {} /\ daily = {}
    /\ due = TRUE
    /\ pc = "idle"
    /\ settings \in Retention /\ job = settings
    /\ changes = 0
    /\ excused = {} /\ skipped = FALSE /\ short = Short(settings) /\ narrow = Narrow(settings)

-----------------------------------------------------------------------------

\* An agent's batch is stored, at once or when the agent is back.
Store(u) ==
    /\ u \notin stored
    /\ \E d \in 0..MaxLate, h \in 0..(DayLen - 1) :
          /\ d = 0 => h <= hour
          /\ days' = [days EXCEPT ![u] = d]
          /\ at' = [at EXCEPT ![u] = h]
          /\ excused' = IF d > 1 THEN excused \cup {u} ELSE excused \ {u}
    /\ stored' = stored \cup {u}
    /\ minutes' = minutes \cup {u}
    /\ UNCHANGED <<hour, hourly, daily, due, pc, job, settings, changes, skipped, short, narrow>>

\* The units of [today - 48 hours, today).
DayRange == {u \in stored : days[u] \in 1..2}

\* The units of the two hours before the present one.
HourRange == {u \in stored : (days[u] * DayLen) + hour - at[u] \in 1..2}

\* Faulty variant: the rows are built from the minutes that had not been counted.
RollupRangeOfRows(rows, range) == (rows \ range) \cup ((minutes \cap range) \ rows)

\* RollupRange: the rows of the range are deleted and built again from the
\* minutes, in one transaction.  Another one on the same range fails on the
\* primary key and changes nothing.
RollupRange(rows, range) == (rows \ range) \cup (minutes \cap range)

RollDay ==
    /\ due
    /\ due' = FALSE
    /\ daily' = RollupRange(daily, DayRange)
    /\ UNCHANGED <<hour, days, at, stored, minutes, hourly, pc, job, settings, changes, history>>

RollHour ==
    /\ hourly' = RollupRange(hourly, HourRange)
    /\ hourly' # hourly
    /\ UNCHANGED <<hour, days, at, stored, minutes, daily, due, pc, job, settings, changes, history>>

\* Faulty variant: minutes go with the days.
ExpiredWithDays == {u \in minutes : Older(days[u], at[u], job.aggregate) /\ Covered(u)}

\* Faulty variant: minutes go a day early.
ExpiredEarly == {u \in minutes : Older(days[u], at[u], job.detail - 1) /\ Covered(u)}

\* The minutes that Cleanup deletes.
Expired == {u \in minutes : Older(days[u], at[u], job.detail) /\ Covered(u)}

\* The batches of deleteBatched on the detail and minute tables.
CleanMinutes ==
    /\ pc = "idle"
    /\ minutes' = minutes \ Expired
    /\ pc' = "rollups"
    /\ UNCHANGED <<hour, days, at, stored, hourly, daily, due, job, settings, changes, history>>

\* What is left of the hours when those whose day is there are deleted.
KeptHours == {u \in hourly : ~(Older(days[u], at[u], job.detail) /\ Covered(u))}

\* The units of the days that are older than the aggregates are kept.
Aged == {u \in stored : Older(days[u], 0, job.aggregate)}

\* The units of a row of the hours, and of a row of the days.
HourRow(u) == {v \in hourly : Node(v) = Node(u) /\ days[v] = days[u] /\ at[v] = at[u]}
DayRow(u) == {v \in stored : Node(v) = Node(u) /\ days[v] = days[u]}

\* The totals of the days of these units are deleted.  A unit that is in no table
\* any more is forgotten.
DeleteDays(units) ==
    LET gone == units \ (minutes \cup hourly')
    IN /\ daily' = daily \ units
       /\ excused' = (excused \cup units) \ gone
       /\ stored' = stored \ gone
       /\ days' = [u \in Unit |-> IF u \in gone THEN 0 ELSE days[u]]
       /\ at' = [u \in Unit |-> IF u \in gone THEN 0 ELSE at[u]]

\* Then the hours whose day is there, then the days.
CleanRollups ==
    /\ pc = "rollups"
    /\ pc' = "idle" /\ job' = settings
    /\ hourly' = KeptHours
    /\ DeleteDays(Aged)
    /\ UNCHANGED <<hour, minutes, due, settings, changes, skipped, short, narrow>>

\* A statement fails, or the job is cancelled between two batches of rows: what
\* was deleted stays deleted.
CleanupFails ==
    /\ \/ /\ pc = "idle"
          /\ \E batch \in SUBSET Expired : batch # {} /\ minutes' = minutes \ batch
          /\ UNCHANGED <<days, at, stored, hourly, daily, excused>>
       \/ /\ pc = "rollups"
          /\ \E batch \in SUBSET (hourly \ KeptHours) :
                hourly' = hourly \ UNION {HourRow(u) : u \in batch}
          /\ UNCHANGED <<days, at, stored, minutes, daily, excused>>
       \/ /\ pc = "rollups"
          /\ hourly' = KeptHours
          /\ \E batch \in SUBSET Aged : DeleteDays(UNION {DayRow(u) : u \in batch})
          /\ UNCHANGED minutes
    /\ pc' = "idle" /\ job' = settings
    /\ UNCHANGED <<hour, due, settings, changes, skipped, short, narrow>>

\* Faulty variant: no lower bound on the days of detail.
UpdateRetentionUnchecked(s) ==
    /\ changes < MaxChanges
    /\ changes' = changes + 1
    /\ settings' = [s EXCEPT !.detail = 0]
    /\ job' = IF pc = "idle" THEN s ELSE job
    /\ short' = (short \/ Short(s))
    /\ narrow' = (narrow \/ Narrow(s))
    /\ UNCHANGED <<hour, days, at, stored, tables, due, pc, excused, skipped>>

\* The settings are within bounds, or refused.
UpdateRetention(s) ==
    /\ changes < MaxChanges
    /\ changes' = changes + 1
    /\ settings' = s
    /\ job' = IF pc = "idle" THEN s ELSE job
    /\ short' = (short \/ Short(s))
    /\ narrow' = (narrow \/ Narrow(s))
    /\ UNCHANGED <<hour, days, at, stored, tables, due, pc, excused, skipped>>

\* An hour passes.  A cleanup takes less.
Elapse ==
    /\ pc = "idle"
    /\ IF hour + 1 < DayLen
       THEN /\ hour' = hour + 1
            /\ UNCHANGED <<days, due, skipped>>
       ELSE /\ \A u \in daily : days[u] + 1 < MaxDays
            /\ hour' = 0
            /\ days' = [u \in Unit |-> IF u \in stored /\ days[u] < MaxDays
                                       THEN days[u] + 1 ELSE days[u]]
            /\ due' = TRUE
            /\ skipped' = (skipped \/ due)
    /\ UNCHANGED <<at, stored, tables, pc, job, settings, changes, excused, short, narrow>>

-----------------------------------------------------------------------------

Next ==
    \/ \E u \in Unit : Store(u)
    \/ RollDay \/ RollHour
    \/ CleanMinutes \/ CleanRollups \/ CleanupFails
    \/ \E s \in Retention : UpdateRetention(s)
    \/ Elapse

Spec == Init /\ [][Next]_vars

\* Time passes however often the jobs run, retention runs again and again, and it
\* does not fail every time.
FairSpec == Spec /\ SF_vars(Elapse) /\ WF_vars(CleanMinutes) /\ SF_vars(CleanRollups)

-----------------------------------------------------------------------------

TypeOK ==
    /\ hour \in 0..(DayLen - 1)
    /\ days \in [Unit -> 0..MaxDays] /\ at \in [Unit -> 0..(DayLen - 1)]
    /\ stored \subseteq Unit
    /\ minutes \subseteq stored /\ hourly \subseteq stored /\ daily \subseteq stored
    /\ due \in BOOLEAN /\ skipped \in BOOLEAN /\ short \in BOOLEAN /\ narrow \in BOOLEAN
    /\ pc \in {"idle", "rollups"}
    /\ settings \in Retention /\ job \in Retention
    /\ changes \in 0..MaxChanges
    /\ excused \subseteq Unit

\* Every unit is in the minutes or in its day's total until the age of the
\* aggregates, as long as the detail is kept for three days, the day-rollup runs
\* every day and the unit arrives before the second midnight
\* (cmd/flowlens-server/main.go:166-179, service.go:42-92 of retention).  With
\* one or two days of detail, rebuilding a day undoes its total.
Counted ==
    ~skipped /\ ~short => \A u \in stored \ excused : u \in minutes \cup daily

\* A unit leaves the hours' totals only when its day's total has it: a rebuilt
\* hour has all it had, and the cleanup, which looks for any total of the node
\* and the day, finds one with the unit (rollup/service.go:34-59, line 78 of
\* retention/service.go).
HoursKept ==
    [][~skipped /\ ~short => hourly \ hourly' \subseteq daily \cup excused]_vars

\* Minutes that are rolled up are deleted in the end, provided the aggregates are
\* kept for at least a day longer: otherwise the day's total goes first, and
\* minutes of a day without a total are never deleted.
Cleaned ==
    \A u \in Unit : [](u \in daily => <>(u \notin minutes \/ narrow))

=============================================================================

--------------------------- MODULE RollupsProofs ---------------------------
(***************************************************************************)
(* For every set of units and settings: no unit is lost between the        *)
(* minutes and the totals, and the hours' totals go only into their day's. *)
(***************************************************************************)
EXTENDS Rollups, TLAPS

\* Before its third midnight a unit that counts is in the minutes, from its third
\* midnight on it is in its day's total, and the rebuild of the day after the
\* second midnight is what puts it there for good.
Sheltered(u) ==
    /\ days[u] <= 2 => u \in minutes
    /\ days[u] = 2 /\ ~due => u \in daily
    /\ days[u] >= 3 => u \in daily

\* The inductive invariant, next to TypeOK: no settings at work have less than
\* three days of detail, and every unit that counts is sheltered.
IInv ==
    /\ ~short => settings.detail >= 3 /\ job.detail >= 3
    /\ ~skipped /\ ~short => \A u \in stored \ excused : Sheltered(u)

\* Settings are short and narrow or they are not.
LEMMA Flags == \A s : Short(s) \in BOOLEAN /\ Narrow(s) \in BOOLEAN
BY DEF Short, Narrow

\* Wherever a cleanup fails, it has deleted expired minutes only, or hours that
\* were to go and perhaps some of the old days (retention/service.go:94-114).
LEMMA FailsAt ==
    ASSUME CleanupFails
    PROVE  /\ KeptHours \subseteq hourly' /\ hourly' \subseteq hourly
           /\ \/ /\ UNCHANGED <<days, at, stored, daily, excused>>
                 /\ minutes' \subseteq minutes /\ minutes \ minutes' \subseteq Expired
              \/ minutes' = minutes /\ \E units \in SUBSET stored : DeleteDays(units)
<1>1. KeptHours \subseteq hourly
  BY DEF KeptHours
<1>2. ASSUME NEW u \in hourly \ KeptHours, NEW v \in HourRow(u) PROVE v \notin KeptHours
  BY <1>2 DEF HourRow, KeptHours, Covered
<1>3. CASE pc = "idle"
  BY <1>1, <1>3, Zenon DEF CleanupFails
<1>4. ASSUME NEW batch \in SUBSET (hourly \ KeptHours),
             hourly' = hourly \ UNION {HourRow(u) : u \in batch}
      PROVE  KeptHours \subseteq hourly' /\ hourly' \subseteq hourly
  BY <1>1, <1>2, <1>4
<1>5. ASSUME NEW batch \in SUBSET Aged
      PROVE  UNION {DayRow(u) : u \in batch} \in SUBSET stored
  BY DEF DayRow
<1>6. QED
  BY <1>1, <1>3, <1>4, <1>5 DEF CleanupFails

\* The tables hold stored units and the settings are within bounds, whatever the
\* jobs and the operator do (rollup/service.go:21-60, retention/service.go:42-92).
THEOREM TypeInvariant == Spec => []TypeOK
<1>1. Init => TypeOK
  <2> SUFFICES ASSUME Init PROVE TypeOK
    OBVIOUS
  <2>1. short \in BOOLEAN /\ narrow \in BOOLEAN
    BY Flags DEF Init
  <2>2. settings \in Retention /\ job \in Retention
    BY DEF Init
  <2>3. days \in [Unit -> 0..MaxDays] /\ at \in [Unit -> 0..(DayLen - 1)]
    BY RollupsAssumption DEF Init
  <2>4. hour \in 0..(DayLen - 1) /\ changes \in 0..MaxChanges
    BY RollupsAssumption DEF Init
  <2>5. /\ stored = {} /\ minutes = {} /\ hourly = {} /\ daily = {} /\ excused = {}
        /\ pc = "idle" /\ due = TRUE /\ skipped = FALSE
    BY DEF Init
  <2>6. QED
    BY <2>1, <2>2, <2>3, <2>4, <2>5 DEF TypeOK
<1>2. TypeOK /\ [Next]_vars => TypeOK'
  <2> SUFFICES ASSUME TypeOK, [Next]_vars PROVE TypeOK'
    OBVIOUS
  <2> USE RollupsAssumption DEF TypeOK
  <2>1. CASE \E u \in Unit : Store(u)
    BY <2>1 DEF Store
  <2>2. CASE RollDay
    BY <2>2 DEF RollDay, RollupRange, history
  <2>3. CASE RollHour
    BY <2>3 DEF RollHour, RollupRange, history
  <2>4. CASE CleanMinutes
    BY <2>4 DEF CleanMinutes, history
  <2>5. CASE CleanRollups
    BY <2>5 DEF CleanRollups, KeptHours, DeleteDays, Aged
  <2>6. CASE CleanupFails
    <3>1. UNCHANGED <<hour, due, settings, changes, skipped, short, narrow>>
          /\ pc' = "idle" /\ job' = settings
      BY <2>6 DEF CleanupFails
    <3>2. CASE UNCHANGED <<days, at, stored, daily, excused>> /\ minutes' \subseteq minutes
      BY <2>6, <3>1, <3>2, FailsAt
    <3>3. ASSUME NEW units \in SUBSET stored, DeleteDays(units), minutes' = minutes
          PROVE  TypeOK'
      BY <2>6, <3>1, <3>3, FailsAt DEF DeleteDays
    <3>4. QED
      BY <2>6, <3>2, <3>3, FailsAt
  <2>7. CASE \E s \in Retention : UpdateRetention(s)
    <3>1. PICK s \in Retention : UpdateRetention(s)
      BY <2>7
    <3>2. short' \in BOOLEAN /\ narrow' \in BOOLEAN
      BY <3>1, Zenon DEF UpdateRetention
    <3>3. QED
      BY <3>1, <3>2 DEF UpdateRetention, tables
  <2>8. CASE Elapse
    <3>1. hour' \in 0..(DayLen - 1)
      BY <2>8 DEF Elapse
    <3>2. days' \in [Unit -> 0..MaxDays]
      BY <2>8 DEF Elapse
    <3>3. due' \in BOOLEAN /\ skipped' \in BOOLEAN
      BY <2>8, Zenon DEF Elapse
    <3>4. UNCHANGED <<at, stored, tables, pc, job, settings, changes, excused, short, narrow>>
      BY <2>8 DEF Elapse
    <3>5. QED
      BY <3>1, <3>2, <3>3, <3>4 DEF tables
  <2>9. CASE UNCHANGED vars
    BY <2>9 DEF vars, tables, history
  <2>10. QED
    BY <2>1, <2>2, <2>3, <2>4, <2>5, <2>6, <2>7, <2>8, <2>9 DEF Next
<1>3. QED
  BY <1>1, <1>2, PTL DEF Spec

\* What a step has to show that leaves the times of the units and the settings
\* alone: it takes nothing from the minutes of the last two days nor from older
\* totals.
LEMMA ShelterKept ==
    ASSUME TypeOK, IInv,
           UNCHANGED <<settings, skipped, short>>, job' \in {job, settings},
           stored' \ excused' \subseteq stored \ excused,
           ASSUME NEW u \in stored' \ excused', u \in Unit,
                  Sheltered(u), job.detail >= 3, days[u] \in Nat
           PROVE  /\ days'[u] = days[u]
                  /\ days[u] <= 2 => u \in minutes'
                  /\ days[u] > 1 /\ u \in daily => u \in daily'
                  /\ days[u] = 2 /\ ~due' => ~due \/ u \in daily'
    PROVE  IInv'
<1>1. ASSUME ~skipped', ~short', NEW u \in stored' \ excused' PROVE Sheltered(u)'
  <2>1. Sheltered(u) /\ u \in Unit /\ job.detail >= 3
    BY <1>1 DEF IInv, TypeOK
  <2>2. days[u] \in Nat
    BY <2>1, RollupsAssumption DEF TypeOK
  <2>3. /\ days'[u] = days[u]
        /\ days[u] <= 2 => u \in minutes'
        /\ days[u] > 1 /\ u \in daily => u \in daily'
        /\ days[u] = 2 /\ ~due' => ~due \/ u \in daily'
    BY <2>1, <2>2
  <2>4. QED
    BY <2>1, <2>2, <2>3 DEF Sheltered
<1>2. ~short' => settings'.detail >= 3 /\ job'.detail >= 3
  BY DEF IInv
<1>3. QED
  BY <1>1, <1>2 DEF IInv

\* Steps keep every unit that counts sheltered.
LEMMA Inductive == TypeOK /\ IInv /\ [Next]_vars => IInv'
<1> SUFFICES ASSUME TypeOK, IInv, [Next]_vars PROVE IInv'
  OBVIOUS
<1>a. \A s \in Retention : s.detail \in Nat /\ s.aggregate \in Nat
  BY RollupsAssumption
<1>b. job.detail \in Nat /\ hour \in Nat
  BY <1>a, RollupsAssumption DEF TypeOK
<1>1. CASE \E u \in Unit : Store(u)
  <2>1. PICK v \in Unit : Store(v)
    BY <1>1
  <2>2. ~short' => settings'.detail >= 3 /\ job'.detail >= 3
    BY <2>1 DEF Store, IInv
  <2>3. ASSUME ~skipped', ~short', NEW u \in stored' \ excused' PROVE Sheltered(u)'
    <3>1. CASE u = v
      <4>1. days'[u] \in {0, 1} /\ u \in minutes'
        BY <2>1, <2>3, <3>1, RollupsAssumption DEF Store, TypeOK
      <4>2. QED
        BY <4>1 DEF Sheltered
    <3>2. CASE u # v
      <4>1. u \in stored \ excused /\ u \in Unit
        BY <2>1, <2>3, <3>2 DEF Store, TypeOK
      <4>2. days'[u] = days[u]
        BY <2>1, <3>2, <4>1 DEF Store, TypeOK
      <4>3. Sheltered(u) /\ due' = due /\ daily' = daily /\ minutes \subseteq minutes'
        BY <2>1, <2>3, <4>1 DEF Store, IInv
      <4>4. QED
        BY <4>2, <4>3 DEF Sheltered
    <3>3. QED
      BY <3>1, <3>2
  <2>4. QED
    BY <2>2, <2>3 DEF IInv
<1>2. CASE RollDay
  <2>1. ASSUME NEW u \in stored' \ excused', Sheltered(u), days[u] \in Nat
        PROVE  /\ days[u] > 1 /\ u \in daily => u \in daily'
               /\ days[u] = 2 => u \in daily'
    BY <1>2, <2>1 DEF RollDay, RollupRange, DayRange, Sheltered, history
  <2>2. /\ UNCHANGED <<settings, skipped, short, excused, stored>>
        /\ job' = job /\ days' = days /\ minutes' = minutes
    BY <1>2 DEF RollDay, history
  <2>3. QED
    BY <2>1, <2>2, ShelterKept DEF Sheltered
<1>3. CASE RollHour
  <2>1. /\ UNCHANGED <<settings, skipped, short, excused, stored>>
        /\ job' = job /\ days' = days /\ minutes' = minutes /\ daily' = daily /\ due' = due
    BY <1>3 DEF RollHour, history
  <2>2. QED
    BY <2>1, ShelterKept DEF Sheltered
<1>4. CASE CleanMinutes
  <2>1. /\ UNCHANGED <<settings, skipped, short, excused, stored>>
        /\ job' = job /\ days' = days /\ daily' = daily /\ due' = due
        /\ minutes' = minutes \ Expired
    BY <1>4 DEF CleanMinutes, history
  <2>2. ASSUME NEW u \in Unit, job.detail >= 3, days[u] \in Nat, days[u] <= 2
        PROVE  u \notin Expired
    BY <2>2, <1>b DEF Expired, Older
  <2>3. QED
    BY <2>1, <2>2, ShelterKept DEF Sheltered
<1>5. CASE CleanRollups
  <2>1. /\ UNCHANGED <<settings, skipped, short, minutes, due>>
        /\ job' = settings
    BY <1>5 DEF CleanRollups
  <2>2. stored' \ excused' \subseteq stored \ excused
    BY <1>5 DEF CleanRollups, DeleteDays
  <2>3. ASSUME NEW u \in stored' \ excused', u \in Unit
        PROVE  days'[u] = days[u] /\ (u \in daily => u \in daily')
    BY <1>5, <2>3 DEF CleanRollups, DeleteDays
  <2>4. QED
    BY <2>1, <2>2, <2>3, ShelterKept DEF Sheltered
<1>6. CASE CleanupFails
  <2>1. UNCHANGED <<settings, skipped, short, due>> /\ job' = settings
    BY <1>6 DEF CleanupFails
  <2>2. CASE UNCHANGED <<days, at, stored, daily, excused>> /\ minutes \ minutes' \subseteq Expired
    <3>1. ASSUME NEW u \in Unit, job.detail >= 3, days[u] \in Nat, days[u] <= 2
          PROVE  u \notin Expired
      BY <3>1, <1>b DEF Expired, Older
    <3>2. QED
      BY <2>1, <2>2, <3>1, ShelterKept DEF Sheltered
  <2>3. ASSUME NEW units \in SUBSET stored, DeleteDays(units), minutes' = minutes
        PROVE  IInv'
    <3>1. stored' \ excused' \subseteq stored \ excused
      BY <2>3 DEF DeleteDays
    <3>2. ASSUME NEW u \in stored' \ excused', u \in Unit
          PROVE  days'[u] = days[u] /\ (u \in daily => u \in daily')
      BY <2>3, <3>2 DEF DeleteDays
    <3>3. QED
      BY <2>1, <2>3, <3>1, <3>2, ShelterKept DEF Sheltered
  <2>4. QED
    BY <1>6, <2>2, <2>3, FailsAt
<1>7. CASE \E s \in Retention : UpdateRetention(s)
  <2>1. PICK s \in Retention : UpdateRetention(s)
    BY <1>7
  <2>2. UNCHANGED <<days, stored, minutes, daily, due, excused, skipped>>
    BY <2>1 DEF UpdateRetention, tables
  <2>3. settings' = s /\ job' \in {s, job} /\ (~short' => ~short /\ ~Short(s))
    BY <2>1, Zenon DEF UpdateRetention
  <2>4. ~short' => settings'.detail >= 3 /\ job'.detail >= 3
    BY <2>3, <1>a DEF IInv, Short
  <2>5. QED
    BY <2>2, <2>3, <2>4 DEF IInv, Sheltered
<1>8. CASE Elapse
  <2>1. UNCHANGED <<stored, minutes, daily, job, settings, excused, short>>
    BY <1>8 DEF Elapse, tables
  <2>2. ~skipped' => ~skipped
    BY <1>8, Zenon DEF Elapse
  <2>3. ASSUME ~skipped', ~short', NEW u \in stored' \ excused' PROVE Sheltered(u)'
    <3>1. u \in Unit /\ u \in stored /\ Sheltered(u) /\ days[u] \in 0..MaxDays
      BY <2>1, <2>2, <2>3 DEF TypeOK, IInv
    <3>2. CASE hour + 1 < DayLen
      <4>1. days' = days /\ due' = due
        BY <1>8, <3>2 DEF Elapse
      <4>2. QED
        BY <2>1, <3>1, <4>1 DEF Sheltered
    <3>3. CASE ~(hour + 1 < DayLen)
      <4>1. due' = TRUE /\ ~due
        BY <1>8, <2>3, <3>3, Zenon DEF Elapse
      <4>2. days'[u] = IF days[u] < MaxDays THEN days[u] + 1 ELSE days[u]
        BY <1>8, <3>1, <3>3 DEF Elapse
      <4>3. QED
        BY <2>1, <3>1, <4>1, <4>2, RollupsAssumption DEF Sheltered
    <3>4. QED
      BY <3>2, <3>3
  <2>4. QED
    BY <2>1, <2>3 DEF IInv
<1>9. CASE UNCHANGED vars
  BY <1>9 DEF vars, tables, history, IInv, Sheltered
<1>10. QED
  BY <1>1, <1>2, <1>3, <1>4, <1>5, <1>6, <1>7, <1>8, <1>9 DEF Next

LEMMA Invariance == Spec => [](TypeOK /\ IInv)
<1>1. Init => IInv
  <2> SUFFICES ASSUME Init PROVE IInv
    OBVIOUS
  <2>1. ~short => ~Short(settings)
    BY Zenon DEF Init
  <2>2. settings \in Retention /\ job = settings /\ stored = {}
    BY DEF Init
  <2>3. QED
    BY <2>1, <2>2, RollupsAssumption DEF IInv, Short
<1>2. QED
  BY <1>1, TypeInvariant, Inductive, PTL DEF Spec

\* Every unit is in the minutes or in its day's total, for any number of units,
\* nodes, hours and settings (main.go:166-179 of the server).
THEOREM NoUnitLost == Spec => []Counted
<1>1. TypeOK /\ IInv => Counted
  <2> SUFFICES ASSUME TypeOK, IInv, ~skipped, ~short, NEW u \in stored \ excused
               PROVE  u \in minutes \cup daily
    BY DEF Counted
  <2>1. Sheltered(u) /\ days[u] \in Int
    BY RollupsAssumption DEF TypeOK, IInv
  <2>2. QED
    BY <2>1 DEF Sheltered
<1>2. QED
  BY <1>1, Invariance, PTL

\* A unit leaves the hours' totals only when its day's total has it
\* (rollup/service.go:34-59, retention/service.go:78).
THEOREM HoursGoIntoDays == Spec => HoursKept
<1>1. TypeOK /\ IInv /\ [Next]_vars =>
        [~skipped /\ ~short => hourly \ hourly' \subseteq daily \cup excused]_vars
  <2> SUFFICES ASSUME TypeOK, IInv, Next, ~skipped, ~short,
                      NEW u \in hourly, u \notin hourly', u \notin excused
               PROVE  u \in daily
    OBVIOUS
  <2>1. Sheltered(u) /\ days[u] \in Nat /\ u \in stored
    BY RollupsAssumption DEF TypeOK, IInv
  <2>2. SUFFICES u \notin minutes \/ days[u] >= 3
    BY <2>1 DEF Sheltered
  <2>3. job.detail \in Nat /\ job.detail >= 3 /\ hour \in Nat
    BY RollupsAssumption DEF TypeOK, IInv
  <2>4. CASE RollHour
    BY <2>4 DEF RollHour, RollupRange
  <2>5. CASE CleanRollups \/ CleanupFails
    <3>1. u \notin KeptHours
      BY <2>5, FailsAt DEF CleanRollups
    <3>2. QED
      BY <3>1, <2>1, <2>3 DEF KeptHours, Older
  <2>6. CASE hourly' = hourly
    BY <2>6
  <2>7. QED
    BY <2>4, <2>5, <2>6
    DEF Next, Store, RollDay, CleanMinutes, UpdateRetention, Elapse, tables
<1>2. QED
  BY <1>1, Invariance, PTL DEF Spec, HoursKept

=============================================================================

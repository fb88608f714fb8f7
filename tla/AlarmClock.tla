----------------------------- MODULE AlarmClock -----------------------------
(***************************************************************************)
(* The time of day the controller keeps (struct TimeSpec time in           *)
(* src/avr/src/main.c), the opening time in the EEPROM (util.c) and the    *)
(* timer interrupt that compares them, against the real time of day.       *)
(*                                                                         *)
(* The interrupt counts the clock on and runs between any two assignments  *)
(* of the main program: handle_time() stores a DCF77 answer field by       *)
(* field, opentime_set() writes two EEPROM bytes.  One such operation      *)
(* takes far less than a second: TicksInside bounds the interrupts during  *)
(* it.                                                                     *)
(*                                                                         *)
(* A minute has SEC seconds, an hour MIN minutes, a day HRS hours.  The    *)
(* real time is part of the environment; the crystal may lose up to MaxLag *)
(* seconds against it.                                                     *)
(***************************************************************************)
EXTENDS Naturals

CONSTANTS SEC, MIN, HRS,   \* 60, 60, 24
          NoOpen,          \* the hour that means "do not open" (25)
          Erased,          \* an EEPROM byte never written (255)
          OpenTimes,       \* arguments opentime_set can come with
          MaxSyncs,        \* bound: answers of the ESP8266 that are stored
          MaxLag,          \* bound: seconds the crystal loses
          TicksInside      \* bound: interrupts during one operation

ASSUME ClockAssumption ==
    /\ SEC \in Nat \ {0} /\ MIN \in Nat \ {0} /\ HRS \in Nat \ {0}
    /\ NoOpen \in Nat /\ NoOpen >= HRS
    /\ Erased \in Nat /\ Erased > NoOpen /\ Erased >= MIN
    /\ OpenTimes \subseteq Nat \X Nat
    /\ MaxSyncs \in Nat /\ MaxLag \in Nat /\ TicksInside \in Nat

VARIABLES
    pc,                         \* which assignment of which operation is next
    ticks,                      \* interrupts since the operation began
    seconds, minutes, hours,    \* time
    time_correct,
    eeprom_hours, eeprom_minutes,
    args,                       \* arguments or answer of the operation
    real,                       \* the real time in seconds since midnight
    syncs, lag,                 \* how often, how far
    opentime,                   \* the opening time last acknowledged (ots_ok)
    fired,                      \* has the alarm come since the real midnight?
    exact,                      \* did no interrupt hit the last update?
    steady,                     \* exact clock at the real midnight, and opening
                                \* time unchanged since?
    synced                      \* an update since the real midnight?

clock == <<seconds, minutes, hours>>
eeprom == <<eeprom_hours, eeprom_minutes>>
world == <<real, syncs, lag>>
ghosts == <<opentime, fired, exact, steady, synced>>

vars == <<pc, ticks, clock, time_correct, eeprom, args, world, ghosts>>

Day == SEC * MIN * HRS

\* <<hours, minutes, seconds>> of a second of the day, and back.
Fields(t) == <<t \div (SEC * MIN), (t \div SEC) % MIN, t % SEC>>
SecondOfDay(h, m, s) == (h * MIN + m) * SEC + s

-----------------------------------------------------------------------------
Init ==
    /\ pc = "idle" /\ ticks = 0
    /\ seconds = 0 /\ minutes = 0 /\ hours = 0 /\ time_correct = FALSE
    /\ \/ eeprom_hours = Erased /\ eeprom_minutes = Erased
       \/ eeprom_hours = NoOpen /\ eeprom_minutes = 0
    /\ args = <<0, 0, 0>>
    /\ real \in 0 .. Day - 1
    /\ syncs = 0 /\ lag = 0
    /\ opentime = <<eeprom_hours, eeprom_minutes>>
    /\ fired = FALSE /\ exact = FALSE /\ steady = FALSE /\ synced = FALSE

-----------------------------------------------------------------------------
(* The timer interrupt *)

\* Mutant of Carries: > instead of >=.
CarriesLate(value, limit) == value + 1 > limit

\* ++field >= limit: the next value, and whether it carries.
Carries(value, limit) == value + 1 >= limit
Counted(value, limit) == IF Carries(value, limit) THEN 0 ELSE value + 1

CountClock ==
    /\ seconds' = Counted(seconds, SEC)
    /\ minutes' = IF Carries(seconds, SEC) THEN Counted(minutes, MIN) ELSE minutes
    /\ hours' = IF Carries(seconds, SEC) /\ Carries(minutes, MIN)
                THEN Counted(hours, HRS) ELSE hours

\* Mutant of Alarm: it is looked for in every second of the minute.
AlarmEverySecond ==
    /\ time_correct
    /\ eeprom_hours # NoOpen
    /\ hours' = eeprom_hours
    /\ minutes' = eeprom_minutes

\* Once a minute the interrupt compares the new time with the opening time.
Alarm ==
    /\ time_correct
    /\ seconds' = 0
    /\ eeprom_hours # NoOpen
    /\ hours' = eeprom_hours
    /\ minutes' = eeprom_minutes

\* A second of real time; at midnight a new day is accounted for.
RealSecond(alarm) ==
    /\ real' = (real + 1) % Day
    /\ fired' = (alarm \/ (fired /\ real' # 0))
    /\ steady' = IF real' = 0 THEN exact /\ pc = "idle" ELSE steady
    /\ synced' = (synced /\ real' # 0)

\* ISR(TIMER0_OVF_vect)
Tick ==
    /\ pc # "idle" => ticks < TicksInside
    /\ ticks' = IF pc = "idle" THEN 0 ELSE ticks + 1
    /\ CountClock
    /\ RealSecond(Alarm)
    /\ UNCHANGED <<pc, time_correct, eeprom, args, syncs, lag, opentime, exact>>

\* The crystal is slow: a second passes without an interrupt.
Lag ==
    /\ pc = "idle" /\ lag < MaxLag
    /\ lag' = lag + 1
    /\ RealSecond(FALSE)
    /\ UNCHANGED <<pc, ticks, clock, time_correct, eeprom, args, syncs, opentime,
                   exact>>

-----------------------------------------------------------------------------
(* handle_time(): an answer that passes the checks is stored *)

Step(from, to) == pc = from /\ pc' = to

SyncBegin ==
    /\ Step("idle", "sync_seconds")
    /\ syncs < MaxSyncs
    /\ syncs' = syncs + 1
    /\ args' = Fields(real)
    /\ ticks' = 0
    /\ synced' = TRUE
    /\ UNCHANGED <<clock, time_correct, eeprom, real, lag, opentime, fired, exact,
                   steady>>

SyncSeconds ==
    /\ Step("sync_seconds", "sync_minutes")
    /\ seconds' = args[3]
    /\ UNCHANGED <<ticks, minutes, hours, time_correct, eeprom, args,
                   world, ghosts>>

\* Mutant of SyncMinutes: the answer is read one minute ahead.
SyncMinutesAhead ==
    /\ Step("sync_minutes", "sync_hours")
    /\ minutes' = (args[2] + 1) % MIN
    /\ UNCHANGED <<ticks, seconds, hours, time_correct, eeprom, args, world, ghosts>>

SyncMinutes ==
    /\ Step("sync_minutes", "sync_hours")
    /\ minutes' = args[2]
    /\ UNCHANGED <<ticks, seconds, hours, time_correct, eeprom, args,
                   world, ghosts>>

SyncHours ==
    /\ Step("sync_hours", "sync_correct")
    /\ hours' = args[1]
    /\ UNCHANGED <<ticks, seconds, minutes, time_correct, eeprom, args,
                   world, ghosts>>

\* date, month, year, dow are only displayed; then time_correct = true.
SyncCorrect ==
    /\ Step("sync_correct", "idle")
    /\ time_correct' = TRUE
    /\ exact' = (ticks = 0)
    /\ ticks' = 0
    /\ UNCHANGED <<clock, eeprom, args, world, opentime, fired, steady, synced>>

-----------------------------------------------------------------------------
(* The command opentime_set *)

\* Mutant of Accepted: the minutes are not checked.
AcceptedAnyMinute(h, m) == h <= NoOpen

\* The range check of the command; NoOpen itself is accepted.
Accepted(h, m) == h <= NoOpen /\ m < MIN

OpentimeSet ==
    /\ Step("idle", "set_hours")
    /\ \E t \in OpenTimes : Accepted(t[1], t[2]) /\ args' = <<t[1], t[2], 0>>
    /\ ticks' = 0
    /\ steady' = FALSE
    /\ UNCHANGED <<clock, time_correct, eeprom, world, opentime, fired, exact,
                   synced>>

SetHours ==
    /\ Step("set_hours", "set_minutes")
    /\ eeprom_hours' = args[1]
    /\ UNCHANGED <<ticks, clock, time_correct, eeprom_minutes, args,
                   world, ghosts>>

\* Mutant of SetMinutes: the second byte goes to the address of the first.
SetMinutesSameAddress ==
    /\ Step("set_minutes", "idle")
    /\ eeprom_hours' = args[2]
    /\ opentime' = <<args[1], args[2]>>
    /\ ticks' = 0
    /\ UNCHANGED <<clock, time_correct, eeprom_minutes, args, world, fired, exact,
                   steady, synced>>

\* The second byte, then the answer ots_ok.
SetMinutes ==
    /\ Step("set_minutes", "idle")
    /\ eeprom_minutes' = args[2]
    /\ opentime' = <<args[1], args[2]>>
    /\ ticks' = 0
    /\ UNCHANGED <<clock, time_correct, eeprom_hours, args, world, fired, exact,
                   steady, synced>>

-----------------------------------------------------------------------------
Next ==
    \/ Tick \/ Lag
    \/ SyncBegin \/ SyncSeconds \/ SyncMinutes \/ SyncHours \/ SyncCorrect
    \/ OpentimeSet \/ SetHours \/ SetMinutes

Spec == Init /\ [][Next]_vars

-----------------------------------------------------------------------------
(* Properties *)

\* The clock shows a time of day in every state, also halfway through an
\* update, and the EEPROM holds an acceptable opening time or none.
TypeOK ==
    /\ pc \in {"idle", "sync_seconds", "sync_minutes", "sync_hours",
               "sync_correct", "set_hours", "set_minutes"}
    /\ ticks \in 0 .. TicksInside
    /\ seconds \in 0 .. SEC - 1 /\ minutes \in 0 .. MIN - 1
    /\ hours \in 0 .. HRS - 1
    /\ time_correct \in BOOLEAN
    /\ eeprom_hours \in 0 .. NoOpen \cup {Erased}
    /\ eeprom_minutes \in 0 .. MIN - 1 \cup {Erased}
    /\ real \in 0 .. Day - 1
    /\ syncs \in 0 .. MaxSyncs /\ lag \in 0 .. MaxLag
    /\ fired \in BOOLEAN /\ exact \in BOOLEAN /\ steady \in BOOLEAN
    /\ synced \in BOOLEAN

\* An enabled opening time is one of the day.
Enabled == eeprom_hours < HRS /\ eeprom_minutes < MIN

\* With an exact clock at midnight, an opening time left alone and no update
\* of the clock, no day ends without its alarm.
MorningNotMissed ==
    [][real' = 0 /\ real # 0 /\ steady /\ ~synced /\ Enabled => fired]_vars

\* ... and none has two.
AlarmOncePerDay ==
    [][Tick /\ Alarm /\ steady /\ ~synced /\ real' # 0 => ~fired]_vars

\* Once NoOpen is acknowledged no alarm comes until the hour of another opening
\* time is stored.
DisabledNeverFires ==
    [][opentime[1] = NoOpen /\ pc # "set_minutes" => ~(Tick /\ Alarm)]_vars

\* An interrupt in the middle of an update may cost a second, a minute or an
\* hour, but the updated clock is never ahead of the DCF77 time.
SyncNeverAhead ==
    pc = "sync_correct" =>
        \E late \in 0 .. SEC * MIN :
            (SecondOfDay(hours, minutes, seconds) + late) % Day
                = (SecondOfDay(args[1], args[2], args[3]) + ticks) % Day
=============================================================================

------------------------- MODULE AlarmClockProofs -------------------------
(***************************************************************************)
(* Theorems about AlarmClock, for every length of a minute, an hour and a  *)
(* day, every set of opening times and any number of interrupts between    *)
(* two assignments: the types, that a disabled door stays closed, and that *)
(* the door is not opened twice on one day.                                *)
(***************************************************************************)
EXTENDS AlarmClock, TLAPS

Hours == 0 .. HRS - 1
Minutes == 0 .. MIN - 1
Seconds == 0 .. SEC - 1

-----------------------------------------------------------------------------
(* Arithmetic of the clock *)

\* The quotient by a divisor stays below n if the dividend is below n times
\* the divisor.
LEMMA QuotientRange ==
    ASSUME NEW a \in Nat \ {0}, NEW n \in Nat \ {0}, NEW t \in Nat, t < a * n
    PROVE  t \div a \in 0 .. n - 1
  OBVIOUS

\* A remainder stays below the divisor.
LEMMA RemainderRange ==
    ASSUME NEW a \in Nat \ {0}, NEW t \in Nat
    PROVE  t % a \in 0 .. a - 1
  OBVIOUS

\* Products of the lengths are natural numbers and not zero.
LEMMA Lengths ==
    /\ SEC \in Nat \ {0} /\ MIN \in Nat \ {0} /\ HRS \in Nat \ {0}
    /\ SEC * MIN \in Nat \ {0} /\ Day \in Nat \ {0}
    /\ Day = (SEC * MIN) * HRS
  BY ClockAssumption DEF Day

\* A second of the day has an hour, a minute and a second.
LEMMA FieldsRange ==
    ASSUME NEW t \in 0 .. Day - 1
    PROVE  Fields(t) \in Hours \X Minutes \X Seconds
  <1>1. t \in Nat /\ t < (SEC * MIN) * HRS
    BY Lengths
  <1>2. t \div (SEC * MIN) \in Hours
    BY <1>1, Lengths, QuotientRange DEF Hours
  <1>3. t \div SEC \in Nat
    BY <1>1, Lengths
  <1>4. (t \div SEC) % MIN \in Minutes
    BY <1>3, Lengths, RemainderRange DEF Minutes
  <1>5. t % SEC \in Seconds
    BY <1>1, Lengths, RemainderRange DEF Seconds
  <1> QED BY <1>2, <1>4, <1>5 DEF Fields

\* The time of day lies in the day.
LEMMA SecondRange ==
    ASSUME NEW h \in Hours, NEW m \in Minutes, NEW s \in Seconds
    PROVE  SecondOfDay(h, m, s) \in 0 .. Day - 1
  <1>1. h * MIN + m \in 0 .. HRS * MIN - 1
    <2>1. h * MIN <= (HRS - 1) * MIN
      BY Lengths DEF Hours
    <2> QED BY <2>1, Lengths DEF Hours, Minutes
  <1> DEFINE hm == h * MIN + m
  <1> HIDE DEF hm
  <1>2. hm \in 0 .. HRS * MIN - 1
    BY <1>1 DEF hm
  <1>3. hm * SEC + s \in 0 .. (HRS * MIN) * SEC - 1
    <2> DEFINE n == HRS * MIN
    <2>1. n \in Nat /\ hm <= n - 1 /\ hm \in Nat
      BY <1>2, Lengths
    <2> HIDE DEF n
    <2>2. hm * SEC <= (n - 1) * SEC
      BY <2>1, Lengths
    <2>3. hm * SEC + s \in 0 .. n * SEC - 1
      BY <2>1, <2>2, Lengths DEF Seconds
    <2> QED BY <2>3 DEF n
  <1>4. (HRS * MIN) * SEC = Day
    BY Lengths DEF Day
  <1> QED BY <1>3, <1>4 DEF SecondOfDay, hm

\* A field that does not carry is one more, and one that carries was at its
\* end.
LEMMA CarryRange ==
    ASSUME NEW n \in Nat \ {0}, NEW v \in 0 .. n - 1
    PROVE  /\ Counted(v, n) \in 0 .. n - 1
           /\ Carries(v, n) => v = n - 1 /\ Counted(v, n) = 0
           /\ ~Carries(v, n) => Counted(v, n) = v + 1
  BY DEF Carries, Counted

TimeOK == seconds \in Seconds /\ minutes \in Minutes /\ hours \in Hours
Shown == SecondOfDay(hours, minutes, seconds)

\* The clock stays a clock and goes on by one second of the day.
LEMMA CountOnce ==
    ASSUME TimeOK, CountClock
    PROVE  TimeOK' /\ Shown' = IF Shown = Day - 1 THEN 0 ELSE Shown + 1
  <1>1. TimeOK'
    BY Lengths, CarryRange DEF TimeOK, CountClock, Seconds, Minutes, Hours
  <1>2. Shown' \in 0 .. Day - 1 /\ Shown \in 0 .. Day - 1
    BY <1>1, SecondRange DEF TimeOK, Shown
  <1>3. CASE ~Carries(seconds, SEC)
    <2>1. seconds' = seconds + 1 /\ minutes' = minutes /\ hours' = hours
      BY <1>3, Lengths, CarryRange DEF CountClock, TimeOK, Seconds
    <2>2. Shown' = Shown + 1
      BY <2>1, Lengths DEF Shown, SecondOfDay, TimeOK, Seconds, Minutes, Hours
    <2> QED BY <1>1, <1>2, <2>2, Lengths
  <1>4. CASE Carries(seconds, SEC) /\ ~Carries(minutes, MIN)
    <2>1. /\ seconds = SEC - 1 /\ seconds' = 0
          /\ minutes' = minutes + 1 /\ hours' = hours
      BY <1>4, Lengths, CarryRange DEF CountClock, TimeOK, Seconds, Minutes
    <2>2. Shown' = Shown + 1
      BY <2>1, Lengths DEF Shown, SecondOfDay, TimeOK, Seconds, Minutes, Hours
    <2> QED BY <1>1, <1>2, <2>2, Lengths
  <1>5. CASE Carries(seconds, SEC) /\ Carries(minutes, MIN) /\ ~Carries(hours, HRS)
    <2>1. /\ seconds = SEC - 1 /\ seconds' = 0
          /\ minutes = MIN - 1 /\ minutes' = 0 /\ hours' = hours + 1
      BY <1>5, Lengths, CarryRange DEF CountClock, TimeOK, Seconds, Minutes, Hours
    <2>2. Shown' = Shown + 1
      BY <2>1, Lengths DEF Shown, SecondOfDay, TimeOK, Hours
    <2> QED BY <1>1, <1>2, <2>2, Lengths
  <1>6. CASE Carries(seconds, SEC) /\ Carries(minutes, MIN) /\ Carries(hours, HRS)
    <2>1. /\ seconds = SEC - 1 /\ seconds' = 0
          /\ minutes = MIN - 1 /\ minutes' = 0
          /\ hours = HRS - 1 /\ hours' = 0
      BY <1>6, Lengths, CarryRange DEF CountClock, TimeOK, Seconds, Minutes, Hours
    <2>2. Shown = Day - 1
      BY <2>1, Lengths DEF Shown, SecondOfDay, Day
    <2>3. Shown' = 0
      BY <2>1, Lengths DEF Shown, SecondOfDay
    <2> QED BY <1>1, <2>2, <2>3
  <1> QED BY <1>3, <1>4, <1>5, <1>6

-----------------------------------------------------------------------------
(* Type correctness *)

Syncing == {"sync_seconds", "sync_minutes", "sync_hours", "sync_correct"}
Setting == {"set_hours", "set_minutes"}

\* The operation under way was given a time of day or an acceptable opening
\* time: without it the types are not inductive, because the operation
\* stores what it was given one step after the other.
ArgsOK ==
    /\ pc \in Syncing => args \in Hours \X Minutes \X Seconds
    /\ pc \in Setting => args \in (0 .. NoOpen) \X Minutes \X {0}

TypeInv == TypeOK /\ ArgsOK

\* The variables are in their ranges at the start.
LEMMA TypeInit == Init => TypeInv
  <1> SUFFICES ASSUME Init PROVE TypeInv
    OBVIOUS
  <1>1. /\ ticks \in 0 .. TicksInside
        /\ seconds \in 0 .. SEC - 1 /\ minutes \in 0 .. MIN - 1
        /\ hours \in 0 .. HRS - 1
        /\ eeprom_hours \in 0 .. NoOpen \cup {Erased}
        /\ eeprom_minutes \in 0 .. MIN - 1 \cup {Erased}
        /\ syncs \in 0 .. MaxSyncs /\ lag \in 0 .. MaxLag
    BY ClockAssumption DEF Init
  <1>2. pc = "idle" /\ real \in 0 .. Day - 1
    BY DEF Init
  <1>3. /\ time_correct \in BOOLEAN /\ fired \in BOOLEAN /\ exact \in BOOLEAN
        /\ steady \in BOOLEAN /\ synced \in BOOLEAN
    BY DEF Init
  <1> QED BY <1>1, <1>2, <1>3 DEF TypeInv, TypeOK, ArgsOK, Syncing, Setting

\* The clock part of the types is TimeOK.
LEMMA TypeTime == TypeOK => TimeOK
  BY DEF TypeOK, TimeOK, Hours, Minutes, Seconds

\* A second of real time keeps the real time in the day.
LEMMA RealRange ==
    ASSUME TypeOK, NEW a \in BOOLEAN, RealSecond(a)
    PROVE  /\ real' \in 0 .. Day - 1 /\ fired' \in BOOLEAN
           /\ steady' \in BOOLEAN /\ synced' \in BOOLEAN
           /\ real' = IF real = Day - 1 THEN 0 ELSE real + 1
  <1>1. real' = IF real = Day - 1 THEN 0 ELSE real + 1
    <2>1. real \in 0 .. Day - 1 /\ real' = (real + 1) % Day
      BY DEF TypeOK, RealSecond
    <2>2. CASE real = Day - 1
      BY <2>1, <2>2, Lengths
    <2>3. CASE real # Day - 1
      BY <2>1, <2>3, Lengths
    <2> QED BY <2>2, <2>3
  <1>2. real' \in 0 .. Day - 1
    BY <1>1, Lengths DEF TypeOK
  <1>3. fired' \in BOOLEAN /\ synced' \in BOOLEAN
    BY DEF RealSecond
  <1>4. steady' \in BOOLEAN
    BY DEF RealSecond, TypeOK
  <1> QED BY <1>1, <1>2, <1>3, <1>4

\* The interrupt keeps the types.
LEMMA TypeTick == TypeInv /\ Tick => TypeInv'
  <1> SUFFICES ASSUME TypeInv, Tick PROVE TypeInv'
    OBVIOUS
  <1>1. TimeOK'
    BY TypeTime, CountOnce DEF TypeInv, Tick
  <1>2. /\ real' \in 0 .. Day - 1 /\ fired' \in BOOLEAN
        /\ steady' \in BOOLEAN /\ synced' \in BOOLEAN
    <2>1. Alarm \in BOOLEAN
      BY DEF Alarm
    <2> QED BY <2>1, RealRange DEF TypeInv, Tick
  <1>3. ticks' \in 0 .. TicksInside
    BY ClockAssumption DEF TypeInv, TypeOK, Tick
  <1> QED
    BY <1>1, <1>2, <1>3
    DEF TypeInv, TypeOK, ArgsOK, Tick, TimeOK, Hours, Minutes, Seconds, eeprom

\* Every step keeps the types: one case per action.
LEMMA TypeNext == TypeInv /\ [Next]_vars => TypeInv'
  <1> SUFFICES ASSUME TypeInv, [Next]_vars PROVE TypeInv'
    OBVIOUS
  <1> USE DEF TypeInv, TypeOK, ArgsOK, Syncing, Setting, Step, clock, eeprom,
          world, ghosts
  <1>1. CASE Tick
    BY <1>1, TypeTick
  <1>2. CASE Lag
    <2>1. /\ real' \in 0 .. Day - 1 /\ fired' \in BOOLEAN
          /\ steady' \in BOOLEAN /\ synced' \in BOOLEAN
      BY <1>2, RealRange DEF Lag
    <2>2. lag' \in 0 .. MaxLag
      BY <1>2, ClockAssumption DEF Lag
    <2> QED BY <1>2, <2>1, <2>2 DEF Lag
  <1>3. CASE SyncBegin
    <2>1. args' \in Hours \X Minutes \X Seconds
      BY <1>3, FieldsRange DEF SyncBegin
    <2> QED BY <1>3, <2>1, ClockAssumption DEF SyncBegin
  <1>4. CASE SyncSeconds
    BY <1>4 DEF SyncSeconds, Seconds
  <1>5. CASE SyncMinutes
    BY <1>5 DEF SyncMinutes, Minutes
  <1>6. CASE SyncHours
    BY <1>6 DEF SyncHours, Hours
  <1>7. CASE SyncCorrect
    BY <1>7, ClockAssumption DEF SyncCorrect
  <1>8. CASE OpentimeSet
    <2>1. args' \in (0 .. NoOpen) \X Minutes \X {0}
      BY <1>8, ClockAssumption DEF OpentimeSet, Accepted, Minutes
    <2>2. ticks' \in 0 .. TicksInside
      BY <1>8, ClockAssumption DEF OpentimeSet
    <2>3. steady' \in BOOLEAN
      BY <1>8 DEF OpentimeSet
    <2> QED BY <1>8, <2>1, <2>2, <2>3 DEF OpentimeSet
  <1>9. CASE SetHours
    BY <1>9 DEF SetHours
  <1>10. CASE SetMinutes
    BY <1>10, ClockAssumption DEF SetMinutes, Minutes
  <1>11. CASE UNCHANGED vars
    BY <1>11 DEF vars
  <1> QED
    BY <1>1, <1>2, <1>3, <1>4, <1>5, <1>6, <1>7, <1>8, <1>9, <1>10, <1>11
    DEF Next

\* The types and the arguments of operations, in every reachable state.
LEMMA TypeInvariant == Spec => []TypeInv
  BY TypeInit, TypeNext, PTL DEF Spec

\* The displayed time is a time of day at every moment, also between the
\* assignments of handle_time(), and the EEPROM never holds a byte that
\* opentime_set() was not given (main.c:405-408, util.c:8).
THEOREM TypeCorrect == Spec => []TypeOK
  <1>1. TypeInv => TypeOK
    BY DEF TypeInv
  <1> QED BY <1>1, TypeInvariant, PTL

-----------------------------------------------------------------------------
(* A disabled door stays closed *)

\* The acknowledged NoOpen is in the EEPROM, except while the second byte of
\* another opening time is still missing.
DisabledInv == opentime[1] = NoOpen /\ pc # "set_minutes" => eeprom_hours = NoOpen

\* It is stored before it is acknowledged, so [SetMinutes] needs that the
\* first byte is already that of the arguments.
HoursStored == pc = "set_minutes" => eeprom_hours = args[1]

\* The opening time of the EEPROM is stored at the start.
LEMMA DisabledInit == Init => DisabledInv /\ HoursStored
  BY ClockAssumption DEF Init, DisabledInv, HoursStored

\* The invariant of disabled openings, one case per action.
LEMMA DisabledNext ==
    DisabledInv /\ HoursStored /\ [Next]_vars => (DisabledInv /\ HoursStored)'
  <1> SUFFICES ASSUME DisabledInv, HoursStored, [Next]_vars
               PROVE  DisabledInv' /\ HoursStored'
    OBVIOUS
  <1> USE DEF DisabledInv, HoursStored, Step, clock, eeprom, world, ghosts
  <1>1. CASE Tick \/ Lag
    BY <1>1 DEF Tick, Lag
  <1>2. CASE SyncBegin \/ SyncSeconds \/ SyncMinutes \/ SyncHours \/ SyncCorrect
    BY <1>2 DEF SyncBegin, SyncSeconds, SyncMinutes, SyncHours, SyncCorrect
  <1>3. CASE OpentimeSet
    BY <1>3 DEF OpentimeSet
  <1>4. CASE SetHours
    BY <1>4 DEF SetHours
  <1>5. CASE SetMinutes
    BY <1>5 DEF SetMinutes
  <1>6. CASE UNCHANGED vars
    BY <1>6 DEF vars
  <1> QED BY <1>1, <1>2, <1>3, <1>4, <1>5, <1>6 DEF Next

\* Once NoOpen is acknowledged no alarm comes until the hour of another
\* opening time is stored, wherever the interrupt falls (main.c:573,
\* util.c:8).
THEOREM DisabledStaysClosed == Spec => DisabledNeverFires
  <1>1. DisabledInv =>
          [opentime[1] = NoOpen /\ pc # "set_minutes" => ~(Tick /\ Alarm)]_vars
    BY DEF DisabledInv, Alarm
  <1> QED
    BY <1>1, DisabledInit, DisabledNext, PTL DEF Spec, DisabledNeverFires

-----------------------------------------------------------------------------
(* The door is not opened twice on one day *)

Undisturbed == steady /\ ~synced
Opening == SecondOfDay(eeprom_hours, eeprom_minutes, 0)

\* Between two assignments of an operation a day is not undisturbed any more,
\* so what happens there need not be considered.
QuietDay == Undisturbed => pc = "idle"

\* How far the clock has come since the opening time, over midnight if need
\* be, is no more than what has passed of the real day: a clock that has
\* fired cannot be at the opening time again before the day is over.
FiredPast ==
    fired /\ Undisturbed =>
        /\ Enabled
        /\ Opening <= Shown => Shown - Opening <= real
        /\ Opening > Shown => Shown + Day - Opening <= real

DayInv == QuietDay /\ FiredPast

\* The invariant of the day holds at the start.
LEMMA DayInit == Init => DayInv
  BY DEF Init, DayInv, QuietDay, FiredPast, Undisturbed

\* An alarm comes at the opening time, which is one of the day.
LEMMA AlarmAtOpening ==
    ASSUME TypeInv, Tick, Alarm
    PROVE  Enabled /\ Opening \in 0 .. Day - 1 /\ Shown' = Opening
  <1>1. TimeOK'
    BY TypeTime, CountOnce DEF TypeInv, Tick
  <1>2. /\ hours' = eeprom_hours /\ minutes' = eeprom_minutes /\ seconds' = 0
    BY DEF Alarm
  <1>3. eeprom_hours \in Hours /\ eeprom_minutes \in Minutes /\ 0 \in Seconds
    BY <1>1, <1>2 DEF TimeOK
  <1>4. Enabled
    BY <1>3, Lengths DEF Enabled, Hours, Minutes
  <1> QED BY <1>2, <1>3, <1>4, SecondRange DEF Shown, Opening

\* An enabled opening time is a second of the day.
LEMMA OpeningRange == TypeOK /\ Enabled => Opening \in 0 .. Day - 1
  <1> SUFFICES ASSUME TypeOK, Enabled PROVE Opening \in 0 .. Day - 1
    OBVIOUS
  <1>1. eeprom_hours \in Hours /\ eeprom_minutes \in Minutes /\ 0 \in Seconds
    BY ClockAssumption DEF TypeOK, Enabled, Hours, Minutes, Seconds
  <1> QED BY <1>1, SecondRange DEF Opening

\* A day on which it has fired undisturbed at the end of a second was so at
\* its beginning, or the alarm came just now.
LEMMA FiredBefore ==
    ASSUME TypeOK, NEW a \in BOOLEAN, RealSecond(a), fired', Undisturbed', ~a
    PROVE  fired /\ Undisturbed /\ real' = real + 1
  <1>1. real' # 0 /\ fired
    BY DEF RealSecond
  <1> QED BY <1>1, RealRange DEF RealSecond, Undisturbed, TypeOK

\* The interrupt keeps it: past the opening time the alarm has been.
LEMMA DayTick == TypeInv /\ DayInv /\ Tick => DayInv'
  <1> SUFFICES ASSUME TypeInv, DayInv, Tick PROVE DayInv'
    OBVIOUS
  <1>1. RealSecond(Alarm) /\ Alarm \in BOOLEAN /\ TypeOK /\ TimeOK
    BY TypeTime DEF TypeInv, Tick, Alarm
  <1>2. QuietDay'
    <2>1. steady' /\ ~synced' => pc = "idle"
      BY <1>1 DEF RealSecond, DayInv, QuietDay, Undisturbed, TypeOK
    <2> QED BY <2>1 DEF QuietDay, Undisturbed, Tick
  <1>3. FiredPast'
    <2> SUFFICES ASSUME fired', Undisturbed'
                 PROVE  /\ Enabled'
                        /\ (Opening <= Shown)' => (Shown - Opening <= real)'
                        /\ (Opening > Shown)' => (Shown + Day - Opening <= real)'
      BY DEF FiredPast
    <2>1. Opening' = Opening /\ Enabled' = Enabled
      BY DEF Tick, eeprom, Opening, Enabled
    <2>2. real \in 0 .. Day - 1 /\ real' \in 0 .. Day - 1
      BY <1>1, RealRange DEF TypeOK
    <2>3. CASE Alarm
      BY <2>1, <2>2, <2>3, AlarmAtOpening, Lengths
    <2>4. CASE ~Alarm
      <3>1. fired /\ Undisturbed /\ real' = real + 1
        BY <1>1, <2>4, FiredBefore
      <3>2. Shown \in 0 .. Day - 1 /\ Opening \in 0 .. Day - 1
        BY <1>1, <3>1, OpeningRange, SecondRange
        DEF DayInv, FiredPast, TimeOK, Shown
      <3>3. Shown' = IF Shown = Day - 1 THEN 0 ELSE Shown + 1
        BY <1>1, CountOnce DEF Tick
      <3> QED
        BY <2>1, <2>2, <3>1, <3>2, <3>3, Lengths DEF DayInv, FiredPast
    <2> QED BY <2>3, <2>4
  <1> QED BY <1>2, <1>3 DEF DayInv

\* A lost second moves the real time only.
LEMMA DayLag == TypeInv /\ DayInv /\ Lag => DayInv'
  <1> SUFFICES ASSUME TypeInv, DayInv, Lag PROVE DayInv'
    OBVIOUS
  <1>1. QuietDay'
    BY DEF QuietDay, Lag
  <1>2. FiredPast'
    <2> SUFFICES ASSUME fired', Undisturbed'
                 PROVE  /\ Enabled'
                        /\ (Opening <= Shown)' => (Shown - Opening <= real)'
                        /\ (Opening > Shown)' => (Shown + Day - Opening <= real)'
      BY DEF FiredPast
    <2>1. fired /\ Undisturbed /\ real' = real + 1
      BY FiredBefore DEF Lag, TypeInv
    <2>2. Opening' = Opening /\ Enabled' = Enabled /\ Shown' = Shown
      BY DEF Lag, eeprom, clock, Opening, Enabled, Shown
    <2>3. Shown \in 0 .. Day - 1 /\ Opening \in 0 .. Day - 1 /\ real \in 0 .. Day - 1
      BY <2>1, TypeTime, OpeningRange, SecondRange
      DEF DayInv, FiredPast, TimeOK, Shown, TypeInv, TypeOK
    <2> QED BY <2>1, <2>2, <2>3, Lengths DEF DayInv, FiredPast
  <1> QED BY <1>1, <1>2 DEF DayInv

\* Every step keeps the invariant of the day.
LEMMA DayNext == TypeInv /\ DayInv /\ [Next]_vars => DayInv'
  <1> SUFFICES ASSUME TypeInv, DayInv, [Next]_vars PROVE DayInv'
    OBVIOUS
  <1> USE DEF DayInv, QuietDay, FiredPast, Undisturbed, Enabled, Opening, Shown,
          Step, clock, eeprom, world, ghosts
  <1>1. CASE Tick
    BY <1>1, DayTick
  <1>2. CASE Lag
    BY <1>2, DayLag
  <1>3. CASE SyncBegin \/ OpentimeSet
    BY <1>3 DEF SyncBegin, OpentimeSet
  <1>4. CASE SyncSeconds \/ SyncMinutes \/ SyncHours \/ SyncCorrect
    BY <1>4 DEF SyncSeconds, SyncMinutes, SyncHours, SyncCorrect
  <1>5. CASE SetHours \/ SetMinutes
    BY <1>5 DEF SetHours, SetMinutes
  <1>6. CASE UNCHANGED vars
    BY <1>6 DEF vars
  <1> QED BY <1>1, <1>2, <1>3, <1>4, <1>5, <1>6 DEF Next

\* A second alarm on an undisturbed day would find the clock a whole day
\* past the opening time.
LEMMA NoSecondAlarm ==
    TypeInv /\ DayInv =>
        [Tick /\ Alarm /\ steady /\ ~synced /\ real' # 0 => ~fired]_vars
  <1> SUFFICES ASSUME TypeInv, DayInv, Tick, Alarm, Undisturbed, real' # 0, fired
               PROVE  FALSE
    BY DEF Undisturbed
  <1>1. Opening \in 0 .. Day - 1 /\ Shown' = Opening
    BY AlarmAtOpening
  <1>2. Shown' = IF Shown = Day - 1 THEN 0 ELSE Shown + 1
    BY TypeTime, CountOnce DEF TypeInv, Tick
  <1>3. Shown \in 0 .. Day - 1
    BY TypeTime, SecondRange DEF TypeInv, TimeOK, Shown
  <1>4. real \in 0 .. Day - 1 /\ real < Day - 1
    <2>1. Alarm \in BOOLEAN /\ RealSecond(Alarm)
      BY DEF Alarm, Tick
    <2>2. /\ real \in 0 .. Day - 1
          /\ real' = IF real = Day - 1 THEN 0 ELSE real + 1
      BY <2>1, RealRange DEF TypeInv, TypeOK
    <2> QED BY <2>2, Lengths
  <1> QED BY <1>1, <1>2, <1>3, <1>4, Lengths DEF DayInv, FiredPast

\* On a day that began with an exact clock and on which neither the opening
\* time nor the clock is set, the door is opened at most once, however many
\* seconds the crystal loses (main.c:556-583).
THEOREM OpensOncePerDay == Spec => AlarmOncePerDay
  <1> QED
    BY TypeInvariant, DayInit, DayNext, NoSecondAlarm, PTL
    DEF Spec, AlarmOncePerDay

-----------------------------------------------------------------------------
(* No morning is missed *)

\* A number has one quotient and one remainder.
LEMMA UniqueParts ==
    ASSUME NEW a \in Nat \ {0}, NEW x \in Nat, NEW y \in Nat,
           NEW s \in 0 .. a - 1, NEW t \in 0 .. a - 1, x * a + s = y * a + t
    PROVE  x = y /\ s = t
  <1>1. ~(x < y)
    <2> SUFFICES ASSUME x < y PROVE FALSE
      OBVIOUS
    <2>1. (x + 1) * a <= y * a
      OBVIOUS
    <2> QED BY <2>1
  <1>2. ~(y < x)
    <2> SUFFICES ASSUME y < x PROVE FALSE
      OBVIOUS
    <2>1. (y + 1) * a <= x * a
      OBVIOUS
    <2> QED BY <2>1
  <1> QED BY <1>1, <1>2

\* Quotient and remainder give the number.
LEMMA Division ==
    ASSUME NEW a \in Nat \ {0}, NEW t \in Nat
    PROVE  /\ t \div a \in Nat /\ t % a \in 0 .. a - 1
           /\ t = (t \div a) * a + (t % a)
  OBVIOUS

\* The second of the day of its own fields.
LEMMA FieldsInverse ==
    ASSUME NEW t \in 0 .. Day - 1
    PROVE  SecondOfDay(Fields(t)[1], Fields(t)[2], Fields(t)[3]) = t
  <1>1. PICK u \in Nat, z \in 0 .. SEC - 1 :
            t = u * SEC + z /\ t \div SEC = u /\ t % SEC = z
    BY Lengths, Division
  <1>2. PICK w \in Nat, m \in 0 .. MIN - 1 :
            u = w * MIN + m /\ u \div MIN = w /\ u % MIN = m
    BY <1>1, Lengths, Division
  <1>3. PICK sm \in Nat \ {0} : sm = SEC * MIN
    BY Lengths
  <1>4. PICK v \in Nat, r \in 0 .. sm - 1 :
            t = v * sm + r /\ t \div sm = v
    BY <1>3, Lengths, Division
  <1>5. t = w * sm + (m * SEC + z)
    <2>1. t = (w * MIN + m) * SEC + z
      BY <1>1, <1>2
    <2>2. (w * MIN + m) * SEC + z = w * (SEC * MIN) + (m * SEC + z)
      BY Lengths
    <2> QED BY <1>3, <2>1, <2>2
  <1>6. m * SEC + z \in 0 .. sm - 1
    <2>1. m * SEC <= (MIN - 1) * SEC /\ m * SEC >= 0
      BY Lengths
    <2> QED BY <1>3, <2>1, Lengths
  <1>7. v = w
    BY <1>4, <1>5, <1>6, UniqueParts
  <1>8. Fields(t) = <<w, m, z>>
    BY <1>1, <1>2, <1>3, <1>4, <1>7 DEF Fields
  <1> QED BY <1>1, <1>2, <1>8 DEF SecondOfDay

\* Two times of day in the same second are the same.
LEMMA SecondUnique ==
    ASSUME NEW h \in Hours, NEW m \in Minutes, NEW s \in Seconds,
           NEW k \in Hours, NEW n \in Minutes,
           SecondOfDay(h, m, s) = SecondOfDay(k, n, 0)
    PROVE  h = k /\ m = n /\ s = 0
  <1> DEFINE x == h * MIN + m
             y == k * MIN + n
  <1>1. x \in Nat /\ y \in Nat /\ x * SEC + s = y * SEC + 0
    BY Lengths DEF Hours, Minutes, SecondOfDay
  <1>2. s \in 0 .. SEC - 1 /\ 0 \in 0 .. SEC - 1 /\ SEC \in Nat \ {0}
    BY Lengths DEF Seconds
  <1> HIDE DEF x, y
  <1>3. x = y /\ s = 0
    BY <1>1, <1>2, UniqueParts
  <1>4. h * MIN + m = k * MIN + n
    BY <1>3 DEF x, y
  <1>5. h \in Nat /\ k \in Nat /\ m \in 0 .. MIN - 1 /\ n \in 0 .. MIN - 1
    BY Lengths DEF Hours, Minutes
  <1>6. h = k /\ m = n
    BY <1>4, <1>5, Lengths, UniqueParts
  <1> QED BY <1>3, <1>6

\* By how much the clock is behind the real time.
Behind == IF Shown <= real THEN real - Shown ELSE real + Day - Shown

\* An update without an interrupt sets the clock to the real time, field by
\* field ...
SyncExact ==
    pc \in Syncing /\ ticks = 0 =>
        /\ args = Fields(real)
        /\ pc \in {"sync_minutes", "sync_hours", "sync_correct"} => seconds = args[3]
        /\ pc \in {"sync_hours", "sync_correct"} => minutes = args[2]
        /\ pc = "sync_correct" => hours = args[1]

\* ... and then it is behind by no more than the crystal has lost.
ClockClose == exact /\ pc \notin Syncing => Behind <= lag

ExactCorrect == exact => time_correct

\* A clock that has not fired has not reached the opening time, or it still
\* shows yesterday.
NotYet == Undisturbed /\ Enabled /\ ~fired => Shown < Opening \/ Shown > real

\* A day that began with an exact clock still has one.
SteadyExact == Undisturbed => exact

MorningInv == SyncExact /\ ClockClose /\ ExactCorrect /\ NotYet /\ SteadyExact

\* The invariant of the morning holds at the start.
LEMMA MorningInit == Init => MorningInv
  BY DEF Init, MorningInv, SyncExact, ClockClose, ExactCorrect, NotYet,
     SteadyExact, Undisturbed, Syncing

\* The clock and the real time are seconds of the day.
LEMMA ShownRange == TypeInv => Shown \in 0 .. Day - 1 /\ real \in 0 .. Day - 1
  BY TypeTime, SecondRange DEF TypeInv, TimeOK, Shown, TypeOK

\* The clock goes with the real time, or falls back by the second that is
\* lost.
LEMMA BehindTick ==
    ASSUME TypeInv, Tick
    PROVE  Behind' = Behind
  <1>1. RealSecond(Alarm) /\ Alarm \in BOOLEAN /\ TypeOK /\ TimeOK
    BY TypeTime DEF TypeInv, Tick, Alarm
  <1>2. Shown' = IF Shown = Day - 1 THEN 0 ELSE Shown + 1
    BY <1>1, CountOnce DEF Tick
  <1>3. real' = IF real = Day - 1 THEN 0 ELSE real + 1
    BY <1>1, RealRange
  <1> QED BY <1>2, <1>3, ShownRange, Lengths DEF Behind

\* A lost second leaves the clock one more second behind.
LEMMA BehindLag ==
    ASSUME TypeInv, Lag
    PROVE  Behind' <= Behind + 1
  <1>1. Shown' = Shown
    BY DEF Lag, clock, Shown
  <1>2. real' = IF real = Day - 1 THEN 0 ELSE real + 1
    BY RealRange DEF Lag, TypeInv
  <1> QED BY <1>1, <1>2, ShownRange, Lengths DEF Behind

\* A clock that counts on to an enabled opening time gives the alarm.
LEMMA OpeningAlarms ==
    ASSUME TypeInv, Tick, time_correct, Enabled, Shown' = Opening
    PROVE  Alarm
  <1>1. TimeOK'
    BY TypeTime, CountOnce DEF TypeInv, Tick
  <1>2. eeprom_hours \in Hours /\ eeprom_minutes \in Minutes
    BY ClockAssumption DEF TypeInv, TypeOK, Enabled, Hours, Minutes
  <1>3. hours' = eeprom_hours /\ minutes' = eeprom_minutes /\ seconds' = 0
    BY <1>1, <1>2, SecondUnique DEF TimeOK, Shown, Opening
  <1>4. eeprom_hours # NoOpen
    BY ClockAssumption DEF TypeInv, TypeOK, Enabled
  <1> QED BY <1>3, <1>4 DEF Alarm

\* The crystal loses less than a minute: a clock that is slower has not
\* reached an opening time in the last minute of the day when it is over.
Precise == MaxLag < SEC

\* The interrupt keeps the invariant of the morning.
LEMMA MorningTick ==
    ASSUME Precise, TypeInv, DayInv, MorningInv, Tick
    PROVE  MorningInv'
  <1>1. RealSecond(Alarm) /\ Alarm \in BOOLEAN /\ TypeOK /\ TimeOK
    BY TypeTime DEF TypeInv, Tick, Alarm
  <1>2. /\ Shown' = IF Shown = Day - 1 THEN 0 ELSE Shown + 1
        /\ real' = IF real = Day - 1 THEN 0 ELSE real + 1
        /\ Shown \in 0 .. Day - 1 /\ real \in 0 .. Day - 1
    BY <1>1, CountOnce, RealRange, ShownRange DEF Tick, TypeInv
  <1>3. SyncExact'
    <2>1. pc' \in Syncing => ticks' # 0
      BY DEF Tick, TypeInv, TypeOK, Syncing
    <2> QED BY <2>1 DEF SyncExact
  <1>4. ClockClose'
    BY BehindTick DEF MorningInv, ClockClose, Tick
  <1>5. ExactCorrect'
    BY DEF MorningInv, ExactCorrect, Tick
  <1>6. SteadyExact'
    BY <1>1 DEF MorningInv, SteadyExact, Undisturbed, Tick, RealSecond, DayInv,
       QuietDay
  <1>7. NotYet'
    <2> SUFFICES ASSUME Undisturbed', Enabled', ~fired'
                 PROVE  (Shown < Opening \/ Shown > real)'
      BY DEF NotYet
    <2>1. Opening' = Opening /\ Enabled
      BY DEF Tick, eeprom, Opening, Enabled
    <2>2. Opening \in 0 .. Day - 1
      BY <2>1, OpeningRange DEF TypeInv
    <2>3. ~Alarm /\ exact'
      BY <1>6 DEF Tick, RealSecond, SteadyExact
    <2>4. time_correct /\ exact
      BY <2>3 DEF Tick, MorningInv, ExactCorrect
    <2>5. Shown' # Opening
      BY <2>1, <2>3, <2>4, OpeningAlarms
    <2>6. CASE real' = 0
      BY <1>2, <2>1, <2>2, <2>5, <2>6, Lengths
    <2>7. CASE real' # 0
      <3>1. Undisturbed /\ ~fired
        BY <1>1, <2>7 DEF RealSecond, Undisturbed
      <3>2. Shown < Opening \/ Shown > real
        BY <2>1, <3>1 DEF MorningInv, NotYet
      <3> QED BY <1>2, <2>1, <2>2, <2>5, <2>7, <3>2, Lengths
    <2> QED BY <2>6, <2>7
  <1> QED BY <1>3, <1>4, <1>5, <1>6, <1>7 DEF MorningInv

\* A lost second keeps it while the clock stays in its bound.
LEMMA MorningLag ==
    ASSUME Precise, TypeInv, DayInv, MorningInv, Lag
    PROVE  MorningInv'
  <1>1. RealSecond(FALSE) /\ TypeOK
    BY DEF TypeInv, Lag
  <1>2. /\ Shown' = Shown
        /\ real' = IF real = Day - 1 THEN 0 ELSE real + 1
        /\ Shown \in 0 .. Day - 1 /\ real \in 0 .. Day - 1
    BY <1>1, RealRange, ShownRange DEF Lag, clock, Shown, TypeInv
  <1>3. SyncExact' /\ ExactCorrect' /\ pc = "idle" /\ pc \notin Syncing
    BY DEF Lag, MorningInv, SyncExact, ExactCorrect, Syncing
  <1>4. lag \in Nat /\ lag' = lag + 1 /\ lag' <= MaxLag /\ MaxLag \in Nat
    BY ClockAssumption DEF Lag, TypeInv, TypeOK
  <1>5. ClockClose'
    <2>1. Behind \in Nat /\ Behind' \in Nat
      BY <1>2, Lengths DEF Behind
    <2>2. exact => Behind <= lag
      BY <1>3 DEF MorningInv, ClockClose
    <2> QED BY <1>4, <2>1, <2>2, BehindLag DEF ClockClose, Lag
  <1>6. SteadyExact'
    BY <1>1 DEF MorningInv, SteadyExact, Undisturbed, Lag, RealSecond, DayInv,
       QuietDay
  <1>7. NotYet'
    <2> SUFFICES ASSUME Undisturbed', Enabled', ~fired'
                 PROVE  (Shown < Opening \/ Shown > real)'
      BY DEF NotYet
    <2>1. Opening' = Opening /\ Enabled
      BY DEF Lag, eeprom, Opening, Enabled
    <2>2. Opening \in 0 .. Day - 1
      BY <2>1, OpeningRange DEF TypeInv
    <2>3. exact /\ Behind <= lag
      BY <1>3, <1>6 DEF Lag, SteadyExact, MorningInv, ClockClose
    <2>4. SEC <= Day
      BY Lengths DEF Day
    <2>5. CASE real' = 0
      BY <1>2, <1>4, <2>3, <2>4, <2>5, Lengths DEF Behind, Precise
    <2>6. CASE real' # 0
      <3>1. Undisturbed /\ ~fired
        BY <1>1, <2>6 DEF RealSecond, Undisturbed
      <3>2. Shown < Opening \/ Shown > real
        BY <2>1, <3>1 DEF MorningInv, NotYet
      <3> QED
        BY <1>2, <1>4, <2>1, <2>2, <2>3, <2>4, <2>6, <3>2, Lengths
        DEF Behind, Precise
    <2> QED BY <2>5, <2>6
  <1> QED BY <1>3, <1>5, <1>6, <1>7 DEF MorningInv

\* An update that no interrupt hits ends with the real time.
LEMMA SyncedClose ==
    ASSUME TypeInv, MorningInv, SyncCorrect, ticks = 0
    PROVE  Behind = 0
  <1>1. /\ args = Fields(real) /\ real \in 0 .. Day - 1
        /\ seconds = args[3] /\ minutes = args[2] /\ hours = args[1]
    BY DEF MorningInv, SyncExact, SyncCorrect, Step, Syncing, TypeInv, TypeOK
  <1>2. Shown = real
    BY <1>1, FieldsInverse DEF Shown
  <1> QED BY <1>1, <1>2, Lengths DEF Behind

\* Every step keeps it, one case per action.
LEMMA MorningNext ==
    ASSUME Precise, TypeInv, DayInv, MorningInv, [Next]_vars
    PROVE  MorningInv'
  <1> USE DEF Step, clock, eeprom, world, ghosts
  <1>1. CASE Tick
    BY <1>1, MorningTick
  <1>2. CASE Lag
    BY <1>2, MorningLag
  <1>3. CASE SyncBegin
    BY <1>3
    DEF SyncBegin, MorningInv, SyncExact, ClockClose, ExactCorrect, NotYet,
        SteadyExact, Undisturbed, Syncing
  <1>4. CASE SyncSeconds \/ SyncMinutes \/ SyncHours
    <2>1. SyncExact' /\ ClockClose'
      BY <1>4 DEF SyncSeconds, SyncMinutes, SyncHours, MorningInv, SyncExact,
         ClockClose, Syncing
    <2>2. ~Undisturbed'
      BY <1>4 DEF SyncSeconds, SyncMinutes, SyncHours, DayInv, QuietDay, Undisturbed
    <2>3. ExactCorrect'
      BY <1>4 DEF SyncSeconds, SyncMinutes, SyncHours, MorningInv, ExactCorrect
    <2> QED BY <2>1, <2>2, <2>3 DEF MorningInv, NotYet, SteadyExact
  <1>5. CASE SyncCorrect
    <2>1. ~Undisturbed'
      BY <1>5 DEF SyncCorrect, DayInv, QuietDay, Undisturbed
    <2>2. SyncExact' /\ ExactCorrect'
      BY <1>5 DEF SyncCorrect, SyncExact, ExactCorrect, Syncing
    <2>3. ClockClose'
      <3>1. Behind' = Behind /\ lag' = lag /\ lag \in Nat
        BY <1>5, ClockAssumption
        DEF SyncCorrect, Behind, Shown, TypeInv, TypeOK
      <3>2. exact' => Behind = 0
        BY <1>5, SyncedClose DEF SyncCorrect
      <3> QED BY <3>1, <3>2 DEF ClockClose
    <2> QED BY <2>1, <2>2, <2>3 DEF MorningInv, NotYet, SteadyExact
  <1>6. CASE OpentimeSet \/ SetHours \/ SetMinutes
    <2>1. ~Undisturbed'
      BY <1>6 DEF OpentimeSet, SetHours, SetMinutes, DayInv, QuietDay, Undisturbed
    <2>2. SyncExact' /\ ExactCorrect'
      BY <1>6 DEF OpentimeSet, SetHours, SetMinutes, MorningInv, SyncExact,
         ExactCorrect, Syncing
    <2>3. ClockClose'
      BY <1>6 DEF OpentimeSet, SetHours, SetMinutes, MorningInv, ClockClose,
         Behind, Shown, Syncing
    <2> QED BY <2>1, <2>2, <2>3 DEF MorningInv, NotYet, SteadyExact
  <1>7. CASE UNCHANGED vars
    BY <1>7 DEF vars, MorningInv, SyncExact, ClockClose, ExactCorrect, NotYet,
       SteadyExact, Undisturbed, Behind, Shown, Opening, Enabled
  <1> QED BY <1>1, <1>2, <1>3, <1>4, <1>5, <1>6, <1>7 DEF Next

\* At the end of the day a clock that is less than a minute slow has passed
\* every opening time: the last one is at the beginning of the last minute.
LEMMA LastOpening ==
    ASSUME TypeOK, Enabled
    PROVE  Opening <= Day - SEC
  <1>1. PICK h \in Hours, m \in Minutes : h = eeprom_hours /\ m = eeprom_minutes
    BY ClockAssumption DEF TypeOK, Enabled, Hours, Minutes
  <1>2. SEC - 1 \in Seconds
    BY Lengths DEF Seconds
  <1>3. SecondOfDay(h, m, SEC - 1) <= Day - 1
    BY <1>2, SecondRange, Lengths
  <1>4. SecondOfDay(h, m, SEC - 1) = SecondOfDay(h, m, 0) + (SEC - 1)
    BY Lengths DEF SecondOfDay, Hours, Minutes
  <1>5. SecondOfDay(h, m, 0) \in Nat
    BY SecondRange, Lengths DEF Seconds
  <1> QED BY <1>1, <1>3, <1>4, <1>5, Lengths DEF Opening

\* At the end of a quiet day that began right the alarm has been.
LEMMA DayEndsFired ==
    ASSUME Precise, TypeInv, DayInv, MorningInv, [Next]_vars
    PROVE  [real' = 0 /\ real # 0 /\ steady /\ ~synced /\ Enabled => fired]_vars
  <1> SUFFICES ASSUME real' = 0, real # 0, Undisturbed, Enabled, ~fired
               PROVE  FALSE
    BY DEF Undisturbed
  <1>1. real = Day - 1
    <2>1. CASE Tick
      <3>1. RealSecond(Alarm) /\ Alarm \in BOOLEAN
        BY <2>1 DEF Tick, Alarm
      <3> QED BY <3>1, RealRange, ShownRange, Lengths DEF TypeInv
    <2>2. CASE Lag
      <3>1. real' = IF real = Day - 1 THEN 0 ELSE real + 1
        BY <2>2, RealRange DEF TypeInv, Lag
      <3> QED BY <3>1, ShownRange, Lengths
    <2>3. CASE ~Tick /\ ~Lag
      BY <2>3
      DEF Next, vars, world, SyncBegin, SyncSeconds, SyncMinutes, SyncHours,
          SyncCorrect, OpentimeSet, SetHours, SetMinutes
    <2> QED BY <2>1, <2>2, <2>3
  <1>2. Shown < Opening
    BY <1>1, ShownRange, Lengths DEF MorningInv, NotYet
  <1>3. Behind <= lag /\ lag \in 0 .. MaxLag
    BY DEF MorningInv, SteadyExact, ClockClose, DayInv, QuietDay, Syncing,
       TypeInv, TypeOK
  <1>4. Opening \in 0 .. Day - 1 /\ Opening <= Day - SEC
    BY LastOpening, OpeningRange DEF TypeInv
  <1>5. Behind = Day - 1 - Shown
    BY <1>1, ShownRange, Lengths DEF Behind
  <1> QED
    BY <1>2, <1>3, <1>4, <1>5, ShownRange, Lengths, ClockAssumption DEF Precise

\* Every day that begins with an exact clock and on which neither the opening
\* time nor the clock is set sees its alarm before it is over, if the crystal
\* does not lose a whole minute (main.c:556-583).
THEOREM OpensEveryDay ==
    ASSUME Precise
    PROVE  Spec => MorningNotMissed
  <1>1. TypeInv /\ DayInv /\ MorningInv /\ [Next]_vars => MorningInv'
    BY MorningNext
  <1>2. TypeInv /\ DayInv /\ MorningInv /\ [Next]_vars =>
            [real' = 0 /\ real # 0 /\ steady /\ ~synced /\ Enabled => fired]_vars
    BY DayEndsFired
  <1> QED
    BY <1>1, <1>2, TypeInvariant, DayInit, DayNext, MorningInit, PTL
    DEF Spec, MorningNotMissed

-----------------------------------------------------------------------------
(* An update is never ahead *)

\* A second is much longer than storing an answer.
Fast == TicksInside <= 1

\* What is stored of the answer so far: as it was given, or counted on by the
\* interrupt afterwards.  A field that the interrupt carries into is
\* overwritten if its turn is still to come.
SecondCounted == ticks = 1 /\ seconds = Counted(args[3], SEC)
MinuteCounted ==
    /\ SecondCounted
    /\ minutes = IF Carries(args[3], SEC) THEN Counted(args[2], MIN) ELSE args[2]
HourCounted ==
    /\ MinuteCounted
    /\ hours = IF Carries(args[3], SEC) /\ Carries(args[2], MIN)
               THEN Counted(args[1], HRS) ELSE args[1]

SecondStored == seconds = args[3] \/ SecondCounted
MinuteStored == (minutes = args[2] /\ SecondStored) \/ MinuteCounted
HourStored == (hours = args[1] /\ MinuteStored) \/ HourCounted

SyncStored ==
    /\ pc = "sync_minutes" => SecondStored
    /\ pc = "sync_hours" => MinuteStored
    /\ pc = "sync_correct" => HourStored

\* Nothing is stored before the first answer.
LEMMA StoredInit == Init => SyncStored
  BY DEF Init, SyncStored

\* The interrupt counts on what is stored, and comes only once.
LEMMA StoredTick ==
    ASSUME Fast, TypeInv, SyncStored, Tick
    PROVE  SyncStored'
  <1>1. pc # "idle" => ticks = 0 /\ ticks' = 1
    BY ClockAssumption DEF Fast, Tick, TypeInv, TypeOK
  <1>2. pc' = pc /\ args' = args /\ CountClock
    BY DEF Tick
  <1>3. CASE pc = "sync_minutes"
    <2>1. seconds = args[3]
      BY <1>1, <1>3 DEF SyncStored, SecondStored, SecondCounted
    <2> QED
      BY <1>1, <1>2, <1>3, <2>1
      DEF SyncStored, SecondStored, SecondCounted, CountClock
  <1>4. CASE pc = "sync_hours"
    <2>1. seconds = args[3] /\ minutes = args[2]
      BY <1>1, <1>4
      DEF SyncStored, MinuteStored, SecondStored, SecondCounted, MinuteCounted
    <2> QED
      BY <1>1, <1>2, <1>4, <2>1
      DEF SyncStored, MinuteStored, SecondCounted, MinuteCounted, CountClock
  <1>5. CASE pc = "sync_correct"
    <2>1. seconds = args[3] /\ minutes = args[2] /\ hours = args[1]
      BY <1>1, <1>5
      DEF SyncStored, HourStored, MinuteStored, SecondStored, SecondCounted,
          MinuteCounted, HourCounted
    <2> QED
      BY <1>1, <1>2, <1>5, <2>1
      DEF SyncStored, HourStored, SecondCounted, MinuteCounted, HourCounted,
          CountClock
  <1> QED BY <1>2, <1>3, <1>4, <1>5 DEF SyncStored

\* Each assignment stores its field; the other steps store none.
LEMMA StoredNext ==
    ASSUME Fast, TypeInv, SyncStored, [Next]_vars
    PROVE  SyncStored'
  <1> USE DEF Step, clock, eeprom, world, ghosts
  <1>1. CASE Tick
    BY <1>1, StoredTick
  <1>2. CASE Lag \/ SyncBegin \/ SyncCorrect \/ OpentimeSet \/ SetHours \/ SetMinutes
    BY <1>2
    DEF Lag, SyncBegin, SyncCorrect, OpentimeSet, SetHours, SetMinutes, SyncStored
  <1>3. CASE SyncSeconds
    BY <1>3 DEF SyncSeconds, SyncStored, SecondStored
  <1>4. CASE SyncMinutes
    BY <1>4 DEF SyncMinutes, SyncStored, MinuteStored, SecondStored, SecondCounted
  <1>5. CASE SyncHours
    BY <1>5
    DEF SyncHours, SyncStored, HourStored, MinuteStored, SecondStored,
        SecondCounted, MinuteCounted
  <1>6. CASE UNCHANGED vars
    BY <1>6
    DEF vars, SyncStored, HourStored, MinuteStored, SecondStored, SecondCounted,
        MinuteCounted, HourCounted
  <1> QED BY <1>1, <1>2, <1>3, <1>4, <1>5, <1>6 DEF Next

\* What is stored is the answer, or it is late by the second of the interrupt
\* or by the minute or the hour that was overwritten.
LEMMA StoredLate == TypeInv /\ Fast /\ SyncStored => SyncNeverAhead
  <1> SUFFICES ASSUME TypeInv, Fast, SyncStored, pc = "sync_correct"
               PROVE  \E late \in 0 .. SEC * MIN :
                        (SecondOfDay(hours, minutes, seconds) + late) % Day
                          = (SecondOfDay(args[1], args[2], args[3]) + ticks) % Day
    BY DEF SyncNeverAhead
  <1>1. PICK h \in Hours, m \in Minutes, s \in Seconds :
           args[1] = h /\ args[2] = m /\ args[3] = s
    BY DEF TypeInv, ArgsOK, Syncing
  <1>2. ticks \in {0, 1}
    BY ClockAssumption DEF TypeInv, TypeOK, Fast
  <1> DEFINE A == SecondOfDay(h, m, s)
             Late(late) == late \in 0 .. SEC * MIN /\ Shown + late = A + ticks
  <1>3. SEC \in 0 .. SEC * MIN /\ 1 \in 0 .. SEC * MIN /\ SEC * MIN \in Nat
    BY Lengths
  <1>4. Shown \in 0 .. Day - 1 /\ A \in 0 .. Day - 1
    BY <1>1, ShownRange, SecondRange
  <1>5. SUFFICES (\E late : Late(late)) \/ (Shown = 0 /\ A + ticks = Day)
    <2>1. ASSUME NEW late, Late(late)
          PROVE  \E l \in 0 .. SEC * MIN : (Shown + l) % Day = (A + ticks) % Day
      BY <2>1
    <2>2. ASSUME Shown = 0, A + ticks = Day
          PROVE  \E l \in 0 .. SEC * MIN : (Shown + l) % Day = (A + ticks) % Day
      <3>1. (Shown + 0) % Day = 0 /\ (A + ticks) % Day = 0
        BY <2>2, Lengths
      <3> QED BY <1>3, <3>1
    <2> QED BY <1>1, <1>5, <2>1, <2>2 DEF Shown
  <1>6. CASE hours = h /\ minutes = m /\ seconds = s
    <2>1. Late(ticks)
      BY <1>2, <1>3, <1>4, <1>6 DEF Shown
    <2> QED BY <2>1
  <1>7. CASE hours = h /\ minutes = m /\ SecondCounted
    <2>1. CASE Carries(s, SEC)
      <3>1. seconds = 0 /\ s = SEC - 1 /\ ticks = 1
        BY <1>1, <1>7, <2>1, Lengths, CarryRange DEF SecondCounted, Seconds
      <3>2. Late(SEC)
        BY <1>3, <1>7, <3>1, Lengths DEF Shown, SecondOfDay, Hours, Minutes
      <3> QED BY <3>2
    <2>2. CASE ~Carries(s, SEC)
      <3>1. seconds = s + 1 /\ ticks = 1
        BY <1>1, <1>7, <2>2, Lengths, CarryRange DEF SecondCounted, Seconds
      <3>2. Late(0)
        BY <1>3, <1>7, <3>1, Lengths DEF Shown, SecondOfDay, Hours, Minutes, Seconds
      <3> QED BY <3>2
    <2> QED BY <2>1, <2>2
  <1>8. CASE hours = h /\ MinuteCounted
    <2>1. CASE ~Carries(s, SEC)
      BY <1>1, <1>7, <1>8, <2>1 DEF MinuteCounted
    <2>2. CASE Carries(s, SEC) /\ ~Carries(m, MIN)
      <3>1. seconds = 0 /\ s = SEC - 1 /\ ticks = 1 /\ minutes = m + 1
        BY <1>1, <1>8, <2>2, Lengths, CarryRange
        DEF MinuteCounted, SecondCounted, Seconds, Minutes
      <3>2. Late(0)
        BY <1>3, <1>8, <3>1, Lengths DEF Shown, SecondOfDay, Hours, Minutes
      <3> QED BY <3>2
    <2>3. CASE Carries(s, SEC) /\ Carries(m, MIN)
      <3>1. seconds = 0 /\ s = SEC - 1 /\ ticks = 1 /\ minutes = 0 /\ m = MIN - 1
        BY <1>1, <1>8, <2>3, Lengths, CarryRange
        DEF MinuteCounted, SecondCounted, Seconds, Minutes
      <3>2. Late(SEC * MIN)
        BY <1>3, <1>8, <3>1, Lengths DEF Shown, SecondOfDay, Hours
      <3> QED BY <3>2
    <2> QED BY <2>1, <2>2, <2>3
  <1>9. CASE HourCounted
    <2>1. CASE ~(Carries(s, SEC) /\ Carries(m, MIN))
      BY <1>1, <1>8, <1>9, <2>1 DEF HourCounted
    <2>2. CASE Carries(s, SEC) /\ Carries(m, MIN) /\ ~Carries(h, HRS)
      <3>1. /\ seconds = 0 /\ s = SEC - 1 /\ ticks = 1 /\ minutes = 0
            /\ m = MIN - 1 /\ hours = h + 1
        BY <1>1, <1>9, <2>2, Lengths, CarryRange
        DEF HourCounted, MinuteCounted, SecondCounted, Seconds, Minutes, Hours
      <3>2. Late(0)
        BY <1>3, <3>1, Lengths DEF Shown, SecondOfDay, Hours
      <3> QED BY <3>2
    <2>3. CASE Carries(s, SEC) /\ Carries(m, MIN) /\ Carries(h, HRS)
      <3>1. /\ seconds = 0 /\ s = SEC - 1 /\ ticks = 1 /\ minutes = 0
            /\ m = MIN - 1 /\ hours = 0 /\ h = HRS - 1
        BY <1>1, <1>9, <2>3, Lengths, CarryRange
        DEF HourCounted, MinuteCounted, SecondCounted, Seconds, Minutes, Hours
      <3>2. Shown = 0
        BY <3>1, Lengths DEF Shown, SecondOfDay
      <3>3. A + 1 = Day
        BY <3>1, Lengths DEF SecondOfDay, Day
      <3> QED BY <3>1, <3>2, <3>3
    <2> QED BY <2>1, <2>2, <2>3
  <1> QED
    BY <1>1, <1>6, <1>7, <1>8, <1>9
    DEF SyncStored, HourStored, MinuteStored, SecondStored

\* An interrupt between two assignments of handle_time() may cost a second, a
\* minute or an hour, but the clock is never set ahead of the DCF77 time
\* (main.c:405-408, 558-571).
THEOREM UpdateNeverAhead ==
    ASSUME Fast
    PROVE  Spec => []SyncNeverAhead
  <1>1. TypeInv /\ SyncStored /\ [Next]_vars => SyncStored'
    BY StoredNext
  <1>2. TypeInv /\ SyncStored => SyncNeverAhead
    BY StoredLate
  <1> QED BY <1>1, <1>2, TypeInvariant, StoredInit, PTL DEF Spec
=============================================================================

------------------------ MODULE AvrControllerProofs ------------------------
(***************************************************************************)
(* Theorems about AvrController, for every value of its constants: the     *)
(* type invariant, the inductive invariant DriveInv with what follows from *)
(* it, the refinement of SliderDrive, and how far the door has moved.      *)
(***************************************************************************)
EXTENDS AvrController, TLAPS

\* A counter taken modulo n stays below n.
LEMMA ModRange ==
    ASSUME NEW n \in Nat \ {0}, NEW a \in Nat
    PROVE  a % n \in 0 .. n - 1
  OBVIOUS

\* A saturating age stays below its cap (ages of all timestamps).
LEMMA OlderRange ==
    ASSUME NEW cap \in Nat, NEW age \in 0 .. cap
    PROVE  Older(age, cap) \in 0 .. cap
  BY DEF Older

\* A stored timestamp has an age in range, torn or not.
LEMMA StoredAgesRange ==
    ASSUME NEW cap \in Nat
    PROVE  StoredAges(cap) \subseteq 0 .. cap
  BY DEF StoredAges

\* A sampled input counter keeps its width.
LEMMA SampledRange ==
    ASSUME NEW count \in 0 .. CountMod - 1, NEW active \in BOOLEAN
    PROVE  Sampled(count, active) \in 0 .. CountMod - 1
  BY LimitsAssumption, ModRange DEF Sampled

\* Goto continues at a point of the program with a natural number of ticks.
LEMMA GotoType ==
    ASSUME NEW p \in Points, ticksLeft \in Nat, Goto(p)
    PROVE  pc' \in Points /\ ticksLeft' \in Nat
  BY LimitsAssumption DEF Goto

\* The caps of the ages are natural numbers.
LEMMA CapsType ==
    /\ UpCap \in Nat /\ DownCap \in Nat /\ WakeCap \in Nat
    /\ EspTicks \in Nat /\ LoweringCap \in Nat /\ DownCap <= LoweringCap
  <1>1. EspTries * (2 * BlockTicks + 1) \in Nat
    BY LimitsAssumption
  <1> QED BY <1>1, LimitsAssumption DEF UpCap, DownCap, WakeCap, EspTicks, LoweringCap

\* So does the age of the last slider_down(), whichever cap it has in this second.
LEMMA DownAgeRange ==
    /\ StoredAges(DownCap) \subseteq 0 .. LoweringCap
    /\ \A age \in 0 .. LoweringCap :
        /\ Older(age, DownCap) \in 0 .. LoweringCap
        /\ Older(age, LoweringCap) \in 0 .. LoweringCap
  BY CapsType DEF StoredAges, Older

\* The loop counter stays in range where the loops reset or increase it.
LEMMA TriesRange ==
    /\ 0 \in 0 .. TimeTries + EspTries
    /\ \A n \in 0 .. TimeTries + EspTries :
        n + 1 < TimeTries \/ n + 1 < EspTries => n + 1 \in 0 .. TimeTries + EspTries
  BY LimitsAssumption

-----------------------------------------------------------------------------
(* Type correctness *)

\* Every variable is in its range at the start and after every step.
LEMMA TypeInit == Init => TypeOK
  <1> SUFFICES ASSUME Init PROVE TypeOK
    OBVIOUS
  <1>1. ticksLeft \in Nat /\ pos \in 0 .. DoorTravel
    BY LimitsAssumption DEF Init
  <1>2. /\ upAge \in 0 .. UpCap /\ downAge \in 0 .. LoweringCap
        /\ syncAge \in 0 .. TIME_UPDATE_MAXAGE /\ wakeAge \in 0 .. WakeCap
        /\ updPhase \in 0 .. TIME_UPDATE_INTERVAL - 1
    BY LimitsAssumption, CapsType DEF Init
  <1>3. /\ button1_count \in 0 .. CountMod - 1
        /\ button2_count \in 0 .. CountMod - 1
        /\ reed_count \in 0 .. CountMod - 1
        /\ tries \in 0 .. TimeTries + EspTries
    BY LimitsAssumption DEF Init
  <1>4. pc \in Blocking /\ slider_state \in SliderPos /\ slider_wanted \in SliderPos
    BY DEF Init, Blocking, SliderPos
  <1> QED BY <1>1, <1>2, <1>3, <1>4 DEF Init, TypeOK, DataOK, Points

\* The timer interrupt keeps the types: one leaf per group of variables.
LEMMA TypeTimer == TypeOK /\ TimerIsr => TypeOK'
  <1> SUFFICES ASSUME TypeOK, TimerIsr PROVE TypeOK'
    OBVIOUS
  <1>1. pc' \in Points
    BY DEF TypeOK, Points, TimerIsr, SecondPasses, Sleep
  <1>2. ticksLeft' \in Nat
    BY DEF TypeOK, TimerIsr, SecondPasses, Points, Sleep, Blocking, Running
  <1>3. pos' \in 0 .. DoorTravel
    BY LimitsAssumption DEF TypeOK, DataOK, TimerIsr, DoorMoves
  <1>4. downAge' \in 0 .. LoweringCap /\ wakeAge' \in 0 .. WakeCap
        /\ syncAge' \in 0 .. TIME_UPDATE_MAXAGE
    <2>1. downAge' \in 0 .. LoweringCap
      BY DownAgeRange DEF TypeOK, DataOK, TimerIsr
    <2>2. wakeAge' \in 0 .. WakeCap
      BY CapsType, OlderRange DEF TypeOK, DataOK, TimerIsr
    <2>3. syncAge' \in 0 .. TIME_UPDATE_MAXAGE
      BY LimitsAssumption, OlderRange DEF TypeOK, DataOK, TimerIsr
    <2> QED BY <2>1, <2>2, <2>3
  <1>5. updPhase' \in 0 .. TIME_UPDATE_INTERVAL - 1
    BY LimitsAssumption, ModRange DEF TypeOK, DataOK, TimerIsr
  <1>6. upAge' \in 0 .. UpCap
    <2>1. Older(upAge, UpCap) \in 0 .. UpCap
      BY CapsType, OlderRange DEF TypeOK, DataOK
    <2> QED BY <2>1, CapsType DEF TimerIsr, IsrSliderUp
  <1>7. slider_wanted' \in SliderPos /\ wakeup_slider' \in BOOLEAN
        /\ esp_enable' \in BOOLEAN
    BY DEF TypeOK, DataOK, TimerIsr, IsrSliderUp, SliderPos
  <1>8. action_updtime' \in BOOLEAN
    BY DEF TypeOK, DataOK, TimerIsr
  <1>9. tornUp' \in BOOLEAN /\ tornDown' \in BOOLEAN
    BY DEF TypeOK, DataOK, TimerIsr, IsrSliderUp
  <1> QED
    BY <1>1, <1>2, <1>3, <1>4, <1>5, <1>6, <1>7, <1>8, <1>9
    DEF TypeOK, DataOK, TimerIsr, relays, counts

\* Every step of the main program goes to a point of the program.
LEMMA MainGoto == Main => \E p \in Points : Goto(p)
  BY DEF Main, Points, Blocking, Running, Sleep, Startup, StartupEsp,
     StartupWarn, HandleTime, TimeNotAvailable, TimeAnswer, TimeRetry,
     HandleShell, ShellStore, HandleButtons, ButtonsUp, ButtonsDown,
     ButtonsBoth, HandleSlider, SliderDownStop, SliderUpStop, RelayStart,
     RelayStop, HandleEsp, EspHello, EspStartup, EspOk, EspRetry, HandleSleep,
     SleepEnter, SleepTest, SleepCpu, WakeUp

\* The other variables stay in their ranges, one step per action.
LEMMA DataMain == TypeOK /\ Main => DataOK'
  <1> SUFFICES ASSUME TypeOK, Main PROVE DataOK'
    OBVIOUS
  <1> USE DEF TypeOK, DataOK, torn
  <1>1. CASE Startup
    BY <1>1, ZenonT(40) DEF Startup, slider, relays, timers, wakeups, actions, counts
  <1>2. CASE StartupEsp
    BY <1>2 DEF StartupEsp, slider, relays, timers, wakeups, counts
  <1>3. CASE StartupWarn
    BY <1>3 DEF StartupWarn, slider, relays, timers, wakeups, actions, counts
  <1>4. CASE HandleTime
    BY <1>4, TriesRange, ZenonT(40) DEF HandleTime, slider, relays, timers,
       wakeups, counts
  <1>5. CASE TimeNotAvailable
    BY <1>5, TriesRange DEF TimeNotAvailable, slider, relays, timers, wakeups,
       actions, counts
  <1>6. CASE TimeAnswer
    BY <1>6, TriesRange, LimitsAssumption, StoredAgesRange DEF TimeAnswer,
       slider, relays, wakeups, actions, counts
  <1>7. CASE TimeRetry
    BY <1>7, TriesRange, ZenonT(40) DEF TimeRetry, slider, relays, timers, wakeups,
       counts
  <1>8. CASE HandleShell
    <2>1. upAge' \in 0 .. UpCap /\ downAge' \in 0 .. LoweringCap /\ esp_enable' \in BOOLEAN
      BY <1>8, CapsType, StoredAgesRange, DownAgeRange
      DEF HandleShell, SliderUpBegin, SliderDownBegin
    <2>2. tornUp' \in BOOLEAN /\ tornDown' \in BOOLEAN
      BY <1>8 DEF HandleShell, SliderUpBegin, SliderDownBegin
    <2> QED BY <1>8, <2>1, <2>2 DEF HandleShell, slider, relays, wakeups, actions, counts
  <1>9. CASE ShellStore
    BY <1>9 DEF ShellStore, relays, timers, wakeups, actions, counts,
       SliderPos
  <1>10. CASE HandleButtons
    <2>1. /\ button1_count' \in 0 .. CountMod - 1
          /\ button2_count' \in 0 .. CountMod - 1
      BY <1>10, SampledRange, InputsAssumption DEF HandleButtons
    <2>2. upAge' \in 0 .. UpCap /\ downAge' \in 0 .. LoweringCap /\ esp_enable' \in BOOLEAN
      BY <1>10, CapsType, StoredAgesRange, DownAgeRange
      DEF HandleButtons, SliderUpBegin, SliderDownBegin
    <2>3. tornUp' \in BOOLEAN /\ tornDown' \in BOOLEAN
      BY <1>10 DEF HandleButtons, SliderUpBegin, SliderDownBegin
    <2> QED BY <1>10, <2>1, <2>2, <2>3 DEF HandleButtons, slider, relays, wakeups, actions
  <1>11. CASE ButtonsUp
    <2>1. downAge' \in 0 .. LoweringCap /\ esp_enable' \in BOOLEAN /\ tornDown' \in BOOLEAN
      BY <1>11, DownAgeRange DEF ButtonsUp
    <2> QED BY <1>11, <2>1 DEF ButtonsUp, relays, wakeups, actions, counts, SliderPos
  <1>12. CASE ButtonsDown
    BY <1>12 DEF ButtonsDown, relays, timers, wakeups, actions, counts,
       SliderPos
  <1>13. CASE ButtonsBoth
    BY <1>13 DEF ButtonsBoth, relays, timers, wakeups, counts
  <1>14. CASE HandleSlider
    <2>1. reed_count' \in 0 .. CountMod - 1
      BY <1>14, SampledRange DEF HandleSlider, ReedClosed
    <2> QED BY <1>14, <2>1 DEF HandleSlider, SliderPos, relays, timers, wakeups, actions
  <1>15. CASE SliderDownStop
    <2>1. slider_state' \in SliderPos /\ tornDown' \in BOOLEAN
      BY <1>15 DEF SliderDownStop, SliderPos
    <2> QED BY <1>15, <2>1 DEF SliderDownStop, relays, timers, wakeups, actions, counts
  <1>16. CASE SliderUpStop
    <2>1. slider_state' \in SliderPos /\ tornUp' \in BOOLEAN
      BY <1>16 DEF SliderUpStop, SliderPos
    <2> QED BY <1>16, <2>1 DEF SliderUpStop, relays, timers, wakeups, actions, counts
  <1>17. CASE RelayStart
    <2>1. relay1' \in BOOLEAN /\ relay2' \in BOOLEAN
      BY <1>17 DEF RelayStart, relays
    <2> QED BY <1>17, <2>1 DEF RelayStart, slider, timers, wakeups, actions, counts
  <1>18. CASE RelayStop
    <2>1. /\ relay1' \in BOOLEAN /\ relay2' \in BOOLEAN
          /\ action_espreset' \in BOOLEAN
      BY <1>18 DEF RelayStop, relays
    <2> QED BY <1>18, <2>1 DEF RelayStop, slider, timers, wakeups, counts
  <1>19. CASE HandleEsp
    BY <1>19, TriesRange, ZenonT(40) DEF HandleEsp, slider, relays, timers,
       wakeups, counts
  <1>20. CASE EspHello
    BY <1>20, ZenonT(40) DEF EspHello, slider, relays, timers, wakeups, actions,
       counts
  <1>21. CASE EspStartup
    BY <1>21 DEF EspStartup, slider, relays, timers, wakeups, actions, counts
  <1>22. CASE EspOk
    BY <1>22, TriesRange DEF EspOk, slider, relays, timers, wakeups, actions,
       counts
  <1>23. CASE EspRetry
    BY <1>23, TriesRange DEF EspRetry, slider, relays, timers, wakeups,
       actions, counts
  <1>24. CASE HandleSleep
    BY <1>24 DEF HandleSleep, slider, relays, timers, wakeups, actions, counts
  <1>25. CASE SleepEnter
    BY <1>25 DEF SleepEnter, slider, relays, timers, actions, counts
  <1>26. CASE SleepCpu
    BY <1>26 DEF SleepCpu, slider, relays, timers, wakeups, actions, counts
  <1>27. CASE WakeUp
    BY <1>27, CapsType, StoredAgesRange DEF WakeUp, slider, relays, wakeups,
       counts
  <1>28. CASE SleepTest
    BY <1>28 DEF SleepTest, slider, relays, timers, wakeups, actions, counts
  <1> QED
    BY <1>1, <1>2, <1>3, <1>4, <1>5, <1>6, <1>7, <1>8, <1>9, <1>10, <1>11,
       <1>12, <1>13, <1>14, <1>15, <1>16, <1>17, <1>18, <1>19, <1>20, <1>21,
       <1>22, <1>23, <1>24, <1>25, <1>26, <1>27, <1>28 DEF Main

\* Every step keeps the types.
LEMMA TypeNext == TypeOK /\ [Next]_vars => TypeOK'
  <1> SUFFICES ASSUME TypeOK, [Next]_vars PROVE TypeOK'
    OBVIOUS
  <1>1. CASE Main
    <2>1. PICK p \in Points : Goto(p)
      BY <1>1, MainGoto
    <2>2. pc' \in Points /\ ticksLeft' \in Nat
      BY <2>1, GotoType DEF TypeOK
    <2> QED BY <1>1, <2>2, DataMain DEF TypeOK
  <1>2. CASE TimerIsr
    BY <1>2, TypeTimer
  <1>3. CASE ButtonIsr
    BY <1>3 DEF ButtonIsr, TypeOK, DataOK, Points, Sleep, slider, relays, timers,
       actions, counts, torn
  <1>4. CASE UNCHANGED vars
    BY <1>4 DEF vars, TypeOK, DataOK, slider, relays, timers, wakeups, actions,
       counts, torn
  <1> QED BY <1>1, <1>2, <1>3, <1>4 DEF Next

\* The type invariant holds for all limits, tick bounds and inputs: no counter
\* outgrows its width and every step ends at a point of the program.
THEOREM TypeCorrect == Spec => []TypeOK
  BY TypeInit, TypeNext, PTL DEF Spec

-----------------------------------------------------------------------------
(* The motor *)

\* What the inductive invariant reads of a state.
DriveTypes ==
    /\ pc \in Points
    /\ slider_state \in SliderPos /\ slider_wanted \in SliderPos
    /\ relay1 \in BOOLEAN /\ relay2 \in BOOLEAN /\ esp_enable \in BOOLEAN

\* What both timeouts leave alone, and what they do otherwise.
LEMMA StopSteps ==
    ASSUME SliderDownStop \/ SliderUpStop
    PROVE  /\ UNCHANGED <<slider_wanted, relay1, relay2, esp_enable, pos, upAge, downAge,
                          ticksLeft>>
           /\ slider_state' = slider_state \/ slider_state' = slider_wanted
           /\ ~tornUp' => ~tornUp
           /\ ~tornDown' => ~tornDown
           /\ \/ pc = "slider_down_stop" /\ pc' = "slider_up_stop"
              \/ pc = "slider_up_stop" /\ pc' = "relay_start"
  <1> USE DEF Goto, relays, timers, Lowering, Raising, Blocking
  <1>1. CASE SliderDownStop
    <2>1. ~tornDown' => ~tornDown
      BY <1>1, Zenon DEF SliderDownStop
    <2> QED BY <1>1, <2>1 DEF SliderDownStop
  <1>2. CASE SliderUpStop
    <2>1. ~tornUp' => ~tornUp
      BY <1>2, Zenon DEF SliderUpStop
    <2> QED BY <1>2, <2>1 DEF SliderUpStop
  <1> QED BY <1>1, <1>2

\* The inductive invariant holds initially.
LEMMA DriveInit == Init => DriveInv
  BY DEF Init, DriveInv, RelaysFollowSlider, SleepPhase, Settled, Requesting,
     Deciding, Sleep, Asleep

\* The main program preserves it, one step per action.
LEMMA DriveMain == DriveTypes /\ DriveInv /\ Main => DriveInv'
  <1> SUFFICES ASSUME DriveTypes, DriveInv, Main PROVE DriveInv'
    OBVIOUS
  <1> USE DEF DriveTypes, DriveInv, RelaysFollowSlider, SleepPhase, Settled,
          Requesting, Deciding, Sleep, Asleep, SliderPos, Goto
  <1>1. CASE Startup
    BY <1>1 DEF Startup, slider, relays
  <1>2. CASE StartupEsp
    BY <1>2 DEF StartupEsp, slider, relays
  <1>3. CASE StartupWarn
    BY <1>3 DEF StartupWarn, slider, relays
  <1>4. CASE HandleTime
    BY <1>4 DEF HandleTime, slider, relays
  <1>5. CASE TimeNotAvailable
    BY <1>5 DEF TimeNotAvailable, slider, relays
  <1>6. CASE TimeAnswer
    BY <1>6 DEF TimeAnswer, slider, relays
  <1>7. CASE TimeRetry
    BY <1>7 DEF TimeRetry, slider, relays
  <1>8. CASE HandleShell
    BY <1>8 DEF HandleShell, slider, relays, SliderUpBegin, SliderDownBegin
  <1>9. CASE ShellStore
    BY <1>9 DEF ShellStore, relays
  <1>10. CASE HandleButtons
    BY <1>10 DEF HandleButtons, slider, relays, SliderUpBegin, SliderDownBegin
  <1>11. CASE ButtonsUp
    BY <1>11 DEF ButtonsUp, relays
  <1>12. CASE ButtonsDown
    BY <1>12 DEF ButtonsDown, relays
  <1>13. CASE ButtonsBoth
    BY <1>13 DEF ButtonsBoth, relays
  <1>14. CASE HandleSlider
    BY <1>14 DEF HandleSlider, relays
  <1>15. CASE SliderDownStop
    BY <1>15, StopSteps
  <1>16. CASE SliderUpStop
    BY <1>16, StopSteps
  <1>17. CASE RelayStart
    BY <1>17 DEF RelayStart, slider, relays
  <1>18. CASE RelayStop
    BY <1>18 DEF RelayStop, slider, relays
  <1>19. CASE HandleEsp
    BY <1>19 DEF HandleEsp, slider, relays
  <1>20. CASE EspHello
    BY <1>20 DEF EspHello, slider, relays
  <1>21. CASE EspStartup
    BY <1>21 DEF EspStartup, slider, relays
  <1>22. CASE EspOk
    BY <1>22 DEF EspOk, slider, relays
  <1>23. CASE EspRetry
    BY <1>23 DEF EspRetry, slider, relays
  <1>24. CASE HandleSleep
    BY <1>24 DEF HandleSleep, slider, relays, MaySleep
  <1>25. CASE SleepEnter
    BY <1>25 DEF SleepEnter, slider, relays
  <1>26. CASE SleepCpu
    BY <1>26 DEF SleepCpu, slider, relays
  <1>27. CASE WakeUp
    BY <1>27 DEF WakeUp, slider, relays
  <1>28. CASE SleepTest
    BY <1>28 DEF SleepTest, slider, relays
  <1> QED
    BY <1>1, <1>2, <1>3, <1>4, <1>5, <1>6, <1>7, <1>8, <1>9, <1>10, <1>11,
       <1>12, <1>13, <1>14, <1>15, <1>16, <1>17, <1>18, <1>19, <1>20, <1>21,
       <1>22, <1>23, <1>24, <1>25, <1>26, <1>27, <1>28 DEF Main

\* The timer interrupt preserves it: it only turns slider_wanted to SLIDER_UP.
LEMMA DriveTimer == DriveTypes /\ DriveInv /\ TimerIsr => DriveInv'
  <1> SUFFICES ASSUME DriveTypes, DriveInv, TimerIsr PROVE DriveInv'
    OBVIOUS
  <1>1. /\ slider_wanted' = slider_wanted \/ slider_wanted' = "SLIDER_UP"
        /\ esp_enable' = esp_enable \/ esp_enable' = FALSE
    BY DEF TimerIsr, IsrSliderUp
  <1>2. /\ pc' = pc \/ (pc = "sleeping" /\ pc' = "sleep_check")
        /\ UNCHANGED <<slider_state, relay1, relay2>>
    BY DEF TimerIsr, SecondPasses, relays
  <1> QED
    BY <1>1, <1>2 DEF DriveTypes, DriveInv, RelaysFollowSlider, SleepPhase,
       Settled, Requesting, Deciding, Sleep, Asleep, SliderPos

\* Every step preserves the inductive invariant.
LEMMA DriveNext == TypeOK /\ DriveInv /\ [Next]_vars => DriveInv'
  <1> SUFFICES ASSUME TypeOK, DriveInv, [Next]_vars PROVE DriveInv'
    OBVIOUS
  <1>0. DriveTypes
    BY DEF TypeOK, DataOK, DriveTypes
  <1>1. CASE Main
    BY <1>0, <1>1, DriveMain
  <1>2. CASE TimerIsr
    BY <1>0, <1>2, DriveTimer
  <1>3. CASE ButtonIsr
    BY <1>3 DEF ButtonIsr, slider, relays, DriveInv, RelaysFollowSlider,
       SleepPhase, Settled, Requesting, Deciding, Sleep, Asleep
  <1>4. CASE UNCHANGED vars
    BY <1>4 DEF vars, slider, relays, DriveInv, RelaysFollowSlider, SleepPhase,
       Asleep
  <1> QED BY <1>1, <1>2, <1>3, <1>4 DEF Next

\* The relays follow the slider at every point of the program, whatever the
\* interrupt does to slider_wanted and however the timestamps are read.
THEOREM DriveInvariant == Spec => []DriveInv
  BY DriveInit, DriveNext, TypeCorrect, PTL DEF Spec

\* The controller never sleeps with the motor raising or the ESP8266 on, and
\* what it left undone can only be an opening.
THEOREM SleepIsQuiet == Spec => []SleepQuiet
  <1>1. TypeOK /\ DriveInv => SleepQuiet
    BY DEF TypeOK, DataOK, SliderPos, DriveInv, RelaysFollowSlider, SleepPhase,
       SleepQuiet, Sleep, Asleep
  <1> QED BY <1>1, TypeCorrect, DriveInvariant, PTL

-----------------------------------------------------------------------------
(* Steps of the motor *)

\* Only relay control switches a relay.
LEMMA RelaySteps ==
    [Next]_vars => RelayStart \/ RelayStop \/ UNCHANGED relays
  BY DEF Next, Main, TimerIsr, ButtonIsr, vars, Startup, StartupEsp,
     StartupWarn, HandleTime, TimeNotAvailable, TimeAnswer, TimeRetry,
     HandleShell, ShellStore, HandleButtons, ButtonsUp, ButtonsDown,
     ButtonsBoth, HandleSlider, SliderDownStop, SliderUpStop, HandleEsp,
     EspHello, EspStartup, EspOk, EspRetry, HandleSleep, SleepEnter, SleepTest,
     SleepCpu, WakeUp

\* The motor is never thrown from raising into lowering without a stop.
THEOREM MotorNeverReversedDown == Spec => NoUpDownReversal
  <1>1. TypeOK /\ DriveInv /\ [Next]_vars => [relay1 => ~relay2']_vars
    <2> SUFFICES ASSUME TypeOK, DriveInv, [Next]_vars, relay1 PROVE ~relay2'
      OBVIOUS
    <2>1. CASE RelayStart
      BY <2>1 DEF RelayStart, relays, TypeOK, DataOK, SliderPos, DriveInv,
         RelaysFollowSlider, Deciding
    <2>2. CASE RelayStop
      BY <2>2 DEF RelayStop, relays, DriveInv, RelaysFollowSlider
    <2>3. CASE UNCHANGED relays
      BY <2>3 DEF relays, DriveInv, RelaysFollowSlider
    <2> QED BY <2>1, <2>2, <2>3, RelaySteps
  <1> QED BY <1>1, TypeCorrect, DriveInvariant, PTL DEF Spec, NoUpDownReversal

-----------------------------------------------------------------------------
(* Refinement of SliderDrive *)

\* Steps of the main program that neither switch a relay nor ask for a movement
\* nor end or begin the sleep change nothing SliderDrive can see.
LEMMA OtherSteps ==
    ASSUME TypeOK, Main
    PROVE  \/ ShellStore \/ ButtonsUp \/ ButtonsDown \/ ButtonsBoth
           \/ RelayStart \/ RelayStop \/ SleepEnter \/ WakeUp
           \/ UNCHANGED <<relay1, relay2, slider_wanted, Asleep>>
  <1> USE DEF TypeOK, DataOK, Asleep, Sleep, Goto
  <1>1. CASE Startup
    BY <1>1 DEF Startup, slider, relays
  <1>2. CASE StartupEsp
    BY <1>2 DEF StartupEsp, slider, relays
  <1>3. CASE StartupWarn
    BY <1>3 DEF StartupWarn, slider, relays
  <1>4. CASE HandleTime
    BY <1>4 DEF HandleTime, slider, relays
  <1>5. CASE TimeNotAvailable
    BY <1>5 DEF TimeNotAvailable, slider, relays
  <1>6. CASE TimeAnswer
    BY <1>6 DEF TimeAnswer, slider, relays
  <1>7. CASE TimeRetry
    BY <1>7 DEF TimeRetry, slider, relays
  <1>8. CASE HandleShell
    BY <1>8 DEF HandleShell, slider, relays
  <1>9. CASE HandleButtons
    BY <1>9 DEF HandleButtons, slider, relays
  <1>10. CASE HandleSlider
    BY <1>10 DEF HandleSlider, relays
  <1>11. CASE SliderDownStop
    BY <1>11 DEF SliderDownStop, relays
  <1>12. CASE SliderUpStop
    BY <1>12 DEF SliderUpStop, relays
  <1>13. CASE HandleEsp
    BY <1>13 DEF HandleEsp, slider, relays
  <1>14. CASE EspHello
    BY <1>14 DEF EspHello, slider, relays
  <1>15. CASE EspStartup
    BY <1>15 DEF EspStartup, slider, relays
  <1>16. CASE EspOk
    BY <1>16 DEF EspOk, slider, relays
  <1>17. CASE EspRetry
    BY <1>17 DEF EspRetry, slider, relays
  <1>18. CASE HandleSleep
    BY <1>18 DEF HandleSleep, slider, relays
  <1>19. CASE SleepCpu
    BY <1>19 DEF SleepCpu, slider, relays
  <1>20. CASE SleepTest
    BY <1>20 DEF SleepTest, slider, relays
  <1> QED
    BY <1>1, <1>2, <1>3, <1>4, <1>5, <1>6, <1>7, <1>8, <1>9, <1>10, <1>11,
       <1>12, <1>13, <1>14, <1>15, <1>16, <1>17, <1>18, <1>19, <1>20 DEF Main

\* Each step of the controller is a step or a stutter of SliderDrive.
LEMMA DriveStep ==
    ASSUME TypeOK, DriveInv, DriveInv', [Next]_vars
    PROVE  [Drive!Next]_(Drive!vars)
  <1> USE DEF Drive!Next, Drive!vars, Drive!Request, Drive!Raise, Drive!Lower,
          Drive!Stop, Drive!FallAsleep, Drive!Awake, motor, Asleep, Sleep
  <1>1. CASE ShellStore \/ ButtonsUp \/ ButtonsDown \/ ButtonsBoth
    <2>1. /\ slider_wanted' \in {"SLIDER_UP", "SLIDER_DOWN"}
          /\ ~Asleep /\ ~Asleep' /\ UNCHANGED <<relay1, relay2>>
      BY <1>1 DEF ShellStore, ButtonsUp, ButtonsDown, ButtonsBoth, Goto, relays,
         TypeOK, DataOK, SliderPos
    <2> QED BY <2>1
  <1>2. CASE RelayStart
    <2>1. /\ UNCHANGED slider_wanted /\ ~Asleep /\ ~Asleep'
          /\ \/ UNCHANGED <<relay1, relay2>>
             \/ relay1' /\ ~relay2' /\ slider_wanted = "SLIDER_UP"
             \/ relay2' /\ ~relay1' /\ slider_wanted = "SLIDER_DOWN" /\ ~relay1
      BY <1>2 DEF RelayStart, Goto, slider, relays, TypeOK, DataOK, SliderPos,
         DriveInv, RelaysFollowSlider, Deciding
    <2> QED BY <2>1
  <1>3. CASE RelayStop
    <2>1. /\ UNCHANGED slider_wanted /\ ~Asleep /\ ~Asleep'
          /\ UNCHANGED <<relay1, relay2>> \/ (~relay1' /\ ~relay2')
      BY <1>3 DEF RelayStop, Goto, slider, relays
    <2> QED BY <2>1
  <1>4. CASE SleepEnter
    <2>1. /\ UNCHANGED <<slider_wanted, relay1, relay2>>
          /\ ~Asleep /\ Asleep' /\ ~relay1
      BY <1>4 DEF SleepEnter, Goto, slider, relays, DriveInv, RelaysFollowSlider
    <2> QED BY <2>1
  <1>5. CASE WakeUp
    <2>1. UNCHANGED <<slider_wanted, relay1, relay2>> /\ Asleep /\ ~Asleep'
      BY <1>5 DEF WakeUp, Goto, slider, relays
    <2> QED BY <2>1
  <1>6. CASE TimerIsr
    <2>1. /\ UNCHANGED <<relay1, relay2, Asleep>>
          /\ slider_wanted' = slider_wanted \/ slider_wanted' = "SLIDER_UP"
      BY <1>6 DEF TimerIsr, SecondPasses, IsrSliderUp, relays
    <2> QED BY <2>1
  <1>7. CASE ButtonIsr
    BY <1>7 DEF ButtonIsr, slider, relays
  <1>8. CASE UNCHANGED <<relay1, relay2, slider_wanted, Asleep>>
    BY <1>8
  <1>9. CASE UNCHANGED vars
    BY <1>9 DEF vars, slider, relays
  <1> QED
    BY <1>1, <1>2, <1>3, <1>4, <1>5, <1>6, <1>7, <1>8, <1>9, OtherSteps DEF Next

\* The controller implements SliderDrive.
THEOREM ImplementsDrive == Spec => DriveSpec
  <1>1. Init => Drive!Init
    BY DEF Init, Drive!Init, motor, Asleep, Sleep
  <1> QED
    BY <1>1, DriveStep, TypeCorrect, DriveInvariant, PTL DEF Spec, DriveSpec, Drive!Spec

-----------------------------------------------------------------------------
(* Without an opening time *)

\* No alarm comes: only buttons and commands ask for movement.
NoAlarms == Alarms = {FALSE}

\* Then both relays follow the slider: nothing changes slider_wanted between
\* the stop conditions and relay control, or once handle_sleep() has looked.
ManualInv ==
    /\ relay1 => /\ pc \notin Deciding => slider_state = "SLIDER_DOWN"
                 /\ pc \notin Deciding \cup Requesting => slider_wanted = "SLIDER_UP"
                 /\ pc \in Deciding => slider_state = "SLIDER_DOWN" \/ slider_wanted = "SLIDER_UP"
    /\ relay2 => /\ pc \notin Deciding => slider_state = "SLIDER_UP"
                 /\ pc \notin Deciding \cup Requesting => slider_wanted = "SLIDER_DOWN"
                 /\ pc \in Deciding => slider_state = "SLIDER_UP" \/ slider_wanted = "SLIDER_DOWN"
    /\ pc \in Sleep \cup {"sleep_sound", "relay_stop"} => slider_state = slider_wanted

\* It holds initially.
LEMMA ManualInit == Init => ManualInv
  BY DEF Init, ManualInv, Settled, Requesting, Deciding, Sleep

\* The main program preserves it, one step per action.
LEMMA ManualMain == DriveTypes /\ ManualInv /\ Main => ManualInv'
  <1> SUFFICES ASSUME DriveTypes, ManualInv, Main PROVE ManualInv'
    OBVIOUS
  <1> USE DEF DriveTypes, ManualInv, Requesting, Deciding, Sleep, SliderPos, Goto
  <1>1. CASE Startup
    BY <1>1 DEF Startup, slider, relays
  <1>2. CASE StartupEsp
    BY <1>2 DEF StartupEsp, slider, relays
  <1>3. CASE StartupWarn
    BY <1>3 DEF StartupWarn, slider, relays
  <1>4. CASE HandleTime
    BY <1>4 DEF HandleTime, slider, relays
  <1>5. CASE TimeNotAvailable
    BY <1>5 DEF TimeNotAvailable, slider, relays
  <1>6. CASE TimeAnswer
    BY <1>6 DEF TimeAnswer, slider, relays
  <1>7. CASE TimeRetry
    BY <1>7 DEF TimeRetry, slider, relays
  <1>8. CASE HandleShell
    BY <1>8 DEF HandleShell, slider, relays
  <1>9. CASE ShellStore
    BY <1>9 DEF ShellStore, relays
  <1>10. CASE HandleButtons
    BY <1>10 DEF HandleButtons, slider, relays
  <1>11. CASE ButtonsUp
    BY <1>11 DEF ButtonsUp, relays
  <1>12. CASE ButtonsDown
    BY <1>12 DEF ButtonsDown, relays
  <1>13. CASE ButtonsBoth
    BY <1>13 DEF ButtonsBoth, relays
  <1>14. CASE HandleSlider
    BY <1>14 DEF HandleSlider, relays
  <1>15. CASE SliderDownStop
    BY <1>15, StopSteps
  <1>16. CASE SliderUpStop
    BY <1>16, StopSteps
  <1>17. CASE RelayStart
    BY <1>17 DEF RelayStart, slider, relays
  <1>18. CASE RelayStop
    BY <1>18 DEF RelayStop, slider, relays
  <1>19. CASE HandleEsp
    BY <1>19 DEF HandleEsp, slider, relays
  <1>20. CASE EspHello
    BY <1>20 DEF EspHello, slider, relays
  <1>21. CASE EspStartup
    BY <1>21 DEF EspStartup, slider, relays
  <1>22. CASE EspOk
    BY <1>22 DEF EspOk, slider, relays
  <1>23. CASE EspRetry
    BY <1>23 DEF EspRetry, slider, relays
  <1>24. CASE HandleSleep
    BY <1>24 DEF HandleSleep, slider, relays, MaySleep
  <1>25. CASE SleepEnter
    BY <1>25 DEF SleepEnter, slider, relays
  <1>26. CASE SleepCpu
    BY <1>26 DEF SleepCpu, slider, relays
  <1>27. CASE WakeUp
    BY <1>27 DEF WakeUp, slider, relays
  <1>28. CASE SleepTest
    BY <1>28 DEF SleepTest, slider, relays
  <1> QED
    BY <1>1, <1>2, <1>3, <1>4, <1>5, <1>6, <1>7, <1>8, <1>9, <1>10, <1>11,
       <1>12, <1>13, <1>14, <1>15, <1>16, <1>17, <1>18, <1>19, <1>20, <1>21,
       <1>22, <1>23, <1>24, <1>25, <1>26, <1>27, <1>28 DEF Main

\* Every step preserves it; the interrupt leaves the slider alone.
LEMMA ManualNext ==
    ASSUME NoAlarms, TypeOK, ManualInv, [Next]_vars
    PROVE  ManualInv'
  <1>0. DriveTypes
    BY DEF TypeOK, DataOK, DriveTypes
  <1>1. CASE Main
    BY <1>0, <1>1, ManualMain
  <1>2. CASE TimerIsr
    <2>1. UNCHANGED <<slider_state, slider_wanted, relay1, relay2>>
      BY <1>2 DEF TimerIsr, NoAlarms, relays
    <2>2. pc' = pc \/ (pc = "sleeping" /\ pc' = "sleep_check")
      BY <1>2 DEF TimerIsr, SecondPasses
    <2> QED BY <2>1, <2>2 DEF ManualInv, Deciding, Requesting, Sleep
  <1>3. CASE ButtonIsr
    BY <1>3 DEF ButtonIsr, slider, relays, ManualInv, Deciding, Requesting, Sleep,
       Asleep
  <1>4. CASE UNCHANGED vars
    BY <1>4 DEF vars, slider, relays, ManualInv
  <1> QED BY <1>1, <1>2, <1>3, <1>4 DEF Next

\* Initially and after every step, for use below.
LEMMA ManualInvariant ==
    ASSUME NoAlarms
    PROVE  Spec => []ManualInv
  <1>1. TypeOK /\ ManualInv /\ [Next]_vars => ManualInv'
    BY ManualNext
  <1> QED BY <1>1, ManualInit, TypeCorrect, PTL DEF Spec

\* Without alarms the controller sleeps only when the slider is where it is
\* wanted and the motor is off (main.c:463-470).
THEOREM SleepsIdle ==
    ASSUME NoAlarms
    PROVE  Spec => []IdleWhenAsleep
  <1>1. TypeOK /\ ManualInv => IdleWhenAsleep
    BY DEF TypeOK, DataOK, SliderPos, ManualInv, IdleWhenAsleep, Sleep, Asleep,
       Deciding, Requesting
  <1> QED BY <1>1, TypeCorrect, ManualInvariant, PTL

\* Without alarms the motor is never thrown from lowering into raising without
\* a stop, whatever buttons are pressed and commands come (main.c:357-370).
THEOREM MotorNeverReversedUp ==
    ASSUME NoAlarms
    PROVE  Spec => NoDownUpReversal
  <1>1. TypeOK /\ DriveInv /\ ManualInv /\ [Next]_vars => [relay2 => ~relay1']_vars
    <2> SUFFICES ASSUME TypeOK, DriveInv, ManualInv, [Next]_vars, relay2
                 PROVE  ~relay1'
      OBVIOUS
    <2>1. CASE RelayStart
      BY <2>1 DEF RelayStart, relays, TypeOK, DataOK, SliderPos, DriveInv,
         RelaysFollowSlider, ManualInv, Deciding
    <2>2. CASE RelayStop
      BY <2>2 DEF RelayStop, relays, DriveInv, RelaysFollowSlider
    <2>3. CASE UNCHANGED relays
      BY <2>3 DEF relays, DriveInv, RelaysFollowSlider
    <2> QED BY <2>1, <2>2, <2>3, RelaySteps
  <1> QED
    BY <1>1, TypeCorrect, DriveInvariant, ManualInvariant, PTL
    DEF Spec, NoDownUpReversal

-----------------------------------------------------------------------------
(* Times and places: how far the door has moved when the program takes it   *)
(* for open or closed, when the motor stops, and what the ESP8266 does      *)
(* when it starts.  What depends on the timestamps of a movement is claimed *)
(* until one of them is torn.                                               *)

\* Outside beeps and waits at most one second passes before the next one.
Quick == pc \notin Blocking => ticksLeft <= 1

\* It is an invariant, whatever the interrupts do.
LEMMA QuickInvariant == Spec => []Quick
  <1>1. Init => Quick
    BY DEF Init, Quick, Blocking
  <1>2. TypeOK /\ Quick /\ [Next]_vars => Quick'
    <2> SUFFICES ASSUME TypeOK, Quick, [Next]_vars PROVE Quick'
      OBVIOUS
    <2>0. ticksLeft \in Nat
      BY DEF TypeOK
    <2>1. CASE Main
      <3>1. PICK p \in Points : Goto(p)
        BY <2>1, MainGoto
      <3> QED BY <3>1, <2>0 DEF Goto, Quick
    <2>2. CASE TimerIsr
      BY <2>0, <2>2 DEF TimerIsr, SecondPasses, Quick, Blocking
    <2>3. CASE ButtonIsr
      BY <2>3 DEF ButtonIsr, Asleep, Sleep, Quick, Blocking
    <2>4. CASE UNCHANGED vars
      BY <2>4 DEF vars, Quick
    <2> QED BY <2>1, <2>2, <2>3, <2>4 DEF Next
  <1> QED BY <1>1, <1>2, TypeCorrect, PTL DEF Spec

\* Points a movement passes through before relay control starts the motor.
BeforeRelays ==
    {"startup", "startup_warn", "handle_time", "handle_shell", "slider_down_stop",
     "slider_up_stop", "relay_start"} \cup Requesting

\* Steps of the main program from other points leave slider, relays and the
\* timestamps of movements alone.
LEMMA MovementSteps ==
    ASSUME Main
    PROVE  \/ Startup \/ StartupWarn \/ HandleTime \/ HandleShell \/ ShellStore
           \/ HandleButtons \/ ButtonsUp \/ ButtonsDown \/ ButtonsBoth
           \/ HandleSlider \/ SliderDownStop \/ SliderUpStop \/ RelayStart
           \/ RelayStop
           \/ /\ pc \notin BeforeRelays \cup Deciding
              /\ pc' \notin Requesting \cup Deciding
              /\ UNCHANGED <<slider, relays, pos, upAge, downAge, torn>>
  <1> USE DEF Goto, timers, torn, BeforeRelays, Requesting, Deciding
  <1>1. CASE StartupEsp
    BY <1>1 DEF StartupEsp
  <1>2. CASE TimeNotAvailable
    BY <1>2 DEF TimeNotAvailable
  <1>3. CASE TimeAnswer
    BY <1>3 DEF TimeAnswer
  <1>4. CASE TimeRetry
    BY <1>4 DEF TimeRetry
  <1>5. CASE HandleEsp
    BY <1>5 DEF HandleEsp
  <1>6. CASE EspHello
    BY <1>6 DEF EspHello
  <1>7. CASE EspStartup
    BY <1>7 DEF EspStartup
  <1>8. CASE EspOk
    BY <1>8 DEF EspOk
  <1>9. CASE EspRetry
    BY <1>9 DEF EspRetry
  <1>10. CASE HandleSleep
    BY <1>10 DEF HandleSleep
  <1>11. CASE SleepEnter
    BY <1>11 DEF SleepEnter
  <1>12. CASE SleepCpu
    BY <1>12 DEF SleepCpu
  <1>13. CASE WakeUp
    BY <1>13 DEF WakeUp
  <1>14. CASE SleepTest
    BY <1>14 DEF SleepTest
  <1> QED
    BY <1>1, <1>2, <1>3, <1>4, <1>5, <1>6, <1>7, <1>8, <1>9, <1>10, <1>11,
       <1>12, <1>13, <1>14 DEF Main

\* A second more for the age is a second less for the pass.
LEMMA OneSecondOn ==
    ASSUME NEW a \in Nat, NEW b \in Nat, NEW t \in Nat, NEW limit \in Nat,
           b <= a + 1, a + t <= limit
    PROVE  b + (t - 1) <= limit
  OBVIOUS

\* Where the two ages are after a step.
LEMMA AgeTypes ==
    ASSUME TypeOK
    PROVE  /\ ticksLeft \in Nat /\ pos \in Nat /\ pos <= DoorTravel
           /\ upAge \in Nat /\ downAge \in Nat
           /\ pc \in Points
           /\ slider_state \in SliderPos /\ slider_wanted \in SliderPos
           /\ relay1 \in BOOLEAN /\ relay2 \in BOOLEAN /\ esp_enable \in BOOLEAN
  BY LimitsAssumption, CapsType DEF TypeOK, DataOK

\* An interrupt makes an age at most one second older.
LEMMA OlderStep ==
    ASSUME NEW cap \in Nat, NEW age \in Nat
    PROVE  Older(age, cap) \in Nat /\ Older(age, cap) <= age + 1
  BY DEF Older

\* Only the reed contact and the time limits change what the program believes.
LEMMA StateSteps ==
    ASSUME [Next]_vars
    PROVE  HandleSlider \/ SliderDownStop \/ SliderUpStop \/ UNCHANGED slider_state
  <1> USE DEF slider
  <1>1. CASE Main
    BY <1>1, MovementSteps DEF Startup, StartupWarn, HandleTime, HandleShell,
       ShellStore, HandleButtons, ButtonsUp, ButtonsDown, ButtonsBoth, RelayStart,
       RelayStop
  <1>2. CASE TimerIsr \/ ButtonIsr \/ UNCHANGED vars
    BY <1>2 DEF TimerIsr, ButtonIsr, vars
  <1> QED BY <1>1, <1>2 DEF Next

-----------------------------------------------------------------------------
(* Closing *)

\* What the program knows of a door that is being lowered: with the motor on it
\* has come as far as its time, but for the second in which the motor started.
LowerOK ==
    IF relay2 THEN pos = 0 \/ pos + downAge <= DoorTravel + 1
              ELSE downAge + ticksLeft <= 1

\* This holds from slider_down()'s look at slider_wanted on, and a movement
\* with the motor off is one of this pass.
CloseInv ==
    /\ /\ ~tornDown
       /\ Lowering \/ (slider_state = "SLIDER_UP" /\ pc \in {"shell_down", "buttons_down"})
       => LowerOK
    /\ Lowering /\ ~relay2 => pc \in Requesting \cup (Deciding \ {"relay_stop"})

\* Within a pass LowerOK only depends on what is not stored in it.
LEMMA LowerKept ==
    ASSUME LowerOK, UNCHANGED <<relay2, pos, downAge, ticksLeft>>
    PROVE  LowerOK'
  BY DEF LowerOK

\* A movement that begins now.
LEMMA LowerBegins ==
    ASSUME TypeOK, downAge' = 0, ticksLeft' \in Nat, ticksLeft' <= 1, pos' = pos
    PROVE  LowerOK'
  <1>1. pos' = pos /\ pos \in Nat /\ pos <= DoorTravel
    BY AgeTypes
  <1>0. DoorTravel \in Nat
    BY LimitsAssumption
  <1>2. pos' + downAge' <= DoorTravel + 1
    BY <1>1, <1>0
  <1>3. downAge' + ticksLeft' <= 1
    <2> DEFINE t == ticksLeft'
               d == downAge'
    <2>1. t \in Nat /\ t <= 1 /\ d = 0
      OBVIOUS
    <2> HIDE DEF t, d
    <2>2. d + t <= 1
      BY <2>1
    <2> QED BY <2>2 DEF t, d
  <1> QED BY <1>2, <1>3 DEF LowerOK

\* A second of it.
LEMMA LowerTimer ==
    ASSUME TypeOK, DriveInv, LowerOK, TimerIsr, pc # "sleeping"
    PROVE  LowerOK'
  <1>1. /\ ticksLeft' = ticksLeft - 1
        /\ downAge' = Older(downAge, LoweringCap) \/ downAge' = Older(downAge, DownCap)
        /\ relay2' = relay2 /\ DoorMoves
    BY DEF TimerIsr, SecondPasses, relays
  <1>2. downAge' \in Nat /\ downAge' <= downAge + 1
    BY <1>1, OlderStep, AgeTypes, CapsType
  <1>3. relay2 => pos' = IF pos > 0 THEN pos - 1 ELSE pos
    BY <1>1 DEF DoorMoves, DriveInv, RelaysFollowSlider
  <1> QED BY <1>1, <1>2, <1>3, AgeTypes, LimitsAssumption DEF LowerOK

\* It holds initially.
LEMMA CloseInit == Init => CloseInv
  BY DEF Init, CloseInv, Lowering

\* A request for lowering begins the movement now, or finds it begun.
LEMMA LowerAsked ==
    ASSUME ~tornDown', TypeOK, Quick, CloseInv, SliderDownBegin,
           pc \in {"handle_shell", "handle_buttons"},
           slider_state = "SLIDER_UP", UNCHANGED <<relay2, pos, ticksLeft>>
    PROVE  LowerOK'
  <1>1. ticksLeft \in Nat /\ ticksLeft <= 1
    BY AgeTypes DEF Quick, Blocking
  <1>2. CASE slider_wanted = "SLIDER_DOWN"
    BY <1>2, LowerKept DEF SliderDownBegin, CloseInv, Lowering
  <1>3. CASE slider_wanted # "SLIDER_DOWN"
    <2>1. downAge' = 0
      BY <1>3 DEF SliderDownBegin
    <2>2. ticksLeft' \in Nat /\ ticksLeft' <= 1 /\ pos' = pos
      BY <1>1
    <2> QED BY <2>1, <2>2, LowerBegins
  <1> QED BY <1>2, <1>3

\* The main program preserves it.
LEMMA CloseMain ==
    ASSUME TypeOK, DriveInv, Quick, CloseInv, Main
    PROVE  CloseInv'
  <1> USE DEF Lowering, Requesting, Deciding, Goto, slider, relays, timers, torn
  <1>1. CASE Startup \/ StartupWarn \/ HandleTime
    <2>1. /\ pc \notin Requesting \cup Deciding
          /\ pc' \notin Requesting \cup Deciding
          /\ UNCHANGED <<slider, relays, pos, downAge, tornDown>>
      BY <1>1 DEF Startup, StartupWarn, HandleTime
    <2>2. Lowering => relay2
      BY <2>1 DEF CloseInv
    <2> QED BY <2>1, <2>2 DEF CloseInv, LowerOK
  <1>2. CASE HandleShell
    <2>1. /\ UNCHANGED <<slider, relays, pos, ticksLeft>>
          /\ pc = "handle_shell"
          /\ pc' \in {"shell_up", "shell_down", "handle_buttons"}
      BY <1>2 DEF HandleShell, Blocking
    <2>2. CASE SliderDownBegin /\ pc' = "shell_down"
      <3>1. slider_state = "SLIDER_UP" /\ ~tornDown' => LowerOK'
        BY <2>1, <2>2, LowerAsked
      <3> QED BY <2>1, <2>2, <3>1 DEF CloseInv
    <2>3. CASE UNCHANGED <<downAge, tornDown>> /\ pc' # "shell_down"
      BY <2>1, <2>3, LowerKept DEF CloseInv
    <2> QED BY <1>2, <2>2, <2>3 DEF HandleShell
  <1>3. CASE ShellStore
    <2>1. /\ UNCHANGED <<slider_state, relays, pos, downAge, ticksLeft, tornDown>>
          /\ pc' = "handle_buttons"
          /\ \/ pc = "shell_up" /\ slider_wanted' = "SLIDER_UP"
             \/ pc = "shell_down" /\ slider_wanted' = "SLIDER_DOWN"
      BY <1>3 DEF ShellStore, Blocking
    <2> QED BY <2>1, LowerKept DEF CloseInv
  <1>4. CASE HandleButtons
    <2>1. /\ UNCHANGED <<slider, relays, pos, ticksLeft>>
          /\ pc = "handle_buttons"
          /\ pc' \in {"buttons_up", "buttons_down", "handle_slider"}
      BY <1>4 DEF HandleButtons, Blocking
    <2>2. CASE SliderDownBegin /\ pc' = "buttons_down"
      <3>1. slider_state = "SLIDER_UP" /\ ~tornDown' => LowerOK'
        BY <2>1, <2>2, LowerAsked
      <3> QED BY <2>1, <2>2, <3>1 DEF CloseInv
    <2>3. CASE UNCHANGED <<downAge, tornDown>> /\ pc' # "buttons_down"
      BY <2>1, <2>3, LowerKept DEF CloseInv
    <2> QED BY <1>4, <2>2, <2>3 DEF HandleButtons
  <1>5. CASE ButtonsUp
    <2>1. /\ UNCHANGED <<slider_state, relays, pos, ticksLeft>>
          /\ pc = "buttons_up"
          /\ slider_wanted' = "SLIDER_UP" /\ pc' \in {"buttons_down", "handle_slider"}
          /\ pc' = "buttons_down" /\ ~tornDown' => downAge' = 0
      BY <1>5 DEF ButtonsUp, Blocking
    <2>2. ticksLeft \in Nat /\ ticksLeft <= 1
      BY <2>1, AgeTypes DEF Quick, Blocking
    <2>3. ticksLeft' \in Nat /\ ticksLeft' <= 1 /\ pos' = pos
      BY <2>1, <2>2
    <2>4. pc' = "buttons_down" /\ ~tornDown' => LowerOK'
      BY <2>1, <2>3, LowerBegins
    <2> QED BY <2>1, <2>4 DEF CloseInv
  <1>6. CASE ButtonsDown
    <2>1. /\ UNCHANGED <<slider_state, relays, pos, downAge, ticksLeft, tornDown>>
          /\ pc = "buttons_down" /\ pc' \in {"buttons_both", "handle_slider"}
      BY <1>6 DEF ButtonsDown, Blocking
    <2> QED BY <2>1, LowerKept DEF CloseInv
  <1>7. CASE ButtonsBoth
    BY <1>7 DEF ButtonsBoth, CloseInv
  <1>8. CASE HandleSlider
    <2>1. /\ UNCHANGED <<slider_wanted, relays, pos, downAge, ticksLeft, tornDown>>
          /\ pc = "handle_slider" /\ pc' = "slider_down_stop"
          /\ slider_state' = slider_state \/ slider_wanted = "SLIDER_UP"
      BY <1>8 DEF HandleSlider, Blocking
    <2>2. LowerOK => LowerOK'
      BY <2>1, LowerKept
    <2>3. Lowering' => Lowering
      BY <2>1
    <2> QED BY <2>1, <2>2, <2>3 DEF CloseInv
  <1>9. CASE SliderDownStop \/ SliderUpStop
    <2>1. /\ UNCHANGED <<slider_wanted, relays, pos, downAge, ticksLeft>>
          /\ ~tornDown' => ~tornDown
          /\ pc \in {"slider_down_stop", "slider_up_stop"}
          /\ pc' \in {"slider_up_stop", "relay_start"}
          /\ slider_state' = slider_state \/ slider_state' = slider_wanted
      BY <1>9, StopSteps
    <2>2. LowerOK => LowerOK'
      BY <2>1, LowerKept
    <2>3. Lowering' => Lowering
      BY <2>1
    <2> QED BY <2>1, <2>2, <2>3 DEF CloseInv
  <1>10. CASE RelayStart
    <2>1. /\ UNCHANGED <<slider, pos, downAge, ticksLeft, tornDown>>
          /\ pc = "relay_start"
          /\ pc' \in {"relay_stop", "handle_esp"}
          /\ Lowering => relay2' /\ pc' = "handle_esp"
      BY <1>10, AgeTypes DEF RelayStart, Blocking, SliderPos
    <2>2. Lowering /\ ~tornDown => LowerOK'
      <3> SUFFICES ASSUME Lowering, ~tornDown PROVE LowerOK'
        OBVIOUS
      <3>1. pos = 0 \/ pos + downAge <= DoorTravel + 1
        BY AgeTypes, LimitsAssumption DEF CloseInv, LowerOK
      <3>2. relay2' /\ pos' = pos /\ downAge' = downAge
        BY <2>1
      <3> QED BY <3>1, <3>2 DEF LowerOK
    <2>3. Lowering' => Lowering /\ relay2' /\ pc' = "handle_esp"
      BY <2>1
    <2> QED BY <2>1, <2>2, <2>3 DEF CloseInv
  <1>11. CASE RelayStop
    <2>1. /\ UNCHANGED <<slider, pos, downAge, ticksLeft, tornDown>>
          /\ pc = "relay_stop"
          /\ pc' = "handle_esp"
          /\ slider_state # slider_wanted => UNCHANGED relay2
      BY <1>11 DEF RelayStop, Blocking
    <2>2. Lowering' => Lowering /\ UNCHANGED relay2
      BY <2>1
    <2>3. Lowering /\ LowerOK => LowerOK'
      BY <2>1, <2>2, LowerKept
    <2> QED BY <2>1, <2>2, <2>3 DEF CloseInv
  <1>12. CASE /\ pc \notin BeforeRelays \cup Deciding
              /\ pc' \notin Requesting \cup Deciding
              /\ UNCHANGED <<slider, relays, pos, upAge, downAge, torn>>
    <2>1. Lowering => relay2
      BY <1>12 DEF CloseInv, BeforeRelays
    <2> QED BY <1>12, <2>1 DEF CloseInv, LowerOK
  <1> QED
    BY <1>1, <1>2, <1>3, <1>4, <1>5, <1>6, <1>7, <1>8, <1>9, <1>10, <1>11,
       <1>12, MovementSteps

\* So does every interrupt: it can only want the door up.
LEMMA CloseNext ==
    ASSUME TypeOK, DriveInv, Quick, CloseInv, [Next]_vars
    PROVE  CloseInv'
  <1>1. CASE Main
    BY <1>1, CloseMain
  <1>2. CASE TimerIsr
    <2>1. /\ slider_wanted' = slider_wanted \/ slider_wanted' = "SLIDER_UP"
          /\ UNCHANGED <<slider_state, relay2, tornDown>>
          /\ pc' = pc \/ (pc = "sleeping" /\ pc' = "sleep_check")
      BY <1>2 DEF TimerIsr, SecondPasses, IsrSliderUp, relays
    <2>2. LowerOK /\ pc # "sleeping" => LowerOK'
      BY <1>2, LowerTimer
    <2>3. Lowering => pc # "sleeping"
      BY DEF Lowering, DriveInv, SleepPhase, Sleep
    <2> QED BY <2>1, <2>2, <2>3 DEF CloseInv, Lowering, Requesting, Deciding
  <1>3. CASE ButtonIsr
    <2>1. /\ UNCHANGED <<slider, relay2, downAge, pos, ticksLeft>>
          /\ pc \in Sleep /\ pc' \in Sleep
      BY <1>3 DEF ButtonIsr, Asleep, Sleep, relays, timers
    <2>2. ~Lowering
      BY <2>1 DEF Lowering, DriveInv, SleepPhase
    <2> QED BY <2>1, <2>2 DEF CloseInv, Lowering, slider, Sleep
  <1>4. CASE UNCHANGED vars
    BY <1>4 DEF vars, slider, relays, timers, torn, CloseInv, Lowering, LowerOK
  <1> QED BY <1>1, <1>2, <1>3, <1>4 DEF Next

\* The door can be lowered in the time the program gives it.
LowersInTime == DoorTravel <= SLIDER_DOWN_TIME

\* The program comes to take the door for closed only when it is at its lower end,
\* if no timestamp of the closing was torn, whenever the opening time comes and
\* whoever interferes (main.c:347-350).
THEOREM ClosedIsClosed ==
    ASSUME LowersInTime
    PROVE  Spec => ClosesFully
  <1>1. Init /\ [][Next]_vars => [](TypeOK /\ DriveInv /\ Quick /\ CloseInv)
    <2>1. TypeOK /\ DriveInv /\ Quick /\ CloseInv /\ [Next]_vars => CloseInv'
      BY CloseNext
    <2> QED BY <2>1, CloseInit, TypeCorrect, DriveInvariant, QuickInvariant, PTL DEF Spec
  <1>2. TypeOK /\ DriveInv /\ Quick /\ CloseInv /\ [Next]_vars
        => [slider_state = "SLIDER_UP" /\ slider_state' = "SLIDER_DOWN" /\ ~tornDown'
            => pos = 0]_vars
    <2> SUFFICES ASSUME TypeOK, CloseInv, [Next]_vars,
                        slider_state = "SLIDER_UP", slider_state' = "SLIDER_DOWN",
                        ~tornDown'
                 PROVE  pos = 0
      OBVIOUS
    <2>1. SliderDownStop
      BY StateSteps DEF HandleSlider, SliderUpStop
    <2>2. Lowering /\ downAge > SLIDER_DOWN_TIME /\ ~tornDown
      BY <2>1 DEF SliderDownStop, Outcomes
    <2> QED BY <2>2, AgeTypes, LimitsAssumption DEF CloseInv, LowerOK, LowersInTime
  <1> QED BY <1>1, <1>2, PTL DEF Spec, ClosesFully

-----------------------------------------------------------------------------
(* Stopping *)

\* Once slider_down_stop has seen that the time is not over, it is over by no
\* more than the second that may pass before the pass reaches handle_esp().
StopInv ==
    /\ Lowering /\ ~tornDown
    /\ pc \in {"slider_up_stop", "relay_start", "relay_stop", "handle_esp"}
    => downAge + ticksLeft <= SLIDER_DOWN_TIME + 1

\* It is an invariant, also with alarms.
LEMMA StopNext ==
    ASSUME TypeOK, Quick, StopInv, [Next]_vars
    PROVE  StopInv'
  <1> USE DEF Lowering, Goto, Blocking, slider, timers, torn
  <1>0. /\ ticksLeft \in Nat
        /\ downAge \in Nat
        /\ SLIDER_DOWN_TIME \in Nat
    BY AgeTypes, LimitsAssumption
  <1>1. CASE SliderDownStop
    <2>1. /\ UNCHANGED <<downAge, ticksLeft>>
          /\ pc = "slider_down_stop"
          /\ Lowering' /\ ~tornDown' => ~(downAge > SLIDER_DOWN_TIME)
      BY <1>1 DEF SliderDownStop, Outcomes
    <2>2. ticksLeft <= 1
      BY <2>1 DEF Quick
    <2>3. ~(downAge > SLIDER_DOWN_TIME) => downAge + ticksLeft <= SLIDER_DOWN_TIME + 1
      BY <1>0, <2>2
    <2> QED BY <2>1, <2>3 DEF StopInv
  <1>2. CASE SliderUpStop
    <2>1. /\ UNCHANGED <<downAge, ticksLeft, tornDown>>
          /\ pc = "slider_up_stop"
          /\ Lowering' => Lowering
      BY <1>2 DEF SliderUpStop, Raising
    <2> QED BY <2>1 DEF StopInv
  <1>3. CASE RelayStart \/ RelayStop
    <2>1. /\ UNCHANGED <<slider, downAge, ticksLeft, tornDown>>
          /\ pc \in {"relay_start", "relay_stop"}
      BY <1>3 DEF RelayStart, RelayStop
    <2> QED BY <2>1 DEF StopInv
  <1>4. CASE TimerIsr
    <2>1. /\ slider_wanted' = slider_wanted \/ slider_wanted' = "SLIDER_UP"
          /\ UNCHANGED <<slider_state, tornDown>>
          /\ pc' = pc \/ (pc = "sleeping" /\ pc' = "sleep_check")
      BY <1>4 DEF TimerIsr, SecondPasses, IsrSliderUp
    <2>2. /\ pc # "sleeping" => ticksLeft' = ticksLeft - 1
          /\ downAge' \in Nat
          /\ downAge' <= downAge + 1
      BY <1>0, <1>4, OlderStep, CapsType DEF TimerIsr, SecondPasses
    <2>3. CASE /\ Lowering /\ ~tornDown
               /\ pc \in {"slider_up_stop", "relay_start", "relay_stop", "handle_esp"}
      <3>1. downAge + ticksLeft <= SLIDER_DOWN_TIME + 1
        BY <2>3 DEF StopInv
      <3>2. ticksLeft' = ticksLeft - 1
        BY <2>2, <2>3
      <3>3. downAge' + (ticksLeft - 1) <= SLIDER_DOWN_TIME + 1
        <4>1. SLIDER_DOWN_TIME + 1 \in Nat
          BY <1>0
        <4> QED BY <1>0, <2>2, <3>1, <4>1, OneSecondOn
      <3> QED BY <3>2, <3>3 DEF StopInv
    <2>4. CASE ~(/\ Lowering /\ ~tornDown
                 /\ pc \in {"slider_up_stop", "relay_start", "relay_stop", "handle_esp"})
      BY <2>1, <2>4 DEF StopInv
    <2> QED BY <2>3, <2>4
  <1>5. CASE ButtonIsr
    BY <1>5 DEF ButtonIsr, StopInv
  <1>6. CASE UNCHANGED vars
    BY <1>6 DEF vars, StopInv
  <1>7. CASE Main /\ ~(SliderDownStop \/ SliderUpStop \/ RelayStart \/ RelayStop)
    <2>1. pc' \notin {"slider_up_stop", "relay_start", "relay_stop", "handle_esp"}
      BY <1>7 DEF Main, Startup, StartupEsp, StartupWarn, HandleTime,
         TimeNotAvailable, TimeAnswer, TimeRetry, HandleShell, ShellStore,
         HandleButtons, ButtonsUp, ButtonsDown, ButtonsBoth, HandleSlider,
         HandleEsp, EspHello, EspStartup, EspOk, EspRetry, HandleSleep,
         SleepEnter, SleepTest, SleepCpu, WakeUp
    <2> QED BY <2>1 DEF StopInv
  <1> QED BY <1>1, <1>2, <1>3, <1>4, <1>5, <1>6, <1>7 DEF Next

\* Seconds one attempt of esp_start_test() may take, and n of them.
AttemptTicks == 2 * BlockTicks + 1
Spent(n) == n * AttemptTicks

\* The attempts are those of one call.
LEMMA SpentSteps ==
    /\ AttemptTicks \in Nat /\ EspTicks \in Nat
    /\ Spent(0) = 0
    /\ \A n \in Nat : /\ Spent(n) \in Nat
                      /\ Spent(n + 1) = Spent(n) + AttemptTicks
                      /\ n + 1 <= EspTries => Spent(n + 1) <= EspTicks
  <1> DEFINE a == AttemptTicks
  <1>1. a \in Nat /\ EspTries \in Nat
    BY LimitsAssumption DEF AttemptTicks
  <1>2. EspTicks = EspTries * a
    BY DEF EspTicks, AttemptTicks
  <1>3. \A n \in Nat : n * a \in Nat /\ (n + 1) * a = n * a + a
    <2> HIDE DEF a
    <2> QED BY <1>1
  <1>4. ASSUME NEW m \in Nat, NEW n \in Nat, m <= n
        PROVE  m * a <= n * a
    <2> HIDE DEF a
    <2>1. PICK k \in Nat : n = m + k
      <3>1. n - m \in Nat /\ n = m + (n - m)
        BY <1>4
      <3> QED BY <3>1
    <2>2. n * a = m * a + k * a /\ k * a \in Nat /\ m * a \in Nat
      BY <1>1, <2>1
    <2> QED BY <2>2
  <1> HIDE DEF a
  <1>5. \A n \in Nat : n + 1 <= EspTries => (n + 1) * a <= EspTries * a
    BY <1>1, <1>4
  <1>6. EspTries * a \in Nat /\ 0 * a = 0
    BY <1>1, <1>3
  <1> QED BY <1>1, <1>2, <1>3, <1>5, <1>6 DEF Spent, a

\* How long the motor may have lowered the door at each point: beyond the time limit it
\* only does so in esp_start_test(), with what its attempts have taken so far, and
\* in the pass that follows.
LowerTime ==
    relay2 =>
        /\ pc \notin {"startup", "startup_esp", "startup_warn", "time_tries"}
        /\ ~tornDown =>
            /\ downAge + ticksLeft <= SLIDER_DOWN_TIME + 2 + EspTicks
            /\ pc = "handle_sleep" => downAge + ticksLeft <= SLIDER_DOWN_TIME + 1 + EspTicks
            /\ pc \in {"esp_hello", "esp_startup", "esp_answer"} =>
                /\ tries + 1 <= EspTries
                /\ downAge + ticksLeft <=
                        SLIDER_DOWN_TIME + 1 + Spent(tries)
                            + (CASE pc = "esp_hello"   -> 0
                                 [] pc = "esp_startup" -> BlockTicks
                                 [] OTHER              -> 2 * BlockTicks)

\* What the steps below calculate with.
LEMMA LowerNumbers ==
    ASSUME TypeOK
    PROVE  /\ ticksLeft \in Nat /\ downAge \in Nat /\ tries \in Nat
           /\ SLIDER_DOWN_TIME \in Nat /\ BlockTicks \in Nat
           /\ EspTries \in Nat /\ EspTries >= 1
           /\ TimeTries \in Nat
  BY AgeTypes, LimitsAssumption DEF TypeOK, DataOK

\* handle_esp() finds the motor within the time limit.
LEMMA AtHandleEsp ==
    ASSUME TypeOK, ManualInv, StopInv, pc = "handle_esp", relay2, ~tornDown
    PROVE  downAge + ticksLeft <= SLIDER_DOWN_TIME + 1
  BY DEF ManualInv, StopInv, Lowering, Deciding, Requesting

\* The main program preserves it.
LEMMA LowerTimeMain ==
    ASSUME TypeOK, Quick, ManualInv, StopInv, LowerTime, Main
    PROVE  LowerTime'
  <1> SUFFICES ASSUME relay2' PROVE LowerTime'
    BY DEF LowerTime
  <1> USE DEF Goto, slider, relays, timers, torn
  <1>0. /\ ticksLeft \in Nat /\ downAge \in Nat /\ tries \in Nat
        /\ SLIDER_DOWN_TIME \in Nat /\ BlockTicks \in Nat
        /\ EspTries \in Nat /\ EspTries >= 1
    BY LowerNumbers
  <1>1. ASSUME UNCHANGED <<relay2, downAge, ticksLeft, tornDown>>,
               pc' \notin Blocking \cup {"handle_sleep", "esp_hello"}
        PROVE  LowerTime'
    BY <1>1 DEF LowerTime, Blocking
  <1>2. CASE Startup \/ StartupEsp \/ StartupWarn \/ TimeNotAvailable \/ TimeAnswer
             \/ TimeRetry \/ SleepEnter \/ SleepTest \/ SleepCpu \/ WakeUp
    <2>1. /\ UNCHANGED relay2
          /\ pc \in {"startup", "startup_esp", "startup_warn", "time_tries", "sleep_sound",
                    "sleep_check", "sleep_cpu"}
      BY <1>2 DEF Startup, StartupEsp, StartupWarn, TimeNotAvailable, TimeAnswer,
         TimeRetry, SleepEnter, SleepTest, SleepCpu, WakeUp
    <2>2. ~relay2
      BY <2>1 DEF LowerTime, ManualInv, Sleep, Deciding, Requesting
    <2> QED BY <2>1, <2>2
  <1>3. CASE HandleTime
    <2>1. UNCHANGED <<slider, relay2, downAge, tornDown>> /\ pc = "handle_time"
      BY <1>3 DEF HandleTime
    <2>2. slider_wanted # slider_state
      BY <2>1 DEF ManualInv, Deciding, Requesting
    <2>3. pc' = "handle_shell" /\ ticksLeft' = ticksLeft
      BY <1>3, <2>2 DEF HandleTime, Blocking
    <2> QED BY <1>1, <2>1, <2>3 DEF Blocking
  <1>4. CASE HandleShell \/ HandleButtons \/ ButtonsUp
    <2>1. /\ UNCHANGED <<relay2, ticksLeft>>
          /\ pc \in {"handle_shell", "handle_buttons", "buttons_up"}
          /\ pc' \in {"shell_up", "shell_down", "handle_buttons", "buttons_up",
                      "buttons_down", "handle_slider"}
          /\ \/ UNCHANGED <<downAge, tornDown>>
             \/ ~tornDown' => downAge' = 0
      BY <1>4 DEF HandleShell, HandleButtons, ButtonsUp, SliderDownBegin, Blocking
    <2>2. CASE UNCHANGED <<downAge, tornDown>>
      BY <1>1, <2>1, <2>2 DEF Blocking
    <2>3. CASE ~tornDown' => downAge' = 0
      <3>1. ticksLeft <= 1
        BY <2>1 DEF Quick, Blocking
      <3>2. 0 + ticksLeft <= SLIDER_DOWN_TIME + 2 + EspTicks
        BY <1>0, <3>1, SpentSteps
      <3>3. ~tornDown' => downAge' + ticksLeft' <= SLIDER_DOWN_TIME + 2 + EspTicks
        BY <2>1, <2>3, <3>2
      <3> QED BY <2>1, <3>3 DEF LowerTime
    <2> QED BY <2>1, <2>2, <2>3
  <1>5. CASE ShellStore \/ ButtonsDown \/ ButtonsBoth \/ HandleSlider \/ SliderUpStop
    <2>1. /\ UNCHANGED <<relay2, downAge, ticksLeft, tornDown>>
          /\ pc' \in {"handle_buttons", "buttons_both", "handle_slider", "slider_down_stop",
                      "relay_start"}
      BY <1>5 DEF ShellStore, ButtonsDown, ButtonsBoth, HandleSlider, SliderUpStop, Blocking
    <2> QED BY <1>1, <2>1 DEF Blocking
  <1>6. CASE SliderDownStop
    <2>1. /\ UNCHANGED <<relay2, downAge, ticksLeft>>
          /\ ~tornDown' => ~tornDown
          /\ pc' = "slider_up_stop"
      BY <1>6 DEF SliderDownStop, Blocking
    <2> QED BY <2>1 DEF LowerTime
  <1>7. CASE RelayStart \/ RelayStop
    <2>1. /\ UNCHANGED <<downAge, ticksLeft, tornDown>>
          /\ pc' \in {"relay_stop", "handle_esp"}
          /\ pc \in {"relay_start", "relay_stop"}
          /\ relay2' = relay2 \/ Lowering
      BY <1>7, AgeTypes DEF RelayStart, RelayStop, Blocking, Lowering, SliderPos
    <2>2. CASE relay2' = relay2
      BY <1>1, <2>1, <2>2 DEF Blocking
    <2>3. CASE Lowering
      <3>1. ~tornDown => downAge + ticksLeft <= SLIDER_DOWN_TIME + 1
        BY <2>1, <2>3 DEF StopInv
      <3>2. ~tornDown => downAge + ticksLeft <= SLIDER_DOWN_TIME + 2 + EspTicks
        BY <1>0, <3>1, SpentSteps
      <3> QED BY <2>1, <3>2 DEF LowerTime
    <2> QED BY <2>1, <2>2, <2>3
  <1>8. CASE HandleEsp
    <2>1. /\ UNCHANGED <<relay2, downAge, ticksLeft, tornDown>>
          /\ pc = "handle_esp"
          /\ \/ pc' = "handle_sleep"
             \/ pc' = "esp_hello" /\ tries' = 0
      BY <1>8 DEF HandleEsp, Blocking
    <2>2. ~tornDown => downAge + ticksLeft <= SLIDER_DOWN_TIME + 1
      BY <2>1, AtHandleEsp
    <2>3. ~tornDown => /\ downAge + ticksLeft <= SLIDER_DOWN_TIME + 2 + EspTicks
                       /\ downAge + ticksLeft <= SLIDER_DOWN_TIME + 1 + EspTicks
                       /\ downAge + ticksLeft <= SLIDER_DOWN_TIME + 1 + Spent(0) + 0
      BY <1>0, <2>2, SpentSteps
    <2>4. 0 + 1 <= EspTries
      BY <1>0
    <2> QED BY <2>1, <2>3, <2>4 DEF LowerTime
  <1>9. CASE EspHello \/ EspStartup
    <2>1. /\ UNCHANGED <<relay2, downAge, tornDown, tries>>
          /\ ticksLeft' = BlockTicks
          /\ \/ pc = "esp_hello" /\ pc' \in {"esp_startup", "esp_answer"}
             \/ pc = "esp_startup" /\ pc' = "esp_answer"
      BY <1>9 DEF EspHello, EspStartup, Blocking
    <2>2. ASSUME ~tornDown
          PROVE  /\ tries + 1 <= EspTries
                 /\ downAge + BlockTicks <= SLIDER_DOWN_TIME + 1 + Spent(tries)
                        + (CASE pc' = "esp_hello"   -> 0
                             [] pc' = "esp_startup" -> BlockTicks
                             [] OTHER               -> 2 * BlockTicks)
      <3>1. tries + 1 <= EspTries
        BY <2>1, <2>2 DEF LowerTime
      <3>2. CASE pc = "esp_hello"
        <4>1. downAge + ticksLeft <= SLIDER_DOWN_TIME + 1 + Spent(tries) + 0
          BY <2>1, <2>2, <3>2 DEF LowerTime
        <4>2. /\ downAge + BlockTicks <= SLIDER_DOWN_TIME + 1 + Spent(tries) + BlockTicks
              /\ downAge + BlockTicks <= SLIDER_DOWN_TIME + 1 + Spent(tries) + 2 * BlockTicks
          BY <1>0, <4>1, SpentSteps
        <4> QED BY <2>1, <3>1, <3>2, <4>2
      <3>3. CASE pc = "esp_startup"
        <4>1. downAge + ticksLeft <= SLIDER_DOWN_TIME + 1 + Spent(tries) + BlockTicks
          BY <2>1, <2>2, <3>3 DEF LowerTime
        <4>2. downAge + BlockTicks <= SLIDER_DOWN_TIME + 1 + Spent(tries) + 2 * BlockTicks
          BY <1>0, <4>1, SpentSteps
        <4> QED BY <2>1, <3>1, <3>3, <4>2
      <3> QED BY <2>1, <3>2, <3>3
    <2>3. ~tornDown => downAge + BlockTicks <= SLIDER_DOWN_TIME + 2 + EspTicks
      <3> SUFFICES ASSUME ~tornDown PROVE downAge + BlockTicks <= SLIDER_DOWN_TIME + 2 + EspTicks
        OBVIOUS
      <3>1. downAge + BlockTicks <= SLIDER_DOWN_TIME + 1 + Spent(tries) + 2 * BlockTicks
        BY <1>0, <2>1, <2>2, SpentSteps
      <3>2. Spent(tries) + (2 * BlockTicks + 1) <= EspTicks /\ Spent(tries) \in Nat
        BY <1>0, <2>2, SpentSteps DEF AttemptTicks
      <3> QED BY <1>0, <3>1, <3>2, SpentSteps
    <2> QED BY <2>1, <2>2, <2>3 DEF LowerTime
  <1>10. CASE EspOk \/ EspRetry
    <2>1. /\ UNCHANGED <<relay2, downAge, tornDown>>
          /\ ticksLeft' = 1
          /\ pc = "esp_answer"
          /\ \/ pc' = "handle_sleep"
             \/ pc' = "esp_hello" /\ tries' = tries + 1 /\ tries + 1 < EspTries
      BY <1>10 DEF EspOk, EspRetry, Blocking
    <2>2. ASSUME ~tornDown
          PROVE  /\ downAge + 1 <= SLIDER_DOWN_TIME + 1 + Spent(tries + 1)
                 /\ Spent(tries + 1) <= EspTicks
                 /\ Spent(tries + 1) \in Nat
      <3>1. /\ tries + 1 <= EspTries
            /\ downAge + ticksLeft <= SLIDER_DOWN_TIME + 1 + Spent(tries) + 2 * BlockTicks
        BY <2>1, <2>2 DEF LowerTime
      <3>2. /\ Spent(tries + 1) = Spent(tries) + (2 * BlockTicks + 1)
            /\ Spent(tries) \in Nat
            /\ Spent(tries + 1) <= EspTicks
        BY <1>0, <3>1, SpentSteps DEF AttemptTicks
      <3> QED BY <1>0, <3>1, <3>2
    <2>3. ~tornDown => /\ downAge + 1 <= SLIDER_DOWN_TIME + 2 + EspTicks
                       /\ downAge + 1 <= SLIDER_DOWN_TIME + 1 + EspTicks
                       /\ downAge + 1 <= SLIDER_DOWN_TIME + 1 + Spent(tries + 1) + 0
      BY <1>0, <2>2, SpentSteps
    <2>4. pc' = "esp_hello" => tries' + 1 <= EspTries
      BY <1>0, <2>1
    <2> QED BY <2>1, <2>3, <2>4 DEF LowerTime
  <1>11. CASE HandleSleep
    <2>1. UNCHANGED <<slider, relay2, downAge, tornDown>> /\ pc = "handle_sleep"
      BY <1>11 DEF HandleSleep
    <2>2. slider_wanted # slider_state
      BY <2>1 DEF ManualInv, Deciding, Requesting
    <2>3. pc' = "handle_time" /\ ticksLeft' = 1
      BY <1>11, <2>2 DEF HandleSleep, MaySleep, Blocking
    <2>4. ~tornDown => downAge + ticksLeft <= SLIDER_DOWN_TIME + 1 + EspTicks
      BY <2>1 DEF LowerTime
    <2>5. ~tornDown => downAge + 1 <= SLIDER_DOWN_TIME + 2 + EspTicks
      BY <1>0, <2>4, SpentSteps
    <2> QED BY <2>1, <2>3, <2>5 DEF LowerTime
  <1> QED
    BY <1>2, <1>3, <1>4, <1>5, <1>6, <1>7, <1>8, <1>9, <1>10, <1>11 DEF Main

\* A second more for the age is one less for the program, which sleeps with the motor
\* off.
LEMMA LowerTimeNext ==
    ASSUME NoAlarms, TypeOK, Quick, ManualInv, StopInv, LowerTime, [Next]_vars
    PROVE  LowerTime'
  <1>1. CASE Main
    BY <1>1, LowerTimeMain
  <1>2. CASE TimerIsr
    <2>0. /\ ticksLeft \in Nat /\ downAge \in Nat /\ tries \in Nat
          /\ SLIDER_DOWN_TIME \in Nat /\ BlockTicks \in Nat
      BY LowerNumbers
    <2>1. UNCHANGED <<relay2, tornDown, tries>>
      BY <1>2 DEF TimerIsr, relays
    <2>2. relay2 => pc # "sleeping"
      BY DEF ManualInv, Sleep, Deciding, Requesting
    <2>3. pc # "sleeping" => pc' = pc /\ ticksLeft' = ticksLeft - 1
      BY <1>2 DEF TimerIsr, SecondPasses
    <2>4. downAge' \in Nat /\ downAge' <= downAge + 1
      BY <1>2, <2>0, OlderStep, CapsType DEF TimerIsr
    <2>6. \A limit \in Nat :
            downAge + ticksLeft <= limit => downAge' + (ticksLeft - 1) <= limit
      <3>1. \A d, e, n, limit \in Nat :
              e <= d + 1 /\ d + n <= limit => e + (n - 1) <= limit
        OBVIOUS
      <3> QED BY <2>0, <2>4, <3>1
    <2>7. /\ SLIDER_DOWN_TIME + 2 + EspTicks \in Nat
          /\ SLIDER_DOWN_TIME + 1 + EspTicks \in Nat
          /\ SLIDER_DOWN_TIME + 1 + Spent(tries) + (CASE pc = "esp_hello"   -> 0
                                                      [] pc = "esp_startup" -> BlockTicks
                                                      [] OTHER -> 2 * BlockTicks) \in Nat
      BY <2>0, SpentSteps
    <2> QED BY <2>1, <2>2, <2>3, <2>6, <2>7 DEF LowerTime
  <1>3. CASE ButtonIsr
    <2>1. UNCHANGED relay2 /\ pc \in Sleep
      BY <1>3 DEF ButtonIsr, Asleep, relays
    <2>2. ~relay2
      BY <2>1 DEF ManualInv, Sleep, Deciding, Requesting
    <2> QED BY <2>1, <2>2 DEF LowerTime
  <1>4. CASE UNCHANGED vars
    BY <1>4 DEF vars, relays, timers, torn, LowerTime
  <1> QED BY <1>1, <1>2, <1>3, <1>4 DEF Next

\* Without alarms and until a timestamp of the closing is torn, the motor lowers the
\* door for no longer than SLIDER_DOWN_TIME, the second it is noticed in and one call of
\* esp_start_test() with the second after it (main.c:154-178, 347-370, 520-525).
THEOREM LoweringStops ==
    ASSUME NoAlarms
    PROVE  Spec => []LoweringBounded
  <1>1. Init => StopInv /\ LowerTime
    BY DEF Init, StopInv, LowerTime
  <1>2. TypeOK /\ Quick /\ StopInv /\ [Next]_vars => StopInv'
    BY StopNext
  <1>3. TypeOK /\ Quick /\ ManualInv /\ StopInv /\ LowerTime /\ [Next]_vars => LowerTime'
    BY LowerTimeNext
  <1>4. TypeOK /\ ManualInv /\ StopInv /\ LowerTime => LoweringBounded
    <2> SUFFICES ASSUME TypeOK, ManualInv, StopInv, LowerTime, relay2, ~tornDown
                 PROVE  /\ downAge <= SLIDER_DOWN_TIME + 2 + EspTicks
                        /\ pc = "handle_esp" => downAge <= SLIDER_DOWN_TIME + 1
      BY DEF LoweringBounded
    <2>0. ticksLeft \in Nat /\ downAge \in Nat /\ SLIDER_DOWN_TIME \in Nat
      BY LowerNumbers
    <2>1. downAge + ticksLeft <= SLIDER_DOWN_TIME + 2 + EspTicks
      BY DEF LowerTime
    <2>2. downAge <= SLIDER_DOWN_TIME + 2 + EspTicks
      BY <2>0, <2>1, SpentSteps
    <2>3. pc = "handle_esp" => downAge <= SLIDER_DOWN_TIME + 1
      BY <2>0, AtHandleEsp
    <2> QED BY <2>2, <2>3
  <1> QED
    BY <1>1, <1>2, <1>3, <1>4, TypeCorrect, QuickInvariant, ManualInvariant, PTL DEF Spec

-----------------------------------------------------------------------------
(* The ESP8266 when the motor starts *)

\* A movement that has not been started is on its way to relay control with the
\* ESP8266 off, and who asks for one has switched it off.
EspInv ==
    /\ slider_state # slider_wanted /\ ~relay1 /\ ~relay2
        => pc \in BeforeRelays /\ ~esp_enable
    /\ pc \in {"shell_up", "buttons_up"} => slider_wanted = "SLIDER_UP" \/ ~esp_enable
    /\ pc \in {"shell_down", "buttons_down"} => slider_wanted = "SLIDER_DOWN" \/ ~esp_enable

\* It holds initially.
LEMMA EspInit == Init => EspInv
  BY DEF Init, EspInv, BeforeRelays

\* The main program preserves it.
LEMMA EspMain ==
    ASSUME DriveTypes, ManualInv, EspInv, Main
    PROVE  EspInv'
  <1> USE DEF DriveTypes, EspInv, Requesting, Deciding, BeforeRelays, Goto, slider,
          relays, SliderPos
  <1>1. CASE Startup \/ StartupWarn \/ HandleTime
    BY <1>1 DEF Startup, StartupWarn, HandleTime
  <1>2. CASE HandleShell
    BY <1>2 DEF HandleShell, SliderUpBegin, SliderDownBegin
  <1>3. CASE ShellStore
    BY <1>3 DEF ShellStore
  <1>4. CASE HandleButtons
    BY <1>4 DEF HandleButtons, SliderUpBegin, SliderDownBegin
  <1>5. CASE ButtonsUp
    BY <1>5 DEF ButtonsUp
  <1>6. CASE ButtonsDown \/ ButtonsBoth
    BY <1>6 DEF ButtonsDown, ButtonsBoth
  <1>7. CASE HandleSlider \/ SliderDownStop \/ SliderUpStop
    BY <1>7, StopSteps DEF HandleSlider
  <1>8. CASE RelayStart
    BY <1>8 DEF RelayStart
  <1>9. CASE RelayStop
    BY <1>9 DEF RelayStop, ManualInv
  <1>10. CASE /\ pc \notin BeforeRelays \cup Deciding
              /\ pc' \notin Requesting \cup Deciding
              /\ UNCHANGED <<slider, relays, pos, upAge, downAge, torn>>
    <2>1. pc' \notin {"shell_up", "buttons_up", "shell_down", "buttons_down"}
      BY <1>10
    <2>2. ~(slider_state # slider_wanted /\ ~relay1 /\ ~relay2)
      BY <1>10
    <2> QED BY <1>10, <2>1, <2>2
  <1> QED
    BY <1>1, <1>2, <1>3, <1>4, <1>5, <1>6, <1>7, <1>8, <1>9, <1>10, MovementSteps

\* Without alarms it is an invariant.
LEMMA EspInvariant ==
    ASSUME NoAlarms
    PROVE  Spec => []EspInv
  <1>1. TypeOK /\ ManualInv /\ EspInv /\ [Next]_vars => EspInv'
    <2> SUFFICES ASSUME TypeOK, ManualInv, EspInv, [Next]_vars PROVE EspInv'
      OBVIOUS
    <2>1. CASE Main
      BY <2>1, EspMain DEF TypeOK, DataOK, DriveTypes
    <2>2. CASE TimerIsr
      <3>1. /\ UNCHANGED <<slider_state, slider_wanted, relay1, relay2, esp_enable>>
            /\ pc' = pc \/ (pc = "sleeping" /\ pc' = "sleep_check")
        BY <2>2 DEF TimerIsr, SecondPasses, NoAlarms, relays
      <3> QED BY <3>1 DEF EspInv, BeforeRelays, Requesting
    <2>3. CASE ButtonIsr
      BY <2>3 DEF ButtonIsr, Asleep, Sleep, slider, relays, EspInv, BeforeRelays,
         Requesting
    <2>4. CASE UNCHANGED vars
      BY <2>4 DEF vars, slider, relays, EspInv
    <2> QED BY <2>1, <2>2, <2>3, <2>4 DEF Next
  <1> QED BY <1>1, EspInit, TypeCorrect, ManualInvariant, PTL DEF Spec

\* Without alarms the ESP8266 has been switched off by the time the motor starts,
\* however the timestamps are read (main.c:144-145, 166-167).
THEOREM StartsWithEspOff ==
    ASSUME NoAlarms
    PROVE  Spec => MotorStartsWithEspOff
  <1>1. TypeOK /\ EspInv /\ [Next]_vars
        => [~relay1 /\ ~relay2 /\ (relay1' \/ relay2') => ~esp_enable']_vars
    <2> SUFFICES ASSUME TypeOK, EspInv, [Next]_vars, ~relay1, ~relay2, relay1' \/ relay2'
                 PROVE  ~esp_enable'
      OBVIOUS
    <2>1. CASE RelayStart
      BY <2>1 DEF RelayStart, relays, EspInv
    <2>2. CASE RelayStop
      BY <2>2 DEF RelayStop, relays
    <2>3. CASE UNCHANGED relays
      BY <2>3 DEF relays
    <2> QED BY <2>1, <2>2, <2>3, RelaySteps
  <1> QED BY <1>1, TypeCorrect, EspInvariant, PTL DEF Spec, MotorStartsWithEspOff

-----------------------------------------------------------------------------
(* Opening *)

\* The most seconds between an opening's begin and the start of the motor: those
\* of the startup, in which the first opening waits.
Slack == 2 * BlockTicks + 1

\* Seconds the program may still take to relay control.
TicksToGo ==
    CASE pc = "startup"      -> ticksLeft + BlockTicks + 1
      [] pc = "startup_warn" -> ticksLeft + 1
      [] OTHER               -> ticksLeft

\* What the program knows of a door that is being raised.
RaiseOK ==
    IF relay1 THEN pos = DoorTravel \/ upAge <= pos + Slack
              ELSE upAge + TicksToGo <= Slack

\* This holds for every opening, and who asks for one has just begun it.
OpenInv ==
    /\ Raising /\ ~tornUp => RaiseOK
    /\ pc \in {"shell_up", "buttons_up"} /\ ~tornUp =>
        slider_wanted = "SLIDER_UP" \/ upAge + ticksLeft <= 1

\* It holds initially.
LEMMA OpenInit == Init => OpenInv
  BY LimitsAssumption DEF Init, OpenInv, RaiseOK, Slack, TicksToGo

\* Within a pass RaiseOK only depends on what is not stored in it.
LEMMA RaiseKept ==
    ASSUME RaiseOK, UNCHANGED <<relay1, pos, upAge, ticksLeft>>,
           pc \notin {"startup", "startup_warn"}, pc' \notin {"startup", "startup_warn"}
    PROVE  RaiseOK'
  BY DEF RaiseOK, TicksToGo

\* A movement that began in this pass.
LEMMA RaiseBegins ==
    ASSUME TypeOK, upAge + ticksLeft <= 1, UNCHANGED <<relay1, pos, upAge, ticksLeft>>,
           pc' \notin {"startup", "startup_warn"}
    PROVE  RaiseOK'
  <1>1. /\ ticksLeft \in Nat
        /\ upAge \in Nat
        /\ pos \in Nat
        /\ BlockTicks \in Nat
    BY AgeTypes, LimitsAssumption
  <1>2. /\ upAge <= pos + Slack
        /\ upAge + ticksLeft <= Slack
    BY <1>1 DEF Slack
  <1> QED BY <1>2 DEF RaiseOK, TicksToGo

\* The main program preserves it.
LEMMA OpenMain ==
    ASSUME TypeOK, Quick, ManualInv, EspInv, OpenInv, Main
    PROVE  OpenInv'
  <1> USE DEF Raising, Goto, slider, relays, timers, torn
  <1>0. /\ ticksLeft \in Nat
        /\ upAge \in Nat
        /\ BlockTicks \in Nat
    BY AgeTypes, LimitsAssumption
  <1>1. CASE Startup \/ StartupWarn \/ HandleTime
    <2>1. /\ UNCHANGED <<slider, relays, pos, upAge, tornUp>>
          /\ pc' \notin {"shell_up", "buttons_up"}
      BY <1>1 DEF Startup, StartupWarn, HandleTime
    <2>2. Raising => TicksToGo' <= TicksToGo /\ TicksToGo' \in Nat /\ TicksToGo \in Nat
      BY <1>0, <1>1 DEF Startup, StartupWarn, HandleTime, TicksToGo, Blocking
    <2>3. Raising /\ ~tornUp => RaiseOK'
      <3> SUFFICES ASSUME Raising, ~tornUp PROVE RaiseOK'
        OBVIOUS
      <3>1. RaiseOK
        BY DEF OpenInv
      <3>2. CASE relay1
        BY <2>1, <3>1, <3>2 DEF RaiseOK
      <3>3. CASE ~relay1
        <4>1. upAge + TicksToGo <= Slack
          BY <3>1, <3>3 DEF RaiseOK
        <4>2. upAge + TicksToGo' <= Slack
          BY <1>0, <2>2, <4>1 DEF Slack
        <4> QED BY <2>1, <3>3, <4>2 DEF RaiseOK
      <3> QED BY <3>2, <3>3
    <2> QED BY <2>1, <2>3 DEF OpenInv
  <1>2. CASE HandleShell \/ HandleButtons
    <2>1. /\ UNCHANGED <<slider, relays, pos, ticksLeft>>
          /\ pc \in {"handle_shell", "handle_buttons"}
          /\ pc' \in {"shell_up", "shell_down", "handle_buttons", "buttons_up",
                      "buttons_down", "handle_slider"}
          /\ \/ UNCHANGED <<upAge, tornUp>> /\ pc' \notin {"shell_up", "buttons_up"}
             \/ SliderUpBegin
      BY <1>2 DEF HandleShell, HandleButtons, Blocking
    <2>2. CASE UNCHANGED <<upAge, tornUp>> /\ (pc' \in {"shell_up", "buttons_up"} => slider_wanted = "SLIDER_UP")
      BY <2>1, <2>2, RaiseKept DEF OpenInv
    <2>3. CASE SliderUpBegin /\ slider_wanted # "SLIDER_UP"
      <3>1. ~tornUp' => upAge' = 0
        BY <2>3 DEF SliderUpBegin
      <3>2. ticksLeft <= 1
        BY <2>1 DEF Quick, Blocking
      <3>3. 0 + ticksLeft <= 1
        BY <1>0, <3>2
      <3>4. ~tornUp' => upAge' + ticksLeft' <= 1
        BY <2>1, <3>1, <3>3
      <3> QED BY <2>1, <2>3, <3>4 DEF OpenInv
    <2> QED BY <2>1, <2>2, <2>3 DEF SliderUpBegin
  <1>3. CASE ShellStore \/ ButtonsUp
    <2>1. /\ UNCHANGED <<slider_state, relays, pos, upAge, ticksLeft, tornUp>>
          /\ pc' \in {"handle_buttons", "buttons_down", "handle_slider"}
          /\ \/ pc \in {"shell_up", "buttons_up"} /\ slider_wanted' = "SLIDER_UP"
             \/ slider_wanted' = "SLIDER_DOWN"
          /\ pc \in {"shell_up", "shell_down", "buttons_up"}
      BY <1>3 DEF ShellStore, ButtonsUp, Blocking
    <2>2. CASE slider_wanted' = "SLIDER_UP" /\ slider_wanted = "SLIDER_UP"
      BY <2>1, <2>2, RaiseKept DEF OpenInv
    <2>3. CASE slider_wanted' = "SLIDER_UP" /\ slider_wanted # "SLIDER_UP"
      <3>1. ~tornUp => upAge + ticksLeft <= 1
        BY <2>1, <2>3 DEF OpenInv
      <3>2. ~tornUp => RaiseOK'
        BY <2>1, <3>1, RaiseBegins
      <3> QED BY <2>1, <3>2 DEF OpenInv
    <2>4. CASE slider_wanted' = "SLIDER_DOWN"
      BY <2>1, <2>4 DEF OpenInv
    <2> QED BY <2>1, <2>2, <2>3, <2>4
  <1>4. CASE ButtonsDown \/ ButtonsBoth
    BY <1>4 DEF ButtonsDown, ButtonsBoth, OpenInv
  <1>5. CASE HandleSlider \/ SliderDownStop \/ SliderUpStop
    <2>1. /\ UNCHANGED <<slider_wanted, relays, pos, upAge, ticksLeft>>
          /\ ~tornUp' => ~tornUp
          /\ pc \in {"handle_slider", "slider_down_stop", "slider_up_stop"}
          /\ pc' \in {"slider_down_stop", "slider_up_stop", "relay_start"}
          /\ slider_state' = slider_state \/ slider_state' = slider_wanted
      BY <1>5, StopSteps DEF HandleSlider, Blocking
    <2>2. Raising' => Raising
      BY <2>1
    <2>3. RaiseOK => RaiseOK'
      BY <2>1, RaiseKept
    <2>4. pc' \notin {"shell_up", "buttons_up"}
      BY <2>1
    <2>5. Raising' /\ ~tornUp' => RaiseOK'
      <3> SUFFICES ASSUME Raising', ~tornUp' PROVE RaiseOK'
        OBVIOUS
      <3>1. Raising /\ ~tornUp
        BY <2>1, <2>2
      <3> QED BY <2>3, <3>1 DEF OpenInv
    <2> QED BY <2>4, <2>5 DEF OpenInv
  <1>6. CASE RelayStart
    <2>1. /\ UNCHANGED <<slider, pos, upAge, ticksLeft, tornUp>>
          /\ pc = "relay_start"
          /\ pc' \in {"relay_stop", "handle_esp"}
          /\ Raising => relay1'
      BY <1>6, AgeTypes DEF RelayStart, Blocking, SliderPos
    <2>2. Raising /\ ~tornUp => upAge <= pos + Slack \/ pos = DoorTravel
      BY <1>0, <2>1, AgeTypes DEF OpenInv, RaiseOK, TicksToGo, Slack
    <2>3. Raising' => Raising /\ relay1'
      BY <2>1
    <2>4. Raising /\ ~tornUp => RaiseOK'
      BY <2>1, <2>2 DEF RaiseOK
    <2> QED BY <2>1, <2>3, <2>4 DEF OpenInv
  <1>7. CASE RelayStop
    <2>1. /\ UNCHANGED slider
          /\ pc = "relay_stop"
          /\ pc' = "handle_esp"
      BY <1>7 DEF RelayStop
    <2>2. slider_state = slider_wanted
      BY <2>1 DEF ManualInv
    <2> QED BY <2>1, <2>2 DEF OpenInv
  <1>8. CASE /\ pc \notin BeforeRelays \cup Deciding
             /\ pc' \notin Requesting \cup Deciding
             /\ UNCHANGED <<slider, relays, pos, upAge, downAge, torn>>
    <2>1. Raising => relay1
      <3> SUFFICES ASSUME Raising, ~relay1 PROVE FALSE
        OBVIOUS
      <3>1. ~relay2
        BY <1>8, AgeTypes DEF ManualInv
      <3> QED BY <1>8, <3>1 DEF EspInv
    <2>2. pc' \notin {"shell_up", "buttons_up"}
      BY <1>8 DEF Requesting
    <2>3. /\ Raising' => Raising
          /\ RaiseOK /\ relay1 => RaiseOK'
          /\ ~tornUp' => ~tornUp
      BY <1>8 DEF RaiseOK
    <2> QED BY <2>1, <2>2, <2>3 DEF OpenInv
  <1> QED
    BY <1>1, <1>2, <1>3, <1>4, <1>5, <1>6, <1>7, <1>8, MovementSteps

\* A second of a movement.
LEMMA OpenTimer ==
    ASSUME NoAlarms, TypeOK, DriveInv, ManualInv, EspInv, OpenInv, TimerIsr
    PROVE  OpenInv'
  <1>0. /\ ticksLeft \in Nat
        /\ upAge \in Nat
        /\ pos \in Nat
        /\ pos <= DoorTravel
        /\ DoorTravel \in Nat
        /\ Slack \in Nat
        /\ BlockTicks \in Nat
    BY AgeTypes, LimitsAssumption DEF Slack
  <1>1. /\ UNCHANGED <<slider_state, slider_wanted, relay1, relay2, tornUp>>
        /\ upAge' = Older(upAge, UpCap)
        /\ pc' = pc \/ (pc = "sleeping" /\ pc' = "sleep_check")
        /\ pc # "sleeping" => ticksLeft' = ticksLeft - 1 /\ ticksLeft > 0
        /\ DoorMoves
    BY DEF TimerIsr, SecondPasses, NoAlarms, relays
  <1>2. /\ upAge' \in Nat
        /\ upAge' <= upAge + 1
    BY <1>0, <1>1, OlderStep, CapsType
  <1>3. Raising /\ ~tornUp => RaiseOK'
    <2> SUFFICES ASSUME Raising, ~tornUp PROVE RaiseOK'
      OBVIOUS
    <2>1. ~relay2
      BY AgeTypes DEF Raising, ManualInv
    <2>2. RaiseOK
      BY DEF OpenInv
    <2>3. CASE relay1
      <3>1. pos' = IF pos < DoorTravel THEN pos + 1 ELSE pos
        BY <1>1, <2>1, <2>3 DEF DoorMoves
      <3>2. pos' = DoorTravel \/ upAge' <= pos' + Slack
        BY <1>0, <1>2, <2>2, <2>3, <3>1 DEF RaiseOK
      <3> QED BY <1>1, <2>3, <3>2 DEF RaiseOK
    <2>4. CASE ~relay1
      <3>1. pc \in BeforeRelays
        BY <2>1, <2>4 DEF EspInv, Raising
      <3>2. pc' = pc /\ ticksLeft' = ticksLeft - 1
        BY <1>1, <3>1 DEF BeforeRelays, Requesting
      <3>3. TicksToGo \in Nat /\ TicksToGo' = TicksToGo - 1
        BY <1>0, <3>2 DEF TicksToGo
      <3>4. upAge + TicksToGo <= Slack
        BY <2>2, <2>4 DEF RaiseOK
      <3>5. upAge' + (TicksToGo - 1) <= Slack
        BY <1>0, <1>2, <3>3, <3>4, OneSecondOn
      <3> QED BY <1>1, <2>4, <3>3, <3>5 DEF RaiseOK
    <2> QED BY <2>3, <2>4
  <1>4. ASSUME pc \in {"shell_up", "buttons_up"}, slider_wanted # "SLIDER_UP", ~tornUp
        PROVE  upAge' + ticksLeft' <= 1
    <2>1. upAge + ticksLeft <= 1
      BY <1>4 DEF OpenInv
    <2>2. upAge' + (ticksLeft - 1) <= 1
      BY <1>0, <1>2, <2>1, OneSecondOn
    <2> QED BY <1>1, <1>4, <2>2
  <1> QED BY <1>1, <1>3, <1>4 DEF OpenInv, Raising

\* Without alarms it is an invariant.
LEMMA OpenInvariant ==
    ASSUME NoAlarms
    PROVE  Spec => []OpenInv
  <1> DEFINE Known == TypeOK /\ DriveInv /\ Quick /\ ManualInv /\ EspInv
  <1>1. Known /\ OpenInv /\ [Next]_vars => OpenInv'
    <2> SUFFICES ASSUME Known, OpenInv, [Next]_vars PROVE OpenInv'
      OBVIOUS
    <2>1. CASE Main
      BY <2>1, OpenMain
    <2>2. CASE TimerIsr
      BY <2>2, OpenTimer
    <2>3. CASE ButtonIsr
      <3>1. /\ UNCHANGED <<slider, relays, pos, upAge, ticksLeft, tornUp>>
            /\ pc \in Sleep
            /\ pc' \in Sleep
        BY <2>3 DEF ButtonIsr, Asleep, Sleep, timers, torn
      <3>2. slider_state = slider_wanted
        BY <3>1 DEF ManualInv
      <3> QED BY <3>1, <3>2 DEF OpenInv, Raising, slider, Sleep
    <2>4. CASE UNCHANGED vars
      BY <2>4 DEF vars, slider, relays, timers, torn, OpenInv, Raising, RaiseOK, TicksToGo
    <2> QED BY <2>1, <2>2, <2>3, <2>4 DEF Next
  <1> QED
    BY <1>1, OpenInit, TypeCorrect, DriveInvariant, QuickInvariant, ManualInvariant,
       EspInvariant, PTL DEF Spec

\* The door can be raised in what the startup leaves of the time for an opening.
RaisesInTime == DoorTravel + 2 * BlockTicks <= SLIDER_UP_TIME_MAX

\* Without alarms the program comes to take the door for open only when it is at
\* its upper end, if no timestamp of the opening was torn: the reed contact says so,
\* or the motor has raised it for long enough, the first time also after the startup
\* (main.c:344-345, 352-355).
THEOREM OpenIsOpen ==
    ASSUME NoAlarms, RaisesInTime
    PROVE  Spec => OpensFully
  <1>1. TypeOK /\ OpenInv /\ [Next]_vars
        => [slider_state = "SLIDER_DOWN" /\ slider_state' = "SLIDER_UP" /\ ~tornUp'
            => pos = DoorTravel]_vars
    <2> SUFFICES ASSUME TypeOK, OpenInv, [Next]_vars,
                        slider_state = "SLIDER_DOWN", slider_state' = "SLIDER_UP",
                        ~tornUp'
                 PROVE  pos = DoorTravel
      OBVIOUS
    <2>1. CASE HandleSlider
      <3>1. PICK closed \in ReedClosed : reed_count' = Sampled(reed_count, closed)
        BY <2>1 DEF HandleSlider
      <3>2. Valid(reed_count')
        BY <2>1 DEF HandleSlider
      <3>3. closed
        BY <3>1, <3>2, LimitsAssumption DEF Sampled, Valid, ReedClosed
      <3> QED BY <3>3 DEF ReedClosed
    <2>2. CASE SliderUpStop
      <3>1. /\ Raising
            /\ pc = "slider_up_stop"
            /\ upAge > SLIDER_UP_TIME_MAX
            /\ ~tornUp
        BY <2>2 DEF SliderUpStop, Raising, Outcomes
      <3>2. IF relay1 THEN pos = DoorTravel \/ upAge <= pos + Slack
                      ELSE upAge + ticksLeft <= Slack
        BY <3>1 DEF OpenInv, RaiseOK, TicksToGo
      <3> QED
        BY <3>1, <3>2, AgeTypes, LimitsAssumption, StartupAssumption
        DEF Slack, RaisesInTime
    <2>3. CASE SliderDownStop \/ UNCHANGED slider_state
      BY <2>3 DEF SliderDownStop
    <2> QED BY <2>1, <2>2, <2>3, StateSteps
  <1> QED BY <1>1, TypeCorrect, OpenInvariant, PTL DEF Spec, OpensFully
=============================================================================

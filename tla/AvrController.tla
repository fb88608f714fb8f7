--------------------------- MODULE AvrController ---------------------------
(***************************************************************************)
(* The main loop of the slider door controller (src/avr/src/main.c) and    *)
(* the interrupt handlers that run between its instructions.               *)
(*                                                                         *)
(* The main program is one process with a program counter.  A step of it   *)
(* ends wherever an interrupt handler could make a difference: between two *)
(* accesses to the variables shared with TIMER0_OVF (slider_wanted,        *)
(* wakeup_slider, action_updtime, timestamp, time_correct, the ESP enable  *)
(* pin).  The handlers themselves run with interrupts off: one step each.  *)
(*                                                                         *)
(* Time.  The 64-bit timestamp only occurs in differences, so each         *)
(* remembered timestamp is replaced by its age in ticks (seconds) and the  *)
(* age stops growing just past the largest limit it is compared with.  The *)
(* time of day is abstracted to whether the opening time is reached in     *)
(* this second; module AlarmClock has the clock itself.                    *)
(*                                                                         *)
(* Duration.  ticksLeft bounds the seconds that may pass at a point of the *)
(* program: BlockTicks while it beeps, waits or starts the ESP8266, one    *)
(* in the rest of a pass through the main loop, which takes milliseconds.  *)
(***************************************************************************)
EXTENDS Naturals

CONSTANTS
    INPUT_VALID_COUNT,     \* samples before an input counts as valid (1000)
    CountMod,              \* the input counters are uint16_t (65536)
    SLIDER_DOWN_TIME,      \* seconds the motor lowers the door (6)
    SLIDER_UP_TIME_MAX,    \* seconds after which raising is given up (25)
    TIME_UPDATE_INTERVAL,  \* seconds between two time_get rounds (10)
    TIME_UPDATE_MAXAGE,    \* age at which a synchronisation is stale (20)
    MAX_WAKE_TIME,         \* seconds after which sleep needs no sync (360)
    TimeTries,             \* time_get requests in one round (4)
    EspTries,              \* hello requests in esp_start_test (12)
    BlockTicks,            \* bound: ticks during one blocking stretch
    DoorTravel,            \* seconds the door needs from one end to the other
    Alarms,                \* may the opening time come? a set of BOOLEANs
    ButtonInputs,          \* readings <<button 1, button 2>> that can occur
    Commands,              \* lines the UART can deliver to handle_shell
    TornReads              \* can reads of the 64-bit timestamp be torn?

ASSUME LimitsAssumption ==
    /\ INPUT_VALID_COUNT \in Nat
    /\ CountMod \in Nat \ {0}
    /\ SLIDER_DOWN_TIME \in Nat
    /\ SLIDER_UP_TIME_MAX \in Nat
    /\ TIME_UPDATE_INTERVAL \in Nat \ {0}
    /\ TIME_UPDATE_MAXAGE \in Nat
    /\ MAX_WAKE_TIME \in Nat
    /\ TimeTries \in Nat \ {0}
    /\ EspTries \in Nat \ {0}
    /\ BlockTicks \in Nat
    /\ DoorTravel \in Nat

ASSUME InputsAssumption ==
    /\ Alarms \subseteq BOOLEAN /\ FALSE \in Alarms
    /\ ButtonInputs \subseteq BOOLEAN \X BOOLEAN
    /\ Commands \subseteq {"other", "slider_up", "slider_down"}
    /\ TornReads \in BOOLEAN

\* Waking up (a short beep, then at most ten seconds of warnings) takes less
\* time than the program gives an opening.
ASSUME StartupAssumption == 2 * BlockTicks + 2 < SLIDER_UP_TIME_MAX

VARIABLES
    pc,                \* where the main program is
    ticksLeft,         \* ticks that may still happen before the program moves on
    slider_state,      \* what the program believes of the door
    slider_wanted,     \* where the door should be (written by the ISR, too)
    relay1,            \* motor relay "up" energised (pin low)
    relay2,            \* motor relay "down" energised (pin low)
    esp_enable,        \* ESP8266 enable pin
    pos,               \* the door itself: 0 is closed, DoorTravel is open
    upAge,             \* timestamp - slider_up_begin_timestamp
    downAge,           \* timestamp - slider_down_begin_timestamp
    syncAge,           \* timestamp - last_timesync_timestamp
    wakeAge,           \* timestamp - wakeup_timestamp
    updPhase,          \* timestamp % TIME_UPDATE_INTERVAL
    time_correct,
    action_updtime,
    wakeup_slider,
    wakeup_button,
    force_sleep,
    action_espreset,
    button1_count, button2_count, reed_count,
    tries,             \* loop counter of handle_time and esp_start_test
    tornUp, tornDown   \* has one of the reads behind upAge, downAge been torn?

timers == <<upAge, downAge, syncAge, wakeAge, updPhase>>
slider == <<slider_state, slider_wanted>>
relays == <<relay1, relay2>>
wakeups == <<wakeup_slider, wakeup_button>>
actions == <<action_updtime, action_espreset, force_sleep>>
counts == <<button1_count, button2_count, reed_count>>
torn == <<tornUp, tornDown>>

vars == <<pc, ticksLeft, slider, relays, esp_enable, pos, timers, time_correct,
          wakeups, actions, counts, tries, torn>>

\* Points at which the program beeps, delays or waits for an answer.
Blocking ==
    {"startup", "startup_esp", "startup_warn", "time_tries",
     "esp_startup", "esp_answer", "sleep_sound"}

\* Points of a pass through the main loop that take microseconds.
Running ==
    {"handle_time", "handle_shell", "shell_up", "shell_down", "handle_buttons",
     "buttons_up", "buttons_down", "buttons_both", "handle_slider",
     "slider_down_stop", "slider_up_stop", "relay_start", "relay_stop",
     "handle_esp", "esp_hello", "handle_sleep"}

Sleep == {"sleep_check", "sleep_cpu", "sleeping"}

Asleep == pc \in Sleep

-----------------------------------------------------------------------------
(* Helpers *)

SliderPos == {"SLIDER_UP", "SLIDER_DOWN"}

\* The seconds one call of esp_start_test() may block the program.
EspTicks == EspTries * (2 * BlockTicks + 1)

\* Where the ages stop; that of a lowering motor is also compared by LoweringBounded.
UpCap == SLIDER_UP_TIME_MAX + 1
DownCap == SLIDER_DOWN_TIME + 2
LoweringCap == SLIDER_DOWN_TIME + 3 + EspTicks
WakeCap == MAX_WAKE_TIME + 1

Older(age, cap) == IF age < cap THEN age + 1 ELSE age

Valid(count) == count > INPUT_VALID_COUNT

\* Mutant of Sampled: the counter has no width.
SampledUnbounded(count, active) == IF active THEN count + 1 ELSE 0

\* An input counter after one sample: ++ wraps with the width of uint16_t.
Sampled(count, active) == IF active THEN (count + 1) % CountMod ELSE 0

\* Outcomes of comparing a difference of timestamps.  An interrupt between
\* two of the eight byte loads can produce any difference.
Outcomes(real) == IF TornReads THEN BOOLEAN ELSE {real}

\* Ages a timestamp can have once it is stored by the main program: a torn
\* copy of the timestamp is off by a multiple of 256 in either direction.
StoredAges(cap) == IF TornReads THEN {0, cap} ELSE {0}

\* Continue at point p.
Goto(p) ==
    /\ pc' = p
    /\ ticksLeft' = IF p \in Blocking THEN BlockTicks
                    ELSE IF pc \in Blocking \/ p = "handle_time" THEN 1
                    ELSE ticksLeft

-----------------------------------------------------------------------------
(* Initial state: after init(), about to call startup(). *)

Init ==
    /\ pc = "startup"
    /\ ticksLeft = BlockTicks
    /\ slider_state = "SLIDER_DOWN" /\ slider_wanted = "SLIDER_UP"
    /\ relay1 = FALSE /\ relay2 = FALSE /\ esp_enable = FALSE
    /\ pos \in {0, DoorTravel}
    /\ upAge = 0 /\ downAge = 0 /\ syncAge = 0 /\ wakeAge = 0 /\ updPhase = 0
    /\ time_correct = FALSE
    /\ wakeup_slider = FALSE /\ wakeup_button = FALSE
    /\ action_updtime = FALSE /\ action_espreset = FALSE /\ force_sleep = FALSE
    /\ button1_count = 0 /\ button2_count = 0 /\ reed_count = 0
    /\ tries = 0
    /\ tornUp = FALSE /\ tornDown = FALSE

-----------------------------------------------------------------------------
(* Interrupt handlers *)

DoorMoves ==
    pos' = CASE relay1 /\ ~relay2 /\ pos < DoorTravel -> pos + 1
             [] relay2 /\ ~relay1 /\ pos > 0          -> pos - 1
             [] OTHER                                 -> pos

\* slider_up() as called by the timer interrupt, timestamp already increased.
IsrSliderUp ==
    /\ slider_wanted' = "SLIDER_UP"
    /\ wakeup_slider' = TRUE
    /\ IF slider_wanted # "SLIDER_UP"
       THEN upAge' = 0 /\ tornUp' = FALSE /\ esp_enable' = FALSE
       ELSE upAge' = Older(upAge, UpCap) /\ UNCHANGED <<tornUp, esp_enable>>

\* Mutant of SecondPasses: the sleep is too deep for the timer.
SecondPassesAwake ==
    /\ pc # "sleeping" /\ ticksLeft > 0
    /\ ticksLeft' = ticksLeft - 1
    /\ UNCHANGED pc

\* An interrupt ends sleep_cpu(), and another may follow before the next step.
SecondPasses ==
    /\ pc = "sleeping" \/ ticksLeft > 0
    /\ ticksLeft' = IF pc = "sleeping" THEN 1 ELSE ticksLeft - 1
    /\ pc' = IF pc = "sleeping" THEN "sleep_check" ELSE pc

\* ISR(TIMER0_OVF_vect).
TimerIsr ==
    /\ SecondPasses
    /\ DoorMoves
    /\ downAge' = Older(downAge, IF relay2 THEN LoweringCap ELSE DownCap)
    /\ syncAge' = Older(syncAge, TIME_UPDATE_MAXAGE)
    /\ wakeAge' = Older(wakeAge, WakeCap)
    /\ updPhase' = (updPhase + 1) % TIME_UPDATE_INTERVAL
    /\ action_updtime' = (action_updtime \/ updPhase' = 0)
    /\ \E alarm \in Alarms :
        IF alarm /\ time_correct
        THEN IsrSliderUp
        ELSE /\ upAge' = Older(upAge, UpCap)
             /\ UNCHANGED <<slider_wanted, wakeup_slider, tornUp, esp_enable>>
    /\ UNCHANGED <<slider_state, relays, time_correct, wakeup_button,
                   action_espreset, force_sleep, counts, tries, tornDown>>

\* ISR(BUTTON1_vect), ISR(BUTTON2_vect): enabled only around the sleep loop,
\* wake the program only while both buttons are pressed.
ButtonIsr ==
    /\ Asleep
    /\ <<TRUE, TRUE>> \in ButtonInputs
    /\ wakeup_button' = TRUE
    /\ pc' = IF pc = "sleeping" THEN "sleep_check" ELSE pc
    /\ UNCHANGED <<ticksLeft, slider, relays, esp_enable, pos, timers,
                   time_correct, wakeup_slider, actions, counts, tries, torn>>

-----------------------------------------------------------------------------
(* startup() and esp_startup() *)

\* sound(4, 100), then esp_startup() unless a slider action is pending.
Startup ==
    /\ pc = "startup"
    /\ IF slider_state = slider_wanted
       THEN Goto("startup_esp") /\ esp_enable' = FALSE
       ELSE Goto("startup_warn") /\ UNCHANGED esp_enable
    /\ UNCHANGED <<slider, relays, pos, timers, time_correct, wakeups,
                   actions, counts, tries, torn>>

\* esp_startup(): ESP_ENABLE goes high again after the delays.
StartupEsp ==
    /\ pc = "startup_esp"
    /\ esp_enable' = TRUE
    /\ action_espreset' = TRUE
    /\ Goto("startup_warn")
    /\ UNCHANGED <<slider, relays, pos, timers, time_correct, wakeups,
                   action_updtime, force_sleep, counts, tries, torn>>

\* The warnings and the startup sound; then the main loop starts or goes on.
StartupWarn ==
    /\ pc = "startup_warn"
    /\ Goto("handle_time")
    /\ UNCHANGED <<slider, relays, esp_enable, pos, timers, time_correct,
                   wakeups, actions, counts, tries, torn>>

-----------------------------------------------------------------------------
(* handle_time() *)

HandleTime ==
    /\ pc = "handle_time"
    /\ IF slider_wanted = slider_state /\ action_updtime
       THEN Goto("time_tries") /\ action_updtime' = FALSE /\ tries' = 0
       ELSE Goto("handle_shell") /\ UNCHANGED <<action_updtime, tries>>
    /\ UNCHANGED <<slider, relays, esp_enable, pos, timers, time_correct,
                   wakeups, action_espreset, force_sleep, counts, torn>>

\* The answer "x": the ESP8266 has no valid DCF77 time yet.
TimeNotAvailable ==
    /\ pc = "time_tries"
    /\ esp_enable
    /\ Goto("handle_shell")
    /\ tries' = 0
    /\ UNCHANGED <<slider, relays, esp_enable, pos, timers, time_correct,
                   wakeups, actions, counts, torn>>

\* An answer that passes the checks sets the clock.
TimeAnswer ==
    /\ pc = "time_tries"
    /\ esp_enable
    /\ syncAge' \in StoredAges(TIME_UPDATE_MAXAGE)
    /\ time_correct' = TRUE
    /\ Goto("handle_shell")
    /\ tries' = 0
    /\ UNCHANGED <<slider, relays, esp_enable, pos, upAge, downAge, wakeAge,
                   updPhase, wakeups, actions, counts, torn>>

\* No answer in 200 ms, or one that fails the checks; the last one resets
\* the ESP8266.
TimeRetry ==
    /\ pc = "time_tries"
    /\ IF tries + 1 < TimeTries
       THEN Goto("time_tries") /\ tries' = tries + 1 /\ UNCHANGED action_espreset
       ELSE Goto("handle_shell") /\ tries' = 0 /\ action_espreset' = TRUE
    /\ UNCHANGED <<slider, relays, esp_enable, pos, timers, time_correct,
                   wakeups, action_updtime, force_sleep, counts, torn>>

-----------------------------------------------------------------------------
(* slider_up() and slider_down() in the main program: slider_wanted is read, *)
(* and written later.                                                        *)

\* Mutants of SliderUpBegin: the begin of the movement is not remembered, it
\* is remembered on every call, the ESP8266 stays on.
SliderUpBeginNoTimestamp ==
    /\ esp_enable' = IF slider_wanted # "SLIDER_UP" THEN FALSE ELSE esp_enable
    /\ UNCHANGED <<upAge, tornUp>>

SliderUpBeginAlways ==
    upAge' \in StoredAges(UpCap) /\ tornUp' = (upAge' # 0) /\ esp_enable' = FALSE

SliderUpBeginEspOn ==
    /\ IF slider_wanted # "SLIDER_UP"
       THEN upAge' \in StoredAges(UpCap) /\ tornUp' = (upAge' # 0)
       ELSE UNCHANGED <<upAge, tornUp>>
    /\ UNCHANGED esp_enable

SliderUpBegin ==
    IF slider_wanted # "SLIDER_UP"
    THEN /\ upAge' \in StoredAges(UpCap)
         /\ tornUp' = (upAge' # 0)
         /\ esp_enable' = FALSE
    ELSE UNCHANGED <<upAge, tornUp, esp_enable>>

\* Mutant of SliderDownBegin: the begin of the movement is not remembered.
SliderDownBeginNoTimestamp ==
    /\ esp_enable' = IF slider_wanted # "SLIDER_DOWN" THEN FALSE ELSE esp_enable
    /\ UNCHANGED <<downAge, tornDown>>

SliderDownBegin ==
    IF slider_wanted # "SLIDER_DOWN"
    THEN /\ downAge' \in StoredAges(DownCap)
         /\ tornDown' = (downAge' # 0)
         /\ esp_enable' = FALSE
    ELSE UNCHANGED <<downAge, tornDown, esp_enable>>

\* handle_shell(): at most one command completes in a pass.
HandleShell ==
    /\ pc = "handle_shell"
    /\ \E command \in Commands :
        CASE command = "slider_up"   -> Goto("shell_up") /\ SliderUpBegin
                                        /\ UNCHANGED <<downAge, tornDown>>
          [] command = "slider_down" -> Goto("shell_down") /\ SliderDownBegin
                                        /\ UNCHANGED <<upAge, tornUp>>
          [] OTHER -> Goto("handle_buttons")
                      /\ UNCHANGED <<upAge, downAge, torn, esp_enable>>
    /\ UNCHANGED <<slider, relays, pos, syncAge, wakeAge, updPhase,
                   time_correct, wakeups, actions, counts, tries>>

ShellStore ==
    /\ \/ pc = "shell_up" /\ slider_wanted' = "SLIDER_UP"
       \/ pc = "shell_down" /\ slider_wanted' = "SLIDER_DOWN"
    /\ Goto("handle_buttons")
    /\ UNCHANGED <<slider_state, relays, esp_enable, pos, timers,
                   time_correct, wakeups, actions, counts, tries, torn>>

-----------------------------------------------------------------------------
(* handle_buttons() *)

HandleButtons ==
    /\ pc = "handle_buttons"
    /\ \E b \in ButtonInputs :
        /\ button1_count' = Sampled(button1_count, b[1])
        /\ button2_count' = Sampled(button2_count, b[2])
    /\ \/ /\ Valid(button1_count')
          /\ SliderUpBegin /\ UNCHANGED <<downAge, tornDown>>
          /\ Goto("buttons_up")
       \/ /\ ~Valid(button1_count') /\ Valid(button2_count')
          /\ SliderDownBegin /\ UNCHANGED <<upAge, tornUp>>
          /\ Goto("buttons_down")
       \/ /\ ~Valid(button1_count') /\ ~Valid(button2_count')
          /\ UNCHANGED <<upAge, downAge, torn, esp_enable>>
          /\ Goto("handle_slider")
    /\ UNCHANGED <<slider, relays, pos, syncAge, wakeAge, updPhase,
                   time_correct, wakeups, actions, reed_count, tries>>

\* slider_wanted = SLIDER_UP; with both buttons slider_down() follows.
ButtonsUp ==
    /\ pc = "buttons_up"
    /\ slider_wanted' = "SLIDER_UP"
    /\ IF Valid(button2_count)
       THEN /\ Goto("buttons_down")
            /\ downAge' \in StoredAges(DownCap)
            /\ tornDown' = (downAge' # 0)
            /\ esp_enable' = FALSE
       ELSE Goto("handle_slider") /\ UNCHANGED <<downAge, tornDown, esp_enable>>
    /\ UNCHANGED <<slider_state, relays, pos, upAge, syncAge, wakeAge, updPhase,
                   time_correct, wakeups, actions, counts, tries, tornUp>>

ButtonsDown ==
    /\ pc = "buttons_down"
    /\ slider_wanted' = "SLIDER_DOWN"
    /\ Goto(IF Valid(button1_count) THEN "buttons_both" ELSE "handle_slider")
    /\ UNCHANGED <<slider_state, relays, esp_enable, pos, timers,
                   time_correct, wakeups, actions, counts, tries, torn>>

\* Both buttons: cancel the movement and go to sleep.
ButtonsBoth ==
    /\ pc = "buttons_both"
    /\ slider_wanted' = slider_state
    /\ force_sleep' = TRUE
    /\ Goto("handle_slider")
    /\ UNCHANGED <<slider_state, relays, esp_enable, pos, timers,
                   time_correct, wakeups, action_updtime, action_espreset,
                   counts, tries, torn>>

-----------------------------------------------------------------------------
(* handle_slider() *)

\* The movements the program believes to be under way.
Raising == slider_state = "SLIDER_DOWN" /\ slider_wanted = "SLIDER_UP"
Lowering == slider_state = "SLIDER_UP" /\ slider_wanted = "SLIDER_DOWN"

\* The reed contact closes only at the upper end, where it may bounce.
ReedClosed == IF pos = DoorTravel THEN BOOLEAN ELSE {FALSE}

\* Mutant of HandleSlider: the reed contact counts whatever is wanted.
HandleSliderAnyReed ==
    /\ pc = "handle_slider"
    /\ \E closed \in ReedClosed : reed_count' = Sampled(reed_count, closed)
    /\ slider_state' = IF Valid(reed_count') THEN "SLIDER_UP" ELSE slider_state
    /\ Goto("slider_down_stop")
    /\ UNCHANGED <<slider_wanted, relays, esp_enable, pos, timers,
                   time_correct, wakeups, actions, button1_count,
                   button2_count, tries, torn>>

HandleSlider ==
    /\ pc = "handle_slider"
    /\ \E closed \in ReedClosed : reed_count' = Sampled(reed_count, closed)
    /\ slider_state' = IF slider_wanted = "SLIDER_UP" /\ Valid(reed_count')
                       THEN "SLIDER_UP" ELSE slider_state
    /\ Goto("slider_down_stop")
    /\ UNCHANGED <<slider_wanted, relays, esp_enable, pos, timers,
                   time_correct, wakeups, actions, button1_count,
                   button2_count, tries, torn>>

\* Mutant of SliderDownStop: the time limit counts whatever is wanted.
SliderDownStopAnyWanted ==
    /\ pc = "slider_down_stop"
    /\ IF slider_state = "SLIDER_UP"
       THEN \E over \in Outcomes(downAge > SLIDER_DOWN_TIME) :
                /\ tornDown' = (tornDown \/ over # (downAge > SLIDER_DOWN_TIME))
                /\ slider_state' = IF over THEN "SLIDER_DOWN" ELSE slider_state
       ELSE UNCHANGED <<slider_state, tornDown>>
    /\ Goto("slider_up_stop")
    /\ UNCHANGED <<slider_wanted, relays, esp_enable, pos, timers, time_correct,
                   wakeups, actions, counts, tries, tornUp>>

SliderDownStop ==
    /\ pc = "slider_down_stop"
    /\ IF Lowering
       THEN \E over \in Outcomes(downAge > SLIDER_DOWN_TIME) :
                /\ tornDown' = (tornDown \/ over # (downAge > SLIDER_DOWN_TIME))
                /\ slider_state' = IF over THEN "SLIDER_DOWN" ELSE slider_state
       ELSE UNCHANGED <<slider_state, tornDown>>
    /\ Goto("slider_up_stop")
    /\ UNCHANGED <<slider_wanted, relays, esp_enable, pos, timers, time_correct,
                   wakeups, actions, counts, tries, tornUp>>

SliderUpStop ==
    /\ pc = "slider_up_stop"
    /\ IF Raising
       THEN \E over \in Outcomes(upAge > SLIDER_UP_TIME_MAX) :
                /\ tornUp' = (tornUp \/ over # (upAge > SLIDER_UP_TIME_MAX))
                /\ slider_state' = IF over THEN "SLIDER_UP" ELSE slider_state
       ELSE UNCHANGED <<slider_state, tornUp>>
    /\ Goto("relay_start")
    /\ UNCHANGED <<slider_wanted, relays, esp_enable, pos, timers, time_correct,
                   wakeups, actions, counts, tries, tornDown>>

\* The first two branches of the relay control.
RelayStart ==
    /\ pc = "relay_start"
    /\ IF slider_state = slider_wanted
       THEN Goto("relay_stop") /\ UNCHANGED relays
       ELSE /\ relay1' = (slider_wanted = "SLIDER_UP")
            /\ relay2' = (slider_wanted = "SLIDER_DOWN")
            /\ Goto("handle_esp")
    /\ UNCHANGED <<slider, esp_enable, pos, timers, time_correct, wakeups,
                   actions, counts, tries, torn>>

\* Mutant of RelayStop: only the relay "up" is released.
RelayStopUpOnly ==
    /\ pc = "relay_stop"
    /\ relay1' = (relay1 /\ slider_state # slider_wanted)
    /\ Goto("handle_esp")
    /\ UNCHANGED <<slider, relay2, esp_enable, pos, timers, time_correct,
                   wakeups, actions, counts, tries, torn>>

\* The third branch reads slider_wanted again: if the interrupt has changed
\* it meanwhile, no branch is taken.
RelayStop ==
    /\ pc = "relay_stop"
    /\ IF slider_state = slider_wanted
       THEN /\ action_espreset' = (action_espreset \/ relay1 \/ relay2)
            /\ relay1' = FALSE /\ relay2' = FALSE
       ELSE UNCHANGED <<relays, action_espreset>>
    /\ Goto("handle_esp")
    /\ UNCHANGED <<slider, esp_enable, pos, timers, time_correct, wakeups,
                   action_updtime, force_sleep, counts, tries, torn>>

-----------------------------------------------------------------------------
(* handle_esp() and esp_start_test() *)

HandleEsp ==
    /\ pc = "handle_esp"
    /\ IF action_espreset /\ ~force_sleep
       THEN Goto("esp_hello") /\ action_espreset' = FALSE /\ tries' = 0
       ELSE Goto("handle_sleep") /\ UNCHANGED <<action_espreset, tries>>
    /\ UNCHANGED <<slider, relays, esp_enable, pos, timers, time_correct,
                   wakeups, action_updtime, force_sleep, counts, torn>>

\* uart_puts("hello\r\n"); every other attempt restarts the ESP8266.
EspHello ==
    /\ pc = "esp_hello"
    /\ IF tries # 0 /\ tries % 2 = 0
       THEN Goto("esp_startup") /\ esp_enable' = FALSE
       ELSE Goto("esp_answer") /\ UNCHANGED esp_enable
    /\ UNCHANGED <<slider, relays, pos, timers, time_correct, wakeups,
                   actions, counts, tries, torn>>

EspStartup ==
    /\ pc = "esp_startup"
    /\ esp_enable' = TRUE
    /\ Goto("esp_answer")
    /\ UNCHANGED <<slider, relays, pos, timers, time_correct, wakeups,
                   actions, counts, tries, torn>>

EspOk ==
    /\ pc = "esp_answer"
    /\ esp_enable
    /\ Goto("handle_sleep")
    /\ tries' = 0
    /\ UNCHANGED <<slider, relays, esp_enable, pos, timers, time_correct,
                   wakeups, actions, counts, torn>>

\* No "hel_ok" in 100 ms; the last attempt ends with the error beeps.
EspRetry ==
    /\ pc = "esp_answer"
    /\ IF tries + 1 < EspTries
       THEN Goto("esp_hello") /\ tries' = tries + 1
       ELSE Goto("handle_sleep") /\ tries' = 0
    /\ UNCHANGED <<slider, relays, esp_enable, pos, timers, time_correct,
                   wakeups, actions, counts, torn>>

-----------------------------------------------------------------------------
(* handle_sleep() *)

\* Mutants of MaySleep: a pending action is not looked at, and being awake
\* for too long is no reason to sleep.
MaySleepWhilePending(tooLong, recent) ==
    force_sleep \/ tooLong \/ (time_correct /\ recent)

MaySleepOnlySynced(tooLong, recent) ==
    /\ force_sleep \/ (time_correct /\ recent)
    /\ slider_wanted = slider_state

\* The condition, with the outcomes of its two timestamp comparisons.
MaySleep(tooLong, recent) ==
    /\ force_sleep \/ tooLong \/ (time_correct /\ recent)
    /\ slider_wanted = slider_state

HandleSleep ==
    /\ pc = "handle_sleep"
    /\ \E tooLong \in Outcomes(wakeAge > MAX_WAKE_TIME),
          recent \in Outcomes(syncAge < TIME_UPDATE_MAXAGE) :
        Goto(IF MaySleep(tooLong, recent) THEN "sleep_sound" ELSE "handle_time")
    /\ UNCHANGED <<slider, relays, esp_enable, pos, timers, time_correct,
                   wakeups, actions, counts, tries, torn>>

\* Mutant of SleepEnter: the ESP8266 is left on.
SleepEnterEspOn ==
    /\ pc = "sleep_sound"
    /\ wakeup_button' = FALSE
    /\ wakeup_slider' = FALSE
    /\ Goto("sleep_check")
    /\ UNCHANGED <<slider, relays, esp_enable, pos, timers, time_correct,
                   actions, counts, tries, torn>>

\* After a second of beeps: UART and ESP8266 off, wakeup flags cleared,
\* button interrupts on.
SleepEnter ==
    /\ pc = "sleep_sound"
    /\ esp_enable' = FALSE
    /\ wakeup_button' = FALSE
    /\ wakeup_slider' = FALSE
    /\ Goto("sleep_check")
    /\ UNCHANGED <<slider, relays, pos, timers, time_correct, actions,
                   counts, tries, torn>>

\* The test of the sleep loop.
SleepTest ==
    /\ pc = "sleep_check"
    /\ ~wakeup_button /\ ~wakeup_slider
    /\ Goto("sleep_cpu")
    /\ UNCHANGED <<slider, relays, esp_enable, pos, timers, time_correct, wakeups,
                   actions, counts, tries, torn>>

\* An interrupt between the test and sleep_cpu() does not keep the processor from
\* sleeping: its flag is only seen after the next one.
SleepCpu ==
    /\ pc = "sleep_cpu"
    /\ Goto("sleeping")
    /\ UNCHANGED <<slider, relays, esp_enable, pos, timers, time_correct,
                   wakeups, actions, counts, tries, torn>>

WakeUp ==
    /\ pc = "sleep_check"
    /\ wakeup_button \/ wakeup_slider
    /\ wakeAge' \in StoredAges(WakeCap)
    /\ force_sleep' = FALSE
    /\ Goto("startup")
    /\ UNCHANGED <<slider, relays, esp_enable, pos, upAge, downAge, syncAge,
                   updPhase, time_correct, wakeups, action_updtime,
                   action_espreset, counts, tries, torn>>

-----------------------------------------------------------------------------
(* The controller *)

Main ==
    \/ Startup \/ StartupEsp \/ StartupWarn
    \/ HandleTime \/ TimeNotAvailable \/ TimeAnswer \/ TimeRetry
    \/ HandleShell \/ ShellStore
    \/ HandleButtons \/ ButtonsUp \/ ButtonsDown \/ ButtonsBoth
    \/ HandleSlider \/ SliderDownStop \/ SliderUpStop \/ RelayStart \/ RelayStop
    \/ HandleEsp \/ EspHello \/ EspStartup \/ EspOk \/ EspRetry
    \/ HandleSleep \/ SleepEnter \/ SleepTest \/ SleepCpu \/ WakeUp

Next == Main \/ TimerIsr \/ ButtonIsr

Spec == Init /\ [][Next]_vars

\* The processor keeps executing and the crystal keeps ticking; nobody has to
\* press a button and the ESP8266 never has to answer.
FairSpec == Spec /\ WF_vars(Main) /\ WF_vars(TimerIsr)

-----------------------------------------------------------------------------
(* Invariants *)

Points == Blocking \cup Running \cup Sleep

DataOK ==
    /\ slider_state \in SliderPos /\ slider_wanted \in SliderPos
    /\ relay1 \in BOOLEAN /\ relay2 \in BOOLEAN /\ esp_enable \in BOOLEAN
    /\ pos \in 0 .. DoorTravel
    /\ upAge \in 0 .. UpCap /\ downAge \in 0 .. LoweringCap
    /\ syncAge \in 0 .. TIME_UPDATE_MAXAGE /\ wakeAge \in 0 .. WakeCap
    /\ updPhase \in 0 .. TIME_UPDATE_INTERVAL - 1
    /\ time_correct \in BOOLEAN
    /\ action_updtime \in BOOLEAN /\ action_espreset \in BOOLEAN
    /\ wakeup_slider \in BOOLEAN /\ wakeup_button \in BOOLEAN
    /\ force_sleep \in BOOLEAN
    /\ button1_count \in 0 .. CountMod - 1
    /\ button2_count \in 0 .. CountMod - 1
    /\ reed_count \in 0 .. CountMod - 1
    /\ tries \in 0 .. TimeTries + EspTries
    /\ tornUp \in BOOLEAN /\ tornDown \in BOOLEAN

\* Every variable stays in its range; the input counters keep their width.
TypeOK == pc \in Points /\ ticksLeft \in Nat /\ DataOK

\* The controller never sleeps with the motor raising or the ESP8266 on, and
\* whatever it failed to finish before it slept can only be an opening: the
\* opening time came after handle_sleep had looked.
SleepQuiet ==
    Asleep =>
        /\ ~relay1
        /\ ~esp_enable
        /\ slider_wanted # slider_state =>
            slider_state = "SLIDER_DOWN" /\ slider_wanted = "SLIDER_UP"
        /\ relay2 => slider_state = "SLIDER_UP" /\ slider_wanted = "SLIDER_UP"

\* Points between relay control and the next request: relays match the slider.
Settled ==
    {"startup", "startup_esp", "startup_warn", "handle_time", "time_tries",
     "handle_shell", "handle_esp", "esp_hello", "esp_startup", "esp_answer",
     "handle_sleep"}

\* Points at which slider_wanted may change but slider_state may not.
Requesting ==
    {"shell_up", "shell_down", "handle_buttons", "buttons_up", "buttons_down",
     "buttons_both", "handle_slider"}

\* Points at which slider_state may change and only an interrupt can change
\* slider_wanted.
Deciding == {"slider_down_stop", "slider_up_stop", "relay_start", "relay_stop"}

\* While the motor raises, slider_state only becomes SLIDER_UP in a pass that
\* also releases the relay; a lowering motor is never left to itself once the
\* door counts as closed and nobody wants it open.
RelaysFollowSlider ==
    /\ ~(relay1 /\ relay2)
    /\ relay1 =>
        /\ pc \in Settled \cup Requesting => slider_state = "SLIDER_DOWN"
        /\ pc \in Settled => slider_wanted = "SLIDER_UP"
        /\ pc \in Deciding =>
            slider_state = "SLIDER_DOWN" \/ slider_wanted = "SLIDER_UP"
        /\ pc \notin Sleep \cup {"sleep_sound"}
    /\ relay2 /\ pc \in Settled =>
        slider_state = "SLIDER_UP" \/ slider_wanted = "SLIDER_UP"

\* From the beeps before sleep until wakeup only the interrupt changes
\* slider_wanted.
SleepPhase ==
    pc \in Sleep \cup {"sleep_sound"} =>
        /\ slider_state = "SLIDER_DOWN" \/ slider_wanted = "SLIDER_UP"
        /\ relay2 => slider_state = "SLIDER_UP"
        /\ Asleep => ~esp_enable

\* The inductive invariant behind SleepQuiet, NoUpDownReversal and DriveSpec.
DriveInv == RelaysFollowSlider /\ SleepPhase

\* Where nothing but buttons and commands ask for movement, the controller
\* sleeps only when the slider is where it is wanted and the motor is off.
IdleWhenAsleep ==
    Asleep => slider_state = slider_wanted /\ ~relay1 /\ ~relay2

\* How long the motor lowers the door after the last slider_down(): every pass
\* comes to handle_esp() with the motor off or at most one tick after
\* SLIDER_DOWN_TIME, but esp_start_test() runs there with the motor on, so it is the
\* next pass that stops it.
LoweringBounded ==
    relay2 /\ ~tornDown =>
        /\ downAge <= SLIDER_DOWN_TIME + 2 + EspTicks
        /\ pc = "handle_esp" => downAge <= SLIDER_DOWN_TIME + 1

-----------------------------------------------------------------------------
(* Action properties *)

\* The motor is never thrown from raising into lowering without a stop.
NoUpDownReversal == [][relay1 => ~relay2']_vars

\* Buttons and commands never throw it from lowering into raising either.
NoDownUpReversal == [][relay2 => ~relay1']_vars

\* The program comes to take the door for open only when it is at its upper end,
\* unless a timestamp of the opening was torn.
OpensFully ==
    [][slider_state = "SLIDER_DOWN" /\ slider_state' = "SLIDER_UP" /\ ~tornUp'
        => pos = DoorTravel]_vars

\* The program comes to take the door for closed only when it is at its lower end,
\* unless a timestamp of the closing was torn.
ClosesFully ==
    [][slider_state = "SLIDER_UP" /\ slider_state' = "SLIDER_DOWN" /\ ~tornDown'
        => pos = 0]_vars

\* The ESP8266 has been switched off by the time the motor starts.
MotorStartsWithEspOff ==
    [][~relay1 /\ ~relay2 /\ (relay1' \/ relay2') => ~esp_enable']_vars

-----------------------------------------------------------------------------
(* Refinement *)

motor == IF relay1 THEN "up" ELSE IF relay2 THEN "down" ELSE "off"

Drive == INSTANCE SliderDrive
            WITH motor <- motor, wanted <- slider_wanted, asleep <- Asleep

\* The controller implements the promise of module SliderDrive.
DriveSpec == Drive!Spec

-----------------------------------------------------------------------------
(* Liveness *)

\* A movement the main loop sees pending is completed, or taken back.
MoveCompletes ==
    pc = "handle_time" /\ slider_wanted # slider_state
        ~> slider_wanted = slider_state

\* No button is pressed.
Quiet == button1_count = 0 /\ button2_count = 0

\* Left alone, the controller keeps going back to sleep, whether or not the
\* ESP8266 ever answers, the reed contact ever closes or the alarm comes often.
SleepsWhenLeftAlone == <>[]Quiet => []<>Asleep

\* A wakeup flag ends the sleep, also one set between test and sleep_cpu().
WakesUp == Asleep /\ (wakeup_slider \/ wakeup_button) ~> ~Asleep

-----------------------------------------------------------------------------
(* What comments and the README say and the program does not do *)

\* README: the door opens at the opening time, unless somebody closes it.
AlarmOpens ==
    Asleep /\ wakeup_slider /\ slider_state = "SLIDER_DOWN"
        ~> relay1 \/ pos = DoorTravel \/ slider_wanted = "SLIDER_DOWN"
=============================================================================

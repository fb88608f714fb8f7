------------------------------ MODULE UartLink ------------------------------
(***************************************************************************)
(* The serial line between the two processors: the shell and get_answer()  *)
(* of the AVR (src/avr/src/main.c), loop(), get_answer() and the HTTP      *)
(* commands of the ESP8266 (src/esp8266/user/user_main.c).                 *)
(*                                                                         *)
(* A wire holds what has been sent and not yet read: texts and the ends of *)
(* lines.  CR and LF each end a line for the reader, so "\r\n" ends two;   *)
(* a text that is not ended stays in the reader's buffer, and the next one *)
(* makes "noise" of it.  Debug output is left out: a line of it is for     *)
(* every reader what the empty lines around the commands are.              *)
(*                                                                         *)
(* A slider command or a button that changes the direction takes the power *)
(* from the ESP8266, and with it everything it was doing.                  *)
(***************************************************************************)
EXTENDS Integers, Sequences

CONSTANTS
    HttpCommands,      \* commands the web page can cause
    Attempts,          \* attempts of an HTTP command (4)
    TimeTries,         \* attempts of handle_time (4)
    EspTries,          \* attempts of esp_start_test (12)
    MaxRequests,       \* bound: HTTP requests
    MaxPresses,        \* bound: button presses and alarms
    WireMax            \* bound: tokens under way when a time_get round begins

SliderCommands == {"slider_up", "slider_down"}
\* "opentime_bad" stands for an opentime_set with arguments out of range.
OpentimeCommands == {"opentime_set", "opentime_bad", "opentime_get"}

ASSUME LinkAssumption ==
    /\ HttpCommands \subseteq SliderCommands \cup OpentimeCommands
    /\ Attempts \in Nat \ {0} /\ TimeTries \in Nat \ {0}
    /\ EspTries \in Nat \ {0}
    /\ MaxRequests \in Nat /\ MaxPresses \in Nat /\ WireMax \in Nat

VARIABLES
    toAvr, toEsp,      \* the two wires, with the receivers' hardware buffers
    esp,               \* "off", "boot", "loop" or "answer" (in get_answer)
    request, attempt,  \* the HTTP command being executed
    cmd_buf, ans_buf,  \* the ESP8266's buffers
    avr,               \* "main", "time", "hello" (in get_answer) or "sleep"
    avr_cmd_buf, avr_ans_buf,
    tries,
    slider_wanted, slider_state,
    moving,            \* is a relay active?
    action_espreset,
    copies,            \* of each command: sent and not executed
    earned,            \* of each answer: executions less reports to the web page
    requests, presses  \* how many there were

wires == <<toAvr, toEsp>>
espvars == <<esp, request, attempt, cmd_buf, ans_buf>>
slider == <<slider_wanted, slider_state, moving>>
answering == <<avr, avr_ans_buf, tries>>
avrvars == <<answering, avr_cmd_buf, slider, action_espreset>>
history == <<copies, earned, requests, presses>>

vars == <<wires, espvars, avrvars, history>>

AckOf == [slider_up |-> "slu_ok", slider_down |-> "sld_ok",
          opentime_set |-> "ots_ok", opentime_bad |-> "ots_ok",
          opentime_get |-> "opentime"]
Answers == {AckOf[c] : c \in HttpCommands}
Texts == DOMAIN AckOf \cup {AckOf[c] : c \in DOMAIN AckOf}
            \cup {"time_get", "time", "x", "hello", "hel_ok", "noise"}

Line(text) == <<text, "EOL", "EOL">>

\* What an HTTP command prints in each attempt.
Command(c) == <<"EOL", "EOL">> \o Line(c)

\* A text arriving in a line buffer.
Put(buf, text) == IF buf = "" THEN text ELSE "noise"

-----------------------------------------------------------------------------
Init ==
    /\ toAvr = <<>> /\ toEsp = <<>>
    /\ esp = "boot" /\ request = "none" /\ attempt = 0
    /\ cmd_buf = "" /\ ans_buf = ""
    /\ avr = "main" /\ avr_cmd_buf = "" /\ avr_ans_buf = "" /\ tries = 0
    /\ slider_state = "down" /\ slider_wanted = "down" /\ moving = FALSE
    /\ action_espreset = TRUE
    /\ copies = [c \in HttpCommands |-> 0]
    /\ earned = [a \in Answers |-> 0]
    /\ requests = 0 /\ presses = 0

EspOn == esp \in {"loop", "answer"}

\* The AVR sends tokens: they are lost unless the ESP8266 is running.
AvrSends(tokens) == toEsp' = IF EspOn THEN toEsp \o tokens ELSE toEsp

\* The ESP8266 loses its power, or is started again.
EspBecomes(power) ==
    /\ esp' = power
    /\ request' = "none" /\ attempt' = 0
    /\ cmd_buf' = "" /\ ans_buf' = ""
    /\ toEsp' = <<>>

-----------------------------------------------------------------------------
(* The ESP8266 *)

\* user_init() has run.  The processors may have heard of each other's start.
EspBoots ==
    /\ esp = "boot"
    /\ esp' = "loop"
    /\ toEsp' \in {<<>>, Line("noise")}
    /\ \E heard \in {<<>>, Line("noise")} : toAvr' = toAvr \o heard
    /\ UNCHANGED <<request, attempt, cmd_buf, ans_buf, avrvars, history>>

\* What loop() may answer to a line: the time is valid, or it is not.
LoopReplies(line) ==
    CASE line = "time_get" -> {Line("time"), Line("x")}
      [] line = "hello"    -> {Line("hel_ok")}
      [] OTHER             -> {<<>>}

\* loop() reads a character.
Loop ==
    /\ esp = "loop" /\ toEsp # <<>>
    /\ IF Head(toEsp) = "EOL"
       THEN cmd_buf' = "" /\ \E r \in LoopReplies(cmd_buf) : toAvr' = toAvr \o r
       ELSE cmd_buf' = Put(cmd_buf, Head(toEsp)) /\ UNCHANGED toAvr
    /\ toEsp' = Tail(toEsp)
    /\ UNCHANGED <<esp, request, attempt, ans_buf, avrvars, history>>

\* An attempt of the HTTP command c.
Send(c) ==
    /\ toAvr' = toAvr \o Command(c)
    /\ copies' = [copies EXCEPT ![c] = @ + 1]
    /\ ans_buf' = ""

\* The HTTP server calls cmd_*(): first attempt.
Request ==
    /\ esp = "loop" /\ requests < MaxRequests
    /\ requests' = requests + 1
    /\ \E c \in HttpCommands : request' = c /\ Send(c)
    /\ esp' = "answer" /\ attempt' = 1
    /\ UNCHANGED <<toEsp, cmd_buf, avrvars, earned, presses>>

\* Mutant of Accepted: the answer is not looked at.
AcceptsAny(c, answer) == TRUE

\* Mutant of Accepted: any acknowledgement will do.
AcceptsAnyAck(c, answer) == answer \in {"slu_ok", "sld_ok", "ots_ok"}

\* Which answers a command takes for its own: opentime_get takes any line.
Accepted(c, answer) == c # "opentime_get" => answer = AckOf[c]

\* The HTTP client gets its answer, and loop() goes on.
Respond == esp' = "loop" /\ request' = "none" /\ attempt' = 0 /\ ans_buf' = ""

\* Mutant of TryAgain: one attempt too many.
TryOnceMore ==
    IF attempt <= Attempts
    THEN attempt' = attempt + 1 /\ Send(request) /\ UNCHANGED <<esp, request>>
    ELSE Respond /\ UNCHANGED <<toAvr, copies>>

\* The next attempt, if there is one left.
TryAgain ==
    IF attempt < Attempts
    THEN attempt' = attempt + 1 /\ Send(request) /\ UNCHANGED <<esp, request>>
    ELSE Respond /\ UNCHANGED <<toAvr, copies>>

\* get_answer() reads a character of a line.
AnswerText ==
    /\ esp = "answer" /\ toEsp # <<>> /\ Head(toEsp) # "EOL"
    /\ ans_buf' = Put(ans_buf, Head(toEsp))
    /\ toEsp' = Tail(toEsp)
    /\ UNCHANGED <<toAvr, esp, request, attempt, cmd_buf, avrvars, history>>

\* get_answer() returns with the answer the command is waiting for ...
AnswerTaken ==
    /\ esp = "answer" /\ toEsp # <<>> /\ Head(toEsp) = "EOL"
    /\ Accepted(request, ans_buf)
    /\ earned' = [earned EXCEPT ![AckOf[request]] = @ - 1]
    /\ toEsp' = Tail(toEsp)
    /\ Respond
    /\ UNCHANGED <<toAvr, cmd_buf, avrvars, copies, requests, presses>>

\* ... or with another line, ...
AnswerRefused ==
    /\ esp = "answer" /\ toEsp # <<>> /\ Head(toEsp) = "EOL"
    /\ ~Accepted(request, ans_buf)
    /\ toEsp' = Tail(toEsp)
    /\ TryAgain
    /\ UNCHANGED <<cmd_buf, avrvars, earned, requests, presses>>

\* ... or after 200 ms without a character: by then the AVR has read what was
\* sent, or is busy and has lost all but two bytes of it.
AnswerTimeout ==
    /\ esp = "answer" /\ toEsp = <<>> /\ Len(toAvr) <= 2
    /\ TryAgain
    /\ UNCHANGED <<toEsp, cmd_buf, avrvars, earned, requests, presses>>

-----------------------------------------------------------------------------
(* The AVR: power of the ESP8266, movement, sleep *)

\* Mutant of Slide: slider_up() and slider_down() leave the ESP8266 on.
SlideWithEspOn(to) == slider_wanted' = to /\ UNCHANGED <<espvars, toEsp>>

\* slider_up() and slider_down() end with slider_wanted = to.
Slide(to) ==
    /\ slider_wanted' = to
    /\ IF slider_wanted # to
       THEN EspBecomes("off")
       ELSE UNCHANGED <<espvars, toEsp>>

\* A button is pressed; or the opening time comes, at any moment.
Press ==
    /\ presses < MaxPresses
    /\ presses' = presses + 1
    /\ \E to \in {"up", "down"} : (avr = "main" \/ to = "up") /\ Slide(to)
    /\ UNCHANGED <<toAvr, answering, avr_cmd_buf, slider_state, moving,
                   action_espreset, copies, earned, requests>>

\* handle_slider(): the motor starts, ...
MotorStarts ==
    /\ avr = "main" /\ slider_state # slider_wanted /\ ~moving
    /\ moving' = TRUE
    /\ UNCHANGED <<wires, espvars, answering, avr_cmd_buf, slider_wanted,
                   slider_state, action_espreset, history>>

\* ... or the door is where it is wanted: a motor that ran is stopped.
MoveDone ==
    /\ avr = "main" /\ (slider_state # slider_wanted \/ moving)
    /\ slider_state' = slider_wanted
    /\ moving' = FALSE
    /\ action_espreset' = (action_espreset \/ moving)
    /\ UNCHANGED <<wires, espvars, answering, avr_cmd_buf, slider_wanted, history>>

\* Sleep, in time or because of both buttons (slider_wanted = slider_state).
GoesToSleep ==
    \/ slider_state = slider_wanted /\ UNCHANGED presses
    \/ presses < MaxPresses /\ presses' = presses + 1

\* The motor is stopped, then the UART and the ESP8266 are switched off.
GoToSleep ==
    /\ avr = "main" /\ GoesToSleep
    /\ avr' = "sleep"
    /\ slider_wanted' = slider_state
    /\ moving' = FALSE
    /\ action_espreset' = (action_espreset \/ moving)
    /\ toAvr' = <<>> /\ EspBecomes("off")
    /\ UNCHANGED <<avr_ans_buf, tries, avr_cmd_buf, slider_state, copies, earned,
                   requests>>

\* The buttons or the opening time end the sleep; startup() starts the ESP8266 unless
\* the door is to be moved.
WakeUp ==
    /\ avr = "sleep"
    /\ avr' = "main"
    /\ slider_wanted' \in {slider_wanted, "up"}
    /\ EspBecomes(IF slider_wanted' = slider_state THEN "boot" ELSE "off")
    /\ action_espreset' = (action_espreset \/ slider_wanted' = slider_state)
    /\ UNCHANGED <<toAvr, avr_ans_buf, tries, avr_cmd_buf, slider_state, moving,
                   history>>

\* While the AVR beeps or waits it keeps the first two bytes of its input.
Kept(tokens) ==
    CASE tokens = <<>> -> <<>>
      [] tokens # <<>> /\ Head(tokens) # "EOL" -> <<"noise">>
      [] tokens = <<"EOL">> -> tokens
      [] OTHER -> <<"EOL", IF tokens[2] = "EOL" THEN "EOL" ELSE "noise">>

Busy ==
    /\ avr = "main" /\ toAvr # Kept(toAvr)
    /\ toAvr' = Kept(toAvr)
    /\ UNCHANGED <<toEsp, espvars, avrvars, history>>

-----------------------------------------------------------------------------
(* The AVR: handle_shell() *)

ShellText ==
    /\ avr = "main" /\ toAvr # <<>> /\ Head(toAvr) # "EOL"
    /\ avr_cmd_buf' = Put(avr_cmd_buf, Head(toAvr))
    /\ toAvr' = Tail(toAvr)
    /\ UNCHANGED <<toEsp, espvars, answering, slider, action_espreset, history>>

\* Mutant of ShellLine: the command buffer is not emptied.
ShellLineKept ==
    /\ avr = "main" /\ toAvr # <<>> /\ Head(toAvr) = "EOL"
    /\ toAvr' = Tail(toAvr)
    /\ UNCHANGED <<answering, avr_cmd_buf, slider_state, moving, action_espreset,
                   requests, presses>>

\* A line is complete.
ShellLine ==
    /\ avr = "main" /\ toAvr # <<>> /\ Head(toAvr) = "EOL"
    /\ avr_cmd_buf' = ""
    /\ toAvr' = Tail(toAvr)
    /\ UNCHANGED <<answering, slider_state, moving, action_espreset, requests,
                   presses>>

Executed(c) ==
    /\ copies' = [copies EXCEPT ![c] = @ - 1]
    /\ earned' = [earned EXCEPT ![AckOf[c]] = @ + 1]

\* slider_up() or slider_down(), then the acknowledgement.
ExecuteSlider ==
    \E c \in HttpCommands \cap SliderCommands :
        /\ ShellLine /\ avr_cmd_buf = c
        /\ Executed(c)
        /\ LET to == IF c = "slider_up" THEN "up" ELSE "down"
           IN  IF slider_wanted = to
               THEN AvrSends(Line(AckOf[c])) /\ UNCHANGED <<espvars, slider_wanted>>
               ELSE Slide(to)

\* opentime_set with arguments in range, and opentime_get.
ExecuteOpentime ==
    \E c \in HttpCommands \cap {"opentime_set", "opentime_get"} :
        /\ ShellLine /\ avr_cmd_buf = c
        /\ Executed(c)
        /\ AvrSends(Line(AckOf[c]))
        /\ UNCHANGED <<espvars, slider_wanted>>

\* Arguments out of range: nothing is stored and nothing answered.
RefuseOpentime ==
    /\ ShellLine /\ avr_cmd_buf = "opentime_bad"
    /\ UNCHANGED <<toEsp, espvars, slider_wanted, copies, earned>>

\* Everything else is ignored.
Ignore ==
    /\ ShellLine /\ avr_cmd_buf \notin HttpCommands
    /\ UNCHANGED <<toEsp, espvars, slider_wanted, copies, earned>>

-----------------------------------------------------------------------------
(* The AVR: get_answer(), handle_time() *)

\* A round of get_answer begins, or another attempt of it.
Ask(text, try) == tries' = try /\ avr_ans_buf' = "" /\ AvrSends(Line(text))

Done == avr' = "main" /\ tries' = 0 /\ avr_ans_buf' = "" /\ UNCHANGED toEsp

AvrText ==
    /\ avr \in {"time", "hello"} /\ toAvr # <<>> /\ Head(toAvr) # "EOL"
    /\ avr_ans_buf' = Put(avr_ans_buf, Head(toAvr))
    /\ toAvr' = Tail(toAvr)
    /\ UNCHANGED <<toEsp, espvars, avr, avr_cmd_buf, tries, slider,
                   action_espreset, history>>

TimeBegin ==
    /\ avr = "main" /\ slider_wanted = slider_state
    /\ Len(toAvr) + Len(toEsp) <= WireMax
    /\ avr' = "time" /\ Ask("time_get", 0)
    /\ UNCHANGED <<toAvr, espvars, avr_cmd_buf, slider, action_espreset, history>>

\* Another time_get; after the last one the ESP8266 is to be restarted.
TimeAgain ==
    IF tries + 1 < TimeTries
    THEN Ask("time_get", tries + 1) /\ UNCHANGED <<avr, action_espreset>>
    ELSE Done /\ action_espreset' = TRUE

TimeLine ==
    /\ avr = "time" /\ toAvr # <<>> /\ Head(toAvr) = "EOL"
    /\ toAvr' = Tail(toAvr)
    /\ IF avr_ans_buf \in {"time", "x"}
       THEN Done /\ UNCHANGED action_espreset
       ELSE TimeAgain
    /\ UNCHANGED <<espvars, avr_cmd_buf, slider, history>>

\* 200 ms without a character: a running ESP8266 has read what was sent.
TimeTimeout ==
    /\ avr = "time" /\ toAvr = <<>> /\ toEsp = <<>>
    /\ TimeAgain
    /\ UNCHANGED <<toAvr, espvars, avr_cmd_buf, slider, history>>

-----------------------------------------------------------------------------
(* The AVR: esp_start_test() *)

HelloBegin ==
    /\ avr = "main" /\ action_espreset
    /\ action_espreset' = FALSE
    /\ avr' = "hello" /\ Ask("hello", 0)
    /\ UNCHANGED <<toAvr, espvars, avr_cmd_buf, slider, history>>

\* Mutant of Restarts: the ESP8266 is never restarted.
NeverRestarts(n) == n = EspTries

\* Before which attempts esp_startup() is called.
Restarts(n) == n # 0 /\ n % 2 = 0

\* The answer was not "hel_ok": the next attempt, or the error beep.
HelloAgain(rest) ==
    CASE tries + 1 = EspTries -> Done /\ toAvr' = rest /\ UNCHANGED espvars
      [] tries + 1 < EspTries /\ Restarts(tries + 1) ->
            /\ EspBecomes("boot") /\ toAvr' = <<>>
            /\ tries' = tries + 1 /\ avr_ans_buf' = "" /\ UNCHANGED avr
      [] OTHER -> Ask("hello", tries + 1) /\ toAvr' = rest /\ UNCHANGED <<avr, espvars>>

HelloLine ==
    /\ avr = "hello" /\ toAvr # <<>> /\ Head(toAvr) = "EOL"
    /\ IF avr_ans_buf = "hel_ok"
       THEN Done /\ toAvr' = Tail(toAvr) /\ UNCHANGED espvars
       ELSE HelloAgain(Tail(toAvr))
    /\ UNCHANGED <<avr_cmd_buf, slider, action_espreset, history>>

\* 100 ms without a character.
HelloTimeout ==
    /\ avr = "hello" /\ toAvr = <<>> /\ toEsp = <<>>
    /\ HelloAgain(<<>>)
    /\ UNCHANGED <<avr_cmd_buf, slider, action_espreset, history>>

-----------------------------------------------------------------------------
Esp == EspBoots \/ Loop \/ AnswerText \/ AnswerTaken \/ AnswerRefused \/ AnswerTimeout

Shell == ShellText \/ ExecuteSlider \/ ExecuteOpentime \/ RefuseOpentime \/ Ignore

Time == TimeBegin \/ TimeLine \/ TimeTimeout

Hello == HelloBegin \/ HelloLine \/ HelloTimeout

Avr ==
    \/ Shell \/ Time \/ Hello \/ AvrText
    \/ MotorStarts \/ MoveDone \/ GoToSleep \/ WakeUp \/ Busy

Next == Esp \/ Avr \/ Request \/ Press

Spec == Init /\ [][Next]_vars

\* The ESP8266 goes on; the AVR's loop calls each of its handlers in turn, its
\* timer asks for the time again and again, and get_answer() ends.
FairSpec ==
    /\ Spec
    /\ WF_vars(Esp)
    /\ WF_vars(AvrText \/ TimeLine \/ TimeTimeout \/ HelloLine \/ HelloTimeout)
    /\ SF_vars(MoveDone) /\ SF_vars(Shell) /\ SF_vars(HelloBegin)
    /\ SF_vars(TimeBegin)

-----------------------------------------------------------------------------
(* Properties *)

\* Buffers hold texts, counters stay within their loops; an ESP8266 without
\* power has nothing to read.
TypeOK ==
    /\ toAvr \in Seq(Texts \cup {"EOL"}) /\ toEsp \in Seq(Texts \cup {"EOL"})
    /\ esp \in {"off", "boot", "loop", "answer"}
    /\ request \in HttpCommands \cup {"none"} /\ attempt \in 0 .. Attempts
    /\ cmd_buf \in Texts \cup {""} /\ ans_buf \in Texts \cup {""}
    /\ avr \in {"main", "time", "hello", "sleep"}
    /\ avr_cmd_buf \in Texts \cup {""} /\ avr_ans_buf \in Texts \cup {""}
    /\ tries \in 0 .. TimeTries + EspTries
    /\ ~EspOn => toEsp = <<>> /\ request = "none"

\* Retries, late answers, left-over line ends and damaged lines never make the
\* AVR execute a command more often than it was sent.
ExecutedWasSent == \A c \in HttpCommands : copies[c] >= 0

\* The web page is told "ok" no more often than the AVR has executed a command that
\* is acknowledged so.  (An "ots_ok" does not say which opening time was set.)
OkEarned == \A a \in Answers \ {"opentime"} : earned[a] >= 0

\* A client that is told "ok" finds the door wanted where it asked for, however
\* old the acknowledgement is that it was given: whoever changes the direction
\* meanwhile switches the ESP8266 off.
OkMeansWanted ==
    [][AnswerTaken => /\ request = "slider_up" => slider_wanted = "up"
                      /\ request = "slider_down" => slider_wanted = "down"]_vars

\* However often the power is taken from the ESP8266, and in whatever command it is:
\* while the AVR is awake it comes back to loop(), where it answers the AVR and the
\* web page.  The AVR sleeps with the ESP8266 off until a button is pressed or the
\* opening time comes.
EspComesBack == []<>(esp = "loop" \/ avr = "sleep")
=============================================================================

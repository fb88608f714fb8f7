--------------------------- MODULE UartLinkProofs ---------------------------
(***************************************************************************)
(* Theorems about UartLink, for every number of attempts, requests and     *)
(* presses and any set of commands.                                        *)
(***************************************************************************)
EXTENDS UartLink, FiniteSetTheorems, FunctionTheorems, SequenceTheorems, TLAPS

Token == Texts \cup {"EOL"}
Wire == Seq(Token)

-----------------------------------------------------------------------------
(* Texts and wires *)

\* The acknowledgements, one by one.
LEMMA AckValues ==
    /\ DOMAIN AckOf = {"slider_up", "slider_down", "opentime_set", "opentime_bad",
                       "opentime_get"}
    /\ AckOf["slider_up"] = "slu_ok" /\ AckOf["slider_down"] = "sld_ok"
    /\ AckOf["opentime_set"] = "ots_ok" /\ AckOf["opentime_bad"] = "ots_ok"
    /\ AckOf["opentime_get"] = "opentime"
  BY DEF AckOf

\* The texts, one by one.
LEMMA TextValues ==
    Texts = {"slider_up", "slider_down", "opentime_set", "opentime_bad",
             "opentime_get", "slu_ok", "sld_ok", "ots_ok", "opentime", "time_get",
             "time", "x", "hello", "hel_ok", "noise"}
  BY AckValues DEF Texts

\* Commands and acknowledgements are texts, and neither is the other.
LEMMA CommandText ==
    ASSUME NEW c \in HttpCommands
    PROVE  /\ c \in Texts /\ AckOf[c] \in Texts
           /\ c \notin {"none", "", "EOL", "noise", "time_get", "hello"}
           /\ c \in DOMAIN AckOf /\ AckOf[c] \in Answers
  BY LinkAssumption, AckValues, TextValues DEF SliderCommands, OpentimeCommands, Answers

\* Wires are put together.
LEMMA WireParts ==
    /\ <<>> \in Wire
    /\ \A v, w \in Wire : v \o w \in Wire
  <1>1. <<>> \in Wire
    BY EmptySeq DEF Wire
  <1>2. ASSUME NEW v \in Wire, NEW w \in Wire PROVE v \o w \in Wire
    BY ConcatProperties DEF Wire
  <1> QED BY <1>1, <1>2

\* A line and a command fit on the wire.
LEMMA LineWire ==
    ASSUME NEW t \in Texts
    PROVE  Line(t) \in Wire /\ Command(t) \in Wire
  <1>1. t \in Token /\ "EOL" \in Token
    BY DEF Token
  <1>2. Line(t) = <<t, "EOL", "EOL">> /\ Line(t) \in Wire
    BY <1>1 DEF Line, Wire
  <1>3. <<"EOL", "EOL">> \in Wire
    BY <1>1 DEF Wire
  <1> QED BY <1>2, <1>3 DEF Command, Wire

\* Reading takes the first token off.
LEMMA TailWire ==
    ASSUME NEW w \in Wire, w # <<>>
    PROVE  Tail(w) \in Wire /\ Head(w) \in Token
  BY DEF Wire

\* A buffer holds a text or nothing.
LEMMA PutText ==
    ASSUME NEW b \in Texts \cup {""}, NEW t \in Token, t # "EOL"
    PROVE  Put(b, t) \in Texts
  BY TextValues DEF Put, Token

\* What is left after the AVR was busy are line ends and noise.
LEMMA KeptWire ==
    ASSUME NEW w \in Wire
    PROVE  /\ Kept(w) \in Wire
           /\ \A i \in 1 .. Len(Kept(w)) : Kept(w)[i] \in {"EOL", "noise"}
  <1>1. "EOL" \in Token /\ "noise" \in Token
    BY TextValues DEF Token
  <1>2. Kept(w) \in {<<>>, <<"noise">>, <<"EOL">>, <<"EOL", "EOL">>, <<"EOL", "noise">>}
    BY DEF Kept
  <1> DEFINE k == Kept(w)
  <1> HIDE DEF k
  <1>3. k \in Wire /\ \A i \in 1 .. Len(k) : k[i] \in {"EOL", "noise"}
    <2>1. CASE k = <<>>
      BY <2>1 DEF Wire
    <2>2. ASSUME NEW a \in {"EOL", "noise"}, k = <<a>>
          PROVE  k \in Wire /\ \A i \in 1 .. Len(k) : k[i] \in {"EOL", "noise"}
      <3>1. <<a>> \in Wire /\ Len(<<a>>) = 1 /\ <<a>>[1] = a
        BY <1>1 DEF Wire
      <3> QED BY <2>2, <3>1
    <2>3. ASSUME NEW a \in {"EOL", "noise"}, NEW b \in {"EOL", "noise"}, k = <<a, b>>
          PROVE  k \in Wire /\ \A i \in 1 .. Len(k) : k[i] \in {"EOL", "noise"}
      <3>1. <<a, b>> \in Wire /\ Len(<<a, b>>) = 2 /\ <<a, b>>[1] = a /\ <<a, b>>[2] = b
        BY <1>1 DEF Wire
      <3> QED BY <2>3, <3>1
    <2> QED BY <1>2, <2>1, <2>2, <2>3 DEF k
  <1> QED BY <1>3 DEF k

-----------------------------------------------------------------------------
(* Types *)

\* An ESP8266 without power has nothing to read.
WiresOK == toAvr \in Wire /\ toEsp \in Wire /\ (~EspOn => toEsp = <<>>)

\* Its get_answer() is only entered for a command ...
EspOK ==
    /\ esp \in {"off", "boot", "loop", "answer"}
    /\ request \in HttpCommands \cup {"none"} /\ attempt \in 0 .. Attempts
    /\ cmd_buf \in Texts \cup {""} /\ ans_buf \in Texts \cup {""}
    /\ esp = "answer" => request \in HttpCommands
    /\ ~EspOn => request = "none"

\* ... and the AVR's within the attempts of handle_time() and
\* esp_start_test().
AvrOK ==
    /\ avr \in {"main", "time", "hello", "sleep"}
    /\ avr_cmd_buf \in Texts \cup {""} /\ avr_ans_buf \in Texts \cup {""}
    /\ tries \in Nat
    /\ avr \in {"main", "sleep"} => tries = 0
    /\ avr = "time" => tries < TimeTries
    /\ avr = "hello" => tries < EspTries

CountsOK == copies \in [HttpCommands -> Int] /\ earned \in [Answers -> Int]

TypeInv == WiresOK /\ EspOK /\ AvrOK /\ CountsOK

\* One more or one less for an answer.
LEMMA EarnedType ==
    ASSUME NEW f \in [Answers -> Int], NEW a \in Answers
    PROVE  /\ [f EXCEPT ![a] = f[a] + 1] \in [Answers -> Int]
           /\ [f EXCEPT ![a] = f[a] - 1] \in [Answers -> Int]
  OBVIOUS

\* The numbers of attempts are not zero.
LEMMA Bounds ==
    /\ Attempts \in Nat /\ 0 < Attempts /\ 0 \in 0 .. Attempts /\ 1 \in 0 .. Attempts
    /\ TimeTries \in Nat /\ 0 < TimeTries
    /\ EspTries \in Nat /\ 0 < EspTries
  BY LinkAssumption

\* Together they are more than the type invariant.
LEMMA InvType == TypeInv => TypeOK
  <1>1. WiresOK /\ EspOK =>
            toAvr \in Seq(Texts \cup {"EOL"}) /\ toEsp \in Seq(Texts \cup {"EOL"})
    BY DEF WiresOK, Wire, Token
  <1>2. AvrOK => tries \in 0 .. TimeTries + EspTries
    <2>1. AvrOK => tries \in Nat /\ (tries = 0 \/ tries < TimeTries \/ tries < EspTries)
      BY DEF AvrOK
    <2> QED BY <2>1, Bounds
  <1> QED BY <1>1, <1>2 DEF TypeInv, TypeOK, WiresOK, EspOK, AvrOK

\* The variables are in their ranges at the start.
LEMMA TypeInit == Init => TypeInv
  <1> SUFFICES ASSUME Init PROVE TypeInv
    OBVIOUS
  <1>1. WiresOK
    BY WireParts DEF Init, WiresOK
  <1>2. EspOK
    BY Bounds DEF Init, EspOK, EspOn
  <1>3. AvrOK
    BY DEF Init, AvrOK
  <1>4. CountsOK
    <2>1. copies = [c \in HttpCommands |-> 0] /\ earned = [a \in Answers |-> 0]
      BY DEF Init
    <2> QED BY <2>1 DEF CountsOK
  <1> QED BY <1>1, <1>2, <1>3, <1>4 DEF TypeInv

\* What the ESP8266 is after its power was switched.
LEMMA PowerType ==
    ASSUME NEW power \in {"off", "boot"}, EspBecomes(power), toAvr' \in Wire
    PROVE  WiresOK' /\ EspOK'
  <1>1. <<>> \in Wire /\ 0 \in 0 .. Attempts
    BY LinkAssumption, WireParts
  <1>2. /\ esp' = power /\ request' = "none" /\ attempt' = 0
        /\ cmd_buf' = "" /\ ans_buf' = "" /\ toEsp' = <<>>
    BY DEF EspBecomes
  <1> QED BY <1>1, <1>2 DEF EspOn, WiresOK, EspOK

\* The ESP8266 while it is left alone.
LEMMA SameEsp ==
    ASSUME EspOK, UNCHANGED espvars
    PROVE  EspOK'
  BY DEF EspOK, EspOn, espvars

\* The AVR and the counters while they are left alone.
LEMMA SameAvr ==
    ASSUME AvrOK, UNCHANGED <<answering, avr_cmd_buf>>
    PROVE  AvrOK'
  BY DEF AvrOK, answering

\* The wires while the ESP8266 only reads and the AVR's wire is one.
LEMMA SameWires ==
    ASSUME WiresOK, toAvr' \in Wire, UNCHANGED <<toEsp, esp>>
    PROVE  WiresOK'
  BY DEF WiresOK, EspOn

\* An answer of the AVR: on the wire if somebody listens.
LEMMA SendsType ==
    ASSUME WiresOK, NEW t \in Texts, AvrSends(Line(t)), toAvr' \in Wire, UNCHANGED esp
    PROVE  WiresOK'
  <1>1. toEsp \o Line(t) \in Wire
    BY LineWire, WireParts DEF WiresOK
  <1>2. toEsp' = IF EspOn THEN toEsp \o Line(t) ELSE toEsp
    BY DEF AvrSends
  <1>3. EspOn' = EspOn
    BY DEF EspOn
  <1> QED BY <1>1, <1>2, <1>3 DEF WiresOK

\* An attempt of a command.
LEMMA SendType ==
    ASSUME TypeInv, NEW c \in HttpCommands, Send(c)
    PROVE  /\ toAvr' \in Wire /\ ans_buf' = ""
           /\ copies' \in [HttpCommands -> Int]
  <1>1. toAvr \o Command(c) \in Wire
    BY CommandText, LineWire, WireParts DEF TypeInv, WiresOK
  <1>2. copies' = [copies EXCEPT ![c] = copies[c] + 1]
    BY DEF Send
  <1>3. copies' \in [HttpCommands -> Int]
    BY <1>2 DEF TypeInv, CountsOK
  <1> QED BY <1>1, <1>3 DEF Send

\* The next attempt, or the answer to the web page.
LEMMA TryType ==
    ASSUME TypeInv, esp = "answer", TryAgain, UNCHANGED <<cmd_buf, avrvars, earned>>,
           toEsp' \in Wire
    PROVE  TypeInv'
  <1>1. request \in HttpCommands /\ attempt \in 0 .. Attempts /\ toAvr \in Wire
    BY DEF TypeInv, EspOK, WiresOK
  <1>2. AvrOK'
    BY SameAvr DEF TypeInv, avrvars
  <1>3. CASE attempt < Attempts
    <2>1. attempt' = attempt + 1 /\ Send(request) /\ esp' = esp /\ request' = request
      BY <1>3 DEF TryAgain
    <2>2. toAvr' \in Wire /\ ans_buf' = "" /\ copies' \in [HttpCommands -> Int]
      BY <1>1, <2>1, SendType
    <2>3. attempt' \in 0 .. Attempts
      BY <1>1, <1>3, <2>1, LinkAssumption
    <2>4. EspOK'
      BY <1>1, <2>1, <2>2, <2>3 DEF TypeInv, EspOK, EspOn
    <2>5. WiresOK' /\ CountsOK'
      BY <2>1, <2>2 DEF TypeInv, WiresOK, EspOn, CountsOK
    <2> QED BY <1>2, <2>4, <2>5 DEF TypeInv
  <1>4. CASE ~(attempt < Attempts)
    <2>1. /\ esp' = "loop" /\ request' = "none" /\ attempt' = 0 /\ ans_buf' = ""
          /\ toAvr' = toAvr /\ copies' = copies
      BY <1>4 DEF TryAgain, Respond
    <2>2. EspOK'
      BY <2>1, Bounds DEF TypeInv, EspOK, EspOn
    <2>3. WiresOK' /\ CountsOK'
      BY <1>1, <2>1 DEF TypeInv, WiresOK, EspOn, CountsOK
    <2> QED BY <1>2, <2>2, <2>3 DEF TypeInv
  <1> QED BY <1>3, <1>4

\* The ESP8266's steps keep the types.
LEMMA TypeEsp == TypeInv /\ (Esp \/ Request) => TypeInv'
  <1> SUFFICES ASSUME TypeInv, Esp \/ Request PROVE TypeInv'
    OBVIOUS
  <1>0. toAvr \in Wire /\ toEsp \in Wire
    BY DEF TypeInv, WiresOK
  <1>a. toEsp # <<>> => Tail(toEsp) \in Wire /\ Head(toEsp) \in Token
    BY <1>0, TailWire
  <1>b. UNCHANGED avrvars => AvrOK'
    BY SameAvr DEF TypeInv, avrvars
  <1>c. UNCHANGED history => CountsOK'
    BY DEF TypeInv, CountsOK, history
  <1>1. CASE EspBoots
    <2>1. Line("noise") \in Wire
      BY LineWire, TextValues
    <2>2. toEsp' \in Wire
      BY <1>1, <2>1, WireParts DEF EspBoots
    <2>3. toAvr' \in Wire
      BY <1>0, <1>1, <2>1, WireParts DEF EspBoots
    <2>4. EspOK' /\ WiresOK'
      BY <1>1, <2>2, <2>3 DEF EspBoots, TypeInv, EspOK, WiresOK, EspOn
    <2> QED BY <1>1, <1>b, <1>c, <2>4 DEF EspBoots, TypeInv
  <1>2. CASE Loop
    <2>1. /\ esp' = esp /\ toEsp' \in Wire
          /\ UNCHANGED <<request, attempt, ans_buf, avrvars, history>> /\ esp = "loop"
      BY <1>a, <1>2 DEF Loop
    <2>2. toAvr' \in Wire /\ cmd_buf' \in Texts \cup {""}
      <3>1. CASE Head(toEsp) = "EOL"
        <4>1. PICK r \in LoopReplies(cmd_buf) : toAvr' = toAvr \o r
          BY <1>2, <3>1 DEF Loop
        <4>2. r \in {<<>>, Line("time"), Line("x"), Line("hel_ok")}
          BY DEF LoopReplies
        <4>3. r \in Wire
          <5>1. {"time", "x", "hel_ok"} \subseteq Texts
            BY TextValues
          <5>2. {Line("time"), Line("x"), Line("hel_ok")} \subseteq Wire
            BY <5>1, LineWire
          <5> QED BY <4>2, <5>2, WireParts
        <4> QED BY <1>0, <1>2, <3>1, <4>1, <4>3, WireParts DEF Loop
      <3>2. CASE Head(toEsp) # "EOL"
        BY <1>0, <1>a, <1>2, <3>2, PutText DEF Loop, TypeInv, EspOK
      <3> QED BY <3>1, <3>2
    <2>3. EspOK' /\ WiresOK'
      BY <2>1, <2>2 DEF TypeInv, EspOK, WiresOK, EspOn
    <2> QED BY <1>b, <1>c, <2>1, <2>3 DEF TypeInv
  <1>3. CASE AnswerText
    <2>1. ans_buf' \in Texts
      BY <1>a, <1>3, PutText DEF AnswerText, TypeInv, EspOK
    <2>2. EspOK' /\ WiresOK'
      BY <1>a, <1>3, <2>1 DEF AnswerText, TypeInv, EspOK, WiresOK, EspOn
    <2> QED BY <1>3, <1>b, <1>c, <2>2 DEF AnswerText, TypeInv
  <1>4. CASE AnswerTaken
    <2>1. request \in HttpCommands
      BY <1>4 DEF AnswerTaken, TypeInv, EspOK
    <2>2. /\ esp' = "loop" /\ request' = "none" /\ attempt' = 0 /\ ans_buf' = ""
          /\ UNCHANGED <<toAvr, cmd_buf, avrvars, copies>> /\ toEsp' \in Wire
      BY <1>a, <1>4 DEF AnswerTaken, Respond
    <2>3. EspOK' /\ WiresOK'
      BY <2>2, Bounds DEF TypeInv, EspOK, WiresOK, EspOn
    <2>4. earned' = [earned EXCEPT ![AckOf[request]] = earned[AckOf[request]] - 1]
      BY <1>4 DEF AnswerTaken
    <2>5. CountsOK'
      <3>1. earned' \in [Answers -> Int]
        BY <2>1, <2>4, CommandText, EarnedType DEF TypeInv, CountsOK
      <3> QED BY <2>2, <3>1 DEF TypeInv, CountsOK
    <2> QED BY <1>b, <2>2, <2>3, <2>5 DEF TypeInv
  <1>5. CASE AnswerRefused
    BY <1>a, <1>5, TryType DEF AnswerRefused
  <1>6. CASE AnswerTimeout
    BY <1>0, <1>6, TryType DEF AnswerTimeout
  <1>7. CASE Request
    <2>1. PICK c \in HttpCommands : request' = c /\ Send(c)
      BY <1>7 DEF Request
    <2>2. toAvr' \in Wire /\ ans_buf' = "" /\ copies' \in [HttpCommands -> Int]
      BY <2>1, SendType
    <2>3. /\ esp' = "answer" /\ attempt' = 1 /\ 1 \in 0 .. Attempts /\ esp = "loop"
          /\ UNCHANGED <<toEsp, cmd_buf, avrvars, earned>>
      BY <1>7, LinkAssumption DEF Request
    <2>4. EspOK' /\ WiresOK'
      BY <2>1, <2>2, <2>3 DEF TypeInv, EspOK, WiresOK, EspOn
    <2>5. CountsOK'
      BY <2>2, <2>3 DEF TypeInv, CountsOK
    <2> QED BY <1>b, <2>3, <2>4, <2>5 DEF TypeInv
  <1> QED BY <1>1, <1>2, <1>3, <1>4, <1>5, <1>6, <1>7 DEF Esp

\* Slide() ends on both wires and in the ESP8266 with types.
LEMMA SlideType ==
    ASSUME TypeInv, NEW to, Slide(to), toAvr' \in Wire
    PROVE  WiresOK' /\ EspOK'
  <1>1. CASE slider_wanted # to
    BY <1>1, PowerType DEF Slide
  <1>2. CASE slider_wanted = to
    BY <1>2, SameEsp, SameWires DEF Slide, TypeInv, espvars
  <1> QED BY <1>1, <1>2

\* Buttons, alarms, movement and sleep keep the types.
LEMMA TypeMove ==
    TypeInv /\ (Press \/ MotorStarts \/ MoveDone \/ GoToSleep \/ WakeUp \/ Busy) => TypeInv'
  <1> SUFFICES ASSUME TypeInv, Press \/ MotorStarts \/ MoveDone \/ GoToSleep \/ WakeUp \/ Busy
               PROVE  TypeInv'
    OBVIOUS
  <1>a. UNCHANGED <<answering, avr_cmd_buf>> => AvrOK'
    BY SameAvr DEF TypeInv
  <1>b. UNCHANGED <<copies, earned>> => CountsOK'
    BY DEF TypeInv, CountsOK
  <1>c. UNCHANGED <<toAvr, toEsp, espvars>> => WiresOK' /\ EspOK'
    BY SameEsp, SameWires DEF TypeInv, WiresOK, espvars
  <1>1. CASE Press
    <2>1. PICK to \in {"up", "down"} : Slide(to)
      BY <1>1 DEF Press
    <2>2. toAvr' \in Wire
      BY <1>1 DEF Press, TypeInv, WiresOK
    <2> QED BY <1>1, <1>a, <1>b, <2>1, <2>2, SlideType DEF Press, TypeInv
  <1>2. CASE MotorStarts \/ MoveDone
    BY <1>2, <1>a, <1>b, <1>c DEF MotorStarts, MoveDone, wires, history, TypeInv
  <1>3. CASE GoToSleep
    <2>1. WiresOK' /\ EspOK'
      BY <1>3, PowerType, WireParts DEF GoToSleep
    <2>2. AvrOK'
      BY <1>3 DEF GoToSleep, TypeInv, AvrOK
    <2> QED BY <1>3, <1>b, <2>1, <2>2 DEF GoToSleep, TypeInv
  <1>5. CASE WakeUp
    <2>1. PICK power \in {"boot", "off"} : EspBecomes(power)
      BY <1>5 DEF WakeUp
    <2>2. toAvr' \in Wire
      BY <1>5 DEF WakeUp, TypeInv, WiresOK
    <2>3. WiresOK' /\ EspOK'
      BY <2>1, <2>2, PowerType
    <2>4. AvrOK'
      BY <1>5 DEF WakeUp, TypeInv, AvrOK
    <2> QED BY <1>5, <1>b, <2>3, <2>4 DEF WakeUp, TypeInv, history
  <1>4. CASE Busy
    <2>1. toAvr' \in Wire
      BY <1>4, KeptWire DEF Busy, TypeInv, WiresOK
    <2>2. WiresOK' /\ EspOK'
      BY <1>4, <2>1, SameEsp, SameWires DEF Busy, TypeInv, espvars
    <2> QED BY <1>4, <1>a, <1>b, <2>2 DEF Busy, avrvars, history, TypeInv
  <1> QED BY <1>1, <1>2, <1>3, <1>4, <1>5

\* A command that was executed is counted.
LEMMA ExecutedType ==
    ASSUME CountsOK, NEW c \in HttpCommands, Executed(c)
    PROVE  CountsOK'
  <1>1. copies' = [copies EXCEPT ![c] = copies[c] - 1]
    BY DEF Executed
  <1>2. earned' = [earned EXCEPT ![AckOf[c]] = earned[AckOf[c]] + 1]
    BY DEF Executed
  <1>3. copies' \in [HttpCommands -> Int]
    BY <1>1 DEF CountsOK
  <1>4. earned' \in [Answers -> Int]
    BY <1>2, CommandText, EarnedType DEF CountsOK
  <1> QED BY <1>3, <1>4 DEF CountsOK

\* The shell keeps the types.
LEMMA TypeShell == TypeInv /\ Shell => TypeInv'
  <1> SUFFICES ASSUME TypeInv, Shell PROVE TypeInv'
    OBVIOUS
  <1>0. toAvr # <<>> => Tail(toAvr) \in Wire /\ Head(toAvr) \in Token
    BY TailWire DEF TypeInv, WiresOK
  <1>a. ShellLine => AvrOK' /\ toAvr' \in Wire
    BY <1>0 DEF ShellLine, TypeInv, AvrOK, answering
  <1>1. CASE ShellText
    <2>1. avr_cmd_buf' \in Texts \cup {""}
      BY <1>0, <1>1, PutText DEF ShellText, TypeInv, AvrOK
    <2>2. AvrOK'
      BY <1>1, <2>1 DEF ShellText, TypeInv, AvrOK, answering
    <2>3. WiresOK' /\ EspOK'
      BY <1>0, <1>1, SameEsp, SameWires DEF ShellText, TypeInv, espvars
    <2> QED BY <1>1, <2>2, <2>3 DEF ShellText, TypeInv, CountsOK, history
  <1>2. CASE ExecuteSlider
    <2>1. PICK c \in HttpCommands \cap SliderCommands :
             /\ ShellLine /\ Executed(c)
             /\ LET to == IF c = "slider_up" THEN "up" ELSE "down"
                IN  IF slider_wanted = to
                    THEN AvrSends(Line(AckOf[c])) /\ UNCHANGED <<espvars, slider_wanted>>
                    ELSE Slide(to)
      BY <1>2 DEF ExecuteSlider
    <2>2. WiresOK' /\ EspOK'
      <3>1. CASE AvrSends(Line(AckOf[c])) /\ UNCHANGED espvars
        BY <1>a, <2>1, <3>1, CommandText, SendsType, SameEsp DEF TypeInv, espvars
      <3>2. CASE \E to : Slide(to)
        BY <1>a, <2>1, <3>2, SlideType
      <3> QED BY <2>1, <3>1, <3>2
    <2> QED BY <1>a, <2>1, <2>2, ExecutedType DEF TypeInv
  <1>3. CASE ExecuteOpentime
    <2>1. PICK c \in HttpCommands :
             /\ ShellLine /\ Executed(c) /\ AvrSends(Line(AckOf[c])) /\ UNCHANGED espvars
      BY <1>3 DEF ExecuteOpentime
    <2>2. WiresOK' /\ EspOK'
      BY <1>a, <2>1, CommandText, SendsType, SameEsp DEF TypeInv, espvars
    <2> QED BY <1>a, <2>1, <2>2, ExecutedType DEF TypeInv
  <1>4. CASE RefuseOpentime \/ Ignore
    <2>1. WiresOK' /\ EspOK'
      BY <1>a, <1>4, SameEsp, SameWires DEF RefuseOpentime, Ignore, TypeInv, espvars
    <2> QED BY <1>a, <1>4, <2>1 DEF RefuseOpentime, Ignore, TypeInv, CountsOK
  <1> QED BY <1>1, <1>2, <1>3, <1>4 DEF Shell

\* The AVR's get_answer() and its callers keep the types.
LEMMA TypeAsk == TypeInv /\ (Time \/ Hello \/ AvrText) => TypeInv'
  <1> SUFFICES ASSUME TypeInv, Time \/ Hello \/ AvrText PROVE TypeInv'
    OBVIOUS
  <1>0. toAvr # <<>> => Tail(toAvr) \in Wire /\ Head(toAvr) \in Token
    BY TailWire DEF TypeInv, WiresOK
  <1>t. "time_get" \in Texts /\ "hello" \in Texts /\ toAvr \in Wire
    BY TextValues DEF TypeInv, WiresOK
  <1>a. UNCHANGED <<copies, earned>> => CountsOK'
    BY DEF TypeInv, CountsOK
  <1>b. ASSUME NEW t \in {"time_get", "hello"}, NEW n \in Nat, Ask(t, n), toAvr' \in Wire,
               UNCHANGED espvars
        PROVE  WiresOK' /\ EspOK' /\ tries' = n /\ avr_ans_buf' = ""
    BY <1>b, <1>t, SendsType, SameEsp DEF Ask, TypeInv, espvars
  <1>c. ASSUME Done, toAvr' \in Wire, UNCHANGED <<espvars, avr_cmd_buf>>
        PROVE  WiresOK' /\ EspOK' /\ AvrOK'
    BY <1>c, SameEsp, SameWires DEF Done, TypeInv, espvars, AvrOK
  <1>d. ASSUME TimeAgain, avr = "time", toAvr' \in Wire, UNCHANGED <<espvars, avr_cmd_buf>>
        PROVE  WiresOK' /\ EspOK' /\ AvrOK'
    <2>0. tries \in Nat
      BY DEF TypeInv, AvrOK
    <2>1. tries + 1 \in Nat
      BY <2>0
    <2>2. CASE tries + 1 < TimeTries
      BY <1>b, <1>d, <2>1, <2>2 DEF TimeAgain, TypeInv, AvrOK
    <2>3. CASE ~(tries + 1 < TimeTries)
      BY <1>c, <1>d, <2>3 DEF TimeAgain
    <2> QED BY <2>2, <2>3
  <1>e. ASSUME NEW rest \in Wire, HelloAgain(rest), avr = "hello", UNCHANGED avr_cmd_buf
        PROVE  WiresOK' /\ EspOK' /\ AvrOK'
    <2>0. tries \in Nat /\ tries < EspTries
      BY <1>e DEF TypeInv, AvrOK
    <2>1. tries + 1 \in Nat /\ tries < EspTries /\ EspTries \in Nat
      BY <2>0, Bounds
    <2>2. CASE tries + 1 = EspTries
      <3>0. ~(tries + 1 < EspTries)
        BY <2>1, <2>2
      <3>1. Done /\ toAvr' = rest /\ UNCHANGED espvars
        BY <1>e, <2>2, <3>0, Zenon DEF HelloAgain
      <3> QED BY <1>c, <1>e, <3>1
    <2>3. CASE tries + 1 < EspTries /\ Restarts(tries + 1)
      <3>0. tries + 1 # EspTries
        BY <2>1, <2>3
      <3>1. /\ EspBecomes("boot") /\ toAvr' = <<>>
            /\ tries' = tries + 1 /\ avr_ans_buf' = "" /\ UNCHANGED avr
        BY <1>e, <2>3, <3>0, Zenon DEF HelloAgain
      <3>2. WiresOK' /\ EspOK'
        BY <3>1, PowerType, WireParts
      <3>3. AvrOK'
        BY <1>e, <2>1, <2>3, <3>1 DEF TypeInv, AvrOK
      <3> QED BY <3>2, <3>3
    <2>4. CASE tries + 1 < EspTries /\ ~Restarts(tries + 1)
      <3>1. Ask("hello", tries + 1) /\ toAvr' = rest /\ UNCHANGED <<avr, espvars>>
        BY <1>e, <2>1, <2>4 DEF HelloAgain
      <3>2. WiresOK' /\ EspOK' /\ tries' = tries + 1 /\ avr_ans_buf' = ""
        BY <1>b, <1>e, <2>1, <3>1
      <3>3. AvrOK'
        BY <1>e, <2>1, <2>4, <3>1, <3>2 DEF TypeInv, AvrOK
      <3> QED BY <3>2, <3>3
    <2>5. tries + 1 = EspTries \/ tries + 1 < EspTries
      BY <2>0, <2>1
    <2> QED BY <2>2, <2>3, <2>4, <2>5
  <1>1. CASE AvrText
    <2>1. avr_ans_buf' \in Texts \cup {""}
      BY <1>0, <1>1, PutText DEF AvrText, TypeInv, AvrOK
    <2>2. AvrOK'
      BY <1>1, <2>1 DEF AvrText, TypeInv, AvrOK
    <2>3. WiresOK' /\ EspOK'
      BY <1>0, <1>1, SameEsp, SameWires DEF AvrText, TypeInv, espvars
    <2> QED BY <1>1, <1>a, <2>2, <2>3 DEF AvrText, TypeInv, history
  <1>2. CASE TimeBegin
    <2>1. /\ avr' = "time" /\ Ask("time_get", 0)
          /\ UNCHANGED <<toAvr, espvars, avr_cmd_buf, copies, earned>>
      BY <1>2 DEF TimeBegin, history
    <2>2. WiresOK' /\ EspOK' /\ tries' = 0 /\ avr_ans_buf' = ""
      BY <1>b, <1>t, <2>1
    <2>3. AvrOK'
      BY <2>1, <2>2, Bounds DEF TypeInv, AvrOK
    <2> QED BY <1>a, <2>1, <2>2, <2>3 DEF TypeInv
  <1>3. CASE TimeLine
    <2>1. toAvr' \in Wire /\ avr = "time" /\ UNCHANGED <<espvars, avr_cmd_buf, copies, earned>>
      BY <1>0, <1>3 DEF TimeLine, history
    <2>2. Done \/ TimeAgain
      BY <1>3 DEF TimeLine
    <2> QED BY <1>a, <1>c, <1>d, <2>1, <2>2 DEF TypeInv
  <1>4. CASE TimeTimeout
    <2>1. toAvr' \in Wire /\ avr = "time" /\ UNCHANGED <<espvars, avr_cmd_buf, copies, earned>>
      BY <1>t, <1>4 DEF TimeTimeout, history
    <2>2. TimeAgain
      BY <1>4 DEF TimeTimeout
    <2> QED BY <1>a, <1>d, <2>1, <2>2 DEF TypeInv
  <1>5. CASE HelloBegin
    <2>1. /\ avr' = "hello" /\ Ask("hello", 0)
          /\ UNCHANGED <<toAvr, espvars, avr_cmd_buf, copies, earned>>
      BY <1>5 DEF HelloBegin, history
    <2>2. WiresOK' /\ EspOK' /\ tries' = 0 /\ avr_ans_buf' = ""
      BY <1>b, <1>t, <2>1
    <2>3. AvrOK'
      BY <2>1, <2>2, Bounds DEF TypeInv, AvrOK
    <2> QED BY <1>a, <2>1, <2>2, <2>3 DEF TypeInv
  <1>6. CASE HelloLine
    <2>1. /\ avr = "hello" /\ Tail(toAvr) \in Wire
          /\ UNCHANGED <<avr_cmd_buf, copies, earned>>
      BY <1>0, <1>6 DEF HelloLine, history
    <2>2. \/ Done /\ toAvr' = Tail(toAvr) /\ UNCHANGED espvars
          \/ HelloAgain(Tail(toAvr))
      BY <1>6 DEF HelloLine
    <2> QED BY <1>a, <1>c, <1>e, <2>1, <2>2 DEF TypeInv
  <1>7. CASE HelloTimeout
    <2>1. avr = "hello" /\ HelloAgain(<<>>) /\ UNCHANGED <<avr_cmd_buf, copies, earned>>
      BY <1>7 DEF HelloTimeout, history
    <2> QED BY <1>a, <1>e, <2>1, WireParts DEF TypeInv
  <1> QED BY <1>1, <1>2, <1>3, <1>4, <1>5, <1>6, <1>7 DEF Time, Hello

\* Every step keeps the types.
LEMMA TypeNext == TypeInv /\ [Next]_vars => TypeInv'
  <1>1. TypeInv /\ UNCHANGED vars => TypeInv'
    <2> SUFFICES ASSUME TypeInv, UNCHANGED vars PROVE TypeInv'
      OBVIOUS
    <2>1. UNCHANGED <<wires, espvars, avrvars, history>>
      BY DEF vars
    <2>2. WiresOK' /\ EspOK'
      BY <2>1, SameEsp DEF TypeInv, WiresOK, EspOn, wires, espvars
    <2> QED BY <2>1, <2>2, SameAvr DEF TypeInv, CountsOK, avrvars, history
  <1> QED BY <1>1, TypeEsp, TypeMove, TypeShell, TypeAsk DEF Next, Avr

\* The types, in every reachable state.
LEMMA TypeInvariant == Spec => []TypeInv
  BY TypeInit, TypeNext, PTL DEF Spec

\* Every buffer holds a text or nothing, every loop of attempts stays in its
\* bounds, and an ESP8266 without power has nothing to read, whatever is
\* lost, damaged or late (main.c:197-230, user_main.c:196-240).
THEOREM TypeCorrect == Spec => []TypeOK
  BY TypeInvariant, InvType, PTL

-----------------------------------------------------------------------------
(* Counting what is under way *)

\* Where on a wire a text is, and how often.
Places(w, t) == {i \in 1 .. Len(w) : w[i] = t}
Count(w, t) == Cardinality(Places(w, t))

\* Places are finitely many.
LEMMA PlacesFinite ==
    ASSUME NEW w \in Wire, NEW t
    PROVE  IsFiniteSet(Places(w, t)) /\ Count(w, t) \in Nat
  <1>1. Len(w) \in Nat
    BY DEF Wire
  <1>2. Places(w, t) \subseteq 1 .. Len(w) /\ IsFiniteSet(1 .. Len(w))
    BY <1>1, FS_Interval DEF Places
  <1>3. IsFiniteSet(Places(w, t))
    BY <1>2, FS_Subset
  <1> QED BY <1>3, FS_CardinalityType DEF Count

\* Places that are moved together stay as many.
LEMMA Moved ==
    ASSUME NEW S \in SUBSET Int, IsFiniteSet(S), NEW n \in Int
    PROVE  /\ IsFiniteSet({i + n : i \in S})
           /\ Cardinality({i + n : i \in S}) = Cardinality(S)
  <1> DEFINE T == {i + n : i \in S}
             f == [i \in S |-> i + n]
  <1>1. f \in [S -> T]
    OBVIOUS
  <1>2. ASSUME NEW i \in S, NEW j \in S, f[i] = f[j] PROVE i = j
    BY <1>2
  <1>3. ASSUME NEW k \in T PROVE \E i \in S : f[i] = k
    OBVIOUS
  <1>4. f \in Bijection(S, T)
    BY <1>1, <1>2, <1>3, Fun_IsBij
  <1>5. ExistsBijection(S, T)
    BY <1>4 DEF ExistsBijection
  <1> QED BY <1>5, FS_Bijection

\* What is on a wire put together is on one of its parts.
LEMMA CountConcat ==
    ASSUME NEW v \in Wire, NEW w \in Wire, NEW t
    PROVE  Count(v \o w, t) = Count(v, t) + Count(w, t)
  <1> DEFINE P == Places(v, t)
             Q == {i + Len(v) : i \in Places(w, t)}
  <1>1. Len(v) \in Nat /\ Len(w) \in Nat
    BY DEF Wire
  <1>2. /\ Len(v \o w) = Len(v) + Len(w)
        /\ \A i \in 1 .. Len(v) + Len(w) :
              (v \o w)[i] = IF i <= Len(v) THEN v[i] ELSE w[i - Len(v)]
    BY ConcatProperties DEF Wire
  <1>3. Places(v \o w, t) \subseteq P \cup Q
    <2> SUFFICES ASSUME NEW i \in Places(v \o w, t), i \notin P PROVE i \in Q
      OBVIOUS
    <2>1. i \in 1 .. Len(v) + Len(w) /\ (v \o w)[i] = t
      BY <1>2 DEF Places
    <2>2. i > Len(v)
      BY <1>1, <1>2, <2>1 DEF Places
    <2>3. i - Len(v) \in 1 .. Len(w) /\ w[i - Len(v)] = t
      BY <1>1, <1>2, <2>1, <2>2
    <2>4. i = (i - Len(v)) + Len(v)
      BY <1>1, <2>1
    <2> QED BY <2>3, <2>4 DEF Places
  <1>4. P \subseteq Places(v \o w, t)
    BY <1>1, <1>2 DEF Places
  <1>5. Q \subseteq Places(v \o w, t)
    <2> SUFFICES ASSUME NEW j \in 1 .. Len(w), w[j] = t
                 PROVE  j + Len(v) \in Places(v \o w, t)
      BY DEF Places
    <2>1. /\ j + Len(v) \in 1 .. Len(v) + Len(w) /\ ~(j + Len(v) <= Len(v))
          /\ (j + Len(v)) - Len(v) = j
      BY <1>1
    <2> QED BY <1>2, <2>1 DEF Places
  <1>6. P \cap Q = {}
    BY <1>1 DEF Places
  <1>7. IsFiniteSet(P) /\ IsFiniteSet(Q) /\ Cardinality(Q) = Count(w, t)
    <2>1. Places(w, t) \in SUBSET Int /\ Len(v) \in Int
      BY <1>1 DEF Places
    <2>2. IsFiniteSet(Places(w, t)) /\ IsFiniteSet(P)
      BY PlacesFinite
    <2>3. IsFiniteSet(Q) /\ Cardinality(Q) = Cardinality(Places(w, t))
      BY <2>1, <2>2, Moved
    <2> QED BY <2>2, <2>3 DEF Count
  <1>8. Places(v \o w, t) = P \cup Q
    BY <1>3, <1>4, <1>5
  <1>9. Cardinality(P \cup Q) = Cardinality(P) + Cardinality(Q)
    <2> HIDE DEF P, Q
    <2>1. Cardinality(P \cup Q) = Cardinality(P) + Cardinality(Q) - Cardinality(P \cap Q)
      BY <1>7, FS_Union
    <2>2. Cardinality(P) \in Nat /\ Cardinality(Q) \in Nat
      BY <1>7, FS_CardinalityType
    <2>3. Cardinality(P \cap Q) = 0
      BY <1>6, FS_EmptySet
    <2> QED BY <2>1, <2>2, <2>3
  <1> QED BY <1>7, <1>8, <1>9 DEF Count

\* One token, or none.
LEMMA CountOne ==
    ASSUME NEW u \in Token, NEW t
    PROVE  <<u>> \in Wire /\ Count(<<u>>, t) = IF u = t THEN 1 ELSE 0
  <1>1. <<u>> \in Wire /\ Len(<<u>>) = 1 /\ <<u>>[1] = u
    BY DEF Wire
  <1>2. Places(<<u>>, t) = IF u = t THEN {1} ELSE {}
    BY <1>1 DEF Places
  <1> QED BY <1>1, <1>2, FS_Singleton, FS_EmptySet DEF Count

\* Nothing, or none of these.
LEMMA CountNone ==
    ASSUME NEW w \in Wire, NEW t, \A i \in 1 .. Len(w) : w[i] # t
    PROVE  Count(w, t) = 0
  <1>1. Places(w, t) = {}
    BY DEF Places
  <1> QED BY <1>1, FS_EmptySet DEF Count

\* An empty wire.
LEMMA CountEmpty == \A t : Count(<<>>, t) = 0
  <1>1. \A t : Places(<<>>, t) = {}
    BY DEF Places
  <1> QED BY <1>1, FS_EmptySet DEF Count

\* Reading takes the first token off.
LEMMA CountTail ==
    ASSUME NEW w \in Wire, w # <<>>, NEW t
    PROVE  Count(Tail(w), t) = IF Head(w) = t THEN Count(w, t) - 1 ELSE Count(w, t)
  <1>1. Head(w) \in Token /\ Tail(w) \in Wire
    BY DEF Wire
  <1>2. w = <<Head(w)>> \o Tail(w)
    BY DEF Wire
  <1>3. Count(w, t) = Count(<<Head(w)>>, t) + Count(Tail(w), t)
    <2>1. <<Head(w)>> \in Wire
      BY <1>1, CountOne
    <2>2. Count(<<Head(w)>> \o Tail(w), t) = Count(<<Head(w)>>, t) + Count(Tail(w), t)
      BY <1>1, <2>1, CountConcat
    <2> QED BY <1>2, <2>2
  <1>4. Count(Tail(w), t) \in Nat /\ Count(w, t) \in Nat
    BY <1>1, PlacesFinite
  <1>5. Count(<<Head(w)>>, t) = IF Head(w) = t THEN 1 ELSE 0
    BY <1>1, CountOne
  <1> QED BY <1>3, <1>4, <1>5

\* One for a buffer that holds the text, none for another.
Held(b, t) == IF b = t THEN 1 ELSE 0

\* A line and a command carry their text once.
LEMMA CountLine ==
    ASSUME NEW u \in Texts, NEW t \in Texts
    PROVE  Count(Line(u), t) = Held(u, t) /\ Count(Command(u), t) = Held(u, t)
  <1>1. u \in Token /\ "EOL" \in Token /\ t # "EOL"
    BY TextValues DEF Token
  <1>2. <<u>> \in Wire /\ <<"EOL">> \in Wire /\ Count(<<u>>, t) = Held(u, t)
    BY <1>1, CountOne DEF Held
  <1>3. Count(<<"EOL">>, t) = 0
    BY <1>1, CountOne
  <1> DEFINE end == <<"EOL">> \o <<"EOL">>
  <1>4. end \in Wire /\ Count(end, t) = 0
    BY <1>2, <1>3, WireParts, CountConcat
  <1>5. Line(u) = <<u>> \o end /\ Command(u) = end \o Line(u)
    BY DEF Line, Command
  <1>6. Held(u, t) \in Nat
    BY DEF Held
  <1> HIDE DEF end
  <1>7. Line(u) \in Wire /\ Count(Line(u), t) = Held(u, t)
    <2>1. Count(<<u>> \o end, t) = Count(<<u>>, t) + Count(end, t)
      BY <1>2, <1>4, CountConcat
    <2>2. Count(Line(u), t) = Held(u, t)
      BY <1>2, <1>4, <1>5, <1>6, <2>1
    <2> QED BY <2>2, LineWire
  <1>8. Count(end \o Line(u), t) = Count(end, t) + Count(Line(u), t)
    BY <1>4, <1>7, CountConcat
  <1> QED BY <1>4, <1>5, <1>6, <1>7, <1>8

\* What is read goes into a buffer once, or is damaged.
LEMMA ReadInto ==
    ASSUME NEW w \in Wire, w # <<>>, NEW b, NEW t, t # "noise"
    PROVE  /\ Count(Tail(w), t) + Held(Put(b, Head(w)), t) <= Count(w, t)
           /\ Count(Tail(w), t) <= Count(w, t)
  <1>1. Count(Tail(w), t) = IF Head(w) = t THEN Count(w, t) - 1 ELSE Count(w, t)
    BY CountTail
  <1>2. Held(Put(b, Head(w)), t) <= Held(Head(w), t) /\ Held(Put(b, Head(w)), t) \in Nat
    <2>1. Put(b, Head(w)) \in {Head(w), "noise"}
      BY DEF Put
    <2> QED BY <2>1 DEF Held
  <1>3. Count(w, t) \in Nat
    BY PlacesFinite
  <1> QED BY <1>1, <1>2, <1>3 DEF Held

-----------------------------------------------------------------------------
(* Commands and acknowledgements under way *)

\* The acknowledgements that are looked at.
AckTexts == {"slu_ok", "sld_ok", "ots_ok"}

\* Copies of a command that the AVR may still execute, acknowledgements that
\* the ESP8266 may still take: now, and after a step.
SentIn(w, b, c) == Count(w, c) + Held(b, c)
AcksIn(w, b, a, t) == Count(w, t) + Held(b, t) + Held(a, t)

Sent(c) == SentIn(toAvr, avr_cmd_buf, c)
SentNext(c) == SentIn(toAvr', avr_cmd_buf', c)
Acks(t) == AcksIn(toEsp, cmd_buf, ans_buf, t)
AcksNext(t) == AcksIn(toEsp', cmd_buf', ans_buf', t)

\* A step that adds none.
SentLess == \A c \in HttpCommands : SentNext(c) <= Sent(c)
AcksLess == \A t \in AckTexts : AcksNext(t) <= Acks(t)

\* All of them are numbers.
LEMMA CountsType ==
    ASSUME TypeInv
    PROVE  /\ \A c : Sent(c) \in Nat /\ Count(toAvr, c) \in Nat /\ Held(avr_cmd_buf, c) \in Nat
           /\ \A t : Acks(t) \in Nat /\ Count(toEsp, t) \in Nat
  <1>1. toAvr \in Wire /\ toEsp \in Wire
    BY DEF TypeInv, WiresOK
  <1>2. \A t : Count(toAvr, t) \in Nat /\ Count(toEsp, t) \in Nat
    BY <1>1, PlacesFinite
  <1> QED BY <1>2 DEF Sent, SentIn, Acks, AcksIn, Held

\* What the acknowledgements under way are made of.
LEMMA AcksSum ==
    ASSUME NEW t
    PROVE  /\ Acks(t) = Count(toEsp, t) + Held(cmd_buf, t) + Held(ans_buf, t)
           /\ AcksNext(t) = Count(toEsp', t) + Held(cmd_buf', t) + Held(ans_buf', t)
           /\ Held(cmd_buf, t) \in Nat /\ Held(ans_buf, t) \in Nat
           /\ Held(cmd_buf', t) \in Nat /\ Held(ans_buf', t) \in Nat
  BY DEF Acks, AcksNext, AcksIn, Held

\* An ESP8266 that loses its power loses every acknowledgement.
LEMMA PowerAcks ==
    ASSUME NEW power, EspBecomes(power), NEW t \in AckTexts
    PROVE  AcksNext(t) = 0
  <1>1. toEsp' = <<>> /\ cmd_buf' = "" /\ ans_buf' = "" /\ t # ""
    BY DEF EspBecomes, AckTexts
  <1>2. Count(toEsp', t) = 0
    BY <1>1, CountEmpty
  <1>3. Held(cmd_buf', t) = 0 /\ Held(ans_buf', t) = 0
    BY <1>1 DEF Held
  <1>4. Count(toEsp', t) + Held(cmd_buf', t) + Held(ans_buf', t) = 0
    BY <1>2, <1>3
  <1>5. AcksNext(t) = AcksIn(toEsp', cmd_buf', ans_buf', t)
    BY DEF AcksNext
  <1> QED BY <1>4, <1>5 DEF AcksIn

\* What the AVR sends.
LEMMA SendsAcks ==
    ASSUME TypeInv, NEW u \in Texts, AvrSends(Line(u)), UNCHANGED espvars,
           NEW t \in AckTexts
    PROVE  AcksNext(t) <= Acks(t) + Held(u, t)
  <1>1. toEsp \in Wire /\ Line(u) \in Wire /\ t \in Texts
    BY LineWire, TextValues DEF TypeInv, WiresOK, AckTexts
  <1>2. Count(toEsp \o Line(u), t) = Count(toEsp, t) + Held(u, t)
    BY <1>1, CountConcat, CountLine
  <1>3. toEsp' = toEsp \o Line(u) \/ toEsp' = toEsp
    BY DEF AvrSends
  <1>4. Count(toEsp', t) <= Count(toEsp, t) + Held(u, t)
    <2>1. Count(toEsp, t) \in Nat /\ Held(u, t) \in Nat
      BY <1>1, PlacesFinite DEF Held
    <2>2. toEsp' = toEsp => Count(toEsp', t) = Count(toEsp, t)
      OBVIOUS
    <2>3. toEsp' = toEsp \o Line(u) => Count(toEsp', t) = Count(toEsp, t) + Held(u, t)
      BY <1>2
    <2> QED BY <1>3, <2>1, <2>2, <2>3
  <1>5. Held(cmd_buf', t) = Held(cmd_buf, t) /\ Held(ans_buf', t) = Held(ans_buf, t)
    BY DEF espvars
  <1>6. Held(u, t) \in Nat
    BY DEF Held
  <1>7. Count(toEsp, t) \in Nat /\ Count(toEsp', t) \in Nat
    <2>1. toEsp' \in Wire
      BY <1>1, <1>3, WireParts
    <2> QED BY <1>1, <2>1, PlacesFinite
  <1> QED BY <1>4, <1>5, <1>6, <1>7, AcksSum

\* Another attempt empties the answer buffer.
LEMMA TryAcks ==
    ASSUME TypeInv, TryAgain, UNCHANGED cmd_buf, NEW t \in AckTexts,
           Count(toEsp', t) <= Count(toEsp, t), Count(toEsp', t) \in Nat
    PROVE  AcksNext(t) <= Acks(t)
  <1>1. ans_buf' = "" /\ t # ""
    BY DEF TryAgain, Send, Respond, AckTexts
  <1>2. Held(ans_buf', t) = 0 /\ Held(ans_buf, t) \in Nat /\ Held(cmd_buf, t) \in Nat
    BY <1>1 DEF Held
  <1>3. Count(toEsp, t) \in Nat
    BY CountsType
  <1> QED BY <1>2, <1>3, AcksSum

\* The ESP8266 takes acknowledgements off the wire and makes none.
LEMMA EspAcks == TypeInv /\ (Esp \/ Request) => AcksLess
  <1> SUFFICES ASSUME TypeInv, Esp \/ Request, NEW t \in AckTexts
               PROVE  AcksNext(t) <= Acks(t)
    BY DEF AcksLess
  <1>0. toEsp \in Wire /\ t \notin {"", "noise", "EOL"}
    BY DEF TypeInv, WiresOK, AckTexts
  <1>n. Count(toEsp, t) \in Nat
    BY CountsType
  <1>a. toEsp # <<>> => Count(Tail(toEsp), t) <= Count(toEsp, t)
    BY <1>0, ReadInto
  <1>b. toEsp # <<>> => Count(Tail(toEsp), t) \in Nat
    BY <1>0, TailWire, PlacesFinite
  <1>c. Held(cmd_buf, t) \in Nat /\ Held(ans_buf, t) \in Nat /\ Held("", t) = 0
    BY <1>0 DEF Held
  <1>1. CASE EspBoots
    <2>1. Count(<<>>, t) = 0 /\ Count(Line("noise"), t) = 0
      <3>1. "noise" \in Texts /\ t \in Texts
        BY TextValues DEF AckTexts
      <3> QED BY <1>0, <3>1, CountEmpty, CountLine DEF Held
    <2>2. toEsp' \in {<<>>, Line("noise")} /\ UNCHANGED <<cmd_buf, ans_buf>>
      BY <1>1 DEF EspBoots
    <2>3. Count(toEsp', t) = 0
      BY <2>1, <2>2
    <2>4. Held(cmd_buf', t) = Held(cmd_buf, t) /\ Held(ans_buf', t) = Held(ans_buf, t)
      BY <2>2
    <2> QED BY <1>n, <2>3, <2>4, AcksSum
  <1>2. CASE Loop
    <2>1. toEsp # <<>> /\ toEsp' = Tail(toEsp) /\ UNCHANGED ans_buf
      BY <1>2 DEF Loop
    <2>2. CASE Head(toEsp) = "EOL"
      <3>1. cmd_buf' = ""
        BY <1>2, <2>2 DEF Loop
      <3>2. Held(cmd_buf', t) = 0 /\ Held(ans_buf', t) = Held(ans_buf, t)
            /\ Count(toEsp', t) = Count(Tail(toEsp), t)
        BY <1>c, <2>1, <3>1
      <3> QED BY <1>n, <1>a, <1>b, <2>1, <3>2, AcksSum
    <2>3. CASE Head(toEsp) # "EOL"
      <3>1. cmd_buf' = Put(cmd_buf, Head(toEsp))
        BY <1>2, <2>3 DEF Loop
      <3>2. Count(Tail(toEsp), t) + Held(Put(cmd_buf, Head(toEsp)), t) <= Count(toEsp, t)
        BY <1>0, <2>1, ReadInto
      <3>3. /\ Held(cmd_buf', t) = Held(Put(cmd_buf, Head(toEsp)), t)
            /\ Held(ans_buf', t) = Held(ans_buf, t)
            /\ Count(toEsp', t) = Count(Tail(toEsp), t)
        BY <2>1, <3>1
      <3>4. Count(toEsp', t) + Held(cmd_buf', t) <= Count(toEsp, t)
        BY <3>2, <3>3
      <3>5. Count(toEsp', t) \in Nat
        BY <1>b, <2>1, <3>3
      <3> QED BY <1>n, <3>3, <3>4, <3>5, AcksSum
    <2> QED BY <2>2, <2>3
  <1>3. CASE AnswerText
    <2>1. /\ toEsp # <<>> /\ toEsp' = Tail(toEsp) /\ UNCHANGED cmd_buf
          /\ ans_buf' = Put(ans_buf, Head(toEsp))
      BY <1>3 DEF AnswerText
    <2>2. Count(Tail(toEsp), t) + Held(Put(ans_buf, Head(toEsp)), t) <= Count(toEsp, t)
      BY <1>0, <2>1, ReadInto
    <2>3. /\ Held(ans_buf', t) = Held(Put(ans_buf, Head(toEsp)), t)
          /\ Held(cmd_buf', t) = Held(cmd_buf, t)
          /\ Count(toEsp', t) = Count(Tail(toEsp), t)
      BY <2>1
    <2>4. Count(toEsp', t) + Held(ans_buf', t) <= Count(toEsp, t)
      BY <2>2, <2>3
    <2>5. Count(toEsp', t) \in Nat
      BY <1>b, <2>1, <2>3
    <2> QED BY <1>n, <2>3, <2>4, <2>5, AcksSum
  <1>4. CASE AnswerTaken
    <2>1. toEsp # <<>> /\ toEsp' = Tail(toEsp) /\ UNCHANGED cmd_buf /\ ans_buf' = ""
      BY <1>4 DEF AnswerTaken, Respond
    <2>2. Held(ans_buf', t) = 0 /\ Held(cmd_buf', t) = Held(cmd_buf, t)
          /\ Count(toEsp', t) = Count(Tail(toEsp), t)
      BY <1>c, <2>1
    <2>3. toEsp # <<>>
      BY <2>1
    <2> QED BY <1>n, <1>a, <1>b, <2>3, <2>2, AcksSum
  <1>5. CASE AnswerRefused
    <2>1. toEsp # <<>> /\ toEsp' = Tail(toEsp) /\ UNCHANGED cmd_buf /\ TryAgain
      BY <1>5 DEF AnswerRefused
    <2> QED BY <1>a, <1>b, <2>1, TryAcks
  <1>6. CASE AnswerTimeout
    <2>1. toEsp' = toEsp /\ UNCHANGED cmd_buf /\ TryAgain
      BY <1>6 DEF AnswerTimeout
    <2>2. Count(toEsp', t) = Count(toEsp, t)
      BY <2>1
    <2>3. Count(toEsp', t) <= Count(toEsp, t) /\ Count(toEsp', t) \in Nat
      BY <1>n, <2>2
    <2> QED BY <2>1, <2>3, TryAcks
  <1>7. CASE Request
    <2>1. UNCHANGED <<toEsp, cmd_buf>> /\ ans_buf' = ""
      BY <1>7 DEF Request, Send
    <2>2. Held(ans_buf', t) = 0 /\ Held(cmd_buf', t) = Held(cmd_buf, t)
          /\ Count(toEsp', t) = Count(toEsp, t)
      BY <1>c, <2>1
    <2> QED BY <1>n, <2>2, AcksSum
  <1> QED BY <1>1, <1>2, <1>3, <1>4, <1>5, <1>6, <1>7 DEF Esp

\* What the AVR does to the ESP8266 and to what is on its way there, when it
\* executes no command.
AvrEffect ==
    \/ UNCHANGED <<toEsp, espvars, slider_wanted>>
    \/ \E power : EspBecomes(power)
    \/ /\ \E u \in {"time_get", "hello"} : AvrSends(Line(u))
       /\ UNCHANGED <<espvars, slider_wanted>>

\* It never acknowledges anything.
LEMMA EffectAcks == TypeInv /\ AvrEffect => AcksLess
  <1> SUFFICES ASSUME TypeInv, AvrEffect, NEW t \in AckTexts
               PROVE  AcksNext(t) <= Acks(t)
    BY DEF AcksLess
  <1>1. Acks(t) \in Nat
    BY CountsType
  <1>2. CASE UNCHANGED <<toEsp, espvars, slider_wanted>>
    <2>1. toEsp' = toEsp /\ cmd_buf' = cmd_buf /\ ans_buf' = ans_buf
      BY <1>2 DEF espvars
    <2>2. AcksNext(t) = Acks(t)
      BY <2>1 DEF AcksNext, Acks
    <2> QED BY <1>1, <2>2
  <1>3. CASE \E power : EspBecomes(power)
    <2>1. AcksNext(t) = 0
      BY <1>3, PowerAcks
    <2> QED BY <1>1, <2>1
  <1>4. CASE (\E u \in {"time_get", "hello"} : AvrSends(Line(u))) /\ UNCHANGED espvars
    <2>1. PICK u \in {"time_get", "hello"} : AvrSends(Line(u))
      BY <1>4
    <2>2. u \in Texts /\ u # t
      BY TextValues DEF AckTexts
    <2>3. AcksNext(t) <= Acks(t) + Held(u, t)
      BY <1>4, <2>1, <2>2, SendsAcks
    <2>4. Held(u, t) = 0
      BY <2>2 DEF Held
    <2> QED BY <1>1, <2>3, <2>4
  <1> QED BY <1>2, <1>3, <1>4 DEF AvrEffect

\* Slide() turns the door the other way and takes the power, or does neither.
LEMMA SlideEffect ==
    ASSUME NEW to, Slide(to)
    PROVE  AvrEffect
  BY DEF Slide, AvrEffect

\* All the AVR's steps but the execution of a command.
LEMMA Effects ==
    (\/ Press \/ MotorStarts \/ MoveDone \/ GoToSleep \/ WakeUp \/ Busy
     \/ ShellText \/ RefuseOpentime \/ Ignore \/ Time \/ Hello \/ AvrText)
    => AvrEffect /\ UNCHANGED <<copies, earned>>
  <1>a. ASSUME NEW u \in {"time_get", "hello"}, NEW n, Ask(u, n), UNCHANGED <<espvars, slider_wanted>>
        PROVE  AvrEffect
    BY <1>a DEF Ask, AvrEffect
  <1>b. ASSUME TimeAgain \/ Done, UNCHANGED <<espvars, slider_wanted>>
        PROVE  AvrEffect
    BY <1>a, <1>b DEF TimeAgain, Done, AvrEffect
  <1>c. ASSUME NEW rest, HelloAgain(rest), UNCHANGED slider_wanted
        PROVE  AvrEffect
    <2>1. \/ Done /\ UNCHANGED espvars
          \/ EspBecomes("boot")
          \/ Ask("hello", tries + 1) /\ UNCHANGED espvars
      BY <1>c DEF HelloAgain
    <2> QED BY <1>a, <1>b, <1>c, <2>1 DEF AvrEffect
  <1>1. Press => AvrEffect /\ UNCHANGED <<copies, earned>>
    BY SlideEffect DEF Press
  <1>2. MotorStarts \/ MoveDone \/ Busy \/ ShellText \/ AvrText \/ RefuseOpentime \/ Ignore
           => AvrEffect /\ UNCHANGED <<copies, earned>>
    BY DEF MotorStarts, MoveDone, Busy, ShellText, AvrText, RefuseOpentime, Ignore, ShellLine,
           wires, history, slider, avrvars, AvrEffect
  <1>3. GoToSleep \/ WakeUp => AvrEffect /\ UNCHANGED <<copies, earned>>
    BY DEF GoToSleep, WakeUp, AvrEffect, history
  <1>4. Time => AvrEffect /\ UNCHANGED <<copies, earned>>
    BY <1>a, <1>b DEF Time, TimeBegin, TimeLine, TimeTimeout, slider, history
  <1>5. HelloBegin => AvrEffect /\ UNCHANGED <<copies, earned>>
    BY <1>a DEF HelloBegin, slider, history
  <1>6. HelloLine => AvrEffect /\ UNCHANGED <<copies, earned>>
    BY <1>b, <1>c DEF HelloLine, slider, history
  <1>7. HelloTimeout => AvrEffect /\ UNCHANGED <<copies, earned>>
    BY <1>c DEF HelloTimeout, slider, history
  <1> QED BY <1>1, <1>2, <1>3, <1>4, <1>5, <1>6, <1>7 DEF Hello

\* The execution of a command: acknowledged where the door is wanted there
\* already, or the ESP8266 loses its power.
Executes(c) ==
    /\ ShellLine /\ avr_cmd_buf = c
    /\ Executed(c)
    /\ \/ \E power : EspBecomes(power)
       \/ /\ AvrSends(Line(AckOf[c]))
          /\ UNCHANGED <<espvars, slider_wanted>>
          /\ c = "slider_up" => slider_wanted = "up"
          /\ c = "slider_down" => slider_wanted = "down"

\* Both kinds of commands are executed like this.
LEMMA ExecuteEffect ==
    ExecuteSlider \/ ExecuteOpentime => \E c \in HttpCommands : Executes(c)
  <1>1. ExecuteSlider => \E c \in HttpCommands : Executes(c)
    BY DEF ExecuteSlider, Slide, Executes, SliderCommands
  <1>2. ExecuteOpentime => \E c \in HttpCommands : Executes(c)
    BY DEF ExecuteOpentime, Executes, OpentimeCommands
  <1> QED BY <1>1, <1>2

\* An execution makes one acknowledgement at most, its own.
LEMMA ExecutesAcks ==
    ASSUME TypeInv, NEW c \in HttpCommands, Executes(c), NEW t \in AckTexts
    PROVE  AcksNext(t) <= Acks(t) + Held(AckOf[c], t)
  <1>1. Acks(t) \in Nat /\ Held(AckOf[c], t) \in Nat
    BY CountsType DEF Held
  <1>2. CASE \E power : EspBecomes(power)
    <2>1. AcksNext(t) = 0
      BY <1>2, PowerAcks
    <2> QED BY <1>1, <2>1
  <1>3. CASE AvrSends(Line(AckOf[c])) /\ UNCHANGED espvars
    BY <1>3, CommandText, SendsAcks
  <1> QED BY <1>2, <1>3 DEF Executes

\* An answer that is taken leaves the buffer.
LEMMA TakenAcks ==
    ASSUME TypeInv, AnswerTaken, NEW t \in AckTexts
    PROVE  AcksNext(t) <= Acks(t) - Held(ans_buf, t)
  <1>1. toEsp \in Wire /\ toEsp # <<>> /\ t \notin {"", "noise"}
    BY DEF TypeInv, WiresOK, AckTexts, AnswerTaken
  <1>2. toEsp' = Tail(toEsp) /\ cmd_buf' = cmd_buf /\ ans_buf' = ""
    BY DEF AnswerTaken, Respond
  <1>3. /\ Count(toEsp', t) <= Count(toEsp, t)
        /\ Count(toEsp', t) \in Nat /\ Count(toEsp, t) \in Nat
    <2>1. Count(Tail(toEsp), t) <= Count(toEsp, t) /\ Tail(toEsp) \in Wire
      BY <1>1, ReadInto, TailWire
    <2>2. toEsp' = Tail(toEsp)
      BY <1>2
    <2> QED BY <1>1, <2>1, <2>2, PlacesFinite
  <1>4. Held(cmd_buf', t) = Held(cmd_buf, t) /\ Held(ans_buf', t) = 0
    BY <1>1, <1>2 DEF Held
  <1> QED BY <1>3, <1>4, AcksSum

-----------------------------------------------------------------------------
(* Commands on their way *)

\* What the commands on their way are made of.
LEMMA SentSum ==
    ASSUME NEW c
    PROVE  /\ Sent(c) = Count(toAvr, c) + Held(avr_cmd_buf, c)
           /\ SentNext(c) = Count(toAvr', c) + Held(avr_cmd_buf', c)
           /\ Held(avr_cmd_buf, c) \in Nat /\ Held(avr_cmd_buf', c) \in Nat
  BY DEF Sent, SentNext, SentIn, Held

\* All counts are numbers after a step, too.
LEMMA CountsNext ==
    ASSUME TypeInv'
    PROVE  (\A c : SentNext(c) \in Nat) /\ (\A t : AcksNext(t) \in Nat)
  <1>1. toAvr' \in Wire /\ toEsp' \in Wire
    BY DEF TypeInv, WiresOK
  <1>2. \A t : Count(toAvr', t) \in Nat /\ Count(toEsp', t) \in Nat
    BY <1>1, PlacesFinite
  <1> QED BY <1>2, SentSum, AcksSum

\* The wire becomes shorter, or something else is put on it.
LEMMA WireLess ==
    ASSUME TypeInv, TypeInv', UNCHANGED avr_cmd_buf, NEW c,
           NEW n \in Nat, Count(toAvr', c) <= Count(toAvr, c) + n
    PROVE  SentNext(c) <= Sent(c) + n
  <1>1. toAvr \in Wire /\ toAvr' \in Wire
    BY DEF TypeInv, WiresOK
  <1>2. Count(toAvr, c) \in Nat /\ Count(toAvr', c) \in Nat
    BY <1>1, PlacesFinite
  <1>3. Held(avr_cmd_buf', c) = Held(avr_cmd_buf, c)
    OBVIOUS
  <1> QED BY <1>2, <1>3, SentSum

\* What a wire may become that the AVR reads or empties.
AvrReads == toAvr' \in {toAvr, <<>>, Kept(toAvr)} \/ (toAvr # <<>> /\ toAvr' = Tail(toAvr))

\* Reading sends no command.
LEMMA ReadsSent ==
    ASSUME TypeInv, TypeInv', UNCHANGED avr_cmd_buf, AvrReads
    PROVE  SentLess
  <1> SUFFICES ASSUME NEW c \in HttpCommands PROVE SentNext(c) <= Sent(c)
    BY DEF SentLess
  <1>0. toAvr \in Wire /\ c \notin {"EOL", "noise"}
    BY CommandText DEF TypeInv, WiresOK
  <1>n. Count(toAvr, c) \in Nat
    BY <1>0, PlacesFinite
  <1>1. Count(<<>>, c) <= Count(toAvr, c)
    <2>1. Count(<<>>, c) = 0
      BY CountEmpty
    <2> QED BY <1>n, <2>1
  <1>2. Count(Kept(toAvr), c) <= Count(toAvr, c)
    <2>1. Count(Kept(toAvr), c) = 0
      BY <1>0, KeptWire, CountNone
    <2> QED BY <1>n, <2>1
  <1>3. toAvr # <<>> => Count(Tail(toAvr), c) <= Count(toAvr, c)
    BY <1>0, ReadInto
  <1>4. Count(toAvr', c) <= Count(toAvr, c)
    <2>1. toAvr' = toAvr => Count(toAvr', c) <= Count(toAvr, c)
      BY <1>n
    <2>2. toAvr' = <<>> => Count(toAvr', c) <= Count(toAvr, c)
      BY <1>1
    <2>3. toAvr' = Kept(toAvr) => Count(toAvr', c) <= Count(toAvr, c)
      BY <1>2
    <2>4. toAvr # <<>> /\ toAvr' = Tail(toAvr) => Count(toAvr', c) <= Count(toAvr, c)
      BY <1>3
    <2> QED BY <2>1, <2>2, <2>3, <2>4 DEF AvrReads
  <1>5. Count(toAvr', c) <= Count(toAvr, c) + 0
    BY <1>4, <1>n
  <1>6. SentNext(c) <= Sent(c) + 0
    BY <1>5, WireLess
  <1> QED BY <1>6, CountsType

\* All the AVR's steps but the execution of a command.
LEMMA AvrSent ==
    TypeInv /\ TypeInv' /\
    (\/ Press \/ MotorStarts \/ MoveDone \/ GoToSleep \/ WakeUp \/ Busy
     \/ ShellText \/ RefuseOpentime \/ Ignore \/ Time \/ Hello \/ AvrText)
    => SentLess
  <1> SUFFICES ASSUME TypeInv, TypeInv',
                      \/ Press \/ MotorStarts \/ MoveDone \/ GoToSleep \/ WakeUp \/ Busy
                      \/ ShellText \/ RefuseOpentime \/ Ignore \/ Time \/ Hello \/ AvrText
               PROVE  SentLess
    OBVIOUS
  <1>1. CASE Press \/ MotorStarts \/ MoveDone \/ GoToSleep \/ WakeUp \/ Busy \/ AvrText
    <2>1. AvrReads /\ UNCHANGED avr_cmd_buf
      BY <1>1 DEF Press, MotorStarts, MoveDone, GoToSleep, WakeUp, Busy, AvrText,
                  wires, avrvars, AvrReads
    <2> QED BY <2>1, ReadsSent
  <1>2. CASE Time \/ HelloBegin
    <2>1. AvrReads /\ UNCHANGED avr_cmd_buf
      BY <1>2 DEF Time, TimeBegin, TimeLine, TimeTimeout, HelloBegin, AvrReads
    <2> QED BY <2>1, ReadsSent
  <1>3. CASE HelloLine \/ HelloTimeout
    <2>a. ASSUME NEW rest, HelloAgain(rest) PROVE toAvr' \in {rest, <<>>}
      BY <2>a DEF HelloAgain
    <2>1. AvrReads /\ UNCHANGED avr_cmd_buf
      BY <1>3, <2>a DEF HelloLine, HelloTimeout, AvrReads
    <2> QED BY <2>1, ReadsSent
  <1>4. CASE ShellText
    <2> SUFFICES ASSUME NEW c \in HttpCommands PROVE SentNext(c) <= Sent(c)
      BY DEF SentLess
    <2>1. toAvr \in Wire /\ toAvr # <<>> /\ c # "noise"
      BY <1>4, CommandText DEF TypeInv, WiresOK, ShellText
    <2>2. toAvr' = Tail(toAvr) /\ avr_cmd_buf' = Put(avr_cmd_buf, Head(toAvr))
      BY <1>4 DEF ShellText
    <2>3. Count(toAvr', c) + Held(avr_cmd_buf', c) <= Count(toAvr, c)
      BY <2>1, <2>2, ReadInto
    <2>4. Count(toAvr, c) \in Nat /\ Count(toAvr', c) \in Nat
      <3>1. toAvr \in Wire /\ toAvr' \in Wire
        BY DEF TypeInv, WiresOK
      <3> QED BY <3>1, PlacesFinite
    <2> QED BY <2>3, <2>4, SentSum
  <1>5. CASE RefuseOpentime \/ Ignore
    <2> SUFFICES ASSUME NEW c \in HttpCommands PROVE SentNext(c) <= Sent(c)
      BY DEF SentLess
    <2>1. ShellLine
      BY <1>5 DEF RefuseOpentime, Ignore
    <2>2. Held(avr_cmd_buf', c) = 0 /\ Count(toAvr', c) <= Count(toAvr, c)
      <3>1. toAvr \in Wire /\ c \notin {"", "noise"}
        BY CommandText DEF TypeInv, WiresOK
      <3>2. avr_cmd_buf' = "" /\ toAvr # <<>> /\ toAvr' = Tail(toAvr)
        BY <2>1 DEF ShellLine
      <3> QED BY <3>1, <3>2, ReadInto DEF Held
    <2>3. Count(toAvr, c) \in Nat /\ Count(toAvr', c) \in Nat
      <3>1. toAvr \in Wire /\ toAvr' \in Wire
        BY DEF TypeInv, WiresOK
      <3> QED BY <3>1, PlacesFinite
    <2> QED BY <2>2, <2>3, SentSum
  <1> QED BY <1>1, <1>2, <1>3, <1>4, <1>5 DEF Hello

\* A command that is executed is on its way no more.
LEMMA ExecutesSent ==
    ASSUME TypeInv, TypeInv', NEW d \in HttpCommands, Executes(d), NEW c \in HttpCommands
    PROVE  SentNext(c) <= Sent(c) - Held(d, c)
  <1>1. Held(avr_cmd_buf', c) = 0 /\ Count(toAvr', c) <= Count(toAvr, c)
    <2>1. toAvr \in Wire /\ c \notin {"", "noise"}
      BY CommandText DEF TypeInv, WiresOK
    <2>2. avr_cmd_buf' = "" /\ toAvr # <<>> /\ toAvr' = Tail(toAvr)
      BY DEF Executes, ShellLine
    <2> QED BY <2>1, <2>2, ReadInto DEF Held
  <1>2. Count(toAvr, c) \in Nat /\ Count(toAvr', c) \in Nat
    <2>1. toAvr \in Wire /\ toAvr' \in Wire
      BY DEF TypeInv, WiresOK
    <2> QED BY <2>1, PlacesFinite
  <1>3. Held(avr_cmd_buf, c) = Held(d, c)
    BY DEF Executes
  <1> QED BY <1>1, <1>2, <1>3, SentSum

\* A command that is sent is on its way once more.
LEMMA SendSent ==
    ASSUME TypeInv, TypeInv', NEW d \in HttpCommands, Send(d), UNCHANGED avr_cmd_buf,
           NEW c \in HttpCommands
    PROVE  SentNext(c) <= Sent(c) + Held(d, c)
  <1>1. toAvr \in Wire /\ Command(d) \in Wire /\ c \in Texts /\ d \in Texts
    BY CommandText, LineWire DEF TypeInv, WiresOK
  <1>2. Count(toAvr \o Command(d), c) = Count(toAvr, c) + Held(d, c)
    BY <1>1, CountConcat, CountLine
  <1>3. Count(toAvr', c) = Count(toAvr, c) + Held(d, c)
    BY <1>2 DEF Send
  <1>4. Held(d, c) \in Nat /\ Count(toAvr, c) \in Nat
    BY <1>1, PlacesFinite DEF Held
  <1>5. Count(toAvr', c) <= Count(toAvr, c) + Held(d, c)
    BY <1>3, <1>4
  <1> QED BY <1>4, <1>5, WireLess

\* What the ESP8266 adds to the wire when it sends no command.
LEMMA EspSent ==
    ASSUME TypeInv, TypeInv', EspBoots \/ Loop \/ AnswerText \/ AnswerTaken
    PROVE  SentLess /\ UNCHANGED copies
  <1>1. \E r \in {<<>>, Line("noise"), Line("time"), Line("x"), Line("hel_ok")} :
            toAvr' = toAvr \o r \/ toAvr' = toAvr
    BY DEF EspBoots, Loop, LoopReplies, AnswerText, AnswerTaken
  <1>2. PICK r \in {<<>>, Line("noise"), Line("time"), Line("x"), Line("hel_ok")} :
            toAvr' = toAvr \o r \/ toAvr' = toAvr
    BY <1>1
  <1>3. UNCHANGED <<avr_cmd_buf, copies>>
    BY DEF EspBoots, Loop, AnswerText, AnswerTaken, avrvars, history
  <1> SUFFICES ASSUME NEW c \in HttpCommands PROVE SentNext(c) <= Sent(c)
    BY <1>3 DEF SentLess
  <1>4. c \in Texts /\ c \notin {"noise", "time", "x", "hel_ok"}
    BY LinkAssumption, TextValues, CommandText DEF SliderCommands, OpentimeCommands
  <1>5. r \in Wire /\ Count(r, c) = 0
    <2>1. {"noise", "time", "x", "hel_ok"} \subseteq Texts
      BY TextValues
    <2>2. \A u \in {"noise", "time", "x", "hel_ok"} :
              Line(u) \in Wire /\ Count(Line(u), c) = 0
      <3>1. ASSUME NEW u \in {"noise", "time", "x", "hel_ok"}
            PROVE  Line(u) \in Wire /\ Count(Line(u), c) = Held(u, c) /\ Held(u, c) = 0
        BY <1>4, <2>1, LineWire, CountLine DEF Held
      <3> QED BY <3>1
    <2>3. <<>> \in Wire /\ Count(<<>>, c) = 0
      BY WireParts, CountEmpty
    <2> QED BY <2>2, <2>3
  <1>6. toAvr \in Wire
    BY DEF TypeInv, WiresOK
  <1>7. Count(toAvr, c) \in Nat /\ Count(toAvr \o r, c) = Count(toAvr, c) + Count(r, c)
    BY <1>5, <1>6, PlacesFinite, CountConcat
  <1>8. Count(toAvr', c) <= Count(toAvr, c) + 0
    <2>1. Count(toAvr \o r, c) <= Count(toAvr, c) + 0
      BY <1>5, <1>7
    <2>2. Count(toAvr, c) <= Count(toAvr, c) + 0
      BY <1>7
    <2> QED BY <1>2, <2>1, <2>2
  <1>9. SentNext(c) <= Sent(c) + 0
    BY <1>3, <1>8, WireLess
  <1> QED BY <1>9, CountsType

-----------------------------------------------------------------------------
(* The invariant *)

\* No more copies of a command are on their way than were sent and not yet
\* executed.
ExecutedInv == \A c \in HttpCommands : Sent(c) <= copies[c]

\* No more acknowledgements are under way than were earned by an execution and
\* not yet reported.
EarnedInv ==
    \A c \in HttpCommands \ {"opentime_get"} : Acks(AckOf[c]) <= earned[AckOf[c]]

\* An acknowledgement under way says what the door is wanted to do now.
FreshInv ==
    /\ Acks("slu_ok") > 0 => slider_wanted = "up"
    /\ Acks("sld_ok") > 0 => slider_wanted = "down"

LinkInv == TypeInv /\ ExecutedInv /\ EarnedInv /\ FreshInv

\* The same of the next state.
LEMMA NextInv ==
    ASSUME TypeInv',
           \A c \in HttpCommands : SentNext(c) <= copies'[c],
           \A c \in HttpCommands \ {"opentime_get"} :
              AcksNext(AckOf[c]) <= earned'[AckOf[c]],
           AcksNext("slu_ok") > 0 => slider_wanted' = "up",
           AcksNext("sld_ok") > 0 => slider_wanted' = "down"
    PROVE  LinkInv'
  BY DEF LinkInv, ExecutedInv, EarnedInv, FreshInv, Sent, SentNext, Acks, AcksNext

\* The commands that OkEarned speaks of are acknowledged, those of the door each in a
\* way of its own.
LEMMA OwnAck ==
    /\ \A c \in HttpCommands \ {"opentime_get"} :
        AckOf[c] \in AckTexts /\ AckOf[c] \in Answers
    /\ \A c \in HttpCommands : AckOf[c] \in AckTexts => c # "opentime_get"
    /\ \A a \in Answers \ {"opentime"} :
        \E c \in HttpCommands \ {"opentime_get"} : a = AckOf[c]
    /\ \A c \in HttpCommands : /\ AckOf[c] = "slu_ok" => c = "slider_up"
                               /\ AckOf[c] = "sld_ok" => c = "slider_down"
    /\ "slu_ok" \in AckTexts /\ "sld_ok" \in AckTexts
  BY LinkAssumption, AckValues DEF AckTexts, SliderCommands, OpentimeCommands, Answers

\* What the acknowledgements say stays true while the door is not turned.
LEMMA FreshStays ==
    ASSUME LinkInv, TypeInv', AcksLess, UNCHANGED slider_wanted
    PROVE  /\ AcksNext("slu_ok") > 0 => slider_wanted' = "up"
           /\ AcksNext("sld_ok") > 0 => slider_wanted' = "down"
  <1>1. /\ Acks("slu_ok") \in Nat /\ AcksNext("slu_ok") \in Nat
        /\ Acks("sld_ok") \in Nat /\ AcksNext("sld_ok") \in Nat
    BY CountsType, CountsNext DEF LinkInv
  <1>2. AcksNext("slu_ok") <= Acks("slu_ok") /\ AcksNext("sld_ok") <= Acks("sld_ok")
    BY OwnAck DEF AcksLess
  <1>3. /\ AcksNext("slu_ok") > 0 => Acks("slu_ok") > 0
        /\ AcksNext("sld_ok") > 0 => Acks("sld_ok") > 0
    BY <1>1, <1>2
  <1> QED BY <1>3 DEF LinkInv, FreshInv

\* A step that adds nothing and turns the door with an empty wire only.
LEMMA LessInv ==
    ASSUME LinkInv, TypeInv', SentLess, AcksLess, UNCHANGED <<copies, earned>>,
           \/ UNCHANGED slider_wanted
           \/ \A t \in AckTexts : AcksNext(t) = 0
    PROVE  LinkInv'
  <1>1. \A c \in HttpCommands : Sent(c) \in Nat
    BY CountsType DEF LinkInv
  <1>2. \A c \in HttpCommands : copies[c] \in Int /\ earned[AckOf[c]] \in Int
    BY CommandText DEF LinkInv, TypeInv, CountsOK
  <1>n. \A c \in HttpCommands : SentNext(c) \in Nat
    BY CountsNext
  <1>3. \A c \in HttpCommands : SentNext(c) <= copies'[c]
    BY <1>1, <1>2, <1>n DEF LinkInv, ExecutedInv, SentLess
  <1>4. \A c \in HttpCommands \ {"opentime_get"} : AcksNext(AckOf[c]) <= earned'[AckOf[c]]
    <2> SUFFICES ASSUME NEW c \in HttpCommands \ {"opentime_get"}
                 PROVE  AcksNext(AckOf[c]) <= earned'[AckOf[c]]
      OBVIOUS
    <2>1. AckOf[c] \in AckTexts
      BY OwnAck
    <2>2. AcksNext(AckOf[c]) <= Acks(AckOf[c])
      BY <2>1 DEF AcksLess
    <2>3. Acks(AckOf[c]) <= earned[AckOf[c]] /\ earned' = earned
      BY DEF LinkInv, EarnedInv
    <2>4. Acks(AckOf[c]) \in Nat /\ AcksNext(AckOf[c]) \in Nat
      BY CountsType, CountsNext DEF LinkInv
    <2> QED BY <1>2, <2>2, <2>3, <2>4
  <1>5. /\ AcksNext("slu_ok") > 0 => slider_wanted' = "up"
        /\ AcksNext("sld_ok") > 0 => slider_wanted' = "down"
    <2>1. CASE UNCHANGED slider_wanted
      BY <2>1, FreshStays
    <2>2. CASE \A t \in AckTexts : AcksNext(t) = 0
      <3>1. AcksNext("slu_ok") = 0 /\ AcksNext("sld_ok") = 0
        BY <2>2, OwnAck
      <3> QED BY <3>1
    <2> QED BY <2>1, <2>2
  <1> QED BY <1>3, <1>4, <1>5, NextInv

\* A step that executes no command and sends none.
LEMMA LinkAvr ==
    ASSUME LinkInv, TypeInv',
           \/ Press \/ MotorStarts \/ MoveDone \/ GoToSleep \/ WakeUp \/ Busy
           \/ ShellText \/ RefuseOpentime \/ Ignore \/ Time \/ Hello \/ AvrText
    PROVE  LinkInv'
  <1>1. TypeInv
    BY DEF LinkInv
  <1>2. AvrEffect /\ UNCHANGED <<copies, earned>>
    BY Effects
  <1>3. SentLess /\ AcksLess
    BY <1>1, <1>2, AvrSent, EffectAcks
  <1>4. UNCHANGED slider_wanted \/ \A t \in AckTexts : AcksNext(t) = 0
    BY <1>2, PowerAcks DEF AvrEffect
  <1> QED BY <1>2, <1>3, <1>4, LessInv

\* The acknowledgement that is reported is under way no more.
LEMMA LinkTaken == ASSUME LinkInv, TypeInv', AnswerTaken PROVE LinkInv'
  <1>0. TypeInv /\ request \in HttpCommands
    BY DEF LinkInv, TypeInv, EspOK, AnswerTaken
  <1>1. SentLess /\ AcksLess /\ copies' = copies /\ slider_wanted' = slider_wanted
    BY <1>0, EspSent, EspAcks DEF Esp, AnswerTaken, avrvars, slider
  <1>2. earned' = [earned EXCEPT ![AckOf[request]] = earned[AckOf[request]] - 1]
    BY DEF AnswerTaken
  <1>3. /\ copies \in [HttpCommands -> Int] /\ earned \in [Answers -> Int]
    BY <1>0 DEF TypeInv, CountsOK
  <1>4. \A c \in HttpCommands : SentNext(c) <= copies'[c]
    <2> SUFFICES ASSUME NEW c \in HttpCommands PROVE SentNext(c) <= copies'[c]
      OBVIOUS
    <2>1. Sent(c) \in Nat /\ SentNext(c) \in Nat /\ copies[c] \in Int
      BY <1>0, <1>3, CountsType, CountsNext
    <2>2. SentNext(c) <= Sent(c) /\ Sent(c) <= copies[c] /\ copies' = copies
      BY <1>1 DEF SentLess, LinkInv, ExecutedInv
    <2> QED BY <2>1, <2>2
  <1>5. ASSUME NEW c \in HttpCommands \ {"opentime_get"}
        PROVE  AcksNext(AckOf[c]) <= earned'[AckOf[c]]
    <2>1. AckOf[c] \in AckTexts /\ AckOf[c] \in Answers /\ AckOf[request] \in Answers
      BY <1>0, OwnAck, CommandText
    <2>2. /\ Acks(AckOf[c]) \in Nat /\ AcksNext(AckOf[c]) \in Nat
          /\ earned[AckOf[c]] \in Int
      BY <1>0, <1>3, <2>1, CountsType, CountsNext
    <2>3. Acks(AckOf[c]) <= earned[AckOf[c]]
      BY DEF LinkInv, EarnedInv
    <2>4. CASE AckOf[c] = AckOf[request]
      <3>1. ans_buf = AckOf[c]
        BY <1>0, <2>1, <2>4, OwnAck DEF AnswerTaken, Accepted
      <3>2. Held(ans_buf, AckOf[c]) = 1
        BY <3>1 DEF Held
      <3>3. AcksNext(AckOf[c]) <= Acks(AckOf[c]) - 1
        <4>1. AcksNext(AckOf[c]) <= Acks(AckOf[c]) - Held(ans_buf, AckOf[c])
          BY <1>0, <2>1, TakenAcks
        <4> QED BY <3>2, <4>1
      <3>4. earned'[AckOf[c]] = earned[AckOf[c]] - 1
        BY <1>2, <1>3, <2>1, <2>4
      <3> QED BY <2>2, <2>3, <3>3, <3>4
    <2>5. CASE AckOf[c] # AckOf[request]
      <3>1. earned'[AckOf[c]] = earned[AckOf[c]]
        BY <1>2, <1>3, <2>1, <2>5
      <3>2. AcksNext(AckOf[c]) <= Acks(AckOf[c])
        BY <1>1, <2>1 DEF AcksLess
      <3> QED BY <2>2, <2>3, <3>1, <3>2
    <2> QED BY <2>4, <2>5
  <1>6. /\ AcksNext("slu_ok") > 0 => slider_wanted' = "up"
        /\ AcksNext("sld_ok") > 0 => slider_wanted' = "down"
    BY <1>1, FreshStays
  <1> QED BY <1>4, <1>5, <1>6, NextInv

\* A copy is counted with the attempt that sends it.
LEMMA LinkSend ==
    ASSUME LinkInv, TypeInv', Request \/ AnswerRefused \/ AnswerTimeout
    PROVE  LinkInv'
  <1>0. TypeInv
    BY DEF LinkInv
  <1>1. AcksLess /\ UNCHANGED <<earned, slider_wanted, avr_cmd_buf>>
    BY <1>0, EspAcks DEF Esp, Request, AnswerRefused, AnswerTimeout, avrvars, slider
  <1>2. UNCHANGED <<toAvr, copies>> \/ \E d \in HttpCommands : Send(d)
    <2>1. Request => \E d \in HttpCommands : Send(d)
      BY DEF Request
    <2>2. esp = "answer" => request \in HttpCommands
      BY <1>0 DEF TypeInv, EspOK
    <2>3. AnswerRefused \/ AnswerTimeout => esp = "answer" /\ TryAgain
      BY DEF AnswerRefused, AnswerTimeout
    <2>4. TryAgain => Send(request) \/ UNCHANGED <<toAvr, copies>>
      BY DEF TryAgain
    <2> QED BY <2>1, <2>2, <2>3, <2>4
  <1>3. CASE UNCHANGED <<toAvr, copies>>
    <2>1. SentLess
      BY <1>0, <1>1, <1>3, ReadsSent DEF AvrReads
    <2> QED BY <1>1, <1>3, <2>1, LessInv
  <1>4. ASSUME NEW d \in HttpCommands, Send(d) PROVE LinkInv'
    <2>1. copies' = [copies EXCEPT ![d] = copies[d] + 1]
      BY <1>4 DEF Send
    <2>2. copies \in [HttpCommands -> Int] /\ earned \in [Answers -> Int]
      BY <1>0 DEF TypeInv, CountsOK
    <2>3. \A c \in HttpCommands : SentNext(c) <= copies'[c]
      <3> SUFFICES ASSUME NEW c \in HttpCommands PROVE SentNext(c) <= copies'[c]
        OBVIOUS
      <3>1. SentNext(c) <= Sent(c) + Held(d, c)
        BY <1>0, <1>1, <1>4, SendSent
      <3>2. copies'[c] = copies[c] + Held(d, c)
        BY <2>1, <2>2 DEF Held
      <3>3. Sent(c) <= copies[c]
        BY DEF LinkInv, ExecutedInv
      <3>4. Sent(c) \in Nat /\ SentNext(c) \in Nat /\ copies[c] \in Int
        BY <1>0, <2>2, CountsType, CountsNext
      <3>5. Held(d, c) \in Nat
        BY DEF Held
      <3> QED BY <3>1, <3>2, <3>3, <3>4, <3>5
    <2>4. ASSUME NEW c \in HttpCommands \ {"opentime_get"}
          PROVE  AcksNext(AckOf[c]) <= earned'[AckOf[c]]
      <3>1. AcksNext(AckOf[c]) <= Acks(AckOf[c])
        BY <1>1, OwnAck DEF AcksLess
      <3>2. Acks(AckOf[c]) <= earned[AckOf[c]] /\ earned' = earned
        BY <1>1 DEF LinkInv, EarnedInv
      <3>3. /\ Acks(AckOf[c]) \in Nat /\ AcksNext(AckOf[c]) \in Nat
            /\ earned[AckOf[c]] \in Int
        BY <1>0, <2>2, OwnAck, CountsType, CountsNext
      <3> QED BY <3>1, <3>2, <3>3
    <2>5. /\ AcksNext("slu_ok") > 0 => slider_wanted' = "up"
          /\ AcksNext("sld_ok") > 0 => slider_wanted' = "down"
      BY <1>1, FreshStays
    <2> QED BY <2>3, <2>4, <2>5, NextInv
  <1> QED BY <1>2, <1>3, <1>4

\* A command that is executed earns one acknowledgement.
LEMMA LinkExecute ==
    ASSUME LinkInv, TypeInv', ExecuteSlider \/ ExecuteOpentime
    PROVE  LinkInv'
  <1>0. TypeInv
    BY DEF LinkInv
  <1>1. PICK d \in HttpCommands : Executes(d)
    BY ExecuteEffect
  <1>2. /\ copies' = [copies EXCEPT ![d] = copies[d] - 1]
        /\ earned' = [earned EXCEPT ![AckOf[d]] = earned[AckOf[d]] + 1]
    BY <1>1 DEF Executes, Executed
  <1>3. copies \in [HttpCommands -> Int] /\ earned \in [Answers -> Int]
    BY <1>0 DEF TypeInv, CountsOK
  <1>4. ASSUME NEW c \in HttpCommands PROVE SentNext(c) <= copies'[c]
    <2>1. SentNext(c) <= Sent(c) - Held(d, c)
      BY <1>0, <1>1, ExecutesSent
    <2>2. copies'[c] = copies[c] - Held(d, c)
      BY <1>2, <1>3 DEF Held
    <2>3. Sent(c) <= copies[c]
      BY DEF LinkInv, ExecutedInv
    <2>4. /\ Sent(c) \in Nat /\ SentNext(c) \in Nat /\ copies[c] \in Int
          /\ Held(d, c) \in Nat
      BY <1>0, <1>3, CountsType, CountsNext DEF Held
    <2> QED BY <2>1, <2>2, <2>3, <2>4
  <1>5. ASSUME NEW c \in HttpCommands \ {"opentime_get"}
        PROVE  AcksNext(AckOf[c]) <= earned'[AckOf[c]]
    <2>1. AckOf[c] \in AckTexts /\ AckOf[c] \in Answers /\ AckOf[d] \in Answers
      BY OwnAck, CommandText
    <2>2. AcksNext(AckOf[c]) <= Acks(AckOf[c]) + Held(AckOf[d], AckOf[c])
      BY <1>0, <1>1, <2>1, ExecutesAcks
    <2>3. earned'[AckOf[c]] = earned[AckOf[c]] + Held(AckOf[d], AckOf[c])
      BY <1>2, <1>3, <2>1 DEF Held
    <2>4. Acks(AckOf[c]) <= earned[AckOf[c]]
      BY DEF LinkInv, EarnedInv
    <2>5. /\ Acks(AckOf[c]) \in Nat /\ AcksNext(AckOf[c]) \in Nat
          /\ earned[AckOf[c]] \in Int /\ Held(AckOf[d], AckOf[c]) \in Nat
      BY <1>0, <1>3, <2>1, CountsType, CountsNext DEF Held
    <2> QED BY <2>2, <2>3, <2>4, <2>5
  <1>6. /\ AcksNext("slu_ok") > 0 => slider_wanted' = "up"
        /\ AcksNext("sld_ok") > 0 => slider_wanted' = "down"
    <2>1. CASE \E power : EspBecomes(power)
      <3>1. AcksNext("slu_ok") = 0 /\ AcksNext("sld_ok") = 0
        BY <2>1, PowerAcks, OwnAck
      <3> QED BY <3>1
    <2>2. CASE /\ UNCHANGED slider_wanted
               /\ d = "slider_up" => slider_wanted = "up"
               /\ d = "slider_down" => slider_wanted = "down"
      <3>1. ASSUME NEW t \in AckTexts, AcksNext(t) > 0 PROVE Acks(t) > 0 \/ AckOf[d] = t
        <4>1. AcksNext(t) <= Acks(t) + Held(AckOf[d], t)
          BY <1>0, <1>1, ExecutesAcks
        <4>2. AckOf[d] # t => Held(AckOf[d], t) = 0
          BY DEF Held
        <4>3. Acks(t) \in Nat /\ AcksNext(t) \in Nat
          BY <1>0, CountsType, CountsNext
        <4>4. CASE AckOf[d] # t
          <5>1. AcksNext(t) <= Acks(t) + 0
            BY <4>1, <4>2, <4>4
          <5> QED BY <3>1, <4>3, <5>1
        <4> QED BY <4>4
      <3>2. AcksNext("slu_ok") > 0 => Acks("slu_ok") > 0 \/ d = "slider_up"
        BY <3>1, OwnAck
      <3>3. AcksNext("sld_ok") > 0 => Acks("sld_ok") > 0 \/ d = "slider_down"
        BY <3>1, OwnAck
      <3> QED BY <2>2, <3>2, <3>3 DEF LinkInv, FreshInv
    <2> QED BY <1>1, <2>1, <2>2 DEF Executes
  <1> QED BY <1>4, <1>5, <1>6, NextInv

\* Nothing is on its way at the start.
LEMMA LinkInit == Init => LinkInv
  <1> SUFFICES ASSUME Init PROVE LinkInv
    OBVIOUS
  <1>1. ASSUME NEW c, c # "" PROVE Sent(c) = 0 /\ Acks(c) = 0
    <2>1. toAvr = <<>> /\ toEsp = <<>> /\ avr_cmd_buf = "" /\ cmd_buf = "" /\ ans_buf = ""
      BY DEF Init
    <2>2. Count(toAvr, c) = 0 /\ Count(toEsp, c) = 0
      BY <2>1, CountEmpty
    <2>3. Held(avr_cmd_buf, c) = 0 /\ Held(cmd_buf, c) = 0 /\ Held(ans_buf, c) = 0
      BY <1>1, <2>1 DEF Held
    <2> QED BY <2>2, <2>3, SentSum, AcksSum
  <1>2. ExecutedInv
    <2> SUFFICES ASSUME NEW c \in HttpCommands PROVE Sent(c) <= copies[c]
      BY DEF ExecutedInv
    <2>1. Sent(c) = 0
      BY <1>1, CommandText
    <2>2. copies[c] = 0
      BY DEF Init
    <2> QED BY <2>1, <2>2
  <1>3. EarnedInv
    <2> SUFFICES ASSUME NEW c \in HttpCommands \ {"opentime_get"}
                 PROVE  Acks(AckOf[c]) <= earned[AckOf[c]]
      BY DEF EarnedInv
    <2>1. AckOf[c] # ""
      BY CommandText, TextValues
    <2>2. Acks(AckOf[c]) = 0
      BY <1>1, <2>1
    <2>3. earned[AckOf[c]] = 0
      BY CommandText DEF Init
    <2> QED BY <2>2, <2>3
  <1>4. FreshInv
    <2>1. Acks("slu_ok") = 0 /\ Acks("sld_ok") = 0
      BY <1>1
    <2> QED BY <2>1 DEF FreshInv
  <1> QED BY <1>2, <1>3, <1>4, TypeInit DEF LinkInv

\* Every step keeps what is under way in its bounds.
LEMMA LinkNext == LinkInv /\ [Next]_vars => LinkInv'
  <1> SUFFICES ASSUME LinkInv, [Next]_vars PROVE LinkInv'
    OBVIOUS
  <1>1. TypeInv'
    BY TypeNext DEF LinkInv
  <1>2. CASE UNCHANGED vars
    <2>1. UNCHANGED <<toAvr, toEsp, cmd_buf, ans_buf, avr_cmd_buf, slider_wanted, copies, earned>>
      BY <1>2 DEF vars, wires, espvars, avrvars, slider, history
    <2>2. \A c : SentNext(c) = Sent(c) /\ AcksNext(c) = Acks(c)
      BY <2>1 DEF SentNext, Sent, AcksNext, Acks
    <2> QED BY <1>1, <2>1, <2>2, NextInv DEF LinkInv, ExecutedInv, EarnedInv, FreshInv
  <1>3. CASE EspBoots \/ Loop \/ AnswerText
    <2>1. SentLess /\ AcksLess /\ UNCHANGED <<copies, earned, slider_wanted>>
      BY <1>1, <1>3, EspSent, EspAcks
         DEF LinkInv, Esp, EspBoots, Loop, AnswerText, avrvars, slider, history
    <2> QED BY <1>1, <2>1, LessInv
  <1>4. CASE AnswerTaken
    BY <1>1, <1>4, LinkTaken
  <1>5. CASE Request \/ AnswerRefused \/ AnswerTimeout
    BY <1>1, <1>5, LinkSend
  <1>6. CASE ExecuteSlider \/ ExecuteOpentime
    BY <1>1, <1>6, LinkExecute
  <1>7. CASE \/ Press \/ MotorStarts \/ MoveDone \/ GoToSleep \/ WakeUp \/ Busy
             \/ ShellText \/ RefuseOpentime \/ Ignore \/ Time \/ Hello \/ AvrText
    BY <1>1, <1>7, LinkAvr
  <1> QED BY <1>2, <1>3, <1>4, <1>5, <1>6, <1>7 DEF Next, Esp, Avr, Shell

\* The invariant, in every reachable state.
LEMMA LinkInvariant == Spec => []LinkInv
  BY LinkInit, LinkNext, PTL DEF Spec

-----------------------------------------------------------------------------
(* What the user is told *)

\* Retries, late answers and damaged lines never make handle_shell() execute a
\* command more often than cmd_*() printed it (user_main.c:279-440,
\* main.c:246-334).
THEOREM ExecutedCorrect == Spec => []ExecutedWasSent
  <1>1. LinkInv => ExecutedWasSent
    <2> SUFFICES ASSUME LinkInv, NEW c \in HttpCommands PROVE copies[c] >= 0
      BY DEF ExecutedWasSent
    <2>1. Sent(c) \in Nat /\ Sent(c) <= copies[c] /\ copies[c] \in Int
      BY CountsType DEF LinkInv, ExecutedInv, TypeInv, CountsOK
    <2> QED BY <2>1
  <1> QED BY <1>1, LinkInvariant, PTL

\* The web page hears "ok" no more often than the AVR has executed a command with that
\* acknowledgement (user_main.c:279-309, 421-440).
THEOREM OkCorrect == Spec => []OkEarned
  <1>1. LinkInv => OkEarned
    <2> SUFFICES ASSUME LinkInv, NEW a \in Answers \ {"opentime"}
                 PROVE  earned[a] >= 0
      BY DEF OkEarned
    <2>1. PICK c \in HttpCommands \ {"opentime_get"} : a = AckOf[c]
      BY OwnAck
    <2>2. Acks(AckOf[c]) \in Nat
      BY CountsType DEF LinkInv
    <2>3. Acks(AckOf[c]) <= earned[a] /\ earned[a] \in Int
      BY <2>1 DEF LinkInv, EarnedInv, TypeInv, CountsOK
    <2> QED BY <2>2, <2>3
  <1> QED BY <1>1, LinkInvariant, PTL

\* Who is told "ok" finds the door wanted where it asked for, since whoever
\* turns it takes the power from the ESP8266 (main.c:180-194).
THEOREM OkWanted == Spec => OkMeansWanted
  <1> DEFINE Wanted ==
        AnswerTaken => /\ request = "slider_up" => slider_wanted = "up"
                       /\ request = "slider_down" => slider_wanted = "down"
  <1>1. LinkInv => Wanted
    <2> SUFFICES ASSUME LinkInv, AnswerTaken
                 PROVE  /\ request = "slider_up" => slider_wanted = "up"
                        /\ request = "slider_down" => slider_wanted = "down"
      OBVIOUS
    <2>1. /\ request = "slider_up" => ans_buf = "slu_ok"
          /\ request = "slider_down" => ans_buf = "sld_ok"
      BY AckValues DEF AnswerTaken, Accepted
    <2>2. ASSUME NEW t, ans_buf = t PROVE Acks(t) > 0
      <3>1. Held(ans_buf, t) = 1
        BY <2>2 DEF Held
      <3>2. Count(toEsp, t) \in Nat
        BY CountsType DEF LinkInv
      <3> QED BY <3>1, <3>2, AcksSum
    <2>3. /\ ans_buf = "slu_ok" => slider_wanted = "up"
          /\ ans_buf = "sld_ok" => slider_wanted = "down"
      BY <2>2 DEF LinkInv, FreshInv
    <2> QED BY <2>1, <2>3
  <1>2. LinkInv => [Wanted]_vars
    BY <1>1
  <1> HIDE DEF Wanted
  <1>3. Spec => [][Wanted]_vars
    BY <1>2, LinkInvariant, PTL
  <1> QED BY <1>3 DEF OkMeansWanted, Wanted

=============================================================================

----------------------------- MODULE DcfDecoder -----------------------------
(***************************************************************************)
(* The DCF77 decoder of the ESP8266 (src/esp8266/user/user_main.c): the    *)
(* decode timer that makes a bit of every second, dcf2time() that makes a  *)
(* time of sixty bits, and the timer that counts the clock in between.     *)
(*                                                                         *)
(* The transmitter lowers its carrier at the beginning of every second but *)
(* the last of a minute, for 20 samples (a zero) or 40 (a one); the read   *)
(* timer takes 200 samples in a second.  The decode timer fires every      *)
(* second "phase" samples after its beginning, so what it finds counted is *)
(* the end of the pulse before and the beginning of the present one.  It   *)
(* is armed at any moment, and moved by every minute mark.  The clock's    *)
(* timer fires before or after it.                                         *)
(***************************************************************************)
EXTENDS Integers, Sequences, FiniteSets

CONSTANTS
    Phases,        \* where the decode timer may be when the program starts
    Starts,        \* the civil times it may be then
    NoisySeconds,  \* bound: the seconds the signal may be disturbed in
    MaxFlips,      \* bound: pulses of the wrong length
    MaxLost,       \* bound: pulses that do not arrive
    MaxExtra,      \* bound: pulses at the minute mark, where none belongs
    MaxMinutes     \* bound: minutes until the end

\* No start is so late that the month would end before MaxMinutes are over.
ASSUME DcfAssumption ==
    /\ Phases \subseteq 0 .. 199 /\ NoisySeconds \subseteq 0 .. 59
    /\ MaxFlips \in Nat /\ MaxLost \in Nat /\ MaxExtra \in Nat
    /\ MaxMinutes \in Nat
    /\ Starts \subseteq [minutes : 0 .. 59, hours : 0 .. 23, date : 1 .. 31,
                         dow : 1 .. 7, month : 1 .. 12, year : 0 .. 99]
    /\ \A t \in Starts : t.date + (MaxMinutes \div 1440) < 31

VARIABLES
    base, minute, second,   \* what the time really is
    pulse,                  \* samples of the present second's pulse
    phase,                  \* of the decode timer; 200: stopped, for the next second
    dcf_hc,                 \* counted of the pulse before
    signal,                 \* the bits, signal_iter is their number
    time, time_valid,
    decoded, counted,       \* have the timers fired in this second?
    flips, lost, extra,     \* disturbances
    clean,                  \* none since the last minute mark (1), the one before (2)
    bad                     \* a minute decoded since the last good one, with a wrong
                            \* parity or with the timer in the pulses

clock == <<time, time_valid>>
noise == <<flips, lost, extra>>
vars == <<base, minute, second, pulse, phase, dcf_hc, signal, clock, decoded,
          counted, noise, clean, bad>>

-----------------------------------------------------------------------------
(* The transmitter *)

\* The civil time n minutes after the base.
Civil(n) ==
    LET m == base.minutes + n
        h == base.hours + (m \div 60)
        d == h \div 24
    IN  [minutes |-> m % 60, hours |-> h % 24, date |-> base.date + d,
         dow |-> ((base.dow - 1 + d) % 7) + 1, month |-> base.month,
         year |-> base.year]

\* The weights of the bits of a field, lowest first.
Weights == <<1, 2, 4, 8, 10, 20, 40, 80>>

\* Is bit i (from 0) of the BCD number v set?
BcdBit(v, i) ==
    IF i < 4 THEN ((v % 10) \div Weights[i + 1]) % 2
             ELSE ((v \div 10) \div (Weights[i + 1] \div 10)) % 2

\* First and last second of each field.
Fields == [minutes |-> <<21, 27>>, hours |-> <<29, 34>>, date |-> <<36, 41>>,
           dow |-> <<42, 44>>, month |-> <<45, 49>>, year |-> <<50, 57>>]

\* The parity bits, and what they are the parity of.
Parities == {<<21, 27, 28>>, <<29, 34, 35>>, <<36, 57, 58>>}

DataBit(t, s) ==
    LET fs == {f \in DOMAIN Fields : s \in Fields[f][1] .. Fields[f][2]}
    IN  IF fs = {} THEN 0
        ELSE LET f == CHOOSE f \in fs : TRUE IN BcdBit(t[f], s - Fields[f][1])

OddOnes(bit, seconds) == Cardinality({s \in seconds : bit[s] = 1}) % 2

\* What is sent in the seconds 0 to 58 of a minute announces the next one.
Telegram(t) ==
    LET data == [s \in 0 .. 58 |-> IF s = 20 THEN 1 ELSE DataBit(t, s)]
    IN  [s \in 0 .. 58 |->
            IF \E p \in Parities : p[3] = s
            THEN LET p == CHOOSE p \in Parities : p[3] = s
                 IN  OddOnes(data, p[1] .. p[2])
            ELSE data[s]]

\* The pulse of second s of a minute as it is sent.
Sent(n, s) ==
    IF s = 59 THEN 0 ELSE IF Telegram(Civil(n + 1))[s] = 1 THEN 40 ELSE 20

\* ... and as it arrives, with what that counts as.
Arrives(n, s) ==
    \/ /\ pulse' = Sent(n, s)
       /\ UNCHANGED noise
       /\ clean' = IF s = 59 /\ clean < 2 THEN clean + 1 ELSE clean
    \/ /\ s \in NoisySeconds
       /\ clean' = 0
       /\ \/ s # 59 /\ flips < MaxFlips /\ flips' = flips + 1
             /\ pulse' = 60 - Sent(n, s) /\ UNCHANGED <<lost, extra>>
          \/ s # 59 /\ lost < MaxLost /\ lost' = lost + 1
             /\ pulse' = 0 /\ UNCHANGED <<flips, extra>>
          \/ s = 59 /\ extra < MaxExtra /\ extra' = extra + 1
             /\ pulse' = 20 /\ UNCHANGED <<flips, lost>>

-----------------------------------------------------------------------------
(* dcf2time() *)

\* Mutant of Bit: the position of the bits is one off.
BitBefore(s) == signal[s + 1]

\* The bit of second s: the minute mark is the first one.
Bit(s) == signal[s + 2]

decode_value(firstbit, lastbit) ==
    LET value(i) == IF i <= lastbit - firstbit /\ Bit(firstbit + i) = 1
                    THEN Weights[i + 1] ELSE 0
    IN  value(0) + value(1) + value(2) + value(3)
            + value(4) + value(5) + value(6) + value(7)

\* Mutant of check_parity: it is not checked.
no_parity(firstbit, lastbit, paritybit) == TRUE

check_parity(firstbit, lastbit, paritybit) ==
    Cardinality({s \in firstbit .. lastbit : Bit(s) = 1}) % 2 = Bit(paritybit)

ParitiesGood == \A p \in Parities : check_parity(p[1], p[2], p[3])

Complete == Len(signal) = 60

\* The decode timer fires between the pulses: behind the longest one, and not where
\* it is right after the end of one (a timer that was started there may have
\* counted that pulse already).
Clear == phase \in 41 .. 199

Decoded ==
    [f \in DOMAIN Fields \cup {"seconds"} |->
        IF f = "seconds" THEN 0 ELSE decode_value(Fields[f][1], Fields[f][2])]

\* The seconds are cleared before the parities are looked at.
dcf2time ==
    IF Complete
    THEN /\ bad' = ~(ParitiesGood /\ Clear)
         /\ IF ParitiesGood
            THEN time' = Decoded /\ time_valid' = TRUE
            ELSE time' = [time EXCEPT !.seconds = 0] /\ UNCHANGED time_valid
    ELSE UNCHANGED <<clock, bad>>

-----------------------------------------------------------------------------
(* The timers *)

Init ==
    /\ base \in Starts /\ minute = 0 /\ second = 0
    /\ phase \in Phases
    /\ pulse = 20 /\ dcf_hc = 0
    /\ signal = <<>>
    /\ time = [seconds |-> 0, minutes |-> 0, hours |-> 0, date |-> 0,
               month |-> 0, year |-> 0, dow |-> 0]
    /\ time_valid = FALSE
    /\ decoded = FALSE /\ counted = FALSE
    /\ flips = 0 /\ lost = 0 /\ extra = 0 /\ clean = 0 /\ bad = FALSE

Before(x, len) == IF x < len THEN x ELSE len
After(x, len) == IF x < len THEN len - x ELSE 0

\* What the decode timer finds counted.
Counted == dcf_hc + Before(phase, pulse)

\* The buffer of sixty bits is not written beyond its end.
Stored(bits, bit) == IF Len(bits) < 60 THEN Append(bits, bit) ELSE bits

\* Where a timer is that is started by the next sample without a pulse: that may
\* be due at once or in one sample's time, which may be in the next second.
Restarted == IF phase < pulse THEN {pulse} ELSE {phase, phase + 1}

\* dcf_decode_timer_cb(): no pulse, the last second of the minute.  The timer
\* is stopped, to be started again.
MinuteMark ==
    /\ ~decoded /\ Counted <= 10
    /\ dcf2time
    /\ signal' = Stored(<<>>, 0)
    /\ phase' \in Restarted
    /\ decoded' = TRUE
    /\ dcf_hc' = After(phase, pulse)
    /\ UNCHANGED <<base, minute, second, pulse, counted, noise, clean>>

\* dcf_decode_timer_cb(): a bit.
BitDecoded ==
    /\ ~decoded /\ Counted > 10
    /\ signal' = Stored(signal, IF Counted > 35 THEN 1 ELSE 0)
    /\ decoded' = TRUE
    /\ dcf_hc' = After(phase, pulse)
    /\ UNCHANGED <<base, minute, second, pulse, phase, clock, counted, noise,
                   clean, bad>>

\* Mutant of CountedOn: the hours are not counted.
CountedWithoutHours(t) ==
    IF t.seconds + 1 # 60 THEN [t EXCEPT !.seconds = (@ + 1) % 256]
    ELSE [t EXCEPT !.seconds = 0, !.minutes = (@ + 1) % 60]

\* Mutant of CountedOn: a minute has one second more.
CountedTooFar(t) ==
    IF t.seconds + 1 # 61 THEN [t EXCEPT !.seconds = (@ + 1) % 256]
    ELSE [t EXCEPT !.seconds = 0, !.minutes = (@ + 1) % 256]

\* A second later, by the clock of the ESP8266.
CountedOn(t) ==
    IF t.seconds + 1 # 60 THEN [t EXCEPT !.seconds = (@ + 1) % 256]
    ELSE IF t.minutes + 1 # 60 THEN [t EXCEPT !.seconds = 0, !.minutes = (@ + 1) % 256]
    ELSE IF t.hours + 1 # 24
         THEN [t EXCEPT !.seconds = 0, !.minutes = 0, !.hours = (@ + 1) % 256]
    ELSE [t EXCEPT !.seconds = 0, !.minutes = 0, !.hours = 0,
                   !.date = (@ + 1) % 256, !.dow = (@ + 1) % 256]

time_inc_timer_cb ==
    /\ ~counted
    /\ time' = CountedOn(time)
    /\ counted' = TRUE
    /\ UNCHANGED <<base, minute, second, pulse, phase, dcf_hc, signal, time_valid,
                   decoded, noise, clean, bad>>

\* The next second begins.  A decode timer that is still stopped is started behind
\* its pulse, which has been counted by then, and fires in the second after it.
NextSecond ==
    /\ decoded /\ counted
    /\ minute < MaxMinutes
    /\ second' = (second + 1) % 60
    /\ minute' = IF second = 59 THEN minute + 1 ELSE minute
    /\ Arrives(minute', second')
    /\ counted' = FALSE
    /\ IF phase = 200
       THEN phase' = pulse' /\ dcf_hc' = dcf_hc + pulse' /\ decoded' = TRUE
       ELSE decoded' = FALSE /\ UNCHANGED <<phase, dcf_hc>>
    /\ UNCHANGED <<base, signal, clock, bad>>

Next == MinuteMark \/ BitDecoded \/ time_inc_timer_cb \/ NextSecond

Spec == Init /\ [][Next]_vars

-----------------------------------------------------------------------------
(* Properties *)

\* The disturbances so far are ones that are noticed: two pulses of the wrong length
\* may make a wrong parity good, and a minute mark that is drowned leaves sixty bits
\* that the next mark decodes, a minute late.
Noticeable == flips <= 1 /\ extra = 0

\* The buffer never overflows, the timers never count a pulse twice, and the clock
\* shows a time of day while the last minute that was decoded was a good one: the
\* parities alone do not keep a value in its range.  The day of the week is counted
\* on beyond Sunday until the next telegram.
TypeOK ==
    /\ signal \in Seq({0, 1}) /\ Len(signal) <= 60
    /\ phase \in 0 .. 200 /\ dcf_hc \in 0 .. 40 /\ pulse \in {0, 20, 40}
    /\ time_valid /\ ~bad /\ Noticeable =>
            time.seconds < 60 /\ time.minutes < 60 /\ time.hours < 24

\* The minute that begins with the mark the decode timer has just found.
Present == Civil(IF second = 59 THEN minute + 1 ELSE minute)

Shows(t, civil) == \A f \in DOMAIN civil : t[f] = civil[f]

\* If the timer is clear of the pulses when it finds a mark, however it came there,
\* a time is taken over only at the end of a minute and is the present one: a pulse
\* of the wrong length, or a lost pulse taken for the minute mark, is noticed.  A timer
\* 25 to 35 samples into the second takes wrong times from an undisturbed signal.
TakenIsPresent ==
    [][MinuteMark /\ Complete /\ ParitiesGood /\ Noticeable /\ Clear
       => second = 59 /\ Shows(time', Present)]_vars

\* A whole minute of undisturbed signal, mark to mark, with the timer clear of the
\* pulses sets the clock, whatever was received before: in its last second the
\* timer, which only a mark moves, takes the time over.
CleanMinuteSets ==
    [][(MinuteMark \/ BitDecoded) /\ second = 59 /\ clean = 2 /\ Clear
       => time_valid' /\ ~bad']_vars

\* The clock's reading and the real time, in seconds of the day.
Reading == (time.hours * 60 + time.minutes) * 60 + time.seconds
Real == (Civil(minute).hours * 60 + Civil(minute).minutes) * 60 + second

CloseTo(a, b) == (a - b) % 86400 \in {0, 1, 86399}

\* From the first good minute on the clock is a second off at most, through
\* incomplete minutes, over midnight, and while the timer wanders through the
\* pulses, until a minute is decoded with a wrong parity or with the timer in the
\* pulses.
ClockFollows ==
    time_valid /\ ~bad /\ Noticeable /\ ~decoded /\ ~counted
        => CloseTo(Reading, Real)

=============================================================================

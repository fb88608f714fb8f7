---------------------------- MODULE MCDcfDecoder ----------------------------
(* Instances of DcfDecoder for TLC. *)
EXTENDS DcfDecoder

\* Sunday, three minutes before midnight; a Thursday, shortly before ten.
SundayNight == [minutes |-> 57, hours |-> 23, date |-> 19, dow |-> 7,
                month |-> 7, year |-> 15]
Morning == [minutes |-> 57, hours |-> 9, date |-> 29, dow |-> 4,
            month |-> 10, year |-> 99]
BothStarts == {SundayNight, Morning}

\* Phases in the shorter pulse, in the longer one, right behind it, and at the end of
\* the second.
EachPhase == {5, 30, 40, 199}

\* Seconds in several fields, two parities, the beginning and the end.
EachField == {0, 20, 28, 31, 41, 57, 58, 59}
=============================================================================

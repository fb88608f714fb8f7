---------------------------- MODULE MCAlarmClock ----------------------------
(* Instances of AlarmClock for TLC: a day of 12 or 18 seconds. *)
EXTENDS AlarmClock

\* Two times of day, the hour that disables, and arguments to be rejected.
SomeOpenTimes == {<<1, 0>>, <<0, 1>>, <<NoOpen, 0>>, <<NoOpen + 1, 0>>, <<0, MIN>>}
=============================================================================

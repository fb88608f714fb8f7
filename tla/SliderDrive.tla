---------------------------- MODULE SliderDrive ----------------------------
(***************************************************************************)
(* What the controller promises about the motor, without saying how: the   *)
(* two relays are one motor that is off, raising or lowering; it is never  *)
(* thrown from raising into lowering, it only starts in the direction that *)
(* is wanted at that moment, it does not change while the controller       *)
(* sleeps, and the controller never falls asleep while it is raising.      *)
(* AvrController implements this specification.                            *)
(***************************************************************************)
VARIABLES motor,     \* "off", "up" or "down"
          wanted,    \* the position asked for
          asleep     \* is the controller in its sleep loop?

vars == <<motor, wanted, asleep>>

TypeOK ==
    /\ motor \in {"off", "up", "down"}
    /\ wanted \in {"SLIDER_UP", "SLIDER_DOWN"}
    /\ asleep \in BOOLEAN

Init ==
    /\ motor = "off"
    /\ wanted = "SLIDER_UP"
    /\ asleep = FALSE

\* A button, a command or the opening time; asleep only the opening time.
Request ==
    /\ wanted' \in IF asleep THEN {"SLIDER_UP"} ELSE {"SLIDER_UP", "SLIDER_DOWN"}
    /\ UNCHANGED <<motor, asleep>>

\* Lowering may be turned into raising at once: the opening time has come.
Raise ==
    /\ ~asleep /\ wanted = "SLIDER_UP"
    /\ motor' = "up"
    /\ UNCHANGED <<wanted, asleep>>

Lower ==
    /\ ~asleep /\ wanted = "SLIDER_DOWN"
    /\ motor # "up"
    /\ motor' = "down"
    /\ UNCHANGED <<wanted, asleep>>

Stop ==
    /\ ~asleep
    /\ motor' = "off"
    /\ UNCHANGED <<wanted, asleep>>

FallAsleep ==
    /\ ~asleep /\ motor # "up"
    /\ asleep' = TRUE
    /\ UNCHANGED <<motor, wanted>>

Awake ==
    /\ asleep
    /\ asleep' = FALSE
    /\ UNCHANGED <<motor, wanted>>

Next == Request \/ Raise \/ Lower \/ Stop \/ FallAsleep \/ Awake

Spec == Init /\ [][Next]_vars
=============================================================================

-------------------------- MODULE MCAvrController --------------------------
(* Instances of AvrController for TLC. *)
EXTENDS AvrController

AllButtons == BOOLEAN \X BOOLEAN
EitherButton == AllButtons \ {<<TRUE, TRUE>>}
NoButtons == {<<FALSE, FALSE>>}

AllCommands == {"other", "slider_up", "slider_down"}
NoCommands == {"other"}
=============================================================================

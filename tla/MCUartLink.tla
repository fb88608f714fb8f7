----------------------------- MODULE MCUartLink -----------------------------
(* Instances of UartLink for TLC. *)
EXTENDS UartLink

SomeHttp == {"slider_up", "opentime_set", "opentime_bad"}
SliderHttp == {"slider_up", "slider_down"}
=============================================================================

--------------------------- MODULE MCAppTimerOne ---------------------------
(* TLC instances of AppTimer: one timer, created in either mode, with two    *)
(* timeouts.                                                                 *)
EXTENDS AppTimer

CONSTANTS timer

MCTimers == {timer}
MCModesOf == timer :> {"SINGLE_SHOT", "REPEATED"}
MCTimeoutsOf == timer :> {3, 5}
=============================================================================

----------------------------- MODULE MCAppTimer -----------------------------
(* TLC instances of AppTimer: one periodic and one single-shot timer. *)
EXTENDS AppTimer

CONSTANTS periodic, oneshot

MCTimers == {periodic, oneshot}
MCModesOf == (periodic :> {"REPEATED"}) @@ (oneshot :> {"SINGLE_SHOT"})
MCTimeoutsOf == (periodic :> {3}) @@ (oneshot :> {4})
=============================================================================

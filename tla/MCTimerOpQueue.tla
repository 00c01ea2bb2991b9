--------------------------- MODULE MCTimerOpQueue ---------------------------
(* TLC instance of TimerOpQueue: constants are given values in the .cfg. *)
EXTENDS TimerOpQueue

CONSTANTS op1, op2, op3, main, handler

MCOp == {op1, op2, op3}
MCProducers == {main, handler}
=============================================================================

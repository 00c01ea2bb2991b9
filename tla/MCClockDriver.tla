--------------------------- MODULE MCClockDriver ---------------------------
(* TLC instances of ClockDriver. *)
EXTENDS ClockDriver

CONSTANTS u1, u2, u3, u4

MCUsers == {u1, u2, u3, u4}
MCItems == {u2, u3, u4}        \* u1 passes NULL, as lfclk_request of main.cpp does

\* All users call from one level: the main program, which the clock's interrupt
\* may preempt, the level of that interrupt, or one above it.
OneLevel(l) == [level |-> [u \in MCUsers |-> l], early |-> FALSE]

\* From all levels, and releasing when they please.
Mixed == [level |-> (u1 :> 0) @@ (u2 :> 1) @@ (u3 :> 2) @@ (u4 :> 0), early |-> TRUE]

MCCallers == {OneLevel(0), OneLevel(1), OneLevel(2), Mixed}

\* Single cases, to be named in the .cfg of a run by hand.
CallersMain == {OneLevel(0)}
CallersHigh == {OneLevel(2)}
CallersMixed == {Mixed}
CallersMixedLate == {[Mixed EXCEPT !.early = FALSE]}
CallersEarly == {[OneLevel(1) EXCEPT !.early = TRUE]}
=============================================================================

------------------------------ MODULE MCSpiBus ------------------------------
(* TLC instance of SpiBus. *)
EXTENDS SpiBus

MCLengths == {1, 2, 3}
=============================================================================

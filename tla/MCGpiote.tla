------------------------------ MODULE MCGpiote ------------------------------
(* TLC instance of Gpiote: a pin of a one-shot user and a pin two users share. *)
EXTENDS Gpiote

MCLowToHigh == [u \in 1 .. 3 |-> CASE u = 1 -> {0} [] u = 2 -> {1} [] u = 3 -> {1}]
MCHighToLow == [u \in 1 .. 3 |-> CASE u = 1 -> {0} [] u = 2 -> {1} [] u = 3 -> {}]
MCOneShot == {1}
=============================================================================

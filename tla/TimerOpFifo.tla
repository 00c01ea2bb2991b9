---------------------------- MODULE TimerOpFifo ----------------------------
(***************************************************************************)
(* What the operation queue of app_timer.c promises to its users: a        *)
(* bounded FIFO of timer operations.  An operation is put at the back      *)
(* while there is room and taken from the front, each exactly once.        *)
(***************************************************************************)
EXTENDS Naturals, Sequences

CONSTANTS
  Op,         (* the timer operations: start, stop, stop all, with their data *)
  NoOp,       (* nothing has been delivered yet                               *)
  Capacity    (* how many operations may wait                                 *)

VARIABLES
  ops,        (* the waiting operations, oldest first   *)
  delivered   (* the operation handed to the handler last *)

fifoVars == <<ops, delivered>>

Init ==
  /\ ops = <<>>
  /\ delivered = NoOp

Put(op) ==
  /\ Len(ops) < Capacity
  /\ ops' = Append(ops, op)
  /\ UNCHANGED delivered

Take ==
  /\ ops # <<>>
  /\ delivered' = Head(ops)
  /\ ops' = Tail(ops)

Next == Take \/ \E op \in Op : Put(op)

Spec == Init /\ [][Next]_fifoVars
=============================================================================

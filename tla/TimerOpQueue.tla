---------------------------- MODULE TimerOpQueue ----------------------------
(***************************************************************************)
(* The ring buffer m_op_queue of src/nrf/app_timer.c, through which        *)
(* app_timer_start(), app_timer_stop() and app_timer_stop_all() hand       *)
(* operations to the SWI handler.                                          *)
(*                                                                         *)
(* A producer (the main program or a timeout handler) works in a critical  *)
(* region: it asks user_op_alloc() for a slot, fills the slot, and         *)
(* publishes it with user_op_enque().  The consumer, which is              *)
(* list_insertions_handler() in the SWI handler, takes no lock: it counts  *)
(* `first` up, then wraps it to 0 if it has reached `size`, which gives    *)
(* the slot back, and reads the slot only afterwards.  PreemptsAt says at  *)
(* which of these places a producer may interrupt the consumer:            *)
(*   {}               as configured, APP_TIMER_CONFIG_IRQ_PRIORITY = 0: no *)
(*                    handler that calls app_timer preempts the SWI.       *)
(*   {"read"}         a lower priority, `first` stored once, wrapped: what *)
(*                    a compiler may make of lines 576-580, `first` not    *)
(*                    being volatile.                                      *)
(*   {"wrap","read"}  a lower priority, both stores of `first` made: a     *)
(*                    producer may find first = size.                      *)
(***************************************************************************)
EXTENDS Naturals, Sequences

CONSTANTS
  Op,                (* timer_user_op_t values                              *)
  NoOp,              (* contents of a slot that was never filled            *)
  Producers,         (* contexts that call app_timer_start/stop/stop_all    *)
  Size,              (* APP_TIMER_CONFIG_OP_QUEUE_SIZE + 1                  *)
  PreemptsAt         (* where a producer may interrupt the SWI handler      *)

ASSUME SizeAssumption == Size \in Nat \ {0}
ASSUME PreemptAssumption == PreemptsAt \subseteq {"wrap", "read"}
ASSUME NoOpAssumption == NoOp \notin Op

VARIABLES
  first,            (* m_op_queue.first                                        *)
  last,             (* m_op_queue.last                                         *)
  user_op_queue,    (* m_op_queue.user_op_queue                                *)
  masked,           (* interrupts disabled by CRITICAL_REGION_ENTER            *)
  pc,               (* where each producer is: idle, alloc, fill, enque        *)
  request,          (* the operation each producer is putting                  *)
  last_index,       (* each producer's local `last_index`                      *)
  place,            (* where the consumer is: take, wrap, read                 *)
  p_user_op,        (* index of the slot the consumer reads                    *)
  op_read           (* the operation the consumer read last                    *)

vars == <<first, last, user_op_queue, masked, pc, request, last_index,
          place, p_user_op, op_read>>

Slots == 0 .. Size - 1

\* The next index of user_op_alloc(), lines 795-800.
Succ(i) == IF i + 1 = Size THEN 0 ELSE i + 1

-----------------------------------------------------------------------------
Init ==
  /\ first = 0
  /\ last = 0
  /\ user_op_queue = [i \in Slots |-> NoOp]
  /\ masked = FALSE
  /\ pc = [p \in Producers |-> "idle"]
  /\ request = [p \in Producers |-> NoOp]
  /\ last_index = [p \in Producers |-> 0]
  /\ place = "take"
  /\ p_user_op = 0
  /\ op_read = NoOp

\* CRITICAL_REGION_ENTER() in timer_start_op_schedule / timer_stop_op_schedule.
ProducerEnter(p, op) ==
  /\ pc[p] = "idle"
  /\ ~masked
  /\ place = "take" \/ place \in PreemptsAt
  /\ masked' = TRUE
  /\ pc' = [pc EXCEPT ![p] = "alloc"]
  /\ request' = [request EXCEPT ![p] = op]
  /\ UNCHANGED <<first, last, user_op_queue, last_index, place, p_user_op, op_read>>

\* user_op_alloc() finds a free slot.
UserOpAlloc(p) ==
  /\ pc[p] = "alloc"
  /\ Succ(last) # first
  /\ last_index' = [last_index EXCEPT ![p] = Succ(last)]
  /\ pc' = [pc EXCEPT ![p] = "fill"]
  /\ UNCHANGED <<first, last, user_op_queue, masked, request, place, p_user_op, op_read>>

\* user_op_alloc() returns NULL; the caller gets NRF_ERROR_NO_MEM.
UserOpFull(p) ==
  /\ pc[p] = "alloc"
  /\ Succ(last) = first
  /\ masked' = FALSE
  /\ pc' = [pc EXCEPT ![p] = "idle"]
  /\ UNCHANGED <<first, last, user_op_queue, request, last_index, place, p_user_op, op_read>>

\* The assignments to *p_user_op, which is the slot at index `last`.
UserOpFill(p) ==
  /\ pc[p] = "fill"
  /\ user_op_queue' = [user_op_queue EXCEPT ![last] = request[p]]
  /\ pc' = [pc EXCEPT ![p] = "enque"]
  /\ UNCHANGED <<first, last, masked, request, last_index, place, p_user_op, op_read>>

\* user_op_enque() and CRITICAL_REGION_EXIT().
UserOpEnque(p) ==
  /\ pc[p] = "enque"
  /\ last' = last_index[p]
  /\ masked' = FALSE
  /\ pc' = [pc EXCEPT ![p] = "idle"]
  /\ UNCHANGED <<first, user_op_queue, request, last_index, place, p_user_op, op_read>>

\* One turn of the loop of list_insertions_handler(): p_user_op points at the
\* first slot and `first` is counted up, which may leave it at `size`.
ConsumerAdvance ==
  /\ ~masked
  /\ place = "take"
  /\ first # last
  /\ p_user_op' = first
  /\ first' = first + 1
  /\ place' = "wrap"
  /\ UNCHANGED <<last, user_op_queue, masked, pc, request, last_index, op_read>>

\* `first` wraps, before the slot has been read.
ConsumerWrap ==
  /\ ~masked
  /\ place = "wrap"
  /\ first' = IF first = Size THEN 0 ELSE first
  /\ place' = "read"
  /\ UNCHANGED <<last, user_op_queue, masked, pc, request, last_index, p_user_op, op_read>>

ConsumerReadFirst ==                           \* mutant
  /\ ~masked
  /\ place = "read"
  /\ op_read' = user_op_queue[first]
  /\ place' = "take"
  /\ UNCHANGED <<first, last, user_op_queue, masked, pc, request, last_index, p_user_op>>

\* The reads of p_user_op->p_node, op_type and params.
ConsumerRead ==
  /\ ~masked
  /\ place = "read"
  /\ op_read' = user_op_queue[p_user_op]
  /\ place' = "take"
  /\ UNCHANGED <<first, last, user_op_queue, masked, pc, request, last_index, p_user_op>>

Next ==
  \/ ConsumerAdvance
  \/ ConsumerWrap
  \/ ConsumerRead
  \/ \E p \in Producers :
       \/ \E op \in Op : ProducerEnter(p, op)
       \/ UserOpAlloc(p)
       \/ UserOpFull(p)
       \/ UserOpFill(p)
       \/ UserOpEnque(p)

Spec == Init /\ [][Next]_vars

-----------------------------------------------------------------------------
(***************************************************************************)
(* Properties.                                                             *)
(***************************************************************************)
\* Type invariant of the queue and of its producers and consumer.
TypeOK ==
  /\ first \in 0 .. Size
  /\ first = Size => place = "wrap"
  /\ last \in Slots
  /\ user_op_queue \in [Slots -> Op \cup {NoOp}]
  /\ masked \in BOOLEAN
  /\ pc \in [Producers -> {"idle", "alloc", "fill", "enque"}]
  /\ request \in [Producers -> Op \cup {NoOp}]
  /\ last_index \in [Producers -> Slots]
  /\ place \in {"take", "wrap", "read"}
  /\ p_user_op \in Slots
  /\ op_read \in Op \cup {NoOp}

\* The slot of the oldest operation: `first`, its wrap made up for.
Front == IF first = Size THEN 0 ELSE first

\* How many operations wait, and the index of the i-th of them.
Count == IF Front <= last THEN last - Front ELSE last + Size - Front
IndexOf(i) == IF Front + i - 1 < Size THEN Front + i - 1 ELSE Front + i - 1 - Size
Contents == [i \in 1 .. Count |-> user_op_queue[IndexOf(i)]]

\* What the consumer gets: fixed when `first` moves on, though read later.
Delivered == IF place = "take" THEN op_read ELSE user_op_queue[p_user_op]

Fifo == INSTANCE TimerOpFifo
          WITH ops <- Contents, delivered <- Delivered, Capacity <- Size - 1

\* The ring implements the bounded FIFO: nothing is lost, duplicated or
\* reordered, the wrap of `first` and `last` at `size` is right, and the slot
\* the consumer gave back by advancing `first` (lines 576-580) keeps its
\* contents until it has been read (lines 582-621).  It holds as long as no
\* producer comes between the two stores of `first` ("wrap" \notin PreemptsAt):
\* with first = size the test for a full queue of line 801 fails to see one.
ImplementsFifo == Fifo!Spec

\* At most one producer is between CRITICAL_REGION_ENTER and _EXIT, and
\* the slot it fills lies outside the operations the consumer may take.
SlotReserved ==
  \A p \in Producers :
    pc[p] \in {"fill", "enque"} =>
      /\ masked
      /\ \A q \in Producers \ {p} : pc[q] = "idle"
      /\ last_index[p] = Succ(last)
      /\ last_index[p] # Front
      /\ \A i \in 1 .. Count : IndexOf(i) # last
=============================================================================

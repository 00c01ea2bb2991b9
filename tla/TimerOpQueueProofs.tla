------------------------- MODULE TimerOpQueueProofs -------------------------
(***************************************************************************)
(* Proofs about the ring buffer of app_timer.c, for every queue size,      *)
(* and every set of producers and operations.  The types hold wherever a   *)
(* producer may interrupt the consumer; that the ring is a FIFO, wherever  *)
(* but between the two stores of `first` (StoredOnce).                     *)
(***************************************************************************)
EXTENDS TimerOpQueue, SequenceTheorems, TLAPS

(***************************************************************************)
(* The inductive invariant.  Beside the types it says that the critical    *)
(* region holds at most one producer, what that producer has computed and  *)
(* written so far, and that the slot the consumer is still reading is the  *)
(* one just before `first`: the ring always keeps one slot unused, and     *)
(* that slot is what saves the consumer's late read.                       *)
(***************************************************************************)
OneProducer ==
  /\ \A p \in Producers : pc[p] # "idle" => masked
  /\ \A p, q \in Producers : pc[p] # "idle" /\ pc[q] # "idle" => p = q

ProducerState ==
  \A p \in Producers :
    /\ pc[p] # "idle" => request[p] \in Op
    /\ pc[p] \in {"fill", "enque"} =>
         /\ last_index[p] = Succ(last)
         /\ last_index[p] # Front
    /\ pc[p] = "enque" => user_op_queue[last] = request[p]

ReadSlot ==
  /\ place # "take" => Succ(p_user_op) = Front
  /\ place = "wrap" => ~masked

IInv == TypeOK /\ OneProducer /\ ProducerState /\ ReadSlot

\* No producer comes between the two stores of `first`: the configured
\* priorities, or a build that stores it once.
StoredOnce == "wrap" \notin PreemptsAt

-----------------------------------------------------------------------------
\* The successor of an index is an index, and determines it.
LEMMA SuccProp ==
  /\ \A i \in Slots : Succ(i) \in Slots
  /\ \A i, j \in Slots : Succ(i) = Succ(j) => i = j
BY SizeAssumption DEF Slots, Succ

\* The initial state has the right types.
LEMMA InitType == Init => TypeOK
<1> SUFFICES ASSUME Init PROVE TypeOK
  OBVIOUS
<1>1. 0 \in Slots /\ Size # 0 /\ 0 \in 0 .. Size
  BY SizeAssumption DEF Slots
<1>2. first \in 0 .. Size /\ first # Size /\ last \in Slots /\ p_user_op \in Slots
  BY <1>1 DEF Init
<1>3. user_op_queue \in [Slots -> Op \cup {NoOp}] /\ last_index \in [Producers -> Slots]
  BY <1>1 DEF Init
<1> QED
  BY <1>2, <1>3 DEF Init, TypeOK

\* Types: whatever interrupts the consumer, `first` is below `size` whenever it
\* is used as an index, and so is every other index.
THEOREM TypeCorrect == Spec => []TypeOK
<1> USE SizeAssumption DEF TypeOK, Slots
<1>1. Init => TypeOK
  BY InitType
<1>2. TypeOK /\ [Next]_vars => TypeOK'
  <2> SUFFICES ASSUME TypeOK, [Next]_vars PROVE TypeOK'
    OBVIOUS
  <2>1. ASSUME NEW p \in Producers, NEW op \in Op, ProducerEnter(p, op)
        PROVE  TypeOK'
    BY <2>1 DEF ProducerEnter
  <2>2. ASSUME NEW p \in Producers, UserOpAlloc(p)
        PROVE  TypeOK'
    BY <2>2, SuccProp DEF UserOpAlloc
  <2>3. ASSUME NEW p \in Producers, UserOpFull(p)
        PROVE  TypeOK'
    BY <2>3 DEF UserOpFull
  <2>4. ASSUME NEW p \in Producers, UserOpFill(p)
        PROVE  TypeOK'
    BY <2>4 DEF UserOpFill
  <2>5. ASSUME NEW p \in Producers, UserOpEnque(p)
        PROVE  TypeOK'
    BY <2>5 DEF UserOpEnque
  <2>6. CASE ConsumerAdvance
    BY <2>6 DEF ConsumerAdvance
  <2>7. CASE ConsumerWrap
    BY <2>7 DEF ConsumerWrap
  <2>8. CASE ConsumerRead
    BY <2>8 DEF ConsumerRead
  <2>9. CASE UNCHANGED vars
    BY <2>9 DEF vars
  <2> QED
    BY <2>1, <2>2, <2>3, <2>4, <2>5, <2>6, <2>7, <2>8, <2>9 DEF Next
<1> QED
  BY <1>1, <1>2, PTL DEF Spec

-----------------------------------------------------------------------------
\* The initial state satisfies the inductive invariant.
LEMMA InitIInv == Init => IInv
BY InitType DEF Init, IInv, OneProducer, ProducerState, ReadSlot

\* Every step keeps it.
LEMMA NextIInv == ASSUME StoredOnce PROVE IInv /\ [Next]_vars => IInv'
<1> SUFFICES ASSUME IInv, [Next]_vars PROVE IInv'
  OBVIOUS
<1> USE SizeAssumption, SuccProp DEF IInv, TypeOK, OneProducer, ProducerState, ReadSlot, Front
<1>1. ASSUME NEW p \in Producers, NEW op \in Op, ProducerEnter(p, op)
      PROVE  IInv'
  BY <1>1, PreemptAssumption DEF ProducerEnter, StoredOnce
<1>2. ASSUME NEW p \in Producers, UserOpAlloc(p)
      PROVE  IInv'
  BY <1>2 DEF UserOpAlloc
<1>3. ASSUME NEW p \in Producers, UserOpFull(p)
      PROVE  IInv'
  BY <1>3 DEF UserOpFull
<1>4. ASSUME NEW p \in Producers, UserOpFill(p)
      PROVE  IInv'
  BY <1>4 DEF UserOpFill
<1>5. ASSUME NEW p \in Producers, UserOpEnque(p)
      PROVE  IInv'
  BY <1>5 DEF UserOpEnque
<1>6. CASE ConsumerAdvance
  <2>1. first \in Slots /\ first' \in 0 .. Size /\ p_user_op' = first /\ Succ(first) = Front'
    BY <1>6 DEF ConsumerAdvance, Slots, Succ
  <2> QED
    BY <1>6, <2>1 DEF ConsumerAdvance
<1>7. CASE ConsumerWrap
  <2>1. first' \in Slots /\ Front' = Front
    BY <1>7 DEF ConsumerWrap, Slots
  <2> QED
    BY <1>7, <2>1 DEF ConsumerWrap, Slots
<1>8. CASE ConsumerRead
  BY <1>8 DEF ConsumerRead
<1>9. CASE UNCHANGED vars
  BY <1>9 DEF vars, Succ
<1> QED
  BY <1>1, <1>2, <1>3, <1>4, <1>5, <1>6, <1>7, <1>8, <1>9 DEF Next

\* The inductive invariant holds in every reachable state.
THEOREM InductiveInvariant == ASSUME StoredOnce PROVE Spec => []IInv
<1>1. StoredOnce
  OBVIOUS
<1>2. IInv /\ [Next]_vars => IInv'
  BY <1>1, NextIInv
<1> QED
  BY <1>2, InitIInv, PTL DEF Spec

\* A producer owns the slot it fills: no other producer is in the critical
\* region and no waiting operation lies in that slot.
THEOREM SlotReservedAlways == ASSUME StoredOnce PROVE Spec => []SlotReserved
<1>1. ASSUME IInv, NEW p \in Producers, pc[p] \in {"fill", "enque"},
             NEW i \in 1 .. Count
      PROVE  IndexOf(i) # last
  <2>1. Succ(last) # Front /\ Front \in Slots /\ last \in Slots
    BY <1>1, SizeAssumption DEF IInv, TypeOK, ProducerState, Front, Slots
  <2> QED
    BY <2>1, SizeAssumption DEF Count, IndexOf, Slots, Succ
<1>2. IInv => SlotReserved
  BY <1>1 DEF IInv, OneProducer, ProducerState, SlotReserved
<1>3. Spec => []IInv
  BY InductiveInvariant
<1> QED
  BY <1>2, <1>3, PTL

-----------------------------------------------------------------------------
(***************************************************************************)
(* The refinement: under the mapping of TimerOpQueue's Fifo instance, the  *)
(* publication of an operation is Put, the advance of `first` is Take, and *)
(* every other step, the wrap of `first` included, leaves the FIFO as it   *)
(* is.                                                                     *)
(***************************************************************************)

\* The arithmetic of the wrap, for any two indices.
LEMMA WrapArithmetic ==
  ASSUME NEW f \in Slots, NEW l \in Slots,
         NEW c, c = IF f <= l THEN l - f ELSE l + Size - f
  PROVE  /\ c \in 0 .. Size - 1
         /\ \A i \in 1 .. c : (IF f + i - 1 < Size THEN f + i - 1 ELSE f + i - 1 - Size) \in Slots
BY SizeAssumption DEF Slots

\* The waiting operations form a sequence of at most Size - 1 elements.
LEMMA ContentsSeq ==
  TypeOK => /\ Count \in 0 .. Size - 1
            /\ \A i \in 1 .. Count : IndexOf(i) \in Slots
            /\ Contents \in Seq(Op \cup {NoOp})
            /\ Len(Contents) = Count
<1> SUFFICES ASSUME TypeOK
             PROVE  /\ Count \in 0 .. Size - 1
                    /\ \A i \in 1 .. Count : IndexOf(i) \in Slots
                    /\ Contents \in Seq(Op \cup {NoOp})
                    /\ Len(Contents) = Count
  OBVIOUS
<1>1. Front \in Slots /\ last \in Slots /\ user_op_queue \in [Slots -> Op \cup {NoOp}]
  BY SizeAssumption DEF TypeOK, Front, Slots
<1>2. Count \in 0 .. Size - 1
  BY <1>1, SizeAssumption DEF Count, Slots
<1>3. \A i \in 1 .. Count : IndexOf(i) \in Slots
  BY <1>1, SizeAssumption DEF Count, IndexOf, Slots
<1>4. Contents \in [1 .. Count -> Op \cup {NoOp}]
  BY <1>1, <1>3 DEF Contents
<1> QED
  BY <1>2, <1>3, <1>4

\* The contents after a step of the queue, as a sequence.
LEMMA NextContentsSeq ==
  ASSUME StoredOnce, IInv, [Next]_vars
  PROVE  /\ Contents' \in Seq(Op \cup {NoOp})
         /\ Len(Contents)' = Count'
         /\ \A i \in 1 .. Count' : Contents'[i] = user_op_queue'[IndexOf(i)']
<1> DEFINE front == Front'
<1>1. front \in Slots /\ last' \in Slots /\ user_op_queue' \in [Slots -> Op \cup {NoOp}]
  <2>1. TypeOK'
    BY NextIInv DEF IInv
  <2> QED
    BY <2>1, SizeAssumption DEF TypeOK, Slots, Front
<1>6. Count' = IF front <= last' THEN last' - front ELSE last' + Size - front
  BY DEF Count
<1>7. \A i : IndexOf(i)' = IF front + i - 1 < Size THEN front + i - 1 ELSE front + i - 1 - Size
  BY DEF IndexOf
<1>8. /\ Count' \in 0 .. Size - 1
      /\ \A i \in 1 .. Count' :
           (IF front + i - 1 < Size THEN front + i - 1 ELSE front + i - 1 - Size) \in Slots
  BY <1>1, <1>6, WrapArithmetic
<1>2. Count' \in 0 .. Size - 1
  BY <1>8
<1>3. \A i \in 1 .. Count' : IndexOf(i)' \in Slots
  BY <1>7, <1>8
<1>4. Contents' \in [1 .. Count' -> Op \cup {NoOp}]
  BY <1>1, <1>3 DEF Contents
<1>5. \A i \in 1 .. Count' : Contents'[i] = user_op_queue'[IndexOf(i)']
  BY DEF Contents
<1> QED
  BY <1>2, <1>4, <1>5

\* Publishing a filled slot appends its operation.
LEMMA EnqueIsPut ==
  ASSUME StoredOnce, IInv, NEW p \in Producers, UserOpEnque(p)
  PROVE  Fifo!Put(request[p])
<1> DEFINE appended == Append(Contents, request[p])
<1>1. /\ Front \in Slots /\ last \in Slots /\ Succ(last) # Front
      /\ last' = Succ(last) /\ Front' = Front /\ user_op_queue' = user_op_queue
      /\ user_op_queue[last] = request[p] /\ request[p] \in Op
  BY SizeAssumption DEF IInv, TypeOK, ProducerState, UserOpEnque, Front, Slots
<1>2. Count' = Count + 1 /\ Count + 1 <= Size - 1 /\ Count \in Nat
  BY <1>1, SizeAssumption DEF Count, Slots, Succ
<1>3. \A i : IndexOf(i)' = IndexOf(i)
  BY <1>1 DEF IndexOf
<1>4. IndexOf(Count + 1) = last
  BY <1>1, SizeAssumption DEF Count, IndexOf, Slots, Succ
<1>5. Contents \in Seq(Op \cup {NoOp}) /\ Len(Contents) = Count
  BY ContentsSeq DEF IInv
<1>6. /\ Contents' \in Seq(Op \cup {NoOp}) /\ Len(Contents)' = Count + 1
      /\ \A i \in 1 .. Count + 1 : Contents'[i] = user_op_queue[IndexOf(i)]
  BY <1>1, <1>2, <1>3, NextContentsSeq DEF Next
<1>7. /\ appended \in Seq(Op \cup {NoOp}) /\ Len(appended) = Count + 1
      /\ \A i \in 1 .. Count : appended[i] = Contents[i]
      /\ appended[Count + 1] = request[p]
  BY <1>1, <1>5, AppendProperties
<1>8. \A i \in 1 .. Count : Contents[i] = user_op_queue[IndexOf(i)]
  BY DEF Contents
<1>9. \A i \in 1 .. Count + 1 : Contents'[i] = appended[i]
  <2> TAKE i \in 1 .. Count + 1
  <2>1. CASE i \in 1 .. Count
    BY <2>1, <1>6, <1>7, <1>8
  <2>2. CASE i = Count + 1
    <3>1. Contents'[Count + 1] = user_op_queue[IndexOf(Count + 1)]
      BY <1>2, <1>6
    <3>2. Contents'[Count + 1] = request[p]
      BY <3>1, <1>1, <1>4
    <3>3. appended[Count + 1] = request[p]
      BY <1>7
    <3> QED
      BY <2>2, <3>2, <3>3
  <2>3. i \in 1 .. Count \/ i = Count + 1
    BY <1>2
  <2> QED
    BY <2>1, <2>2, <2>3
<1>10. Contents' = appended
  BY <1>6, <1>7, <1>9, SeqEqual
<1>11. UNCHANGED Delivered
  BY <1>1 DEF UserOpEnque, Delivered
<1>12. Len(Contents) < Size - 1
  BY <1>2, <1>5, SizeAssumption
<1> QED
  BY <1>10, <1>11, <1>12 DEF Fifo!Put

\* Advancing `first` takes the oldest operation.
LEMMA AdvanceIsTake ==
  ASSUME StoredOnce, IInv, ConsumerAdvance
  PROVE  Fifo!Take
<1>1. /\ Front \in Slots /\ last \in Slots /\ Front # last /\ Front = first
      /\ Front' = Succ(Front) /\ last' = last /\ user_op_queue' = user_op_queue
      /\ p_user_op' = first /\ place' = "wrap"
  BY SizeAssumption DEF IInv, TypeOK, ConsumerAdvance, Front, Succ, Slots
<1>2. Count' = Count - 1 /\ Count >= 1 /\ Count \in Nat
  BY <1>1, SizeAssumption DEF Count, Slots, Succ
<1>3. Contents \in Seq(Op \cup {NoOp}) /\ Len(Contents) = Count /\ Contents # <<>>
  BY <1>2, ContentsSeq DEF IInv
<1>4. \A i \in 1 .. Count - 1 : IndexOf(i)' = IndexOf(i + 1)
  BY <1>1, SizeAssumption DEF Count, IndexOf, Slots, Succ
<1>5. /\ Contents' \in Seq(Op \cup {NoOp}) /\ Len(Contents)' = Count - 1
      /\ \A i \in 1 .. Count - 1 : Contents'[i] = user_op_queue[IndexOf(i + 1)]
  BY <1>1, <1>2, <1>4, NextContentsSeq DEF Next
<1>6. /\ Tail(Contents) \in Seq(Op \cup {NoOp}) /\ Len(Tail(Contents)) = Count - 1
      /\ \A i \in 1 .. Count - 1 : Tail(Contents)[i] = Contents[i + 1]
  BY <1>3, HeadTailProperties
<1>7. \A i \in 1 .. Count : Contents[i] = user_op_queue[IndexOf(i)]
  BY DEF Contents
<1>8. \A i \in 1 .. Count - 1 : Contents'[i] = Tail(Contents)[i]
  BY <1>2, <1>5, <1>6, <1>7
<1>9. Contents' = Tail(Contents)
  BY <1>5, <1>6, <1>8, SeqEqual
<1>10. IndexOf(1) = Front
  BY <1>1, SizeAssumption DEF IndexOf, Slots
<1>11. Head(Contents) = user_op_queue[first]
  BY <1>1, <1>2, <1>3, <1>7, <1>10
<1>12. Delivered' = user_op_queue[first]
  BY <1>1 DEF Delivered
<1> QED
  BY <1>3, <1>9, <1>11, <1>12 DEF Fifo!Take

\* A step that moves neither index and writes no waiting slot changes nothing
\* the FIFO shows.
LEMMA OthersStutter ==
  ASSUME IInv,
         \/ UNCHANGED vars
         \/ ConsumerWrap
         \/ ConsumerRead
         \/ \E p \in Producers :
              \/ \E op \in Op : ProducerEnter(p, op)
              \/ UserOpAlloc(p) \/ UserOpFull(p) \/ UserOpFill(p)
  PROVE  UNCHANGED <<Contents, Delivered>>
<1>1. ASSUME UNCHANGED <<Front, last, user_op_queue>> PROVE UNCHANGED Contents
  BY <1>1 DEF Contents, Count, IndexOf
<1>2. CASE UNCHANGED vars
  BY <1>1, <1>2 DEF vars, Delivered, Front
<1>6. CASE ConsumerWrap
  <2>1. UNCHANGED <<Front, last, user_op_queue, p_user_op, op_read>>
    BY <1>6, SizeAssumption DEF ConsumerWrap, Front, IInv, TypeOK
  <2>2. place # "take" /\ place' # "take"
    BY <1>6 DEF ConsumerWrap
  <2> QED
    BY <1>1, <2>1, <2>2 DEF Delivered
<1>3. CASE ConsumerRead
  BY <1>1, <1>3 DEF ConsumerRead, Delivered, Front
<1>4. ASSUME NEW p \in Producers,
             (\E op \in Op : ProducerEnter(p, op)) \/ UserOpAlloc(p) \/ UserOpFull(p)
      PROVE  UNCHANGED <<Contents, Delivered>>
  BY <1>1, <1>4 DEF ProducerEnter, UserOpAlloc, UserOpFull, Delivered, Front
<1>5. ASSUME NEW p \in Producers, UserOpFill(p)
      PROVE  UNCHANGED <<Contents, Delivered>>
  <2>1. /\ Front \in Slots /\ last \in Slots /\ Succ(last) # Front
        /\ user_op_queue \in [Slots -> Op \cup {NoOp}]
        /\ user_op_queue' = [user_op_queue EXCEPT ![last] = request[p]]
        /\ UNCHANGED <<Front, last, place, p_user_op, op_read>>
    BY <1>5, SizeAssumption DEF IInv, TypeOK, ProducerState, UserOpFill, Front, Slots
  <2>2. Count' = Count /\ \A i \in 1 .. Count : IndexOf(i)' = IndexOf(i)
    BY <2>1 DEF Count, IndexOf
  <2>3. \A i \in 1 .. Count : IndexOf(i) \in Slots /\ IndexOf(i) # last
    BY <2>1, SizeAssumption DEF Count, IndexOf, Slots, Succ
  <2>4. \A i \in 1 .. Count : user_op_queue'[IndexOf(i)'] = user_op_queue[IndexOf(i)]
    BY <2>1, <2>2, <2>3
  <2>5. UNCHANGED Contents
    BY <2>2, <2>4 DEF Contents
  <2>6. place # "take" => p_user_op \in Slots /\ p_user_op # last
    BY <2>1 DEF IInv, TypeOK, ReadSlot
  <2>7. UNCHANGED Delivered
    BY <2>1, <2>6 DEF Delivered
  <2> QED
    BY <2>5, <2>7
<1> QED
  BY <1>2, <1>3, <1>4, <1>5, <1>6

\* The ring buffer is a bounded FIFO for every size: with Size slots it holds
\* Size - 1 operations and loses, repeats or reorders none of them, and the
\* slot freed early by the consumer is read unharmed.
THEOREM RefinesFifo == ASSUME StoredOnce PROVE Spec => ImplementsFifo
<1>1. Init => Fifo!Init
  <2> SUFFICES ASSUME Init PROVE Fifo!Init
    OBVIOUS
  <2>1. TypeOK /\ Count = 0
    BY InitIInv, SizeAssumption DEF Init, IInv, Count, Front
  <2>2. Contents = <<>>
    BY <2>1, ContentsSeq
  <2> QED
    BY <2>2 DEF Init, Fifo!Init, Delivered
<1>3. Spec => []IInv
  BY InductiveInvariant
<1>2. IInv /\ [Next]_vars => [Fifo!Next]_(Fifo!fifoVars)
  <2> SUFFICES ASSUME IInv, [Next]_vars PROVE [Fifo!Next]_(Fifo!fifoVars)
    OBVIOUS
  <2>1. CASE ConsumerAdvance
    BY <2>1, AdvanceIsTake DEF Fifo!Next
  <2>2. ASSUME NEW p \in Producers, UserOpEnque(p)
        PROVE  Fifo!Next
    <3>1. request[p] \in Op
      BY <2>2 DEF IInv, ProducerState, UserOpEnque
    <3> QED
      BY <2>2, <3>1, EnqueIsPut DEF Fifo!Next
  <2> QED
    BY <2>1, <2>2, OthersStutter DEF Next, Fifo!fifoVars
<1> QED
  BY <1>1, <1>2, <1>3, PTL DEF Spec, Fifo!Spec, ImplementsFifo
=============================================================================

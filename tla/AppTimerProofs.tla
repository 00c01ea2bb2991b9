--------------------------- MODULE AppTimerProofs ---------------------------
(***************************************************************************)
(* Proofs about the timers of app_timer.c, for every set of timers, queue  *)
(* size, counter width, latency and behaviour of the application.          *)
(***************************************************************************)
EXTENDS AppTimer, SequenceTheorems, FiniteSetTheorems, WellFoundedInduction, TLAPS

(***************************************************************************)
(* The inductive invariant behind NoStrandedOps.  Consumed ticks are       *)
(* queued together with the SWI that fetches them.  An operation waits     *)
(* only while somebody is bound to have it applied: the SWI is pending, or *)
(* the main program is between queueing it and pending the SWI, or the SWI *)
(* handler is in or before the loop that empties the queue.                *)
(***************************************************************************)
TicksFetched == m_ticks_elapsed # NONE => swi_pending

OpsServed ==
  m_op_queue # <<>> =>
    \/ swi_pending
    \/ thread.pc = "sched"
    \/ isr \in {"expired_timers", "list_insertions", "lost"}

ServiceInv == TicksFetched /\ OpsServed

-----------------------------------------------------------------------------
\* A step of the clock fills no queue.
LEMMA TickServes == ServiceInv /\ Tick => ServiceInv'
<1> SUFFICES ASSUME ServiceInv, Tick PROVE ServiceInv'
  OBVIOUS
<1>1. UNCHANGED <<m_ticks_elapsed, swi_pending, thread, isr>>
  BY DEF Tick
<1>2. ASSUME m_op_queue = <<>> PROVE m_op_queue' = <<>>
  BY <1>2 DEF Tick
<1> QED
  BY <1>1, <1>2 DEF ServiceInv, TicksFetched, OpsServed

\* The main program announces what it queues.
LEMMA ThreadServes == ServiceInv /\ Thread => ServiceInv'
<1> SUFFICES ASSUME ServiceInv, Thread PROVE ServiceInv'
  OBVIOUS
<1> USE DEF ServiceInv, TicksFetched, OpsServed
<1>1. CASE EnterCritical
  BY <1>1 DEF EnterCritical
<1>2. CASE ExitCritical
  BY <1>2 DEF ExitCritical
<1>3. CASE StopQueue
  BY <1>3 DEF StopQueue, ThreadRuns, Idle
<1>4. CASE StopAllQueue
  BY <1>4 DEF StopAllQueue
<1>5. CASE Sched
  BY <1>5 DEF Sched
<1>6. CASE Return
  BY <1>6 DEF Return
<1>7. ASSUME NEW t \in Timers, Create(t) PROVE ServiceInv'
  BY <1>7 DEF Create
<1>8. ASSUME NEW t \in Timers, StopClear(t) PROVE ServiceInv'
  BY <1>8 DEF StopClear, Idle
<1>9. ASSUME NEW t \in Timers, NEW T \in TimeoutsOf[t], StartQueue(t, T) PROVE ServiceInv'
  BY <1>9 DEF StartQueue
<1> QED
  BY <1>1, <1>2, <1>3, <1>4, <1>5, <1>6, <1>7, <1>8, <1>9 DEF Thread

\* A timeout handler pends the SWI with every operation it queues.
LEMMA HandlerServes == ServiceInv /\ TimeoutHandler => ServiceInv'
<1> SUFFICES ASSUME ServiceInv, TimeoutHandler PROVE ServiceInv'
  OBVIOUS
<1> USE DEF ServiceInv, TicksFetched, OpsServed
<1>1. CASE HandlerStopAll
  BY <1>1 DEF HandlerStopAll
<1>2. CASE HandlerReturn
  BY <1>2 DEF HandlerReturn
<1>3. ASSUME NEW t \in Timers, HandlerStop(t) PROVE ServiceInv'
  BY <1>3 DEF HandlerStop
<1>4. ASSUME NEW t \in Timers, NEW T \in TimeoutsOf[t], HandlerStart(t, T) PROVE ServiceInv'
  BY <1>4 DEF HandlerStart
<1> QED
  BY <1>1, <1>2, <1>3, <1>4 DEF TimeoutHandler

\* The RTC1 handler queues no operation and pends the SWI for the ticks it consumed.
LEMMA RtcServes == ServiceInv /\ Rtc => ServiceInv'
<1> SUFFICES ASSUME ServiceInv, Rtc PROVE ServiceInv'
  OBVIOUS
<1> USE DEF ServiceInv, TicksFetched, OpsServed
<1>1. CASE RtcEnter
  BY <1>1 DEF RtcEnter, Idle
<1>2. CASE RtcExpire
  BY <1>2 DEF RtcExpire
<1>3. CASE RtcExit
  BY <1>3 DEF RtcExit
<1> QED
  BY <1>1, <1>2, <1>3 DEF Rtc

\* The SWI handler leaves its loop only with the queue empty.
LEMMA SwiServes == ServiceInv /\ Swi => ServiceInv'
<1> SUFFICES ASSUME ServiceInv, Swi PROVE ServiceInv'
  OBVIOUS
<1> USE DEF ServiceInv, TicksFetched, OpsServed
<1>1. CASE SwiEnter
  BY <1>1 DEF SwiEnter
<1>2. CASE SwiExpire
  BY <1>2 DEF SwiExpire
<1>3. CASE SwiExpireDone
  BY <1>3 DEF SwiExpireDone
<1>4. CASE SwiRestart
  BY <1>4 DEF SwiRestart, Insert
<1>5. CASE SwiStart
  BY <1>5 DEF SwiStart, Dequeue, Insert
<1>6. CASE SwiStop
  BY <1>6 DEF SwiStop, Dequeue
<1>7. CASE SwiStopAll
  BY <1>7 DEF SwiStopAll, Dequeue
<1>8. CASE SwiListDone
  BY <1>8 DEF SwiListDone, NothingLeft
<1>9. CASE SwiCompare
  BY <1>9 DEF SwiCompare
<1>10. CASE SwiSetCompare
  BY <1>10 DEF SwiSetCompare
<1>11. CASE SwiCheckCompare
  BY <1>11 DEF SwiCheckCompare
<1> QED
  BY <1>1, <1>2, <1>3, <1>4, <1>5, <1>6, <1>7, <1>8, <1>9, <1>10, <1>11 DEF Swi

THEOREM ServiceInvariant == Spec => []ServiceInv
<1>1. Init => ServiceInv
  BY DEF Init, ServiceInv, TicksFetched, OpsServed
<1>2. ServiceInv /\ [Next]_vars => ServiceInv'
  <2>1. ServiceInv /\ UNCHANGED vars => ServiceInv'
    BY DEF vars, ServiceInv, TicksFetched, OpsServed
  <2> QED
    BY <2>1, TickServes, ThreadServes, HandlerServes, RtcServes, SwiServes DEF Next
<1> QED
  BY <1>1, <1>2, PTL DEF Spec

\* No queued operation and no consumed tick is ever left behind: when the
\* interrupts have been served, everything the application asked for is done.
THEOREM NoOperationStranded == Spec => []NoStrandedOps
<1>1. ServiceInv => NoStrandedOps
  BY DEF ServiceInv, TicksFetched, OpsServed, NoStrandedOps, Quiet, Busy, Idle
<1> QED
  BY <1>1, ServiceInvariant, PTL

-----------------------------------------------------------------------------
(***************************************************************************)
(* The sums of the list's deltas.                                          *)
(***************************************************************************)
\* Induction, from the well-foundedness of <.
LEMMA Induction ==
  ASSUME NEW S, 0 \in S, \A n \in Nat : n \in S => n + 1 \in S
  PROVE  Nat \subseteq S
<1> SUFFICES ASSUME Nat \ S # {} PROVE FALSE
  OBVIOUS
<1>1. PICK x \in Nat \ S : \A m \in Nat \ S : ~ (<<m, x>> \in OpToRel(<, Nat))
  BY NatLessThanWellFounded, WFMin
<1>2. \A m \in Nat \ S : ~ (m < x)
  BY <1>1 DEF OpToRel
<1>3. x # 0
  OBVIOUS
<1>4. x - 1 \in Nat /\ x - 1 \in S
  BY <1>2, <1>3
<1> QED
  BY <1>4

\* The recursion of DueAt has a solution.
LEMMA SumsExist ==
  ASSUME NEW s, NEW d, NEW n \in Nat
  PROVE  \E f : f = [i \in 0 .. n |-> IF i = 0 THEN 0 ELSE f[i - 1] + d[s[i]]]
<1> DEFINE Sums(f, k) == f = [i \in 0 .. k |-> IF i = 0 THEN 0 ELSE f[i - 1] + d[s[i]]]
           S == {k \in Nat : \E f : Sums(f, k)}
<1>1. 0 \in S
  <2>1. Sums([i \in 0 .. 0 |-> 0], 0)
    OBVIOUS
  <2> QED
    BY <2>1
<1>2. ASSUME NEW k \in Nat, k \in S PROVE k + 1 \in S
  <2>1. PICK f : Sums(f, k)
    BY <1>2
  <2> DEFINE g == [i \in 0 .. k + 1 |-> IF i = k + 1 THEN f[k] + d[s[i]] ELSE f[i]]
  <2>2. ASSUME NEW i \in 0 .. k + 1
        PROVE  g[i] = IF i = 0 THEN 0 ELSE g[i - 1] + d[s[i]]
    <3>1. CASE i = k + 1
      <4>1. g[i - 1] = f[k] /\ g[i] = f[k] + d[s[i]] /\ i # 0
        BY <3>1
      <4> QED
        BY <4>1
    <3>2. CASE i # k + 1
      <4>1. i \in 0 .. k /\ g[i] = f[i]
        BY <3>2
      <4>2. f[i] = IF i = 0 THEN 0 ELSE f[i - 1] + d[s[i]]
        BY <2>1, <4>1
      <4>3. i # 0 => g[i - 1] = f[i - 1]
        BY <4>1
      <4> QED
        BY <4>1, <4>2, <4>3
    <3> QED
      BY <3>1, <3>2
  <2>3. Sums(g, k + 1)
    BY <2>2
  <2> HIDE DEF Sums
  <2>4. k + 1 \in Nat /\ \E f2 : Sums(f2, k + 1)
    BY <2>3
  <2> QED
    BY <2>4
<1>3. n \in S
  <2> HIDE DEF S
  <2> QED
    BY <1>1, <1>2, Induction
<1> QED
  BY <1>3

\* What is needed of the list and of its deltas.
Listed == list \in Seq(Timers) /\ ticks_to_expire \in [Timers -> Nat]

LEMMA DueAtDef ==
  ASSUME Listed
  PROVE  DueAt = [i \in 0 .. Len(list) |->
                    IF i = 0 THEN 0 ELSE DueAt[i - 1] + ticks_to_expire[list[i]]]
<1>1. Len(list) \in Nat
  BY LenProperties DEF Listed
<1>2. \E f : f = [i \in 0 .. Len(list) |->
                    IF i = 0 THEN 0 ELSE f[i - 1] + ticks_to_expire[list[i]]]
  BY <1>1, SumsExist
<1> QED
  BY <1>2, Zenon DEF DueAt

\* A sum of deltas is a natural number, and grows along the list.
LEMMA DueAtGrows ==
  ASSUME Listed
  PROVE  /\ DueAt[0] = 0
         /\ \A i \in 0 .. Len(list) : DueAt[i] \in Nat
         /\ \A i \in 1 .. Len(list) : DueAt[i] = DueAt[i - 1] + ticks_to_expire[list[i]]
         /\ \A i, j \in 0 .. Len(list) : i <= j => DueAt[i] <= DueAt[j]
<1> DEFINE n == Len(list)
<1>1. n \in Nat /\ \A i \in 1 .. n : ticks_to_expire[list[i]] \in Nat
  BY LenProperties, ElementOfSeq DEF Listed
<1>2. DueAt[0] = 0 /\ \A i \in 1 .. n : DueAt[i] = DueAt[i - 1] + ticks_to_expire[list[i]]
  <2> HIDE DEF n
  <2>1. DueAt = [i \in 0 .. n |-> IF i = 0 THEN 0 ELSE DueAt[i - 1] + ticks_to_expire[list[i]]]
    BY DueAtDef DEF n
  <2> DEFINE F == DueAt
  <2> HIDE DEF F
  <2>2. F = [i \in 0 .. n |-> IF i = 0 THEN 0 ELSE F[i - 1] + ticks_to_expire[list[i]]]
    BY <2>1 DEF F
  <2>3. F[0] = 0 /\ \A i \in 1 .. n : F[i] = F[i - 1] + ticks_to_expire[list[i]]
    BY <1>1, <2>2
  <2> QED
    BY <2>3 DEF F
<1> DEFINE S == {j \in Nat : j <= n => \A i \in 0 .. j : DueAt[i] \in Nat /\ DueAt[i] <= DueAt[j]}
<1>3. 0 \in S
  BY <1>2
<1>4. ASSUME NEW j \in Nat, j \in S PROVE j + 1 \in S
  <2> SUFFICES ASSUME j + 1 <= n
               PROVE  \A i \in 0 .. j + 1 : DueAt[i] \in Nat /\ DueAt[i] <= DueAt[j + 1]
    OBVIOUS
  <2> HIDE DEF n
  <2>1. \A i \in 0 .. j : DueAt[i] \in Nat /\ DueAt[i] <= DueAt[j]
    BY <1>1, <1>4
  <2>2. DueAt[j + 1] = DueAt[j] + ticks_to_expire[list[j + 1]] /\ ticks_to_expire[list[j + 1]] \in Nat
    <3>1. j + 1 \in 1 .. n /\ j + 1 - 1 = j
      BY <1>1
    <3> QED
      BY <1>1, <1>2, <3>1
  <2> DEFINE G(i) == DueAt[i]
  <2>3. \A i \in 0 .. j : G(i) \in Nat /\ G(i) <= G(j)
    BY <2>1
  <2>4. G(j + 1) \in Nat /\ G(j) <= G(j + 1)
    <3>1. DueAt[j] \in Nat
      BY <2>1
    <3> DEFINE x == DueAt[j]
               y == ticks_to_expire[list[j + 1]]
    <3>2. DueAt[j + 1] = x + y /\ x \in Nat /\ y \in Nat
      BY <2>2, <3>1
    <3> HIDE DEF x, y
    <3>3. x + y \in Nat /\ x <= x + y
      BY <3>2
    <3> QED
      BY <3>2, <3>3 DEF x
  <2> HIDE DEF G
  <2>5. \A i \in 0 .. j + 1 : G(i) \in Nat /\ G(i) <= G(j + 1)
    <3>1. ASSUME NEW i \in 0 .. j + 1 PROVE G(i) \in Nat /\ G(i) <= G(j + 1)
      <4>1. CASE i = j + 1
        BY <4>1, <2>4
      <4>2. CASE i # j + 1
        <5>1. i \in 0 .. j
          BY <4>2
        <5> QED
          BY <5>1, <2>3, <2>4
      <4> QED
        BY <4>1, <4>2
    <3> QED
      BY <3>1
  <2> QED
    BY <2>5 DEF G
<1>5. Nat \subseteq S
  <2> HIDE DEF S
  <2> QED
    BY <1>3, <1>4, Induction
<1> QED
  BY <1>1, <1>2, <1>5

\* Where a timer is inserted: behind those due earlier, before those due no earlier.
LEMMA PlaceFits ==
  ASSUME Listed, NEW x \in Nat
  PROVE  /\ Place(x) \in 1 .. Len(list) + 1
         /\ Place(x) > 1 => DueAt[Place(x) - 1] < x
         /\ Place(x) <= Len(list) => x <= DueAt[Place(x)]
<1> DEFINE n == Len(list)
           before == {i \in 1 .. n : DueAt[i] < x}
           c == Cardinality(before)
<1>1. /\ n \in Nat
      /\ \A i \in 0 .. n : DueAt[i] \in Nat
      /\ \A i, j \in 0 .. n : i <= j => DueAt[i] <= DueAt[j]
  BY DueAtGrows, LenProperties DEF Listed
<1>2. Place(x) = c + 1
  BY DEF Place
<1> HIDE DEF n
<1>3. IsFiniteSet(1 .. n) /\ before \subseteq 1 .. n
  BY <1>1, FS_Interval
<1>4. IsFiniteSet(before) /\ c \in Nat
  BY <1>3, FS_Subset, FS_CardinalityType
<1>5. ASSUME NEW i \in before PROVE i <= c
  <2>1. 1 .. i \subseteq before
    <3>1. ASSUME NEW k \in 1 .. i PROVE k \in before
      <4>1. k \in 0 .. n /\ i \in 0 .. n /\ k <= i /\ DueAt[i] < x /\ k \in 1 .. n
        BY <1>1
      <4>2. DueAt[k] <= DueAt[i] /\ DueAt[k] \in Nat /\ DueAt[i] \in Nat
        BY <1>1, <4>1
      <4> QED
        BY <4>1, <4>2
    <3> QED
      BY <3>1
  <2>2. i \in Nat /\ i >= 1
    BY <1>1
  <2>3. Cardinality(1 .. i) = i
    BY <2>2, FS_Interval
  <2> HIDE DEF before
  <2> QED
    BY <1>4, <2>1, <2>3, FS_Subset
<1>6. before = 1 .. c
  <2>1. before \subseteq 1 .. c
    BY <1>1, <1>4, <1>5
  <2>2. IsFiniteSet(1 .. c) /\ Cardinality(1 .. c) = c
    BY <1>4, FS_Interval
  <2> HIDE DEF before
  <2> QED
    BY <2>1, <2>2, FS_Subset
<1>7. c <= n
  <2>1. Cardinality(before) <= Cardinality(1 .. n)
    BY <1>3, FS_Subset
  <2>2. Cardinality(1 .. n) = n
    BY <1>1, FS_Interval
  <2> QED
    BY <2>1, <2>2
<1>8. c >= 1 => DueAt[c] < x
  <2>1. c >= 1 => c \in before
    <3> HIDE DEF before, c
    <3> QED
      BY <1>4, <1>6
  <2> QED
    BY <2>1
<1>9. c + 1 <= n => x <= DueAt[c + 1]
  <2>1. c + 1 \notin before
    <3> HIDE DEF before, c
    <3> QED
      BY <1>4, <1>6
  <2> HIDE DEF c
  <2>2. c + 1 <= n => c + 1 \in 1 .. n /\ c + 1 \in 0 .. n
    BY <1>1, <1>4
  <2> QED
    BY <1>1, <2>1, <2>2
<1> HIDE DEF c, before
<1> QED
  BY <1>1, <1>2, <1>4, <1>7, <1>8, <1>9 DEF n

-----------------------------------------------------------------------------
(***************************************************************************)
(* The sequences the list is changed by.                                   *)
(***************************************************************************)
LEMMA Inserted ==
  ASSUME NEW S, NEW s \in Seq(S), NEW i \in 1 .. Len(s) + 1, NEW e \in S
  PROVE  /\ InsertAt(s, i, e) \in Seq(S)
         /\ Len(InsertAt(s, i, e)) = Len(s) + 1
         /\ \A k \in 1 .. Len(s) + 1 : InsertAt(s, i, e)[k] =
              IF k < i THEN s[k] ELSE IF k = i THEN e ELSE s[k - 1]
<1> DEFINE a == SubSeq(s, 1, i - 1)
           b == SubSeq(s, i, Len(s))
<1>1. Len(s) \in Nat /\ i \in Nat /\ i >= 1 /\ i <= Len(s) + 1
  BY LenProperties
<1>2. \A k \in 1 .. Len(s) : s[k] \in S
  BY ElementOfSeq
<1>3. a \in Seq(S) /\ Len(a) = i - 1 /\ \A k \in 1 .. i - 1 : a[k] = s[k]
  BY <1>1, <1>2, SubSeqProperties
<1>4. /\ b \in Seq(S) /\ Len(b) = Len(s) + 1 - i
      /\ \A k \in 1 .. Len(s) + 1 - i : b[k] = s[i + k - 1]
  BY <1>1, <1>2, SubSeqProperties
<1> DEFINE c == <<e>> \o b
<1>5. <<e>> \in Seq(S) /\ Len(<<e>>) = 1 /\ <<e>>[1] = e
  OBVIOUS
<1> HIDE DEF a, b
<1>6. /\ c \in Seq(S) /\ Len(c) = Len(s) + 2 - i
      /\ \A k \in 1 .. Len(c) : c[k] = IF k = 1 THEN e ELSE b[k - 1]
  <2> DEFINE h == <<e>>
  <2>1. h \in Seq(S) /\ Len(h) = 1 /\ h[1] = e
    BY <1>5
  <2> HIDE DEF h
  <2>2. /\ h \o b \in Seq(S) /\ Len(h \o b) = Len(h) + Len(b)
        /\ \A k \in 1 .. Len(h) + Len(b) : (h \o b)[k] = IF k <= Len(h) THEN h[k] ELSE b[k - Len(h)]
    BY <1>4, <2>1, ConcatProperties
  <2>3. Len(h) + Len(b) = Len(s) + 2 - i
    BY <1>1, <1>4, <2>1
  <2>4. ASSUME NEW k \in 1 .. Len(s) + 2 - i PROVE (h \o b)[k] = IF k = 1 THEN e ELSE b[k - 1]
    BY <2>1, <2>2, <2>3, <1>1
  <2> QED
    BY <2>2, <2>3, <2>4 DEF h
<1> HIDE DEF c
<1>7. /\ a \o c \in Seq(S) /\ Len(a \o c) = Len(s) + 1
      /\ \A k \in 1 .. Len(s) + 1 : (a \o c)[k] = IF k <= i - 1 THEN a[k] ELSE c[k - (i - 1)]
  BY <1>1, <1>3, <1>6, ConcatProperties
<1>8. InsertAt(s, i, e) = a \o c
  <2>1. InsertAt(s, i, e) = (a \o <<e>>) \o b
    BY DEF InsertAt, a, b
  <2> QED
    BY <2>1, <1>3, <1>4, <1>5, ConcatAssociative DEF c
<1>9. ASSUME NEW k \in 1 .. Len(s) + 1
      PROVE  (a \o c)[k] = IF k < i THEN s[k] ELSE IF k = i THEN e ELSE s[k - 1]
  <2>1. CASE k < i
    BY <2>1, <1>1, <1>3, <1>7
  <2>2. CASE k = i
    BY <2>2, <1>1, <1>6, <1>7
  <2>3. CASE k > i
    <3>1. (a \o c)[k] = c[k - (i - 1)] /\ k - (i - 1) \in 2 .. Len(c)
      BY <2>3, <1>1, <1>6, <1>7
    <3>2. c[k - (i - 1)] = b[k - i]
      BY <3>1, <1>1, <1>6
    <3>3. k - i \in 1 .. Len(s) + 1 - i /\ i + (k - i) - 1 = k - 1
      BY <2>3, <1>1
    <3> QED
      BY <2>3, <3>1, <3>2, <3>3, <1>1, <1>4
  <2>4. k < i \/ k = i \/ k > i
    BY <1>1
  <2> QED
    BY <2>1, <2>2, <2>3, <2>4
<1> QED
  BY <1>7, <1>8, <1>9

LEMMA Removed ==
  ASSUME NEW S, NEW s \in Seq(S), NEW i \in 1 .. Len(s)
  PROVE  /\ RemoveAt(s, i) \in Seq(S)
         /\ Len(RemoveAt(s, i)) = Len(s) - 1
         /\ \A k \in 1 .. Len(s) - 1 : RemoveAt(s, i)[k] = IF k < i THEN s[k] ELSE s[k + 1]
<1> DEFINE a == SubSeq(s, 1, i - 1)
           b == SubSeq(s, i + 1, Len(s))
<1>1. Len(s) \in Nat /\ i \in Nat /\ i >= 1 /\ i <= Len(s)
  BY LenProperties
<1>2. \A k \in 1 .. Len(s) : s[k] \in S
  BY ElementOfSeq
<1>3. a \in Seq(S) /\ Len(a) = i - 1 /\ \A k \in 1 .. i - 1 : a[k] = s[k]
  BY <1>1, <1>2, SubSeqProperties
<1>4. /\ b \in Seq(S) /\ Len(b) = Len(s) - i
      /\ \A k \in 1 .. Len(s) - i : b[k] = s[i + 1 + k - 1]
  BY <1>1, <1>2, SubSeqProperties
<1> HIDE DEF a, b
<1>5. /\ a \o b \in Seq(S) /\ Len(a \o b) = Len(s) - 1
      /\ \A k \in 1 .. Len(s) - 1 : (a \o b)[k] = IF k <= i - 1 THEN a[k] ELSE b[k - (i - 1)]
  <2>1. /\ a \o b \in Seq(S) /\ Len(a \o b) = Len(a) + Len(b)
        /\ \A k \in 1 .. Len(a) + Len(b) : (a \o b)[k] = IF k <= Len(a) THEN a[k] ELSE b[k - Len(a)]
    BY <1>3, <1>4, ConcatProperties
  <2>2. Len(a) + Len(b) = Len(s) - 1
    BY <1>1, <1>3, <1>4
  <2> QED
    BY <2>1, <2>2, <1>3
<1>6. RemoveAt(s, i) = a \o b
  BY DEF RemoveAt, a, b
<1>7. ASSUME NEW k \in 1 .. Len(s) - 1 PROVE (a \o b)[k] = IF k < i THEN s[k] ELSE s[k + 1]
  <2>1. CASE k < i
    BY <2>1, <1>1, <1>3, <1>5
  <2>2. CASE ~(k < i)
    <3>1. k - (i - 1) \in 1 .. Len(s) - i /\ i + 1 + (k - (i - 1)) - 1 = k + 1
      BY <2>2, <1>1
    <3>2. (a \o b)[k] = b[k - (i - 1)] /\ b[k - (i - 1)] = s[k + 1]
      BY <2>2, <3>1, <1>1, <1>4, <1>5
    <3> QED
      BY <2>2, <3>2
  <2> QED
    BY <2>1, <2>2
<1> QED
  BY <1>5, <1>6, <1>7

LEMMA InsertedSet ==
  ASSUME NEW S, NEW s \in Seq(S), NEW i \in 1 .. Len(s) + 1, NEW e \in S
  PROVE  /\ ToSet(InsertAt(s, i, e)) = ToSet(s) \cup {e}
         /\ IsInjective(s) /\ e \notin ToSet(s) => IsInjective(InsertAt(s, i, e))
<1> DEFINE t == InsertAt(s, i, e)
           n == Len(s)
<1>1. n \in Nat /\ DOMAIN s = 1 .. n /\ i \in Nat /\ i >= 1 /\ i <= n + 1
  BY LenProperties
<1>2. t \in Seq(S) /\ Len(t) = n + 1
  BY Inserted
<1>3. \A k \in 1 .. n + 1 : t[k] = IF k < i THEN s[k] ELSE IF k = i THEN e ELSE s[k - 1]
  BY Inserted
<1> HIDE DEF t, n
<1>4. DOMAIN t = 1 .. n + 1
  BY <1>1, <1>2, LenProperties
<1>5. ASSUME NEW k \in 1 .. n + 1, k # i
      PROVE  /\ k < i => k \in 1 .. n /\ t[k] = s[k]
             /\ ~(k < i) => k - 1 \in 1 .. n /\ t[k] = s[k - 1]
  BY <1>1, <1>3, <1>5
<1>6. t[i] = e /\ i \in 1 .. n + 1
  BY <1>1, <1>3
<1>7. ASSUME NEW k \in 1 .. n PROVE (k < i => t[k] = s[k]) /\ (~(k < i) => t[k + 1] = s[k])
  BY <1>1, <1>3
<1>8. ToSet(t) = ToSet(s) \cup {e}
  <2>1. ASSUME NEW k \in 1 .. n + 1 PROVE t[k] \in ToSet(s) \cup {e}
    BY <1>1, <1>5, <1>6 DEF ToSet
  <2>2. ASSUME NEW k \in 1 .. n PROVE s[k] \in ToSet(t)
    <3>1. k \in 1 .. n + 1 /\ k + 1 \in 1 .. n + 1
      BY <1>1
    <3> QED
      BY <1>4, <1>7, <3>1 DEF ToSet
  <2>3. e \in ToSet(t)
    BY <1>4, <1>6 DEF ToSet
  <2> QED
    BY <1>1, <1>4, <2>1, <2>2, <2>3 DEF ToSet
<1>9. ASSUME IsInjective(s), e \notin ToSet(s) PROVE IsInjective(t)
  <2>1. \A k \in 1 .. n : s[k] # e
    BY <1>1, <1>9 DEF ToSet
  <2>2. ASSUME NEW k \in 1 .. n + 1, NEW m \in 1 .. n + 1, t[k] = t[m] PROVE k = m
    <3>1. CASE k = i \/ m = i
      BY <1>5, <1>6, <2>1, <2>2, <3>1
    <3>2. CASE k # i /\ m # i
      <4> DEFINE p(x) == IF x < i THEN x ELSE x - 1
      <4>1. p(k) \in 1 .. n /\ p(m) \in 1 .. n /\ s[p(k)] = s[p(m)]
        BY <1>5, <2>2, <3>2
      <4>2. p(k) = p(m)
        BY <1>1, <1>9, <4>1 DEF IsInjective
      <4> QED
        BY <1>1, <3>2, <4>2
    <3> QED
      BY <3>1, <3>2
  <2> QED
    BY <1>4, <2>2 DEF IsInjective
<1> QED
  BY <1>8, <1>9 DEF t

LEMMA RemovedSet ==
  ASSUME NEW S, NEW s \in Seq(S), NEW i \in 1 .. Len(s), IsInjective(s)
  PROVE  IsInjective(RemoveAt(s, i)) /\ ToSet(RemoveAt(s, i)) = ToSet(s) \ {s[i]}
<1> DEFINE t == RemoveAt(s, i)
           n == Len(s)
<1>1. n \in Nat /\ DOMAIN s = 1 .. n /\ i \in Nat /\ i >= 1 /\ i <= n
  BY LenProperties
<1>2. t \in Seq(S) /\ Len(t) = n - 1 /\ \A k \in 1 .. n - 1 : t[k] = IF k < i THEN s[k] ELSE s[k + 1]
  BY Removed
<1> HIDE DEF t, n
<1>3. DOMAIN t = 1 .. n - 1
  BY <1>2, LenProperties
<1> DEFINE p(x) == IF x < i THEN x ELSE x + 1
<1>4. ASSUME NEW k \in 1 .. n - 1 PROVE p(k) \in 1 .. n /\ p(k) # i /\ t[k] = s[p(k)]
  BY <1>1, <1>2
<1>5. ASSUME NEW k \in 1 .. n, k # i PROVE \E m \in 1 .. n - 1 : p(m) = k
  <2>1. CASE k < i
    BY <1>1, <2>1
  <2>2. CASE k > i
    <3>1. k - 1 \in 1 .. n - 1 /\ p(k - 1) = k
      BY <1>1, <2>2
    <3> QED
      BY <3>1
  <2> QED
    BY <1>1, <1>5, <2>1, <2>2
<1>6. \A k, m \in 1 .. n - 1 : p(k) = p(m) => k = m
  BY <1>1
<1>7. \A k, m \in 1 .. n : s[k] = s[m] => k = m
  BY <1>1 DEF IsInjective
<1>8. i \in 1 .. n
  BY <1>1
<1> HIDE DEF p
<1>9. IsInjective(t)
  BY <1>3, <1>4, <1>6, <1>7 DEF IsInjective
<1>10. ToSet(t) = ToSet(s) \ {s[i]}
  <2>1. ASSUME NEW k \in 1 .. n - 1 PROVE t[k] \in ToSet(s) /\ t[k] # s[i]
    BY <1>1, <1>4, <1>7, <1>8 DEF ToSet
  <2>2. ASSUME NEW k \in 1 .. n, s[k] # s[i] PROVE s[k] \in ToSet(t)
    BY <1>3, <1>4, <1>5, <2>2 DEF ToSet
  <2> QED
    BY <1>1, <1>3, <2>1, <2>2 DEF ToSet
<1> QED
  BY <1>9, <1>10 DEF t

LEMMA TailSet ==
  ASSUME NEW S, NEW s \in Seq(S), s # <<>>, IsInjective(s)
  PROVE  /\ IsInjective(Tail(s)) /\ Head(s) \notin ToSet(Tail(s))
         /\ ToSet(s) = ToSet(Tail(s)) \cup {Head(s)}
<1> DEFINE t == Tail(s)
           n == Len(s)
<1>1. n \in Nat \ {0} /\ DOMAIN s = 1 .. n
  BY LenProperties, EmptySeq
<1>2. t \in Seq(S) /\ Len(t) = n - 1 /\ \A k \in 1 .. n - 1 : t[k] = s[k + 1]
  BY HeadTailProperties
<1>3. Head(s) = s[1]
  OBVIOUS
<1> HIDE DEF t, n
<1>4. DOMAIN t = 1 .. n - 1
  BY <1>2, LenProperties
<1>5. \A k, m \in 1 .. n : s[k] = s[m] => k = m
  BY <1>1 DEF IsInjective
<1>6. ASSUME NEW k \in 1 .. n - 1 PROVE k + 1 \in 1 .. n /\ k + 1 # 1
  BY <1>1
<1>7. 1 \in 1 .. n /\ \A k \in 1 .. n : k # 1 => k - 1 \in 1 .. n - 1 /\ t[k - 1] = s[k]
  BY <1>1, <1>2
<1>8. IsInjective(t)
  <2>1. ASSUME NEW k \in 1 .. n - 1, NEW m \in 1 .. n - 1, t[k] = t[m] PROVE k = m
    <3>1. k + 1 = m + 1
      BY <1>2, <1>5, <1>6, <2>1
    <3> QED
      BY <3>1, <1>1
  <2> QED
    BY <1>4, <2>1 DEF IsInjective
<1>9. ASSUME NEW k \in 1 .. n - 1 PROVE t[k] # s[1] /\ t[k] \in ToSet(s)
  <2>1. t[k] = s[k + 1] /\ k + 1 \in 1 .. n /\ k + 1 # 1
    BY <1>2, <1>6
  <2> QED
    BY <1>1, <1>5, <1>7, <2>1 DEF ToSet
<1>10. ASSUME NEW k \in 1 .. n PROVE s[k] \in ToSet(t) \cup {s[1]}
  BY <1>4, <1>7 DEF ToSet
<1>11. s[1] \in ToSet(s)
  BY <1>1, <1>7 DEF ToSet
<1> QED
  BY <1>1, <1>3, <1>4, <1>8, <1>9, <1>10, <1>11 DEF ToSet, t

-----------------------------------------------------------------------------
(***************************************************************************)
(* Types.  The deltas are natural numbers for every history of the list:   *)
(* what is subtracted from a delta is never more than the delta.           *)
(***************************************************************************)
Operation ==
  [type : {"START"}, node : Timers, at : Counts, first : Counts, periodic : Counts, due : Int]
    \cup [type : {"STOP"}, node : Timers] \cup [type : {"STOP_ALL"}, node : {NULL}]
Due == [node : Timers, at : Counts]
Locals ==
  [at : Nat, previous : Counts, elapsed : Nat, expired : Nat, restart : Seq(Due),
   update : BOOLEAN, old_head : Timers \cup {NULL}, timer : Timers \cup {NULL}, pre : Counts]
Calls ==
  [pc : {Idle}] \cup [pc : {"stop"}, node : Timers]
    \cup [pc : {"sched", "return"}, stopping : SUBSET Timers]

ClockTypes ==
  /\ counter \in Counts /\ cc \in Counts /\ m_ticks_latest \in Counts
  /\ late \in 0 .. MaxLatency /\ m_ticks_elapsed \in Nat \cup {NONE}
FlagTypes ==
  /\ cc_missed \in BOOLEAN /\ rtc_pending \in BOOLEAN /\ swi_pending \in BOOLEAN
  /\ masked \in BOOLEAN /\ m_rtc1_running \in BOOLEAN /\ m_rtc1_reset \in BOOLEAN
ListTypes == Listed /\ ticks_periodic_interval \in [Timers -> Counts]
RunTypes ==
  /\ is_running \in [Timers -> BOOLEAN] /\ started \in SUBSET Timers
  /\ mode \in [Timers -> {"none", "REPEATED", "SINGLE_SHOT"}]
QueueTypes == m_op_queue \in Seq(Operation) /\ Len(m_op_queue) <= OpQueueSize
LocalTypes == loc \in Locals /\ thread \in Calls
\* The walk stands on a list position, the compare register is set for a head.
WalkTypes ==
  /\ isr \in {"rtc", "timeout_handler"} => loc.at >= 1
  /\ isr = "set_compare" => list # <<>>

Types ==
  /\ ClockTypes /\ FlagTypes /\ ListTypes /\ RunTypes /\ QueueTypes /\ LocalTypes /\ WalkTypes

LEMMA Width ==
  /\ W \in Nat \ {0} /\ Counts \subseteq Nat /\ 0 \in Counts
  /\ \A x \in Int : x % W \in Counts
  /\ MAX_RTC_COUNTER_VAL \in Nat
BY TicksAssumption DEF W, Counts

LEMMA NoLocType == NoLoc \in Locals
BY Width DEF NoLoc, Locals

LEMMA QueueTail ==
  ASSUME QueueTypes, m_op_queue # <<>>
  PROVE  /\ Head(m_op_queue) \in Operation
         /\ Tail(m_op_queue) \in Seq(Operation) /\ Len(Tail(m_op_queue)) <= OpQueueSize
<1>1. Len(m_op_queue) \in Nat /\ OpQueueSize \in Nat
  BY QueueAssumption, LenProperties DEF QueueTypes
<1>2. /\ Head(m_op_queue) \in Operation /\ Tail(m_op_queue) \in Seq(Operation)
      /\ Len(Tail(m_op_queue)) = Len(m_op_queue) - 1
  BY HeadTailProperties DEF QueueTypes
<1> QED
  BY <1>1, <1>2 DEF QueueTypes

LEMMA QueueAppend ==
  ASSUME QueueTypes, HasRoom, NEW op \in Operation, m_op_queue' = Append(m_op_queue, op)
  PROVE  QueueTypes'
<1>1. Len(m_op_queue) \in Nat /\ OpQueueSize \in Nat /\ Len(m_op_queue) < OpQueueSize
  BY QueueAssumption, LenProperties DEF QueueTypes, HasRoom
<1>2. m_op_queue' \in Seq(Operation) /\ Len(m_op_queue') = Len(m_op_queue) + 1
  BY AppendProperties DEF QueueTypes
<1> QED
  BY <1>1, <1>2 DEF QueueTypes

LEMMA InitTypes == Init => Types
<1> SUFFICES ASSUME Init PROVE Types
  OBVIOUS
<1>1. ClockTypes
  BY Width, TicksAssumption DEF Init, ClockTypes, Counts
<1>2. FlagTypes
  BY DEF Init, FlagTypes
<1>3. ListTypes
  BY Width DEF Init, ListTypes, Listed
<1>4. RunTypes
  BY DEF Init, RunTypes
<1>5. QueueTypes
  BY QueueAssumption DEF Init, QueueTypes
<1>6. LocalTypes
  BY Width DEF Init, LocalTypes, Locals, NoLoc, Calls
<1>7. WalkTypes
  BY DEF Init, WalkTypes, Idle
<1> QED
  BY <1>1, <1>2, <1>3, <1>4, <1>5, <1>6, <1>7 DEF Types

\* What is asked for is well formed.
LEMMA OperationTypes ==
  ASSUME Types, NEW t \in Timers
  PROVE  /\ \A T \in TimeoutsOf[t] : StartOp(t, T) \in Operation
         /\ StopOp("STOP", t) \in Operation /\ StopOp("STOP_ALL", NULL) \in Operation
<1>1. ASSUME NEW T \in TimeoutsOf[t] PROVE StartOp(t, T) \in Operation
  <2>1. T \in Counts /\ T \in Int
    BY TicksAssumption, Width DEF Counts
  <2>2. counter \in Counts /\ 0 \in Counts
    BY Width DEF Types, ClockTypes
  <2> QED
    BY <2>1, <2>2 DEF StartOp, Operation
<1> QED
  BY <1>1 DEF StopOp, Operation

LEMMA TickTypes == Types /\ Tick => Types'
<1> SUFFICES ASSUME Types, Tick PROVE Types'
  OBVIOUS
<1> USE DEF Types
<1>1. ClockTypes'
  <2>1. UNCHANGED <<cc, m_ticks_latest, m_ticks_elapsed>>
    BY DEF Tick
  <2>2. counter' = counter \/ counter' = (counter + 1) % W
    BY DEF Tick
  <2>3. counter \in Int
    BY Width DEF ClockTypes
  <2>4. counter' \in Counts
    BY <2>2, <2>3, Width DEF ClockTypes
  <2>5. late' = 0 \/ (late < MaxLatency /\ late' = late + 1)
    BY DEF Tick, MayTick
  <2>6. late' \in 0 .. MaxLatency
    BY <2>5, TicksAssumption DEF ClockTypes
  <2> QED
    BY <2>1, <2>4, <2>6 DEF ClockTypes
<1>2. FlagTypes'
  <2>1. UNCHANGED <<m_rtc1_running, swi_pending, masked, m_rtc1_reset>>
    BY DEF Tick
  <2>2. rtc_pending' \in BOOLEAN /\ cc_missed' \in BOOLEAN
    BY DEF Tick, FlagTypes
  <2> QED
    BY <2>1, <2>2 DEF FlagTypes
<1>3. ListTypes' /\ RunTypes' /\ LocalTypes' /\ WalkTypes'
  <2>1. UNCHANGED <<listVars, is_running, mode, started, thread, isr, loc>>
    BY DEF Tick
  <2> QED
    BY <2>1 DEF ListTypes, Listed, RunTypes, LocalTypes, WalkTypes, listVars
<1>4. QueueTypes'
  <2> DEFINE n == Len(m_op_queue)
             aged(op) == IF op.type = "START" THEN [op EXCEPT !.due = @ - 1] ELSE op
  <2>1. n \in Nat /\ DOMAIN m_op_queue = 1 .. n /\ n <= OpQueueSize
    BY LenProperties DEF QueueTypes
  <2>2. m_op_queue' = [i \in 1 .. n |-> aged(m_op_queue[i])]
    BY <2>1 DEF Tick
  <2>3. ASSUME NEW i \in 1 .. n PROVE aged(m_op_queue[i]) \in Operation
    <3>1. m_op_queue[i] \in Operation
      BY ElementOfSeq DEF QueueTypes
    <3> QED
      BY <3>1 DEF Operation
  <2> HIDE DEF aged, n
  <2>4. m_op_queue' \in Seq(Operation) /\ Len(m_op_queue') = n
    BY <2>1, <2>2, <2>3
  <2> QED
    BY <2>1, <2>4 DEF QueueTypes
<1> QED
  BY <1>1, <1>2, <1>3, <1>4

LEMMA ThreadTypes == Types /\ Thread => Types'
<1> SUFFICES ASSUME Types, Thread PROVE Types'
  OBVIOUS
<1> USE DEF Types
<1>1. UNCHANGED <<rtcVars, late, listVars, m_ticks_latest, m_ticks_elapsed, m_rtc1_reset, isr, loc>>
  BY DEF Thread, EnterCritical, ExitCritical, StopQueue, StopAllQueue, Sched, Return, Create,
         StopClear, StartQueue
<1>2. ClockTypes' /\ ListTypes' /\ WalkTypes'
  BY <1>1 DEF ClockTypes, ListTypes, Listed, WalkTypes, rtcVars, listVars
<1>3. FlagTypes'
  <2>1. UNCHANGED <<cc_missed, rtc_pending, m_rtc1_running, m_rtc1_reset>>
    BY <1>1 DEF rtcVars
  <2>2. swi_pending' \in BOOLEAN /\ masked' \in BOOLEAN
    BY DEF FlagTypes, Thread, EnterCritical, ExitCritical, StopQueue, StopAllQueue, Sched,
           Return, Create, StopClear, StartQueue
  <2> QED
    BY <2>1, <2>2 DEF FlagTypes
<1>4. RunTypes' /\ QueueTypes' /\ thread' \in Calls
  <2>1. CASE EnterCritical \/ ExitCritical
    BY <2>1 DEF EnterCritical, ExitCritical, RunTypes, QueueTypes, LocalTypes
  <2>2. CASE StopQueue
    <3>1. thread.node \in Timers
      BY <2>2 DEF StopQueue, LocalTypes, Calls, Idle
    <3>2. QueueTypes'
      BY <2>2, <3>1, QueueAppend, OperationTypes DEF StopQueue, QueueTypes
    <3>3. RunTypes' /\ thread' \in Calls
      BY <2>2, <3>1 DEF StopQueue, RunTypes, Calls
    <3> QED
      BY <3>2, <3>3
  <2>3. CASE StopAllQueue
    <3>1. QueueTypes'
      <4>1. StopOp("STOP_ALL", NULL) \in Operation
        BY DEF StopOp, Operation
      <4> QED
        BY <2>3, <4>1, QueueAppend DEF StopAllQueue
    <3>2. RunTypes' /\ thread' \in Calls
      BY <2>3 DEF StopAllQueue, RunTypes, Calls
    <3> QED
      BY <3>1, <3>2
  <2>4. CASE Sched \/ Return
    BY <2>4 DEF Sched, Return, RunTypes, QueueTypes, LocalTypes, Calls, Idle
  <2>5. ASSUME NEW t \in Timers, Create(t) PROVE RunTypes' /\ QueueTypes' /\ thread' \in Calls
    <3>1. UNCHANGED <<is_running, started, m_op_queue, thread>>
      BY <2>5 DEF Create
    <3>2. mode' \in [Timers -> {"none", "REPEATED", "SINGLE_SHOT"}]
      BY <2>5, ModeAssumption DEF Create, RunTypes
    <3> QED
      BY <3>1, <3>2 DEF RunTypes, QueueTypes, LocalTypes
  <2>6. ASSUME NEW t \in Timers, StopClear(t) PROVE RunTypes' /\ QueueTypes' /\ thread' \in Calls
    BY <2>6 DEF StopClear, RunTypes, QueueTypes, Calls
  <2>7. ASSUME NEW t \in Timers, NEW T \in TimeoutsOf[t], StartQueue(t, T)
        PROVE  RunTypes' /\ QueueTypes' /\ thread' \in Calls
    <3>1. QueueTypes'
      BY <2>7, QueueAppend, OperationTypes DEF StartQueue
    <3>2. RunTypes' /\ thread' \in Calls
      BY <2>7 DEF StartQueue, RunTypes, Calls
    <3> QED
      BY <3>1, <3>2
  <2> QED
    BY <2>1, <2>2, <2>3, <2>4, <2>5, <2>6, <2>7 DEF Thread
<1> QED
  BY <1>1, <1>2, <1>3, <1>4 DEF LocalTypes

LEMMA HandlerTypes == Types /\ TimeoutHandler => Types'
<1> SUFFICES ASSUME Types, TimeoutHandler PROVE Types'
  OBVIOUS
<1> USE DEF Types
<1>1. UNCHANGED <<rtcVars, masked, late, listVars, mode, m_ticks_latest, m_ticks_elapsed,
                  m_rtc1_reset, thread>>
  BY DEF TimeoutHandler, HandlerStopAll, HandlerReturn, HandlerStop, HandlerStart
<1>2. ClockTypes' /\ ListTypes'
  BY <1>1 DEF ClockTypes, ListTypes, Listed, rtcVars, listVars
<1>3. FlagTypes'
  <2>1. swi_pending' \in BOOLEAN
    BY DEF FlagTypes, TimeoutHandler, HandlerStopAll, HandlerReturn, HandlerStop, HandlerStart
  <2> QED
    BY <1>1, <2>1 DEF FlagTypes, rtcVars
<1>4. RunTypes' /\ QueueTypes' /\ LocalTypes' /\ WalkTypes'
  <2>1. CASE HandlerStopAll
    <3>1. StopOp("STOP_ALL", NULL) \in Operation
      BY DEF StopOp, Operation
    <3>2. QueueTypes'
      BY <2>1, <3>1, QueueAppend DEF HandlerStopAll
    <3> QED
      BY <2>1, <3>2 DEF HandlerStopAll, RunTypes, LocalTypes, WalkTypes
  <2>2. CASE HandlerReturn
    BY <2>2 DEF HandlerReturn, RunTypes, QueueTypes, LocalTypes, WalkTypes, Locals
  <2>3. ASSUME NEW t \in Timers, HandlerStop(t)
        PROVE  RunTypes' /\ QueueTypes' /\ LocalTypes' /\ WalkTypes'
    <3>1. QueueTypes'
      BY <2>3, QueueAppend, OperationTypes DEF HandlerStop, QueueTypes
    <3> QED
      BY <2>3, <3>1 DEF HandlerStop, RunTypes, LocalTypes, WalkTypes
  <2>4. ASSUME NEW t \in Timers, NEW T \in TimeoutsOf[t], HandlerStart(t, T)
        PROVE  RunTypes' /\ QueueTypes' /\ LocalTypes' /\ WalkTypes'
    <3>1. QueueTypes'
      BY <2>4, QueueAppend, OperationTypes DEF HandlerStart
    <3> QED
      BY <2>4, <3>1 DEF HandlerStart, RunTypes, LocalTypes, WalkTypes
  <2> QED
    BY <2>1, <2>2, <2>3, <2>4 DEF TimeoutHandler
<1> QED
  BY <1>2, <1>3, <1>4

LEMMA RtcTypes == Types /\ Rtc => Types'
<1> SUFFICES ASSUME Types, Rtc PROVE Types'
  OBVIOUS
<1> USE DEF Types
<1>1. /\ UNCHANGED <<counter, cc, cc_missed, m_rtc1_running, masked, late, listVars, mode,
                     m_op_queue, m_ticks_latest, m_rtc1_reset, thread>>
      /\ swi_pending' \in BOOLEAN /\ rtc_pending' \in BOOLEAN
  BY DEF Rtc, RtcEnter, RtcExpire, RtcExit, rtcVars, FlagTypes
<1>2. FlagTypes' /\ ListTypes' /\ QueueTypes' /\ thread' \in Calls
  BY <1>1 DEF FlagTypes, ListTypes, Listed, QueueTypes, LocalTypes, listVars
<1>3. CASE RtcEnter
  <2>1. ClockTypes' /\ RunTypes'
    BY <1>3 DEF RtcEnter, ClockTypes, RunTypes
  <2>2. TicksDiff(counter, m_ticks_latest) \in Counts
    BY Width DEF TicksDiff, ClockTypes
  <2>3. LocalTypes' /\ WalkTypes'
    <3>1. CASE list = <<>>
      BY <1>1, <1>3, <3>1 DEF RtcEnter, LocalTypes, WalkTypes, listVars
    <3>2. CASE list # <<>>
      <4>1. isr' = "rtc" /\ loc' = [NoLoc EXCEPT !.elapsed = TicksDiff(counter, m_ticks_latest), !.at = 1]
        BY <1>3, <3>2 DEF RtcEnter
      <4>2. TicksDiff(counter, m_ticks_latest) \in Nat
        BY <2>2, Width
      <4>3. loc' \in Locals /\ loc'.at = 1
        BY <4>1, <4>2, NoLocType DEF Locals
      <4> QED
        BY <4>1, <4>3, <1>2 DEF LocalTypes, WalkTypes
    <3> QED
      BY <3>1, <3>2
  <2> QED
    BY <1>2, <2>1, <2>3
<1>4. CASE RtcExpire
  <2> DEFINE t == list[loc.at]
             x == ticks_to_expire[t]
  <2>1. isr = "rtc" /\ loc.at <= Len(list) /\ loc.elapsed >= x
    BY <1>4 DEF RtcExpire, Expired
  <2>2. loc \in Locals /\ loc.at \in Nat /\ loc.at >= 1
    BY <2>1 DEF LocalTypes, WalkTypes, Locals
  <2>3. t \in Timers /\ x \in Nat
    BY <2>1, <2>2, ElementOfSeq, LenProperties DEF ListTypes, Listed
  <2>4. ClockTypes'
    BY <1>1, <1>4 DEF RtcExpire, ClockTypes
  <2>5. RunTypes'
    BY <1>4 DEF RtcExpire, RunTypes
  <2>6. /\ loc' = [loc EXCEPT !.elapsed = @ - x, !.expired = @ + x, !.at = @ + 1,
                              !.timer = IF MustCall(t) THEN t ELSE NULL]
        /\ isr' \in {"rtc", "timeout_handler"}
    BY <1>4 DEF RtcExpire
  <2> HIDE DEF x, t
  <2>7. /\ loc.elapsed - x \in Nat /\ loc.expired + x \in Nat /\ loc.at + 1 \in Nat
        /\ (IF MustCall(t) THEN t ELSE NULL) \in Timers \cup {NULL}
    BY <2>1, <2>2, <2>3 DEF Locals
  <2>8. loc' \in Locals /\ loc'.at = loc.at + 1
    BY <2>2, <2>6, <2>7 DEF Locals
  <2>9. WalkTypes'
    BY <2>2, <2>6, <2>8 DEF WalkTypes
  <2> QED
    BY <1>2, <2>4, <2>5, <2>8, <2>9 DEF LocalTypes
<1>5. CASE RtcExit
  <2>1. m_ticks_elapsed' \in Nat /\ loc' \in Locals /\ isr' = Idle
    BY <1>5, Width DEF RtcExit, LocalTypes, Locals, NoLoc
  <2>2. ClockTypes' /\ RunTypes'
    BY <1>1, <1>5, <2>1 DEF RtcExit, ClockTypes, RunTypes
  <2> QED
    BY <1>2, <2>1, <2>2 DEF LocalTypes, WalkTypes, Idle
<1> QED
  BY <1>3, <1>4, <1>5 DEF Rtc

-----------------------------------------------------------------------------
\* The SWI handler works on the list.
LEMMA TicksToExpireNat ==
  ASSUME Types, NEW at \in Counts, NEW first \in Counts
  PROVE  TicksToExpire(at, first) \in Nat
<1>1. /\ TicksDiff(at, m_ticks_latest) \in Nat /\ TicksDiff(m_ticks_latest, at) \in Nat
      /\ first \in Nat
  BY Width DEF TicksDiff, Types, ClockTypes
<1> QED
  BY <1>1 DEF TicksToExpire

LEMMA InsertTypes ==
  ASSUME Types, NEW t \in Timers, NEW ticks \in Nat, Insert(t, ticks)
  PROVE  /\ list' \in Seq(Timers) /\ ticks_to_expire' \in [Timers -> Nat]
         /\ isr' = isr \/ isr' = "lost"
<1>1. Listed
  BY DEF Types, ListTypes
<1>2. CASE t \in ToSet(list)
  BY <1>1, <1>2 DEF Insert, Listed
<1>3. CASE t \notin ToSet(list)
  <2> DEFINE pos == Place(ticks)
             own == ticks - DueAt[pos - 1]
             moved == [ticks_to_expire EXCEPT ![t] = own]
  <2>1. /\ list' = InsertAt(list, pos, t)
        /\ ticks_to_expire' = IF pos > Len(list) THEN moved
                              ELSE [moved EXCEPT ![list[pos]] = @ - own]
        /\ isr' = isr
    BY <1>3 DEF Insert
  <2>2. Len(list) \in Nat /\ pos \in 1 .. Len(list) + 1
    BY <1>1, PlaceFits, LenProperties DEF Listed
  <2>3. list' \in Seq(Timers)
    BY <1>1, <2>1, <2>2, Inserted DEF Listed
  <2>4. DueAt[pos - 1] \in Nat /\ DueAt[pos - 1] <= ticks
    <3>1. CASE pos = 1
      BY <1>1, <3>1, DueAtGrows
    <3>2. CASE pos > 1
      <4>1. pos - 1 \in 0 .. Len(list)
        BY <2>2
      <4>2. DueAt[pos - 1] \in Nat
        BY <1>1, <4>1, DueAtGrows
      <4>3. DueAt[pos - 1] < ticks
        BY <1>1, <3>2, PlaceFits
      <4> QED
        BY <4>2, <4>3
    <3> QED
      BY <2>2, <3>1, <3>2
  <2>5. own \in Nat
    BY <2>4
  <2>6. moved \in [Timers -> Nat]
    BY <1>1, <2>5 DEF Listed
  <2>7. CASE pos > Len(list)
    BY <2>1, <2>3, <2>6, <2>7
  <2>8. CASE ~(pos > Len(list))
    <3>1. pos \in 1 .. Len(list) /\ pos \in 0 .. Len(list) /\ pos - 1 \in 0 .. Len(list)
      BY <2>2, <2>8
    <3> DEFINE h == list[pos]
    <3>2. h \in Timers /\ h # t
      <4>1. h \in ToSet(list)
        BY <1>1, <3>1, LenProperties DEF ToSet, Listed
      <4> QED
        BY <1>1, <1>3, <3>1, <4>1, ElementOfSeq DEF Listed
    <3>3. DueAt[pos] = DueAt[pos - 1] + ticks_to_expire[h] /\ ticks <= DueAt[pos]
      <4> HIDE DEF pos
      <4>1. pos <= Len(list)
        BY <2>2, <2>8
      <4>2. pos <= Len(list) => ticks <= DueAt[pos]
        BY <1>1, PlaceFits DEF pos
      <4>3. \A i \in 1 .. Len(list) : DueAt[i] = DueAt[i - 1] + ticks_to_expire[list[i]]
        BY <1>1, DueAtGrows
      <4> QED
        BY <3>1, <4>1, <4>2, <4>3
    <3>4. moved[h] = ticks_to_expire[h] /\ ticks_to_expire[h] \in Nat
      BY <1>1, <3>2 DEF Listed
    <3>5. ticks_to_expire[h] - own \in Nat
      <4> HIDE DEF h, pos
      <4> QED
        BY <2>4, <3>3, <3>4
    <3>6. ticks_to_expire' = [moved EXCEPT ![h] = ticks_to_expire[h] - own]
      BY <2>1, <2>8, <3>4
    <3> HIDE DEF h, moved, own, pos
    <3> QED
      BY <2>1, <2>3, <2>6, <3>2, <3>5, <3>6
  <2> QED
    BY <2>7, <2>8
<1> QED
  BY <1>2, <1>3

LEMMA FoundAt ==
  ASSUME list \in Seq(Timers), NEW t \in ToSet(list)
  PROVE  IndexOf(t) \in 1 .. Len(list) /\ list[IndexOf(t)] = t
<1>1. \E k \in 1 .. Len(list) : list[k] = t
  BY LenProperties DEF ToSet
<1> QED
  BY <1>1 DEF IndexOf

LEMMA SwiListTypes ==
  ASSUME Types, SwiEnter \/ SwiExpire \/ SwiExpireDone \/ SwiRestart
  PROVE  Types'
<1> USE DEF Types
<1>1. /\ UNCHANGED <<rtcVars, masked, late, ticks_periodic_interval, mode, started, m_op_queue,
                     m_rtc1_reset, thread>>
      /\ swi_pending' \in BOOLEAN
  <2>1. CASE SwiEnter
    BY <2>1 DEF SwiEnter, FlagTypes, listVars
  <2>2. CASE SwiExpire
    BY <2>2 DEF SwiExpire, FlagTypes, listVars
  <2>3. CASE SwiExpireDone
    BY <2>3 DEF SwiExpireDone, FlagTypes
  <2>4. CASE SwiRestart
    BY <2>4 DEF SwiRestart, FlagTypes
  <2> QED
    BY <2>1, <2>2, <2>3, <2>4
<1>2. FlagTypes' /\ QueueTypes' /\ thread' \in Calls
  BY <1>1 DEF FlagTypes, QueueTypes, LocalTypes, rtcVars
<1>3. CASE SwiEnter
  <2>1. m_ticks_elapsed' = NONE
    BY <1>3 DEF SwiEnter
  <2>2. UNCHANGED <<listVars, is_running>>
    BY <1>3 DEF SwiEnter
  <2>3. ListTypes' /\ RunTypes'
    BY <1>1, <2>2 DEF ListTypes, Listed, RunTypes, listVars
  <2>4. CASE m_ticks_elapsed # NONE
    <3>1. m_ticks_elapsed \in Nat /\ m_ticks_latest \in Nat
      BY <2>4, Width DEF ClockTypes
    <3>2. m_ticks_latest' \in Counts
      BY <1>3, <2>4, <3>1, Width DEF SwiEnter
    <3>3. /\ loc' = [NoLoc EXCEPT !.elapsed = m_ticks_elapsed, !.previous = m_ticks_latest,
                                  !.update = TRUE]
          /\ isr' = "expired_timers"
      BY <1>3, <2>4 DEF SwiEnter
    <3>4. loc' \in Locals
      BY <3>1, <3>3, NoLocType DEF Locals, ClockTypes
    <3> QED
      BY <1>1, <1>2, <2>1, <2>3, <3>2, <3>3, <3>4 DEF ClockTypes, LocalTypes, WalkTypes, rtcVars
  <2>5. CASE ~(m_ticks_elapsed # NONE)
    <3>1. UNCHANGED m_ticks_latest /\ isr' = "list_insertions"
          /\ loc' = [NoLoc EXCEPT !.old_head = HeadTimer]
      BY <1>3, <2>5 DEF SwiEnter
    <3>2. HeadTimer \in Timers \cup {NULL}
      BY HeadTailProperties DEF HeadTimer, ListTypes, Listed
    <3>3. loc' \in Locals
      BY <3>1, <3>2, NoLocType DEF Locals
    <3> QED
      BY <1>1, <1>2, <2>1, <2>3, <3>1, <3>3 DEF ClockTypes, LocalTypes, WalkTypes, rtcVars
  <2> QED
    BY <2>4, <2>5
<1>4. ASSUME UNCHANGED <<m_ticks_latest, m_ticks_elapsed>> PROVE ClockTypes'
  BY <1>1, <1>4 DEF ClockTypes, rtcVars
<1>5. CASE SwiExpire
  <2> DEFINE t == Head(list)
             x == ticks_to_expire[t]
             sum == loc.expired + x
             back == [node |-> t, at |-> (loc.previous + sum) % W]
  <2>1. /\ list # <<>> /\ isr = "expired_timers" /\ loc.elapsed >= x
        /\ UNCHANGED <<is_running, isr, m_ticks_latest, m_ticks_elapsed>>
        /\ ticks_to_expire' = [ticks_to_expire EXCEPT ![t] = 0]
        /\ list' = Tail(list)
        /\ loc' = [loc EXCEPT !.elapsed = @ - x, !.expired = sum,
                              !.restart = IF Restarts(t) THEN <<back>> \o @ ELSE @]
    BY <1>5 DEF SwiExpire, Expired
  <2>2. t \in Timers /\ Tail(list) \in Seq(Timers)
    BY <2>1, HeadTailProperties DEF ListTypes, Listed
  <2>3. x \in Nat
    BY <2>2 DEF ListTypes, Listed
  <2>4. /\ loc \in Locals /\ loc.restart \in Seq(Due)
        /\ loc.previous \in Nat /\ sum \in Nat /\ loc.elapsed - x \in Nat
    <3>1. /\ loc \in Locals /\ loc.restart \in Seq(Due) /\ loc.previous \in Counts
          /\ loc.expired \in Nat /\ loc.elapsed \in Nat
      BY DEF LocalTypes, Locals
    <3>2. loc.elapsed >= x /\ x \in Nat
      BY <2>1, <2>3
    <3>3. loc.previous \in Nat
      BY <3>1, Width
    <3> HIDE DEF x
    <3>4. loc.expired + x \in Nat /\ loc.elapsed - x \in Nat
      BY <3>1, <3>2
    <3> QED
      BY <3>1, <3>3, <3>4
  <2>5. back \in Due
    <3> HIDE DEF sum, t
    <3>1. (loc.previous + sum) % W \in Counts
      <4> DEFINE y == loc.previous + sum
      <4>1. y \in Int
        BY <2>4
      <4> HIDE DEF y
      <4>2. y % W \in Counts
        BY <4>1, Width
      <4> QED
        BY <4>2 DEF y
    <3> QED
      BY <2>2, <3>1 DEF Due
  <2> HIDE DEF back
  <2>6. <<back>> \in Seq(Due)
    BY <2>5
  <2>7. (IF Restarts(t) THEN <<back>> \o loc.restart ELSE loc.restart) \in Seq(Due)
    BY <2>4, <2>6, ConcatProperties
  <2>8. ListTypes'
    BY <1>1, <2>1, <2>2 DEF ListTypes, Listed
  <2>9. loc' \in Locals
    <3> HIDE DEF x, sum, t
    <3> QED
      BY <2>1, <2>4, <2>7 DEF Locals
  <2>10. RunTypes' /\ WalkTypes'
    BY <1>1, <2>1 DEF RunTypes, WalkTypes
  <2> QED
    BY <1>2, <1>4, <2>1, <2>8, <2>9, <2>10 DEF LocalTypes
<1>6. CASE SwiExpireDone
  <2>1. /\ UNCHANGED <<list, is_running, m_ticks_latest, m_ticks_elapsed>>
        /\ isr' = "list_insertions"
        /\ loc' = [loc EXCEPT !.elapsed = 0, !.expired = 0, !.previous = 0, !.old_head = HeadTimer]
    BY <1>6 DEF SwiExpireDone
  <2>2. HeadTimer \in Timers \cup {NULL}
    BY HeadTailProperties DEF HeadTimer, ListTypes, Listed
  <2>3. loc' \in Locals
    BY <2>1, <2>2, Width DEF LocalTypes, Locals
  <2>4. ticks_to_expire' \in [Timers -> Nat]
    <3>1. CASE list = <<>>
      BY <1>6, <3>1 DEF SwiExpireDone, ListTypes, Listed
    <3>2. CASE list # <<>>
      <4>1. Head(list) \in Timers
        BY <3>2, HeadTailProperties DEF ListTypes, Listed
      <4>2. ticks_to_expire[Head(list)] \in Nat /\ loc.elapsed \in Nat
            /\ ~(loc.elapsed >= ticks_to_expire[Head(list)])
        BY <1>6, <3>2, <4>1 DEF SwiExpireDone, Expired, ListTypes, Listed, LocalTypes, Locals
      <4>3. ticks_to_expire[Head(list)] - loc.elapsed \in Nat
        BY <4>2
      <4>4. ticks_to_expire' =
              [ticks_to_expire EXCEPT ![Head(list)] = ticks_to_expire[Head(list)] - loc.elapsed]
        BY <1>6, <3>2 DEF SwiExpireDone
      <4> QED
        BY <4>1, <4>3, <4>4 DEF ListTypes, Listed
    <3> QED
      BY <3>1, <3>2
  <2> QED
    BY <1>1, <1>2, <1>4, <2>1, <2>3, <2>4
    DEF ListTypes, Listed, RunTypes, LocalTypes, WalkTypes
<1>7. CASE SwiRestart
  <2> DEFINE r == Head(loc.restart)
  <2>1. /\ isr = "list_insertions" /\ loc.restart # <<>>
        /\ UNCHANGED <<m_ticks_latest, m_ticks_elapsed>>
        /\ loc' = [loc EXCEPT !.restart = Tail(@)]
        /\ is_running' = [is_running EXCEPT ![r.node] = TRUE]
        /\ Insert(r.node, TicksToExpire(r.at, ticks_periodic_interval[r.node]))
    BY <1>7 DEF SwiRestart
  <2>2. r \in Due /\ Tail(loc.restart) \in Seq(Due)
    BY <2>1, HeadTailProperties DEF LocalTypes, Locals
  <2>3. r.node \in Timers /\ r.at \in Counts
    BY <2>2 DEF Due
  <2>4. ticks_periodic_interval[r.node] \in Counts
    BY <2>3 DEF ListTypes
  <2> HIDE DEF r
  <2>5. TicksToExpire(r.at, ticks_periodic_interval[r.node]) \in Nat
    BY <2>3, <2>4, TicksToExpireNat
  <2>6. /\ list' \in Seq(Timers) /\ ticks_to_expire' \in [Timers -> Nat]
        /\ isr' = isr \/ isr' = "lost"
    BY <2>1, <2>3, <2>5, InsertTypes
  <2>7. loc' \in Locals
    BY <2>1, <2>2 DEF LocalTypes, Locals
  <2>8. RunTypes' /\ WalkTypes'
    BY <1>1, <2>1, <2>6 DEF RunTypes, WalkTypes
  <2> QED
    BY <1>1, <1>2, <1>4, <2>1, <2>6, <2>7, <2>8 DEF ListTypes, Listed, LocalTypes
<1> QED
  BY <1>3, <1>5, <1>6, <1>7

LEMMA SwiOpTypes ==
  ASSUME Types, SwiStart \/ SwiStop \/ SwiStopAll
  PROVE  Types'
<1> USE DEF Types
<1> DEFINE op == Head(m_op_queue)
<1>1. /\ UNCHANGED <<cc, cc_missed, rtc_pending, m_rtc1_running, swi_pending, masked, late, mode,
                     m_ticks_elapsed, started, thread>>
      /\ m_op_queue # <<>> /\ m_op_queue' = Tail(m_op_queue) /\ isr = "list_insertions"
  BY DEF SwiStart, SwiStop, SwiStopAll, Dequeue, rtcVars
<1>2. op \in Operation /\ QueueTypes'
  BY <1>1, QueueTail DEF QueueTypes
<1>3. thread' \in Calls
  BY <1>1 DEF LocalTypes
<1>4. CASE SwiStart
  <2>1. /\ op.type = "START" /\ UNCHANGED <<counter, m_ticks_latest, m_rtc1_reset, loc>>
    BY <1>4 DEF SwiStart, Dequeue, rtcVars
  <2>2. op.node \in Timers /\ op.at \in Counts /\ op.first \in Counts /\ op.periodic \in Counts
    BY <1>2, <2>1 DEF Operation
  <2>3. ClockTypes' /\ FlagTypes' /\ LocalTypes'
    BY <1>1, <1>3, <2>1 DEF ClockTypes, FlagTypes, LocalTypes
  <2>4. CASE is_running[op.node]
    <3>1. UNCHANGED <<isr, listVars, is_running>>
      BY <1>4, <2>4 DEF SwiStart
    <3> QED
      BY <1>1, <1>2, <2>3, <3>1 DEF ListTypes, Listed, RunTypes, WalkTypes, listVars
  <2>5. CASE ~is_running[op.node]
    <3> DEFINE at == IF m_rtc1_reset THEN 0 ELSE op.at
    <3>1. /\ Insert(op.node, TicksToExpire(at, op.first))
          /\ ticks_periodic_interval' = [ticks_periodic_interval EXCEPT ![op.node] = op.periodic]
          /\ is_running' = [is_running EXCEPT ![op.node] = TRUE]
      BY <1>4, <2>5 DEF SwiStart
    <3>2. at \in Counts
      BY <2>2, Width
    <3> HIDE DEF at, op
    <3>3. TicksToExpire(at, op.first) \in Nat
      BY <2>2, <3>2, TicksToExpireNat
    <3>4. /\ list' \in Seq(Timers) /\ ticks_to_expire' \in [Timers -> Nat]
          /\ isr' = isr \/ isr' = "lost"
      BY <2>2, <3>1, <3>3, InsertTypes
    <3>5. RunTypes' /\ ticks_periodic_interval' \in [Timers -> Counts]
      BY <1>1, <2>2, <3>1 DEF RunTypes, ListTypes
    <3> QED
      BY <1>1, <1>2, <2>3, <3>4, <3>5 DEF ListTypes, Listed, WalkTypes
  <2> QED
    BY <2>4, <2>5
<1>5. CASE SwiStop
  <2> DEFINE t == op.node
             i == IndexOf(t)
  <2>1. /\ op.type = "STOP" /\ is_running' = [is_running EXCEPT ![t] = FALSE]
        /\ UNCHANGED <<ticks_periodic_interval, isr>>
    BY <1>5 DEF SwiStop, Dequeue
  <2>2. t \in Timers
    BY <1>2, <2>1 DEF Operation
  <2>3. RunTypes' /\ WalkTypes'
    BY <1>1, <2>1 DEF RunTypes, WalkTypes
  <2>4. counter' \in Counts /\ m_ticks_latest' \in Counts /\ m_rtc1_reset' \in BOOLEAN
    <3>1. counter' \in {counter, 0} /\ m_ticks_latest' \in {m_ticks_latest, 0}
          /\ m_rtc1_reset' \in {m_rtc1_reset, TRUE}
      BY <1>5 DEF SwiStop
    <3> QED
      BY <3>1, Width DEF ClockTypes, FlagTypes
  <2>5. ClockTypes' /\ FlagTypes'
    BY <1>1, <2>4 DEF ClockTypes, FlagTypes
  <2>6. CASE ~Found(t)
    <3>1. UNCHANGED <<list, ticks_to_expire, loc>>
      BY <1>5, <2>6 DEF SwiStop
    <3> QED
      BY <1>2, <1>3, <2>1, <2>3, <2>5, <3>1 DEF ListTypes, Listed, LocalTypes
  <2>7. CASE Found(t)
    <3>1. /\ list' = RemoveAt(list, i)
          /\ ticks_to_expire' = IF i = Len(list) THEN ticks_to_expire
               ELSE [ticks_to_expire EXCEPT ![list[i + 1]] = @ + HandsOver(t)]
          /\ loc' = [loc EXCEPT !.update = @ \/ i = 1]
      BY <1>5, <2>7 DEF SwiStop
    <3>2. list \in Seq(Timers) /\ ticks_to_expire \in [Timers -> Nat]
      BY DEF ListTypes, Listed
    <3>3. i \in 1 .. Len(list)
      BY <2>7, <3>2, FoundAt DEF Found
    <3> HIDE DEF i, t, op
    <3>4. list' \in Seq(Timers)
      BY <3>1, <3>2, <3>3, Removed
    <3>5. ticks_to_expire' \in [Timers -> Nat]
      <4>1. CASE i = Len(list)
        BY <3>1, <3>2, <4>1
      <4>2. CASE i # Len(list)
        <5> DEFINE h == list[i + 1]
                   sum == ticks_to_expire[h] + ticks_to_expire[t]
        <5>1. h \in Timers
          <6>1. i + 1 \in 1 .. Len(list)
            BY <3>2, <3>3, <4>2, LenProperties
          <6> QED
            BY <3>2, <6>1, ElementOfSeq
        <5>2. sum \in Nat
          BY <2>2, <3>2, <5>1
        <5>3. ticks_to_expire' = [ticks_to_expire EXCEPT ![h] = sum]
          BY <3>1, <3>2, <4>2, <5>1 DEF HandsOver
        <5> HIDE DEF h, sum
        <5> QED
          BY <3>2, <5>1, <5>2, <5>3
      <4> QED
        BY <4>1, <4>2
    <3>6. loc' \in Locals
      <4>1. loc \in Locals /\ (loc.update \/ i = 1) \in BOOLEAN
        BY DEF LocalTypes
      <4> QED
        BY <3>1, <4>1 DEF Locals
    <3> QED
      BY <1>2, <1>3, <2>1, <2>3, <2>5, <3>4, <3>5, <3>6 DEF ListTypes, Listed, LocalTypes
  <2> QED
    BY <2>6, <2>7
<1>6. CASE SwiStopAll
  <2>1. /\ list' = <<>> /\ UNCHANGED <<counter, ticks_to_expire, ticks_periodic_interval,
                                        m_ticks_latest, m_rtc1_reset, isr, loc>>
        /\ is_running' = [t \in Timers |-> IF t \in ToSet(list) THEN FALSE ELSE is_running[t]]
    BY <1>6 DEF SwiStopAll, rtcVars
  <2>2. ClockTypes' /\ FlagTypes' /\ ListTypes' /\ LocalTypes' /\ WalkTypes'
    BY <1>1, <1>3, <2>1 DEF ClockTypes, FlagTypes, ListTypes, Listed, LocalTypes, WalkTypes
  <2>3. RunTypes'
    BY <1>1, <2>1 DEF RunTypes
  <2> QED
    BY <1>2, <2>2, <2>3
<1> QED
  BY <1>4, <1>5, <1>6

LEMMA SwiClockTypes ==
  ASSUME Types, SwiListDone \/ SwiCompare \/ SwiSetCompare \/ SwiCheckCompare
  PROVE  Types'
<1> USE DEF Types
<1>1. UNCHANGED <<swi_pending, masked, late, listVars, is_running, mode, m_op_queue,
                  m_ticks_elapsed, thread, started>>
  BY DEF SwiListDone, SwiCompare, SwiSetCompare, SwiCheckCompare
<1>2. ListTypes' /\ RunTypes' /\ QueueTypes'
  BY <1>1 DEF ListTypes, Listed, RunTypes, QueueTypes, listVars
<1>3. thread' \in Calls /\ list' = list
  BY <1>1 DEF LocalTypes, listVars
<1>4. counter \in Counts /\ cc \in Counts /\ m_ticks_latest \in Counts
  BY DEF ClockTypes
<1>5. CASE SwiListDone
  <2>1. UNCHANGED <<rtcVars, m_ticks_latest>> /\ m_rtc1_reset' \in {m_rtc1_reset, FALSE}
        /\ loc' = NoLoc /\ isr' \in {"compare", Idle}
    BY <1>5 DEF SwiListDone
  <2>2. ClockTypes' /\ FlagTypes'
    BY <1>1, <2>1 DEF ClockTypes, FlagTypes, rtcVars
  <2>3. LocalTypes' /\ WalkTypes'
    BY <1>3, <2>1, NoLocType DEF LocalTypes, WalkTypes, Idle
  <2> QED
    BY <1>2, <2>2, <2>3
<1>6. CASE SwiCompare
  <2>1. UNCHANGED <<cc, cc_missed>>
    BY <1>6 DEF SwiCompare
  <2>2. counter' \in {counter, 0} /\ m_ticks_latest' \in {m_ticks_latest, 0}
    BY <1>6 DEF SwiCompare
  <2>3. ClockTypes'
    BY <1>1, <2>1, <2>2, Width DEF ClockTypes
  <2>4. FlagTypes'
    BY <1>1, <1>6, <2>1 DEF SwiCompare, FlagTypes
  <2>5. LocalTypes' /\ WalkTypes'
    <3>1. CASE list = <<>>
      <4>1. loc' = NoLoc /\ isr' = Idle
        BY <1>6, <3>1 DEF SwiCompare
      <4> QED
        BY <1>3, <4>1, NoLocType DEF LocalTypes, WalkTypes, Idle
    <3>2. CASE list # <<>>
      <4>1. loc' = [NoLoc EXCEPT !.pre = counter] /\ isr' = "set_compare"
        BY <1>6, <3>2 DEF SwiCompare
      <4>2. loc' \in Locals
        BY <1>4, <4>1, NoLocType DEF Locals
      <4> QED
        BY <1>3, <3>2, <4>1, <4>2 DEF LocalTypes, WalkTypes
    <3> QED
      BY <3>1, <3>2
  <2> QED
    BY <1>2, <2>3, <2>4, <2>5
<1>7. ASSUME NEW v \in Counts, SetCompare(v) PROVE cc' \in Counts /\ cc_missed' \in BOOLEAN
  BY <1>7 DEF SetCompare
<1>8. CASE SwiSetCompare
  <2>1. UNCHANGED <<counter, rtc_pending, m_rtc1_running, m_ticks_latest, m_rtc1_reset, loc>>
        /\ isr = "set_compare" /\ isr' = "check_compare" /\ SetCompare(CompareValue)
    BY <1>8 DEF SwiSetCompare
  <2>2. CompareValue \in Counts
    <3>1. ticks_to_expire[Head(list)] \in Nat
      <4>1. Head(list) \in Timers
        BY <2>1, HeadTailProperties DEF WalkTypes, ListTypes, Listed
      <4> QED
        BY <4>1 DEF ListTypes, Listed
    <3>2. TicksDiff(loc.pre, m_ticks_latest) + RTC_COMPARE_OFFSET_MIN \in Nat
      <4>1. loc.pre \in Counts
        BY DEF LocalTypes, Locals
      <4>2. TicksDiff(loc.pre, m_ticks_latest) \in Nat
        <5> DEFINE y == loc.pre - m_ticks_latest
        <5>1. y \in Int
          BY <1>4, <4>1 DEF Counts
        <5> HIDE DEF y
        <5>2. y % W \in Nat
          BY <5>1, Width
        <5> QED
          BY <5>2 DEF TicksDiff, y
      <4>3. RTC_COMPARE_OFFSET_MIN \in Nat
        BY TicksAssumption
      <4> QED
        BY <4>2, <4>3
    <3> DEFINE soonest == TicksDiff(loc.pre, m_ticks_latest) + RTC_COMPARE_OFFSET_MIN
               due == ticks_to_expire[Head(list)]
               x == IF soonest < due THEN due ELSE soonest
    <3>3. x \in Nat
      BY <3>1, <3>2
    <3>4. CompareValue = (m_ticks_latest + x) % W
      BY DEF CompareValue
    <3> HIDE DEF x
    <3> QED
      BY <1>4, <3>3, <3>4, Width
  <2>3. cc' \in Counts /\ cc_missed' \in BOOLEAN
    BY <1>7, <2>1, <2>2
  <2>4. ClockTypes' /\ FlagTypes' /\ LocalTypes' /\ WalkTypes'
    BY <1>1, <1>3, <2>1, <2>3 DEF ClockTypes, FlagTypes, LocalTypes, WalkTypes
  <2> QED
    BY <1>2, <2>4
<1>9. CASE SwiCheckCompare
  <2>1. UNCHANGED <<counter, m_rtc1_running, m_ticks_latest>>
        /\ isr' = Idle /\ loc' = NoLoc /\ m_rtc1_reset' = FALSE
    BY <1>9 DEF SwiCheckCompare
  <2>2. cc' \in Counts /\ cc_missed' \in BOOLEAN /\ rtc_pending' \in BOOLEAN
    <3>1. CASE TooClose
      BY <1>4, <1>7, <1>9, <3>1 DEF SwiCheckCompare
    <3>2. CASE ~TooClose
      BY <1>4, <1>9, <3>2 DEF SwiCheckCompare, FlagTypes
    <3> QED
      BY <3>1, <3>2
  <2>3. ClockTypes' /\ FlagTypes'
    BY <1>1, <2>1, <2>2 DEF ClockTypes, FlagTypes
  <2>4. LocalTypes' /\ WalkTypes'
    BY <1>3, <2>1, NoLocType DEF LocalTypes, WalkTypes, Idle
  <2> QED
    BY <1>2, <2>3, <2>4
<1> QED
  BY <1>5, <1>6, <1>8, <1>9

LEMMA TypesInvariant == Spec => []Types
<1>1. Types /\ [Next]_vars => Types'
  <2>1. Types /\ UNCHANGED vars => Types'
    BY DEF vars, rtcVars, listVars, Types, ClockTypes, FlagTypes, ListTypes, Listed, RunTypes,
           QueueTypes, LocalTypes, WalkTypes
  <2>2. Types /\ Swi => Types'
    BY SwiListTypes, SwiOpTypes, SwiClockTypes DEF Swi
  <2> QED
    BY <2>1, <2>2, TickTypes, ThreadTypes, HandlerTypes, RtcTypes DEF Next
<1> QED
  BY <1>1, InitTypes, PTL DEF Spec

\* The types are kept for every set of timers, queue size, counter and latency;
\* above all the ticks of a timer behind another one never become negative
\* (timer_list_insert and timer_list_remove compute them unsigned).
THEOREM TypeCorrect == Spec => []TypeOK
<1>1. Types => TypeOK
  BY DEF Types, ClockTypes, FlagTypes, ListTypes, Listed, RunTypes, QueueTypes, TypeOK
<1> QED
  BY <1>1, TypesInvariant, PTL

-----------------------------------------------------------------------------
(***************************************************************************)
(* The list against what the application asked for, when the timers are    *)
(* periodic, as main.cpp's are, and a timer is started only if it is not   *)
(* started already.                                                        *)
(*                                                                         *)
(* A timer that is not started is out of the list, or the stop that takes  *)
(* it out is waiting and no start of it waits behind.  So a start that is  *)
(* queued finds its timer out of the list when its turn comes, unless an   *)
(* earlier start of the same batch has put it there, and is then ignored.  *)
(***************************************************************************)
Repeated == \A t \in Timers : ModesOf[t] \subseteq {"REPEATED"}

Listing == isr \in {"expired_timers", "list_insertions"}
NodesOf(s) == {s[i].node : i \in DOMAIN s}
Distinct(s) == \A i, j \in DOMAIN s : s[i].node = s[j].node => i = j
Restarting == NodesOf(loc.restart)

StartsAt(i, t) == m_op_queue[i].type = "START" /\ m_op_queue[i].node = t
StopsAt(i, t) ==
  \/ m_op_queue[i].type = "STOP_ALL"
  \/ m_op_queue[i].type = "STOP" /\ m_op_queue[i].node = t
Touched(i, t) ==
  \E j \in DOMAIN m_op_queue : j < i /\ (StartsAt(j, t) \/ StopsAt(j, t))
Free(t) == t \notin Armed /\ \A i \in DOMAIN m_op_queue : ~StartsAt(i, t)
StopLast(t) ==
  \E j \in DOMAIN m_op_queue :
    StopsAt(j, t) /\ \A k \in DOMAIN m_op_queue : k > j => ~StartsAt(k, t)

\* No timer is in the list twice, or in the list and about to be restarted.
Nodes ==
  /\ IsInjective(list)
  /\ Distinct(loc.restart)
  /\ ToSet(list) \cap Restarting = {}
  /\ loc.restart # <<>> => Listing
  /\ isr # "lost"
RunningArmed == \A t \in Timers : is_running[t] => t \in Armed
Periodic ==
  /\ \A t \in Timers : mode[t] # "SINGLE_SHOT"
  /\ \A t \in Armed : ticks_periodic_interval[t] # 0
  /\ \A i \in DOMAIN m_op_queue : m_op_queue[i].type = "START" => m_op_queue[i].periodic # 0
StartsFree ==
  \A i \in DOMAIN m_op_queue, t \in Timers :
    StartsAt(i, t) =>
      t \notin Armed \/ Touched(i, t) \/ (isr = "list_insertions" /\ is_running[t])
Settled == \A t \in Timers \ started : Free(t) \/ StopLast(t)

OrderInv == Nodes /\ RunningArmed /\ Periodic /\ StartsFree /\ Settled

LEMMA ArmedIs == Armed = ToSet(list) \cup Restarting
BY DEF Armed, Restarting, NodesOf

\* A step that leaves list and queue alone, and marks no timer as running.
LEMMA Untouched ==
  ASSUME OrderInv, UNCHANGED <<list, ticks_periodic_interval, m_op_queue>>,
         loc'.restart = loc.restart, started \subseteq started',
         \A t \in Timers : is_running'[t] => is_running[t],
         \A t \in Timers : mode'[t] # "SINGLE_SHOT",
         isr' # "lost", loc.restart # <<>> => Listing',
         isr = "list_insertions" =>
           m_op_queue = <<>> \/ (isr' = "list_insertions" /\ UNCHANGED is_running)
  PROVE  OrderInv'
<1>1. Armed' = Armed /\ Restarting' = Restarting
  BY DEF Armed, Restarting, NodesOf
<1>2. \A i, t : (StartsAt(i, t)' <=> StartsAt(i, t)) /\ (StopsAt(i, t)' <=> StopsAt(i, t))
  BY DEF StartsAt, StopsAt
<1>3. Nodes'
  BY <1>1 DEF OrderInv, Nodes
<1>4. RunningArmed'
  BY <1>1 DEF OrderInv, RunningArmed
<1>5. Periodic'
  BY <1>1 DEF OrderInv, Periodic
<1>6. StartsFree'
  <2>1. \A i, t : Touched(i, t)' <=> Touched(i, t)
    BY <1>2 DEF Touched
  <2>2. CASE m_op_queue = <<>>
    BY <2>2 DEF StartsFree
  <2>3. CASE m_op_queue # <<>>
    BY <1>1, <1>2, <2>1, <2>3 DEF OrderInv, StartsFree
  <2> QED
    BY <2>2, <2>3
<1>7. Settled'
  <2>1. \A t : (Free(t)' <=> Free(t)) /\ (StopLast(t)' <=> StopLast(t))
    BY <1>1, <1>2 DEF Free, StopLast
  <2> QED
    BY <2>1 DEF OrderInv, Settled
<1> QED
  BY <1>3, <1>4, <1>5, <1>6, <1>7 DEF OrderInv

\* What a queued operation means for the timers the application counts as started.
Asks(op) ==
  \/ /\ op.type = "START" /\ op.periodic # 0 /\ op.node \notin started
     /\ started' = started \cup {op.node}
  \/ op.type = "STOP" /\ started' = started \ {op.node}
  \/ op.type = "STOP_ALL" /\ started' = {}

\* An operation is queued, while the SWI handler is not at work on the queue.
LEMMA Asked ==
  ASSUME OrderInv, Types, UNCHANGED <<list, ticks_periodic_interval, mode, isr>>,
         loc'.restart = loc.restart, isr # "list_insertions",
         \A t \in Timers : is_running'[t] => is_running[t],
         NEW op \in Operation, m_op_queue' = Append(m_op_queue, op), Asks(op)
  PROVE  OrderInv'
<1> PICK n : n = Len(m_op_queue)
  OBVIOUS
<1>1. Armed' = Armed /\ Restarting' = Restarting
  BY DEF Armed, Restarting, NodesOf
<1>2. m_op_queue \in Seq(Operation)
  BY DEF Types, QueueTypes
<1>3. n \in Nat /\ DOMAIN m_op_queue = 1 .. n
  BY <1>2, LenProperties
<1>4. m_op_queue' \in Seq(Operation) /\ Len(m_op_queue') = n + 1
  BY <1>2, AppendProperties
<1>5. DOMAIN m_op_queue' = 1 .. n + 1
  BY <1>4, LenProperties
<1>6. (\A i \in 1 .. n : m_op_queue'[i] = m_op_queue[i]) /\ m_op_queue'[n + 1] = op
  BY <1>2, AppendProperties
<1>7. /\ \A i \in 1 .. n : i \in 1 .. n + 1 /\ i < n + 1
      /\ \A i \in 1 .. n + 1 : i \in 1 .. n \/ i = n + 1
      /\ n + 1 \in 1 .. n + 1 /\ \A i \in 1 .. n + 1 : ~(i > n + 1)
  BY <1>3
<1>8. \A i \in 1 .. n, t \in Timers :
        (StartsAt(i, t)' <=> StartsAt(i, t)) /\ (StopsAt(i, t)' <=> StopsAt(i, t))
  BY <1>6 DEF StartsAt, StopsAt
<1>9. \A t \in Timers :
        /\ StartsAt(n + 1, t)' <=> op.type = "START" /\ op.node = t
        /\ StopsAt(n + 1, t)' <=> op.type = "STOP_ALL" \/ (op.type = "STOP" /\ op.node = t)
  BY <1>6 DEF StartsAt, StopsAt
<1>10. Nodes' /\ RunningArmed'
  BY <1>1 DEF OrderInv, Nodes, RunningArmed, Listing
<1>11. Periodic'
  <2>1. ASSUME NEW i \in 1 .. n + 1, m_op_queue'[i].type = "START"
        PROVE  m_op_queue'[i].periodic # 0
    <3>1. CASE i \in 1 .. n
      BY <1>3, <1>6, <2>1, <3>1 DEF OrderInv, Periodic
    <3>2. CASE i = n + 1
      BY <1>6, <2>1, <3>2 DEF Asks
    <3> QED
      BY <1>7, <3>1, <3>2
  <2> QED
    BY <1>1, <1>5, <2>1 DEF OrderInv, Periodic
<1>12. StartsFree'
  <2> SUFFICES ASSUME NEW i \in 1 .. n + 1, NEW t \in Timers, StartsAt(i, t)'
               PROVE  t \notin Armed' \/ Touched(i, t)'
    BY <1>5 DEF StartsFree
  <2>1. CASE i \in 1 .. n
    <3>1. t \notin Armed \/ Touched(i, t)
      BY <1>3, <1>8, <2>1 DEF OrderInv, StartsFree
    <3>2. Touched(i, t) => Touched(i, t)'
      BY <1>3, <1>5, <1>7, <1>8 DEF Touched
    <3> QED
      BY <1>1, <3>1, <3>2
  <2>2. CASE i = n + 1
    <3>1. op.type = "START" /\ op.node = t /\ t \notin started
      BY <1>9, <2>2 DEF Asks
    <3>2. Free(t) \/ StopLast(t)
      BY <3>1 DEF OrderInv, Settled
    <3>3. ASSUME StopLast(t) PROVE Touched(i, t)'
      <4>1. PICK j \in 1 .. n : StopsAt(j, t)
        BY <1>3, <3>3 DEF StopLast
      <4>2. StopsAt(j, t)' /\ j < i /\ j \in DOMAIN m_op_queue'
        BY <1>5, <1>7, <1>8, <2>2, <4>1
      <4> QED
        BY <4>2 DEF Touched
    <3> QED
      BY <1>1, <3>2, <3>3 DEF Free
  <2> QED
    BY <1>7, <2>1, <2>2
<1>13. Settled'
  <2> SUFFICES ASSUME NEW t \in Timers \ started' PROVE Free(t)' \/ StopLast(t)'
    BY DEF Settled
  <2>1. CASE StopsAt(n + 1, t)'
    BY <1>5, <1>7, <2>1 DEF StopLast
  <2>2. CASE ~StopsAt(n + 1, t)'
    <3>1. ~StartsAt(n + 1, t)' /\ t \notin started
      BY <1>9, <2>2 DEF Asks
    <3>2. Free(t) \/ StopLast(t)
      BY <3>1 DEF OrderInv, Settled
    <3>3. Free(t) => Free(t)'
      BY <1>1, <1>3, <1>5, <1>7, <1>8, <3>1 DEF Free
    <3>4. StopLast(t) => StopLast(t)'
      BY <1>3, <1>5, <1>7, <1>8, <3>1 DEF StopLast
    <3> QED
      BY <3>2, <3>3, <3>4
  <2> QED
    BY <2>1, <2>2
<1> QED
  BY <1>10, <1>11, <1>12, <1>13 DEF OrderInv

\* The clock changes nothing of what waits but the time left.
LEMMA TickOrders == ASSUME OrderInv, Types, Tick PROVE OrderInv'
<1>1. UNCHANGED <<list, ticks_periodic_interval, is_running, mode, isr, loc, started>>
  BY DEF Tick, listVars
<1>2. Armed' = Armed /\ Restarting' = Restarting
  BY <1>1 DEF Armed, Restarting, NodesOf
<1>3. DOMAIN m_op_queue' = DOMAIN m_op_queue
  BY DEF Tick
<1>4. ASSUME NEW i \in DOMAIN m_op_queue
      PROVE  /\ m_op_queue'[i].type = m_op_queue[i].type
             /\ m_op_queue'[i].node = m_op_queue[i].node
             /\ m_op_queue[i].type = "START" => m_op_queue'[i].periodic = m_op_queue[i].periodic
  <2> DEFINE op == m_op_queue[i]
  <2>1. op \in Operation
    BY ElementOfSeq, LenProperties DEF Types, QueueTypes
  <2>2. m_op_queue'[i] = IF op.type = "START" THEN [op EXCEPT !.due = @ - 1] ELSE op
    BY DEF Tick
  <2> HIDE DEF op
  <2>3. CASE op.type = "START"
    <3>1. op \in [type : {"START"}, node : Timers, at : Counts, first : Counts,
                  periodic : Counts, due : Int]
      BY <2>1, <2>3 DEF Operation
    <3> QED
      BY <2>2, <2>3, <3>1 DEF op
  <2>4. CASE op.type # "START"
    BY <2>2, <2>4 DEF op
  <2> QED
    BY <2>3, <2>4
<1>5. \A i \in DOMAIN m_op_queue, t \in Timers :
        (StartsAt(i, t)' <=> StartsAt(i, t)) /\ (StopsAt(i, t)' <=> StopsAt(i, t))
  BY <1>4 DEF StartsAt, StopsAt
<1>6. Nodes' /\ RunningArmed'
  BY <1>1, <1>2 DEF OrderInv, Nodes, RunningArmed, Listing
<1>7. Periodic'
  BY <1>1, <1>2, <1>3, <1>4 DEF OrderInv, Periodic
<1>8. StartsFree'
  <2>1. ASSUME NEW i \in DOMAIN m_op_queue, NEW t \in Timers, Touched(i, t) PROVE Touched(i, t)'
    BY <1>3, <1>5, <2>1 DEF Touched
  <2> QED
    BY <1>1, <1>2, <1>3, <1>5, <2>1 DEF OrderInv, StartsFree
<1>9. Settled'
  <2>1. ASSUME NEW t \in Timers PROVE (Free(t) => Free(t)') /\ (StopLast(t) => StopLast(t)')
    BY <1>2, <1>3, <1>5 DEF Free, StopLast
  <2> QED
    BY <1>1, <2>1 DEF OrderInv, Settled
<1> QED
  BY <1>6, <1>7, <1>8, <1>9 DEF OrderInv

\* A start that the application may ask for is one of a timer that is not started.
LEMMA StartAsks ==
  ASSUME OrderInv, Types, RestartRunning = FALSE, NEW t \in Timers, NEW T \in TimeoutsOf[t],
         MayStart(t), started' = started \cup {t}
  PROVE  StartOp(t, T) \in Operation /\ Asks(StartOp(t, T))
<1>1. t \notin started /\ mode[t] = "REPEATED"
  <2>1. mode[t] \in {"none", "REPEATED", "SINGLE_SHOT"}
    BY DEF Types, RunTypes
  <2> QED
    BY <2>1 DEF MayStart, OrderInv, Periodic
<1>2. T # 0
  BY TicksAssumption
<1>3. StartOp(t, T).type = "START" /\ StartOp(t, T).node = t /\ StartOp(t, T).periodic = T
  BY <1>1 DEF StartOp
<1> QED
  BY <1>1, <1>2, <1>3, OperationTypes DEF Asks

LEMMA StopAsks ==
  /\ \A t \in Timers : StopOp("STOP", t) \in Operation /\ StopOp("STOP_ALL", NULL) \in Operation
  /\ \A t : started' = started \ {t} => Asks(StopOp("STOP", t))
  /\ started' = {} => Asks(StopOp("STOP_ALL", NULL))
BY DEF StopOp, Operation, Asks

LEMMA ThreadOrders ==
  ASSUME OrderInv, Types, Repeated, RestartRunning = FALSE, Thread
  PROVE  OrderInv'
<1>2. isr # "lost" /\ (loc.restart # <<>> => Listing)
      /\ \A t \in Timers : mode[t] # "SINGLE_SHOT"
  BY DEF OrderInv, Nodes, Periodic
<1>3. CASE EnterCritical \/ ExitCritical \/ Sched \/ Return
  <2>1. UNCHANGED <<list, ticks_periodic_interval, m_op_queue, loc, started, is_running, mode, isr>>
    BY <1>3 DEF EnterCritical, ExitCritical, Sched, Return, listVars
  <2>2. loc.restart # <<>> => Listing'
    BY <1>2, <2>1 DEF Listing
  <2> QED
    BY <1>2, <2>1, <2>2, Untouched
<1>4. CASE StopQueue
  <2>1. isr = Idle /\ UNCHANGED <<list, ticks_periodic_interval, is_running, mode, isr, loc>>
    BY <1>4 DEF StopQueue, ThreadRuns, listVars
  <2>2. thread.node \in Timers
    BY <1>4 DEF StopQueue, Types, LocalTypes, Calls, Idle
  <2>3. CASE m_op_queue' = Append(m_op_queue, StopOp("STOP", thread.node))
             /\ started' = started \ {thread.node}
    BY <2>1, <2>2, <2>3, StopAsks, Asked DEF Idle
  <2>4. CASE UNCHANGED <<m_op_queue, started>>
    BY <1>2, <2>1, <2>4, Untouched DEF Listing, Idle
  <2> QED
    BY <1>4, <2>3, <2>4 DEF StopQueue
<1>5. CASE StopAllQueue
  <2>1. /\ isr = Idle /\ UNCHANGED <<list, ticks_periodic_interval, is_running, mode, isr, loc>>
        /\ m_op_queue' = Append(m_op_queue, StopOp("STOP_ALL", NULL)) /\ started' = {}
    BY <1>5 DEF StopAllQueue, ThreadRuns, listVars
  <2>2. StopOp("STOP_ALL", NULL) \in Operation
    BY DEF StopOp, Operation
  <2> QED
    BY <2>1, <2>2, StopAsks, Asked DEF Idle
<1>6. ASSUME NEW t \in Timers, Create(t) PROVE OrderInv'
  <2>1. isr = Idle /\ UNCHANGED <<list, ticks_periodic_interval, m_op_queue, loc, started,
                                  is_running, isr>>
    BY <1>6 DEF Create, ThreadRuns, listVars
  <2>2. \A u \in Timers : mode'[u] # "SINGLE_SHOT"
    <3>1. PICK m \in ModesOf[t] : mode' = [mode EXCEPT ![t] = m]
      BY <1>6 DEF Create
    <3>2. m = "REPEATED"
      BY <3>1 DEF Repeated
    <3> QED
      BY <1>2, <3>1, <3>2 DEF Types, RunTypes
  <2> QED
    BY <1>2, <2>1, <2>2, Untouched DEF Listing, Idle
<1>7. ASSUME NEW t \in Timers, StopClear(t) PROVE OrderInv'
  <2>1. isr = Idle /\ UNCHANGED <<list, ticks_periodic_interval, m_op_queue, loc, started, mode, isr>>
    BY <1>7 DEF StopClear, ThreadRuns, listVars
  <2>2. \A u \in Timers : is_running'[u] => is_running[u]
    BY <1>7 DEF StopClear, Types, RunTypes
  <2> QED
    BY <1>2, <2>1, <2>2, Untouched DEF Listing, Idle
<1>8. ASSUME NEW t \in Timers, NEW T \in TimeoutsOf[t], StartQueue(t, T) PROVE OrderInv'
  <2>1. /\ isr = Idle /\ UNCHANGED <<list, ticks_periodic_interval, is_running, mode, isr, loc>>
        /\ m_op_queue' = Append(m_op_queue, StartOp(t, T)) /\ started' = started \cup {t}
        /\ MayStart(t)
    BY <1>8 DEF StartQueue, ThreadRuns, listVars
  <2>2. StartOp(t, T) \in Operation /\ Asks(StartOp(t, T))
    BY <2>1, StartAsks
  <2> QED
    BY <2>1, <2>2, Asked DEF Idle
<1> QED
  BY <1>3, <1>4, <1>5, <1>6, <1>7, <1>8 DEF Thread

LEMMA HandlerOrders ==
  ASSUME OrderInv, Types, RestartRunning = FALSE, TimeoutHandler
  PROVE  OrderInv'
<1>1. isr = "timeout_handler" /\ UNCHANGED <<list, ticks_periodic_interval, mode>>
      /\ loc'.restart = loc.restart
  <2>1. loc \in Locals
    BY DEF Types, LocalTypes
  <2>2. loc' = loc \/ loc' = [loc EXCEPT !.timer = NULL]
    BY DEF TimeoutHandler, HandlerStopAll, HandlerReturn, HandlerStop, HandlerStart
  <2> QED
    BY <2>1, <2>2 DEF TimeoutHandler, HandlerStopAll, HandlerReturn, HandlerStop, HandlerStart,
                      listVars, Locals
<1>2. isr # "lost" /\ loc.restart = <<>> /\ \A t \in Timers : mode[t] # "SINGLE_SHOT"
  BY <1>1 DEF OrderInv, Nodes, Periodic, Listing
<1>3. CASE HandlerStopAll
  <2>1. /\ UNCHANGED <<is_running, isr>> /\ started' = {}
        /\ m_op_queue' = Append(m_op_queue, StopOp("STOP_ALL", NULL))
    BY <1>3 DEF HandlerStopAll
  <2>2. StopOp("STOP_ALL", NULL) \in Operation
    BY DEF StopOp, Operation
  <2> QED
    BY <1>1, <2>1, <2>2, StopAsks, Asked
<1>4. CASE HandlerReturn
  <2>1. UNCHANGED <<is_running, m_op_queue, started>> /\ isr' = "rtc"
    BY <1>4 DEF HandlerReturn
  <2> QED
    BY <1>1, <1>2, <2>1, Untouched
<1>5. ASSUME NEW t \in Timers, HandlerStop(t) PROVE OrderInv'
  <2>1. isr' = isr /\ \A u \in Timers : is_running'[u] => is_running[u]
    BY <1>5 DEF HandlerStop, Types, RunTypes
  <2>2. CASE m_op_queue' = Append(m_op_queue, StopOp("STOP", t)) /\ started' = started \ {t}
    BY <1>1, <2>1, <2>2, StopAsks, Asked
  <2>3. CASE UNCHANGED <<m_op_queue, started>>
    BY <1>1, <1>2, <2>1, <2>3, Untouched
  <2> QED
    BY <1>5, <2>2, <2>3 DEF HandlerStop
<1>6. ASSUME NEW t \in Timers, NEW T \in TimeoutsOf[t], HandlerStart(t, T) PROVE OrderInv'
  <2>1. /\ UNCHANGED <<is_running, isr>> /\ started' = started \cup {t} /\ MayStart(t)
        /\ m_op_queue' = Append(m_op_queue, StartOp(t, T))
    BY <1>6 DEF HandlerStart
  <2>2. StartOp(t, T) \in Operation /\ Asks(StartOp(t, T))
    BY <2>1, StartAsks
  <2> QED
    BY <1>1, <2>1, <2>2, Asked
<1> QED
  BY <1>3, <1>4, <1>5, <1>6 DEF TimeoutHandler

LEMMA RtcOrders == ASSUME OrderInv, Types, Rtc PROVE OrderInv'
<1>1. /\ isr \in {Idle, "rtc"} /\ isr' \in {Idle, "rtc", "timeout_handler"}
      /\ UNCHANGED <<list, ticks_periodic_interval, m_op_queue, mode>>
  BY DEF Rtc, RtcEnter, RtcExpire, RtcExit, listVars
<1>2. loc.restart = <<>> /\ \A t \in Timers : mode[t] # "SINGLE_SHOT"
  BY <1>1 DEF OrderInv, Nodes, Periodic, Listing, Idle
<1>3. \A t \in Timers : mode'[t] # "SINGLE_SHOT"
  BY <1>1, <1>2
<1>4. CASE RtcEnter
  <2>1. UNCHANGED <<is_running, started>>
    BY <1>4 DEF RtcEnter
  <2>2. loc'.restart = <<>>
    <3>1. loc' = loc \/ loc' = [NoLoc EXCEPT !.elapsed = TicksDiff(counter, m_ticks_latest), !.at = 1]
      BY <1>4 DEF RtcEnter
    <3> QED
      BY <1>2, <3>1 DEF NoLoc
  <2> QED
    BY <1>1, <1>2, <1>3, <2>1, <2>2, Untouched DEF Idle
<1>5. CASE RtcExpire
  <2> DEFINE t == list[loc.at]
  <2>1. loc.at \in 1 .. Len(list)
    BY <1>5 DEF RtcExpire, Types, LocalTypes, Locals, WalkTypes
  <2>2. t \in Timers /\ t \in Armed
    <3>1. t \in ToSet(list)
      BY <2>1, LenProperties DEF ToSet, Types, ListTypes, Listed
    <3> QED
      BY <2>1, <3>1, ElementOfSeq DEF Armed, Types, ListTypes, Listed
  <2>3. ticks_periodic_interval[t] # 0
    BY <2>2 DEF OrderInv, Periodic
  <2>4. UNCHANGED started
    BY <1>5, <2>3 DEF RtcExpire
  <2>5. \A u \in Timers : is_running'[u] => is_running[u]
    BY <1>5, <2>2 DEF RtcExpire, Types, RunTypes
  <2>6. loc'.restart = loc.restart
    BY <1>5 DEF RtcExpire, Types, LocalTypes, Locals
  <2> QED
    BY <1>1, <1>2, <1>3, <2>4, <2>5, <2>6, Untouched DEF Idle
<1>6. CASE RtcExit
  <2>1. UNCHANGED <<is_running, started>> /\ loc' = NoLoc
    BY <1>6 DEF RtcExit
  <2> QED
    BY <1>1, <1>2, <1>3, <2>1, Untouched DEF Idle, NoLoc
<1> QED
  BY <1>4, <1>5, <1>6 DEF Rtc

-----------------------------------------------------------------------------
\* The SWI handler keeps the order while it works on the list.
LEMMA SwiEnds ==
  ASSUME OrderInv, Types, SwiEnter \/ SwiExpireDone \/ SwiListDone \/ SwiCompare
                            \/ SwiSetCompare \/ SwiCheckCompare
  PROVE  OrderInv'
<1>1. UNCHANGED <<list, ticks_periodic_interval, m_op_queue, mode, is_running, started>>
  BY DEF SwiEnter, SwiExpireDone, SwiListDone, SwiCompare, SwiSetCompare, SwiCheckCompare, listVars
<1>2. (loc.restart # <<>> => Listing) /\ \A t \in Timers : mode[t] # "SINGLE_SHOT"
  BY DEF OrderInv, Nodes, Periodic
<1>3. CASE SwiExpireDone
  <2>1. isr = "expired_timers" /\ isr' = "list_insertions" /\ loc'.restart = loc.restart
    BY <1>3 DEF SwiExpireDone, Types, LocalTypes, Locals
  <2> QED
    BY <1>1, <1>2, <2>1, Untouched DEF Listing
<1>4. ASSUME ~SwiExpireDone
      PROVE  /\ loc'.restart = <<>> /\ isr' # "lost" /\ loc.restart = <<>>
             /\ isr = "list_insertions" => m_op_queue = <<>>
  <2>1. CASE SwiEnter
    BY <1>2, <2>1 DEF SwiEnter, NoLoc, Listing, Idle
  <2>2. CASE SwiListDone
    BY <2>2 DEF SwiListDone, NothingLeft, NoLoc, Idle
  <2>3. CASE SwiCompare
    <3>1. isr = "compare" /\ isr' # "lost" /\ (loc' = NoLoc \/ loc' = [NoLoc EXCEPT !.pre = counter])
      BY <2>3 DEF SwiCompare, Idle
    <3>2. loc'.restart = <<>>
      BY <3>1 DEF NoLoc
    <3> QED
      BY <1>2, <3>1, <3>2 DEF Listing
  <2>4. CASE SwiSetCompare
    BY <1>2, <2>4 DEF SwiSetCompare, Listing
  <2>5. CASE SwiCheckCompare
    BY <1>2, <2>5 DEF SwiCheckCompare, NoLoc, Listing, Idle
  <2> QED
    BY <1>4, <2>1, <2>2, <2>3, <2>4, <2>5
<1>5. CASE ~SwiExpireDone
  BY <1>1, <1>2, <1>4, <1>5, Untouched
<1> QED
  BY <1>3, <1>5

\* A step that moves timers between the list and those about to be restarted.
LEMMA Moved ==
  ASSUME OrderInv, UNCHANGED <<ticks_periodic_interval, m_op_queue, started, mode, isr>>,
         Armed' = Armed, Nodes', RunningArmed',
         \A t \in Timers : is_running[t] => is_running'[t]
  PROVE  OrderInv'
<1>1. \A i, t : (StartsAt(i, t)' <=> StartsAt(i, t)) /\ (StopsAt(i, t)' <=> StopsAt(i, t))
  BY DEF StartsAt, StopsAt
<1>2. Periodic'
  BY DEF OrderInv, Periodic
<1>3. StartsFree'
  <2>1. \A i, t : Touched(i, t)' <=> Touched(i, t)
    BY <1>1 DEF Touched
  <2> QED
    BY <1>1, <2>1 DEF OrderInv, StartsFree
<1>4. Settled'
  <2>1. \A t : (Free(t)' <=> Free(t)) /\ (StopLast(t)' <=> StopLast(t))
    BY <1>1 DEF Free, StopLast
  <2> QED
    BY <2>1 DEF OrderInv, Settled
<1> QED
  BY <1>2, <1>3, <1>4 DEF OrderInv

LEMMA RestartFront ==
  ASSUME NEW s \in Seq(Due), NEW r \in Due
  PROVE  /\ NodesOf(<<r>> \o s) = NodesOf(s) \cup {r.node}
         /\ Distinct(s) /\ r.node \notin NodesOf(s) => Distinct(<<r>> \o s)
<1> DEFINE h == <<r>>
           n == Len(s)
           t == h \o s
<1>1. n \in Nat /\ DOMAIN s = 1 .. n
  BY LenProperties
<1>2. h \in Seq(Due) /\ Len(h) = 1 /\ h[1] = r
  OBVIOUS
<1> HIDE DEF h
<1>4. /\ t \in Seq(Due) /\ Len(t) = 1 + n /\ DOMAIN t = 1 .. 1 + n
      /\ \A i \in 1 .. 1 + n : t[i] = IF i <= 1 THEN h[i] ELSE s[i - 1]
  <2>1. /\ h \o s \in Seq(Due) /\ Len(h \o s) = Len(h) + Len(s)
        /\ \A i \in 1 .. Len(h) + Len(s) : (h \o s)[i] = IF i <= Len(h) THEN h[i] ELSE s[i - Len(h)]
    BY <1>2, ConcatProperties
  <2> QED
    BY <1>2, <2>1, LenProperties
<1> HIDE DEF n, t
<1>5. t[1] = r /\ 1 \in 1 .. 1 + n
  BY <1>1, <1>2, <1>4
<1>6. ASSUME NEW i \in 1 .. 1 + n, i # 1 PROVE i - 1 \in 1 .. n /\ t[i] = s[i - 1]
  BY <1>1, <1>4, <1>6
<1>7. ASSUME NEW i \in 1 .. n PROVE i + 1 \in 1 .. 1 + n /\ t[i + 1] = s[i]
  BY <1>1, <1>4
<1>8. NodesOf(t) = NodesOf(s) \cup {r.node}
  <2>1. ASSUME NEW i \in 1 .. 1 + n PROVE t[i].node \in NodesOf(s) \cup {r.node}
    BY <1>1, <1>5, <1>6 DEF NodesOf
  <2>2. ASSUME NEW i \in 1 .. n PROVE s[i].node \in NodesOf(t)
    BY <1>4, <1>7 DEF NodesOf
  <2>3. r.node \in NodesOf(t)
    BY <1>4, <1>5 DEF NodesOf
  <2> QED
    BY <1>1, <1>4, <2>1, <2>2, <2>3 DEF NodesOf
<1>9. ASSUME Distinct(s), r.node \notin NodesOf(s) PROVE Distinct(t)
  <2>1. ASSUME NEW i \in 1 .. 1 + n, NEW j \in 1 .. 1 + n, t[i].node = t[j].node PROVE i = j
    <3>1. \A k \in 1 .. n : s[k].node # r.node
      BY <1>1, <1>9 DEF NodesOf
    <3>2. CASE i = 1 \/ j = 1
      BY <1>5, <1>6, <2>1, <3>1, <3>2
    <3>3. CASE i # 1 /\ j # 1
      <4>1. i - 1 = j - 1
        BY <1>1, <1>6, <1>9, <2>1, <3>3 DEF Distinct
      <4> QED
        BY <4>1, <1>1
    <3> QED
      BY <3>2, <3>3
  <2> QED
    BY <1>4, <2>1 DEF Distinct
<1> QED
  BY <1>8, <1>9 DEF t, h

LEMMA RestartTail ==
  ASSUME NEW s \in Seq(Due), s # <<>>, Distinct(s)
  PROVE  /\ NodesOf(s) = NodesOf(Tail(s)) \cup {Head(s).node}
         /\ Head(s).node \notin NodesOf(Tail(s)) /\ Distinct(Tail(s))
<1> DEFINE n == Len(s)
           t == Tail(s)
<1>1. n \in Nat \ {0} /\ DOMAIN s = 1 .. n
  BY LenProperties, EmptySeq
<1>2. t \in Seq(Due) /\ Len(t) = n - 1 /\ \A k \in 1 .. n - 1 : t[k] = s[k + 1]
  BY HeadTailProperties
<1>3. Head(s) = s[1]
  OBVIOUS
<1> HIDE DEF t
<1>4. DOMAIN t = 1 .. n - 1
  BY <1>2, LenProperties
<1> HIDE DEF n
<1>5. ASSUME NEW k \in 1 .. n - 1 PROVE k + 1 \in 1 .. n /\ k + 1 # 1 /\ t[k] = s[k + 1]
  BY <1>1, <1>2
<1>6. 1 \in 1 .. n /\ \A k \in 1 .. n : k # 1 => k - 1 \in 1 .. n - 1 /\ t[k - 1] = s[k]
  BY <1>1, <1>2
<1>7. NodesOf(s) = NodesOf(t) \cup {s[1].node}
  <2>1. ASSUME NEW i \in 1 .. n PROVE s[i].node \in NodesOf(t) \cup {s[1].node}
    BY <1>4, <1>6 DEF NodesOf
  <2>2. ASSUME NEW i \in 1 .. n - 1 PROVE t[i].node \in NodesOf(s)
    BY <1>1, <1>5 DEF NodesOf
  <2>3. s[1].node \in NodesOf(s)
    BY <1>1, <1>6 DEF NodesOf
  <2> QED
    BY <1>1, <1>4, <2>1, <2>2, <2>3 DEF NodesOf
<1>8. s[1].node \notin NodesOf(t)
  <2>1. ASSUME NEW k \in 1 .. n - 1 PROVE t[k].node # s[1].node
    BY <1>1, <1>5, <1>6 DEF Distinct
  <2> QED
    BY <1>4, <2>1 DEF NodesOf
<1>9. Distinct(t)
  <2>1. ASSUME NEW i \in 1 .. n - 1, NEW j \in 1 .. n - 1, t[i].node = t[j].node PROVE i = j
    <3>1. i + 1 = j + 1
      BY <1>1, <1>5, <2>1 DEF Distinct
    <3> QED
      BY <3>1, <1>1
  <2> QED
    BY <1>4, <2>1 DEF Distinct
<1> QED
  BY <1>3, <1>7, <1>8, <1>9 DEF t

LEMMA SwiExpireOrders == ASSUME OrderInv, Types, SwiExpire PROVE OrderInv'
<1> DEFINE t == Head(list)
           back == [node |-> t, at |-> (loc.previous + (loc.expired + ticks_to_expire[t])) % W]
<1>1. /\ list # <<>> /\ isr = "expired_timers" /\ list' = Tail(list)
      /\ UNCHANGED <<ticks_periodic_interval, m_op_queue, started, mode, isr, is_running>>
  BY DEF SwiExpire
<1>2. list \in Seq(Timers) /\ ticks_to_expire \in [Timers -> Nat] /\ loc \in Locals
  BY DEF Types, ListTypes, Listed, LocalTypes
<1>3. t \in Timers /\ loc.restart \in Seq(Due) /\ back \in Due
  <2>1. t \in Timers
    BY <1>1, <1>2, HeadTailProperties
  <2>2. loc.previous \in Nat /\ loc.expired \in Nat /\ ticks_to_expire[t] \in Nat
    BY <1>2, <2>1, Width DEF Locals
  <2> DEFINE y == loc.previous + (loc.expired + ticks_to_expire[t])
  <2>3. y \in Int
    BY <2>2
  <2> HIDE DEF y
  <2>4. y % W \in Counts
    BY <2>3, Width
  <2> QED
    BY <1>2, <2>1, <2>4 DEF Locals, Due, y
<1>4. /\ IsInjective(list') /\ t \notin ToSet(list') /\ ToSet(list) = ToSet(list') \cup {t}
  BY <1>1, <1>2, TailSet DEF OrderInv, Nodes
<1>5. t \in Armed /\ t \notin Restarting
  BY <1>4 DEF Armed, OrderInv, Nodes
<1>6. Restarts(t)
  BY <1>3, <1>5 DEF Restarts, OrderInv, Periodic
<1>7. loc'.restart = <<back>> \o loc.restart
  BY <1>2, <1>6 DEF SwiExpire, Locals
<1> HIDE DEF back
<1>8. back.node = t
  BY DEF back
<1>9. Restarting' = Restarting \cup {t} /\ Distinct(loc'.restart)
  BY <1>3, <1>5, <1>7, <1>8, RestartFront DEF Restarting, OrderInv, Nodes
<1>10. Nodes'
  <2>1. ToSet(list) \cap Restarting = {}
    BY DEF OrderInv, Nodes
  <2>2. ToSet(list') \cap Restarting' = {}
    BY <1>4, <1>9, <2>1
  <2>3. Listing' /\ isr' # "lost"
    BY <1>1 DEF Listing
  <2> QED
    BY <1>4, <1>9, <2>2, <2>3 DEF Nodes
<1>11. Armed' = Armed
  BY <1>4, <1>9 DEF Armed, Restarting, NodesOf
<1>12. RunningArmed'
  BY <1>1, <1>11 DEF OrderInv, RunningArmed
<1> QED
  BY <1>1, <1>10, <1>11, <1>12, Moved

LEMMA ListTimers == ASSUME NEW s \in Seq(Timers) PROVE ToSet(s) \subseteq Timers
<1>1. \A i \in DOMAIN s : s[i] \in Timers
  BY LenProperties, ElementOfSeq
<1> QED
  BY <1>1 DEF ToSet

\* A timer that is not in the list is linked into it, once.
LEMMA Linked ==
  ASSUME Types, IsInjective(list), NEW t \in Timers \ ToSet(list), NEW ticks \in Nat,
         Insert(t, ticks)
  PROVE  isr' = isr /\ IsInjective(list') /\ ToSet(list') = ToSet(list) \cup {t}
<1>1. Listed
  BY DEF Types, ListTypes
<1>2. isr' = isr /\ list' = InsertAt(list, Place(ticks), t)
  BY DEF Insert
<1>3. Place(ticks) \in 1 .. Len(list) + 1
  BY <1>1, PlaceFits
<1> QED
  BY <1>1, <1>2, <1>3, InsertedSet DEF Listed

LEMMA SwiRestartOrders == ASSUME OrderInv, Types, SwiRestart PROVE OrderInv'
<1> DEFINE r == Head(loc.restart)
           t == r.node
<1>1. /\ isr = "list_insertions" /\ loc.restart # <<>>
      /\ UNCHANGED <<ticks_periodic_interval, m_op_queue, started, mode>>
      /\ loc' = [loc EXCEPT !.restart = Tail(@)]
      /\ is_running' = [is_running EXCEPT ![t] = TRUE]
      /\ Insert(t, TicksToExpire(r.at, ticks_periodic_interval[t]))
  BY DEF SwiRestart
<1>2. loc \in Locals /\ loc.restart \in Seq(Due)
  BY DEF Types, LocalTypes, Locals
<1>3. t \in Timers /\ r.at \in Counts
  <2>1. r \in Due
    BY <1>1, <1>2, HeadTailProperties
  <2> HIDE DEF r
  <2> QED
    BY <2>1 DEF Due
<1>4. loc'.restart = Tail(loc.restart)
  BY <1>1, <1>2 DEF Locals
<1>5. /\ Restarting = Restarting' \cup {t} /\ t \notin Restarting' /\ Distinct(loc'.restart)
  BY <1>1, <1>2, <1>4, RestartTail DEF Restarting, OrderInv, Nodes
<1>6. ToSet(list) \cap Restarting = {} /\ IsInjective(list)
  BY DEF OrderInv, Nodes
<1>7. TicksToExpire(r.at, ticks_periodic_interval[t]) \in Nat
  BY <1>3, TicksToExpireNat DEF Types, ListTypes
<1> HIDE DEF r
<1>8. isr' = isr /\ IsInjective(list') /\ ToSet(list') = ToSet(list) \cup {t}
  BY <1>1, <1>3, <1>5, <1>6, <1>7, Linked
<1>9. Nodes'
  <2>1. ToSet(list') \cap Restarting' = {}
    BY <1>5, <1>6, <1>8
  <2> QED
    BY <1>1, <1>5, <1>8, <2>1 DEF Nodes, Listing
<1>10. Armed' = Armed
  BY <1>5, <1>8 DEF Armed, Restarting, NodesOf
<1>11. t \in Armed
  BY <1>5, ArmedIs
<1>12. \A u \in Timers : /\ is_running[u] => is_running'[u]
                         /\ is_running'[u] => is_running[u] \/ u = t
  BY <1>1, <1>3 DEF Types, RunTypes
<1>13. RunningArmed'
  BY <1>10, <1>11, <1>12 DEF OrderInv, RunningArmed
<1> QED
  BY <1>1, <1>8, <1>9, <1>10, <1>12, <1>13, Moved

-----------------------------------------------------------------------------
\* The first operation leaves the queue: the others move up by one.
LEMMA QueueShift ==
  ASSUME m_op_queue \in Seq(Operation), m_op_queue # <<>>, m_op_queue' = Tail(m_op_queue)
  PROVE  /\ 1 \in DOMAIN m_op_queue /\ m_op_queue[1] = Head(m_op_queue)
         /\ \A i \in DOMAIN m_op_queue : i \in Nat /\ i >= 1
         /\ \A i \in DOMAIN m_op_queue' : /\ i \in Nat /\ i + 1 \in DOMAIN m_op_queue /\ i + 1 # 1
                                          /\ m_op_queue'[i] = m_op_queue[i + 1]
         /\ \A i \in DOMAIN m_op_queue : i # 1 => /\ i - 1 \in DOMAIN m_op_queue'
                                                 /\ m_op_queue'[i - 1] = m_op_queue[i]
<1> PICK n : n = Len(m_op_queue)
  OBVIOUS
<1>1. n \in Nat \ {0} /\ DOMAIN m_op_queue = 1 .. n
  BY LenProperties, EmptySeq
<1>2. /\ m_op_queue' \in Seq(Operation) /\ Len(m_op_queue') = n - 1
      /\ \A k \in 1 .. n - 1 : m_op_queue'[k] = m_op_queue[k + 1]
  BY HeadTailProperties
<1>3. DOMAIN m_op_queue' = 1 .. n - 1
  BY <1>2, LenProperties
<1>4. m_op_queue[1] = Head(m_op_queue)
  OBVIOUS
<1>5. \A i \in 1 .. n : i # 1 => i - 1 \in 1 .. n - 1 /\ (i - 1) + 1 = i
  BY <1>1
<1>6. \A i \in 1 .. n - 1 : i \in Nat /\ i + 1 \in 1 .. n /\ i + 1 # 1
  BY <1>1
<1>7. 1 \in 1 .. n /\ \A i \in 1 .. n : i \in Nat /\ i >= 1
  BY <1>1
<1>8. \A i \in 1 .. n : i # 1 => m_op_queue'[i - 1] = m_op_queue[i]
  BY <1>2, <1>5
<1> QED
  BY <1>1, <1>2, <1>3, <1>4, <1>5, <1>6, <1>7, <1>8

\* An operation is applied: a stopped timer is out of the list, a started one runs.
LEMMA Applied ==
  ASSUME OrderInv, Types, m_op_queue # <<>>, m_op_queue' = Tail(m_op_queue),
         isr = "list_insertions", UNCHANGED <<isr, started, mode>>, Nodes', RunningArmed',
         \A t \in Armed' : ticks_periodic_interval'[t] # 0,
         \A t \in Timers : StopsAt(1, t) => t \notin Armed',
         \A t \in Timers : StartsAt(1, t) => is_running'[t],
         \A t \in Timers : ~StartsAt(1, t) /\ ~StopsAt(1, t) =>
           (t \in Armed' => t \in Armed) /\ (is_running[t] => is_running'[t])
  PROVE  OrderInv'
<1>1. m_op_queue \in Seq(Operation)
  BY DEF Types, QueueTypes
<1>2. /\ 1 \in DOMAIN m_op_queue
      /\ \A i \in DOMAIN m_op_queue : i \in Nat /\ i >= 1
      /\ \A i \in DOMAIN m_op_queue' : /\ i \in Nat /\ i + 1 \in DOMAIN m_op_queue /\ i + 1 # 1
                                       /\ m_op_queue'[i] = m_op_queue[i + 1]
      /\ \A i \in DOMAIN m_op_queue : i # 1 => /\ i - 1 \in DOMAIN m_op_queue'
                                              /\ m_op_queue'[i - 1] = m_op_queue[i]
  BY <1>1, QueueShift
<1>3. ASSUME NEW i \in DOMAIN m_op_queue', NEW t \in Timers
      PROVE  (StartsAt(i, t)' <=> StartsAt(i + 1, t)) /\ (StopsAt(i, t)' <=> StopsAt(i + 1, t))
  BY <1>2 DEF StartsAt, StopsAt
<1>4. ASSUME NEW i \in DOMAIN m_op_queue, i # 1, NEW t \in Timers
      PROVE  (StartsAt(i - 1, t)' <=> StartsAt(i, t)) /\ (StopsAt(i - 1, t)' <=> StopsAt(i, t))
  BY <1>2, <1>4 DEF StartsAt, StopsAt
<1>5. Periodic'
  BY <1>2 DEF OrderInv, Periodic
<1>6. StartsFree'
  <2> SUFFICES ASSUME NEW i \in DOMAIN m_op_queue', NEW t \in Timers, StartsAt(i, t)'
               PROVE  t \notin Armed' \/ Touched(i, t)' \/ is_running'[t]
    BY DEF StartsFree
  <2>1. CASE StopsAt(1, t) \/ StartsAt(1, t)
    BY <2>1
  <2>2. CASE ~StopsAt(1, t) /\ ~StartsAt(1, t)
    <3>1. t \notin Armed \/ Touched(i + 1, t) \/ is_running[t]
      BY <1>2, <1>3 DEF OrderInv, StartsFree
    <3>2. ASSUME Touched(i + 1, t) PROVE Touched(i, t)'
      <4>1. PICK j \in DOMAIN m_op_queue : j < i + 1 /\ (StartsAt(j, t) \/ StopsAt(j, t))
        BY <3>2 DEF Touched
      <4>2. j # 1
        BY <2>2, <4>1
      <4>3. j - 1 \in DOMAIN m_op_queue' /\ j - 1 < i
        BY <1>2, <4>1, <4>2
      <4>4. StartsAt(j - 1, t)' \/ StopsAt(j - 1, t)'
        BY <1>4, <4>1, <4>2
      <4> QED
        BY <4>3, <4>4 DEF Touched
    <3> QED
      BY <2>2, <3>1, <3>2
  <2> QED
    BY <2>1, <2>2
<1>7. Settled'
  <2> SUFFICES ASSUME NEW t \in Timers \ started PROVE Free(t)' \/ StopLast(t)'
    BY DEF Settled
  <2>1. ASSUME Free(t) PROVE Free(t)'
    <3>1. ~StartsAt(1, t) /\ \A i \in DOMAIN m_op_queue' : ~StartsAt(i, t)'
      BY <1>2, <1>3, <2>1 DEF Free
    <3>2. t \notin Armed'
      BY <2>1, <3>1 DEF Free
    <3> QED
      BY <3>1, <3>2 DEF Free
  <2>2. ASSUME StopLast(t) PROVE Free(t)' \/ StopLast(t)'
    <3>1. PICK j \in DOMAIN m_op_queue :
            StopsAt(j, t) /\ \A k \in DOMAIN m_op_queue : k > j => ~StartsAt(k, t)
      BY <2>2 DEF StopLast
    <3>2. CASE j = 1
      <4>1. \A i \in DOMAIN m_op_queue' : ~StartsAt(i, t)'
        <5>1. \A i \in DOMAIN m_op_queue' : i + 1 > j
          BY <1>2, <3>2
        <5> QED
          BY <1>2, <1>3, <3>1, <5>1
      <4> QED
        BY <3>1, <3>2, <4>1 DEF Free
    <3>3. CASE j # 1
      <4>1. j - 1 \in DOMAIN m_op_queue' /\ StopsAt(j - 1, t)'
        BY <1>2, <1>4, <3>1, <3>3
      <4>2. ASSUME NEW k \in DOMAIN m_op_queue', k > j - 1 PROVE ~StartsAt(k, t)'
        <5>1. k + 1 \in DOMAIN m_op_queue /\ k + 1 > j
          BY <1>2, <4>2
        <5> QED
          BY <1>3, <3>1, <5>1
      <4> QED
        BY <4>1, <4>2 DEF StopLast
    <3> QED
      BY <3>2, <3>3
  <2> QED
    BY <2>1, <2>2 DEF OrderInv, Settled
<1> QED
  BY <1>5, <1>6, <1>7 DEF OrderInv

LEMMA SwiStartOrders == ASSUME OrderInv, Types, SwiStart PROVE OrderInv'
<1> DEFINE op == Head(m_op_queue)
           t == op.node
<1>1. /\ isr = "list_insertions" /\ loc.restart = <<>> /\ op.type = "START"
      /\ m_op_queue # <<>> /\ m_op_queue' = Tail(m_op_queue)
      /\ UNCHANGED <<started, mode, loc>>
  BY DEF SwiStart, Dequeue
<1>2. op \in Operation
  BY <1>1, QueueTail DEF Types
<1>3. t \in Timers /\ op.at \in Counts /\ op.first \in Counts
  BY <1>1, <1>2 DEF Operation
<1>4. 1 \in DOMAIN m_op_queue /\ m_op_queue[1] = op /\ \A i \in DOMAIN m_op_queue : ~(i < 1)
  <2>1. \A i \in DOMAIN m_op_queue : i \in Nat /\ i >= 1
    BY <1>1, QueueShift DEF Types, QueueTypes
  <2>2. \A i \in DOMAIN m_op_queue : ~(i < 1)
    BY <2>1
  <2> QED
    BY <1>1, <2>2, QueueShift DEF Types, QueueTypes
<1>5. \A u \in Timers : (StartsAt(1, u) <=> u = t) /\ ~StopsAt(1, u)
  BY <1>1, <1>4 DEF StartsAt, StopsAt
<1>6. op.periodic # 0
  BY <1>1, <1>4 DEF OrderInv, Periodic
<1> HIDE DEF op
<1>7. CASE is_running[t]
  <2>1. UNCHANGED <<isr, list, ticks_periodic_interval, is_running>>
    BY <1>7 DEF SwiStart, op, listVars
  <2>2. Armed' = Armed /\ Restarting' = Restarting
    BY <1>1, <2>1 DEF Armed, Restarting, NodesOf
  <2>3. Nodes' /\ RunningArmed'
    BY <1>1, <2>1, <2>2 DEF OrderInv, Nodes, RunningArmed
  <2>4. \A u \in Armed' : ticks_periodic_interval'[u] # 0
    BY <2>1, <2>2 DEF OrderInv, Periodic
  <2> QED
    BY <1>1, <1>5, <1>7, <2>1, <2>2, <2>3, <2>4, Applied
<1>8. CASE ~is_running[t]
  <2> DEFINE at == IF m_rtc1_reset THEN 0 ELSE op.at
  <2>1. /\ Insert(t, TicksToExpire(at, op.first))
        /\ ticks_periodic_interval' = [ticks_periodic_interval EXCEPT ![t] = op.periodic]
        /\ is_running' = [is_running EXCEPT ![t] = TRUE]
    BY <1>8 DEF SwiStart, op
  <2>2. at \in Counts
    BY <1>3, Width
  <2> HIDE DEF at
  <2>3. TicksToExpire(at, op.first) \in Nat
    BY <1>3, <2>2, TicksToExpireNat
  <2>4. t \notin Armed
    <3>1. ~Touched(1, t)
      BY <1>4 DEF Touched
    <3> QED
      BY <1>3, <1>4, <1>5, <1>8, <3>1 DEF OrderInv, StartsFree
  <2>5. Armed = ToSet(list) /\ Restarting = {} /\ Restarting' = {}
    BY <1>1 DEF Armed, Restarting, NodesOf
  <2>6. isr' = isr /\ IsInjective(list') /\ ToSet(list') = ToSet(list) \cup {t}
    BY <1>3, <2>1, <2>3, <2>4, <2>5, Linked DEF OrderInv, Nodes
  <2>7. Armed' = Armed \cup {t}
    BY <1>1, <2>5, <2>6 DEF Armed, Restarting, NodesOf
  <2>8. Nodes'
    BY <1>1, <2>5, <2>6 DEF OrderInv, Nodes
  <2>9. \A u \in Timers : is_running'[u] <=> (is_running[u] \/ u = t)
    BY <1>3, <2>1 DEF Types, RunTypes
  <2>10. RunningArmed'
    BY <2>7, <2>9 DEF OrderInv, RunningArmed
  <2>11. \A u \in Armed' : ticks_periodic_interval'[u] # 0
    <3>1. ticks_periodic_interval'[t] = op.periodic
          /\ \A u \in Timers : u # t => ticks_periodic_interval'[u] = ticks_periodic_interval[u]
      BY <1>3, <2>1 DEF Types, ListTypes
    <3>2. Armed \subseteq Timers
      BY <2>5, ListTimers DEF Types, ListTypes, Listed
    <3> QED
      BY <1>6, <2>7, <3>1, <3>2 DEF OrderInv, Periodic
  <2> QED
    BY <1>1, <1>5, <2>6, <2>7, <2>8, <2>9, <2>10, <2>11, Applied
<1> QED
  BY <1>7, <1>8

LEMMA SwiStopOrders == ASSUME OrderInv, Types, SwiStop PROVE OrderInv'
<1> DEFINE op == Head(m_op_queue)
           t == op.node
<1>1. /\ isr = "list_insertions" /\ loc.restart = <<>> /\ op.type = "STOP"
      /\ m_op_queue # <<>> /\ m_op_queue' = Tail(m_op_queue)
      /\ UNCHANGED <<started, mode, isr, ticks_periodic_interval>>
      /\ is_running' = [is_running EXCEPT ![t] = FALSE]
  BY DEF SwiStop, Dequeue
<1>2. op \in Operation
  BY <1>1, QueueTail DEF Types
<1>3. t \in Timers
  BY <1>1, <1>2 DEF Operation
<1>4. m_op_queue[1] = op
  BY <1>1, QueueShift DEF Types, QueueTypes
<1>5. \A u \in Timers : ~StartsAt(1, u) /\ (StopsAt(1, u) <=> u = t)
  BY <1>1, <1>4 DEF StartsAt, StopsAt
<1>6. loc'.restart = <<>> /\ IsInjective(list') /\ ToSet(list') = ToSet(list) \ {t}
  <2>1. IsInjective(list) /\ list \in Seq(Timers) /\ loc \in Locals
    BY DEF OrderInv, Nodes, Types, ListTypes, Listed, LocalTypes
  <2>2. CASE t \notin ToSet(list)
    <3>1. UNCHANGED <<list, loc>>
      BY <2>2 DEF SwiStop, Found
    <3> QED
      BY <1>1, <2>1, <2>2, <3>1
  <2>3. CASE t \in ToSet(list)
    <3>1. /\ list' = RemoveAt(list, IndexOf(t))
          /\ loc' = [loc EXCEPT !.update = @ \/ IndexOf(t) = 1]
      BY <2>3 DEF SwiStop, Found
    <3>2. IndexOf(t) \in 1 .. Len(list) /\ list[IndexOf(t)] = t
      BY <2>1, <2>3, FoundAt
    <3> HIDE DEF op
    <3>3. IsInjective(list') /\ ToSet(list') = ToSet(list) \ {t}
      BY <2>1, <3>1, <3>2, RemovedSet
    <3>4. loc'.restart = loc.restart
      BY <2>1, <3>1 DEF Locals
    <3> QED
      BY <1>1, <3>3, <3>4
  <2> QED
    BY <2>2, <2>3
<1> HIDE DEF op
<1>7. Armed = ToSet(list) /\ Armed' = ToSet(list') /\ Restarting = {} /\ Restarting' = {}
  BY <1>1, <1>6 DEF Armed, Restarting, NodesOf
<1>8. Nodes'
  BY <1>1, <1>6, <1>7 DEF OrderInv, Nodes, Distinct
<1>9. \A u \in Timers : is_running'[u] <=> (is_running[u] /\ u # t)
  BY <1>1, <1>3 DEF Types, RunTypes
<1>10. RunningArmed'
  BY <1>6, <1>7, <1>9 DEF OrderInv, RunningArmed
<1>11. \A u \in Armed' : ticks_periodic_interval'[u] # 0
  BY <1>1, <1>6, <1>7 DEF OrderInv, Periodic
<1> QED
  BY <1>1, <1>5, <1>6, <1>7, <1>8, <1>9, <1>10, <1>11, Applied

LEMMA SwiStopAllOrders == ASSUME OrderInv, Types, SwiStopAll PROVE OrderInv'
<1>1. /\ isr = "list_insertions" /\ loc.restart = <<>> /\ Head(m_op_queue).type = "STOP_ALL"
      /\ m_op_queue # <<>> /\ m_op_queue' = Tail(m_op_queue) /\ list' = <<>>
      /\ UNCHANGED <<started, mode, isr, ticks_periodic_interval, loc>>
      /\ is_running' = [t \in Timers |-> IF t \in ToSet(list) THEN FALSE ELSE is_running[t]]
  BY DEF SwiStopAll, Dequeue
<1>2. m_op_queue[1] = Head(m_op_queue)
  BY <1>1, QueueShift DEF Types, QueueTypes
<1>3. \A u \in Timers : ~StartsAt(1, u) /\ StopsAt(1, u)
  BY <1>1, <1>2 DEF StartsAt, StopsAt
<1>4. Armed = ToSet(list) /\ Armed' = {} /\ Restarting' = {} /\ ToSet(list') = {}
  BY <1>1 DEF Armed, Restarting, NodesOf, ToSet
<1>5. Nodes'
  BY <1>1, <1>4 DEF OrderInv, Nodes, Distinct, IsInjective
<1>6. RunningArmed'
  BY <1>1, <1>4 DEF OrderInv, RunningArmed
<1> QED
  BY <1>1, <1>3, <1>4, <1>5, <1>6, Applied

LEMMA InitOrders == Init => OrderInv
<1> SUFFICES ASSUME Init PROVE OrderInv
  OBVIOUS
<1>1. /\ list = <<>> /\ loc.restart = <<>> /\ m_op_queue = <<>> /\ isr = Idle
      /\ is_running = [t \in Timers |-> FALSE] /\ mode = [t \in Timers |-> "none"]
  BY DEF Init, NoLoc
<1>2. Armed = {}
  BY <1>1 DEF Armed, ToSet
<1>3. Nodes
  BY <1>1 DEF Nodes, IsInjective, Distinct, ToSet, Idle
<1>4. RunningArmed /\ Periodic
  BY <1>1, <1>2 DEF RunningArmed, Periodic
<1>5. StartsFree /\ Settled
  BY <1>1, <1>2 DEF StartsFree, Settled, Free
<1> QED
  BY <1>3, <1>4, <1>5 DEF OrderInv

LEMMA NextOrders ==
  ASSUME OrderInv, Types, Repeated, RestartRunning = FALSE, [Next]_vars
  PROVE  OrderInv'
<1>1. CASE UNCHANGED vars
  <2>1. UNCHANGED <<list, ticks_periodic_interval, m_op_queue, loc, started, is_running, mode, isr>>
    BY <1>1 DEF vars, listVars
  <2> QED
    BY <2>1, Untouched DEF OrderInv, Nodes, Periodic, Listing
<1>2. CASE Swi
  BY <1>2, SwiEnds, SwiExpireOrders, SwiRestartOrders, SwiStartOrders, SwiStopOrders,
     SwiStopAllOrders DEF Swi
<1> QED
  BY <1>1, <1>2, TickOrders, ThreadOrders, HandlerOrders, RtcOrders DEF Next

LEMMA OrderInvariant ==
  ASSUME Repeated, RestartRunning = FALSE
  PROVE  Spec => [](Types /\ OrderInv)
<1>1. Init => OrderInv
  BY InitOrders
<1>2. ASSUME OrderInv, Types, [Next]_vars PROVE OrderInv'
  BY <1>2, NextOrders
<1> QED
  BY <1>1, <1>2, TypesInvariant, PTL DEF Spec

\* ListSound, for periodic timers started only when they are not started: no
\* history of calls, expiries and interrupts puts a timer into the list twice
\* or leaves one that is marked running out of it.
THEOREM ListIsSound ==
  ASSUME Repeated, RestartRunning = FALSE
  PROVE  Spec => []ListSound
<1>1. OrderInv => ListSound
  <2> SUFFICES ASSUME OrderInv PROVE ListSound
    OBVIOUS
  <2>1. isr # "lost" /\ IsInjective(list)
    BY DEF OrderInv, Nodes
  <2>2. ASSUME isr \in {Idle, "rtc", "timeout_handler"}, NEW t \in Timers, is_running[t]
        PROVE  t \in ToSet(list)
    <3>1. Restarting = {}
      BY <2>2 DEF OrderInv, Nodes, Listing, Idle, Restarting, NodesOf
    <3> QED
      BY <2>2, <3>1, ArmedIs DEF OrderInv, RunningArmed
  <2> QED
    BY <2>1, <2>2 DEF ListSound
<1> QED
  BY <1>1, OrderInvariant, PTL

-----------------------------------------------------------------------------
(***************************************************************************)
(* Why a stopped timer stays quiet.  Between two runs of the SWI handler a *)
(* timer that is marked running is started, or the call that stops it is   *)
(* still under way.  In a critical region that call cannot rely on the SWI *)
(* to clear the mark before it returns: it has done so itself.             *)
(***************************************************************************)
Stopping(t) == thread.pc \in {"sched", "return"} /\ t \in thread.stopping
Quieted == ~Listing => \A t \in Timers : is_running[t] => t \in started \/ Stopping(t)
Masked ==
  masked => /\ isr = Idle
            /\ thread.pc = "stop" => ~is_running[thread.node]
            /\ \A t \in Timers : Stopping(t) => ~is_running[t]
QuietInv == Quieted /\ Masked

\* With the queue empty, nothing runs but what is started.
LEMMA OnlyStartedRun ==
  ASSUME OrderInv, m_op_queue = <<>>, NEW t \in Timers, is_running[t]
  PROVE  t \in started
<1>1. t \in Armed
  BY DEF OrderInv, RunningArmed
<1>2. ~Free(t) /\ ~StopLast(t)
  BY <1>1 DEF Free, StopLast
<1> QED
  BY <1>2 DEF OrderInv, Settled

\* The timer was running before the step, which does not end its being started.
Went(t) == is_running[t] /\ (t \in started => t \in started')

\* A step that does not belong to a call of the main program.
LEMMA Aside ==
  ASSUME QuietInv, Types, UNCHANGED <<thread, masked>>, isr' # "lost",
         masked => isr' = Idle /\ UNCHANGED is_running,
         \/ Listing'
         \/ ~Listing /\ \A t \in Timers : is_running'[t] => Went(t)
  PROVE  QuietInv'
<1>1. \A t : Stopping(t)' <=> Stopping(t)
  BY DEF Stopping
<1>2. Masked'
  BY <1>1 DEF QuietInv, Masked
<1>3. Quieted'
  <2> SUFFICES ASSUME ~Listing', NEW t \in Timers, is_running'[t]
               PROVE  t \in started' \/ Stopping(t)'
    BY DEF Quieted
  <2>1. ~Listing /\ \A u \in Timers : is_running'[u] => Went(u)
    OBVIOUS
  <2>2. t \in started \/ Stopping(t)
    BY <2>1 DEF QuietInv, Quieted, Went
  <2> QED
    BY <1>1, <2>1, <2>2 DEF Went
<1> QED
  BY <1>2, <1>3 DEF QuietInv

LEMMA ThreadQuiets ==
  ASSUME QuietInv, OrderInv, ServiceInv, Types, UsesStopAll \subseteq {"main"}, Thread
  PROVE  QuietInv'
<1>1. isr = Idle /\ isr' = Idle /\ ~Listing
  <2>1. isr = Idle
    BY DEF Thread, EnterCritical, ExitCritical, StopQueue, StopAllQueue, Sched, Return, Create,
           StopClear, StartQueue, ThreadRuns, QuietInv, Masked
  <2>2. isr' = isr
    BY DEF Thread, EnterCritical, ExitCritical, StopQueue, StopAllQueue, Sched, Return, Create,
           StopClear, StartQueue
  <2> QED
    BY <2>1, <2>2 DEF Listing, Idle
<1>2. \A t \in Timers : is_running[t] => t \in started \/ Stopping(t)
  BY <1>1 DEF QuietInv, Quieted
<1>3. thread \in Calls /\ is_running \in [Timers -> BOOLEAN] /\ started \subseteq Timers
  BY DEF Types, LocalTypes, RunTypes
<1>4. CASE EnterCritical \/ ExitCritical
  <2>1. UNCHANGED <<is_running, started, thread>> /\ thread.pc = Idle
    BY <1>4 DEF EnterCritical, ExitCritical
  <2>2. \A t : ~Stopping(t) /\ ~Stopping(t)'
    BY <2>1 DEF Stopping, Idle
  <2> QED
    BY <1>1, <1>2, <2>1, <2>2 DEF QuietInv, Quieted, Masked, Idle
<1>5. CASE StopQueue
  <2>1. thread.pc = "stop" /\ UNCHANGED <<is_running, masked>>
    BY <1>5 DEF StopQueue
  <2>2. /\ \A t \in Timers : is_running[t] => t \in started
        /\ masked => ~is_running[thread.node]
    BY <1>2, <2>1 DEF Stopping, QuietInv, Masked
  <2>3. CASE started' = started \ {thread.node} /\ thread' = [pc |-> "sched", stopping |-> {thread.node}]
    <3>1. \A t : Stopping(t)' <=> t = thread.node
      BY <2>3 DEF Stopping
    <3>2. thread'.pc # "stop"
      BY <2>3
    <3> QED
      BY <1>1, <2>1, <2>2, <2>3, <3>1, <3>2 DEF QuietInv, Quieted, Masked
  <2>4. CASE started' = started /\ thread' = [pc |-> Idle]
    <3>1. thread'.pc # "stop" /\ \A t : ~Stopping(t)'
      BY <2>4 DEF Stopping, Idle
    <3> QED
      BY <1>1, <2>1, <2>2, <2>4, <3>1 DEF QuietInv, Quieted, Masked
  <2> QED
    BY <1>5, <2>3, <2>4 DEF StopQueue
<1>6. CASE StopAllQueue
  <2>1. /\ ~masked /\ thread.pc = Idle /\ UNCHANGED <<is_running, masked>> /\ started' = {}
        /\ thread' = [pc |-> "sched", stopping |-> started]
    BY <1>6 DEF StopAllQueue
  <2>2. \A t : ~Stopping(t) /\ (Stopping(t)' <=> t \in started)
    BY <2>1 DEF Stopping, Idle
  <2> QED
    BY <1>1, <1>2, <2>1, <2>2 DEF QuietInv, Quieted, Masked
<1>7. CASE Sched
  <2>1. /\ thread.pc = "sched" /\ thread' = [thread EXCEPT !.pc = "return"]
        /\ UNCHANGED <<is_running, started, masked>>
    BY <1>7 DEF Sched
  <2>2. thread'.pc = "return" /\ thread'.stopping = thread.stopping
    BY <1>3, <2>1 DEF Calls, Idle
  <2>3. \A t : Stopping(t)' <=> Stopping(t)
    BY <2>1, <2>2 DEF Stopping
  <2> QED
    BY <1>1, <1>2, <2>1, <2>2, <2>3 DEF QuietInv, Quieted, Masked
<1>8. CASE Return
  <2>1. /\ thread.pc = "return" /\ thread' = [pc |-> Idle]
        /\ UNCHANGED <<is_running, started, masked>>
    BY <1>8 DEF Return
  <2>2. thread'.pc = Idle /\ \A t : ~Stopping(t)'
    BY <2>1 DEF Stopping, Idle
  <2>3. ASSUME NEW t \in Timers, is_running[t] PROVE t \in started
    <3>1. CASE masked
      BY <1>2, <2>3, <3>1 DEF QuietInv, Masked
    <3>2. CASE ~masked
      <4>1. ~swi_pending
        BY <1>8, <3>2 DEF Return, ThreadRuns
      <4>2. m_op_queue = <<>>
        BY <1>1, <2>1, <4>1 DEF ServiceInv, OpsServed, Idle
      <4> QED
        BY <2>3, <4>2, OnlyStartedRun
    <3> QED
      BY <3>1, <3>2
  <2> QED
    BY <1>1, <2>1, <2>2, <2>3 DEF QuietInv, Quieted, Masked, Idle
<1>9. ASSUME NEW t \in Timers, Create(t) PROVE QuietInv'
  <2>1. UNCHANGED <<is_running, started, thread, masked>>
    BY <1>9 DEF Create
  <2> QED
    BY <1>1, <2>1, Aside DEF Idle, Went
<1>10. ASSUME NEW t \in Timers, StopClear(t) PROVE QuietInv'
  <2>1. /\ thread.pc = Idle /\ UNCHANGED <<started, masked>>
        /\ is_running' = [is_running EXCEPT ![t] = FALSE] /\ thread' = [pc |-> "stop", node |-> t]
    BY <1>10 DEF StopClear
  <2>2. \A u : ~Stopping(u) /\ ~Stopping(u)'
    BY <2>1 DEF Stopping, Idle
  <2>3. ~is_running'[t] /\ \A u \in Timers : is_running'[u] => is_running[u]
    BY <1>3, <2>1
  <2>4. thread'.node = t
    BY <2>1
  <2> QED
    BY <1>1, <1>2, <2>1, <2>2, <2>3, <2>4 DEF QuietInv, Quieted, Masked
<1>11. ASSUME NEW t \in Timers, NEW T \in TimeoutsOf[t], StartQueue(t, T) PROVE QuietInv'
  <2>1. /\ thread.pc = Idle /\ UNCHANGED <<is_running, masked>> /\ started' = started \cup {t}
        /\ thread' = [pc |-> "sched", stopping |-> {}]
    BY <1>11 DEF StartQueue
  <2>2. thread'.pc # "stop" /\ \A u : ~Stopping(u) /\ ~Stopping(u)'
    BY <2>1 DEF Stopping, Idle
  <2> QED
    BY <1>1, <1>2, <2>1, <2>2 DEF QuietInv, Quieted, Masked
<1> QED
  BY <1>4, <1>5, <1>6, <1>7, <1>8, <1>9, <1>10, <1>11 DEF Thread

LEMMA HandlerQuiets ==
  ASSUME QuietInv, OrderInv, Types, UsesStopAll \subseteq {"main"}, TimeoutHandler
  PROVE  QuietInv'
<1>1. /\ isr = "timeout_handler" /\ isr' \in {"timeout_handler", "rtc"}
      /\ UNCHANGED <<thread, masked>> /\ ~HandlerStopAll
  BY DEF TimeoutHandler, HandlerStopAll, HandlerReturn, HandlerStop, HandlerStart
<1>2. ~masked /\ ~Listing
  BY <1>1 DEF QuietInv, Masked, Listing, Idle
<1>3. \A t \in Timers : is_running'[t] => is_running[t] /\ (t \in started => t \in started')
  <2>1. CASE HandlerReturn
    BY <2>1 DEF HandlerReturn
  <2>2. ASSUME NEW u \in Timers, HandlerStop(u), NEW t \in Timers, is_running'[t]
        PROVE  is_running[t] /\ (t \in started => t \in started')
    <3>1. /\ is_running' = [is_running EXCEPT ![u] = FALSE]
          /\ started' = started \ {u} \/ started' = started
      BY <2>2 DEF HandlerStop
    <3>2. t # u /\ is_running[t]
      BY <2>2, <3>1 DEF Types, RunTypes
    <3> QED
      BY <3>1, <3>2
  <2>3. ASSUME NEW u \in Timers, NEW T \in TimeoutsOf[u], HandlerStart(u, T)
        PROVE  UNCHANGED is_running /\ started \subseteq started'
    BY <2>3 DEF HandlerStart
  <2> QED
    BY <1>1, <2>1, <2>2, <2>3 DEF TimeoutHandler
<1> QED
  BY <1>1, <1>2, <1>3, Aside DEF Went

LEMMA RtcQuiets == ASSUME QuietInv, Types, Rtc PROVE QuietInv'
<1>1. /\ isr \in {Idle, "rtc"} /\ isr' \in {Idle, "rtc", "timeout_handler"}
      /\ UNCHANGED <<thread, masked>>
  BY DEF Rtc, RtcEnter, RtcExpire, RtcExit
<1>2. ~masked
  <2>1. CASE RtcEnter
    BY <2>1 DEF RtcEnter
  <2>2. CASE ~RtcEnter
    BY <2>2 DEF Rtc, RtcExpire, RtcExit, QuietInv, Masked, Idle
  <2> QED
    BY <2>1, <2>2
<1>3. \A t \in Timers : is_running'[t] => is_running[t] /\ (t \in started => t \in started')
  <2>1. CASE RtcExpire
    <3>1. PICK u : /\ u = list[loc.at] /\ is_running' = [is_running EXCEPT ![u] = FALSE]
                   /\ started' = started \ {u} \/ started' = started
      BY <2>1 DEF RtcExpire
    <3>2. \A t \in Timers : is_running'[t] => t # u /\ is_running[t]
      BY <3>1 DEF Types, RunTypes
    <3> QED
      BY <3>1, <3>2
  <2>2. CASE ~RtcExpire
    BY <2>2 DEF Rtc, RtcEnter, RtcExit
  <2> QED
    BY <2>1, <2>2
<1> QED
  BY <1>1, <1>2, <1>3, Aside DEF Listing, Idle, Went

LEMMA SwiQuiets ==
  ASSUME QuietInv, OrderInv, OrderInv', Types, Swi
  PROVE  QuietInv'
<1>1. UNCHANGED <<thread, masked, started>> /\ isr' # "lost"
  BY DEF Swi, SwiEnter, SwiExpire, SwiExpireDone, SwiRestart, SwiStart, SwiStop, SwiStopAll,
         SwiListDone, SwiCompare, SwiSetCompare, SwiCheckCompare, OrderInv, Nodes
<1>2. ~masked
  <2>1. CASE SwiEnter
    BY <2>1 DEF SwiEnter
  <2>2. CASE ~SwiEnter
    BY <2>2 DEF Swi, SwiExpire, SwiExpireDone, SwiRestart, SwiStart, SwiStop, SwiStopAll, Dequeue,
         SwiListDone, SwiCompare, SwiSetCompare, SwiCheckCompare, QuietInv, Masked, Idle
  <2> QED
    BY <2>1, <2>2
<1>3. CASE SwiEnter \/ SwiExpire \/ SwiExpireDone
  <2>1. Listing'
    BY <1>3 DEF SwiEnter, SwiExpire, SwiExpireDone, Listing
  <2> QED
    BY <1>1, <1>2, <2>1, Aside
<1>4. CASE SwiRestart \/ SwiStart \/ SwiStop \/ SwiStopAll
  <2>1. isr = "list_insertions" /\ (isr' = isr \/ isr' = "lost")
    BY <1>4 DEF SwiRestart, SwiStart, SwiStop, SwiStopAll, Dequeue, Insert
  <2>2. Listing'
    BY <1>1, <2>1 DEF Listing
  <2> QED
    BY <1>1, <1>2, <2>2, Aside
<1>5. CASE SwiListDone
  <2>1. UNCHANGED is_running /\ m_op_queue = <<>>
    BY <1>5 DEF SwiListDone, NothingLeft
  <2>2. \A t \in Timers : is_running'[t] => t \in started'
    BY <1>1, <2>1, OnlyStartedRun
  <2> QED
    BY <1>1, <1>2, <2>2 DEF QuietInv, Quieted, Masked
<1>6. CASE SwiCompare \/ SwiSetCompare \/ SwiCheckCompare
  <2>1. UNCHANGED is_running /\ isr \in {"compare", "set_compare", "check_compare"}
    BY <1>6 DEF SwiCompare, SwiSetCompare, SwiCheckCompare
  <2>2. ~Listing
    BY <2>1 DEF Listing
  <2> QED
    BY <1>1, <1>2, <2>1, <2>2, Aside DEF Went
<1> QED
  BY <1>3, <1>4, <1>5, <1>6 DEF Swi

LEMMA NextQuiets ==
  ASSUME QuietInv, OrderInv, OrderInv', ServiceInv, Types, UsesStopAll \subseteq {"main"},
         [Next]_vars
  PROVE  QuietInv'
<1>1. CASE Tick \/ UNCHANGED vars
  <2>1. UNCHANGED <<thread, masked, isr, is_running, started>>
    BY <1>1 DEF Tick, vars
  <2>2. \A t : Stopping(t)' <=> Stopping(t)
    BY <2>1 DEF Stopping
  <2> QED
    BY <2>1, <2>2 DEF QuietInv, Quieted, Masked, Listing
<1> QED
  BY <1>1, ThreadQuiets, HandlerQuiets, RtcQuiets, SwiQuiets DEF Next

\* StoppedStaysQuiet, for periodic timers started only when they are not
\* started and app_timer_stop_all called outside critical regions and
\* handlers: RTC1 calls the handler of a timer only while the application
\* counts it as started, or is still inside the call that stops it.
THEOREM StoppedIsQuiet ==
  ASSUME Repeated, RestartRunning = FALSE, UsesStopAll \subseteq {"main"}
  PROVE  Spec => StoppedStaysQuiet
<1>1. Init => QuietInv
  <2>1. Init => /\ is_running = [t \in Timers |-> FALSE] /\ ~masked
    BY DEF Init
  <2> QED
    BY <2>1 DEF QuietInv, Quieted, Masked
<1>2. ASSUME QuietInv, Types, OrderInv, OrderInv', ServiceInv, [Next]_vars PROVE QuietInv'
  BY <1>2, NextQuiets
<1>3. ASSUME QuietInv, Types, [Next]_vars, isr = "rtc", isr' = "timeout_handler"
      PROVE  \/ loc'.timer \in started
             \/ thread.pc \in {"sched", "return"} /\ loc'.timer \in thread.stopping
  <2>1. RtcExpire
    BY <1>3 DEF Next, vars, Tick, Thread, EnterCritical, ExitCritical, StopQueue, StopAllQueue,
       Sched, Return, Create, StopClear, StartQueue, ThreadRuns, TimeoutHandler, HandlerStopAll,
       HandlerReturn, HandlerStop, HandlerStart, Rtc, RtcEnter, RtcExit, Idle, Swi, SwiEnter,
       SwiExpire, SwiExpireDone, SwiRestart, SwiStart, SwiStop, SwiStopAll, SwiListDone, Dequeue,
       SwiCompare, SwiSetCompare, SwiCheckCompare
  <2> DEFINE t == list[loc.at]
  <2>2. MustCall(t)
    BY <1>3, <2>1 DEF RtcExpire
  <2>3. loc'.timer = t
    BY <1>3, <2>1, <2>2 DEF RtcExpire, Types, LocalTypes, Locals
  <2>4. t \in Timers
    <3>1. loc.at \in 1 .. Len(list)
      BY <1>3, <2>1 DEF RtcExpire, Types, LocalTypes, Locals, WalkTypes
    <3>2. list \in Seq(Timers)
      BY <1>3 DEF Types, ListTypes, Listed
    <3> QED
      BY <3>1, <3>2, ElementOfSeq
  <2>5. ~Listing
    BY <1>3 DEF Listing
  <2> QED
    BY <1>3, <2>2, <2>3, <2>4, <2>5 DEF MustCall, QuietInv, Quieted, Stopping
<1> QED
  BY <1>1, <1>2, <1>3, OrderInvariant, ServiceInvariant, PTL DEF Spec, StoppedStaysQuiet

-----------------------------------------------------------------------------
(***************************************************************************)
(* Differences of counter values.                                          *)
(***************************************************************************)
LEMMA Wraps ==
  ASSUME NEW x \in Int
  PROVE  /\ 0 <= x /\ x < W => x % W = x
         /\ -W <= x /\ x < 0 => x % W = x + W
         /\ W <= x /\ x < 2 * W => x % W = x - W
BY TicksAssumption DEF W

LEMMA DiffIs ==
  ASSUME NEW a \in Counts, NEW b \in Counts
  PROVE  /\ TicksDiff(a, b) = IF a >= b THEN a - b ELSE a - b + W
         /\ TicksDiff(a, b) \in Counts /\ TicksDiff(a, b) < W
<1>1. a \in Nat /\ b \in Nat /\ a < W /\ b < W
  BY TicksAssumption DEF Counts, W
<1> DEFINE x == a - b
<1>2. x \in Int /\ -W <= x /\ x < W /\ (a >= b <=> 0 <= x)
  BY <1>1, Width
<1> HIDE DEF x
<1>3. x % W = IF 0 <= x THEN x ELSE x + W
  BY <1>2, Wraps
<1>4. x % W \in Counts /\ \A y \in Counts : y < W
  BY <1>2, Width, TicksAssumption DEF Counts, W
<1> QED
  BY <1>2, <1>3, <1>4 DEF TicksDiff, x

\* A counter value moved on, and how far it then is from an earlier one.
LEMMA MovedOn ==
  ASSUME NEW a \in Counts, NEW x \in Counts
  PROVE  /\ (a + x) % W = IF a + x < W THEN a + x ELSE a + x - W
         /\ (a + x) % W \in Counts
<1>1. a \in Nat /\ x \in Nat /\ a < W /\ x < W
  BY TicksAssumption DEF Counts, W
<1> DEFINE y == a + x
<1>2. y \in Int /\ 0 <= y /\ y < 2 * W
  BY <1>1, Width
<1> HIDE DEF y
<1>3. y % W = (IF y < W THEN y ELSE y - W) /\ y % W \in Counts
  BY <1>2, Wraps, Width
<1>4. y - W = a + x - W
  BY <1>1, Width DEF y
<1> QED
  BY <1>3, <1>4, Zenon DEF y

LEMMA DiffMoved ==
  ASSUME NEW a \in Counts, NEW b \in Counts, NEW x \in Counts
  PROVE  /\ TicksDiff(a, (b + x) % W) =
              IF TicksDiff(a, b) >= x THEN TicksDiff(a, b) - x ELSE TicksDiff(a, b) - x + W
         /\ TicksDiff((a + x) % W, b) =
              IF TicksDiff(a, b) + x < W THEN TicksDiff(a, b) + x ELSE TicksDiff(a, b) + x - W
         /\ TicksDiff((a + x) % W, a) = x
         /\ TicksDiff(a, (a + x) % W) = IF x = 0 THEN 0 ELSE W - x
<1>1. /\ a \in Nat /\ x \in Nat /\ b \in Nat /\ a < W /\ x < W /\ b < W
  BY TicksAssumption DEF Counts, W
<1>2. /\ (a + x) % W \in Counts /\ (a + x) % W = IF a + x < W THEN a + x ELSE a + x - W
      /\ (b + x) % W \in Counts /\ (b + x) % W = IF b + x < W THEN b + x ELSE b + x - W
  BY MovedOn
<1> DEFINE c == (b + x) % W
           d == (a + x) % W
<1>3. W \in Nat
  BY Width
<1> HIDE DEF c, d
<1>4. c = (IF b + x < W THEN b + x ELSE b + x - W) /\ d = (IF a + x < W THEN a + x ELSE a + x - W)
  BY <1>2 DEF c, d
<1>5. /\ TicksDiff(a, b) = IF a >= b THEN a - b ELSE a - b + W
      /\ TicksDiff(a, c) = IF a >= c THEN a - c ELSE a - c + W
      /\ TicksDiff(d, b) = IF d >= b THEN d - b ELSE d - b + W
      /\ TicksDiff(d, a) = IF d >= a THEN d - a ELSE d - a + W
      /\ TicksDiff(a, d) = IF a >= d THEN a - d ELSE a - d + W
  BY <1>2, DiffIs DEF c, d
<1> QED
  BY <1>1, <1>3, <1>4, <1>5 DEF c, d

\* What TicksToExpire adds or takes off.
LEMMA TicksToExpireIs ==
  ASSUME m_ticks_latest \in Counts, NEW at \in Counts, NEW first \in Counts
  PROVE  LET d == TicksDiff(at, m_ticks_latest)
         IN  /\ d < MAX_RTC_COUNTER_VAL \div 2 => TicksToExpire(at, first) = d + first
             /\ TicksToExpire(at, first) >= first + d - W
             /\ d = 0 => TicksToExpire(at, first) >= first
             /\ TicksToExpire(at, first) >= 0
<1> DEFINE d == TicksDiff(at, m_ticks_latest)
           e == TicksDiff(m_ticks_latest, at)
<1>1. /\ d \in Nat /\ e \in Nat /\ first \in Nat /\ W \in Nat /\ d < W
      /\ e = IF d = 0 THEN 0 ELSE W - d
  <2>1. at \in Nat /\ m_ticks_latest \in Nat /\ first \in Nat /\ W \in Nat
    BY Width
  <2>2. d \in Nat /\ e \in Nat /\ d < W
    BY DiffIs, Width
  <2>3. d = (IF at >= m_ticks_latest THEN at - m_ticks_latest ELSE at - m_ticks_latest + W)
        /\ e = IF m_ticks_latest >= at THEN m_ticks_latest - at ELSE m_ticks_latest - at + W
    BY DiffIs
  <2>4. at < W /\ m_ticks_latest < W
    BY <2>1, TicksAssumption DEF Counts, W
  <2> HIDE DEF d, e
  <2> QED
    BY <2>1, <2>2, <2>3, <2>4
<1>2. TicksToExpire(at, first) = IF d < MAX_RTC_COUNTER_VAL \div 2 THEN d + first
                                 ELSE IF first > e THEN first - e ELSE 0
  BY DEF TicksToExpire
<1> DEFINE half == MAX_RTC_COUNTER_VAL \div 2
<1>3. half \in Int
  BY TicksAssumption
<1> HIDE DEF d, e, half
<1> QED
  BY <1>1, <1>2, <1>3 DEF d, half

-----------------------------------------------------------------------------
(***************************************************************************)
(* When the timers are due after the list changed.                         *)
(***************************************************************************)
LEMMA ListedNext ==
  Listed' =>
    /\ DueAt'[0] = 0
    /\ \A i \in 0 .. Len(list') : DueAt'[i] \in Nat
    /\ \A i \in 1 .. Len(list') : DueAt'[i] = DueAt'[i - 1] + ticks_to_expire'[list'[i]]
<1>1. Listed => /\ DueAt[0] = 0
                /\ \A i \in 0 .. Len(list) : DueAt[i] \in Nat
                /\ \A i \in 1 .. Len(list) : DueAt[i] = DueAt[i - 1] + ticks_to_expire[list[i]]
  BY DueAtGrows
<1>2. Listed' => (/\ DueAt[0] = 0
                  /\ \A i \in 0 .. Len(list) : DueAt[i] \in Nat
                  /\ \A i \in 1 .. Len(list) : DueAt[i] = DueAt[i - 1] + ticks_to_expire[list[i]])'
  BY <1>1, PTL
<1> QED
  BY <1>2

LEMMA InsertedAt ==
  ASSUME NEW S, NEW s \in Seq(S), NEW i \in 1 .. Len(s) + 1, NEW e \in S,
         NEW k \in 1 .. Len(s) + 1
  PROVE  InsertAt(s, i, e)[k] = IF k < i THEN s[k] ELSE IF k = i THEN e ELSE s[k - 1]
BY Inserted, SMTT(30)

\* The sums are the only function that grows by the deltas.
LEMMA SumsAre ==
  ASSUME Listed', NEW g, g[0] = 0,
         \A i \in 1 .. Len(list') : g[i] = g[i - 1] + ticks_to_expire'[list'[i]]
  PROVE  \A i \in 0 .. Len(list') : DueAt'[i] = g[i]
<1> DEFINE n == Len(list')
           F == DueAt'
           S == {j \in Nat : j <= n => F[j] = g[j]}
<1>1. n \in Nat
  BY LenProperties DEF Listed
<1>2. F[0] = 0 /\ \A i \in 1 .. n : F[i] = F[i - 1] + ticks_to_expire'[list'[i]]
  BY ListedNext
<1>3. \A i \in 1 .. n : g[i] = g[i - 1] + ticks_to_expire'[list'[i]]
  OBVIOUS
<1> HIDE DEF n, F
<1>4. 0 \in S
  BY <1>2
<1>5. ASSUME NEW j \in Nat, j \in S PROVE j + 1 \in S
  <2> SUFFICES ASSUME j + 1 <= n PROVE F[j + 1] = g[j + 1]
    OBVIOUS
  <2>1. F[j] = g[j] /\ j + 1 \in 1 .. n /\ (j + 1) - 1 = j
    BY <1>1, <1>5
  <2>2. F[j + 1] = F[(j + 1) - 1] + ticks_to_expire'[list'[j + 1]]
        /\ g[j + 1] = g[(j + 1) - 1] + ticks_to_expire'[list'[j + 1]]
    BY <1>2, <1>3, <2>1
  <2> QED
    BY <2>1, <2>2
<1>6. Nat \subseteq S
  <2> HIDE DEF S
  <2> QED
    BY <1>4, <1>5, Induction
<1>7. \A i \in 0 .. n : F[i] = g[i]
  BY <1>1, <1>6
<1> QED
  BY <1>7 DEF n, F

\* An inserted timer is due after the ticks it was inserted with, the others when they were.
LEMMA InsertDue ==
  ASSUME Types, IsInjective(list), NEW t \in Timers \ ToSet(list), NEW ticks \in Nat,
         Insert(t, ticks)
  PROVE  /\ Listed' /\ Len(list') = Len(list) + 1
         /\ \A i \in 1 .. Len(list') :
              \/ list'[i] = t /\ DueAt'[i] = ticks
              \/ \E k \in {i - 1, i} \cap 1 .. Len(list) : list'[i] = list[k] /\ DueAt'[i] = DueAt[k]
<1>2a. PICK pos \in 1 .. Len(list) + 1 : pos = Place(ticks)
  BY PlaceFits DEF Types, ListTypes
<1> DEFINE n == Len(list)
           own == ticks - DueAt[pos - 1]
           D == DueAt
           d == ticks_to_expire
           e == ticks_to_expire'
           moved == [d EXCEPT ![t] = own]
           g == [i \in 0 .. n + 1 |-> IF i < pos THEN D[i] ELSE IF i = pos THEN ticks ELSE D[i - 1]]
<1>1. Listed
  BY DEF Types, ListTypes
<1>2. Listed'
  BY InsertTypes DEF Listed
<1>3. /\ n \in Nat /\ list \in Seq(Timers) /\ d \in [Timers -> Nat] /\ pos \in 1 .. n + 1
      /\ \A i \in 1 .. n : list[i] \in Timers /\ list[i] # t
  <2>1. \A i \in 1 .. n : list[i] \in Timers /\ list[i] \in ToSet(list)
    BY <1>1, ElementOfSeq, LenProperties DEF Listed, ToSet
  <2> QED
    BY <1>1, <2>1, LenProperties DEF Listed
<1>4. /\ list' = InsertAt(list, pos, t)
      /\ e = IF pos > n THEN moved ELSE [moved EXCEPT ![list[pos]] = @ - own]
  BY <1>2a DEF Insert
<1>5. /\ Len(list') = n + 1
      /\ \A k \in 1 .. n + 1 : list'[k] = IF k < pos THEN list[k] ELSE IF k = pos THEN t ELSE list[k - 1]
  <2>1. t \in Timers /\ list \in Seq(Timers) /\ list' = InsertAt(list, pos, t)
    BY <1>3, <1>4
  <2> HIDE DEF own, D, d, e, moved, g
  <2>2. Len(InsertAt(list, pos, t)) = Len(list) + 1
    BY <2>1, Inserted
  <2>3. ASSUME NEW k \in 1 .. Len(list) + 1
        PROVE  InsertAt(list, pos, t)[k] =
                 IF k < pos THEN list[k] ELSE IF k = pos THEN t ELSE list[k - 1]
    BY <2>1, InsertedAt
  <2> QED
    BY <2>1, <2>2, <2>3
<1>6. /\ D[0] = 0 /\ \A i \in 0 .. n : D[i] \in Nat
      /\ \A i \in 1 .. n : D[i] = D[i - 1] + d[list[i]]
  BY <1>1, DueAtGrows
<1>7. \A i, j \in 1 .. n : list[i] = list[j] => i = j
  BY <1>3, LenProperties DEF IsInjective
<1>8. /\ e[t] = own
      /\ pos <= n => e[list[pos]] = d[list[pos]] - own
      /\ \A i \in 1 .. n : i # pos => e[list[i]] = d[list[i]]
  <2>1. moved[t] = own /\ \A u \in Timers : u # t => moved[u] = d[u]
    BY <1>3
  <2>2. CASE pos > n
    <3>1. e = moved
      BY <1>4, <2>2
    <3> HIDE DEF moved, e, d, own
    <3> QED
      BY <1>3, <2>1, <2>2, <3>1
  <2>3. CASE ~(pos > n)
    <3>1. pos \in 1 .. n /\ e = [moved EXCEPT ![list[pos]] = @ - own] /\ DOMAIN moved = Timers
      BY <1>3, <1>4, <2>3
    <3> HIDE DEF moved, e, d, own, n
    <3>2. list[pos] \in Timers /\ list[pos] # t
      BY <1>3, <3>1
    <3>3. e[list[pos]] = moved[list[pos]] - own /\ \A u \in Timers : u # list[pos] => e[u] = moved[u]
      BY <3>1, <3>2
    <3>4. \A i \in 1 .. n : i # pos => list[i] # list[pos]
      BY <1>7, <3>1
    <3> QED
      BY <1>3, <2>1, <3>2, <3>3, <3>4
  <2> QED
    BY <2>2, <2>3
<1>9. own = ticks - D[pos - 1]
  OBVIOUS
<1>10. \A i \in 0 .. n + 1 : g[i] = IF i < pos THEN D[i] ELSE IF i = pos THEN ticks ELSE D[i - 1]
  OBVIOUS
<1> HIDE DEF n, own, D, d, e, moved, g
<1>11. g[0] = 0
  BY <1>3, <1>6, <1>10
<1>12. ASSUME NEW i \in 1 .. n + 1 PROVE g[i] = g[i - 1] + e[list'[i]]
  <2>1. i - 1 \in 0 .. n + 1 /\ i \in 0 .. n + 1
    BY <1>3
  <2>2. CASE i < pos
    <3>1. i \in 1 .. n /\ i # pos /\ i - 1 < pos
      BY <1>3, <2>2
    <3> QED
      BY <1>5, <1>6, <1>8, <1>10, <2>1, <2>2, <3>1
  <2>3. CASE i = pos
    <3>1. list'[i] = t /\ g[i] = ticks /\ g[i - 1] = D[pos - 1] /\ D[pos - 1] \in Nat
      <4>1. i - 1 < pos /\ pos - 1 \in 0 .. n
        BY <1>3, <2>3
      <4> QED
        BY <1>3, <1>5, <1>6, <1>10, <2>1, <2>3, <4>1
    <3> QED
      BY <1>8, <1>9, <3>1
  <2>4. CASE i = pos + 1
    <3>1. pos \in 1 .. n /\ pos - 1 \in 0 .. n /\ ~(i < pos) /\ i # pos /\ i - 1 = pos
      BY <1>3, <2>4
    <3>2. list'[i] = list[pos] /\ g[i] = D[pos] /\ g[i - 1] = ticks
      BY <1>5, <1>10, <2>1, <3>1
    <3>3. D[pos] = D[pos - 1] + d[list[pos]] /\ D[pos - 1] \in Nat /\ d[list[pos]] \in Nat
      BY <1>3, <1>6, <3>1
    <3>4. e[list[pos]] = d[list[pos]] - own
      BY <1>3, <1>8, <3>1
    <3> QED
      BY <1>9, <3>2, <3>3, <3>4
  <2>5. CASE i > pos + 1
    <3>1. i - 1 \in 1 .. n /\ i - 1 # pos /\ ~(i < pos) /\ i # pos /\ ~(i - 1 < pos)
      BY <1>3, <2>5
    <3>2. list'[i] = list[i - 1] /\ g[i] = D[i - 1] /\ g[i - 1] = D[(i - 1) - 1]
      BY <1>5, <1>10, <2>1, <3>1
    <3> QED
      BY <1>6, <1>8, <3>1, <3>2
  <2> QED
    BY <1>3, <2>2, <2>3, <2>4, <2>5
<1>13. \A i \in 0 .. n + 1 : DueAt'[i] = g[i]
  <2>1. \A i \in 1 .. Len(list') : g[i] = g[i - 1] + ticks_to_expire'[list'[i]]
    BY <1>5, <1>12 DEF e
  <2> QED
    BY <1>2, <1>5, <1>11, <2>1, SumsAre
<1>14. ASSUME NEW i \in 1 .. n + 1
       PROVE  \/ list'[i] = t /\ DueAt'[i] = ticks
              \/ \E k \in {i - 1, i} \cap 1 .. n : list'[i] = list[k] /\ DueAt'[i] = D[k]
  <2>1. DueAt'[i] = IF i < pos THEN D[i] ELSE IF i = pos THEN ticks ELSE D[i - 1]
    BY <1>3, <1>10, <1>13
  <2>2. CASE i < pos
    <3>1. i \in 1 .. n
      BY <1>3, <2>2
    <3> QED
      BY <1>5, <2>1, <2>2, <3>1
  <2>3. CASE i = pos
    BY <1>3, <1>5, <2>1, <2>3
  <2>4. CASE i > pos
    <3>1. i - 1 \in 1 .. n /\ ~(i < pos) /\ i # pos
      BY <1>3, <2>4
    <3> QED
      BY <1>5, <2>1, <3>1
  <2> QED
    BY <1>3, <2>2, <2>3, <2>4
<1> QED
  BY <1>2, <1>5, <1>14 DEF n, D

\* The timer behind a removed one takes over its ticks: all stay due when they were.
LEMMA RemoveDue ==
  ASSUME Listed, Listed', IsInjective(list), NEW p \in 1 .. Len(list),
         list' = RemoveAt(list, p),
         ticks_to_expire' = IF p = Len(list) THEN ticks_to_expire
           ELSE [ticks_to_expire EXCEPT ![list[p + 1]] = @ + ticks_to_expire[list[p]]]
  PROVE  \A i \in 1 .. Len(list') :
           \E k \in 1 .. Len(list) : /\ k = IF i < p THEN i ELSE i + 1
                                     /\ list'[i] = list[k] /\ DueAt'[i] = DueAt[k]
<1> DEFINE n == Len(list)
           D == DueAt
           d == ticks_to_expire
           e == ticks_to_expire'
           g == [i \in 0 .. n - 1 |-> IF i < p THEN D[i] ELSE D[i + 1]]
<1>3. /\ n \in Nat /\ list \in Seq(Timers) /\ d \in [Timers -> Nat] /\ p \in Nat /\ p >= 1 /\ p <= n
      /\ \A i \in 1 .. n : list[i] \in Timers
  BY ElementOfSeq, LenProperties DEF Listed
<1>5. /\ Len(list') = n - 1
      /\ \A k \in 1 .. n - 1 : list'[k] = IF k < p THEN list[k] ELSE list[k + 1]
  BY <1>3, Removed
<1>6. /\ D[0] = 0 /\ \A i \in 0 .. n : D[i] \in Nat
      /\ \A i \in 1 .. n : D[i] = D[i - 1] + d[list[i]]
  BY DueAtGrows
<1>7. \A i, j \in 1 .. n : list[i] = list[j] => i = j
  BY <1>3, LenProperties DEF IsInjective
<1>8. e = IF p = n THEN d ELSE [d EXCEPT ![list[p + 1]] = @ + d[list[p]]]
  OBVIOUS
<1>10. \A i \in 0 .. n - 1 : g[i] = IF i < p THEN D[i] ELSE D[i + 1]
  OBVIOUS
<1> HIDE DEF n, D, d, e, g
<1>9. /\ \A i \in 1 .. n : i # p + 1 => e[list[i]] = d[list[i]]
      /\ p < n => e[list[p + 1]] = d[list[p + 1]] + d[list[p]]
  <2>1. CASE p = n
    BY <1>3, <1>8, <2>1
  <2>2. CASE p < n
    <3>1. p + 1 \in 1 .. n /\ p # n
      BY <1>3, <2>2
    <3>2. list[p + 1] \in Timers
      BY <1>3, <3>1
    <3> QED
      BY <1>3, <1>7, <1>8, <3>1, <3>2
  <2> QED
    BY <1>3, <2>1, <2>2
<1>11. g[0] = 0 \/ n = 0
  BY <1>3, <1>6, <1>10
<1>12. ASSUME NEW i \in 1 .. n - 1 PROVE g[i] = g[i - 1] + e[list'[i]]
  <2>1. i - 1 \in 0 .. n - 1 /\ i \in 0 .. n - 1 /\ i \in 1 .. n /\ i + 1 \in 1 .. n
    BY <1>3
  <2>2. CASE i < p
    <3>1. i - 1 < p /\ i # p + 1
      BY <1>3, <2>2
    <3>2. g[i] = D[i] /\ g[i - 1] = D[i - 1] /\ list'[i] = list[i]
      BY <1>5, <1>10, <2>1, <2>2, <3>1
    <3> QED
      BY <1>6, <1>9, <2>1, <3>1, <3>2
  <2>3. CASE i = p
    <3>1. g[i] = D[i + 1] /\ g[i - 1] = D[i - 1] /\ list'[i] = list[i + 1]
      BY <1>3, <1>5, <1>10, <2>1, <2>3
    <3>2. D[i + 1] = D[i] + d[list[i + 1]] /\ D[i] = D[i - 1] + d[list[i]]
      <4>1. (i + 1) - 1 = i
        OBVIOUS
      <4> QED
        BY <1>6, <2>1, <4>1
    <3>3. D[i - 1] \in Nat /\ d[list[i]] \in Nat /\ d[list[i + 1]] \in Nat
      BY <1>3, <1>6, <2>1
    <3>4. e[list[i + 1]] = d[list[i + 1]] + d[list[i]]
      BY <1>3, <1>9, <2>1, <2>3
    <3> QED
      BY <3>1, <3>2, <3>3, <3>4
  <2>4. CASE i > p
    <3>1. ~(i < p) /\ ~(i - 1 < p) /\ i + 1 # p + 1 /\ (i - 1) + 1 = i /\ (i + 1) - 1 = i
      BY <1>3, <2>4
    <3>2. g[i] = D[i + 1] /\ g[i - 1] = D[i] /\ list'[i] = list[i + 1]
      BY <1>5, <1>10, <2>1, <3>1
    <3> QED
      BY <1>6, <1>9, <2>1, <3>1, <3>2
  <2> QED
    BY <1>3, <2>2, <2>3, <2>4
<1>13. \A i \in 1 .. n - 1 : DueAt'[i] = g[i]
  <2>1. \A i \in 1 .. Len(list') : g[i] = g[i - 1] + ticks_to_expire'[list'[i]]
    BY <1>5, <1>12 DEF e
  <2>2. n # 0
    BY <1>3
  <2>3. \A i \in 0 .. Len(list') : DueAt'[i] = g[i]
    BY <1>11, <2>1, <2>2, SumsAre
  <2> QED
    BY <1>3, <1>5, <2>3
<1>14. ASSUME NEW i \in 1 .. n - 1
       PROVE  \E k \in 1 .. n : /\ k = IF i < p THEN i ELSE i + 1
                                /\ list'[i] = list[k] /\ DueAt'[i] = D[k]
  <2>1. i \in 1 .. n /\ i + 1 \in 1 .. n /\ i \in 0 .. n - 1
    BY <1>3
  <2> QED
    BY <1>5, <1>10, <1>13, <2>1
<1> QED
  BY <1>5, <1>14 DEF n, D

\* With the head gone, the others are due that much sooner after it.
LEMMA TailDue ==
  ASSUME Listed, Listed', IsInjective(list), list # <<>>, list' = Tail(list),
         ticks_to_expire' = [ticks_to_expire EXCEPT ![Head(list)] = 0]
  PROVE  \A i \in 1 .. Len(list') :
           /\ i + 1 \in 1 .. Len(list) /\ list'[i] = list[i + 1]
           /\ DueAt'[i] = DueAt[i + 1] - ticks_to_expire[Head(list)]
<1> DEFINE n == Len(list)
           D == DueAt
           d == ticks_to_expire
           e == ticks_to_expire'
           h == Head(list)
           g == [i \in 0 .. n - 1 |-> D[i + 1] - d[h]]
<1>3. /\ n \in Nat \ {0} /\ list \in Seq(Timers) /\ d \in [Timers -> Nat]
      /\ h = list[1] /\ h \in Timers
      /\ \A i \in 1 .. n : list[i] \in Timers
  BY ElementOfSeq, LenProperties, EmptySeq, HeadTailProperties DEF Listed
<1>5. /\ Len(list') = n - 1
      /\ \A k \in 1 .. n - 1 : list'[k] = list[k + 1]
  BY <1>3, HeadTailProperties
<1>6. /\ D[0] = 0 /\ \A i \in 0 .. n : D[i] \in Nat
      /\ \A i \in 1 .. n : D[i] = D[i - 1] + d[list[i]]
  BY DueAtGrows
<1>7. \A i, j \in 1 .. n : list[i] = list[j] => i = j
  BY <1>3, LenProperties DEF IsInjective
<1>10. \A i \in 0 .. n - 1 : g[i] = D[i + 1] - d[h]
  OBVIOUS
<1>8. \A u \in Timers : u # h => e[u] = d[u]
  BY <1>3
<1> HIDE DEF n, D, d, e, g, h
<1>11. g[0] = 0
  <2>1. 1 \in 1 .. n /\ 0 \in 0 .. n - 1 /\ 1 - 1 = 0
    BY <1>3
  <2>2. D[1] = D[1 - 1] + d[list[1]]
    BY <1>6, <2>1
  <2>3. d[h] \in Nat
    BY <1>3
  <2> QED
    BY <1>3, <1>6, <1>10, <2>1, <2>2, <2>3
<1>12. ASSUME NEW i \in 1 .. n - 1 PROVE g[i] = g[i - 1] + e[list'[i]]
  <2>1. /\ i - 1 \in 0 .. n - 1 /\ i \in 0 .. n - 1 /\ i \in 1 .. n /\ i + 1 \in 1 .. n /\ 1 \in 1 .. n
        /\ (i - 1) + 1 = i /\ (i + 1) - 1 = i /\ i + 1 # 1
    BY <1>3
  <2>2. g[i] = D[i + 1] - d[h] /\ g[i - 1] = D[i] - d[h] /\ list'[i] = list[i + 1]
    BY <1>5, <1>10, <2>1
  <2>3. D[i + 1] = D[i] + d[list[i + 1]]
    BY <1>6, <2>1
  <2>4. e[list[i + 1]] = d[list[i + 1]]
    <3>1. list[i + 1] # list[1] /\ list[i + 1] \in Timers
      BY <1>3, <1>7, <2>1
    <3> QED
      BY <1>3, <1>8, <3>1
  <2>5. D[i] \in Nat /\ d[h] \in Nat /\ d[list[i + 1]] \in Nat
    BY <1>3, <1>6, <2>1
  <2>6. \A a, b, c \in Nat : (a + b) - c = (a - c) + b
    OBVIOUS
  <2>7. (D[i] + d[list[i + 1]]) - d[h] = (D[i] - d[h]) + d[list[i + 1]]
    BY <2>5, <2>6
  <2> QED
    BY <2>2, <2>3, <2>4, <2>7
<1>13. \A i \in 0 .. n - 1 : DueAt'[i] = g[i]
  <2>1. \A i \in 1 .. Len(list') : g[i] = g[i - 1] + ticks_to_expire'[list'[i]]
    BY <1>5, <1>12 DEF e
  <2> QED
    BY <1>5, <1>11, <2>1, SumsAre
<1>14. ASSUME NEW i \in 1 .. n - 1
       PROVE  i + 1 \in 1 .. n /\ list'[i] = list[i + 1] /\ DueAt'[i] = D[i + 1] - d[h]
  BY <1>3, <1>5, <1>10, <1>13
<1> QED
  BY <1>5, <1>14 DEF n, D, d, h

\* With ticks taken off the head, all are due that much sooner.
LEMMA HeadDue ==
  ASSUME Listed, Listed', IsInjective(list), list # <<>>, UNCHANGED list, NEW x \in Int,
         ticks_to_expire' = [ticks_to_expire EXCEPT ![Head(list)] = @ - x]
  PROVE  \A i \in 1 .. Len(list) : DueAt'[i] = DueAt[i] - x
<1> DEFINE n == Len(list)
           D == DueAt
           d == ticks_to_expire
           e == ticks_to_expire'
           h == Head(list)
           g == [i \in 0 .. n |-> IF i = 0 THEN 0 ELSE D[i] - x]
<1>3. /\ n \in Nat \ {0} /\ list \in Seq(Timers) /\ d \in [Timers -> Nat]
      /\ h = list[1] /\ h \in Timers
      /\ \A i \in 1 .. n : list[i] \in Timers
  BY ElementOfSeq, LenProperties, EmptySeq, HeadTailProperties DEF Listed
<1>6. /\ D[0] = 0 /\ \A i \in 0 .. n : D[i] \in Nat
      /\ \A i \in 1 .. n : D[i] = D[i - 1] + d[list[i]]
  BY DueAtGrows
<1>7. \A i, j \in 1 .. n : list[i] = list[j] => i = j
  BY <1>3, LenProperties DEF IsInjective
<1>10. \A i \in 0 .. n : g[i] = IF i = 0 THEN 0 ELSE D[i] - x
  OBVIOUS
<1>8. e[h] = d[h] - x /\ \A u \in Timers : u # h => e[u] = d[u]
  BY <1>3
<1> HIDE DEF n, D, d, e, g, h
<1>11. g[0] = 0
  BY <1>3, <1>10
<1>12. ASSUME NEW i \in 1 .. n PROVE g[i] = g[i - 1] + e[list[i]]
  <2>1. /\ i - 1 \in 0 .. n /\ i \in 0 .. n /\ i # 0 /\ 1 \in 1 .. n
    BY <1>3
  <2>2. D[i] = D[i - 1] + d[list[i]] /\ g[i] = D[i] - x
    BY <1>6, <1>10, <2>1
  <2>3. D[i - 1] \in Nat /\ d[list[i]] \in Nat
    BY <1>3, <1>6, <2>1
  <2>4. CASE i = 1
    <3>1. g[i - 1] = 0 /\ D[i - 1] = 0 /\ e[list[i]] = d[list[i]] - x
      BY <1>3, <1>6, <1>8, <1>10, <2>1, <2>4
    <3> QED
      BY <2>2, <2>3, <3>1
  <2>5. CASE i # 1
    <3>1. g[i - 1] = D[i - 1] - x
      BY <1>10, <2>1, <2>5
    <3>2. e[list[i]] = d[list[i]]
      <4>1. list[i] # list[1] /\ list[i] \in Timers
        BY <1>3, <1>7, <2>1, <2>5
      <4> QED
        BY <1>3, <1>8, <4>1
    <3> QED
      BY <2>2, <2>3, <3>1, <3>2
  <2> QED
    BY <2>4, <2>5
<1>13. \A i \in 0 .. n : DueAt'[i] = g[i]
  <2>1. \A i \in 1 .. Len(list') : g[i] = g[i - 1] + ticks_to_expire'[list'[i]]
    BY <1>12 DEF e, n
  <2> QED
    BY <1>11, <2>1, SumsAre DEF n
<1>14. ASSUME NEW i \in 1 .. n PROVE DueAt'[i] = D[i] - x
  BY <1>3, <1>10, <1>13
<1> QED
  BY <1>14 DEF n, D

LEMMA NoneThere == Distinct(<<>>) /\ NodesOf(<<>>) = {} /\ ToSet(<<>>) = {}
BY DEF Distinct, NodesOf, ToSet

-----------------------------------------------------------------------------
(***************************************************************************)
(* Unless the list is lost no timer is in it twice, or in it and about to  *)
(* be restarted, whatever the application does.                            *)
(***************************************************************************)
Apart ==
  isr # "lost" =>
    /\ IsInjective(list) /\ Distinct(loc.restart) /\ ToSet(list) \cap Restarting = {}
    /\ loc.restart # <<>> => Listing

LEMMA LostStays ==
  ASSUME isr = "lost", Next
  PROVE  Tick \/ ExitCritical
BY DEF Next, Thread, EnterCritical, StopQueue, StopAllQueue,
   Sched, Return, Create, StopClear, StartQueue, ThreadRuns, TimeoutHandler, HandlerStopAll,
   HandlerReturn, HandlerStop, HandlerStart, Rtc, RtcEnter, RtcExpire, RtcExit, Idle, Swi, SwiEnter,
   SwiExpire, SwiExpireDone, SwiRestart, SwiStart, SwiStop, SwiStopAll, SwiListDone, Dequeue,
   SwiCompare, SwiSetCompare, SwiCheckCompare

LEMMA SameList ==
  ASSUME Apart, Types, isr # "lost",
         \/ Tick \/ Thread \/ TimeoutHandler \/ Rtc \/ SwiEnter \/ SwiExpireDone \/ SwiListDone
         \/ SwiCompare \/ SwiSetCompare \/ SwiCheckCompare \/ UNCHANGED vars
  PROVE  Apart'
<1> SUFFICES ASSUME list' = list,
                    \/ loc'.restart = <<>>
                    \/ loc'.restart = loc.restart /\ (isr' = isr \/ Listing' \/ ~Listing)
             PROVE  Apart'
  <2>1. CASE Tick \/ UNCHANGED vars
    BY <2>1 DEF Tick, vars, listVars
  <2>2. CASE Thread
    BY <2>2 DEF Thread, EnterCritical, ExitCritical, StopQueue, StopAllQueue, Sched, Return, Create,
       StopClear, StartQueue, listVars
  <2>3. CASE TimeoutHandler
    <3>1. UNCHANGED list /\ isr = "timeout_handler" /\ loc'.restart = loc.restart
      BY <2>3 DEF TimeoutHandler, HandlerStopAll, HandlerReturn, HandlerStop, HandlerStart, listVars,
         Types, LocalTypes, Locals
    <3> QED
      BY <3>1 DEF Listing
  <2>4. CASE Rtc
    <3>1. CASE RtcEnter
      BY <3>1 DEF RtcEnter, NoLoc, listVars, Listing, Idle
    <3>2. CASE RtcExpire
      BY <3>2 DEF RtcExpire, Types, LocalTypes, Locals, listVars, Listing
    <3>3. CASE RtcExit
      BY <3>3 DEF RtcExit, NoLoc, listVars
    <3> QED
      BY <2>4, <3>1, <3>2, <3>3 DEF Rtc
  <2>5. CASE SwiEnter
    BY <2>5 DEF SwiEnter, NoLoc, listVars
  <2>6. CASE SwiExpireDone
    BY <2>6 DEF SwiExpireDone, Types, LocalTypes, Locals, Listing
  <2>7. CASE SwiListDone \/ SwiCheckCompare
    BY <2>7 DEF SwiListDone, SwiCheckCompare, NoLoc, listVars
  <2>8. CASE SwiCompare
    <3>1. UNCHANGED list /\ (loc' = NoLoc \/ loc' = [NoLoc EXCEPT !.pre = counter])
      BY <2>8 DEF SwiCompare, listVars
    <3> QED
      BY <3>1 DEF NoLoc
  <2>9. CASE SwiSetCompare
    BY <2>9 DEF SwiSetCompare, listVars, Listing
  <2> QED
    BY <2>1, <2>2, <2>3, <2>4, <2>5, <2>6, <2>7, <2>8, <2>9
<1>1. CASE loc'.restart = <<>>
  BY <1>1, NoneThere DEF Apart, Restarting
<1>2. CASE loc'.restart = loc.restart /\ (isr' = isr \/ Listing' \/ ~Listing)
  BY <1>2 DEF Apart, Restarting, Listing
<1> QED
  BY <1>1, <1>2

LEMMA ListApart ==
  ASSUME Apart, Types, isr # "lost",
         SwiExpire \/ SwiRestart \/ SwiStart \/ SwiStop \/ SwiStopAll
  PROVE  Apart'
<1>1. /\ IsInjective(list) /\ Distinct(loc.restart) /\ ToSet(list) \cap Restarting = {}
      /\ Listing
  BY DEF Apart, SwiExpire, SwiRestart, SwiStart, SwiStop, SwiStopAll, Dequeue, Listing
<1>2. list \in Seq(Timers) /\ Listed /\ loc \in Locals /\ loc.restart \in Seq(Due)
  BY DEF Types, ListTypes, Listed, LocalTypes, Locals
<1>3. CASE SwiExpire
  <2> DEFINE t == Head(list)
             at == (loc.previous + (loc.expired + ticks_to_expire[t])) % W
             back == [node |-> t, at |-> at]
  <2>1. list # <<>> /\ list' = Tail(list) /\ UNCHANGED isr
    BY <1>3 DEF SwiExpire
  <2>2. IsInjective(list') /\ t \notin ToSet(list') /\ ToSet(list) = ToSet(list') \cup {t}
    BY <1>1, <1>2, <2>1, TailSet
  <2>3. back \in Due /\ back.node = t
    <3>1. t \in Timers
      BY <1>2, <2>1, HeadTailProperties
    <3> DEFINE y == loc.previous + (loc.expired + ticks_to_expire[t])
    <3>2. y \in Int
      <4>1. loc.previous \in Nat /\ loc.expired \in Nat /\ ticks_to_expire[t] \in Nat
        BY <1>2, <3>1, Width DEF Locals, Listed
      <4> QED
        BY <4>1
    <3> HIDE DEF y
    <3>3. y % W \in Counts
      BY <3>2, Width
    <3> QED
      BY <3>1, <3>3 DEF Due, y
  <2>4. loc'.restart = IF Restarts(t) THEN <<back>> \o loc.restart ELSE loc.restart
    BY <1>2, <1>3 DEF SwiExpire, Locals
  <2> HIDE DEF t, back
  <2>5. t \notin Restarting
    BY <1>1, <2>2
  <2>6. Distinct(loc'.restart) /\ Restarting' \subseteq Restarting \cup {t}
    BY <1>1, <1>2, <2>3, <2>4, <2>5, RestartFront DEF Restarting
  <2> QED
    BY <1>1, <2>1, <2>2, <2>6 DEF Apart, Listing
<1>4. CASE SwiRestart
  <2> PICK r : r = Head(loc.restart)
    OBVIOUS
  <2>1. /\ loc.restart # <<>> /\ loc'.restart = Tail(loc.restart)
        /\ Insert(r.node, TicksToExpire(r.at, ticks_periodic_interval[r.node]))
    BY <1>2, <1>4 DEF SwiRestart, Locals
  <2>2. r.node \in Timers /\ r.at \in Counts /\ ticks_periodic_interval[r.node] \in Counts
    <3>1. r \in Due
      BY <1>2, <2>1, HeadTailProperties
    <3> QED
      BY <3>1 DEF Due, Types, ListTypes
  <2>3. /\ Restarting = Restarting' \cup {r.node} /\ r.node \notin Restarting'
        /\ Distinct(loc'.restart)
    BY <1>1, <1>2, <2>1, RestartTail DEF Restarting
  <2>4. TicksToExpire(r.at, ticks_periodic_interval[r.node]) \in Nat
    BY <2>2, TicksToExpireNat
  <2>5. isr' = isr /\ IsInjective(list') /\ ToSet(list') = ToSet(list) \cup {r.node}
    BY <1>1, <2>1, <2>2, <2>3, <2>4, Linked
  <2> QED
    BY <1>1, <2>3, <2>5 DEF Apart, Listing
<1>5. ASSUME Dequeue("START") \/ Dequeue("STOP") \/ Dequeue("STOP_ALL"), loc'.restart = loc.restart,
             IsInjective(list'), UNCHANGED isr
      PROVE  Apart'
  <2>1. loc'.restart = <<>>
    BY <1>5 DEF Dequeue
  <2> QED
    BY <1>5, <2>1, NoneThere DEF Apart, Restarting
<1>6. CASE SwiStart
  <2> PICK op : op = Head(m_op_queue)
    OBVIOUS
  <2> DEFINE at == IF m_rtc1_reset THEN 0 ELSE op.at
  <2>1. Dequeue("START") /\ UNCHANGED loc /\ op.type = "START"
    BY <1>6 DEF SwiStart, Dequeue
  <2>2. op \in Operation
    BY <2>1, QueueTail DEF Dequeue, Types
  <2>3. op.node \in Timers /\ at \in Counts /\ op.first \in Counts
    BY <2>1, <2>2, Width DEF Operation
  <2>4. CASE is_running[op.node]
    <3>1. UNCHANGED <<isr, list>>
      BY <1>6, <2>4 DEF SwiStart, listVars
    <3> QED
      BY <1>1, <1>5, <2>1, <3>1
  <2>5. CASE ~is_running[op.node]
    <3>1. Insert(op.node, TicksToExpire(at, op.first))
      BY <1>6, <2>5 DEF SwiStart
    <3> HIDE DEF at
    <3>2. TicksToExpire(at, op.first) \in Nat
      BY <2>3, TicksToExpireNat
    <3>3. CASE op.node \in ToSet(list)
      BY <3>1, <3>3 DEF Insert, Apart
    <3>4. CASE op.node \notin ToSet(list)
      <4>1. isr' = isr /\ IsInjective(list')
        BY <1>1, <2>3, <3>1, <3>2, <3>4, Linked
      <4> QED
        BY <1>5, <2>1, <4>1
    <3> QED
      BY <3>3, <3>4
  <2> QED
    BY <2>4, <2>5
<1>7. CASE SwiStop
  <2> PICK t : t = Head(m_op_queue).node
    OBVIOUS
  <2>1. Dequeue("STOP") /\ UNCHANGED isr /\ loc'.restart = loc.restart
    BY <1>2, <1>7 DEF SwiStop, Locals
  <2>2. IsInjective(list')
    <3>1. CASE ~Found(t)
      BY <1>1, <1>7, <3>1 DEF SwiStop
    <3>2. CASE Found(t)
      <4>1. list' = RemoveAt(list, IndexOf(t)) /\ IndexOf(t) \in 1 .. Len(list)
        BY <1>2, <1>7, <3>2, FoundAt DEF SwiStop, Found
      <4> QED
        BY <1>1, <1>2, <4>1, RemovedSet
    <3> QED
      BY <3>1, <3>2
  <2> QED
    BY <1>5, <2>1, <2>2
<1>8. CASE SwiStopAll
  <2>1. Dequeue("STOP_ALL") /\ UNCHANGED <<isr, loc>> /\ list' = <<>>
    BY <1>8 DEF SwiStopAll
  <2>2. IsInjective(list')
    BY <2>1 DEF IsInjective
  <2> QED
    BY <1>5, <2>1, <2>2
<1> QED
  BY <1>3, <1>4, <1>6, <1>7, <1>8

LEMMA ApartInvariant == Spec => []Apart
<1>1. Init => Apart
  <2>1. Init => list = <<>> /\ loc.restart = <<>>
    BY DEF Init, NoLoc
  <2> QED
    BY <2>1, NoneThere DEF Apart, IsInjective, Restarting
<1>2. ASSUME Apart, Types, [Next]_vars PROVE Apart'
  <2>1. CASE isr = "lost" /\ Next
    BY <2>1, LostStays DEF Tick, ExitCritical, Apart
  <2>2. CASE isr # "lost" /\ Next
    BY <1>2, <2>2, SameList, ListApart DEF Next, Swi
  <2>3. CASE UNCHANGED vars
    <3>1. UNCHANGED <<list, loc, isr>>
      BY <2>3 DEF vars, listVars
    <3> QED
      BY <1>2, <3>1 DEF Apart, Restarting, Listing
  <2> QED
    BY <1>2, <2>1, <2>2, <2>3
<1> QED
  BY <1>1, <1>2, TypesInvariant, PTL DEF Spec

-----------------------------------------------------------------------------
(***************************************************************************)
(* Why no timeout comes early.  The deltas promise a time for every timer  *)
(* in the list, the operations and the restart list a time for every timer *)
(* on its way there; the invariant says that none of them is before the    *)
(* timer's deadline, whatever m_ticks_latest, the counter and the list do  *)
(* in the middle of their update.                                          *)
(***************************************************************************)
Working ==
  isr \in {"expired_timers", "list_insertions", "compare", "set_compare", "check_compare"}
Elapsed == TicksDiff(counter, m_ticks_latest)
\* While the SWI handler removes expired timers m_ticks_latest is ahead of the deltas.
Behind == IF isr = "expired_timers" THEN loc.elapsed ELSE 0

\* A queued start promises the deadline that the application asked for.
OpTicks(op) == TicksToExpire(IF m_rtc1_reset THEN 0 ELSE op.at, op.first)
OpLow(op) ==
  /\ op.due <= op.first
  /\ ~Working => TicksDiff(op.at, m_ticks_latest) < MAX_RTC_COUNTER_VAL \div 2
  /\ op.due + Elapsed <= OpTicks(op)

Phases ==
  /\ Working => m_ticks_elapsed = NONE
  /\ masked => isr = Idle /\ m_ticks_elapsed = NONE
  /\ m_rtc1_reset => Working /\ isr # "expired_timers"
  /\ m_rtc1_reset /\ isr = "list_insertions" => m_ticks_latest = 0 /\ loc.restart = <<>>
  /\ isr \in {"compare", "set_compare", "check_compare"} => m_op_queue = <<>>
  /\ m_ticks_elapsed < W
Places ==
  /\ Walks => /\ loc.at <= Len(list) + 1 /\ loc.expired = DueAt[loc.at - 1]
              /\ loc.expired + loc.elapsed < W
  /\ isr = "timeout_handler" => loc.timer \in Timers /\ remain[loc.timer] <= 0
  /\ isr = "expired_timers" =>
       /\ m_ticks_latest = (loc.previous + (loc.expired + loc.elapsed)) % W
       /\ loc.expired + loc.elapsed < W
ListLow == \A i \in 1 .. Len(list) : remain[list[i]] + (Behind + Elapsed) <= DueAt[i]
RestartLow ==
  \A r \in ToSet(loc.restart) :
    remain[r.node] + Elapsed <= TicksToExpire(r.at, ticks_periodic_interval[r.node])
OpsLow == \A op \in ToSet(m_op_queue) : op.type = "START" => OpLow(op)

Promises == Phases /\ Places /\ ListLow /\ RestartLow /\ OpsLow
TimeInv == remain \in [Timers -> Int] /\ (isr # "lost" => Promises)

LEMMA ElapsedIs ==
  ASSUME Types
  PROVE  Elapsed \in Counts /\ Elapsed \in Nat /\ Elapsed < W
BY DiffIs, Width DEF Types, ClockTypes, Elapsed

LEMMA TicksToExpireNext ==
  m_ticks_latest' \in Counts =>
    \A at \in Counts, first \in Counts :
      /\ TicksDiff(at, m_ticks_latest') < MAX_RTC_COUNTER_VAL \div 2 =>
           TicksToExpire(at, first)' = TicksDiff(at, m_ticks_latest') + first
      /\ TicksToExpire(at, first)' >= first + TicksDiff(at, m_ticks_latest') - W
      /\ TicksDiff(at, m_ticks_latest') = 0 => TicksToExpire(at, first)' >= first
      /\ TicksToExpire(at, first)' >= 0
<1>1. m_ticks_latest \in Counts =>
        \A at \in Counts, first \in Counts :
          /\ TicksDiff(at, m_ticks_latest) < MAX_RTC_COUNTER_VAL \div 2 =>
               TicksToExpire(at, first) = TicksDiff(at, m_ticks_latest) + first
          /\ TicksToExpire(at, first) >= first + TicksDiff(at, m_ticks_latest) - W
          /\ TicksDiff(at, m_ticks_latest) = 0 => TicksToExpire(at, first) >= first
          /\ TicksToExpire(at, first) >= 0
  BY TicksToExpireIs
<1>2. (m_ticks_latest \in Counts =>
        \A at \in Counts, first \in Counts :
          /\ TicksDiff(at, m_ticks_latest) < MAX_RTC_COUNTER_VAL \div 2 =>
               TicksToExpire(at, first) = TicksDiff(at, m_ticks_latest) + first
          /\ TicksToExpire(at, first) >= first + TicksDiff(at, m_ticks_latest) - W
          /\ TicksDiff(at, m_ticks_latest) = 0 => TicksToExpire(at, first) >= first
          /\ TicksToExpire(at, first) >= 0)'
  BY <1>1, PTL
<1> QED
  BY <1>2 DEF TicksDiff, W

LEMMA AppendSet ==
  ASSUME NEW S, NEW s \in Seq(S), NEW e \in S
  PROVE  ToSet(Append(s, e)) = ToSet(s) \cup {e}
<1> PICK n : n = Len(s)
  OBVIOUS
<1>1. n \in Nat /\ DOMAIN s = 1 .. n
  BY LenProperties
<1>2. /\ Append(s, e) \in Seq(S) /\ Len(Append(s, e)) = n + 1
      /\ \A i \in 1 .. n : Append(s, e)[i] = s[i]
      /\ Append(s, e)[n + 1] = e
  BY AppendProperties
<1>3. DOMAIN Append(s, e) = 1 .. n + 1
  BY <1>2, LenProperties
<1>4. (\A i \in 1 .. n + 1 : i \in 1 .. n \/ i = n + 1) /\ n + 1 \in 1 .. n + 1
      /\ \A i \in 1 .. n : i \in 1 .. n + 1
  BY <1>1
<1> QED
  BY <1>1, <1>2, <1>3, <1>4 DEF ToSet

LEMMA TailIn ==
  ASSUME NEW S, NEW s \in Seq(S), s # <<>>
  PROVE  Head(s) \in ToSet(s) /\ ToSet(Tail(s)) \subseteq ToSet(s)
<1> PICK n : n = Len(s)
  OBVIOUS
<1>1. n \in Nat \ {0} /\ DOMAIN s = 1 .. n
  BY LenProperties, EmptySeq
<1>2. Tail(s) \in Seq(S) /\ Len(Tail(s)) = n - 1 /\ \A k \in 1 .. n - 1 : Tail(s)[k] = s[k + 1]
  BY HeadTailProperties
<1>3. DOMAIN Tail(s) = 1 .. n - 1
  BY <1>2, LenProperties
<1>4. Head(s) = s[1]
  OBVIOUS
<1>5. 1 \in 1 .. n /\ \A k \in 1 .. n - 1 : k + 1 \in 1 .. n
  BY <1>1
<1> QED
  BY <1>1, <1>2, <1>3, <1>4, <1>5 DEF ToSet

LEMMA InitKeeps == Init => TimeInv
<1> SUFFICES ASSUME Init PROVE TimeInv
  OBVIOUS
<1>1. /\ list = <<>> /\ loc = NoLoc /\ loc.restart = <<>> /\ m_op_queue = <<>> /\ isr = Idle
      /\ m_ticks_elapsed = NONE /\ masked = FALSE /\ m_rtc1_reset = FALSE
      /\ remain = [t \in Timers |-> 0]
  BY DEF Init, NoLoc
<1>2. Phases
  BY <1>1, Width DEF Phases, NONE, Idle, Working
<1>3. Places
  BY <1>1 DEF Places, Walks, Idle
<1>4. RestartLow
  BY <1>1 DEF ToSet, RestartLow
<1>5. ListLow /\ OpsLow
  BY <1>1 DEF ListLow, OpsLow, ToSet
<1> QED
  BY <1>1, <1>2, <1>3, <1>4, <1>5 DEF TimeInv, Promises

\* A step that leaves the timers and the clock alone, outside the SWI handler.
LEMMA Stays ==
  ASSUME TimeInv, Types, isr # "lost", ~Working, ~Working',
         UNCHANGED <<counter, m_ticks_latest, m_rtc1_reset, list, ticks_to_expire, remain>>,
         loc'.restart = <<>>,
         \/ UNCHANGED m_op_queue
         \/ \E op \in Operation : /\ m_op_queue' = Append(m_op_queue, op)
                                  /\ op.type = "START" => OpLow(op),
         Phases', Places'
  PROVE  TimeInv'
<1>1. Promises
  BY DEF TimeInv
<1>2. Elapsed' = Elapsed /\ Behind = 0 /\ Behind' = 0 /\ DueAt' = DueAt
  BY DEF Elapsed, Behind, Working, DueAt
<1>3. ListLow'
  BY <1>1, <1>2 DEF Promises, ListLow
<1>4. RestartLow'
  BY NoneThere DEF RestartLow
<1>5. \A op : OpLow(op)' <=> OpLow(op)
  BY <1>2 DEF OpLow, OpTicks, TicksToExpire, TicksDiff
<1>6. OpsLow'
  <2>1. CASE UNCHANGED m_op_queue
    BY <1>1, <1>5, <2>1 DEF Promises, OpsLow
  <2>2. ASSUME NEW op \in Operation, m_op_queue' = Append(m_op_queue, op),
               op.type = "START" => OpLow(op)
        PROVE  OpsLow'
    <3>1. ToSet(m_op_queue') = ToSet(m_op_queue) \cup {op}
      BY <2>2, AppendSet DEF Types, QueueTypes
    <3> QED
      BY <1>1, <1>5, <2>2, <3>1 DEF Promises, OpsLow
  <2> QED
    BY <2>1, <2>2
<1>7. remain' \in [Timers -> Int]
  BY DEF TimeInv
<1> QED
  BY <1>3, <1>4, <1>6, <1>7 DEF TimeInv, Promises

\* A start queued now, with m_ticks_latest not half the counter's range back.
LEMMA StartLow ==
  ASSUME Types, Promises, ~Working, StartsLate = FALSE, NEW t \in Timers, MayStart(t),
         NEW T \in TimeoutsOf[t]
  PROVE  OpLow(StartOp(t, T))
<1> DEFINE op == StartOp(t, T)
<1>1. op.at = counter /\ op.first = T /\ op.due = T
  BY DEF StartOp
<1>2. m_rtc1_reset = FALSE
  BY DEF Promises, Phases, Types, FlagTypes
<1>3. Elapsed < MAX_RTC_COUNTER_VAL \div 2
  BY DEF MayStart, Elapsed
<1>4. T \in Counts /\ T \in Nat
  BY TicksAssumption, Width DEF Counts
<1>5. OpTicks(op) = TicksToExpire(counter, T)
  BY <1>1, <1>2 DEF OpTicks
<1>6. TicksToExpire(counter, T) = Elapsed + T
  BY <1>3, <1>4, TicksToExpireIs DEF Types, ClockTypes, Elapsed
<1>7. Elapsed \in Nat
  BY ElapsedIs
<1>8. op.due <= op.first /\ op.due + Elapsed <= OpTicks(op)
  BY <1>1, <1>4, <1>5, <1>6, <1>7
<1>9. TicksDiff(op.at, m_ticks_latest) < MAX_RTC_COUNTER_VAL \div 2
  BY <1>1, <1>3 DEF Elapsed
<1> QED
  BY <1>8, <1>9 DEF OpLow

LEMMA ThreadKeeps ==
  ASSUME TimeInv, Apart, Types, ServiceInv, StartsLate = FALSE, isr # "lost", Thread
  PROVE  TimeInv'
<1>1. Promises
  BY DEF TimeInv
<1>2. /\ UNCHANGED <<counter, m_ticks_latest, m_ticks_elapsed, m_rtc1_reset, list,
                     ticks_to_expire, remain, isr, loc>>
      /\ isr = Idle
  <2>1. masked => isr = Idle
    BY <1>1 DEF Promises, Phases
  <2>2. CASE EnterCritical \/ ExitCritical
    BY <2>1, <2>2 DEF EnterCritical, ExitCritical, ThreadRuns, listVars, rtcVars
  <2>3. CASE StopQueue \/ StopAllQueue \/ Sched \/ Return
    BY <2>3 DEF StopQueue, StopAllQueue, Sched, Return, ThreadRuns, listVars, rtcVars
  <2>4. ASSUME NEW t \in Timers,
               Create(t) \/ StopClear(t) \/ \E T \in TimeoutsOf[t] : StartQueue(t, T)
        PROVE  <1>2!1 /\ <1>2!2
    BY <2>4 DEF Create, StopClear, StartQueue, ThreadRuns, listVars, rtcVars
  <2> QED
    BY <2>2, <2>3, <2>4 DEF Thread
<1>3. ~Working /\ ~Working' /\ isr' # "lost" /\ ~Walks /\ isr # "expired_timers"
  BY <1>2 DEF Working, Idle, Walks
<1>4. loc.restart = <<>> /\ loc'.restart = <<>>
  BY <1>2 DEF Apart, Listing, Idle
<1>5. masked' => masked \/ m_ticks_elapsed = NONE
  <2>1. CASE EnterCritical
    BY <2>1 DEF EnterCritical, ThreadRuns, ServiceInv, TicksFetched
  <2>2. CASE ExitCritical
    BY <2>2 DEF ExitCritical
  <2>3. CASE StopQueue \/ StopAllQueue \/ Sched \/ Return
    BY <2>3 DEF StopQueue, StopAllQueue, Sched, Return
  <2>4. ASSUME NEW t \in Timers,
               Create(t) \/ StopClear(t) \/ \E T \in TimeoutsOf[t] : StartQueue(t, T)
        PROVE  masked' = masked
    BY <2>4 DEF Create, StopClear, StartQueue
  <2> QED
    BY <2>1, <2>2, <2>3, <2>4 DEF Thread
<1>6. Phases'
  BY <1>1, <1>2, <1>3, <1>4, <1>5 DEF Promises, Phases, Idle, Working
<1>7. Places'
  BY <1>2, <1>3 DEF Places, Walks, Idle
<1>8. \/ UNCHANGED m_op_queue
      \/ \E op \in Operation : /\ m_op_queue' = Append(m_op_queue, op)
                               /\ op.type = "START" => OpLow(op)
  <2>1. CASE EnterCritical \/ ExitCritical \/ Sched \/ Return
    BY <2>1 DEF EnterCritical, ExitCritical, Sched, Return
  <2>2. CASE StopQueue
    <3>1. thread.node \in Timers
      BY <2>2 DEF StopQueue, Types, LocalTypes, Calls, Idle
    <3>2. StopOp("STOP", thread.node) \in Operation /\ StopOp("STOP", thread.node).type # "START"
      BY <3>1 DEF StopOp, Operation
    <3> QED
      BY <2>2, <3>2 DEF StopQueue
  <2>3. CASE StopAllQueue
    <3>1. StopOp("STOP_ALL", NULL) \in Operation /\ StopOp("STOP_ALL", NULL).type # "START"
      BY DEF StopOp, Operation
    <3> QED
      BY <2>3, <3>1 DEF StopAllQueue
  <2>4. ASSUME NEW t \in Timers, Create(t) \/ StopClear(t)
        PROVE  UNCHANGED m_op_queue
    BY <2>4 DEF Create, StopClear
  <2>5. ASSUME NEW t \in Timers, NEW T \in TimeoutsOf[t], StartQueue(t, T)
        PROVE  \E op \in Operation : /\ m_op_queue' = Append(m_op_queue, op)
                                     /\ op.type = "START" => OpLow(op)
    <3>1. MayStart(t) /\ m_op_queue' = Append(m_op_queue, StartOp(t, T))
      BY <2>5 DEF StartQueue
    <3>2. OpLow(StartOp(t, T)) /\ StartOp(t, T) \in Operation
      BY <1>1, <1>3, <3>1, StartLow, OperationTypes
    <3> QED
      BY <3>1, <3>2
  <2> QED
    BY <2>1, <2>2, <2>3, <2>4, <2>5 DEF Thread
<1> QED
  BY <1>2, <1>3, <1>4, <1>6, <1>7, <1>8, Stays

LEMMA HandlerKeeps ==
  ASSUME TimeInv, Apart, Types, StartsLate = FALSE, isr # "lost", TimeoutHandler
  PROVE  TimeInv'
<1>1. Promises
  BY DEF TimeInv
<1>2. /\ UNCHANGED <<counter, m_ticks_latest, m_ticks_elapsed, m_rtc1_reset, list, masked,
                     ticks_to_expire, remain>>
      /\ isr = "timeout_handler" /\ isr' \in {"rtc", "timeout_handler"}
      /\ loc'.at = loc.at /\ loc'.expired = loc.expired /\ loc'.elapsed = loc.elapsed
      /\ loc'.restart = loc.restart /\ (isr' # "rtc" => loc'.timer = loc.timer)
  <2>1. CASE HandlerReturn
    BY <2>1 DEF HandlerReturn, listVars, rtcVars, Types, LocalTypes, Locals
  <2>2. CASE HandlerStopAll
    BY <2>2 DEF HandlerStopAll, listVars, rtcVars
  <2>3. ASSUME NEW t \in Timers, HandlerStop(t) \/ \E T \in TimeoutsOf[t] : HandlerStart(t, T)
        PROVE  <1>2!1 /\ isr = "timeout_handler" /\ UNCHANGED <<isr, loc>>
    BY <2>3 DEF HandlerStop, HandlerStart, listVars, rtcVars
  <2> QED
    BY <2>1, <2>2, <2>3 DEF TimeoutHandler
<1>3. ~Working /\ ~Working' /\ isr' # "lost" /\ Walks /\ Walks'
  BY <1>2 DEF Working, Walks
<1>4. loc.restart = <<>> /\ loc'.restart = <<>>
  BY <1>2 DEF Apart, Listing
<1>5. masked' = FALSE /\ m_rtc1_reset' = FALSE
  BY <1>1, <1>2, <1>3 DEF Promises, Phases, Types, FlagTypes, Idle
<1>6. Phases'
  BY <1>1, <1>2, <1>3, <1>4, <1>5 DEF Promises, Phases
<1>7. Places'
  <2>1. DueAt' = DueAt
    BY <1>2 DEF DueAt
  <2> QED
    BY <1>1, <1>2, <1>3, <2>1 DEF Promises, Places
<1>8. \/ UNCHANGED m_op_queue
      \/ \E op \in Operation : /\ m_op_queue' = Append(m_op_queue, op)
                               /\ op.type = "START" => OpLow(op)
  <2>1. CASE HandlerReturn
    BY <2>1 DEF HandlerReturn
  <2>2. CASE HandlerStopAll
    <3>1. StopOp("STOP_ALL", NULL) \in Operation /\ StopOp("STOP_ALL", NULL).type # "START"
      BY DEF StopOp, Operation
    <3> QED
      BY <2>2, <3>1 DEF HandlerStopAll
  <2>3. ASSUME NEW t \in Timers, HandlerStop(t) PROVE <1>8
    <3>1. StopOp("STOP", t) \in Operation /\ StopOp("STOP", t).type # "START"
      BY DEF StopOp, Operation
    <3> QED
      BY <2>3, <3>1 DEF HandlerStop
  <2>4. ASSUME NEW t \in Timers, NEW T \in TimeoutsOf[t], HandlerStart(t, T) PROVE <1>8
    <3>1. MayStart(t) /\ m_op_queue' = Append(m_op_queue, StartOp(t, T))
      BY <2>4 DEF HandlerStart
    <3>2. OpLow(StartOp(t, T)) /\ StartOp(t, T) \in Operation
      BY <1>1, <1>3, <3>1, StartLow, OperationTypes
    <3> QED
      BY <3>1, <3>2
  <2> QED
    BY <2>1, <2>2, <2>3, <2>4 DEF TimeoutHandler
<1> QED
  BY <1>2, <1>3, <1>4, <1>6, <1>7, <1>8, Stays

LEMMA RtcKeeps ==
  ASSUME TimeInv, Apart, Types, Served, isr # "lost", Rtc
  PROVE  TimeInv'
<1>1. Promises
  BY DEF TimeInv
<1>2. /\ UNCHANGED <<counter, m_ticks_latest, m_rtc1_reset, list, masked, ticks_to_expire,
                     remain, m_op_queue>>
      /\ ~Working /\ ~Working' /\ isr' # "lost"
  BY DEF Rtc, RtcEnter, RtcExpire, RtcExit, listVars, rtcVars, Working, Idle
<1>3. loc.restart = <<>> /\ m_rtc1_reset = FALSE /\ ~masked
  <2>1. isr \in {Idle, "rtc"} /\ (isr = Idle => ~masked)
    BY DEF Rtc, RtcEnter, RtcExpire, RtcExit, Idle
  <2> QED
    BY <1>1, <1>2, <2>1 DEF Promises, Phases, Apart, Listing, Types, FlagTypes, Idle
<1>4. DueAt' = DueAt
  BY <1>2 DEF DueAt
<1>5. Elapsed \in Nat /\ Elapsed < W /\ W \in Nat
  BY ElapsedIs, Width
<1>6. CASE RtcEnter
  <2>1. UNCHANGED m_ticks_elapsed
    BY <1>6 DEF RtcEnter
  <2>2. CASE list = <<>>
    <3>1. isr = Idle /\ isr' = Idle /\ loc' = loc
      BY <1>6, <2>2 DEF RtcEnter
    <3>2. Phases' /\ Places'
      BY <1>1, <1>2, <1>3, <2>1, <3>1 DEF Promises, Phases, Places, Walks, Idle
    <3> QED
      BY <1>2, <1>3, <3>1, <3>2, Stays
  <2>3. CASE list # <<>>
    <3>1. isr' = "rtc" /\ loc'.restart = <<>> /\ loc'.elapsed = Elapsed /\ loc'.at = 1 /\ loc'.expired = 0
      BY <1>6, <2>3 DEF RtcEnter, NoLoc, Elapsed
    <3>2. Phases'
      BY <1>1, <1>2, <1>3, <2>1, <3>1 DEF Promises, Phases, Walks, Idle
    <3>3. DueAt[0] = 0 /\ Len(list) \in Nat
      BY DueAtGrows, LenProperties DEF Types, ListTypes, Listed
    <3>4. Places'
      BY <1>2, <1>4, <1>5, <3>1, <3>3 DEF Places
    <3> QED
      BY <1>2, <1>3, <3>1, <3>2, <3>4, Stays
  <2> QED
    BY <2>2, <2>3
<1>7. CASE RtcExpire
  <2> DEFINE t == list[loc.at]
             x == ticks_to_expire[t]
  <2>1. isr = "rtc" /\ loc.at <= Len(list) /\ loc.elapsed >= x /\ UNCHANGED m_ticks_elapsed
    BY <1>7 DEF RtcExpire, Expired
  <2>2. loc \in Locals /\ loc.at \in Nat /\ loc.at >= 1 /\ loc.elapsed \in Nat /\ loc.expired \in Nat
    BY <2>1 DEF Types, LocalTypes, WalkTypes, Locals
  <2>3. Listed /\ Len(list) \in Nat /\ loc.at \in 1 .. Len(list)
    BY <2>1, <2>2, LenProperties DEF Types, ListTypes, Listed
  <2>4. t \in Timers /\ x \in Nat
    BY <2>3, ElementOfSeq DEF Listed
  <2>5. /\ loc'.elapsed = loc.elapsed - x /\ loc'.expired = loc.expired + x
        /\ loc'.at = loc.at + 1 /\ loc'.restart = loc.restart
        /\ loc'.timer = (IF MustCall(t) THEN t ELSE NULL)
        /\ isr' = IF MustCall(t) THEN "timeout_handler" ELSE "rtc"
    BY <1>7, <2>2 DEF RtcExpire, Locals
  <2>6. /\ loc.expired = DueAt[loc.at - 1] /\ loc.expired + loc.elapsed < W
        /\ loc.expired + loc.elapsed <= Elapsed
    <3>1. Walks
      BY <2>1 DEF Walks
    <3> QED
      BY <1>1, <2>1, <3>1 DEF Promises, Places, Served, Consumed, Since, Elapsed
  <2>7. DueAt[loc.at] = DueAt[loc.at - 1] + x
    BY <2>3, DueAtGrows
  <2>8. remain[t] <= 0
    <3>1. remain[t] + (Behind + Elapsed) <= DueAt[loc.at]
      BY <1>1, <2>3 DEF Promises, ListLow
    <3>2. Behind = 0 /\ remain[t] \in Int
      BY <2>1, <2>4 DEF Behind, TimeInv
    <3> HIDE DEF x, t
    <3> QED
      BY <1>5, <2>1, <2>2, <2>4, <2>6, <2>7, <3>1, <3>2
  <2> HIDE DEF x, t
  <2>9. Phases'
    BY <1>1, <1>2, <1>3, <2>1, <2>5 DEF Promises, Phases, Walks, Idle
  <2>10. /\ loc'.at <= Len(list) + 1 /\ loc'.at - 1 = loc.at /\ loc'.expired = DueAt[loc.at]
         /\ loc'.expired + loc'.elapsed < W
    BY <2>1, <2>2, <2>3, <2>4, <2>5, <2>6, <2>7
  <2>11. Places'
    <3>1. isr' # "expired_timers"
      BY <2>5
    <3>2. isr' = "timeout_handler" => loc'.timer \in Timers /\ remain'[loc'.timer] <= 0
      BY <1>2, <2>4, <2>5, <2>8
    <3> QED
      BY <1>2, <1>4, <2>10, <3>1, <3>2 DEF Places
  <2> QED
    BY <1>2, <1>3, <2>5, <2>9, <2>11, Stays
<1>8. CASE RtcExit
  <2>1. isr = "rtc" /\ m_ticks_elapsed' = loc.expired /\ isr' = Idle /\ loc' = NoLoc
    BY <1>8 DEF RtcExit
  <2>2. loc.expired \in Nat /\ loc.elapsed \in Nat
    BY DEF Types, LocalTypes, Locals
  <2>3. loc.expired < W
    <3>1. loc.expired + loc.elapsed < W
      BY <1>1, <2>1 DEF Promises, Places, Walks
    <3> QED
      BY <1>5, <2>2, <3>1
  <2>4. loc'.restart = <<>>
    BY <2>1 DEF NoLoc
  <2>5. Phases'
    BY <1>1, <1>2, <1>3, <2>1, <2>3, <2>4 DEF Phases, Idle, Working
  <2>6. Places'
    BY <2>1 DEF Places, Walks, Idle
  <2> QED
    BY <1>2, <1>3, <2>4, <2>5, <2>6, Stays
<1> QED
  BY <1>6, <1>7, <1>8 DEF Rtc

\* The clock's step takes a tick off every deadline and adds at most one to Elapsed.
LEMMA TickKeeps ==
  ASSUME TimeInv, Types, Served', isr # "lost", Tick
  PROVE  TimeInv'
<1>1. Promises
  BY DEF TimeInv
<1>2. /\ UNCHANGED <<list, ticks_to_expire, ticks_periodic_interval, m_ticks_latest, masked,
                     m_ticks_elapsed, m_rtc1_reset, isr, loc>>
      /\ counter' \in {counter, (counter + 1) % W}
  BY DEF Tick, listVars
<1>3. DueAt' = DueAt /\ Behind' = Behind /\ Armed' = Armed /\ Restarting' = Restarting
      /\ (Working' <=> Working)
  BY <1>2 DEF DueAt, Behind, Armed, Restarting, Working
<1>4. Elapsed \in Nat /\ W \in Nat \ {0} /\ counter \in Counts /\ m_ticks_latest \in Counts
  BY ElapsedIs, Width DEF Types, ClockTypes
<1>5. Elapsed' \in Nat /\ Elapsed' < W /\ Elapsed' <= Elapsed + 1
  <2>1. CASE counter' = counter
    BY <1>2, <1>4, <2>1, ElapsedIs DEF Elapsed
  <2>2. CASE counter' = (counter + 1) % W
    <3>1. 1 \in Counts
      BY TicksAssumption DEF Counts
    <3>2. TicksDiff((counter + 1) % W, m_ticks_latest) =
            IF Elapsed + 1 < W THEN Elapsed + 1 ELSE Elapsed + 1 - W
      BY <1>4, <3>1, DiffMoved DEF Elapsed
    <3>3. (counter + 1) % W \in Counts
      BY <1>4, <3>1, MovedOn
    <3>4. TicksDiff((counter + 1) % W, m_ticks_latest) \in Nat
          /\ TicksDiff((counter + 1) % W, m_ticks_latest) < W
      BY <1>4, <3>3, DiffIs, Width
    <3>5. Elapsed' = TicksDiff((counter + 1) % W, m_ticks_latest)
      BY <1>2, <2>2 DEF Elapsed
    <3> QED
      BY <1>4, <3>2, <3>4, <3>5
  <2> QED
    BY <1>2, <2>1, <2>2
<1>6. Behind \in Nat /\ Behind + Elapsed' < W
  <2>1. CASE isr # "expired_timers"
    BY <1>5, <2>1 DEF Behind
  <2>2. CASE isr = "expired_timers"
    <3> DEFINE x == loc.expired + loc.elapsed
               d == TicksDiff(counter', loc.previous)
    <3>1. /\ loc.expired \in Nat /\ loc.elapsed \in Nat /\ loc.previous \in Counts
          /\ Behind = loc.elapsed
      BY <2>2 DEF Types, LocalTypes, Locals, Behind
    <3>2. x < W /\ m_ticks_latest = (loc.previous + x) % W
      BY <1>1, <2>2 DEF Promises, Places
    <3>3. x \in Counts
      BY <1>4, <3>1, <3>2, TicksAssumption DEF Counts, W
    <3>4. counter' \in Counts
      <4>1. counter + 1 \in Int
        BY <1>4, Width
      <4> QED
        BY <1>2, <1>4, <4>1, Width
    <3>5. d \in Nat /\ d < W
      BY <3>1, <3>4, DiffIs, Width
    <3>6. x <= d
      BY <1>2, <2>2 DEF Served, Consumed, Since, TicksDiff, W
    <3>7. TicksDiff(counter', (loc.previous + x) % W) = IF d >= x THEN d - x ELSE d - x + W
      BY <3>1, <3>3, <3>4, DiffMoved
    <3>8. Elapsed' = TicksDiff(counter', (loc.previous + x) % W)
      BY <1>2, <3>2 DEF Elapsed
    <3>9. x = loc.expired + loc.elapsed
      OBVIOUS
    <3> HIDE DEF x, d
    <3>10. Elapsed' = d - x
      BY <3>1, <3>5, <3>6, <3>7, <3>8, <3>9
    <3> QED
      BY <1>4, <1>5, <3>1, <3>5, <3>9, <3>10
  <2> QED
    BY <2>1, <2>2
<1>7. /\ remain' \in [Timers -> Int]
      /\ \A t \in Timers : /\ remain'[t] <= remain[t]
                           /\ t \in Armed => remain'[t] = remain[t] - 1 \/ remain'[t] <= -W
  <2>1. remain \in [Timers -> Int] /\ -W \in Int
    BY <1>4 DEF TimeInv
  <2>2. remain' = [t \in Timers |-> IF t \in Armed /\ remain[t] > -W THEN remain[t] - 1
                                    ELSE remain[t]]
    BY DEF Tick
  <2> QED
    BY <2>1, <2>2
<1>8. ListLow'
  <2> SUFFICES ASSUME NEW i \in 1 .. Len(list)
               PROVE  remain'[list[i]] + (Behind + Elapsed') <= DueAt[i]
    BY <1>2, <1>3 DEF ListLow
  <2>1. Listed /\ Len(list) \in Nat /\ DOMAIN list = 1 .. Len(list)
    BY LenProperties DEF Types, ListTypes, Listed
  <2>2. list[i] \in Timers /\ list[i] \in Armed
    BY <2>1, ElementOfSeq DEF Listed, Armed, ToSet
  <2>3. DueAt[i] \in Nat
    BY <2>1, DueAtGrows
  <2>4. remain[list[i]] + (Behind + Elapsed) <= DueAt[i]
    BY <1>1 DEF Promises, ListLow
  <2>5. remain[list[i]] \in Int /\ remain'[list[i]] \in Int
    BY <1>7, <2>2 DEF TimeInv
  <2>6. remain'[list[i]] = remain[list[i]] - 1 \/ remain'[list[i]] <= -W
    BY <1>7, <2>2
  <2>7. CASE remain'[list[i]] = remain[list[i]] - 1
    BY <1>4, <1>5, <1>6, <2>3, <2>4, <2>5, <2>7
  <2>8. CASE remain'[list[i]] <= -W
    BY <1>4, <1>5, <1>6, <2>3, <2>5, <2>8
  <2> QED
    BY <2>6, <2>7, <2>8
<1>9. RestartLow'
  <2> SUFFICES ASSUME NEW r \in ToSet(loc.restart)
               PROVE  remain'[r.node] + Elapsed' <= TicksToExpire(r.at, ticks_periodic_interval[r.node])
    BY <1>2 DEF RestartLow, TicksToExpire, TicksDiff
  <2>1. loc.restart \in Seq(Due)
    BY DEF Types, LocalTypes, Locals
  <2>2. r \in Due /\ r.node \in Armed
    <3>1. PICK j \in DOMAIN loc.restart : r = loc.restart[j]
      BY DEF ToSet
    <3> QED
      BY <2>1, <3>1, ElementOfSeq, LenProperties DEF Armed
  <2>3. r.node \in Timers /\ TicksToExpire(r.at, ticks_periodic_interval[r.node]) \in Nat
    BY <2>2, TicksToExpireNat DEF Due, Types, ListTypes
  <2>4. remain[r.node] + Elapsed <= TicksToExpire(r.at, ticks_periodic_interval[r.node])
    BY <1>1 DEF Promises, RestartLow
  <2>5. remain[r.node] \in Int /\ remain'[r.node] \in Int
    BY <1>7, <2>3 DEF TimeInv
  <2>6. remain'[r.node] = remain[r.node] - 1 \/ remain'[r.node] <= -W
    BY <1>7, <2>2, <2>3
  <2> QED
    BY <1>4, <1>5, <2>3, <2>4, <2>5, <2>6
<1>10. OpsLow'
  <2> SUFFICES ASSUME NEW new \in ToSet(m_op_queue'), new.type = "START"
               PROVE  OpLow(new)'
    BY DEF OpsLow
  <2>1. PICK i \in DOMAIN m_op_queue : new = m_op_queue'[i]
    BY DEF Tick, ToSet
  <2>2. PICK op : op = m_op_queue[i]
    OBVIOUS
  <2>3. op \in ToSet(m_op_queue) /\ op \in Operation
    BY <2>1, <2>2, ElementOfSeq, LenProperties DEF ToSet, Types, QueueTypes
  <2>4. new = IF op.type = "START" THEN [op EXCEPT !.due = @ - 1] ELSE op
    BY <2>1, <2>2 DEF Tick
  <2>5. op.type = "START"
    BY <2>3, <2>4 DEF Operation
  <2>6. /\ op.due \in Int /\ op.at \in Counts /\ op.first \in Counts
        /\ new.due = op.due - 1 /\ new.at = op.at /\ new.first = op.first
    BY <2>3, <2>4, <2>5 DEF Operation
  <2>7. OpLow(op)
    BY <1>1, <2>3, <2>5 DEF Promises, OpsLow
  <2>8. OpTicks(new)' = OpTicks(op)
    BY <1>2, <2>6 DEF OpTicks, TicksToExpire, TicksDiff
  <2>9. OpTicks(op) \in Nat
    <3> DEFINE at == IF m_rtc1_reset THEN 0 ELSE op.at
    <3>1. at \in Counts
      BY <2>6, Width
    <3> HIDE DEF at
    <3>2. TicksToExpire(at, op.first) \in Nat
      BY <2>6, <3>1, TicksToExpireNat
    <3> QED
      BY <3>2 DEF OpTicks, at
  <2>10. new.due <= new.first /\ new.due + Elapsed' <= OpTicks(new)'
    <3>1. op.due <= op.first /\ op.due + Elapsed <= OpTicks(op) /\ op.first \in Nat
      BY <2>6, <2>7, Width DEF OpLow
    <3> QED
      BY <1>4, <1>5, <2>6, <2>8, <2>9, <3>1
  <2>11. ~Working => TicksDiff(op.at, m_ticks_latest) < MAX_RTC_COUNTER_VAL \div 2
    BY <2>7 DEF OpLow
  <2> QED
    BY <1>2, <1>3, <2>6, <2>10, <2>11 DEF OpLow, TicksDiff, W
<1>11. Phases'
  <2>1. isr \in {"compare", "set_compare", "check_compare"} => m_op_queue' = <<>>
    <3>1. m_op_queue = <<>> => m_op_queue' = <<>>
      BY DEF Tick
    <3> QED
      BY <1>1, <3>1 DEF Promises, Phases
  <2> QED
    BY <1>1, <1>2, <1>3, <2>1 DEF Promises, Phases, Listing, W
<1>12. Places'
  <2>1. isr = "timeout_handler" => loc.timer \in Timers /\ remain'[loc.timer] <= 0
    <3> SUFFICES ASSUME isr = "timeout_handler" PROVE loc.timer \in Timers /\ remain'[loc.timer] <= 0
      OBVIOUS
    <3>1. loc.timer \in Timers /\ remain[loc.timer] <= 0
      BY <1>1 DEF Promises, Places
    <3>2. remain[loc.timer] \in Int /\ remain'[loc.timer] \in Int /\ remain'[loc.timer] <= remain[loc.timer]
      BY <1>7, <3>1 DEF TimeInv
    <3> QED
      BY <3>1, <3>2
  <2> QED
    BY <1>1, <1>2, <1>3, <2>1 DEF Promises, Places, Walks, W
<1> QED
  BY <1>7, <1>8, <1>9, <1>10, <1>11, <1>12 DEF TimeInv, Promises

LEMMA TakenOff ==
  ASSUME NEW a \in Int, NEW b \in Nat, NEW c \in Nat, NEW d \in Int, NEW x \in Nat,
         a + (b + c) <= d
  PROVE  a + ((b - x) + c) <= d - x
OBVIOUS

LEMMA TwoMoves ==
  ASSUME NEW p \in Counts, NEW s \in Counts, NEW y \in Counts, s + y \in Counts
  PROVE  (p + (s + y)) % W = (((p + s) % W) + y) % W
<1>1. /\ p \in Nat /\ s \in Nat /\ y \in Nat /\ W \in Nat /\ p < W /\ s + y < W
  BY Width, TicksAssumption DEF Counts, W
<1> DEFINE a == (p + s) % W
           b == (p + (s + y)) % W
           c == (a + y) % W
<1>2. /\ a = (IF p + s < W THEN p + s ELSE p + s - W) /\ a \in Counts
      /\ b = IF p + (s + y) < W THEN p + (s + y) ELSE p + (s + y) - W
  BY MovedOn
<1>3. c = IF a + y < W THEN a + y ELSE a + y - W
  BY <1>2, MovedOn
<1>4. a \in Nat
  BY <1>2, Width
<1> HIDE DEF a, b, c
<1>5. b = c
  BY <1>1, <1>2, <1>3, <1>4
<1> QED
  BY <1>5 DEF a, b, c

LEMMA NextTicks ==
  m_ticks_latest' \in Counts =>
    \A at \in Counts, first \in Counts : TicksToExpire(at, first)' \in Int
<1>1. m_ticks_latest \in Counts => \A at \in Counts, first \in Counts : TicksToExpire(at, first) \in Int
  <2> SUFFICES ASSUME m_ticks_latest \in Counts, NEW at \in Counts, NEW first \in Counts
               PROVE  TicksToExpire(at, first) \in Int
    OBVIOUS
  <2>1. /\ TicksDiff(at, m_ticks_latest) \in Nat /\ TicksDiff(m_ticks_latest, at) \in Nat
        /\ first \in Nat
    BY Width DEF TicksDiff
  <2> QED
    BY <2>1 DEF TicksToExpire
<1>2. (m_ticks_latest \in Counts =>
        \A at \in Counts, first \in Counts : TicksToExpire(at, first) \in Int)'
  BY <1>1, PTL
<1> QED
  BY <1>2

LEMMA FrontSet ==
  ASSUME NEW s \in Seq(Due), NEW r \in Due
  PROVE  ToSet(<<r>> \o s) = ToSet(s) \cup {r}
<1> DEFINE h == <<r>>
           t == h \o s
<1> PICK n : n = Len(s)
  OBVIOUS
<1>1. n \in Nat /\ DOMAIN s = 1 .. n
  BY LenProperties
<1>2. h \in Seq(Due) /\ Len(h) = 1 /\ h[1] = r
  OBVIOUS
<1> HIDE DEF h
<1>3. /\ t \in Seq(Due) /\ Len(t) = 1 + n
      /\ \A i \in 1 .. 1 + n : t[i] = IF i <= 1 THEN h[i] ELSE s[i - 1]
  <2>1. /\ h \o s \in Seq(Due) /\ Len(h \o s) = Len(h) + Len(s)
        /\ \A i \in 1 .. Len(h) + Len(s) : (h \o s)[i] = IF i <= Len(h) THEN h[i] ELSE s[i - Len(h)]
    BY <1>2, ConcatProperties
  <2> QED
    BY <1>2, <2>1
<1>4. DOMAIN t = 1 .. 1 + n
  BY <1>3, LenProperties
<1> HIDE DEF t
<1>5. t[1] = r /\ 1 \in 1 .. 1 + n
  BY <1>1, <1>2, <1>3
<1>6. ASSUME NEW i \in 1 .. 1 + n, i # 1 PROVE i - 1 \in 1 .. n /\ t[i] = s[i - 1]
  BY <1>1, <1>3, <1>6
<1>7. ASSUME NEW i \in 1 .. n PROVE i + 1 \in 1 .. 1 + n /\ t[i + 1] = s[i]
  BY <1>1, <1>3
<1>8. ToSet(t) = ToSet(s) \cup {r}
  <2>1. ASSUME NEW i \in 1 .. 1 + n PROVE t[i] \in ToSet(s) \cup {r}
    BY <1>1, <1>5, <1>6 DEF ToSet
  <2>2. ASSUME NEW i \in 1 .. n PROVE s[i] \in ToSet(t)
    BY <1>4, <1>7 DEF ToSet
  <2>3. r \in ToSet(t)
    BY <1>4, <1>5 DEF ToSet
  <2> QED
    BY <1>1, <1>4, <2>1, <2>2, <2>3 DEF ToSet
<1> QED
  BY <1>8 DEF t, h

\* m_ticks_latest moves on by the ticks that RTC1 consumed; every difference follows.
LEMMA SwiEnterKeeps ==
  ASSUME TimeInv, Types, Served, isr # "lost", SwiEnter
  PROVE  TimeInv'
<1>1. Promises
  BY DEF TimeInv
<1>2. /\ UNCHANGED <<counter, list, ticks_to_expire, masked, m_op_queue, m_rtc1_reset, remain>>
      /\ isr = Idle /\ masked = FALSE /\ m_ticks_elapsed' = NONE
  BY DEF SwiEnter, listVars, rtcVars, Types, FlagTypes
<1>3. m_rtc1_reset = FALSE /\ loc'.restart = <<>>
  <2>1. m_rtc1_reset = FALSE
    BY <1>1, <1>2 DEF Promises, Phases, Working, Idle, Types, FlagTypes
  <2>2. loc'.restart = <<>>
    BY DEF SwiEnter, NoLoc
  <2> QED
    BY <2>1, <2>2
<1>4. DueAt' = DueAt /\ Behind = 0
  BY <1>2 DEF DueAt, Behind, Idle
<1>5. Elapsed \in Nat /\ W \in Nat \ {0} /\ counter \in Counts /\ m_ticks_latest \in Counts
  BY ElapsedIs, Width DEF Types, ClockTypes
<1>6. RestartLow'
  BY <1>3, NoneThere DEF RestartLow
<1>7. isr' \in {"expired_timers", "list_insertions"}
  BY DEF SwiEnter
<1>8. Phases'
  <2>1. NONE < W
    BY <1>5 DEF NONE
  <2> QED
    BY <1>2, <1>3, <1>7, <2>1 DEF Phases, Working, W
<1>9. CASE m_ticks_elapsed = NONE
  <2>1. isr' = "list_insertions" /\ UNCHANGED m_ticks_latest
    BY <1>9 DEF SwiEnter
  <2>2. Elapsed' = Elapsed /\ Behind' = 0
    BY <1>2, <2>1 DEF Elapsed, Behind, TicksDiff, W
  <2>3. ListLow'
    BY <1>1, <1>2, <1>4, <2>2 DEF Promises, ListLow
  <2>4. OpsLow'
    <3>1. \A op : OpLow(op) => OpLow(op)'
      BY <1>2, <2>1, <2>2 DEF OpLow, OpTicks, TicksToExpire, TicksDiff, W, Working
    <3> QED
      BY <1>1, <1>2, <3>1 DEF Promises, OpsLow
  <2>5. Places'
    BY <2>1 DEF Places, Walks
  <2> QED
    BY <1>2, <1>6, <1>8, <2>3, <2>4, <2>5 DEF TimeInv, Promises
<1>10. CASE m_ticks_elapsed # NONE
  <2> PICK me : me = m_ticks_elapsed
    OBVIOUS
  <2>1. /\ isr' = "expired_timers" /\ m_ticks_latest' = (m_ticks_latest + me) % W
        /\ loc'.elapsed = me /\ loc'.previous = m_ticks_latest /\ loc'.expired = 0
    BY <1>10 DEF SwiEnter, NoLoc
  <2>2. me \in Nat /\ me < W /\ me \in Counts
    <3>1. me \in Nat /\ me < W
      BY <1>1, <1>10 DEF Promises, Phases, Types, ClockTypes
    <3> QED
      BY <3>1, TicksAssumption DEF W, Counts
  <2>3. me <= Elapsed
    BY <1>2, <1>10 DEF Served, Consumed, Since, Walks, Idle, Elapsed
  <2>4. Elapsed' = Elapsed - me /\ Behind' = me
    <3>1. TicksDiff(counter, (m_ticks_latest + me) % W) =
            IF TicksDiff(counter, m_ticks_latest) >= me THEN TicksDiff(counter, m_ticks_latest) - me
            ELSE TicksDiff(counter, m_ticks_latest) - me + W
      BY <1>5, <2>2, DiffMoved
    <3>2. Elapsed' = TicksDiff(counter, (m_ticks_latest + me) % W)
      BY <1>2, <2>1 DEF Elapsed
    <3>3. Elapsed >= me
      BY <1>5, <2>2, <2>3
    <3>4. Elapsed' = Elapsed - me
      BY <3>1, <3>2, <3>3 DEF Elapsed
    <3> QED
      BY <2>1, <3>4 DEF Behind
  <2>5. ListLow'
    <3>1. Behind' + Elapsed' = Behind + Elapsed
      BY <1>4, <1>5, <2>2, <2>4
    <3> QED
      BY <1>1, <1>2, <1>4, <3>1 DEF Promises, ListLow
  <2>6. OpsLow'
    <3> SUFFICES ASSUME NEW op \in ToSet(m_op_queue), op.type = "START"
                 PROVE  OpLow(op)'
      BY <1>2 DEF OpsLow
    <3>1. op \in Operation
      BY ElementOfSeq, LenProperties DEF ToSet, Types, QueueTypes
    <3>2. op.due \in Int /\ op.at \in Counts /\ op.first \in Counts /\ op.first \in Nat
      BY <3>1, Width DEF Operation
    <3>3. OpLow(op) /\ ~Working
      BY <1>1, <1>2 DEF Promises, OpsLow, Working, Idle
    <3> DEFINE d == TicksDiff(op.at, m_ticks_latest)
               e == TicksDiff(op.at, m_ticks_latest')
               half == MAX_RTC_COUNTER_VAL \div 2
               q == TicksToExpire(op.at, op.first)'
    <3>4. d \in Nat /\ d < half /\ half \in Int
      <4>1. d \in Nat
        BY <1>5, <3>2, DiffIs, Width
      <4>2. d < half
        BY <3>3 DEF OpLow
      <4>3. half \in Int
        BY TicksAssumption
      <4> QED
        BY <4>1, <4>2, <4>3
    <3>5. OpTicks(op) = d + op.first
      BY <1>3, <1>5, <3>2, <3>4, TicksToExpireIs DEF OpTicks
    <3>6. e = IF d >= me THEN d - me ELSE d - me + W
      <4>1. TicksDiff(op.at, (m_ticks_latest + me) % W) =
              IF TicksDiff(op.at, m_ticks_latest) >= me THEN TicksDiff(op.at, m_ticks_latest) - me
              ELSE TicksDiff(op.at, m_ticks_latest) - me + W
        <5> PICK at \in Counts : at = op.at
          BY <3>2
        <5> PICK l \in Counts : l = m_ticks_latest
          BY <1>5
        <5>1. me \in Counts
          BY <2>2
        <5>2. TicksDiff(at, (l + me) % W) =
                IF TicksDiff(at, l) >= me THEN TicksDiff(at, l) - me ELSE TicksDiff(at, l) - me + W
          BY <5>1, DiffMoved
        <5> QED
          BY <5>2
      <4> QED
        BY <2>1, <4>1
    <3>7. m_ticks_latest' \in Counts
      BY <1>5, <2>1, <2>2, MovedOn
    <3>8. (e < half => q = e + op.first) /\ q >= op.first + e - W
      BY <3>2, <3>7, TicksToExpireNext
    <3>9. OpTicks(op)' = q
      BY <1>2, <1>3 DEF OpTicks
    <3>10. op.due <= op.first /\ op.due + Elapsed <= OpTicks(op)
      BY <3>3 DEF OpLow
    <3>11. q \in Int
      <4>1. \A at \in Counts, first \in Counts : TicksToExpire(at, first)' \in Int
        BY <3>7, NextTicks
      <4> QED
        BY <3>2, <4>1
    <3> HIDE DEF d, e, half, q
    <3>12. op.due + Elapsed' <= q
      <4>1. CASE d >= me
        <5>1. e = d - me /\ e < half
          BY <2>2, <3>4, <3>6, <4>1
        <5> QED
          BY <1>5, <2>2, <2>4, <3>2, <3>4, <3>5, <3>8, <3>10, <5>1
      <4>2. CASE ~(d >= me)
        <5>1. e = d - me + W
          BY <3>6, <4>2
        <5> QED
          BY <1>5, <2>2, <2>4, <3>2, <3>4, <3>5, <3>8, <3>10, <3>11, <5>1
      <4> QED
        BY <4>1, <4>2
    <3>13. Working'
      BY <2>1 DEF Working
    <3> QED
      BY <3>9, <3>10, <3>12, <3>13 DEF OpLow
  <2>7. Places'
    <3>1. loc'.expired + loc'.elapsed = me
      BY <2>1, <2>2
    <3> QED
      BY <2>1, <2>2, <3>1 DEF Places, Walks, W
  <2> QED
    BY <1>2, <1>6, <1>8, <2>5, <2>6, <2>7 DEF TimeInv, Promises
<1> QED
  BY <1>9, <1>10

\* The head leaves; what it was due for comes off all that are behind it.  A
\* periodic timer is due one period after it expired, not after it is served.
LEMMA SwiExpireKeeps ==
  ASSUME TimeInv, Apart, Types, isr # "lost", SwiExpire
  PROVE  TimeInv'
<1> DEFINE t == Head(list)
           x == ticks_to_expire[t]
           sum == loc.expired + x
           back == [node |-> t, at |-> (loc.previous + sum) % W]
           period == ticks_periodic_interval[t]
<1>1. Promises
  BY DEF TimeInv
<1>2. /\ UNCHANGED <<counter, m_ticks_latest, m_ticks_elapsed, masked, m_op_queue, m_rtc1_reset,
                     ticks_periodic_interval, isr>>
      /\ isr = "expired_timers" /\ list # <<>> /\ list' = Tail(list) /\ loc.elapsed >= x
      /\ ticks_to_expire' = [ticks_to_expire EXCEPT ![t] = 0]
      /\ remain' = [remain EXCEPT ![t] = IF Restarts(t) THEN @ + period ELSE 0]
  BY DEF SwiExpire, rtcVars, Expired
<1>3. Listed /\ loc \in Locals /\ remain \in [Timers -> Int]
  BY DEF Types, ListTypes, LocalTypes, TimeInv
<1>4. /\ loc.elapsed \in Nat /\ loc.expired \in Nat /\ loc.previous \in Counts
      /\ loc.restart \in Seq(Due)
  BY <1>3 DEF Locals
<1>5. t \in Timers /\ x \in Nat /\ period \in Counts /\ period \in Nat
  <2>1. t \in Timers
    BY <1>2, <1>3, HeadTailProperties DEF Listed
  <2> QED
    BY <1>3, <2>1, Width DEF Listed, Types, ListTypes
<1>6. /\ loc'.elapsed = loc.elapsed - x /\ loc'.expired = sum /\ loc'.previous = loc.previous
      /\ loc'.restart = IF Restarts(t) THEN <<back>> \o loc.restart ELSE loc.restart
  BY <1>3 DEF SwiExpire, Locals
<1>7. Elapsed \in Nat /\ W \in Nat \ {0}
  BY ElapsedIs, Width
<1>8. Elapsed' = Elapsed /\ Behind = loc.elapsed /\ Behind' = loc.elapsed - x
  BY <1>2, <1>6 DEF Elapsed, Behind, TicksDiff, W
<1>9. /\ loc.expired + loc.elapsed < W
      /\ m_ticks_latest = (loc.previous + (loc.expired + loc.elapsed)) % W
  BY <1>1, <1>2 DEF Promises, Places
<1>10. sum + (loc.elapsed - x) = loc.expired + loc.elapsed
  BY <1>4, <1>5
<1>11. Listed'
  <2>1. ticks_to_expire' \in [Timers -> Nat]
    BY <1>2, <1>3, <1>5 DEF Listed
  <2>2. list' \in Seq(Timers)
    BY <1>2, <1>3, HeadTailProperties DEF Listed
  <2> QED
    BY <2>1, <2>2 DEF Listed
<1>12. /\ IsInjective(list) /\ IsInjective(list') /\ t \notin ToSet(list')
       /\ ToSet(list) = ToSet(list') \cup {t} /\ t \notin Restarting
  <2>1. IsInjective(list) /\ ToSet(list) \cap Restarting = {}
    BY DEF Apart
  <2>2. IsInjective(list') /\ t \notin ToSet(list') /\ ToSet(list) = ToSet(list') \cup {t}
    BY <1>2, <1>3, <2>1, TailSet DEF Listed
  <2> QED
    BY <2>1, <2>2
<1>13. \A i \in 1 .. Len(list') : /\ i + 1 \in 1 .. Len(list) /\ list'[i] = list[i + 1]
                                  /\ DueAt'[i] = DueAt[i + 1] - x
  BY <1>2, <1>3, <1>11, <1>12, TailDue
<1>14. \A u \in Timers : u # t => remain'[u] = remain[u]
  BY <1>2, <1>3
<1>15. back \in Due /\ back.node = t /\ back.at = (loc.previous + sum) % W
  <2>1. loc.previous + sum \in Int
    <3>1. loc.previous \in Nat
      BY <1>4, Width
    <3> HIDE DEF x
    <3> QED
      BY <1>4, <1>5, <3>1
  <2> HIDE DEF sum
  <2>2. (loc.previous + sum) % W \in Counts
    BY <2>1, Width
  <2> QED
    BY <1>5, <2>2 DEF Due
<1>16. remain[t] + (loc.elapsed + Elapsed) <= x
  <2>1. Len(list) \in Nat /\ 1 \in 1 .. Len(list) /\ t = list[1]
    <3>1. Len(list) \in Nat \ {0}
      BY <1>2, <1>3, LenProperties, EmptySeq DEF Listed
    <3> QED
      BY <3>1
  <2>2. DueAt[0] = 0 /\ DueAt[1] = DueAt[1 - 1] + ticks_to_expire[list[1]]
    BY <1>3, <2>1, DueAtGrows
  <2>3. remain[list[1]] + (Behind + Elapsed) <= DueAt[1]
    BY <1>1, <2>1 DEF Promises, ListLow
  <2>4. DueAt[1] = x
    BY <1>5, <2>1, <2>2
  <2> HIDE DEF t, x
  <2> QED
    BY <1>8, <2>1, <2>3, <2>4
<1> HIDE DEF t, x, sum, back, period
<1>17. ListLow'
  <2> SUFFICES ASSUME NEW i \in 1 .. Len(list')
               PROVE  remain'[list'[i]] + (Behind' + Elapsed') <= DueAt'[i]
    BY DEF ListLow
  <2>1. i + 1 \in 1 .. Len(list) /\ list'[i] = list[i + 1] /\ DueAt'[i] = DueAt[i + 1] - x
    BY <1>13
  <2>2. list'[i] \in Timers /\ list'[i] # t
    <3>1. list'[i] \in ToSet(list') /\ list'[i] \in Timers
      BY <1>11, ElementOfSeq, LenProperties DEF Listed, ToSet
    <3> QED
      BY <1>12, <3>1
  <2>3. remain'[list'[i]] = remain[list[i + 1]] /\ remain[list[i + 1]] \in Int
    BY <1>3, <1>14, <2>1, <2>2
  <2>4. remain[list[i + 1]] + (Behind + Elapsed) <= DueAt[i + 1]
    BY <1>1, <2>1 DEF Promises, ListLow
  <2>5. DueAt[i + 1] \in Nat
    <3>1. i + 1 \in 0 .. Len(list)
      BY <2>1
    <3> QED
      BY <1>3, <3>1, DueAtGrows
  <2> QED
    <3> PICK a \in Int, d \in Int : a = remain[list[i + 1]] /\ d = DueAt[i + 1]
      BY <2>3, <2>5
    <3>1. a + (loc.elapsed + Elapsed) <= d
      BY <1>8, <2>4
    <3>2. a + ((loc.elapsed - x) + Elapsed) <= d - x
      BY <1>4, <1>5, <1>7, <3>1, TakenOff
    <3> QED
      BY <1>8, <2>1, <2>3, <3>2
<1>18. \A r \in ToSet(loc.restart) :
         remain'[r.node] + Elapsed <= TicksToExpire(r.at, ticks_periodic_interval[r.node])
  <2> SUFFICES ASSUME NEW r \in ToSet(loc.restart)
               PROVE  remain'[r.node] = remain[r.node]
    BY <1>1 DEF Promises, RestartLow
  <2>1. r \in Due /\ r.node \in Restarting
    BY <1>4, ElementOfSeq, LenProperties DEF ToSet, Restarting, NodesOf
  <2> QED
    BY <1>12, <1>14, <2>1 DEF Due
<1>19. Restarts(t) =>
         remain'[t] + Elapsed <= TicksToExpire(back.at, period)
  <2> SUFFICES ASSUME Restarts(t) PROVE remain'[t] + Elapsed <= TicksToExpire(back.at, period)
    OBVIOUS
  <2> DEFINE y == loc.elapsed - x
             d == TicksDiff(back.at, m_ticks_latest)
             q == TicksToExpire(back.at, period)
  <2>1. remain'[t] = remain[t] + period /\ remain[t] \in Int
    BY <1>2, <1>3, <1>5 DEF period
  <2>2. y \in Nat /\ y = loc.elapsed - x
    BY <1>2, <1>4, <1>5
  <2>3. back.at \in Counts
    BY <1>15 DEF Due
  <2>4. sum \in Nat /\ sum + y < W /\ sum + y = loc.expired + loc.elapsed
    BY <1>4, <1>5, <1>9, <1>10, <2>2 DEF sum
  <2>5. sum \in Counts /\ y \in Counts /\ sum + y \in Counts
    <3> HIDE DEF y
    <3> QED
      BY <2>2, <2>4, TicksAssumption DEF W, Counts
  <2>6. m_ticks_latest = (back.at + y) % W
    <3>1. m_ticks_latest = (loc.previous + (sum + y)) % W
      BY <1>9, <2>4
    <3>2. (loc.previous + (sum + y)) % W = (((loc.previous + sum) % W) + y) % W
      BY <1>4, <2>5, TwoMoves
    <3> QED
      BY <1>15, <3>1, <3>2
  <2>7. d = IF y = 0 THEN 0 ELSE W - y
    BY <2>3, <2>5, <2>6, DiffMoved
  <2>8. q >= period + d - W /\ (d = 0 => q >= period) /\ q \in Nat
    BY <1>5, <2>3, TicksToExpireIs, TicksToExpireNat DEF Types, ClockTypes
  <2> HIDE DEF y, d, q
  <2>9. remain[t] + Elapsed <= -y
    BY <1>4, <1>5, <1>7, <1>16, <2>1, <2>2
  <2>10. remain'[t] + Elapsed <= q
    <3>1. CASE y = 0
      BY <1>5, <1>7, <2>1, <2>7, <2>8, <2>9, <3>1
    <3>2. CASE y # 0
      BY <1>5, <1>7, <2>1, <2>2, <2>7, <2>8, <2>9, <3>2
    <3> QED
      BY <3>1, <3>2
  <2> QED
    BY <2>10 DEF q
<1>20. /\ ToSet(loc'.restart) \subseteq ToSet(loc.restart) \cup {back}
       /\ (~Restarts(t) => loc'.restart = loc.restart)
  BY <1>4, <1>6, <1>15, FrontSet
<1>21. RestartLow'
  <2> SUFFICES ASSUME NEW r \in ToSet(loc'.restart)
               PROVE  remain'[r.node] + Elapsed <= TicksToExpire(r.at, ticks_periodic_interval[r.node])
    BY <1>2, <1>8 DEF RestartLow, TicksToExpire, TicksDiff, W
  <2>1. CASE r \in ToSet(loc.restart)
    BY <1>18, <2>1
  <2>2. CASE r \notin ToSet(loc.restart)
    <3>1. r = back /\ Restarts(t)
      BY <1>20, <2>2
    <3> QED
      BY <1>15, <1>19, <3>1 DEF period
  <2> QED
    BY <2>1, <2>2
<1>22. OpsLow'
  <2>1. \A op : OpLow(op)' <=> OpLow(op)
    BY <1>2, <1>8 DEF OpLow, OpTicks, TicksToExpire, TicksDiff, W, Working
  <2> QED
    BY <1>1, <1>2, <2>1 DEF Promises, OpsLow
<1>23. Phases'
  BY <1>1, <1>2 DEF Promises, Phases, Listing, Working, W
<1>24. Places'
  <2>1. loc'.expired + loc'.elapsed = loc.expired + loc.elapsed
    BY <1>6, <1>10
  <2> QED
    BY <1>2, <1>6, <1>9, <2>1 DEF Places, Walks, W
<1>25. remain' \in [Timers -> Int]
  BY <1>2, <1>3, <1>5
<1> QED
  BY <1>17, <1>21, <1>22, <1>23, <1>24, <1>25 DEF TimeInv, Promises

\* The ticks left over come off the head, as m_ticks_latest is ahead by them.
LEMMA SwiExpireDoneKeeps ==
  ASSUME TimeInv, Apart, Types, Types', isr # "lost", SwiExpireDone
  PROVE  TimeInv'
<1>1. Promises
  BY DEF TimeInv
<1>2. /\ UNCHANGED <<counter, m_ticks_latest, m_ticks_elapsed, masked, m_op_queue, m_rtc1_reset,
                     ticks_periodic_interval, list, remain>>
      /\ isr = "expired_timers" /\ isr' = "list_insertions"
      /\ ticks_to_expire' = IF list = <<>> THEN ticks_to_expire
                            ELSE [ticks_to_expire EXCEPT ![Head(list)] = @ - loc.elapsed]
  BY DEF SwiExpireDone, rtcVars
<1>3. Listed /\ Listed' /\ loc \in Locals
  BY DEF Types, ListTypes, LocalTypes
<1>4. loc'.restart = loc.restart /\ loc.elapsed \in Nat
  BY <1>3 DEF SwiExpireDone, Locals
<1>5. Elapsed \in Nat /\ m_rtc1_reset = FALSE
  BY <1>1, <1>2, ElapsedIs DEF Promises, Phases, Types, FlagTypes
<1>6. Elapsed' = Elapsed /\ Behind = loc.elapsed /\ Behind' = 0
  BY <1>2 DEF Elapsed, Behind, TicksDiff, W
<1>7. ListLow'
  <2> SUFFICES ASSUME NEW i \in 1 .. Len(list)
               PROVE  remain[list[i]] + (Behind' + Elapsed') <= DueAt'[i]
    BY <1>2 DEF ListLow
  <2>1. list # <<>> /\ Len(list) \in Nat
    BY <1>3, LenProperties, EmptySeq DEF Listed
  <2>2. DueAt'[i] = DueAt[i] - loc.elapsed
    <3>1. IsInjective(list)
      BY DEF Apart
    <3>2. ticks_to_expire' = [ticks_to_expire EXCEPT ![Head(list)] = @ - loc.elapsed]
      BY <1>2, <2>1
    <3>3. loc.elapsed \in Int
      BY <1>4
    <3> QED
      BY <1>2, <1>3, <2>1, <3>1, <3>2, <3>3, HeadDue
  <2>3. remain[list[i]] + (loc.elapsed + Elapsed) <= DueAt[i]
    BY <1>1, <1>6 DEF Promises, ListLow
  <2>4. DueAt[i] \in Int /\ remain[list[i]] \in Int
    <3>1. DueAt[i] \in Nat
      BY <1>3, DueAtGrows
    <3>2. list[i] \in Timers
      BY <1>3, ElementOfSeq DEF Listed
    <3> QED
      BY <3>1, <3>2 DEF TimeInv
  <2>5. remain[list[i]] + ((loc.elapsed - loc.elapsed) + Elapsed) <= DueAt[i] - loc.elapsed
    BY <1>4, <1>5, <2>3, <2>4, TakenOff
  <2>6. loc.elapsed - loc.elapsed = 0
    BY <1>4
  <2> QED
    BY <1>6, <2>2, <2>5, <2>6
<1>8. RestartLow'
  BY <1>1, <1>2, <1>4, <1>6 DEF Promises, RestartLow, TicksToExpire, TicksDiff, W
<1>9. OpsLow'
  <2>1. \A op : OpLow(op) => OpLow(op)'
    BY <1>2, <1>6 DEF OpLow, OpTicks, TicksToExpire, TicksDiff, W, Working
  <2> QED
    BY <1>1, <1>2, <2>1 DEF Promises, OpsLow
<1>10. Phases'
  BY <1>1, <1>2, <1>4, <1>5 DEF Promises, Phases, Listing, Working, Idle, W
<1>11. Places'
  BY <1>2 DEF Places, Walks
<1>12. remain' \in [Timers -> Int]
  BY <1>2 DEF TimeInv
<1> QED
  BY <1>7, <1>8, <1>9, <1>10, <1>11, <1>12 DEF TimeInv, Promises

\* A timer whose promise is kept goes into the list; the promise of no other changes.
LEMMA InsertKeeps ==
  ASSUME Types, Apart, Promises, isr = "list_insertions", NEW t \in Timers \ ToSet(list),
         NEW ticks \in Nat, Insert(t, ticks),
         UNCHANGED <<counter, m_ticks_latest>>,
         remain' \in [Timers -> Int], \A u \in Timers : u # t => remain'[u] = remain[u],
         remain'[t] + Elapsed <= ticks
  PROVE  ListLow' /\ isr' = isr
<1>1. IsInjective(list)
  BY DEF Apart
<1>2. isr' = isr
  BY <1>1, Linked
<1>3. /\ Listed' /\ Len(list') = Len(list) + 1
      /\ \A i \in 1 .. Len(list') :
           \/ list'[i] = t /\ DueAt'[i] = ticks
           \/ \E k \in {i - 1, i} \cap 1 .. Len(list) : list'[i] = list[k] /\ DueAt'[i] = DueAt[k]
  BY <1>1, InsertDue
<1>4. Elapsed' = Elapsed /\ Behind = 0 /\ Behind' = 0 /\ Elapsed \in Nat
  BY <1>2, ElapsedIs DEF Elapsed, Behind, TicksDiff, W
<1>5. ASSUME NEW i \in 1 .. Len(list')
      PROVE  remain'[list'[i]] + (Behind' + Elapsed') <= DueAt'[i]
  <2>1. CASE list'[i] = t /\ DueAt'[i] = ticks
    BY <1>4, <2>1
  <2>2. ASSUME NEW k \in 1 .. Len(list), list'[i] = list[k], DueAt'[i] = DueAt[k]
        PROVE  remain'[list'[i]] + (Behind' + Elapsed') <= DueAt'[i]
    <3>1. list[k] \in Timers /\ list[k] \in ToSet(list)
      BY ElementOfSeq, LenProperties DEF ToSet, Types, ListTypes, Listed
    <3>2. remain'[list[k]] = remain[list[k]]
      BY <3>1
    <3>3. remain[list[k]] + (Behind + Elapsed) <= DueAt[k]
      BY DEF Promises, ListLow
    <3> QED
      BY <1>4, <2>2, <3>2, <3>3
  <2> QED
    BY <1>3, <2>1, <2>2
<1> QED
  BY <1>2, <1>5 DEF ListLow

LEMMA SwiRestartKeeps ==
  ASSUME TimeInv, Apart, Types, isr # "lost", SwiRestart
  PROVE  TimeInv'
<1>1. Promises
  BY DEF TimeInv
<1> PICK r : r = Head(loc.restart)
  OBVIOUS
<1> DEFINE t == r.node
           ticks == TicksToExpire(r.at, ticks_periodic_interval[t])
<1>2. /\ UNCHANGED <<counter, m_ticks_latest, m_ticks_elapsed, masked, m_op_queue, m_rtc1_reset,
                     ticks_periodic_interval, remain>>
      /\ isr = "list_insertions" /\ loc.restart # <<>> /\ Insert(t, ticks)
  BY DEF SwiRestart, rtcVars
<1>3. loc.restart \in Seq(Due) /\ loc'.restart = Tail(loc.restart)
  BY DEF SwiRestart, Types, LocalTypes, Locals
<1>4. /\ r \in Due /\ r \in ToSet(loc.restart) /\ ToSet(loc'.restart) \subseteq ToSet(loc.restart)
  BY <1>2, <1>3, TailIn, HeadTailProperties
<1>5. t \in Timers /\ ticks \in Nat
  <2>1. r.node \in Timers /\ r.at \in Counts
    BY <1>4 DEF Due
  <2>2. ticks_periodic_interval[r.node] \in Counts
    BY <2>1 DEF Types, ListTypes
  <2> QED
    BY <2>1, <2>2, TicksToExpireNat
<1>7. t \notin ToSet(list)
  <2>1. t \in Restarting
    BY <1>4 DEF Restarting, NodesOf, ToSet
  <2> QED
    BY <2>1 DEF Apart
<1>8. remain' \in [Timers -> Int] /\ remain[t] + Elapsed <= ticks
  BY <1>1, <1>2, <1>4 DEF Promises, RestartLow, TimeInv
<1>9. m_rtc1_reset = FALSE
  BY <1>1, <1>2 DEF Promises, Phases, Types, FlagTypes
<1> HIDE DEF t, ticks
<1>10. ListLow' /\ isr' = isr
  BY <1>1, <1>2, <1>5, <1>7, <1>8, InsertKeeps
<1>11. Elapsed' = Elapsed
  BY <1>2 DEF Elapsed, TicksDiff, W
<1>12. RestartLow'
  BY <1>1, <1>2, <1>4, <1>11 DEF Promises, RestartLow, TicksToExpire, TicksDiff, W
<1>13. OpsLow'
  <2>1. \A op : OpLow(op) => OpLow(op)'
    BY <1>2, <1>10, <1>11 DEF OpLow, OpTicks, TicksToExpire, TicksDiff, W, Working
  <2> QED
    BY <1>1, <1>2, <2>1 DEF Promises, OpsLow
<1>14. Phases'
  BY <1>1, <1>2, <1>9, <1>10 DEF Promises, Phases, Listing, Working, W
<1>15. Places'
  BY <1>2, <1>10 DEF Places, Walks
<1> QED
  BY <1>8, <1>10, <1>12, <1>13, <1>14, <1>15 DEF TimeInv, Promises

LEMMA SwiStartKeeps ==
  ASSUME TimeInv, Apart, Types, isr # "lost", SwiStart
  PROVE  TimeInv'
<1>1. Promises /\ remain \in [Timers -> Int]
  BY DEF TimeInv
<1> PICK op : op = Head(m_op_queue)
  OBVIOUS
<1> DEFINE t == op.node
           at == IF m_rtc1_reset THEN 0 ELSE op.at
           ticks == TicksToExpire(at, op.first)
<1>2. /\ UNCHANGED <<counter, m_ticks_latest, m_ticks_elapsed, masked, m_rtc1_reset, loc>>
      /\ isr = "list_insertions" /\ loc.restart = <<>> /\ m_op_queue # <<>>
      /\ m_op_queue' = Tail(m_op_queue) /\ op.type = "START"
  BY DEF SwiStart, Dequeue, rtcVars
<1>3. op \in Operation /\ op \in ToSet(m_op_queue) /\ ToSet(m_op_queue') \subseteq ToSet(m_op_queue)
  BY <1>2, TailIn, HeadTailProperties DEF Types, QueueTypes
<1>4. /\ op.node \in Timers /\ op.at \in Counts /\ op.first \in Counts /\ op.due \in Int
      /\ at \in Counts
  BY <1>2, <1>3, Width DEF Operation
<1>5. ticks \in Nat
  BY <1>4, TicksToExpireNat
<1>6. Elapsed' = Elapsed /\ Elapsed \in Nat
  BY <1>2, ElapsedIs DEF Elapsed, TicksDiff, W
<1>7. op.due + Elapsed <= ticks
  BY <1>1, <1>2, <1>3 DEF Promises, OpsLow, OpLow, OpTicks
<1>8. isr' = isr => OpsLow'
  <2>1. ASSUME isr' = isr PROVE \A o : OpLow(o) => OpLow(o)'
    BY <1>2, <1>6, <2>1 DEF OpLow, OpTicks, TicksToExpire, TicksDiff, W, Working
  <2> QED
    BY <1>1, <1>3, <2>1 DEF Promises, OpsLow
<1>9. isr' = isr => Phases' /\ Places' /\ RestartLow'
  <2>1. isr' = isr => Phases'
    BY <1>1, <1>2 DEF Promises, Phases, Listing, Working, W
  <2>2. isr' = isr => Places'
    BY <1>2 DEF Places, Walks
  <2>3. RestartLow'
    BY <1>2, NoneThere DEF RestartLow
  <2> QED
    BY <2>1, <2>2, <2>3
<1>11. CASE is_running[t]
  <2>1. UNCHANGED <<isr, list, ticks_to_expire, remain>>
    BY <1>11 DEF SwiStart, listVars
  <2>2. DueAt' = DueAt /\ Behind' = Behind
    BY <1>2, <2>1 DEF DueAt, Behind
  <2>3. ListLow'
    BY <1>1, <1>6, <2>1, <2>2 DEF Promises, ListLow
  <2> QED
    BY <1>1, <1>8, <1>9, <2>1, <2>3 DEF TimeInv, Promises
<1>12. CASE ~is_running[t]
  <2>1. Insert(t, ticks) /\ remain' = [remain EXCEPT ![t] = op.due]
    BY <1>12 DEF SwiStart
  <2>2. remain' \in [Timers -> Int] /\ remain'[t] = op.due /\ \A u \in Timers : u # t => remain'[u] = remain[u]
    BY <1>1, <1>4, <2>1
  <2>3. CASE t \in ToSet(list)
    <3>1. isr' = "lost"
      BY <2>1, <2>3 DEF Insert
    <3> QED
      BY <2>2, <3>1 DEF TimeInv
  <2>4. CASE t \notin ToSet(list)
    <3>1. t \in Timers \ ToSet(list)
      BY <1>4, <2>4
    <3> HIDE DEF t, ticks
    <3>2. ListLow' /\ isr' = isr
      BY <1>1, <1>2, <1>5, <1>7, <2>1, <2>2, <3>1, InsertKeeps
    <3> QED
      BY <1>8, <1>9, <2>2, <3>2 DEF TimeInv, Promises
  <2> QED
    BY <2>3, <2>4
<1> QED
  BY <1>11, <1>12

\* The timer behind a removed one takes over its ticks.  After a reset of the
\* counter the queued starts count from 0, so their whole timeout is ahead.
LEMMA SwiStopKeeps ==
  ASSUME TimeInv, Apart, Types, Types', isr # "lost", SwiStop
  PROVE  TimeInv'
<1>1. Promises /\ remain \in [Timers -> Int]
  BY DEF TimeInv
<1> PICK op : op = Head(m_op_queue)
  OBVIOUS
<1> DEFINE t == op.node
<1>2. /\ UNCHANGED <<m_ticks_elapsed, masked, isr>>
      /\ isr = "list_insertions" /\ loc.restart = <<>> /\ m_op_queue # <<>>
      /\ m_op_queue' = Tail(m_op_queue) /\ op.type = "STOP"
  BY DEF SwiStop, Dequeue, rtcVars
<1>3. op \in Operation /\ ToSet(m_op_queue') \subseteq ToSet(m_op_queue)
  BY <1>2, TailIn, HeadTailProperties DEF Types, QueueTypes
<1>4. t \in Timers /\ Listed /\ Listed' /\ loc \in Locals
  BY <1>2, <1>3 DEF Operation, Types, ListTypes, LocalTypes
<1>5. loc'.restart = <<>>
  <2>1. UNCHANGED loc \/ \E b : loc' = [loc EXCEPT !.update = b]
    BY DEF SwiStop
  <2> QED
    BY <1>2, <1>4, <2>1 DEF Locals
<1>6. Working /\ Working' /\ IsInjective(list)
  BY <1>2 DEF Working, Apart
<1>7. Places' /\ RestartLow'
  BY <1>2, <1>5, NoneThere DEF Places, Walks, RestartLow
<1>8. Elapsed \in Nat
  BY ElapsedIs
<1>9. CASE UNCHANGED <<counter, m_ticks_latest, m_rtc1_reset>>
  <2>1. Phases'
    BY <1>1, <1>2, <1>5, <1>9 DEF Promises, Phases, Listing, Working, W
  <2>2. Elapsed' = Elapsed /\ Behind' = Behind
    BY <1>2, <1>9 DEF Elapsed, Behind, TicksDiff, W
  <2>3. OpsLow'
    <3>1. \A o : OpLow(o) => OpLow(o)'
      BY <1>2, <1>9, <2>2 DEF OpLow, OpTicks, TicksToExpire, TicksDiff, W, Working
    <3> QED
      BY <1>1, <1>3, <3>1 DEF Promises, OpsLow
  <2>4. ListLow' /\ remain' \in [Timers -> Int]
    <3>1. CASE ~Found(t)
      <4>1. UNCHANGED <<list, ticks_to_expire, remain>>
        BY <3>1 DEF SwiStop
      <4>2. DueAt' = DueAt
        BY <4>1 DEF DueAt
      <4> QED
        BY <1>1, <1>6, <2>2, <4>1, <4>2 DEF Promises, ListLow
    <3>2. CASE Found(t)
      <4> PICK p : p = IndexOf(t)
        OBVIOUS
      <4>1. /\ list' = RemoveAt(list, p)
            /\ ticks_to_expire' = IF p = Len(list) THEN ticks_to_expire
                 ELSE [ticks_to_expire EXCEPT ![list[p + 1]] = @ + ticks_to_expire[t]]
            /\ remain' = [remain EXCEPT ![t] = 0]
        BY <3>2 DEF SwiStop, HandsOver
      <4>2. p \in 1 .. Len(list) /\ list[p] = t
        BY <1>4, <3>2, FoundAt DEF Found, Listed
      <4>3. \A i \in 1 .. Len(list') :
              \E k \in 1 .. Len(list) : /\ k = IF i < p THEN i ELSE i + 1
                                        /\ list'[i] = list[k] /\ DueAt'[i] = DueAt[k]
        <5>1. ticks_to_expire' = IF p = Len(list) THEN ticks_to_expire
                ELSE [ticks_to_expire EXCEPT ![list[p + 1]] = @ + ticks_to_expire[list[p]]]
          BY <4>1, <4>2
        <5> QED
          BY <1>4, <1>6, <4>1, <4>2, <5>1, RemoveDue
      <4>4. IsInjective(list') /\ ToSet(list') = ToSet(list) \ {t}
        BY <1>4, <1>6, <4>1, <4>2, RemovedSet DEF Listed
      <4>5. remain' \in [Timers -> Int] /\ \A u \in Timers : u # t => remain'[u] = remain[u]
        <5> HIDE DEF t
        <5>1. t \in Timers /\ remain \in [Timers -> Int] /\ remain' = [remain EXCEPT ![t] = 0]
          BY <1>1, <1>4, <4>1
        <5> QED
          BY <5>1
      <4>6. ASSUME NEW i \in 1 .. Len(list')
            PROVE  remain'[list'[i]] + (Behind' + Elapsed') <= DueAt'[i]
        <5>1. PICK k \in 1 .. Len(list) : list'[i] = list[k] /\ DueAt'[i] = DueAt[k]
          BY <4>3
        <5>2. list'[i] \in ToSet(list') /\ list'[i] \in Timers
          BY <1>4, ElementOfSeq, LenProperties DEF Listed, ToSet
        <5>3. remain'[list'[i]] = remain[list[k]]
          BY <4>4, <4>5, <5>1, <5>2
        <5>4. remain[list[k]] + (Behind + Elapsed) <= DueAt[k]
          BY <1>1 DEF Promises, ListLow
        <5> QED
          BY <2>2, <5>1, <5>3, <5>4
      <4> QED
        BY <4>4, <4>5, <4>6 DEF ListLow
    <3> QED
      BY <3>1, <3>2
  <2> QED
    BY <1>7, <2>1, <2>3, <2>4 DEF TimeInv, Promises
<1>10. CASE ~UNCHANGED <<counter, m_ticks_latest, m_rtc1_reset>>
  <2>1. /\ Found(t) /\ Len(list) = 1 /\ counter' = 0 /\ m_ticks_latest' = 0
        /\ m_rtc1_reset' = TRUE /\ list' = RemoveAt(list, IndexOf(t))
        /\ remain' = [remain EXCEPT ![t] = 0]
    BY <1>10 DEF SwiStop
  <2>2. list' = <<>>
    <3> PICK p : p = IndexOf(t)
      OBVIOUS
    <3>1. p \in 1 .. Len(list) /\ list \in Seq(Timers)
      BY <1>4, <2>1, FoundAt DEF Found, Listed
    <3>2. list' \in Seq(Timers) /\ Len(list') = 0
      <4>1. RemoveAt(list, p) \in Seq(Timers) /\ Len(RemoveAt(list, p)) = Len(list) - 1
        BY <3>1, Removed
      <4> QED
        BY <2>1, <4>1
    <3> QED
      BY <3>2, EmptySeq
  <2>3. Phases'
    BY <1>1, <1>2, <1>5, <1>6, <2>1 DEF Promises, Phases, Listing, W
  <2>4. ListLow' /\ remain' \in [Timers -> Int]
    <3>1. ListLow'
      BY <2>2 DEF ListLow
    <3>2. remain' \in [Timers -> Int]
      <4> HIDE DEF t
      <4>1. t \in Timers /\ remain \in [Timers -> Int] /\ remain' = [remain EXCEPT ![t] = 0]
        BY <1>1, <1>4, <2>1
      <4> QED
        BY <4>1
    <3> QED
      BY <3>1, <3>2
  <2>5. 0 \in Counts /\ TicksDiff(0, 0) = 0 /\ Elapsed' = 0
    <3>1. 0 \in Counts
      BY Width
    <3>2. TicksDiff(0, 0) = 0
      BY <3>1, DiffIs
    <3>3. Elapsed' = TicksDiff(0, 0)
      BY <2>1 DEF Elapsed, TicksDiff, W
    <3> QED
      BY <3>1, <3>2, <3>3
  <2>6. OpsLow'
    <3> SUFFICES ASSUME NEW o \in ToSet(m_op_queue), o.type = "START" PROVE OpLow(o)'
      BY <1>3 DEF OpsLow
    <3>1. o \in Operation
      BY ElementOfSeq, LenProperties DEF ToSet, Types, QueueTypes
    <3>2. o.due \in Int /\ o.first \in Counts
      BY <3>1 DEF Operation
    <3> DEFINE q == TicksToExpire(0, o.first)'
    <3>3. q >= o.first
      BY <2>1, <2>5, <3>2, TicksToExpireNext DEF TicksDiff, W
    <3>4. q \in Int
      <4>1. \A at \in Counts, first \in Counts : TicksToExpire(at, first)' \in Int
        BY <2>1, <2>5, NextTicks
      <4> QED
        BY <2>5, <3>2, <4>1
    <3>5. o.due <= o.first
      BY <1>1 DEF Promises, OpsLow, OpLow
    <3>6. OpTicks(o)' = q
      BY <2>1 DEF OpTicks
    <3> HIDE DEF q
    <3>7. o.due + Elapsed' <= OpTicks(o)'
      <4>1. o.first \in Int
        BY <3>2 DEF Counts
      <4>2. o.due + 0 <= q
        BY <3>2, <3>3, <3>4, <3>5, <4>1
      <4> QED
        BY <2>5, <3>6, <4>2
    <3> QED
      BY <1>6, <3>5, <3>7 DEF OpLow
  <2> QED
    BY <1>7, <2>3, <2>4, <2>6 DEF TimeInv, Promises
<1> QED
  BY <1>9, <1>10

LEMMA SwiStopAllKeeps ==
  ASSUME TimeInv, Types, isr # "lost", SwiStopAll
  PROVE  TimeInv'
<1>1. Promises /\ remain \in [Timers -> Int]
  BY DEF TimeInv
<1>2. /\ UNCHANGED <<counter, m_ticks_latest, m_ticks_elapsed, masked, m_rtc1_reset, isr, loc>>
      /\ isr = "list_insertions" /\ loc.restart = <<>> /\ m_op_queue # <<>>
      /\ m_op_queue' = Tail(m_op_queue) /\ list' = <<>>
      /\ remain' = [u \in Timers |-> IF u \in ToSet(list) THEN 0 ELSE remain[u]]
  BY DEF SwiStopAll, Dequeue, rtcVars
<1>3. ToSet(m_op_queue') \subseteq ToSet(m_op_queue)
  BY <1>2, TailIn DEF Types, QueueTypes
<1>4. remain' \in [Timers -> Int]
  BY <1>1, <1>2
<1>5. Phases' /\ Places'
  BY <1>1, <1>2 DEF Promises, Phases, Places, Walks, Listing, Working, W
<1>6. ListLow' /\ RestartLow'
  BY <1>2, NoneThere DEF ListLow, RestartLow
<1>7. Elapsed' = Elapsed
  BY <1>2 DEF Elapsed, TicksDiff, W
<1>8. OpsLow'
  <2>1. \A op : OpLow(op) => OpLow(op)'
    BY <1>2, <1>7 DEF OpLow, OpTicks, TicksToExpire, TicksDiff, W, Working
  <2> QED
    BY <1>1, <1>3, <2>1 DEF Promises, OpsLow
<1> QED
  BY <1>4, <1>5, <1>6, <1>8 DEF TimeInv, Promises

\* The rest of the SWI handler programs the compare register: nothing is queued
\* then, and the clock is cleared only with the list empty.
LEMMA SwiCompareKeeps ==
  ASSUME TimeInv, Apart, Types, isr # "lost",
         SwiListDone \/ SwiCompare \/ SwiSetCompare \/ SwiCheckCompare
  PROVE  TimeInv'
<1>1. Promises /\ remain \in [Timers -> Int]
  BY DEF TimeInv
<1>2. /\ UNCHANGED <<m_ticks_elapsed, masked, list, ticks_to_expire, m_op_queue, remain>>
      /\ isr \in {"list_insertions", "compare", "set_compare", "check_compare"}
      /\ isr' \in {"compare", "set_compare", "check_compare", Idle}
      /\ m_rtc1_reset' = IF isr' = Idle THEN FALSE ELSE m_rtc1_reset
      /\ UNCHANGED <<counter, m_ticks_latest>> \/ list = <<>>
  BY DEF SwiListDone, SwiCompare, SwiSetCompare, SwiCheckCompare, listVars, rtcVars, Idle
<1>3. m_op_queue = <<>>
  BY <1>1 DEF Promises, Phases, SwiListDone, NothingLeft, SwiCompare, SwiSetCompare, SwiCheckCompare
<1>4. loc'.restart = <<>>
  <2>1. CASE SwiSetCompare
    BY <2>1 DEF SwiSetCompare, Apart, Listing
  <2>2. CASE SwiListDone
    BY <2>2 DEF SwiListDone, NoLoc
  <2>3. CASE SwiCompare
    <3>1. loc' = NoLoc \/ loc' = [NoLoc EXCEPT !.pre = counter]
      BY <2>3 DEF SwiCompare
    <3> QED
      BY <3>1 DEF NoLoc
  <2>4. CASE SwiCheckCompare
    BY <2>4 DEF SwiCheckCompare, NoLoc
  <2> QED
    BY <2>1, <2>2, <2>3, <2>4
<1>5. Behind = 0 /\ Behind' = 0 /\ DueAt' = DueAt
  BY <1>2 DEF Behind, DueAt, Idle
<1>6. ListLow'
  <2>1. CASE UNCHANGED <<counter, m_ticks_latest>>
    BY <1>1, <1>2, <1>5, <2>1 DEF Promises, ListLow, Elapsed, TicksDiff, W
  <2>2. CASE list = <<>>
    BY <1>2, <2>2 DEF ListLow
  <2> QED
    BY <1>2, <2>1, <2>2
<1>7. OpsLow' /\ RestartLow'
  BY <1>2, <1>3, <1>4, NoneThere DEF OpsLow, RestartLow
<1>8. Phases'
  BY <1>1, <1>2, <1>3, <1>4 DEF Promises, Phases, Working, Idle, W
<1>9. Places'
  BY <1>2 DEF Places, Walks, Idle
<1> QED
  BY <1>1, <1>2, <1>6, <1>7, <1>8, <1>9 DEF TimeInv, Promises

LEMMA NextKeeps ==
  ASSUME TimeInv, Apart, Types, Types', ServiceInv, Served, Served', StartsLate = FALSE, [Next]_vars
  PROVE  TimeInv'
<1>1. CASE UNCHANGED vars
  <2>1. UNCHANGED <<counter, m_ticks_latest, m_ticks_elapsed, m_rtc1_reset, list, ticks_to_expire,
                    ticks_periodic_interval, m_op_queue, masked, isr, loc, remain>>
    BY <1>1 DEF vars, listVars, rtcVars
  <2>2. DueAt' = DueAt /\ Behind' = Behind /\ Elapsed' = Elapsed
        /\ (Working' <=> Working) /\ (Walks' <=> Walks)
    BY <2>1 DEF DueAt, Behind, Elapsed, TicksDiff, W, Working, Walks
  <2>3. \A op : OpLow(op) => OpLow(op)'
    BY <2>1, <2>2 DEF OpLow, OpTicks, TicksToExpire, TicksDiff, W
  <2>4. Promises => OpsLow' /\ RestartLow' /\ ListLow'
    BY <2>1, <2>2, <2>3 DEF Promises, OpsLow, RestartLow, ListLow, TicksToExpire, TicksDiff, W
  <2>5. Promises => Phases' /\ Places'
    BY <2>1, <2>2 DEF Promises, Phases, Places, W
  <2> QED
    BY <2>1, <2>4, <2>5 DEF TimeInv, Promises
<1>2. CASE isr = "lost" /\ Next
  <2>1. Tick \/ ExitCritical
    BY <1>2, LostStays
  <2>2. isr' = "lost" /\ remain' \in [Timers -> Int]
    <3>1. W \in Int /\ remain \in [Timers -> Int]
      BY Width DEF TimeInv
    <3> QED
      BY <1>2, <2>1, <3>1 DEF Tick, ExitCritical
  <2> QED
    BY <2>2 DEF TimeInv
<1>3. CASE isr # "lost" /\ Next
  <2>1. CASE Swi
    BY <1>3, <2>1, SwiEnterKeeps, SwiExpireKeeps, SwiExpireDoneKeeps, SwiRestartKeeps, SwiStartKeeps,
       SwiStopKeeps, SwiStopAllKeeps, SwiCompareKeeps DEF Swi
  <2> QED
    BY <1>3, <2>1, TickKeeps, ThreadKeeps, HandlerKeeps, RtcKeeps DEF Next
<1> QED
  BY <1>1, <1>2, <1>3

LEMMA TimeInvariant ==
  ASSUME StartsLate = FALSE
  PROVE  Spec /\ []Served => [](TimeInv /\ Types)
<1>1. Init => TimeInv
  BY InitKeeps
<1>2. ASSUME TimeInv, Types, Types', Apart, ServiceInv, Served, Served', [Next]_vars PROVE TimeInv'
  BY <1>2, NextKeeps
<1> QED
  BY <1>1, <1>2, TypesInvariant, ApartInvariant, ServiceInvariant, PTL DEF Spec

\* NeverEarly, for every set of timers and counter width, when timers are not
\* started half a counter range after the last expiry and the interrupts serve
\* an expiry before the counter comes round to it again: no timeout handler is
\* called before the requested ticks have passed.
THEOREM NoTimeoutEarly ==
  ASSUME StartsLate = FALSE
  PROVE  Spec /\ []Served => []NeverEarly
<1>1. Spec /\ []Served => [](TimeInv /\ Types)
  BY TimeInvariant
<1>2. TimeInv => NeverEarly
  BY DEF TimeInv, Promises, Places, NeverEarly
<1> QED
  BY <1>1, <1>2, PTL

\* The lower half of OnSchedule, under the same conditions: the deltas of the
\* list never promise an expiry before the deadline.
THEOREM NoPromiseEarly ==
  ASSUME StartsLate = FALSE
  PROVE  Spec /\ []Served =>
           [](Quiet => \A i \in 1 .. Len(list) :
                DueAt[i] - TicksDiff(counter, m_ticks_latest) >= remain[list[i]])
<1>1. Spec /\ []Served => [](TimeInv /\ Types)
  BY TimeInvariant
<1>2. TimeInv /\ Types =>
        (Quiet => \A i \in 1 .. Len(list) :
           DueAt[i] - TicksDiff(counter, m_ticks_latest) >= remain[list[i]])
  <2> SUFFICES ASSUME TimeInv, Types, Quiet, NEW i \in 1 .. Len(list)
               PROVE  DueAt[i] - Elapsed >= remain[list[i]]
    BY DEF Elapsed
  <2>1. isr = Idle
    BY DEF Quiet, Busy
  <2>2. Promises /\ Behind = 0
    BY <2>1 DEF TimeInv, Behind, Idle
  <2>3. remain[list[i]] + (Behind + Elapsed) <= DueAt[i]
    BY <2>2 DEF Promises, ListLow
  <2>4. Elapsed \in Nat /\ DueAt[i] \in Nat /\ remain[list[i]] \in Int
    <3>1. Listed /\ list[i] \in Timers
      BY ElementOfSeq DEF Types, ListTypes, Listed
    <3>2. DueAt[i] \in Nat
      BY <3>1, DueAtGrows
    <3> QED
      BY <3>1, <3>2, ElapsedIs DEF TimeInv
  <2> QED
    BY <2>2, <2>3, <2>4
<1> QED
  BY <1>1, <1>2, PTL

-----------------------------------------------------------------------------
(***************************************************************************)
(* Why the next COMPARE comes in time.  While the interrupts are served    *)
(* the RTC either runs with a COMPARE that is pending or comes no later    *)
(* than the head, or the SWI handler is bound to set the compare register  *)
(* again: RTC1 queued ticks for it, or it has been told to, or the head    *)
(* will be another one than at its entry.  The last needs that at most one *)
(* operation is applied by a run of the handler that no expiry caused, so  *)
(* that the head cannot leave the list and come back with another delta.   *)
(***************************************************************************)
Wait == IF cc = counter THEN W ELSE TicksDiff(cc, counter)
Reach ==
  /\ ~cc_missed
  /\ Wait <= ticks_to_expire[Head(list)] - Elapsed \/ Wait <= RTC_COMPARE_OFFSET_MIN
Coming == m_rtc1_running /\ (rtc_pending \/ Reach)
Expected == list # <<>> => Coming

\* The main program calls no app_timer function in its critical regions.
Unmasked == masked => thread.pc = Idle

ArmedIdle ==
  isr = Idle =>
    /\ Expected \/ (m_rtc1_running /\ m_ticks_elapsed # NONE)
    /\ Len(m_op_queue) <= 1 \/ m_ticks_elapsed # NONE
    /\ thread.pc \in {Idle, "stop"} => m_op_queue = <<>> \/ m_ticks_elapsed # NONE
ArmedListing ==
  /\ isr = "expired_timers" => loc.update
  /\ isr = "list_insertions" =>
       \/ loc.update
       \/ loc.restart = <<>> /\ m_op_queue = <<>> /\ HeadTimer # loc.old_head
       \/ loc.restart = <<>> /\ Len(m_op_queue) <= 1 /\ HeadTimer = loc.old_head /\ Expected
ArmedSetting ==
  /\ isr \in {"rtc", "timeout_handler", "set_compare", "check_compare"} =>
       m_rtc1_running /\ list # <<>>
  /\ isr \in {"compare", "set_compare", "check_compare"} => m_op_queue = <<>>
  /\ isr = "check_compare" => cc = CompareValue /\ (cc_missed => cc = (counter + 1) % W)
CompareInv == ArmedIdle /\ ArmedListing /\ ArmedSetting

LEMMA Division ==
  ASSUME NEW y \in Nat, NEW w \in Nat \ {0}
  PROVE  y = (y \div w) * w + (y % w) /\ y \div w \in Int
BY Z3

\* The remainder that a natural number leaves is not greater than the number.
LEMMA NoFarther ==
  ASSUME NEW l \in Counts, NEW p \in Counts, NEW x \in Nat, TicksDiff(p, l) <= x
  PROVE  TicksDiff((l + x) % W, p) <= x - TicksDiff(p, l)
<1> DEFINE y == l + x
           q == TicksDiff(p, l)
           c == y % W
           v == TicksDiff(c, p)
           m == y \div W
<1>1. l \in Nat /\ p \in Nat /\ W \in Nat \ {0} /\ y \in Nat /\ l < W /\ p < W
  BY Width, TicksAssumption DEF Counts, W
<1>2. c \in Counts /\ c \in Nat /\ c < W
  BY <1>1, Width, TicksAssumption DEF Counts, W
<1>3. q = (IF p >= l THEN p - l ELSE p - l + W) /\ q \in Nat
  BY DiffIs, Width
<1>4. v = (IF c >= p THEN c - p ELSE c - p + W) /\ v \in Nat /\ v < W
  BY <1>2, DiffIs, Width
<1>5. y = m * W + c /\ m \in Int
  BY <1>1, Division
<1> HIDE DEF q, v, c, m, y
<1>6. \E n \in Int : v = x - q - n * W
  <2> DEFINE z == m * W
  <2>1. /\ z \in Int /\ (m - 1) * W = z - W /\ (m - 2) * W = z - 2 * W
        /\ m - 1 \in Int /\ m - 2 \in Int
    <3> PICK w \in Nat : w = W
      BY <1>1
    <3>1. m * w \in Int /\ (m - 1) * w = m * w - w /\ (m - 2) * w = m * w - 2 * w
      BY <1>5
    <3> QED
      BY <1>5, <3>1
  <2>2. l + x = z + c
    BY <1>5 DEF y
  <2>3. z = m * W
    OBVIOUS
  <2> HIDE DEF z
  <2>4. x - q = v + z \/ x - q = v + (z - W) \/ x - q = v + (z - 2 * W)
    BY <1>1, <1>2, <1>3, <1>4, <2>1, <2>2
  <2>5. v = x - q - z \/ v = x - q - (z - W) \/ v = x - q - (z - 2 * W)
    BY <1>1, <1>3, <1>4, <2>1, <2>4
  <2> QED
    BY <1>5, <2>1, <2>3, <2>5
<1>7. PICK n \in Int : v = x - q - n * W
  BY <1>6
<1>8. n < 0 => n * W <= -W
  <2> PICK w \in Nat : w = W
    BY <1>1
  <2>1. n < 0 => n * w <= -w
    BY Z3
  <2> QED
    BY <2>1
<1>9. n >= 0 => n * W >= 0
  <2> PICK w \in Nat : w = W
    BY <1>1
  <2>1. n >= 0 => n * w >= 0
    BY Z3
  <2> QED
    BY <2>1
<1>10. n * W \in Int
  BY <1>1
<1>11. q <= x
  BY DEF q
<1> DEFINE k == n * W
<1> HIDE DEF k
<1>12. v <= x - q
  BY <1>1, <1>3, <1>4, <1>7, <1>8, <1>9, <1>10, <1>11 DEF k
<1> QED
  BY <1>12 DEF q, v, c, y

LEMMA StaysExpected ==
  ASSUME UNCHANGED <<counter, cc, cc_missed, rtc_pending, m_rtc1_running, m_ticks_latest>>,
         list' # <<>> => /\ list # <<>> /\ Head(list') = Head(list)
                         /\ ticks_to_expire'[Head(list)] = ticks_to_expire[Head(list)],
         Expected
  PROVE  Expected'
<1>1. Elapsed' = Elapsed /\ Wait' = Wait
  BY DEF Elapsed, Wait, TicksDiff, W
<1>2. CASE list' # <<>>
  BY <1>1, <1>2 DEF Expected, Coming, Reach
<1> QED
  BY <1>2 DEF Expected

\* Nothing but the main program's place in a call, or nothing at all, changes.
LEMMA StaysArmed ==
  ASSUME CompareInv,
         UNCHANGED <<counter, cc, cc_missed, rtc_pending, m_rtc1_running, m_ticks_latest, list,
                     ticks_to_expire, m_ticks_elapsed, isr, loc>>,
         isr = "lost" \/ m_op_queue' = m_op_queue \/ isr \in {Idle, "timeout_handler"},
         isr = Idle =>
           /\ Len(m_op_queue') <= 1 \/ m_ticks_elapsed # NONE
           /\ thread'.pc \in {Idle, "stop"} => m_op_queue' = <<>> \/ m_ticks_elapsed # NONE
  PROVE  CompareInv'
<1>1. Expected => Expected'
  BY StaysExpected
<1>2. CompareValue' = CompareValue /\ HeadTimer' = HeadTimer
  BY DEF CompareValue, HeadTimer, TicksDiff, W
<1>3. ArmedIdle'
  BY <1>1 DEF CompareInv, ArmedIdle, Idle
<1>4. ArmedListing'
  BY <1>1, <1>2 DEF CompareInv, ArmedListing, Idle
<1>5. ArmedSetting'
  BY <1>2 DEF CompareInv, ArmedSetting, Idle, W
<1> QED
  BY <1>3, <1>4, <1>5 DEF CompareInv

\* A tick of the clock brings the COMPARE nearer, or it comes.
LEMMA TickComes ==
  ASSUME Types, Tick, m_rtc1_running, list # <<>>, Coming
  PROVE  Coming'
<1>1. /\ UNCHANGED <<cc, m_rtc1_running, list, ticks_to_expire, m_ticks_latest>>
      /\ counter' = (counter + 1) % W
      /\ rtc_pending' = (rtc_pending \/ ((counter + 1) % W = cc /\ ~cc_missed))
      /\ cc_missed' = (cc_missed /\ ~((counter + 1) % W = cc))
  BY DEF Tick, listVars
<1>2. CASE rtc_pending
  BY <1>1, <1>2 DEF Coming
<1>3. CASE ~rtc_pending
  <2>1. Reach /\ ~cc_missed
    BY <1>3 DEF Coming, Reach
  <2>2. CASE counter' = cc
    BY <1>1, <2>1, <2>2 DEF Coming
  <2>3. CASE counter' # cc
    <3>1. /\ counter \in Counts /\ cc \in Counts /\ m_ticks_latest \in Counts
          /\ W \in Nat \ {0} /\ 1 \in Counts /\ 1 < W
      BY TicksAssumption, Width DEF Types, ClockTypes, Counts, W
    <3>2. counter' \in Counts /\ counter' = IF counter + 1 < W THEN counter + 1 ELSE counter + 1 - W
      BY <1>1, <3>1, MovedOn
    <3>3. counter \in Nat /\ counter' \in Nat /\ cc \in Nat /\ counter < W /\ cc < W
      BY <3>1, <3>2, TicksAssumption DEF Counts, W
    <3>4. /\ TicksDiff(cc, counter) = IF cc >= counter THEN cc - counter ELSE cc - counter + W
          /\ TicksDiff(cc, counter') = IF cc >= counter' THEN cc - counter' ELSE cc - counter' + W
      BY <3>1, <3>2, DiffIs
    <3>5. Wait = (IF cc = counter THEN W ELSE TicksDiff(cc, counter)) /\ Wait' = TicksDiff(cc, counter')
      BY <1>1, <2>3 DEF Wait, TicksDiff, W
    <3>6. Wait \in Int /\ Wait' = Wait - 1
      BY <3>1, <3>2, <3>3, <3>4, <3>5, <2>3
    <3>7. TicksDiff((counter + 1) % W, m_ticks_latest) =
            IF TicksDiff(counter, m_ticks_latest) + 1 < W
            THEN TicksDiff(counter, m_ticks_latest) + 1
            ELSE TicksDiff(counter, m_ticks_latest) + 1 - W
      BY <3>1, DiffMoved
    <3>8. Elapsed' = TicksDiff((counter + 1) % W, m_ticks_latest)
      BY <1>1 DEF Elapsed, TicksDiff, W
    <3>9. Elapsed \in Nat /\ Elapsed' \in Int /\ Elapsed' <= Elapsed + 1
      BY <3>1, <3>7, <3>8, ElapsedIs DEF Elapsed
    <3>10. CASE Wait <= RTC_COMPARE_OFFSET_MIN
      <4>1. Wait' <= RTC_COMPARE_OFFSET_MIN
        BY <3>6, <3>10, TicksAssumption
      <4>2. ~cc_missed'
        BY <1>1, <2>1
      <4> QED
        BY <1>1, <4>1, <4>2 DEF Coming, Reach
    <3>11. CASE Wait <= ticks_to_expire[Head(list)] - Elapsed
      <4> PICK k \in Int : k = ticks_to_expire[Head(list)]
        BY HeadTailProperties DEF Types, ListTypes, Listed
      <4>1. Wait' <= k - Elapsed'
        BY <3>6, <3>9, <3>11
      <4>2. Wait' <= (ticks_to_expire[Head(list)])' - Elapsed'
        BY <1>1, <4>1
      <4> QED
        BY <1>1, <2>1, <4>2 DEF Coming, Reach
    <3> QED
      BY <2>1, <3>10, <3>11 DEF Reach
  <2> QED
    BY <2>2, <2>3
<1> QED
  BY <1>2, <1>3
LEMMA TickArms ==
  ASSUME CompareInv, Types, Tick
  PROVE  CompareInv'
<1>1. /\ UNCHANGED <<cc, m_rtc1_running, list, ticks_to_expire, m_ticks_latest, m_ticks_elapsed,
                     isr, loc, thread>>
      /\ m_rtc1_running => /\ counter' = (counter + 1) % W
                           /\ cc_missed' = (cc_missed /\ ~((counter + 1) % W = cc))
      /\ HeadTimer' = HeadTimer
  BY DEF Tick, listVars, HeadTimer
<1>2. CompareValue' = CompareValue
  BY <1>1 DEF CompareValue, TicksDiff, W
<1>3. Expected => Expected'
  BY <1>1, TickComes DEF Expected, Coming
<1>4. Len(m_op_queue') = Len(m_op_queue) /\ (m_op_queue = <<>> => m_op_queue' = <<>>)
  <2>2. m_op_queue' \in Seq(Operation) /\ DOMAIN m_op_queue' = DOMAIN m_op_queue
    BY TickTypes DEF Types, QueueTypes, Tick
  <2>3. DOMAIN m_op_queue = 1 .. Len(m_op_queue) /\ DOMAIN m_op_queue' = 1 .. Len(m_op_queue')
        /\ Len(m_op_queue) \in Nat /\ Len(m_op_queue') \in Nat
    BY <2>2, LenProperties DEF Types, QueueTypes
  <2>4. Len(m_op_queue') = Len(m_op_queue)
    BY <2>2, <2>3
  <2> QED
    BY <2>2, <2>4, EmptySeq DEF Types, QueueTypes
<1>5. ArmedIdle' /\ ArmedListing'
  BY <1>1, <1>3, <1>4 DEF CompareInv, ArmedIdle, ArmedListing
<1>6. ArmedSetting'
  BY <1>1, <1>2, <1>4 DEF CompareInv, ArmedSetting
<1> QED
  BY <1>5, <1>6 DEF CompareInv

LEMMA ThreadArms ==
  ASSUME CompareInv, Types, Unmasked, ServiceInv, Thread
  PROVE  CompareInv'
<1>1. UNCHANGED <<counter, cc, cc_missed, rtc_pending, m_rtc1_running, m_ticks_latest, list,
                  ticks_to_expire, m_ticks_elapsed, isr, loc>>
  BY DEF Thread, EnterCritical, ExitCritical, StopQueue, StopAllQueue, Sched, Return, Create,
     StopClear, StartQueue, rtcVars, listVars
<1>2. SUFFICES /\ m_op_queue' = m_op_queue \/ isr = Idle
               /\ isr = Idle =>
                    /\ Len(m_op_queue') <= 1 \/ m_ticks_elapsed # NONE
                    /\ thread'.pc \in {Idle, "stop"} => m_op_queue' = <<>> \/ m_ticks_elapsed # NONE
  BY <1>1, StaysArmed
<1>3. CASE EnterCritical \/ ExitCritical \/ \E t \in Timers : Create(t)
  BY <1>3 DEF EnterCritical, ExitCritical, Create, CompareInv, ArmedIdle
<1>4. CASE Sched
  <2>1. thread'.pc = "return" /\ m_op_queue' = m_op_queue
    BY <1>4 DEF Sched, Types, LocalTypes, Calls
  <2> QED
    BY <2>1 DEF CompareInv, ArmedIdle, Idle
<1>5. CASE Return
  <2>1. isr = Idle /\ ~swi_pending /\ m_op_queue' = m_op_queue /\ thread.pc = "return"
    BY <1>5 DEF Return, ThreadRuns, Unmasked, Idle
  <2>2. m_op_queue = <<>>
    BY <2>1 DEF ServiceInv, OpsServed, Idle
  <2> QED
    BY <2>1, <2>2 DEF CompareInv, ArmedIdle
<1>6. CASE \E t \in Timers : StopClear(t)
  <2>1. thread.pc = Idle /\ m_op_queue' = m_op_queue
    BY <1>6 DEF StopClear
  <2> QED
    BY <2>1 DEF CompareInv, ArmedIdle
<1>7. CASE StopQueue /\ ~HasRoom
  <2>1. thread.pc = "stop" /\ m_op_queue' = m_op_queue
    BY <1>7 DEF StopQueue
  <2> QED
    BY <2>1 DEF CompareInv, ArmedIdle
<1>8. CASE (StopQueue /\ HasRoom) \/ StopAllQueue
           \/ \E t \in Timers : \E T \in TimeoutsOf[t] : StartQueue(t, T)
  <2>1. /\ isr = Idle /\ thread.pc \in {Idle, "stop"} /\ thread'.pc = "sched"
        /\ \E op : m_op_queue' = Append(m_op_queue, op)
    BY <1>8 DEF StopQueue, StopAllQueue, StartQueue, ThreadRuns
  <2>2. m_op_queue = <<>> \/ m_ticks_elapsed # NONE
    BY <2>1 DEF CompareInv, ArmedIdle
  <2>3. m_op_queue = <<>> => Len(m_op_queue') <= 1
    <3> PICK op : m_op_queue' = Append(m_op_queue, op)
      BY <2>1
    <3>1. Len(Append(<<>>, op)) = 1
      OBVIOUS
    <3> QED
      BY <3>1
  <2> QED
    BY <2>1, <2>2, <2>3 DEF Idle
<1> QED
  BY <1>3, <1>4, <1>5, <1>6, <1>7, <1>8 DEF Thread

LEMMA HandlerArms ==
  ASSUME CompareInv, Types, TimeoutHandler
  PROVE  CompareInv'
<1>1. CASE HandlerReturn
  <2>1. UNCHANGED <<m_rtc1_running, list>> /\ isr = "timeout_handler" /\ isr' = "rtc"
    BY <1>1 DEF HandlerReturn, rtcVars, listVars
  <2> QED
    BY <2>1 DEF CompareInv, ArmedIdle, ArmedListing, ArmedSetting, Idle
<1>2. CASE ~HandlerReturn
  <2>1. /\ UNCHANGED <<m_rtc1_running, list, isr>> /\ isr = "timeout_handler"
    BY <1>2 DEF TimeoutHandler, HandlerStopAll, HandlerStop, HandlerStart, rtcVars, listVars
  <2> QED
    BY <2>1 DEF CompareInv, ArmedIdle, ArmedListing, ArmedSetting, Idle
<1> QED
  BY <1>1, <1>2

LEMMA RtcArms ==
  ASSUME CompareInv, Types, Rtc
  PROVE  CompareInv'
<1>1. CASE RtcEnter
  <2>1. /\ UNCHANGED <<list, thread, m_op_queue, m_ticks_elapsed, m_rtc1_running>>
        /\ isr = Idle /\ m_rtc1_running
        /\ (isr' = isr /\ list = <<>>) \/ (isr' = "rtc" /\ list # <<>>)
    BY <1>1 DEF RtcEnter, RtcIrq, listVars
  <2> QED
    BY <2>1 DEF CompareInv, ArmedIdle, ArmedListing, ArmedSetting, Expected, Idle
<1>2. CASE RtcExpire
  <2>1. /\ UNCHANGED <<list, m_rtc1_running>> /\ isr = "rtc"
        /\ isr' \in {"rtc", "timeout_handler"}
    BY <1>2 DEF RtcExpire, rtcVars, listVars
  <2> QED
    BY <2>1 DEF CompareInv, ArmedIdle, ArmedListing, ArmedSetting, Idle
<1>3. CASE RtcExit
  <2>1. /\ UNCHANGED <<list, m_rtc1_running>> /\ isr = "rtc" /\ isr' = Idle
        /\ m_ticks_elapsed' = loc.expired /\ loc.expired \in Nat
    BY <1>3 DEF RtcExit, rtcVars, listVars, Types, LocalTypes, Locals
  <2>2. m_ticks_elapsed' # NONE
    BY <2>1 DEF NONE
  <2> QED
    BY <2>1, <2>2 DEF CompareInv, ArmedIdle, ArmedListing, ArmedSetting, Idle, NONE
<1> QED
  BY <1>1, <1>2, <1>3 DEF Rtc

LEMMA SwiEnterArms ==
  ASSUME CompareInv, Types, SwiEnter
  PROVE  CompareInv'
<1>1. /\ UNCHANGED <<counter, cc, cc_missed, rtc_pending, m_rtc1_running, list, ticks_to_expire,
                     m_op_queue>>
      /\ isr = Idle
  BY DEF SwiEnter, rtcVars, listVars
<1>2. CASE m_ticks_elapsed # NONE
  <2>1. isr' = "expired_timers" /\ loc'.update
    BY <1>2 DEF SwiEnter, NoLoc
  <2> QED
    BY <2>1 DEF CompareInv, ArmedIdle, ArmedListing, ArmedSetting, Idle
<1>3. CASE m_ticks_elapsed = NONE
  <2>1. /\ isr' = "list_insertions" /\ UNCHANGED m_ticks_latest
        /\ loc'.old_head = HeadTimer /\ loc'.restart = <<>>
    BY <1>3 DEF SwiEnter, NoLoc
  <2>2. Expected' /\ HeadTimer' = HeadTimer
    BY <1>1, <1>3, <2>1, StaysExpected DEF CompareInv, ArmedIdle, HeadTimer
  <2>3. Len(m_op_queue') <= 1
    BY <1>1, <1>3 DEF CompareInv, ArmedIdle
  <2> QED
    BY <2>1, <2>2, <2>3 DEF CompareInv, ArmedIdle, ArmedListing, ArmedSetting, Idle
<1> QED
  BY <1>2, <1>3

\* Once a new setting of the compare register is asked for it is not forgotten.
LEMMA StaysAsked ==
  ASSUME isr' \in {"expired_timers", "list_insertions", "lost"}, isr' # "lost" => loc'.update
  PROVE  CompareInv'
BY DEF CompareInv, ArmedIdle, ArmedListing, ArmedSetting, Idle

LEMMA SwiExpiredArms ==
  ASSUME CompareInv, Types, SwiExpire \/ SwiExpireDone
  PROVE  CompareInv'
<1>1. loc \in Locals /\ isr = "expired_timers" /\ loc.update
  BY DEF SwiExpire, SwiExpireDone, CompareInv, ArmedListing, Types, LocalTypes
<1>2. isr' \in {"expired_timers", "list_insertions"} /\ loc'.update
  BY <1>1 DEF SwiExpire, SwiExpireDone, Locals
<1> QED
  BY <1>2, StaysAsked

LEMMA SwiRestartArms ==
  ASSUME CompareInv, Types, SwiRestart
  PROVE  CompareInv'
<1>1. loc \in Locals /\ isr = "list_insertions" /\ loc.update
  BY DEF SwiRestart, CompareInv, ArmedListing, Types, LocalTypes
<1>2. loc'.update /\ isr' \in {"list_insertions", "lost"}
  BY <1>1 DEF SwiRestart, Insert, Locals
<1> QED
  BY <1>2, StaysAsked

\* What the SWI handler knows when it takes an operation from the queue.
LEMMA LastOperation ==
  ASSUME CompareInv, Types, isr = "list_insertions", m_op_queue # <<>>
  PROVE  \/ loc.update
         \/ /\ loc.restart = <<>> /\ Tail(m_op_queue) = <<>>
            /\ HeadTimer = loc.old_head /\ Expected
<1>1. SUFFICES Len(m_op_queue) <= 1 => Tail(m_op_queue) = <<>>
  BY DEF CompareInv, ArmedListing
<1>2. /\ Len(m_op_queue) \in Nat /\ Tail(m_op_queue) \in Seq(Operation)
      /\ Len(Tail(m_op_queue)) = Len(m_op_queue) - 1
  BY HeadTailProperties, LenProperties DEF Types, QueueTypes
<1>3. Len(Tail(m_op_queue)) \in Nat
  BY <1>2, LenProperties
<1> QED
  BY <1>2, <1>3, EmptySeq

\* The last operation leaves a head for which a COMPARE comes, or another head.
LEMMA StaysListed ==
  ASSUME isr' = "list_insertions",
         loc'.restart = <<>>, m_op_queue' = <<>>,
         HeadTimer' # loc'.old_head \/ Expected'
  PROVE  CompareInv'
<1>1. Len(m_op_queue') <= 1
  OBVIOUS
<1> QED
  BY <1>1 DEF CompareInv, ArmedIdle, ArmedListing, ArmedSetting, Idle

\* A timer that is not in the list becomes its head, or the head stays.
LEMMA InsertedHead ==
  ASSUME Types, IsInjective(list), NEW t \in Timers, NEW ticks \in Nat, Insert(t, ticks),
         t \notin ToSet(list)
  PROVE  /\ list' # <<>>
         /\ \/ HeadTimer' = t
            \/ /\ list # <<>> /\ Head(list') = Head(list)
               /\ ticks_to_expire'[Head(list)] = ticks_to_expire[Head(list)]
<1> DEFINE pos == Place(ticks)
<1>1. Listed /\ list \in Seq(Timers) /\ Len(list) \in Nat
  BY LenProperties DEF Types, ListTypes, Listed
<1>2. pos \in 1 .. Len(list) + 1
  BY <1>1, PlaceFits
<1> DEFINE own == ticks - DueAt[pos - 1]
           moved == [ticks_to_expire EXCEPT ![t] = own]
<1>3. /\ list' = InsertAt(list, pos, t)
      /\ ticks_to_expire' = IF pos > Len(list) THEN moved
                            ELSE [moved EXCEPT ![list[pos]] = moved[list[pos]] - own]
  BY DEF Insert
<1> HIDE DEF pos, own
<1>4. /\ list' \in Seq(Timers) /\ Len(list') = Len(list) + 1
      /\ list'[1] = IF 1 < pos THEN list[1] ELSE t
  <2>1. /\ InsertAt(list, pos, t) \in Seq(Timers)
        /\ Len(InsertAt(list, pos, t)) = Len(list) + 1
        /\ \A k \in 1 .. Len(list) + 1 : InsertAt(list, pos, t)[k] =
              IF k < pos THEN list[k] ELSE IF k = pos THEN t ELSE list[k - 1]
    BY <1>1, <1>2, Inserted
  <2>2. 1 \in 1 .. Len(list) + 1 /\ pos \in Nat /\ pos >= 1
    BY <1>1, <1>2
  <2> QED
    BY <1>3, <2>1, <2>2
<1>5. list' # <<>> /\ Head(list') = list'[1]
  BY <1>1, <1>4
<1>6. CASE pos = 1
  BY <1>4, <1>5, <1>6 DEF HeadTimer
<1>7. CASE pos # 1
  <2>1. pos > 1 /\ list # <<>> /\ 1 \in 1 .. Len(list) /\ Head(list) = list[1]
    BY <1>1, <1>2, <1>7
  <2>2. list[1] \in Timers /\ list[1] \in ToSet(list)
    BY <1>1, <2>1, ElementOfSeq, LenProperties DEF ToSet
  <2>3. pos <= Len(list) => list[pos] # list[1] /\ list[pos] \in Timers
    <3>1. pos <= Len(list) => pos \in 1 .. Len(list)
      BY <1>1, <1>2
    <3> QED
      BY <1>1, <2>1, <3>1, <1>7, ElementOfSeq, LenProperties DEF IsInjective
  <2>4. ticks_to_expire'[list[1]] = ticks_to_expire[list[1]]
    <3> PICK h \in Timers : h = list[1]
      BY <2>2
    <3>1. h # t /\ moved[h] = ticks_to_expire[h] /\ moved \in [Timers -> {moved[u] : u \in Timers}]
      BY <1>1, <2>2 DEF Listed
    <3>2. CASE pos > Len(list)
      BY <1>3, <3>1, <3>2
    <3>3. CASE pos <= Len(list)
      <4> PICK u \in Timers : u = list[pos] /\ u # h
        BY <2>3, <3>3
      <4>1. ticks_to_expire' = [moved EXCEPT ![u] = moved[u] - own]
        BY <1>1, <1>2, <1>3, <3>3
      <4> QED
        BY <3>1, <4>1
    <3> QED
      BY <1>1, <1>2, <3>2, <3>3
  <2> QED
    BY <1>4, <1>5, <2>1, <2>4
<1> QED
  BY <1>6, <1>7

LEMMA SwiStartArms ==
  ASSUME CompareInv, Apart, Types, SwiStart
  PROVE  CompareInv'
<1> DEFINE op == Head(m_op_queue)
           t == op.node
           ticks == TicksToExpire(IF m_rtc1_reset THEN 0 ELSE op.at, op.first)
<1>1. /\ isr = "list_insertions" /\ m_op_queue # <<>> /\ op.type = "START"
      /\ m_op_queue' = Tail(m_op_queue)
      /\ UNCHANGED <<counter, cc, cc_missed, rtc_pending, m_rtc1_running, m_ticks_latest, loc>>
  BY DEF SwiStart, Dequeue, rtcVars
<1>2. isr' \in {"list_insertions", "lost"}
  BY <1>1 DEF SwiStart, Insert
<1>3. op \in Operation
  BY <1>1, QueueTail DEF Types
<1>4. t \in Timers /\ op.at \in Counts /\ op.first \in Counts
  BY <1>1, <1>3 DEF Operation
<1>5. ticks \in Nat
  BY <1>4, TicksToExpireNat, Width DEF Types
<1>6. CASE loc.update \/ isr' = "lost"
  BY <1>1, <1>2, <1>6, StaysAsked
<1>7. CASE ~loc.update /\ isr' # "lost"
  <2>1. /\ loc.restart = <<>> /\ Tail(m_op_queue) = <<>>
        /\ HeadTimer = loc.old_head /\ Expected
    BY <1>1, <1>7, LastOperation
  <2>2. CASE is_running[t]
    <3>1. UNCHANGED <<list, ticks_to_expire>>
      BY <2>2 DEF SwiStart, listVars
    <3>2. Expected'
      BY <1>1, <2>1, <3>1, StaysExpected
    <3> QED
      BY <1>1, <1>2, <1>7, <2>1, <3>2, StaysListed
  <2>3. CASE ~is_running[t]
    <3>1. Insert(t, ticks)
      BY <2>3 DEF SwiStart
    <3>2. t \notin ToSet(list)
      BY <1>7, <3>1 DEF Insert
    <3>3. IsInjective(list)
      BY <1>1 DEF Apart
    <3>4. /\ list' # <<>>
          /\ \/ HeadTimer' = t
             \/ /\ list # <<>> /\ Head(list') = Head(list)
                /\ ticks_to_expire'[Head(list)] = ticks_to_expire[Head(list)]
      <4> HIDE DEF t, ticks
      <4> QED
        BY <1>4, <1>5, <3>1, <3>2, <3>3, InsertedHead
    <3>5. HeadTimer # t
      <4>1. list # <<>> => Head(list) \in ToSet(list)
        BY HeadTailProperties, LenProperties DEF ToSet, Types, ListTypes, Listed
      <4> QED
        BY <1>4, <3>2, <4>1, NullAssumption DEF HeadTimer
    <3>6. HeadTimer' # loc'.old_head \/ Expected'
      BY <1>1, <2>1, <3>4, <3>5, StaysExpected
    <3> QED
      BY <1>1, <1>2, <1>7, <2>1, <3>6, StaysListed
  <2> QED
    BY <2>2, <2>3
<1> QED
  BY <1>6, <1>7

LEMMA SwiStopArms ==
  ASSUME CompareInv, Apart, Types, SwiStop
  PROVE  CompareInv'
<1> DEFINE t == Head(m_op_queue).node
           i == IndexOf(t)
<1>1. /\ isr = "list_insertions" /\ isr' = isr /\ m_op_queue # <<>>
      /\ m_op_queue' = Tail(m_op_queue) /\ loc \in Locals
      /\ UNCHANGED <<cc, cc_missed, rtc_pending, m_rtc1_running>>
  BY DEF SwiStop, Dequeue, Types, LocalTypes
<1>2. loc' \in {loc, [loc EXCEPT !.update = @ \/ i = 1]}
  BY DEF SwiStop
<1>3. loc'.restart = loc.restart /\ loc'.old_head = loc.old_head /\ (loc.update => loc'.update)
  BY <1>1, <1>2 DEF Locals
<1>4. CASE loc'.update
  BY <1>1, <1>4, StaysAsked
<1>5. CASE ~loc'.update
  <2>1. /\ loc.restart = <<>> /\ Tail(m_op_queue) = <<>>
        /\ HeadTimer = loc.old_head /\ Expected
    BY <1>1, <1>3, <1>5, LastOperation
  <2>2. CASE t \notin ToSet(list)
    <3>1. UNCHANGED <<list, ticks_to_expire, counter, m_ticks_latest>>
      BY <2>2 DEF SwiStop, Found
    <3>2. Expected'
      BY <1>1, <2>1, <3>1, StaysExpected
    <3> QED
      BY <1>1, <1>3, <2>1, <3>2, StaysListed
  <2>3. CASE t \in ToSet(list)
    <3>1. list \in Seq(Timers) /\ Len(list) \in Nat /\ i \in 1 .. Len(list) /\ list[i] = t
      BY <2>3, FoundAt, LenProperties DEF Types, ListTypes, Listed
    <3>2. /\ list' = RemoveAt(list, i)
          /\ ticks_to_expire' = IF i = Len(list) THEN ticks_to_expire
               ELSE [ticks_to_expire EXCEPT ![list[i + 1]] = @ + HandsOver(t)]
          /\ loc' = [loc EXCEPT !.update = @ \/ i = 1]
          /\ Len(list) # 1 => UNCHANGED <<counter, m_ticks_latest>>
      BY <2>3 DEF SwiStop, Found
    <3> HIDE DEF i, t
    <3>3. i # 1
      BY <1>1, <1>5, <3>2 DEF Locals
    <3>4. i > 1 /\ Len(list) > 1 /\ UNCHANGED <<counter, m_ticks_latest>>
      BY <3>1, <3>2, <3>3
    <3>5. list # <<>> /\ list' # <<>> /\ Head(list') = Head(list) /\ Head(list) = list[1]
      <4>1. /\ list' \in Seq(Timers) /\ Len(list') = Len(list) - 1
            /\ \A k \in 1 .. Len(list) - 1 : list'[k] = IF k < i THEN list[k] ELSE list[k + 1]
        BY <3>1, <3>2, Removed
      <4>2. list'[1] = list[1]
        BY <3>1, <3>4, <4>1
      <4> QED
        BY <3>1, <3>4, <4>1, <4>2
    <3>6. i # Len(list) => list[i + 1] # list[1]
      <4>1. i # Len(list) => i + 1 \in 1 .. Len(list) /\ 1 \in 1 .. Len(list) /\ i + 1 # 1
        BY <3>1
      <4>2. IsInjective(list) /\ DOMAIN list = 1 .. Len(list)
        BY <1>1, <3>1, LenProperties DEF Apart
      <4> QED
        BY <4>1, <4>2 DEF IsInjective
    <3>7. ticks_to_expire'[list[1]] = ticks_to_expire[list[1]]
      <4>1. ticks_to_expire \in [Timers -> Nat] /\ list[1] \in Timers
        BY <3>1, <3>4, ElementOfSeq DEF Types, ListTypes, Listed
      <4> QED
        BY <3>2, <3>6, <4>1
    <3>8. Expected'
      BY <1>1, <2>1, <3>4, <3>5, <3>7, StaysExpected
    <3> QED
      BY <1>1, <1>3, <2>1, <3>8, StaysListed
  <2> QED
    BY <2>2, <2>3
<1> QED
  BY <1>4, <1>5

LEMMA SwiStopAllArms ==
  ASSUME CompareInv, Types, SwiStopAll
  PROVE  CompareInv'
<1>1. /\ isr = "list_insertions" /\ isr' = isr /\ m_op_queue # <<>>
      /\ m_op_queue' = Tail(m_op_queue) /\ loc' = loc /\ list' = <<>>
  BY DEF SwiStopAll, Dequeue
<1>2. CASE loc.update
  BY <1>1, <1>2, StaysAsked
<1>3. CASE ~loc.update
  <2>1. loc.restart = <<>> /\ Tail(m_op_queue) = <<>>
    BY <1>1, <1>3, LastOperation
  <2>2. Expected'
    BY <1>1 DEF Expected
  <2> QED
    BY <1>1, <2>1, <2>2, StaysListed
<1> QED
  BY <1>2, <1>3

LEMMA SwiListDoneArms ==
  ASSUME CompareInv, Types, SwiListDone
  PROVE  CompareInv'
<1>1. /\ isr = "list_insertions" /\ m_op_queue = <<>>
      /\ UNCHANGED <<counter, cc, cc_missed, rtc_pending, m_rtc1_running, m_ticks_latest, list,
                     ticks_to_expire, m_op_queue>>
  BY DEF SwiListDone, NothingLeft, rtcVars, listVars
<1>2. CASE CompareStale
  <2>1. isr' = "compare"
    BY <1>2 DEF SwiListDone
  <2> QED
    BY <1>1, <2>1 DEF CompareInv, ArmedIdle, ArmedListing, ArmedSetting, Idle
<1>3. CASE ~CompareStale
  <2>1. isr' = Idle
    BY <1>3 DEF SwiListDone
  <2>2. Expected'
    BY <1>1, <1>3, StaysExpected DEF CompareInv, ArmedListing, CompareStale
  <2>3. Len(m_op_queue') <= 1
    BY <1>1
  <2> QED
    BY <1>1, <2>1, <2>2, <2>3 DEF CompareInv, ArmedIdle, ArmedListing, ArmedSetting, Idle
<1> QED
  BY <1>2, <1>3

LEMMA SwiCompareArms ==
  ASSUME CompareInv, Types, SwiCompare \/ SwiSetCompare
  PROVE  CompareInv'
<1>1. m_op_queue = <<>> /\ UNCHANGED <<m_op_queue, list>>
  BY DEF CompareInv, ArmedSetting, SwiCompare, SwiSetCompare, listVars
<1>2. Len(m_op_queue') <= 1
  BY <1>1
<1>3. CASE SwiCompare
  <2>1. CASE list = <<>>
    <3>1. isr' = Idle /\ list' = <<>>
      BY <1>1, <1>3, <2>1 DEF SwiCompare
    <3> QED
      BY <1>1, <1>2, <3>1
      DEF CompareInv, ArmedIdle, ArmedListing, ArmedSetting, Expected, Idle
  <2>2. CASE list # <<>>
    <3>1. isr' = "set_compare" /\ m_rtc1_running'
      BY <1>3, <2>2 DEF SwiCompare
    <3> QED
      BY <1>1, <2>2, <3>1 DEF CompareInv, ArmedIdle, ArmedListing, ArmedSetting, Idle
  <2> QED
    BY <2>1, <2>2
<1>4. CASE SwiSetCompare
  <2>1. /\ isr = "set_compare" /\ isr' = "check_compare" /\ cc' = CompareValue
        /\ cc_missed' => cc' = (counter + 1) % W
        /\ UNCHANGED <<counter, m_rtc1_running, list, ticks_to_expire, m_ticks_latest, loc>>
    BY <1>4 DEF SwiSetCompare, SetCompare, listVars
  <2>2. CompareValue' = CompareValue
    BY <2>1 DEF CompareValue, TicksDiff, W
  <2> QED
    BY <1>1, <2>1, <2>2 DEF CompareInv, ArmedIdle, ArmedListing, ArmedSetting, Idle, W
<1> QED
  BY <1>3, <1>4

\* Differences from, and over, a value in between.
LEMMA Between ==
  ASSUME NEW a \in Counts, NEW b \in Counts, NEW l \in Counts
  PROVE  /\ TicksDiff(b, l) < TicksDiff(a, l) =>
              a # b /\ TicksDiff(a, b) = TicksDiff(a, l) - TicksDiff(b, l)
         /\ TicksDiff(a, l) <= TicksDiff(b, l) + TicksDiff(a, b)
         /\ TicksDiff((a + 1) % W, l) <= TicksDiff(a, l) + 1
<1>1. /\ a \in Nat /\ b \in Nat /\ l \in Nat /\ W \in Nat
      /\ a < W /\ b < W /\ l < W
  BY Width, TicksAssumption DEF Counts, W
<1> DEFINE x == TicksDiff(a, l)
           y == TicksDiff(b, l)
           z == TicksDiff(a, b)
<1>2. /\ x = (IF a >= l THEN a - l ELSE a - l + W)
      /\ y = (IF b >= l THEN b - l ELSE b - l + W)
      /\ z = (IF a >= b THEN a - b ELSE a - b + W)
  BY DiffIs
<1>3. TicksDiff((a + 1) % W, l) <= TicksDiff(a, l) + 1
  <2>1. 1 \in Counts /\ x \in Nat
    BY TicksAssumption, DiffIs, Width DEF Counts
  <2>2. TicksDiff((a + 1) % W, l) = IF x + 1 < W THEN x + 1 ELSE x + 1 - W
    BY <2>1, DiffMoved
  <2> HIDE DEF x
  <2>3. TicksDiff((a + 1) % W, l) <= x + 1
    BY <1>1, <2>1, <2>2
  <2> QED
    BY <2>3 DEF x
<1> HIDE DEF x, y, z
<1>4. y < x => a # b /\ z = x - y
  BY <1>1, <1>2
<1>5. x <= y + z
  BY <1>1, <1>2
<1> QED
  BY <1>3, <1>4, <1>5 DEF x, y, z

\* A compare value that is not too close is reached no later than the head is
\* due, or within the least distance of the compare register.
LEMMA SetInTime ==
  ASSUME Types, isr = "check_compare", list # <<>>, cc = CompareValue,
         cc_missed => cc = (counter + 1) % W, ~TooClose
  PROVE  Reach
<1> DEFINE d == ticks_to_expire[Head(list)]
           p == TicksDiff(loc.pre, m_ticks_latest)
           e == TicksDiff(counter, loc.pre)
           c == TicksDiff(cc, loc.pre)
           s == p + RTC_COMPARE_OFFSET_MIN
           x == IF s < d THEN d ELSE s
           off == RTC_COMPARE_OFFSET_MIN
<1>1. /\ counter \in Counts /\ cc \in Counts /\ m_ticks_latest \in Counts /\ loc.pre \in Counts
      /\ W \in Nat \ {0} /\ off \in Nat /\ off >= 2
  BY Width, TicksAssumption DEF Types, ClockTypes, LocalTypes, Locals
<1>2. d \in Nat
  BY HeadTailProperties DEF Types, ListTypes, Listed
<1>3. p \in Nat /\ e \in Nat /\ c \in Nat /\ e < W /\ p < W /\ c < W
  BY <1>1, DiffIs, Width
<1>4. e + off <= c
  BY <1>1, <1>3 DEF TooClose
<1>5. x \in Nat /\ p <= x /\ cc = (m_ticks_latest + x) % W
  BY <1>1, <1>2, <1>3 DEF CompareValue
<1>6. c <= x - p
  <2> PICK l \in Counts : l = m_ticks_latest
    BY <1>1
  <2> PICK q \in Counts : q = loc.pre
    BY <1>1
  <2> PICK y \in Nat : y = x
    BY <1>5
  <2> HIDE DEF x
  <2>1. TicksDiff((l + y) % W, q) <= y - TicksDiff(q, l)
    BY <1>5, NoFarther
  <2> QED
    BY <1>5, <2>1
<1>7. ~cc_missed
  <2> SUFFICES ASSUME cc = (counter + 1) % W PROVE FALSE
    OBVIOUS
  <2>3. c <= e + 1
    BY <1>1, Between
  <2> HIDE DEF c, e, off
  <2> QED
    BY <1>1, <1>3, <1>4, <2>3
<1>8. Wait = c - e
  <2>1. e < c
    <3> HIDE DEF c, e, off
    <3> QED
      BY <1>1, <1>3, <1>4
  <2> QED
    BY <1>1, <2>1, Between DEF Wait
<1>9. Elapsed \in Nat /\ Elapsed <= p + e
  BY <1>1, ElapsedIs, Between DEF Elapsed
<1>10. x = d \/ x = p + off
  OBVIOUS
<1> HIDE DEF d, p, e, c, x, s, off
<1>11. Wait <= d - Elapsed \/ Wait <= off
  BY <1>1, <1>2, <1>3, <1>4, <1>5, <1>6, <1>8, <1>9, <1>10
<1> QED
  BY <1>7, <1>11 DEF Reach, d, off

LEMMA SwiCheckCompareArms ==
  ASSUME CompareInv, Types, SwiCheckCompare
  PROVE  CompareInv'
<1>1. /\ isr = "check_compare" /\ isr' = Idle /\ m_op_queue = <<>> /\ list # <<>>
      /\ m_rtc1_running /\ cc = CompareValue /\ (cc_missed => cc = (counter + 1) % W)
      /\ UNCHANGED <<counter, m_rtc1_running, m_ticks_latest, list, ticks_to_expire, m_op_queue>>
  BY DEF SwiCheckCompare, CompareInv, ArmedSetting, listVars
<1>2. CASE TooClose
  <2>1. Expected'
    BY <1>1, <1>2 DEF SwiCheckCompare, Expected, Coming
  <2> QED
    BY <1>1, <2>1 DEF CompareInv, ArmedIdle, ArmedListing, ArmedSetting, Idle
<1>3. CASE ~TooClose
  <2>1. UNCHANGED <<cc, cc_missed, rtc_pending>>
    BY <1>3 DEF SwiCheckCompare
  <2>2. Reach
    BY <1>1, <1>3, SetInTime
  <2>3. Expected'
    BY <1>1, <2>1, <2>2, StaysExpected DEF Expected, Coming
  <2> QED
    BY <1>1, <2>3 DEF CompareInv, ArmedIdle, ArmedListing, ArmedSetting, Idle
<1> QED
  BY <1>2, <1>3

LEMMA NextArms ==
  ASSUME CompareInv, Apart, Types, ServiceInv, Unmasked, [Next]_vars
  PROVE  CompareInv'
<1>1. CASE UNCHANGED vars
  <2>1. UNCHANGED <<counter, cc, cc_missed, rtc_pending, m_rtc1_running, m_ticks_latest, list,
                    ticks_to_expire, m_ticks_elapsed, isr, loc, thread, m_op_queue>>
    BY <1>1 DEF vars, rtcVars, listVars
  <2> QED
    BY <2>1, StaysArmed DEF CompareInv, ArmedIdle
<1>2. CASE Tick
  BY <1>2, TickArms
<1>3. CASE Thread
  BY <1>3, ThreadArms
<1>4. CASE TimeoutHandler \/ Rtc
  BY <1>4, HandlerArms, RtcArms
<1>5. CASE Swi
  BY <1>5, SwiEnterArms, SwiExpiredArms, SwiRestartArms, SwiStartArms, SwiStopArms,
     SwiStopAllArms, SwiListDoneArms, SwiCompareArms, SwiCheckCompareArms DEF Swi
<1> QED
  BY <1>1, <1>2, <1>3, <1>4, <1>5 DEF Next

\* CompareArmed, for every set of timers, counter width, queue size and
\* whatever the application starts and stops, when the main program calls no
\* app_timer function in a critical region: with the interrupts served and a
\* timer in the list the next COMPARE comes no later than the head is due, or
\* as soon as the compare register allows.
THEOREM CompareIsArmed == Spec /\ []Unmasked => []CompareArmed
<1>1. Init => CompareInv
  <2> SUFFICES ASSUME Init PROVE CompareInv
    OBVIOUS
  <2>1. isr = Idle /\ list = <<>> /\ m_op_queue = <<>> /\ Len(m_op_queue) <= 1
    BY DEF Init
  <2> QED
    BY <2>1 DEF CompareInv, ArmedIdle, ArmedListing, ArmedSetting, Expected, Idle
<1>2. ASSUME CompareInv, Apart, Types, ServiceInv, Unmasked, [Next]_vars PROVE CompareInv'
  BY <1>2, NextArms
<1>3. CompareInv /\ ServiceInv => CompareArmed
  <2> SUFFICES ASSUME CompareInv, ServiceInv, Quiet, list # <<>>
               PROVE  m_rtc1_running /\ Reach
    BY DEF CompareArmed, Reach, Wait, Elapsed
  <2>1. isr = Idle /\ ~RtcIrq /\ ~swi_pending
    BY DEF Quiet, Busy
  <2>2. Coming
    BY <2>1 DEF CompareInv, ArmedIdle, Expected, ServiceInv, TicksFetched
  <2> QED
    BY <2>1, <2>2 DEF Coming, RtcIrq
<1> QED
  BY <1>1, <1>2, <1>3, TypesInvariant, ApartInvariant, ServiceInvariant, PTL DEF Spec

-----------------------------------------------------------------------------
(***************************************************************************)
(* Why no timeout is promised late.  Every bound of the section above has  *)
(* its counterpart: a timer is due later than its deadline at most by the  *)
(* time that interrupts were held up.  While the RTC stands still the      *)
(* deadlines come nearer and the counter does not follow; that lasts only  *)
(* from the call of app_timer_start() to the end of the SWI handler that   *)
(* inserts the first timer, and late measures it.                          *)
(***************************************************************************)
Slack == IF m_rtc1_running THEN MaxLatency ELSE late

\* Without the RTC running no timer is listed but by the SWI handler that will start it.
RunsListed ==
  ~m_rtc1_running =>
    /\ list # <<>> => isr \in {"list_insertions", "compare"}
    /\ isr = "list_insertions" => loc.old_head = NULL
OpHigh(op) ==
  /\ op.first <= op.due + late
  /\ OpTicks(op) <= op.first + Elapsed
  /\ ~Working => Elapsed <= TicksDiff(op.at, m_ticks_latest) + late
ListHigh ==
  \A i \in 1 .. Len(list) : DueAt[i] <= (remain[list[i]] + (Behind + Elapsed)) + Slack
RestartHigh ==
  \A r \in ToSet(loc.restart) :
    TicksToExpire(r.at, ticks_periodic_interval[r.node]) <= (remain[r.node] + Elapsed) + Slack
OpsHigh == \A op \in ToSet(m_op_queue) : op.type = "START" => OpHigh(op)

Limits == RunsListed /\ ListHigh /\ RestartHigh /\ OpsHigh
HighInv == isr # "lost" => Limits

LEMMA SlackIs ==
  ASSUME Types
  PROVE  late \in Nat /\ MaxLatency \in Nat /\ late <= MaxLatency /\ Slack \in Nat /\ late <= Slack
<1>1. late \in Nat /\ MaxLatency \in Nat /\ late <= MaxLatency
  BY TicksAssumption DEF Types, ClockTypes
<1> QED
  BY <1>1 DEF Slack

LEMMA InitHigh == Init => HighInv
<1> SUFFICES ASSUME Init PROVE HighInv
  OBVIOUS
<1>1. list = <<>> /\ loc.restart = <<>> /\ m_op_queue = <<>> /\ isr = Idle
  BY DEF Init, NoLoc
<1>2. RunsListed /\ ListHigh
  BY <1>1 DEF RunsListed, ListHigh, Idle
<1>3. RestartHigh /\ OpsHigh
  BY <1>1, NoneThere DEF RestartHigh, OpsHigh
<1> QED
  BY <1>2, <1>3 DEF HighInv, Limits

\* A step that leaves the timers and the clock alone, and queues only starts that keep the bounds.
LEMMA StaysHigh ==
  ASSUME HighInv, isr # "lost",
         UNCHANGED <<counter, m_ticks_latest, m_rtc1_reset, m_rtc1_running, late, list,
                     ticks_to_expire, ticks_periodic_interval, remain>>,
         Behind' = Behind, loc'.restart = loc.restart \/ loc'.restart = <<>>,
         m_op_queue' = <<>> \/ (Working => Working'),
         \A op \in ToSet(m_op_queue') :
           op.type = "START" => op \in ToSet(m_op_queue) \/ OpHigh(op),
         RunsListed'
  PROVE  HighInv'
<1>1. Limits
  BY DEF HighInv
<1>2. Elapsed' = Elapsed /\ Slack' = Slack /\ DueAt' = DueAt
  BY DEF Elapsed, TicksDiff, W, Slack, DueAt
<1>3. ListHigh'
  BY <1>1, <1>2 DEF Limits, ListHigh
<1>4. RestartHigh'
  BY <1>1, <1>2, NoneThere DEF Limits, RestartHigh, TicksToExpire, TicksDiff, W
<1>5. OpsHigh'
  <2>1. CASE m_op_queue' = <<>>
    BY <2>1, NoneThere DEF OpsHigh
  <2>2. CASE Working => Working'
    <3>1. \A op : OpHigh(op) => OpHigh(op)'
      BY <1>2, <2>2 DEF OpHigh, OpTicks, TicksToExpire, TicksDiff, W
    <3> QED
      BY <1>1, <3>1 DEF Limits, OpsHigh
  <2> QED
    BY <2>1, <2>2
<1> QED
  BY <1>3, <1>4, <1>5 DEF HighInv, Limits

\* A start queued now counts from the counter's value.
LEMMA StartHigh ==
  ASSUME Types, Promises, ~Working, StartsLate = FALSE, NEW t \in Timers, MayStart(t),
         NEW T \in TimeoutsOf[t]
  PROVE  OpHigh(StartOp(t, T))
<1> DEFINE op == StartOp(t, T)
<1>1. op.at = counter /\ op.first = T /\ op.due = T
  BY DEF StartOp
<1>2. m_rtc1_reset = FALSE
  BY DEF Promises, Phases, Types, FlagTypes
<1>3. Elapsed < MAX_RTC_COUNTER_VAL \div 2
  BY DEF MayStart, Elapsed
<1>4. T \in Counts /\ T \in Nat /\ counter \in Counts /\ m_ticks_latest \in Counts
  <2>1. op \in Operation /\ op.type = "START"
    BY OperationTypes DEF StartOp
  <2>2. T \in Counts
    BY <1>1, <2>1 DEF Operation
  <2> QED
    BY <2>2, Width DEF Types, ClockTypes
<1>5. TicksToExpire(counter, T) = Elapsed + T
  BY <1>3, <1>4, TicksToExpireIs DEF Elapsed
<1>6. OpTicks(op) = Elapsed + T
  BY <1>1, <1>2, <1>5 DEF OpTicks
<1>7. Elapsed \in Nat /\ late \in Nat
  BY ElapsedIs, SlackIs
<1>8. TicksDiff(op.at, m_ticks_latest) = Elapsed
  BY <1>1 DEF Elapsed
<1> HIDE DEF op
<1>9. op.first <= op.due + late /\ OpTicks(op) <= op.first + Elapsed
      /\ Elapsed <= TicksDiff(op.at, m_ticks_latest) + late
  BY <1>1, <1>4, <1>6, <1>7, <1>8
<1> QED
  BY <1>9 DEF OpHigh, op

LEMMA ThreadHigh ==
  ASSUME HighInv, TimeInv, Apart, Types, StartsLate = FALSE, isr # "lost", Thread
  PROVE  HighInv'
<1>1. Promises /\ Limits
  BY DEF TimeInv, HighInv
<1>2. /\ UNCHANGED <<counter, m_ticks_latest, m_rtc1_reset, m_rtc1_running, late, list,
                     ticks_to_expire, ticks_periodic_interval, remain, isr, loc>>
      /\ isr = Idle
  <2>1. masked => isr = Idle
    BY <1>1 DEF Promises, Phases
  <2>2. CASE EnterCritical \/ ExitCritical
    BY <2>1, <2>2 DEF EnterCritical, ExitCritical, ThreadRuns, listVars, rtcVars
  <2>3. CASE StopQueue \/ StopAllQueue \/ Sched \/ Return
    BY <2>3 DEF StopQueue, StopAllQueue, Sched, Return, ThreadRuns, listVars, rtcVars
  <2>4. ASSUME NEW t \in Timers,
               Create(t) \/ StopClear(t) \/ \E T \in TimeoutsOf[t] : StartQueue(t, T)
        PROVE  <1>2!1 /\ <1>2!2
    BY <2>4 DEF Create, StopClear, StartQueue, ThreadRuns, listVars, rtcVars
  <2> QED
    BY <2>2, <2>3, <2>4 DEF Thread
<1>3. ~Working /\ Behind' = Behind /\ RunsListed'
  BY <1>1, <1>2 DEF Working, Idle, Behind, Limits, RunsListed
<1>4. m_op_queue \in Seq(Operation)
  BY DEF Types, QueueTypes
<1>5. \A op \in ToSet(m_op_queue') :
        op.type = "START" => op \in ToSet(m_op_queue) \/ OpHigh(op)
  <2>1. CASE EnterCritical \/ ExitCritical \/ Sched \/ Return
    BY <2>1 DEF EnterCritical, ExitCritical, Sched, Return
  <2>2. CASE StopQueue
    <3>1. thread.node \in Timers
      BY <2>2 DEF StopQueue, Types, LocalTypes, Calls, Idle
    <3>2. StopOp("STOP", thread.node) \in Operation /\ StopOp("STOP", thread.node).type # "START"
      BY <3>1 DEF StopOp, Operation
    <3>3. ToSet(Append(m_op_queue, StopOp("STOP", thread.node)))
            = ToSet(m_op_queue) \cup {StopOp("STOP", thread.node)}
      BY <1>4, <3>2, AppendSet
    <3>4. UNCHANGED m_op_queue \/ m_op_queue' = Append(m_op_queue, StopOp("STOP", thread.node))
      BY <2>2 DEF StopQueue
    <3> QED
      BY <3>2, <3>3, <3>4
  <2>3. CASE StopAllQueue
    <3>1. StopOp("STOP_ALL", NULL) \in Operation /\ StopOp("STOP_ALL", NULL).type # "START"
      BY DEF StopOp, Operation
    <3> QED
      BY <1>4, <2>3, <3>1, AppendSet DEF StopAllQueue
  <2>4. ASSUME NEW t \in Timers, Create(t) \/ StopClear(t)
        PROVE  UNCHANGED m_op_queue
    BY <2>4 DEF Create, StopClear
  <2>5. ASSUME NEW t \in Timers, NEW T \in TimeoutsOf[t], StartQueue(t, T)
        PROVE  <1>5
    <3>1. MayStart(t) /\ m_op_queue' = Append(m_op_queue, StartOp(t, T))
      BY <2>5 DEF StartQueue
    <3>2. OpHigh(StartOp(t, T)) /\ StartOp(t, T) \in Operation
      BY <1>1, <1>3, <3>1, StartHigh, OperationTypes
    <3> QED
      BY <1>4, <3>1, <3>2, AppendSet
  <2> QED
    BY <2>1, <2>2, <2>3, <2>4, <2>5 DEF Thread
<1> QED
  BY <1>2, <1>3, <1>5, StaysHigh

LEMMA HandlerHigh ==
  ASSUME HighInv, TimeInv, Types, StartsLate = FALSE, isr # "lost", TimeoutHandler
  PROVE  HighInv'
<1>1. Promises /\ Limits
  BY DEF TimeInv, HighInv
<1>2. /\ UNCHANGED <<counter, m_ticks_latest, m_rtc1_reset, m_rtc1_running, late, list,
                     ticks_to_expire, ticks_periodic_interval, remain>>
      /\ isr = "timeout_handler" /\ isr' \in {"rtc", "timeout_handler"}
      /\ loc'.restart = loc.restart
  <2>1. CASE HandlerReturn
    BY <2>1 DEF HandlerReturn, listVars, rtcVars, Types, LocalTypes, Locals
  <2>2. CASE HandlerStopAll
    BY <2>2 DEF HandlerStopAll, listVars, rtcVars
  <2>3. ASSUME NEW t \in Timers, HandlerStop(t) \/ \E T \in TimeoutsOf[t] : HandlerStart(t, T)
        PROVE  <1>2!1 /\ isr = "timeout_handler" /\ UNCHANGED <<isr, loc>>
    BY <2>3 DEF HandlerStop, HandlerStart, listVars, rtcVars
  <2> QED
    BY <2>1, <2>2, <2>3 DEF TimeoutHandler
<1>3. ~Working /\ Behind' = Behind /\ RunsListed'
  BY <1>1, <1>2 DEF Working, Behind, Limits, RunsListed
<1>4. m_op_queue \in Seq(Operation)
  BY DEF Types, QueueTypes
<1>5. \A op \in ToSet(m_op_queue') :
        op.type = "START" => op \in ToSet(m_op_queue) \/ OpHigh(op)
  <2>1. CASE HandlerReturn
    BY <2>1 DEF HandlerReturn
  <2>2. CASE HandlerStopAll
    <3>1. StopOp("STOP_ALL", NULL) \in Operation /\ StopOp("STOP_ALL", NULL).type # "START"
      BY DEF StopOp, Operation
    <3> QED
      BY <1>4, <2>2, <3>1, AppendSet DEF HandlerStopAll
  <2>3. ASSUME NEW t \in Timers, HandlerStop(t) PROVE <1>5
    <3>1. StopOp("STOP", t) \in Operation /\ StopOp("STOP", t).type # "START"
      BY DEF StopOp, Operation
    <3>2. UNCHANGED m_op_queue \/ m_op_queue' = Append(m_op_queue, StopOp("STOP", t))
      BY <2>3 DEF HandlerStop
    <3>3. ToSet(Append(m_op_queue, StopOp("STOP", t))) = ToSet(m_op_queue) \cup {StopOp("STOP", t)}
      BY <1>4, <3>1, AppendSet
    <3> QED
      BY <3>1, <3>2, <3>3
  <2>4. ASSUME NEW t \in Timers, NEW T \in TimeoutsOf[t], HandlerStart(t, T) PROVE <1>5
    <3>1. MayStart(t) /\ m_op_queue' = Append(m_op_queue, StartOp(t, T))
      BY <2>4 DEF HandlerStart
    <3>2. OpHigh(StartOp(t, T)) /\ StartOp(t, T) \in Operation
      BY <1>1, <1>3, <3>1, StartHigh, OperationTypes
    <3> QED
      BY <1>4, <3>1, <3>2, AppendSet
  <2> QED
    BY <2>1, <2>2, <2>3, <2>4 DEF TimeoutHandler
<1> QED
  BY <1>2, <1>3, <1>5, StaysHigh

\* The RTC1 handler leaves list and clock alone, and only runs with the RTC.
LEMMA RtcHigh ==
  ASSUME HighInv, Types, isr # "lost", Rtc
  PROVE  HighInv'
<1>1. Limits
  BY DEF HighInv
<1>2. /\ UNCHANGED <<counter, m_ticks_latest, m_rtc1_reset, m_rtc1_running, late, list,
                     ticks_to_expire, ticks_periodic_interval, remain, m_op_queue>>
      /\ isr \in {Idle, "rtc"} /\ isr' \in {Idle, "rtc", "timeout_handler"}
  BY DEF Rtc, RtcEnter, RtcExpire, RtcExit, listVars, rtcVars
<1>3. ~Working /\ Behind' = Behind /\ RunsListed'
  BY <1>1, <1>2 DEF Working, Behind, Limits, RunsListed, Idle
<1>4. loc'.restart = loc.restart \/ loc'.restart = <<>>
  <2>1. CASE RtcExpire
    BY <2>1 DEF RtcExpire, Types, LocalTypes, Locals
  <2>2. CASE RtcEnter
    <3>1. UNCHANGED loc \/ \E x : loc' = [NoLoc EXCEPT !.elapsed = x, !.at = 1]
      BY <2>2 DEF RtcEnter
    <3> QED
      BY <3>1 DEF NoLoc
  <2>3. CASE RtcExit
    BY <2>3 DEF RtcExit, NoLoc
  <2> QED
    BY <2>1, <2>2, <2>3 DEF Rtc
<1> QED
  BY <1>2, <1>3, <1>4, StaysHigh

\* A tick brings every deadline nearer by one; the counter follows if the RTC
\* runs, else the time that interrupts are held up grows.
LEMMA TickHigh ==
  ASSUME HighInv, TimeInv, Apart, Types, ServiceInv, InTime, isr # "lost", Tick
  PROVE  HighInv'
<1>1. Limits /\ Promises
  BY DEF HighInv, TimeInv
<1>2. /\ UNCHANGED <<list, ticks_to_expire, ticks_periodic_interval, m_ticks_latest,
                     m_rtc1_running, m_rtc1_reset, isr, loc>>
      /\ late' = IF Busy THEN late + 1 ELSE 0
      /\ counter' = IF m_rtc1_running THEN (counter + 1) % W ELSE counter
  BY DEF Tick, listVars
<1>3. DueAt' = DueAt /\ Behind' = Behind /\ (Working' <=> Working)
  BY <1>2 DEF DueAt, Behind, Working
<1>4. Elapsed \in Nat /\ W \in Nat \ {0} /\ counter \in Counts /\ m_ticks_latest \in Counts
      /\ Behind \in Nat
  BY ElapsedIs, Width DEF Types, ClockTypes, Behind, LocalTypes, Locals
<1>5. late \in Nat /\ Slack \in Nat
  BY SlackIs
<1>6. Elapsed' = IF m_rtc1_running THEN Elapsed + 1 ELSE Elapsed
  <2>1. CASE m_rtc1_running
    <3>1. 1 \in Counts
      BY TicksAssumption DEF Counts
    <3>2. TicksDiff((counter + 1) % W, m_ticks_latest) =
            IF Elapsed + 1 < W THEN Elapsed + 1 ELSE Elapsed + 1 - W
      BY <1>4, <3>1, DiffMoved DEF Elapsed
    <3>3. Elapsed < MAX_RTC_COUNTER_VAL
      BY <2>1 DEF InTime, Tick, Elapsed
    <3>4. Elapsed + 1 < W
      BY <1>4, <3>3, TicksAssumption DEF W
    <3>5. Elapsed' = TicksDiff((counter + 1) % W, m_ticks_latest)
      BY <1>2, <2>1 DEF Elapsed, TicksDiff, W
    <3> QED
      BY <2>1, <3>2, <3>4, <3>5
  <2>2. CASE ~m_rtc1_running
    BY <1>2, <2>2 DEF Elapsed, TicksDiff, W
  <2> QED
    BY <2>1, <2>2
<1>7. /\ Slack' = IF m_rtc1_running THEN Slack ELSE late'
      /\ ~m_rtc1_running => Slack = late
  BY <1>2 DEF Slack
<1>8. Busy /\ ~m_rtc1_running => Slack' = Slack + 1
  BY <1>2, <1>7
<1>9. /\ remain' \in [Timers -> Int] /\ remain \in [Timers -> Int]
      /\ \A t \in Timers : remain'[t] = remain[t] \/ remain'[t] = remain[t] - 1
  <2>1. remain \in [Timers -> Int] /\ -W \in Int
    BY <1>4 DEF TimeInv
  <2>2. remain' = [t \in Timers |-> IF t \in Armed /\ remain[t] > -W THEN remain[t] - 1
                                    ELSE remain[t]]
    BY DEF Tick
  <2> QED
    BY <2>1, <2>2
<1>10. ASSUME NEW t \in Timers, Busy \/ m_rtc1_running
       PROVE  /\ (remain[t] + Elapsed) + Slack <= (remain'[t] + Elapsed') + Slack'
              /\ (remain[t] + (Behind + Elapsed)) + Slack <= (remain'[t] + (Behind + Elapsed')) + Slack'
  <2>1. remain[t] \in Int /\ remain'[t] \in Int /\ remain'[t] >= remain[t] - 1
    BY <1>9
  <2>2. \/ Slack' = Slack /\ Elapsed' = Elapsed + 1
        \/ Slack' = Slack + 1 /\ Elapsed' = Elapsed
    BY <1>6, <1>7, <1>8, <1>10
  <2> PICK a \in Int, b \in Int : a = remain[t] /\ b = remain'[t]
    BY <2>1
  <2>3. b >= a - 1
    BY <2>1
  <2>4. /\ (a + Elapsed) + Slack <= (b + Elapsed') + Slack'
        /\ (a + (Behind + Elapsed)) + Slack <= (b + (Behind + Elapsed')) + Slack'
    <3>1. CASE Slack' = Slack /\ Elapsed' = Elapsed + 1
      BY <1>4, <1>5, <2>3, <3>1
    <3>2. CASE Slack' = Slack + 1 /\ Elapsed' = Elapsed
      BY <1>4, <1>5, <2>3, <3>2
    <3> QED
      BY <2>2, <3>1, <3>2
  <2> QED
    BY <2>4
<1>11. RunsListed'
  BY <1>1, <1>2 DEF Limits, RunsListed
<1>12. ListHigh'
  <2> SUFFICES ASSUME NEW i \in 1 .. Len(list)
               PROVE  DueAt[i] <= (remain'[list[i]] + (Behind + Elapsed')) + Slack'
    BY <1>2, <1>3 DEF ListHigh
  <2>1. Listed /\ Len(list) \in Nat
    BY LenProperties DEF Types, ListTypes, Listed
  <2>2. list[i] \in Timers /\ DueAt[i] \in Nat /\ list # <<>>
    <3>1. list # <<>>
      BY <2>1, EmptySeq DEF Listed
    <3> QED
      BY <2>1, <3>1, ElementOfSeq, DueAtGrows DEF Listed
  <2>3. Busy \/ m_rtc1_running
    BY <1>1, <2>2 DEF Limits, RunsListed, Busy, Idle
  <2>4. DueAt[i] <= (remain[list[i]] + (Behind + Elapsed)) + Slack
    BY <1>1 DEF Limits, ListHigh
  <2>5. (remain[list[i]] + (Behind + Elapsed)) + Slack <= (remain'[list[i]] + (Behind + Elapsed')) + Slack'
    BY <1>10, <2>2, <2>3
  <2>6. /\ remain[list[i]] \in Int /\ remain'[list[i]] \in Int
        /\ Elapsed' \in Int /\ Slack' \in Int
    BY <1>4, <1>5, <1>6, <1>7, <1>8, <1>9, <2>2, <2>3
  <2>7. ASSUME NEW a \in Int, NEW b \in Int, NEW c \in Int, NEW e \in Int
        PROVE  (a + (b + c)) + e \in Int
    OBVIOUS
  <2>8. /\ (remain[list[i]] + (Behind + Elapsed)) + Slack \in Int
        /\ (remain'[list[i]] + (Behind + Elapsed')) + Slack' \in Int
    <3>1. Behind \in Int /\ Elapsed \in Int /\ Slack \in Int
      BY <1>4, <1>5
    <3> QED
      BY <2>6, <2>7, <3>1
  <2>9. ASSUME NEW d \in Nat, NEW a \in Int, NEW b \in Int, d <= a, a <= b PROVE d <= b
    BY <2>9
  <2> QED
    BY <2>2, <2>4, <2>5, <2>8, <2>9, Zenon
<1>13. RestartHigh'
  <2> SUFFICES ASSUME NEW r \in ToSet(loc.restart)
               PROVE  TicksToExpire(r.at, ticks_periodic_interval[r.node])
                        <= (remain'[r.node] + Elapsed') + Slack'
    BY <1>2 DEF RestartHigh, TicksToExpire, TicksDiff, W
  <2>1. loc.restart \in Seq(Due) /\ r \in Due
    BY ElementOfSeq, LenProperties DEF Types, LocalTypes, Locals, ToSet
  <2>2. r.node \in Timers /\ TicksToExpire(r.at, ticks_periodic_interval[r.node]) \in Nat
    BY <2>1, TicksToExpireNat DEF Due, Types, ListTypes
  <2>3. Busy
    <3>1. loc.restart # <<>>
      BY NoneThere
    <3> QED
      BY <3>1 DEF Apart, Listing, Busy, Idle
  <2>4. TicksToExpire(r.at, ticks_periodic_interval[r.node]) <= (remain[r.node] + Elapsed) + Slack
    BY <1>1 DEF Limits, RestartHigh
  <2>5. (remain[r.node] + Elapsed) + Slack <= (remain'[r.node] + Elapsed') + Slack'
    BY <1>10, <2>2, <2>3
  <2>6. /\ remain[r.node] \in Int /\ remain'[r.node] \in Int
        /\ Elapsed' \in Int /\ Slack' \in Int
    BY <1>4, <1>5, <1>6, <1>7, <1>8, <1>9, <2>2, <2>3
  <2> QED
    BY <1>4, <1>5, <2>2, <2>4, <2>5, <2>6
<1>14. OpsHigh'
  <2> SUFFICES ASSUME NEW new \in ToSet(m_op_queue'), new.type = "START"
               PROVE  OpHigh(new)'
    BY DEF OpsHigh
  <2>1. PICK i \in DOMAIN m_op_queue : new = m_op_queue'[i]
    BY DEF Tick, ToSet
  <2>2. PICK op : op = m_op_queue[i]
    OBVIOUS
  <2>3. op \in ToSet(m_op_queue) /\ op \in Operation
    BY <2>1, <2>2, ElementOfSeq, LenProperties DEF ToSet, Types, QueueTypes
  <2>4. new = IF op.type = "START" THEN [op EXCEPT !.due = @ - 1] ELSE op
    BY <2>1, <2>2 DEF Tick
  <2>5. op.type = "START"
    BY <2>3, <2>4 DEF Operation
  <2>6. /\ op.due \in Int /\ op.at \in Counts /\ op.first \in Counts /\ op.first \in Nat
        /\ new.due = op.due - 1 /\ new.at = op.at /\ new.first = op.first
    BY <2>3, <2>4, <2>5, Width DEF Operation
  <2>7. OpHigh(op)
    BY <1>1, <2>3, <2>5 DEF Limits, OpsHigh
  <2>8. OpTicks(new)' = OpTicks(op)
    BY <1>2, <2>6 DEF OpTicks, TicksToExpire, TicksDiff
  <2>9. OpTicks(op) \in Nat
    <3> DEFINE at == IF m_rtc1_reset THEN 0 ELSE op.at
    <3>1. at \in Counts
      BY <2>6, Width
    <3> HIDE DEF at
    <3>2. TicksToExpire(at, op.first) \in Nat
      BY <2>6, <3>1, TicksToExpireNat
    <3> QED
      BY <3>2 DEF OpTicks, at
  <2>10. late' = late + 1
    <3>1. m_op_queue # <<>>
      BY <2>3, NoneThere
    <3>2. Busy
      BY <3>1 DEF ServiceInv, OpsServed, Busy, Idle
    <3> QED
      BY <1>2, <3>2
  <2>11. new.first <= new.due + late' /\ OpTicks(new)' <= new.first + Elapsed'
    <3>1. op.first <= op.due + late /\ OpTicks(op) <= op.first + Elapsed
      BY <2>7 DEF OpHigh
    <3> QED
      BY <1>4, <1>5, <1>6, <2>6, <2>8, <2>9, <2>10, <3>1
  <2>12. ~Working => Elapsed' <= TicksDiff(op.at, m_ticks_latest) + late'
    <3> DEFINE d == TicksDiff(op.at, m_ticks_latest)
    <3>1. ~Working => Elapsed <= d + late
      BY <2>7 DEF OpHigh
    <3>2. d \in Nat
      BY <1>4, <2>6, DiffIs, Width
    <3> HIDE DEF d
    <3>3. ~Working => Elapsed' <= d + late'
      BY <1>4, <1>5, <1>6, <2>10, <3>1, <3>2
    <3> QED
      BY <3>3 DEF d
  <2> QED
    BY <1>2, <1>3, <2>6, <2>11, <2>12 DEF OpHigh, TicksDiff, W
<1> QED
  BY <1>11, <1>12, <1>13, <1>14 DEF HighInv, Limits

\* What is left of the ticks when m_ticks_latest is y ticks, and not more than
\* half the counter's range, after the counter value they count from.
LEMMA TicksLeft ==
  m_ticks_latest \in Counts =>
    \A at \in Counts, first \in Counts, y \in Counts :
      /\ TicksDiff(at, m_ticks_latest) = (IF y = 0 THEN 0 ELSE W - y)
      /\ y <= MAX_RTC_COUNTER_VAL \div 2
      => TicksToExpire(at, first) = IF first > y THEN first - y ELSE 0
<1> SUFFICES ASSUME m_ticks_latest \in Counts, NEW at \in Counts, NEW first \in Counts,
                    NEW y \in Counts,
                    TicksDiff(at, m_ticks_latest) = (IF y = 0 THEN 0 ELSE W - y),
                    y <= MAX_RTC_COUNTER_VAL \div 2
             PROVE  TicksToExpire(at, first) = IF first > y THEN first - y ELSE 0
  OBVIOUS
<1> DEFINE d == TicksDiff(at, m_ticks_latest)
           e == TicksDiff(m_ticks_latest, at)
           half == MAX_RTC_COUNTER_VAL \div 2
<1>1. half \in Nat /\ 2 * half <= MAX_RTC_COUNTER_VAL
  BY TicksAssumption
<1>2. /\ y \in Nat /\ first \in Nat /\ W \in Nat /\ W = MAX_RTC_COUNTER_VAL + 1
      /\ MAX_RTC_COUNTER_VAL \in Nat /\ y <= MAX_RTC_COUNTER_VAL
  BY Width, TicksAssumption DEF W, Counts
<1>3. e = IF d = 0 THEN 0 ELSE W - d
  <2>1. at \in Nat /\ m_ticks_latest \in Nat
    BY Width
  <2>2. d = (IF at >= m_ticks_latest THEN at - m_ticks_latest ELSE at - m_ticks_latest + W)
        /\ e = IF m_ticks_latest >= at THEN m_ticks_latest - at ELSE m_ticks_latest - at + W
    BY DiffIs
  <2>3. at < W /\ m_ticks_latest < W
    BY <2>1, TicksAssumption DEF Counts, W
  <2> HIDE DEF d, e
  <2> QED
    BY <1>2, <2>1, <2>2, <2>3
<1>4. d = (IF y = 0 THEN 0 ELSE W - y) /\ y <= half
  OBVIOUS
<1>5. TicksToExpire(at, first) = IF d < half THEN d + first
                                 ELSE IF first > e THEN first - e ELSE 0
  BY DEF TicksToExpire
<1> HIDE DEF d, e, half
<1>6. CASE y = 0
  BY <1>1, <1>2, <1>3, <1>4, <1>5, <1>6
<1>7. CASE y # 0
  <2>1. ~(d < half) /\ e = y
    BY <1>1, <1>2, <1>3, <1>4, <1>7
  <2> QED
    BY <1>5, <2>1
<1> QED
  BY <1>6, <1>7

LEMMA TicksLeftNext ==
  m_ticks_latest' \in Counts =>
    \A at \in Counts, first \in Counts, y \in Counts :
      /\ TicksDiff(at, m_ticks_latest') = (IF y = 0 THEN 0 ELSE W - y)
      /\ y <= MAX_RTC_COUNTER_VAL \div 2
      => TicksToExpire(at, first)' = IF first > y THEN first - y ELSE 0
<1>1. (m_ticks_latest \in Counts =>
        \A at \in Counts, first \in Counts, y \in Counts :
          /\ TicksDiff(at, m_ticks_latest) = (IF y = 0 THEN 0 ELSE W - y)
          /\ y <= MAX_RTC_COUNTER_VAL \div 2
          => TicksToExpire(at, first) = IF first > y THEN first - y ELSE 0)'
  BY TicksLeft, PTL
<1> QED
  BY <1>1 DEF TicksDiff, W

\* m_ticks_latest may pass the counter value a start was queued at, but not by
\* more than the interrupts were held up: the difference still tells which is earlier.
LEMMA SwiEnterHigh ==
  ASSUME HighInv, TimeInv, Types, Served, MaxLatency <= MAX_RTC_COUNTER_VAL \div 2,
         isr # "lost", SwiEnter
  PROVE  HighInv'
<1>1. Promises /\ Limits
  BY DEF TimeInv, HighInv
<1>2. /\ UNCHANGED <<counter, list, ticks_to_expire, ticks_periodic_interval, m_op_queue,
                     m_rtc1_reset, m_rtc1_running, late, remain>>
      /\ isr = Idle /\ loc'.restart = <<>>
  BY DEF SwiEnter, listVars, rtcVars, NoLoc
<1>3. m_rtc1_reset = FALSE /\ ~Working
  BY <1>1, <1>2 DEF Promises, Phases, Working, Idle, Types, FlagTypes
<1>4. DueAt' = DueAt /\ Behind = 0 /\ Slack' = Slack
  BY <1>2 DEF DueAt, Behind, Idle, Slack
<1>5. Elapsed \in Nat /\ W \in Nat \ {0} /\ counter \in Counts /\ m_ticks_latest \in Counts
      /\ late \in Nat /\ MaxLatency \in Nat /\ late <= MaxLatency
  BY ElapsedIs, SlackIs, Width DEF Types, ClockTypes
<1>6. RestartHigh'
  BY <1>2, NoneThere DEF RestartHigh
<1>7. ~m_rtc1_running => list = <<>>
  BY <1>1, <1>2 DEF Limits, RunsListed, Idle
<1>8. RunsListed'
  <2>1. ~m_rtc1_running /\ isr' = "list_insertions" => loc'.old_head = NULL
    BY <1>7 DEF SwiEnter, HeadTimer, NoLoc
  <2> QED
    BY <1>2, <1>7, <2>1 DEF RunsListed
<1>9. CASE m_ticks_elapsed = NONE
  <2>1. isr' = "list_insertions" /\ UNCHANGED m_ticks_latest
    BY <1>9 DEF SwiEnter
  <2>2. Behind' = Behind /\ Working'
    BY <1>4, <2>1 DEF Behind, Working
  <2> QED
    BY <1>2, <1>8, <2>1, <2>2, StaysHigh
<1>10. CASE m_ticks_elapsed # NONE
  <2> PICK me : me = m_ticks_elapsed
    OBVIOUS
  <2>1. /\ isr' = "expired_timers" /\ m_ticks_latest' = (m_ticks_latest + me) % W
        /\ loc'.elapsed = me
    BY <1>10 DEF SwiEnter, NoLoc
  <2>2. me \in Nat /\ me < W /\ me \in Counts
    <3>1. me \in Nat /\ me < W
      BY <1>1, <1>10 DEF Promises, Phases, Types, ClockTypes
    <3> QED
      BY <3>1, TicksAssumption DEF W, Counts
  <2>3. me <= Elapsed
    BY <1>2, <1>10 DEF Served, Consumed, Since, Walks, Idle, Elapsed
  <2>4. Elapsed' = Elapsed - me /\ Behind' = me
    <3>1. TicksDiff(counter, (m_ticks_latest + me) % W) =
            IF TicksDiff(counter, m_ticks_latest) >= me THEN TicksDiff(counter, m_ticks_latest) - me
            ELSE TicksDiff(counter, m_ticks_latest) - me + W
      BY <1>5, <2>2, DiffMoved
    <3>2. Elapsed' = TicksDiff(counter, (m_ticks_latest + me) % W)
      BY <1>2, <2>1 DEF Elapsed
    <3>3. Elapsed >= me
      BY <1>5, <2>2, <2>3
    <3>4. Elapsed' = Elapsed - me
      BY <3>1, <3>2, <3>3 DEF Elapsed
    <3> QED
      BY <2>1, <3>4 DEF Behind
  <2>5. ListHigh'
    <3>1. Behind' + Elapsed' = Behind + Elapsed
      BY <1>4, <1>5, <2>2, <2>4
    <3> QED
      BY <1>1, <1>2, <1>4, <3>1 DEF Limits, ListHigh
  <2>6. OpsHigh'
    <3> SUFFICES ASSUME NEW op \in ToSet(m_op_queue), op.type = "START"
                 PROVE  OpHigh(op)'
      BY <1>2 DEF OpsHigh
    <3>1. op \in Operation
      BY ElementOfSeq, LenProperties DEF ToSet, Types, QueueTypes
    <3>2. op.due \in Int /\ op.at \in Counts /\ op.first \in Counts /\ op.first \in Nat
      BY <3>1, Width DEF Operation
    <3>3. OpHigh(op) /\ OpLow(op)
      BY <1>1 DEF Promises, OpsLow, Limits, OpsHigh
    <3> DEFINE d == TicksDiff(op.at, m_ticks_latest)
               e == TicksDiff(op.at, m_ticks_latest')
               half == MAX_RTC_COUNTER_VAL \div 2
               q == TicksToExpire(op.at, op.first)'
    <3>4. d \in Nat /\ d < half /\ half \in Nat
      <4>1. d \in Nat
        BY <1>5, <3>2, DiffIs, Width
      <4>2. d < half
        BY <1>3, <3>3 DEF OpLow
      <4>3. half \in Nat
        BY TicksAssumption
      <4> QED
        BY <4>1, <4>2, <4>3
    <3>5. OpTicks(op) = d + op.first
      BY <1>3, <1>5, <3>2, <3>4, TicksToExpireIs DEF OpTicks
    <3>6. e = IF d >= me THEN d - me ELSE d - me + W
      <4>1. TicksDiff(op.at, (m_ticks_latest + me) % W) =
              IF TicksDiff(op.at, m_ticks_latest) >= me THEN TicksDiff(op.at, m_ticks_latest) - me
              ELSE TicksDiff(op.at, m_ticks_latest) - me + W
        <5> PICK at \in Counts : at = op.at
          BY <3>2
        <5> PICK l \in Counts : l = m_ticks_latest
          BY <1>5
        <5>1. me \in Counts
          BY <2>2
        <5>2. TicksDiff(at, (l + me) % W) =
                IF TicksDiff(at, l) >= me THEN TicksDiff(at, l) - me ELSE TicksDiff(at, l) - me + W
          BY <5>1, DiffMoved
        <5> QED
          BY <5>2
      <4> QED
        BY <2>1, <4>1
    <3>7. m_ticks_latest' \in Counts
      BY <1>5, <2>1, <2>2, MovedOn
    <3>8. OpTicks(op)' = q
      BY <1>2, <1>3 DEF OpTicks
    <3>9. /\ op.first <= op.due + late /\ OpTicks(op) <= op.first + Elapsed
          /\ Elapsed <= d + late
      BY <1>3, <3>3 DEF OpHigh
    <3>10. d <= Elapsed
      <4> HIDE DEF d
      <4> QED
        BY <1>5, <3>2, <3>4, <3>5, <3>9
    <3>11. q <= op.first + Elapsed'
      <4>1. CASE d >= me
        <5>1. e = d - me /\ e < half
          <6> HIDE DEF d, e, half
          <6> QED
            BY <2>2, <3>4, <3>6, <4>1
        <5>2. q = e + op.first
          BY <3>2, <3>7, <5>1, TicksToExpireNext
        <5> HIDE DEF d, e, half, q
        <5> QED
          BY <1>5, <2>2, <2>4, <3>2, <3>4, <3>10, <5>1, <5>2
      <4>2. CASE ~(d >= me)
        <5> DEFINE y == me - d
        <5>1. y \in Nat /\ y # 0 /\ y <= half /\ y <= me /\ e = W - y
          <6> HIDE DEF d, e
          <6>1. y <= late
            BY <1>5, <2>2, <2>3, <3>4, <3>9, <4>2
          <6>2. half \in Nat /\ MaxLatency <= half
            BY <3>4
          <6> HIDE DEF half
          <6> QED
            BY <1>5, <2>2, <3>4, <3>6, <4>2, <6>1, <6>2
        <5>2. y \in Counts
          <6> HIDE DEF y
          <6> QED
            BY <2>2, <5>1, TicksAssumption DEF W, Counts
        <5> HIDE DEF y
        <5>3. q = IF op.first > y THEN op.first - y ELSE 0
          BY <3>2, <3>7, <5>1, <5>2, TicksLeftNext
        <5>4. y = me - d
          BY DEF y
        <5> HIDE DEF d, e, half, q
        <5> QED
          BY <1>5, <2>2, <2>3, <2>4, <3>2, <3>4, <3>10, <5>1, <5>3, <5>4
      <4> QED
        BY <4>1, <4>2
    <3>12. Working'
      BY <2>1 DEF Working
    <3> QED
      BY <1>2, <3>8, <3>9, <3>11, <3>12 DEF OpHigh
  <2> QED
    BY <1>6, <1>8, <2>5, <2>6 DEF HighInv, Limits
<1> QED
  BY <1>9, <1>10

LEMMA PutOff ==
  ASSUME NEW a \in Int, NEW b \in Nat, NEW c \in Nat, NEW e \in Nat, NEW d \in Int, NEW x \in Nat,
         d <= (a + (b + c)) + e
  PROVE  d - x <= (a + ((b - x) + c)) + e
OBVIOUS

\* A periodic timer goes on from when it was due: its next deadline is one
\* period after the last, and so is what the list will promise for it.
LEMMA SwiExpireHigh ==
  ASSUME HighInv, TimeInv, Apart, Types, InTime, isr # "lost", SwiExpire
  PROVE  HighInv'
<1> DEFINE t == Head(list)
           x == ticks_to_expire[t]
           sum == loc.expired + x
           back == [node |-> t, at |-> (loc.previous + sum) % W]
           period == ticks_periodic_interval[t]
<1>1. Promises /\ Limits
  BY DEF TimeInv, HighInv
<1>2. /\ UNCHANGED <<counter, m_ticks_latest, m_op_queue, m_rtc1_reset, m_rtc1_running, late,
                     ticks_periodic_interval, isr>>
      /\ isr = "expired_timers" /\ list # <<>> /\ list' = Tail(list) /\ loc.elapsed >= x
      /\ ticks_to_expire' = [ticks_to_expire EXCEPT ![t] = 0]
      /\ remain' = [remain EXCEPT ![t] = IF Restarts(t) THEN @ + period ELSE 0]
  BY DEF SwiExpire, rtcVars, Expired
<1>3. Listed /\ loc \in Locals /\ remain \in [Timers -> Int]
  BY DEF Types, ListTypes, LocalTypes, TimeInv
<1>4. /\ loc.elapsed \in Nat /\ loc.expired \in Nat /\ loc.previous \in Counts
      /\ loc.restart \in Seq(Due)
  BY <1>3 DEF Locals
<1>5. t \in Timers /\ x \in Nat /\ period \in Counts /\ period \in Nat
  <2>1. t \in Timers
    BY <1>2, <1>3, HeadTailProperties DEF Listed
  <2> QED
    BY <1>3, <2>1, Width DEF Listed, Types, ListTypes
<1>6. /\ loc'.elapsed = loc.elapsed - x
      /\ loc'.restart = IF Restarts(t) THEN <<back>> \o loc.restart ELSE loc.restart
  BY <1>3 DEF SwiExpire, Locals
<1>7. Elapsed \in Nat /\ W \in Nat \ {0} /\ Slack \in Nat
  BY ElapsedIs, Width, SlackIs
<1>8. Elapsed' = Elapsed /\ Slack' = Slack /\ Behind = loc.elapsed /\ Behind' = loc.elapsed - x
  BY <1>2, <1>6 DEF Elapsed, Slack, Behind, TicksDiff, W
<1>9. /\ loc.expired + loc.elapsed < W
      /\ m_ticks_latest = (loc.previous + (loc.expired + loc.elapsed)) % W
  BY <1>1, <1>2 DEF Promises, Places
<1>10. sum + (loc.elapsed - x) = loc.expired + loc.elapsed
  BY <1>4, <1>5
<1>11. Listed'
  <2>1. ticks_to_expire' \in [Timers -> Nat]
    BY <1>2, <1>3, <1>5 DEF Listed
  <2>2. list' \in Seq(Timers)
    BY <1>2, <1>3, HeadTailProperties DEF Listed
  <2> QED
    BY <2>1, <2>2 DEF Listed
<1>12. /\ IsInjective(list) /\ IsInjective(list') /\ t \notin ToSet(list')
       /\ ToSet(list) = ToSet(list') \cup {t} /\ t \notin Restarting
  <2>1. IsInjective(list) /\ ToSet(list) \cap Restarting = {}
    BY DEF Apart
  <2>2. IsInjective(list') /\ t \notin ToSet(list') /\ ToSet(list) = ToSet(list') \cup {t}
    BY <1>2, <1>3, <2>1, TailSet DEF Listed
  <2> QED
    BY <2>1, <2>2
<1>13. \A i \in 1 .. Len(list') : /\ i + 1 \in 1 .. Len(list) /\ list'[i] = list[i + 1]
                                  /\ DueAt'[i] = DueAt[i + 1] - x
  BY <1>2, <1>3, <1>11, <1>12, TailDue
<1>14. \A u \in Timers : u # t => remain'[u] = remain[u]
  BY <1>2, <1>3
<1>15. back \in Due /\ back.node = t /\ back.at = (loc.previous + sum) % W
  <2>1. loc.previous + sum \in Int
    <3>1. loc.previous \in Nat
      BY <1>4, Width
    <3> HIDE DEF x
    <3> QED
      BY <1>4, <1>5, <3>1
  <2> HIDE DEF sum
  <2>2. (loc.previous + sum) % W \in Counts
    BY <2>1, Width
  <2> QED
    BY <1>5, <2>2 DEF Due
<1>16. x <= (remain[t] + (loc.elapsed + Elapsed)) + Slack
  <2>1. Len(list) \in Nat /\ 1 \in 1 .. Len(list) /\ t = list[1]
    <3>1. Len(list) \in Nat \ {0}
      BY <1>2, <1>3, LenProperties, EmptySeq DEF Listed
    <3> QED
      BY <3>1
  <2>2. DueAt[0] = 0 /\ DueAt[1] = DueAt[1 - 1] + ticks_to_expire[list[1]]
    BY <1>3, <2>1, DueAtGrows
  <2>3. DueAt[1] <= (remain[list[1]] + (Behind + Elapsed)) + Slack
    BY <1>1, <2>1 DEF Limits, ListHigh
  <2>4. DueAt[1] = x
    BY <1>5, <2>1, <2>2
  <2> HIDE DEF t, x
  <2> QED
    BY <1>8, <2>1, <2>3, <2>4
<1>17. Restarts(t) => /\ loc.elapsed - x <= period
                      /\ loc.elapsed - x <= MAX_RTC_COUNTER_VAL \div 2
  BY <1>2 DEF InTime
<1> HIDE DEF t, x, sum, back, period
<1>18. ListHigh'
  <2> SUFFICES ASSUME NEW i \in 1 .. Len(list')
               PROVE  DueAt'[i] <= (remain'[list'[i]] + (Behind' + Elapsed')) + Slack'
    BY DEF ListHigh
  <2>1. i + 1 \in 1 .. Len(list) /\ list'[i] = list[i + 1] /\ DueAt'[i] = DueAt[i + 1] - x
    BY <1>13
  <2>2. list'[i] \in Timers /\ list'[i] # t
    <3>1. list'[i] \in ToSet(list') /\ list'[i] \in Timers
      BY <1>11, ElementOfSeq, LenProperties DEF Listed, ToSet
    <3> QED
      BY <1>12, <3>1
  <2>3. remain'[list'[i]] = remain[list[i + 1]] /\ remain[list[i + 1]] \in Int
    BY <1>3, <1>14, <2>1, <2>2
  <2>4. DueAt[i + 1] <= (remain[list[i + 1]] + (Behind + Elapsed)) + Slack
    BY <1>1, <2>1 DEF Limits, ListHigh
  <2>5. DueAt[i + 1] \in Nat
    <3>1. i + 1 \in 0 .. Len(list)
      BY <2>1
    <3> QED
      BY <1>3, <3>1, DueAtGrows
  <2> QED
    <3> PICK a \in Int, d \in Int : a = remain[list[i + 1]] /\ d = DueAt[i + 1]
      BY <2>3, <2>5
    <3>1. d <= (a + (loc.elapsed + Elapsed)) + Slack
      BY <1>8, <2>4
    <3>2. d - x <= (a + ((loc.elapsed - x) + Elapsed)) + Slack
      BY <1>4, <1>5, <1>7, <3>1, PutOff
    <3> QED
      BY <1>8, <2>1, <2>3, <3>2
<1>19. \A r \in ToSet(loc.restart) :
         TicksToExpire(r.at, ticks_periodic_interval[r.node]) <= (remain'[r.node] + Elapsed) + Slack
  <2> SUFFICES ASSUME NEW r \in ToSet(loc.restart)
               PROVE  remain'[r.node] = remain[r.node]
    BY <1>1 DEF Limits, RestartHigh
  <2>1. r \in Due /\ r.node \in Restarting
    BY <1>4, ElementOfSeq, LenProperties DEF ToSet, Restarting, NodesOf
  <2> QED
    BY <1>12, <1>14, <2>1 DEF Due
<1>20. Restarts(t) => TicksToExpire(back.at, period) <= (remain'[t] + Elapsed) + Slack
  <2> SUFFICES ASSUME Restarts(t)
               PROVE  TicksToExpire(back.at, period) <= (remain'[t] + Elapsed) + Slack
    OBVIOUS
  <2> DEFINE y == loc.elapsed - x
             q == TicksToExpire(back.at, period)
  <2>1. remain'[t] = remain[t] + period /\ remain[t] \in Int
    BY <1>2, <1>3, <1>5 DEF period
  <2>2. y \in Nat /\ y <= period /\ y <= MAX_RTC_COUNTER_VAL \div 2
    BY <1>2, <1>4, <1>5, <1>17
  <2>3. back.at \in Counts
    BY <1>15 DEF Due
  <2>4. sum \in Nat /\ sum + y < W /\ sum + y = loc.expired + loc.elapsed
    BY <1>4, <1>5, <1>9, <1>10, <2>2 DEF sum
  <2>5. sum \in Counts /\ y \in Counts /\ sum + y \in Counts
    <3> HIDE DEF y
    <3> QED
      BY <2>2, <2>4, TicksAssumption DEF W, Counts
  <2>6. m_ticks_latest = (back.at + y) % W
    <3>1. m_ticks_latest = (loc.previous + (sum + y)) % W
      BY <1>9, <2>4
    <3>2. (loc.previous + (sum + y)) % W = (((loc.previous + sum) % W) + y) % W
      BY <1>4, <2>5, TwoMoves
    <3> QED
      BY <1>15, <3>1, <3>2
  <2>7. TicksDiff(back.at, m_ticks_latest) = IF y = 0 THEN 0 ELSE W - y
    BY <2>3, <2>5, <2>6, DiffMoved
  <2>8. q = IF period > y THEN period - y ELSE 0
    BY <1>5, <2>2, <2>3, <2>5, <2>7, TicksLeft DEF Types, ClockTypes
  <2>9. y = loc.elapsed - x
    OBVIOUS
  <2> HIDE DEF y, q
  <2>10. q = period - y
    BY <1>5, <2>2, <2>8
  <2>11. -y <= (remain[t] + Elapsed) + Slack
    BY <1>4, <1>5, <1>7, <1>16, <2>1, <2>9
  <2>12. q <= (remain'[t] + Elapsed) + Slack
    BY <1>5, <1>7, <2>1, <2>2, <2>10, <2>11
  <2> QED
    BY <2>12 DEF q
<1>21. /\ ToSet(loc'.restart) \subseteq ToSet(loc.restart) \cup {back}
       /\ (~Restarts(t) => loc'.restart = loc.restart)
  BY <1>4, <1>6, <1>15, FrontSet
<1>22. RestartHigh'
  <2> SUFFICES ASSUME NEW r \in ToSet(loc'.restart)
               PROVE  TicksToExpire(r.at, ticks_periodic_interval[r.node])
                        <= (remain'[r.node] + Elapsed) + Slack
    BY <1>2, <1>8 DEF RestartHigh, TicksToExpire, TicksDiff, W
  <2>1. CASE r \in ToSet(loc.restart)
    BY <1>19, <2>1
  <2>2. CASE r \notin ToSet(loc.restart)
    <3>1. r = back /\ Restarts(t)
      BY <1>21, <2>2
    <3> QED
      BY <1>15, <1>20, <3>1 DEF period
  <2> QED
    BY <2>1, <2>2
<1>23. OpsHigh'
  <2>1. \A op : OpHigh(op) => OpHigh(op)'
    BY <1>2, <1>8 DEF OpHigh, OpTicks, TicksToExpire, TicksDiff, W, Working
  <2> QED
    BY <1>1, <1>2, <2>1 DEF Limits, OpsHigh
<1>24. RunsListed'
  BY <1>1, <1>2 DEF Limits, RunsListed
<1> QED
  BY <1>18, <1>22, <1>23, <1>24 DEF HighInv, Limits

LEMMA SwiExpireDoneHigh ==
  ASSUME HighInv, TimeInv, Apart, Types, Types', isr # "lost", SwiExpireDone
  PROVE  HighInv'
<1>1. Limits
  BY DEF HighInv
<1>2. /\ UNCHANGED <<counter, m_ticks_latest, m_op_queue, m_rtc1_reset, m_rtc1_running, late,
                     ticks_periodic_interval, list, remain>>
      /\ isr = "expired_timers" /\ isr' = "list_insertions"
      /\ ticks_to_expire' = IF list = <<>> THEN ticks_to_expire
                            ELSE [ticks_to_expire EXCEPT ![Head(list)] = @ - loc.elapsed]
  BY DEF SwiExpireDone, rtcVars
<1>3. Listed /\ Listed' /\ loc \in Locals
  BY DEF Types, ListTypes, LocalTypes
<1>4. /\ loc'.restart = loc.restart /\ loc.elapsed \in Nat
      /\ loc'.old_head = IF list = <<>> THEN NULL ELSE Head(list)
  BY <1>3 DEF SwiExpireDone, Locals, HeadTimer
<1>5. Elapsed \in Nat /\ Slack \in Nat
  BY ElapsedIs, SlackIs
<1>6. Elapsed' = Elapsed /\ Slack' = Slack /\ Behind = loc.elapsed /\ Behind' = 0
  BY <1>2 DEF Elapsed, Slack, Behind, TicksDiff, W
<1>7. ListHigh'
  <2> SUFFICES ASSUME NEW i \in 1 .. Len(list)
               PROVE  DueAt'[i] <= (remain[list[i]] + (Behind' + Elapsed')) + Slack'
    BY <1>2 DEF ListHigh
  <2>1. list # <<>> /\ Len(list) \in Nat
    BY <1>3, LenProperties, EmptySeq DEF Listed
  <2>2. DueAt'[i] = DueAt[i] - loc.elapsed
    <3>1. IsInjective(list)
      BY DEF Apart
    <3>2. ticks_to_expire' = [ticks_to_expire EXCEPT ![Head(list)] = @ - loc.elapsed]
      BY <1>2, <2>1
    <3>3. loc.elapsed \in Int
      BY <1>4
    <3> QED
      BY <1>2, <1>3, <2>1, <3>1, <3>2, <3>3, HeadDue
  <2>3. DueAt[i] <= (remain[list[i]] + (loc.elapsed + Elapsed)) + Slack
    BY <1>1, <1>6 DEF Limits, ListHigh
  <2>4. DueAt[i] \in Int /\ remain[list[i]] \in Int
    <3>1. DueAt[i] \in Nat
      BY <1>3, DueAtGrows
    <3>2. list[i] \in Timers
      BY <1>3, ElementOfSeq DEF Listed
    <3> QED
      BY <3>1, <3>2 DEF TimeInv
  <2>5. DueAt[i] - loc.elapsed <= (remain[list[i]] + ((loc.elapsed - loc.elapsed) + Elapsed)) + Slack
    BY <1>4, <1>5, <2>3, <2>4, PutOff
  <2>6. loc.elapsed - loc.elapsed = 0
    BY <1>4
  <2> QED
    BY <1>6, <2>2, <2>5, <2>6
<1>8. RestartHigh'
  BY <1>1, <1>2, <1>4, <1>6 DEF Limits, RestartHigh, TicksToExpire, TicksDiff, W
<1>9. OpsHigh'
  <2>1. \A op : OpHigh(op) => OpHigh(op)'
    BY <1>2, <1>6 DEF OpHigh, OpTicks, TicksToExpire, TicksDiff, W, Working
  <2> QED
    BY <1>1, <1>2, <2>1 DEF Limits, OpsHigh
<1>10. RunsListed'
  BY <1>1, <1>2, <1>4 DEF Limits, RunsListed
<1> QED
  BY <1>7, <1>8, <1>9, <1>10 DEF HighInv, Limits

\* A timer whose bound holds goes into the list; the bound of no other changes.
LEMMA InsertHigh ==
  ASSUME Types, Apart, Limits, isr = "list_insertions", NEW t \in Timers \ ToSet(list),
         NEW ticks \in Nat, Insert(t, ticks),
         UNCHANGED <<counter, m_ticks_latest, m_rtc1_running, late>>,
         \A u \in Timers : u # t => remain'[u] = remain[u],
         ticks <= (remain'[t] + Elapsed) + Slack
  PROVE  ListHigh' /\ isr' = isr
<1>1. IsInjective(list)
  BY DEF Apart
<1>2. isr' = isr
  BY <1>1, Linked
<1>3. /\ Listed' /\ Len(list') = Len(list) + 1
      /\ \A i \in 1 .. Len(list') :
           \/ list'[i] = t /\ DueAt'[i] = ticks
           \/ \E k \in {i - 1, i} \cap 1 .. Len(list) : list'[i] = list[k] /\ DueAt'[i] = DueAt[k]
  BY <1>1, InsertDue
<1>4. Elapsed' = Elapsed /\ Behind = 0 /\ Behind' = 0 /\ Elapsed \in Nat /\ Slack' = Slack
  BY <1>2, ElapsedIs DEF Elapsed, Behind, TicksDiff, W, Slack
<1>5. ASSUME NEW i \in 1 .. Len(list')
      PROVE  DueAt'[i] <= (remain'[list'[i]] + (Behind' + Elapsed')) + Slack'
  <2>1. CASE list'[i] = t /\ DueAt'[i] = ticks
    BY <1>4, <2>1
  <2>2. ASSUME NEW k \in 1 .. Len(list), list'[i] = list[k], DueAt'[i] = DueAt[k]
        PROVE  DueAt'[i] <= (remain'[list'[i]] + (Behind' + Elapsed')) + Slack'
    <3>1. list[k] \in Timers /\ list[k] \in ToSet(list)
      BY ElementOfSeq, LenProperties DEF ToSet, Types, ListTypes, Listed
    <3>2. remain'[list[k]] = remain[list[k]]
      BY <3>1
    <3>3. DueAt[k] <= (remain[list[k]] + (Behind + Elapsed)) + Slack
      BY DEF Limits, ListHigh
    <3> QED
      BY <1>4, <2>2, <3>2, <3>3
  <2> QED
    BY <1>3, <2>1, <2>2
<1> QED
  BY <1>2, <1>5 DEF ListHigh

LEMMA SwiRestartHigh ==
  ASSUME HighInv, Apart, Types, isr # "lost", SwiRestart
  PROVE  HighInv'
<1>1. Limits
  BY DEF HighInv
<1> PICK r : r = Head(loc.restart)
  OBVIOUS
<1> DEFINE t == r.node
           ticks == TicksToExpire(r.at, ticks_periodic_interval[t])
<1>2. /\ UNCHANGED <<counter, m_ticks_latest, m_op_queue, m_rtc1_reset, m_rtc1_running, late,
                     ticks_periodic_interval, remain>>
      /\ isr = "list_insertions" /\ loc.restart # <<>> /\ Insert(t, ticks)
  BY DEF SwiRestart, rtcVars
<1>3. loc.restart \in Seq(Due) /\ loc'.restart = Tail(loc.restart) /\ loc'.old_head = loc.old_head
  BY DEF SwiRestart, Types, LocalTypes, Locals
<1>4. /\ r \in Due /\ r \in ToSet(loc.restart) /\ ToSet(loc'.restart) \subseteq ToSet(loc.restart)
  BY <1>2, <1>3, TailIn, HeadTailProperties
<1>5. t \in Timers /\ ticks \in Nat
  <2>1. r.node \in Timers /\ r.at \in Counts
    BY <1>4 DEF Due
  <2>2. ticks_periodic_interval[r.node] \in Counts
    BY <2>1 DEF Types, ListTypes
  <2> QED
    BY <2>1, <2>2, TicksToExpireNat
<1>6. t \notin ToSet(list)
  <2>1. t \in Restarting
    BY <1>4 DEF Restarting, NodesOf, ToSet
  <2> QED
    BY <2>1 DEF Apart
<1>7. ticks <= (remain[t] + Elapsed) + Slack
  BY <1>1, <1>4 DEF Limits, RestartHigh
<1> HIDE DEF t, ticks
<1>8. ListHigh' /\ isr' = isr
  BY <1>1, <1>2, <1>5, <1>6, <1>7, InsertHigh
<1>9. Elapsed' = Elapsed /\ Slack' = Slack
  BY <1>2 DEF Elapsed, Slack, TicksDiff, W
<1>10. RestartHigh'
  BY <1>1, <1>2, <1>4, <1>9 DEF Limits, RestartHigh, TicksToExpire, TicksDiff, W
<1>11. OpsHigh'
  <2>1. \A op : OpHigh(op) => OpHigh(op)'
    BY <1>2, <1>8, <1>9 DEF OpHigh, OpTicks, TicksToExpire, TicksDiff, W, Working
  <2> QED
    BY <1>1, <1>2, <2>1 DEF Limits, OpsHigh
<1>12. RunsListed'
  BY <1>1, <1>2, <1>3, <1>8 DEF Limits, RunsListed
<1> QED
  BY <1>8, <1>10, <1>11, <1>12 DEF HighInv, Limits

\* A start is due op.due ticks from now, op.first less the time it was queued.
LEMMA SwiStartHigh ==
  ASSUME HighInv, TimeInv, Apart, Types, isr # "lost", SwiStart
  PROVE  HighInv'
<1>1. Limits /\ remain \in [Timers -> Int]
  BY DEF TimeInv, HighInv
<1> PICK op : op = Head(m_op_queue)
  OBVIOUS
<1> DEFINE t == op.node
           at == IF m_rtc1_reset THEN 0 ELSE op.at
           ticks == TicksToExpire(at, op.first)
<1>2. /\ UNCHANGED <<counter, m_ticks_latest, m_rtc1_reset, m_rtc1_running, late, loc>>
      /\ isr = "list_insertions" /\ loc.restart = <<>> /\ m_op_queue # <<>>
      /\ m_op_queue' = Tail(m_op_queue) /\ op.type = "START"
  BY DEF SwiStart, Dequeue, rtcVars
<1>3. op \in Operation /\ op \in ToSet(m_op_queue) /\ ToSet(m_op_queue') \subseteq ToSet(m_op_queue)
  BY <1>2, TailIn, HeadTailProperties DEF Types, QueueTypes
<1>4. /\ op.node \in Timers /\ op.at \in Counts /\ op.first \in Counts /\ op.due \in Int
      /\ at \in Counts
  BY <1>2, <1>3, Width DEF Operation
<1>5. ticks \in Nat
  BY <1>4, TicksToExpireNat
<1>6. Elapsed' = Elapsed /\ Elapsed \in Nat /\ Slack' = Slack
  BY <1>2, ElapsedIs DEF Elapsed, Slack, TicksDiff, W
<1>7. ticks <= (op.due + Elapsed) + Slack
  <2>1. OpHigh(op) /\ OpTicks(op) = ticks
    BY <1>1, <1>2, <1>3 DEF Limits, OpsHigh, OpTicks
  <2>2. op.first <= op.due + late /\ ticks <= op.first + Elapsed
    BY <2>1 DEF OpHigh
  <2>3. late \in Nat /\ Slack \in Nat /\ late <= Slack /\ op.first \in Nat
    BY <1>4, SlackIs, Width
  <2> HIDE DEF ticks
  <2> QED
    BY <1>4, <1>5, <1>6, <2>2, <2>3
<1>8. isr' = isr => OpsHigh'
  <2>1. ASSUME isr' = isr PROVE \A o : OpHigh(o) => OpHigh(o)'
    BY <1>2, <1>6, <2>1 DEF OpHigh, OpTicks, TicksToExpire, TicksDiff, W, Working
  <2> QED
    BY <1>1, <1>3, <2>1 DEF Limits, OpsHigh
<1>9. isr' = isr => RunsListed' /\ RestartHigh'
  BY <1>1, <1>2, NoneThere DEF Limits, RunsListed, RestartHigh
<1>10. CASE is_running[t]
  <2>1. UNCHANGED <<isr, list, ticks_to_expire, remain>>
    BY <1>10 DEF SwiStart, listVars
  <2>2. DueAt' = DueAt /\ Behind' = Behind
    BY <1>2, <2>1 DEF DueAt, Behind
  <2>3. ListHigh'
    BY <1>1, <1>6, <2>1, <2>2 DEF Limits, ListHigh
  <2> QED
    BY <1>8, <1>9, <2>1, <2>3 DEF HighInv, Limits
<1>11. CASE ~is_running[t]
  <2>1. Insert(t, ticks) /\ remain' = [remain EXCEPT ![t] = op.due]
    BY <1>11 DEF SwiStart
  <2>2. remain'[t] = op.due /\ \A u \in Timers : u # t => remain'[u] = remain[u]
    BY <1>1, <1>4, <2>1
  <2>3. CASE t \in ToSet(list)
    <3>1. isr' = "lost"
      BY <2>1, <2>3 DEF Insert
    <3> QED
      BY <3>1 DEF HighInv
  <2>4. CASE t \notin ToSet(list)
    <3>1. t \in Timers \ ToSet(list)
      BY <1>4, <2>4
    <3> HIDE DEF t, ticks
    <3>2. ListHigh' /\ isr' = isr
      BY <1>1, <1>2, <1>5, <1>7, <2>1, <2>2, <3>1, InsertHigh
    <3> QED
      BY <1>8, <1>9, <3>2 DEF HighInv, Limits
  <2> QED
    BY <2>3, <2>4
<1> QED
  BY <1>10, <1>11

LEMMA SwiStopHigh ==
  ASSUME HighInv, TimeInv, Apart, Types, Types', isr # "lost", SwiStop
  PROVE  HighInv'
<1>1. Limits /\ remain \in [Timers -> Int]
  BY DEF TimeInv, HighInv
<1> PICK op : op = Head(m_op_queue)
  OBVIOUS
<1> DEFINE t == op.node
<1>2. /\ UNCHANGED <<isr, m_rtc1_running, late>>
      /\ isr = "list_insertions" /\ loc.restart = <<>> /\ m_op_queue # <<>>
      /\ m_op_queue' = Tail(m_op_queue) /\ op.type = "STOP"
  BY DEF SwiStop, Dequeue, rtcVars
<1>3. op \in Operation /\ ToSet(m_op_queue') \subseteq ToSet(m_op_queue)
  BY <1>2, TailIn, HeadTailProperties DEF Types, QueueTypes
<1>4. t \in Timers /\ Listed /\ Listed' /\ loc \in Locals
  BY <1>2, <1>3 DEF Operation, Types, ListTypes, LocalTypes
<1>5. loc'.restart = <<>> /\ loc'.old_head = loc.old_head
  <2>1. UNCHANGED loc \/ \E b : loc' = [loc EXCEPT !.update = b]
    BY DEF SwiStop
  <2> QED
    BY <1>2, <1>4, <2>1 DEF Locals
<1>6. Working /\ Working' /\ IsInjective(list)
  BY <1>2 DEF Working, Apart
<1>7. RunsListed' /\ RestartHigh'
  BY <1>1, <1>2, <1>5, NoneThere DEF Limits, RunsListed, RestartHigh
<1>8. Slack' = Slack
  BY <1>2 DEF Slack
<1>9. CASE UNCHANGED <<counter, m_ticks_latest, m_rtc1_reset>>
  <2>1. Elapsed' = Elapsed /\ Behind' = Behind
    BY <1>2, <1>9 DEF Elapsed, Behind, TicksDiff, W
  <2>2. OpsHigh'
    <3>1. \A o : OpHigh(o) => OpHigh(o)'
      BY <1>2, <1>9, <2>1 DEF OpHigh, OpTicks, TicksToExpire, TicksDiff, W, Working
    <3> QED
      BY <1>1, <1>3, <3>1 DEF Limits, OpsHigh
  <2>3. ListHigh'
    <3>1. CASE ~Found(t)
      <4>1. UNCHANGED <<list, ticks_to_expire, remain>>
        BY <3>1 DEF SwiStop
      <4>2. DueAt' = DueAt
        BY <4>1 DEF DueAt
      <4> QED
        BY <1>1, <1>8, <2>1, <4>1, <4>2 DEF Limits, ListHigh
    <3>2. CASE Found(t)
      <4> PICK p : p = IndexOf(t)
        OBVIOUS
      <4>1. /\ list' = RemoveAt(list, p)
            /\ ticks_to_expire' = IF p = Len(list) THEN ticks_to_expire
                 ELSE [ticks_to_expire EXCEPT ![list[p + 1]] = @ + ticks_to_expire[t]]
            /\ remain' = [remain EXCEPT ![t] = 0]
        BY <3>2 DEF SwiStop, HandsOver
      <4>2. p \in 1 .. Len(list) /\ list[p] = t
        BY <1>4, <3>2, FoundAt DEF Found, Listed
      <4>3. \A i \in 1 .. Len(list') :
              \E k \in 1 .. Len(list) : /\ k = IF i < p THEN i ELSE i + 1
                                        /\ list'[i] = list[k] /\ DueAt'[i] = DueAt[k]
        <5>1. ticks_to_expire' = IF p = Len(list) THEN ticks_to_expire
                ELSE [ticks_to_expire EXCEPT ![list[p + 1]] = @ + ticks_to_expire[list[p]]]
          BY <4>1, <4>2
        <5> QED
          BY <1>4, <1>6, <4>1, <4>2, <5>1, RemoveDue
      <4>4. IsInjective(list') /\ ToSet(list') = ToSet(list) \ {t}
        BY <1>4, <1>6, <4>1, <4>2, RemovedSet DEF Listed
      <4>5. \A u \in Timers : u # t => remain'[u] = remain[u]
        <5> HIDE DEF t
        <5>1. t \in Timers /\ remain \in [Timers -> Int] /\ remain' = [remain EXCEPT ![t] = 0]
          BY <1>1, <1>4, <4>1
        <5> QED
          BY <5>1
      <4>6. ASSUME NEW i \in 1 .. Len(list')
            PROVE  DueAt'[i] <= (remain'[list'[i]] + (Behind' + Elapsed')) + Slack'
        <5>1. PICK k \in 1 .. Len(list) : list'[i] = list[k] /\ DueAt'[i] = DueAt[k]
          BY <4>3
        <5>2. list'[i] \in ToSet(list') /\ list'[i] \in Timers
          BY <1>4, ElementOfSeq, LenProperties DEF Listed, ToSet
        <5>3. remain'[list'[i]] = remain[list[k]]
          BY <4>4, <4>5, <5>1, <5>2
        <5>4. DueAt[k] <= (remain[list[k]] + (Behind + Elapsed)) + Slack
          BY <1>1 DEF Limits, ListHigh
        <5> QED
          BY <1>8, <2>1, <5>1, <5>3, <5>4
      <4> QED
        BY <4>6 DEF ListHigh
    <3> QED
      BY <3>1, <3>2
  <2> QED
    BY <1>7, <2>2, <2>3 DEF HighInv, Limits
<1>10. CASE ~UNCHANGED <<counter, m_ticks_latest, m_rtc1_reset>>
  <2>1. /\ Found(t) /\ Len(list) = 1 /\ counter' = 0 /\ m_ticks_latest' = 0
        /\ m_rtc1_reset' = TRUE /\ list' = RemoveAt(list, IndexOf(t))
    BY <1>10 DEF SwiStop
  <2>2. list' = <<>>
    <3> PICK p : p = IndexOf(t)
      OBVIOUS
    <3>1. p \in 1 .. Len(list) /\ list \in Seq(Timers)
      BY <1>4, <2>1, FoundAt DEF Found, Listed
    <3>2. list' \in Seq(Timers) /\ Len(list') = 0
      <4>1. RemoveAt(list, p) \in Seq(Timers) /\ Len(RemoveAt(list, p)) = Len(list) - 1
        BY <3>1, Removed
      <4> QED
        BY <2>1, <4>1
    <3> QED
      BY <3>2, EmptySeq
  <2>3. ListHigh'
    BY <2>2 DEF ListHigh
  <2>4. 0 \in Counts /\ TicksDiff(0, 0) = 0 /\ Elapsed' = 0
    <3>1. 0 \in Counts
      BY Width
    <3>2. TicksDiff(0, 0) = 0
      BY <3>1, DiffIs
    <3>3. Elapsed' = TicksDiff(0, 0)
      BY <2>1 DEF Elapsed, TicksDiff, W
    <3> QED
      BY <3>1, <3>2, <3>3
  <2>5. OpsHigh'
    <3> SUFFICES ASSUME NEW o \in ToSet(m_op_queue), o.type = "START" PROVE OpHigh(o)'
      BY <1>3 DEF OpsHigh
    <3>1. o \in Operation
      BY ElementOfSeq, LenProperties DEF ToSet, Types, QueueTypes
    <3>2. o.due \in Int /\ o.first \in Counts /\ o.first \in Nat
      BY <3>1, Width DEF Operation
    <3>3. 0 <= MAX_RTC_COUNTER_VAL \div 2
      BY TicksAssumption
    <3>4. TicksToExpire(0, o.first)' = IF o.first > 0 THEN o.first - 0 ELSE 0
      <4>1. m_ticks_latest' \in Counts /\ TicksDiff(0, m_ticks_latest') = IF 0 = 0 THEN 0 ELSE W - 0
        BY <2>1, <2>4
      <4> QED
        BY <2>4, <3>2, <3>3, <4>1, TicksLeftNext
    <3>5. o.first <= o.due + late
      BY <1>1 DEF Limits, OpsHigh, OpHigh
    <3>6. OpTicks(o)' = o.first
      <4>1. OpTicks(o)' = TicksToExpire(0, o.first)'
        BY <2>1 DEF OpTicks
      <4>2. (IF o.first > 0 THEN o.first - 0 ELSE 0) = o.first
        BY <3>2
      <4> QED
        BY <3>4, <4>1, <4>2
    <3> QED
      BY <1>2, <1>6, <2>4, <3>2, <3>5, <3>6 DEF OpHigh
  <2> QED
    BY <1>7, <2>3, <2>5 DEF HighInv, Limits
<1> QED
  BY <1>9, <1>10

LEMMA SwiStopAllHigh ==
  ASSUME HighInv, Types, isr # "lost", SwiStopAll
  PROVE  HighInv'
<1>1. Limits
  BY DEF HighInv
<1>2. /\ UNCHANGED <<counter, m_ticks_latest, m_rtc1_reset, m_rtc1_running, late, isr, loc>>
      /\ isr = "list_insertions" /\ loc.restart = <<>> /\ m_op_queue # <<>>
      /\ m_op_queue' = Tail(m_op_queue) /\ list' = <<>>
  BY DEF SwiStopAll, Dequeue, rtcVars
<1>3. ToSet(m_op_queue') \subseteq ToSet(m_op_queue)
  BY <1>2, TailIn DEF Types, QueueTypes
<1>4. RunsListed' /\ ListHigh' /\ RestartHigh'
  BY <1>1, <1>2, NoneThere DEF Limits, RunsListed, ListHigh, RestartHigh
<1>5. Elapsed' = Elapsed
  BY <1>2 DEF Elapsed, TicksDiff, W
<1>6. OpsHigh'
  <2>1. \A op : OpHigh(op) => OpHigh(op)'
    BY <1>2, <1>5 DEF OpHigh, OpTicks, TicksToExpire, TicksDiff, W, Working
  <2> QED
    BY <1>1, <1>3, <2>1 DEF Limits, OpsHigh
<1> QED
  BY <1>4, <1>6 DEF HighInv, Limits

\* A handler that listed the first timer starts the RTC before it returns.
LEMMA SwiCompareHigh ==
  ASSUME HighInv, TimeInv, Apart, Types, isr # "lost",
         SwiListDone \/ SwiCompare \/ SwiSetCompare \/ SwiCheckCompare
  PROVE  HighInv'
<1>1. Promises /\ Limits
  BY DEF TimeInv, HighInv
<1>2. /\ UNCHANGED <<list, ticks_to_expire, m_op_queue, remain, late>>
      /\ isr \in {"list_insertions", "compare", "set_compare", "check_compare"}
      /\ isr' \in {"compare", "set_compare", "check_compare", Idle}
      /\ UNCHANGED <<counter, m_ticks_latest>> \/ list = <<>>
  BY DEF SwiListDone, SwiCompare, SwiSetCompare, SwiCheckCompare, listVars, rtcVars, Idle
<1>3. m_op_queue = <<>>
  BY <1>1 DEF Promises, Phases, SwiListDone, NothingLeft, SwiCompare, SwiSetCompare, SwiCheckCompare
<1>4. loc'.restart = <<>>
  <2>1. CASE SwiSetCompare
    BY <2>1 DEF SwiSetCompare, Apart, Listing
  <2>2. CASE SwiListDone
    BY <2>2 DEF SwiListDone, NoLoc
  <2>3. CASE SwiCompare
    <3>1. loc' = NoLoc \/ loc' = [NoLoc EXCEPT !.pre = counter]
      BY <2>3 DEF SwiCompare
    <3> QED
      BY <3>1 DEF NoLoc
  <2>4. CASE SwiCheckCompare
    BY <2>4 DEF SwiCheckCompare, NoLoc
  <2> QED
    BY <2>1, <2>2, <2>3, <2>4
<1>5. Behind = 0 /\ Behind' = 0 /\ DueAt' = DueAt
  BY <1>2 DEF Behind, DueAt, Idle
<1>6. ListHigh'
  <2>1. CASE list # <<>>
    <3> SUFFICES ASSUME NEW i \in 1 .. Len(list)
                 PROVE  DueAt[i] <= (remain[list[i]] + (Behind + Elapsed)) + Slack'
      BY <1>2, <1>5, <2>1 DEF ListHigh, Elapsed, TicksDiff, W
    <3>1. DueAt[i] <= (remain[list[i]] + (Behind + Elapsed)) + Slack
      BY <1>1 DEF Limits, ListHigh
    <3>2. Slack <= Slack' /\ Slack \in Nat /\ Slack' \in Nat
      <4>1. Slack' \in {Slack, MaxLatency}
        <5>1. UNCHANGED m_rtc1_running \/ m_rtc1_running' = TRUE
          BY <2>1 DEF SwiListDone, SwiCompare, SwiSetCompare, SwiCheckCompare, rtcVars
        <5>2. UNCHANGED m_rtc1_running => Slack' = Slack
          BY <1>2 DEF Slack
        <5>3. m_rtc1_running' = TRUE => Slack' = MaxLatency
          BY DEF Slack
        <5> QED
          BY <5>1, <5>2, <5>3
      <4>2. late \in Nat /\ MaxLatency \in Nat /\ late <= MaxLatency
        BY SlackIs
      <4>3. Slack \in {late, MaxLatency}
        BY DEF Slack
      <4> QED
        BY <4>1, <4>2, <4>3
    <3>3. Listed /\ list[i] \in Timers /\ DueAt[i] \in Nat
      BY ElementOfSeq, DueAtGrows DEF Types, ListTypes, Listed
    <3>4. remain[list[i]] + (Behind + Elapsed) \in Int
      <4>1. remain[list[i]] \in Int /\ Elapsed \in Nat
        BY <3>3, ElapsedIs DEF TimeInv
      <4> QED
        BY <1>5, <4>1
    <3> QED
      BY <3>1, <3>2, <3>3, <3>4
  <2>2. CASE list = <<>>
    BY <1>2, <2>2 DEF ListHigh
  <2> QED
    BY <2>1, <2>2
<1>7. OpsHigh' /\ RestartHigh'
  BY <1>2, <1>3, <1>4, NoneThere DEF OpsHigh, RestartHigh
<1>8. RunsListed'
  <2> SUFFICES ASSUME list # <<>>, ~m_rtc1_running' PROVE isr' \in {"list_insertions", "compare"}
    BY <1>2 DEF RunsListed, Idle
  <2>1. ~SwiCompare
    BY DEF SwiCompare
  <2>2. UNCHANGED m_rtc1_running
    BY <2>1 DEF SwiListDone, SwiSetCompare, SwiCheckCompare, rtcVars
  <2>3. isr = "list_insertions" /\ loc.old_head = NULL
    BY <1>1, <1>2, <2>1, <2>2 DEF Limits, RunsListed, SwiListDone, SwiSetCompare, SwiCheckCompare
  <2>4. CompareStale
    <3>1. HeadTimer \in Timers
      BY HeadTailProperties DEF HeadTimer, Types, ListTypes, Listed
    <3> QED
      BY <2>3, <3>1, NullAssumption DEF CompareStale
  <2> QED
    BY <2>1, <2>3, <2>4 DEF SwiListDone, SwiSetCompare, SwiCheckCompare
<1> QED
  BY <1>6, <1>7, <1>8 DEF HighInv, Limits

LEMMA NextHigh ==
  ASSUME HighInv, TimeInv, Apart, Types, Types', ServiceInv, Served, InTime,
         StartsLate = FALSE, MaxLatency <= MAX_RTC_COUNTER_VAL \div 2, [Next]_vars
  PROVE  HighInv'
<1>1. CASE isr # "lost" /\ UNCHANGED vars
  <2>1. /\ UNCHANGED <<counter, m_ticks_latest, m_rtc1_reset, m_rtc1_running, late, list,
                       ticks_to_expire, ticks_periodic_interval, remain, m_op_queue, isr, loc>>
    BY <1>1 DEF vars, listVars, rtcVars
  <2>2. Behind' = Behind /\ (Working' <=> Working)
    BY <2>1 DEF Behind, Working
  <2>3. RunsListed => RunsListed'
    BY <2>1 DEF RunsListed
  <2> QED
    BY <1>1, <2>1, <2>2, <2>3, StaysHigh DEF HighInv, Limits
<1>2. CASE isr = "lost"
  <2>1. Tick \/ ExitCritical \/ UNCHANGED vars
    BY <1>2, LostStays
  <2>2. isr' = "lost"
    BY <1>2, <2>1 DEF Tick, ExitCritical, vars
  <2> QED
    BY <2>2 DEF HighInv
<1>3. CASE isr # "lost" /\ Next
  <2>1. CASE Swi
    BY <1>3, <2>1, SwiEnterHigh, SwiExpireHigh, SwiExpireDoneHigh, SwiRestartHigh, SwiStartHigh,
       SwiStopHigh, SwiStopAllHigh, SwiCompareHigh DEF Swi
  <2> QED
    BY <1>3, <2>1, TickHigh, ThreadHigh, HandlerHigh, RtcHigh DEF Next
<1> QED
  BY <1>1, <1>2, <1>3

\* OnSchedule, for every set of timers and counter width, when no timer is
\* started half a counter range after the last expiry, interrupts are never held
\* up for half the range, and an expiry is served before the counter comes round
\* to it again and before a periodic timer is due once more: with the interrupts
\* served the list promises no timer's expiry before its deadline, and none
\* later than that by more than the time interrupts were held up.
THEOREM AlwaysOnSchedule ==
  ASSUME StartsLate = FALSE, MaxLatency <= MAX_RTC_COUNTER_VAL \div 2
  PROVE  Spec /\ []Served /\ []InTime => []OnSchedule
<1>1. Spec /\ []Served => [](TimeInv /\ Types)
  BY TimeInvariant
<1>2. Init => HighInv
  BY InitHigh
<1>3. ASSUME HighInv, TimeInv, Types, Types', Apart, ServiceInv, Served, InTime, [Next]_vars
      PROVE  HighInv'
  BY <1>3, NextHigh
<1>4. ASSUME HighInv, TimeInv, Types, Served, InTime
      PROVE  OnSchedule
  <2> SUFFICES ASSUME Quiet, NEW i \in DOMAIN list
               PROVE  /\ DueAt[i] - Elapsed >= remain[list[i]]
                      /\ DueAt[i] - Elapsed <= remain[list[i]] + MaxLatency
    BY <1>4 DEF OnSchedule, Elapsed
  <2>1. isr = Idle
    BY DEF Quiet, Busy
  <2>2. Promises /\ Limits /\ Behind = 0
    BY <1>4, <2>1 DEF TimeInv, HighInv, Behind, Idle
  <2>3. Listed /\ i \in 1 .. Len(list)
    BY <1>4, LenProperties DEF Types, ListTypes, Listed
  <2>4. remain[list[i]] + (Behind + Elapsed) <= DueAt[i]
    BY <2>2, <2>3 DEF Promises, ListLow
  <2>5. DueAt[i] <= (remain[list[i]] + (Behind + Elapsed)) + Slack
    BY <2>2, <2>3 DEF Limits, ListHigh
  <2>6. Elapsed \in Nat /\ DueAt[i] \in Nat /\ remain[list[i]] \in Int
    <3>1. list[i] \in Timers
      BY <2>3, ElementOfSeq DEF Listed
    <3>2. DueAt[i] \in Nat
      BY <2>3, DueAtGrows
    <3> QED
      BY <1>4, <3>1, <3>2, ElapsedIs DEF TimeInv
  <2>7. Slack \in Nat /\ MaxLatency \in Nat /\ Slack <= MaxLatency
    BY <1>4, SlackIs DEF Slack
  <2> QED
    BY <2>2, <2>4, <2>5, <2>6, <2>7
<1> QED
  BY <1>1, <1>2, <1>3, <1>4, ApartInvariant, ServiceInvariant, PTL DEF Spec
=============================================================================

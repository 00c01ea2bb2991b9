------------------------- MODULE ClockDriverProofs -------------------------
(* Proofs about ClockDriver, for any users and levels. *)
EXTENDS ClockDriver, FiniteSetTheorems, TLAPS

(***************************************************************************)
(* The count.  A user whose call is under way holds no request yet, so     *)
(* that each step that counts adds a member to holds.                      *)
(***************************************************************************)
CountInv ==
  /\ at \in [Users -> {"idle", "on", "count", "off"}]
  /\ holds \subseteq Users
  /\ lfclk_requests = Cardinality(holds)
  /\ \A u \in Calling : u \notin holds

\* A user more is a request more, a user less a request less.
LEMMA OneMore ==
  ASSUME NEW S, S \subseteq Users, NEW u \in Users, u \notin S
  PROVE  Cardinality(S \cup {u}) = Cardinality(S) + 1
BY FS_Subset, FS_AddElement, ClockAssumption

LEMMA OneLess ==
  ASSUME NEW S, S \subseteq Users, NEW u \in S
  PROVE  Cardinality(S \ {u}) = Cardinality(S) - 1
BY FS_Subset, FS_RemoveElement, ClockAssumption

\* A step of a user's call leaves the others where they are.
LEMMA StepsAlone ==
  ASSUME CountInv, NEW u \in Users, NEW from, NEW to \in {"idle", "on", "count", "off"},
         Step(u, from, to)
  PROVE  /\ at' \in [Users -> {"idle", "on", "count", "off"}]
         /\ Calling' \subseteq Calling \cup (IF to = "idle" THEN {} ELSE {u})
         /\ to = "idle" => u \notin Calling'
BY DEF CountInv, Step, Calling

LEMMA CountStep == CountInv /\ [Next]_vars => CountInv'
<1> SUFFICES ASSUME CountInv, [Next]_vars PROVE CountInv'
  OBVIOUS
<1>1. ASSUME NEW u \in Users, Request(u) PROVE CountInv'
  <2>1. Step(u, "idle", "on") \/ Step(u, "idle", "off")
    BY <1>1 DEF Request
  <2>2. /\ at' \in [Users -> {"idle", "on", "count", "off"}]
        /\ Calling' \subseteq Calling \cup {u}
    BY <2>1, StepsAlone
  <2> QED BY <1>1, <2>2 DEF Request, CountInv, m_clock_cb
<1>2. ASSUME NEW u \in Users, Told(u) PROVE CountInv'
  <2>1. u \in Calling
    BY <1>2 DEF Told, Step, Calling
  <2>2. /\ at' \in [Users -> {"idle", "on", "count", "off"}]
        /\ Calling' \subseteq Calling \cup {u}
    BY <1>2, StepsAlone DEF Told
  <2> QED BY <1>2, <2>1, <2>2 DEF Told, CountInv, m_clock_cb
<1>3. ASSUME NEW u \in Users, Count(u) \/ Enqueue(u) PROVE CountInv'
  <2>1. Step(u, "count", "idle") \/ Step(u, "off", "idle")
    BY <1>3 DEF Count, Enqueue
  <2>2. u \in Calling
    BY <2>1 DEF Step, Calling
  <2>3. /\ at' \in [Users -> {"idle", "on", "count", "off"}]
        /\ Calling' \subseteq Calling /\ u \notin Calling'
    BY <2>1, StepsAlone
  <2>4. holds' = holds \cup {u} /\ lfclk_requests' = lfclk_requests + 1
    BY <1>3 DEF Count, Counted, Enqueue
  <2>5. lfclk_requests' = Cardinality(holds')
    BY <2>2, <2>4, OneMore DEF CountInv
  <2> QED BY <2>2, <2>3, <2>4, <2>5 DEF CountInv
<1>4. ASSUME NEW u \in Users, Release(u) PROVE CountInv'
  <2>1. lfclk_requests' = Cardinality(holds')
    BY <1>4, OneLess DEF Release, Released, CountInv
  <2> QED BY <1>4, <2>1 DEF Release, CountInv, Calling
<1>5. ASSUME Settles \/ POWER_CLOCK_IRQHandler \/ UNCHANGED vars PROVE CountInv'
  <2>1. at' = at /\ holds' = holds /\ lfclk_requests' = lfclk_requests
    BY <1>5 DEF Settles, POWER_CLOCK_IRQHandler, IrqStarted, IrqClear, IrqDisable, IrqOn,
                NotifyHead, NotifyCall, vars, m_clock_cb
  <2> QED BY <2>1 DEF CountInv, Calling
<1> QED BY <1>1, <1>2, <1>3, <1>4, <1>5 DEF Next, Requesting

LEMMA CountInvariant == Spec => []CountInv
<1>1. Init => CountInv
  BY FS_EmptySet DEF Init, CountInv, Calling
<1> QED BY <1>1, CountStep, PTL DEF Spec

\* nrf_drv_clock_lfclk_request and _release, called from any levels and
\* preempting one another, keep the exact count of the requests that are held.
THEOREM RequestsCounted == Spec => []CountExact
<1>1. CountInv => CountExact
  BY DEF CountInv, CountExact
<1> QED BY <1>1, CountInvariant, PTL

(***************************************************************************)
(* The clock runs when it is requested: for users that all call from one   *)
(* level, whether the handler preempts them, they the handler, or neither, *)
(* and that release a clock that is on.  Then at most one call is under    *)
(* way, and what it has read of lfclk_on stays true until its end; and     *)
(* between the STARTED event and the store of lfclk_on, over all the steps *)
(* of the handler, nobody can stop the clock.                              *)
(***************************************************************************)
Starting == isr \in {"started", "cleared", "disabled"}

RunsInv ==
  /\ \A u, v \in Calling : u = v
  /\ \A u \in Users : at[u] \in {"on", "count"} => lfclk_on
  /\ lfclk_on => clk = "on"
  /\ ev_started \/ Starting => clk = "on" /\ ~lfclk_on
  /\ isr \in {"cleared", "disabled"} => ~ev_started
  /\ lfclk_requests > 0 => clk # "off"

\* A user that runs is the only one calling.
LEMMA Alone ==
  ASSUME Disciplined, callers \in Callers, NEW u \in Users, UserRuns(u)
  PROVE  Calling \subseteq {u}
<1>1. \A v \in Calling : v \in Users /\ Level(v) = Level(u)
  BY DEF Disciplined, Calling
<1>2. Level(u) \in Nat
  BY ClockAssumption DEF Level
<1>3. ~(Level(u) < Level(u))
  BY <1>2
<1> QED BY <1>1, <1>3 DEF UserRuns

LEMMA AloneStep ==
  ASSUME Disciplined, callers \in Callers, CountInv, NEW u \in Users, NEW from,
         NEW to \in {"idle", "on", "count", "off"}, Step(u, from, to)
  PROVE  /\ \A v, w \in Calling' : v = w
         /\ \A v \in Users : at'[v] # "idle" => v = u /\ at'[v] = to
<1>1. Calling \subseteq {u}
  BY Alone DEF Step
<1>2. at' = [at EXCEPT ![u] = to] /\ at \in [Users -> {"idle", "on", "count", "off"}]
  BY DEF Step, CountInv
<1>3. \A v \in Users : at'[v] # "idle" => v = u /\ at'[v] = to
  BY <1>1, <1>2 DEF Calling
<1> QED BY <1>1, <1>3 DEF Calling

LEMMA RunsStep == Disciplined /\ callers \in Callers /\ CountInv /\ RunsInv /\ [Next]_vars => RunsInv'
<1> SUFFICES ASSUME Disciplined, callers \in Callers, CountInv, RunsInv, [Next]_vars PROVE RunsInv'
  OBVIOUS
<1> USE DEF Starting
<1>1. ASSUME NEW u \in Users, Request(u) PROVE RunsInv'
  <2> DEFINE to == IF lfclk_on THEN "on" ELSE "off"
  <2>1. /\ Step(u, "idle", to) /\ to \in {"idle", "on", "count", "off"}
        /\ isr' = isr /\ lfclk_on' = lfclk_on /\ clk' = clk
        /\ ev_started' = ev_started /\ lfclk_requests' = lfclk_requests
    BY <1>1 DEF Request, m_clock_cb, clock, handler
  <2> HIDE DEF to
  <2>2. /\ \A v, w \in Calling' : v = w
        /\ \A v \in Users : at'[v] # "idle" => v = u /\ at'[v] = to
    BY <2>1, AloneStep
  <2>3. \A v \in Users : at'[v] \in {"on", "count"} => lfclk_on'
    BY <2>1, <2>2 DEF to
  <2> QED BY <2>1, <2>2, <2>3 DEF RunsInv
<1>2. ASSUME NEW u \in Users, Told(u) PROVE RunsInv'
  <2>1. /\ Step(u, "on", "count")
        /\ isr' = isr /\ lfclk_on' = lfclk_on /\ clk' = clk
        /\ ev_started' = ev_started /\ lfclk_requests' = lfclk_requests
    BY <1>2 DEF Told, m_clock_cb, clock, handler
  <2>2. \A v, w \in Calling' : v = w
    BY <2>1, AloneStep
  <2>3. lfclk_on
    BY <2>1 DEF Step, RunsInv
  <2> QED BY <2>1, <2>2, <2>3 DEF RunsInv
<1>3. ASSUME NEW u \in Users, Count(u) PROVE RunsInv'
  <2>1. /\ Step(u, "count", "idle")
        /\ isr' = isr /\ lfclk_on' = lfclk_on /\ clk' = clk /\ ev_started' = ev_started
    BY <1>3 DEF Count, clock, handler
  <2>2. \A v, w \in Calling' : v = w
    BY <2>1, AloneStep
  <2>3. lfclk_on
    BY <2>1 DEF Step, RunsInv
  <2> QED BY <2>1, <2>2, <2>3 DEF RunsInv
<1>4. ASSUME NEW u \in Users, Enqueue(u) PROVE RunsInv'
  <2>1. Step(u, "off", "idle") /\ isr' = isr /\ lfclk_on' = lfclk_on
    BY <1>4 DEF Enqueue, handler
  <2>2. /\ \A v, w \in Calling' : v = w
        /\ \A v \in Users : at'[v] # "idle" => at'[v] = "idle"
    BY <2>1, AloneStep
  <2>3. CASE lfclk_requests = 0
    <3>1. ev_started' = FALSE /\ clk' = IF clk = "off" THEN "starting" ELSE clk
      BY <1>4, <2>3 DEF Enqueue, lfclk_start
    <3> QED BY <2>1, <2>2, <3>1 DEF RunsInv
  <2>4. CASE lfclk_requests # 0
    <3>1. ev_started' = ev_started /\ clk' = clk
      BY <1>4, <2>4 DEF Enqueue, clock
    <3>2. lfclk_requests > 0
      BY <2>4, FS_Subset, FS_CardinalityType, ClockAssumption DEF CountInv
    <3> QED BY <2>1, <2>2, <3>1, <3>2 DEF RunsInv
  <2> QED BY <2>3, <2>4
<1>5. ASSUME NEW u \in Users, Release(u) PROVE RunsInv'
  <2>1. /\ UserRuns(u) /\ at[u] = "idle" /\ lfclk_on /\ at' = at
        /\ isr' = isr /\ ev_started' = ev_started
    BY <1>5 DEF Release, Disciplined, handler
  <2>2. Calling \subseteq {u}
    BY <2>1, Alone
  <2>3. Calling = {} /\ Calling' = {} /\ \A v \in Users : at'[v] = "idle"
    BY <2>1, <2>2 DEF Calling
  <2>4. ~ev_started /\ ~Starting
    BY <2>1 DEF RunsInv
  <2>5. CASE LastOne
    <3>1. clk' = "off" /\ lfclk_on' = FALSE /\ lfclk_requests' = 0
      BY <1>5, <2>5 DEF Release, Released, LastOne, lfclk_stop
    <3> QED BY <2>1, <2>3, <2>4, <3>1 DEF RunsInv
  <2>6. CASE ~LastOne
    <3>1. clk' = clk /\ lfclk_on' = lfclk_on
      BY <1>5, <2>6 DEF Release
    <3> QED BY <2>1, <2>3, <2>4, <3>1 DEF RunsInv
  <2> QED BY <2>5, <2>6
<1>6. CASE Settles
  <2>1. /\ clk = "starting" /\ clk' = "on" /\ lfclk_on' = lfclk_on /\ at' = at /\ isr' = isr
        /\ Calling' = Calling
    BY <1>6 DEF Settles, m_clock_cb, handler, Calling
  <2> QED BY <2>1 DEF RunsInv
<1>7. CASE POWER_CLOCK_IRQHandler
  <2>1. at' = at /\ Calling' = Calling /\ clk' = clk /\ lfclk_requests' = lfclk_requests
    BY <1>7 DEF POWER_CLOCK_IRQHandler, IrqStarted, IrqClear, IrqDisable, IrqOn,
                NotifyHead, NotifyCall, m_clock_cb, clock, Calling
  <2>2. \/ isr = "disabled" /\ lfclk_on' = TRUE /\ ev_started' = ev_started /\ isr' = "notify"
        \/ /\ lfclk_on' = lfclk_on /\ (ev_started' => ev_started)
           /\ Starting' => Starting \/ ev_started
           /\ isr' \in {"cleared", "disabled"} => ~ev_started' \/ isr = "cleared"
    BY <1>7 DEF POWER_CLOCK_IRQHandler, IrqStarted, IrqClear, IrqDisable, IrqOn,
                NotifyHead, NotifyCall, m_clock_cb, clock
  <2> QED BY <2>1, <2>2 DEF RunsInv
<1>8. CASE UNCHANGED vars
  BY <1>8 DEF RunsInv, Calling, vars, m_clock_cb, clock, handler
<1> QED BY <1>1, <1>2, <1>3, <1>4, <1>5, <1>6, <1>7, <1>8 DEF Next, Requesting

\* The callers stay what they are.
LEMMA CallersStay == [Next]_vars => callers' = callers /\ Disciplined' = Disciplined
<1>1. [Next]_vars => callers' = callers
  BY DEF Next, Settles, POWER_CLOCK_IRQHandler, IrqStarted, IrqClear, IrqDisable, IrqOn,
         NotifyHead, NotifyCall, Request, Requesting, Told, Count, Enqueue, Release, vars
<1> QED BY <1>1 DEF Disciplined, Level

LEMMA RunsInvariant == Spec => [](Disciplined => RunsInv)
<1> DEFINE Inv == callers \in Callers /\ (Disciplined => RunsInv)
<1>1. Init => Inv
  BY DEF Init, RunsInv, Calling, Starting
<1>2. CountInv /\ Inv /\ [Next]_vars => Inv'
  BY RunsStep, CallersStay
<1>3. Inv => (Disciplined => RunsInv)
  OBVIOUS
<1> QED BY <1>1, <1>2, <1>3, CountInvariant, PTL DEF Spec

\* Users of one level, however many and whichever level, have a requested clock
\* run or about to, wherever the handler preempts their calls or they the handler.
THEOREM RequestedClockRuns == Spec => []RunsWhenRequested
<1>1. (Disciplined => RunsInv) => RunsWhenRequested
  BY DEF RunsInv, Runs, RunsWhenRequested
<1> QED BY <1>1, RunsInvariant, PTL

\* For them lfclk_on is the state of the clock.
THEOREM OnMeansRunning == Spec => []OnIsRunning
<1>1. (Disciplined => RunsInv) => OnIsRunning
  BY DEF RunsInv, OnRuns, OnIsRunning
<1> QED BY <1>1, RunsInvariant, PTL
=============================================================================

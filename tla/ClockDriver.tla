---------------------------- MODULE ClockDriver ----------------------------
(***************************************************************************)
(* src/nrf/nrf_drv_clock.c, built without the SoftDevice and, the source   *)
(* being the crystal, without calibration: a clock that is started for its *)
(* first user and stopped after its last.  The definitions are those of    *)
(* the low-frequency clock; the driver has them a second time, word for    *)
(* word, for the high-frequency one.                                       *)
(*                                                                         *)
(* Users call from the main program and from interrupts.  A context is     *)
(* preempted by one of a higher level only; critical regions are single    *)
(* steps, and between the steps anything of a higher level may happen.     *)
(***************************************************************************)
EXTENDS Naturals, Sequences, FiniteSets, SequencesExt

CONSTANTS
  Users,          (* the callers, each with at most one request at a time    *)
  Items,          (* those of them that pass a handler item                  *)
  Callers         (* how they may call: from which levels, and whether one   *)
                  (* may release a clock that has not started yet            *)

IrqLevel == 1     \* POWER_CLOCK_IRQHandler

ASSUME ClockAssumption ==
  /\ IsFiniteSet(Users) /\ Items \subseteq Users
  /\ Callers \subseteq [level : [Users -> Nat], early : BOOLEAN]

VARIABLES
  lfclk_on, lfclk_requests, p_lf_head,   (* m_clock_cb, the list as a sequence *)
  clk, ev_started, int_enabled,          (* the CLOCK peripheral               *)
  callers,                               (* one of Callers, for good           *)
  at,                                    (* where a user's request is          *)
  isr, p_item,                           (* where the handler is               *)
  holds,                                 (* users with a request               *)
  owed                                   (* those whose handler is to be called *)

m_clock_cb == <<lfclk_on, lfclk_requests, p_lf_head>>
clock == <<clk, ev_started, int_enabled>>
handler == <<isr, p_item>>
vars == <<m_clock_cb, clock, callers, at, handler, holds, owed>>

Level(u) == callers.level[u]

None == "none"

-----------------------------------------------------------------------------
Init ==
  /\ lfclk_on = FALSE /\ lfclk_requests = 0 /\ p_lf_head = <<>>
  /\ clk = "off" /\ ev_started = FALSE /\ int_enabled = FALSE
  /\ callers \in Callers
  /\ at = [u \in Users |-> "idle"]
  /\ isr = "idle" /\ p_item = None
  /\ holds = {} /\ owed = {}

\* The oscillator has settled.
Settles ==
  /\ clk = "starting"
  /\ clk' = "on" /\ ev_started' = TRUE
  /\ UNCHANGED <<m_clock_cb, int_enabled, callers, at, handler, holds, owed>>

(***************************************************************************)
(* Who may run.                                                            *)
(***************************************************************************)
Calling == {u \in Users : at[u] # "idle"}

UserRuns(u) ==
  /\ \A v \in Calling \ {u} : Level(v) < Level(u)
  /\ isr # "idle" => IrqLevel < Level(u)

IrqRuns == \A v \in Calling : Level(v) < IrqLevel

Step(u, from, to) == at[u] = from /\ at' = [at EXCEPT ![u] = to] /\ UserRuns(u)

(***************************************************************************)
(* nrf_drv_clock_lfclk_request: lfclk_on is read first, outside the        *)
(* critical regions.                                                       *)
(***************************************************************************)
Request(u) ==
  /\ u \notin holds
  /\ Step(u, "idle", IF lfclk_on THEN "on" ELSE "off")
  /\ UNCHANGED <<m_clock_cb, clock, callers, handler, holds, owed>>

\* The clock is on: the handler is called from here, then the request counted.
Told(u) ==
  /\ Step(u, "on", "count")
  /\ UNCHANGED <<m_clock_cb, clock, callers, handler, holds, owed>>

NotCounted == UNCHANGED lfclk_requests                       \* mutant
Counted == lfclk_requests' = lfclk_requests + 1

Count(u) ==
  /\ Step(u, "count", "idle")
  /\ Counted
  /\ holds' = holds \cup {u}
  /\ UNCHANGED <<lfclk_on, p_lf_head, clock, callers, handler, owed>>

\* item_enqueue: at the head of the list, unless it is in it already.
item_enqueue(u) ==
  p_lf_head' = IF u \in Range(p_lf_head) THEN p_lf_head ELSE <<u>> \o p_lf_head

lfclk_start ==
  /\ ev_started' = FALSE /\ int_enabled' = TRUE
  /\ clk' = IF clk = "off" THEN "starting" ELSE clk

Enqueue(u) ==
  /\ Step(u, "off", "idle")
  /\ IF u \in Items THEN item_enqueue(u) /\ owed' = owed \cup {u}
                    ELSE UNCHANGED <<p_lf_head, owed>>
  /\ IF lfclk_requests = 0 THEN lfclk_start ELSE UNCHANGED clock
  /\ lfclk_requests' = lfclk_requests + 1
  /\ holds' = holds \cup {u}
  /\ UNCHANGED <<lfclk_on, callers, handler>>

(***************************************************************************)
(* nrf_drv_clock_lfclk_release.                                            *)
(***************************************************************************)
Released == lfclk_requests' = lfclk_requests - 1

LastButOne == lfclk_requests = 2                             \* mutant
LastOne == lfclk_requests = 1

\* lfclk_stop waits until the clock has stopped.
lfclk_stop_on == clk' = "off" /\ UNCHANGED lfclk_on          \* mutant
lfclk_stop == clk' = "off" /\ lfclk_on' = FALSE

Release(u) ==
  /\ u \in holds /\ at[u] = "idle" /\ UserRuns(u)
  /\ callers.early \/ lfclk_on
  /\ Released
  /\ IF LastOne THEN lfclk_stop ELSE UNCHANGED <<clk, lfclk_on>>
  /\ holds' = holds \ {u} /\ owed' = owed \ {u}
  /\ UNCHANGED <<p_lf_head, ev_started, int_enabled, callers, at, handler>>

-----------------------------------------------------------------------------
(***************************************************************************)
(* POWER_CLOCK_IRQHandler with clock_clk_started_notify.                   *)
(***************************************************************************)
IrqStarted ==
  /\ isr = "idle" /\ ev_started /\ int_enabled /\ IrqRuns
  /\ isr' = "started"
  /\ UNCHANGED <<m_clock_cb, clock, callers, at, p_item, holds, owed>>

\* nrf_clock_event_clear, nrf_clock_int_disable and lfclk_on = true.
IrqClear ==
  /\ isr = "started" /\ IrqRuns
  /\ ev_started' = FALSE /\ isr' = "cleared"
  /\ UNCHANGED <<m_clock_cb, clk, int_enabled, callers, at, p_item, holds, owed>>

IrqDisable ==
  /\ isr = "cleared" /\ IrqRuns
  /\ int_enabled' = FALSE /\ isr' = "disabled"
  /\ UNCHANGED <<m_clock_cb, clk, ev_started, callers, at, p_item, holds, owed>>

IrqOn ==
  /\ isr = "disabled" /\ IrqRuns
  /\ lfclk_on' = TRUE /\ isr' = "notify"
  /\ UNCHANGED <<lfclk_requests, p_lf_head, clock, callers, at, p_item, holds, owed>>

\* item_dequeue reads the head of the list ...
NotifyHead ==
  /\ isr = "notify" /\ IrqRuns
  /\ IF p_lf_head = <<>> THEN isr' = "idle" /\ UNCHANGED p_item
                         ELSE isr' = "dequeue" /\ p_item' = Head(p_lf_head)
  /\ UNCHANGED <<m_clock_cb, clock, callers, at, holds, owed>>

\* ... and makes its successor the head; then the handler is called.
NoNextItem(s, i) == <<>>                                     \* mutant
NextItem(s, i) ==
  LET k == CHOOSE j \in DOMAIN s : s[j] = i IN SubSeq(s, k + 1, Len(s))

NotifyCall ==
  /\ isr = "dequeue" /\ IrqRuns
  /\ p_lf_head' = NextItem(p_lf_head, p_item)
  /\ owed' = owed \ {p_item}
  /\ isr' = "notify" /\ p_item' = None
  /\ UNCHANGED <<lfclk_on, lfclk_requests, clock, callers, at, holds>>

POWER_CLOCK_IRQHandler ==
  IrqStarted \/ IrqClear \/ IrqDisable \/ IrqOn \/ NotifyHead \/ NotifyCall

-----------------------------------------------------------------------------
Requesting(u) == Told(u) \/ Count(u) \/ Enqueue(u)

Next ==
  \/ Settles \/ POWER_CLOCK_IRQHandler
  \/ \E u \in Users : Request(u) \/ Requesting(u) \/ Release(u)

Spec == Init /\ [][Next]_vars

\* The oscillator settles, interrupts are served, and a call that is not held
\* up by one ends.
FairSpec ==
  /\ Spec
  /\ WF_vars(Settles) /\ SF_vars(POWER_CLOCK_IRQHandler)
  /\ \A u \in Users : SF_vars(Requesting(u))

-----------------------------------------------------------------------------
(***************************************************************************)
(* Properties.                                                             *)
(***************************************************************************)
\* Type invariant.
TypeOK ==
  /\ {lfclk_on, ev_started, int_enabled} \subseteq BOOLEAN
  /\ lfclk_requests \in Nat
  /\ p_lf_head \in Seq(Items)
  /\ clk \in {"off", "starting", "on"}
  /\ at \in [Users -> {"idle", "on", "count", "off"}]
  /\ isr \in {"idle", "started", "cleared", "disabled", "notify", "dequeue"}
  /\ p_item \in Items \cup {None}
  /\ callers \in Callers
  /\ holds \subseteq Users /\ owed \subseteq Items

\* The count is exact though calls and the handler preempt one another, from
\* whatever levels, and clocks are released before they are on: the code counts
\* in critical regions, but after it has looked at lfclk_on and called a handler.
CountExact == lfclk_requests = Cardinality(holds)

\* All users call from one level, whichever that is, and release a clock
\* that is on.  Nothing in the code asks for either (README).
Disciplined ==
  /\ \A u, v \in Users : Level(u) = Level(v)
  /\ ~callers.early

Runs == lfclk_requests > 0 => clk # "off"        \* refuted by hand, as it stands

\* nrf_drv_clock.h: "The first request will start the selected LFCLK source."
\* As long as anyone holds a request the clock runs or is about to, though the
\* STARTED interrupt may come anywhere in a call from a lower level, and a call
\* from a higher level anywhere in the handler.
RunsWhenRequested == Disciplined => Runs

OnRuns == lfclk_on => clk = "on"                 \* refuted by hand, as it stands

\* nrf_drv_clock.c: lfclk_on is the "Low-frequency clock state".  No stop is
\* overtaken by the handler of the start before it.
OnIsRunning == Disciplined => OnRuns

\* nrf_drv_clock.h: "If an event handler is provided, it will be called once
\* the LFCLK is started."  Refuted by hand.
AllTold == \A u \in Users : u \in owed ~> u \notin owed

\* u's handler is queued and the clock not marked as on; the callers do not
\* interrupt the handler.
Waits(u) ==
  /\ u \in owed /\ ~lfclk_on
  /\ Disciplined /\ Level(u) <= IrqLevel

\* What is true of it: who has queued its handler before the handler of the
\* interrupt marks the clock as on is told, whatever calls are interrupted
\* half-way (line 257 is read outside the critical region); for callers that do
\* not themselves interrupt that handler.
ToldInTime == \A u \in Items : Waits(u) ~> u \notin owed
=============================================================================

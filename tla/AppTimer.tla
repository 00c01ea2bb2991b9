------------------------------ MODULE AppTimer ------------------------------
(***************************************************************************)
(* src/nrf/app_timer.c: software timers multiplexed on the RTC1 counter.   *)
(*                                                                         *)
(* Three contexts work on the timers:                                      *)
(*   - the main program calls app_timer_start/stop/stop_all, which queue   *)
(*     an operation and pend the SWI interrupt;                            *)
(*   - RTC1_IRQHandler walks the list of running timers, calls the timeout *)
(*     handlers of those that expired, leaves the list alone, and queues   *)
(*     the ticks it consumed for the SWI;                                  *)
(*   - SWI_IRQHandler alone changes the list: it removes what expired,     *)
(*     restarts periodic timers, applies the queued operations and programs*)
(*     the compare register.                                               *)
(* Both interrupts have the same priority, so neither interrupts the other *)
(* and RTC1, which has the lower number, goes first.  The counter ticks    *)
(* between any two steps.                                                  *)
(*                                                                         *)
(* The list of running timers is a sequence; ticks_to_expire of an element *)
(* is relative to the element before it, that of the head to m_ticks_latest.*)
(* The operation queue is the bounded FIFO that TimerOpQueueProofs shows   *)
(* the ring buffer to be.                                                  *)
(***************************************************************************)
EXTENDS Integers, Sequences, FiniteSets, SequencesExt

CONSTANTS
  Timers,                       (* timer_node_t objects                              *)
  NULL,                         (* no timer                                          *)
  MAX_RTC_COUNTER_VAL,          (* the counter runs from 0 to this and wraps         *)
  RTC_COMPARE_OFFSET_MIN,       (* least distance of CC[0] from the counter          *)
  APP_TIMER_MIN_TIMEOUT_TICKS,  (* least timeout app_timer_start accepts             *)
  OpQueueSize,                  (* APP_TIMER_CONFIG_OP_QUEUE_SIZE                    *)
  ModesOf,                      (* the modes each timer may be created with          *)
  TimeoutsOf,                   (* the timeout_ticks the application asks for        *)
  MaxLatency,                   (* ticks an interrupt may stay pending or running    *)
  RestartRunning,               (* the application starts timers that are running    *)
  StartsLate,                   (* ... or starts timers when m_ticks_latest is old    *)
  UsesStopAll                   (* where app_timer_stop_all is called: in the main   *)
                                (* program, in its critical regions, in handlers     *)

ASSUME NullAssumption == NULL \notin Timers
ASSUME TicksAssumption ==
  /\ MAX_RTC_COUNTER_VAL \in Nat \ {0}
  /\ RTC_COMPARE_OFFSET_MIN \in Nat \ {0, 1}
  /\ APP_TIMER_MIN_TIMEOUT_TICKS \in Nat \ {0}
  /\ MaxLatency \in Nat
  /\ TimeoutsOf \in [Timers -> SUBSET (APP_TIMER_MIN_TIMEOUT_TICKS .. MAX_RTC_COUNTER_VAL)]
ASSUME QueueAssumption == OpQueueSize \in Nat
ASSUME ModeAssumption == ModesOf \in [Timers -> SUBSET {"REPEATED", "SINGLE_SHOT"}]
ASSUME ClientAssumption ==
  /\ RestartRunning \in BOOLEAN /\ StartsLate \in BOOLEAN
  /\ UsesStopAll \subseteq {"main", "critical", "handler"}

VARIABLES
  \* RTC1 and the interrupt controller
  counter,          (* NRF_RTC1->COUNTER                                             *)
  cc,               (* NRF_RTC1->CC[0]                                               *)
  cc_missed,        (* CC[0] was set so close to the counter that the next match is lost *)
  rtc_pending,      (* RTC1_IRQn pending                                             *)
  swi_pending,      (* SWI0_IRQn pending                                             *)
  masked,           (* interrupts disabled by the main program (CRITICAL_REGION)     *)
  late,             (* ticks since the interrupts were last all served               *)
  \* app_timer.c
  list,             (* the timers reachable from mp_timer_id_head                    *)
  ticks_to_expire,
  ticks_periodic_interval,
  is_running,
  mode,             (* "none" until app_timer_create                                 *)
  m_op_queue,       (* waiting operations                                            *)
  m_ticks_latest,
  m_ticks_elapsed,  (* ticks RTC1 queued for the SWI, NONE when read and write index agree *)
  m_rtc1_running,
  m_rtc1_reset,
  \* local state of the three contexts
  thread,           (* where the main program is inside an app_timer call            *)
  isr,              (* which handler runs and where                                  *)
  loc,              (* local variables of the running handler                        *)
  \* what the application knows, and how much time really is left
  started,          (* timers the application started and that did not end           *)
  remain            (* ticks until each listed timer is really due                   *)

rtcVars    == <<counter, cc, cc_missed, rtc_pending, m_rtc1_running>>
listVars   == <<list, ticks_to_expire, ticks_periodic_interval>>
vars == <<rtcVars, swi_pending, masked, late, listVars, is_running, mode, m_op_queue,
          m_ticks_latest, m_ticks_elapsed, m_rtc1_reset, thread, isr, loc, started, remain>>

-----------------------------------------------------------------------------
NONE == -1
W == MAX_RTC_COUNTER_VAL + 1
Counts == 0 .. MAX_RTC_COUNTER_VAL

\* ticks_diff_get: the distance from one counter value to a later one.
TicksDiff(now, old) == (now - old) % W

HeadTimer == IF list = <<>> THEN NULL ELSE Head(list)
\* ticks_to_expire summed up to the i-th timer: when it is due, counted from m_ticks_latest.
DueAt[i \in 0 .. Len(list)] ==
  IF i = 0 THEN 0 ELSE DueAt[i - 1] + ticks_to_expire[list[i]]
\* Where the walk of timer_list_insert() stops: at the first timer due no earlier.
Place(ticks) == Cardinality({i \in 1 .. Len(list) : DueAt[i] < ticks}) + 1
IndexOf(t) == CHOOSE i \in 1 .. Len(list) : list[i] = t

Idle == "idle"
NoLoc == [at |-> 0, previous |-> 0, elapsed |-> 0, expired |-> 0, restart |-> <<>>,
          update |-> FALSE, old_head |-> NULL, timer |-> NULL, pre |-> 0]

\* Timers with a deadline: listed, or about to be restarted.
Armed == ToSet(list) \cup {loc.restart[i].node : i \in DOMAIN loc.restart}

\* Interrupts that may be taken; RTC1_IRQn is disabled while the RTC is stopped.
RtcIrq == rtc_pending /\ m_rtc1_running
Busy == isr # Idle \/ RtcIrq \/ swi_pending \/ thread.pc # Idle
\* The main program executes: no handler runs and none is about to.
ThreadRuns == isr = Idle /\ (masked \/ ~(RtcIrq \/ swi_pending))

StartOp(t, T) ==
  [type |-> "START", node |-> t, at |-> counter, first |-> T,
   periodic |-> IF mode[t] = "REPEATED" THEN T ELSE 0, due |-> T]
StopOp(type, t) == [type |-> type, node |-> t]
HasRoom == Len(m_op_queue) < OpQueueSize

-----------------------------------------------------------------------------
\* app_timer_init() has run.
Init ==
  /\ counter = 0 /\ cc = 0 /\ cc_missed = FALSE
  /\ rtc_pending = FALSE /\ swi_pending = FALSE /\ masked = FALSE /\ late = 0
  /\ list = <<>>
  /\ ticks_to_expire = [t \in Timers |-> 0]
  /\ ticks_periodic_interval = [t \in Timers |-> 0]
  /\ is_running = [t \in Timers |-> FALSE]
  /\ mode = [t \in Timers |-> "none"]
  /\ m_op_queue = <<>> /\ m_ticks_latest = 0 /\ m_ticks_elapsed = NONE
  /\ m_rtc1_running = FALSE /\ m_rtc1_reset = FALSE
  /\ thread = [pc |-> Idle] /\ isr = Idle /\ loc = NoLoc
  /\ started = {}
  /\ remain = [t \in Timers |-> 0]

-----------------------------------------------------------------------------
(***************************************************************************)
(* The hardware.                                                           *)
(***************************************************************************)
\* MaxLatency bounds how long the software makes interrupts wait; the list it
\* works on would otherwise be older than the counter's range.
MayTick == Busy => late < MaxLatency

\* One period of the 32 kHz clock.  The COMPARE event comes when the counter
\* reaches CC[0].
Tick ==
  /\ MayTick
  /\ late' = IF Busy THEN late + 1 ELSE 0
  /\ remain' = [t \in Timers |-> IF t \in Armed /\ remain[t] > -W THEN remain[t] - 1
                                 ELSE remain[t]]
  /\ m_op_queue' = [i \in DOMAIN m_op_queue |->
                      IF m_op_queue[i].type = "START"
                      THEN [m_op_queue[i] EXCEPT !.due = @ - 1] ELSE m_op_queue[i]]
  /\ IF m_rtc1_running
     THEN LET match == (counter + 1) % W = cc
          IN  /\ counter' = (counter + 1) % W
              /\ rtc_pending' = (rtc_pending \/ (match /\ ~cc_missed))
              /\ cc_missed' = (cc_missed /\ ~match)
     ELSE UNCHANGED <<counter, rtc_pending, cc_missed>>
  /\ UNCHANGED <<cc, m_rtc1_running, swi_pending, masked, listVars, is_running, mode,
                 m_ticks_latest, m_ticks_elapsed, m_rtc1_reset, thread, isr, loc, started>>

\* A write of CC[0]: with the value COUNTER + 1 the event may not come.
SetCompare(value) ==
  /\ cc' = value
  /\ cc_missed' \in (IF value = (counter + 1) % W THEN BOOLEAN ELSE {FALSE})

-----------------------------------------------------------------------------
(***************************************************************************)
(* Calls from the main program.                                            *)
(***************************************************************************)
\* A critical region of the main program (LedModule::updateLeds has one).
EnterCritical ==
  /\ ThreadRuns /\ ~masked /\ thread.pc = Idle
  /\ masked' = TRUE
  /\ UNCHANGED <<rtcVars, swi_pending, late, listVars, is_running, mode, m_op_queue,
                 m_ticks_latest, m_ticks_elapsed, m_rtc1_reset, thread, isr, loc, started, remain>>

ExitCritical ==
  /\ masked /\ thread.pc = Idle
  /\ masked' = FALSE
  /\ UNCHANGED <<rtcVars, swi_pending, late, listVars, is_running, mode, m_op_queue,
                 m_ticks_latest, m_ticks_elapsed, m_rtc1_reset, thread, isr, loc, started, remain>>

\* app_timer_create(): refused while is_running.
Create(t) ==
  /\ ThreadRuns /\ thread.pc = Idle
  /\ ~is_running[t]
  /\ \E m \in ModesOf[t] : mode' = [mode EXCEPT ![t] = m]
  /\ UNCHANGED <<rtcVars, swi_pending, masked, late, listVars, is_running, m_op_queue,
                 m_ticks_latest, m_ticks_elapsed, m_rtc1_reset, thread, isr, loc, started, remain>>

\* The application's own rules: it starts only timers that are not started
\* already, and not when the last expiry, which is all that moves
\* m_ticks_latest on, lies half the counter's range back.
MayStart(t) ==
  /\ mode[t] # "none"
  /\ RestartRunning \/ t \notin started
  /\ StartsLate \/ TicksDiff(counter, m_ticks_latest) < MAX_RTC_COUNTER_VAL \div 2

\* app_timer_start() up to CRITICAL_REGION_EXIT in timer_start_op_schedule().
StartQueue(t, T) ==
  /\ ThreadRuns /\ thread.pc = Idle
  /\ MayStart(t) /\ HasRoom
  /\ m_op_queue' = Append(m_op_queue, StartOp(t, T))
  /\ started' = started \cup {t}
  /\ thread' = [pc |-> "sched", stopping |-> {}]
  /\ UNCHANGED <<rtcVars, swi_pending, masked, late, listVars, is_running, mode,
                 m_ticks_latest, m_ticks_elapsed, m_rtc1_reset, isr, loc, remain>>

\* app_timer_stop(): is_running is cleared before the operation is queued.
StopClear(t) ==
  /\ ThreadRuns /\ thread.pc = Idle
  /\ mode[t] # "none"
  /\ is_running' = [is_running EXCEPT ![t] = FALSE]
  /\ thread' = [pc |-> "stop", node |-> t]
  /\ UNCHANGED <<rtcVars, swi_pending, masked, late, listVars, mode, m_op_queue,
                 m_ticks_latest, m_ticks_elapsed, m_rtc1_reset, isr, loc, started, remain>>

\* timer_stop_op_schedule(); with the queue full app_timer_stop returns NRF_ERROR_NO_MEM.
StopQueue ==
  /\ ThreadRuns /\ thread.pc = "stop"
  /\ \/ /\ HasRoom
        /\ m_op_queue' = Append(m_op_queue, StopOp("STOP", thread.node))
        /\ started' = started \ {thread.node}
        /\ thread' = [pc |-> "sched", stopping |-> {thread.node}]
     \/ /\ ~HasRoom
        /\ thread' = [pc |-> Idle]
        /\ UNCHANGED <<m_op_queue, started>>
  /\ UNCHANGED <<rtcVars, swi_pending, masked, late, listVars, is_running, mode,
                 m_ticks_latest, m_ticks_elapsed, m_rtc1_reset, isr, loc, remain>>

\* app_timer_stop_all() up to CRITICAL_REGION_EXIT.
StopAllQueue ==
  /\ (IF masked THEN "critical" ELSE "main") \in UsesStopAll
  /\ ThreadRuns /\ thread.pc = Idle /\ HasRoom
  /\ m_op_queue' = Append(m_op_queue, StopOp("STOP_ALL", NULL))
  /\ started' = {}
  /\ thread' = [pc |-> "sched", stopping |-> started]
  /\ UNCHANGED <<rtcVars, swi_pending, masked, late, listVars, is_running, mode,
                 m_ticks_latest, m_ticks_elapsed, m_rtc1_reset, isr, loc, remain>>

\* timer_list_handler_sched().
Sched ==
  /\ ThreadRuns /\ thread.pc = "sched"
  /\ swi_pending' = TRUE
  /\ thread' = [thread EXCEPT !.pc = "return"]
  /\ UNCHANGED <<rtcVars, masked, late, listVars, is_running, mode, m_op_queue,
                 m_ticks_latest, m_ticks_elapsed, m_rtc1_reset, isr, loc, started, remain>>

\* The call returns NRF_SUCCESS; outside a critical region the SWI has run before.
Return ==
  /\ ThreadRuns /\ thread.pc = "return"
  /\ thread' = [pc |-> Idle]
  /\ UNCHANGED <<rtcVars, swi_pending, masked, late, listVars, is_running, mode, m_op_queue,
                 m_ticks_latest, m_ticks_elapsed, m_rtc1_reset, isr, loc, started, remain>>

-----------------------------------------------------------------------------
(***************************************************************************)
(* RTC1_IRQHandler: timer_timeouts_check().                                *)
(***************************************************************************)
RtcEnter ==
  /\ isr = Idle /\ ~masked /\ RtcIrq
  /\ rtc_pending' = FALSE
  /\ IF list = <<>>
     THEN UNCHANGED <<isr, loc>>
     ELSE /\ isr' = "rtc"
          /\ loc' = [NoLoc EXCEPT !.elapsed = TicksDiff(counter, m_ticks_latest), !.at = 1]
  /\ UNCHANGED <<counter, cc, cc_missed, m_rtc1_running, swi_pending, masked, late, listVars,
                 is_running, mode, m_op_queue, m_ticks_latest, m_ticks_elapsed, m_rtc1_reset,
                 thread, started, remain>>

\* The timer the walk has reached has expired.
Expired(t) == loc.elapsed >= ticks_to_expire[t]

\* Its timeout handler is called, unless is_running was cleared meanwhile.
MustCallAlways(t) == TRUE                      \* mutant
MustCall(t) == is_running[t]

RtcExpire ==
  /\ isr = "rtc" /\ loc.at <= Len(list)
  /\ LET t == list[loc.at]
     IN  /\ Expired(t)
         /\ loc' = [loc EXCEPT !.elapsed = @ - ticks_to_expire[t],
                               !.expired = @ + ticks_to_expire[t],
                               !.at = @ + 1,
                               !.timer = IF MustCall(t) THEN t ELSE NULL]
         /\ is_running' = [is_running EXCEPT ![t] = FALSE]
         /\ isr' = IF MustCall(t) THEN "timeout_handler" ELSE "rtc"
         /\ started' = IF MustCall(t) /\ ticks_periodic_interval[t] = 0
                       THEN started \ {t} ELSE started
  /\ UNCHANGED <<rtcVars, swi_pending, masked, late, listVars, mode, m_op_queue,
                 m_ticks_latest, m_ticks_elapsed, m_rtc1_reset, thread, remain>>

\* The rest of the list is not due: the consumed ticks go to the SWI.
RtcExit ==
  /\ isr = "rtc"
  /\ loc.at <= Len(list) => ~Expired(list[loc.at])
  /\ m_ticks_elapsed' = loc.expired
  /\ swi_pending' = TRUE
  /\ isr' = Idle
  /\ loc' = NoLoc
  /\ UNCHANGED <<rtcVars, masked, late, listVars, is_running, mode, m_op_queue,
                 m_ticks_latest, m_rtc1_reset, thread, started, remain>>

\* What a timeout handler may call.  Nothing runs between the steps of a call.
HandlerStart(t, T) ==
  /\ isr = "timeout_handler"
  /\ MayStart(t) /\ HasRoom
  /\ m_op_queue' = Append(m_op_queue, StartOp(t, T))
  /\ swi_pending' = TRUE
  /\ started' = started \cup {t}
  /\ UNCHANGED <<rtcVars, masked, late, listVars, is_running, mode,
                 m_ticks_latest, m_ticks_elapsed, m_rtc1_reset, thread, isr, loc, remain>>

HandlerStop(t) ==
  /\ isr = "timeout_handler"
  /\ mode[t] # "none"
  /\ is_running' = [is_running EXCEPT ![t] = FALSE]
  /\ \/ /\ HasRoom
        /\ m_op_queue' = Append(m_op_queue, StopOp("STOP", t))
        /\ swi_pending' = TRUE
        /\ started' = started \ {t}
     \/ /\ ~HasRoom
        /\ UNCHANGED <<m_op_queue, swi_pending, started>>
  /\ UNCHANGED <<rtcVars, masked, late, listVars, mode,
                 m_ticks_latest, m_ticks_elapsed, m_rtc1_reset, thread, isr, loc, remain>>

HandlerStopAll ==
  /\ "handler" \in UsesStopAll
  /\ isr = "timeout_handler" /\ HasRoom
  /\ m_op_queue' = Append(m_op_queue, StopOp("STOP_ALL", NULL))
  /\ swi_pending' = TRUE
  /\ started' = {}
  /\ UNCHANGED <<rtcVars, masked, late, listVars, is_running, mode,
                 m_ticks_latest, m_ticks_elapsed, m_rtc1_reset, thread, isr, loc, remain>>

HandlerReturn ==
  /\ isr = "timeout_handler"
  /\ isr' = "rtc"
  /\ loc' = [loc EXCEPT !.timer = NULL]
  /\ UNCHANGED <<rtcVars, swi_pending, masked, late, listVars, is_running, mode, m_op_queue,
                 m_ticks_latest, m_ticks_elapsed, m_rtc1_reset, thread, started, remain>>

-----------------------------------------------------------------------------
(***************************************************************************)
(* SWI_IRQHandler: timer_list_handler().                                   *)
(***************************************************************************)
\* Entry, with elapsed_ticks_acquire().
SwiEnter ==
  /\ isr = Idle /\ ~masked /\ swi_pending /\ ~RtcIrq
  /\ swi_pending' = FALSE
  /\ m_ticks_elapsed' = NONE
  /\ IF m_ticks_elapsed # NONE
     THEN /\ m_ticks_latest' = (m_ticks_latest + m_ticks_elapsed) % W
          /\ loc' = [NoLoc EXCEPT !.elapsed = m_ticks_elapsed,
                                  !.previous = m_ticks_latest,
                                  !.update = TRUE]
          /\ isr' = "expired_timers"
     ELSE /\ loc' = [NoLoc EXCEPT !.old_head = HeadTimer]
          /\ isr' = "list_insertions"
          /\ UNCHANGED m_ticks_latest
  /\ UNCHANGED <<rtcVars, masked, late, listVars, is_running, mode, m_op_queue,
                 m_rtc1_reset, thread, started, remain>>

\* Only a periodic timer is restarted.
RestartsNever(t) == FALSE                      \* mutant
Restarts(t) == ticks_periodic_interval[t] # 0

\* expired_timers_handler(): the head has expired; it leaves the list and, if
\* periodic, goes to the front of the restart list, due one period later.
SwiExpire ==
  /\ isr = "expired_timers" /\ list # <<>>
  /\ LET t == Head(list)
         sum == loc.expired + ticks_to_expire[t]
     IN  /\ Expired(t)
         /\ loc' = [loc EXCEPT !.elapsed = @ - ticks_to_expire[t],
                               !.expired = sum,
                               !.restart = IF Restarts(t)
                                           THEN <<[node |-> t, at |-> (loc.previous + sum) % W]>> \o @
                                           ELSE @]
         /\ ticks_to_expire' = [ticks_to_expire EXCEPT ![t] = 0]
         /\ list' = Tail(list)
         /\ remain' = [remain EXCEPT ![t] = IF Restarts(t) THEN @ + ticks_periodic_interval[t] ELSE 0]
  /\ UNCHANGED <<rtcVars, swi_pending, masked, late, ticks_periodic_interval, is_running, mode,
                 m_op_queue, m_ticks_latest, m_ticks_elapsed, m_rtc1_reset, thread, isr, started>>

\* The head, if any, has not expired; it comes nearer by the ticks left over.
SwiExpireDone ==
  /\ isr = "expired_timers"
  /\ list # <<>> => ~Expired(Head(list))
  /\ ticks_to_expire' = IF list = <<>> THEN ticks_to_expire
                        ELSE [ticks_to_expire EXCEPT ![Head(list)] = @ - loc.elapsed]
  /\ isr' = "list_insertions"
  /\ loc' = [loc EXCEPT !.elapsed = 0, !.expired = 0, !.previous = 0,
                        !.old_head = HeadTimer]
  /\ UNCHANGED <<rtcVars, swi_pending, masked, late, list, ticks_periodic_interval, is_running,
                 mode, m_op_queue, m_ticks_latest, m_ticks_elapsed, m_rtc1_reset, thread,
                 started, remain>>

\* Ticks from m_ticks_latest to the expiry of a timer started at `at` for
\* `first` ticks: `at` counts as later than m_ticks_latest when it is less
\* than half the counter's range ahead, else as earlier.
TicksToExpireFromLatest(at, first) == first    \* mutant
TicksToExpire(at, first) ==
  IF TicksDiff(at, m_ticks_latest) < MAX_RTC_COUNTER_VAL \div 2
  THEN TicksDiff(at, m_ticks_latest) + first
  ELSE IF first > TicksDiff(m_ticks_latest, at)
       THEN first - TicksDiff(m_ticks_latest, at)
       ELSE 0

\* timer_list_insert().  A timer that is in the list already is linked to itself
\* there; the list is lost and the handlers loop on it for ever.
Insert(t, ticks) ==
  LET pos == Place(ticks)
      own == ticks - DueAt[pos - 1]
      moved == [ticks_to_expire EXCEPT ![t] = own]
  IN  IF t \in ToSet(list)
      THEN /\ isr' = "lost"
           /\ UNCHANGED <<list, ticks_to_expire>>
      ELSE /\ list' = InsertAt(list, pos, t)
           /\ ticks_to_expire' = IF pos > Len(list) THEN moved
                                 ELSE [moved EXCEPT ![list[pos]] = @ - own]
           /\ UNCHANGED isr

\* list_insertions_handler(): a periodic timer starts its next period.
SwiRestart ==
  /\ isr = "list_insertions" /\ loc.restart # <<>>
  /\ LET r == Head(loc.restart)
     IN  /\ Insert(r.node, TicksToExpire(r.at, ticks_periodic_interval[r.node]))
         /\ is_running' = [is_running EXCEPT ![r.node] = TRUE]
  /\ loc' = [loc EXCEPT !.restart = Tail(@)]
  /\ UNCHANGED <<rtcVars, swi_pending, masked, late, ticks_periodic_interval, mode, m_op_queue,
                 m_ticks_latest, m_ticks_elapsed, m_rtc1_reset, thread, started, remain>>

\* The next queued operation, once no timer waits to be restarted.
Dequeue(type) ==
  /\ isr = "list_insertions" /\ loc.restart = <<>>
  /\ m_op_queue # <<>>
  /\ Head(m_op_queue).type = type
  /\ m_op_queue' = Tail(m_op_queue)

\* START of a timer that is running is ignored; after a reset of the counter
\* the timer counts from 0.
SwiStart ==
  /\ Dequeue("START")
  /\ LET op == Head(m_op_queue)
         t == op.node
     IN  IF is_running[t]
         THEN UNCHANGED <<isr, listVars, is_running, remain>>
         ELSE /\ Insert(t, TicksToExpire(IF m_rtc1_reset THEN 0 ELSE op.at, op.first))
              /\ ticks_periodic_interval' = [ticks_periodic_interval EXCEPT ![t] = op.periodic]
              /\ is_running' = [is_running EXCEPT ![t] = TRUE]
              /\ remain' = [remain EXCEPT ![t] = op.due]
  /\ UNCHANGED <<rtcVars, swi_pending, masked, late, mode, m_ticks_latest, m_ticks_elapsed,
                 m_rtc1_reset, thread, loc, started>>

\* Whether timer_list_remove() finds the timer, and what it hands to the timer behind.
FoundIfRunning(t) == is_running[t]             \* mutant
Found(t) == t \in ToSet(list)
HandsOverNothing(t) == 0                       \* mutant
HandsOver(t) == ticks_to_expire[t]

\* STOP: timer_list_remove().  The timer behind takes over the ticks.  With
\* the last timer gone the counter is cleared at once.
SwiStop ==
  /\ Dequeue("STOP")
  /\ LET t == Head(m_op_queue).node
         i == IndexOf(t)
     IN  /\ is_running' = [is_running EXCEPT ![t] = FALSE]
         /\ IF ~Found(t)
            THEN UNCHANGED <<list, ticks_to_expire, loc, counter, m_ticks_latest,
                             m_rtc1_reset, remain>>
            ELSE /\ list' = RemoveAt(list, i)
                 /\ ticks_to_expire' = IF i = Len(list) THEN ticks_to_expire
                      ELSE [ticks_to_expire EXCEPT ![list[i + 1]] = @ + HandsOver(t)]
                 /\ loc' = [loc EXCEPT !.update = @ \/ i = 1]
                 /\ remain' = [remain EXCEPT ![t] = 0]
                 /\ IF Len(list) = 1
                    THEN counter' = 0 /\ m_ticks_latest' = 0 /\ m_rtc1_reset' = TRUE
                    ELSE UNCHANGED <<counter, m_ticks_latest, m_rtc1_reset>>
  /\ UNCHANGED <<cc, cc_missed, rtc_pending, m_rtc1_running, swi_pending, masked, late,
                 ticks_periodic_interval, mode, m_ticks_elapsed, thread, isr, started>>

\* STOP_ALL empties the list; the counter is not cleared.
SwiStopAll ==
  /\ Dequeue("STOP_ALL")
  /\ list' = <<>>
  /\ is_running' = [t \in Timers |-> IF t \in ToSet(list) THEN FALSE ELSE is_running[t]]
  /\ remain' = [t \in Timers |-> IF t \in ToSet(list) THEN 0 ELSE remain[t]]
  /\ UNCHANGED <<rtcVars, swi_pending, masked, late, ticks_to_expire, ticks_periodic_interval,
                 mode, m_ticks_latest, m_ticks_elapsed, m_rtc1_reset, thread, isr, loc, started>>

\* The loop of list_insertions_handler ends when no timer and no operation is left.
NoRestartLeft == loc.restart = <<>>            \* mutant
NothingLeft == loc.restart = <<>> /\ m_op_queue = <<>>
\* Whether compare_reg_update() is called.
CompareStaleOnRequest == loc.update            \* mutant
CompareStale == loc.update \/ HeadTimer # loc.old_head

\* All operations done: the compare register is updated if ticks elapsed, a
\* removal asked for it or the head is another one than before.
SwiListDone ==
  /\ isr = "list_insertions" /\ NothingLeft
  /\ IF CompareStale
     THEN isr' = "compare" /\ loc' = NoLoc /\ UNCHANGED m_rtc1_reset
     ELSE isr' = Idle /\ loc' = NoLoc /\ m_rtc1_reset' = FALSE
  /\ UNCHANGED <<rtcVars, swi_pending, masked, late, listVars, is_running, mode, m_op_queue,
                 m_ticks_latest, m_ticks_elapsed, thread, started, remain>>

\* compare_reg_update(): without timers the RTC is stopped and cleared, else
\* it is started if necessary.  rtc1_start() clears the pending interrupt but
\* not the event that caused it.
SwiCompare ==
  /\ isr = "compare"
  /\ IF list = <<>>
     THEN /\ m_rtc1_running' = FALSE /\ counter' = 0 /\ m_ticks_latest' = 0
          /\ isr' = Idle /\ loc' = NoLoc /\ m_rtc1_reset' = FALSE
          /\ UNCHANGED rtc_pending
     ELSE /\ m_rtc1_running' = TRUE
          /\ rtc_pending' \in (IF m_rtc1_running THEN {rtc_pending} ELSE {FALSE, rtc_pending})
          /\ isr' = "set_compare" /\ loc' = [NoLoc EXCEPT !.pre = counter]
          /\ UNCHANGED <<counter, m_ticks_latest, m_rtc1_reset>>
  /\ UNCHANGED <<cc, cc_missed, swi_pending, masked, late, listVars, is_running, mode, m_op_queue,
                 m_ticks_elapsed, thread, started, remain>>

\* The head's expiry, or the soonest the compare register allows.
CompareValue ==
  LET soonest == TicksDiff(loc.pre, m_ticks_latest) + RTC_COMPARE_OFFSET_MIN
      due == ticks_to_expire[Head(list)]
  IN  (m_ticks_latest + (IF soonest < due THEN due ELSE soonest)) % W

SwiSetCompare ==
  /\ isr = "set_compare"
  /\ SetCompare(CompareValue)
  /\ isr' = "check_compare"
  /\ UNCHANGED <<counter, rtc_pending, m_rtc1_running, swi_pending, masked, late, listVars,
                 is_running, mode, m_op_queue, m_ticks_latest, m_ticks_elapsed, m_rtc1_reset,
                 thread, loc, started, remain>>

TooClose == TicksDiff(counter, loc.pre) + RTC_COMPARE_OFFSET_MIN > TicksDiff(cc, loc.pre)

\* If the counter came too close to CC[0] meanwhile, the RTC1 interrupt is
\* pended by hand.
SwiCheckCompare ==
  /\ isr = "check_compare"
  /\ IF TooClose
     THEN SetCompare(counter) /\ rtc_pending' = TRUE
     ELSE UNCHANGED <<cc, cc_missed, rtc_pending>>
  /\ isr' = Idle /\ loc' = NoLoc /\ m_rtc1_reset' = FALSE
  /\ UNCHANGED <<counter, m_rtc1_running, swi_pending, masked, late, listVars, is_running, mode,
                 m_op_queue, m_ticks_latest, m_ticks_elapsed, thread, started, remain>>

-----------------------------------------------------------------------------
Thread ==
  \/ EnterCritical \/ ExitCritical
  \/ StopQueue \/ StopAllQueue \/ Sched \/ Return
  \/ \E t \in Timers :
       \/ Create(t)
       \/ StopClear(t)
       \/ \E T \in TimeoutsOf[t] : StartQueue(t, T)

TimeoutHandler ==
  \/ HandlerStopAll
  \/ HandlerReturn
  \/ \E t \in Timers :
       \/ HandlerStop(t)
       \/ \E T \in TimeoutsOf[t] : HandlerStart(t, T)

Rtc == RtcEnter \/ RtcExpire \/ RtcExit

Swi ==
  \/ SwiEnter \/ SwiExpire \/ SwiExpireDone \/ SwiRestart
  \/ SwiStart \/ SwiStop \/ SwiStopAll \/ SwiListDone
  \/ SwiCompare \/ SwiSetCompare \/ SwiCheckCompare

Next == Tick \/ Thread \/ TimeoutHandler \/ Rtc \/ Swi

Spec == Init /\ [][Next]_vars

\* What the schedule of the program guarantees: the clock runs, a pended
\* interrupt is served, a timeout handler returns, and the main program
\* finishes a call it is in and leaves its critical regions.
Fairness ==
  /\ SF_vars(Tick)
  /\ WF_vars(Rtc) /\ WF_vars(Swi) /\ WF_vars(HandlerReturn)
  /\ WF_vars(StopQueue) /\ WF_vars(Sched) /\ WF_vars(Return)
  /\ SF_vars(ExitCritical)

FairSpec == Spec /\ Fairness

-----------------------------------------------------------------------------
(***************************************************************************)
(* Properties.                                                             *)
(***************************************************************************)
\* Type invariant.
TypeOK ==
  /\ counter \in Counts /\ cc \in Counts /\ m_ticks_latest \in Counts
  /\ {cc_missed, rtc_pending, swi_pending, masked, m_rtc1_running, m_rtc1_reset} \subseteq BOOLEAN
  /\ late \in 0 .. MaxLatency
  /\ list \in Seq(Timers)
  /\ ticks_to_expire \in [Timers -> Nat]
  /\ ticks_periodic_interval \in [Timers -> Counts]
  /\ is_running \in [Timers -> BOOLEAN]
  /\ mode \in [Timers -> {"none", "REPEATED", "SINGLE_SHOT"}]
  /\ Len(m_op_queue) <= OpQueueSize
  /\ m_ticks_elapsed \in Nat \cup {NONE}
  /\ started \in SUBSET Timers

\* Nothing of the application's interrupts is going on.
Quiet == ~Busy

\* Once the interrupts are served every queued operation has been applied:
\* an operation is never stranded in the queue without a SWI to come, though
\* it is queued (line 780) and the SWI pended (lines 853, 891) in separate steps.
NoStrandedOps == Quiet => m_op_queue = <<>> /\ m_ticks_elapsed = NONE

\* A timer is in the list at most once, and a timer marked running is in it
\* whenever the SWI handler does not work on the list.
ListSound ==
  /\ isr # "lost"
  /\ IsInjective(list)
  /\ isr \in {Idle, "rtc", "timeout_handler"} =>
       \A t \in Timers : is_running[t] => t \in ToSet(list)

\* A timeout handler is never called before the requested ticks have passed,
\* across wraps and resets of the counter, late interrupts and list updates.
NeverEarly == isr = "timeout_handler" => remain[loc.timer] <= 0

\* The handler is called only for a timer that was started and not stopped
\* since; a stop that has not returned yet may still see it called.
StoppedStaysQuiet ==
  [][isr = "rtc" /\ isr' = "timeout_handler" =>
       \/ loc'.timer \in started
       \/ thread.pc \in {"sched", "return"} /\ loc'.timer \in thread.stopping]_vars

\* With the interrupts served and a timer in the list, the RTC runs and its
\* next COMPARE comes no later than the head is due, or as soon as the
\* compare register allows.
CompareArmed ==
  Quiet /\ list # <<>> =>
    LET due  == ticks_to_expire[Head(list)] - TicksDiff(counter, m_ticks_latest)
        wait == IF cc = counter THEN W ELSE TicksDiff(cc, counter)
    IN  /\ m_rtc1_running /\ ~cc_missed
        /\ wait <= due \/ wait <= RTC_COMPARE_OFFSET_MIN

\* Ticks that the expiry under way has counted as passed, and since when.
Walks == isr \in {"rtc", "timeout_handler"}
Consumed ==
  IF Walks \/ isr = "expired_timers" THEN loc.expired + loc.elapsed
  ELSE IF m_ticks_elapsed # NONE THEN m_ticks_elapsed ELSE 0
Since == IF isr = "expired_timers" THEN loc.previous ELSE m_ticks_latest
\* The counter does not come round once more while the interrupts serve an expiry.
Served == Consumed <= TicksDiff(counter, Since)
\* Nor does it come round to the last expiry that the list takes account of,
\* and a periodic timer's expiry is served before the timer is due again.
InTime ==
  /\ m_rtc1_running /\ MayTick => TicksDiff(counter, m_ticks_latest) < MAX_RTC_COUNTER_VAL
  /\ isr = "expired_timers" /\ list # <<>> /\ Restarts(Head(list)) =>
       LET over == loc.elapsed - ticks_to_expire[Head(list)]
       IN  /\ over <= ticks_periodic_interval[Head(list)]
           /\ over <= MAX_RTC_COUNTER_VAL \div 2

\* The counter has not come round unnoticed, and the list's deltas say when
\* each timer is really due: not before its deadline, and later at most by the
\* time interrupts were held up.
OnSchedule ==
  /\ Served /\ InTime
  /\ Quiet => \A i \in DOMAIN list :
       LET due == DueAt[i] - TicksDiff(counter, m_ticks_latest)
       IN  /\ due >= remain[list[i]]
           /\ due <= MaxLatency \/ due <= remain[list[i]] + MaxLatency

\* is_running says whether the timer is running, that is in the list, once
\* the interrupts are served.
RunningFlagExact == Quiet => \A t \in Timers : is_running[t] <=> t \in ToSet(list)

\* A timer that is running expires or is stopped.
RunningEnds == \A t \in Timers : is_running[t] ~> ~is_running[t]

\* After its handler was called a periodic timer runs again, unless it is stopped.
PeriodicRestarts ==
  \A t \in Timers :
    (isr = "timeout_handler" /\ loc.timer = t /\ t \in started)
      ~> (is_running[t] \/ t \notin started)

\* app_timer.h: starting a timer that is already running is ignored, so the
\* SWI handler does not insert a timer that is in the list.
SecondStartIgnored == isr # "lost"
=============================================================================

----------------------------- MODULE PdmDriver -----------------------------
(***************************************************************************)
(* src/nrf/nrf_drv_pdm.c: sampling a microphone into two buffers by turns. *)
(*                                                                         *)
(* The PDM peripheral fills the buffer it found in SAMPLE.PTR when it      *)
(* began, tells that it began (STARTED) and that the buffer is full (END), *)
(* and goes on with the buffer SAMPLE.PTR names then.  PDM_IRQHandler runs *)
(* at the highest priority: it preempts the functions of the driver        *)
(* anywhere, and no interrupt waits for the time it takes to fill a buffer *)
(* (InTime).                                                               *)
(***************************************************************************)
EXTENDS Naturals

VARIABLES
  drv_state, status,             (* m_cb.drv_state, m_cb.status              *)
  op,                            (* the function that has set status and not *)
                                 (* yet triggered its task                   *)
  ptr, enabled, task,            (* SAMPLE.PTR, ENABLE, the task triggered   *)
  filling,                       (* the buffer being filled                  *)
  ev_started, ev_end, ev_stopped,
  full,                          (* the buffer filled last, not handed out   *)
  handed,                        (* the buffer handed out last               *)
  ret                            (* what the last call has returned          *)

m_cb == <<drv_state, status>>
events == <<ev_started, ev_end, ev_stopped>>
pdm == <<ptr, enabled, task, filling, events>>
vars == <<m_cb, op, pdm, full, handed, ret>>

buffer_a == "a"
buffer_b == "b"
None == "none"
Other(b) == IF b = buffer_a THEN buffer_b ELSE buffer_a

-----------------------------------------------------------------------------
Init ==
  /\ drv_state = "uninitialized" /\ status = "idle" /\ op = None
  /\ ptr = None /\ enabled = FALSE /\ task = None /\ filling = None
  /\ ev_started = FALSE /\ ev_end = FALSE /\ ev_stopped = FALSE
  /\ full = None /\ handed = None /\ ret = None

(***************************************************************************)
(* The peripheral.                                                         *)
(***************************************************************************)
Pending == ev_started \/ ev_end \/ ev_stopped
InTime == ~Pending

PdmStarts ==
  /\ enabled /\ task = "start" /\ filling = None
  /\ task' = None
  /\ filling' = ptr
  /\ ev_started' = TRUE
  /\ UNCHANGED <<m_cb, op, ptr, enabled, ev_end, ev_stopped, full, handed, ret>>

PdmFills ==
  /\ enabled /\ filling # None /\ InTime
  /\ full' = filling
  /\ ev_end' = TRUE
  /\ IF task = "stop"
     THEN filling' = None /\ ev_stopped' = TRUE /\ task' = None /\ UNCHANGED ev_started
     ELSE filling' = ptr /\ ev_started' = TRUE /\ UNCHANGED <<task, ev_stopped>>
  /\ UNCHANGED <<m_cb, op, ptr, enabled, handed, ret>>

\* A peripheral that is not enabled takes no task.
Trigger(t) == task' = IF enabled THEN t ELSE task
nrf_pdm_disable == enabled' = FALSE /\ task' = None /\ filling' = None

-----------------------------------------------------------------------------
(***************************************************************************)
(* PDM_IRQHandler: one event each time, END before STARTED before STOPPED. *)
(***************************************************************************)
Handed == Other(ptr)

IrqEnd ==
  /\ ev_end
  /\ ev_end' = FALSE
  /\ handed' = Handed
  /\ full' = None
  /\ UNCHANGED <<m_cb, op, ptr, enabled, task, filling, ev_started, ev_stopped, ret>>

StartedFirst == ev_started                                   \* mutant
StartedNext == ev_started /\ ~ev_end

Swap == ptr' = Other(ptr)

IrqStarted ==
  /\ StartedNext
  /\ ev_started' = FALSE
  /\ status' = "running"
  /\ Swap
  /\ UNCHANGED <<drv_state, op, enabled, task, filling, ev_end, ev_stopped, full, handed, ret>>

IrqStoppedNoStatus ==                                        \* mutant
  /\ ev_stopped /\ ~ev_end /\ ~ev_started
  /\ ev_stopped' = FALSE
  /\ nrf_pdm_disable
  /\ UNCHANGED <<m_cb, op, ptr, ev_started, ev_end, full, handed, ret>>
IrqStopped ==
  /\ ev_stopped /\ ~ev_end /\ ~ev_started
  /\ ev_stopped' = FALSE
  /\ nrf_pdm_disable
  /\ status' = "idle"
  /\ UNCHANGED <<drv_state, op, ptr, ev_started, ev_end, full, handed, ret>>

PDM_IRQHandler == IrqEnd \/ IrqStarted \/ IrqStopped

-----------------------------------------------------------------------------
(***************************************************************************)
(* The functions; the handler comes before their next step.                *)
(***************************************************************************)
Call == op = None /\ ~Pending
Usable == drv_state # "uninitialized"

\* nrf_drv_pdm_init.
PdmInit ==
  /\ Call /\ ~Usable
  /\ drv_state' = "initialized" /\ status' = "idle"
  /\ ptr' = buffer_a
  /\ ret' = "NRF_SUCCESS"
  /\ UNCHANGED <<op, enabled, task, filling, events, full, handed>>

\* nrf_drv_pdm_uninit leaves status as it is.
PdmUninit ==
  /\ Call
  /\ nrf_pdm_disable
  /\ drv_state' = "uninitialized"
  /\ UNCHANGED <<status, op, ptr, events, full, handed, ret>>

\* A function returns without having done anything.
Returns(r) == Call /\ ret' = r /\ UNCHANGED <<m_cb, op, pdm, full, handed>>

InitAgain == Usable /\ Returns("NRF_ERROR_INVALID_STATE")

\* nrf_drv_pdm_start.
StartBegin ==
  /\ Call /\ Usable /\ status = "idle"
  /\ status' = "transition" /\ drv_state' = "powered on"
  /\ enabled' = TRUE
  /\ ev_started' = FALSE
  /\ op' = "start"
  /\ UNCHANGED <<ptr, task, filling, ev_end, ev_stopped, full, handed, ret>>

StartTask ==
  /\ op = "start" /\ ~Pending
  /\ Trigger("start")
  /\ op' = None /\ ret' = "NRF_SUCCESS"
  /\ UNCHANGED <<m_cb, ptr, enabled, filling, events, full, handed>>

StartRunning == Usable /\ status = "running" /\ Returns("NRF_SUCCESS")

\* nrf_drv_pdm_stop.
StopBeginIdle ==                                             \* mutant
  /\ Call /\ Usable /\ status = "running"
  /\ status' = "idle" /\ drv_state' = "initialized"
  /\ op' = "stop"
  /\ UNCHANGED <<pdm, full, handed, ret>>
StopBegin ==
  /\ Call /\ Usable /\ status = "running"
  /\ status' = "transition" /\ drv_state' = "initialized"
  /\ op' = "stop"
  /\ UNCHANGED <<pdm, full, handed, ret>>

StopTaskStart ==                                             \* mutant
  /\ op = "stop" /\ ~Pending
  /\ Trigger("start")
  /\ op' = None /\ ret' = "NRF_SUCCESS"
  /\ UNCHANGED <<m_cb, ptr, enabled, filling, events, full, handed>>
StopTask ==
  /\ op = "stop" /\ ~Pending
  /\ Trigger("stop")
  /\ op' = None /\ ret' = "NRF_SUCCESS"
  /\ UNCHANGED <<m_cb, ptr, enabled, filling, events, full, handed>>

StopIdle ==
  /\ Call /\ Usable /\ status = "idle"
  /\ nrf_pdm_disable
  /\ ret' = "NRF_SUCCESS"
  /\ UNCHANGED <<m_cb, op, ptr, events, full, handed>>

\* Either of them, while the other is under way.
Busy == Usable /\ status = "transition" /\ Returns("NRF_ERROR_BUSY")

-----------------------------------------------------------------------------
Hardware == PdmStarts \/ PdmFills
Tasks == StartTask \/ StopTask

Next ==
  \/ Hardware \/ PDM_IRQHandler \/ Tasks
  \/ PdmInit \/ InitAgain \/ PdmUninit
  \/ StartBegin \/ StartRunning \/ StopBegin \/ StopIdle \/ Busy

Spec == Init /\ [][Next]_vars

\* The peripheral samples, the handler runs, a function that is called ends.
FairSpec == Spec /\ WF_vars(Hardware) /\ WF_vars(PDM_IRQHandler) /\ SF_vars(Tasks)

-----------------------------------------------------------------------------
(***************************************************************************)
(* Properties.                                                             *)
(***************************************************************************)
\* Type invariant.
TypeOK ==
  /\ drv_state \in {"uninitialized", "initialized", "powered on"}
  /\ status \in {"idle", "running", "transition"}
  /\ op \in {None, "start", "stop"} /\ task \in {None, "start", "stop"}
  /\ Usable => ptr # None
  /\ {ptr, filling, full, handed} \subseteq {buffer_a, buffer_b, None}
  /\ ret \in {None, "NRF_SUCCESS", "NRF_ERROR_BUSY", "NRF_ERROR_INVALID_STATE"}
  /\ {enabled, ev_started, ev_end, ev_stopped} \subseteq BOOLEAN

\* nrf_drv_pdm.h: the handler is called "when a buffer is full and ready to be
\* processed".  The buffer PDM_IRQHandler makes out from SAMPLE.PTR is the one
\* filled last, and not the one being filled.
HandsFullBuffer == ev_end => Handed = full /\ Handed # filling

\* The buffers are filled by turns, the next one being set before it is needed.
NextBufferSet == filling # None /\ ~ev_started => ptr = Other(filling)

\* When the driver says idle nothing samples, nor is about to.
IdleIsQuiet == Usable /\ status = "idle" /\ ~Pending => filling = None /\ task = None

\* nrf_drv_pdm.h, of nrf_drv_pdm_start: NRF_SUCCESS "if sampling was started
\* successfully or was already in progress", NRF_ERROR_BUSY "if a previous
\* start/stop operation is in progress".
SuccessIsSampling == [][StartRunning => task # "stop"]_vars

\* A start or a stop comes to an end.
TransitionEnds == status = "transition" ~> status # "transition" \/ ~Usable

\* A stop that was accepted stops the sampling.
StopStops == op = "stop" ~> filling = None
=============================================================================

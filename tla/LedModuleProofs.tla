-------------------------- MODULE LedModuleProofs --------------------------
(***************************************************************************)
(* Proofs about what src/modules/LedModule.cpp does and rests on: the      *)
(* microphone's driver (PdmDriver), main's loop that performs its          *)
(* operations (LedShow), the suspenders' map with the moving patterns      *)
(* (LedPattern) and the frames of an image (LedImage).                     *)
(***************************************************************************)
EXTENDS LedShow, LedImage, WellFoundedInduction, TLAPS

-----------------------------------------------------------------------------
(***************************************************************************)
(* PdmDriver, whatever its functions are called for and whenever the       *)
(* peripheral gets on.                                                     *)
(***************************************************************************)
Results == {None, "NRF_SUCCESS", "NRF_ERROR_BUSY", "NRF_ERROR_INVALID_STATE"}

PdmTypes ==
  /\ drv_state \in {"uninitialized", "initialized", "powered on"}
  /\ status \in {"idle", "running", "transition"}
  /\ op \in {None, "start", "stop"} /\ task \in {None, "start", "stop"}
  /\ ptr \in {buffer_a, buffer_b, None} /\ (Usable => ptr # None)
  /\ filling \in {buffer_a, buffer_b, None}
  /\ full \in {buffer_a, buffer_b, None} /\ handed \in {buffer_a, buffer_b, None}
  /\ enabled \in BOOLEAN
  /\ ev_started \in BOOLEAN /\ ev_end \in BOOLEAN /\ ev_stopped \in BOOLEAN
  /\ ret \in Results

(***************************************************************************)
(* A peripheral that is off is quiet, and so is one about to start; the    *)
(* driver only says idle when it is off.                                   *)
(***************************************************************************)
OffIsQuiet == ~enabled => filling = None /\ task = None /\ ~Pending
StartIsQuiet ==
  /\ op = "start" \/ task = "start" => filling = None /\ ~Pending /\ status = "transition"
  /\ op = "start" => task = None
  /\ task = "start" => op = None
IdleIsOff == ~Usable \/ status = "idle" => ~enabled
OpUsable == op # None => Usable

(***************************************************************************)
(* SAMPLE.PTR names the buffer being filled until STARTED has been served, *)
(* the other one from then on, which is also when END is served.           *)
(***************************************************************************)
PtrFollows ==
  /\ ev_started => filling = ptr /\ filling # None
  /\ ~ev_started /\ filling # None => filling = Other(ptr)
  /\ ev_end => full = Other(ptr) /\ (filling # None => ev_started)
  /\ ev_stopped => filling = None

PdmInv == PdmTypes /\ OffIsQuiet /\ StartIsQuiet /\ IdleIsOff /\ OpUsable /\ PtrFollows

\* What the invariant is about.
pdmstate == <<drv_state, status, op, ptr, enabled, task, filling, ev_started, ev_end, ev_stopped, full, handed>>

LEMMA StutterKeeps == PdmInv /\ UNCHANGED pdmstate /\ ret' \in Results => PdmInv'
<1> SUFFICES ASSUME PdmInv, UNCHANGED pdmstate, ret' \in Results PROVE PdmInv'
  OBVIOUS
<1>1. /\ drv_state' = drv_state /\ status' = status /\ op' = op /\ ptr' = ptr /\ enabled' = enabled
      /\ task' = task /\ filling' = filling /\ ev_started' = ev_started /\ ev_end' = ev_end
      /\ ev_stopped' = ev_stopped /\ full' = full /\ handed' = handed
  BY DEF pdmstate
<1>2. Usable' = Usable /\ Pending' = Pending
  BY <1>1 DEF Usable, Pending
<1>3. PdmTypes'
  <2>1. PdmTypes /\ ret' \in {None, "NRF_SUCCESS", "NRF_ERROR_BUSY", "NRF_ERROR_INVALID_STATE"}
    BY DEF PdmInv, Results
  <2>2. /\ drv_state' \in {"uninitialized", "initialized", "powered on"}
        /\ status' \in {"idle", "running", "transition"}
    BY <1>1, <2>1 DEF PdmTypes
  <2>3. op' \in {None, "start", "stop"} /\ task' \in {None, "start", "stop"}
    BY <1>1, <2>1 DEF PdmTypes
  <2>4. ptr' \in {buffer_a, buffer_b, None} /\ (Usable' => ptr' # None)
    BY <1>1, <2>1 DEF PdmTypes, Usable
  <2>5. filling' \in {buffer_a, buffer_b, None} /\ full' \in {buffer_a, buffer_b, None}
        /\ handed' \in {buffer_a, buffer_b, None}
    BY <1>1, <2>1 DEF PdmTypes
  <2>6. enabled' \in BOOLEAN /\ ev_started' \in BOOLEAN /\ ev_end' \in BOOLEAN /\ ev_stopped' \in BOOLEAN
    BY <1>1, <2>1 DEF PdmTypes
  <2> QED
    BY <2>1, <2>2, <2>3, <2>4, <2>5, <2>6 DEF PdmTypes, Results
<1>4. OffIsQuiet' /\ StartIsQuiet' /\ IdleIsOff' /\ OpUsable'
  BY <1>1 DEF Usable, Pending, PdmInv, OffIsQuiet, StartIsQuiet, IdleIsOff, OpUsable, None
<1>5. PtrFollows'
  BY <1>1 DEF PdmInv, PtrFollows, Other, None
<1> QED
  BY <1>3, <1>4, <1>5 DEF PdmInv

LEMMA InitPdmInv == Init => PdmInv
BY DEF Init, PdmInv, PdmTypes, OffIsQuiet, StartIsQuiet, IdleIsOff, OpUsable, PtrFollows, Usable, Pending,
       None, buffer_a, buffer_b, Results

LEMMA HardwareKeeps == PdmInv /\ Hardware => PdmInv'
<1> SUFFICES ASSUME PdmInv, Hardware PROVE PdmInv'
  OBVIOUS
<1> USE DEF PdmInv, PdmTypes, OffIsQuiet, StartIsQuiet, IdleIsOff, OpUsable, PtrFollows, Usable, Pending,
            None, buffer_a, buffer_b, Other, Results, m_cb
<1>1. CASE PdmStarts
  BY <1>1 DEF PdmStarts
<1>2. CASE PdmFills
  BY <1>2 DEF PdmFills, InTime
<1> QED
  BY <1>1, <1>2 DEF Hardware

LEMMA HandlerKeeps == PdmInv /\ PDM_IRQHandler => PdmInv'
<1> SUFFICES ASSUME PdmInv, PDM_IRQHandler PROVE PdmInv'
  OBVIOUS
<1> USE DEF PdmInv, PdmTypes, OffIsQuiet, StartIsQuiet, IdleIsOff, OpUsable, PtrFollows, Usable, Pending,
            None, buffer_a, buffer_b, Other, Results, m_cb
<1>1. CASE IrqEnd
  BY <1>1 DEF IrqEnd, Handed
<1>2. CASE IrqStarted
  BY <1>2 DEF IrqStarted, StartedNext, Swap
<1>3. CASE IrqStopped
  BY <1>3 DEF IrqStopped, nrf_pdm_disable
<1> QED
  BY <1>1, <1>2, <1>3 DEF PDM_IRQHandler

Functions ==
  \/ Tasks \/ PdmInit \/ InitAgain \/ PdmUninit
  \/ StartBegin \/ StartRunning \/ StopBegin \/ StopIdle \/ Busy

LEMMA FunctionsKeep == PdmInv /\ Functions => PdmInv'
<1> SUFFICES ASSUME PdmInv, Functions PROVE PdmInv'
  OBVIOUS
<1> USE DEF PdmInv, PdmTypes, OffIsQuiet, StartIsQuiet, IdleIsOff, OpUsable, PtrFollows, Usable, Pending,
            None, buffer_a, buffer_b, Other, Results, m_cb, pdm, events, Call
<1>1. CASE StartTask
  BY <1>1 DEF StartTask, Trigger
<1>2. CASE StopTask
  BY <1>2 DEF StopTask, Trigger
<1>3. CASE PdmInit
  BY <1>3 DEF PdmInit
<1>4. CASE PdmUninit
  BY <1>4 DEF PdmUninit, nrf_pdm_disable
<1>5. CASE StartBegin
  BY <1>5 DEF StartBegin
<1>6. CASE StopBegin
  BY <1>6 DEF StopBegin
<1>7. CASE StopIdle
  BY <1>7 DEF StopIdle, nrf_pdm_disable
<1>8. CASE InitAgain \/ StartRunning \/ Busy
  <2>1. UNCHANGED pdmstate
    BY <1>8 DEF InitAgain, StartRunning, Busy, Returns, pdmstate
  <2>2. ret' \in Results
    BY <1>8 DEF InitAgain, StartRunning, Busy, Returns, Results
  <2> QED
    BY <2>1, <2>2, StutterKeeps
<1> QED
  BY <1>1, <1>2, <1>3, <1>4, <1>5, <1>6, <1>7, <1>8 DEF Functions, Tasks

THEOREM PdmInvariant == Spec => []PdmInv
<1>1. PdmInv /\ [Next]_vars => PdmInv'
  <2>1. PdmInv /\ UNCHANGED vars => PdmInv'
    <3>1. UNCHANGED vars => UNCHANGED pdmstate /\ ret' = ret
      BY DEF vars, m_cb, pdm, events, pdmstate
    <3>2. PdmInv => ret \in Results
      BY DEF PdmInv, PdmTypes, Results
    <3> QED
      BY <3>1, <3>2, StutterKeeps
  <2>2. Next => Hardware \/ PDM_IRQHandler \/ Functions
    BY DEF Next, Functions
  <2> QED
    BY <2>1, <2>2, HardwareKeeps, HandlerKeeps, FunctionsKeep
<1> QED
  BY <1>1, InitPdmInv, PTL DEF Spec

\* The handler is only ever given a buffer that is full and at rest.
THEOREM FullBufferHanded == Spec => []HandsFullBuffer
<1>1. PdmInv => HandsFullBuffer
  BY DEF PdmInv, PdmTypes, PtrFollows, HandsFullBuffer, Handed, Other, Usable, OffIsQuiet, IdleIsOff, Pending,
         None, buffer_a, buffer_b
<1> QED
  BY <1>1, PdmInvariant, PTL

\* Once STARTED has been served the peripheral knows the buffer to go on with.
THEOREM NextIsSet == Spec => []NextBufferSet
<1>1. PdmInv => NextBufferSet
  BY DEF PdmInv, PdmTypes, PtrFollows, NextBufferSet, Other, OffIsQuiet, IdleIsOff, Usable, Pending,
         None, buffer_a, buffer_b
<1> QED
  BY <1>1, PdmInvariant, PTL

\* A driver that says idle has the peripheral off.
THEOREM IdleQuiet == Spec => []IdleIsQuiet
<1>1. PdmInv => IdleIsQuiet
  BY DEF PdmInv, IdleIsOff, OffIsQuiet, IdleIsQuiet
<1> QED
  BY <1>1, PdmInvariant, PTL

-----------------------------------------------------------------------------
(***************************************************************************)
(* LedShow, for sequences and buffers of any length.                       *)
(***************************************************************************)
Startup == {"ctor", "clear", "clear out", "mic", "mic task", "started"}
Looping == {"test", "tested", "perform", "convert", "out", "done", "wfi"}

Buffers == {buffer_a, buffer_b, None}
LoopTypes ==
  /\ type \in Types /\ at \in Startup \cup Looping
  /\ starts \in 0 .. 2 /\ current \in 0 .. NumFrames - 1 /\ shown \in 0 .. NumFrames
TickTypes ==
  /\ bOperationRequested \in BOOLEAN /\ ticking \in BOOLEAN /\ in_time \in BOOLEAN
  /\ waiting \in 0 .. MaxWaiting
MicTypes ==
  /\ bFilledBuffer \in BOOLEAN /\ pPdmFilledBuffer \in Buffers
  /\ sample \in 0 .. Samples /\ from \in Buffers
ShowTypes == LoopTypes /\ TickTypes /\ MicTypes

\* The second call of startOperations is the last.
StartsInOrder == at \in Startup => starts < 2

\* Before the timer is started no tick has come.
NoTickYet == at \in Startup => ~bOperationRequested /\ in_time /\ waiting = 0
Ticks == ticking <=> at \in Looping

\* Nothing is heard of a microphone that no sequence has started.
MicIsOff ==
  /\ op = None /\ task = None /\ filling = None /\ ~Pending
  /\ at \notin {"mic", "mic task", "convert"}

\* How many ticks may have come, by where the loop is.  Another can come only
\* when it has slept since the last, and then the sleep ends with it.
TickLoop ==
  /\ at = "test" => waiting <= 2 /\ (in_time => ~bOperationRequested) /\ (~bOperationRequested => waiting = 0)
  /\ at = "tested" => waiting <= 1 /\ (in_time => waiting = 0)
  /\ at \in {"perform", "out", "done"} => waiting = 0 /\ ~in_time
  /\ at = "wfi" => waiting <= 1

\* With the microphone an interrupt that is not a tick may end the sleep, so
\* that a tick may come before the operation asked for by the one before has
\* begun, and may find the flag set that is cleared after it.
MicLoop ==
  /\ ~bOperationRequested => waiting <= 1
  /\ at = "test" => waiting <= 3 /\ (in_time => waiting <= 2)
  /\ at = "tested" => waiting <= 2 /\ (in_time => ~bOperationRequested)
  /\ at \in {"perform", "convert", "out", "done"} => waiting <= 1 /\ (in_time => waiting = 0)
  /\ at = "wfi" => waiting <= 2

LoopInv ==
  /\ StartsInOrder /\ NoTickYet /\ Ticks
  /\ IF type = "MIC_UPDATE" THEN MicLoop ELSE MicIsOff /\ TickLoop

ShowInv == PdmInv /\ ShowTypes /\ LoopInv

LEMMA InitShowInv == ShowInit => ShowInv
<1> SUFFICES ASSUME ShowInit PROVE ShowInv
  OBVIOUS
<1>1. PdmInv
  BY InitPdmInv DEF ShowInit
<1>2. LoopTypes
  BY ShowAssumption DEF ShowInit, LoopTypes, Startup, NoFrame
<1>3. TickTypes
  <2>1. waiting \in 0 .. MaxWaiting
    BY DEF ShowInit, MaxWaiting
  <2> QED
    BY <2>1, Zenon DEF ShowInit, TickTypes
<1>4. MicTypes
  <2>1. sample \in 0 .. Samples
    BY ShowAssumption DEF ShowInit
  <2> QED
    BY <2>1, Zenon DEF ShowInit, MicTypes, Buffers
<1>5. at = "ctor" /\ starts = 0 /\ waiting = 0 /\ ~bOperationRequested /\ in_time /\ ~ticking
  BY Zenon DEF ShowInit
<1>6. StartsInOrder /\ NoTickYet /\ Ticks /\ MicLoop /\ TickLoop
  BY <1>5 DEF StartsInOrder, NoTickYet, Ticks, MicLoop, TickLoop, Startup, Looping
<1>7. MicIsOff
  BY <1>5 DEF ShowInit, Init, Pending, MicIsOff, None
<1> QED
  BY <1>1, <1>2, <1>3, <1>4, <1>6, <1>7 DEF ShowInv, LoopInv, ShowTypes

\* Main and the interrupts use the driver as it says; everything else leaves it
\* alone.
LEMMA DriverStep == [ShowNext]_showvars => [Next]_vars
<1> SUFFICES ASSUME [ShowNext]_showvars PROVE [Next]_vars
  OBVIOUS
<1>1. CASE Main
  <2>1. CASE Construct
    BY <2>1 DEF Construct, Next
  <2>2. CASE StartMic
    BY <2>2 DEF StartMic, Next, Tasks
  <2>3. CASE Clear \/ ClearOut \/ Started \/ Test \/ Sleep \/ SetLeds \/ MicUpdate \/ Convert \/ ShiftedOut \/ Done
    BY <2>3 DEF Clear, ClearOut, Started, Test, Sleep, SetLeds, MicUpdate, Convert, ShiftedOut, Done
  <2> QED
    BY <1>1, <2>1, <2>2, <2>3 DEF Main
<1>2. CASE IrqPdm
  BY <1>2 DEF IrqPdm, Next
<1>3. CASE Tick
  BY <1>3 DEF Tick
<1>4. CASE Sampling
  BY <1>4 DEF Sampling, Next
<1>5. CASE UNCHANGED showvars
  BY <1>5 DEF showvars
<1> QED
  BY <1>1, <1>2, <1>3, <1>4, <1>5 DEF ShowNext

\* The microphone is driven as nrf_drv_pdm.c expects: LedShow is a PdmDriver.
THEOREM ShowDrivesPdm == ShowSpec => Spec
<1>1. ShowInit => Init
  BY DEF ShowInit
<1> QED
  BY <1>1, DriverStep, PTL DEF ShowSpec, Spec

(***************************************************************************)
(* What a step does to the flag and the count of ticks, by where it leads. *)
(***************************************************************************)
Same == (ticking' <=> ticking) /\ (in_time' <=> in_time) /\ (bOperationRequested' <=> bOperationRequested)
Kept == Same /\ waiting' = waiting
Woken == at' = IF at = "wfi" THEN "test" ELSE at

Stays == Kept /\ at' = at
Wakened == Kept /\ Woken /\ type = "MIC_UPDATE"
Starting ==
  \/ Kept /\ at \in Startup \ {"started"} /\ at' \in Startup
  \/ Kept /\ at = "started" /\ at' = "clear"
  \/ /\ at = "started" /\ at' = "test" /\ waiting' = waiting /\ ticking'
     /\ (in_time' <=> in_time) /\ (bOperationRequested' <=> bOperationRequested)
Tested ==
  \/ Same /\ at = "test" /\ bOperationRequested /\ at' = "perform" /\ waiting' = 0
  \/ Kept /\ at = "test" /\ ~bOperationRequested /\ at' = "tested"
Performs ==
  \/ Kept /\ at = "perform" /\ at' \in {"out", "done"}
  \/ Kept /\ at = "perform" /\ at' = "convert" /\ type = "MIC_UPDATE"
  \/ Kept /\ at = "convert" /\ at' = "out" /\ type = "MIC_UPDATE"
  \/ Kept /\ at = "out" /\ at' = "done"
Clears ==
  /\ at = "done" /\ at' = "tested" /\ ~bOperationRequested'
  /\ waiting' = waiting /\ (ticking' <=> ticking) /\ (in_time' <=> in_time)
Sleeps ==
  /\ at = "tested" /\ at' = "wfi" /\ in_time'
  /\ waiting' = waiting /\ (ticking' <=> ticking) /\ (bOperationRequested' <=> bOperationRequested)
Ticked ==
  /\ ticking /\ ticking' /\ in_time /\ ~in_time' /\ bOperationRequested' /\ Woken
  /\ waiting' = IF waiting < MaxWaiting THEN waiting + 1 ELSE waiting

Effect == Stays \/ Wakened \/ Starting \/ Tested \/ Performs \/ Clears \/ Sleeps \/ Ticked

LEMMA EffectOfStep == ShowInv /\ [ShowNext]_showvars => Effect
<1> SUFFICES ASSUME ShowInv, [ShowNext]_showvars PROVE Effect
  OBVIOUS
<1> USE DEF Effect, Stays, Wakened, Starting, Tested, Performs, Clears, Sleeps, Ticked, Kept, Same
<1>1. CASE UNCHANGED showvars
  BY <1>1, Zenon DEF showvars, loop, tick
<1>2. CASE Construct \/ Clear \/ ClearOut \/ StartMic
  BY <1>2, Zenon DEF Construct, Clear, ClearOut, AfterClear, StartMic, Goes, NotMain, tick, Startup
<1>3. CASE Started
  BY <1>3, Zenon DEF Started
<1>4. CASE Test
  BY <1>4, Zenon DEF Test
<1>5. CASE Sleep
  BY <1>5, Zenon DEF Sleep, Goes
<1>6. CASE SetLeds
  BY <1>6, Zenon DEF SetLeds, Goes, tick
<1>7. CASE MicUpdate
  BY <1>7, Zenon DEF MicUpdate, Goes, tick
<1>8. CASE Convert
  <2>1. type = "MIC_UPDATE"
    BY <1>8, Zenon DEF ShowInv, LoopInv, MicIsOff, Convert
  <2> QED
    BY <1>8, <2>1, Zenon DEF Convert, tick
<1>9. CASE ShiftedOut
  BY <1>9, Zenon DEF ShiftedOut, tick
<1>10. CASE Done
  BY <1>10, Zenon DEF Done, FlagCleared, Goes
<1>11. CASE IrqPdm
  <2>1. type = "MIC_UPDATE"
    <3>1. ~Pending => ~PDM_IRQHandler
      BY DEF Pending, PDM_IRQHandler, IrqEnd, IrqStarted, StartedNext, IrqStopped
    <3> QED
      BY <1>11, <3>1, Zenon DEF ShowInv, LoopInv, MicIsOff, IrqPdm
  <2> QED
    BY <1>11, <2>1, Zenon DEF IrqPdm, Wakes, Asleep, Woken, tick
<1>12. CASE Tick
  <2>1. ticking'
    BY <1>12, Zenon DEF Tick
  <2> QED
    BY <1>12, <2>1, Zenon DEF Tick, TickInTime, Requests, Wakes, Asleep, Woken
<1>13. CASE Sampling
  BY <1>13, Zenon DEF Sampling, loop, tick
<1> QED
  BY <1>1, <1>2, <1>3, <1>4, <1>5, <1>6, <1>7, <1>8, <1>9, <1>10, <1>11, <1>12, <1>13 DEF ShowNext, Main

\* As the timer ticks only in the loop, so does the count start there.
LEMMA EffectKeepsTicks ==
  ASSUME Effect, at \in Startup \cup Looping, NoTickYet, Ticks
  PROVE  at' \in Startup \cup Looping /\ NoTickYet' /\ Ticks'
BY DEF Effect, Stays, Wakened, Starting, Tested, Performs, Clears, Sleeps, Ticked, Kept, Same, Woken,
       NoTickYet, Ticks, Startup, Looping

LEMMA EffectKeepsMicLoop ==
  ASSUME Effect, NoTickYet, Ticks, waiting \in 0 .. MaxWaiting, MicLoop
  PROVE  MicLoop'
<1> USE DEF MicLoop, Kept, Same
<1>1. CASE Stays
  BY <1>1 DEF Stays
<1>2. CASE Wakened
  BY <1>2 DEF Wakened, Woken
<1>3. CASE Starting
  <2>1. at \in Startup /\ waiting' = waiting /\ (in_time' <=> in_time) /\ (bOperationRequested' <=> bOperationRequested)
    BY <1>3, Zenon DEF Starting, Startup
  <2>2. waiting' = 0 /\ ~bOperationRequested'
    BY <2>1 DEF NoTickYet
  <2>3. at' \notin {"tested", "perform", "convert", "out", "done", "wfi"}
    BY <1>3 DEF Starting, Startup
  <2> QED
    BY <2>2, <2>3
<1>4. CASE Tested
  BY <1>4 DEF Tested
<1>5. CASE Performs
  BY <1>5 DEF Performs
<1>6. CASE Clears
  BY <1>6 DEF Clears
<1>7. CASE Sleeps
  BY <1>7 DEF Sleeps
<1>8. CASE Ticked
  BY <1>8 DEF Ticked, Woken, MaxWaiting
<1> QED
  BY <1>1, <1>2, <1>3, <1>4, <1>5, <1>6, <1>7, <1>8 DEF Effect

LEMMA EffectKeepsTickLoop ==
  ASSUME Effect, NoTickYet, Ticks, waiting \in 0 .. MaxWaiting, TickLoop, type # "MIC_UPDATE"
  PROVE  TickLoop'
<1> USE DEF TickLoop, Kept, Same
<1>1. CASE Stays
  BY <1>1 DEF Stays
<1>2. CASE Wakened
  BY <1>2 DEF Wakened, Woken
<1>3. CASE Starting
  <2>1. at \in Startup /\ waiting' = waiting /\ (in_time' <=> in_time) /\ (bOperationRequested' <=> bOperationRequested)
    BY <1>3, Zenon DEF Starting, Startup
  <2>2. waiting' = 0 /\ ~bOperationRequested'
    BY <2>1 DEF NoTickYet
  <2>3. at' \notin {"tested", "perform", "convert", "out", "done", "wfi"}
    BY <1>3 DEF Starting, Startup
  <2> QED
    BY <2>2, <2>3
<1>4. CASE Tested
  BY <1>4 DEF Tested
<1>5. CASE Performs
  BY <1>5 DEF Performs
<1>6. CASE Clears
  BY <1>6 DEF Clears
<1>7. CASE Sleeps
  BY <1>7 DEF Sleeps
<1>8. CASE Ticked
  BY <1>8 DEF Ticked, Woken, MaxWaiting
<1> QED
  BY <1>1, <1>2, <1>3, <1>4, <1>5, <1>6, <1>7, <1>8 DEF Effect

LEMMA LoopTypesKept ==
  ASSUME ShowInv, [ShowNext]_showvars, at' \in Startup \cup Looping, type' = type
  PROVE  LoopTypes' /\ StartsInOrder'
<1>1. LoopTypes /\ StartsInOrder /\ NumFrames \in Nat \ {0}
  BY ShowAssumption DEF ShowInv, LoopInv, ShowTypes
<1>2. CASE Started
  <2>1. at = "started" /\ starts < 2 /\ starts' = starts + 1 /\ (starts = 0 => at' = "clear") /\ (starts # 0 => at' = "test")
    BY <1>1, <1>2 DEF Started, StartsInOrder, Startup
  <2>2. current' = current /\ shown' = shown
    BY <1>2 DEF Started
  <2>3. starts' \in 0 .. 2 /\ (at' \in Startup => starts' < 2)
    <3>1. CASE starts = 0
      BY <2>1, <3>1
    <3>2. CASE starts # 0
      BY <1>1, <2>1, <3>2 DEF LoopTypes, Startup
    <3> QED
      BY <3>1, <3>2
  <2> QED
    BY <1>1, <2>2, <2>3 DEF LoopTypes, StartsInOrder
<1>3. CASE SetLeds
  BY <1>1, <1>3 DEF LoopTypes, StartsInOrder, Startup, SetLeds, Goes
<1>4. CASE ShiftedOut
  BY <1>1, <1>4 DEF LoopTypes, StartsInOrder, Startup, ShiftedOut, NextIndex
<1>5. CASE ~Started /\ ~SetLeds /\ ~ShiftedOut
  <2>1. starts' = starts /\ current' = current /\ shown' = shown
    BY <1>5, Zenon DEF ShowNext, Main, Construct, Clear, ClearOut, StartMic, Test, Sleep, MicUpdate, Convert, Done,
                IrqPdm, Tick, Sampling, NotMain, loop, showvars
  <2>2. at' \in Startup => at \in Startup
    BY EffectOfStep DEF Effect, Stays, Wakened, Starting, Tested, Performs, Clears, Sleeps, Ticked, Kept, Woken, Startup
  <2> QED
    BY <1>1, <2>1, <2>2 DEF LoopTypes, StartsInOrder
<1> QED
  BY <1>2, <1>3, <1>4, <1>5

LEMMA TickTypesKept == ShowInv /\ [ShowNext]_showvars => TickTypes'
<1> SUFFICES ASSUME ShowInv, [ShowNext]_showvars PROVE TickTypes'
  OBVIOUS
<1>1. TickTypes
  BY DEF ShowInv, ShowTypes
<1>2. waiting' \in 0 .. MaxWaiting
  BY <1>1, EffectOfStep DEF TickTypes, Effect, Stays, Wakened, Starting, Tested, Performs, Clears, Sleeps, Ticked, Kept, MaxWaiting
<1>3. bOperationRequested' \in BOOLEAN /\ ticking' \in BOOLEAN /\ in_time' \in BOOLEAN
  <2>1. CASE UNCHANGED tick
    BY <1>1, <2>1, Zenon DEF TickTypes, tick
  <2>2. CASE Started \/ Test \/ Sleep \/ Done \/ Tick
    BY <1>1, <2>2, Zenon DEF TickTypes, Started, Test, Sleep, Done, FlagCleared, Tick, Requests
  <2>3. CASE ~(UNCHANGED tick) /\ ~(Started \/ Test \/ Sleep \/ Done \/ Tick)
    BY <2>3, Zenon DEF ShowNext, Main, Construct, Clear, ClearOut, StartMic, SetLeds, MicUpdate, Convert, ShiftedOut,
                IrqPdm, Sampling, showvars
  <2> QED
    BY <2>1, <2>2, <2>3
<1> QED
  BY <1>2, <1>3, Zenon DEF TickTypes

LEMMA MicTypesKept == ShowInv /\ PdmInv' /\ [ShowNext]_showvars => MicTypes'
<1> SUFFICES ASSUME ShowInv, PdmInv', [ShowNext]_showvars PROVE MicTypes'
  OBVIOUS
<1>1. MicTypes /\ handed' \in Buffers /\ Samples \in Nat
  BY ShowAssumption DEF ShowInv, ShowTypes, PdmInv, PdmTypes, Buffers
<1>2. CASE UNCHANGED <<mic, conversion>>
  BY <1>1, <1>2, Zenon DEF MicTypes, mic, conversion
<1>3. CASE MicUpdate
  <2>1. sample' \in 0 .. Samples
    BY <1>1, <1>3 DEF MicTypes, MicUpdate, conversion
  <2> QED
    BY <1>1, <1>3, <2>1, Zenon DEF MicTypes, MicUpdate, mic, conversion
<1>4. CASE Convert
  <2>1. sample' \in 0 .. Samples
    BY <1>1, <1>4 DEF MicTypes, Convert
  <2> QED
    BY <1>1, <1>4, <2>1, Zenon DEF MicTypes, Convert, mic, Buffers
<1>5. CASE IrqPdm
  BY <1>1, <1>5, Zenon DEF MicTypes, IrqPdm, pdm_event_handler, mic, conversion
<1>6. CASE ~(UNCHANGED <<mic, conversion>>) /\ ~(MicUpdate \/ Convert \/ IrqPdm)
  BY <1>6, Zenon DEF ShowNext, Main, Construct, Clear, ClearOut, StartMic, Started, Test, Sleep, SetLeds, ShiftedOut, Done,
              Tick, Sampling, showvars
<1> QED
  BY <1>2, <1>3, <1>4, <1>5, <1>6

LEMMA MicStaysOff ==
  ASSUME ShowInv, [ShowNext]_showvars, type # "MIC_UPDATE"
  PROVE  MicIsOff'
<1>1. MicIsOff
  BY DEF ShowInv, LoopInv
<1>2. at' \notin {"mic", "mic task", "convert"}
  <2>1. CASE at \in {"ctor", "clear", "clear out"}
    BY <1>1, <2>1 DEF ShowNext, Main, Construct, Clear, ClearOut, AfterClear, StartMic, Started, Test, Sleep,
                      SetLeds, MicUpdate, Convert, ShiftedOut, Done, Goes, IrqPdm, Tick, Wakes, Asleep, Sampling, loop, showvars
  <2>2. CASE at \notin {"ctor", "clear", "clear out"}
    BY <1>1, <2>2, EffectOfStep DEF MicIsOff, Effect, Stays, Wakened, Starting, Tested, Performs, Clears, Sleeps, Ticked, Kept, Woken, Startup
  <2> QED
    BY <2>1, <2>2
<1>3. UNCHANGED <<op, task, filling, events>>
  <2>1. CASE UNCHANGED vars
    BY <2>1, Zenon DEF vars, pdm, events
  <2>2. CASE Construct
    BY <2>2, Zenon DEF Construct, PdmInit
  <2>3. CASE StartMic \/ IrqPdm \/ Sampling
    BY <1>1, <2>3 DEF StartMic, Goes, MicIsOff, IrqPdm, PDM_IRQHandler, IrqEnd, IrqStarted, StartedNext, IrqStopped,
                      Sampling, Hardware, PdmStarts, PdmFills, Pending, None
  <2>4. CASE ~(UNCHANGED vars) /\ ~(Construct \/ StartMic \/ IrqPdm \/ Sampling)
    BY <2>4, Zenon DEF ShowNext, Main, Clear, ClearOut, Started, Test, Sleep, SetLeds, MicUpdate, Convert, ShiftedOut,
                Done, Tick, showvars
  <2> QED
    BY <2>1, <2>2, <2>3, <2>4
<1> QED
  BY <1>1, <1>2, <1>3, Zenon DEF MicIsOff, Pending, events

LEMMA TypeStays == [ShowNext]_showvars => type' = type
<1> USE DEF NotMain, loop
<1>1. UNCHANGED showvars => type' = type
  BY DEF showvars
<1>2. Main => type' = type
  BY DEF Main, Construct, Clear, ClearOut, StartMic, Started, Test, Sleep, SetLeds, MicUpdate, Convert, ShiftedOut, Done
<1>3. IrqPdm \/ Tick \/ Sampling => type' = type
  BY DEF IrqPdm, Tick, Sampling
<1> QED
  BY <1>1, <1>2, <1>3 DEF ShowNext

THEOREM ShowInvariant == ShowSpec => []ShowInv
<1>1. ShowInv /\ PdmInv' /\ [ShowNext]_showvars => ShowInv'
  <2> SUFFICES ASSUME ShowInv, PdmInv', [ShowNext]_showvars PROVE ShowInv'
    OBVIOUS
  <2>1. Effect /\ at' \in Startup \cup Looping /\ type' = type /\ NoTickYet' /\ Ticks'
    BY EffectOfStep, EffectKeepsTicks, TypeStays DEF ShowInv, ShowTypes, LoopTypes, LoopInv
  <2>2. ShowTypes' /\ StartsInOrder'
    BY <2>1, LoopTypesKept, TickTypesKept, MicTypesKept DEF ShowTypes
  <2>3. CASE type = "MIC_UPDATE"
    BY <2>1, <2>2, <2>3, EffectKeepsMicLoop DEF ShowInv, ShowTypes, TickTypes, LoopInv
  <2>4. CASE type # "MIC_UPDATE"
    BY <2>1, <2>2, <2>4, EffectKeepsTickLoop, MicStaysOff DEF ShowInv, ShowTypes, TickTypes, LoopInv
  <2> QED
    BY <2>3, <2>4
<1>2. ShowSpec => []PdmInv
  BY ShowDrivesPdm, PdmInvariant, PTL
<1> QED
  BY <1>1, <1>2, InitShowInv, PTL DEF ShowSpec

\* Type correctness of the program's main loop.
THEOREM ShowTypeCorrect == ShowSpec => []ShowTypeOK
<1>1. ShowInv => ShowTypeOK
  BY DEF ShowInv, ShowTypes, LoopTypes, TickTypes, MicTypes, ShowTypeOK, Startup, Looping, Buffers, PdmInv, PdmTypes, TypeOK, Results,
         buffer_a, buffer_b, None
<1> QED
  BY <1>1, ShowInvariant, PTL

\* However ticks, buffers and operations come between each other, a frame is
\* late by one tick at most, and with the microphone by two.
THEOREM FramesComeSoon == ShowSpec => []LateByFewTicks
<1>1. ShowInv => LateByFewTicks
  <2> SUFFICES ASSUME ShowInv PROVE LateByFewTicks
    OBVIOUS
  <2>1. at \in Startup \cup Looping /\ waiting \in Nat /\ NoTickYet
    BY DEF ShowInv, ShowTypes, LoopTypes, TickTypes, LoopInv, MaxWaiting
  <2>2. CASE type = "MIC_UPDATE"
    <3>1. MicLoop
      BY <2>2 DEF ShowInv, LoopInv
    <3>2. CASE at \in Startup
      BY <2>1, <3>2 DEF NoTickYet, LateByFewTicks
    <3>3. CASE at \in Looping
      BY <2>1, <2>2, <3>1, <3>3 DEF MicLoop, LateByFewTicks, Looping
    <3> QED
      BY <2>1, <3>2, <3>3
  <2>3. CASE type # "MIC_UPDATE"
    <3>1. TickLoop /\ at # "convert"
      BY <2>3 DEF ShowInv, LoopInv, MicIsOff
    <3>2. CASE at \in Startup
      BY <2>1, <3>2 DEF NoTickYet, LateByFewTicks
    <3>3. CASE at \in Looping
      BY <2>1, <2>3, <3>1, <3>3 DEF TickLoop, LateByFewTicks, Looping
    <3> QED
      BY <2>1, <3>2, <3>3
  <2> QED
    BY <2>2, <2>3
<1> QED
  BY <1>1, ShowInvariant, PTL

-----------------------------------------------------------------------------
(***************************************************************************)
(* LedPattern, for suspenders of any lengths.                              *)
(***************************************************************************)
\* Every pointer of the map points into the strip.
LEMMA LedInStrip ==
  ASSUME NEW n \in Places
  PROVE  Led(n) \in Leds
BY LengthsAssumption, SMTT(30)
   DEF Places, Led, Leds, NumLeds, BackLen, pBackR, pBackL, pFrontR, pFrontL

\* No LED is at two places.
LEMMA LedOneToOne ==
  ASSUME NEW m \in OwnPlaces, NEW n \in OwnPlaces, Led(m) = Led(n)
  PROVE  m = n
BY LengthsAssumption, SMTT(60)
   DEF OwnPlaces, Places, Led, Leds, NumLeds, BackLen, pBackR, pBackL, pFrontR, pFrontL

\* Where a LED of the strip is: along the strip come the right of the back, the
\* front's right up and down, the fork of the right, that of the left, the
\* front's left up and down and the left of the back.
PlaceOf(l) ==
  LET r == l - BackLen   s == r - 2 * Front   t == s - 2 * BackSide   b == t - 2 * Front
  IN  IF r < 0 THEN l
      ELSE IF r < Front THEN 4 * BackLen + (Front - 1 - r)
      ELSE IF r < 2 * Front THEN 4 * BackLen + r
      ELSE IF s < BackSide THEN BackLen + BackBeg + (BackSide - 1 - s)
      ELSE IF s < 2 * BackSide THEN 2 * BackLen + BackBeg + (s - BackSide)
      ELSE IF t < Front THEN 4 * BackLen + 2 * Front + (Front - 1 - t)
      ELSE IF t < 2 * Front THEN 4 * BackLen + 2 * Front + t
      ELSE IF b < BackSide THEN 3 * BackLen + (NumLeds - 1 - l)
      ELSE 2 * BackLen + (NumLeds - 1 - l)

\* Every LED has a place.
LEMMA LedOnto ==
  ASSUME NEW l \in Leds
  PROVE  PlaceOf(l) \in OwnPlaces /\ Led(PlaceOf(l)) = l
BY LengthsAssumption, SMTT(60)
   DEF PlaceOf, OwnPlaces, Places, Led, Leds, NumLeds, BackLen, pBackR, pBackL, pFrontR, pFrontL

\* A pixel of any pattern is moved to a row and a column of the suspenders.
LEMMA MovedOnGrid ==
  ASSUME NEW p, p \in [row: Nat, col: Nat, drow: Nat, dcol: Nat]
  PROVE  /\ Moved(p) \in [row: 0 .. Front - 1, col: 0 .. 7, drow: Nat, dcol: Nat]
         /\ Moved(p) \in [row: Nat, col: Nat, drow: Nat, dcol: Nat]
<1> DEFINE r == (p.row + p.drow) % Front
           c == (p.col + p.dcol) % Columns
<1>1. r \in 0 .. Front - 1
  BY LengthsAssumption
<1>2. c \in 0 .. 7
  BY DEF Columns
<1>3. Moved(p) = [row |-> r, col |-> c, drow |-> p.drow, dcol |-> p.dcol]
  BY DEF Moved, At
<1> HIDE DEF r, c
<1>4. r \in Nat /\ c \in Nat
  BY <1>1, <1>2, LengthsAssumption
<1> QED BY <1>1, <1>2, <1>3, <1>4

\* There a pixel that is shown is written through a pointer of the map, and one
\* of its column's array unless the index wraps.
LEMMA GridInMap ==
  ASSUME NEW p \in [row: 0 .. Front - 1, col: 0 .. 7, drow: Nat, dcol: Nat], Shown(p)
  PROVE  WrittenInMap(p)
<1> DEFINE s == p.col % 2
<1>1. s \in 0 .. 1 /\ p.row \in 0 .. Front - 1 /\ p.col \in 0 .. 7
  OBVIOUS
<1>2. BackLen \in Nat /\ Front \in Nat /\ BackBeg \in Nat
  BY LengthsAssumption DEF BackLen
<1>3. SideOnBack(p) \in 0 .. 1
  BY <1>1 DEF SideOnBack
<1>4. \A x \in 0 .. 1 : x * BackLen = (IF x = 1 THEN BackLen ELSE 0) /\ x * Front = (IF x = 1 THEN Front ELSE 0)
  BY <1>2
<1> DEFINE k == SideOnBack(p) * BackLen   f == s * Front
<1>5. k \in {0, BackLen} /\ f \in {0, Front}
  BY <1>1, <1>3, <1>4
<1>6. CASE p.col \in {0, 1}
  <2>1. Place(p) = k + (p.row - BackBeg)
    BY <1>6 DEF Place
  <2> HIDE DEF k, f
  <2> QED BY <1>1, <1>2, <1>5, <1>6, <2>1, LengthsAssumption
      DEF Shown, OnBack, WrittenInMap, Places, FirstPlace, PlacesOf, BackLen
<1>7. CASE p.col \in {2, 3}
  <2>1. Place(p) = 4 * BackLen + f + p.row
    BY <1>7 DEF Place
  <2> HIDE DEF k, f
  <2> QED BY <1>1, <1>2, <1>5, <1>7, <2>1, LengthsAssumption
      DEF WrittenInMap, Places, FirstPlace, PlacesOf, BackLen
<1>8. CASE p.col \in {4, 5}
  <2>1. Place(p) = 4 * BackLen + 2 * Front + f + p.row
    BY <1>8 DEF Place
  <2> HIDE DEF k, f
  <2> QED BY <1>1, <1>2, <1>5, <1>8, <2>1, LengthsAssumption
      DEF WrittenInMap, Places, FirstPlace, PlacesOf, BackLen
<1>9. CASE p.col \in {6, 7}
  <2>1. Place(p) = 2 * BackLen + k + (p.row - BackBeg)
    BY <1>9 DEF Place
  <2> HIDE DEF k, f
  <2> QED BY <1>1, <1>2, <1>5, <1>9, <2>1, LengthsAssumption
      DEF OnBack, Wraps, WrittenInMap, Places, FirstPlace, PlacesOf, BackLen
<1> QED BY <1>1, <1>6, <1>7, <1>8, <1>9

Pixel == [row: Nat, col: Nat, drow: Nat, dcol: Nat]
TheMap == pSuspenders = [n \in Places |-> Led(n)]
Moving == TheMap /\ pattern \in [Pixels -> Pixel]

LEMMA InitMoving == PatternInit => Moving
BY PatternAssumption DEF PatternInit, Moving, TheMap, Pixel

LEMMA MapIsOneToOne == TheMap => EachLedOnce
<1> SUFFICES ASSUME TheMap PROVE EachLedOnce
  OBVIOUS
<1>1. OwnPlaces \subseteq Places
  BY DEF OwnPlaces
<1>2. \A n \in Places : pSuspenders[n] \in Leds
  BY LedInStrip DEF TheMap
<1>3. \A m, n \in OwnPlaces : pSuspenders[m] = pSuspenders[n] => m = n
  BY <1>1, LedOneToOne DEF TheMap
<1>4. \A l \in Leds : \E n \in OwnPlaces : pSuspenders[n] = l
  BY <1>1, LedOnto DEF TheMap
<1> QED BY <1>2, <1>3, <1>4 DEF EachLedOnce

\* Of the pixels at a LED one is the last.
LEMMA LastPixel ==
  ASSUME NEW here \in SUBSET Pixels, here # {}
  PROVE  \E x \in here : \A y \in here : y <= x
<1>1. numPixels \in Nat /\ here \subseteq Nat /\ \A y \in here : y <= numPixels
  BY PatternAssumption DEF Pixels
<1> DEFINE above == {n \in Nat : \A y \in here : y <= n}
<1>2. above \in SUBSET Nat /\ above # {}
  BY <1>1
<1>3. PICK x \in above : \A m \in above : ~ (<<m, x>> \in OpToRel(<, Nat))
  <2> HIDE DEF above
  <2> QED
    BY <1>2, NatLessThanWellFounded, WFMin
<1>4. x \in Nat /\ \A m \in above : ~ (m < x)
  BY <1>2, <1>3 DEF OpToRel
<1>5. x \in here
  <2> SUFFICES ASSUME x \notin here PROVE FALSE
    OBVIOUS
  <2>1. \A y \in here : y < x
    BY <1>1, <1>4
  <2>2. x - 1 \in Nat /\ \A y \in here : y <= x - 1
    <3>1. PICK z \in here : TRUE
      OBVIOUS
    <3>2. z \in Nat /\ z < x
      BY <1>1, <2>1, <3>1
    <3>3. ASSUME NEW y \in here PROVE y <= x - 1
      BY <1>1, <1>4, <2>1
    <3> HIDE DEF above
    <3> QED
      BY <1>4, <3>2, <3>3
  <2>3. x - 1 \in above
    BY <2>2
  <2> QED
    BY <1>4, <2>3
<1> QED BY <1>5

\* A frame of a moving pattern writes every pixel through the map, and the pixel
\* or a later one is at its LED afterwards.
LEMMA FrameDraws ==
  ASSUME Moving, MovingPattern
  PROVE  Moving' /\ PixelsDrawn
<1>1. \A x \in Pixels :
        pattern'[x] \in [row: 0 .. Front - 1, col: 0 .. 7, drow: Nat, dcol: Nat] /\ pattern'[x] \in Pixel
  BY MovedOnGrid DEF Moving, MovingPattern, Pixel
<1>2. Moving'
  BY <1>1 DEF Moving, TheMap, MovingPattern
<1>3. ASSUME NEW x \in Pixels, Shown(pattern'[x])
      PROVE  WrittenInMap(pattern'[x]) /\ strip'[pSuspenders[Place(pattern'[x])]][1] >= x
  <2>1. WrittenInMap(pattern'[x]) /\ Place(pattern'[x]) \in Places
    BY <1>1, <1>3, GridInMap DEF WrittenInMap
  <2> DEFINE led == pSuspenders[Place(pattern'[x])]
             here == {y \in Pixels : Shown(pattern'[y]) /\ pSuspenders[Place(pattern'[y])] = led}
  <2>2. led \in Leds
    BY <2>1, LedInStrip DEF Moving, TheMap
  <2>3. x \in here /\ here \in SUBSET Pixels
    BY <1>3
  <2>4. pSuspenders' = pSuspenders
    BY DEF MovingPattern
  <2>5. strip'[led] = <<CHOOSE z \in here : \A y \in here : y <= z>>
    <3>1. strip' = [l \in Leds |->
            LET at_l == {y \in Pixels : Shown(pattern'[y]) /\ pSuspenders[Place(pattern'[y])] = l}
            IN  IF at_l = {} THEN Dark ELSE <<CHOOSE z \in at_l : \A y \in at_l : y <= z>>]
      BY DEF MovingPattern, Drawn
    <3>2. strip'[led] = IF here = {} THEN Dark ELSE <<CHOOSE z \in here : \A y \in here : y <= z>>
      BY <2>2, <3>1
    <3> QED
      BY <2>3, <3>2
  <2> HIDE DEF here, led
  <2>6. (CHOOSE z \in here : \A y \in here : y <= z) >= x
    <3>1. \E z \in here : \A y \in here : y <= z
      BY <2>3, LastPixel
    <3>2. \A y \in here : y <= (CHOOSE z \in here : \A y_1 \in here : y_1 <= z)
      BY <3>1
    <3>3. (CHOOSE z \in here : \A y \in here : y <= z) \in here
      BY <3>1
    <3> QED
      BY <2>3, <3>2, <3>3 DEF Pixels
  <2>7. strip'[led][1] >= x
    BY <2>5, <2>6
  <2> QED
    BY <2>1, <2>7 DEF led
<1> QED BY <1>2, <1>3 DEF PixelsDrawn

\* Whatever the lengths, the pattern and its velocities, no frame writes a pixel
\* through a pointer outside the map, for the 33 rows of the front just fit, and
\* every pixel that is shown is on the strip or covered by a later one.
THEOREM PixelsStayOnStrip == PatternSpec => PixelsOnStrip
<1>1. Moving /\ [PatternNext]_patternvars => Moving' /\ [PixelsDrawn]_patternvars
  <2>1. Moving /\ UNCHANGED patternvars => Moving'
    BY DEF Moving, TheMap, patternvars
  <2> QED
    BY <2>1, FrameDraws DEF PatternNext
<1> QED BY <1>1, InitMoving, PTL DEF PatternSpec, PixelsOnStrip

-----------------------------------------------------------------------------
(***************************************************************************)
(* LedImage, for images of any size and a card that may fail.              *)
(***************************************************************************)
LEMMA FrameMoving == FrameSpec => []Moving
<1>1. FrameInit => Moving
  BY InitMoving DEF FrameInit
<1>2. Moving /\ [FrameNext]_framevars => Moving'
  <2> SUFFICES ASSUME Moving, [FrameNext]_framevars PROVE Moving'
    OBVIOUS
  <2>1. CASE UNCHANGED <<pSuspenders, pattern>>
    BY <2>1 DEF Moving, TheMap
  <2>2. CASE MovePattern
    BY <2>2, FrameDraws DEF MovePattern
  <2>3. Load \/ FrameCycle \/ UNCHANGED framevars => UNCHANGED <<pSuspenders, pattern>>
    BY DEF Load, FrameCycle, framevars, patternvars
  <2> QED
    BY <2>1, <2>2, <2>3 DEF FrameNext
<1> QED BY <1>1, <1>2, PTL DEF FrameSpec

\* The constructor's map, whatever the lengths, has every LED of the strip at
\* exactly one place, and no frame changes it.
THEOREM MapOnce == FrameSpec => []EachLedOnce
<1>1. Moving => EachLedOnce
  BY MapIsOneToOne DEF Moving
<1> QED BY <1>1, FrameMoving, PTL

\* As PixelsStayOnStrip, also when the sequence was set up for an image.
THEOREM MovesStayOnStrip == FrameSpec => MovesOnStrip
<1>1. Moving /\ [FrameNext]_framevars => [sequence = "MOVING_PATTERN" => PixelsDrawn]_framevars
  <2>1. CASE MovePattern
    BY <2>1, FrameDraws DEF MovePattern
  <2>2. Load \/ FrameCycle => sequence # "MOVING_PATTERN"
    BY DEF Load, FrameCycle
  <2> QED
    BY <2>1, <2>2 DEF FrameNext
<1> QED BY <1>1, FrameMoving, PTL DEF FrameSpec, MovesOnStrip

(***************************************************************************)
(* What the loader has left, the file opened or not, and where the frames  *)
(* have come to.                                                           *)
(***************************************************************************)
NoFile == pPixels = <<>> /\ numFrames = 0 /\ numLeds = 0 /\ currentFrameIdx = 0
FromHeader ==
  \E h \in Heads : \E n \in Nat :
    /\ pPixels = Buffer(h, n) /\ numFrames = h.imgHeight /\ numLeds = h.imgWidth
    /\ currentFrameIdx \in Nat /\ (currentFrameIdx = 0 \/ currentFrameIdx < h.imgHeight)

ImageInv == image \in Images /\ (NoFile \/ (loaded /\ FromHeader))

LEMMA HeadsAreHeaders == image \in Images => Heads \subseteq Header
BY ImageAssumption DEF Heads, HeadOf, Header

LEMMA LoadKeeps == ImageInv /\ Load => ImageInv'
<1> SUFFICES ASSUME ImageInv, Load PROVE ImageInv'
  OBVIOUS
<1>1. image' = image /\ image \in Images /\ loaded' /\ currentFrameIdx' = 0 /\ ~loaded
  BY DEF Load, ImageInv
<1>2. CASE UNCHANGED <<pPixels, numFrames, numLeds>>
  BY <1>1, <1>2 DEF ImageInv, NoFile
<1>3. ASSUME NEW h \in Heads, NEW n \in PixelBytes(h),
             pPixels' = Buffer(h, n), numFrames' = h.imgHeight, numLeds' = h.imgWidth
      PROVE  ImageInv'
  <2>1. h \in Header /\ image.length \in Nat
    BY <1>1, HeadsAreHeaders, ImageAssumption
  <2>2. n \in Nat
    BY <2>1 DEF PixelBytes, Lesser, Header
  <2>3. Heads' = Heads
    BY <1>1 DEF Heads
  <2>4. FromHeader'
    <3>1. Buffer(h, n) = Buffer(h, n)' /\ h.imgHeight = h.imgHeight'
      BY DEF Buffer, Swapped
    <3> QED
      BY <1>1, <1>3, <2>2, <2>3, <3>1 DEF FromHeader
  <2> QED
    BY <1>1, <2>4 DEF ImageInv
<1> QED
  BY <1>2, <1>3 DEF Load

LEMMA FrameKeeps == ImageInv /\ FrameCycle => ImageInv'
<1> SUFFICES ASSUME ImageInv, FrameCycle PROVE ImageInv'
  OBVIOUS
<1>1. /\ image' = image /\ image \in Images /\ loaded' = loaded /\ loaded
      /\ pPixels' = pPixels /\ numFrames' = numFrames /\ numLeds' = numLeds /\ currentFrameIdx' = NextFrame
  BY DEF FrameCycle, ImageInv
<1>2. CASE NoFile
  BY <1>1, <1>2 DEF ImageInv, NoFile, NextFrame
<1>3. CASE FromHeader
  <2>1. PICK h \in Heads, n \in Nat :
          /\ pPixels = Buffer(h, n) /\ numFrames = h.imgHeight /\ numLeds = h.imgWidth
          /\ currentFrameIdx \in Nat /\ (currentFrameIdx = 0 \/ currentFrameIdx < h.imgHeight)
    BY <1>3 DEF FromHeader
  <2>2. h.imgHeight \in Nat
    BY <1>1, HeadsAreHeaders DEF Header
  <2>3. NextFrame \in Nat /\ (NextFrame = 0 \/ NextFrame < h.imgHeight)
    BY <2>1, <2>2 DEF NextFrame
  <2>4. Heads' = Heads /\ h \in Heads'
    BY <1>1 DEF Heads
  <2>5. pPixels' = Buffer(h, n) /\ numFrames' = h.imgHeight /\ numLeds' = h.imgWidth
    BY <1>1, <2>1
  <2>6. FromHeader'
    BY <1>1, <2>3, <2>4, <2>5 DEF FromHeader, Buffer, Swapped
  <2> QED
    BY <1>1, <2>6 DEF ImageInv
<1> QED
  BY <1>2, <1>3 DEF ImageInv

LEMMA FrameImage == FrameSpec => []ImageInv
<1>1. FrameInit => ImageInv
  BY DEF FrameInit, ImageInv, NoFile
<1>2. ImageInv /\ [FrameNext]_framevars => ImageInv'
  <2>1. ImageInv /\ UNCHANGED cycle => ImageInv'
    <3> SUFFICES ASSUME ImageInv, UNCHANGED cycle PROVE ImageInv'
      OBVIOUS
    <3>1. /\ image' = image /\ loaded' = loaded /\ pPixels' = pPixels /\ numFrames' = numFrames
          /\ numLeds' = numLeds /\ currentFrameIdx' = currentFrameIdx
      BY DEF cycle
    <3>2. Heads' = Heads
      BY <3>1 DEF Heads
    <3>3. FromHeader => FromHeader'
      BY <3>1, <3>2 DEF FromHeader, Buffer, Swapped
    <3>4. NoFile => NoFile'
      BY <3>1 DEF NoFile
    <3> QED
      BY <3>1, <3>3, <3>4 DEF ImageInv
  <2>2. MovePattern \/ UNCHANGED framevars => UNCHANGED cycle
    BY DEF MovePattern, framevars
  <2> QED
    BY <2>1, <2>2, LoadKeeps, FrameKeeps DEF FrameNext
<1> QED BY <1>1, <1>2, PTL DEF FrameSpec

(***************************************************************************)
(* What a frame shows, whatever the header says.                           *)
(***************************************************************************)
\* All frames are made of pixels the header counts.
LEMMA FrameFits ==
  ASSUME NEW h \in Header, NEW f \in 0 .. h.imgHeight - 1, NEW l \in Nat, l < h.imgWidth
  PROVE  /\ f * 3 * h.imgWidth = 3 * (f * h.imgWidth) /\ f * (3 * h.imgWidth) = 3 * (f * h.imgWidth)
         /\ f * h.imgWidth \in Nat
         /\ 3 * (f * h.imgWidth) + 3 * l + 2 < 3 * h.imgWidth * h.imgHeight
<1> DEFINE w == h.imgWidth   n == h.imgHeight
<1>1. w \in Nat /\ n \in Nat /\ h.imageSize \in Nat
  BY DEF Header
<1>2. f \in Nat /\ f + 1 <= n
  BY <1>1
<1> HIDE DEF w, n
<1>3. (f + 1) * w <= n * w
  BY <1>1, <1>2
<1>4. (f + 1) * w = f * w + w /\ f * w \in Nat /\ n * w \in Nat
  BY <1>1, <1>2
<1>5. f * 3 * w = 3 * (f * w) /\ f * (3 * w) = 3 * (f * w) /\ 3 * w * n = 3 * (n * w)
  BY <1>1, <1>2
<1>6. l < w
  BY DEF w
<1>7. 3 * (f * w) + 3 * l + 2 < 3 * (n * w)
  BY <1>1, <1>3, <1>4, <1>6
<1> QED
  BY <1>4, <1>5, <1>7 DEF w, n

\* The bytes of a pixel come in the order red, green, blue out of the file's
\* blue, green, red.
LEMMA SwappedInPixel ==
  ASSUME NEW h \in Header, NEW k \in Nat, NEW c \in 1 .. 3, 3 * k + c - 1 < 3 * h.imgWidth * h.imgHeight
  PROVE  Swapped(h, 3 * k + c - 1) = 3 * k + 3 - c
<1> DEFINE i == 3 * k + c - 1   m == 3 * h.imgWidth * h.imgHeight
<1>1. i % 3 = c - 1
  <2>1. i = 3 * k + (c - 1) /\ c - 1 \in 0 .. 2
    OBVIOUS
  <2> QED
    BY <2>1
<1>2. m \in Nat /\ i \in Nat /\ i < m
  BY DEF Header
<1>3. Swapped(h, i) = CASE i % 3 = 0 -> i + 2 [] i % 3 = 1 -> i [] i % 3 = 2 -> i - 2
  <2> HIDE DEF i
  <2>1. ~ (i >= m)
    BY <1>2
  <2> QED
    BY <2>1 DEF Swapped
<1>4. CASE c = 1
  BY <1>1, <1>3, <1>4
<1>5. CASE c = 2
  BY <1>1, <1>3, <1>5
<1>6. CASE c = 3
  BY <1>1, <1>3, <1>6
<1> QED
  BY <1>4, <1>5, <1>6

\* Whatever the header says of width, height and size, be it the file's or what
\* was in memory, and however much of the file the card has delivered, a frame is
\* made of pixels of the image, each LED's in its place and its colors in order;
\* what is not the file's is a byte that was not read or has no room in the buffer.
THEOREM FramesArePixels == FrameSpec => FrameIsPixels
<1> DEFINE Row == \A l \in LedsSet :
             LET pixel == currentFrameIdx * numLeds + l
             IN  /\ pixel < numLeds * numFrames
                 /\ \A c \in 1 .. 3 : strip'[l][c] \in {3 * pixel + 3 - c, Unread}
<1>1. ASSUME ImageInv, FrameCycle, numFrames > 0 PROVE Row
  <2> SUFFICES ASSUME NEW l \in LedsSet, NEW c \in 1 .. 3
               PROVE  /\ currentFrameIdx * numLeds + l < numLeds * numFrames
                      /\ strip'[l][c] \in {3 * (currentFrameIdx * numLeds + l) + 3 - c, Unread}
    OBVIOUS
  <2>1. l \in Leds /\ l \in Nat /\ l < numLeds
    BY LengthsAssumption DEF LedsSet, Leds, NumLeds
  <2>2. FromHeader
    BY <1>1, <2>1 DEF ImageInv, NoFile
  <2>3. PICK h \in Heads, n \in Nat :
          /\ pPixels = Buffer(h, n) /\ numFrames = h.imgHeight /\ numLeds = h.imgWidth
          /\ currentFrameIdx \in Nat /\ (currentFrameIdx = 0 \/ currentFrameIdx < h.imgHeight)
    BY <2>2 DEF FromHeader
  <2>4. h \in Header /\ h.imgHeight > 0
    BY <1>1, <2>3, HeadsAreHeaders DEF ImageInv
  <2>5. currentFrameIdx \in 0 .. h.imgHeight - 1 /\ h.imgWidth \in Nat /\ h.imgHeight \in Nat
    BY <2>3, <2>4 DEF Header
  <2> DEFINE k == currentFrameIdx * h.imgWidth   m == 3 * h.imgWidth * h.imgHeight
             t == h.imgWidth * h.imgHeight
  <2>6. currentFrameIdx * 3 * numLeds = 3 * k /\ k \in Nat /\ 3 * k + 3 * l + 2 < m
    BY <2>1, <2>3, <2>4, <2>5, FrameFits
  <2>7. m \in Nat /\ t \in Nat /\ m = 3 * t
    BY <2>5
  <2>8. strip'[l][c] = Byte(currentFrameIdx * 3 * numLeds + 3 * l + c - 1)
    BY <1>1, <2>1 DEF FrameCycle, setLeds
  <2>9. currentFrameIdx * numLeds = k /\ numLeds * numFrames = t
    BY <2>3
  <2> HIDE DEF k, m, t
  <2> DEFINE p == k + l
  <2>10. /\ p \in Nat /\ 3 * p + c - 1 < m /\ 3 * k + 3 * l + c - 1 = 3 * p + c - 1
         /\ p < t
    BY <2>1, <2>6, <2>7
  <2> HIDE DEF p
  <2>11. Swapped(h, 3 * p + c - 1) = 3 * p + 3 - c
    BY <2>4, <2>10, SwappedInPixel DEF m
  <2>12. Byte(3 * p + c - 1) \in {3 * p + 3 - c, Unread}
    <3> DEFINE i == 3 * p + c - 1
    <3>1. i \in DOMAIN pPixels => pPixels[i] \in {Swapped(h, i), Unread}
      <4> HIDE DEF i
      <4> QED
        BY <2>3 DEF Buffer
    <3> QED
      BY <2>11, <3>1 DEF Byte
  <2>13. strip'[l][c] = Byte(3 * p + c - 1)
    BY <2>6, <2>8, <2>10
  <2> QED
    BY <2>9, <2>10, <2>12, <2>13 DEF p
<1>2. ImageInv /\ [FrameNext]_framevars => [sequence = "FRAME_CYCLE" /\ loaded /\ numFrames > 0 => Row]_framevars
  <2>1. Load => ~loaded
    BY DEF Load
  <2>2. MovePattern => sequence # "FRAME_CYCLE"
    BY DEF MovePattern
  <2> QED
    BY <1>1, <2>1, <2>2 DEF FrameNext
<1> QED BY <1>2, FrameImage, PTL DEF FrameSpec, FrameIsPixels
=============================================================================

------------------------------ MODULE LedShow ------------------------------
(***************************************************************************)
(* src/main.cpp with src/modules/LedModule.cpp: the main loop, the timer   *)
(* tick that asks it for a frame, and the microphone that PdmDriver serves *)
(* at interrupt level.                                                     *)
(*                                                                         *)
(* main calls startOperations, starts the timer and then, over and over,   *)
(* tests bOperationRequested, performs the operation, clears the flag and  *)
(* sleeps in __WFI until an interrupt.  Interrupts come between any two    *)
(* steps, but not while a frame is shifted out (updateLeds).  A tick comes *)
(* every 50 ms, which is longer than an iteration of the loop takes:       *)
(* TickInTime.                                                             *)
(***************************************************************************)
EXTENDS PdmDriver

CONSTANTS
  Types,       (* the ledSequence types the program may be built with        *)
  NumFrames,   (* colors or frames of the sequence                           *)
  Samples      (* samples of a microphone buffer                             *)

ASSUME ShowAssumption ==
  /\ Types \subseteq {"COLOR_CYCLE", "FRAME_CYCLE", "MIC_UPDATE"}
  /\ NumFrames \in Nat \ {0} /\ Samples \in Nat \ {0}

VARIABLES
  type,                 (* pCurrentSequence->type                            *)
  at,                   (* where main is                                     *)
  starts,               (* calls of startOperations done                     *)
  bOperationRequested,
  current,              (* currentColorIdx or currentFrameIdx                *)
  shown,                (* the frame on the strip, NoFrame before the first  *)
  ticking, in_time,     (* the timer is started; the loop has slept since    *)
                        (* the last tick                                     *)
  waiting,              (* ticks since an operation began last               *)
  bFilledBuffer, pPdmFilledBuffer,
  sample, from          (* the conversion: the sample next, the buffer that  *)
                        (* was to be converted                               *)

mic == <<bFilledBuffer, pPdmFilledBuffer>>
conversion == <<sample, from>>
loop == <<type, at, starts, current, shown>>
tick == <<bOperationRequested, ticking, in_time, waiting>>
showvars == <<vars, loop, tick, mic, conversion>>

NoFrame == NumFrames
MaxWaiting == 4    \* bounds the count of ticks

-----------------------------------------------------------------------------
ShowInit ==
  /\ Init
  /\ type \in Types
  /\ at = "ctor" /\ starts = 0
  /\ bOperationRequested = FALSE /\ ticking = FALSE /\ in_time = TRUE /\ waiting = 0
  /\ current = 0 /\ shown = NoFrame
  /\ bFilledBuffer = FALSE /\ pPdmFilledBuffer = None
  /\ sample = 0 /\ from = None

\* updateLeds shifts out in a critical region.
Masked == at \in {"clear out", "out"}
Asleep == at = "wfi"

(***************************************************************************)
(* Interrupts.                                                             *)
(***************************************************************************)
\* pdm_event_handler; what comes while a buffer waits is dropped.
HandlerTellsNothing(b) ==                                    \* mutant
  UNCHANGED bFilledBuffer /\ pPdmFilledBuffer' = b
pdm_event_handler(b) ==
  IF bFilledBuffer THEN UNCHANGED mic
                   ELSE bFilledBuffer' = TRUE /\ pPdmFilledBuffer' = b

\* An interrupt ends the sleep.
Wakes == at' = IF Asleep THEN "test" ELSE at

IrqPdm ==
  /\ ~Masked
  /\ PDM_IRQHandler
  /\ IF ev_end THEN pdm_event_handler(handed') ELSE UNCHANGED mic
  /\ Wakes
  /\ UNCHANGED <<type, starts, current, shown, tick, conversion>>

\* app_led_timer_dispatch, called by app_timer.
RequestsNothing == UNCHANGED bOperationRequested              \* mutant
Requests == bOperationRequested' = TRUE
TickInTime == in_time

Tick ==
  /\ ~Masked /\ ticking /\ TickInTime /\ ~Pending
  /\ Requests
  /\ in_time' = FALSE
  /\ waiting' = IF waiting < MaxWaiting THEN waiting + 1 ELSE waiting
  /\ Wakes
  /\ UNCHANGED <<vars, type, starts, current, shown, ticking, mic, conversion>>

Sampling == Hardware /\ UNCHANGED <<loop, tick, mic, conversion>>

-----------------------------------------------------------------------------
(***************************************************************************)
(* main, up to the loop.                                                   *)
(***************************************************************************)
Goes(a, b) == at = a /\ at' = b /\ ~Pending
NotMain == UNCHANGED <<type, starts, current, shown>>

\* The constructor of LedModule, the SD card aside.
Construct ==
  /\ Goes("ctor", "clear") /\ NotMain
  /\ PdmInit
  /\ UNCHANGED <<tick, mic, conversion>>

\* startOperations: all LEDs off, shown, and the microphone started.
Clear ==
  /\ Goes("clear", "clear out") /\ NotMain
  /\ UNCHANGED <<vars, tick, mic, conversion>>

AfterClear == IF type = "MIC_UPDATE" THEN "mic" ELSE "started"
ClearOut ==
  /\ at = "clear out" /\ at' = AfterClear /\ NotMain
  /\ UNCHANGED <<vars, tick, mic, conversion>>

\* The second call finds the driver busy or running.
StartMic ==
  /\ NotMain
  /\ \/ Goes("mic", "mic task") /\ StartBegin
     \/ Goes("mic", "started") /\ (StartRunning \/ Busy)
     \/ Goes("mic task", "started") /\ StartTask
  /\ UNCHANGED <<tick, mic, conversion>>

\* Between the calls the timer is made, after the second it is started.
Started ==
  /\ at = "started" /\ ~Pending
  /\ starts' = starts + 1
  /\ IF starts = 0 THEN at' = "clear" /\ UNCHANGED ticking
                   ELSE at' = "test" /\ ticking' = TRUE
  /\ UNCHANGED <<vars, type, current, shown, bOperationRequested, in_time, waiting, mic, conversion>>

-----------------------------------------------------------------------------
(***************************************************************************)
(* The loop.                                                               *)
(***************************************************************************)
Test ==
  /\ at = "test" /\ ~Pending
  /\ IF bOperationRequested THEN at' = "perform" /\ waiting' = 0
                            ELSE at' = "tested" /\ UNCHANGED waiting
  /\ UNCHANGED <<vars, type, starts, current, shown, bOperationRequested, ticking, in_time, mic, conversion>>

\* An interrupt served before the __WFI does not keep it from sleeping.
Sleep ==
  /\ Goes("tested", "wfi") /\ NotMain
  /\ in_time' = TRUE
  /\ UNCHANGED <<vars, bOperationRequested, ticking, waiting, mic, conversion>>

\* TimerEventHandler, up to updateLeds.
SetLeds ==
  /\ type # "MIC_UPDATE" /\ Goes("perform", "out")
  /\ shown' = current
  /\ UNCHANGED <<vars, type, starts, current, tick, mic, conversion>>

MicUpdate ==
  /\ type = "MIC_UPDATE"
  /\ \/ ~bFilledBuffer /\ Goes("perform", "done") /\ UNCHANGED <<mic, conversion>>
     \/ /\ bFilledBuffer /\ Goes("perform", "convert")
        /\ bFilledBuffer' = FALSE
        /\ sample' = 0 /\ from' = pPdmFilledBuffer
        /\ UNCHANGED pPdmFilledBuffer
  /\ NotMain /\ UNCHANGED <<vars, tick>>

\* The loop that reads the samples through pPdmFilledBuffer.
Convert ==
  /\ at = "convert" /\ ~Pending
  /\ IF sample < Samples THEN sample' = sample + 1 /\ UNCHANGED <<at, from>>
                         ELSE at' = "out" /\ from' = None /\ UNCHANGED sample
  /\ NotMain /\ UNCHANGED <<vars, tick, mic>>

\* updateLeds has shifted the frame out; the index goes on.
NextIndexStuck == current' = current                         \* mutant
NextIndex == current' = IF current + 1 >= NumFrames THEN 0 ELSE current + 1

ShiftedOut ==
  /\ at = "out" /\ at' = "done"
  /\ IF type = "MIC_UPDATE" THEN UNCHANGED current ELSE NextIndex
  /\ UNCHANGED <<vars, type, starts, shown, tick, mic, conversion>>

\* The flag is cleared after the operation, a tick that came meanwhile with it.
FlagCleared == bOperationRequested' = FALSE

Done ==
  /\ Goes("done", "tested") /\ NotMain
  /\ FlagCleared
  /\ UNCHANGED <<vars, ticking, in_time, waiting, mic, conversion>>

Main == \/ Construct \/ Clear \/ ClearOut \/ StartMic \/ Started
        \/ Test \/ Sleep \/ SetLeds \/ MicUpdate \/ Convert \/ ShiftedOut \/ Done

ShowNext == Main \/ IrqPdm \/ Tick \/ Sampling

ShowSpec == ShowInit /\ [][ShowNext]_showvars

\* The program runs on between interrupts, the clock and the microphone go on.
ShowFairSpec ==
  /\ ShowSpec
  /\ SF_showvars(Main) /\ WF_showvars(IrqPdm) /\ SF_showvars(Tick) /\ WF_showvars(Sampling)

-----------------------------------------------------------------------------
(***************************************************************************)
(* Properties.                                                             *)
(***************************************************************************)
\* Type invariant.
ShowTypeOK ==
  /\ TypeOK /\ type \in Types
  /\ at \in {"ctor", "clear", "clear out", "mic", "mic task", "started", "test", "tested",
             "perform", "convert", "out", "done", "wfi"}
  /\ starts \in 0 .. 2 /\ current \in 0 .. NumFrames - 1 /\ shown \in 0 .. NumFrames
  /\ bOperationRequested \in BOOLEAN /\ ticking \in BOOLEAN /\ in_time \in BOOLEAN
  /\ waiting \in 0 .. MaxWaiting
  /\ bFilledBuffer \in BOOLEAN /\ pPdmFilledBuffer \in {buffer_a, buffer_b, None}
  /\ sample \in 0 .. Samples /\ from \in {buffer_a, buffer_b, None}

\* FlagCleared loses a tick that comes while an operation is performed, and
\* __WFI sleeps over one that comes just before it.  Without the microphone the
\* next tick wakes the loop for good, so that a frame is one tick late at most;
\* with it a buffer may end the sleep between the two, and it is two.
LateByFewTicks == waiting <= IF type = "MIC_UPDATE" THEN 3 ELSE 2

\* Every frame of the sequence is shown again and again.
AllFramesShown ==
  type # "MIC_UPDATE" => \A f \in 0 .. NumFrames - 1 : []<>(shown = f)

\* The microphone is listened to for ever: buffer after buffer is converted.
MicHeard == type = "MIC_UPDATE" => []<>(at = "convert")

\* LedModule.cpp: "convert buffered signed 16-bit data".  What is converted is
\* one buffer, and one the microphone has filled and is not filling.
ConvertsFilledBuffer ==
  at = "convert" => pPdmFilledBuffer = from /\ filling # from
=============================================================================

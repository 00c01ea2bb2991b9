# A verification project for the nRF52 LED suspender firmware

TLA+ models of the firmware under `src/`, TLC configurations that check them on
small instances, and TLAPS proofs of what holds for every value of the
constants. Paths and line numbers are those of the repository.

## 1. The system

The firmware drives LED "suspenders" (two NeoPixel strips used as a bitmap
display) from an nRF52832. It is built with `DISABLE_BLE`: the parts of the
FruityMesh ancestor that are left in `inc/` (nodes, connections,
advertising) are headers only.

| Component | Source | State it keeps | Operations |
|---|---|---|---|
| Main loop | `src/main.cpp` | `bOperationRequested`, the module list | boot, the loop with `__WFI()`, `app_led_timer_dispatch`, `modulePinTriggerHandler` |
| LED module | `src/modules/LedModule.cpp`, `Module.cpp`, `utility/LedWrapper.cpp` | pattern, row and column counters, `bFilledBuffer`, the LED map | `TimerEventHandler`, `performOperation`, `updateLeds`, `setLeds`, the PDM handler |
| NeoPixel output | `src/devices/NeoCore.S` | none | cycle-counted output of one strip |
| SD card and image loader | `src/devices/fatfs.cpp`, `src/nrf/diskio.c` | card state, file system state | `init`, `__SD_Send_Cmd`, sector reads, BMP to pixels |
| SPI | `nrf51_peripherals/SPI_bus.cpp`, `SPI_slave.cpp` | device and chip select | single and multi-byte transfers |
| I2C | `nrf51_peripherals/I2C_LIB.cpp`, `src/nrf/i2c_api.c` | none | register reads and writes with retries |
| Queues and buffers | `utility/SimpleQueue.cpp`, `SimpleBuffer.cpp`, `SimplePushStack.cpp` | memory block, read and write pointers | put, peek, get, discard |
| Software timers | `src/nrf/app_timer.c` | timer list, operation queue, RTC1 counter and compare register | create, start, stop, stop all; the RTC1 and SWI handlers |
| PDM driver | `src/nrf/nrf_drv_pdm.c` | driver state, two buffers | init, start, stop, the PDM handler |
| Clock driver | `src/nrf/nrf_drv_clock.c` | request counts, handler lists | request, release, the interrupt handler, SoftDevice switches |
| GPIOTE drivers | `src/nrf/app_gpiote.c`, `nrf_drv_gpiote.c` | users, pin masks, channels | register, enable, disable, the event handler |
| UART driver | `src/nrf/nrf_drv_uart.c` | transfer state | tx, rx, abort, the handler |
| SoftDevice handler | `src/nrf/softdevice_handler.c` | event flags | the event pump |
| Critical regions, IRQ management | `src/nrf/app_util_platform.c`, `nrf_drv_common.c` | nesting count, resource owners | enter, exit, acquire, release |
| SDIO SD card driver | `src/nrf/app_sdcard.c` | command state machine | init, block reads and writes (not used by the program) |
| FatFs | `src/nrf/ff.c` | volume, sector window, directory and file objects | mount, open, read, close (the rest of ChaN's library is not called) |
| Startup | `system_nrf52.c`, `gcc_startup_nrf52.S`, `app_error*.c` | none | reset, errata, error handlers |

How they interact: `app_timer` calls `app_led_timer_dispatch` from the RTC1
interrupt every 50 ms; it sets `bOperationRequested`, and the main loop then
runs `performOperation` of the LED module, which computes a frame, possibly
from an image read through FatFs, `diskio`, `fatfs` and SPI or from microphone
samples the PDM interrupt put into a shared buffer, and shifts it out in a
critical region with all interrupts off. That region is what makes timer
interrupts late.

Hard behaviours: interrupt handlers and the main program share flags and
buffers without locks; timer operations are queued in one context and applied in
another while the RTC1 counter runs on, wraps and is cleared; a compare value may
be missed; queues fill up; card commands are answered late or never.

## 2. Plan

In the order of their weight for the program; all of it is done but the last point:

1. `TimerOpQueue`, `TimerOpFifo`, `AppTimer` with proofs: the timers everything
   else hangs on (section 3).
2. `SpiBus` with proofs, and above it `SdCard`: bytes, commands and sector reads (4, 5).
3. `PdmDriver` with proofs, and `LedShow`, which composes it with the main loop,
   the timer tick and the microphone buffers (6, 7).
4. `ClockDriver` with proofs: users of several priorities on one count (8).
5. `FatGeometry`, `FatRead` with proofs, and `FileStream`, which `FatRead`
   implements: the file the image comes from (9).
6. `LedPattern` with proofs, and `LedImage`, which composes it with the loader and
   the frames of an image (10).
7. `Gpiote` with proofs: `app_gpiote` users over the port events of
   `nrf_drv_gpiote` (11).
8. More theorems: `ListSound` for single-shot timers, and `Served` and `InTime` from bounds
   on the timeouts and the latency.

The layers meet at their promises: `SpiBus` justifies that `SdCard` takes a command
as one step; `SdCard` that a sector read of `FatRead` delivers all of its sectors or
fails; `FatRead` implements `FileStream`, which is what `LedImage` takes of `f_read`;
`LedShow` says that frames go on for ever, which is the fairness of `LedImage`.

Every module that keeps a type invariant names it `TypeOK` (`ShowTypeOK` in `LedShow`);
where there are proofs it is part of the inductive invariant. A run can be repeated
with `tlc -config <file> <module>`. The configurations that are not in the tables of
runs, "by hand" below, each check one statement that the code does not keep.

## 3. Software timers

### Modules

`TimerOpFifo` is what the operation queue promises: a bounded FIFO.
`TimerOpQueue` is `m_op_queue` step by step. A producer enters a critical
region, `UserOpAlloc` or `UserOpFull` (`user_op_alloc`), `UserOpFill`,
`UserOpEnque`; the consumer, without a lock, counts `first` up
(`ConsumerAdvance`, line 576), wraps it to 0 when it has reached `size`
(`ConsumerWrap`, 577-580) and only then reads the slot (`ConsumerRead`).
`PreemptsAt` says at which of the places between these steps a producer may come:
at none as configured (`APP_TIMER_CONFIG_IRQ_PRIORITY` is 0, `sdk_config.h:4603`, so
that no caller preempts the SWI handler); with a lower priority, which
`app_timer.h:50-59` allows for, at `"read"`, and at `"wrap"` too unless the compiler
stores `first` once (it is not volatile). The run takes `{"read"}`, which includes the
configured behaviour. With `{"wrap", "read"}` in `MCTimerOpQueue.cfg` TLC refutes
`ImplementsFifo`: while `first` is `size` no `last` makes `last + 1` equal to it, the
queue is never found full (line 801), and a producer fills the slot about to be read
and wraps `last` onto waiting operations. Raising the priority number alone is
therefore not safe in this code.

`AppTimer` is the rest of `app_timer.c`. The list reachable from
`mp_timer_id_head` is a sequence, its deltas `ticks_to_expire`. Its actions are
the RTC1 counter (`Tick`), the main program's calls, split where an interrupt
may come between (`StopClear`, `StopQueue`, `Sched`, `Return`), the RTC1 handler
(`RtcEnter`, `RtcExpire`, `RtcExit`), what a timeout handler may call, and
the SWI handler with its loops and the three steps that program the compare
register. `isr` and `loc` hold where the running handler is and its local
variables; `thread` the same for the main program. Two variables are not in the
code: `started`, the timers the application started and has not stopped, and
`remain`, the ticks each timer really has left. They are what the properties
compare the code's own bookkeeping with. A node inserted while it is in the list
is linked to itself; the model then stops (`isr = "lost"`), since every walk of
the list hangs there.

The model uses the queue as a FIFO, which `TimerOpQueue` is shown to be; the two
elapsed-tick slots, of which at most one is in use, are one optional value.

### Runs

| Run | What it asks | Bounds |
|---|---|---|
| `op_queue` | the ring is a FIFO though a slot is freed before it is read | 3 slots (two waiting: the wrap and the full queue occur), 3 operations, 2 producers, which may interrupt the consumer once `first` has wrapped |
| `timers` | list, deadlines, compare register, stopping | two timers with timeouts 3 and 4 on a counter of 10 values; queue of 2; interrupts up to 1 tick late |
| `timers_live` | a running timer ends, a periodic one restarts | one timer, timeouts 3 and 5, 14 counter values, stop_all |

Statements of the headers and comments that the code does not keep, which TLC refutes
within seconds, by hand:

| Configuration | Module | Statement | What happens |
|---|---|---|---|
| `MCAppTimerOneStopAll.cfg` | `MCAppTimerOne` | `CompareArmed` | stop_all and a start of the head in one critical region: the compare register keeps the old expiry |
| `MCAppTimerRestartRunning.cfg` | `MCAppTimer` | `SecondStartIgnored` (`app_timer.h:189`) | start and stop of a running timer, applied by one SWI: it is inserted twice |
| `MCAppTimerStopAllHandler.cfg` | `MCAppTimer` | `StoppedStaysQuiet` (`app_timer.h:206`) | stop_all in a handler, another handler is called in the same interrupt |
| `MCAppTimerStartsLate.cfg` | `MCAppTimer` | `NeverEarly` (`app_timer.h:175`) | a start half a counter range after the last expiry ends at once |

`RunningFlagExact` (`app_timer.c:86`) is not kept either: with it as the invariant of
`MCAppTimer.cfg` a stop that is refused for want of room leaves the timer in the list,
not marked as running.

The counter is small so that it wraps several times within a run and a
period is a sizeable part of it: wrap, half-range test and compare offset all come
into play. The offset and the minimum timeout are 2 and 3 (3 and 5 in the code).
`MaxLatency` bounds how long interrupts wait, or Tick could pass a whole
counter range in one handler; nothing in the code bounds that either. `Tick`
with interrupts pending stops at the bound, nothing else is limited by it.

`MayStart` holds the client's rules for the passing runs: it does not start a
timer that it started and that has neither ended nor been stopped
(`RestartRunning`), and does not start timers when the last expiry lies half the
range back (`StartsLate`). The configurations above show what happens otherwise. The run with
`stop_all` in a critical region turns deadlock checking off, since the RTC
that misses its deadline can leave the system with a `lost` list.

### Fairness

`FairSpec`: strong fairness of `Tick`, since the 32 kHz clock does not stop
and is only withheld by the latency bound; weak fairness of both interrupt
handlers and of the return of a timeout handler; the main program finishes a
call it is in; strong fairness of leaving a critical region, since an interrupt
may intervene. Nothing is assumed about whether the program starts or
stops anything.

### Proofs

`TimerOpQueueProofs`, for every `Size`, set of producers and operations:
`TypeCorrect` for every `PreemptsAt` (`first` is `size` only between its two stores,
never when it indexes the queue); for a `PreemptsAt` without `"wrap"` (`StoredOnce`, a
hypothesis of the theorems, for the case above)
`InductiveInvariant` (types; which producer is in its critical region and with which
slot; the slot being read is the one before `Front`, and nobody is in the critical
region while `first` has not been wrapped), and from it `SlotReservedAlways` and
`RefinesFifo`. The heart of the refinement is that the freed slot is the one
slot that is always kept empty: it becomes writable only after `last` has moved
to it, which takes another critical region, and the consumer does not advance
again before it has read. `NextContentsSeq` and `WrapArithmetic` do the
arithmetic of the wrap once.

`AppTimerProofs` has eight theorems.

`NoOperationStranded`, for every instance of `AppTimer` without assumptions about the
client. `NoStrandedOps` is not inductive; the invariant says who is bound to serve a
nonempty queue: a pending SWI, a main program that has queued but not pended, or an SWI
handler in or before its loop.

`TypeCorrect`, also for every instance. What it takes is that no delta becomes negative:
an inserted timer gets what is left of its ticks behind those before it, and the timer
behind gives up no more than it has. `DueAt`, the deltas summed up along the list, is a
recursive function; `SumsExist` and `DueAtGrows` prove by least counterexample
(`Induction`, from the library's `WFMin`) that it exists and grows, and `PlaceFits` that
the walk of `timer_list_insert` stops where it should.

`ListIsSound` and `StoppedIsQuiet`, for any number of timers, any timeouts, queue size
and latency, under what main.cpp does: all timers are periodic (`Repeated`; main.cpp:340
and 342 create no others) and a timer is started only if it is not started already
(`RestartRunning = FALSE`). Their inductive invariant `OrderInv` relates the list to the
operations that wait. A timer that the application does not count as started is out of
the list, and the restart list, with no start of it queued, or a stop that takes it out
is queued and no start behind it (`Settled`). A queued start whose turn comes first then
finds its timer out of the list, unless a start of the same batch has put it there and
the mark `is_running` makes the second one harmless (`StartsFree`). The case that breaks
this is a start of a running timer; `MCAppTimerRestartRunning.cfg` shows it.
`StoppedIsQuiet` adds `QuietInv`: outside the SWI handler whatever is marked running is
started, or its stop has not returned. At the return this rests on `NoOperationStranded`'s
invariant (no SWI pending means that the stop has been applied), and inside a critical region
on `app_timer_stop` clearing the mark before it queues. `app_timer_stop_all` does not
clear it, so the theorem has it called by the main program outside critical regions;
`MCAppTimerStopAllHandler.cfg` shows what happens in a handler. The program calls it
nowhere. `timers` checks the same two properties with a single-shot timer among the two.

`NoTimeoutEarly` and `NoPromiseEarly`, for any timers, modes, timeouts, counter width,
queue size and latency, with restarts of running timers and `stop_all` anywhere: the
handler is never called before the requested ticks have passed (`NeverEarly`), and the
deltas never put an expiry before its deadline (the lower half of `OnSchedule`). Two
conditions are needed. `StartsLate = FALSE`; `MCAppTimerStartsLate.cfg` shows the timeout
that comes at once without it. And `[]Served`: from the RTC1 interrupt that finds an
expiry to the end of the SWI handler's removal the counter does not come round, so that
the ticks counted as consumed really have passed. `Served` is part of `OnSchedule`, so that
`timers` checks it. The invariant `TimeInv` gives every promise the code makes a lower
bound on what it stands for: the deltas summed up (`ListLow`), the restart list
(`RestartLow`) and the queued starts, through what `TicksToExpire` will make of them
(`OpsLow`). Each bound counts the ticks since `m_ticks_latest` (`Elapsed`), and `Behind`
those by which `m_ticks_latest` is ahead of the deltas while expired timers are taken
out. Arithmetic modulo the counter's width is done once (`DiffMoved`,
`TicksToExpireIs`), and so is the effect of an insertion and a removal on the sums
(`SumsAre`, `InsertDue`, `RemoveDue`).

`AlwaysOnSchedule` is the whole of `OnSchedule`: beyond the above, with the interrupts served
the list promises no expiry later than its deadline by more than the time interrupts were
held up, so that periods do not drift. It needs more than the lower half. `MaxLatency` is at
most half the counter's range: a start is queued at a counter value that the expiry under way
may leave behind, by no more than the latency, and `list_insertions_handler` (line 631)
tells earlier from later by half the range. `[]InTime` says that the counter does
not come round to the last expiry that the list takes account of, and that a periodic timer's
expiry is served before its next period is over, and before half the range is. Without the
latter the handler finds the next expiry in the past, takes 0 for it (line 650), and the
timer's schedule is late from then on. `InTime` is part of `OnSchedule` too. The invariant
`HighInv` has an upper bound for each lower one of `TimeInv` (`ListHigh`, `RestartHigh`,
`OpsHigh`). They differ by `Slack`: while the
RTC stands still time passes and the counter does not show it, but only from the start of
the first timer to the end of the SWI handler that lists it (`RunsListed`), and `late`
counts those ticks.

`CompareIsArmed`, for every instance: with the interrupts served, the RTC runs and its
next COMPARE comes no later than the head is due, or as soon as the register allows
(`CompareArmed`). Its one condition, `[]Unmasked`, is that the main program calls no
app_timer function in a critical region; its regions (LedModule.cpp:399 and 406, and the
drivers' own) contain none. The invariant `CompareInv` says who is bound to set the register: a COMPARE is
pending or comes in time (`Expected`), or RTC1 has queued ticks, or the SWI handler has
been told to update it, or will find another head than at its entry. The last of these is
sound only because a run of the SWI handler that no expiry caused applies at most one
operation: calls outside critical regions wait for it, and calls of timeout handlers come
with an expiry. With several operations in one batch the head can leave the list and
return with another delta, which the handler, comparing the head with the old one
(app_timer.c:663), does not see. `MCAppTimerOneStopAll.cfg` shows this with `stop_all`. It
needs no `stop_all`: a start of a timer that goes before the head, a stop of the head and a
start of the head with a shorter timeout, queued in one critical region, do the same.
`SetInTime` is the step that writes the register: a value that passes the check at
app_timer.c:690 is reached in time although the counter moves between the steps
(`NoFarther`, `Between`).

Both use `ApartInvariant`, for every instance: unless the list is lost no timer is in it
twice, or in it and about to be restarted.

Only model-checked: `Served`, `InTime` and liveness. The
first two need an upper bound on how long the counter runs past an expiry, and each stop of
an overdue head puts that off by the register's least distance. `ListSound` for
single-shot timers is one of them as well: an expired single-shot timer may be started
again while it is still listed, and is taken out in time only because RTC1 and the SWI
handler agree on which timers have expired.

## 4. SPI transfers

`SpiBus` models the polled transfers of `SPI_bus.cpp` and their callers in
`SPI_slave.cpp`. A transfer is a sequence of phases; a phase has its number of
bytes, how many bytes the code writes ahead of the replies it has read
(`depth`, 1 or 2), and whether it clears `EVENTS_READY` first. `Calls` lists
the transfer functions as such sequences. The peripheral is external: a byte in
TXD, one being shifted, up to two replies, one event flag. `Put`, `Wait` and
`Read` are the three statements of the code's loops, `ShiftDone` the
peripheral's step; an interrupt that holds the code up is a `ShiftDone`
between two of them.
A byte is the number of its place in the phase, so that a reply that is taken
for another byte's shows as a wrong number. The values do not matter but for
one test: whether the last reply was 0xff, which is chosen (`rx_ff`).

Run `spi`: lengths 1 to 3, all calls in any order. Three is the least length at
which a pipelined loop has a beginning, a middle and an end. `NothingLost`,
`ReadyAnnounces` and `LeftClean` are what makes it correct to poll a single flag
and to write ahead; `TransferReturns` is its liveness, under weak fairness of the
peripheral and of the code (polling loops without anything else to do) and strong
fairness of `DeviceAnswers`: a device that is polled answers other than 0xff in
the end, which `SPI_TX_CMD_AND_READ_UNTIL_ZERO_RX` needs.

`SpiBusProofs` proves the three invariants for every set of positive lengths. They
are inductive together with `PhasesOK` (no more bytes under way than `depth`),
`ReadHolds` (who has cleared the flag finds a reply) and `IdleHolds`. Liveness is
only model-checked.

## 5. The SD card

`SdCard` is `fatfs.cpp` with `disk_initialize` and `disk_read` of `diskio.c`. The
bytes of a command are one step, which `SpiBus` justifies; `out` is what the
card has still to say, and a card that says nothing yet is a program that polls
(`StillPolling`). `stage` is the place in `init` or `read_sector`, and the
actions after it are the branches on the response. The card is external: it
may know CMD8 or not, may be in SD mode, idle or ready when the program starts
(the program may have been reset, the card not), may refuse every command, send
an error token, and be taken out and put in between any two steps. The result
of `read_sector`, which ends without a return statement, is any value.

| Run | What it asks | Bounds |
|---|---|---|
| `sd_card` | answers are heard and matched to their commands; RES_OK means all sectors, in order; init and read end | two kinds of cards, reads of 1 and 3 sectors, ACMD41 up to 3 times (20 in the code), so that the limit is reached |

By hand, with `MCSdCard`: `MCSdCardTimeout.cfg` (`CommandTimesOut`, the "timeout of 5
milliseconds" of `fatfs.cpp:281`, whose counter never moves) and `MCSdCardNoInit.cfg`
(`InitializedIsReady`: a card that never became ready is taken for initialised). TLC
refutes both. Two more are refuted when `MCSdCard.cfg` is changed: `SuccessIsOk` as its
invariant (the missing return statement), and `OkMeansRead` with `Cards <- MCByteCards`,
cards addressed by bytes: the passing run has cards addressed by sectors only.

`CallsEnd`, which is `InitEnds` and `ReadEnds`, leaves out the cases in which the code is known to
wait for ever, so that they say that there are no others: a card that is absent
or in SD mode, that does not know CMD8 (`while (1)`), or that sent an error
token. `FairSpec` assumes that the code runs on when the card lets it, and that a
card accepts CMD0 in the end if it is asked for ever. Nothing is assumed about
ACMD41.

`SdCardProofs` proves `TypeOK`, `HeardOut`, `AnswersInTurn` and `OkMeansRead` for any
cards, lengths of reads and number of tries, the last for cards addressed by sectors. The
invariant says, for each place of the code, what the card may still have to say (an R1 to a
command, the rest of an R3 or R7, a token, a block), and, for `OkMeansRead`, that the
sectors in the buffer are those asked for, one after the other, and that the sector on
its way is the one wanted next. `CallsEnd`, a liveness property, is only model-checked.

## 6. The PDM driver

`PdmDriver` is `nrf_drv_pdm.c` with the peripheral it drives. `PDM_IRQHandler` is
three actions, one for each event in the order of the code; the functions are
split where an interrupt changes the outcome: between setting the status and
triggering the task (`StartBegin`/`StartTask`, `StopBegin`/`StopTask`). As the
handler has the highest priority in the system the functions do not go on
while an event is pending. `InTime` is the one assumption on time: no interrupt
waits as long as a buffer takes to fill, which is 32 ms for 512 samples,
against 6 ms for the longest critical region. `full` (the buffer filled last) and
`ret` are not in the code.

Run `pdm`, which has no bounds: the state space is finite. `TransitionEnds` and
`StopStops` assume that the peripheral samples, the interrupt is served and a
function that was called ends. By hand: `MCPdmDriverStartStopping.cfg`
(`SuccessIsSampling`, `nrf_drv_pdm.h:177`), refuted: STARTED served between the
two steps of a stop sets the status back to running, and a start then succeeds
while the sampling stops.

`LedModuleProofs` proves `HandsFullBuffer`, `NextBufferSet` and `IdleIsQuiet`.
The invariant they need is `PtrFollows`, which says which buffer SAMPLE.PTR names
between END, STARTED and the swap, with three facts about when the peripheral
is off. The state space is finite, and the proof says why it holds.

## 7. The main loop and the frames

`LedShow` extends `PdmDriver` by `main.cpp` and `LedModule.cpp`: `at` is where
main is, from the constructor of `LedModule` over the two calls of
`startOperations` into the loop. Its steps are those of the code between which an
interrupt matters: the test of `bOperationRequested`, the operation, clearing the
flag, `__WFI`. While a frame is shifted out (`Masked`) no interrupt is served.
`Tick` is `app_led_timer_dispatch` and `IrqPdm` the PDM interrupt with
`pdm_event_handler`. `TickInTime` says that the loop sleeps at least once between
two ticks (50 ms). `waiting` counts the ticks since an operation began.

| Run | What it asks | Bounds |
|---|---|---|
| `led_show` | how late a frame may be, that each frame is shown for ever and the microphone heard | three frames, two samples in a buffer, `waiting` counted to 4 (the property allows 3) |
| `led_show_convert` (violation) | that what is converted is one full buffer that is not being filled | as above |

Two samples are enough to exchange the buffer in the middle of a conversion.
`ShowFairSpec`: main runs on between interrupts, hence strong fairness; the PDM
interrupt is served and the microphone samples; the RTC does not stop (`Tick`
strongly fair since a critical region may withhold it).

`LedModuleProofs`: `ShowDrivesPdm`, that `LedShow` implements `PdmDriver`, so that its
theorems hold in the program; `ShowTypeCorrect`; and `FramesComeSoon`
(`LateByFewTicks`) for sequences and buffers of any length. Every step is first
shown to have one of eight effects on flag, count and place (`Effect`); the invariant is
then about a small automaton. Without the microphone (`TickLoop`) a tick is only
possible after a sleep, which the tick ends; with it (`MicLoop`) a buffer may end the
sleep, and one more tick fits in. `ConvertsFilledBuffer` does not hold; that all frames
are shown and the microphone is heard is liveness.

## 8. The clock driver

`ClockDriver` is the request and release of a clock in `nrf_drv_clock.c` with
`POWER_CLOCK_IRQHandler`. The driver has the code twice, for the two clocks; the
module has it once. A user calls from a level, and a step is taken when no context of
the same or a higher level is in a call. The read of `lfclk_on` before the critical
region, the handler call and the count are steps of their own; so are the check and the
clearing of the event, the disabling of the interrupt and the store of `lfclk_on` in the
handler, and the two halves of `item_dequeue`. `holds` and `owed` are not in the code:
who holds a request, and whose handler is still to be called. `callers`, chosen at the
start and kept, says from which levels the users call and whether they release a clock
that has not started yet (`early`).

| Run | What it asks | Bounds |
|---|---|---|
| `clock` | the count, that a requested clock runs, `lfclk_on`, that a handler queued in time is called | four users, three with a handler item: all in the main program (where `main.cpp:98` and `327` call from; the interrupt preempts them anywhere), all at the interrupt's level, all above it (they preempt the handler anywhere), or one at each level, two in the main program, releasing at any time |

What holds in which case:

- `CountExact` in every case.
- `RunsWhenRequested` and `OnIsRunning` for `Disciplined` users: all of one level,
  whichever that is, and releasing a clock that is on. The code asks for neither.
  Without it, by hand: `MCClockDriverStopped.cfg` refutes `Runs` (one user at each
  level: the last release preempts a request that has found the clock on, and the
  clock is requested and off for ever), and the same file with `CallersEarly` and
  `OnRuns` (a release between the STARTED event and its interrupt: the handler then marks
  a stopped clock as on). The program at hand is disciplined: one caller, the main program,
  which never releases.
- `ToldInTime` for disciplined users that do not interrupt the handler. The header's
  promise, that every handler is called (`nrf_drv_clock.h:133`), is more:
  `MCClockDriverForgotten.cfg` refutes `AllTold` for users in the main program (the
  interrupt comes between the read of `lfclk_on` and the queueing of the item, and nobody
  calls the handler any more), and the same file with `CallersHigh` does for users above
  the handler's level (an item queued between the two halves of `item_dequeue` is
  lost). The program passes NULL for the handler.

`FairSpec`: the oscillator settles, its interrupt is served and a call
that is not held up for ever ends.

`ClockDriverProofs`, for any number of users, any levels and any set of `Callers`:
`RequestsCounted`, from an invariant that says that a user whose call is under way
holds no request; `RequestedClockRuns` and `OnMeansRunning`, from `RunsInv`: at most one
call of a disciplined user is under way, what it has read of `lfclk_on` stays true until
its end, and from the STARTED event until the store of `lfclk_on`, over every step of
the handler, the clock is on and not marked so, which is why nobody can stop it.
`ToldInTime`, a liveness property, is only model-checked.

## 9. FatFs

### Modules

`FatGeometry` is what `find_volume` computes from the boot record, what it refuses, and
where `get_fat` and `clust2sect` look: pure operators, on DWORDs. `Wrap` takes every sum
and product modulo `Dword` (2^32) where the code's may exceed it: the size of the FATs
(`ff.c:3071`), the areas in front of the clusters (3086), the size needed (3103-3108),
the bases (3097-3107) and the sectors of `clust2sect`. `Exact` says of a boot record that
none of the sums wraps; `find_volume` does not look at that, and the model keeps it beside
the volume only for the properties. `FatRead` is the read path of
`ff.c` step by step, a step being what happens around one access of the disk: `f_mount`,
`Boot` and `Partition` (`find_volume`), `f_open` with `dir_sdi`, `dir_find` and
`dir_next`, `f_read` with `NextCluster`, `ReadSectors`, `LoadSector`, `Copy` and
`ReadDone`, and `f_close`. Nothing is ever written (`disk_write` of this build fails
always), so a sector's contents are its number: `win` and `file.buf` say what a
buffer holds, `winsect` and `file.sect` what the code takes it to hold. Any
`disk_read` may fail and leave its buffer in any state. The card may be inconsistent:
chains that end early, run in rings or leave the volume, directories without end, boot
records the code must refuse and boot records it accepts because their sums wrap. A volume may be mounted anew under an open file.

`FileStream` is what a reader of a file relies on: bytes in order, each once, fewer than
asked for only at the end, none at all after an error. `FatRead` implements it under
the mapping `Stream`, where the file's content is what the FAT chains together.

### Run

`fat_read`: sectors of 4 bytes, so that a FAT12 entry lies across two of them; volumes of
3 clusters and two sectors each (FAT12), behind a partition table (FAT16) and with a
directory of its own chain (FAT32); reads of 3, 6 and 13 bytes, which end within a sector,
behind one and behind a cluster; two mounts. `ReadsTheFile` is the refinement,
`CachesHold` that no buffer is trusted that does not hold its sector, `CallsEnd` that every
call returns. `ReadsInRegion` has two parts. Whatever boot record, FAT and directory say, a
file and a directory's clusters are read inside the volume, behind what `find_volume` takes
for the start of the clusters. When the sums of the boot record are exact, the FAT
is read where the BPB puts it, in front of directory and clusters, and the static root
directory in front of the clusters. `Dword` is 64, so that the sums can wrap: three boot
records (`Wrapped`) are accepted although the 16 entries of their FAT take 0 bytes, or two
FATs of half of all sectors take none, or all the areas together take none, as in the code a
FAT32 of 2^30 entries, two FATs of 0x80000000 sectors, and one of 0xFFFFFFFF. Of
them only the first part is asked. That the second needs its condition is shown by hand:
`AllReadsInRegion` in the place of `ReadsInRegion` in `MCFatRead.cfg` is refuted,
against "BPB_FATSz must not be less than the size needed" (`ff.c:3110`), by each of the
three records, whose FAT is read behind its end or out of the directory or the clusters.

The fairness of `CallsEnd` is `WF(FatFs)`: a call is sequential code and runs on.

### Proofs

`FatReadProofs`, of `FatGeometry` and for every boot record that is accepted:
`ClusterInVolume`, whatever wraps; and where the sums are `Exact`, `FatLoadsInFat` (the one
or two sectors `get_fat` loads are the FAT's: this is what the check of `FATSz` in
`find_volume` is for) and `PartsInOrder`. `Exact` is a condition on the card, not a thing the
code ensures; the three wrapped records above are why it cannot be left out. Of `FatRead`
`CachesAreTrusted`, `ImplementsFileStream`, which do not need it, and `ReadsWhereItBelongs`,
which is `ReadsInRegion` with both its parts, for every set of cards that meets
`CardsAssumption`: volumes end below sector 2^32 and so does the static directory, no
partition starts at and no FAT entry lies in sector 0xFFFFFFFF, which `move_window` takes
for none. The proof is from an
invariant that says that a mounted volume is one that was accepted, that the
directory and the file stand at sectors of their region, and what the program counter
implies of them. The assumption on `DwordEntries` is that a 32-bit offset does not wrap
within a directory (`MAX_DIR` is 2^21 bytes).

`ImplementsFileStream` is the refinement, for every such set of cards: every step of
`FatRead` is a step of `FileStream` or changes nothing of the stream. `LinkedIs` and
`ChainLengthIs` show, by induction along the chain, that the clusters of the file are well
defined whatever the FAT links (rings, links to nowhere), and `ContentIs` what bytes they
make: byte p is there exactly when p is inside the file and the chain reaches its cluster.
The invariant `SInv` has three parts. `Placed`: `clust` is the cluster of the byte in front
of `fptr`, and of the byte at it once the next cluster has been looked up; in the middle of a
sector the file's buffer holds that sector. `Delivered`: what the call has put into the
caller's buffer is the piece of the content from `Start` on, and with what is missing it
adds up to what was asked for or is left. `Calls`: which call is under way at which step,
and that a file object is never newer than the volume. `LoadNext` needs `CachesAreTrusted`'s
invariant, since a sector that is in the buffer already is not loaded again; `ClusterNext`
needs that the clusters behind `fptr` are clusters, so that `get_fat` gives the next link.
That a read which ends early ends at the end of the file is then arithmetic: a chain that
ends before the file does makes the read fail (`ReadBreaks`) instead.

## 10. Patterns and images on the suspenders

`LedPattern` has the map the constructor of `LedModule` fills and the frame of a
`MOVING_PATTERN`. The struct of four arrays of pointers is one stretch of places, as in
memory, because the code relies on it: the columns 6 and 7 lack the guard that 0 and 1
have, and a row above the back writes through a pointer of the array in front of the
one it names (`Wraps`). `LedImage` adds `loadPixelDataFromBmp` of `fatfs.cpp` and the
frames shown from its buffer. A byte of the pixel data is its offset, so that a
frame shows which bytes of the file it is made of.

Run `led_frames`, the real lengths (13, 7, 33; 186 LEDs): moving dots with
velocities that reach every place, and others that wrap; images narrower than the strip
and wider, as wide, with padded rows, with an `imageSize` of 0 or too small; a card that
fails when the file is opened, when its header is read (`Garbage` is what may then be in
memory) or between two sectors of the pixels.
`EachLedOnce` is the map, `MovesOnStrip` that a dot is written inside the struct and seen,
`MovesLightAll` that a dot which sweeps lights every LED again and again,
`FrameIsPixels` that a frame is made of the image's pixels, the l-th LED showing the pixel
numbered `currentFrameIdx * numLeds + l` with blue and red exchanged, whatever the header
says. `FrameFairSpec` assumes that frames go on, which is `AllFramesShown` of `LedShow`.

The code compares `imageSize` with neither width and height nor what `f_read` returned,
and takes rows for unpadded. So by hand, with `MCLedImage`, three statements are refuted:
`FramesInBuffer` as the invariant of `MCLedImage.cfg` (`fatfs.h:49`, "size of image in
bytes": with an `imageSize` of 0, or one too small, frames are read beside the buffer),
`AllDataRead` likewise (`fatfs.cpp:344`: uninitialised memory is shown), and
`FrameIsRow` in `MCLedImagePadded.cfg` (the loader takes the padding of a row for pixels,
as for any width that is no multiple of 4, the strip's own 186 included). What lies beside
the buffer is not modelled; the exchange of colors writes there too.

`LedModuleProofs` proves `MapOnce` for suspenders of any lengths, by the inverse of the
map (`PlaceOf`), and `MovesStayOnStrip`, that a pixel of any pattern is written through a
pointer of its column's array or, where the index wraps, of the struct, and is then on the
strip or covered by a later one: this needs `Front <= BackBeg + BackLen`, which the
real lengths just meet (33 and 33). Of images it proves `FramesArePixels`, for every header, read or not, and
whatever part of the file is delivered. The invariant (`ImageInv`) ties the buffer, both
counts and the index to one header.

## 11. GPIOTE

`Gpiote` is `app_gpiote.c` over the low-power events of `nrf_drv_gpiote.c`, which
`app_gpiote` uses in toggle mode. The port is external: the pins change when they like, and
the PORT event comes when DETECT rises. Main's calls are split where the handler may come
between (the search for another user of the pin, the two reads of the port, the setting
of SENSE); `GPIOTE_IRQHandler` is split at each read of the port and each pin,
because the pins move meanwhile. A one-shot user is disabled by its own handler.

Run `gpiote`: two pins, three users, one alone on its pin and one-shot, two that share the
other. `NeverDeaf` is what the repeated passes of the handler are for, `SensedWhenWanted`
relates users and pins, `LevelNoticed` is its liveness, for which only the interrupt
has to be served. By hand, with `MCGpiote`: `MCGpioteDirection.cfg` (`DirectionTold`: the
direction is made out from a state of the port read at another moment than the sense was
set) and `MCGpioteOneEvent.cfg` (`FailsWhole`: a registration that fails leaves its user
counted). Both are refuted.

`GpioteProofs` proves `DriverIsNeverDeaf` for any pins, users and masks, and `PinsAreWatched`
(`SensedWhenWanted`) when no user shares a pin with a one-shot user. The proof showed that
the condition is needed, and `MCGpioteShared.cfg` (by hand) has the counterexample: main, enabling a
user, finds its pin enabled for a one-shot user and leaves it alone; the handler of that
user then disables the pin, as the user being enabled does not count before
`mp_users[user_id].enabled` is set (`app_gpiote.c:257`), and the pin stays unwatched. The
invariant follows main's loop over the pins (`Watched`) and the handler's pass: the slots
it has seen are not at their sensed levels in the port as the pass read it
(`Pass`), so that a pass which turned nothing leaves DETECT down unless a pin has
changed since, and then an event is pending. `LevelNoticed` is only model-checked.

## 12. What is not modelled

`PROJECT.json` lists every part with its status and reason. Left out are:

- code this build does not call: the containers (`SimpleQueue.cpp` and its
  relatives, with a closing zero that may be written past an element, and an empty queue
  that may refuse a fitting element for ever), the I2C library (which repeats a failed
  transfer without a limit), the UART, SDIO and SoftDevice drivers, GPIOTE channels and
  output pins, and what FatFs has beyond the read path;
- code below the level of a model: the cycle-counted NeoPixel output, start-up, errata;
- the FFT and the coloring from it (CMSIS, floating point);
- the nesting count of critical regions (`app_util_platform.c:51`): the models take a
  region as one step. The count is changed with interrupts off only, so that no other
  context sees it between two of its steps.

Liveness is beyond the provers and stays with TLC, as does how long an expiry waits to be served.

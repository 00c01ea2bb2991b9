------------------------------- MODULE SpiBus -------------------------------
(***************************************************************************)
(* src/nrf51_peripherals/SPI_bus.cpp and SPI_slave.cpp: transfers on the   *)
(* SPI master, driven by polling.                                          *)
(*                                                                         *)
(* The peripheral takes a byte in TXD, shifts it out, and shifts the reply *)
(* in; TXD and RXD are double-buffered.  EVENTS_READY is one flag, set     *)
(* when a reply reaches RXD: when it has been shifted in and RXD is free,  *)
(* or when the reply before it is read.  The code waits for the flag,      *)
(* clears it and then reads RXD; interrupts may hold it up anywhere while  *)
(* the peripheral goes on.                                                 *)
(*                                                                         *)
(* Every transfer of SPI_bus is a sequence of phases.  A phase exchanges   *)
(* so many bytes and keeps at most so many of them in the peripheral: one, *)
(* where each write of TXD is followed by its wait, or two, where the loop *)
(* writes a byte ahead.                                                    *)
(***************************************************************************)
EXTENDS Naturals, Sequences

CONSTANT Lengths   (* the byte counts transfers are called with *)

ASSUME LengthsAssumption == Lengths \subseteq Nat \ {0}

VARIABLES
  txd,      (* the byte waiting in TXD, NoByte if none                       *)
  shift,    (* the byte being shifted                                        *)
  rx,       (* the replies in RXD and behind it                              *)
  ready,    (* EVENTS_READY                                                  *)
  cs,       (* the chip select of SPI_slave is low                           *)
  call,     (* the transfer going on                                         *)
  phases,   (* its phases still to do, the current one first                 *)
  sent,     (* bytes of the phase written to TXD                             *)
  got,      (* replies of the phase read from RXD                            *)
  rx_ff,    (* the reply read last is 0xff                                   *)
  pc        (* idle, run, read: EVENTS_READY cleared, RXD not read           *)

spi == <<txd, shift, rx, ready>>
code == <<cs, call, phases, sent, got, rx_ff, pc>>
vars == <<spi, code>>

\* Bytes of a phase, and their replies, are numbered from 1.
NoByte == 0

-----------------------------------------------------------------------------
(***************************************************************************)
(* The transfers.  A phase may begin by clearing EVENTS_READY.  `slave`    *)
(* says that SPI_slave selects the device, `polls` that the last phase is  *)
(* repeated until the reply is not 0xff.                                   *)
(***************************************************************************)
Single(n)    == [depth |-> 1, bytes |-> n, clears |-> FALSE]
Pipelined(n) == [depth |-> 2, bytes |-> n, clears |-> FALSE]
Cleared(p)   == [depth |-> p.depth, bytes |-> p.bytes, clears |-> TRUE]

Transfer(ps) == [slave |-> FALSE, polls |-> FALSE, phases |-> ps]
Selected(c)  == [slave |-> TRUE, polls |-> c.polls, phases |-> c.phases]

\* clearSpiBus() and busWrite(tx).
busWriteByte          == Transfer(<<Single(1)>>)
\* busWrite(tx1, tx2) and busRead(tx1).
busExchangePair       == Transfer(<<Pipelined(2)>>)
\* busMB_transfer(txData, txLen, rxData, rxLen).
busMB_transfer(n, m)  == Transfer(<<Cleared(Pipelined(n)), Single(m)>>)
\* busWrite(data, numBytes).
busWriteBytes(n)      == Transfer(<<Cleared(Pipelined(n))>>)
\* busWriteShorts(data, numShorts): the phases of one short, then of the rest.
Shorts(k)             == <<Cleared(Pipelined(2))>> \o [i \in 1 .. k - 1 |-> Pipelined(2)]
\* busWrite_FlashCorrection(cmd, cmdNumBytes, pData, numShorts).
busWrite_FlashCorrection(n, k) == Transfer(<<Cleared(Pipelined(n)), Single(2 * k)>>)
\* busRead(tx, dataRx, rxLen): the reply to the first byte is overwritten.
busRead(n)            == Transfer(<<Single(n + 1)>>)
\* busMB_Read(reg, dataRx, len): the register number, then len bytes.
busMB_ReadReg(n)      == Transfer(<<Cleared(Pipelined(n + 1))>>)
\* busMB_Read(dataRx, len) and busMB_Read_sendff(dataRx, len).
busMB_Read(n)         == Transfer(<<Cleared(Single(n))>>)

\* What SPI_slave makes of several of them.
SPI_Write(n, m)       == Selected(Transfer(<<Cleared(Pipelined(n)), Cleared(Pipelined(m))>>))
SPI_WriteShorts(n, k) == Selected(Transfer(<<Cleared(Pipelined(n))>> \o Shorts(k)))
SPI_TX_CMD_AND_READ_UNTIL_ZERO_RX(n) ==
  [slave |-> TRUE, polls |-> TRUE, phases |-> <<Cleared(Pipelined(n)), Single(2)>>]

Calls ==
  {busWriteByte, busExchangePair, Selected(busExchangePair)}
  \cup {busWriteBytes(n) : n \in Lengths} \cup {Selected(busWriteBytes(n)) : n \in Lengths}
  \cup {busRead(n) : n \in Lengths} \cup {busMB_Read(n) : n \in Lengths}
  \cup {Selected(busMB_ReadReg(n)) : n \in Lengths}
  \cup {Selected(busMB_transfer(n, m)) : n, m \in Lengths}
  \cup {SPI_WriteShorts(n, k) : n, k \in Lengths}
  \cup {Selected(busWrite_FlashCorrection(n, k)) : n, k \in Lengths}
  \cup {SPI_Write(n, m) : n, m \in Lengths}
  \cup {SPI_TX_CMD_AND_READ_UNTIL_ZERO_RX(n) : n \in Lengths}

-----------------------------------------------------------------------------
Init ==
  /\ txd = NoByte /\ shift = NoByte /\ rx = <<>> /\ ready = FALSE
  /\ cs = FALSE /\ call = busWriteByte /\ phases = <<>>
  /\ sent = 0 /\ got = 0 /\ rx_ff = FALSE /\ pc = "idle"

\* The last bit of a byte has gone out and that of its reply has come in.
ShiftDone ==
  /\ shift # NoByte
  /\ rx' = IF Len(rx) < 2 THEN Append(rx, shift) ELSE rx
  /\ ready' = (ready \/ rx = <<>>)
  /\ shift' = txd
  /\ txd' = NoByte
  /\ UNCHANGED code

Start(c) ==
  /\ pc = "idle"
  /\ call' = c
  /\ phases' = c.phases
  /\ cs' = c.slave
  /\ ready' = (ready /\ ~Head(c.phases).clears)
  /\ sent' = 0 /\ got' = 0
  /\ pc' = "run"
  /\ UNCHANGED <<txd, shift, rx, rx_ff>>

\* The code writes ahead as far as the depth of the phase allows.
WritesUnbounded(p) == sent < p.bytes                        \* mutant
Writes(p) == sent < p.bytes /\ sent - got < p.depth

\* A write of TXD; a byte still waiting there would be lost.
Put ==
  /\ pc = "run" /\ phases # <<>>
  /\ Writes(Head(phases))
  /\ sent' = sent + 1
  /\ IF shift = NoByte THEN shift' = sent + 1 /\ UNCHANGED txd
                       ELSE txd' = sent + 1 /\ UNCHANGED shift
  /\ UNCHANGED <<rx, ready, cs, call, phases, got, rx_ff, pc>>

WaitOnly ==                                                 \* mutant
  /\ pc = "run" /\ phases # <<>>
  /\ ~Writes(Head(phases)) /\ got < Head(phases).bytes
  /\ ready
  /\ pc' = "read"
  /\ UNCHANGED <<spi, cs, call, phases, sent, got, rx_ff>>

\* while (EVENTS_READY == 0); EVENTS_READY = 0;
Wait ==
  /\ pc = "run" /\ phases # <<>>
  /\ ~Writes(Head(phases)) /\ got < Head(phases).bytes
  /\ ready
  /\ ready' = FALSE
  /\ pc' = "read"
  /\ UNCHANGED <<txd, shift, rx, cs, call, phases, sent, got, rx_ff>>

\* RXD is read; a reply behind it moves up and sets EVENTS_READY again.
ReadBeforeClear ==                                          \* mutant
  /\ pc = "read"
  /\ rx' = IF rx = <<>> THEN rx ELSE Tail(rx)
  /\ ready' = FALSE
  /\ got' = got + 1
  /\ rx_ff' \in BOOLEAN
  /\ pc' = "run"
  /\ UNCHANGED <<txd, shift, cs, call, phases, sent>>

Read ==
  /\ pc = "read"
  /\ rx' = IF rx = <<>> THEN rx ELSE Tail(rx)
  /\ ready' = (ready \/ Len(rx) > 1)
  /\ got' = got + 1
  /\ rx_ff' \in BOOLEAN
  /\ pc' = "run"
  /\ UNCHANGED <<txd, shift, cs, call, phases, sent>>

PhaseOverEarly(p) == sent = p.bytes                         \* mutant
PhaseOver(p) == got = p.bytes

\* do ... while (rx == 0xff) of SPI_TX_CMD_AND_READ_UNTIL_ZERO_RX.
PollsUntilFF == call.polls /\ Len(phases) = 1 /\ ~rx_ff      \* mutant
PollsAgain == call.polls /\ Len(phases) = 1 /\ rx_ff

NextPhase ==
  /\ pc = "run" /\ phases # <<>> /\ PhaseOver(Head(phases))
  /\ sent' = 0 /\ got' = 0
  /\ phases' = IF PollsAgain THEN phases ELSE Tail(phases)
  /\ ready' = (ready /\ (phases' # <<>> => ~Head(phases').clears))
  /\ UNCHANGED <<txd, shift, rx, cs, call, rx_ff, pc>>

\* The transfer returns; SPI_slave raises the chip select.
Return ==
  /\ pc = "run" /\ phases = <<>>
  /\ pc' = "idle"
  /\ cs' = FALSE
  /\ UNCHANGED <<spi, call, phases, sent, got, rx_ff>>

Code == Put \/ Wait \/ Read \/ NextPhase \/ Return

Next == ShiftDone \/ Code \/ \E c \in Calls : Start(c)

Spec == Init /\ [][Next]_vars

\* The peripheral shifts and the program runs; a device that is polled has
\* something to say in the end.
DeviceAnswers == Read /\ Len(phases) = 1 /\ got' = Head(phases).bytes /\ ~rx_ff'
FairSpec == Spec /\ WF_vars(ShiftDone) /\ WF_vars(Code) /\ SF_vars(DeviceAnswers)

-----------------------------------------------------------------------------
(***************************************************************************)
(* Properties.                                                             *)
(***************************************************************************)
\* Type invariant, with the counts of the phase.
TypeOK ==
  /\ txd \in Nat /\ shift \in Nat /\ rx \in Seq(Nat) /\ Len(rx) <= 2
  /\ ready \in BOOLEAN /\ cs \in BOOLEAN /\ rx_ff \in BOOLEAN
  /\ sent \in Nat /\ got \in Nat /\ got <= sent
  /\ phases # <<>> => sent <= Head(phases).bytes
  /\ pc \in {"idle", "run", "read"}

\* The peripheral holds exactly the bytes written and not yet answered, in
\* order: none is overwritten in TXD, no reply is dropped for want of room
\* (line 160 discards it, but in its turn), and each is taken for the byte it
\* answers.
NothingLost ==
  /\ \A i \in 1 .. Len(rx) : rx[i] = got + i
  /\ IF shift = NoByte
     THEN txd = NoByte /\ sent = got + Len(rx)
     ELSE /\ shift = got + Len(rx) + 1
          /\ IF txd = NoByte THEN sent = shift ELSE txd = shift + 1 /\ sent = txd

\* EVENTS_READY is set exactly when a reply waits that was not announced
\* before: none is announced twice, and none waits unannounced.
ReadyAnnounces == ready <=> (rx # <<>> /\ pc # "read")

\* Between transfers the peripheral is empty and quiet, so that a transfer
\* that does not clear EVENTS_READY first never takes a stale reply; and the
\* chip select rises only after the last reply.
LeftClean ==
  pc = "idle" => rx = <<>> /\ shift = NoByte /\ ~ready /\ ~cs

\* A transfer returns.
TransferReturns == pc # "idle" ~> pc = "idle"
=============================================================================

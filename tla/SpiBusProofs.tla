---------------------------- MODULE SpiBusProofs ----------------------------
(***************************************************************************)
(* The safety properties of SpiBus for transfers of any length.            *)
(***************************************************************************)
EXTENDS SpiBus, SequenceTheorems, TLAPS

Phase == [depth : 1 .. 2, bytes : Nat \ {0}, clears : BOOLEAN]

(***************************************************************************)
(* The inductive invariant.  A phase never has more than two bytes under   *)
(* way, which is what the peripheral holds besides the one being shifted;  *)
(* between phases none is; and whoever has cleared EVENTS_READY finds a    *)
(* reply to read.                                                          *)
(***************************************************************************)
PhasesOK ==
  /\ phases \in Seq(Phase)
  /\ phases # <<>> => sent - got <= Head(phases).depth
  /\ phases = <<>> => sent = got

ReadHolds == pc = "read" => rx # <<>> /\ phases # <<>> /\ got < Head(phases).bytes
IdleHolds == pc = "idle" => phases = <<>> /\ ~cs

IInv == TypeOK /\ NothingLost /\ ReadyAnnounces /\ PhasesOK /\ ReadHolds /\ IdleHolds

-----------------------------------------------------------------------------
IsTransfer(c) == c.phases \in Seq(Phase) /\ c.phases # <<>> /\ c.slave \in BOOLEAN
Plan == Seq(Phase) \ {<<>>}

\* One or two phases, or one before a plan, make a plan.
LEMMA Plans ==
  /\ \A n \in Nat \ {0} :
       /\ Single(n) \in Phase /\ Pipelined(n) \in Phase
       /\ Cleared(Single(n)) \in Phase /\ Cleared(Pipelined(n)) \in Phase
  /\ \A p \in Phase : <<p>> \in Plan
  /\ \A p, q \in Phase : <<p, q>> \in Plan
  /\ \A p \in Phase, s \in Seq(Phase) : <<p>> \o s \in Plan
<1>1. ASSUME NEW p \in Phase, NEW s \in Seq(Phase) PROVE <<p>> \o s \in Plan
  <2>1. <<p>> \in Seq(Phase) /\ Len(<<p>>) = 1
    OBVIOUS
  <2>2. <<p>> \o s \in Seq(Phase) /\ Len(<<p>> \o s) = 1 + Len(s) /\ Len(s) \in Nat
    BY <2>1
  <2> QED
    BY <2>2 DEF Plan
<1>2. \A p \in Phase : <<p>> \in Plan
  BY DEF Plan
<1>3. \A p, q \in Phase : <<p, q>> \in Plan
  BY DEF Plan
<1> QED
  BY <1>1, <1>2, <1>3 DEF Single, Pipelined, Cleared, Phase

LEMMA ShortsPlan == ASSUME NEW k \in Nat \ {0} PROVE Shorts(k) \in Plan
<1>1. Pipelined(2) \in Phase /\ Cleared(Pipelined(2)) \in Phase
  BY Plans
<1>2. [i \in 1 .. k - 1 |-> Pipelined(2)] \in Seq(Phase)
  BY <1>1
<1> QED
  BY <1>1, <1>2, Plans DEF Shorts

\* A plan makes a transfer, with or without SPI_slave.
LEMMA PlanTransfers ==
  ASSUME NEW ps \in Plan PROVE IsTransfer(Transfer(ps)) /\ IsTransfer(Selected(Transfer(ps)))
BY DEF Plan, IsTransfer, Transfer, Selected

LEMMA CallsAreTransfers == ASSUME NEW c \in Calls PROVE IsTransfer(c)
<1>1. 1 \in Nat \ {0} /\ 2 \in Nat \ {0}
  OBVIOUS
<1>2. ASSUME NEW n \in Lengths PROVE n \in Nat \ {0} /\ n + 1 \in Nat \ {0} /\ 2 * n \in Nat \ {0}
  BY LengthsAssumption
<1>3. <<Single(1)>> \in Plan /\ <<Pipelined(2)>> \in Plan
  BY <1>1, Plans
<1>4. CASE c \in {busWriteByte, busExchangePair, Selected(busExchangePair)}
  BY <1>3, <1>4, PlanTransfers, Zenon DEF busWriteByte, busExchangePair
<1>5. ASSUME NEW n \in Lengths, c = busWriteBytes(n) \/ c = Selected(busWriteBytes(n))
      PROVE  IsTransfer(c)
  <2>1. <<Cleared(Pipelined(n))>> \in Plan
    BY <1>2, Plans
  <2> QED
    BY <1>5, <2>1, PlanTransfers, Zenon DEF busWriteBytes
<1>6. ASSUME NEW n \in Lengths, c = busRead(n) \/ c = busMB_Read(n) \/ c = Selected(busMB_ReadReg(n))
      PROVE  IsTransfer(c)
  <2>1. /\ <<Single(n + 1)>> \in Plan /\ <<Cleared(Single(n))>> \in Plan
        /\ <<Cleared(Pipelined(n + 1))>> \in Plan
    BY <1>2, Plans
  <2> QED
    BY <1>6, <2>1, PlanTransfers, Zenon DEF busRead, busMB_Read, busMB_ReadReg
<1>7. ASSUME NEW n \in Lengths, NEW m \in Lengths,
             \/ c = Selected(busMB_transfer(n, m))
             \/ c = Selected(busWrite_FlashCorrection(n, m))
             \/ c = SPI_Write(n, m)
      PROVE  IsTransfer(c)
  <2>1. /\ <<Cleared(Pipelined(n)), Single(m)>> \in Plan
        /\ <<Cleared(Pipelined(n)), Single(2 * m)>> \in Plan
        /\ <<Cleared(Pipelined(n)), Cleared(Pipelined(m))>> \in Plan
    BY <1>2, Plans
  <2> QED
    BY <1>7, <2>1, PlanTransfers, Zenon DEF busMB_transfer, busWrite_FlashCorrection, SPI_Write
<1>8. ASSUME NEW n \in Lengths, NEW k \in Lengths, c = SPI_WriteShorts(n, k)
      PROVE  IsTransfer(c)
  <2>1. <<Cleared(Pipelined(n))>> \o Shorts(k) \in Plan
    BY <1>2, Plans, ShortsPlan DEF Plan
  <2> QED
    BY <1>8, <2>1, PlanTransfers, Zenon DEF SPI_WriteShorts
<1>9. ASSUME NEW n \in Lengths, c = SPI_TX_CMD_AND_READ_UNTIL_ZERO_RX(n)
      PROVE  IsTransfer(c)
  <2>1. <<Cleared(Pipelined(n)), Single(2)>> \in Plan
    BY <1>1, <1>2, Plans
  <2> QED
    BY <1>9, <2>1 DEF SPI_TX_CMD_AND_READ_UNTIL_ZERO_RX, IsTransfer, Plan
<1>10. \/ c \in {busWriteByte, busExchangePair, Selected(busExchangePair)}
       \/ \E n \in Lengths : c = busWriteBytes(n) \/ c = Selected(busWriteBytes(n))
       \/ \E n \in Lengths : c = busRead(n) \/ c = busMB_Read(n) \/ c = Selected(busMB_ReadReg(n))
       \/ \E n, m \in Lengths : \/ c = Selected(busMB_transfer(n, m))
                                \/ c = Selected(busWrite_FlashCorrection(n, m))
                                \/ c = SPI_Write(n, m)
       \/ \E n, k \in Lengths : c = SPI_WriteShorts(n, k)
       \/ \E n \in Lengths : c = SPI_TX_CMD_AND_READ_UNTIL_ZERO_RX(n)
  BY SMT DEF Calls
<1> QED
  BY <1>4, <1>5, <1>6, <1>7, <1>8, <1>9, <1>10, Zenon

LEMMA InitIInv == Init => IInv
<1> SUFFICES ASSUME Init PROVE IInv
  OBVIOUS
<1>1. Len(<<>>) = 0 /\ <<>> \in Seq(Nat) /\ <<>> \in Seq(Phase)
  OBVIOUS
<1>2. TypeOK
  <2>1. txd = 0 /\ shift = 0 /\ sent = 0 /\ got = 0 /\ rx = <<>> /\ phases = <<>>
    BY DEF Init, NoByte
  <2>2. ready = FALSE /\ cs = FALSE /\ rx_ff = FALSE /\ pc = "idle"
    BY DEF Init
  <2>3. txd \in Nat /\ shift \in Nat /\ sent \in Nat /\ got \in Nat /\ got <= sent
    BY <2>1
  <2>4. rx \in Seq(Nat) /\ Len(rx) <= 2
    BY <1>1, <2>1
  <2> QED
    BY <2>1, <2>2, <2>3, <2>4, Zenon DEF TypeOK
<1>3. NothingLost
  BY <1>1 DEF Init, NothingLost, NoByte
<1>4. PhasesOK
  BY <1>1 DEF Init, PhasesOK
<1> QED
  BY <1>2, <1>3, <1>4 DEF Init, IInv, ReadyAnnounces, ReadHolds, IdleHolds

\* A reply shifted in finds room, for at most two bytes are under way.
LEMMA ShiftKeeps == IInv /\ ShiftDone => IInv'
<1> SUFFICES ASSUME IInv, ShiftDone PROVE IInv'
  OBVIOUS
<1>1. UNCHANGED code
  BY DEF ShiftDone
<1>2. /\ txd \in Nat /\ shift \in Nat \ {0} /\ rx \in Seq(Nat) /\ sent \in Nat /\ got \in Nat
      /\ Len(rx) \in Nat /\ shift = got + Len(rx) + 1
      /\ txd = 0 => sent = shift
      /\ txd # 0 => txd = shift + 1 /\ sent = txd
      /\ sent - got <= 2
  <2>1. /\ txd \in Nat /\ shift \in Nat \ {0} /\ rx \in Seq(Nat) /\ sent \in Nat /\ got \in Nat
        /\ Len(rx) \in Nat
    BY DEF IInv, TypeOK, ShiftDone, NoByte
  <2>2. /\ shift = got + Len(rx) + 1
        /\ txd = 0 => sent = shift
        /\ txd # 0 => txd = shift + 1 /\ sent = txd
    BY <2>1 DEF IInv, NothingLost, NoByte
  <2>3. CASE phases = <<>>
    BY <2>1, <2>2, <2>3 DEF IInv, PhasesOK
  <2>4. CASE phases # <<>>
    <3>1. Head(phases) \in Phase /\ sent - got <= Head(phases).depth
      BY <2>4 DEF IInv, PhasesOK
    <3>2. Head(phases).depth \in 1 .. 2
      BY <3>1 DEF Phase
    <3> QED
      BY <2>1, <2>2, <3>1, <3>2
  <2> QED
    BY <2>3, <2>4
<1>3. Len(rx) < 2 /\ rx' = Append(rx, shift)
  BY <1>2 DEF ShiftDone
<1>4. /\ rx' \in Seq(Nat) /\ Len(rx') = Len(rx) + 1 /\ rx'[Len(rx) + 1] = shift
      /\ \A i \in 1 .. Len(rx) : rx'[i] = rx[i]
  BY <1>2, <1>3
<1>5. rx' # <<>>
  BY <1>2, <1>4
<1>6. TypeOK'
  BY <1>1, <1>2, <1>3, <1>4 DEF IInv, TypeOK, code, ShiftDone, NoByte
<1>7. NothingLost'
  BY <1>1, <1>2, <1>4 DEF IInv, NothingLost, code, ShiftDone, NoByte
<1>8. ReadyAnnounces'
  BY <1>1, <1>5 DEF IInv, ReadyAnnounces, ReadHolds, TypeOK, code, ShiftDone
<1> QED
  BY <1>1, <1>5, <1>6, <1>7, <1>8 DEF IInv, PhasesOK, ReadHolds, IdleHolds, code

LEMMA StartKeeps == ASSUME IInv, NEW c \in Calls, Start(c) PROVE IInv'
<1>1. /\ pc = "idle" /\ pc' = "run" /\ phases' = c.phases /\ cs' = c.slave /\ call' = c
      /\ sent' = 0 /\ got' = 0 /\ UNCHANGED <<txd, shift, rx, rx_ff>>
      /\ ready' = (ready /\ ~Head(c.phases).clears)
  BY DEF Start
<1>2. phases' \in Seq(Phase) /\ phases' # <<>>
  BY <1>1, CallsAreTransfers DEF IsTransfer
<1>3. Head(phases') \in Phase
  BY <1>2
<1>4. sent = got /\ sent \in Nat
  BY <1>1 DEF IInv, IdleHolds, PhasesOK, TypeOK
<1>5. rx \in Seq(Nat) /\ Len(rx) \in Nat
  BY DEF IInv, TypeOK
<1>6. Len(rx) = 0 /\ shift = 0 /\ txd = 0
  BY <1>4, <1>5 DEF IInv, NothingLost, NoByte
<1>7. rx = <<>> /\ ~ready
  BY <1>1, <1>5, <1>6 DEF IInv, ReadyAnnounces
<1>8. c.slave \in BOOLEAN
  BY CallsAreTransfers DEF IsTransfer
<1> QED
  BY <1>1, <1>2, <1>3, <1>6, <1>7, <1>8
  DEF IInv, TypeOK, NothingLost, ReadyAnnounces, PhasesOK, ReadHolds, IdleHolds, Phase, NoByte

LEMMA PutKeeps == IInv /\ Put => IInv'
<1> SUFFICES ASSUME IInv, Put PROVE IInv'
  OBVIOUS
<1>1. phases # <<>> /\ Head(phases) \in Phase
  BY DEF Put, IInv, PhasesOK
<1>2. /\ sent < Head(phases).bytes /\ sent - got < Head(phases).depth
      /\ Head(phases).depth \in 1 .. 2 /\ Head(phases).bytes \in Nat
  BY <1>1 DEF Put, Writes, Phase
<1>3. rx \in Seq(Nat) /\ Len(rx) \in Nat
  BY DEF IInv, TypeOK
<1>4. txd = 0 /\ (shift # 0 => Len(rx) = 0)
  BY <1>2, <1>3 DEF IInv, TypeOK, NothingLost, NoByte
<1>5. TypeOK'
  BY <1>1, <1>2 DEF IInv, TypeOK, Put
<1>6. NothingLost'
  BY <1>2, <1>3, <1>4 DEF IInv, TypeOK, NothingLost, Put, NoByte
<1>7. PhasesOK'
  BY <1>1, <1>2 DEF IInv, TypeOK, PhasesOK, Put
<1> QED
  BY <1>5, <1>6, <1>7 DEF IInv, ReadyAnnounces, ReadHolds, IdleHolds, Put

LEMMA WaitKeeps == IInv /\ Wait => IInv'
<1> SUFFICES ASSUME IInv, Wait PROVE IInv'
  OBVIOUS
<1> QED
  BY DEF IInv, TypeOK, NothingLost, ReadyAnnounces, PhasesOK, ReadHolds, IdleHolds, Wait

\* The reply read is that of byte got + 1; what is behind it is announced.
LEMMA ReadKeeps == IInv /\ Read => IInv'
<1> SUFFICES ASSUME IInv, Read PROVE IInv'
  OBVIOUS
<1>1. /\ pc = "read" /\ pc' = "run" /\ got' = got + 1 /\ rx_ff' \in BOOLEAN
      /\ UNCHANGED <<txd, shift, cs, call, phases, sent>>
      /\ ready' = (ready \/ Len(rx) > 1)
  BY DEF Read
<1>2. rx # <<>> /\ phases # <<>> /\ rx' = Tail(rx) /\ rx \in Seq(Nat) /\ ~ready
  BY <1>1 DEF Read, IInv, ReadHolds, TypeOK, ReadyAnnounces
<1>3. /\ rx' \in Seq(Nat) /\ Len(rx') = Len(rx) - 1 /\ Len(rx) \in Nat \ {0}
      /\ \A i \in 1 .. Len(rx') : rx'[i] = rx[i + 1]
  BY <1>2, HeadTailProperties
<1>4. rx' # <<>> <=> Len(rx) > 1
  BY <1>3
<1>5. got + 1 <= sent /\ sent \in Nat /\ got \in Nat
  BY <1>2, <1>3 DEF IInv, NothingLost, TypeOK, NoByte
<1>6. TypeOK'
  BY <1>1, <1>2, <1>3, <1>5 DEF IInv, TypeOK
<1>7. NothingLost'
  BY <1>1, <1>3, <1>5 DEF IInv, TypeOK, NothingLost, NoByte
<1>8. Head(phases) \in Phase
  BY <1>2 DEF IInv, PhasesOK
<1>9. PhasesOK'
  BY <1>1, <1>2, <1>5, <1>8 DEF IInv, PhasesOK, Phase
<1> QED
  BY <1>1, <1>2, <1>4, <1>6, <1>7, <1>9 DEF IInv, ReadyAnnounces, ReadHolds, IdleHolds

\* A phase ends with the peripheral empty.
LEMMA NextPhaseKeeps == IInv /\ NextPhase => IInv'
<1> SUFFICES ASSUME IInv, NextPhase PROVE IInv'
  OBVIOUS
<1>1. /\ pc = "run" /\ phases # <<>> /\ got = Head(phases).bytes
      /\ sent' = 0 /\ got' = 0
      /\ UNCHANGED <<txd, shift, rx, cs, call, rx_ff, pc>>
      /\ phases' = phases \/ phases' = Tail(phases)
  BY DEF NextPhase, PhaseOver
<1>2. sent = got /\ sent \in Nat /\ rx \in Seq(Nat) /\ Len(rx) \in Nat
  BY <1>1 DEF IInv, TypeOK
<1>3. Len(rx) = 0 /\ shift = 0 /\ txd = 0
  BY <1>2 DEF IInv, NothingLost, NoByte
<1>4. rx = <<>> /\ ~ready
  BY <1>2, <1>3 DEF IInv, ReadyAnnounces
<1>5. ~ready'
  BY <1>4 DEF NextPhase
<1>6. phases' \in Seq(Phase)
  BY <1>1 DEF IInv, PhasesOK
<1>7. phases' # <<>> => Head(phases') \in Phase
  BY <1>6
<1>8. TypeOK'
  BY <1>1, <1>2, <1>3, <1>5, <1>7 DEF IInv, TypeOK, NextPhase, Phase, NoByte
<1>9. NothingLost'
  BY <1>1, <1>2, <1>3, <1>4 DEF NothingLost, NoByte
<1>10. PhasesOK'
  BY <1>1, <1>6, <1>7 DEF PhasesOK, Phase
<1> QED
  BY <1>1, <1>4, <1>5, <1>8, <1>9, <1>10 DEF IInv, ReadyAnnounces, ReadHolds, IdleHolds

LEMMA ReturnKeeps == IInv /\ Return => IInv'
<1> SUFFICES ASSUME IInv, Return PROVE IInv'
  OBVIOUS
<1> QED
  BY DEF IInv, TypeOK, NothingLost, ReadyAnnounces, PhasesOK, ReadHolds, IdleHolds, Return, spi

THEOREM Invariant == Spec => []IInv
<1>1. IInv /\ [Next]_vars => IInv'
  <2>1. IInv /\ UNCHANGED vars => IInv'
    BY DEF vars, spi, code, IInv, TypeOK, NothingLost, ReadyAnnounces, PhasesOK, ReadHolds, IdleHolds
  <2> QED
    BY <2>1, ShiftKeeps, StartKeeps, PutKeeps, WaitKeeps, ReadKeeps, NextPhaseKeeps, ReturnKeeps
    DEF Next, Code
<1> QED
  BY <1>1, InitIInv, PTL DEF Spec

\* For transfers of any length no byte is overwritten, no reply lost or taken
\* for another's.
THEOREM NoByteLost == Spec => []NothingLost
<1>1. IInv => NothingLost
  BY DEF IInv
<1> QED
  BY <1>1, Invariant, PTL

\* EVENTS_READY announces each reply once.
THEOREM EachReplyAnnounced == Spec => []ReadyAnnounces
<1>1. IInv => ReadyAnnounces
  BY DEF IInv
<1> QED
  BY <1>1, Invariant, PTL

\* A transfer leaves the peripheral as it needs to find it.
THEOREM TransfersLeaveClean == Spec => []LeftClean
<1>1. IInv => LeftClean
  <2> SUFFICES ASSUME IInv, pc = "idle" PROVE rx = <<>> /\ shift = NoByte /\ ~ready /\ ~cs
    BY DEF LeftClean
  <2>1. sent = got /\ sent \in Nat /\ rx \in Seq(Nat) /\ Len(rx) \in Nat /\ ~cs
    BY DEF IInv, TypeOK, PhasesOK, IdleHolds
  <2>2. Len(rx) = 0 /\ shift = NoByte
    BY <2>1 DEF IInv, NothingLost, NoByte
  <2> QED
    BY <2>1, <2>2 DEF IInv, ReadyAnnounces
<1> QED
  BY <1>1, Invariant, PTL
=============================================================================

------------------------------- MODULE SdCard -------------------------------
(***************************************************************************)
(* src/devices/fatfs.cpp and src/nrf/diskio.c: bringing up an SD card and  *)
(* reading its sectors over SPI.                                           *)
(*                                                                         *)
(* The card is the environment.  It takes a command when it is selected    *)
(* and answers in its own time with an R1 byte, a payload or a data block; *)
(* `out` is what it has still to say.  The 0xff it sends until then makes  *)
(* the program poll on.  Whether the card is in SPI mode, idle or ready    *)
(* survives a reset of the program, and the card can be taken out.         *)
(***************************************************************************)
EXTENDS Naturals, Sequences

CONSTANTS
  Cards,      (* the cards: [v2: they know CMD8, ccs: addressed by sector]   *)
  Requests,   (* the <<sector, count>> FatFs asks disk_read for              *)
  BlockLen,   (* bytes in a sector                                           *)
  MaxTries,   (* ACMD41 is sent so often                                     *)
  Removable,  (* the card may be taken out and put in                        *)
  ReadErrors  (* the card may send an error token for a block                *)

ASSUME SdAssumption ==
  /\ Requests \subseteq Nat \X (Nat \ {0})
  /\ BlockLen \in Nat \ {0} /\ MaxTries \in Nat \ {0}

VARIABLES
  kind, mode, out,   (* the card: absent, sd, idle or ready                  *)
  cs,                (* the card is selected                                 *)
  stage,             (* the command under way, or what is read after it      *)
  sent,              (* the command is sent, its response awaited            *)
  res, tries,        (* locals of init                                       *)
  noinit,            (* arm_disk_drive_status has STA_NOINIT                 *)
  first, count, buf, (* the read: sectors asked for, sectors received        *)
  result             (* what disk_read has returned, none while it runs      *)

card == <<kind, mode, out>>
request == <<first, count>>
vars == <<card, cs, stage, sent, res, tries, noinit, request, buf, result>>

\* init sends CMD58 once before ACMD41, once after.  ACMD41 is CMD55, CMD41.
Commands == {"CMD0", "CMD8", "CMD58", "CMD55", "CMD41", "CMD58 again", "CMD17"}
Payloads == {"R7", "R3", "R3 again"}
Stages == {"idle", "hang", "token"} \cup Commands \cup Payloads

R1(n)      == [what |-> "r1", n |-> n]
Payload(n) == [what |-> "payload", n |-> n]     \* 1: what init asks for
Block(s)   == [what |-> "block", n |-> s]
ErrorToken == [what |-> "error", n |-> 0]
Illegal == 4

-----------------------------------------------------------------------------
(***************************************************************************)
(* The card.                                                               *)
(***************************************************************************)
IdleBit == IF mode = "idle" THEN 1 ELSE 0

\* The block a read command addresses; a misaligned address is refused.
Addressed(arg) == IF kind.ccs THEN {arg}
                  ELSE IF arg % BlockLen = 0 THEN {arg \div BlockLen} ELSE {}

AnswersCMD0 ==
  \/ mode' = "idle" /\ out' = <<R1(1)>>
  \/ mode # "sd" /\ UNCHANGED mode /\ out' = <<R1(Illegal)>>
AnswersCMD8 ==
  /\ UNCHANGED mode
  /\ out' \in IF kind.v2 THEN {<<R1(IdleBit), Payload(ok)>> : ok \in 0 .. 1}
                         ELSE {<<R1(Illegal)>>}
AnswersCMD58 == UNCHANGED mode /\ out' \in {<<R1(IdleBit), Payload(ok)>> : ok \in 0 .. 1}
AnswersCMD55 == UNCHANGED mode /\ out' \in {<<R1(IdleBit)>>, <<R1(Illegal)>>}
AnswersCMD41 ==
  \/ mode' = "ready" /\ out' = <<R1(0)>>
  \/ mode = "idle" /\ UNCHANGED mode /\ out' = <<R1(1)>>
AnswersCMD17(arg) ==
  /\ UNCHANGED mode
  /\ \/ out' = <<R1(Illegal)>>
     \/ mode = "ready" /\ \E s \in Addressed(arg) : out' = <<R1(0), Block(s)>>
     \/ mode = "ready" /\ ReadErrors /\ out' = <<R1(0), ErrorToken>>

\* In SD mode CMD0 alone is understood, and it switches to SPI mode.
Deaf == mode = "absent" \/ (mode = "sd" /\ stage # "CMD0")

CardTakes(arg) ==
  /\ UNCHANGED kind
  /\ \/ Deaf /\ UNCHANGED mode /\ out' = <<>>
     \/ ~Deaf /\ \/ stage = "CMD0" /\ AnswersCMD0
                 \/ stage = "CMD8" /\ AnswersCMD8
                 \/ stage \in {"CMD58", "CMD58 again"} /\ AnswersCMD58
                 \/ stage = "CMD55" /\ AnswersCMD55
                 \/ stage = "CMD41" /\ AnswersCMD41
                 \/ stage = "CMD17" /\ AnswersCMD17(arg)

CardRemoved ==
  /\ Removable /\ mode # "absent"
  /\ mode' = "absent" /\ out' = <<>>
  /\ UNCHANGED <<kind, cs, stage, sent, res, tries, noinit, request, buf, result>>

CardInserted ==
  /\ Removable /\ mode = "absent"
  /\ mode' = "sd" /\ kind' \in Cards
  /\ UNCHANGED <<out, cs, stage, sent, res, tries, noinit, request, buf, result>>

-----------------------------------------------------------------------------
(***************************************************************************)
(* __SD_Send_Cmd.                                                          *)
(***************************************************************************)
Init ==
  /\ kind \in Cards /\ out = <<>>
  /\ mode \in {"sd", "idle", "ready"} \cup (IF Removable THEN {"absent"} ELSE {})
  /\ cs = FALSE /\ stage = "idle" /\ sent = FALSE /\ res = 0 /\ tries = 0
  /\ noinit = TRUE /\ first = 0 /\ count = 0 /\ buf = <<>> /\ result = "none"

\* The argument of CMD17 is the number of the sector wanted next.
SendCmd ==
  /\ stage \in Commands /\ ~sent
  /\ sent' = TRUE
  /\ cs' = TRUE
  /\ CardTakes(first + Len(buf))
  /\ UNCHANGED <<stage, res, tries, noinit, request, buf, result>>

\* The commands after which the card stays selected.
StaysSelectedNever(c) == FALSE                               \* mutant
StaysSelected(c) == c \in {"CMD0", "CMD8", "CMD58", "CMD58 again", "CMD17"}

\* A response to c; the 0xff before it are polled away.
Answered(c) ==
  /\ stage = c /\ sent /\ out # <<>>
  /\ sent' = FALSE
  /\ res' = Head(out).n
  /\ out' = Tail(out)
  /\ UNCHANGED <<kind, mode, noinit, request>>

\* timerCnt is never incremented: polling for a response has no end, nor has
\* the wait for the data token.
StillPolling == (sent \/ stage = "token") /\ out = <<>> /\ UNCHANGED vars

-----------------------------------------------------------------------------
(***************************************************************************)
(* fatfs::init, called by disk_initialize.                                 *)
(***************************************************************************)
DiskInitialize ==
  /\ stage = "idle"
  /\ stage' = "CMD0" /\ cs' = FALSE /\ tries' = 0
  /\ UNCHANGED <<card, sent, res, noinit, request, buf, result>>

\* init returns 0 whatever it has found.
InitReturns == stage' = "idle" /\ noinit' = FALSE

\* CMD0 until the card is idle.
Cmd0 ==
  /\ Answered("CMD0")
  /\ IF res' = 1 THEN stage' = "CMD8" /\ cs' = FALSE
                 ELSE stage' = "CMD0" /\ cs' = StaysSelected("CMD0")
  /\ UNCHANGED <<tries, buf, result>>

\* A response with a payload behind it.
Cmd8Or58 ==
  /\ \/ Answered("CMD8") /\ stage' = "R7" /\ cs' = StaysSelected("CMD8")
     \/ Answered("CMD58") /\ stage' = "R3" /\ cs' = StaysSelected("CMD58")
     \/ Answered("CMD58 again") /\ stage' = "R3 again" /\ cs' = StaysSelected("CMD58 again")
  /\ UNCHANGED <<tries, buf, result>>

TakePayloadLater(p) ==                                       \* mutant
  stage = p /\ cs' = FALSE /\ UNCHANGED card
\* Four bytes are read, whether the card has them to send or not.
TakePayload(p) ==
  /\ stage = p
  /\ out' = IF out = <<>> THEN out ELSE Tail(out)
  /\ cs' = FALSE
  /\ UNCHANGED <<kind, mode>>
AsWanted == out # <<>> /\ Head(out).n = 1

\* A card that does not know CMD8 is not gone on with: while (1).
Response7 ==
  /\ TakePayload("R7")
  /\ \/ res # 1 /\ stage' = "hang" /\ UNCHANGED noinit
     \/ res = 1 /\ AsWanted /\ stage' = "CMD58" /\ UNCHANGED noinit
     \/ res = 1 /\ ~AsWanted /\ InitReturns
  /\ UNCHANGED <<sent, res, tries, request, buf, result>>

Response3 ==
  /\ TakePayload("R3")
  /\ \/ AsWanted /\ stage' = "CMD55" /\ UNCHANGED noinit
     \/ ~AsWanted /\ InitReturns
  /\ UNCHANGED <<sent, res, tries, request, buf, result>>

TriesLeft(n) == n < MaxTries

NoTryCounted == tries' = tries                               \* mutant
TryCounted == tries' = tries + 1

\* The do-while around ACMD41, with its result in res'.
AfterAcmd41 ==
  /\ cs' = FALSE
  /\ TryCounted
  /\ \/ res' # 0 /\ TriesLeft(tries') /\ stage' = "CMD55" /\ UNCHANGED noinit
     \/ res' # 0 /\ ~TriesLeft(tries') /\ InitReturns
     \/ res' = 0 /\ stage' = "CMD58 again" /\ UNCHANGED noinit

\* ACMD41 is not sent when the card refuses CMD55.
AppCmd ==
  /\ stage = "CMD55" /\ sent /\ out # <<>>
  /\ sent' = FALSE /\ res' = Head(out).n /\ out' = Tail(out)
  /\ IF res' > 1 THEN AfterAcmd41
                 ELSE stage' = "CMD41" /\ cs' = StaysSelected("CMD55") /\ UNCHANGED <<tries, noinit>>
  /\ UNCHANGED <<kind, mode, request, buf, result>>

Acmd41 ==
  /\ stage = "CMD41" /\ sent /\ out # <<>>
  /\ sent' = FALSE /\ res' = Head(out).n /\ out' = Tail(out)
  /\ AfterAcmd41
  /\ UNCHANGED <<kind, mode, request, buf, result>>

\* The card's addressing is read and not used.
ResponseCcs ==
  /\ TakePayload("R3 again")
  /\ InitReturns
  /\ UNCHANGED <<sent, res, tries, request, buf, result>>

Hang == stage = "hang" /\ UNCHANGED vars

-----------------------------------------------------------------------------
(***************************************************************************)
(* disk_read, read_sectors and read_sector.                                *)
(***************************************************************************)
DiskRead ==
  /\ stage = "idle" /\ ~noinit
  /\ \E r \in Requests : first' = r[1] /\ count' = r[2]
  /\ buf' = <<>> /\ result' = "none"
  /\ stage' = "CMD17"
  /\ UNCHANGED <<card, cs, sent, res, tries, noinit>>

Refusal == stage' = "idle" /\ result' = "RES_ERROR"

Cmd17 ==
  /\ Answered("CMD17")
  /\ cs' = StaysSelected("CMD17")
  /\ IF res' = 0 THEN stage' = "token" /\ UNCHANGED result
                 ELSE Refusal
  /\ UNCHANGED <<tries, buf>>

\* Whatever is not the token 0xfe is passed over.
OtherToken ==
  /\ stage = "token" /\ out # <<>> /\ Head(out).what # "block"
  /\ out' = Tail(out)
  /\ UNCHANGED <<kind, mode, cs, stage, sent, res, tries, noinit, request, buf, result>>

GoesOnOneShort(r) == r = "RES_OK" /\ Len(buf') < count - 1   \* mutant
GoesOn(r) == r = "RES_OK" /\ Len(buf') < count

\* read_sector has no return statement here: its result is anything.
DataBlock ==
  /\ stage = "token" /\ out # <<>> /\ Head(out).what = "block"
  /\ out' = Tail(out)
  /\ buf' = Append(buf, Head(out).n)
  /\ cs' = FALSE
  /\ \E r \in {"RES_OK", "RES_ERROR"} :
       IF GoesOn(r) THEN stage' = "CMD17" /\ UNCHANGED result
                    ELSE stage' = "idle" /\ result' = r
  /\ UNCHANGED <<kind, mode, sent, res, tries, noinit, request>>

-----------------------------------------------------------------------------
Code == \/ SendCmd \/ Cmd0 \/ Cmd8Or58 \/ AppCmd \/ Acmd41 \/ Cmd17
        \/ Response7 \/ Response3 \/ ResponseCcs \/ OtherToken \/ DataBlock

Next == \/ Code \/ StillPolling \/ Hang \/ DiskInitialize \/ DiskRead
        \/ CardRemoved \/ CardInserted

Spec == Init /\ [][Next]_vars

\* The program goes on when the card lets it, and a card that is asked again
\* and again accepts CMD0 in the end.
Reset == SendCmd /\ stage = "CMD0" /\ out' = <<R1(1)>>
FairSpec == Spec /\ WF_vars(Code) /\ SF_vars(Reset)

-----------------------------------------------------------------------------
(***************************************************************************)
(* Properties.                                                             *)
(***************************************************************************)
Items == [what : {"r1", "payload", "block", "error"}, n : Nat]

\* Type invariant.
TypeOK ==
  /\ kind \in Cards /\ mode \in {"absent", "sd", "idle", "ready"}
  /\ out \in Seq(Items) /\ Len(out) <= 2
  /\ cs \in BOOLEAN /\ stage \in Stages /\ sent \in BOOLEAN
  /\ res \in Nat /\ tries \in 0 .. MaxTries /\ noinit \in BOOLEAN
  /\ first \in Nat /\ count \in Nat /\ buf \in Seq(Nat) /\ Len(buf) <= count
  /\ result \in {"none", "RES_OK", "RES_ERROR"}

\* A card that has something to say is selected, so what the code clocks in is
\* the card's (the list of commands at the end of __SD_Send_Cmd).
HeardOut == out # <<>> => cs

\* A command goes out when the one before has been answered to the end, and
\* its response is an R1: no answer is taken for that of another command.
AnswersInTurn ==
  /\ stage \in Commands /\ ~sent => out = <<>>
  /\ stage \in Commands /\ out # <<>> => Head(out).what = "r1"
  /\ stage = "token" /\ out # <<>> => Head(out).what \in {"block", "error"}

\* When disk_read returns RES_OK the buffer holds the sectors asked for, all
\* and in order, whatever read_sector happens to return.
OkMeansRead ==
  result = "RES_OK" => buf = [i \in 1 .. count |-> first + i - 1]

\* diskio.h: RES_OK is "Successful".  A read of which every sector has arrived
\* does not report an error.
SuccessIsOk == result = "RES_ERROR" => Len(buf) < count

\* diskio.h: STA_NOINIT is "Drive not initialized".  A drive without it has a
\* card that is ready.
InitializedIsReady == stage = "idle" /\ ~noinit => mode = "ready"

\* fatfs.cpp: "Wait for a valid response in timeout of 5 milliseconds".
CommandTimesOut == sent ~> ~sent

\* disk_initialize returns, of a card that knows CMD8 and stays in.
InitEnds == stage = "CMD0" /\ ~sent /\ kind.v2 ~> stage = "idle" \/ mode = "absent"

\* disk_read returns, of a card that is listening and reports no error.
ReadEnds ==
  stage = "CMD17" /\ ~sent ~> stage = "idle" \/ Deaf \/ out = <<ErrorToken>>

\* disk_initialize and disk_read return, but for the cases in which the code is
\* seen to wait for ever.
CallsEnd == InitEnds /\ ReadEnds
=============================================================================

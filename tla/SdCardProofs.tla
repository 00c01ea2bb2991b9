---------------------------- MODULE SdCardProofs ----------------------------
(***************************************************************************)
(* The safety properties of SdCard, for all cards, requests and limits.    *)
(***************************************************************************)
EXTENDS SdCard, SequenceTheorems, TLAPS

(***************************************************************************)
(* What a card that is addressed by sectors sends is the sector wanted     *)
(* next.                                                                   *)
(***************************************************************************)
BySector == \A c \in Cards : c.ccs
Wanted(s) == s \in Nat /\ (BySector => s = first + Len(buf))

(***************************************************************************)
(* What the card may still have to say, by where the code is.              *)
(***************************************************************************)
Response(o) ==
  \/ stage \in {"CMD0", "CMD55", "CMD41"} /\ \E n \in Nat : o = <<R1(n)>>
  \/ /\ stage \in {"CMD8", "CMD58", "CMD58 again"}
     /\ \E n, p \in Nat : o = <<R1(n)>> \/ o = <<R1(n), Payload(p)>>
  \/ /\ stage = "CMD17"
     /\ \/ o = <<R1(Illegal)>> \/ o = <<R1(0), ErrorToken>>
        \/ \E s \in Nat : Wanted(s) /\ o = <<R1(0), Block(s)>>
Answers ==
  \/ out = <<>>
  \/ sent /\ Response(out)
  \/ stage \in Payloads /\ \E p \in Nat : out = <<Payload(p)>>
  \/ stage = "token" /\ (out = <<ErrorToken>> \/ \E s \in Nat : Wanted(s) /\ out = <<Block(s)>>)

SentIsCommand == sent => stage \in Commands

\* ACMD41 is never sent more than MaxTries times.
Counted ==
  stage \in {"CMD0", "CMD8", "R7", "CMD58", "R3", "CMD55", "CMD41"} => tries < MaxTries

\* The sectors received are those asked for, one after the other.
Reads ==
  /\ stage \in {"CMD17", "token"} => result = "none" /\ Len(buf) < count
  /\ BySector => \A i \in 1 .. Len(buf) : buf[i] = first + i - 1
  /\ result = "RES_OK" => Len(buf) = count

Types ==
  /\ kind \in Cards /\ mode \in {"absent", "sd", "idle", "ready"}
  /\ cs \in BOOLEAN /\ stage \in Stages /\ sent \in BOOLEAN
  /\ res \in Nat /\ tries \in 0 .. MaxTries /\ noinit \in BOOLEAN
  /\ first \in Nat /\ count \in Nat /\ buf \in Seq(Nat) /\ Len(buf) <= count
  /\ result \in {"none", "RES_OK", "RES_ERROR"}

IInv == Types /\ Answers /\ HeardOut /\ SentIsCommand /\ Counted /\ Reads

-----------------------------------------------------------------------------
LEMMA ShortSequences ==
  ASSUME NEW a, NEW b
  PROVE  /\ Head(<<a>>) = a /\ Tail(<<a>>) = <<>> /\ <<a>> # <<>>
         /\ Head(<<a, b>>) = a /\ Tail(<<a, b>>) = <<b>> /\ <<a, b>> # <<>>
OBVIOUS

LEMMA Fields ==
  /\ \A n : R1(n).what = "r1" /\ R1(n).n = n
  /\ \A n : Payload(n).what = "payload" /\ Payload(n).n = n
  /\ \A s : Block(s).what = "block" /\ Block(s).n = s
  /\ ErrorToken.what = "error" /\ ErrorToken.n = 0
BY DEF R1, Payload, Block, ErrorToken

(***************************************************************************)
(* What the code hears when it has polled the 0xff away.                   *)
(***************************************************************************)
LEMMA ResponseHeard ==
  ASSUME IInv, sent, out # <<>>
  PROVE  /\ Head(out).what = "r1" /\ Head(out).n \in Nat
         /\ stage \in {"CMD0", "CMD55", "CMD41"} => Tail(out) = <<>>
         /\ stage \in {"CMD8", "CMD58", "CMD58 again"} =>
              Tail(out) = <<>> \/ \E p \in Nat : Tail(out) = <<Payload(p)>>
         /\ stage = "CMD17" =>
              \/ Head(out).n # 0 /\ Tail(out) = <<>>
              \/ Head(out).n = 0 /\ Tail(out) = <<ErrorToken>>
              \/ Head(out).n = 0 /\ \E s \in Nat : Wanted(s) /\ Tail(out) = <<Block(s)>>
<1>1. Response(out) /\ stage \in Commands
  BY DEF IInv, Answers, SentIsCommand, Payloads, Commands
<1>2. CASE stage \in {"CMD0", "CMD55", "CMD41"}
  <2>1. PICK n \in Nat : out = <<R1(n)>>
    BY <1>1, <1>2 DEF Response
  <2>2. Head(out) = R1(n) /\ Tail(out) = <<>>
    BY <2>1, ShortSequences, Zenon
  <2>3. Head(out).what = "r1" /\ Head(out).n = n
    BY <2>2, Fields, Zenon
  <2> QED  BY <1>2, <2>2, <2>3
<1>3. CASE stage \in {"CMD8", "CMD58", "CMD58 again"}
  <2>1. PICK n \in Nat, p \in Nat : out = <<R1(n)>> \/ out = <<R1(n), Payload(p)>>
    BY <1>1, <1>3 DEF Response
  <2>2. Head(out) = R1(n) /\ (Tail(out) = <<>> \/ Tail(out) = <<Payload(p)>>)
    <3>1. CASE out = <<R1(n)>>
      BY <3>1, ShortSequences, Zenon
    <3>2. CASE out = <<R1(n), Payload(p)>>
      BY <3>2, ShortSequences, Zenon
    <3> QED  BY <2>1, <3>1, <3>2
  <2>3. Head(out).what = "r1" /\ Head(out).n = n
    BY <2>2, Fields, Zenon
  <2> QED  BY <1>3, <2>2, <2>3
<1>4. CASE stage = "CMD17"
  <2>1. CASE out = <<R1(Illegal)>>
    <3>1. Head(out) = R1(Illegal) /\ Tail(out) = <<>>
      BY <2>1, ShortSequences, Zenon
    <3>2. Head(out).what = "r1" /\ Head(out).n = 4
      BY <3>1, Fields, Zenon DEF Illegal
    <3> QED  BY <1>4, <3>1, <3>2
  <2>2. CASE out = <<R1(0), ErrorToken>>
    <3>1. Head(out) = R1(0) /\ Tail(out) = <<ErrorToken>>
      BY <2>2, ShortSequences, Zenon
    <3>2. Head(out).what = "r1" /\ Head(out).n = 0
      BY <3>1, Fields, Zenon
    <3> QED  BY <1>4, <3>1, <3>2
  <2>3. ASSUME NEW s \in Nat, Wanted(s), out = <<R1(0), Block(s)>>
        PROVE  Head(out).what = "r1" /\ Head(out).n = 0 /\ Tail(out) = <<Block(s)>>
    <3>1. Head(out) = R1(0) /\ Tail(out) = <<Block(s)>>
      BY <2>3, ShortSequences, Zenon
    <3> QED  BY <3>1, Fields, Zenon
  <2>4. CASE \E s \in Nat : Wanted(s) /\ out = <<R1(0), Block(s)>>
    BY <1>4, <2>3, <2>4
  <2> QED  BY <1>1, <1>4, <2>1, <2>2, <2>4 DEF Response
<1> QED  BY <1>1, <1>2, <1>3, <1>4 DEF Commands

LEMMA Tries == MaxTries \in Nat /\ 0 < MaxTries
BY SdAssumption

LEMMA InitIInv == Init => IInv
<1> SUFFICES ASSUME Init  PROVE  IInv
  OBVIOUS
<1>1. buf \in Seq(Nat) /\ Len(buf) = 0
  BY DEF Init
<1>2. mode \in {"absent", "sd", "idle", "ready"}
  BY DEF Init
<1>4. /\ kind \in Cards /\ cs \in BOOLEAN /\ stage \in Stages /\ sent \in BOOLEAN
      /\ noinit \in BOOLEAN /\ result \in {"none", "RES_OK", "RES_ERROR"}
  BY DEF Init, Stages
<1>5. /\ res \in Nat /\ tries \in 0 .. MaxTries /\ first \in Nat /\ count \in Nat
      /\ Len(buf) <= count
  BY <1>1, Tries DEF Init
<1>6. Types
  BY <1>1, <1>2, <1>4, <1>5 DEF Types
<1>7. Answers /\ HeardOut /\ SentIsCommand /\ Counted /\ Reads
  BY <1>1, Tries DEF Init, Answers, HeardOut, SentIsCommand, Counted, Reads
<1> QED  BY <1>6, <1>7 DEF IInv

(***************************************************************************)
(* A command is sent: what the card will say to it.                        *)
(***************************************************************************)
LEMMA CardSpeaks ==
  ASSUME Types, stage \in Commands, CardTakes(first + Len(buf))
  PROVE  /\ kind' = kind /\ mode' \in {"absent", "sd", "idle", "ready"}
         /\ out' = <<>> \/ Response(out')
<1>1. CASE Deaf /\ UNCHANGED <<kind, mode>> /\ out' = <<>>
  BY <1>1 DEF Types
<1>2. CASE UNCHANGED kind /\ stage = "CMD0" /\ AnswersCMD0
  BY <1>2 DEF Types, AnswersCMD0, Response, Illegal
<1>3. CASE UNCHANGED kind /\ stage = "CMD8" /\ AnswersCMD8
  <2>1. \E n, p \in Nat : out' = <<R1(n)>> \/ out' = <<R1(n), Payload(p)>>
    BY <1>3 DEF AnswersCMD8, IdleBit, Illegal
  <2> QED  BY <1>3, <2>1 DEF Types, AnswersCMD8, Response
<1>4. CASE UNCHANGED kind /\ stage \in {"CMD58", "CMD58 again"} /\ AnswersCMD58
  <2>1. \E n, p \in Nat : out' = <<R1(n), Payload(p)>>
    <3>1. PICK ok \in 0 .. 1 : out' = <<R1(IdleBit), Payload(ok)>>
      BY <1>4 DEF AnswersCMD58
    <3> QED  BY <3>1 DEF IdleBit
  <2> QED  BY <1>4, <2>1 DEF Types, AnswersCMD58, Response
<1>5. CASE UNCHANGED kind /\ stage = "CMD55" /\ AnswersCMD55
  BY <1>5 DEF Types, AnswersCMD55, IdleBit, Illegal, Response
<1>6. CASE UNCHANGED kind /\ stage = "CMD41" /\ AnswersCMD41
  BY <1>6 DEF Types, AnswersCMD41, Response
<1>7. CASE UNCHANGED kind /\ stage = "CMD17" /\ AnswersCMD17(first + Len(buf))
  <2>1. first + Len(buf) \in Nat
    BY LenProperties DEF Types
  <2>2. ASSUME NEW s \in Addressed(first + Len(buf))  PROVE Wanted(s)
    <3>1. CASE kind.ccs
      BY <2>1, <2>2, <3>1 DEF Addressed, Wanted
    <3>2. CASE ~kind.ccs
      <4>1. s = (first + Len(buf)) \div BlockLen
        BY <2>2, <3>2 DEF Addressed
      <4>2. s \in Nat
        BY <2>1, <4>1, SdAssumption
      <4> QED  BY <3>2, <4>2 DEF Wanted, BySector, Types
    <3> QED  BY <3>1, <3>2
  <2>3. \/ out' = <<R1(Illegal)>> \/ out' = <<R1(0), ErrorToken>>
        \/ \E s \in Addressed(first + Len(buf)) : out' = <<R1(0), Block(s)>>
    BY <1>7 DEF AnswersCMD17
  <2>4. Response(out')
    BY <1>7, <2>2, <2>3 DEF Response, Wanted
  <2> QED  BY <1>7, <2>4 DEF Types, AnswersCMD17
<1> QED  BY <1>1, <1>2, <1>3, <1>4, <1>5, <1>6, <1>7 DEF CardTakes

LEMMA SendCmdIInv == IInv /\ SendCmd => IInv'
<1> SUFFICES ASSUME IInv, SendCmd  PROVE IInv'
  OBVIOUS
<1>1. /\ kind' = kind /\ mode' \in {"absent", "sd", "idle", "ready"}
      /\ out' = <<>> \/ Response(out')
  BY CardSpeaks DEF IInv, SendCmd
<1>2. Types'
  BY <1>1 DEF IInv, Types, SendCmd, request
<1>3. Answers' /\ HeardOut'
  BY <1>1 DEF SendCmd, request, Answers, Response, Wanted, HeardOut
<1>4. SentIsCommand' /\ Counted' /\ Reads'
  BY DEF IInv, SendCmd, request, SentIsCommand, Counted, Reads
<1> QED  BY <1>2, <1>3, <1>4 DEF IInv

(***************************************************************************)
(* The steps of the code that hear a response or a payload.  A step that   *)
(* leaves nothing for the card to say and receives no sector keeps most of *)
(* the invariant.                                                          *)
(***************************************************************************)
LEMMA ReadsKept ==
  ASSUME Reads, UNCHANGED <<first, count, buf, result>>,
         stage' \in {"CMD17", "token"} => stage \in {"CMD17", "token"}
  PROVE  Reads'
BY DEF Reads

LEMMA Cmd0IInv == IInv /\ Cmd0 => IInv'
<1> SUFFICES ASSUME IInv, Cmd0  PROVE IInv'
  OBVIOUS
<1>1. /\ stage = "CMD0" /\ sent /\ out # <<>> /\ sent' = FALSE
      /\ res' = Head(out).n /\ out' = Tail(out)
      /\ stage' \in {"CMD0", "CMD8"} /\ cs' \in BOOLEAN
      /\ UNCHANGED <<kind, mode, noinit, first, count, tries, buf, result>>
  BY DEF Cmd0, Answered, StaysSelected, request
<1>2. Head(out).n \in Nat /\ Tail(out) = <<>>
  BY <1>1, ResponseHeard
<1>3. Types' /\ Answers' /\ HeardOut' /\ SentIsCommand' /\ Counted'
  BY <1>1, <1>2
     DEF IInv, Types, Answers, HeardOut, SentIsCommand, Counted, Stages, Commands
<1>4. Reads'
  BY <1>1, ReadsKept DEF IInv
<1> QED  BY <1>3, <1>4 DEF IInv

LEMMA Cmd8Or58IInv == IInv /\ Cmd8Or58 => IInv'
<1> SUFFICES ASSUME IInv, Cmd8Or58  PROVE IInv'
  OBVIOUS
<1>1. /\ stage \in {"CMD8", "CMD58", "CMD58 again"} /\ sent /\ out # <<>> /\ sent' = FALSE
      /\ res' = Head(out).n /\ out' = Tail(out) /\ cs' = TRUE
      /\ \/ stage = "CMD8" /\ stage' = "R7"
         \/ stage = "CMD58" /\ stage' = "R3"
         \/ stage = "CMD58 again" /\ stage' = "R3 again"
      /\ UNCHANGED <<kind, mode, noinit, first, count, tries, buf, result>>
  BY DEF Cmd8Or58, Answered, StaysSelected, request
<1>2. /\ Head(out).n \in Nat
      /\ Tail(out) = <<>> \/ \E p \in Nat : Tail(out) = <<Payload(p)>>
  BY <1>1, ResponseHeard
<1>3. Types' /\ HeardOut' /\ SentIsCommand' /\ Counted'
  BY <1>1, <1>2 DEF IInv, Types, HeardOut, SentIsCommand, Counted, Stages, Payloads
<1>4. Answers'
  BY <1>1, <1>2 DEF Answers, Payloads
<1>5. Reads'
  BY <1>1, ReadsKept DEF IInv
<1> QED  BY <1>3, <1>4, <1>5 DEF IInv

\* CMD55 refused, or CMD41 answered: another try, or none is left.
LEMMA Acmd41IInv == IInv /\ (AppCmd \/ Acmd41) => IInv'
<1> SUFFICES ASSUME IInv, AppCmd \/ Acmd41  PROVE IInv'
  OBVIOUS
<1>1. /\ stage \in {"CMD55", "CMD41"} /\ sent /\ out # <<>> /\ sent' = FALSE
      /\ res' = Head(out).n /\ out' = Tail(out) /\ cs' = FALSE
      /\ \/ AfterAcmd41
         \/ stage' = "CMD41" /\ UNCHANGED <<tries, noinit>>
      /\ UNCHANGED <<kind, mode, first, count, buf, result>>
  <2>1. AfterAcmd41 => cs' = FALSE
    BY DEF AfterAcmd41
  <2>2. UNCHANGED <<kind, mode, first, count, buf, result>>
    BY DEF AppCmd, Acmd41, request
  <2>3. CASE AppCmd
    <3>1. StaysSelected("CMD55") = FALSE
      BY DEF StaysSelected
    <3>2. AfterAcmd41 \/ (stage' = "CMD41" /\ cs' = FALSE /\ UNCHANGED <<tries, noinit>>)
      BY <2>3, <3>1, Zenon DEF AppCmd
    <3>3. stage = "CMD55" /\ sent /\ out # <<>> /\ sent' = FALSE
      BY <2>3 DEF AppCmd
    <3>4. res' = Head(out).n /\ out' = Tail(out)
      BY <2>3 DEF AppCmd
    <3> QED  BY <2>1, <2>2, <3>2, <3>3, <3>4
  <2>4. CASE Acmd41
    <3>1. stage = "CMD41" /\ sent /\ out # <<>> /\ sent' = FALSE /\ AfterAcmd41
      BY <2>4 DEF Acmd41
    <3>2. res' = Head(out).n /\ out' = Tail(out)
      BY <2>4 DEF Acmd41
    <3> QED  BY <2>1, <2>2, <3>1, <3>2
  <2> QED  BY <2>3, <2>4
<1>2. Head(out).n \in Nat /\ Tail(out) = <<>>
  BY <1>1, ResponseHeard
<1>3. /\ MaxTries \in Nat /\ tries \in 0 .. MaxTries /\ tries < MaxTries
      /\ noinit \in BOOLEAN /\ Types
  <2>1. Types /\ Counted
    BY DEF IInv
  <2>2. tries < MaxTries
    BY <1>1, <2>1 DEF Counted
  <2> QED  BY <2>1, <2>2, Tries DEF Types
<1>4. /\ tries' \in 0 .. MaxTries /\ Counted' /\ noinit' \in BOOLEAN
      /\ stage' \in {"CMD41", "CMD55", "CMD58 again", "idle"}
  <2>1. CASE stage' = "CMD41" /\ UNCHANGED <<tries, noinit>>
    BY <1>3, <2>1 DEF Counted
  <2>2. CASE AfterAcmd41
    <3>1. tries' = tries + 1
      BY <2>2 DEF AfterAcmd41, TryCounted
    <3>2. noinit' \in BOOLEAN
      BY <1>3, <2>2 DEF AfterAcmd41, InitReturns
    <3>3. \/ stage' = "CMD55" /\ tries' < MaxTries
          \/ stage' \in {"idle", "CMD58 again"}
      BY <2>2 DEF AfterAcmd41, TriesLeft, InitReturns
    <3>4. tries' \in 0 .. MaxTries
      BY <1>3, <3>1
    <3> QED  BY <3>2, <3>3, <3>4 DEF Counted
  <2> QED  BY <1>1, <2>1, <2>2
<1>5. stage' \in Stages /\ cs' \in BOOLEAN /\ sent' \in BOOLEAN /\ res' \in Nat
  BY <1>1, <1>2, <1>4 DEF Stages, Commands
<1>6. Types'
  BY <1>1, <1>3, <1>4, <1>5 DEF Types
<1>7. Answers' /\ HeardOut' /\ SentIsCommand'
  BY <1>1, <1>2, <1>4 DEF Answers, HeardOut, SentIsCommand
<1>8. Reads'
  BY <1>1, <1>4, ReadsKept DEF IInv
<1> QED  BY <1>4, <1>6, <1>7, <1>8 DEF IInv

LEMMA Cmd17IInv == IInv /\ Cmd17 => IInv'
<1> SUFFICES ASSUME IInv, Cmd17  PROVE IInv'
  OBVIOUS
<1>1. /\ stage = "CMD17" /\ sent /\ out # <<>> /\ sent' = FALSE
      /\ res' = Head(out).n /\ out' = Tail(out) /\ cs' = TRUE
      /\ \/ res' = 0 /\ stage' = "token" /\ UNCHANGED result
         \/ res' # 0 /\ stage' = "idle" /\ result' = "RES_ERROR"
      /\ UNCHANGED <<kind, mode, noinit, first, count, tries, buf>>
  BY DEF Cmd17, Answered, StaysSelected, Refusal, request
<1>2. /\ Head(out).n \in Nat
      /\ \/ Head(out).n # 0 /\ Tail(out) = <<>>
         \/ Head(out).n = 0 /\ Tail(out) = <<ErrorToken>>
         \/ Head(out).n = 0 /\ \E s \in Nat : Wanted(s) /\ Tail(out) = <<Block(s)>>
  BY <1>1, ResponseHeard
<1>3. Types' /\ HeardOut' /\ SentIsCommand' /\ Counted'
  BY <1>1, <1>2 DEF IInv, Types, HeardOut, SentIsCommand, Counted, Stages
<1>4. CASE stage' = "token"
  BY <1>1, <1>2, <1>3, <1>4 DEF IInv, Answers, Wanted, Reads
<1>5. CASE stage' = "idle"
  <2>1. Reads'
    BY <1>1, <1>5 DEF IInv, Reads
  <2>2. Answers'
    BY <1>1, <1>2, <1>5 DEF Answers
  <2> QED  BY <1>3, <2>1, <2>2 DEF IInv
<1> QED  BY <1>1, <1>4, <1>5

(***************************************************************************)
(* The payloads, of which nothing is left afterwards.                      *)
(***************************************************************************)
LEMMA PayloadIInv == IInv /\ (Response7 \/ Response3 \/ ResponseCcs) => IInv'
<1> SUFFICES ASSUME IInv, Response7 \/ Response3 \/ ResponseCcs  PROVE IInv'
  OBVIOUS
<1>1. /\ stage \in Payloads /\ cs' = FALSE
      /\ out' = IF out = <<>> THEN out ELSE Tail(out)
      /\ \/ stage = "R7" /\ stage' \in {"hang", "CMD58"} /\ UNCHANGED noinit
         \/ stage = "R3" /\ stage' = "CMD55" /\ UNCHANGED noinit
         \/ stage' = "idle" /\ noinit' = FALSE
      /\ UNCHANGED <<kind, mode, sent, res, tries, first, count, buf, result>>
  <2>1. CASE Response7
    BY <2>1 DEF Response7, TakePayload, InitReturns, Payloads, request
  <2>2. CASE Response3
    BY <2>2 DEF Response3, TakePayload, InitReturns, Payloads, request
  <2>3. CASE ResponseCcs
    BY <2>3 DEF ResponseCcs, TakePayload, InitReturns, Payloads, request
  <2> QED  BY <2>1, <2>2, <2>3
<1>2. out' = <<>> /\ ~sent
  <2>1. ~sent
    BY <1>1 DEF IInv, SentIsCommand, Payloads, Commands
  <2>2. CASE out = <<>>
    BY <1>1, <2>1, <2>2
  <2>3. CASE \E p \in Nat : out = <<Payload(p)>>
    <3>1. PICK p \in Nat : out = <<Payload(p)>>
      BY <2>3
    <3>2. out # <<>> /\ Tail(out) = <<>>
      BY <3>1, ShortSequences, Zenon
    <3> QED  BY <1>1, <2>1, <3>2
  <2> QED  BY <1>1, <2>1, <2>2, <2>3 DEF IInv, Answers, Payloads
<1>3. Types' /\ Answers' /\ HeardOut' /\ SentIsCommand' /\ Counted'
  BY <1>1, <1>2
     DEF IInv, Types, Answers, HeardOut, SentIsCommand, Counted, Stages, Commands, Payloads
<1>4. Reads'
  BY <1>1, ReadsKept DEF IInv
<1> QED  BY <1>3, <1>4 DEF IInv

(***************************************************************************)
(* The data block.                                                         *)
(***************************************************************************)
LEMMA TokenHeard ==
  ASSUME IInv, stage = "token", out # <<>>
  PROVE  /\ ~sent /\ Tail(out) = <<>>
         /\ \/ Head(out).what = "error"
            \/ Head(out).what = "block" /\ Wanted(Head(out).n)
<1>1. ~sent
  BY DEF IInv, SentIsCommand, Commands
<1>2. CASE out = <<ErrorToken>>
  <2>1. Head(out) = ErrorToken /\ Tail(out) = <<>>
    BY <1>2, ShortSequences, Zenon
  <2> QED  BY <1>1, <2>1, Fields, Zenon
<1>3. ASSUME NEW s \in Nat, Wanted(s), out = <<Block(s)>>
      PROVE  Tail(out) = <<>> /\ Head(out).what = "block" /\ Wanted(Head(out).n)
  <2>1. Head(out) = Block(s) /\ Tail(out) = <<>>
    BY <1>3, ShortSequences, Zenon
  <2>2. Head(out).what = "block" /\ Head(out).n = s
    BY <2>1, Fields, Zenon
  <2> QED  BY <1>3, <2>1, <2>2
<1> QED  BY <1>1, <1>2, <1>3 DEF IInv, Answers, Payloads

LEMMA OtherTokenIInv == IInv /\ OtherToken => IInv'
<1> SUFFICES ASSUME IInv, OtherToken  PROVE IInv'
  OBVIOUS
<1>1. out' = <<>>
  BY TokenHeard DEF OtherToken
<1>2. UNCHANGED <<kind, mode, cs, stage, sent, res, tries, noinit, first, count, buf, result>>
  BY DEF OtherToken, request
<1> QED
  BY <1>1, <1>2 DEF IInv, Types, Answers, HeardOut, SentIsCommand, Counted, Reads

LEMMA DataBlockIInv == IInv /\ DataBlock => IInv'
<1> SUFFICES ASSUME IInv, DataBlock  PROVE IInv'
  OBVIOUS
<1>1. /\ stage = "token" /\ out' = <<>> /\ ~sent /\ Wanted(Head(out).n)
      /\ buf' = Append(buf, Head(out).n) /\ cs' = FALSE
      /\ UNCHANGED <<kind, mode, sent, res, tries, noinit, first, count>>
  BY TokenHeard DEF DataBlock, request
<1>2. /\ buf \in Seq(Nat) /\ Len(buf) < count /\ result = "none" /\ first \in Nat
      /\ count \in Nat /\ Len(buf) \in Nat
      /\ BySector => \A i \in 1 .. Len(buf) : buf[i] = first + i - 1
  BY <1>1, LenProperties DEF IInv, Types, Reads
<1>3. /\ buf' \in Seq(Nat) /\ Len(buf') = Len(buf) + 1
      /\ \A i \in 1 .. Len(buf) : buf'[i] = buf[i]
      /\ buf'[Len(buf) + 1] = Head(out).n
  BY <1>1, <1>2, AppendProperties DEF Wanted
<1>4. \/ stage' = "CMD17" /\ result' = result /\ Len(buf') < count
      \/ stage' = "idle" /\ result' \in {"RES_OK", "RES_ERROR"}
         /\ (result' = "RES_OK" => Len(buf') >= count)
  BY <1>2, <1>3 DEF DataBlock, GoesOn
<1>5. Types'
  <2>1. stage' \in Stages
    BY <1>4 DEF Stages, Commands
  <2>2. Len(buf') <= count
    BY <1>2, <1>3
  <2>3. Types
    BY DEF IInv
  <2> QED  BY <1>1, <1>2, <1>3, <1>4, <2>1, <2>2, <2>3 DEF Types
<1>6. Answers' /\ HeardOut' /\ SentIsCommand' /\ Counted'
  BY <1>1, <1>4 DEF Answers, HeardOut, SentIsCommand, Counted
<1>7. BySector => \A i \in 1 .. Len(buf') : buf'[i] = first + i - 1
  BY <1>1, <1>2, <1>3 DEF Wanted
<1>8. Reads'
  BY <1>1, <1>2, <1>3, <1>4, <1>7 DEF Reads, BySector
<1> QED  BY <1>5, <1>6, <1>8 DEF IInv

(***************************************************************************)
(* The calls of FatFs, and the card taken out and put in.                  *)
(***************************************************************************)
LEMMA CallIInv == IInv /\ (DiskInitialize \/ DiskRead) => IInv'
<1> SUFFICES ASSUME IInv, DiskInitialize \/ DiskRead  PROVE IInv'
  OBVIOUS
<1>1. CASE DiskInitialize
  <2>1. /\ stage = "idle" /\ ~sent /\ out = <<>>
    BY <1>1 DEF DiskInitialize, IInv, SentIsCommand, Commands, Answers, Payloads
  <2>2. Types'
    <3>1. stage' \in Stages /\ tries' = 0 /\ cs' = FALSE
      BY <1>1 DEF DiskInitialize, Stages, Commands
    <3>2. Types
      BY DEF IInv
    <3>3. UNCHANGED <<kind, mode, sent, res, noinit, first, count, buf, result>>
      BY <1>1 DEF DiskInitialize, card, request
    <3>4. tries' \in 0 .. MaxTries
      BY <3>1, Tries
    <3> QED  BY <3>1, <3>2, <3>3, <3>4 DEF Types
  <2>3. Answers' /\ HeardOut' /\ SentIsCommand' /\ Counted'
    BY <1>1, <2>1, Tries
       DEF DiskInitialize, IInv, Answers, HeardOut, SentIsCommand, Counted, card
  <2>4. Reads'
    BY <1>1, ReadsKept DEF DiskInitialize, IInv, request
  <2> QED  BY <2>2, <2>3, <2>4 DEF IInv
<1>2. CASE DiskRead
  <2>1. /\ stage = "idle" /\ ~sent /\ out = <<>>
    BY <1>2 DEF DiskRead, IInv, SentIsCommand, Commands, Answers, Payloads
  <2>2. first' \in Nat /\ count' \in Nat \ {0} /\ buf' = <<>> /\ result' = "none"
    BY <1>2, SdAssumption DEF DiskRead
  <2>3. buf' \in Seq(Nat) /\ Len(buf') = 0
    BY <2>2
  <2>4. Types'
    BY <1>2, <2>2, <2>3 DEF DiskRead, IInv, Types, Stages, Commands, card
  <2>5. Answers' /\ HeardOut' /\ SentIsCommand' /\ Counted'
    BY <1>2, <2>1 DEF DiskRead, IInv, Answers, HeardOut, SentIsCommand, Counted, card
  <2>6. Reads'
    BY <1>2, <2>2, <2>3 DEF DiskRead, Reads
  <2> QED  BY <2>4, <2>5, <2>6 DEF IInv
<1> QED  BY <1>1, <1>2

LEMMA CardIInv == IInv /\ (CardRemoved \/ CardInserted) => IInv'
<1> SUFFICES ASSUME IInv, CardRemoved \/ CardInserted  PROVE IInv'
  OBVIOUS
<1>1. /\ kind' \in Cards /\ mode' \in {"absent", "sd"} /\ out' \in {out, <<>>}
      /\ UNCHANGED <<cs, stage, sent, res, tries, noinit, first, count, buf, result>>
  BY DEF CardRemoved, CardInserted, request, IInv, Types
<1>2. Types' /\ HeardOut' /\ SentIsCommand' /\ Counted' /\ Reads'
  BY <1>1 DEF IInv, Types, HeardOut, SentIsCommand, Counted, Reads
<1>3. Answers'
  BY <1>1 DEF IInv, Answers, Response, Wanted
<1> QED  BY <1>2, <1>3 DEF IInv

LEMMA NextIInv == IInv /\ [Next]_vars => IInv'
<1>1. IInv /\ UNCHANGED vars => IInv'
  <2> SUFFICES ASSUME IInv, UNCHANGED vars  PROVE IInv'
    OBVIOUS
  <2>1. Types'
    BY DEF vars, card, request, IInv, Types
  <2>2. Answers'
    BY DEF vars, card, request, IInv, Answers, Response, Wanted
  <2>3. HeardOut' /\ SentIsCommand' /\ Counted' /\ Reads'
    BY DEF vars, card, request, IInv, HeardOut, SentIsCommand, Counted, Reads
  <2> QED  BY <2>1, <2>2, <2>3 DEF IInv
<1> QED
  BY <1>1, SendCmdIInv, Cmd0IInv, Cmd8Or58IInv, Acmd41IInv, Cmd17IInv, PayloadIInv,
     OtherTokenIInv, DataBlockIInv, CallIInv, CardIInv
     DEF Next, Code, StillPolling, Hang

LEMMA AlwaysIInv == Spec => []IInv
BY InitIInv, NextIInv, PTL DEF Spec

-----------------------------------------------------------------------------
(***************************************************************************)
(* Whatever the card answers and whenever it is taken out, the variables   *)
(* keep their types; the sectors received never exceed those asked for.    *)
(***************************************************************************)
THEOREM TypeCorrect == Spec => []TypeOK
<1>1. IInv => TypeOK
  <2> SUFFICES ASSUME IInv  PROVE TypeOK
    OBVIOUS
  <2>1. /\ ErrorToken \in Items
        /\ \A n \in Nat : R1(n) \in Items /\ Payload(n) \in Items /\ Block(n) \in Items
    BY DEF R1, Payload, Block, ErrorToken, Items
  <2>2. /\ <<>> \in Seq(Items) /\ Len(<<>>) <= 2
        /\ \A a \in Items : <<a>> \in Seq(Items) /\ Len(<<a>>) <= 2
        /\ \A a, b \in Items : <<a, b>> \in Seq(Items) /\ Len(<<a, b>>) <= 2
    OBVIOUS
  <2>3. Illegal \in Nat /\ 0 \in Nat
    BY DEF Illegal
  <2>4. out \in Seq(Items) /\ Len(out) <= 2
    <3>1. CASE out = <<>>
      BY <2>2, <3>1
    <3>2. ASSUME Response(out)  PROVE out \in Seq(Items) /\ Len(out) <= 2
      BY <2>1, <2>2, <2>3, <3>2, Zenon DEF Response
    <3>3. ASSUME NEW p \in Nat, out = <<Payload(p)>> \/ out = <<Block(p)>> \/ out = <<ErrorToken>>
          PROVE out \in Seq(Items) /\ Len(out) <= 2
      BY <2>1, <2>2, <3>3, Zenon
    <3> QED  BY <2>3, <3>1, <3>2, <3>3 DEF IInv, Answers
  <2> QED  BY <2>4 DEF IInv, Types, TypeOK
<1> QED  BY <1>1, AlwaysIInv, PTL

(***************************************************************************)
(* What __SD_Send_Cmd, init and read_sector clock in is the card's: it is  *)
(* selected for as long as it has something to say.                        *)
(***************************************************************************)
THEOREM CardIsHeard == Spec => []HeardOut
<1>1. IInv => HeardOut
  BY DEF IInv
<1> QED  BY <1>1, AlwaysIInv, PTL

(***************************************************************************)
(* No answer is taken for that of another command: a command goes out only *)
(* when nothing of the last answer is left, its response begins with an R1 *)
(* and read_sector's wait for the token sees a token.                      *)
(***************************************************************************)
THEOREM AnswersMatch == Spec => []AnswersInTurn
<1>1. IInv => AnswersInTurn
  <2> SUFFICES ASSUME IInv  PROVE AnswersInTurn
    OBVIOUS
  <2>1. stage \in Commands /\ ~sent => out = <<>>
    BY DEF IInv, Answers, Commands, Payloads
  <2>2. stage \in Commands /\ out # <<>> => Head(out).what = "r1"
    BY <2>1, ResponseHeard
  <2>3. stage = "token" /\ out # <<>> => Head(out).what \in {"block", "error"}
    BY TokenHeard
  <2> QED  BY <2>1, <2>2, <2>3 DEF AnswersInTurn
<1> QED  BY <1>1, AlwaysIInv, PTL

(***************************************************************************)
(* When all cards are addressed by sector, as read_sector takes for        *)
(* granted, RES_OK of disk_read means that the buffer holds the sectors    *)
(* asked for, all and in order, whatever read_sector happens to return.    *)
(***************************************************************************)
THEOREM ReadIsComplete ==
  ASSUME \A c \in Cards : c.ccs
  PROVE  Spec => []OkMeansRead
<1>1. IInv => OkMeansRead
  <2> SUFFICES ASSUME IInv, result = "RES_OK"
               PROVE  buf = [i \in 1 .. count |-> first + i - 1]
    BY DEF OkMeansRead
  <2>1. buf \in Seq(Nat) /\ Len(buf) = count
    BY DEF IInv, Types, Reads
  <2>2. \A i \in 1 .. count : buf[i] = first + i - 1
    BY <2>1 DEF IInv, Reads, BySector
  <2>3. buf = [i \in 1 .. count |-> buf[i]]
    BY <2>1
  <2> QED  BY <2>2, <2>3
<1> QED  BY <1>1, AlwaysIInv, PTL
=============================================================================

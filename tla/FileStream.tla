----------------------------- MODULE FileStream -----------------------------
(***************************************************************************)
(* What FatFs promises to a program that reads a file: the bytes come one  *)
(* after the other, each once, and a read returns fewer than asked for     *)
(* only at the end of the file.  A read that fails may have delivered some *)
(* of its bytes; no further byte of that file is ever delivered.           *)
(***************************************************************************)
EXTENDS Naturals, Sequences

CONSTANT Sizes   (* how many bytes are asked for at a time                   *)

VARIABLES
  content,    (* the bytes of the open file, as far as they can be found     *)
  whole,      (* which is all of them                                        *)
  stream,     (* closed, open or broken                                      *)
  pos,        (* bytes read so far                                           *)
  wanted,     (* bytes the read under way is asked for, 0 when there is none *)
  data        (* what the last call has delivered                            *)

streamVars == <<content, whole, stream, pos, wanted, data>>

Rest == SubSeq(content, pos + 1, Len(content))

Init == stream = "closed" /\ content = <<>> /\ whole = TRUE /\ pos = 0
        /\ wanted = 0 /\ data = <<>>

\* Any file may be opened, anew or for the first time.
Open ==
  /\ wanted = 0
  /\ stream' = "open" /\ pos' = 0 /\ data' = <<>>
  /\ UNCHANGED wanted

Close ==
  /\ wanted = 0
  /\ stream' = "closed" /\ content' = <<>> /\ whole' = TRUE /\ pos' = 0 /\ data' = <<>>
  /\ UNCHANGED wanted

\* A call that delivers nothing.
Forgets ==
  /\ wanted = 0
  /\ data' = <<>>
  /\ UNCHANGED <<content, whole, stream, pos, wanted>>

Read(n) ==
  /\ stream = "open" /\ wanted = 0
  /\ n > 0
  /\ wanted' = n /\ data' = <<>>
  /\ UNCHANGED <<content, whole, stream, pos>>

Delivers ==
  /\ wanted > 0 /\ (wanted <= Len(Rest) \/ whole)
  /\ wanted' = 0
  /\ data' = IF wanted < Len(Rest) THEN SubSeq(Rest, 1, wanted) ELSE Rest
  /\ pos' = pos + Len(data')
  /\ UNCHANGED <<content, whole, stream>>

Breaks ==
  /\ wanted > 0
  /\ wanted' = 0 /\ stream' = "broken"
  /\ \E k \in 0 .. wanted - 1 :
       k <= Len(Rest) /\ data' = SubSeq(Rest, 1, k) /\ pos' = pos + k
  /\ UNCHANGED <<content, whole>>

Next == Open \/ Close \/ Forgets \/ Delivers \/ Breaks \/ \E n \in Sizes : Read(n)

Spec == Init /\ [][Next]_streamVars
=============================================================================

------------------------------ MODULE MCSdCard ------------------------------
(* TLC instance of SdCard. *)
EXTENDS SdCard

\* A card is addressed by sector, or, in MCByteCards, by byte.
MCCards == {[v2 |-> TRUE, ccs |-> TRUE], [v2 |-> FALSE, ccs |-> TRUE]}
MCByteCards == {[v2 |-> TRUE, ccs |-> FALSE]}

\* One sector, and two; the sector that a byte address of a block names.
MCRequests == {<<0, 1>>, <<2, 1>>, <<1, 3>>}
=============================================================================

----------------------------- MODULE MCLedShow -----------------------------
(* TLC instance of LedShow. *)
EXTENDS LedShow

MCTypes == {"COLOR_CYCLE", "FRAME_CYCLE", "MIC_UPDATE"}
=============================================================================

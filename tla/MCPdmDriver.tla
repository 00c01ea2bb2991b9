---------------------------- MODULE MCPdmDriver ----------------------------
(* TLC instance of PdmDriver, which has no constants. *)
EXTENDS PdmDriver
=============================================================================

---------------------------- MODULE MCPairedFiller ----------------------------
(* Small instances of PairedFiller for TLC. *)
EXTENDS PairedFiller
=============================================================================

--------------------------- MODULE MCSendTransaction ---------------------------
(* Small instances of SendTransaction for TLC. *)
EXTENDS SendTransaction
=============================================================================

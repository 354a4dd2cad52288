---------------------------- MODULE MCActivePerps ----------------------------
(* Values for TLC: a short, no position and a long. *)
EXTENDS ActivePerps

SignalTargets == {-2, 0, 2}
=============================================================================

------------------------- MODULE MCRecorderRuntime -------------------------
(* Instances of RecorderRuntime for TLC: a few recordings on one connection. *)
EXTENDS RecorderRuntime
=============================================================================

------------------------- MODULE MCCurrentRecording -------------------------
(* Instances of CurrentRecording for TLC: two recordings, few calls. *)
EXTENDS CurrentRecording
MCSymmetry == Permutations(Recording)
=============================================================================

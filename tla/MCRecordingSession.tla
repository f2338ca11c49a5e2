------------------------- MODULE MCRecordingSession -------------------------
(* Instances of RecordingSession for TLC: one recording, a few commands,    *)
(* and every call of the thread, the join and the database allowed to fail. *)
EXTENDS RecordingSession

AllFailures == FailureKinds
=============================================================================

----------------------- MODULE MCRecorderConnection -----------------------
(* Instances of RecorderConnection for TLC: a few sockets to one device. *)
EXTENDS RecorderConnection
=============================================================================

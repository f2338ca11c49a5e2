------------------------ MODULE MCDeviceConnections ------------------------
(* Instances of DeviceConnections for TLC: a few connections to one device. *)
EXTENDS DeviceConnections, TLC

Symmetry == Permutations(Connection)
=============================================================================

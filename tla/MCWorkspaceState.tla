-------------------------- MODULE MCWorkspaceState --------------------------
(***************************************************************************)
(* Instances of WorkspaceState for TLC: interchangeable workspaces, names. *)
(***************************************************************************)
EXTENDS WorkspaceState, TLC

Symmetry == Permutations(Workspace) \cup Permutations(Recording)
SessionSymmetry ==
    Permutations(Workspace) \cup Permutations(DeviceSession) \cup Permutations(Runtime)
=============================================================================

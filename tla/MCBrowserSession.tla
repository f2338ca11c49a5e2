-------------------------- MODULE MCBrowserSession --------------------------
(* Instances of BrowserSession for TLC: two users, few workspaces and calls. *)
EXTENDS BrowserSession, TLC
MCSymmetry == Permutations(Username)
=============================================================================

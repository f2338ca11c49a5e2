---------------------------- MODULE RecordingLock ----------------------------
(***************************************************************************)
(* What the recording leases of session_config.py promise, with no clock,  *)
(* no workspace state and no device sessions: a lock per recording that    *)
(* one workspace holds at a time, one lock per workspace, taken from its   *)
(* holder only after it has lapsed.  WorkspaceState implements it.         *)
(***************************************************************************)
CONSTANTS Workspace, Recording, None

VARIABLES
    holder,  \* the workspace that holds each recording, or None
    lapsed   \* the held recordings whose time is up

vars == <<holder, lapsed>>

TypeOK ==
    /\ holder \in [Recording -> Workspace \cup {None}]
    /\ lapsed \in SUBSET Recording

HeldBy(W) == {x \in Recording : holder[x] \in W}

Init ==
    /\ holder = [x \in Recording |-> None]
    /\ lapsed = {}

\* w takes x, which is free, its own or lapsed, and gives up all others
Claim(w, x) ==
    /\ holder[x] \in {None, w} \/ x \in lapsed
    /\ holder' = [y \in Recording |->
                    IF y = x THEN w ELSE IF holder[y] = w THEN None ELSE holder[y]]
    /\ lapsed' = lapsed \ (HeldBy({w}) \cup {x})

\* The workspaces W go, and the locks X, all lapsed, are collected
Free(W, X) ==
    /\ holder' = [y \in Recording |->
                    IF y \in X \/ holder[y] \in W THEN None ELSE holder[y]]
    /\ lapsed' = lapsed \ (X \cup HeldBy(W))

\* The holder w shows a sign of life
Renew(w) ==
    /\ lapsed' = lapsed \ HeldBy({w})
    /\ UNCHANGED holder

\* Time passes
Lapse(X) ==
    /\ lapsed' = lapsed \cup X
    /\ UNCHANGED holder

Next ==
    \/ \E w \in Workspace : Renew(w) \/ (\E x \in Recording : Claim(w, x))
    \/ \E W \in SUBSET Workspace, X \in SUBSET lapsed : Free(W, X)
    \/ \E X \in SUBSET HeldBy(Workspace) : Lapse(X)

Spec == Init /\ [][Next]_vars
=============================================================================

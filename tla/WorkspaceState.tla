--------------------------- MODULE WorkspaceState ---------------------------
(***************************************************************************)
(* The in-memory session registry of the web backend:                      *)
(* WorkspaceStateManager in src/web/backend/session_config.py.             *)
(*                                                                         *)
(* Every method of the manager runs under one asyncio.Lock and never       *)
(* suspends while it holds it, so a method is one action here.  The four   *)
(* dictionaries are the four variables; an id (a uuid4, never issued       *)
(* twice) is "unused" before it is inserted and "gone" after its deletion. *)
(*                                                                         *)
(* Time stamps are kept as ages: `age' is now - last_user_activity_at (for *)
(* a runtime now - last_user_action_at), `left' is expires_at - now.  Ages *)
(* saturate one past the timeout that reads them, and `left' at 0, which   *)
(* is all the comparisons in the code can tell apart.  Display metadata of *)
(* the lease holder and the write-only last_server_touch_at and            *)
(* last_transport_alive_at are left out.                                   *)
(***************************************************************************)
EXTENDS Naturals

CONSTANTS
    Workspace,      \* workspace ids
    User,           \* logged-in users
    Anonymous,      \* the user_id None of a workspace made before login
    Recording,      \* recording directory names
    Serial,         \* device serials
    DeviceSession,  \* device session ids
    Runtime,        \* recording runtime ids
    None,           \* Python's None
    WorkspaceIdle,  \* WORKSPACE_IDLE_TIMEOUT_SECONDS, in ticks
    DeviceIdle,     \* DEVICE_SESSION_IDLE_TIMEOUT_SECONDS
    RuntimeLease    \* RECORDING_RUNTIME_LEASE_SECONDS

ASSUME TimeoutAssumption ==
    WorkspaceIdle \in Nat /\ DeviceIdle \in Nat /\ RuntimeLease \in Nat

\* With an idle timeout of 0 a lease would be dead the moment it is granted.
ASSUME IdleAssumption == WorkspaceIdle # 0

ASSUME NoneAssumption ==
    /\ None \notin Workspace
    /\ None \notin Recording
    /\ None \notin Serial
    /\ None \notin DeviceSession
    /\ Anonymous \notin User

VARIABLES
    workspaces,  \* _workspaces
    leases,      \* _recording_leases
    devices,     \* _device_sessions
    runtimes     \* _runtime_sessions

vars == <<workspaces, leases, devices, runtimes>>

(***************************************************************************)
(* The states of an entry.                                                 *)
(***************************************************************************)
ActiveRuntime == {"starting", "recording", "paused"}
LiveRuntime   == ActiveRuntime \cup {"stopping"}

WorkspaceEntry == [st   : {"unused", "active", "gone"},
                   user : User \cup {Anonymous},
                   rec  : Recording \cup {None},
                   age  : 0 .. WorkspaceIdle + 1]
LeaseEntry     == [owner : Workspace \cup {None}, left : 0 .. WorkspaceIdle]
DeviceEntry    == [st     : {"unused", "connected", "gone"},
                   ws     : Workspace \cup {None},
                   serial : Serial \cup {None},
                   age    : 0 .. DeviceIdle + 1]
RuntimeEntry   == [st  : LiveRuntime \cup {"unused", "gone"},
                   dev : DeviceSession \cup {None},
                   age : 0 .. RuntimeLease + 1]

NoWorkspace(st) == [st |-> st, user |-> Anonymous, rec |-> None, age |-> 0]
NoLease         == [owner |-> None, left |-> 0]
NoDevice(st)    == [st |-> st, ws |-> None, serial |-> None, age |-> 0]
NoRuntime(st)   == [st |-> st, dev |-> None, age |-> 0]

HasWorkspace(w) == workspaces[w].st = "active"
HasDevice(d)    == devices[d].st = "connected"
HasRuntime(r)   == runtimes[r].st \in LiveRuntime

(***************************************************************************)
(* The expiry tests.  A lease is dead as soon as its time is up, the other *)
(* entries only once it is past.                                           *)
(***************************************************************************)
WorkspaceExpired(w) == HasWorkspace(w) /\ workspaces[w].age > WorkspaceIdle
DeviceExpired(d)    == HasDevice(d) /\ devices[d].age > DeviceIdle
RuntimeExpired(r)   == HasRuntime(r) /\ runtimes[r].age > RuntimeLease
LeaseExpired(x)     == leases[x].owner # None /\ leases[x].left = 0

LiveWorkspace(w) == HasWorkspace(w) /\ ~WorkspaceExpired(w)
LiveDevice(d)    == HasDevice(d) /\ ~DeviceExpired(d)
Owns(w, u)       == LiveWorkspace(w) /\ workspaces[w].user = u

(***************************************************************************)
(* The cascades of the _release_*_locked helpers.  W, D and R are sets of  *)
(* workspaces, device sessions and runtimes that leave the registry        *)
(* together.  ...Of gives what a release drags along, ...Without the       *)
(* dictionary after it.                                                    *)
(***************************************************************************)
DevicesOf(W)  == {d \in DeviceSession : HasDevice(d) /\ devices[d].ws \in W}
RuntimesOf(D) == {r \in Runtime : HasRuntime(r) /\ runtimes[r].dev \in D}
LeasesOf(W)   == {x \in Recording : /\ leases[x].owner \in W
                                    /\ workspaces[leases[x].owner].rec = x}

WorkspacesWithout(W) ==
    [w \in Workspace |-> IF w \in W THEN NoWorkspace("gone") ELSE workspaces[w]]
LeasesWithout(X) ==
    [x \in Recording |-> IF x \in X THEN NoLease ELSE leases[x]]
DevicesWithout(D) ==
    [d \in DeviceSession |-> IF d \in D THEN NoDevice("gone") ELSE devices[d]]
RuntimesWithout(R) ==
    [r \in Runtime |-> IF r \in R THEN NoRuntime("gone") ELSE runtimes[r]]

\* _release_runtime_locked for every member of R
ReleaseRuntimes(R) ==
    /\ runtimes' = RuntimesWithout(R)
    /\ UNCHANGED <<workspaces, leases, devices>>

\* Mutant: a released device session leaves its runtimes registered
ReleaseDevicesOnly(D, R) ==
    /\ devices' = DevicesWithout(D)
    /\ runtimes' = RuntimesWithout(R)
    /\ UNCHANGED <<workspaces, leases>>

\* _release_device_session_locked: the runtimes of a session go first
ReleaseDevices(D, R) ==
    /\ devices' = DevicesWithout(D)
    /\ runtimes' = RuntimesWithout(R \cup RuntimesOf(D))
    /\ UNCHANGED <<workspaces, leases>>

\* _release_workspace_locked: the lease on the current recording, the
\* device sessions and, through them, the runtimes
ReleaseWorkspaces(W, X, D, R) ==
    /\ workspaces' = WorkspacesWithout(W)
    /\ leases' = LeasesWithout(X \cup LeasesOf(W))
    /\ devices' = DevicesWithout(D \cup DevicesOf(W))
    /\ runtimes' = RuntimesWithout(R \cup RuntimesOf(D \cup DevicesOf(W)))

DropWorkspace(w) == ReleaseWorkspaces({w}, {}, {}, {})

-----------------------------------------------------------------------------
Init ==
    /\ workspaces = [w \in Workspace |-> NoWorkspace("unused")]
    /\ leases = [x \in Recording |-> NoLease]
    /\ devices = [d \in DeviceSession |-> NoDevice("unused")]
    /\ runtimes = [r \in Runtime |-> NoRuntime("unused")]

(***************************************************************************)
(* Workspaces and recording leases.                                        *)
(***************************************************************************)

\* bootstrap_workspace without an id
BootstrapNew(w, u) ==
    /\ workspaces[w].st = "unused"
    /\ workspaces' = [workspaces EXCEPT
                        ![w] = [st |-> "active", user |-> u, rec |-> None, age |-> 0]]
    /\ UNCHANGED <<leases, devices, runtimes>>

\* bootstrap_workspace with the id a tab remembers: it refreshes the
\* workspace, and leaves the lease on its current recording as it is
BootstrapExisting(w, u) ==
    \/ /\ WorkspaceExpired(w)
       /\ DropWorkspace(w)
    \/ /\ Owns(w, u)
       /\ workspaces' = [workspaces EXCEPT ![w].age = 0]
       /\ UNCHANGED <<leases, devices, runtimes>>

\* require_workspace: drops the workspace when it finds it expired
RequireWorkspace(w) ==
    /\ WorkspaceExpired(w)
    /\ DropWorkspace(w)

\* Mutant: the lease is renewed, the activity of its workspace is not
TouchLeaseOnly(w, u) ==
    \/ /\ WorkspaceExpired(w)
       /\ DropWorkspace(w)
    \/ /\ Owns(w, u)
       /\ leases' = [x \in Recording |->
                       IF x = workspaces[w].rec /\ leases[x].owner = w
                       THEN [leases[x] EXCEPT !.left = WorkspaceIdle]
                       ELSE leases[x]]
       /\ UNCHANGED <<workspaces, devices, runtimes>>

\* Mutant: no expiry test before the activity is refreshed
TouchUnchecked(w, u) ==
    /\ HasWorkspace(w)
    /\ workspaces[w].user = u
    /\ workspaces' = [workspaces EXCEPT ![w].age = 0]
    /\ UNCHANGED <<leases, devices, runtimes>>

\* touch_workspace_activity: renews the lease on the current recording only
\* if this workspace still has one
TouchWorkspace(w, u) ==
    \/ /\ WorkspaceExpired(w)
       /\ DropWorkspace(w)
    \/ /\ Owns(w, u)
       /\ workspaces' = [workspaces EXCEPT ![w].age = 0]
       /\ leases' = [x \in Recording |->
                       IF x = workspaces[w].rec /\ leases[x].owner = w
                       THEN [leases[x] EXCEPT !.left = WorkspaceIdle]
                       ELSE leases[x]]
       /\ UNCHANGED <<devices, runtimes>>

\* The lease on the recording w leaves when it selects x
LeftBehind(w, x) == LeasesOf({w}) \ {x}

\* set_current_recording, refused: by then the old lease has been released,
\* and current_recording still names the old recording
SetCurrentConflict(w, x) ==
    /\ LiveWorkspace(w)
    /\ leases[x].owner \notin {None, w}
    /\ ~LeaseExpired(x)
    /\ leases' = LeasesWithout(LeftBehind(w, x))
    /\ UNCHANGED <<workspaces, devices, runtimes>>

\* Mutant: the lease of the recording left behind is kept
SetCurrentKeepsOld(w, x) ==
    /\ LiveWorkspace(w)
    /\ leases[x].owner \in {None, w} \/ LeaseExpired(x)
    /\ leases' = [leases EXCEPT ![x] = [owner |-> w, left |-> WorkspaceIdle]]
    /\ workspaces' = [workspaces EXCEPT
                       ![w] = [st |-> "active", user |-> @.user, rec |-> x, age |-> 0]]
    /\ UNCHANGED <<devices, runtimes>>

\* Mutant: the lease of another workspace is overwritten
SetCurrentSteals(w, x) ==
    /\ LiveWorkspace(w)
    /\ leases' = [LeasesWithout(LeftBehind(w, x)) EXCEPT
                    ![x] = [owner |-> w, left |-> WorkspaceIdle]]
    /\ workspaces' = [workspaces EXCEPT
                       ![w] = [st |-> "active", user |-> @.user, rec |-> x, age |-> 0]]
    /\ UNCHANGED <<devices, runtimes>>

\* set_current_recording, granted
SetCurrentGranted(w, x) ==
    /\ LiveWorkspace(w)
    /\ leases[x].owner \in {None, w} \/ LeaseExpired(x)
    /\ leases' = [LeasesWithout(LeftBehind(w, x)) EXCEPT
                    ![x] = [owner |-> w, left |-> WorkspaceIdle]]
    /\ workspaces' = [workspaces EXCEPT
                       ![w] = [st |-> "active", user |-> @.user, rec |-> x, age |-> 0]]
    /\ UNCHANGED <<devices, runtimes>>

SetCurrentRecording(w, x) ==
    \/ WorkspaceExpired(w) /\ DropWorkspace(w)
    \/ SetCurrentConflict(w, x)
    \/ SetCurrentGranted(w, x)

\* release_current_recording: no expiry test
ReleaseCurrentRecording(w) ==
    /\ HasWorkspace(w)
    /\ leases' = LeasesWithout(LeasesOf({w}))
    /\ workspaces' = [workspaces EXCEPT ![w].rec = None]
    /\ UNCHANGED <<devices, runtimes>>

\* release_workspace: no expiry test
ReleaseWorkspace(w) ==
    /\ HasWorkspace(w)
    /\ DropWorkspace(w)

(***************************************************************************)
(* Device sessions.                                                        *)
(***************************************************************************)
ExpiredDevices  == {d \in DeviceSession : DeviceExpired(d)}
ExpiredRuntimes == {r \in Runtime : RuntimeExpired(r)}

\* create_device_session, refused: the loop stops at the session that holds
\* the serial, so P, the expired sessions met before it, depends on the
\* order of the dictionary
CreateDeviceConflict(w, u, s) ==
    /\ Owns(w, u)
    /\ \E d \in DeviceSession : LiveDevice(d) /\ devices[d].serial = s
    /\ \E P \in SUBSET ExpiredDevices : ReleaseDevices(P, {})

\* Mutant: only the workspace's own sessions are searched for the serial
CreateDeviceOwnOnly(w, u, s, d) ==
    /\ Owns(w, u)
    /\ devices[d].st = "unused"
    /\ \A e \in DeviceSession :
          LiveDevice(e) /\ devices[e].ws = w => devices[e].serial # s
    /\ devices' = [DevicesWithout(ExpiredDevices) EXCEPT
                     ![d] = [st |-> "connected", ws |-> w, serial |-> s, age |-> 0]]
    /\ runtimes' = RuntimesWithout(RuntimesOf(ExpiredDevices))
    /\ UNCHANGED <<workspaces, leases>>

\* create_device_session, granted
CreateDeviceGranted(w, u, s, d) ==
    /\ Owns(w, u)
    /\ devices[d].st = "unused"
    /\ \A e \in DeviceSession : LiveDevice(e) => devices[e].serial # s
    /\ devices' = [DevicesWithout(ExpiredDevices) EXCEPT
                     ![d] = [st |-> "connected", ws |-> w, serial |-> s, age |-> 0]]
    /\ runtimes' = RuntimesWithout(RuntimesOf(ExpiredDevices))
    /\ UNCHANGED <<workspaces, leases>>

CreateDeviceSession(w, u, s) ==
    \/ WorkspaceExpired(w) /\ DropWorkspace(w)
    \/ CreateDeviceConflict(w, u, s)
    \/ \E d \in DeviceSession : CreateDeviceGranted(w, u, s, d)

\* require_device_session and touch_device_transport: an expired session is
\* released; keeping the transport alive is no user activity
RequireDevice(d) ==
    /\ DeviceExpired(d)
    /\ ReleaseDevices({d}, {})

\* Mutant: no expiry test before the activity is refreshed
TouchDeviceUnchecked(d) ==
    /\ HasDevice(d)
    /\ devices' = [devices EXCEPT ![d].age = 0]
    /\ UNCHANGED <<workspaces, leases, runtimes>>

\* touch_device_activity
TouchDevice(d) ==
    \/ RequireDevice(d)
    \/ /\ LiveDevice(d)
       /\ devices' = [devices EXCEPT ![d].age = 0]
       /\ UNCHANGED <<workspaces, leases, runtimes>>

\* is_device_locked(s): purges what it finds expired before the holder of s
IsDeviceLocked(s) ==
    \/ /\ \E d \in DeviceSession : LiveDevice(d) /\ devices[d].serial = s
       /\ \E P \in SUBSET ExpiredDevices : ReleaseDevices(P, {})
    \/ /\ \A d \in DeviceSession : LiveDevice(d) => devices[d].serial # s
       /\ ReleaseDevices(ExpiredDevices, {})

\* release_device_session
ReleaseDeviceSession(d) ==
    /\ HasDevice(d)
    /\ ReleaseDevices({d}, {})

(***************************************************************************)
(* Recording runtimes.                                                     *)
(***************************************************************************)
RuntimeBusy(d) ==
    \E r \in Runtime : /\ runtimes[r].dev = d
                       /\ runtimes[r].st \in ActiveRuntime
                       /\ ~RuntimeExpired(r)

\* create_runtime_session: neither the workspace nor its lease is looked at
CreateRuntimeConflict(d) ==
    /\ LiveDevice(d)
    /\ RuntimeBusy(d)
    /\ \E P \in SUBSET ExpiredRuntimes : ReleaseRuntimes(P)

CreateRuntimeGranted(d, r) ==
    /\ LiveDevice(d)
    /\ runtimes[r].st = "unused"
    /\ ~RuntimeBusy(d)
    /\ runtimes' = [RuntimesWithout(ExpiredRuntimes) EXCEPT
                      ![r] = [st |-> "starting", dev |-> d, age |-> 0]]
    /\ UNCHANGED <<workspaces, leases, devices>>

CreateRuntimeSession(d) ==
    \/ RequireDevice(d)
    \/ CreateRuntimeConflict(d)
    \/ \E r \in Runtime : CreateRuntimeGranted(d, r)

\* require_runtime_session
RequireRuntime(r) ==
    /\ RuntimeExpired(r)
    /\ ReleaseRuntimes({r})

\* set_runtime_state: no expiry test, so it brings back to life a runtime
\* whose lease ran out and that nobody has collected yet
SetRuntimeState(r, st) ==
    /\ HasRuntime(r)
    /\ runtimes' = [runtimes EXCEPT ![r] = [st |-> st, dev |-> @.dev, age |-> 0]]
    /\ UNCHANGED <<workspaces, leases, devices>>

\* touch_runtime_activity
TouchRuntime(r) ==
    \/ RequireRuntime(r)
    \/ /\ HasRuntime(r) /\ ~RuntimeExpired(r)
       /\ runtimes' = [runtimes EXCEPT ![r].age = 0]
       /\ UNCHANGED <<workspaces, leases, devices>>

\* release_runtime_session
ReleaseRuntimeSession(r) ==
    /\ HasRuntime(r)
    /\ ReleaseRuntimes({r})

(***************************************************************************)
(* The cleanup task, every SESSION_CLEANUP_INTERVAL seconds, and time.     *)
(***************************************************************************)
ExpiredWorkspaces == {w \in Workspace : WorkspaceExpired(w)}
ExpiredLeases     == {x \in Recording : LeaseExpired(x)}

\* Mutant: the sweep forgets the workspaces
CleanupSessionsOnly ==
    ReleaseWorkspaces({}, ExpiredLeases, ExpiredDevices, ExpiredRuntimes)

CleanupExpired ==
    ReleaseWorkspaces(ExpiredWorkspaces, ExpiredLeases, ExpiredDevices, ExpiredRuntimes)

Older(age, timeout) == IF age > timeout THEN age ELSE age + 1

Tick ==
    /\ workspaces' = [w \in Workspace |->
          IF HasWorkspace(w)
          THEN [workspaces[w] EXCEPT !.age = Older(@, WorkspaceIdle)]
          ELSE workspaces[w]]
    /\ leases' = [x \in Recording |->
          IF leases[x].left > 0 THEN [leases[x] EXCEPT !.left = @ - 1] ELSE leases[x]]
    /\ devices' = [d \in DeviceSession |->
          IF HasDevice(d)
          THEN [devices[d] EXCEPT !.age = Older(@, DeviceIdle)]
          ELSE devices[d]]
    /\ runtimes' = [r \in Runtime |->
          IF HasRuntime(r)
          THEN [runtimes[r] EXCEPT !.age = Older(@, RuntimeLease)]
          ELSE runtimes[r]]

-----------------------------------------------------------------------------
WorkspaceNext ==
    \E w \in Workspace :
        \/ \E u \in User \cup {Anonymous} : BootstrapNew(w, u) \/ BootstrapExisting(w, u)
        \/ \E u \in User : TouchWorkspace(w, u)
        \/ RequireWorkspace(w)
        \/ \E x \in Recording : SetCurrentRecording(w, x)
        \/ ReleaseCurrentRecording(w)
        \/ ReleaseWorkspace(w)
        \/ \E u \in User, s \in Serial : CreateDeviceSession(w, u, s)

DeviceNext ==
    \/ \E s \in Serial : IsDeviceLocked(s)
    \/ \E d \in DeviceSession :
          \/ RequireDevice(d)
          \/ TouchDevice(d)
          \/ ReleaseDeviceSession(d)
          \/ CreateRuntimeSession(d)

RuntimeNext ==
    \E r \in Runtime :
        \/ RequireRuntime(r)
        \/ \E st \in {"recording", "paused", "stopping"} : SetRuntimeState(r, st)
        \/ TouchRuntime(r)
        \/ ReleaseRuntimeSession(r)

Next == WorkspaceNext \/ DeviceNext \/ RuntimeNext \/ CleanupExpired \/ Tick

Spec == Init /\ [][Next]_vars

\* The cleanup task of start_session_cleanup_task loops for as long as the
\* server runs, and time passes.
FairSpec == Spec /\ WF_vars(CleanupExpired) /\ WF_vars(Tick)

-----------------------------------------------------------------------------
TypeOK ==
    /\ workspaces \in [Workspace -> WorkspaceEntry]
    /\ leases \in [Recording -> LeaseEntry]
    /\ devices \in [DeviceSession -> DeviceEntry]
    /\ runtimes \in [Runtime -> RuntimeEntry]

\* A lease always belongs to a workspace that is still registered and whose
\* current_recording is the leased one: the releases in
\* _release_workspace_locked and set_current_recording, which only look at
\* current_recording, never leave a lease behind that nobody will release.
NoOrphanLease ==
    \A x \in Recording :
        leases[x].owner # None =>
            /\ HasWorkspace(leases[x].owner)
            /\ workspaces[leases[x].owner].rec = x

\* A lease never outlasts the idle window of its owner: whoever meets an
\* unexpired lease in set_current_recording meets a workspace that is not
\* expired, although leases and workspaces are renewed by different calls.
LeaseWithinIdleWindow ==
    \A x \in Recording :
        leases[x].owner # None /\ leases[x].left > 0 =>
            leases[x].left + workspaces[leases[x].owner].age <= WorkspaceIdle

\* Sessions form a tree: a device session has its workspace and a runtime
\* its device session for as long as it is registered, whatever order
\* expiries, releases and the cleanup task come in.
NoDanglingSession ==
    /\ \A d \in DeviceSession :
          HasDevice(d) => devices[d].ws \in {w \in Workspace : HasWorkspace(w)}
    /\ \A r \in Runtime :
          HasRuntime(r) => runtimes[r].dev \in {d \in DeviceSession : HasDevice(d)}

\* create_device_session keeps the registered sessions of a serial to one.
OneSessionPerSerial ==
    \A d, e \in DeviceSession :
        HasDevice(d) /\ HasDevice(e) /\ devices[d].serial = devices[e].serial => d = e

\* What has expired stays expired: no call brings a workspace or a device
\* session back to life once it is past its idle timeout, it can only be
\* removed.  A lease whose time is up may still be renewed by its holder,
\* and a runtime by set_runtime_state, as long as nobody has collected it.
ExpiredStaysExpired ==
    [][/\ \A w \in Workspace : WorkspaceExpired(w) => ~LiveWorkspace(w)'
       /\ \A d \in DeviceSession : DeviceExpired(d) => ~LiveDevice(d)']_vars

\* An expired workspace is collected, with its sessions, even if nobody
\* ever calls again.
ExpiredIsCollected ==
    \A w \in Workspace : WorkspaceExpired(w) ~> workspaces[w].st = "gone"

\* The leases are a lock: the abstract lock they implement, a lease being
\* lapsed once its time is up.
Lock == INSTANCE RecordingLock WITH
            holder <- [x \in Recording |-> leases[x].owner],
            lapsed <- {x \in Recording : LeaseExpired(x)}

\* Every step of the registry is a step of RecordingLock: at most one
\* workspace holds a recording, none holds two, and a lease that is still
\* running is never given to somebody else.
ImplementsRecordingLock == Lock!Spec
=============================================================================

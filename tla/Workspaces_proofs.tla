------------------------- MODULE Workspaces_proofs -------------------------
(***************************************************************************)
(* Proofs about workspaces, on the server (WorkspaceState) and in a tab of *)
(* the browser (BrowserSession, from TabTypes on), for every set of        *)
(* workspaces, recordings, sessions, users and every timeout and bound:    *)
(* the invariants of both, that the server's leases implement              *)
(* RecordingLock, and that a tab lets go of a live workspace only with its *)
(* user.  The two share no state: a tab's workspaces are the server's,     *)
(* reduced to owner and life.                                              *)
(***************************************************************************)
EXTENDS WorkspaceState, BrowserSession, SequenceTheorems, WellFoundedInduction, TLAPS

\* The inductive invariant: the conjuncts need each other (a lease may be
\* dropped with its owner only because NoOrphanLease finds it through
\* current_recording, and NoDanglingSession needs the types).
IInv ==
    /\ TypeOK
    /\ NoOrphanLease
    /\ LeaseWithinIdleWindow
    /\ NoDanglingSession
    /\ OneSessionPerSerial

LEMMA InitIInv == Init => IInv
  BY TimeoutAssumption, NoneAssumption
  DEF Init, IInv, TypeOK, NoOrphanLease, LeaseWithinIdleWindow, NoDanglingSession,
      OneSessionPerSerial, WorkspaceEntry, LeaseEntry, DeviceEntry, RuntimeEntry,
      NoWorkspace, NoLease, NoDevice, NoRuntime, HasWorkspace, HasDevice, HasRuntime,
      LiveRuntime, ActiveRuntime

(***************************************************************************)
(* The releases, each for all the actions that end in it.                  *)
(***************************************************************************)
LEMMA ReleaseWorkspacesIInv ==
  ASSUME IInv,
         NEW W \in SUBSET Workspace, NEW X \in SUBSET Recording,
         NEW D \in SUBSET DeviceSession, NEW R \in SUBSET Runtime,
         ReleaseWorkspaces(W, X, D, R)
  PROVE  IInv'
<1> USE TimeoutAssumption, NoneAssumption
<1> USE DEF IInv, ReleaseWorkspaces
<1>1. TypeOK'
  BY DEF TypeOK, WorkspaceEntry, LeaseEntry, DeviceEntry, RuntimeEntry, WorkspacesWithout,
         LeasesWithout, DevicesWithout, RuntimesWithout, NoWorkspace, NoLease, NoDevice,
         NoRuntime
<1>2. NoOrphanLease'
  BY DEF NoOrphanLease, TypeOK, LeaseEntry, HasWorkspace, LeasesOf, LeasesWithout,
         WorkspacesWithout, NoLease
<1>3. LeaseWithinIdleWindow'
  BY DEF LeaseWithinIdleWindow, NoOrphanLease, TypeOK, LeaseEntry, LeasesOf, LeasesWithout,
         WorkspacesWithout, NoLease
<1>4. NoDanglingSession'
  BY DEF NoDanglingSession, TypeOK, HasWorkspace, HasDevice, HasRuntime, DevicesOf,
         RuntimesOf, WorkspacesWithout, DevicesWithout, RuntimesWithout, NoDevice, NoRuntime,
         LiveRuntime, ActiveRuntime
<1>5. OneSessionPerSerial'
  BY DEF OneSessionPerSerial, HasDevice, DevicesWithout, NoDevice
<1>6. QED
  BY <1>1, <1>2, <1>3, <1>4, <1>5

LEMMA ReleaseDevicesIInv ==
  ASSUME IInv, NEW D \in SUBSET DeviceSession, NEW R \in SUBSET Runtime,
         ReleaseDevices(D, R)
  PROVE  IInv'
<1> USE TimeoutAssumption, NoneAssumption DEF IInv, ReleaseDevices
<1>1. TypeOK'
  BY DEF TypeOK, DeviceEntry, RuntimeEntry, DevicesWithout, RuntimesWithout, NoDevice,
         NoRuntime
<1>2. NoOrphanLease' /\ LeaseWithinIdleWindow'
  BY DEF NoOrphanLease, LeaseWithinIdleWindow, HasWorkspace
<1>3. NoDanglingSession'
  BY DEF NoDanglingSession, TypeOK, HasWorkspace, HasDevice, HasRuntime,
         RuntimesOf, DevicesWithout, RuntimesWithout, NoDevice, NoRuntime,
         LiveRuntime, ActiveRuntime
<1>4. OneSessionPerSerial'
  BY DEF OneSessionPerSerial, HasDevice, DevicesWithout, NoDevice
<1>5. QED
  BY <1>1, <1>2, <1>3, <1>4

LEMMA ReleaseRuntimesIInv ==
  ASSUME IInv, NEW R \in SUBSET Runtime, ReleaseRuntimes(R)
  PROVE  IInv'
<1>1. ReleaseDevices({}, R)
  BY DEF ReleaseRuntimes, ReleaseDevices, DevicesWithout, RuntimesOf, RuntimesWithout, IInv,
         TypeOK
<1>2. QED
  BY <1>1, ReleaseDevicesIInv

(***************************************************************************)
(* The actions of a workspace.                                             *)
(***************************************************************************)
LEMMA DropWorkspaceIInv ==
  ASSUME IInv, NEW w \in Workspace, DropWorkspace(w)
  PROVE  IInv'
  BY ReleaseWorkspacesIInv DEF DropWorkspace

LEMMA BootstrapIInv ==
  ASSUME IInv, NEW w \in Workspace, NEW u \in User \cup {Anonymous},
         BootstrapNew(w, u) \/ BootstrapExisting(w, u)
  PROVE  IInv'
<1>1. CASE BootstrapNew(w, u)
  BY <1>1, TimeoutAssumption, NoneAssumption
  DEF BootstrapNew, IInv, TypeOK, NoOrphanLease, LeaseWithinIdleWindow, NoDanglingSession,
      OneSessionPerSerial, WorkspaceEntry, LeaseEntry, HasWorkspace, HasDevice, HasRuntime
<1>2. CASE WorkspaceExpired(w) /\ DropWorkspace(w)
  BY <1>2, DropWorkspaceIInv
<1>3. CASE Owns(w, u) /\ workspaces' = [workspaces EXCEPT ![w].age = 0]
           /\ UNCHANGED <<leases, devices, runtimes>>
  BY <1>3, TimeoutAssumption, NoneAssumption
  DEF IInv, TypeOK, NoOrphanLease, LeaseWithinIdleWindow, NoDanglingSession,
      OneSessionPerSerial, WorkspaceEntry, LeaseEntry, HasWorkspace, HasDevice, HasRuntime
<1>4. QED
  BY <1>1, <1>2, <1>3 DEF BootstrapExisting

LEMMA TouchWorkspaceIInv ==
  ASSUME IInv, NEW w \in Workspace, NEW u \in User, TouchWorkspace(w, u)
  PROVE  IInv'
<1>1. CASE WorkspaceExpired(w) /\ DropWorkspace(w)
  BY <1>1, DropWorkspaceIInv
<1>2. CASE ~WorkspaceExpired(w)
  <2> USE <1>2, TimeoutAssumption, NoneAssumption DEF TouchWorkspace, Owns, LiveWorkspace
  <2>1. TypeOK'
    <3>1. workspaces' \in [Workspace -> WorkspaceEntry]
      BY DEF IInv, TypeOK, WorkspaceEntry
    <3>2. leases' \in [Recording -> LeaseEntry]
      BY DEF IInv, TypeOK, LeaseEntry
    <3>3. QED
      BY <3>1, <3>2 DEF IInv, TypeOK
  <2>2. NoOrphanLease' /\ LeaseWithinIdleWindow'
    <3>1. ASSUME NEW x \in Recording
          PROVE  /\ leases'[x].owner = leases[x].owner
                 /\ leases[x].owner # w => leases'[x].left = leases[x].left
                 /\ leases'[x].left \in 0 .. WorkspaceIdle
      BY DEF IInv, TypeOK, LeaseEntry
    <3>2. ASSUME NEW v \in Workspace
          PROVE  /\ workspaces'[v].st = workspaces[v].st
                 /\ workspaces'[v].rec = workspaces[v].rec
                 /\ workspaces'[v].age = IF v = w THEN 0 ELSE workspaces[v].age
      BY DEF IInv, TypeOK, WorkspaceEntry
    <3>3. \A x \in Recording : leases[x].owner # None => leases[x].owner \in Workspace
      BY DEF IInv, TypeOK, LeaseEntry
    <3>4. NoOrphanLease'
      BY <3>1, <3>2, <3>3 DEF IInv, NoOrphanLease, HasWorkspace
    <3>5. LeaseWithinIdleWindow'
      BY <3>1, <3>2, <3>3 DEF IInv, LeaseWithinIdleWindow
    <3>6. QED
      BY <3>4, <3>5
  <2>3. NoDanglingSession'
    <3>1. \A v \in Workspace : workspaces'[v].st = workspaces[v].st
      BY DEF IInv, TypeOK, WorkspaceEntry
    <3>2. devices' = devices /\ runtimes' = runtimes
      OBVIOUS
    <3>3. QED
      BY <3>1, <3>2 DEF IInv, NoDanglingSession, HasWorkspace, HasDevice, HasRuntime
  <2>4. OneSessionPerSerial'
    BY DEF IInv, OneSessionPerSerial, HasDevice
  <2>5. QED
    BY <2>1, <2>2, <2>3, <2>4 DEF IInv
<1>3. QED
  BY <1>1, <1>2 DEF TouchWorkspace, Owns, LiveWorkspace

LEMMA SetCurrentIInv ==
  ASSUME IInv, NEW w \in Workspace, NEW x \in Recording, SetCurrentRecording(w, x)
  PROVE  IInv'
<1> USE TimeoutAssumption, NoneAssumption
<1>1. CASE WorkspaceExpired(w) /\ DropWorkspace(w)
  BY <1>1, DropWorkspaceIInv
<1>2. CASE SetCurrentConflict(w, x)
  BY <1>2 DEF SetCurrentConflict, LeftBehind, LeasesOf, LeasesWithout, NoLease,
      IInv, TypeOK, NoOrphanLease, LeaseWithinIdleWindow, NoDanglingSession,
      OneSessionPerSerial, LeaseEntry, HasWorkspace, HasDevice, HasRuntime
<1>3. CASE SetCurrentGranted(w, x)
  <2>1. ASSUME NEW v \in Workspace
        PROVE  workspaces'[v] = IF v = w THEN [st |-> "active", user |-> workspaces[w].user,
                                               rec |-> x, age |-> 0]
                                ELSE workspaces[v]
    BY <1>3 DEF SetCurrentGranted, IInv, TypeOK
  <2>2. ASSUME NEW y \in Recording, leases'[y].owner # None
        PROVE  \/ y = x /\ leases'[y] = [owner |-> w, left |-> WorkspaceIdle]
               \/ y # x /\ leases[y].owner # w /\ leases'[y] = leases[y]
    BY <1>3, <2>2
    DEF SetCurrentGranted, LeftBehind, LeasesOf, LeasesWithout, NoLease, IInv, TypeOK,
        NoOrphanLease
  <2>3. HasWorkspace(w) /\ \A y \in Recording :
                             leases[y].owner # None => leases[y].owner \in Workspace
    BY <1>3 DEF SetCurrentGranted, LiveWorkspace, IInv, TypeOK, LeaseEntry
  <2>4. TypeOK'
    <3>1. workspaces' \in [Workspace -> WorkspaceEntry]
      <4>1. workspaces[w] \in WorkspaceEntry
        BY DEF IInv, TypeOK
      <4>2. [st |-> "active", user |-> workspaces[w].user, rec |-> x, age |-> 0]
               \in WorkspaceEntry
        BY <4>1 DEF WorkspaceEntry
      <4>3. QED
        BY <1>3, <4>2 DEF SetCurrentGranted, IInv, TypeOK
    <3>2. leases' \in [Recording -> LeaseEntry]
      BY <1>3 DEF SetCurrentGranted, LeftBehind, LeasesOf, LeasesWithout, NoLease, IInv,
                  TypeOK, LeaseEntry
    <3>3. QED
      BY <1>3, <3>1, <3>2 DEF SetCurrentGranted, IInv, TypeOK
  <2>5. NoOrphanLease'
    BY <2>1, <2>2, <2>3 DEF IInv, NoOrphanLease, HasWorkspace
  <2>6. LeaseWithinIdleWindow'
    BY <2>1, <2>2, <2>3 DEF IInv, LeaseWithinIdleWindow
  <2>7. \A v \in Workspace : HasWorkspace(v) => HasWorkspace(v)'
    BY <2>1 DEF HasWorkspace
  <2>8. NoDanglingSession' /\ OneSessionPerSerial'
    BY <1>3, <2>7
    DEF SetCurrentGranted, IInv, NoDanglingSession, OneSessionPerSerial, HasDevice,
        HasRuntime
  <2>9. QED
    BY <2>4, <2>5, <2>6, <2>8 DEF IInv
<1>4. QED
  BY <1>1, <1>2, <1>3 DEF SetCurrentRecording

LEMMA ReleaseCurrentIInv ==
  ASSUME IInv, NEW w \in Workspace, ReleaseCurrentRecording(w)
  PROVE  IInv'
  BY TimeoutAssumption, NoneAssumption
  DEF ReleaseCurrentRecording, LeasesOf, LeasesWithout, NoLease, IInv, TypeOK,
      NoOrphanLease, LeaseWithinIdleWindow, NoDanglingSession, OneSessionPerSerial,
      WorkspaceEntry, LeaseEntry, HasWorkspace, HasDevice, HasRuntime

LEMMA CreateDeviceIInv ==
  ASSUME IInv, NEW w \in Workspace, NEW u \in User, NEW s \in Serial,
         CreateDeviceSession(w, u, s)
  PROVE  IInv'
<1> USE TimeoutAssumption, NoneAssumption
<1>1. CASE WorkspaceExpired(w) /\ DropWorkspace(w)
  BY <1>1, DropWorkspaceIInv
<1>2. CASE CreateDeviceConflict(w, u, s)
  BY <1>2, ReleaseDevicesIInv DEF CreateDeviceConflict, ExpiredDevices
<1>3. ASSUME NEW d \in DeviceSession, CreateDeviceGranted(w, u, s, d)
      PROVE  IInv'
  <2> USE <1>3 DEF CreateDeviceGranted, DevicesWithout, RuntimesWithout, RuntimesOf,
                   ExpiredDevices, DeviceExpired, LiveDevice, NoDevice, NoRuntime,
                   HasDevice
  <2>1. TypeOK'
    BY DEF IInv, TypeOK, DeviceEntry, RuntimeEntry
  <2>2. NoOrphanLease' /\ LeaseWithinIdleWindow'
    BY DEF IInv, NoOrphanLease, LeaseWithinIdleWindow, HasWorkspace
  <2>3. NoDanglingSession'
    BY DEF IInv, TypeOK, NoDanglingSession, HasWorkspace, HasRuntime, Owns, LiveWorkspace,
           LiveRuntime, ActiveRuntime, DeviceEntry, RuntimeEntry
  <2>4. OneSessionPerSerial'
    BY DEF IInv, TypeOK, OneSessionPerSerial, DeviceEntry
  <2>5. QED
    BY <2>1, <2>2, <2>3, <2>4 DEF IInv
<1>4. QED
  BY <1>1, <1>2, <1>3 DEF CreateDeviceSession

LEMMA WorkspaceNextIInv == IInv /\ WorkspaceNext => IInv'
<1> SUFFICES ASSUME IInv, NEW w \in Workspace,
                    \/ \E u \in User \cup {Anonymous} :
                          BootstrapNew(w, u) \/ BootstrapExisting(w, u)
                    \/ \E u \in User : TouchWorkspace(w, u)
                    \/ RequireWorkspace(w)
                    \/ \E x \in Recording : SetCurrentRecording(w, x)
                    \/ ReleaseCurrentRecording(w)
                    \/ ReleaseWorkspace(w)
                    \/ \E u \in User, s \in Serial : CreateDeviceSession(w, u, s)
             PROVE  IInv'
  BY DEF WorkspaceNext
<1>1. CASE RequireWorkspace(w) \/ ReleaseWorkspace(w)
  BY <1>1, DropWorkspaceIInv DEF RequireWorkspace, ReleaseWorkspace
<1>2. QED
  BY <1>1, BootstrapIInv, TouchWorkspaceIInv, SetCurrentIInv, ReleaseCurrentIInv,
     CreateDeviceIInv

(***************************************************************************)
(* The actions of device sessions and runtimes.                            *)
(***************************************************************************)
LEMMA DeviceNextIInv == IInv /\ DeviceNext => IInv'
<1> USE TimeoutAssumption, NoneAssumption
<1>1. ASSUME IInv, NEW s \in Serial, IsDeviceLocked(s)
      PROVE  IInv'
  BY <1>1, ReleaseDevicesIInv DEF IsDeviceLocked, ExpiredDevices
<1>2. ASSUME IInv, NEW d \in DeviceSession, RequireDevice(d) \/ ReleaseDeviceSession(d)
      PROVE  IInv'
  BY <1>2, ReleaseDevicesIInv DEF RequireDevice, ReleaseDeviceSession
<1>3. ASSUME IInv, NEW d \in DeviceSession, TouchDevice(d)
      PROVE  IInv'
  <2>1. CASE RequireDevice(d)
    BY <1>2, <1>3, <2>1
  <2>2. CASE LiveDevice(d) /\ devices' = [devices EXCEPT ![d].age = 0]
             /\ UNCHANGED <<workspaces, leases, runtimes>>
    BY <1>3, <2>2
    DEF IInv, TypeOK, NoOrphanLease, LeaseWithinIdleWindow, NoDanglingSession,
        OneSessionPerSerial, DeviceEntry, HasWorkspace, HasDevice, HasRuntime
  <2>3. QED
    BY <1>3, <2>1, <2>2 DEF TouchDevice
<1>4. ASSUME IInv, NEW d \in DeviceSession, CreateRuntimeSession(d)
      PROVE  IInv'
  <2>1. CASE RequireDevice(d)
    BY <1>2, <1>4, <2>1
  <2>2. CASE CreateRuntimeConflict(d)
    BY <1>4, <2>2, ReleaseRuntimesIInv DEF CreateRuntimeConflict, ExpiredRuntimes
  <2>3. ASSUME NEW r \in Runtime, CreateRuntimeGranted(d, r)
        PROVE  IInv'
    BY <1>4, <2>3
    DEF CreateRuntimeGranted, RuntimesWithout, NoRuntime, IInv, TypeOK, NoOrphanLease,
        LeaseWithinIdleWindow, NoDanglingSession, OneSessionPerSerial, RuntimeEntry,
        HasWorkspace, HasDevice, HasRuntime, LiveDevice, LiveRuntime, ActiveRuntime
  <2>4. QED
    BY <1>4, <2>1, <2>2, <2>3 DEF CreateRuntimeSession
<1>5. QED
  BY <1>1, <1>2, <1>3, <1>4 DEF DeviceNext

LEMMA RuntimeNextIInv == IInv /\ RuntimeNext => IInv'
<1> USE TimeoutAssumption, NoneAssumption
<1>1. ASSUME IInv, NEW r \in Runtime, RequireRuntime(r) \/ ReleaseRuntimeSession(r)
      PROVE  IInv'
  BY <1>1, ReleaseRuntimesIInv DEF RequireRuntime, ReleaseRuntimeSession
<1>2. ASSUME IInv, NEW r \in Runtime, HasRuntime(r), UNCHANGED <<workspaces, leases, devices>>,
             NEW st \in LiveRuntime,
             runtimes' = [runtimes EXCEPT ![r] = [st |-> st, dev |-> @.dev, age |-> 0]]
      PROVE  IInv'
  <2>1. TypeOK'
    <3>1. runtimes[r] \in RuntimeEntry
      BY <1>2 DEF IInv, TypeOK
    <3>2. [st |-> st, dev |-> runtimes[r].dev, age |-> 0] \in RuntimeEntry
      BY <1>2, <3>1 DEF RuntimeEntry
    <3>3. QED
      BY <1>2, <3>2 DEF IInv, TypeOK
  <2>2. NoDanglingSession'
    BY <1>2 DEF IInv, TypeOK, NoDanglingSession, RuntimeEntry, HasWorkspace, HasDevice,
                HasRuntime
  <2>3. QED
    BY <1>2, <2>1, <2>2
    DEF IInv, NoOrphanLease, LeaseWithinIdleWindow, OneSessionPerSerial, HasWorkspace,
        HasDevice
<1>3. ASSUME IInv, NEW r \in Runtime, HasRuntime(r), UNCHANGED <<workspaces, leases, devices>>,
             runtimes' = [runtimes EXCEPT ![r].age = 0]
      PROVE  IInv'
  BY <1>3
  DEF IInv, TypeOK, NoOrphanLease, LeaseWithinIdleWindow, NoDanglingSession,
      OneSessionPerSerial, RuntimeEntry, HasWorkspace, HasDevice, HasRuntime
<1>4. QED
  BY <1>1, <1>2, <1>3
  DEF RuntimeNext, SetRuntimeState, TouchRuntime, LiveRuntime, ActiveRuntime

LEMMA TickIInv == IInv /\ Tick => IInv'
<1> SUFFICES ASSUME IInv, Tick PROVE IInv'
  OBVIOUS
<1> USE TimeoutAssumption, NoneAssumption DEF Tick, Older, HasWorkspace, HasDevice, HasRuntime
<1>1. TypeOK'
  <2>1. workspaces' \in [Workspace -> WorkspaceEntry]
    <3>1. ASSUME NEW w \in Workspace
          PROVE  [workspaces[w] EXCEPT !.age = Older(@, WorkspaceIdle)] \in WorkspaceEntry
      <4>1. workspaces[w] \in WorkspaceEntry
        BY DEF IInv, TypeOK
      <4>2. Older(workspaces[w].age, WorkspaceIdle) \in 0 .. WorkspaceIdle + 1
        BY <4>1 DEF WorkspaceEntry
      <4>3. QED
        BY <4>1, <4>2 DEF WorkspaceEntry
    <3>2. QED
      BY <3>1 DEF IInv, TypeOK
  <2>2. leases' \in [Recording -> LeaseEntry]
    BY DEF IInv, TypeOK, LeaseEntry
  <2>3. devices' \in [DeviceSession -> DeviceEntry]
    BY DEF IInv, TypeOK, DeviceEntry
  <2>4. runtimes' \in [Runtime -> RuntimeEntry]
    <3>1. ASSUME NEW r \in Runtime
          PROVE  [runtimes[r] EXCEPT !.age = Older(@, RuntimeLease)] \in RuntimeEntry
      <4>1. runtimes[r] \in RuntimeEntry
        BY DEF IInv, TypeOK
      <4>2. Older(runtimes[r].age, RuntimeLease) \in 0 .. RuntimeLease + 1
        BY <4>1 DEF RuntimeEntry
      <4>3. QED
        BY <4>1, <4>2 DEF RuntimeEntry
    <3>2. QED
      BY <3>1 DEF IInv, TypeOK
  <2>5. QED
    BY <2>1, <2>2, <2>3, <2>4 DEF TypeOK
<1>2. NoOrphanLease' /\ LeaseWithinIdleWindow'
  BY DEF IInv, TypeOK, NoOrphanLease, LeaseWithinIdleWindow, WorkspaceEntry, LeaseEntry
<1>3. NoDanglingSession' /\ OneSessionPerSerial'
  BY DEF IInv, TypeOK, NoDanglingSession, OneSessionPerSerial, WorkspaceEntry, DeviceEntry,
         RuntimeEntry
<1>4. QED
  BY <1>1, <1>2, <1>3 DEF IInv

LEMMA NextIInv == IInv /\ [Next]_vars => IInv'
<1>1. IInv /\ CleanupExpired => IInv'
  BY ReleaseWorkspacesIInv
  DEF CleanupExpired, ExpiredWorkspaces, ExpiredLeases, ExpiredDevices, ExpiredRuntimes
<1>2. IInv /\ UNCHANGED vars => IInv'
  BY DEF vars, IInv, TypeOK, NoOrphanLease, LeaseWithinIdleWindow, NoDanglingSession,
         OneSessionPerSerial, HasWorkspace, HasDevice, HasRuntime
<1>3. QED
  BY <1>1, <1>2, WorkspaceNextIInv, DeviceNextIInv, RuntimeNextIInv, TickIInv DEF Next

THEOREM SpecIInv == Spec => []IInv
  BY InitIInv, NextIInv, PTL DEF Spec

(***************************************************************************)
(* What a reader should know of.                                           *)
(***************************************************************************)

\* Every entry of the four dictionaries keeps its shape, and ages and
\* remaining times keep their range.
THEOREM TypeCorrect == Spec => []TypeOK
  BY SpecIInv, PTL DEF IInv

\* No lease is ever left behind by the workspace that took it.
THEOREM LeasesHaveOwners == Spec => []NoOrphanLease
  BY SpecIInv, PTL DEF IInv

\* A lease that still runs belongs to a workspace that is not expired.
THEOREM LeasesEndWithOwner == Spec => []LeaseWithinIdleWindow
  BY SpecIInv, PTL DEF IInv

\* No runtime outlives its device session, no device session its workspace.
THEOREM SessionsFormATree == Spec => []NoDanglingSession
  BY SpecIInv, PTL DEF IInv

\* Two registered device sessions never have the same serial.
THEOREM DevicesAreExclusive == Spec => []OneSessionPerSerial
  BY SpecIInv, PTL DEF IInv

(***************************************************************************)
(* No call revives an expired workspace or device session: only Tick,      *)
(* bootstrap, the two touches and set_current change an age, the latter on *)
(* what is alive, and create_device_session takes an unused entry.         *)
(***************************************************************************)
LEMMA WorkspacesWithoutKeepsExpired ==
  ASSUME NEW W \in SUBSET Workspace, NEW v \in Workspace, WorkspaceExpired(v),
         workspaces' = WorkspacesWithout(W)
  PROVE  ~LiveWorkspace(v)'
  BY DEF WorkspacesWithout, NoWorkspace, WorkspaceExpired, LiveWorkspace, HasWorkspace

LEMMA DevicesWithoutKeepsExpired ==
  ASSUME NEW D \in SUBSET DeviceSession, NEW e \in DeviceSession, DeviceExpired(e),
         devices' = DevicesWithout(D)
  PROVE  ~LiveDevice(e)'
  BY DEF DevicesWithout, NoDevice, DeviceExpired, LiveDevice, HasDevice

LEMMA DeviceExpiryIsFinal ==
  ASSUME IInv, [Next]_vars, NEW e \in DeviceSession, DeviceExpired(e)
  PROVE  ~LiveDevice(e)'
  <1> DEFINE Kept == devices' = devices
             Lost == \E D \in SUBSET DeviceSession : devices' = DevicesWithout(D)
  <1>1. Kept => ~LiveDevice(e)'
    BY DEF DeviceExpired, LiveDevice, HasDevice
  <1>2. Lost => ~LiveDevice(e)'
    BY DevicesWithoutKeepsExpired
  <1>3. ASSUME NEW w \in Workspace, DropWorkspace(w)
        PROVE  Lost
    BY <1>3 DEF DropWorkspace, ReleaseWorkspaces, DevicesOf
  <1>4. ASSUME NEW D \in SUBSET DeviceSession, NEW R, ReleaseDevices(D, R)
        PROVE  Lost
    BY <1>4 DEF ReleaseDevices
  <1>5. CASE WorkspaceNext
    <2>1. PICK w \in Workspace :
            \/ \E u \in User \cup {Anonymous} : BootstrapNew(w, u) \/ BootstrapExisting(w, u)
            \/ \E u \in User : TouchWorkspace(w, u)
            \/ RequireWorkspace(w)
            \/ \E x \in Recording : SetCurrentRecording(w, x)
            \/ ReleaseCurrentRecording(w)
            \/ ReleaseWorkspace(w)
            \/ \E u \in User, s \in Serial : CreateDeviceSession(w, u, s)
      BY <1>5 DEF WorkspaceNext
    <2>2. CASE ~\E u \in User, s \in Serial : CreateDeviceSession(w, u, s)
      <3>1. Kept \/ DropWorkspace(w)
        BY <2>1, <2>2
        DEF BootstrapNew, BootstrapExisting, TouchWorkspace, RequireWorkspace,
            SetCurrentRecording, SetCurrentConflict, SetCurrentGranted,
            ReleaseCurrentRecording, ReleaseWorkspace
      <3>2. QED
        BY <1>1, <1>2, <1>3, <3>1
    <2>3. ASSUME NEW u \in User, NEW s \in Serial, CreateDeviceSession(w, u, s)
          PROVE  ~LiveDevice(e)'
      <3>1. CASE DropWorkspace(w)
        BY <1>2, <1>3, <3>1
      <3>2. CASE CreateDeviceConflict(w, u, s)
        BY <1>2, <1>4, <3>2 DEF CreateDeviceConflict, ExpiredDevices
      <3>3. ASSUME NEW d \in DeviceSession, CreateDeviceGranted(w, u, s, d)
            PROVE  ~LiveDevice(e)'
        BY <3>3
        DEF CreateDeviceGranted, DevicesWithout, NoDevice, ExpiredDevices, DeviceExpired,
            LiveDevice, HasDevice
      <3>4. QED
        BY <2>3, <3>1, <3>2, <3>3 DEF CreateDeviceSession
    <2>4. QED
      BY <2>2, <2>3
  <1>6. CASE DeviceNext
    <2>1. ASSUME NEW d \in DeviceSession, RequireDevice(d) PROVE Lost
      BY <1>4, <2>1 DEF RequireDevice
    <2>2. ASSUME NEW d \in DeviceSession, TouchDevice(d) PROVE ~LiveDevice(e)'
      <3>1. CASE RequireDevice(d)
        BY <1>2, <2>1, <3>1
      <3>2. CASE LiveDevice(d) /\ devices' = [devices EXCEPT ![d].age = 0]
        BY <3>2 DEF DeviceExpired, LiveDevice, HasDevice, IInv, TypeOK
      <3>3. QED
        BY <2>2, <3>1, <3>2 DEF TouchDevice
    <2>3. ASSUME NEW s \in Serial, IsDeviceLocked(s) PROVE Lost
      BY <1>4, <2>3 DEF IsDeviceLocked, ExpiredDevices
    <2>4. ASSUME NEW d \in DeviceSession, ReleaseDeviceSession(d) PROVE Lost
      BY <1>4, <2>4 DEF ReleaseDeviceSession
    <2>5. ASSUME NEW d \in DeviceSession, CreateRuntimeSession(d) PROVE Kept \/ Lost
      BY <2>1, <2>5 DEF CreateRuntimeSession, CreateRuntimeConflict, CreateRuntimeGranted,
                        ReleaseRuntimes
    <2>6. QED
      BY <1>1, <1>2, <1>6, <2>1, <2>2, <2>3, <2>4, <2>5 DEF DeviceNext
  <1>7. CASE RuntimeNext
    BY <1>1, <1>7 DEF RuntimeNext, RequireRuntime, SetRuntimeState, TouchRuntime,
                      ReleaseRuntimeSession, ReleaseRuntimes
  <1>8. CASE CleanupExpired
    <2>1. Lost
      BY <1>8 DEF CleanupExpired, ReleaseWorkspaces, DevicesOf, ExpiredDevices
    <2>2. QED
      BY <1>2, <2>1
  <1>9. CASE Tick
    BY <1>9, TimeoutAssumption
    DEF Tick, Older, IInv, TypeOK, DeviceEntry, DeviceExpired, LiveDevice, HasDevice
  <1>10. CASE UNCHANGED vars
    BY <1>1, <1>10 DEF vars
  <1>11. QED
    BY <1>5, <1>6, <1>7, <1>8, <1>9, <1>10 DEF Next

THEOREM ExpiryIsFinal == Spec => ExpiredStaysExpired
<1>1. ASSUME IInv, [Next]_vars, NEW v \in Workspace, WorkspaceExpired(v)
      PROVE  ~LiveWorkspace(v)'
  <2> USE <1>1
  <2> DEFINE Kept == workspaces' = workspaces
             Lost == \E W \in SUBSET Workspace : workspaces' = WorkspacesWithout(W)
  <2>1. Kept => ~LiveWorkspace(v)'
    BY DEF WorkspaceExpired, LiveWorkspace, HasWorkspace
  <2>2. Lost => ~LiveWorkspace(v)'
    BY WorkspacesWithoutKeepsExpired
  <2>3. ASSUME NEW w \in Workspace, DropWorkspace(w)
        PROVE  Lost
    BY <2>3 DEF DropWorkspace, ReleaseWorkspaces
  <2>4. CASE WorkspaceNext
    <3>1. PICK w \in Workspace :
            \/ \E u \in User \cup {Anonymous} : BootstrapNew(w, u) \/ BootstrapExisting(w, u)
            \/ \E u \in User : TouchWorkspace(w, u)
            \/ RequireWorkspace(w)
            \/ \E x \in Recording : SetCurrentRecording(w, x)
            \/ ReleaseCurrentRecording(w)
            \/ ReleaseWorkspace(w)
            \/ \E u \in User, s \in Serial : CreateDeviceSession(w, u, s)
      BY <2>4 DEF WorkspaceNext
    <3>2. CASE \E u \in User \cup {Anonymous} : BootstrapNew(w, u) \/ BootstrapExisting(w, u)
      BY <2>2, <2>3, <3>2
      DEF BootstrapNew, BootstrapExisting, Owns, WorkspaceExpired, LiveWorkspace,
          HasWorkspace, IInv, TypeOK
    <3>3. CASE \E u \in User : TouchWorkspace(w, u)
      BY <2>2, <2>3, <3>3
      DEF TouchWorkspace, Owns, WorkspaceExpired, LiveWorkspace, HasWorkspace, IInv, TypeOK
    <3>4. CASE RequireWorkspace(w) \/ ReleaseWorkspace(w)
      BY <2>2, <2>3, <3>4 DEF RequireWorkspace, ReleaseWorkspace
    <3>5. ASSUME NEW x \in Recording, SetCurrentRecording(w, x)
          PROVE  ~LiveWorkspace(v)'
      <4>1. CASE DropWorkspace(w)
        BY <2>2, <2>3, <4>1
      <4>2. CASE SetCurrentConflict(w, x)
        BY <2>1, <4>2 DEF SetCurrentConflict
      <4>3. CASE SetCurrentGranted(w, x)
        BY <4>3 DEF SetCurrentGranted, WorkspaceExpired, LiveWorkspace, HasWorkspace, IInv,
                    TypeOK
      <4>4. QED
        BY <3>5, <4>1, <4>2, <4>3 DEF SetCurrentRecording
    <3>6. CASE ReleaseCurrentRecording(w)
      BY <3>6 DEF ReleaseCurrentRecording, WorkspaceExpired, LiveWorkspace, HasWorkspace,
                  IInv, TypeOK, WorkspaceEntry
    <3>7. ASSUME NEW u \in User, NEW s \in Serial, CreateDeviceSession(w, u, s)
          PROVE  ~LiveWorkspace(v)'
      BY <2>1, <2>2, <2>3, <3>7
      DEF CreateDeviceSession, CreateDeviceConflict, CreateDeviceGranted, ReleaseDevices
    <3>8. QED
      BY <3>1, <3>2, <3>3, <3>4, <3>5, <3>6, <3>7
  <2>5. CASE DeviceNext \/ RuntimeNext
    BY <2>1, <2>5
    DEF DeviceNext, RuntimeNext, IsDeviceLocked, RequireDevice, TouchDevice,
        ReleaseDeviceSession, CreateRuntimeSession, CreateRuntimeConflict,
        CreateRuntimeGranted, RequireRuntime, SetRuntimeState, TouchRuntime,
        ReleaseRuntimeSession, ReleaseDevices, ReleaseRuntimes
  <2>6. CASE CleanupExpired
    BY <2>2, <2>6 DEF CleanupExpired, ReleaseWorkspaces, ExpiredWorkspaces
  <2>7. CASE Tick
    BY <2>7, TimeoutAssumption
    DEF Tick, Older, IInv, TypeOK, WorkspaceEntry, WorkspaceExpired, LiveWorkspace,
        HasWorkspace
  <2>8. CASE UNCHANGED vars
    BY <2>1, <2>8 DEF vars
  <2>9. QED
    BY <2>4, <2>5, <2>6, <2>7, <2>8 DEF Next
<1>2. IInv /\ [Next]_vars
        => [/\ \A w \in Workspace : WorkspaceExpired(w) => ~LiveWorkspace(w)'
            /\ \A d \in DeviceSession : DeviceExpired(d) => ~LiveDevice(d)']_vars
  BY <1>1, DeviceExpiryIsFinal
<1>3. QED
  BY SpecIInv, <1>2, PTL DEF Spec, ExpiredStaysExpired

(***************************************************************************)
(* The leases implement RecordingLock.                                     *)
(***************************************************************************)
LEMMA FreeSimulated ==
  ASSUME IInv, NEW W \in SUBSET Workspace, NEW X \in SUBSET ExpiredLeases,
         leases' = LeasesWithout(X \cup LeasesOf(W))
  PROVE  Lock!Next
<1>1. \A x \in Recording : x \in LeasesOf(W) <=> leases[x].owner \in W
  BY NoneAssumption DEF IInv, NoOrphanLease, LeasesOf
<1>2. Lock!Free(W, X)
  BY <1>1, NoneAssumption
  DEF Lock!Free, Lock!HeldBy, LeasesWithout, NoLease, LeaseExpired, ExpiredLeases
<1>3. X \in SUBSET {x \in Recording : LeaseExpired(x)}
  BY DEF ExpiredLeases
<1>4. QED
  BY <1>2, <1>3 DEF Lock!Next

LEMMA DropSimulated ==
  ASSUME IInv, NEW w \in Workspace, DropWorkspace(w)
  PROVE  Lock!Next
<1>1. {w} \in SUBSET Workspace /\ {} \in SUBSET ExpiredLeases
  OBVIOUS
<1>2. leases' = LeasesWithout({} \cup LeasesOf({w}))
  BY DEF DropWorkspace, ReleaseWorkspaces
<1>3. QED
  BY <1>1, <1>2, FreeSimulated

LEMMA StutterSimulated == UNCHANGED leases => UNCHANGED Lock!vars
  BY DEF Lock!vars, LeaseExpired

LEMMA SetCurrentSimulated ==
  ASSUME IInv, NEW w \in Workspace, NEW x \in Recording, SetCurrentRecording(w, x)
  PROVE  Lock!Next
<1> USE NoneAssumption
<1>1. CASE DropWorkspace(w)
  BY <1>1, DropSimulated
<1>2. CASE SetCurrentConflict(w, x)
  <2>1. LeftBehind(w, x) = {} \cup LeasesOf({w})
    BY <1>2 DEF SetCurrentConflict, LeftBehind, LeasesOf
  <2>2. leases' = LeasesWithout({} \cup LeasesOf({w}))
    BY <1>2, <2>1 DEF SetCurrentConflict
  <2>3. {w} \in SUBSET Workspace /\ {} \in SUBSET ExpiredLeases
    OBVIOUS
  <2>4. QED
    BY <2>2, <2>3, FreeSimulated
<1>3. CASE SetCurrentGranted(w, x)
  <2>1. \A y \in Recording : y \in LeftBehind(w, x) <=> leases[y].owner = w /\ y # x
    BY DEF IInv, NoOrphanLease, LeftBehind, LeasesOf
  <2>2. \A y \in Recording :
          leases'[y] = IF y = x THEN [owner |-> w, left |-> WorkspaceIdle]
                       ELSE IF leases[y].owner = w THEN NoLease ELSE leases[y]
    BY <1>3, <2>1 DEF SetCurrentGranted, LeasesWithout
  <2>3. leases[x].owner \in {None, w} \/ LeaseExpired(x)
    BY <1>3 DEF SetCurrentGranted
  <2>4. [y \in Recording |-> leases'[y].owner]
          = [y \in Recording |-> IF y = x THEN w
                                 ELSE IF leases[y].owner = w THEN None ELSE leases[y].owner]
    BY <2>2 DEF NoLease
  <2>5. {y \in Recording : LeaseExpired(y)'}
          = {y \in Recording : LeaseExpired(y)}
              \ ({y \in Recording : leases[y].owner \in {w}} \cup {x})
    BY <2>2, IdleAssumption DEF LeaseExpired, NoLease
  <2>6. Lock!Claim(w, x)
    BY <2>3, <2>4, <2>5 DEF Lock!Claim, Lock!HeldBy
  <2>7. QED
    BY <2>6 DEF Lock!Next
<1>4. QED
  BY <1>1, <1>2, <1>3 DEF SetCurrentRecording

LEMMA TouchSimulated ==
  ASSUME IInv, NEW w \in Workspace, NEW u \in User, TouchWorkspace(w, u)
  PROVE  Lock!Next
<1>1. CASE DropWorkspace(w)
  BY <1>1, DropSimulated
<1>2. CASE leases' = [x \in Recording |->
                        IF x = workspaces[w].rec /\ leases[x].owner = w
                        THEN [leases[x] EXCEPT !.left = WorkspaceIdle]
                        ELSE leases[x]]
  <2>1. \A x \in Recording :
          leases'[x] = IF leases[x].owner = w THEN [leases[x] EXCEPT !.left = WorkspaceIdle]
                       ELSE leases[x]
    BY <1>2, NoneAssumption DEF IInv, NoOrphanLease
  <2>2. \A x \in Recording : leases'[x].owner = leases[x].owner
    BY <2>1 DEF IInv, TypeOK, LeaseEntry
  <2>3. \A x \in Recording : LeaseExpired(x)' <=> LeaseExpired(x) /\ leases[x].owner # w
    BY <2>1, <2>2, IdleAssumption DEF IInv, TypeOK, LeaseEntry, LeaseExpired
  <2>4. Lock!Renew(w)
    BY <2>2, <2>3 DEF Lock!Renew, Lock!HeldBy
  <2>5. QED
    BY <2>4 DEF Lock!Next
<1>3. QED
  BY <1>1, <1>2 DEF TouchWorkspace

LEMMA TickSimulated == IInv /\ Tick => Lock!Next
<1> SUFFICES ASSUME IInv, Tick PROVE Lock!Next
  OBVIOUS
<1> DEFINE X == {x \in Recording : LeaseExpired(x)'}
<1>1. \A x \in Recording : leases'[x].owner = leases[x].owner
  BY DEF Tick, IInv, TypeOK, LeaseEntry
<1>2. \A x \in Recording : LeaseExpired(x) => LeaseExpired(x)'
  BY <1>1 DEF Tick, LeaseExpired
<1>3. X \in SUBSET {x \in Recording : leases[x].owner \in Workspace}
  BY <1>1 DEF LeaseExpired, IInv, TypeOK, LeaseEntry
<1>4. Lock!Lapse(X)
  BY <1>1, <1>2 DEF Lock!Lapse
<1>5. X \in SUBSET Lock!HeldBy(Workspace)
  BY <1>3 DEF Lock!HeldBy
<1>6. QED
  BY <1>4, <1>5 DEF Lock!Next

LEMMA StepSimulated == IInv /\ [Next]_vars => [Lock!Next]_(Lock!vars)
<1> SUFFICES ASSUME IInv, [Next]_vars PROVE Lock!Next \/ UNCHANGED Lock!vars
  OBVIOUS
<1>1. CASE WorkspaceNext
  <2>1. PICK w \in Workspace :
          \/ \E u \in User \cup {Anonymous} : BootstrapNew(w, u) \/ BootstrapExisting(w, u)
          \/ \E u \in User : TouchWorkspace(w, u)
          \/ RequireWorkspace(w)
          \/ \E x \in Recording : SetCurrentRecording(w, x)
          \/ ReleaseCurrentRecording(w)
          \/ ReleaseWorkspace(w)
          \/ \E u \in User, s \in Serial : CreateDeviceSession(w, u, s)
    BY <1>1 DEF WorkspaceNext
  <2>2. CASE \E u \in User \cup {Anonymous} : BootstrapNew(w, u) \/ BootstrapExisting(w, u)
    BY <2>2, DropSimulated, StutterSimulated DEF BootstrapNew, BootstrapExisting
  <2>3. CASE RequireWorkspace(w) \/ ReleaseWorkspace(w)
    BY <2>3, DropSimulated DEF RequireWorkspace, ReleaseWorkspace
  <2>4. CASE ReleaseCurrentRecording(w)
    <3>1. leases' = LeasesWithout({} \cup LeasesOf({w}))
      BY <2>4 DEF ReleaseCurrentRecording
    <3>2. {w} \in SUBSET Workspace /\ {} \in SUBSET ExpiredLeases
      OBVIOUS
    <3>3. QED
      BY <3>1, <3>2, FreeSimulated
  <2>5. CASE \E u \in User, s \in Serial : CreateDeviceSession(w, u, s)
    BY <2>5, DropSimulated, StutterSimulated
    DEF CreateDeviceSession, CreateDeviceConflict, CreateDeviceGranted, ReleaseDevices
  <2>6. QED
    BY <2>1, <2>2, <2>3, <2>4, <2>5, TouchSimulated, SetCurrentSimulated
<1>2. CASE DeviceNext \/ RuntimeNext \/ UNCHANGED vars
  BY <1>2, StutterSimulated
  DEF DeviceNext, RuntimeNext, IsDeviceLocked, RequireDevice, TouchDevice,
      ReleaseDeviceSession, CreateRuntimeSession, CreateRuntimeConflict,
      CreateRuntimeGranted, RequireRuntime, SetRuntimeState, TouchRuntime,
      ReleaseRuntimeSession, ReleaseDevices, ReleaseRuntimes, vars
<1>3. CASE CleanupExpired
  <2>1. leases' = LeasesWithout(ExpiredLeases \cup LeasesOf(ExpiredWorkspaces))
    BY <1>3 DEF CleanupExpired, ReleaseWorkspaces
  <2>2. ExpiredWorkspaces \in SUBSET Workspace /\ ExpiredLeases \in SUBSET ExpiredLeases
    BY DEF ExpiredWorkspaces
  <2>3. QED
    BY <2>1, <2>2, FreeSimulated
<1>4. QED
  BY <1>1, <1>2, <1>3, TickSimulated DEF Next

\* The leases of the registry are the lock RecordingLock describes: one
\* holder per recording, one recording per workspace, no theft of a lease
\* that is still running.
THEOREM LeasesImplementLock == Spec => ImplementsRecordingLock
<1>1. Init => Lock!Init
  BY DEF Init, Lock!Init, NoLease, LeaseExpired
<1>2. QED
  BY <1>1, SpecIInv, StepSimulated, PTL DEF Spec, ImplementsRecordingLock, Lock!Spec

-----------------------------------------------------------------------------
(* Types.                                                                  *)

Id == WorkspaceId \cup {NoId}
Account == Username \cup {Nobody}
Calls ==
    [kind : {"start", "work", "login", "logout", "me", "boot"},
     step : Boots \cup {"loaded", "renew", "refresh", "send", "login", "me", "logout"},
     answer : {"awaited", "ok", "failed", "expired", "auth"},
     user : Account, ws : Id, view : View \cup {"none"}]
Pages ==
    [token : Account, old : BOOLEAN, cookie : Account, manager : Account,
     form : BOOLEAN, handled : BOOLEAN, workspace_id : Id, applied : Id,
     currentView : View, suspended : (View \ {"user-manager"}) \cup {"none"},
     shown : SUBSET View]

TabTypes ==
    /\ Page \in Pages
    /\ owner \in [WorkspaceId -> Account \cup {"none"}] /\ alive \subseteq WorkspaceId
    /\ crossed \in BOOLEAN /\ begun \in 0..MaxBegun /\ faults \in 0..MaxFaults
    /\ calls \in Seq(Calls)

-----------------------------------------------------------------------------
(* The inductive invariant: what the page and its calls hold is true.      *)

\* A workspace is named only once it exists.
Held(w) == w # NoId => owner[w] # "none"

Live(w, user) == w \in alive /\ owner[w] = user

\* The steps that a call of a kind can stand at.
StepOfKind(c) ==
    /\ c.step \in Boots \cup {"renew"} => c.kind \in {"start", "login", "boot"}
    /\ c.step = "login" => c.kind = "login"
    /\ c.kind = "login" => c.view \in View

\* What was answered stays true: a workspace keeps its owner, and does not
\* come back to life.
AnswerTrue(c) ==
    /\ c.step = "login" => c.user \in Username
    /\ c.step \in {"refresh", "renew"} /\ c.answer = "ok" => c.user # Nobody
    /\ c.step = "send" /\ c.answer = "expired" => c.user # Nobody
    /\ c.step \in Boots /\ c.answer = "ok" => c.ws # NoId /\ owner[c.ws] = c.user
    /\ c.step \in Boots /\ c.answer = "expired" => ~Live(c.ws, c.user)

CallTrue(c) == Held(c.ws) /\ StepOfKind(c) /\ AnswerTrue(c)

\* A call carries the token and names the workspace of the page p, unless the
\* server has just made one; a page that boots has restored nothing yet.
CallMine(c, p) ==
    /\ c.step \in {"refresh", "renew"} /\ c.answer = "ok" /\ p.token # Nobody
         => c.user = p.token
    /\ c.step = "send" => c.user = p.token
    /\ c.step \in Boots => c.user = p.token /\ c.user # Nobody
    /\ c.step \in Boots \cup {"renew"} =>
         \/ c.ws = p.workspace_id
         \/ p.workspace_id = NoId /\ c.step \in Boots /\ c.answer = "ok"
    /\ c.step \in Boots \cup {"renew"} => p.applied = NoId

\* The page shows its user's own workspace.
PageMine(p) ==
    /\ p.applied # NoId => p.applied = p.workspace_id /\ owner[p.applied] = p.token
    /\ p.token # Nobody => p.cookie \in {p.token, Nobody}

\* Beside the view that is current only the flag of the data editor can be
\* left, by the control panel, and that of the device manager, by the row.
Display(p) ==
    p.shown \ {p.currentView} \subseteq
        IF p.currentView \in Row THEN {"cloud-device-manager"} ELSE {"data-editor"}

PageTrue(p) == Held(p.workspace_id) /\ Held(p.applied) /\ Display(p)

TabIInv ==
    /\ TabTypes
    /\ \A w \in alive : owner[w] # "none"
    /\ PageTrue(Page)
    /\ \A i \in DOMAIN calls : CallTrue(calls[i])
    /\ ~crossed =>
         /\ \A w \in WorkspaceId : owner[w] # Nobody
         /\ PageMine(Page)
         /\ \A i \in DOMAIN calls : CallMine(calls[i], Page)

-----------------------------------------------------------------------------
(* Pages: each function of the page's state keeps its shape, and changes no *)
(* more than the lemma says.                                                *)

LEMMA PageIs ==
  ASSUME NEW p \in Pages, SetPage(p)
  PROVE  Page' = p
  BY DEF SetPage, Page, Pages

LEMMA ShowPage ==
  ASSUME NEW p \in Pages, NEW view \in View
  PROVE  /\ Show(p, view) \in Pages
         /\ Display(Show(p, view))
         /\ Show(p, view).token = p.token /\ Show(p, view).old = p.old
         /\ Show(p, view).cookie = p.cookie /\ Show(p, view).handled = p.handled
         /\ Show(p, view).manager = p.manager
         /\ Show(p, view).workspace_id = p.workspace_id
         /\ Show(p, view).applied = p.applied
<1> DEFINE q == Show(p, view)
<1>1. /\ q.currentView = view /\ q.shown = (p.shown \ Hides(view)) \cup {view}
      /\ q.suspended = p.suspended
  BY DEF Pages, Show
<1>2. q.shown \ {view} \subseteq
        IF view \in Row THEN {"cloud-device-manager"} ELSE {"data-editor"}
  BY <1>1 DEF Pages, View, Hides, Panels, Row
<1>3. QED
  BY <1>1, <1>2 DEF Pages, Show, Display

\* The record of a page that a function has changed, field by field.
LEMMA LoginPage ==
  ASSUME NEW p \in Pages
  PROVE  /\ showLogin(p) \in Pages
         /\ Display(showLogin(p))
         /\ showLogin(p).token = p.token
         /\ showLogin(p).workspace_id = p.workspace_id
         /\ showLogin(p).applied = p.applied
         /\ showLogin(p).cookie = p.cookie
<1> DEFINE q == [p EXCEPT !.manager = Nobody, !.form = TRUE]
<1>1. /\ q \in Pages /\ q.token = p.token /\ q.workspace_id = p.workspace_id
      /\ q.applied = p.applied /\ q.cookie = p.cookie
  BY DEF Pages, Account
<1>2. showLogin(p) = Show(q, "user-manager") /\ "user-manager" \in View
  BY DEF showLogin, View
<1> HIDE DEF q
<1>3. QED
  BY <1>1, <1>2, ShowPage

LEMMA InitializedPage ==
  ASSUME NEW p \in Pages
  PROVE  /\ initialized(p) \in Pages
         /\ Display(initialized(p))
         /\ initialized(p).token = p.token
         /\ initialized(p).workspace_id = p.workspace_id
         /\ initialized(p).applied = p.applied
         /\ initialized(p).cookie = p.cookie
<1>1. "user-manager" \in View /\ "task-recorder" \in View
  BY DEF View
<1>2. initialized(p) = Show(p, "user-manager") \/ initialized(p) = Show(p, "task-recorder")
  BY DEF initialized
<1>3. QED
  BY <1>1, <1>2, ShowPage

LEMMA TokenPage ==
  ASSUME NEW p \in Pages, NEW user \in Account
  PROVE  LET q == setToken(p, user)
         IN  /\ q \in Pages
             /\ Display(p) => Display(q)
             /\ q.token = user /\ q.cookie = user
             /\ q.workspace_id = p.workspace_id /\ q.applied = p.applied
  BY DEF Pages, setToken, Display

LEMMA NavigatedPage ==
  ASSUME NEW p \in Pages, NEW view \in View
  PROVE  LET q == navigateAfterLogin(p, view)
         IN  /\ q \in Pages
             /\ Display(q)
             /\ q.token = p.token /\ q.cookie = p.cookie
             /\ q.workspace_id = p.workspace_id /\ q.applied = p.applied
<1> DEFINE r == [p EXCEPT !.suspended = "none", !.form = p.manager = Nobody]
<1>1. /\ r \in Pages /\ r.token = p.token /\ r.workspace_id = p.workspace_id
      /\ r.applied = p.applied /\ r.cookie = p.cookie
  BY DEF Pages
<1>2. navigateAfterLogin(p, view) = Show(r, view)
  BY DEF navigateAfterLogin
<1> HIDE DEF r
<1>3. QED
  BY <1>1, <1>2, ShowPage

\* Either it has been handled already, or the token and the restored workspace
\* are gone.
LEMMA AuthExpiredPage ==
  ASSUME NEW p \in Pages
  PROVE  LET q == handleAuthExpired(p)
         IN  /\ q \in Pages
             /\ Display(p) => Display(q)
             /\ q.workspace_id = p.workspace_id /\ q.cookie = p.cookie
             /\ q = p \/ (q.token = Nobody /\ q.applied = NoId)
<1> DEFINE r == resetWorkspaceScopedState(
                  [p EXCEPT !.handled = TRUE, !.token = Nobody, !.old = FALSE,
                            !.suspended = suspend(p)])
<1>1. suspend(p) \in (View \ {"user-manager"}) \cup {"none"}
  BY DEF suspend, Pages
<1>2. /\ r \in Pages /\ r.token = Nobody /\ r.applied = NoId
      /\ r.workspace_id = p.workspace_id /\ r.cookie = p.cookie
      /\ r.shown = p.shown /\ r.currentView = p.currentView
  BY <1>1 DEF resetWorkspaceScopedState, Pages, Account, Id
<1>3. Display(p) => Display(r)
  BY <1>2 DEF Display
<1>4. \/ handleAuthExpired(p) = p
      \/ handleAuthExpired(p) = showLogin(r)
      \/ handleAuthExpired(p) = r
  BY DEF handleAuthExpired
<1> HIDE DEF r
<1>5. QED
  BY <1>2, <1>3, <1>4, LoginPage

LEMMA LoggedOutPage ==
  ASSUME NEW p \in Pages, NEW answered \in BOOLEAN
  PROVE  LET q == loggedOut(p, answered)
         IN  /\ q \in Pages
             /\ Display(q)
             /\ q.token = Nobody /\ q.workspace_id = NoId /\ q.applied = NoId
<1> DEFINE r == resetWorkspaceScopedState(
                  [p EXCEPT !.suspended = "none", !.token = Nobody, !.old = FALSE,
                            !.workspace_id = NoId,
                            !.cookie = IF answered THEN Nobody ELSE @])
<1>1. /\ r \in Pages /\ r.token = Nobody /\ r.applied = NoId /\ r.workspace_id = NoId
  BY DEF resetWorkspaceScopedState, Pages, Account, Id
<1>2. loggedOut(p, answered) = showLogin(r)
  BY DEF loggedOut
<1> HIDE DEF r
<1>3. QED
  BY <1>1, <1>2, LoginPage

-----------------------------------------------------------------------------
(* Calls: the tail of an action that goes on after an await.               *)

LEMMA NoCalls == <<>> \in Seq(Calls) /\ DOMAIN <<>> = {}
  OBVIOUS

LEMMA OneCall ==
  ASSUME NEW c \in Calls
  PROVE  /\ <<c>> \in Seq(Calls)
         /\ \A k \in DOMAIN <<c>> : <<c>>[k] = c
  OBVIOUS

LEMMA ArrayIsSeq ==
  ASSUME NEW S, NEW n \in Nat, NEW s \in [1..n -> S]
  PROVE  s \in Seq(S)
  BY SeqDef

\* What holds of the other calls, of those that go on and of those that are
\* spawned, holds of all the calls after.
LEMMA ResumedCalls ==
  ASSUME calls \in Seq(Calls), NEW i \in DOMAIN calls,
         NEW S, \A j \in DOMAIN calls : j # i => calls[j] \in S,
         NEW continued \in Seq(S), NEW spawned \in Seq(S)
  PROVE  SubSeq(calls, 1, i - 1) \o continued
             \o SubSeq(calls, i + 1, Len(calls)) \o spawned \in Seq(S)
<1> DEFINE before == SubSeq(calls, 1, i - 1)
           rest == SubSeq(calls, i + 1, Len(calls))
<1>0. Len(calls) \in Nat /\ DOMAIN calls = 1..Len(calls) /\ i \in 1..Len(calls)
  BY LenProperties
<1>1. before \in Seq(S)
  <2>1. \A k \in 1..(i - 1) : calls[k] \in S
    BY <1>0
  <2>2. before = [k \in 1..(i - 1) |-> calls[k]]
    BY <1>0
  <2> HIDE DEF before
  <2>3. i - 1 \in Nat /\ before \in [1..(i - 1) -> S]
    BY <1>0, <2>1, <2>2
  <2>4. QED
    BY <2>3, ArrayIsSeq
<1>2. rest \in Seq(S)
  <2>1. \A k \in 1..(Len(calls) - i) : calls[i + k] \in S
    BY <1>0
  <2>2. rest = [k \in 1..(Len(calls) - i) |-> calls[i + k]]
    BY <1>0
  <2> HIDE DEF rest
  <2>3. Len(calls) - i \in Nat /\ rest \in [1..(Len(calls) - i) -> S]
    BY <1>0, <2>1, <2>2
  <2>4. QED
    BY <2>3, ArrayIsSeq
<1> HIDE DEF before, rest
<1>3. before \o continued \o rest \o spawned \in Seq(S)
  BY <1>1, <1>2, ConcatProperties
<1>4. QED
  BY <1>3 DEF before, rest

\* Of a sequence, and of each of its elements.
LEMMA SeqOf ==
  ASSUME NEW s \in Seq(Calls), NEW S, \A k \in DOMAIN s : s[k] \in S
  PROVE  s \in Seq(S)
<1>1. Len(s) \in Nat /\ DOMAIN s = 1..Len(s) /\ s = [k \in 1..Len(s) |-> s[k]]
  BY LenProperties
<1>2. s \in [1..Len(s) -> S]
  BY <1>1
<1>3. QED
  BY <1>1, <1>2, ArrayIsSeq

\* What crossed' says no to: the page of another call has changed.
Calm(p) ==
    /\ ~crossed
    /\ Len(calls) > 1 => /\ p.token = token /\ p.workspace_id = workspace_id
                         /\ p.applied = applied

Kept(p) == (Live(workspace_id, token) /\ p.token = token) => p.workspace_id = workspace_id

\* What an action has to show of the page p that it leaves and of the calls
\* that go on from it.
Allowed(p, cs) ==
    /\ p \in Pages /\ PageTrue(p)
    /\ cs \in Seq(Calls)
    /\ \A k \in DOMAIN cs : CallTrue(cs[k])
    /\ Calm(p) => /\ PageMine(p) /\ Kept(p)
                  /\ \A k \in DOMAIN cs : CallMine(cs[k], p)

KeptNow ==
    (/\ workspace_id \in alive /\ owner[workspace_id] = token
     /\ token' = token /\ ~crossed')
    => workspace_id' = workspace_id

LEMMA ResumeAllowed ==
  ASSUME TabIInv, NEW i \in DOMAIN calls, NEW p,
         NEW continued, NEW spawned,
         Allowed(p, continued), Allowed(p, spawned),
         Resume(i, p, continued, spawned)
  PROVE  TabIInv' /\ KeptNow
<1>1. /\ p \in Pages /\ continued \in Seq(Calls) /\ spawned \in Seq(Calls)
      /\ calls \in Seq(Calls) /\ crossed \in BOOLEAN
  BY DEF Allowed, TabIInv, TabTypes
<1>2. /\ Page' = p /\ owner' = owner /\ alive' = alive
      /\ begun' = begun /\ faults' = faults
      /\ token' = p.token /\ workspace_id' = p.workspace_id /\ applied' = p.applied
  BY <1>1, PageIs DEF Resume, serverVars, SetPage
<1>3. ASSUME NEW S, continued \in Seq(S), spawned \in Seq(S),
             \A j \in DOMAIN calls : j # i => calls[j] \in S
      PROVE  calls' \in Seq(S) /\ \A k \in DOMAIN calls' : calls'[k] \in S
  <2>1. calls' \in Seq(S)
    BY <1>1, <1>3, ResumedCalls DEF Resume
  <2>2. QED
    BY <2>1, LenProperties, ElementOfSeq
<1>4. crossed' \in BOOLEAN
  BY <1>1 DEF Resume
<1>5. ~crossed' => Calm(p)
  BY <1>1, <1>2 DEF Resume, Calm
<1>6. calls' \in Seq(Calls) /\ \A k \in DOMAIN calls' : CallTrue(calls'[k])
  <2> DEFINE S == {c \in Calls : CallTrue(c)}
  <2>1. \A j \in DOMAIN calls : calls[j] \in S
    BY <1>1, LenProperties, ElementOfSeq DEF TabIInv
  <2>2. continued \in Seq(S) /\ spawned \in Seq(S)
    <3>1. /\ \A k \in DOMAIN continued : continued[k] \in S
          /\ \A k \in DOMAIN spawned : spawned[k] \in S
      BY <1>1, LenProperties, ElementOfSeq DEF Allowed
    <3> HIDE DEF S
    <3>2. QED
      BY <1>1, <3>1, SeqOf
  <2> HIDE DEF S
  <2>3. calls' \in Seq(S) /\ \A k \in DOMAIN calls' : calls'[k] \in S
    BY <1>3, <2>1, <2>2
  <2>4. S \subseteq Calls
    BY DEF S
  <2>5. calls' \in Seq(Calls)
    BY <2>3, <2>4, SeqMonotonic
  <2>6. QED
    BY <2>3, <2>5 DEF S
<1>7. ASSUME NEW c, CallTrue(c) PROVE CallTrue(c)'
  BY <1>2, <1>7 DEF CallTrue, Held, StepOfKind, AnswerTrue, Live
<1>8. \A k \in DOMAIN calls' : CallTrue(calls[k])'
  BY <1>6, <1>7
<1>9. ASSUME ~crossed', NEW j \in DOMAIN calls, j # i
      PROVE  CallMine(calls[j], p)
  <2>1. Len(calls) > 1
    <3>1. Len(calls) \in Nat /\ DOMAIN calls = 1..Len(calls)
      BY <1>1, LenProperties
    <3>2. QED
      BY <3>1, <1>9
  <2>2. /\ p.token = token /\ p.workspace_id = workspace_id /\ p.applied = applied
        /\ ~crossed
    BY <1>5, <1>9, <2>1 DEF Calm
  <2>3. CallMine(calls[j], Page)
    BY <2>2, <1>9 DEF TabIInv
  <2>4. QED
    BY <2>2, <2>3 DEF CallMine, Page
<1>10. ASSUME ~crossed' PROVE \A k \in DOMAIN calls' : CallMine(calls[k], Page)'
  <2>1. \A k \in DOMAIN calls' : CallMine(calls'[k], p)
    <3> DEFINE S == {c \in Calls : CallMine(c, p)}
    <3>1. \A j \in DOMAIN calls : j # i => calls[j] \in S
      BY <1>1, <1>9, <1>10, LenProperties, ElementOfSeq
    <3>2. /\ \A k \in DOMAIN continued : continued[k] \in S
          /\ \A k \in DOMAIN spawned : spawned[k] \in S
      BY <1>1, <1>5, <1>10, LenProperties, ElementOfSeq DEF Allowed
    <3>3. ASSUME NEW c \in S PROVE CallMine(c, p)
      OBVIOUS
    <3> HIDE DEF S
    <3>4. continued \in Seq(S) /\ spawned \in Seq(S)
      BY <1>1, <3>2, SeqOf
    <3>5. QED
      BY <1>3, <3>1, <3>3, <3>4
  <2>2. QED
    BY <2>1, <1>2 DEF CallMine
<1>11. ~crossed' => PageMine(Page)' /\ KeptNow
  BY <1>2, <1>5 DEF Allowed, PageMine, KeptNow, Kept, Live
<1>12. PageTrue(Page)'
  BY <1>2 DEF Allowed, PageTrue, Held, Display
<1>13. TabTypes'
  BY <1>1, <1>2, <1>4, <1>6 DEF TabIInv, TabTypes
<1>14. /\ \A w \in alive' : owner'[w] # "none"
       /\ ~crossed' => \A w \in WorkspaceId : owner'[w] # Nobody
  BY <1>2, <1>5 DEF TabIInv, Calm
<1>15. TabIInv'
  BY <1>8, <1>10, <1>11, <1>12, <1>13, <1>14 DEF TabIInv
<1>16. KeptNow
  BY <1>11 DEF KeptNow
<1>17. QED
  BY <1>15, <1>16

\* A page that an action may leave, and a call that may go on from it.
Fit(p) ==
    p \in Pages /\ PageTrue(p) /\ (Calm(p) => PageMine(p) /\ Kept(p))
Goes(c, p) ==
    c \in Calls /\ CallTrue(c) /\ (Calm(p) => CallMine(c, p))

LEMMA FitAlone ==
  ASSUME NEW p, Fit(p)
  PROVE  Allowed(p, <<>>)
  BY NoCalls DEF Fit, Allowed

LEMMA FitOne ==
  ASSUME NEW p, Fit(p), NEW c, Goes(c, p)
  PROVE  Allowed(p, <<c>>)
<1>1. c \in Calls /\ <<c>> \in Seq(Calls) /\ \A k \in DOMAIN <<c>> : <<c>>[k] = c
  BY OneCall DEF Goes
<1>2. QED
  BY <1>1 DEF Fit, Goes, Allowed

\* What the invariant says of the page and of the call that an action is about.
LEMMA Now ==
  ASSUME TabIInv, NEW i \in DOMAIN calls
  PROVE  /\ calls[i] \in Calls /\ CallTrue(calls[i])
         /\ Page \in Pages /\ Fit(Page)
         /\ Page.token = token /\ Page.workspace_id = workspace_id
         /\ Page.applied = applied /\ Page.cookie = cookie /\ Page.manager = manager
         /\ ~crossed => /\ CallMine(calls[i], Page) /\ PageMine(Page)
                        /\ \A w \in WorkspaceId : owner[w] # Nobody
<1>1. calls[i] \in Calls
  BY LenProperties, ElementOfSeq DEF TabIInv, TabTypes
<1>2. QED
  BY <1>1 DEF TabIInv, TabTypes, Page, Fit, Calm, Kept

\* Of a page only these count.
LEMMA FitLike ==
  ASSUME NEW p, Fit(p), NEW q \in Pages, Display(q),
         q.token = p.token, q.cookie = p.cookie,
         q.workspace_id = p.workspace_id, q.applied = p.applied
  PROVE  Fit(q)
  BY DEF Fit, PageTrue, PageMine, Calm, Kept

LEMMA FitShown ==
  ASSUME NEW p, Fit(p)
  PROVE  /\ \A view \in View : Fit(Show(p, view)) /\ Fit(navigateAfterLogin(p, view))
         /\ Fit(initialized(p))
<1>1. p \in Pages
  BY DEF Fit
<1>2. ASSUME NEW view \in View PROVE Fit(Show(p, view))
  BY <1>1, ShowPage, FitLike
<1>3. ASSUME NEW view \in View PROVE Fit(navigateAfterLogin(p, view))
  BY <1>1, NavigatedPage, FitLike
<1>4. Fit(initialized(p))
  BY <1>1, InitializedPage, FitLike
<1>5. QED
  BY <1>2, <1>3, <1>4

LEMMA FitLoggedOut ==
  ASSUME TabIInv, NEW i \in DOMAIN calls, NEW answered \in BOOLEAN
  PROVE  Fit(loggedOut(Page, answered))
<1> DEFINE q == loggedOut(Page, answered)
<1>1. /\ q \in Pages /\ Display(q)
      /\ q.token = Nobody /\ q.workspace_id = NoId /\ q.applied = NoId
  BY Now, LoggedOutPage
<1> HIDE DEF q
<1>2. PageTrue(q) /\ PageMine(q)
  BY <1>1 DEF PageTrue, Held, PageMine
<1>3. ASSUME Calm(q) PROVE Kept(q)
  <2>1. \A w \in WorkspaceId : owner[w] # Nobody
    BY <1>3, Now DEF Calm
  <2>2. alive \subseteq WorkspaceId
    BY DEF TabIInv, TabTypes
  <2>3. QED
    BY <1>1, <2>1, <2>2 DEF Kept, Live
<1>4. QED
  BY <1>1, <1>2, <1>3 DEF Fit, q

LEMMA FitAuthExpired ==
  ASSUME TabIInv, NEW i \in DOMAIN calls
  PROVE  Fit(handleAuthExpired(Page)) /\ handleAuthExpired(Page) \in Pages
<1> DEFINE q == handleAuthExpired(Page)
<1>1. /\ q \in Pages /\ Display(q)
      /\ q.workspace_id = workspace_id
      /\ q = Page \/ (q.token = Nobody /\ q.applied = NoId)
  <2>1. Page \in Pages /\ Fit(Page) /\ Page.workspace_id = workspace_id
    BY Now
  <2>2. QED
    BY <2>1, AuthExpiredPage DEF Fit, PageTrue
<1>2. Fit(Page) /\ Page.workspace_id = workspace_id
  BY Now
<1> HIDE DEF q
<1>3. ASSUME q.token = Nobody, q.applied = NoId
      PROVE  PageTrue(q) /\ PageMine(q) /\ Kept(q)
  BY <1>1, <1>2, <1>3 DEF PageTrue, Held, PageMine, Kept, Fit
<1>4. Fit(q)
  BY <1>1, <1>2, <1>3 DEF Fit
<1>5. QED
  BY <1>1, <1>4 DEF q

\* The token of a login, or of an exchange: nothing restored, or the same user.
LEMMA FitToken ==
  ASSUME TabIInv, NEW p, Fit(p), NEW user \in Account,
         p.workspace_id = workspace_id,
         p.applied = NoId \/ (Calm(setToken(p, user)) => user = p.token)
  PROVE  Fit(setToken(p, user))
<1> DEFINE q == setToken(p, user)
<1>1. /\ p \in Pages /\ q \in Pages /\ Display(q) /\ q.token = user /\ q.cookie = user
      /\ q.workspace_id = p.workspace_id /\ q.applied = p.applied
  BY TokenPage DEF Fit, PageTrue
<1> HIDE DEF q
<1>2. PageTrue(q)
  BY <1>1 DEF Fit, PageTrue, Held
<1>3. Kept(q)
  BY <1>1 DEF Kept
<1>4. ASSUME Calm(q), p.applied # NoId PROVE PageMine(q)
  <2>1. user = p.token
    BY <1>4 DEF q
  <2>2. Calm(p)
    BY <1>1, <1>4, <2>1 DEF Calm
  <2>3. QED
    BY <1>1, <2>1, <2>2 DEF Fit, PageMine
<1>5. p.applied = NoId => PageMine(q)
  BY <1>1 DEF PageMine
<1>6. QED
  BY <1>1, <1>2, <1>3, <1>4, <1>5 DEF Fit, q

LEMMA FromCall ==
  ASSUME NEW c \in Calls, NEW p \in Pages,
         NEW step \in Boots \cup {"loaded", "renew", "refresh", "send", "login", "me", "logout"}
  PROVE  LET d == From(c, p, step)
         IN  /\ d \in Calls /\ d.kind = c.kind /\ d.view = c.view
             /\ d.step = step /\ d.answer = "awaited"
             /\ d.user = p.token /\ d.ws = p.workspace_id
  BY DEF From, Calls, Pages

LEMMA GoesOn ==
  ASSUME NEW c \in Calls, StepOfKind(c), NEW p, Fit(p),
         NEW step \in {"refresh", "send", "me", "logout"}
  PROVE  Goes(From(c, p, step), p)
<1> DEFINE d == From(c, p, step)
<1>1. /\ d \in Calls /\ d.kind = c.kind /\ d.view = c.view
      /\ d.step = step /\ d.answer = "awaited"
      /\ d.user = p.token /\ d.ws = p.workspace_id
  BY FromCall DEF Fit
<1> HIDE DEF d
<1>2. step \notin Boots \cup {"renew", "login"}
  BY DEF Boots
<1>3. CallTrue(d)
  BY <1>1, <1>2 DEF CallTrue, StepOfKind, AnswerTrue, Fit, PageTrue, Held
<1>4. CallMine(d, p)
  BY <1>1, <1>2 DEF CallMine
<1>5. QED
  BY <1>1, <1>3, <1>4 DEF Goes, d

\* The bootstrap after a login and after an expired workspace.
LEMMA GoesToBoot ==
  ASSUME NEW c \in Calls, c.kind \in {"login", "boot"}, StepOfKind(c), NEW p, Fit(p),
         p.applied = NoId, Calm(p) => p.token # Nobody
  PROVE  Goes(From(c, p, "boot"), p)
<1> DEFINE d == From(c, p, "boot")
<1>1. /\ d \in Calls /\ d.kind = c.kind /\ d.view = c.view
      /\ d.step = "boot" /\ d.answer = "awaited"
      /\ d.user = p.token /\ d.ws = p.workspace_id
  BY FromCall DEF Fit, Boots
<1> HIDE DEF d
<1>2. CallTrue(d)
  BY <1>1 DEF CallTrue, StepOfKind, AnswerTrue, Fit, PageTrue, Held, Boots
<1>3. Calm(p) => CallMine(d, p)
  BY <1>1 DEF CallMine
<1>4. QED
  BY <1>1, <1>2, <1>3 DEF Goes, d

\* Call: a call of the page as it is.
LEMMA CallNow ==
  ASSUME TabIInv,
         NEW kind \in {"start", "work", "login", "logout", "me", "boot"},
         NEW step \in Boots \cup {"loaded", "renew", "refresh", "send", "login", "me", "logout"},
         NEW view \in View \cup {"none"}
  PROVE  LET d == Call(kind, step, view)
         IN  /\ d \in Calls /\ d.kind = kind /\ d.step = step /\ d.view = view
             /\ d.answer = "awaited" /\ d.user = token /\ d.ws = workspace_id
<1>1. token \in Account /\ workspace_id \in Id
  BY DEF TabIInv, TabTypes, Page, Pages
<1>2. QED
  BY <1>1 DEF Call, Calls

-----------------------------------------------------------------------------
(* The code after each await.                                              *)

LEMMA ResumeAlone ==
  ASSUME TabIInv, NEW i \in DOMAIN calls, NEW p, Fit(p), Resume(i, p, <<>>, <<>>)
  PROVE  TabIInv' /\ KeptNow
  BY FitAlone, ResumeAllowed

LEMMA ResumeOne ==
  ASSUME TabIInv, NEW i \in DOMAIN calls, NEW p, Fit(p), NEW c, Goes(c, p),
         Resume(i, p, <<c>>, <<>>)
  PROVE  TabIInv' /\ KeptNow
  BY FitAlone, FitOne, ResumeAllowed

LEMMA makeComponentsTrue ==
  ASSUME TabIInv, NEW i \in DOMAIN calls, NEW p, Fit(p), makeComponents(i, p)
  PROVE  TabIInv' /\ KeptNow
<1> DEFINE c == calls[i]
           q == [p EXCEPT !.manager = p.token, !.form = p.token = Nobody]
           d == From(c, q, IF q.old THEN "refresh" ELSE "send")
           m == Call("me", "me", "none")
           e == From(m, q, IF q.old THEN "refresh" ELSE "me")
<1>1. p \in Pages
  BY DEF Fit
<1>2. /\ q \in Pages /\ q.token = p.token /\ q.cookie = p.cookie
      /\ q.workspace_id = p.workspace_id /\ q.applied = p.applied
      /\ q.shown = p.shown /\ q.currentView = p.currentView
  BY <1>1 DEF Pages
<1>3. Display(q)
  BY <1>2 DEF Display, Fit, PageTrue
<1>4. c \in Calls /\ StepOfKind(c)
  BY Now DEF CallTrue
<1>5. m \in Calls /\ m.kind = "me" /\ m.step = "me"
  BY CallNow DEF View
<1>6. \/ p.token = Nobody /\ Resume(i, initialized(q), <<>>, <<>>)
      \/ Resume(i, q, <<d>>, <<e>>)
  BY DEF makeComponents, askMe
<1> HIDE DEF q, m, c
<1>7. Fit(q)
  BY <1>2, <1>3, FitLike
<1>8. StepOfKind(m)
  BY <1>5 DEF StepOfKind, Boots
<1>9. Goes(d, q) /\ Goes(e, q)
  <2>1. (IF q.old THEN "refresh" ELSE "send") \in {"refresh", "send", "me", "logout"}
    OBVIOUS
  <2>2. (IF q.old THEN "refresh" ELSE "me") \in {"refresh", "send", "me", "logout"}
    OBVIOUS
  <2>3. Goes(d, q)
    BY <1>4, <1>7, <2>1, GoesOn
  <2>4. Goes(e, q)
    BY <1>5, <1>7, <1>8, <2>2, GoesOn
  <2>5. QED
    BY <2>3, <2>4
<1> HIDE DEF d, e
<1>10. CASE Resume(i, initialized(q), <<>>, <<>>)
  BY <1>7, <1>10, FitShown, ResumeAlone
<1>11. CASE Resume(i, q, <<d>>, <<e>>)
  BY <1>7, <1>9, <1>11, FitOne, ResumeAllowed
<1>12. QED
  BY <1>6, <1>10, <1>11

\* loadCurrentUser logs out after any error.
LEMMA meFailedTrue ==
  ASSUME TabIInv, NEW i \in DOMAIN calls, NEW p, Fit(p), meFailed(i, p)
  PROVE  TabIInv' /\ KeptNow
<1> DEFINE d == From(calls[i], p, "logout")
           e == [d EXCEPT !.user = p.manager]
<1>1. p.manager \in Account
  BY DEF Fit, Pages
<1>2. calls[i] \in Calls /\ StepOfKind(calls[i])
  BY Now DEF CallTrue
<1>3. Goes(d, p) /\ d.step = "logout"
  BY <1>2, GoesOn, FromCall DEF Fit
<1>4. Resume(i, p, <<e>>, <<>>)
  BY DEF meFailed
<1> HIDE DEF d
<1>5. /\ e \in Calls /\ e.step = "logout" /\ e.kind = d.kind /\ e.view = d.view /\ e.ws = d.ws
  BY <1>1, <1>3 DEF Goes, Calls
<1> HIDE DEF e
<1>6. Goes(e, p)
  BY <1>3, <1>5 DEF Goes, CallTrue, StepOfKind, AnswerTrue, CallMine, Boots
<1>7. QED
  BY <1>4, <1>6, ResumeOne

LEMMA AnswerRefreshTrue ==
  ASSUME TabIInv, NEW i \in DOMAIN calls, AnswerRefresh(i)
  PROVE  TabIInv' /\ KeptNow
<1> DEFINE c == calls[i]
           p == setToken(Page, c.user)
           q == IF c.answer = "auth" THEN handleAuthExpired(Page) ELSE Page
<1>1. c \in Calls /\ CallTrue(c) /\ StepOfKind(c) /\ c.user \in Account /\ c.step = "refresh"
  BY Now DEF CallTrue, Calls, AnswerRefresh, Answered
<1>2. Fit(q)
  BY Now, FitAuthExpired
<1>3. CASE c.answer = "ok" /\
           Resume(i, p, <<From(c, p, IF c.kind \in {"login", "me"} THEN "me" ELSE "send")>>, <<>>)
  <2>1. (IF c.kind \in {"login", "me"} THEN "me" ELSE "send") \in {"refresh", "send", "me", "logout"}
    OBVIOUS
  <2>2. ASSUME Calm(p) PROVE applied = NoId \/ c.user = token
    <3>1. CallMine(c, Page) /\ PageMine(Page) /\ \A w \in WorkspaceId : owner[w] # Nobody
      BY <2>2, Now DEF Calm
    <3>2. applied \in Id
      BY DEF TabIInv, TabTypes, Page, Pages
    <3>3. CASE token # Nobody
      BY <1>1, <1>3, <3>1, <3>3 DEF CallMine, Page
    <3>4. CASE token = Nobody
      BY <3>1, <3>2, <3>4 DEF PageMine, Page, Id
    <3>5. QED
      BY <3>3, <3>4
  <2>3. Fit(p)
    BY <1>1, <2>2, Now, FitToken
  <2> HIDE DEF p, c
  <2>4. Goes(From(c, p, IF c.kind \in {"login", "me"} THEN "me" ELSE "send"), p)
    BY <1>1, <2>1, <2>3, GoesOn
  <2>5. QED
    BY <1>3, <2>3, <2>4, ResumeOne
<1>4. CASE meFailed(i, q)
  BY <1>2, <1>4, meFailedTrue
<1>5. CASE Resume(i, q, <<>>, <<>>)
  BY <1>2, <1>5, ResumeAlone
<1>6. QED
  BY <1>3, <1>4, <1>5 DEF AnswerRefresh

LEMMA AnswerRequestTrue ==
  ASSUME TabIInv, NEW i \in DOMAIN calls, AnswerRequest(i)
  PROVE  TabIInv' /\ KeptNow
<1> DEFINE c == calls[i]
<1>1. c \in Calls /\ CallTrue(c) /\ Fit(Page) /\ Page \in Pages /\ c.step = "send"
  BY Now DEF AnswerRequest, Answered
<1>2. CASE Resume(i, initialized(Page), <<>>, <<>>)
  BY <1>1, <1>2, FitShown, ResumeAlone
<1>3. CASE Resume(i, Page, <<>>, <<>>)
  BY <1>1, <1>3, ResumeAlone
<1>4. CASE c.answer = "expired" /\ handleWorkspaceExpired(i)
  <2> DEFINE p == resetWorkspaceScopedState(Page)
             b == Call("boot", "boot", "none")
  <2>1. /\ p \in Pages /\ p.token = token /\ p.cookie = Page.cookie /\ p.applied = NoId
        /\ p.workspace_id = workspace_id
        /\ p.shown = Page.shown /\ p.currentView = Page.currentView
    <3>1. Page.token = token /\ Page.workspace_id = workspace_id
      BY Now
    <3>2. QED
      BY <1>1, <3>1 DEF resetWorkspaceScopedState, Pages, Id
  <2>2. b \in Calls /\ b.kind = "boot" /\ b.step = "boot"
    BY CallNow DEF View, Boots
  <2>3. Resume(i, p, <<>>, <<From(b, p, "boot")>>)
    BY <1>4 DEF handleWorkspaceExpired
  <2> HIDE DEF p, b
  <2>4. Fit(p)
    <3>1. PageTrue(p)
      BY <1>1, <2>1, Now DEF Fit, PageTrue, Held, Display
    <3>2. Calm(p) => PageMine(p) /\ Kept(p)
      BY <2>1, Now DEF Calm, PageMine, Kept
    <3>3. QED
      BY <2>1, <3>1, <3>2 DEF Fit
  <2>5. StepOfKind(b)
    BY <2>2 DEF StepOfKind
  <2>6. Calm(p) => p.token # Nobody
    <3>1. c.user # Nobody
      BY <1>1, <1>4 DEF CallTrue, AnswerTrue
    <3>2. ~crossed => c.user = token
      BY <1>1, Now DEF CallMine
    <3>3. QED
      BY <2>1, <3>1, <3>2 DEF Calm
  <2>7. Goes(From(b, p, "boot"), p)
    BY <2>1, <2>2, <2>4, <2>5, <2>6, GoesToBoot
  <2>8. QED
    BY <2>3, <2>4, <2>7, FitAlone, FitOne, ResumeAllowed
<1>5. QED
  BY <1>2, <1>3, <1>4 DEF AnswerRequest

\* The workspace that an answer names is the page's from here on.
LEMMA FitBootstrapped ==
  ASSUME TabIInv, NEW i \in DOMAIN calls, calls[i].step \in Boots, calls[i].answer = "ok"
  PROVE  Fit([Page EXCEPT !.workspace_id = calls[i].ws, !.applied = calls[i].ws])
<1> DEFINE c == calls[i]
           p == [Page EXCEPT !.workspace_id = c.ws, !.applied = c.ws]
<1>1. /\ c \in Calls /\ CallTrue(c) /\ Page \in Pages /\ Fit(Page)
      /\ Page.token = token /\ Page.workspace_id = workspace_id
  BY Now
<1>2. c.ws # NoId /\ owner[c.ws] = c.user /\ Held(c.ws)
  BY <1>1 DEF CallTrue, AnswerTrue
<1>3. /\ p \in Pages /\ p.token = token /\ p.cookie = Page.cookie
      /\ p.workspace_id = c.ws /\ p.applied = c.ws
      /\ p.shown = Page.shown /\ p.currentView = Page.currentView
  BY <1>1 DEF Pages, Calls
<1> HIDE DEF p
<1>4. PageTrue(p)
  BY <1>1, <1>2, <1>3 DEF Fit, PageTrue, Display
<1>5. ASSUME Calm(p) PROVE PageMine(p) /\ Kept(p)
  <2>1. CallMine(c, Page) /\ PageMine(Page) /\ alive \subseteq WorkspaceId
    BY <1>5, Now DEF Calm, TabIInv, TabTypes
  <2>2. c.user = token
    BY <1>1, <2>1 DEF CallMine
  <2>3. workspace_id # NoId => c.ws = workspace_id
    BY <1>1, <2>1 DEF CallMine
  <2>4. workspace_id \in alive => workspace_id # NoId
    BY <2>1 DEF WorkspaceId, NoId
  <2>5. PageMine(p)
    BY <1>2, <1>3, <1>1, <2>1, <2>2 DEF PageMine
  <2>6. Kept(p)
    BY <1>3, <2>3, <2>4 DEF Kept, Live
  <2>7. QED
    BY <2>5, <2>6
<1>6. QED
  BY <1>3, <1>4, <1>5 DEF Fit, p

LEMMA bootstrappedTrue ==
  ASSUME TabIInv, NEW i \in DOMAIN calls, calls[i].step \in Boots, NEW p, Fit(p),
         bootstrapped(i, p)
  PROVE  TabIInv' /\ KeptNow
<1> DEFINE c == calls[i]
           step == IF p.old THEN "refresh" ELSE "me"
<1>1. c \in Calls /\ StepOfKind(c)
  BY Now DEF CallTrue
<1>2. c.kind \in {"start", "login", "boot"}
  BY <1>1 DEF StepOfKind
<1>3. CASE c.kind = "start"
  BY <1>3, makeComponentsTrue DEF bootstrapped
<1>4. CASE c.kind = "login"
  <2>1. Resume(i, p, <<From(c, p, step)>>, <<>>)
    BY <1>4 DEF bootstrapped, askMe
  <2>2. step \in {"refresh", "send", "me", "logout"}
    OBVIOUS
  <2> HIDE DEF step, c
  <2>3. Goes(From(c, p, step), p)
    BY <1>1, <2>2, GoesOn
  <2>4. QED
    BY <2>1, <2>3, ResumeOne
<1>5. CASE c.kind = "boot"
  <2>1. Resume(i, p, <<>>, <<>>)
    BY <1>5 DEF bootstrapped
  <2>2. QED
    BY <2>1, ResumeAlone
<1>6. QED
  BY <1>2, <1>3, <1>4, <1>5

LEMMA bootstrapFailedTrue ==
  ASSUME TabIInv, NEW i \in DOMAIN calls, NEW p, Fit(p), NEW suspends,
         bootstrapFailed(i, p, suspends)
  PROVE  TabIInv' /\ KeptNow
  BY makeComponentsTrue, ResumeAlone DEF bootstrapFailed

LEMMA AnswerBootstrapTrue ==
  ASSUME TabIInv, NEW i \in DOMAIN calls, AnswerBootstrap(i)
  PROVE  TabIInv' /\ KeptNow
<1> DEFINE c == calls[i]
<1>1. /\ c \in Calls /\ CallTrue(c) /\ Fit(Page) /\ Page \in Pages /\ c.step \in Boots
      /\ Page.token = token /\ Page.workspace_id = workspace_id
  BY Now DEF AnswerBootstrap, Answered
<1>2. CASE c.answer = "ok" /\
           bootstrapped(i, [Page EXCEPT !.workspace_id = c.ws, !.applied = c.ws])
  BY <1>1, <1>2, FitBootstrapped, bootstrappedTrue
<1>3. ASSUME GivesUp(c),
             Resume(i, [Page EXCEPT !.workspace_id = NoId],
                    <<[c EXCEPT !.step = "anew", !.answer = "awaited", !.ws = NoId]>>, <<>>)
      PROVE  TabIInv' /\ KeptNow
  <2> DEFINE p == [Page EXCEPT !.workspace_id = NoId]
             d == [c EXCEPT !.step = "anew", !.answer = "awaited", !.ws = NoId]
  <2>1. /\ p \in Pages /\ p.token = token /\ p.cookie = Page.cookie
        /\ p.workspace_id = NoId /\ p.applied = Page.applied
        /\ p.shown = Page.shown /\ p.currentView = Page.currentView
    BY <1>1 DEF Pages, Id
  <2>2. /\ d \in Calls /\ d.step = "anew" /\ d.answer = "awaited" /\ d.ws = NoId
        /\ d.kind = c.kind /\ d.view = c.view /\ d.user = c.user
    BY <1>1 DEF Calls, Boots, Id
  <2>3. Resume(i, p, <<d>>, <<>>)
    BY <1>3
  <2> HIDE DEF p, d
  <2>4. ~Live(c.ws, c.user) /\ c.ws # NoId
    BY <1>1, <1>3 DEF GivesUp, CallTrue, AnswerTrue
  <2>5. ~crossed => /\ c.user = token /\ token # Nobody /\ PageMine(Page)
                    /\ c.ws = workspace_id
    BY <1>1, <1>3, Now DEF CallMine, GivesUp
  <2>6. PageTrue(p)
    BY <1>1, <2>1 DEF Fit, PageTrue, Held, Display
  <2>7. ASSUME Calm(p)
        PROVE  /\ p.applied = NoId /\ PageMine(Page) /\ token # Nobody /\ c.user = token
               /\ ~Live(workspace_id, token)
    BY <1>1, <2>1, <2>4, <2>5, <2>7, Now DEF CallMine, Calm
  <2>8. Fit(p)
    <3>1. Calm(p) => PageMine(p)
      BY <1>1, <2>1, <2>7 DEF PageMine
    <3>2. Calm(p) => Kept(p)
      BY <2>7 DEF Kept
    <3>3. QED
      BY <2>1, <2>6, <3>1, <3>2 DEF Fit
  <2>9. Goes(d, p)
    <3>1. CallTrue(d)
      BY <1>1, <2>2 DEF CallTrue, StepOfKind, AnswerTrue, Held, Boots
    <3>2. "anew" \notin {"refresh", "renew", "send"}
      OBVIOUS
    <3>3. Calm(p) => CallMine(d, p)
      BY <2>1, <2>2, <2>7, <3>2 DEF CallMine
    <3>4. QED
      BY <2>2, <3>1, <3>3 DEF Goes
  <2>10. QED
    BY <2>3, <2>8, <2>9, ResumeOne
<1>4. CASE Resume(i, Page, <<[c EXCEPT !.step = "renew", !.answer = "awaited"]>>, <<>>)
           /\ c.answer = "auth"
  <2> DEFINE d == [c EXCEPT !.step = "renew", !.answer = "awaited"]
  <2>1. /\ d \in Calls /\ d.step = "renew" /\ d.answer = "awaited" /\ d.ws = c.ws
        /\ d.kind = c.kind /\ d.view = c.view
    BY <1>1 DEF Calls
  <2> HIDE DEF d
  <2>2. CallTrue(d)
    BY <1>1, <2>1 DEF CallTrue, StepOfKind, AnswerTrue, Boots
  <2>3. Calm(Page) => CallMine(d, Page)
    BY <1>1, <1>4, <2>1, Now DEF Calm, CallMine, Boots
  <2>4. Goes(d, Page)
    BY <2>1, <2>2, <2>3 DEF Goes
  <2>5. QED
    BY <1>1, <1>4, <2>4, ResumeOne DEF d
<1>5. CASE bootstrapFailed(i, Page, FALSE)
  BY <1>1, <1>5, bootstrapFailedTrue
<1>6. QED
  BY <1>2, <1>3, <1>4, <1>5 DEF AnswerBootstrap

LEMMA AnswerRenewTrue ==
  ASSUME TabIInv, NEW i \in DOMAIN calls, AnswerRenew(i)
  PROVE  TabIInv' /\ KeptNow
<1> DEFINE c == calls[i]
           p == setToken(Page, c.user)
           d == [c EXCEPT !.step = "retry", !.answer = "awaited"]
<1>1. /\ c \in Calls /\ CallTrue(c) /\ Fit(Page) /\ Page \in Pages /\ c.step = "renew"
      /\ Page.workspace_id = workspace_id /\ Page.applied = applied /\ Page.token = token
      /\ c.user \in Account
  BY Now DEF AnswerRenew, Answered, Calls
<1>2. CASE c.answer = "ok" /\ Resume(i, p, <<d>>, <<>>)
  <2>1. /\ d \in Calls /\ d.step = "retry" /\ d.answer = "awaited" /\ d.ws = c.ws
        /\ d.kind = c.kind /\ d.view = c.view /\ d.user = c.user
    BY <1>1 DEF Calls, Boots
  <2>2. /\ p \in Pages /\ p.token = c.user /\ p.workspace_id = workspace_id
        /\ p.applied = applied
    BY <1>1, TokenPage
  <2>3. ~crossed => CallMine(c, Page)
    BY Now
  <2>4. Calm(p) => applied = NoId
    BY <1>1, <2>3 DEF Calm, CallMine
  <2>5. applied = NoId \/ (Calm(p) => c.user = Page.token)
    BY <2>4
  <2>6. Fit(p)
    BY <1>1, <2>5, FitToken
  <2> HIDE DEF p, d
  <2>7. c.user # Nobody
    BY <1>1, <1>2 DEF CallTrue, AnswerTrue
  <2>8. CallTrue(d)
    BY <1>1, <2>1 DEF CallTrue, StepOfKind, AnswerTrue, Boots
  <2>9. Calm(p) => CallMine(d, p)
    <3>1. "retry" # "send" /\ "retry" \notin {"refresh", "renew"} /\ "renew" \notin Boots
      BY DEF Boots
    <3>2. QED
      BY <1>1, <2>1, <2>2, <2>3, <2>7, <3>1 DEF Calm, CallMine
  <2>10. Goes(d, p)
    BY <2>1, <2>8, <2>9 DEF Goes
  <2>11. QED
    BY <1>2, <2>6, <2>10, ResumeOne
<1>3. CASE bootstrapFailed(i, handleAuthExpired(Page), c.answer = "auth")
  BY <1>3, FitAuthExpired, bootstrapFailedTrue
<1>4. QED
  BY <1>2, <1>3 DEF AnswerRenew

LEMMA AnswerLoginTrue ==
  ASSUME TabIInv, NEW i \in DOMAIN calls, AnswerLogin(i)
  PROVE  TabIInv' /\ KeptNow
<1> DEFINE c == calls[i]
           r == [resetWorkspaceScopedState(Page) EXCEPT !.manager = c.user]
           p == setToken(r, c.user)
<1>1. /\ c \in Calls /\ CallTrue(c) /\ StepOfKind(c) /\ Fit(Page) /\ Page \in Pages
      /\ c.step = "login" /\ Page.workspace_id = workspace_id /\ Page.token = token
      /\ c.user \in Account
  BY Now DEF AnswerLogin, Answered, Calls, CallTrue
<1>2. c.user \in Username /\ c.user # Nobody /\ c.kind = "login"
  BY <1>1, NobodyAssumption DEF CallTrue, AnswerTrue, StepOfKind
<1>3. /\ r \in Pages /\ r.token = token /\ r.applied = NoId /\ r.cookie = Page.cookie
      /\ r.workspace_id = workspace_id
      /\ r.shown = Page.shown /\ r.currentView = Page.currentView
  BY <1>1 DEF Pages, resetWorkspaceScopedState, Id
<1>4. CASE Resume(i, p, <<From(c, p, "boot")>>, <<>>)
  <2> HIDE DEF r
  <2>1. PageTrue(r)
    BY <1>1, <1>3 DEF Fit, PageTrue, Held, Display
  <2>2. Calm(r) => PageMine(r) /\ Kept(r)
    BY <1>1, <1>3, Now DEF Calm, PageMine, Kept
  <2>3. Fit(r)
    BY <1>3, <2>1, <2>2 DEF Fit
  <2>4. Fit(p)
    BY <1>1, <1>3, <2>3, FitToken
  <2>5. p.token = c.user /\ p.applied = NoId
    BY <1>1, <1>3, TokenPage
  <2> HIDE DEF p, c
  <2>6. Goes(From(c, p, "boot"), p)
    BY <1>1, <1>2, <2>4, <2>5, GoesToBoot
  <2>7. QED
    BY <1>4, <2>4, <2>6, ResumeOne
<1>5. CASE Resume(i, Page, <<>>, <<>>)
  BY <1>1, <1>5, ResumeAlone
<1>6. QED
  BY <1>4, <1>5 DEF AnswerLogin

LEMMA loadCurrentUserTrue ==
  ASSUME TabIInv, NEW i \in DOMAIN calls, loadCurrentUser(i)
  PROVE  TabIInv' /\ KeptNow
<1> DEFINE c == calls[i]
<1>1. c \in Calls /\ StepOfKind(c) /\ Fit(Page)
  BY Now DEF CallTrue
<1>2. CASE c.kind = "login" /\ Resume(i, navigateAfterLogin(Page, c.view), <<>>, <<>>)
  <2>1. c.view \in View
    BY <1>1, <1>2 DEF StepOfKind
  <2>2. QED
    BY <1>1, <1>2, <2>1, FitShown, ResumeAlone
<1>3. CASE Resume(i, Page, <<>>, <<>>)
  BY <1>1, <1>3, ResumeAlone
<1>4. CASE meFailed(i, Page)
  BY <1>1, <1>4, meFailedTrue
<1>5. QED
  BY <1>2, <1>3, <1>4 DEF loadCurrentUser

LEMMA AnswerLogoutTrue ==
  ASSUME TabIInv, NEW i \in DOMAIN calls, AnswerLogout(i)
  PROVE  TabIInv' /\ KeptNow
<1> DEFINE c == calls[i]
           p == loggedOut(Page, c.answer = "ok")
<1>1. c \in Calls /\ StepOfKind(c)
  BY Now DEF CallTrue
<1>2. (c.answer = "ok") \in BOOLEAN
  OBVIOUS
<1>3. Fit(p)
  BY <1>2, FitLoggedOut
<1>4. \/ c.kind = "login" /\ Resume(i, navigateAfterLogin(p, c.view), <<>>, <<>>)
      \/ Resume(i, p, <<>>, <<>>)
  BY DEF AnswerLogout
<1> HIDE DEF p
<1>5. CASE c.kind = "login" /\ Resume(i, navigateAfterLogin(p, c.view), <<>>, <<>>)
  <2>1. c.view \in View
    BY <1>1, <1>5 DEF StepOfKind
  <2>2. QED
    BY <1>3, <1>5, <2>1, FitShown, ResumeAlone
<1>6. CASE Resume(i, p, <<>>, <<>>)
  BY <1>3, <1>6, ResumeAlone
<1>7. QED
  BY <1>4, <1>5, <1>6

LEMMA LoadedTrue ==
  ASSUME TabIInv, NEW i \in DOMAIN calls, Loaded(i)
  PROVE  TabIInv' /\ KeptNow
  BY Now, makeComponentsTrue DEF Loaded

LEMMA AnswerAllowed ==
  ASSUME TabIInv, NEW i \in DOMAIN calls, Answer(i)
  PROVE  TabIInv' /\ KeptNow
  BY AnswerRefreshTrue, AnswerRequestTrue, AnswerBootstrapTrue, AnswerRenewTrue,
     AnswerLoginTrue, loadCurrentUserTrue, AnswerLogoutTrue, LoadedTrue DEF Answer

-----------------------------------------------------------------------------
(* The other steps: what the user begins, what time does, what the server   *)
(* answers.                                                                 *)

LEMMA InitTabIInv == TabInit => TabIInv
<1> SUFFICES ASSUME TabInit PROVE TabIInv
  OBVIOUS
<1> DEFINE step == IF token = Nobody THEN "loaded" ELSE "boot"
           c == Call("start", step, "none")
<1>1. Page \in Pages
  BY DEF TabInit, Page, Pages, Account, Id, View
<1>2. token \in Account /\ workspace_id \in Id /\ workspace_id = NoId /\ applied = NoId
  BY DEF TabInit, Account, Id
<1>3. step \in Boots \cup {"loaded", "renew", "refresh", "send", "login", "me", "logout"}
  BY DEF Boots
<1>4. /\ c \in Calls /\ c.kind = "start" /\ c.step = step /\ c.answer = "awaited"
      /\ c.user = token /\ c.ws = NoId
  BY <1>2, <1>3 DEF Call, Calls
<1>5. calls = <<c>> /\ crossed = FALSE
  BY DEF TabInit
<1>6. step = "loaded" \/ (step = "boot" /\ token # Nobody)
  OBVIOUS
<1> HIDE DEF step, c
<1>7. /\ calls \in Seq(Calls)
      /\ \A k \in DOMAIN calls : calls[k] = c
  BY <1>4, <1>5, OneCall
<1>8. CallTrue(c)
  BY <1>4, <1>6 DEF CallTrue, Held, StepOfKind, AnswerTrue, Boots
<1>9. CallMine(c, Page)
  BY <1>2, <1>4, <1>6 DEF CallMine, Boots, Page
<1>10. /\ owner \in [WorkspaceId -> Account \cup {"none"}] /\ alive = {}
       /\ begun \in 0..MaxBegun /\ faults \in 0..MaxFaults /\ crossed \in BOOLEAN
  <2>1. crossed \in BOOLEAN
    BY DEF TabInit
  <2>2. owner \in [WorkspaceId -> Account \cup {"none"}] /\ alive = {}
    BY DEF TabInit
  <2>3. begun \in 0..MaxBegun /\ faults \in 0..MaxFaults
    BY SessionAssumption DEF TabInit
  <2>4. QED
    BY <2>1, <2>2, <2>3
<1>11. \A w \in WorkspaceId : owner[w] # Nobody
  BY DEF TabInit, Nobody
<1>12. PageTrue(Page) /\ PageMine(Page)
  BY <1>2 DEF TabInit, Page, PageTrue, Held, Display, PageMine
<1>13. QED
  BY <1>1, <1>7, <1>8, <1>9, <1>10, <1>11, <1>12 DEF TabIInv, TabTypes

\* The server's part of the state only grows, but for the end of a workspace.
LEMMA CallStaysTrue ==
  ASSUME TabIInv, NEW c \in Calls, CallTrue(c), alive' \subseteq WorkspaceId,
         \A w \in WorkspaceId : owner[w] # "none" =>
             owner'[w] = owner[w] /\ (w \in alive' => w \in alive)
  PROVE  CallTrue(c)'
<1>1. c.ws \in WorkspaceId \/ c.ws = NoId
  BY DEF Calls, Id
<1>2. NoId \notin WorkspaceId
  BY DEF NoId, WorkspaceId
<1>3. Held(c.ws)' /\ StepOfKind(c)'
  BY <1>1 DEF CallTrue, Held, StepOfKind
<1>4. AnswerTrue(c)'
  <2>1. ASSUME c.ws # NoId, owner[c.ws] = c.user PROVE owner'[c.ws] = c.user
    BY <1>1, <2>1 DEF CallTrue, Held
  <2>2. Live(c.ws, c.user)' => Live(c.ws, c.user)
    BY <1>1, <1>2 DEF CallTrue, Held, Live
  <2>3. QED
    BY <2>1, <2>2 DEF CallTrue, AnswerTrue
<1>5. QED
  BY <1>3, <1>4 DEF CallTrue

\* A step that leaves the token, the workspace and its owner alone.
LEMMA QuietStep ==
  ASSUME TabIInv, (Page \in Pages)', (Display(Page))',
         token' = token, workspace_id' = workspace_id, applied' = applied,
         cookie' \in {cookie, Nobody},
         owner' = owner, alive' \subseteq alive, crossed' = crossed,
         begun' \in 0..MaxBegun, faults' \in 0..MaxFaults,
         calls' \in Seq(Calls),
         \A k \in DOMAIN calls' :
             \/ \E j \in DOMAIN calls : calls'[k] = calls[j]
             \/ CallTrue(calls'[k]) /\ (~crossed => CallMine(calls'[k], Page))
  PROVE  TabIInv' /\ KeptNow
<1>1. \A k \in DOMAIN calls' :
          CallTrue(calls'[k]) /\ (~crossed => CallMine(calls'[k], Page))
  BY DEF TabIInv
<1>2. \A k \in DOMAIN calls' : calls'[k] \in Calls
  BY LenProperties, ElementOfSeq
<1>3. alive' \subseteq WorkspaceId
  BY DEF TabIInv, TabTypes
<1>4. ASSUME NEW c \in Calls, CallTrue(c) PROVE CallTrue(c)'
  BY <1>3, <1>4, CallStaysTrue
<1>5. \A k \in DOMAIN calls' : CallTrue(calls[k])'
  BY <1>1, <1>2, <1>4
<1>6. ASSUME ~crossed PROVE \A k \in DOMAIN calls' : CallMine(calls[k], Page)'
  BY <1>1, <1>6 DEF CallMine, Page
<1>7. ~crossed => PageMine(Page)'
  BY DEF TabIInv, PageMine, Page
<1>8. PageTrue(Page)'
  BY DEF TabIInv, PageTrue, Held, Page
<1>9. TabTypes'
  BY <1>3 DEF TabIInv, TabTypes
<1>10. /\ \A w \in alive' : owner'[w] # "none"
       /\ ~crossed => \A w \in WorkspaceId : owner'[w] # Nobody
  BY DEF TabIInv
<1>11. KeptNow
  BY DEF KeptNow
<1>12. QED
  BY <1>5, <1>6, <1>7, <1>8, <1>9, <1>10, <1>11 DEF TabIInv

LEMMA PageStays ==
  ASSUME TabIInv, UNCHANGED <<authVars, workspace_id, applied, viewVars>>
  PROVE  /\ (Page \in Pages)' /\ Display(Page)'
         /\ token' = token /\ workspace_id' = workspace_id /\ applied' = applied
         /\ cookie' = cookie
<1>1. Page' = Page
  BY DEF Page, authVars, viewVars
<1>2. QED
  BY <1>1 DEF TabIInv, TabTypes, PageTrue, Display, authVars

\* A call of the page begins.
LEMMA BeginCall ==
  ASSUME TabIInv, NEW d \in Calls, CallTrue(d), ~crossed => CallMine(d, Page),
         begun < MaxBegun, begun' = begun + 1, calls' = Append(calls, d),
         UNCHANGED <<authVars, workspace_id, applied, serverVars, viewVars, faults, crossed>>
  PROVE  TabIInv' /\ KeptNow
<1>1. /\ calls \in Seq(Calls) /\ begun \in 0..MaxBegun /\ faults \in 0..MaxFaults
      /\ MaxBegun \in Nat
  BY SessionAssumption DEF TabIInv, TabTypes
<1>2. /\ calls' \in Seq(Calls)
      /\ \A k \in DOMAIN calls' :
           (\E j \in DOMAIN calls : calls'[k] = calls[j]) \/ calls'[k] = d
  <2>1. /\ calls' \in Seq(Calls) /\ Len(calls') = Len(calls) + 1
        /\ \A k \in 1..Len(calls) : calls'[k] = calls[k]
        /\ calls'[Len(calls) + 1] = d
    BY <1>1, AppendProperties
  <2>2. /\ Len(calls) \in Nat /\ DOMAIN calls = 1..Len(calls)
        /\ DOMAIN calls' = 1..(Len(calls) + 1)
    BY <1>1, <2>1, LenProperties
  <2>3. QED
    BY <2>1, <2>2
<1>3. begun' \in 0..MaxBegun /\ faults' \in 0..MaxFaults
  BY <1>1
<1>4. owner' = owner /\ alive' \subseteq alive /\ crossed' = crossed
  BY DEF serverVars
<1>5. QED
  BY <1>2, <1>3, <1>4, PageStays, QuietStep

LEMMA UserActsTrue ==
  ASSUME TabIInv, ~crossed, UserActs
  PROVE  TabIInv' /\ KeptNow
<1>0. /\ token \in Account /\ Page \in Pages /\ workspace_id \in Id
      /\ Page.token = token /\ Page.workspace_id = workspace_id
      /\ Held(workspace_id)
  BY DEF TabIInv, TabTypes, Page, Pages, PageTrue
<1>1. CASE request
  <2> DEFINE d == Call("work", FirstStep, "none")
  <2>1. FirstStep \in {"refresh", "send"}
    BY DEF FirstStep
  <2>2. /\ d \in Calls /\ d.kind = "work" /\ d.step = FirstStep /\ d.answer = "awaited"
        /\ d.user = token /\ d.ws = workspace_id
    BY <2>1, CallNow DEF Boots
  <2>3. /\ begun < MaxBegun /\ begun' = begun + 1 /\ calls' = Append(calls, d)
        /\ UNCHANGED <<authVars, workspace_id, applied, serverVars, viewVars, faults, crossed>>
    BY <1>1 DEF request, Begin
  <2> HIDE DEF d
  <2>4. CallTrue(d)
    BY <1>0, <2>1, <2>2 DEF CallTrue, StepOfKind, AnswerTrue, Boots
  <2>5. CallMine(d, Page)
    BY <1>0, <2>1, <2>2 DEF CallMine, Boots
  <2>6. QED
    BY <2>2, <2>3, <2>4, <2>5, BeginCall
<1>2. CASE logout
  <2> DEFINE d == Call("logout", "logout", "none")
  <2>1. /\ d \in Calls /\ d.kind = "logout" /\ d.step = "logout" /\ d.answer = "awaited"
        /\ d.user = token /\ d.ws = workspace_id
    BY CallNow DEF Boots
  <2>2. /\ begun < MaxBegun /\ begun' = begun + 1 /\ calls' = Append(calls, d)
        /\ UNCHANGED <<authVars, workspace_id, applied, serverVars, viewVars, faults, crossed>>
    BY <1>2 DEF logout, Begin
  <2> HIDE DEF d
  <2>3. CallTrue(d)
    BY <1>0, <2>1 DEF CallTrue, StepOfKind, AnswerTrue, Boots
  <2>4. CallMine(d, Page)
    BY <1>0, <2>1 DEF CallMine, Boots
  <2>5. QED
    BY <2>1, <2>2, <2>3, <2>4, BeginCall
<1>3. ASSUME NEW user \in Username, login(user) PROVE TabIInv' /\ KeptNow
  <2> DEFINE b == Call("login", "login", resolvePostLoginView)
             d == [b EXCEPT !.user = user]
  <2>1. resolvePostLoginView \in View
    BY <1>0 DEF resolvePostLoginView, Page, Pages, View
  <2>2. /\ b \in Calls /\ b.kind = "login" /\ b.step = "login" /\ b.answer = "awaited"
        /\ b.view = resolvePostLoginView /\ b.ws = workspace_id
    BY <2>1, CallNow DEF Boots
  <2>3. /\ begun < MaxBegun /\ begun' = begun + 1 /\ calls' = Append(calls, d)
        /\ UNCHANGED <<authVars, workspace_id, applied, serverVars, viewVars, faults, crossed>>
    BY <1>3 DEF login
  <2> HIDE DEF b
  <2>4. /\ d \in Calls /\ d.kind = "login" /\ d.step = "login" /\ d.answer = "awaited"
        /\ d.view \in View /\ d.ws = workspace_id /\ d.user = user
    BY <2>1, <2>2 DEF Calls, Account
  <2> HIDE DEF d
  <2>5. CallTrue(d)
    BY <1>0, <2>4 DEF CallTrue, StepOfKind, AnswerTrue, Boots
  <2>6. CallMine(d, Page)
    BY <1>0, <2>4 DEF CallMine, Boots
  <2>7. QED
    BY <2>3, <2>4, <2>5, <2>6, BeginCall
<1>4. ASSUME NEW view \in View, navigate(view) PROVE TabIInv' /\ KeptNow
  <2>1. /\ Show(Page, view) \in Pages /\ Display(Show(Page, view))
        /\ Show(Page, view).token = token /\ Show(Page, view).workspace_id = workspace_id
        /\ Show(Page, view).applied = applied /\ Show(Page, view).cookie = cookie
    BY <1>0, ShowPage DEF Page
  <2>2. /\ begun < MaxBegun /\ begun' = begun + 1 /\ SetPage(Show(Page, view))
        /\ UNCHANGED <<serverVars, calls, faults, crossed>>
    BY <1>4 DEF navigate
  <2>3. Page' = Show(Page, view)
    BY <2>1, <2>2, PageIs
  <2>4. /\ token' = token /\ workspace_id' = workspace_id /\ applied' = applied
        /\ cookie' = cookie
    BY <2>1, <2>2 DEF SetPage
  <2>5. (Page \in Pages)' /\ Display(Page)'
    BY <2>1, <2>3 DEF Display
  <2>6. /\ begun' \in 0..MaxBegun /\ faults' \in 0..MaxFaults /\ calls' \in Seq(Calls)
        /\ owner' = owner /\ alive' \subseteq alive /\ calls' = calls /\ crossed' = crossed
    BY <2>2, SessionAssumption DEF TabIInv, TabTypes, serverVars
  <2>7. QED
    BY <2>4, <2>5, <2>6, QuietStep
<1>5. QED
  BY <1>1, <1>2, <1>3, <1>4 DEF UserActs

LEMMA TimeTrue ==
  ASSUME TabIInv,
         \/ TokenAges \/ CookieExpires \/ \E w \in WorkspaceId : WorkspaceExpires(w)
         \/ HandledOver
  PROVE  TabIInv' /\ KeptNow
<1>1. /\ begun' = begun /\ calls' = calls /\ crossed' = crossed /\ owner' = owner
      /\ alive' \subseteq alive
      /\ faults' = faults \/ (faults < MaxFaults /\ faults' = faults + 1)
  BY DEF TokenAges, CookieExpires, WorkspaceExpires, HandledOver, Fault, serverVars
<1>2. /\ token' = token /\ workspace_id' = workspace_id /\ applied' = applied
      /\ cookie' \in {cookie, Nobody} /\ manager' = manager /\ form' = form
      /\ currentView' = currentView /\ suspended' = suspended /\ shown' = shown
  BY DEF TokenAges, CookieExpires, WorkspaceExpires, HandledOver, authVars, viewVars
<1>3. (old' = old \/ old' = TRUE) /\ (handled' = handled \/ handled' = FALSE)
  BY DEF TokenAges, CookieExpires, WorkspaceExpires, HandledOver, authVars
<1>4. /\ Page \in Pages /\ Display(Page)
      /\ calls \in Seq(Calls) /\ begun \in 0..MaxBegun /\ faults \in 0..MaxFaults
      /\ MaxFaults \in Nat
  BY SessionAssumption DEF TabIInv, TabTypes, PageTrue
<1>5. old \in BOOLEAN /\ handled \in BOOLEAN
  BY <1>4 DEF Page, Pages
<1>6. old' \in BOOLEAN /\ handled' \in BOOLEAN
  BY <1>3, <1>5
<1>7. cookie' \in Account
  BY <1>2, <1>4 DEF Page, Pages, Account
<1>8. (Page \in Pages)'
  BY <1>2, <1>4, <1>6, <1>7 DEF Page, Pages
<1>9. Display(Page)'
  BY <1>2, <1>4 DEF Page, Display
<1>10. /\ calls' \in Seq(Calls) /\ begun' \in 0..MaxBegun /\ faults' \in 0..MaxFaults
       /\ \A k \in DOMAIN calls' : \E j \in DOMAIN calls : calls'[k] = calls[j]
  BY <1>1, <1>4
<1>11. QED
  BY <1>1, <1>2, <1>8, <1>9, <1>10, QuietStep

\* An answer to the call i, which is d from here on.
LEMMA AnswerCall ==
  ASSUME TabIInv, NEW i \in DOMAIN calls, NEW d \in Calls, calls' = [calls EXCEPT ![i] = d]
  PROVE  /\ calls' \in Seq(Calls)
         /\ \A k \in DOMAIN calls' :
              (\E j \in DOMAIN calls : calls'[k] = calls[j]) \/ calls'[k] = d
         /\ \A k \in DOMAIN calls' :
              (k \in DOMAIN calls /\ calls'[k] = calls[k]) \/ calls'[k] = d
<1>1. calls \in Seq(Calls) /\ i \in 1..Len(calls) /\ DOMAIN calls = 1..Len(calls)
  BY LenProperties DEF TabIInv, TabTypes
<1>2. /\ calls' \in Seq(Calls) /\ Len(calls') = Len(calls)
      /\ \A k \in 1..Len(calls) : calls'[k] = IF k = i THEN d ELSE calls[k]
  BY <1>1, ExceptSeq
<1>3. DOMAIN calls' = 1..Len(calls)
  BY <1>2, LenProperties
<1>4. QED
  BY <1>1, <1>2, <1>3

\* An answer that changes no more than this call, and may end a workspace.
LEMMA QuietAnswer ==
  ASSUME TabIInv, NEW i \in DOMAIN calls, NEW d, d \in Calls, CallTrue(d),
         ~crossed => CallMine(d, Page),
         calls' = [calls EXCEPT ![i] = d],
         owner' = owner, alive' \subseteq alive, faults' \in 0..MaxFaults,
         UNCHANGED <<authVars, workspace_id, applied, viewVars, begun, crossed>>
  PROVE  TabIInv' /\ KeptNow
<1>1. /\ calls' \in Seq(Calls)
      /\ \A k \in DOMAIN calls' :
           \/ \E j \in DOMAIN calls : calls'[k] = calls[j]
           \/ CallTrue(calls'[k]) /\ (~crossed => CallMine(calls'[k], Page))
  BY AnswerCall
<1>2. begun' \in 0..MaxBegun /\ crossed' = crossed
  BY DEF TabIInv, TabTypes
<1>3. QED
  BY <1>1, <1>2, PageStays, QuietStep

\* A bootstrap that names no workspace makes one, for the user of its token.
LEMMA CreateWorkspace ==
  ASSUME TabIInv, NEW i \in DOMAIN calls, NEW w \in New,
         calls[i].step \in Boots, calls[i].ws = NoId,
         owner' = [owner EXCEPT ![w] = calls[i].user], alive' = alive \cup {w},
         calls' = [calls EXCEPT ![i].answer = "ok", ![i].ws = w],
         UNCHANGED <<authVars, workspace_id, applied, viewVars, begun, faults, crossed>>
  PROVE  TabIInv' /\ KeptNow
<1> DEFINE c == calls[i]
<1>0. PICK d : d = [c EXCEPT !.answer = "ok", !.ws = w]
  OBVIOUS
<1>1. /\ c \in Calls /\ CallTrue(c) /\ c.user \in Account /\ c.ws = NoId /\ c.step \in Boots
      /\ Page.workspace_id = workspace_id
      /\ ~crossed => CallMine(c, Page) /\ PageMine(Page)
  BY Now DEF Calls
<1>2. w \in WorkspaceId /\ owner[w] = "none"
  BY DEF New
<1>3. /\ d \in Calls /\ d.answer = "ok" /\ d.ws = w /\ d.step = c.step /\ d.user = c.user
      /\ d.kind = c.kind /\ d.view = c.view
  BY <1>0, <1>1, <1>2 DEF Calls, Id
<1>4. calls' = [calls EXCEPT ![i] = d]
  BY <1>0, <1>1 DEF Calls
<1>5. /\ calls' \in Seq(Calls)
      /\ \A k \in DOMAIN calls' :
           (k \in DOMAIN calls /\ calls'[k] = calls[k]) \/ calls'[k] = d
  BY <1>3, <1>4, AnswerCall
<1>6. owner \in [WorkspaceId -> Account \cup {"none"}] /\ alive \subseteq WorkspaceId
  BY DEF TabIInv, TabTypes
<1>7. /\ owner' \in [WorkspaceId -> Account \cup {"none"}] /\ alive' \subseteq WorkspaceId
      /\ \A x \in WorkspaceId : owner'[x] = IF x = w THEN c.user ELSE owner[x]
  BY <1>1, <1>2, <1>6
<1>8. c.user # "none"
  BY <1>1, NobodyAssumption DEF Account, Nobody
<1>9. \A x \in WorkspaceId : owner[x] # "none" =>
          owner'[x] = owner[x] /\ (x \in alive' => x \in alive)
  BY <1>2, <1>7
<1>10. ASSUME NEW e \in Calls, CallTrue(e) PROVE CallTrue(e)'
  BY <1>7, <1>9, <1>10, CallStaysTrue
<1>11. CallTrue(d)'
  <2>1. owner'[w] = c.user
    BY <1>2, <1>7
  <2>2. w # NoId
    BY <1>2 DEF NoId, WorkspaceId
  <2>3. d.step \notin {"login", "refresh", "renew", "send"}
    BY <1>1, <1>3 DEF Boots
  <2>4. Held(d.ws)' /\ StepOfKind(d)'
    BY <1>1, <1>3, <1>8, <2>1 DEF CallTrue, Held, StepOfKind
  <2>5. AnswerTrue(d)'
    BY <1>3, <2>1, <2>2, <2>3 DEF AnswerTrue
  <2>6. QED
    BY <2>4, <2>5 DEF CallTrue
<1>12. \A k \in DOMAIN calls' : CallTrue(calls[k])'
  <2>1. \A k \in DOMAIN calls : CallTrue(calls[k]) /\ calls[k] \in Calls
    BY LenProperties, ElementOfSeq DEF TabIInv, TabTypes
  <2>2. ASSUME NEW k \in DOMAIN calls' PROVE CallTrue(calls[k])'
    <3>1. CASE calls'[k] = d
      BY <1>11, <3>1
    <3>2. CASE k \in DOMAIN calls /\ calls'[k] = calls[k]
      <4>1. CallTrue(calls[k]) /\ calls[k] \in Calls
        BY <2>1, <3>2
      <4>2. QED
        BY <1>10, <3>2, <4>1
    <3>3. QED
      BY <1>5, <3>1, <3>2
  <2>3. QED
    BY <2>2
<1>13. ASSUME ~crossed PROVE CallMine(d, Page)
  <2>1. w # NoId /\ d.step \notin {"refresh", "renew", "send"}
    BY <1>1, <1>2, <1>3 DEF Boots, NoId, WorkspaceId
  <2>2. CallMine(c, Page)
    BY <1>1, <1>13
  <2>3. c.ws = Page.workspace_id \/ Page.workspace_id = NoId
    BY <1>1, <2>2 DEF CallMine
  <2>4. QED
    BY <1>1, <1>3, <2>1, <2>2, <2>3 DEF CallMine
<1>14. ASSUME ~crossed PROVE \A k \in DOMAIN calls' : CallMine(calls[k], Page)'
  <2>1. \A k \in DOMAIN calls' : CallMine(calls'[k], Page)
    BY <1>5, <1>13, <1>14 DEF TabIInv
  <2>2. Page' = Page
    BY DEF Page, authVars, viewVars
  <2>3. QED
    BY <2>1, <2>2 DEF CallMine
<1>15. ~crossed => \A x \in WorkspaceId : owner'[x] # Nobody
  BY <1>1, <1>7 DEF TabIInv, CallMine
<1>16. /\ Held(workspace_id) /\ Held(applied) /\ workspace_id \in Id /\ applied \in Id
       /\ Page.applied = applied /\ Page.token = token /\ Page.cookie = cookie
  BY DEF TabIInv, TabTypes, PageTrue, Page, Pages
<1>17. Held(workspace_id)' /\ Held(applied)'
  BY <1>2, <1>8, <1>7, <1>16 DEF Held, Id
<1>18. ~crossed => PageMine(Page)'
  <2>1. applied # NoId => owner'[applied] = owner[applied]
    BY <1>9, <1>16 DEF Held, Id
  <2>2. QED
    BY <1>1, <1>16, <2>1 DEF PageMine, Page, authVars
<1>19. PageTrue(Page)' /\ (Page \in Pages)' /\ KeptNow
  BY <1>17, PageStays DEF PageTrue, Page, KeptNow
<1>20. TabTypes'
  BY <1>5, <1>7, <1>19 DEF TabTypes, TabIInv
<1>21. \A x \in alive' : owner'[x] # "none"
  BY <1>1, <1>2, <1>6, <1>7, <1>8 DEF TabIInv
<1>22. QED
  BY <1>12, <1>14, <1>15, <1>18, <1>19, <1>20, <1>21 DEF TabIInv

\* The least of the workspaces that do not exist is one of them.
Below == {ss \in Nat \X Nat : ss[1] < ss[2]}

LEMMA BelowIsWellFounded == IsWellFoundedOn(Below, Nat)
  BY NatLessThanWellFounded DEF OpToRel, Below

LEMMA LeastNew ==
  ASSUME New # {}
  PROVE  (CHOOSE w \in New : \A x \in New : w <= x) \in New
<1>1. New \subseteq Nat /\ New # {}
  BY SessionAssumption DEF New, WorkspaceId
<1> HIDE DEF New, Below
<1>2. \E x \in New : \A y \in New : ~(<<y, x>> \in Below)
  BY <1>1, WFMin, BelowIsWellFounded, Zenon
<1>3. \E x \in New : \A y \in New : x <= y
  <2>1. ASSUME NEW x \in Nat, NEW y \in Nat, y < x PROVE <<y, x>> \in Below
    BY <2>1 DEF Below
  <2>2. PICK x \in New : \A y \in New : ~(<<y, x>> \in Below)
    BY <1>2
  <2>3. ASSUME NEW y \in New PROVE x <= y
    <3>1. x \in Nat /\ y \in Nat /\ ~(<<y, x>> \in Below)
      BY <1>1, <2>2
    <3>2. ~(y < x)
      BY <2>1, <3>1
    <3>3. QED
      BY <3>1, <3>2
  <2>4. QED
    BY <2>3
<1>4. QED
  BY <1>3

LEMMA ServeRequestTrue ==
  ASSUME TabIInv, NEW i \in DOMAIN calls, ServeRequest(i)
  PROVE  TabIInv' /\ KeptNow
<1> DEFINE c == calls[i]
           D(answer) == [c EXCEPT !.answer = answer]
           Rest == UNCHANGED <<authVars, workspace_id, applied, viewVars, begun, crossed>>
<1>1. /\ c \in Calls /\ CallTrue(c) /\ StepOfKind(c)
      /\ Page.token = token /\ Page.workspace_id = workspace_id /\ Page.cookie = cookie
      /\ ~crossed => CallMine(c, Page) /\ PageMine(Page)
      /\ cookie \in Account
  BY Now DEF CallTrue, TabIInv, TabTypes, Pages
<1>2. /\ c.answer = "awaited" /\ faults' = faults /\ Rest
      /\ faults' \in 0..MaxFaults
  BY DEF ServeRequest, TabIInv, TabTypes
<1>3. ASSUME NEW answer \in {"ok", "failed", "expired", "auth"}
      PROVE  /\ D(answer) \in Calls /\ D(answer).answer = answer /\ D(answer).kind = c.kind
             /\ D(answer).step = c.step /\ D(answer).user = c.user /\ D(answer).ws = c.ws
             /\ D(answer).view = c.view
  BY <1>1 DEF Calls
\* What has to hold of an answer for the call to stay as the invariant says.
<1>4. ASSUME NEW answer \in {"ok", "failed", "expired", "auth"},
             [calls EXCEPT ![i].answer = answer] = calls',
             AnswerTrue(D(answer)), c.step \notin {"refresh", "renew"},
             owner' = owner, alive' \subseteq alive
      PROVE  TabIInv' /\ KeptNow
  <2>1. PICK d : d = D(answer)
    OBVIOUS
  <2>2. calls' = [calls EXCEPT ![i] = d]
    BY <1>4, <2>1
  <2>3. /\ d \in Calls /\ d.answer = answer /\ d.kind = c.kind /\ d.step = c.step
        /\ d.user = c.user /\ d.ws = c.ws /\ d.view = c.view /\ AnswerTrue(d)
    BY <1>3, <1>4, <2>1
  <2>4. CallTrue(d)
    BY <1>1, <2>3 DEF CallTrue, Held, StepOfKind
  <2>5. ~crossed => CallMine(d, Page)
    BY <1>1, <1>2, <1>4, <2>3 DEF CallMine
  <2> HIDE DEF c, D
  <2>6. QED
    BY <1>2, <1>4, <2>2, <2>3, <2>4, <2>5, QuietAnswer
<1>5. CASE /\ c.step \in Boots /\ c.ws = NoId /\ New # {}
           /\ LET w == CHOOSE w \in New : \A x \in New : w <= x IN
              /\ owner' = [owner EXCEPT ![w] = c.user]
              /\ alive' = alive \cup {w}
              /\ calls' = [calls EXCEPT ![i].answer = "ok", ![i].ws = w]
  <2>1. PICK w : w = CHOOSE v \in New : \A x \in New : v <= x
    OBVIOUS
  <2>2. w \in New
    BY <1>5, <2>1, LeastNew
  <2>3. /\ owner' = [owner EXCEPT ![w] = c.user] /\ alive' = alive \cup {w}
        /\ calls' = [calls EXCEPT ![i].answer = "ok", ![i].ws = w]
    BY <1>5, <2>1
  <2>4. UNCHANGED <<authVars, workspace_id, applied, viewVars, begun, faults, crossed>>
    BY <1>2
  <2>5. QED
    BY <1>5, <2>2, <2>3, <2>4, CreateWorkspace
<1>6. CASE /\ c.step \in Boots /\ c.ws # NoId
           /\ calls' = [calls EXCEPT ![i].answer = IF Accepts(c) THEN "ok" ELSE "expired"]
           /\ UNCHANGED serverVars
  <2> DEFINE a == IF Accepts(c) THEN "ok" ELSE "expired"
  <2>1. a \in {"ok", "failed", "expired", "auth"}
    OBVIOUS
  <2>2. AnswerTrue(D(a))
    BY <1>3, <1>6, <2>1 DEF AnswerTrue, Accepts, Live, Boots
  <2>3. QED
    BY <1>4, <1>6, <2>1, <2>2 DEF serverVars, Boots
<1>7. CASE /\ c.step = "boot"
           /\ calls' = [calls EXCEPT ![i].answer = "auth"]
           /\ UNCHANGED serverVars
  <2>1. AnswerTrue(D("auth"))
    BY <1>3, <1>7 DEF AnswerTrue
  <2>2. QED
    BY <1>4, <1>7, <2>1 DEF serverVars
<1>8. CASE /\ c.step = "send"
           /\ calls' = [calls EXCEPT ![i].answer =
                            IF c.user = Nobody THEN "failed"
                            ELSE IF Accepts(c) THEN "ok" ELSE "expired"]
           /\ UNCHANGED serverVars
  <2> DEFINE a == IF c.user = Nobody THEN "failed"
                  ELSE IF Accepts(c) THEN "ok" ELSE "expired"
  <2>1. a \in {"ok", "failed", "expired", "auth"}
    OBVIOUS
  <2>2. AnswerTrue(D(a))
    BY <1>3, <1>8, <2>1 DEF AnswerTrue, Boots
  <2>3. QED
    BY <1>4, <1>8, <2>1, <2>2 DEF serverVars
<1>9. CASE /\ c.step \in {"refresh", "renew"}
           /\ calls' = [calls EXCEPT
                 ![i].answer = IF cookie = Nobody THEN "auth" ELSE "ok",
                 ![i].user = IF cookie = Nobody THEN c.user ELSE cookie]
           /\ UNCHANGED serverVars
  <2>1. PICK d : d = [c EXCEPT !.answer = IF cookie = Nobody THEN "auth" ELSE "ok",
                               !.user = IF cookie = Nobody THEN c.user ELSE cookie]
    OBVIOUS
  <2>2. calls' = [calls EXCEPT ![i] = d]
    BY <1>1, <1>9, <2>1 DEF Calls
  <2>3. /\ d \in Calls /\ d.kind = c.kind /\ d.step = c.step /\ d.ws = c.ws /\ d.view = c.view
        /\ d.answer = "ok" => d.user = cookie /\ cookie # Nobody
    BY <1>1, <2>1 DEF Calls
  <2>4. c.step \notin Boots \cup {"login", "send"}
    BY <1>9 DEF Boots
  <2>5. CallTrue(d)
    BY <1>1, <1>9, <2>3, <2>4 DEF CallTrue, Held, StepOfKind, AnswerTrue
  <2>6. ~crossed => CallMine(d, Page)
    BY <1>1, <1>2, <2>3, <2>4 DEF CallMine, PageMine
  <2> HIDE DEF c
  <2>7. QED
    BY <1>2, <1>9, <2>2, <2>3, <2>5, <2>6, QuietAnswer DEF serverVars
<1>10. CASE /\ c.step \in {"login", "me", "loaded", "logout"}
            /\ calls' = [calls EXCEPT ![i].answer = "ok"]
            /\ owner' = owner /\ alive' \subseteq alive
  <2>1. AnswerTrue(D("ok"))
    BY <1>1, <1>3, <1>10 DEF CallTrue, AnswerTrue, Boots
  <2>2. QED
    BY <1>4, <1>10, <2>1
<1> HIDE DEF c
<1>11. QED
  BY <1>5, <1>6, <1>7, <1>8, <1>9, <1>10 DEF ServeRequest, serverVars, c

LEMMA RequestFailsTrue ==
  ASSUME TabIInv, NEW i \in DOMAIN calls, RequestFails(i)
  PROVE  TabIInv' /\ KeptNow
<1> DEFINE c == calls[i]
<1>1. c \in Calls /\ CallTrue(c) /\ (~crossed => CallMine(c, Page))
  BY Now
<1>2. PICK d : d = [c EXCEPT !.answer = "failed"]
  OBVIOUS
<1>3. /\ d \in Calls /\ d.answer = "failed" /\ d.kind = c.kind /\ d.step = c.step
      /\ d.user = c.user /\ d.ws = c.ws /\ d.view = c.view
  BY <1>1, <1>2 DEF Calls
<1>4. calls' = [calls EXCEPT ![i] = d]
  BY <1>2 DEF RequestFails
<1>5. /\ c.answer = "awaited" /\ owner' = owner /\ alive' \subseteq alive
      /\ UNCHANGED <<authVars, workspace_id, applied, viewVars, begun, crossed>>
      /\ faults' \in 0..MaxFaults
  BY SessionAssumption DEF RequestFails, Fault, serverVars, TabIInv, TabTypes
<1>6. CallTrue(d)
  BY <1>1, <1>3 DEF CallTrue, Held, StepOfKind, AnswerTrue
<1>7. ~crossed => CallMine(d, Page)
  BY <1>1, <1>3, <1>5 DEF CallMine
<1> HIDE DEF c
<1>8. QED
  BY <1>3, <1>4, <1>5, <1>6, <1>7, QuietAnswer

LEMMA NextTabIInv == TabIInv /\ [TabNext]_tabVars => TabIInv' /\ KeptNow
<1> SUFFICES ASSUME TabIInv, [TabNext]_tabVars PROVE TabIInv' /\ KeptNow
  OBVIOUS
<1>1. CASE ~crossed /\ UserActs
  BY <1>1, UserActsTrue
<1>2. CASE \/ TokenAges \/ CookieExpires \/ \E w \in WorkspaceId : WorkspaceExpires(w)
           \/ HandledOver
  BY <1>2, TimeTrue
<1>3. ASSUME NEW i \in DOMAIN calls, Serve(i) PROVE TabIInv' /\ KeptNow
  BY <1>3, ServeRequestTrue, RequestFailsTrue DEF Serve
<1>4. ASSUME NEW i \in DOMAIN calls, Answer(i) PROVE TabIInv' /\ KeptNow
  BY <1>4, AnswerAllowed
<1>5. CASE UNCHANGED tabVars
  <2>1. /\ begun' = begun /\ faults' = faults /\ crossed' = crossed /\ calls' = calls
        /\ owner' = owner /\ alive' = alive
        /\ UNCHANGED <<authVars, workspace_id, applied, viewVars>>
    BY <1>5 DEF tabVars, serverVars
  <2>2. /\ begun' \in 0..MaxBegun /\ faults' \in 0..MaxFaults /\ calls' \in Seq(Calls)
    BY <2>1 DEF TabIInv, TabTypes
  <2>3. QED
    BY <2>1, <2>2, PageStays, QuietStep
<1>6. QED
  BY <1>1, <1>2, <1>3, <1>4, <1>5 DEF TabNext

\* Every page and every call of the tab is well-typed, and no more calls begin
\* and fail than the bounds say.
THEOREM TabTypesCorrect == TabSpec => []TabTypes
<1>1. TabIInv => TabTypes
  BY DEF TabIInv
<1>2. QED
  BY InitTabIInv, NextTabIInv, <1>1, PTL DEF TabSpec

\* When nothing is under way and no session has crossed a call, what the page
\* shows is the workspace it names, and its user's own.
THEOREM PageIsOwn == TabSpec => []OwnWorkspace
<1>1. TabIInv => OwnWorkspace
  BY DEF TabIInv, OwnWorkspace, Quiet, PageMine, Page
<1>2. QED
  BY InitTabIInv, NextTabIInv, <1>1, PTL DEF TabSpec

\* No view stays displayed beside another one.
THEOREM ViewsHidden == TabSpec => []OthersHidden
<1>1. TabIInv => OthersHidden
  BY DEF TabIInv, PageTrue, Display, OthersHidden, Visible, Row, Page
<1>2. QED
  BY InitTabIInv, NextTabIInv, <1>1, PTL DEF TabSpec

\* A tab lets go of a live workspace of its user only with that user.
THEOREM LiveWorkspaceKept == TabSpec => KeepsLiveWorkspace
<1>1. TabIInv /\ [TabNext]_tabVars =>
        [(/\ workspace_id \in alive /\ owner[workspace_id] = token
          /\ token' = token /\ ~crossed')
         => workspace_id' = workspace_id]_tabVars
  BY NextTabIInv DEF KeptNow
<1>2. QED
  BY InitTabIInv, NextTabIInv, <1>1, PTL DEF TabSpec, KeepsLiveWorkspace

=============================================================================

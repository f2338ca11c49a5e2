---------------------- MODULE DeviceConnections_proofs ----------------------
(***************************************************************************)
(* Proofs about DeviceConnections, for any number of connections: a device *)
(* has one user, and a disconnect, although it stops every recording of    *)
(* the device, meets none but its own.  The argument is about the order of *)
(* the requests for recording_sessions_lock.  And no stopped stream stays. *)
(***************************************************************************)
EXTENDS DeviceConnections, SequenceTheorems, TLAPS

\* A coroutine at one of these awaits has asked for recording_sessions_lock.
LockLabel == {"starting_recording", "stopping_recording", "releasing", "joining"}
Leaving(c) == pc[c] \in {"releasing", "joining"}
Queued(x) == \E i \in DOMAIN lockq : lockq[i] = x
Before(c, d) == \A i, j \in DOMAIN lockq : lockq[i] = c /\ lockq[j] = d => i < j

QueueIsSet == \A i, j \in DOMAIN lockq : lockq[i] = lockq[j] => i = j
QueueMatchesPc == \A c \in Connection : Queued(c) <=> pc[c] \in LockLabel
JoiningHasLock == \A c \in Connection : pc[c] = "joining" => HasLock(c)

\* Who leaves has asked for the lock before the device's next user could.
LeaversFirst == \A c, d \in Connection : Leaving(c) /\ Using(d) => Before(c, d)

\* A recording's connection serves it or leaves, and leaves before others do.
SessionOwner == \A c \in sessions : pc[c] \in LockLabel \cup {"serving"}
SessionBeforeLeavers ==
    \A c \in sessions : \A d \in Connection :
        d # c /\ Leaving(d) => Leaving(c) /\ Before(c, d)
OneSession == \A c, d \in sessions : c = d

QInv ==
    /\ QueueIsSet /\ QueueMatchesPc /\ JoiningHasLock
    /\ LeaversFirst
    /\ SessionOwner /\ SessionBeforeLeavers /\ OneSession
    /\ StopsOwnRecording

IInv == TypeOK /\ OneUser /\ QInv

LEMMA InitIInv == Init => IInv
<1> SUFFICES ASSUME Init PROVE IInv
  OBVIOUS
<1> USE ConnectionAssumption DEF Init
<1>1. TypeOK
  BY DEF TypeOK, Label
<1>2. OneUser
  BY DEF OneUser, Using
<1>3. QInv
  BY DEF QInv, QueueIsSet, QueueMatchesPc, Queued, LockLabel, JoiningHasLock, LeaversFirst,
         Leaving, SessionOwner, SessionBeforeLeavers, OneSession, StopsOwnRecording
<1>4. QED
  BY <1>1, <1>2, <1>3 DEF IInv

(***************************************************************************)
(* Types, and the one user of the device.                                  *)
(***************************************************************************)
LEMMA NextTypeOK == TypeOK /\ JoiningHasLock /\ [Next]_vars => TypeOK'
<1> SUFFICES ASSUME TypeOK, JoiningHasLock, [Next]_vars
             PROVE  TypeOK'
  OBVIOUS
<1> USE ConnectionAssumption DEF TypeOK, deviceVars, streamVars, recordVars
<1>1. CASE UNCHANGED vars
  BY <1>1 DEF vars
<1>2. ASSUME NEW c \in Connection,
             \/ Accept(c) \/ Refused(c) \/ Admitted(c) \/ StreamStarts(c) \/ StreamFails(c)
      PROVE  TypeOK'
  <2>1. CASE Accept(c) \/ Refused(c)
    BY <2>1 DEF Accept, Refused, Goto, Label
  <2>2. CASE Admitted(c)
    <3>1. pc' \in [Connection -> Label]
      BY <2>2 DEF Admitted, Goto, Label
    <3>2. connections' \subseteq Connection
      BY <2>2 DEF Admitted
    <3>3. QED
      BY <2>2, <3>1, <3>2 DEF Admitted
  <2>3. CASE StreamStarts(c) \/ StreamFails(c)
    BY <2>3 DEF StreamStarts, StreamFails, Goto, Label, ReleaseDevice
  <2>4. QED
    BY <1>2, <2>1, <2>2, <2>3
<1>3. ASSUME NEW c \in Connection, RequestRecording(c) \/ RequestStop(c) \/ Disconnect(c)
      PROVE  TypeOK'
  BY <1>3 DEF RequestRecording, RequestStop, Disconnect, Request, Goto, Label, ReleaseDevice
<1>4. ASSUME NEW c \in Connection, StartRecording(c) \/ StopRecording(c) \/ SessionsStopped(c)
      PROVE  TypeOK'
  <2>1. CASE StartRecording(c) \/ StopRecording(c)
    <3>1. lockq' \in Seq(Connection \cup {Other})
      BY <2>1 DEF StartRecording, StopRecording, HasLock, Unlock
    <3>2. pc' \in [Connection -> Label]
      BY <2>1 DEF StartRecording, StopRecording, Goto, Label
    <3>3. sessions' \subseteq Connection /\ alive' \subseteq sessions'
      BY <2>1 DEF StartRecording, StopRecording
    <3>4. QED
      BY <2>1, <3>1, <3>2, <3>3 DEF StartRecording, StopRecording
  <2>2. CASE SessionsStopped(c)
    <3>1. lockq # <<>>
      BY <2>2 DEF SessionsStopped, JoiningHasLock, HasLock
    <3>2. QED
      BY <2>2, <3>1 DEF SessionsStopped, Unlock, Goto, Label
  <2>3. QED
    BY <1>4, <2>1, <2>2
<1>5. ASSUME NEW c \in Connection, StopDeviceSessions(c) \/ StreamStopped(c)
      PROVE  TypeOK'
  BY <1>5 DEF StopDeviceSessions, StreamStopped, Goto, Label
<1>6. ASSUME NEW c \in Connection, RemoveConnection(c) \/ BroadcastDrops(c)
      PROVE  TypeOK'
  BY <1>6 DEF RemoveConnection, BroadcastDrops, Goto, Label
<1>7. CASE SessionReleased \/ ThreadDies \/ OtherLocks
  BY <1>7 DEF SessionReleased, ThreadDies, OtherLocks, Request
<1>8. CASE OtherUnlocks \/ CleanupDeadSessions
  BY <1>8 DEF OtherUnlocks, CleanupDeadSessions, HasLock, Unlock
<1>9. QED
  BY <1>1, <1>2, <1>3, <1>4, <1>5, <1>6, <1>7, <1>8 DEF Next, Progress

LEMMA NextOneUser == TypeOK /\ OneUser /\ [Next]_vars => OneUser'
<1> SUFFICES ASSUME TypeOK, OneUser, [Next]_vars
             PROVE  OneUser'
  OBVIOUS
<1> USE ConnectionAssumption
    DEF TypeOK, OneUser, Using, Goto, deviceVars, streamVars, recordVars
<1>1. CASE UNCHANGED vars
  BY <1>1 DEF vars
<1>2. ASSUME NEW c \in Connection,
             Accept(c) \/ Refused(c) \/ Admitted(c) \/ StreamStarts(c)
      PROVE  OneUser'
  BY <1>2 DEF Accept, Refused, Admitted, StreamStarts
<1>3. ASSUME NEW c \in Connection, StreamFails(c) \/ Disconnect(c)
      PROVE  OneUser'
  BY <1>3 DEF StreamFails, Disconnect, ReleaseDevice
<1>4. ASSUME NEW c \in Connection,
             RequestRecording(c) \/ RequestStop(c) \/ StartRecording(c) \/ StopRecording(c)
      PROVE  OneUser'
  BY <1>4 DEF RequestRecording, RequestStop, StartRecording, StopRecording
<1>5. ASSUME NEW c \in Connection,
             \/ StopDeviceSessions(c) \/ SessionsStopped(c) \/ RemoveConnection(c)
             \/ StreamStopped(c) \/ BroadcastDrops(c)
      PROVE  OneUser'
  BY <1>5 DEF StopDeviceSessions, SessionsStopped, RemoveConnection, StreamStopped, BroadcastDrops
<1>6. CASE SessionReleased \/ ThreadDies \/ OtherLocks \/ OtherUnlocks \/ CleanupDeadSessions
  BY <1>6 DEF SessionReleased, ThreadDies, OtherLocks, OtherUnlocks, CleanupDeadSessions
<1>7. QED
  BY <1>1, <1>2, <1>3, <1>4, <1>5, <1>6 DEF Next, Progress

(***************************************************************************)
(* The queue of the lock: what a release and a request do to its order.    *)
(***************************************************************************)
LEMMA TailQueue ==
  ASSUME TypeOK, QueueIsSet, lockq # <<>>, lockq' = Tail(lockq)
  PROVE  /\ QueueIsSet'
         /\ \A x : Queued(x)' <=> Queued(x) /\ x # Head(lockq)
         /\ \A x, y : Before(x, y) => Before(x, y)'
<1> USE DEF TypeOK
<1>1. /\ Len(lockq) \in Nat \ {0} /\ Len(lockq') = Len(lockq) - 1
      /\ Head(lockq) = lockq[1]
      /\ DOMAIN lockq = 1..Len(lockq) /\ DOMAIN lockq' = 1..(Len(lockq) - 1)
      /\ \A i \in 1..(Len(lockq) - 1) : lockq'[i] = lockq[i + 1]
  OBVIOUS
<1>2. QueueIsSet'
  <2> SUFFICES ASSUME NEW i \in DOMAIN lockq', NEW j \in DOMAIN lockq', lockq'[i] = lockq'[j]
               PROVE  i = j
    BY DEF QueueIsSet
  <2>1. i + 1 \in DOMAIN lockq /\ j + 1 \in DOMAIN lockq /\ lockq[i + 1] = lockq[j + 1]
    BY <1>1
  <2>2. QED
    BY <1>1, <2>1 DEF QueueIsSet
<1>3. ASSUME NEW x PROVE Queued(x)' <=> Queued(x) /\ x # Head(lockq)
  <2>1. ASSUME Queued(x)' PROVE Queued(x) /\ x # Head(lockq)
    <3>1. PICK i \in DOMAIN lockq' : lockq'[i] = x
      BY <2>1 DEF Queued
    <3>2. i + 1 \in DOMAIN lockq /\ lockq[i + 1] = x /\ 1 \in DOMAIN lockq /\ i + 1 # 1
      BY <1>1, <3>1
    <3>3. QED
      BY <1>1, <3>2 DEF Queued, QueueIsSet
  <2>2. ASSUME Queued(x), x # Head(lockq) PROVE Queued(x)'
    <3>1. PICK i \in DOMAIN lockq : lockq[i] = x
      BY <2>2 DEF Queued
    <3>2. i - 1 \in DOMAIN lockq' /\ lockq'[i - 1] = lockq[(i - 1) + 1] /\ (i - 1) + 1 = i
      BY <1>1, <2>2, <3>1
    <3>3. QED
      BY <3>1, <3>2 DEF Queued
  <2>3. QED
    BY <2>1, <2>2
<1>4. ASSUME NEW x, NEW y, Before(x, y) PROVE Before(x, y)'
  <2> SUFFICES ASSUME NEW i \in DOMAIN lockq', NEW j \in DOMAIN lockq',
                      lockq'[i] = x, lockq'[j] = y
               PROVE  i < j
    BY DEF Before
  <2>1. i + 1 \in DOMAIN lockq /\ j + 1 \in DOMAIN lockq /\ lockq[i + 1] = x /\ lockq[j + 1] = y
    BY <1>1
  <2>2. i + 1 < j + 1
    BY <1>4, <2>1 DEF Before
  <2>3. QED
    BY <1>1, <2>2
<1>5. QED
  BY <1>2, <1>3, <1>4

LEMMA AppendQueue ==
  ASSUME TypeOK, QueueIsSet,
         NEW z \in Connection \cup {Other}, ~Queued(z), lockq' = Append(lockq, z)
  PROVE  /\ QueueIsSet'
         /\ \A x : Queued(x)' <=> Queued(x) \/ x = z
         /\ \A x, y : Before(x, y) /\ x # z => Before(x, y)'
         /\ \A x : x # z => Before(x, z)'
         /\ \A x : HasLock(x) => HasLock(x)'
<1> USE DEF TypeOK
<1>1. /\ Len(lockq) \in Nat /\ Len(lockq') = Len(lockq) + 1
      /\ DOMAIN lockq = 1..Len(lockq) /\ DOMAIN lockq' = 1..(Len(lockq) + 1)
      /\ lockq'[Len(lockq) + 1] = z
      /\ \A i \in 1..Len(lockq) : lockq'[i] = lockq[i]
  OBVIOUS
<1>2. \A i \in DOMAIN lockq : lockq[i] # z
  BY DEF Queued
<1>3. \A i \in DOMAIN lockq' : i \in DOMAIN lockq \/ i = Len(lockq) + 1
  BY <1>1
<1>4. QueueIsSet'
  BY <1>1, <1>2, <1>3 DEF QueueIsSet
<1>5. ASSUME NEW x PROVE Queued(x)' <=> Queued(x) \/ x = z
  BY <1>1, <1>3 DEF Queued
<1>6. ASSUME NEW x, NEW y, Before(x, y), x # z PROVE Before(x, y)'
  BY <1>1, <1>3, <1>6 DEF Before
<1>7. ASSUME NEW x, x # z PROVE Before(x, z)'
  <2> SUFFICES ASSUME NEW i \in DOMAIN lockq', NEW j \in DOMAIN lockq',
                      lockq'[i] = x, lockq'[j] = z
               PROVE  i < j
    BY DEF Before
  <2>1. i \in 1..Len(lockq) /\ j = Len(lockq) + 1
    BY <1>1, <1>2, <1>3, <1>7
  <2>2. QED
    BY <1>1, <2>1
<1>8. ASSUME NEW x, HasLock(x) PROVE HasLock(x)'
  <2>1. lockq # <<>> /\ Head(lockq) = x
    BY <1>8 DEF HasLock
  <2>2. lockq' # <<>> /\ Head(lockq') = Head(lockq)
    BY <2>1
  <2>3. QED
    BY <2>1, <2>2 DEF HasLock
<1>9. QED
  BY <1>4, <1>5, <1>6, <1>7, <1>8

\* Nobody is before the holder of the lock.
LEMMA HeadFirst ==
  ASSUME TypeOK, NEW h, HasLock(h), NEW x, Before(x, h)
  PROVE  ~Queued(x)
<1>1. 1 \in DOMAIN lockq /\ lockq[1] = h
  BY DEF TypeOK, HasLock
<1>2. \A i \in DOMAIN lockq : ~(i < 1)
  BY DEF TypeOK
<1>3. QED
  BY <1>1, <1>2 DEF Before, Queued

(***************************************************************************)
(* The steps that leave lockq alone.                                       *)
(***************************************************************************)
\* No step of the recordings: pc, lockq and sessions stay.
LEMMA SameQInv ==
  ASSUME QInv, UNCHANGED <<pc, lockq, sessions>>
  PROVE  QInv'
BY DEF QInv, QueueIsSet, QueueMatchesPc, Queued, LockLabel, JoiningHasLock, HasLock, LeaversFirst,
       Leaving, Using, Before, SessionOwner, SessionBeforeLeavers, OneSession, StopsOwnRecording

\* A connection that neither records nor waits for the lock moves on.
LEMMA QuietQInv ==
  ASSUME IInv, NEW c \in Connection, NEW label \in Label \ LockLabel,
         pc[c] \notin LockLabel \cup {"serving"},
         Goto(c, label), UNCHANGED <<lockq, sessions>>
  PROVE  QInv'
<1> USE DEF IInv, QInv
<1>1. /\ pc'[c] = label /\ pc'[c] \notin LockLabel
      /\ \A d \in Connection : d # c => pc'[d] = pc[d]
      /\ ~Queued(c) /\ c \notin sessions
  BY DEF Goto, TypeOK, QueueMatchesPc, SessionOwner
<1>2. /\ \A x : Queued(x)' <=> Queued(x)
      /\ \A x : HasLock(x)' <=> HasLock(x)
      /\ \A x, y : Before(x, y)' <=> Before(x, y)
  BY DEF Queued, HasLock, Before
<1>3. \A d \in Connection : Leaving(d)' => Leaving(d) /\ d # c
  BY <1>1 DEF Leaving, LockLabel
<1>4. \A d \in sessions : d # c /\ d \in Connection
  BY <1>1 DEF TypeOK
<1>5. QueueIsSet' /\ OneSession'
  BY DEF QueueIsSet, OneSession
<1>6. QueueMatchesPc'
  BY <1>1, <1>2 DEF QueueMatchesPc
<1>7. JoiningHasLock' /\ StopsOwnRecording'
  BY <1>1, <1>2 DEF JoiningHasLock, StopsOwnRecording, LockLabel
<1>8. LeaversFirst'
  <2> SUFFICES ASSUME NEW d \in Connection, NEW e \in Connection, Leaving(d)', Using(e)'
               PROVE  Before(d, e)'
    BY DEF LeaversFirst
  <2>1. CASE e = c
    BY <1>1, <1>2, <2>1 DEF Before, Queued
  <2>2. CASE e # c
    BY <1>1, <1>2, <1>3, <2>2 DEF LeaversFirst, Using
  <2>3. QED
    BY <2>1, <2>2
<1>9. SessionOwner'
  BY <1>1, <1>4 DEF SessionOwner
<1>10. SessionBeforeLeavers'
  BY <1>1, <1>2, <1>3, <1>4 DEF SessionBeforeLeavers, Leaving
<1>11. QED
  BY <1>5, <1>6, <1>7, <1>8, <1>9, <1>10

\* The holder of the lock finds sessions of its own, or none: whoever left
\* before it has had the lock before it.
LEMMA HolderAlone ==
  ASSUME IInv, NEW c \in Connection, HasLock(c), Using(c) \/ Leaving(c)
  PROVE  /\ sessions \subseteq {c}
         /\ Using(c) => \A d \in Connection : ~Leaving(d)
<1> USE DEF IInv, QInv
<1>1. ASSUME NEW d \in Connection, Leaving(d) PROVE Queued(d)
  BY <1>1 DEF Leaving, QueueMatchesPc, LockLabel
<1>2. ASSUME Using(c), NEW d \in Connection, Leaving(d) PROVE FALSE
  BY <1>1, <1>2, HeadFirst DEF LeaversFirst
<1>3. ASSUME NEW d \in sessions, d # c PROVE FALSE
  <2>1. d \in Connection
    BY DEF TypeOK
  <2>2. Using(d) \/ Leaving(d)
    BY <2>1 DEF SessionOwner, LockLabel, Using, Leaving
  <2>3. CASE Leaving(c)
    BY <1>1, <1>3, <2>1, <2>3, HeadFirst DEF SessionBeforeLeavers
  <2>4. CASE Using(c)
    BY <1>2, <1>3, <2>1, <2>2, <2>4, ConnectionAssumption DEF OneUser
  <2>5. QED
    BY <2>3, <2>4
<1>4. QED
  BY <1>2, <1>3

LEMMA StopDeviceSessionsQInv ==
  ASSUME IInv, NEW c \in Connection, StopDeviceSessions(c)
  PROVE  QInv'
<1> USE DEF IInv, QInv
<1>1. /\ pc[c] = "releasing" /\ pc'[c] = "joining" /\ HasLock(c)
      /\ \A d \in Connection : d # c => pc'[d] = pc[d]
      /\ UNCHANGED <<sessions, lockq>> /\ sessions # {}
  BY DEF StopDeviceSessions, Goto, TypeOK, recordVars
<1>2. /\ \A x : Queued(x)' <=> Queued(x)
      /\ \A x : HasLock(x)' <=> HasLock(x)
      /\ \A x, y : Before(x, y)' <=> Before(x, y)
  BY <1>1 DEF Queued, HasLock, Before
<1>3. /\ \A d \in Connection : Leaving(d)' <=> Leaving(d)
      /\ \A d \in Connection : Using(d)' <=> Using(d)
  BY <1>1 DEF Leaving, Using
<1>4. sessions = {c}
  BY <1>1, HolderAlone DEF Leaving
<1>5. QueueIsSet' /\ OneSession'
  BY <1>1 DEF QueueIsSet, OneSession
<1>6. QueueMatchesPc'
  BY <1>1, <1>2 DEF QueueMatchesPc, LockLabel
<1>7. JoiningHasLock' /\ StopsOwnRecording'
  BY <1>1, <1>2, <1>4 DEF JoiningHasLock, StopsOwnRecording
<1>8. LeaversFirst'
  BY <1>2, <1>3 DEF LeaversFirst
<1>9. SessionOwner'
  BY <1>1, <1>4 DEF SessionOwner, LockLabel
<1>10. SessionBeforeLeavers'
  BY <1>1, <1>2, <1>3, <1>4 DEF SessionBeforeLeavers
<1>11. QED
  BY <1>5, <1>6, <1>7, <1>8, <1>9, <1>10

(***************************************************************************)
(* The requests for the lock.                                              *)
(***************************************************************************)
LEMMA RequestQInv ==
  ASSUME IInv, NEW c \in Connection, RequestRecording(c) \/ RequestStop(c) \/ Disconnect(c)
  PROVE  QInv'
<1> USE DEF IInv, QInv
<1>1. /\ pc[c] = "serving" /\ pc'[c] \in LockLabel \ {"joining"}
      /\ \A d \in Connection : d # c => pc'[d] = pc[d]
      /\ UNCHANGED sessions /\ lockq' = Append(lockq, c)
  BY DEF RequestRecording, RequestStop, Disconnect, Goto, Request, TypeOK, LockLabel, recordVars
<1>2. ~Queued(c)
  BY <1>1 DEF QueueMatchesPc, LockLabel
<1>3. /\ QueueIsSet'
      /\ \A x : Queued(x)' <=> Queued(x) \/ x = c
      /\ \A x, y : Before(x, y) /\ x # c => Before(x, y)'
      /\ \A x : x # c => Before(x, c)'
      /\ \A x : HasLock(x) => HasLock(x)'
  BY <1>1, <1>2, AppendQueue
<1>4. Using(c) /\ ~Leaving(c)
  BY <1>1 DEF Using, Leaving
<1>5. ASSUME NEW d \in Connection, d # c
      PROVE  ~Using(d) /\ ~Using(d)' /\ (Leaving(d)' <=> Leaving(d))
  BY <1>1, <1>4, <1>5 DEF OneUser, Using, Leaving
<1>6. QueueMatchesPc'
  BY <1>1, <1>3 DEF QueueMatchesPc
<1>7. JoiningHasLock' /\ StopsOwnRecording'
  BY <1>1, <1>3 DEF JoiningHasLock, StopsOwnRecording
<1>8. LeaversFirst'
  <2> SUFFICES ASSUME NEW d \in Connection, NEW e \in Connection, Leaving(d)', Using(e)'
               PROVE  Before(d, e)'
    BY DEF LeaversFirst
  <2>1. e = c /\ d # c
    BY <1>5 DEF Leaving, Using
  <2>2. QED
    BY <1>3, <2>1
<1>9. SessionOwner'
  BY <1>1 DEF SessionOwner, TypeOK
<1>10. SessionBeforeLeavers'
  <2> SUFFICES ASSUME NEW d \in sessions', NEW e \in Connection, e # d, Leaving(e)'
               PROVE  Leaving(d)' /\ Before(d, e)'
    BY DEF SessionBeforeLeavers
  <2>1. d \in sessions /\ d \in Connection
    BY <1>1 DEF TypeOK
  <2>2. CASE e = c
    <3>1. d # c /\ Leaving(d)
      BY <1>5, <2>1, <2>2 DEF SessionOwner, LockLabel, Using, Leaving
    <3>2. QED
      BY <1>3, <1>5, <2>1, <2>2, <3>1
  <2>3. CASE e # c
    <3>1. Leaving(d) /\ Before(d, e)
      BY <1>5, <2>1, <2>3 DEF SessionBeforeLeavers
    <3>2. QED
      BY <1>3, <1>4, <1>5, <2>1, <3>1
  <2>4. QED
    BY <2>2, <2>3
<1>11. OneSession'
  BY <1>1 DEF OneSession
<1>12. QED
  BY <1>3, <1>6, <1>7, <1>8, <1>9, <1>10, <1>11

LEMMA OtherLocksQInv ==
  ASSUME IInv, OtherLocks
  PROVE  QInv'
<1> USE DEF IInv, QInv
<1>1. UNCHANGED <<pc, sessions>> /\ lockq' = Append(lockq, Other) /\ ~Queued(Other)
  BY DEF OtherLocks, Request, recordVars, Queued
<1>2. /\ QueueIsSet'
      /\ \A x : Queued(x)' <=> Queued(x) \/ x = Other
      /\ \A x, y : Before(x, y) /\ x # Other => Before(x, y)'
      /\ \A x : HasLock(x) => HasLock(x)'
  BY <1>1, AppendQueue
<1>3. \A d \in Connection : (Leaving(d)' <=> Leaving(d)) /\ (Using(d)' <=> Using(d)) /\ d # Other
  BY <1>1, ConnectionAssumption DEF Leaving, Using
<1>4. QueueMatchesPc'
  BY <1>1, <1>2, <1>3 DEF QueueMatchesPc
<1>5. JoiningHasLock' /\ StopsOwnRecording' /\ SessionOwner' /\ OneSession'
  BY <1>1, <1>2 DEF JoiningHasLock, StopsOwnRecording, SessionOwner, OneSession
<1>6. LeaversFirst'
  BY <1>2, <1>3 DEF LeaversFirst
<1>7. SessionBeforeLeavers'
  BY <1>1, <1>2, <1>3 DEF SessionBeforeLeavers, TypeOK
<1>8. QED
  BY <1>2, <1>4, <1>5, <1>6, <1>7

(***************************************************************************)
(* The releases of the lock.                                               *)
(***************************************************************************)
LEMMA RecordingQInv ==
  ASSUME IInv, NEW c \in Connection, StartRecording(c) \/ StopRecording(c)
  PROVE  QInv'
<1> USE DEF IInv, QInv
<1>1. /\ pc[c] \in {"starting_recording", "stopping_recording"} /\ pc'[c] = "serving"
      /\ \A d \in Connection : d # c => pc'[d] = pc[d]
      /\ HasLock(c) /\ lockq' = Tail(lockq)
      /\ sessions' \subseteq sessions \cup {c}
  BY DEF StartRecording, StopRecording, Goto, Unlock, TypeOK, recordVars
<1>2. lockq # <<>> /\ Head(lockq) = c
  BY <1>1 DEF HasLock
<1>3. /\ QueueIsSet'
      /\ \A x : Queued(x)' <=> Queued(x) /\ x # c
  BY <1>1, <1>2, TailQueue
<1>4. /\ sessions' \subseteq {c}
      /\ \A d \in Connection : ~Leaving(d)
  BY <1>1, HolderAlone DEF Using
<1>5. \A d \in Connection : ~Leaving(d)' /\ pc'[d] # "joining"
  BY <1>1, <1>4 DEF Leaving
<1>6. QueueMatchesPc'
  BY <1>1, <1>3 DEF QueueMatchesPc, LockLabel
<1>7. JoiningHasLock' /\ StopsOwnRecording' /\ LeaversFirst' /\ SessionBeforeLeavers'
  BY <1>5 DEF JoiningHasLock, StopsOwnRecording, LeaversFirst, SessionBeforeLeavers
<1>8. SessionOwner' /\ OneSession'
  BY <1>1, <1>4 DEF SessionOwner, OneSession
<1>9. QED
  BY <1>3, <1>6, <1>7, <1>8

LEMMA SessionsStoppedQInv ==
  ASSUME IInv, NEW c \in Connection, SessionsStopped(c)
  PROVE  QInv'
<1> USE DEF IInv, QInv
<1>1. /\ pc[c] \in {"releasing", "joining"} /\ pc'[c] = "removing"
      /\ \A d \in Connection : d # c => pc'[d] = pc[d]
      /\ HasLock(c) /\ lockq' = Tail(lockq) /\ sessions' = {}
  BY DEF SessionsStopped, JoiningHasLock, Goto, Unlock, TypeOK
<1>2. lockq # <<>> /\ Head(lockq) = c
  BY <1>1 DEF HasLock
<1>3. /\ QueueIsSet'
      /\ \A x : Queued(x)' <=> Queued(x) /\ x # c
      /\ \A x, y : Before(x, y) => Before(x, y)'
  BY <1>1, <1>2, TailQueue
<1>4. \A d \in Connection : pc'[d] # "joining"
  BY <1>1, <1>2 DEF JoiningHasLock, HasLock
<1>5. \A d \in Connection : (Leaving(d)' => Leaving(d)) /\ (Using(d)' => Using(d))
  BY <1>1 DEF Leaving, Using
<1>6. QueueMatchesPc'
  BY <1>1, <1>3 DEF QueueMatchesPc, LockLabel
<1>7. JoiningHasLock' /\ StopsOwnRecording'
  BY <1>4 DEF JoiningHasLock, StopsOwnRecording
<1>8. LeaversFirst'
  BY <1>3, <1>5 DEF LeaversFirst
<1>9. SessionOwner' /\ SessionBeforeLeavers' /\ OneSession'
  BY <1>1 DEF SessionOwner, SessionBeforeLeavers, OneSession
<1>10. QED
  BY <1>3, <1>6, <1>7, <1>8, <1>9

LEMMA OtherUnlocksQInv ==
  ASSUME IInv, OtherUnlocks \/ CleanupDeadSessions
  PROVE  QInv'
<1> USE DEF IInv, QInv
<1>1. /\ HasLock(Other) /\ lockq' = Tail(lockq)
      /\ UNCHANGED pc /\ sessions' \subseteq sessions
  BY DEF OtherUnlocks, CleanupDeadSessions, Unlock, recordVars, TypeOK
<1>2. lockq # <<>> /\ Head(lockq) = Other
  BY <1>1 DEF HasLock
<1>3. /\ QueueIsSet'
      /\ \A x : Queued(x)' <=> Queued(x) /\ x # Other
      /\ \A x, y : Before(x, y) => Before(x, y)'
  BY <1>1, <1>2, TailQueue
<1>4. \A d \in Connection : d # Other /\ pc[d] # "joining"
  BY <1>2, ConnectionAssumption DEF JoiningHasLock, HasLock
<1>5. \A d \in Connection : (Leaving(d)' <=> Leaving(d)) /\ (Using(d)' <=> Using(d))
  BY <1>1 DEF Leaving, Using
<1>6. QueueMatchesPc'
  BY <1>1, <1>3, <1>4 DEF QueueMatchesPc
<1>7. JoiningHasLock' /\ StopsOwnRecording'
  BY <1>1, <1>4 DEF JoiningHasLock, StopsOwnRecording
<1>8. LeaversFirst'
  BY <1>3, <1>5 DEF LeaversFirst
<1>9. SessionOwner' /\ OneSession'
  BY <1>1 DEF SessionOwner, OneSession
<1>10. SessionBeforeLeavers'
  BY <1>1, <1>3, <1>5 DEF SessionBeforeLeavers, TypeOK
<1>11. QED
  BY <1>3, <1>6, <1>7, <1>8, <1>9, <1>10

(***************************************************************************)
(* The invariant, and what follows from it.                                *)
(***************************************************************************)
LEMMA NextQInv == IInv /\ [Next]_vars => QInv'
<1> SUFFICES ASSUME IInv, [Next]_vars
             PROVE  QInv'
  OBVIOUS
<1> USE DEF deviceVars, streamVars, recordVars
<1>1. QInv
  BY DEF IInv
<1>2. CASE UNCHANGED vars
  BY <1>1, <1>2, SameQInv DEF vars
<1>3. ASSUME NEW c \in Connection, Accept(c) \/ Refused(c) \/ Admitted(c)
      PROVE  QInv'
  <2>1. CASE Accept(c)
    BY <2>1, QuietQInv DEF Accept, Label, LockLabel
  <2>2. CASE Refused(c)
    BY <2>2, QuietQInv DEF Refused, Label, LockLabel
  <2>3. CASE Admitted(c)
    BY <2>3, QuietQInv DEF Admitted, Label, LockLabel
  <2>4. QED
    BY <1>3, <2>1, <2>2, <2>3
<1>4. ASSUME NEW c \in Connection, StreamStarts(c) \/ StreamFails(c) \/ StreamStopped(c)
      PROVE  QInv'
  <2>1. CASE StreamStarts(c)
    BY <2>1, QuietQInv DEF StreamStarts, Label, LockLabel
  <2>2. CASE StreamFails(c)
    BY <2>2, QuietQInv DEF StreamFails, Label, LockLabel
  <2>3. CASE StreamStopped(c)
    BY <2>3, QuietQInv DEF StreamStopped, Label, LockLabel
  <2>4. QED
    BY <1>4, <2>1, <2>2, <2>3
<1>5. ASSUME NEW c \in Connection, RemoveConnection(c)
      PROVE  QInv'
  <2>1. /\ pc[c] = "removing" /\ UNCHANGED <<lockq, sessions>>
        /\ Goto(c, "closed") \/ Goto(c, "stopping_stream")
    BY <1>5 DEF RemoveConnection
  <2>2. QED
    BY <2>1, QuietQInv DEF Label, LockLabel
<1>6. ASSUME NEW c \in Connection, RequestRecording(c) \/ RequestStop(c) \/ Disconnect(c)
      PROVE  QInv'
  BY <1>6, RequestQInv
<1>7. ASSUME NEW c \in Connection, StartRecording(c) \/ StopRecording(c)
      PROVE  QInv'
  BY <1>7, RecordingQInv
<1>8. ASSUME NEW c \in Connection, StopDeviceSessions(c) \/ SessionsStopped(c)
      PROVE  QInv'
  BY <1>8, StopDeviceSessionsQInv, SessionsStoppedQInv
<1>9. ASSUME NEW c \in Connection, BroadcastDrops(c)
      PROVE  QInv'
  BY <1>1, <1>9, SameQInv DEF BroadcastDrops
<1>10. CASE SessionReleased \/ ThreadDies
  BY <1>1, <1>10, SameQInv DEF SessionReleased, ThreadDies
<1>11. CASE OtherLocks \/ OtherUnlocks \/ CleanupDeadSessions
  BY <1>11, OtherLocksQInv, OtherUnlocksQInv
<1>12. QED
  BY <1>2, <1>3, <1>4, <1>5, <1>6, <1>7, <1>8, <1>9, <1>10, <1>11 DEF Next, Progress

LEMMA SpecIInv == Spec => []IInv
<1>1. Init => IInv
  BY InitIInv
<1>2. IInv /\ [Next]_vars => IInv'
  BY NextTypeOK, NextOneUser, NextQInv DEF IInv, QInv
<1>3. QED
  BY <1>1, <1>2, PTL DEF Spec

\* The device, stream and recording maps hold what they should: every
\* recording thread belongs to a registered session.
THEOREM TypeCorrect == Spec => []TypeOK
<1>1. IInv => TypeOK
  BY DEF IInv
<1>2. QED
  BY <1>1, SpecIInv, PTL

\* device_locks admits one connection and no path leaves the lock behind:
\* not a stream that fails to start, nor a session released underneath.
THEOREM DeviceHasOneUser == Spec => []OneUser
<1>1. IInv => OneUser
  BY DEF IInv
<1>2. QED
  BY <1>1, SpecIInv, PTL

\* A recording in recording_sessions has a connection that serves it, or one
\* whose disconnect_client is about to stop it.
THEOREM RecordingsHaveClients == Spec => []RecordingHasClient
<1>1. IInv => RecordingHasClient
  BY DEF IInv, QInv, SessionOwner, LockLabel, RecordingHasClient, Using
<1>2. QED
  BY <1>1, SpecIInv, PTL

\* _stop_recordings_for_device stops every session of the device, yet never
\* that of the connection that has taken the device over.
THEOREM DisconnectStopsItsOwn == Spec => []StopsOwnRecording
<1>1. IInv => StopsOwnRecording
  BY DEF IInv, QInv
<1>2. QED
  BY <1>1, SpecIInv, PTL

(***************************************************************************)
(* The stream.  Only RemoveConnection stops one, and stays until it is out *)
(* of device_streams.                                                      *)
(***************************************************************************)
\* A connection that is not stopping a stream moves on, and no stream stops.
LEMMA StreamUntouched ==
  ASSUME TypeOK, StreamIsLive, UNCHANGED <<stream, running>>,
         \A c \in Connection : pc[c] = "stopping_stream" => pc'[c] = "stopping_stream"
  PROVE  StreamIsLive'
BY DEF StreamIsLive

LEMMA ConnectionKeepsStream ==
  ASSUME TypeOK, StreamIsLive, NEW c \in Connection,
         \/ Accept(c) \/ RequestRecording(c) \/ RequestStop(c) \/ Disconnect(c)
         \/ BroadcastDrops(c) \/ Progress(c)
  PROVE  StreamIsLive'
<1> USE DEF streamVars
<1>1. CASE StreamStarts(c)
  BY <1>1 DEF StreamStarts, StreamIsLive
<1>2. CASE StreamStopped(c)
  BY <1>2 DEF StreamStopped, StreamIsLive
<1>3. CASE RemoveConnection(c)
  <2>1. /\ \A d \in Connection : d # c => pc'[d] = pc[d]
        /\ pc[c] = "removing" /\ stream' = stream
        /\ running' = running \/ (running' = running \ {stream} /\ pc'[c] = "stopping_stream")
    BY <1>3 DEF RemoveConnection, Goto, TypeOK
  <2>2. QED
    BY <2>1 DEF StreamIsLive
<1>4. CASE BroadcastDrops(c)
  BY <1>4, StreamUntouched DEF BroadcastDrops
<1>5. CASE \/ Accept(c) \/ RequestRecording(c) \/ RequestStop(c) \/ Disconnect(c)
           \/ Refused(c) \/ Admitted(c) \/ StreamFails(c)
  <2>1. /\ \A d \in Connection : d # c => pc'[d] = pc[d]
        /\ pc[c] # "stopping_stream" /\ UNCHANGED <<stream, running>>
    BY <1>5 DEF Accept, RequestRecording, RequestStop, Disconnect, Refused, Admitted,
                StreamFails, Goto, TypeOK
  <2>2. QED
    BY <2>1, StreamUntouched
<1>6. CASE \/ StartRecording(c) \/ StopRecording(c) \/ StopDeviceSessions(c)
           \/ SessionsStopped(c)
  <2>1. /\ \A d \in Connection : d # c => pc'[d] = pc[d]
        /\ pc[c] # "stopping_stream" /\ UNCHANGED <<stream, running>>
    BY <1>6 DEF StartRecording, StopRecording, StopDeviceSessions, SessionsStopped, Goto, TypeOK
  <2>2. QED
    BY <2>1, StreamUntouched
<1>7. QED
  BY <1>1, <1>2, <1>3, <1>4, <1>5, <1>6 DEF Progress

\* A stream found in device_streams runs, or its stop has not come back: a
\* connection never serves frames of a stream that a late disconnect stopped.
THEOREM StreamsAreLive == Spec => []StreamIsLive
<1>1. Init => StreamIsLive
  BY DEF Init, StreamIsLive
<1>2. TypeOK /\ StreamIsLive /\ [Next]_vars => StreamIsLive'
  <2> SUFFICES ASSUME TypeOK, StreamIsLive, [Next]_vars PROVE StreamIsLive'
    OBVIOUS
  <2>1. CASE \/ UNCHANGED vars \/ SessionReleased \/ ThreadDies
             \/ OtherLocks \/ OtherUnlocks \/ CleanupDeadSessions
    <3>1. UNCHANGED <<pc, stream, running>>
      BY <2>1 DEF vars, SessionReleased, ThreadDies, OtherLocks, OtherUnlocks,
                  CleanupDeadSessions, streamVars
    <3>2. QED
      BY <3>1, StreamUntouched
  <2>2. QED
    BY <2>1, ConnectionKeepsStream DEF Next
<1>3. QED
  BY <1>1, <1>2, TypeCorrect, PTL DEF Spec
=============================================================================

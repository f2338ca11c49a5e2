------------------------- MODULE DeviceConnections -------------------------
(***************************************************************************)
(* The WebSocket connections to one device in TaskRecordService            *)
(* (services/task_record_service.py): connect_device_stream, the messages  *)
(* that start and stop a recording, and disconnect_client.  Each connection*)
(* is a coroutine of the event loop; a step is what it does between two    *)
(* awaits that may suspend.  recording_sessions_lock is an asyncio.Lock,   *)
(* which is granted in the order of the requests and is shared with the    *)
(* connections to every other device, here the single actor Other.         *)
(*                                                                         *)
(* A recording session and a screen stream are named after the connection  *)
(* that started them; RecordingSession has the details of a stop.          *)
(***************************************************************************)
EXTENDS Naturals, Sequences, FiniteSets, SequencesExt

CONSTANTS
    Connection,     \* WebSockets; a client that reconnects opens a new one
    Other,          \* whoever holds recording_sessions_lock for another device
    None,
    StreamMayFail   \* whether DeviceScreenStream.start may raise

ASSUME ConnectionAssumption ==
    /\ Other \notin Connection /\ None \notin Connection /\ None # Other
    /\ StreamMayFail \in BOOLEAN

VARIABLES
    pc,              \* what each connection's coroutine does next
    device_lock,     \* device_locks[serial]
    device_session,  \* the connected device session of the serial
    connections,     \* connections[serial], or None
    stream,          \* device_streams[serial], or None
    running,         \* the streams whose thread runs
    sessions,        \* the connections with a session in recording_sessions
    alive,           \* those whose recording thread runs
    lockq            \* recording_sessions_lock: its holder, then the waiters

vars == <<pc, device_lock, device_session, connections, stream, running,
          sessions, alive, lockq>>
streamVars == <<connections, stream, running>>
deviceVars == <<device_lock, device_session>>
recordVars == <<sessions, alive>>

Label == {"new", "auth", "starting", "serving", "starting_recording",
          "stopping_recording", "releasing", "joining", "removing",
          "stopping_stream", "failed", "closed"}

Init ==
    /\ pc = [c \in Connection |-> "new"]
    /\ device_lock = None /\ device_session = None
    /\ connections = None /\ stream = None /\ running = {}
    /\ sessions = {} /\ alive = {}
    /\ lockq = <<>>

-----------------------------------------------------------------------------
Goto(c, label) == pc' = [pc EXCEPT ![c] = label]

\* Mutant: the lock goes to the latest request.
RequestUnfair(c) == lockq' = IF lockq = <<>> THEN <<c>> ELSE InsertAt(lockq, 2, c)

Request(c) == lockq' = Append(lockq, c)
HasLock(c) == lockq # <<>> /\ Head(lockq) = c
Unlock == lockq' = Tail(lockq)

\* _release_device_lock and release_device_session undo only one's own.
ReleaseDevice(c) ==
    /\ device_lock' = IF device_lock = c THEN None ELSE device_lock
    /\ device_session' = IF device_session = c THEN None ELSE device_session

-----------------------------------------------------------------------------
(* connect_device_stream.                                                  *)

Accept(c) ==
    /\ pc[c] = "new"
    /\ Goto(c, "auth")
    /\ UNCHANGED <<deviceVars, streamVars, recordVars, lockq>>

\* create_device_session finds a connected session of the serial, or
\* _try_lock_device a lock: the socket is closed.  So is one that does not
\* authenticate in time.
Refused(c) ==
    /\ pc[c] = "auth"
    /\ Goto(c, "closed")
    /\ UNCHANGED <<deviceVars, streamVars, recordVars, lockq>>

Admitted(c) ==
    /\ pc[c] = "auth"
    /\ device_session = None /\ device_lock = None
    /\ device_session' = c /\ device_lock' = c
    /\ connections' = (IF connections = None THEN {} ELSE connections) \cup {c}
    /\ Goto(c, IF stream = None THEN "starting" ELSE "serving")
    /\ UNCHANGED <<stream, running, recordVars, lockq>>

StreamStarts(c) ==
    /\ pc[c] = "starting"
    /\ stream' = c /\ running' = running \cup {c}
    /\ Goto(c, "serving")
    /\ UNCHANGED <<deviceVars, connections, recordVars, lockq>>

\* Mutant: the device stays locked when its stream does not start.
StreamFailsLocked(c) ==
    /\ pc[c] = "starting" /\ StreamMayFail
    /\ device_session' = IF device_session = c THEN None ELSE device_session
    /\ Goto(c, "closed")
    /\ UNCHANGED <<device_lock, streamVars, recordVars, lockq>>

\* The handler returns here, before the try whose finally disconnects.
StreamFails(c) ==
    /\ pc[c] = "starting" /\ StreamMayFail
    /\ ReleaseDevice(c)
    /\ Goto(c, "closed")
    /\ UNCHANGED <<streamVars, recordVars, lockq>>

\* The workspace is released or its idle time runs out.
SessionReleased ==
    /\ device_session # None
    /\ device_session' = None
    /\ UNCHANGED <<pc, device_lock, streamVars, recordVars, lockq>>

-----------------------------------------------------------------------------
(* start_recording and stop_recording under recording_sessions_lock.       *)

RequestRecording(c) ==
    /\ pc[c] = "serving" /\ device_session = c
    /\ Goto(c, "starting_recording") /\ Request(c)
    /\ UNCHANGED <<deviceVars, streamVars, recordVars>>

\* Refused if a recording is active or the device session is gone.
StartRecording(c) ==
    /\ pc[c] = "starting_recording" /\ HasLock(c)
    /\ IF alive = {} /\ device_session = c
       THEN sessions' = sessions \cup {c} /\ alive' = {c}
       ELSE UNCHANGED recordVars
    /\ Goto(c, "serving") /\ Unlock
    /\ UNCHANGED <<deviceVars, streamVars>>

RequestStop(c) ==
    /\ pc[c] = "serving" /\ device_session = c
    /\ Goto(c, "stopping_recording") /\ Request(c)
    /\ UNCHANGED <<deviceVars, streamVars, recordVars>>

\* The session named in the message, or the one that runs, is stopped and
\* removed; the lock is held through the join.
StopRecording(c) ==
    LET target == IF c \in sessions THEN {c} ELSE alive IN
    /\ pc[c] = "stopping_recording" /\ HasLock(c)
    /\ sessions' = sessions \ target /\ alive' = alive \ target
    /\ Goto(c, "serving") /\ Unlock
    /\ UNCHANGED <<deviceVars, streamVars>>

\* A recording thread ends on an error; its session stays registered.
ThreadDies ==
    /\ alive # {} /\ alive' = {}
    /\ UNCHANGED <<pc, deviceVars, streamVars, sessions, lockq>>

\* A start or a stop on another device, or the cleanup at the server's shutdown.
OtherLocks ==
    /\ ~\E i \in DOMAIN lockq : lockq[i] = Other
    /\ Request(Other)
    /\ UNCHANGED <<pc, deviceVars, streamVars, recordVars>>

OtherUnlocks ==
    /\ HasLock(Other) /\ Unlock
    /\ UNCHANGED <<pc, deviceVars, streamVars, recordVars>>

\* Sessions whose thread has died are dropped without a stop.
CleanupDeadSessions ==
    /\ HasLock(Other) /\ Unlock
    /\ sessions' = alive
    /\ UNCHANGED <<pc, deviceVars, streamVars, alive>>

-----------------------------------------------------------------------------
(* disconnect_client: the socket closed, or the device session was found   *)
(* gone at the next receive timeout.                                       *)

\* Mutant: a disconnect leaves the recording running.
DisconnectOnly(c) ==
    /\ pc[c] = "serving"
    /\ ReleaseDevice(c)
    /\ Goto(c, "removing")
    /\ UNCHANGED <<streamVars, recordVars, lockq>>

Disconnect(c) ==
    /\ pc[c] = "serving"
    /\ ReleaseDevice(c)
    /\ Goto(c, "releasing") /\ Request(c)
    /\ UNCHANGED <<streamVars, recordVars>>

\* Every session of the device is stopped, whoever started it.
StopDeviceSessions(c) ==
    /\ pc[c] = "releasing" /\ HasLock(c)
    /\ sessions # {}
    /\ Goto(c, "joining")
    /\ UNCHANGED <<deviceVars, streamVars, recordVars, lockq>>

\* Mutant: recording_sessions_lock is not given back.
SessionsStoppedLocked(c) ==
    /\ \/ pc[c] = "joining"
       \/ pc[c] = "releasing" /\ HasLock(c) /\ sessions = {}
    /\ sessions' = {} /\ alive' = {}
    /\ Goto(c, "removing")
    /\ UNCHANGED <<deviceVars, streamVars, lockq>>

SessionsStopped(c) ==
    /\ \/ pc[c] = "joining"
       \/ pc[c] = "releasing" /\ HasLock(c) /\ sessions = {}
    /\ sessions' = {} /\ alive' = {}
    /\ Unlock
    /\ Goto(c, "removing")
    /\ UNCHANGED <<deviceVars, streamVars>>

\* The last one out stops the stream; stop() clears its running flag at once.
RemoveConnection(c) ==
    /\ pc[c] = "removing"
    /\ IF connections = None
       THEN Goto(c, "closed") /\ UNCHANGED <<connections, running>>
       ELSE LET left == connections \ {c} IN
            IF left # {}
            THEN /\ connections' = left
                 /\ Goto(c, "closed") /\ UNCHANGED running
            ELSE IF stream = None
            THEN /\ connections' = None
                 /\ Goto(c, "closed") /\ UNCHANGED running
            ELSE /\ connections' = left
                 /\ running' = running \ {stream}
                 /\ Goto(c, "stopping_stream")
    /\ UNCHANGED <<deviceVars, stream, recordVars, lockq>>

\* Mutant: the stopped stream stays in device_streams.
StreamStoppedKept(c) ==
    /\ pc[c] = "stopping_stream"
    /\ connections' = IF stream = None THEN connections ELSE None
    /\ Goto(c, IF stream = None \/ connections = None THEN "failed" ELSE "closed")
    /\ UNCHANGED <<deviceVars, stream, running, recordVars, lockq>>

\* The stream's threads have ended.  del raises KeyError on an absent key.
StreamStopped(c) ==
    /\ pc[c] = "stopping_stream"
    /\ stream' = None
    /\ connections' = IF stream = None THEN connections ELSE None
    /\ Goto(c, IF stream = None \/ connections = None THEN "failed" ELSE "closed")
    /\ UNCHANGED <<deviceVars, running, recordVars, lockq>>

\* A broadcast finds a socket closed by its client and drops it.
BroadcastDrops(c) ==
    /\ pc[c] \in {"releasing", "joining", "removing"}
    /\ connections # None /\ c \in connections
    /\ connections' = connections \ {c}
    /\ UNCHANGED <<pc, deviceVars, stream, running, recordVars, lockq>>

-----------------------------------------------------------------------------
Progress(c) ==
    \/ Refused(c) \/ Admitted(c) \/ StreamStarts(c) \/ StreamFails(c)
    \/ StartRecording(c) \/ StopRecording(c)
    \/ StopDeviceSessions(c) \/ SessionsStopped(c)
    \/ RemoveConnection(c) \/ StreamStopped(c)

Next ==
    \/ \E c \in Connection :
         \/ Accept(c) \/ RequestRecording(c) \/ RequestStop(c) \/ Disconnect(c)
         \/ BroadcastDrops(c) \/ Progress(c)
    \/ SessionReleased \/ ThreadDies
    \/ OtherLocks \/ OtherUnlocks \/ CleanupDeadSessions

Spec == Init /\ [][Next]_vars

\* What a coroutine awaits is bounded: a join 10 s, a stream's start or stop
\* a few.  Clients and other devices need not ask for anything.
FairSpec ==
    /\ Spec
    /\ \A c \in Connection : WF_vars(Progress(c))
    /\ WF_vars(OtherUnlocks \/ CleanupDeadSessions)
-----------------------------------------------------------------------------
TypeOK ==
    /\ pc \in [Connection -> Label]
    /\ device_lock \in Connection \cup {None}
    /\ device_session \in Connection \cup {None}
    /\ connections = None \/ connections \subseteq Connection
    /\ stream \in Connection \cup {None}
    /\ running \subseteq Connection
    /\ sessions \subseteq Connection /\ alive \subseteq sessions
    /\ lockq \in Seq(Connection \cup {Other})

Using(c) ==
    pc[c] \in {"starting", "serving", "starting_recording", "stopping_recording"}

\* The device is locked exactly while one connection is using it: no two
\* connections drive the device, and no path leaves the lock behind.  This
\* holds although the device session may be released under a connection.
OneUser == \A c \in Connection : Using(c) <=> device_lock = c

\* A recording belongs to the connection that uses the device, or to one
\* whose disconnect is about to stop it: it never outlives its connection.
RecordingHasClient ==
    \A c \in sessions : Using(c) \/ pc[c] \in {"releasing", "joining"}

\* A disconnect stops whatever is recorded on the device, but because the
\* lock is granted in order that is never the recording of a newer connection.
StopsOwnRecording ==
    \A c \in Connection : pc[c] = "joining" => sessions = {c}

\* A stream that a new connection finds in device_streams runs, or is being
\* stopped by a disconnect that has not come back yet: no disconnect, late or
\* not, leaves a stopped stream behind to be taken for a running one.
StreamIsLive ==
    stream # None =>
        stream \in running \/ \E c \in Connection : pc[c] = "stopping_stream"

\* A connection that goes gives up the recording and ends.
DisconnectCompletes ==
    \A c \in Connection :
        pc[c] = "releasing" ~> pc[c] \in {"closed", "failed"} /\ c \notin sessions
=============================================================================

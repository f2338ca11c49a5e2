-------------------------- MODULE RecordingSession --------------------------
(***************************************************************************)
(* One recording from its start to its end: the recording thread of        *)
(* RecordingWorker, the RecordingSession that owns its queues, the monitor *)
(* task that forwards its answers, and the operations of TaskRecordService *)
(* on it (services/task_record_service.py).  The event loop runs the       *)
(* client's handler, the monitor and a disconnect as tasks that interleave *)
(* where they await; recording_sessions_lock is held through a whole stop, *)
(* the join of the thread included.                                        *)
(*                                                                         *)
(* The first state is the one start_recording leaves: the session is in    *)
(* recording_sessions, its thread and monitor run, the runtime session is  *)
(* "starting", the task of a new_task recording is in progress.            *)
(***************************************************************************)
EXTENDS RecordingWorker

CONSTANTS
    JoinTimesOut,  \* whether the thread may outlast the 10 s of a join
    EnsureFails    \* whether ensure_recording may fail in the database

ASSUME ModeAssumption == {JoinTimesOut, EnsureFails} \subseteq BOOLEAN

VARIABLES
    recording_mode,  \* given by the client: a new task's, or added to one
    registered,    \* the session is in recording_sessions
    monitor,       \* where _monitor_responses is
    answer,        \* the pause or resume it is forwarding
    ensure,        \* the database job of _ensure_recording_entry
    runtime,       \* the runtime session of WorkspaceStateManager
    task,          \* the task's status
    row,           \* the recordings row exists
    stop,          \* the stop in progress, by its reason, or its outcome
    connected      \* the client's WebSocket has not been disconnected

controlVars == <<recording_mode, registered, task, stop, connected>>
serviceVars == <<runtime, controlVars>>
monitorVars == <<monitor, answer, ensure, row>>
sessionVars == <<serviceVars, monitorVars>>
allVars == <<vars, sessionVars>>

RuntimeState == {"starting", "recording", "paused", "stopping", "released"}
StopReason == {"user_stop", "expired_cleanup", "disconnect"}

NewTask == recording_mode = "new_task"

SessionInit ==
    /\ Init
    /\ recording_mode \in {"new_task", "append_data"}
    /\ registered = TRUE
    /\ monitor = "idle" /\ answer = None /\ ensure = "none" /\ row = FALSE
    /\ runtime = "starting"
    /\ task = IF NewTask THEN "in_progress" ELSE "none"
    /\ stop = "none"
    /\ connected = TRUE

-----------------------------------------------------------------------------
LockFree == stop \notin StopReason
Alive == runtime # "released"
SetRuntime(state) == runtime' = IF Alive THEN state ELSE runtime

\* _find_target_session, with recording_sessions_lock free.
Found == LockFree /\ registered /\ IsAlive

-----------------------------------------------------------------------------
(* The client's commands.  Each first touches or sets the runtime session; *)
(* an expired one is reported to the client, whose handler then stops the  *)
(* recording (RuntimeExpiryStop).                                          *)

RecordAction ==
    /\ connected /\ Found /\ Alive
    /\ Put("action")
    /\ UNCHANGED sessionVars

PauseRecording ==
    /\ connected /\ Found /\ Alive
    /\ runtime' = "paused"
    /\ Put("pause_recording")
    /\ UNCHANGED <<controlVars, monitorVars>>

ResumeRecording ==
    /\ connected /\ Found /\ Alive
    /\ runtime' = "recording"
    /\ Put("resume_recording")
    /\ UNCHANGED <<controlVars, monitorVars>>

\* Mutant: the thread is not told to stop.
StopWithoutShutdown(reason) ==
    /\ LockFree /\ registered
    /\ stop' = reason
    /\ monitor' = "off" /\ answer' = None
    /\ UNCHANGED <<vars, recording_mode, registered, task, connected, ensure, row>>

\* RecordingSession.stop up to its join: the monitor is cancelled where it
\* awaits, then the shutdown is queued.
StopSession(reason) ==
    /\ LockFree /\ registered
    /\ stop' = reason
    /\ monitor' = "off" /\ answer' = None
    /\ RequestShutdown
    /\ UNCHANGED <<recording_mode, registered, task, connected, ensure, row>>

StopRecording(reason) ==
    /\ connected
    /\ StopSession(reason)
    /\ SetRuntime("stopping")

UserStop == StopRecording("user_stop")
RuntimeExpiryStop == ~Alive /\ StopRecording("expired_cleanup")

\* disconnect_client releases the device session, and the runtime with it,
\* before it asks for recording_sessions_lock.
Disconnect ==
    /\ connected /\ LockFree
    /\ connected' = FALSE
    /\ runtime' = "released"
    /\ UNCHANGED <<vars, recording_mode, registered, task, stop, monitorVars>>

DisconnectStop ==
    /\ ~connected
    /\ StopSession("disconnect")
    /\ UNCHANGED runtime

Joined == phase = "stopped" \/ JoinTimesOut

\* Mutant: the stop does not wait for the thread.
FinishStopEarly ==
    /\ stop \in StopReason
    /\ stop' = "done"
    /\ registered' = FALSE
    /\ runtime' = "released"
    /\ task' = IF stop = "user_stop" /\ NewTask THEN "completed" ELSE task
    /\ UNCHANGED <<vars, recording_mode, connected, monitorVars>>

\* The rest of the stop: only the user's own stop completes a task.
FinishStop ==
    /\ stop \in StopReason /\ Joined
    /\ stop' = IF phase = "stopped" THEN "done" ELSE "timed_out"
    /\ registered' = FALSE
    /\ runtime' = "released"
    /\ task' = IF stop = "user_stop" /\ NewTask THEN "completed" ELSE task
    /\ UNCHANGED <<vars, recording_mode, connected, monitorVars>>

\* The server's shutdown drops the sessions whose thread has ended.
CleanupDeadSession ==
    /\ LockFree /\ registered /\ ~IsAlive
    /\ registered' = FALSE
    /\ UNCHANGED <<vars, recording_mode, runtime, task, stop, connected, monitorVars>>

\* 90 s without a touch, or a disconnect of the workspace.
RuntimeExpires ==
    /\ Alive
    /\ runtime' = "released"
    /\ UNCHANGED <<vars, controlVars, monitorVars>>

-----------------------------------------------------------------------------
(* The monitor.                                                            *)

TakeAnswer ==
    /\ monitor = "idle" /\ responses # <<>>
    /\ responses' = Tail(responses)
    /\ UNCHANGED <<events, phase, workerVars, deviceVars, utgVars, puts>>

ForwardFeedback ==
    /\ TakeAnswer
    /\ Head(responses) \in {"error", "event_error", "event_completed"}
    /\ UNCHANGED sessionVars

ForwardReady ==
    /\ TakeAnswer
    /\ Head(responses) = "recording_ready"
    /\ IF NewTask THEN monitor' = "ensuring" /\ ensure' = "running"
                  ELSE monitor' = "readying" /\ UNCHANGED ensure
    /\ UNCHANGED <<serviceVars, answer, row>>

\* The job runs in a thread of its own; cancelling the monitor leaves it be.
EnsureReturns ==
    /\ ensure = "running"
    /\ \/ ensure' = "done" /\ row' = TRUE
       \/ EnsureFails /\ ensure' = "failed" /\ UNCHANGED row
    /\ UNCHANGED <<vars, serviceVars, monitor, answer>>

BeginAbort ==
    /\ monitor' = "aborting"
    /\ RequestShutdown
    /\ UNCHANGED <<serviceVars, answer, ensure, row>>

MetadataFailed == monitor = "ensuring" /\ ensure = "failed" /\ BeginAbort
RuntimeGone == monitor = "readying" /\ ~Alive /\ BeginAbort

MetadataEnsured ==
    /\ monitor = "ensuring" /\ ensure = "done"
    /\ monitor' = "readying"
    /\ UNCHANGED <<vars, serviceVars, answer, ensure, row>>

SetReady ==
    /\ monitor = "readying" /\ Alive
    /\ runtime' = "recording"
    /\ monitor' = "idle"
    /\ UNCHANGED <<vars, controlVars, answer, ensure, row>>

\* The client is told first; the broadcast is an await.
ForwardState ==
    /\ TakeAnswer
    /\ Head(responses) \in {"recording_paused", "recording_resumed"}
    /\ monitor' = "forwarding" /\ answer' = Head(responses)
    /\ UNCHANGED <<serviceVars, ensure, row>>

\* Mutant: only the answer to a pause is stored.
SetStatePausedOnly ==
    /\ monitor = "forwarding"
    /\ SetRuntime(IF answer = "recording_paused" THEN "paused" ELSE runtime)
    /\ monitor' = "idle" /\ answer' = None
    /\ UNCHANGED <<vars, controlVars, ensure, row>>

SetState ==
    /\ monitor = "forwarding"
    /\ SetRuntime(IF answer = "recording_paused" THEN "paused" ELSE "recording")
    /\ monitor' = "idle" /\ answer' = None
    /\ UNCHANGED <<vars, controlVars, ensure, row>>

\* _abort_recording_startup after its join, then the wait for the lock.
AbortJoined ==
    /\ monitor = "aborting" /\ Joined
    /\ monitor' = "popping"
    /\ task' = IF NewTask THEN "pending" ELSE task
    /\ runtime' = "released"
    /\ UNCHANGED <<vars, recording_mode, registered, stop, connected, answer, ensure, row>>

AbortPop ==
    /\ monitor = "popping" /\ LockFree
    /\ registered' = FALSE
    /\ monitor' = "off"
    /\ UNCHANGED <<vars, recording_mode, runtime, task, stop, connected, answer, ensure, row>>

Monitor ==
    \/ ForwardFeedback \/ ForwardReady \/ ForwardState \/ SetState
    \/ MetadataFailed \/ MetadataEnsured \/ RuntimeGone \/ SetReady
    \/ AbortJoined \/ AbortPop

-----------------------------------------------------------------------------
Client ==
    \/ RecordAction \/ PauseRecording \/ ResumeRecording
    \/ UserStop \/ RuntimeExpiryStop
    \/ Disconnect

SessionNext ==
    \/ Client
    \/ DisconnectStop \/ FinishStop
    \/ RuntimeExpires \/ CleanupDeadSession
    \/ EnsureReturns
    \/ Monitor
    \/ Worker /\ UNCHANGED sessionVars

SessionSpec == SessionInit /\ [][SessionNext]_allVars

\* The thread, the database job and the tasks of the event loop keep running;
\* no client is obliged to do anything.
SessionFairSpec ==
    /\ SessionSpec
    /\ WF_allVars(Worker /\ UNCHANGED sessionVars)
    /\ WF_allVars(Monitor) /\ WF_allVars(EnsureReturns)
    /\ WF_allVars(FinishStop) /\ WF_allVars(DisconnectStop)
-----------------------------------------------------------------------------
SessionTypeOK ==
    /\ recording_mode \in {"new_task", "append_data"}
    /\ registered \in BOOLEAN /\ connected \in BOOLEAN /\ row \in BOOLEAN
    /\ monitor \in {"idle", "ensuring", "readying", "forwarding", "aborting",
                    "popping", "off"}
    /\ answer \in {None, "recording_paused", "recording_resumed"}
    /\ ensure \in {"none", "running", "done", "failed"}
    /\ runtime \in RuntimeState
    /\ task \in {"none", "pending", "in_progress", "completed"}
    /\ stop \in StopReason \cup {"none", "done", "timed_out"}

\* The service sets the runtime session when it queues a pause or a resume and
\* the monitor sets it again when the thread answers.  Whatever order the two
\* come in, once both queues are empty the state shown is the thread's own.
RuntimeSettles ==
    /\ events = <<>> /\ responses = <<>>
    /\ phase = "running" /\ monitor = "idle" /\ Alive
    => runtime = IF is_paused THEN "paused" ELSE "recording"

\* A task is completed when the thread has stopped, unless the join timed out;
\* and then, late or not, the UTG holds a transition for every event that was
\* acknowledged as recorded, the last one included, if no capture and no call of
\* the UTG failed.
CompletedIsWhole ==
    task = "completed" =>
        /\ phase = "stopped" \/ stop = "timed_out"
        /\ phase = "stopped" /\ faults = 0 =>
             \A i \in DOMAIN sent :
               sent[i] = "recorded" => \E k \in DOMAIN calls : calls[k].event = i

\* A stop, a disconnect and a startup that fails each end the session: the
\* shutdown is honoured whatever is queued before it, the stop gets the lock
\* whatever the monitor is doing, also one that aborts and waits for the same
\* lock, and no thread is left running and no session registered.
EveryEndIsReached ==
    stop \in StopReason \/ ~connected \/ monitor = "aborting"
        ~> ~registered /\ phase = "stopped"
=============================================================================

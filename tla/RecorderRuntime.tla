-------------------------- MODULE RecorderRuntime --------------------------
(***************************************************************************)
(* A recording as the task recorder in the browser drives it               *)
(* (web/static/js/components/task-recorder.js: startRecording,             *)
(* stopRecording, pauseRecording, resumeRecording, the operations on the   *)
(* screen, the runtime keepalive and the handlers of the server's          *)
(* messages), over one connection to the device that may be lost at any    *)
(* time (RecorderConnection has its details).  Both directions are FIFO    *)
(* channels; the server is TaskRecordService with the recording thread.    *)
(***************************************************************************)
EXTENDS Naturals, Sequences, FiniteSets, SequencesExt

CONSTANTS
    MaxSessions,    \* bound: the recordings the server starts
    MaxStarts,      \* bound: startRecording() calls awaiting their token
    MaxUp,          \* bound: client messages under way
    MaxDown         \* bound: server messages under way when one more is sent

ASSUME RuntimeAssumption ==
    MaxSessions \in Nat \ {0} /\ MaxStarts \in Nat \ {0}
    /\ MaxUp \in Nat \ {0} /\ MaxDown \in Nat \ {0}

VARIABLES
    isConnected, isRecording, isPaused, recordingSessionId, operationPending,
    keepalive,          \* runtimeKeepaliveTimer is set
    modeDisabled,       \* the radio buttons of the recording mode
    toggleDisabled,     \* the start/stop button
    pauseDisabled,      \* the pause/resume button
    starts,             \* startRecording() calls that await the token: is the
                        \* mode the one that their task-select value is of
    overlap,            \* history: a start was clicked beside another one, or while
                        \* the server or a message had an earlier recording
    up, down,           \* the messages to and from the server
    session,            \* recording_sessions: each one's thread
    phase,              \* what the thread that runs is doing
    queue,              \* its event_queue
    lease               \* the sessions whose runtime session has not expired

formVars == <<modeDisabled, toggleDisabled, pauseDisabled>>
recVars == <<isRecording, isPaused, recordingSessionId, operationPending, keepalive>>
clientVars == <<formVars, recVars, isConnected, starts, overlap>>
serverVars == <<session, phase, queue, lease>>
vars == <<clientVars, up, down, serverVars>>

Session == 1..MaxSessions
None == 0
Kept == {s \in Session : session[s] \in {"alive", "dead"}}
AliveSession == {s \in Session : session[s] = "alive"}

Init ==
    /\ isConnected = FALSE
    /\ isRecording = FALSE /\ isPaused = FALSE /\ recordingSessionId = None
    /\ operationPending = FALSE /\ keepalive = FALSE
    /\ modeDisabled = FALSE /\ toggleDisabled = FALSE /\ pauseDisabled = TRUE
    /\ starts = <<>> /\ overlap = FALSE /\ up = <<>> /\ down = <<>>
    /\ session = [s \in Session |-> "none"] /\ phase = "starting"
    /\ queue = <<>> /\ lease = {}

-----------------------------------------------------------------------------
(* Parts of the handlers.                                                  *)

\* Over the values after the step: the last thing a handler does.
updatePauseButtonState ==
    pauseDisabled' = (~isConnected' \/ ~isRecording' \/ operationPending')

setOperationPending(pending) ==
    operationPending' = pending /\ updatePauseButtonState

startRuntimeKeepalive == keepalive' = TRUE
stopRuntimeKeepalive == keepalive' = FALSE

resetRecordingRuntimeState ==
    /\ stopRuntimeKeepalive
    /\ isRecording' = FALSE /\ isPaused' = FALSE /\ recordingSessionId' = None
    /\ setOperationPending(FALSE)

renderIdleRecordingState == toggleDisabled' = FALSE /\ modeDisabled' = FALSE

SendUp(message) == Len(up) < MaxUp /\ up' = Append(up, message)
Receive(type) ==
    /\ down # <<>> /\ Head(down).type = type
    /\ down' = Tail(down)

-----------------------------------------------------------------------------
(* The connection.                                                         *)

\* The server stops the recordings of a connection that goes, and whatever
\* was under way is lost (DeviceConnections: DisconnectCompletes).
Connected ==
    /\ ~isConnected /\ isConnected' = TRUE
    /\ modeDisabled' = isRecording
    /\ UNCHANGED <<toggleDisabled, recVars, starts, overlap, up, down,
                   serverVars>>
    /\ updatePauseButtonState

ConnectionEnds ==
    /\ isConnected /\ isConnected' = FALSE
    /\ resetRecordingRuntimeState /\ renderIdleRecordingState
    /\ up' = <<>> /\ down' = <<>> /\ queue' = <<>> /\ lease' = {}
    /\ session' = [s \in Session |-> IF s \in Kept THEN "over" ELSE session[s]]
    /\ phase' = "starting"
    /\ UNCHANGED <<starts, overlap>>

-----------------------------------------------------------------------------
(* The user.  What is selected in each mode is on the task-select; the      *)
(* mode is told apart only where a start awaits its token.                  *)

switchRecordingMode ==
    /\ ~modeDisabled /\ starts # <<>>
    /\ starts' = [i \in DOMAIN starts |-> ~starts[i]]
    /\ UNCHANGED <<formVars, recVars, overlap, isConnected, up, down, serverVars>>

\* startRecording() up to its await; the button stays enabled until it is over.
startRecording ==
    /\ isConnected /\ ~isRecording /\ ~toggleDisabled
    /\ Len(starts) < MaxStarts
    /\ isPaused' = FALSE /\ recordingSessionId' = None
    /\ starts' = Append(starts, TRUE)
    /\ overlap' = (overlap \/ starts # <<>> \/ up # <<>> \/ down # <<>>
                      \/ Kept # {})
    /\ UNCHANGED <<formVars, isRecording, operationPending, keepalive,
                   isConnected, up, down, serverVars>>

\* ... and after it: the mode is that of now, the value that of the click.
\* A closed socket swallows the message.
StartSends(i) ==
    /\ IF isConnected
       THEN SendUp([type |-> "start", session |-> None,
                    fits |-> starts[i]])
       ELSE UNCHANGED up
    /\ starts' = RemoveAt(starts, i)
    /\ toggleDisabled' = TRUE /\ modeDisabled' = TRUE
    /\ UNCHANGED <<recVars, isConnected, overlap, down, serverVars>>
    /\ updatePauseButtonState

\* No fresh token.
StartFails(i) ==
    /\ starts' = RemoveAt(starts, i)
    /\ toggleDisabled' = FALSE /\ modeDisabled' = FALSE
    /\ UNCHANGED <<recVars, isConnected, overlap, up, down,
                   serverVars>>
    /\ updatePauseButtonState

\* isRecording stays until the server has confirmed.
stopRecording ==
    /\ isConnected /\ isRecording /\ ~toggleDisabled
    /\ SendUp([type |-> "stop", session |-> recordingSessionId])
    /\ stopRuntimeKeepalive /\ pauseDisabled' = TRUE
    /\ UNCHANGED <<modeDisabled, toggleDisabled, isRecording,
                   isPaused, recordingSessionId, operationPending, isConnected,
                   starts, overlap, down, serverVars>>

pauseRecording ==
    /\ isRecording /\ ~isPaused /\ ~pauseDisabled
    /\ SendUp([type |-> "pause", session |-> recordingSessionId])
    /\ stopRuntimeKeepalive /\ pauseDisabled' = TRUE
    /\ UNCHANGED <<modeDisabled, toggleDisabled, isRecording,
                   isPaused, recordingSessionId, operationPending, isConnected,
                   starts, overlap, down, serverVars>>

resumeRecording ==
    /\ isRecording /\ isPaused /\ ~pauseDisabled
    /\ SendUp([type |-> "resume", session |-> recordingSessionId])
    /\ pauseDisabled' = TRUE
    /\ UNCHANGED <<modeDisabled, toggleDisabled, recVars,
                   isConnected, starts, overlap, down, serverVars>>

\* Mutant: operations are not blocked by the one that is running.
SendUnblocked ==
    /\ isConnected /\ isRecording
    /\ SendUp([type |-> "op", session |-> None])
    /\ UNCHANGED <<modeDisabled, toggleDisabled, isRecording,
                   isPaused, recordingSessionId, keepalive, isConnected, starts, overlap,
                   down, serverVars>>
    /\ setOperationPending(TRUE)

\* sendTouchCommand, sendSwipeCommand, sendKey and sendText.
sendOperation ==
    /\ isConnected /\ isRecording /\ ~operationPending
    /\ SendUp([type |-> "op", session |-> None])
    /\ UNCHANGED <<modeDisabled, toggleDisabled, isRecording,
                   isPaused, recordingSessionId, keepalive, isConnected, starts, overlap,
                   down, serverVars>>
    /\ setOperationPending(TRUE)

\* The timer of startRuntimeKeepalive.
SendKeepalive ==
    /\ keepalive /\ isRecording /\ recordingSessionId # None
    /\ SendUp([type |-> "keepalive", session |-> recordingSessionId])
    /\ UNCHANGED <<clientVars, down, serverVars>>

-----------------------------------------------------------------------------
(* The server's messages.                                                  *)

handleRecordingReady ==
    /\ Receive("recording_ready")
    /\ isRecording' = TRUE /\ isPaused' = FALSE
    /\ recordingSessionId' = Head(down).session
    /\ startRuntimeKeepalive
    /\ toggleDisabled' = FALSE
    /\ UNCHANGED <<modeDisabled, operationPending, isConnected,
                   starts, overlap, up, serverVars>>
    /\ updatePauseButtonState

\* handleRecordingStopped and handleRecordingError: neither looks at the
\* session of the message nor at operationPending.
RecordingIsOver ==
    /\ isRecording' = FALSE /\ isPaused' = FALSE /\ recordingSessionId' = None
    /\ stopRuntimeKeepalive
    /\ toggleDisabled' = FALSE /\ modeDisabled' = FALSE
    /\ UNCHANGED <<operationPending, isConnected, starts, overlap, up, serverVars>>
    /\ updatePauseButtonState

handleRecordingStopped == Receive("recording_stopped") /\ RecordingIsOver
handleRecordingError == Receive("recording_error") /\ RecordingIsOver

handleRecordingPaused ==
    /\ Receive("recording_paused")
    /\ isPaused' = TRUE /\ stopRuntimeKeepalive
    /\ UNCHANGED <<modeDisabled, toggleDisabled, isRecording,
                   recordingSessionId, operationPending, isConnected, starts, overlap, up,
                   serverVars>>
    /\ updatePauseButtonState

\* Mutant: the pause is lifted on the page only by the next operation.
ResumeUnseen ==
    /\ Receive("recording_resumed")
    /\ startRuntimeKeepalive
    /\ UNCHANGED <<modeDisabled, toggleDisabled, isRecording,
                   isPaused, recordingSessionId, operationPending, isConnected,
                   starts, overlap, up, serverVars>>
    /\ updatePauseButtonState

\* Mutant: the keepalive is not started again.
ResumeSilent ==
    /\ Receive("recording_resumed")
    /\ isPaused' = FALSE
    /\ UNCHANGED <<modeDisabled, toggleDisabled, isRecording, recordingSessionId,
                   operationPending, keepalive, isConnected, starts, overlap, up,
                   serverVars>>
    /\ updatePauseButtonState

handleRecordingResumed ==
    /\ Receive("recording_resumed")
    /\ isPaused' = FALSE /\ startRuntimeKeepalive
    /\ UNCHANGED <<modeDisabled, toggleDisabled, isRecording,
                   recordingSessionId, operationPending, isConnected, starts, overlap, up,
                   serverVars>>
    /\ updatePauseButtonState

\* A failure says nothing of the recording, and a recorded success too.
handleOperationFeedback ==
    /\ Receive("operation_feedback")
    /\ isPaused' = (isPaused \/ Head(down).state = "paused")
    /\ UNCHANGED <<modeDisabled, toggleDisabled, isRecording,
                   recordingSessionId, keepalive, isConnected, starts, overlap, up,
                   serverVars>>
    /\ setOperationPending(FALSE)

\* handleSessionEvent with scope runtime; the other scopes end the connection.
HandleRuntimeEvent ==
    /\ Receive("session_event")
    /\ UNCHANGED <<isConnected, starts, overlap, up, serverVars>>
    /\ resetRecordingRuntimeState /\ renderIdleRecordingState

-----------------------------------------------------------------------------
(* The server: handle_client_message for the next message, in order.       *)

Msg == Head(up)
Serves(type) == up # <<>> /\ Msg.type = type /\ up' = Tail(up)
Tell(messages) == Len(down) < MaxDown /\ down' = down \o messages
Error == [type |-> "recording_error"]
Gone == [type |-> "session_event"]

\* stop_recording: the session named, or the one that runs.  Its monitor is
\* stopped first, so that nothing more is heard from the thread.
Target(named) ==
    IF named \in Kept THEN {named} ELSE AliveSession
ThreadEnds == phase' = "starting" /\ queue' = <<>>
StopTarget(target, before) ==
    IF target = {}
    THEN Tell(Append(before, Error)) /\ UNCHANGED serverVars
    ELSE /\ Tell(Append(before, [type |-> "recording_stopped"]))
         /\ session' = [s \in Session |-> IF s \in target THEN "over" ELSE session[s]]
         /\ lease' = lease \ target
         /\ IF AliveSession \subseteq target THEN ThreadEnds
            ELSE UNCHANGED <<phase, queue>>

\* start_recording; a value of the other mode is no task id or no data set.
ServeStart ==
    /\ Serves("start")
    /\ \/ /\ AliveSession = {} /\ Msg.fits
          /\ \E s \in Session :
               /\ session[s] = "none" /\ \A t \in 1..(s - 1) : session[t] # "none"
               /\ session' = [session EXCEPT ![s] = "alive"]
               /\ lease' = lease \cup {s}
          /\ UNCHANGED <<down, phase, queue>>
       \/ \E failure \in {Error, Gone} : Tell(<<failure>>) /\ UNCHANGED serverVars
    /\ UNCHANGED clientVars

\* Mutant: a recording whose thread has failed is not stopped, nor answered.
StopAliveOnly ==
    /\ Serves("stop")
    /\ IF AliveSession = {} THEN UNCHANGED <<down, serverVars>>
       ELSE StopTarget(AliveSession, <<>>)
    /\ UNCHANGED clientVars

ServeStop ==
    /\ Serves("stop")
    /\ StopTarget(Target(Msg.session), <<>>)
    /\ UNCHANGED clientVars

\* pause_recording and resume_recording set the runtime's state first.
ServeCommand(type) ==
    /\ Serves(type)
    /\ IF AliveSession = {} THEN Tell(<<Error>>) /\ UNCHANGED serverVars
       ELSE IF AliveSession \cap lease = {} THEN StopTarget(Target(Msg.session), <<Gone>>)
       ELSE queue' = Append(queue, type) /\ UNCHANGED <<down, session, phase, lease>>
    /\ UNCHANGED clientVars

\* record_action: without a session the operation is dropped and not answered;
\* an expired runtime is told, but a message without a session stops nothing.
ServeOperation ==
    /\ Serves("op")
    /\ IF AliveSession = {} THEN UNCHANGED <<down, serverVars>>
       ELSE IF AliveSession \cap lease = {} THEN Tell(<<Gone>>) /\ UNCHANGED serverVars
       ELSE queue' = Append(queue, "op") /\ UNCHANGED <<down, session, phase, lease>>
    /\ UNCHANGED clientVars

ServeKeepalive ==
    /\ Serves("keepalive")
    /\ IF Msg.session \in lease THEN UNCHANGED <<down, serverVars>>
       ELSE StopTarget(Target(Msg.session), <<Gone>>)
    /\ UNCHANGED clientVars

\* Nothing was received for WEBSOCKET_PING_INTERVAL.
IdleCheck ==
    /\ isConnected /\ up = <<>>
    /\ \E s \in Kept \ lease : StopTarget({s}, <<Gone>>)
    /\ UNCHANGED <<clientVars, up>>

RuntimeExpires ==
    /\ \E s \in lease : lease' = lease \ {s}
    /\ UNCHANGED <<clientVars, up, down, session, phase, queue>>

\* The thread is ready, and its monitor tells; or the metadata job fails.
ThreadReady ==
    /\ phase = "starting"
    /\ \E s \in AliveSession :
         \/ /\ Tell(<<[type |-> "recording_ready", session |-> s]>>)
            /\ phase' = "recording" /\ UNCHANGED <<session, queue, lease>>
         \/ /\ \E failure \in {Error, Gone} : Tell(<<failure>>)
            /\ session' = [session EXCEPT ![s] = "over"] /\ ThreadEnds
            /\ lease' = lease \ {s}
    /\ UNCHANGED <<clientVars, up>>

ThreadSteps ==
    /\ AliveSession # {} /\ phase # "starting" /\ queue # <<>>
    /\ queue' = Tail(queue)
    /\ CASE Head(queue) = "op" ->
              Tell(<<[type |-> "operation_feedback", state |-> phase]>>)
              /\ UNCHANGED phase
         [] Head(queue) = "pause" ->
              Tell(<<[type |-> "recording_paused"]>>) /\ phase' = "paused"
         [] Head(queue) = "resume" ->
              Tell(<<[type |-> "recording_resumed"]>>) /\ phase' = "recording"
    /\ UNCHANGED <<clientVars, up, session, lease>>

\* The thread ends on an error, with an operation_feedback; its session stays.
ThreadDies ==
    /\ AliveSession # {}
    /\ session' = [s \in Session |-> IF s \in AliveSession THEN "dead" ELSE session[s]]
    /\ Tell(<<[type |-> "operation_feedback", state |-> "recording"]>>)
    /\ ThreadEnds
    /\ UNCHANGED <<clientVars, up, lease>>

-----------------------------------------------------------------------------
Handle ==
    \/ handleRecordingReady \/ handleRecordingStopped \/ handleRecordingError
    \/ handleRecordingPaused \/ handleRecordingResumed
    \/ handleOperationFeedback \/ HandleRuntimeEvent

Serve ==
    \/ ServeStart \/ ServeStop \/ ServeCommand("pause") \/ ServeCommand("resume")
    \/ ServeOperation \/ ServeKeepalive

Next ==
    \/ Connected \/ ConnectionEnds
    \/ switchRecordingMode
    \/ startRecording \/ \E i \in DOMAIN starts : StartSends(i) \/ StartFails(i)
    \/ stopRecording \/ pauseRecording \/ resumeRecording
    \/ sendOperation \/ SendKeepalive
    \/ Handle \/ Serve
    \/ IdleCheck \/ RuntimeExpires \/ ThreadReady \/ ThreadSteps \/ ThreadDies

Spec == Init /\ [][Next]_vars

\* Messages arrive and are handled in order, and the thread works.
FairSpec == Spec /\ WF_vars(Handle) /\ WF_vars(Serve)
-----------------------------------------------------------------------------
TypeOK ==
    /\ isConnected \in BOOLEAN /\ isRecording \in BOOLEAN /\ isPaused \in BOOLEAN
    /\ operationPending \in BOOLEAN /\ keepalive \in BOOLEAN
    /\ recordingSessionId \in Session \cup {None}
    /\ starts \in Seq(BOOLEAN)
    /\ modeDisabled \in BOOLEAN /\ toggleDisabled \in BOOLEAN
    /\ pauseDisabled \in BOOLEAN
    /\ Len(up) <= MaxUp
    /\ session \in [Session -> {"none", "alive", "dead", "over"}]
    /\ Cardinality(AliveSession) <= 1
    /\ phase \in {"starting", "recording", "paused"}
    /\ queue \in Seq({"op", "pause", "resume"}) /\ lease \subseteq Session

Quiet == up = <<>> /\ down = <<>> /\ queue = <<>>

\* Once every message has been handled, a recording on the page is the
\* server's recording, and one is paused if and only if the other is; however
\* starts, stops, pauses, expiries and failures have crossed.
AgreesWhenQuiet ==
    isConnected /\ isRecording /\ Quiet =>
        /\ recordingSessionId \in Kept
        /\ session[recordingSessionId] = "alive" => (isPaused <=> phase = "paused")

\* The keepalive that keeps the runtime session alive runs for the recording
\* that the server's thread makes, and not while it is paused.
KeepaliveWhileRecording ==
    isRecording /\ Quiet /\ recordingSessionId \in AliveSession =>
        (keepalive <=> phase # "paused")

\* What the page shows of a recording, and what it does for it, is right.
PageIsRight == AgreesWhenQuiet /\ KeepaliveWhileRecording

InFlight(channel, type) ==
    Cardinality({i \in DOMAIN channel : channel[i].type = type})
OperationsQueued == Cardinality({i \in DOMAIN queue : queue[i] = "op"})

\* A thread that records gets its operations one at a time: there is never a
\* second one on its way while the first is, across pauses, stops, expiries,
\* the thread's failure and new recordings, unless a start
\* was clicked before the recording before it was over for both sides.
OneOperation ==
    ~overlap /\ AliveSession # {} => InFlight(up, "op") + OperationsQueued <= 1

\* A stop ends the recording on the page, whatever the server finds.
StopSettles == InFlight(up, "stop") > 0 ~> ~isRecording
=============================================================================

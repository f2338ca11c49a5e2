--------------------------- MODULE RecordingWorker ---------------------------
(***************************************************************************)
(* The recording thread of one recording session                          *)
(* (services/recording_worker_thread.py).  The event loop puts commands in *)
(* event_queue; the thread takes them one at a time, drives the device and *)
(* adds transitions to the UTG of the dataset.  Recording is deferred: an  *)
(* event is executed first, and the transition it causes is added ("the    *)
(* pending transition is flushed") when the thread next looks at the       *)
(* screen, for the next event, a pause or the shutdown.                    *)
(*                                                                         *)
(* A screen is abstracted to the number of events the device had executed  *)
(* when it was captured, so "which screen was this" becomes "between which *)
(* two events was it taken".  An event is its index in `sent'.             *)
(***************************************************************************)
EXTENDS Naturals, Sequences, FiniteSets

CONSTANTS
    None,         \* Python's None
    Failures,     \* the calls that may fail: a subset of FailureKinds
    MaxCommands   \* bound: commands the session puts before the shutdown

FailureKinds ==
    { "init",     \* Device() or device.connect() or create_new_utg_sync raises
      "state",    \* device.get_current_state returns None
      "create",   \* _create_input_event returns None
      "send",     \* device.send_event raises
      "utg" }     \* add_transition_sync or sync_state_node_sync raises

ASSUME FailureAssumption == Failures \subseteq FailureKinds
ASSUME CommandAssumption == MaxCommands \in Nat
ASSUME NoneAssumption == None \notin Nat

VARIABLES
    events,       \* event_queue: the commands not yet taken
    responses,    \* response_queue: the answers not yet forwarded
    phase,        \* where the thread is in run()
    is_paused, last_state, last_event, event_count,
    sent,         \* how the device executed each event, in order
    calls,        \* the transitions added to the UTG, in order
    nodes,        \* the screens persisted as nodes of the UTG
    faults,       \* device observations and UTG calls that failed so far
    misfires,     \* actions to record that could not be built or sent so far
    puts          \* commands put so far

workerVars == <<is_paused, last_state, last_event, event_count>>
utgVars == <<calls, nodes, faults>>
deviceVars == <<sent, misfires>>
vars == <<events, responses, phase, workerVars, deviceVars, utgVars, puts>>

Command == {"action", "pause_recording", "resume_recording"}
Response == {"recording_ready", "error", "event_error", "event_completed",
             "recording_paused", "recording_resumed"}
Screen == Nat
Event == Nat \ {0}
Transition == [event : Event, from : Screen, to : Screen]

Init ==
    /\ events = <<>> /\ responses = <<>>
    /\ phase = "starting"
    /\ is_paused = FALSE /\ last_state = None /\ last_event = None
    /\ event_count = 0
    /\ sent = <<>> /\ calls = <<>> /\ nodes = {}
    /\ faults = 0 /\ misfires = 0 /\ puts = 0

-----------------------------------------------------------------------------
(* The session's side of event_queue.  record_action, pause and resume put *)
(* only while the thread is alive, stop puts the shutdown in any case.     *)

IsAlive == phase # "stopped"
ShutdownQueued == \E i \in 1..Len(events) : events[i] = "shutdown"

Put(command) ==
    /\ IsAlive
    /\ puts < MaxCommands
    /\ events' = Append(events, command)
    /\ puts' = puts + 1
    /\ UNCHANGED <<responses, phase, workerVars, deviceVars, utgVars>>

RequestShutdown ==
    /\ events' = Append(events, "shutdown")
    /\ UNCHANGED <<responses, phase, workerVars, deviceVars, utgVars, puts>>

-----------------------------------------------------------------------------
(* What the thread sees of the device, and what it tells the UTG.          *)

Now == Len(sent)
Observation == {Now} \cup IF "state" \in Failures THEN {None} ELSE {}
Missed(screen) == IF screen = None THEN 1 ELSE 0

Pending == last_event # None /\ last_state # None

AddTransition(target, missed) ==
    \/ /\ calls' = Append(calls, [event |-> last_event, from |-> last_state,
                                  to |-> target])
       /\ nodes' = nodes \cup {last_state, target}
       /\ faults' = faults + missed
    \/ /\ "utg" \in Failures
       /\ faults' = faults + missed + 1
       /\ UNCHANGED <<calls, nodes>>

\* The screen the caller has, or one captured now; nothing without a screen.
FlushPending(screen) ==
    \/ ~Pending /\ faults' = faults + Missed(screen) /\ UNCHANGED <<calls, nodes>>
    \/ Pending /\ screen # None /\ AddTransition(screen, 0)
    \/ /\ Pending /\ screen = None
       /\ \E again \in Observation :
            IF again # None
            THEN AddTransition(again, Missed(screen))
            ELSE /\ faults' = faults + Missed(screen) + 1
                 /\ UNCHANGED <<calls, nodes>>

\* Mutant: the first screen of a segment is not persisted.
NoSegmentSync(screen) == faults' = faults + Missed(screen) /\ UNCHANGED <<calls, nodes>>

SyncSegmentStart(screen) ==
    /\ calls' = calls
    /\ \/ screen # None /\ nodes' = nodes \cup {screen} /\ faults' = faults
       \/ screen = None /\ nodes' = nodes /\ faults' = faults + 1
       \/ /\ screen # None /\ "utg" \in Failures
          /\ nodes' = nodes /\ faults' = faults + 1

-----------------------------------------------------------------------------
(* The thread.                                                             *)

InitDeviceAndUtg ==
    /\ phase = "starting"
    /\ \/ phase' = "running" /\ responses' = Append(responses, "recording_ready")
       \/ /\ "init" \in Failures
          /\ phase' = "stopped" /\ responses' = Append(responses, "error")
    /\ UNCHANGED <<events, workerVars, deviceVars, utgVars, puts>>

Take(command) ==
    /\ phase = "running"
    /\ events # <<>> /\ Head(events) = command
    /\ events' = Tail(events)

\* The three ways to leave the handling of an action after the observation.
NoInputEvent ==
    /\ "create" \in Failures
    /\ UNCHANGED <<responses, workerVars, sent>>

SendFails ==
    /\ "send" \in Failures
    /\ sent' \in {sent, Append(sent, "failed")}
    /\ responses' = Append(responses, "event_error")
    /\ UNCHANGED workerVars

Sends(how) ==
    /\ sent' = Append(sent, how)
    /\ responses' = Append(responses, "event_completed")

\* Mutant: the event of a segment that is pending is never replaced.
RecordedKeepsEvent(screen) ==
    /\ Sends("recorded")
    /\ last_state' = screen
    /\ last_event' = IF last_event = None THEN Now + 1 ELSE last_event
    /\ event_count' = event_count + 1
    /\ UNCHANGED is_paused

Recorded(screen) ==
    /\ Sends("recorded")
    /\ last_state' = screen
    /\ last_event' = Now + 1
    /\ event_count' = event_count + 1
    /\ UNCHANGED is_paused

ExecuteRecorded ==
    /\ Take("action") /\ ~is_paused
    /\ \E screen \in Observation :
         /\ IF last_event = None /\ last_state = None
            THEN SyncSegmentStart(screen)
            ELSE FlushPending(screen)
         /\ \/ (NoInputEvent \/ SendFails) /\ misfires' = misfires + 1
            \/ Recorded(screen) /\ UNCHANGED misfires
    /\ UNCHANGED <<phase, puts>>

ExecuteUnrecorded ==
    /\ Take("action") /\ is_paused
    /\ NoInputEvent \/ SendFails \/ (Sends("unrecorded") /\ UNCHANGED workerVars)
    /\ UNCHANGED <<phase, misfires, utgVars, puts>>

\* The flush of a pause or a shutdown captures the screen only if it must.
FlushAtBoundary ==
    IF Pending THEN \E screen \in Observation :
                      IF screen # None
                      THEN AddTransition(screen, 0)
                      ELSE faults' = faults + 1 /\ UNCHANGED <<calls, nodes>>
               ELSE UNCHANGED utgVars

\* Mutant: the pending transition survives the pause.
PauseKeepsPending ==
    /\ Take("pause_recording")
    /\ IF is_paused THEN UNCHANGED utgVars ELSE FlushAtBoundary
    /\ is_paused' = TRUE
    /\ responses' = Append(responses, "recording_paused")
    /\ UNCHANGED <<phase, last_state, last_event, event_count, deviceVars, puts>>

HandlePause ==
    /\ Take("pause_recording")
    /\ IF is_paused
       THEN UNCHANGED <<workerVars, utgVars>>
       ELSE /\ FlushAtBoundary
            /\ last_state' = None /\ last_event' = None
            /\ is_paused' = TRUE
            /\ UNCHANGED event_count
    /\ responses' = Append(responses, "recording_paused")
    /\ UNCHANGED <<phase, deviceVars, puts>>

HandleResume ==
    /\ Take("resume_recording")
    /\ is_paused' = FALSE
    /\ responses' = Append(responses, "recording_resumed")
    /\ UNCHANGED <<phase, last_state, last_event, event_count, deviceVars, utgVars, puts>>

\* Mutant: the last transition is not flushed.
ShutdownOnly ==
    /\ Take("shutdown")
    /\ phase' = "stopped"
    /\ UNCHANGED <<responses, workerVars, deviceVars, utgVars, puts>>

HandleShutdown ==
    /\ Take("shutdown")
    /\ FlushAtBoundary
    /\ phase' = "stopped"
    /\ UNCHANGED <<responses, workerVars, deviceVars, puts>>

Worker ==
    \/ InitDeviceAndUtg
    \/ ExecuteRecorded
    \/ ExecuteUnrecorded
    \/ HandlePause
    \/ HandleResume
    \/ HandleShutdown

Next ==
    \/ \E command \in Command : Put(command)
    \/ ~ShutdownQueued /\ IsAlive /\ RequestShutdown
    \/ Worker

Spec == Init /\ [][Next]_vars
-----------------------------------------------------------------------------
TypeOK ==
    /\ events \in Seq(Command \cup {"shutdown"})
    /\ responses \in Seq(Response)
    /\ phase \in {"starting", "running", "stopped"}
    /\ is_paused \in BOOLEAN
    /\ last_state \in Screen \cup {None}
    /\ last_event \in Event \cup {None}
    /\ event_count \in Nat
    /\ sent \in Seq({"recorded", "unrecorded", "failed"})
    /\ calls \in Seq(Transition)
    /\ nodes \in SUBSET Screen
    /\ {faults, misfires, puts} \subseteq Nat

\* A transition in the UTG starts on the screen its event was executed on and
\* ends on a screen captured after it, before any other recorded event and
\* before anything the user did while the recording was paused: however the
\* device and the UTG fail, a deferred flush never swallows another event.
NoTransitionSpansAnEvent ==
    \A i \in DOMAIN calls :
        LET t == calls[i] IN
        /\ t.event \in DOMAIN sent /\ sent[t.event] = "recorded"
        /\ t.from = t.event - 1
        /\ t.to \in t.event..Len(sent)
        /\ \A k \in (t.event + 1)..t.to : sent[k] = "failed"

\* While the device is seen and the UTG takes what it is given, the screen a
\* recorded event was taken on is a node of the UTG by the time the event is
\* acknowledged, although its transition is added later: the first event of a
\* segment syncs the node, the others flush it.
SourceIsPersisted ==
    faults = 0 => \A i \in DOMAIN sent : sent[i] = "recorded" => i - 1 \in nodes

Repeats ==
    {j \in DOMAIN calls : \E i \in 1..(j - 1) : calls[i].event = calls[j].event}

\* An action that cannot be built or sent leaves the pending event to be
\* flushed again, but once: no pause, missed screen or failing UTG call adds to
\* the transitions recorded twice, and no later event inherits them.
OneRepeatPerMisfire == Cardinality(Repeats) <= misfires

\* The events acknowledged as recorded that have no transition and, the one
\* still pending apart, will never have one.
Lost ==
    {i \in DOMAIN sent :
        /\ sent[i] = "recorded"
        /\ \A k \in DOMAIN calls : calls[k].event # i
        /\ ~(phase # "stopped" /\ Pending /\ last_event = i)}

\* A failing capture or UTG call costs one event and not the rest of its
\* segment; without failures the UTG is complete when the thread stops.
OneLossPerFault == Cardinality(Lost) <= faults

\* Whatever is queued behind a fault, its damage ends with one event.
FaultsAreLocal == OneLossPerFault /\ OneRepeatPerMisfire

=============================================================================

-------------------------- MODULE CurrentRecording --------------------------
(***************************************************************************)
(* The current recording of a workspace and what the page shows of it      *)
(* (web/static/js/app.js, components/data-editor.js, task-recorder.js and  *)
(* utg-viewer.js, over api/client.js).  The server keeps one current       *)
(* recording; the data editor, the task recorder and the viewer each keep  *)
(* a copy, and no request but the one that sets it names the recording it  *)
(* is about.  Every function that awaits is a call with the requests it    *)
(* still has to make; the server answers one at some moment, and the code  *)
(* after the await runs at a later one.                                    *)
(***************************************************************************)
EXTENDS Naturals, Sequences, FiniteSets, SequencesExt

CONSTANTS
    Recording,      \* the recordings of the user
    MaxCalls,       \* bound: calls of the page under way when one more begins
    MaxBegun,       \* bound: calls that begin in all
    MaxBoots,       \* bound: bootstraps of replacement workspaces under way
    MaxExpiries     \* bound: how often the workspace expires

ASSUME CurrentRecordingAssumption ==
    MaxCalls \in Nat \ {0} /\ MaxBegun \in Nat /\ MaxBoots \in Nat \ {0} /\ MaxExpiries \in Nat

None == "none"
Message == "message"        \* the text of an error in the task info panel
Refusals == {"expired", "required", "failed"}
ASSUME NamesAssumption == ({None, Message, "ok", "awaited"} \cup Refusals) \cap Recording = {}

VARIABLES
    current,        \* the server: workspace.current_recording
    expired,        \* the page's workspace has expired at the server
    expiries,       \* how often it has
    view,           \* the form in the control panel, "none" until initApp is over
    viewer, editor, recorder,
    calls,          \* the functions that await
    begun,          \* how many have begun
    raced           \* history: current changed for a call that had not been alone
                    \* since it began, or whose answer the page does not get
vars == <<current, expired, expiries, view, viewer, editor, recorder, calls, begun, raced>>

Call(kind, todo, name, back) ==
    [kind |-> kind, todo |-> todo, answer |-> "awaited",
     alone |-> calls = <<>>,    \* no other call since it began
     name |-> name,     \* what it sets or saves, or bootstraps with
     back |-> back]     \* what a failing selection goes back to

Init ==
    /\ current \in Recording \cup {None}
    /\ expired \in BOOLEAN /\ raced = FALSE
    /\ begun = 0
    /\ expiries = IF expired THEN 1 ELSE 0
    /\ view = "none"
    /\ viewer = [active |-> None, utg |-> None, text |-> None,
                 loaded |-> FALSE, edit |-> FALSE, saving |-> FALSE]
    /\ editor = [current |-> None, loading |-> FALSE]
    /\ recorder = [current |-> None, selected |-> None, mode |-> "new_task",
                   disabled |-> FALSE, clear |-> FALSE, modes |-> TRUE,
                   starting |-> FALSE, recording |-> FALSE]
    /\ calls = <<[kind |-> "start", todo |-> <<"boot">>, answer |-> "awaited",
                  alone |-> TRUE, name |-> None, back |-> None]>>

-----------------------------------------------------------------------------
(* The synchronous functions, on the viewer v or the page p.               *)

Page == [viewer |-> viewer, editor |-> editor, recorder |-> recorder]
SetPage(p) ==
    viewer' = p.viewer /\ editor' = p.editor /\ recorder' = p.recorder

exitTaskInfoEditMode(v) == [v EXCEPT !.edit = FALSE]
hideTaskInfo(v) ==
    [exitTaskInfoEditMode(v) EXCEPT !.text = None, !.loaded = FALSE]
showTaskInfoError(v) ==
    [exitTaskInfoEditMode(v) EXCEPT !.text = Message, !.loaded = FALSE]
resetViewer(v) == [hideTaskInfo(v) EXCEPT !.active = None, !.utg = None]

resetEditor(e) == [e EXCEPT !.current = None, !.loading = FALSE]

\* The recorder's controls: the selection button is disabled, the clear button and
\* the radio buttons of the mode are enabled, the start button awaits an answer.  The
\* task selected in the other mode is left out.
HasSelection(r) == r.mode = "append_data" /\ (r.selected # None \/ r.current # None)
updateSelectionDisplay(r) == [r EXCEPT !.clear = HasSelection(r) /\ ~r.recording]
setSelectionControlsDisabled(r, b) ==
    [r EXCEPT !.disabled = b, !.clear = ~b /\ HasSelection(r)]
updateConnectionState(r) ==
    updateSelectionDisplay(
        [setSelectionControlsDisabled(r, r.recording) EXCEPT !.modes = ~r.recording])
renderIdleRecordingState(r) ==
    updateSelectionDisplay(
        [setSelectionControlsDisabled(r, FALSE) EXCEPT !.starting = FALSE, !.modes = TRUE])

\* What a recording that is over does, well or not, and the end of the connection.
disconnect(r) == renderIdleRecordingState([r EXCEPT !.recording = FALSE])
resetRecorder(r) ==
    renderIdleRecordingState(
        [r EXCEPT !.current = None, !.selected = None, !.mode = "new_task"])
restoreWorkspaceContext(r, name) ==
    updateSelectionDisplay(
        [r EXCEPT !.current = name, !.selected = name,
                  !.mode = IF name = None THEN "new_task" ELSE "append_data"])

resetWorkspaceScopedState(p) ==
    [viewer |-> resetViewer(p.viewer), editor |-> resetEditor(p.editor),
     recorder |-> resetRecorder(disconnect(p.recorder))]
applyBootstrapWorkspaceState(p, name) ==
    [p EXCEPT !.editor.current = name,
              !.recorder = restoreWorkspaceContext(@, name)]

\* restoreWorkspaceRecording: what is shown already is not loaded again.
Shows(v, name) == v.active = name /\ v.utg # None /\ v.loaded
restoreWorkspaceRecording(p, name) ==
    IF name = None THEN [p EXCEPT !.viewer = resetViewer(@)]
                   ELSE [p EXCEPT !.viewer.active = name]
RestoreTodo(p, name) ==
    IF name = None \/ Shows(p.viewer, name) THEN <<>> ELSE <<"info", "utg">>

\* Mutants: the task info of the new recording is not read.
switchToRecording_unread == <<"set", "utg">>
applied_unread == <<"set", "utg">>

\* What setCurrentRecording is followed by, in switchToRecording and in
\* applyRecordingSelection.
switchToRecording == <<"set", "info", "utg">>
applied == <<"set", "info", "utg">>
loadRecordings == <<"current", "recordings">>

-----------------------------------------------------------------------------
(* A call begins.  A call is bounded by MaxCalls, never by the code.       *)

BeginSelection(kind, todo, name, back) ==
    /\ Len(calls) < MaxCalls /\ begun < MaxBegun
    /\ begun' = begun + 1
    /\ calls' = Append([i \in DOMAIN calls |-> [calls[i] EXCEPT !.alone = FALSE]],
                       Call(kind, todo, name, back))
Begin(kind, todo, name) == BeginSelection(kind, todo, name, None)

\* previousRecording, or else previousValue.
Previous == IF recorder.selected # None THEN recorder.selected ELSE recorder.current

unchangedServer == UNCHANGED <<current, expired, expiries>>

\* DataEditor.switchRecording
switchRecording(name) ==
    /\ view = "editor" /\ ~editor.loading /\ name # editor.current
    /\ Begin("editor", switchToRecording \o <<"details">>, name)
    /\ editor' = [editor EXCEPT !.loading = TRUE]
    /\ UNCHANGED <<view, viewer, recorder, raced>> /\ unchangedServer

\* The dialog of openRecordingSelection may have been open for long: its
\* onSelect looks at nothing but the mode (applyRecordingSelection).
applyRecordingSelection(name) ==
    /\ view = "recorder" /\ recorder.mode = "append_data"
    /\ \/ /\ name = recorder.current
          /\ recorder.selected # name
          /\ recorder' = updateSelectionDisplay([recorder EXCEPT !.selected = name])
          /\ UNCHANGED <<calls, begun>>
       \/ /\ name # recorder.current
          /\ recorder' = setSelectionControlsDisabled(
                            [recorder EXCEPT !.selected = name], TRUE)
          /\ BeginSelection("apply", applied, name, Previous)
    /\ UNCHANGED <<view, viewer, editor, raced>> /\ unchangedServer

\* The clear button alone is enabled again by updateSelectionDisplay.
clearCurrentSelection ==
    /\ view = "recorder" /\ recorder.mode = "append_data"
    /\ ~recorder.recording /\ recorder.clear
    /\ recorder.selected # None \/ recorder.current # None
    /\ recorder' = setSelectionControlsDisabled(
                        [recorder EXCEPT !.selected = None], TRUE)
    /\ BeginSelection("release", <<"release">>, None, Previous)
    /\ UNCHANGED <<view, viewer, editor, raced>> /\ unchangedServer

switchRecordingMode ==
    /\ view = "recorder" /\ recorder.modes
    /\ recorder' = updateSelectionDisplay([recorder EXCEPT
            !.mode = IF @ = "new_task" THEN "append_data" ELSE "new_task"])
    /\ UNCHANGED <<view, viewer, editor, calls, begun, raced>> /\ unchangedServer

\* startRecording, after it has awaited the token: the command is sent and the
\* controls are disabled until the server answers, or it throws.
startRecording ==
    /\ view = "recorder" /\ ~recorder.recording /\ ~recorder.starting
    /\ \E sent \in BOOLEAN :
            recorder' = [setSelectionControlsDisabled(recorder, sent)
                            EXCEPT !.starting = sent, !.modes = ~sent]
    /\ UNCHANGED <<view, viewer, editor, calls, begun, raced>> /\ unchangedServer

\* The server has begun to record into name: handleRecordingReady does not
\* await the switch.
handleRecordingReady(name) ==
    /\ view = "recorder" /\ recorder.starting
    /\ Begin("ready", switchToRecording, name)
    /\ recorder' = setSelectionControlsDisabled(
            [recorder EXCEPT !.recording = TRUE, !.current = name, !.starting = FALSE], TRUE)
    /\ UNCHANGED <<view, viewer, editor, raced>> /\ unchangedServer

handleRecordingStopped ==
    /\ recorder.recording
    /\ IF recorder.current = None THEN UNCHANGED <<calls, begun, viewer>>
       ELSE /\ Begin("stopped", <<"utg">>, None)
            /\ viewer' = [viewer EXCEPT !.utg = None]
    /\ recorder' = disconnect(recorder)
    /\ UNCHANGED <<view, editor, raced>> /\ unchangedServer

\* handleRecordingError, a runtime session that is gone, a connection that is lost.
handleRecordingError ==
    /\ recorder.starting \/ recorder.recording
    /\ recorder' = disconnect(recorder)
    /\ UNCHANGED <<view, viewer, editor, calls, begun, raced>> /\ unchangedServer

\* A connect, a connection made, a late heartbeat: whatever else is under way.
refreshConnectionState ==
    /\ view = "recorder"
    /\ recorder' = updateConnectionState(recorder)
    /\ UNCHANGED <<view, viewer, editor, calls, begun, raced>> /\ unchangedServer

enterTaskInfoEditMode ==
    /\ viewer.text # None /\ ~viewer.edit
    /\ viewer' = [viewer EXCEPT !.edit = TRUE]
    /\ UNCHANGED <<view, editor, recorder, calls, begun, raced>> /\ unchangedServer

cancelTaskInfoEdit ==
    /\ viewer.edit /\ ~viewer.saving
    /\ Begin("cancel", <<"info">>, None)
    /\ viewer' = exitTaskInfoEditMode(viewer)
    /\ UNCHANGED <<view, editor, recorder, raced>> /\ unchangedServer

\* The request carries the text, not the recording that it was read from.
saveTaskInfo ==
    /\ viewer.edit /\ ~viewer.saving
    /\ Begin("save", <<"save">>, viewer.text)
    /\ viewer' = [viewer EXCEPT !.saving = TRUE]
    /\ UNCHANGED <<view, editor, recorder, raced>> /\ unchangedServer

\* The old form stays until the new one has been loaded.  The recorder that is
\* left disconnects, if it is connected.
showDataEditor ==
    /\ view # "none"
    /\ Begin("list", loadRecordings \o <<"details">>, None)
    /\ \E connected \in {recorder.recording \/ recorder.starting, TRUE} :
            recorder' = IF connected THEN disconnect(recorder) ELSE recorder
    /\ UNCHANGED <<view, viewer, editor, raced>> /\ unchangedServer

\* The form is inserted anew, and initializeElements sets its controls.
showTaskRecorder ==
    /\ view \in {"editor", "failed"} /\ view' = "recorder"
    /\ recorder' = [updateConnectionState(recorder) EXCEPT !.starting = FALSE]
    /\ UNCHANGED <<viewer, editor, calls, begun, raced>> /\ unchangedServer

-----------------------------------------------------------------------------
(* The server.                                                             *)

Expire ==
    /\ ~raced /\ ~expired /\ expiries < MaxExpiries
    /\ expired' = TRUE /\ expiries' = expiries + 1
    /\ UNCHANGED <<current, view, viewer, editor, recorder, calls, begun, raced>>

\* The routers answer from workspace.current_recording as it is then; what a
\* refused request answers depends on what the request needs.
Answers(c) ==
    LET step == Head(c.todo)
        stale == expired \/ (step = "boot" /\ c.name = "stale")
    IN CASE step \in {"create", "recordings"} -> {"ok"}
         [] stale -> {"expired"}
         [] step \in {"boot", "current"} -> {current, "failed"}
         [] step = "set" -> {"ok", "failed"}
         [] step = "release" -> {"ok", "failed"}
         [] current = None -> {"required"}
         [] OTHER -> {current, "failed"}

\* The answer to a set or a release may be lost after the server has made it, which
\* the page takes for a failure.  A save whose answer is lost is here a failed one.
Serve(i) ==
    /\ calls[i].answer = "awaited"
    /\ \E a \in Answers(calls[i]), lost \in BOOLEAN :
        LET step == Head(calls[i].todo) IN
        /\ lost => a = "ok" /\ step \in {"set", "release"}
        /\ calls' = [calls EXCEPT ![i].answer = IF lost THEN "failed" ELSE a]
        /\ current' = CASE step = "set" /\ a = "ok" -> calls[i].name
                        [] step = "release" /\ a = "ok" -> None
                        [] OTHER -> current
        /\ raced' = (raced \/ (current' # current /\ (lost \/ ~calls[i].alone)))
    /\ UNCHANGED <<expired, expiries, view, viewer, editor, recorder, begun>>

-----------------------------------------------------------------------------
(* The answers.  The client reads WORKSPACE_EXPIRED before the caller does: *)
(* it resets the page and begins to bootstrap a replacement workspace.     *)

Boots == {i \in DOMAIN calls : calls[i].kind = "boot"}
Handled(i) == calls[i].answer = "expired" /\ Head(calls[i].todo) # "boot"

handleWorkspaceExpired(i) ==
    IF Handled(i) THEN resetWorkspaceScopedState(Page) ELSE Page
Replacement(i) ==
    IF Handled(i)
    THEN <<Call("boot", <<"boot">>, IF expired THEN "stale" ELSE None, None)>>
    ELSE <<>>

\* initApp keeps bootstrapResult.current_recording to restore it again.
KeepsName(c) ==
    IF c.kind = "start" /\ Head(c.todo) = "boot" /\ c.answer \in Recording
    THEN c.answer ELSE c.name

\* The caller goes on with the page p and what it still has to ask.  The form
\* of the data editor is inserted when its recordings are loaded, that of the
\* task recorder at the end of initApp, which restores the recording again.
Resume(i, p, todo) ==
    LET c == calls[i]
        given_up == c.answer \in Refusals /\ Head(c.todo) \in {"boot", "current"}
        started == c.kind = "start" /\ todo = <<>> /\ ~given_up
        again == started /\ c.name # None
        q == IF again THEN restoreWorkspaceRecording(p, c.name) ELSE p
        rest == IF again THEN RestoreTodo(p, c.name) ELSE todo
        loads == rest # <<>> /\ Head(rest) = "utg"
        resumed == [c EXCEPT !.todo = rest, !.answer = "awaited",
                             !.alone = @ /\ ~Handled(i),
                             !.kind = IF started THEN "restore" ELSE @,
                             !.name = KeepsName(c)]
    IN /\ Handled(i) => Cardinality(Boots) < MaxBoots
       /\ SetPage(IF loads THEN [q EXCEPT !.viewer.utg = None] ELSE q)
       /\ view' = IF started THEN "recorder"
                  ELSE IF c.kind = "list" /\ Head(c.todo) # "details"
                            /\ rest \in {<<>>, <<"details">>}
                       THEN IF given_up THEN "failed" ELSE "editor"
                  ELSE view
       /\ calls' = (IF rest = <<>> THEN RemoveAt(calls, i)
                    ELSE [calls EXCEPT ![i] = resumed]) \o Replacement(i)
       /\ UNCHANGED <<expiries, begun, raced>>

Answered(i, step) ==
    calls[i].answer # "awaited" /\ Head(calls[i].todo) = step
Rest(i) == Tail(calls[i].todo)

\* Mutant: the finally enables the controls, whatever else has disabled them.
enableSelection(p) == [p EXCEPT !.recorder = setSelectionControlsDisabled(@, FALSE)]

\* The finally of applyRecordingSelection.
finishSelection(p) ==
    [p EXCEPT !.recorder = setSelectionControlsDisabled(@, @.recording)]

\* Its catch, with the finally.
revertSelection(p, name) == finishSelection([p EXCEPT !.recorder.selected = name])

\* switchToRecording and applyRecordingSelection, after setCurrentRecording.
AnswerSet(i) ==
    LET c == calls[i]
        p == handleWorkspaceExpired(i)
    IN /\ Answered(i, "set")
       /\ \/ /\ c.answer = "ok" /\ c.kind = "apply"
             /\ Resume(i, [p EXCEPT !.recorder.current = c.name,
                                    !.editor.current = c.name], Rest(i))
          \/ /\ c.answer = "ok" /\ c.kind # "apply"
             /\ Resume(i, [p EXCEPT !.viewer.active = c.name], Rest(i))
          \/ /\ c.answer # "ok" /\ c.kind = "apply"
             /\ Resume(i, revertSelection(p, c.back), <<>>)
          \/ /\ c.answer # "ok" /\ c.kind = "editor"
             /\ Resume(i, [p EXCEPT !.editor.loading = FALSE], <<>>)
          \/ /\ c.answer # "ok" /\ c.kind = "ready"
             /\ Resume(i, p, <<>>)
       /\ UNCHANGED <<current, expired>>

\* releaseCurrentRecording: the graph stays.
AnswerRelease(i) ==
    LET p == handleWorkspaceExpired(i)
    IN /\ Answered(i, "release")
       /\ IF calls[i].answer = "ok"
          THEN Resume(i, finishSelection(
                    [p EXCEPT !.recorder.current = None, !.editor.current = None,
                              !.viewer = hideTaskInfo(@)]), <<>>)
          ELSE Resume(i, revertSelection(p, calls[i].back), <<>>)
       /\ UNCHANGED <<current, expired>>

\* Mutant: the name is taken over only if the graph could be drawn.
takeOverDrawn(p, name) ==
    IF p.viewer.utg # None THEN [p EXCEPT !.editor.current = name] ELSE p

\* DataEditor.switchRecording takes the name over when the viewer has gone
\* through both.
takeOver(p, name) == [p EXCEPT !.editor.current = name]

scoped(a) == a \in {"expired", "required"}

\* Nothing ends the edit mode when another text is loaded into it.
loadTaskInfo(i) ==
    LET a == calls[i].answer
        p == handleWorkspaceExpired(i)
    IN /\ Answered(i, "info")
       /\ Resume(i,
            [p EXCEPT !.viewer =
                IF a \in Recording THEN [@ EXCEPT !.text = a, !.loaded = TRUE]
                ELSE showTaskInfoError(IF scoped(a) THEN resetViewer(@) ELSE @)],
            Rest(i))
       /\ UNCHANGED <<current, expired>>

loadUTG(i) ==
    LET c == calls[i]
        p == handleWorkspaceExpired(i)
        drawn == [p EXCEPT !.viewer =
                    IF c.answer \in Recording THEN [@ EXCEPT !.utg = c.answer]
                    ELSE IF scoped(c.answer) THEN resetViewer(@) ELSE @]
    IN /\ Answered(i, "utg")
       /\ Resume(i, CASE c.kind = "editor" -> takeOver(drawn, c.name)
                      [] c.kind = "apply" -> finishSelection(drawn)
                      [] OTHER -> drawn, Rest(i))
       /\ UNCHANGED <<current, expired>>

\* What it shows is left out: it is the graph's header once more.
loadRecordingInfo(i) ==
    LET p == handleWorkspaceExpired(i)
    IN /\ Answered(i, "details")
       /\ Resume(i, [p EXCEPT !.editor.loading = @ /\ calls[i].kind # "editor"], <<>>)
       /\ UNCHANGED <<current, expired>>

\* loadRecordings, after getCurrentRecording: an error is thrown on to show(),
\* or to initApp, which gives up.
AnswerCurrent(i) ==
    LET a == calls[i].answer
        p == handleWorkspaceExpired(i)
    IN /\ Answered(i, "current")
       /\ IF a \in Refusals
          THEN Resume(i, [p EXCEPT !.editor = resetEditor(@),
                                   !.viewer = resetViewer(@)], <<>>)
          ELSE Resume(i, [p EXCEPT !.editor.current = a], Rest(i))
       /\ UNCHANGED <<current, expired>>

\* loadRecordings, after getRecordings: this.currentRecording as it is now.
AnswerRecordings(i) ==
    /\ Answered(i, "recordings")
    /\ Resume(i, restoreWorkspaceRecording(Page, editor.current),
              IF editor.current = None THEN <<>>
              ELSE RestoreTodo(Page, editor.current) \o Rest(i))
    /\ UNCHANGED <<current, expired>>

Bootstrapped(i, name) ==
    LET p == applyBootstrapWorkspaceState(Page, name)
    IN IF calls[i].kind = "start"
       THEN Resume(i, p, loadRecordings)
       ELSE Resume(i, restoreWorkspaceRecording(p, name), RestoreTodo(p, name))

bootstrapWorkspace(i) ==
    LET a == calls[i].answer
    IN /\ Answered(i, "boot")
       /\ \/ a \notin Refusals /\ Bootstrapped(i, a)
          \/ a = "expired" /\ Resume(i, Page, <<"create">>)
          \/ a = "failed" /\ Resume(i, Page, <<>>)
       /\ UNCHANGED <<current, expired>>

\* Bootstrapped once more, without the id: a new workspace.
ReplaceWorkspace(i) ==
    /\ Answered(i, "create")
    /\ current' = None /\ expired' = FALSE
    /\ Bootstrapped(i, None)

AnswerSave(i) ==
    LET a == calls[i].answer
        p == handleWorkspaceExpired(i)
        saved == IF a \in Recording
                 THEN [exitTaskInfoEditMode(p.viewer) EXCEPT !.text = a]
                 ELSE p.viewer
    IN /\ Answered(i, "save")
       /\ Resume(i, [p EXCEPT !.viewer = [saved EXCEPT !.saving = FALSE]], <<>>)
       /\ UNCHANGED <<current, expired>>

Answer(i) ==
    \/ AnswerSet(i) \/ AnswerRelease(i) \/ loadTaskInfo(i) \/ loadUTG(i)
    \/ loadRecordingInfo(i) \/ AnswerCurrent(i) \/ AnswerRecordings(i)
    \/ bootstrapWorkspace(i) \/ ReplaceWorkspace(i) \/ AnswerSave(i)

User ==
    \/ \E name \in Recording : switchRecording(name) \/ applyRecordingSelection(name)
    \/ clearCurrentSelection \/ switchRecordingMode
    \/ startRecording
    \/ \E name \in Recording : handleRecordingReady(name)
    \/ handleRecordingStopped \/ handleRecordingError
    \/ refreshConnectionState
    \/ enterTaskInfoEditMode \/ cancelTaskInfoEdit \/ saveTaskInfo
    \/ showDataEditor \/ showTaskRecorder

\* Bound: the user does nothing more, and nothing expires, once the server has made
\* a change that the page may not know of.
Next ==
    \/ ~raced /\ User
    \/ Expire
    \/ \E i \in DOMAIN calls : Serve(i) \/ Answer(i)

Spec == Init /\ [][Next]_vars

-----------------------------------------------------------------------------
(* Properties.                                                             *)

Kind == {"start", "boot", "restore", "editor", "apply", "release", "ready", "stopped",
         "cancel", "save", "list"}
Step == {"boot", "create", "current", "recordings", "set", "release", "info", "utg",
         "details", "save"}
Name == Recording \cup {None}
CallType ==
    [kind : Kind, todo : Seq(Step), alone : BOOLEAN, back : Name,
     answer : Name \cup {"awaited", "ok"} \cup Refusals,
     name : Name \cup {Message, "stale"}]
PageType ==
    [viewer : [active : Name, utg : Name, text : Name \cup {Message},
               loaded : BOOLEAN, edit : BOOLEAN, saving : BOOLEAN],
     editor : [current : Name, loading : BOOLEAN],
     recorder : [current : Name, selected : Name, mode : {"new_task", "append_data"},
                 disabled : BOOLEAN, clear : BOOLEAN, modes : BOOLEAN,
                 starting : BOOLEAN, recording : BOOLEAN]]

TypeOK ==
    /\ current \in Name /\ {expired, raced} \subseteq BOOLEAN
    /\ expiries \in Nat /\ begun \in Nat
    /\ view \in {"none", "recorder", "editor", "failed"}
    /\ Page \in PageType
    /\ calls \in Seq(CallType)

\* When nothing is under way the graph and the task info are those of the recording
\* that the server works on, if it works on one (a graph stays on the screen when the
\* recording is released).  Excused for good by the first set or release that changes
\* the server's recording while any other call of the page is, or has been, under way
\* beside it, or whose answer is lost.
Quiet == calls = <<>> /\ ~raced /\ ~expired
ViewerAgrees ==
    (Quiet /\ current # None) =>
        /\ viewer.utg \in {None, current}
        /\ viewer.text \in {None, Message, current}

\* The recording selected in the data editor's form is then the server's too,
\* so that choosing another one is never taken for choosing the same.
EditorAgrees ==
    (Quiet /\ view = "editor" /\ current # None) => editor.current \in {None, current}

\* Three copies of one name, none of which is sent with the requests about it.
PageAgrees == ViewerAgrees /\ EditorAgrees

\* A text saved when nothing else was under way arrives where the recording that it
\* was read from is the server's, although the request does not say which that is:
\* it is saved to that recording or to none, whether or not the answer arrives.
SavesWhereRead ==
    [][\A i \in DOMAIN calls :
        (/\ calls[i].kind = "save" /\ calls[i].alone /\ calls[i].name \in Recording
         /\ ~raced /\ Serve(i) /\ calls'[i].answer \in Recording \cup {"failed"})
        => current = calls[i].name]_vars

\* The selection controls belong to what is under way.  While a recording runs they are
\* disabled, although switches that began before it end with enabling them, and the
\* clear button is enabled by itself; and they are disabled only by a recording, by a
\* start that the server has not answered, or by a switch whose every way out enables
\* them again.
ControlsOwned ==
    /\ editor.loading => \E i \in DOMAIN calls : calls[i].kind = "editor"
    /\ recorder.recording => recorder.disabled /\ ~recorder.clear
    /\ recorder.disabled =>
            \/ recorder.recording \/ recorder.starting
            \/ \E i \in DOMAIN calls : calls[i].kind \in {"apply", "release"}

=============================================================================

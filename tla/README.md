# Verification of the MUA data platform

The platform records what a user does on an Android device and keeps it as a
graph of screens and events (a *UTG*), which is corrected and labelled
afterwards. A browser client without a framework (`src/web/static/js`) talks to a
FastAPI backend (`src/web/backend`): HTTP for workspaces, tasks and UTG edits, one
WebSocket per device connection for the screen stream and the recording. A
recording runs in a thread of its own, which drives DroidBot (`src/droidbot`) and
edits the same UTG files the HTTP routes edit.

This directory holds TLA+ modules for the parts of the backend and of the client
that keep shared state, TLC configurations that check them on small instances,
and TLAPS proofs for every value of the constants. `PROJECT.json` maps each
definition to the source lines it models.

## 1. Inventory

### The server

| Component | State | Operations | What is hard | What makes it correct |
|---|---|---|---|---|
| **Workspace, lease and session manager** (`session_config.py`) | in memory: workspaces, recording leases, device sessions, runtime sessions, each with an idle clock | bootstrap, touch, require, set or release the current recording, create and release sessions, periodic cleanup | expiry found lazily by any call; leases and workspaces renewed by different calls; cascading releases | a recording has one lease holder; no lease or session outlives its owner; the expired stays expired and is collected |
| **Recording worker thread** (`recording_worker_thread.py`) | command and answer queues, paused flag, the last screen and the last event | action, pause, resume, shutdown | a transition is added only when the *next* screen is seen; every call to the device or the UTG may fail | a transition never spans another event; a failure costs one transition; the shutdown gets through |
| **Task record service, recordings** (`task_record_service.py`) | `recording_sessions`, the monitor task, the runtime session, the task's status, the recordings row | start, record_action, pause, resume, stop, abort, disconnect | the handler, the monitor, the thread, a database job and a disconnect interleave; a stop cancels the monitor anywhere; one lock is held through a join | a completed task has its whole UTG; the shown state is the thread's; every end is reached |
| **Task record service, connections** (same file) | `device_locks`, `connections`, `device_streams`, the sessions of the device | connect, authenticate, start and stop the stream, disconnect, broadcast | a client reconnects while its last connection is being torn down | one user per device; a disconnect stops its own recording only, and ends |
| **UTG service and cache** (`utg_service_v2.py`) | per dataset a cached UTG object, its file's mtime and a lock; `_cache_lock`; `utg.json` | read, some fifteen edits, create, load, invalidate, evict | the event loop and recording threads; two kinds of locks; validity by mtime | no edit is lost and no entry is older than its file but by the race named below; an eviction waits for edits |
| **UTG graph** (`droidbot/utg.py`), in part | nodes, events with ids, first and last state | add, remove, restore, update, branch, reload, save | ids by counting, shared sets of event strings, reload order | the client's edits do what they say |
| Batches, allocations, claims (`crud/batch*.py`, `routers/batch*.py`) | database rows | claim, assign, limit, delete | limits checked before rows are written, several ways to get a task | limits hold; no recording is orphaned |
| Tasks, recording rows and their repair (`crud/task.py`, `crud/recording.py`, `recording_exception_service.py`) | database rows and directories | create, ensure, delete, repair | rows and directories change apart | every directory has one row |
| Cloud devices (`cloud_device_service.py`) | ADB of a pod, on the vendor's side | connect, disconnect, refresh | two clients switch ADB off and on | the address handed out is the one that works |
| Users, authentication, routers, schemas, models, startup, local device list | rows, none | thin wrappers, pure I/O | – | – |
| DroidBot device and exploration | the device | adb calls | – | only outcomes matter to the recording |

### The browser client

| Component | State | Operations | What is hard | What makes it correct |
|---|---|---|---|---|
| **Session and navigation** (`app.js`, `api/client.js`, `user-manager.js`) | token, refresh cookie, workspace id, last bootstrap, the view shown | requests with token refresh, login, logout, bootstrap with retries, expiry handlers, six views | answers arrive after a logout, a login or a replacement; each view hides its own list of others | the workspace shown is the user's and the one requests name; a live one is not given up |
| **Recorder, device connection** (`task-recorder.js`) | `websocket`, `isConnected`, heartbeat, reconnect timers | connect, disconnect, show, hide, the socket's handlers, reconnect | handlers speak of `this.websocket`, not of their own socket; `connect()` awaits twice | what is shown as connected is open; no socket is lost; every attempt settles |
| **Recorder, recording** (same file) | recording, paused and pending flags, session id, buttons, keepalive timer | start, stop, pause, resume, four operations, the server's messages | commands and answers cross; sessions expire and threads die | page and server agree; one operation at a time; a stop ends |
| **Current recording** (`data-editor.js`, `task-recorder.js`, `utg-viewer.js`, `app.js`) | three copies of one name, the graph and the task info | switch, release, restore, edit and save the task info | no request but one names its recording | the copies agree; a text goes back to where it was read |
| **Node editor and its dialogs** (`node-editor.js`, `utg-viewer.js`, `deleted-nodes-dialog.js`, `confirm-dialog.js`) | the graph drawn, the selected node, the event edited, the dialog | every edit as request, reload and delayed refresh; shortcuts | edits overlap; dialogs are singletons; rows are found by index | the view is current; what is sent is what was shown or clicked |
| **Event form** (`event-edit-dialog.js`, `event-str-parser.js`) | parsed fields, inputs, an image editor | parse, change of type, typing, drawing, writing the string | recorder and form spell an event differently; incomplete values; pixels are rounded | an unedited form saves the same event; a box lies in the picture |
| **Labels form** (`labels-edit-dialog.js`) | labels, score, feedback, `label_meta` | type, add, rate, save | a score may be a label, an input or a key | what is saved agrees with itself |
| Pages of tasks, batches, devices, exceptions, users | tables | reload after each request | – | – |

How they interact. A page bootstraps a workspace over HTTP and sends its id with
every later request. Its WebSocket authenticates with the workspace, which
creates a *device session* and takes the *device lock*. `start_recording` creates
a *runtime session*, a `RecordingSession`, its thread and its monitor task. The
handler puts commands in `event_queue`; the thread executes them, calls
`UTGServiceV2` synchronously, and puts answers in `response_queue`; the monitor
forwards them and sets the runtime state. HTTP routes call the same
`UTGServiceV2` on the event loop's thread. The expiry of a workspace or a device
session is noticed by the connection at its next receive timeout, and told to the
page as a *session event*, which disconnects the recorder. An answer
`WORKSPACE_EXPIRED` makes the page bootstrap a replacement, `AUTH_EXPIRED` makes it
log out. The recorder, the editor and the viewer call each other directly through
`window.app`.

`PROJECT.json` lists the hazards at the lines where they bite.

## 2. Modules

| Module | Models | State ↔ code |
|---|---|---|
| `WorkspaceState` | all of `WorkspaceStateManager` that changes state, one action per method | the four dictionaries; time stamps are ages that saturate one past their timeout, which is all the comparisons can see |
| `RecordingLock` | nothing of the code: the abstract lock the leases promise | `WorkspaceState!Lock` maps the owners and the lapsed leases to it |
| `RecordingWorker` | the thread of one recording, from both queues to the UTG | a screen is the number of events executed when it was captured, an event its index in `sent`; `faults` and `misfires` are ghosts that count failures |
| `RecordingSession` | EXTENDS `RecordingWorker`: the service, monitor, database job and disconnect of one recording | `monitor` is where `_monitor_responses` awaits, `stop` who holds `recording_sessions_lock` for a stop; the first state is the one `start_recording` leaves |
| `DeviceConnections` | the coroutines of all connections to one device | `pc[c]` is the await a connection is at, `lockq` the FIFO of the asyncio lock, `Other` the traffic of the other devices |
| `UTGCache` | cache, locks, loads, evictions and edits, in any number of threads | a step is what a thread does between two lock acquisitions; both kinds of lock are `RLock`s (`LockFree`, `EntryFree`); a UTG object is the set of edits it has, an mtime the number of writes; `raced` is a history variable |
| `RecorderConnection` | the page's WebSockets, and `connect_device_stream` as seen from it | `dialing` counts the `connect()` calls at an await, `sock` the browser's sockets, `websocket` is `this.websocket` |
| `RecorderRuntime` | a recording on the page over two FIFO channels, and the service's side | the flags of `TaskRecorder` by their names; `starts` are the `startRecording()` calls that await the token |
| `BrowserSession` | login, tokens, bootstrap, expiries and views of a tab | `calls` are the functions at an await, with the request they wait for; `applied` is the workspace of `lastBootstrapState` |
| `CurrentRecording` | the copies of the current recording and everything that changes one | `editor`, `recorder`, `viewer` are the three objects; a call has the requests it still has to make; `disabled`, `clear`, `modes` and `starting` are the recorder's controls; an answer to a set or a release may be lost after the server has applied it |
| `UTGEditing` | the edits of a graph, their dialogs and the server's graph | `calls` go through request, reload and refresh; `dialog`, `confirm` and `panel` are what is on the page, `graph` what `utg.py` makes |
| `EventForm` | one event from its string to the form, the image editor and back, and what the server reads in a string (`from_event_str`) and writes for a new event (`get_event_str`) | a field's value is of a class (a number, digits, text with a comma, a box in one or in two brackets, incomplete...), and a string has its fields in the schema's order or not; a box is on one axis of a picture |
| `LabelsForm` | the labels of one state from opening the form to saving it | the inputs by the ids of their elements; a score is one of two, or out of range |
| `EditForms` | both forms on one page | one is opened while the other is closed |
| `MC*` | instances for TLC | – |
| `Workspaces_proofs`, `RecordingSession_proofs`, `DeviceConnections_proofs`, `UTG_proofs`, `RecorderConnection_proofs`, `RecorderRuntime_proofs`, `CurrentRecording_proofs`, `EditForms_proofs` | theorems about the module of that name; `RecordingSession_proofs` also has those about `RecordingWorker`, which its module EXTENDS; `Workspaces_proofs` those about `WorkspaceState` and `BrowserSession`, the workspaces on the server and in a tab; `UTG_proofs` those about `UTGCache` and `UTGEditing`, a graph on the server and on the page | – |

Concurrency. In `WorkspaceState` every method holds one `asyncio.Lock` and never
suspends under it, so a method is one action. In `RecordingSession` and
`DeviceConnections` a step is what a coroutine does between two awaits that may
really suspend. In `UTGCache` the actors are operating-system threads: the
handlers of the event loop never await inside the service and so are one thread,
`loop`, and each recording is another. The page is one event loop too: in the
client's modules a step is a user's event, a timer or an answer, run to its next
await, and a request is served at a moment of its own before its answer is
handled, so answers may overtake each other.

The client's modules keep what the server does as small as it can be: the half of
`WorkspaceState` a tab can see (owner and life of a workspace) is in
`BrowserSession`, the half of `DeviceConnections` (one socket is served, the others
are refused) in `RecorderConnection`, `RecordingSession` as a thread with a queue in
`RecorderRuntime`.

Definitions marked `Mutant:` are plausible bugs. No specification uses them; they
show that each property can fail.

## 3. Runs

Every run explores its whole bounded state space and finds no error, but `utg_deadlock`,
which ends at the violation it is there to show.

| Run | Question | Bounds | States |
|---|---|---|---|
| `workspace_leases` | is the lease table a lock, and does it stay in step with the workspaces? | 3 workspaces, 2 recordings, idle time of 2 ticks | 9 320 |
| `workspace_sessions` | do sessions form a tree, one per serial, and is the expired collected and never revived? | 2 workspaces, 1 recording, 1 serial, 2 device sessions, 1 runtime | 93 178 |
| `session_life` | does every recording end well, and what do failing calls do to its transitions? | 3 commands and a shutdown; both modes; every call, start, metadata job and join may fail | 511 135 |
| `utg_threads` | what of an edit survives two threads, loads and evictions? | event loop and recording thread, 3 datasets, a cache of 1, 2 edits, 3 loads, entries grow old, saves may fail | 5 017 510 |
| `utg_deadlock` | does an eviction that waits for an edit end? (it does not) | event loop and recording thread, 1 dataset, 1 edit | 266 |
| `connections` | do overlapping connections keep the device exclusive? | 3 connections, streams may fail | 39 062 |
| `recorder_connection` | is the connection shown real, and the only one? | 2 sockets, 2 dials at once, 2 reconnects | 160 943 |
| `recorder_runtime` | do page and server agree on the recording? | 2 recordings, channels of 2 | 115 403 |
| `browser_session` | whose workspace does a tab show, and does it keep it? | 2 users, 2 workspaces, 3 begun acts, 2 calls at once, 2 faults | 640 871 |
| `current_recording` | do the three copies of the current recording agree? | 2 recordings, 2 begun acts, 1 expiry and replacement, answers may be lost | 3 001 776 |
| `utg_editing` | do overlapping edits act on what was shown, and is the view current? | 2 nodes, 2 event strings, 2 edits, 2 calls at once, 1 fault | 2 465 467 |
| `event_form` | do the forms keep what was not edited, and save what agrees? | 4 event strings and 2 states, picture of 3 at two zooms; 2 openings, 2 changes | 2 234 935 |

Why the bounds are enough. Three workspaces are a holder, a contender and one
that takes over after them; two recordings let a workspace leave one for
another. An idle window of 2 tells "now", "nearly over" and "over" apart. In
the worker a hazard needs an event, something that disturbs its flush, and the
next flush: three commands. A third connection can arrive while a second one is
torn down after a first. A cache of one entry makes every load evict; two loads
of one dataset and an edit between them are what a stale object needs, and a third
dataset is one to be evicted for. The deadlock needs one dataset and one edit. On the
page a crossing needs two calls under way, and the third act in
`browser_session` lets a user return; two sockets are the one that is lost and
the one that replaces it, and two recordings the one whose answers arrive late
and the one they meet. An edit that is overtaken needs one other edit. A picture
three pixels wide, shown at two and at four, rounds in both directions. A form
that was opened twice has read what it wrote. The event strings are those the recorder
writes, a swipe with its views and boxes in two brackets among them, one of a type that
is no longer offered, cut off in its box, and one that is no event.

Deadlock is checked for the workspace manager, which has no final state. The other
specifications may stop: a stopped recording, closed connections, used-up
bounds (the constants named `Max...`, and the ids of each kind).

Each module with variables has a type invariant, `TypeOK` (`TabTypeOK` in
`BrowserSession` and `EditorTypeOK` in `UTGEditing`, whose proofs share a module with
those of another, as their `TabInit`, `TabNext`, `TabSpec` and `EditorInit`, `EditorNext`,
`EditorSpec`). It holds in the runs of
its module; the configurations leave it out because it says nothing a program of
this kind gets wrong. It is proved for `WorkspaceState`, `RecordingWorker`,
`DeviceConnections` and `RecorderConnection` (`TypeCorrect`), `RecordingSession`
(`SessionTypesCorrect`), `RecorderRuntime` and `CurrentRecording` (`TypesCorrect`), `BrowserSession`
(`TabTypesCorrect`), `UTGEditing` (`EditorTypesCorrect`) and, as a
part of `EntriesHaveObjects`, `UTGCache`.

### Properties

The server:

* `NoOrphanLease`, `LeaseWithinIdleWindow`: a lease has an owner that names it, and
  dies before the owner does. `ExpiredStaysExpired`: no late call brings a workspace or a
  device session back from expiry. (A lease that has lapsed may be renewed by its
  holder and a runtime session by `set_runtime_state`, until they are collected.)
  `ImplementsRecordingLock`: the lease table refines `RecordingLock`.
* `NoDanglingSession`, `OneSessionPerSerial`, `ExpiredIsCollected`: the tree of
  sessions and the exclusive serial survive every order of releases, expiries and
  cleanups, and what stays expired is removed.
* `NoTransitionSpansAnEvent`: a transition starts on the screen its event was
  executed on and ends before any other recorded event, and before anything done
  while paused. `SourceIsPersisted` and `FaultsAreLocal` bound what a failure can cost:
  each lost transition has a fault of its own, each repeated one a misfire.
* `RuntimeSettles`: the runtime state is written by the handler when it queues a
  pause and by the monitor when it is answered; once both queues are empty it
  is the thread's own state.
* `CompletedIsWhole`, `EveryEndIsReached`: the last event of a completed task has its
  transition, and shutdowns, disconnects and aborts come to an end.
* `OneUser`: a device is locked exactly while one connection uses it.
  `RecordingHasClient`, `StopsOwnRecording`: because the lock is granted in order,
  a disconnect, which stops every recording of the *device*, never stops the
  one of a newer connection, and `DisconnectCompletes`. `StreamIsLive`: a stopped
  stream is not left behind.
* `EvictionWaits`: whichever threads load and evict, no entry leaves the cache, and none is
  replaced, under the holder of its lock. `NoLostUpdate`: an edit reported successful
  stays in `utg.json`, and `CacheIsCurrent`: a cached graph has what its file has. Both
  hold beside a recording thread but for one race, which `raced` remembers: an edit has
  locked an object that had left the cache since `_get_utg_with_lock` found it.
* `EvictionEnds` says what a comment says, that an eviction waits for the operations
  under way; it is violated, see *States worth knowing*.

The page:

* `ConnectedHasSocket`, `NoOrphanSocket`, `ConnectSettles`: whichever sockets open,
  close, are lost or refused, a page that says "connected" or sends pings has an
  open, greeted socket; as long as `connect()` does not overlap an unfinished
  connection it has a handle on every living socket; every socket is served or
  closed in the end.
* `PageIsRight`, `OneOperation`, `StopSettles`: once every message is handled the
  recording on the page is the server's, paused when that is, with the keepalive
  it needs; there are never two operations on their way to one thread; a stop
  ends the recording on the page.
* `OwnWorkspace`, `OthersHidden`, `KeepsLiveWorkspace`: what the page shows is the
  workspace of the user logged in and the one requests name; a view is alone; a
  failing bootstrap never gives a live workspace, and so its leases, up.
* `PageAgrees`, `ControlsOwned`, `SavesWhereRead`: in quiet, graph, task info and the
  editor's selection are those of the server's recording. The recorder's selection
  controls stay disabled while a recording runs, whatever else ends meanwhile, and are
  disabled otherwise only by a start that awaits its answer or by a switch under way.
  A text is saved to the recording it was read from, or not at all.
* `ViewIsCurrent`, `SavesWhatIsShown`, `DeletesWhatWasClicked`: in quiet, graph and
  details are the server's; an update names the event its dialog shows; a deletion
  names the row that was clicked.
* `BoxInside`, `UneditedIsKept`, `LabelsAgree`: a box written by the image editor lies
  in the picture; a form saved as it was opened sends a string, differently spelt
  perhaps, that the server reads as the same event and that opens as the same form, and
  keeps the labels; labels and `label_meta` agree whatever was typed before.

### Fairness

* `WorkspaceState`: the cleanup task loops while the server runs, and time passes.
* `RecordingWorker`, `RecordingSession`: the thread, the monitor, the database job
  and a stop in progress keep running (device calls return; a join is bounded by
  10 s). Clients need not do anything.
* `DeviceConnections`: a coroutine that is resumable is resumed; whoever holds the
  lock for another device gives it back, because joins are bounded.
* `UTGCache`: a thread that can go on does; nothing is assumed about who gets a lock, nor
  that anybody starts an operation.
* `RecorderConnection`, `RecorderRuntime`: requests are answered or fail, timers fire,
  both event loops get to the messages that have arrived. A lost connection closes
  its socket. Users need not do anything.

### States worth knowing

The models reach states that the code or its documents do not intend. Each
property above says exactly where it stops, by a history variable (`overlap`,
`crossed`, `raced`, `unrefreshed`, `muddled`...) or by a condition, and what lies
beyond is this.

On the server:

* Reopening a page refreshes the workspace and not its lease; the lease lapses,
  another workspace takes it, and both have the recording as their current one
  (`session_config.py` 261).
* An action that cannot be built or sent comes after the pending transition was
  flushed and before the pending event is replaced, so the next flush adds it
  again (`recording_worker_thread.py` 231): a repeat is a misfire in `FaultsAreLocal`.
* A stop cancels the monitor before it has handled `recording_ready`; the task is
  completed and its directory has no recordings row (`task_record_service.py` 208).
* **Finding.** An edit takes `_cache_lock` under its entry's lock to stamp the entry
  (`utg_service_v2.py` 114), an eviction takes an entry's lock under `_cache_lock` (136).
  `utg_deadlock` shows them wait for each other for good: a recording thread has saved
  and not yet stamped, and a read on the event loop takes the entry for outdated. The
  event loop, and with it the server, then stands still. The comments at 132 and 135
  say that the eviction waits until the operations are over.
* An object is looked up (171), evicted, and then locked, edited and saved over a newer
  file: this is the race that `NoLostUpdate` and `CacheIsCurrent` except.
* A client that connects while its predecessor's `stream.stop()` is awaited is served
  without a stream once the dictionary entry is deleted (`task_record_service.py`
  1062–1067). A socket whose stream failed to start stays in `connections`, so the
  next disconnect does not stop its stream (904).

In the recorder:

* Two clicks on *connect*, or a reconnect beside a click, leave a socket without a
  handle, which keeps the device lock. `show()` while connected shows the page as
  not connected beside its open socket, and so does a failing second dial.
* A page that is closed reconnects: `hide()` clears `userDisconnected` last, and the
  close event of its socket comes after. The chain of attempts ends at the first
  one whose request fails or whose device is refused.
* The mode and the task of a start are read before and after its await. A start
  swallowed by a closed socket leaves its button disabled. So does a recording thread that
  dies while it starts, which is reported as the feedback of an operation only, until
  the runtime session expires.
* A start disables the selection and the mode until it is answered
  (`task-recorder.js` 2042). A switch that ends meanwhile, a heartbeat that comes late and
  a connection state that is drawn anew enable them again. `handleRecordingReady`
  disables the selection once more and not the mode, which can then be changed during
  that recording, though a comment (1402) says that it cannot.
* A stop that crosses an operation leaves `operationPending` set, and a resume
  answered after the runtime has expired starts a keepalive with no recording.

In the session and the current recording:

* Two `WORKSPACE_EXPIRED` answers make two replacement workspaces. A failing
  bootstrap within a login leaves the token set under the login form; a failing
  `loadCurrentUser` logs out while the login goes on.
* A late refresh answer after a logout restores the token, and a late
  `AUTH_EXPIRED` after a new login removes the new one.
* A switch in the editor leaves the recorder's copy of the name; choosing that name
  in the recorder then returns early, although the server is elsewhere.
* When switches cross, the task info of one recording can be saved to another, and
  a late answer replaces a text that is being edited.

In the editor of the graph:

* A reload while a deletion waits for its confirmation can move another event to
  its row. Reloads answered out of order draw the older graph.
* A restore, and a deletion with no node selected, leave the details as they were. So
  does the deletion of an event when the node that was selected at its confirmation
  has been removed by the time it is refreshed (`node-editor.js` 476–481), whatever node the
  details show by then. It takes three edits, one more than the run allows; there the
  theorem `ViewCorrect` says that nothing else goes wrong.
* A save closes whatever dialog is open when it is answered.
* Saving an event form respells the event the recorder wrote: `bbox=((l,t,w,h))` gets
  single brackets (`event-str-parser.js` 136, 373), and the two views of a swipe, which the
  form's schema does not have, go behind its other fields (271-276). The server reads
  both alike. A new event is stored in the recorder's spelling, a changed one as sent.
* Texts do not all survive that form: blanks around one are cut off, a comma cuts it, one
  with "(1,2)" in it becomes a point, a number in another form and an empty text are read
  by `parseInt`, and a view that was never filled in is written as JSON and cut.
  These are what `Sound` leaves out of `UneditedIsKept`, with the text cut at a comma,
  which the server cuts too, kept in.
* `_incomplete` is never cleared, so corrected coordinates of an incomplete value are
  discarded. A bracket that is missing anywhere but at the end of the string makes the
  parser take the fields behind it for a part of the value, and so does a quote in
  the text of a view; `Sound` leaves out the first, the model the second.
* *Apply* in the image editor before the image has loaded writes the origin; Escape
  leaves the image editor open over the next event.
* In the labels form every label that starts with a number up to 100 counts as a
  score ("3D_TOUCH") and is dropped, and a score typed as a label is dropped too
  instead of moved to its input.

## 4. Proofs

Of the server, `Workspaces_proofs` proves, for all sets of workspaces, users, recordings,
serials, device sessions and runtimes and all timeouts, from the assumptions
`TimeoutAssumption` (the timeouts are naturals), `IdleAssumption` (the workspace
timeout is not 0: with 0 a lease would be dead when granted) and
`NoneAssumption`:

* `TypeCorrect`, `LeasesHaveOwners`, `LeasesEndWithOwner`, `SessionsFormATree`,
  `DevicesAreExclusive`: the invariants of the two runs;
* `ExpiryIsFinal` (`ExpiredStaysExpired`), for workspaces and for device sessions: every
  call that renews one checks its age first, also where another's expiry is collected in
  the same step;
* `LeasesImplementLock`: the refinement of `RecordingLock`.

The inductive invariant `IInv` is the conjunction of the five invariants. None
but the type invariant is inductive alone: a release finds the lease of a
workspace through `current_recording`, so it frees every lease only because of
`NoOrphanLease`; `LeaseWithinIdleWindow` speaks of the owner's age, which is reset
when an id is collected, so it needs `NoOrphanLease` too; the cascades of
`NoDanglingSession` need the types. The releases are proved once
(`ReleaseWorkspacesIInv`, `ReleaseDevicesIInv`, `ReleaseRuntimesIInv`), since most
actions end in one, then each action, then `NextIInv`. The refinement has one lemma
per kind of step (`FreeSimulated`, `SetCurrentSimulated`, `TouchSimulated`,
`TickSimulated`), combined in `StepSimulated`.

Of a tab, it proves for any users and any number of workspaces, calls, begun calls and
faults, from `SessionAssumption` (the bounds are naturals) and `NobodyAssumption` (no user
has the name that stands for nobody or for a workspace that does not exist):

* `TabTypesCorrect`;
* `PageIsOwn` (`OwnWorkspace`) and `ViewsHidden` (`OthersHidden`);
* `LiveWorkspaceKept` (`KeepsLiveWorkspace`, an action property).

The inductive invariant `TabIInv`, which the run's bounds confirm as well, says what a page
and a call under way hold:

* `CallTrue`: a workspace is named only once it exists, a call stands at a step of its
  kind, and an answer stays true until it is handled, for a workspace keeps its owner
  and does not come back to life: that is why a bootstrap that was answered
  "expired" may still give the workspace up long after;
* `CallMine` and `PageMine`, while nothing has crossed: a call carries the page's token and
  names its workspace, unless the server has just made one; a page that is about to
  bootstrap has restored nothing; what is restored is the workspace the page names and
  belongs to its token, and the refresh cookie is of the same user;
* `Display`: beside the current view only a flag that the row or the control panel
  covers is left.

`OwnWorkspace` alone speaks of a quiet tab only, and `KeepsLiveWorkspace` needs that what
an old answer says is still so. `Allowed(p, cs)` is what the code after an await has to
show of the page `p` it leaves and of the calls `cs` that go on from it, and `ResumeAllowed`
that this keeps `TabIInv` and the workspace; one lemma per function of the page (`ShowPage`,
`AuthExpiredPage`, `LoggedOutPage`...) says what it may change, one per answer that it is
allowed. `QuietStep` does the rest but the making of a workspace (`CreateWorkspace`).

Of the thread by itself, `RecordingSession_proofs` proves, for any number of commands
and any set of calls that may fail (`FailureAssumption`, `CommandAssumption`, `NoneAssumption`):
`TypeCorrect`, `TransitionsAreSound` (`NoTransitionSpansAnEvent`) and
`SourcesArePersisted`. Its `IInv` adds to the recorded transitions what the worker
remembers between events, because a transition is added long after its event:
the add calls made so far are sound (`SoundCalls`), the pending event is the last
one executed (`PendingIsLast`) and it has its screen (`PendingHasScreen`), and
nothing is pending once a pause took effect (`PauseIsClean`). `DamageIsLocal`
(`FaultsAreLocal`) counts: every flush either adds the pending transition or is paid
for by a fault (`Cost`), and an event that is still pending after its flush, which
is what will be added again, has already been counted as a misfire (`OwesRepeat`,
`RepeatsCounted`).

Of the session, it proves, for any number of commands, any failing calls, and whether or not joins
time out and the database fails (`ModeAssumption` and those of the worker):

* `ThreadStaysSound`: the worker's `IInv` and its account of faults hold with the whole
  service around the thread, from which `SessionKeepsRecordingSound` has the
  worker's three properties again. Every step of the session is one of the
  thread's that leaves the service alone, or touches the thread at its two queues
  only (`AtQueues`, `SessionSteps`), so the worker's lemmas carry over.
* `CompletedTasksAreWhole` (`CompletedIsWhole`): a task is completed only when it is out
  of `recording_sessions` and its thread has stopped or its join has timed out
  (`CompletedIsStopped`); a thread that stopped with no fault has lost nothing.
* `StateShownSettles` (`RuntimeSettles`): a pause travels through `event_queue`, the
  thread, `response_queue` and the monitor to the runtime session. `Pipeline` says
  of each stretch what the last answer on it tells, when nothing of the kind is
  behind it: in the queue (`AnswersTell`), in the monitor's hand (`ForwardedTells`,
  `ReadyTells`), and shown (`ShownTells`).
* `SessionTypesCorrect`.

`DeviceConnections_proofs` proves, for any number of connections
(`ConnectionAssumption`): `TypeCorrect`, `DeviceHasOneUser`,
`RecordingsHaveClients` and `DisconnectStopsItsOwn`. `OneUser` is inductive with the
types. The other two are about the order of `lockq`: each waiter is in it once and
is at an await of the lock (`QueueIsSet`, `QueueMatchesPc`, `JoiningHasLock`), who
leaves the device has asked before its next user could (`LeaversFirst`), and the
owner of a recording leaves before anyone else does (`SessionBeforeLeavers`). So
the holder of the lock finds no session but its own (`HolderAlone`). `TailQueue`
and `AppendQueue` say what a release and a request do to that order. `StreamsAreLive`
(`StreamIsLive`) follows the stream through the awaits of a disconnect.

Of the cache, `UTG_proofs` proves, for any datasets and sizes, any number of threads with
any operations, and whether or not entries grow old and saves fail (`DatasetAssumption`,
`ThreadAssumption`, `ModeAssumption`, `BoundAssumption`, `NoneAssumption`):

* `EntriesHaveObjects` (types, and no entry without its object) and
  `EvictionsWait` (`EvictionWaits`). `Load` and `Insert` overwrite an entry without
  asking for its lock, so what has to be shown is that there is none: whoever loads
  has evicted it under `_cache_lock` (`LockHeld`, `LoadMisses`), and a recording's
  directory is known to its creator alone until its UTG is cached (`FreshUnknown`,
  `InsertAlone`);
* `EditsAreKept` (`NoLostUpdate`) and `CacheStaysCurrent` (`CacheIsCurrent`). Whoever edits
  an object holds its lock, and nobody else does (`LocksOwned`). The invariant `CInv`
  says of a dataset that has not raced that its entry has all its file has
  (`EntrySound`), and that the object being edited is the cached one until its lock is
  released (`CallSound`): it was when it was locked, and no eviction takes it before. So
  its edits are made one after the other on one object, and a new one is loaded
  only while none of them is under way. Without `raced` the second part fails at
  `Acquire`, where an eviction may have come between the lookup and the lock.

Of the editing of a graph, it proves for any states, event strings and recorded events,
and any number of edits, calls in flight and faults (`RecordedAssumption`, `TypedAssumption`:
the events are of the recording's states and strings, and what is typed is a string;
`NullAssumption`):

* `EditorTypesCorrect`;
* `ViewCorrect` (`ViewIsCurrent`);
* `SavesShown` (`SavesWhatIsShown`) and `DeletesClicked` (`DeletesWhatWasClicked`), action
  properties.

`ViewIsCurrent` speaks of a quiet page, the inductive invariant `EditorInv` of a busy one.
It follows the `Snapshots`, which are the graphs of the server and of the page and those
answered to a reload, told apart by the edits they have seen (`Versions`), and the calls
that have still to land:

* `Reloads`: the page has the server's graph, or a call will still read one as new;
* `PanelFollows`: details that are stale have a refresh due, or a call that lands, since
  every handler ends with a refresh, a text in the panel, or one of the exceptions. A
  refresh of a node that is not drawn changes nothing, so what has to be shown is
  that the call which removed the node has not landed yet (`NodesLast`), and that one in
  turn puts a text there. For this a node that one snapshot has and a newer one lacks
  must have been removed by a call that has not yet read the newer;
* `PanelIsDrawn`, `ConfirmIsDrawn`: what the details list, and what a confirmation was
  asked for, is of the graph it was drawn from, wherever that is still found. A
  deletion looks its row up again by edge and index, so `DeletesClicked` rests on a lemma
  about `IndexOf`: an id names one event of a graph (`IndexGrows`, `RowNamesOne`);
* `ShownIsKept`: dialog and fields agree until adding an event throws half way.

The lemmas about the graph say what the operators make of it: `NthIsOne` and `KeepIsOf`
of positions and what is kept of a sequence, `EditedIsSound` that every edit of `utg.py`
leaves a graph whose events have their ends, and only a removal takes a node out.
`StillStep` has the steps that draw nothing, `ShowStep` those that draw the panel;
`MadeEditStep` and `AnswerLoadStep` are the two that change a graph.

`RecorderConnection_proofs` proves, for any number of sockets, dials and reconnect
attempts (`RecorderAssumption`): `TypeCorrect`, `ConnectionIsReal`
(`ConnectedHasSocket`) and `SocketsHaveOwner` (`NoOrphanSocket`). The first is inductive
with the types, since every step that takes an open socket away ends what was shown
of it (`ShownStays`, `NothingShown`). The second needs `OneDial`: without overlap one
`connect()` is under way at most, and while it is no earlier socket is left, so the
socket it makes is alone. `NoneRevived` is the step in general: no socket is made,
none comes back to life, and `this.websocket` is forgotten only when it is closed.

`RecorderRuntime_proofs` proves, for any number of recordings, starts and messages under
way (`RuntimeAssumption`): `TypesCorrect`, `PageStaysRight` (`PageIsRight`) and
`OperationsComeOneByOne` (`OneOperation`). Both properties are far from inductive,
because the page and the thread are two FIFO channels and a queue apart:

* `PageIsRight` speaks of empty channels. `Agreement` says of full ones what the messages
  on them will make true: the last message about the thread tells what it does, and
  no feedback behind that message invents a pause (`StateTells`, `FeedbackTells`); a
  recording that is told to run is kept by the server, or its end is told behind
  (`ReadyTells`); nobody has heard of a recording before its thread is ready
  (`UnheardIn`, `PageHeard`), which is why a new thread cannot be taken for the one the
  page shows. A stopped keepalive has a stop or a pause on its way (`PageKeepsAlive`).
* `OneOperation` counts the channel and the queue. `Order` says that an operation that is
  not answered is in one place: the channel up, the queue, or the channel down as its
  feedback (`OneOnItsWay`), and that `operationPending` stays set until then. The page
  clears that flag without an answer only where it stops recording, so what has
  to be shown is that a new recording begins with empty channels: a start clicked
  when nothing is left meets nothing on its way to the thread, nor does the answer on
  its way back (`StartWaits`, `StartTravels`, `ThreadStarts`, `ReadyTravels`), and a stop,
  whichever session it names, ends the only thread there is (`KeptIsAlive`).

The lemmas about channels (`AppendHas`, `TailHas`, `AppendOne`, `TailOne` and the
`Append...` and `Tail...` of what messages tell) say what one message added or taken
does; each action then takes one of a few forms (`SendOrder`, `TakenOrder`,
`OverAgreement`, `StateAgreement`, `QuietAgreement`).

`CurrentRecording_proofs` proves, for any recordings and any number of calls,
bootstraps and expiries (`CurrentRecordingAssumption`: the bounds are naturals, and a
call and a bootstrap are allowed at all; `NamesAssumption`: no recording is named like
one of the model's marks): `TypesCorrect`, `PageSettles` (`PageAgrees`),
`ControlsComeBack` (`ControlsOwned`) and `SavesAreRead` (`SavesWhereRead`). `PageAgrees` speaks of a
quiet page, and the inductive invariant `IInv` of a busy one:

* while nothing has crossed (`Settled`), each copy that is not the server's name is
  *owed*: some call under way will still write it (`TextTrue` and `OwesText`, `UtgTrue`
  and `OwesUtg`, `EditorTrue` and `OwesEditor`). When no call is left, nothing is owed;
* what a call carries is true: an answer that holds a name holds the server's
  (`AnswersTrue`), a name that was set is still set (`SetTrue`), a save that was begun
  alone has the name its text was read from (`SaveTrue`);
* a call begun alone is alone for as long as nobody begins another (`AloneIsAlone`);
* a loading control has its call, a disabled one a call, a start or a recording
  (`DisabledOwned`, `LoadingOwned`), and a running recording keeps the controls disabled
  (`RecordingHeld`), since every handler that ends beside it looks at `isRecording`
  (`KeptControls`).

`Fresh(c, p, todo)` says what the code after an await may do to the page without
breaking a promise, and `ResumedInvariant` that a step of that form keeps `IInv`;
each kind of answer then has a lemma that its handler is of that form.
`BegunInvariant` does the same for what a user begins and `ServeInvariant` for the
server.

`EditForms_proofs` proves, for any recorded labels and event strings, any size of the
screenshot, any sizes it is shown at, and any number of openings and changes:

* `SavedLabelsAgree` (`LabelsAgree`). `LInv` says that while the form is open nobody else
  writes the state (`FormOfNode`), and that until the user changes something the
  inputs are those it was opened with (`AsOpened`);
* `UneditedFormsSurvive` (`UneditedIsKept`), of which `UneditedLabelsSurvive` is the labels'
  half. For events, `EInv` has the strings and the values of the form in step:
  what is read can be held, what is held can be written, and until the user changes
  something the form is what the stored string is read as (`FormHeld`,
  `StringsWritten`, `EventAsOpened`). The round trip is not the identity: what is shown
  is that the string written has the same fields, that the server reads each of their
  values alike in both spellings, and that the parser does too;
* `BoxStaysInside` (`BoxInside`): while the mouse is down the image has loaded and the
  two ends are pixels of it (`ImageTypeOK`), and the box of two pixels, each
  coordinate rounded for itself and clamped, lies in the screenshot (`DrawnInside`).

They assume `LabelAssumption`; `WidthAssumption` (sizes are positive, and there is a
greatest one the screenshot is shown at); and `RecordedAssumption`: a recorded string
consists of the values the parser's patterns know, boxes in one or two brackets, where an
incomplete value is a point or a box and a view has text; its class and its fields
are any, in the schema's order or not. TLC evaluates it for the recorded strings of
the run.

Only model-checked:

* all liveness (`ExpiredIsCollected`, `EveryEndIsReached`,
  `DisconnectCompletes`, `ConnectSettles`, `StopSettles`), which is out of the prover's
  reach. `EvictionEnds`, liveness too, is the one property that does not hold.

Every invariant and action property that a run checks is stated by a theorem; what
the recursive function `Reached` of `UTGEditing` computes (the branch of a node) is not,
and no theorem needs more of it than that a branch consists of nodes of the graph.

## 5. Not modelled, and abstracted

* Batches, allocations, tasks, recording rows and cloud devices, with the pages that
  show them. Every handler is `async def` and calls the database synchronously in
  one process, so its statements do not interleave there; what remains are
  sequences of requests, in the plan below.
* The 10 ms tolerance of the mtime check: writes are counted, so two writes
  within 10 ms by a foreign process are out of scope.
* Reads that walk a UTG object without the entry's lock: a read is one step.
* What a failed save should leave in the cache: the code leaves the change in the
  object, and so `CacheIsCurrent` allows an entry to be newer than its file where saves
  may fail.
* Which event strings an edited graph holds: the strings of `UTGEditing` stand for events,
  and how an event is spelt is in `EventForm`.
* Event ids and the reload of `utg.py` through `utg.json`: `UTGEditing` has the graph as
  the edits make it, with events in the order of their ids.
* Layout, drawing, previews, notifications, frames, encodings and message texts. The
  two axes of a picture are treated alike by the code and are one in `EventForm`.
* Several tabs: each has a workspace of its own, and they meet in `WorkspaceState`
  and `DeviceConnections`. The token they share is not modelled as shared.
* Users, device lists and exploration: no shared state of their own that the
  platform's behaviour depends on.

## 6. Plan

Done: the server's `RecordingLock`, `WorkspaceState`, `RecordingWorker`,
`RecordingSession`, `UTGCache`, `DeviceConnections`; the client's `RecorderConnection`,
`RecorderRuntime`, `BrowserSession`, `CurrentRecording`, `UTGEditing`, `EventForm`,
`LabelsForm` and `EditForms`, with the theorems of section 4 about all of them.

Models next: the graph of `droidbot/utg.py` with its ids and its reload, batches and
claims (2 users, 2 batches, 3 tasks), recording rows against directories, and the ADB
switch of a cloud device.

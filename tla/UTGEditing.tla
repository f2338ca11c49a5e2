----------------------------- MODULE UTGEditing -----------------------------
(***************************************************************************)
(* Editing a recorded graph in the browser: the node editor, its shortcuts *)
(* and its dialogs (node-editor.js, utg-viewer.js, confirm-dialog.js,      *)
(* event-edit-dialog.js, labels-edit-dialog.js, deleted-nodes-dialog.js).  *)
(*                                                                         *)
(* Every edit is a request, a reload of the whole graph and a refresh of   *)
(* the details panel.  Nothing keeps the user from starting another edit   *)
(* in between, and the dialogs are singletons.  The server's graph is what *)
(* utg.py makes of the requests; events are in the order of their ids,     *)
(* which is the order the client lists them in.                            *)
(***************************************************************************)
EXTENDS Naturals, Sequences, FiniteSets

CONSTANTS Node,          \* the states of the recording
          Str,           \* event strings
          TypedStr,      \* those the user types
          Recorded,      \* the events recorded, in the order of their ids
          Null,          \* no node, no edge, no string
          MaxUserEdits,  \* how many edits the user starts
          MaxCalls,      \* how many requests are in flight at once
          MaxFaults      \* how many requests fail

ASSUME RecordedAssumption == Recorded \in Seq([from : Node, to : Node, str : Str])
ASSUME TypedAssumption == TypedStr \subseteq Str
ASSUME NullAssumption == Null \notin Node /\ Null \notin Str

VARIABLES graph,     \* the server's graph
          utg,       \* the graph last drawn
          cleared,   \* this.utg is null: a reload is under way or has failed
          selected,  \* the node selected in the network, or Null
          current,   \* NodeEditor.currentNodeId
          panel,     \* what the details panel shows
          editing,   \* currentEditingEdgeId, currentEditingEventStr, currentSourceNodeId
          dialog,    \* the event dialog, and the event or source it shows
          confirm,   \* the confirmation asked, and what was on the row clicked
          picker,    \* the dialog of deleted nodes
          calls,     \* requests in flight
          timers,    \* refreshes due in 100 ms, by the node they captured
          edits, faults,
          behind,    \* an older graph was drawn over a newer, or an answer was lost
          unrefreshed, \* a reload that no refresh of the panel follows
          muddled    \* addNewEvent overwrote the fields and then threw

editorVars == <<graph, utg, cleared, selected, current, panel, editing, dialog,
          confirm, picker, calls, timers, edits, faults, behind, unrefreshed, muddled>>
history == <<behind, unrefreshed, muddled>>

-----------------------------------------------------------------------------
(* The graph, as the client receives it.  ver counts the edits it has seen. *)

Event == [from : Node, to : Node, str : Str]
Edge == Node \X Node
Graph == [nodes : SUBSET Node, events : Seq(Event), ver : Nat]
LoadedGraph == [nodes |-> Node, events |-> Recorded, ver |-> 0]

OnEdge(e, f) == e.from = f.from /\ e.to = f.to

\* The k-th of a set of positions, and a sequence without the positions not kept.
Nth(S, k) == CHOOSE i \in S : Cardinality({j \in S : j <= i}) = k
Keep(s, kept) == [k \in 1..Cardinality(kept) |-> s[Nth(kept, k)]]

\* Mutant: every event of an edge has the id of the first.
IndexOfFirst(g, i) == 0

\* The index of an event in the list of its edge, from 0.
IndexOf(g, i) == Cardinality({j \in 1..(i - 1) : OnEdge(g.events[j], g.events[i])})

\* The rows listed for a node: `${edge.id}_${eventIndex}` and the event string.
Row(g, i) == [edge |-> <<g.events[i].from, g.events[i].to>>, index |-> IndexOf(g, i),
              str |-> g.events[i].str]
getOutgoingEvents(g, n) ==
    LET from == {i \in DOMAIN g.events : g.events[i].from = n}
    IN  [k \in 1..Cardinality(from) |-> Row(g, Nth(from, k))]

\* The edges with a number: the earliest event in or out of a node.
EarliestTo(g, n) == {i \in DOMAIN g.events :
    g.events[i].to = n /\ \A j \in 1..(i - 1) : g.events[j].to # n}
EarliestFrom(g, n) == {i \in DOMAIN g.events :
    g.events[i].from = n /\ \A j \in 1..(i - 1) : g.events[j].from # n}

Reached(g, start, without) ==
    LET step(s) == s \cup {g.events[i].to : i \in {j \in DOMAIN g.events :
                              g.events[j].from \in s /\ g.events[j].to # without}}
        n[k \in 0..Cardinality(Node)] == IF k = 0 THEN start \ {without} ELSE step(n[k - 1])
    IN  n[Cardinality(Node)]

\* The nodes that only a node leads to, by the tree of dominators.
find_branch_states(g, n) ==
    LET sources == {m \in g.nodes : \A i \in DOMAIN g.events : g.events[i].to # m}
        roots == IF sources = {} THEN {n} ELSE sources
    IN  {m \in g.nodes : m = n \/ m \in Reached(g, roots, Null) \ Reached(g, roots, n)}

remove_node(g, gone) ==
    [g EXCEPT !.nodes = @ \ gone,
              !.events = Keep(@, {i \in DOMAIN @ : @[i].from \notin gone /\ @[i].to \notin gone})]
remove_transition(g, old) ==
    [g EXCEPT !.events = Keep(@, {i \in DOMAIN @ : @[i] # old})]
add_transition(g, new) ==
    [g EXCEPT !.events = Append(Keep(@, {i \in DOMAIN @ : @[i] # new}), new)]
update_transition(g, old, new) ==
    [g EXCEPT !.events = Keep([i \in DOMAIN @ |-> IF @[i] = old THEN new ELSE @[i]],
                              {i \in DOMAIN @ : @[i] = old \/ @[i] # new})]
restore_node(g, back) == [g EXCEPT !.nodes = @ \cup back]

-----------------------------------------------------------------------------
(* The page *)

Text == [node |-> Null, rows |-> <<>>, ver |-> 0]
NoDialog == [kind |-> "closed", event |-> Null, source |-> Null]
NoConfirm == [kind |-> "closed", node |-> Null, row |-> Null, event |-> Null,
              nodes |-> {}, ver |-> 0]
NoPicker == [open |-> FALSE, list |-> {}, chosen |-> {}]
NoFields == [edge |-> Null, str |-> Null, source |-> Null]

\* Everything is answered.
Quiet == calls = {} /\ timers = {}

Covered == dialog.kind # "closed" \/ confirm.kind # "closed" \/ picker.open

\* A request: what it asks for, how far its handler is, what the server answered.
Op == {"delete_event", "update_event", "create_event", "mark", "delete_node", "branch",
       "delete_branch", "deleted", "restore"}
Ask == [event |-> Null, new |-> Null, nodes |-> {}]
Request(op, ask) ==
    [id |-> edits + 1, op |-> op, ask |-> ask,
     keep |-> IF op = "delete_event" THEN selected ELSE Null,
     stage |-> "edit", answer |-> "none", got |-> Null]

Send(op, ask) ==
    /\ Cardinality(calls) < MaxCalls
    /\ edits < MaxUserEdits
    /\ edits' = edits + 1
    /\ calls' = calls \cup {Request(op, ask)}

\* A read before a dialog is shown; asked for when nothing is in flight (a bound).
ReadOps == {"branch", "deleted"}
SendRead(op, ask) ==
    /\ Quiet
    /\ calls' = calls \cup {Request(op, ask)}
    /\ UNCHANGED edits

\* The node editor's fields are read by a save only, so they are dropped with the dialog.
closeDialog == dialog' = NoDialog /\ editing' = NoFields

\* The fields of the dialogs and the panel an action leaves alone.
page == <<dialog, confirm, picker, editing>>
view == <<utg, cleared, selected, current, panel>>
net == <<graph, calls, timers, edits, faults>>

\* showNodeDetails throws on the missing graph while a reload is under way.
showNodeDetails(g, gone, n) ==
    IF gone THEN UNCHANGED <<current, panel>>
    ELSE IF n \in g.nodes
    THEN current' = n /\ panel' = [node |-> n, rows |-> getOutgoingEvents(g, n), ver |-> g.ver]
    ELSE current' = current /\ panel' = Text

EditorInit ==
    /\ graph = LoadedGraph /\ utg = LoadedGraph /\ cleared = FALSE
    /\ selected = Null /\ current = Null /\ panel = Text
    /\ editing = NoFields /\ dialog = NoDialog
    /\ confirm = NoConfirm /\ picker = NoPicker
    /\ calls = {} /\ timers = {} /\ edits = 0 /\ faults = 0
    /\ behind = FALSE /\ unrefreshed = FALSE /\ muddled = FALSE

-----------------------------------------------------------------------------
(* The network *)

\* A click on a node selects it; a click on an edge shows its source and selects no node.
clickNode(n) ==
    /\ ~Covered /\ n \in utg.nodes
    /\ selected' = n
    /\ showNodeDetails(utg, cleared, n)
    /\ UNCHANGED <<utg, cleared, page, net, history>>

clickEdge(i) ==
    /\ ~Covered
    /\ selected' = Null
    /\ showNodeDetails(utg, cleared, utg.events[i].from)
    /\ UNCHANGED <<utg, cleared, page, net, history>>

\* W and S follow the earliest event into and out of the selected node.
selectPreviousNode ==
    /\ selected # Null /\ ~cleared
    /\ \E i \in EarliestTo(utg, selected) : selected' = utg.events[i].from
    /\ showNodeDetails(utg, FALSE, selected')
    /\ UNCHANGED <<utg, cleared, page, net, history>>

selectNextNode ==
    /\ selected # Null /\ ~cleared
    /\ \E i \in EarliestFrom(utg, selected) : selected' = utg.events[i].to
    /\ showNodeDetails(utg, FALSE, selected')
    /\ UNCHANGED <<utg, cleared, page, net, history>>

\* The node an operation starts from: the panel's, by its buttons, or the selected
\* one by a shortcut, which works under an open dialog too.
Started(n) == n # Null /\ ((~Covered /\ n = panel.node) \/ n = selected)

\* A bound: the user opens a dialog again while it is open, but no second kind of dialog.
Over(kind) ==
    /\ dialog.kind = "closed" \/ kind = "dialog"
    /\ confirm.kind = "closed" \/ kind = "confirm"
    /\ ~picker.open

-----------------------------------------------------------------------------
(* Operations that ask first *)

EventOf(row) == [from |-> row.edge[1], to |-> row.edge[2], str |-> row.str]

deleteNode(n) ==
    /\ Started(n) /\ Over("confirm")
    /\ confirm' = [NoConfirm EXCEPT !.kind = "node", !.node = n]
    /\ UNCHANGED <<view, dialog, picker, editing, net, history>>

\* The list of the branch is asked for before the confirmation.
deleteBranch(n) ==
    /\ Started(n)
    /\ SendRead("branch", [Ask EXCEPT !.nodes = {n}])
    /\ UNCHANGED <<view, page, graph, timers, faults, history>>

deleteOutgoingEvent(k) ==
    /\ ~Covered
    /\ LET row == panel.rows[k]
       IN  confirm' = [NoConfirm EXCEPT !.kind = "event", !.row = <<row.edge, row.index>>,
                                        !.event = EventOf(row), !.ver = panel.ver]
    /\ UNCHANGED <<view, dialog, picker, editing, net, history>>

\* The row with an id among the current node's, in the graph as it is now.
RowsWith(id) ==
    LET rows == getOutgoingEvents(utg, current)
    IN  IF cleared \/ current = Null THEN {}
        ELSE {rows[k] : k \in {j \in DOMAIN rows : <<rows[j].edge, rows[j].index>> = id}}

performEventDeletion ==
    IF RowsWith(confirm.row) = {}
    THEN UNCHANGED <<calls, edits>>
    ELSE \E row \in RowsWith(confirm.row) :
            Send("delete_event", [Ask EXCEPT !.event = EventOf(row)])

performNodeDeletion == Send("delete_node", [Ask EXCEPT !.nodes = {confirm.node}])
performBranchDeletion == Send("delete_branch", [Ask EXCEPT !.nodes = confirm.nodes])
restoreSelected == Send("restore", [Ask EXCEPT !.nodes = confirm.nodes])

confirmed ==
    /\ confirm.kind # "closed"
    /\ confirm' = NoConfirm
    /\ CASE confirm.kind = "event" -> performEventDeletion
         [] confirm.kind = "node" -> performNodeDeletion
         [] confirm.kind = "branch" -> performBranchDeletion
         [] confirm.kind = "restore" -> restoreSelected
    /\ UNCHANGED <<view, dialog, picker, editing, graph, timers, faults, history>>

refused ==
    /\ confirm.kind # "closed"
    /\ confirm' = NoConfirm
    /\ UNCHANGED <<view, dialog, picker, editing, net, history>>

\* Mutant: an open dialog is not filled again.
openUnlessOpen(kind, event, source) ==
    IF dialog.kind # "closed" THEN dialog' = dialog
    ELSE dialog' = [kind |-> kind, event |-> event, source |-> source]

-----------------------------------------------------------------------------
(* The event dialog *)

openForNodeEditing(kind, event, source) ==
    dialog' = [kind |-> kind, event |-> event, source |-> source]

\* By the button of a row, or by the keys 1 to 9 (and E) for the selected node's rows.
editOutgoingEvent(id) ==
    /\ \E row \in RowsWith(id) :
          /\ editing' = [editing EXCEPT !.edge = row.edge, !.str = row.str]
          /\ openForNodeEditing("edit", EventOf(row), Null)
    /\ UNCHANGED <<view, confirm, picker, net, history>>

editNthEvent ==
    \/ /\ ~Covered
       /\ \E k \in DOMAIN panel.rows :
             editOutgoingEvent(<<panel.rows[k].edge, panel.rows[k].index>>)
    \/ /\ selected # Null /\ ~cleared
       /\ Over("dialog")
       /\ LET rows == getOutgoingEvents(utg, selected)
          IN  \E k \in DOMAIN rows : editOutgoingEvent(<<rows[k].edge, rows[k].index>>)

\* The fields are overwritten before the missing graph makes the call throw.
addNewEvent(n) ==
    /\ Started(n) /\ Over("dialog")
    /\ IF cleared
       THEN /\ dialog.kind # "closed"
            /\ editing' = [editing EXCEPT !.edge = Null, !.source = n]
            /\ muddled' = TRUE /\ UNCHANGED dialog
       ELSE /\ editing' = [editing EXCEPT !.edge = Null, !.source = n]
            /\ openForNodeEditing("new", Null, n) /\ UNCHANGED muddled
    /\ UNCHANGED <<view, confirm, picker, net, behind, unrefreshed>>

\* The dialog stays open until its request and the reload are answered.  The form
\* lets the user change both states of an event; a new one starts where it was asked for.
saveEdit(from, to, str) ==
    /\ dialog.kind = "edit"
    /\ IF editing.edge = Null
       THEN UNCHANGED <<calls, edits>>
       ELSE Send("update_event",
                 [Ask EXCEPT !.event = [from |-> editing.edge[1], to |-> editing.edge[2],
                                        str |-> editing.str],
                             !.new = [from |-> from, to |-> to, str |-> str]])
    /\ UNCHANGED <<view, page, graph, timers, faults, history>>

saveNew(to, str) ==
    /\ dialog.kind = "new"
    /\ Send("create_event",
            [Ask EXCEPT !.new = [from |-> editing.source, to |-> to, str |-> str]])
    /\ UNCHANGED <<view, page, graph, timers, faults, history>>

-----------------------------------------------------------------------------
(* First and last state, and the labels, which are saved when their dialog is closed *)

setFirstState(n) ==
    /\ Started(n)
    /\ Send("mark", [Ask EXCEPT !.nodes = {n}])
    /\ UNCHANGED <<view, page, graph, timers, faults, history>>

-----------------------------------------------------------------------------
(* Deleted nodes *)

openDeletedNodes ==
    /\ ~Covered
    /\ SendRead("deleted", Ask)
    /\ UNCHANGED <<view, page, graph, timers, faults, history>>

toggleDeletedNode(n) ==
    /\ picker.open /\ n \in picker.list
    /\ picker' = [picker EXCEPT !.chosen = (@ \cup {n}) \ (@ \cap {n})]
    /\ UNCHANGED <<view, dialog, confirm, editing, net, history>>

\* The button selects all if none is selected, and none if any is.
selectAllDeleted ==
    /\ picker.open
    /\ picker' = [picker EXCEPT !.chosen = IF @ = {} THEN picker.list ELSE {}]
    /\ UNCHANGED <<view, dialog, confirm, editing, net, history>>

askRestore ==
    /\ picker.open /\ picker.chosen # {}
    /\ picker' = NoPicker
    /\ confirm' = [NoConfirm EXCEPT !.kind = "restore", !.nodes = picker.chosen]
    /\ UNCHANGED <<view, dialog, editing, net, history>>

\* Every dialog listens for Escape by itself; a click on Cancel closes one of them.
escape ==
    /\ Covered
    /\ closeDialog /\ confirm' = NoConfirm /\ picker' = NoPicker
    /\ UNCHANGED <<view, net, history>>

-----------------------------------------------------------------------------
(* The server *)

HasEvent(e) == e \in {graph.events[i] : i \in DOMAIN graph.events}
Ends(e) == e.from \in graph.nodes /\ e.to \in graph.nodes

Accepts(c) ==
    CASE c.op = "delete_event" -> HasEvent(c.ask.event)
      [] c.op = "update_event" -> HasEvent(c.ask.event) /\ Ends(c.ask.new)
      [] c.op = "create_event" -> Ends(c.ask.new)
      [] c.op \in {"mark", "delete_node", "branch"} -> c.ask.nodes \subseteq graph.nodes
      [] OTHER -> TRUE

Edited(c) ==
    CASE c.op = "delete_event" -> remove_transition(graph, c.ask.event)
      [] c.op = "update_event" -> update_transition(graph, c.ask.event, c.ask.new)
      [] c.op = "create_event" -> add_transition(graph, c.ask.new)
      [] c.op \in {"delete_node", "delete_branch"} -> remove_node(graph, c.ask.nodes)
      [] c.op = "restore" -> restore_node(graph, c.ask.nodes)
      [] OTHER -> graph

Replace(c, d) == calls' = (calls \ {c}) \cup {d}

ServeEdit(c) ==
    /\ c.stage = "edit" /\ c.answer = "none" /\ c.op \notin ReadOps
    /\ IF Accepts(c)
       THEN graph' = [Edited(c) EXCEPT !.ver = @ + 1] /\ Replace(c, [c EXCEPT !.answer = "ok"])
       ELSE graph' = graph /\ Replace(c, [c EXCEPT !.answer = "fail"])
    /\ UNCHANGED <<view, page, timers, edits, faults, history>>

\* getBranchStates, getDeletedNodes, getUTG.
ServeRead(c) ==
    /\ c.answer = "none" /\ (c.stage = "load" \/ c.op \in ReadOps)
    /\ IF c.stage = "edit" /\ ~Accepts(c)
       THEN Replace(c, [c EXCEPT !.answer = "fail"])
       ELSE Replace(c, [c EXCEPT !.answer = "ok", !.got =
                CASE c.stage = "load" -> graph
                  [] c.op = "branch" ->
                        UNION {find_branch_states(graph, n) : n \in c.ask.nodes}
                  [] c.op = "deleted" -> Node \ graph.nodes])
    /\ UNCHANGED <<graph, view, page, timers, edits, faults, history>>

\* An edit's or a reload's request is lost on its way, or its answer on the way back;
\* only while the user may try once more (a bound: a refused edit fails at any time).
Lose(c) ==
    /\ faults < MaxFaults /\ edits < MaxUserEdits
    /\ c.op \notin ReadOps
    /\ c.answer = "none" \/ (c.stage = "edit" /\ c.answer = "ok")
    /\ faults' = faults + 1
    /\ Replace(c, [c EXCEPT !.answer = "fail"])
    /\ behind' = (behind \/ c.stage = "load" \/ c.answer = "ok")
    /\ UNCHANGED <<graph, view, page, timers, edits, unrefreshed, muddled>>

-----------------------------------------------------------------------------
(* Answers *)

\* A refused edit shows a message: an event dialog stays open, nothing is reloaded.
AnswerFailed(c) ==
    /\ c.stage = "edit" /\ c.answer = "fail"
    /\ calls' = calls \ {c}
    /\ UNCHANGED <<graph, view, page, timers, edits, faults, history>>

\* Mutant: a reload under way is taken to serve this edit too.
AnswerShared(c) ==
    /\ c.stage = "edit" /\ c.answer = "ok" /\ c.op \notin ReadOps
    /\ IF \E d \in calls : d.stage = "load"
       THEN calls' = calls \ {c}
       ELSE Replace(c, [c EXCEPT !.stage = "load", !.answer = "none"])
    /\ cleared' = TRUE
    /\ UNCHANGED <<graph, utg, selected, current, panel, page, timers, edits, faults, history>>

\* loadUTG drops the graph and asks for the new one.
AnswerEdit(c) ==
    /\ c.stage = "edit" /\ c.answer = "ok" /\ c.op \notin ReadOps
    /\ Replace(c, [c EXCEPT !.stage = "load", !.answer = "none"])
    /\ cleared' = TRUE
    /\ UNCHANGED <<graph, utg, selected, current, panel, page, timers, edits, faults, history>>

AnswerBranch(c) ==
    /\ c.op = "branch" /\ c.answer = "ok"
    /\ calls' = calls \ {c}
    /\ confirm' = [NoConfirm EXCEPT !.kind = "branch", !.nodes = c.got]
    /\ UNCHANGED <<graph, view, dialog, picker, editing, timers, edits, faults, history>>

AnswerDeleted(c) ==
    /\ c.op = "deleted" /\ c.answer = "ok"
    /\ calls' = calls \ {c}
    /\ picker' = [open |-> TRUE, list |-> c.got, chosen |-> {}]
    /\ UNCHANGED <<graph, view, dialog, confirm, editing, timers, edits, faults, history>>

\* draw: a selected node that is gone cannot be selected again.
loadUTG(c) ==
    IF c.answer = "ok"
    THEN /\ utg' = c.got /\ cleared' = FALSE
         /\ selected' = IF selected \in c.got.nodes THEN selected ELSE Null
         /\ behind' = (behind \/ c.got.ver < utg.ver)
    ELSE UNCHANGED <<utg, cleared, selected, behind>>

\* Mutant: a new event leaves the panel as it is.
refreshOld(c) ==
    CASE c.op = "delete_event" -> IF c.keep = Null THEN {} ELSE {c.keep}
      [] c.op \in {"update_event", "mark"} -> IF current = Null THEN {} ELSE {Null}
      [] OTHER -> {}

\* The refresh an operation leaves behind: of the node selected when a deletion was
\* confirmed, of the current one for the others, a text after a node is deleted.
refresh(c) ==
    CASE c.op = "delete_event" -> IF c.keep = Null THEN {} ELSE {c.keep}
      [] c.op \in {"update_event", "create_event", "mark"} -> IF current = Null THEN {} ELSE {Null}
      [] OTHER -> {}

\* The reload is over, well or not: the rest of the handler.
AnswerLoad(c) ==
    /\ c.stage = "load" /\ c.answer # "none"
    /\ calls' = calls \ {c}
    /\ loadUTG(c)
    /\ timers' = timers \cup refresh(c)
    /\ unrefreshed' = (unrefreshed \/ c.op = "restore" \/ (c.op = "delete_event" /\ c.keep = Null))
    /\ IF c.op \in {"update_event", "create_event"} THEN closeDialog
       ELSE UNCHANGED <<dialog, editing>>
    /\ panel' = IF c.op \in {"delete_node", "delete_branch"} THEN Text ELSE panel
    /\ UNCHANGED <<graph, current, confirm, picker, edits, faults, muddled>>

\* The 100 ms are over: selectNodes throws on a node that is not drawn.
RefreshDue(t) ==
    /\ timers' = timers \ {t}
    /\ LET n == IF t = Null THEN current ELSE t
       IN  IF n \notin utg.nodes THEN UNCHANGED <<selected, current, panel>>
           ELSE selected' = n /\ showNodeDetails(utg, cleared, n)
    /\ unrefreshed' = (unrefreshed \/ (t # Null /\ t \notin utg.nodes))
    /\ UNCHANGED <<graph, utg, cleared, page, calls, edits, faults, behind, muddled>>

-----------------------------------------------------------------------------

\* Bounds: the user stops when an answer was lost or overtaken, asks for no more than
\* MaxUserEdits, and looks around only while something may still change.
Attentive == ~behind /\ ~muddled

Look ==
    \/ \E n \in Node : clickNode(n)
    \/ \E i \in DOMAIN utg.events : clickEdge(i)
    \/ selectPreviousNode
    \/ selectNextNode

UserEdits ==
    \/ \E n \in Node : deleteNode(n)
    \/ \E n \in Node : deleteBranch(n)
    \/ \E k \in DOMAIN panel.rows : deleteOutgoingEvent(k)
    \/ confirmed
    \/ refused
    \/ editNthEvent
    \/ \E n \in Node : addNewEvent(n)
    \/ /\ dialog.kind = "edit"
       /\ \E from \in utg.nodes, to \in utg.nodes, str \in TypedStr \cup {dialog.event.str} :
             saveEdit(from, to, str)
    \/ \E to \in utg.nodes, str \in TypedStr : saveNew(to, str)
    \/ \E n \in Node : setFirstState(n)
    \/ openDeletedNodes
    \/ \E n \in Node : toggleDeletedNode(n)
    \/ selectAllDeleted
    \/ askRestore
    \/ escape

EditorNext ==
    \/ Attentive /\ (edits < MaxUserEdits \/ ~Quiet) /\ Look
    \/ Attentive /\ edits < MaxUserEdits /\ UserEdits
    \/ \E c \in calls : ServeEdit(c)
    \/ \E c \in calls : ServeRead(c)
    \/ \E c \in calls : Lose(c)
    \/ \E c \in calls : AnswerFailed(c)
    \/ \E c \in calls : AnswerEdit(c)
    \/ \E c \in calls : AnswerBranch(c)
    \/ \E c \in calls : AnswerDeleted(c)
    \/ \E c \in calls : AnswerLoad(c)
    \/ \E t \in timers : RefreshDue(t)

EditorSpec == EditorInit /\ [][EditorNext]_editorVars

-----------------------------------------------------------------------------
(* Properties *)

\* The page and the requests have their types; a dialog shows what was opened.
EditorTypeOK ==
    /\ graph.nodes \subseteq Node /\ utg.nodes \subseteq Node
    /\ \A i \in DOMAIN graph.events : Ends(graph.events[i])
    /\ selected \in utg.nodes \cup {Null} /\ current \in Node \cup {Null}
    /\ dialog.kind = "edit" => dialog.event \in Event
    /\ timers \subseteq Node \cup {Null}

Sent == {c \in calls' \ calls : c.stage = "edit" /\ c.answer = "none"}

\* When everything is answered the graph drawn is the server's, marks and labels
\* included: every edit reloads after the server has made it, whatever else runs.
\* A lost answer, or reloads answered in the wrong order, are what breaks this.
GraphIsCurrent == Quiet /\ ~cleared /\ ~behind => utg = graph

\* When everything is answered the details panel lists the events of its node in the
\* graph drawn: each handler refreshes it, except after a restore and after an event
\* was deleted while no node was selected, or one that has been deleted since.
PanelIsCurrent ==
    Quiet /\ ~cleared /\ ~behind /\ ~unrefreshed /\ panel.node # Null =>
        panel.rows = getOutgoingEvents(utg, panel.node)

\* What the user acts on next is what the server holds.
ViewIsCurrent == GraphIsCurrent /\ PanelIsCurrent

\* A request to change an event names the event its dialog shows, and a new event
\* starts where its dialog says: the fields of the node editor and the dialog, which are
\* opened again by shortcuts while open, change together.
SavesWhatIsShown ==
    [][\A c \in Sent : ~muddled =>
         /\ c.op = "update_event" => c.ask.event = dialog.event
         /\ c.op = "create_event" => c.ask.new.from = dialog.source]_editorVars

\* An event is deleted only if it is the one on the row the user clicked, unless the
\* graph was loaded again since that row was drawn.
DeletesWhatWasClicked ==
    [][\A c \in Sent : c.op = "delete_event" /\ confirm.ver = utg.ver =>
         c.ask.event = confirm.event]_editorVars

=============================================================================

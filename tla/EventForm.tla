------------------------------ MODULE EventForm ------------------------------
(***************************************************************************)
(* The form of an event: the event string is read into typed fields, which *)
(* are edited by inputs, by a change of type or on the screenshot, and     *)
(* written back (event-edit-dialog.js, utils/event-str-parser.js).         *)
(*                                                                         *)
(* An event string is its class, the written value of each field and       *)
(* whether the fields stand in the schema's order; free text is one of a   *)
(* few classes that parsing tells apart.  The recorder and the form spell  *)
(* an event differently.  The two axes of the screenshot are handled       *)
(* alike, so there is one: a point is x, a box is its start and size.      *)
(***************************************************************************)
EXTENDS Integers, FiniteSets

CONSTANTS Recorded,    \* the event strings a recording may hold
          Width,       \* the width of the screenshot
          Shown,       \* the widths it is shown at, in pixels of the page
          Typed,       \* the numbers typed
          MaxInputs,   \* how many changes, image editors and zooms there are
          MaxOpens,    \* how often the form is opened
          Null         \* no field, no form, nothing being saved

ASSUME WidthAssumption ==
    /\ Width \in Nat \ {0} /\ Shown \subseteq Nat \ {0}
    /\ \E n \in Shown : \A m \in Shown : m <= n

VARIABLES stored,   \* the event string the server has
          form,     \* currentParsedFields
          open,     \* the dialog is shown
          adding,   \* it is for a new event
          select,   \* the event type selected
          img,      \* pointImageEditor
          saving,   \* the string a save is waiting for
          touched,  \* the user has changed something since the form was opened
          stray,    \* the image editor was left open when the dialog was closed
          inputs, opens

eventVars == <<stored, form, open, adding, select, img, saving, touched, stray, inputs, opens>>

-----------------------------------------------------------------------------
(* Fields and types *)

eventTypeSchema ==
    [TouchEvent |-> <<"view", "point", "bbox">>,
     LongTouchEvent |-> <<"view", "point", "bbox", "duration">>,
     SwipeEvent |-> <<"view", "start_point", "start_bbox", "end_point", "end_bbox", "duration">>,
     ScrollEvent |-> <<"view", "point", "bbox", "direction">>,
     SetTextEvent |-> <<"view", "point", "bbox", "text">>,
     PutTextEvent |-> <<"text">>,
     KeyEvent |-> <<"name">>]

eventTypeMapping ==
    [touch |-> "TouchEvent", long_touch |-> "LongTouchEvent", swipe |-> "SwipeEvent",
     scroll |-> "ScrollEvent", set_text |-> "SetTextEvent", put_text |-> "PutTextEvent",
     hotkey |-> "KeyEvent"]

allowedEventTypes == {"touch", "swipe", "put_text", "hotkey"}

Classes == DOMAIN eventTypeSchema
SchemaFields(class) == {eventTypeSchema[class][i] : i \in DOMAIN eventTypeSchema[class]}
Before(class, f, g) ==
    \E i, j \in DOMAIN eventTypeSchema[class] :
        i < j /\ eventTypeSchema[class][i] = f /\ eventTypeSchema[class][j] = g

getClassName(type) == eventTypeMapping[type]
getDisplayEventType(class) == CHOOSE t \in DOMAIN eventTypeMapping : eventTypeMapping[t] = class

IsPoint(f) == f \in {"point", "start_point", "end_point"}
IsBbox(f) == f \in {"bbox", "start_bbox", "end_bbox"}

Point(x) == [kind |-> "point", x |-> x, torn |-> FALSE]
Bbox(left, width) == [kind |-> "bbox", left |-> left, width |-> width, torn |-> FALSE]
Nested(left, width) == [kind |-> "nested", left |-> left, width |-> width]
View(text) == [kind |-> "view", text |-> text]
Plain(text) == [kind |-> "plain", text |-> text]
Torn(kind) == [kind |-> "torn", of |-> kind]

\* A number of another form is read by parseInt, an empty text as NaN, a list up to its
\* comma, blanks around a text are cut off, and a text with a point in it (marked) is the
\* point; a view object written as JSON is cut at its first comma.
ReadText(t) ==
    CASE t = "padded" -> "digits"
      [] t = "empty" -> "NaN"
      [] t \in {"list", "spaced"} -> "word"
      [] OTHER -> t
Text == {"word", "digits", "padded", "empty", "list", "spaced", "marked"}

\* A value whose closing bracket is missing becomes a value of zeros that keeps the
\* original text.  The second brackets of the recorder's boxes are dropped.
parseParameters(w) ==
    CASE w.kind = "torn" ->
            IF w.of = "point" THEN [Point(0) EXCEPT !.torn = TRUE]
            ELSE [Bbox(0, 0) EXCEPT !.torn = TRUE]
      [] w.kind = "nested" -> Bbox(w.left, w.width)
      [] w.kind = "view" -> IF w.text = "json" THEN Plain("cut") ELSE w
      [] w.kind = "plain" -> IF w.text = "marked" THEN Point(0) ELSE Plain(ReadText(w.text))
      [] OTHER -> w

\* The fields of the schema come first, the others (the two views of a recorded swipe)
\* are kept behind them.
parseEventStr(s) ==
    IF s.class \notin Classes THEN Null
    ELSE [class |-> s.class, fields |-> [f \in DOMAIN s.fields |-> parseParameters(s.fields[f])]]

\* The original text of an incomplete value is written whatever its numbers are.
formatFieldValue(v) ==
    CASE v.kind \in {"point", "bbox"} /\ v.torn -> Torn(v.kind)
      [] v.kind = "view" /\ v.text = "" -> View("json")
      [] OTHER -> v

\* Mutant: the fields the schema does not have are not written.
generateSchemaFields(p) ==
    [class |-> p.class, ordered |-> TRUE,
     fields |-> [f \in DOMAIN p.fields \cap SchemaFields(p.class) |-> formatFieldValue(p.fields[f])]]

generateEventStr(p) ==
    [class |-> p.class, ordered |-> TRUE,
     fields |-> [f \in DOMAIN p.fields |-> formatFieldValue(p.fields[f])]]
Blank == [class |-> "", ordered |-> TRUE, fields |-> <<>>]

\* The values of a string: a bracket that is missing is one of a point or a box, and a
\* view is what has a bracket in it.
Written(w) ==
    \/ w.kind = "point" /\ w = Point(w.x)
    \/ w.kind = "bbox" /\ w = Bbox(w.left, w.width)
    \/ w.kind = "nested" /\ w = Nested(w.left, w.width)
    \/ w.kind = "view" /\ w = View(w.text) /\ w.text # ""
    \/ w.kind = "plain" /\ w = Plain(w.text)
    \/ w.kind = "torn" /\ w = Torn(w.of) /\ w.of \in {"point", "bbox"}

EventString(s) ==
    /\ s = [class |-> s.class, ordered |-> s.ordered,
            fields |-> [f \in DOMAIN s.fields |-> s.fields[f]]]
    /\ \A f \in DOMAIN s.fields : Written(s.fields[f])

ASSUME RecordedAssumption == \A s \in Recorded : EventString(s)

-----------------------------------------------------------------------------
(* What the server makes of a string (input_event.py) *)

\* Each field is looked for by its name, wherever it stands; of a box the first four
\* numbers are read, of a text what stands before a comma or a bracket.
ReadValue(w) ==
    CASE w.kind = "nested" -> Bbox(w.left, w.width)
      [] w.kind = "plain" /\ w.text \in {"list", "marked"} -> Plain("word")
      [] OTHER -> w

from_event_str(s) ==
    [class |-> s.class, fields |-> [f \in DOMAIN s.fields |-> ReadValue(s.fields[f])]]

Needed ==
    [TouchEvent |-> {"point"}, LongTouchEvent |-> {"point"}, SwipeEvent |-> {"start_point", "end_point"},
     ScrollEvent |-> {"direction"}, SetTextEvent |-> {"point", "text"}, PutTextEvent |-> {"text"},
     KeyEvent |-> {"name"}]

Readable(s) ==
    /\ s.class \in Classes
    /\ \A f \in Needed[s.class] :
          /\ f \in DOMAIN s.fields /\ s.fields[f] # Plain("empty")
          /\ IsPoint(f) => s.fields[f].kind = "point"

\* A new event is written as the recorder writes it: boxes in two brackets, a swipe with two
\* views.  A view that is not found in the state is None.
get_event_str(s, found) ==
    LET names == (DOMAIN s.fields \cap SchemaFields(s.class))
                 \ (IF s.class = "SwipeEvent" THEN {"view"} ELSE {})
        write(v) == IF v.kind = "bbox" THEN Nested(v.left, v.width) ELSE v
    IN  [class |-> s.class, ordered |-> s.class # "SwipeEvent",
         fields |-> [f \in names \cup (IF s.class = "SwipeEvent" THEN {"start_view", "end_view"} ELSE {}) |->
                        CASE f = "view" -> IF found /\ s.fields[f] = View("view") THEN View("view")
                                           ELSE Plain("None")
                          [] f \in {"start_view", "end_view"} -> Plain("None")
                          [] OTHER -> write(ReadValue(s.fields[f]))]]

-----------------------------------------------------------------------------

getDefaultValueForField(f) ==
    Plain(CASE f = "name" -> "word" [] f = "direction" -> "word" [] f = "duration" -> "digits"
            [] OTHER -> "empty")

createEmptyFields(class) ==
    [class |-> class,
     fields |-> [f \in SchemaFields(class) |->
                    CASE f = "view" -> View("")
                      [] IsPoint(f) -> Point(-1)
                      [] IsBbox(f) -> Bbox(-1, -1)
                      [] OTHER -> getDefaultValueForField(f)]]

isFieldValueCompatible(f, v) ==
    \/ v.kind = "point" /\ IsPoint(f)
    \/ v.kind = "bbox" /\ IsBbox(f)
    \/ v.kind = "view" /\ f = "view"
    \/ v.kind = "plain" /\ v.text \notin {"empty", "NaN"}
       /\ f \in {"text", "name", "intent", "time", "duration", "direction"}

migrateCompatibleFields(old, class) ==
    [createEmptyFields(class) EXCEPT !.fields =
        [f \in DOMAIN @ |-> IF f \in DOMAIN old.fields /\ isFieldValueCompatible(f, old.fields[f])
                            THEN old.fields[f] ELSE @[f]]]

-----------------------------------------------------------------------------
(* Opening, editing and saving *)

NoImg == [shown |-> FALSE, field |-> Null, mode |-> "point", labels |-> "point", loaded |-> FALSE,
          at |-> 0, x |-> 0, left |-> 0, width |-> 0, from |-> 0, to |-> 0, dragging |-> FALSE]

EventInit ==
    /\ stored \in Recorded
    /\ form = Null /\ open = FALSE /\ adding = FALSE /\ select = "touch"
    /\ img = NoImg /\ saving = Null
    /\ touched = FALSE /\ stray = FALSE /\ inputs = 0 /\ opens = 0

Count == inputs < MaxInputs /\ inputs' = inputs + 1

\* The type selected follows the string, and the type the recording names if the string
\* cannot be parsed.
Filled(p, class) ==
    /\ form' = p
    /\ select' = getDisplayEventType(IF p # Null THEN p.class ELSE class)

Opening(new) ==
    /\ opens < MaxOpens /\ saving = Null
    /\ open' = TRUE /\ adding' = new
    /\ touched' = FALSE /\ opens' = opens + 1
    /\ stray' = (stray \/ img.shown)
    /\ UNCHANGED <<stored, img, saving, inputs>>

openForNodeEditing ==
    /\ Opening(FALSE)
    /\ Filled(parseEventStr(stored), "TouchEvent")

addNewEvent ==
    /\ Opening(TRUE)
    /\ Filled(createEmptyFields("TouchEvent"), "TouchEvent")

\* The image editor covers the form; it stays when Escape or a save closes the form.
Editable == open /\ ~img.shown

handleEventTypeChange(type) ==
    /\ Editable /\ Count /\ type # select
    /\ select' = type
    /\ form' = IF form = Null THEN createEmptyFields(getClassName(type))
               ELSE migrateCompatibleFields(form, getClassName(type))
    /\ touched' = TRUE
    /\ UNCHANGED <<stored, open, adding, img, saving, stray, opens>>

\* What the inputs of a field may turn its value into; a view is parsed again, a name and a
\* direction are chosen from a list, and a duration is a number.  Bound: every text is typed
\* where a text is asked for, and two of them into a view that is one.
Inputs(f, v) ==
    CASE v.kind = "point" -> {[v EXCEPT !.x = n] : n \in Typed}
      [] v.kind = "bbox" -> {[v EXCEPT !.left = n] : n \in Typed}
                            \cup {[v EXCEPT !.width = n] : n \in Typed}
      [] v.kind = "view" -> {View(""), View("view")}
      [] OTHER -> {Plain(t) : t \in CASE f \in {"name", "direction"} -> {"word"}
                                     [] f = "duration" -> {"digits"}
                                     [] f = "text" -> Text
                                     [] OTHER -> {"word", "empty"}}

updateFieldValue(f) ==
    /\ Editable /\ Count /\ form # Null
    /\ \E v \in Inputs(f, form.fields[f]) : form' = [form EXCEPT !.fields[f] = v]
    /\ touched' = TRUE
    /\ UNCHANGED <<stored, open, adding, select, img, saving, stray, opens>>

save ==
    /\ Editable /\ saving = Null
    /\ saving' = IF form = Null THEN Blank ELSE generateEventStr(form)
    /\ UNCHANGED <<stored, form, open, adding, select, img, touched, stray, inputs, opens>>

\* A string the server cannot parse is refused, and the form stays open.  A changed event
\* keeps the string that was sent; a new one is written by the server.
SaveAnswered(ok) ==
    /\ saving # Null
    /\ saving' = Null
    /\ ok => Readable(saving)
    /\ IF ok
       THEN /\ IF adding THEN \E found \in BOOLEAN : stored' = get_event_str(saving, found)
               ELSE stored' = saving
            /\ open' = FALSE /\ form' = Null /\ stray' = (stray \/ img.shown)
       ELSE UNCHANGED <<stored, open, form, stray>>
    /\ UNCHANGED <<adding, select, img, touched, inputs, opens>>

\* Escape or Cancel.
close ==
    /\ open
    /\ open' = FALSE /\ form' = Null
    /\ stray' = (stray \/ img.shown)
    /\ UNCHANGED <<stored, adding, select, img, saving, touched, inputs, opens>>

-----------------------------------------------------------------------------
(* The image editor *)

EditorOnly == UNCHANGED <<stored, form, open, adding, select, saving, touched, stray, opens>>

\* Without a screenshot there is an alert, and only field and mode are set.
openPointImageEditor(f) ==
    /\ Editable /\ Count /\ form # Null /\ form.fields[f].kind = "point"
    /\ \/ img' = [img EXCEPT !.shown = TRUE, !.field = f, !.mode = "point", !.labels = "point"]
       \/ img' = [img EXCEPT !.field = f, !.mode = "point"]
    /\ EditorOnly

\* The labels of a box replace those of the point at once; when they are left by a
\* screenshot that was missing, the next opening throws.
updateBboxCoordinateLabels(i) == [i EXCEPT !.labels = "bbox"]

openBboxImageEditor(f) ==
    /\ Editable /\ Count /\ form # Null /\ form.fields[f].kind = "bbox"
    /\ LET i == updateBboxCoordinateLabels([img EXCEPT !.field = f, !.mode = "bbox"])
       IN  \/ img.labels = "point" /\ img' = [i EXCEPT !.shown = TRUE]
           \/ img' = i
    /\ EditorOnly

\* What onload shows: the value of the field, if the form that is open now has it.  The
\* width it is shown at is the page's choice.
FieldValue ==
    IF form = Null \/ img.field \notin DOMAIN form.fields THEN Plain("empty")
    ELSE form.fields[img.field]

Displayed(mode, w) ==
    /\ img.shown /\ ~img.loaded /\ img.mode = mode
    /\ LET i == [img EXCEPT !.loaded = TRUE, !.at = w] IN
       img' = IF FieldValue.kind # mode THEN i
              ELSE IF mode = "point" THEN [i EXCEPT !.x = FieldValue.x]
              ELSE [i EXCEPT !.left = FieldValue.left, !.width = FieldValue.width]
    /\ EditorOnly /\ UNCHANGED inputs

displayImageInEditor(w) == Displayed("point", w)
displayImageInBboxEditor(w) == Displayed("bbox", w)

zoomImage(w) ==
    /\ img.loaded /\ w # img.at /\ Count
    /\ img' = [img EXCEPT !.at = w]
    /\ EditorOnly

Least(a, b) == IF a < b THEN a ELSE b
Clamp(low, high, n) == IF n < low THEN low ELSE Least(high, n)

\* Math.round(pixels / shown width * width)
Absolute(pixels, at) == (2 * pixels * Width + at) \div (2 * at)

handleImageClick(p) ==
    /\ img.loaded /\ img.mode = "point" /\ p <= img.at
    /\ img' = [img EXCEPT !.x = Clamp(0, Width, Absolute(p, img.at))]
    /\ EditorOnly /\ UNCHANGED inputs

\* Mutant: start and size are rounded each for itself and kept in the image alone.
BoxOfEach(i) ==
    LET left == Absolute(Least(i.from, i.to), i.at)
        size == Absolute(IF i.to < i.from THEN i.from - i.to ELSE i.to - i.from, i.at)
    IN  [i EXCEPT !.left = Clamp(0, Width, left), !.width = Clamp(0, Width, size)]

\* Start and size are rounded each for itself, and the size is cut at the edge.
updateBboxCoordinateDisplay(i) ==
    LET left == Clamp(0, Width, Absolute(Least(i.from, i.to), i.at))
        size == Absolute(IF i.to < i.from THEN i.from - i.to ELSE i.to - i.from, i.at)
    IN  [i EXCEPT !.left = left, !.width = Clamp(0, Width - left, size)]

handleBboxMouseDown(p) ==
    /\ img.loaded /\ img.mode = "bbox" /\ p <= img.at /\ ~img.dragging
    /\ img' = [img EXCEPT !.dragging = TRUE, !.from = p, !.to = p]
    /\ EditorOnly /\ UNCHANGED inputs

handleBboxMouseMove(p) ==
    /\ img.loaded /\ img.mode = "bbox" /\ img.dragging /\ p <= img.at
    /\ img' = updateBboxCoordinateDisplay([img EXCEPT !.to = p])
    /\ EditorOnly /\ UNCHANGED inputs

\* The button may be released outside the image, which is not heard.
handleBboxMouseUp ==
    /\ img.loaded /\ img.mode = "bbox" /\ img.dragging
    /\ img' = updateBboxCoordinateDisplay([img EXCEPT !.dragging = FALSE])
    /\ EditorOnly /\ UNCHANGED inputs

\* Each mode resets its own values, and the other's are those of the start.
closePointImageEditor == img' = NoImg

cancelImageEditor ==
    /\ img.shown
    /\ closePointImageEditor
    /\ EditorOnly /\ UNCHANGED inputs

Picked(v) ==
    IF img.mode = "bbox" THEN [v EXCEPT !.left = img.left, !.width = img.width]
    ELSE [v EXCEPT !.x = img.x]

\* A field the form does not have is added.
applyPointCoordinates ==
    /\ img.shown
    /\ closePointImageEditor
    /\ IF img.field = Null \/ form = Null
       THEN UNCHANGED <<form, touched>>
       ELSE LET old == IF img.field \in DOMAIN form.fields THEN form.fields[img.field]
                       ELSE IF img.mode = "bbox" THEN Bbox(0, 0) ELSE Point(0)
            IN  /\ old.kind = img.mode
                /\ form' = [form EXCEPT !.fields =
                    [f \in DOMAIN @ \cup {img.field} |-> IF f = img.field THEN Picked(old) ELSE @[f]]]
                /\ touched' = TRUE
    /\ UNCHANGED <<stored, open, adding, select, saving, stray, inputs, opens>>

-----------------------------------------------------------------------------

Fields == IF form = Null THEN {} ELSE DOMAIN form.fields
Pixels == 0..(CHOOSE n \in Shown : \A m \in Shown : m <= n)

\* Bounds: the user draws while there is a form to draw for, and presses the button once.
EventNext ==
    \/ openForNodeEditing
    \/ addNewEvent
    \/ \E t \in allowedEventTypes : handleEventTypeChange(t)
    \/ \E f \in Fields : updateFieldValue(f)
    \/ save
    \/ \E ok \in BOOLEAN : SaveAnswered(ok)
    \/ close
    \/ \E f \in Fields : openPointImageEditor(f)
    \/ \E f \in Fields : openBboxImageEditor(f)
    \/ \E w \in Shown : displayImageInEditor(w)
    \/ \E w \in Shown : displayImageInBboxEditor(w)
    \/ \E w \in Shown : zoomImage(w)
    \/ open /\ \E p \in Pixels : handleImageClick(p)
    \/ open /\ \E p \in Pixels : handleBboxMouseDown(p)
    \/ open /\ \E p \in Pixels : handleBboxMouseMove(p)
    \/ handleBboxMouseUp
    \/ cancelImageEditor
    \/ applyPointCoordinates

-----------------------------------------------------------------------------
(* Properties *)

\* A box drawn on the screenshot lies inside it, however it is dragged, zoomed and rounded.
BoxInside ==
    [][img.dragging /\ img' # img =>
         \/ img'.left = img.left /\ img'.width = img.width
         \/ 0 <= img'.left /\ 0 <= img'.width /\ img'.left + img'.width <= Width]_eventVars

\* The values that keep their meaning when they are read into the form: not a number of
\* another form, a text with blanks around it or a point in it, nor the object of a view that
\* was never filled in.  A bracket may only be missing at the end of the string, or the
\* fields behind it are taken for a part of the value.
ReadBack(w) ==
    ~(w.kind = "plain" /\ w.text \in {"padded", "empty", "spaced", "marked"})
    /\ ~(w.kind = "view" /\ w.text = "json")

Sound(s) ==
    \A f \in DOMAIN s.fields :
        /\ ReadBack(s.fields[f])
        /\ s.fields[f].kind = "torn" => \A g \in DOMAIN s.fields \ {f} : Before(s.class, g, f)

\* A form that is opened and saved unchanged may spell the event anew (a box in single
\* brackets, a swipe's views behind its other fields), but it sends a string that the server
\* reads as the same event and that opens as the same form, incomplete values included.
UneditedSaveKeeps ==
    [][saving = Null /\ saving' # Null /\ ~touched /\ ~adding /\ form # Null /\ Sound(stored)
       => /\ from_event_str(saving') = from_event_str(stored)
          /\ parseEventStr(saving') = form]_eventVars

=============================================================================

-------------------------- MODULE EditForms_proofs --------------------------
(***************************************************************************)
(* Proofs about the form of the labels and the form of an event, as        *)
(* EditForms composes them: labels are saved that agree, a box is drawn    *)
(* that lies in the screenshot, and a form that was not edited is saved as *)
(* it was, however often the two are opened and changed.                   *)
(***************************************************************************)
EXTENDS EditForms, TLAPS

-----------------------------------------------------------------------------
(* The form of the labels *)

LabelsTypeOK ==
    /\ node \in [labels : SUBSET Label, meta : Meta]
    /\ input \subseteq Label \ ScoreLabel
    /\ rating \in Rating /\ feedback \in {"text", NoText}

\* While the form is open nobody else writes the state, and until the user
\* changes something the form shows what it was opened with.
FormOfNode == shown => currentLabelMeta = node.meta
StartFeedback == IF node.meta.NEED_FEEDBACK = "none" THEN NoText ELSE node.meta.NEED_FEEDBACK
AsOpened ==
    shown /\ ~changed =>
        /\ input = stripScoreLabels(node.labels)
        /\ "FINISH" \in input => rating = startRating(node)
        /\ "NEED_FEEDBACK" \in input => feedback = StartFeedback

LInv == LabelsTypeOK /\ FormOfNode /\ AsOpened

\* The score of a state is one that the input may hold.
LEMMA ScoreLabelRating ==
    ASSUME NEW labels \in SUBSET Label
    PROVE  scoreLabel(labels) \in ValidRating \cup {NoText}
<1>1. CASE labels \cap ScoreLabel = {}
  BY <1>1 DEF scoreLabel
<1>2. CASE labels \cap ScoreLabel # {}
  <2>1. (CHOOSE l \in labels \cap ScoreLabel : TRUE) \in {"s80", "s3D"}
    BY <1>2 DEF ScoreLabel, ScoreOf
  <2>2. ScoreOf["s80"] = "80" /\ ScoreOf["s3D"] = "3"
    BY DEF ScoreOf
  <2>3. scoreLabel(labels) = ScoreOf[CHOOSE l \in labels \cap ScoreLabel : TRUE]
    BY <1>2 DEF scoreLabel
  <2>4. QED
    BY <2>1, <2>2, <2>3 DEF ValidRating
<1>3. QED
  BY <1>1, <1>2

LEMMA StartRatingType ==
    ASSUME NEW n \in [labels : SUBSET Label, meta : Meta]
    PROVE  startRating(n) \in Rating
BY ScoreLabelRating DEF startRating, Meta, Rating

\* The labels that are no score.
LEMMA StrippedLabels ==
    /\ \A labels \in SUBSET Label : stripScoreLabels(labels) \subseteq Label \ ScoreLabel
    /\ "FINISH" \in Label /\ "NEED_FEEDBACK" \in Label
    /\ "FINISH" \notin ScoreLabel /\ "NEED_FEEDBACK" \notin ScoreLabel
BY DEF stripScoreLabels, Label, ScoreLabel, ScoreOf

LEMMA ControlsType ==
    ASSUME NEW labels \in SUBSET Label, NEW r \in Rating, NEW t \in {"text", NoText},
           Controls(labels, r, t)
    PROVE  /\ input' = stripScoreLabels(labels) /\ input' \subseteq Label \ ScoreLabel
           /\ rating' \in Rating /\ feedback' \in {"text", NoText}
           /\ "FINISH" \in input' => rating' = r
           /\ "NEED_FEEDBACK" \in input' => feedback' = t
BY StrippedLabels DEF Controls, Rating

LEMMA InitLInv == Init => LInv
BY LabelAssumption
   DEF Init, LabelInit, LInv, LabelsTypeOK, FormOfNode, AsOpened, Rating

LEMMA ShowLInv == LInv /\ show => LInv'
<1> SUFFICES ASSUME LInv, show PROVE LInv'
  OBVIOUS
<1>1. node \in [labels : SUBSET Label, meta : Meta]
  BY DEF LInv, LabelsTypeOK
<1>2. node.labels \in SUBSET Label /\ startRating(node) \in Rating
  BY <1>1, StartRatingType
<1>3. StartFeedback \in {"text", NoText}
  BY <1>1 DEF StartFeedback, Meta
<1>4. Controls(node.labels, startRating(node), StartFeedback) /\ UNCHANGED node
      /\ currentLabelMeta' = node.meta
  BY DEF show, StartFeedback
<1>5. LabelsTypeOK'
  BY <1>1, <1>2, <1>3, <1>4, ControlsType DEF LabelsTypeOK
<1>6. FormOfNode'
  BY <1>4 DEF FormOfNode
<1>7. startRating(node)' = startRating(node) /\ StartFeedback' = StartFeedback
  BY <1>4 DEF startRating, StartFeedback, scoreLabel
<1>8. AsOpened'
  BY <1>2, <1>3, <1>4, <1>7, ControlsType DEF AsOpened
<1>9. QED
  BY <1>5, <1>6, <1>8 DEF LInv

\* A change keeps the types, and there is nothing more to say of the form.
LEMMA ChangeLInv ==
    ASSUME LInv, changed' = TRUE, UNCHANGED <<node, shown, currentLabelMeta>>,
           input' \subseteq Label \ ScoreLabel, rating' \in Rating,
           feedback' \in {"text", NoText}
    PROVE  LInv'
BY DEF LInv, LabelsTypeOK, FormOfNode, AsOpened

LEMMA ClosedLInv ==
    ASSUME Closed, node' \in [labels : SUBSET Label, meta : Meta]
    PROVE  LInv'
BY DEF Closed, LInv, LabelsTypeOK, FormOfNode, AsOpened, Rating

\* What a save writes.
LEMMA SaveWrites ==
    ASSUME LInv, NEW ok \in BOOLEAN, saveLabels(ok)
    PROVE  /\ node' \in [labels : SUBSET Label, meta : Meta]
           /\ node' # node =>
                /\ node'.labels = input
                /\ node'.meta.FINISH = IF "FINISH" \in input THEN rating ELSE "none"
                /\ node'.meta.NEED_FEEDBACK =
                       IF "NEED_FEEDBACK" \in input THEN feedback ELSE "none"
                /\ node'.meta.other = node.meta.other
<1>1. node \in [labels : SUBSET Label, meta : Meta] /\ currentLabelMeta = node.meta
  BY DEF LInv, LabelsTypeOK, FormOfNode, saveLabels
<1>2. CASE node' = node
  BY <1>1, <1>2
<1>3. CASE node' = [labels |-> stripScoreLabels(input), meta |-> labelMeta]
  <2>1. stripScoreLabels(input) = input /\ input \in SUBSET Label
    BY DEF LInv, LabelsTypeOK, stripScoreLabels
  <2>2. /\ labelMeta.FINISH = IF "FINISH" \in input THEN rating ELSE "none"
        /\ labelMeta.NEED_FEEDBACK = IF "NEED_FEEDBACK" \in input THEN feedback ELSE "none"
        /\ labelMeta.other = node.meta.other
    BY <1>1 DEF labelMeta, Meta
  <2>3. labelMeta \in Meta
    BY <1>1 DEF labelMeta, Meta, LInv, LabelsTypeOK
  <2>4. QED
    BY <1>3, <2>1, <2>2, <2>3
<1>4. QED
  BY <1>2, <1>3 DEF saveLabels

LEMMA NextLInv == LInv /\ [LabelNext]_labelVars => LInv'
<1> SUFFICES ASSUME LInv, [LabelNext]_labelVars PROVE LInv'
  OBVIOUS
<1>1. CASE UNCHANGED labelVars
  BY <1>1 DEF labelVars, LInv, LabelsTypeOK, FormOfNode, AsOpened, StartFeedback, startRating,
              scoreLabel
<1>2. CASE show
  BY <1>2, ShowLInv
<1>3. ASSUME NEW labels \in SUBSET Label, typeLabels(labels)
      PROVE  LInv'
  <2>1. rating \in Rating /\ feedback \in {"text", NoText}
    BY DEF LInv, LabelsTypeOK
  <2>2. QED
    BY <1>3, <2>1, ControlsType, ChangeLInv DEF typeLabels, Change
<1>4. ASSUME NEW l \in {"FINISH", "NEED_FEEDBACK"}, addLabel(l)
      PROVE  LInv'
  <2>1. rating \in Rating /\ feedback \in {"text", NoText} /\ input \cup {l} \in SUBSET Label
    BY StrippedLabels DEF LInv, LabelsTypeOK
  <2>2. QED
    BY <1>4, <2>1, ControlsType, ChangeLInv DEF addLabel, Change
<1>5. ASSUME NEW r \in Rating, syncFinishRating(r)
      PROVE  LInv'
  BY <1>5, ChangeLInv DEF syncFinishRating, Change, LInv, LabelsTypeOK
<1>6. ASSUME NEW t \in {"text", NoText}, typeFeedback(t)
      PROVE  LInv'
  BY <1>6, ChangeLInv DEF typeFeedback, Change, LInv, LabelsTypeOK
<1>7. ASSUME NEW ok \in BOOLEAN, saveLabels(ok)
      PROVE  LInv'
  BY <1>7, SaveWrites, ClosedLInv DEF saveLabels
<1>8. CASE closeLabels
  BY <1>8, ClosedLInv DEF closeLabels, LInv, LabelsTypeOK
<1>9. QED
  BY <1>1, <1>2, <1>3, <1>4, <1>5, <1>6, <1>7, <1>8 DEF LabelNext

\* The event form leaves the labels alone.
LEMMA StepOfLabels == [Next]_<<eventVars, labelVars>> => [LabelNext]_labelVars
BY DEF Next

\* Only a save writes the state.
LEMMA WrittenBySave ==
    ASSUME [LabelNext]_labelVars, node' # node
    PROVE  \E ok \in BOOLEAN : saveLabels(ok)
BY DEF LabelNext, labelVars, show, typeLabels, addLabel, syncFinishRating, typeFeedback, closeLabels

LEMMA SpecLInv == Spec => []LInv
<1>1. LInv /\ [Next]_<<eventVars, labelVars>> => LInv'
  BY StepOfLabels, NextLInv
<1>2. QED
  BY <1>1, InitLInv, PTL DEF Spec

\* However labels are typed, added and taken away, the labels and label_meta
\* that are saved agree: FINISH with a score, NEED_FEEDBACK with a text, no
\* score among the labels, and the keys of others kept.
THEOREM SavedLabelsAgree == Spec => LabelsAgree
<1> DEFINE Agrees ==
      node' # node =>
         /\ ("FINISH" \in node'.labels) = (node'.meta.FINISH # "none")
         /\ node'.meta.FINISH \in ValidRating \cup {"none"}
         /\ ("NEED_FEEDBACK" \in node'.labels) = (node'.meta.NEED_FEEDBACK # "none")
         /\ node'.labels \cap ScoreLabel = {}
         /\ node'.meta.other = node.meta.other
<1>1. LInv /\ [LabelNext]_labelVars => Agrees
  <2> SUFFICES ASSUME LInv, [LabelNext]_labelVars, node' # node PROVE Agrees
    OBVIOUS
  <2>1. PICK ok \in BOOLEAN : saveLabels(ok)
    BY WrittenBySave
  <2>2. /\ node'.labels = input
        /\ node'.meta.FINISH = IF "FINISH" \in input THEN rating ELSE "none"
        /\ node'.meta.NEED_FEEDBACK = IF "NEED_FEEDBACK" \in input THEN feedback ELSE "none"
        /\ node'.meta.other = node.meta.other
    BY <2>1, SaveWrites
  <2>3. "FINISH" \in input => rating \in ValidRating /\ rating # "none"
    BY <2>1 DEF saveLabels, ValidRating
  <2>4. feedback # "none" /\ input \cap ScoreLabel = {}
    BY LabelAssumption DEF LInv, LabelsTypeOK
  <2>5. QED
    BY <2>2, <2>3, <2>4
<1>2. LInv /\ [Next]_<<eventVars, labelVars>> => [Agrees]_labelVars
  BY <1>1, StepOfLabels
<1>3. QED
  BY <1>2, SpecLInv, PTL DEF Spec, LabelsAgree

\* A form that is opened and saved keeps the labels, but for the scores among
\* them, the score and the text.
THEOREM UneditedLabelsSurvive == Spec => UneditedLabelsKept
<1> DEFINE Kept ==
      node' # node /\ ~changed =>
         /\ node'.labels = node.labels \ ScoreLabel
         /\ "FINISH" \in node.labels =>
              IF node.meta.FINISH \in ValidRating THEN node'.meta.FINISH = node.meta.FINISH
              ELSE node'.meta.FINISH = scoreLabel(node.labels)
         /\ "NEED_FEEDBACK" \in node.labels /\ node.meta.NEED_FEEDBACK # "none" =>
              node'.meta.NEED_FEEDBACK = node.meta.NEED_FEEDBACK
<1>1. LInv /\ [LabelNext]_labelVars => Kept
  <2> SUFFICES ASSUME LInv, [LabelNext]_labelVars, node' # node, ~changed PROVE Kept
    OBVIOUS
  <2>1. PICK ok \in BOOLEAN : saveLabels(ok)
    BY WrittenBySave
  <2>2. /\ node'.labels = input
        /\ node'.meta.FINISH = IF "FINISH" \in input THEN rating ELSE "none"
        /\ node'.meta.NEED_FEEDBACK = IF "NEED_FEEDBACK" \in input THEN feedback ELSE "none"
    BY <2>1, SaveWrites
  <2>3. /\ input = node.labels \ ScoreLabel
        /\ "FINISH" \in input => rating = startRating(node)
        /\ "NEED_FEEDBACK" \in input => feedback = StartFeedback
    BY <2>1 DEF LInv, AsOpened, saveLabels, stripScoreLabels
  <2>4. "FINISH" \in input => rating \in ValidRating
    BY <2>1 DEF saveLabels
  <2>5. ASSUME "FINISH" \in node.labels
        PROVE  IF node.meta.FINISH \in ValidRating THEN node'.meta.FINISH = node.meta.FINISH
               ELSE node'.meta.FINISH = scoreLabel(node.labels)
    <3>1. "FINISH" \in input
      BY <2>3, <2>5, StrippedLabels
    <3>2. NoText \notin ValidRating /\ "none" \notin ValidRating
      BY LabelAssumption DEF ValidRating
    <3>3. node'.meta.FINISH = startRating(node) /\ startRating(node) \in ValidRating
      BY <2>2, <2>3, <2>4, <3>1
    <3>4. QED
      BY <3>2, <3>3 DEF startRating
  <2>6. ASSUME "NEED_FEEDBACK" \in node.labels, node.meta.NEED_FEEDBACK # "none"
        PROVE  node'.meta.NEED_FEEDBACK = node.meta.NEED_FEEDBACK
    BY <2>2, <2>3, <2>6, StrippedLabels DEF StartFeedback
  <2>7. QED
    BY <2>2, <2>3, <2>5, <2>6
<1>2. LInv /\ [Next]_<<eventVars, labelVars>> => [Kept]_labelVars
  BY <1>1, StepOfLabels
<1>3. QED
  BY <1>2, SpecLInv, PTL DEF Spec, UneditedLabelsKept

-----------------------------------------------------------------------------
(* The form of an event *)

ImageKeys == {"shown", "field", "mode", "labels", "loaded", "at", "x", "left", "width", "from",
              "to", "dragging"}

ImageTypeOK ==
    /\ DOMAIN img = ImageKeys
    /\ img.mode \in {"point", "bbox"}
    /\ img.loaded => img.at \in Shown
    /\ img.dragging => img.loaded /\ img.from \in Nat /\ img.to \in Nat

\* A value of the form: a point or a box may be marked as incomplete.
Held(v) ==
    \/ /\ v.kind = "point" /\ v.torn \in BOOLEAN
       /\ v = [kind |-> "point", x |-> v.x, torn |-> v.torn]
    \/ /\ v.kind = "bbox" /\ v.torn \in BOOLEAN
       /\ v = [kind |-> "bbox", left |-> v.left, width |-> v.width, torn |-> v.torn]
    \/ v.kind = "view" /\ v = View(v.text)
    \/ v.kind = "plain" /\ v = Plain(v.text)

FieldsHeld(p) ==
    /\ p = [class |-> p.class, fields |-> p.fields]
    /\ \A f \in DOMAIN p.fields : Held(p.fields[f])

FormHeld == form # Null => FieldsHeld(form)

StringsWritten ==
    /\ EventString(stored)
    /\ saving # Null => saving = Blank \/ EventString(saving)

\* Until the user changes something the form is what the string was read as.
EventAsOpened == open /\ ~adding /\ ~touched => form = parseEventStr(stored)

EInv == ImageTypeOK /\ FormHeld /\ StringsWritten /\ EventAsOpened

\* The values the form can hold.
LEMMA HeldValues ==
    /\ \A x : \A torn \in BOOLEAN : Held([kind |-> "point", x |-> x, torn |-> torn])
    /\ \A left, width : \A torn \in BOOLEAN :
           Held([kind |-> "bbox", left |-> left, width |-> width, torn |-> torn])
    /\ \A text : Held(View(text)) /\ Held(Plain(text))
BY DEF Held, View, Plain

\* The values a string can have.
LEMMA WrittenValues ==
    /\ \A x : Written(Point(x))
    /\ \A left, width : Written(Bbox(left, width)) /\ Written(Nested(left, width))
    /\ \A text : text # "" => Written(View(text))
    /\ \A text : Written(Plain(text))
    /\ \A kind \in {"point", "bbox"} : Written(Torn(kind))
<1>1. \A x : Written(Point(x))
  BY DEF Written, Point
<1>2. \A left, width : Written(Bbox(left, width))
  BY DEF Written, Bbox
<1>3. \A left, width : Written(Nested(left, width))
  BY DEF Written, Nested
<1>4. \A text : text # "" => Written(View(text))
  BY DEF Written, View
<1>5. \A text : Written(Plain(text))
  BY DEF Written, Plain
<1>6. \A kind \in {"point", "bbox"} : Written(Torn(kind))
  BY DEF Written, Torn
<1>7. QED
  BY <1>1, <1>2, <1>3, <1>4, <1>5, <1>6

\* What is read can be held, and what is held can be written; a value that parsing
\* gives back is written as it was read.
LEMMA ReadIsHeld == \A w : Written(w) => Held(parseParameters(w))
<1> SUFFICES ASSUME NEW w, Written(w) PROVE Held(parseParameters(w))
  OBVIOUS
<1>1. CASE w.kind = "point" /\ w = Point(w.x)
  <2>1. PICK x : w = [kind |-> "point", x |-> x, torn |-> FALSE]
    BY <1>1 DEF Point
  <2>2. parseParameters(w) = w
    BY <2>1 DEF parseParameters
  <2>3. QED
    BY <2>1, <2>2, HeldValues
<1>2. CASE w.kind = "bbox" /\ w = Bbox(w.left, w.width)
  <2>1. PICK x, y : w = [kind |-> "bbox", left |-> x, width |-> y, torn |-> FALSE]
    BY <1>2 DEF Bbox
  <2>2. parseParameters(w) = w
    BY <2>1 DEF parseParameters
  <2>3. QED
    BY <2>1, <2>2, HeldValues
<1>3. CASE w.kind = "view" /\ w = View(w.text)
  BY <1>3 DEF Held, parseParameters, View, Plain
<1>4. CASE w.kind = "plain" /\ w = Plain(w.text)
  BY <1>4, HeldValues DEF parseParameters, Point
<1>5. CASE w.kind = "torn" /\ w = Torn(w.of) /\ w.of \in {"point", "bbox"}
  BY <1>5 DEF Held, parseParameters, Point, Bbox
<1>6. CASE w.kind = "nested" /\ w = Nested(w.left, w.width)
  BY <1>6, HeldValues DEF parseParameters, Bbox
<1>7. QED
  BY <1>1, <1>2, <1>3, <1>4, <1>5, <1>6 DEF Written

LEMMA HeldIsWritten == \A v : Held(v) => Written(formatFieldValue(v))
<1> SUFFICES ASSUME NEW v, Held(v) PROVE Written(formatFieldValue(v))
  OBVIOUS
<1>1. CASE v.kind \in {"point", "bbox"} /\ v.torn
  <2>1. formatFieldValue(v) = Torn(v.kind)
    BY <1>1 DEF formatFieldValue
  <2>2. QED
    BY <1>1, <2>1, WrittenValues
<1>2. CASE /\ v.kind = "point" /\ v.torn = FALSE
           /\ v = [kind |-> "point", x |-> v.x, torn |-> v.torn]
  <2>1. v = Point(v.x)
    BY <1>2 DEF Point
  <2>2. v.kind = "point" /\ ~v.torn
    BY <1>2
  <2>3. formatFieldValue(v) = v
    BY <2>2 DEF formatFieldValue
  <2>4. QED
    BY <2>1, <2>3, WrittenValues
<1>3. CASE /\ v.kind = "bbox" /\ v.torn = FALSE
           /\ v = [kind |-> "bbox", left |-> v.left, width |-> v.width, torn |-> v.torn]
  <2>1. v = Bbox(v.left, v.width)
    BY <1>3 DEF Bbox
  <2>2. v.kind = "bbox" /\ ~v.torn
    BY <1>3
  <2>3. formatFieldValue(v) = v
    BY <2>2 DEF formatFieldValue
  <2>4. QED
    BY <2>1, <2>3, WrittenValues
<1>4. CASE v.kind = "view" /\ v = View(v.text)
  <2>1. CASE v.text = ""
    <3>1. formatFieldValue(v) = View("json")
      BY <1>4, <2>1 DEF formatFieldValue
    <3>2. QED
      BY <3>1, WrittenValues
  <2>2. CASE v.text # ""
    <3>1. formatFieldValue(v) = v
      BY <1>4, <2>2 DEF formatFieldValue
    <3>2. QED
      BY <1>4, <2>2, <3>1, WrittenValues
  <2>3. QED
    BY <2>1, <2>2
<1>5. CASE v.kind = "plain" /\ v = Plain(v.text)
  <2>1. formatFieldValue(v) = v
    BY <1>5 DEF formatFieldValue
  <2>2. QED
    BY <1>5, <2>1, WrittenValues
<1>6. QED
  BY <1>1, <1>2, <1>3, <1>4, <1>5 DEF Held

\* The form writes what the server reads as it read the value before.
LEMMA ReadAlike ==
    \A w : Written(w) /\ ReadBack(w) => ReadValue(formatFieldValue(parseParameters(w))) = ReadValue(w)
<1> SUFFICES ASSUME NEW w, Written(w), ReadBack(w)
             PROVE  ReadValue(formatFieldValue(parseParameters(w))) = ReadValue(w)
  OBVIOUS
<1>1. CASE w.kind = "point" /\ w = Point(w.x)
  <2>1. PICK x : w = [kind |-> "point", x |-> x, torn |-> FALSE]
    BY <1>1 DEF Point
  <2>2. formatFieldValue(parseParameters(w)) = w
    BY <2>1 DEF parseParameters, formatFieldValue
  <2>3. QED
    BY <2>2
<1>2. CASE w.kind = "bbox" /\ w = Bbox(w.left, w.width)
  <2>1. PICK x, y : w = [kind |-> "bbox", left |-> x, width |-> y, torn |-> FALSE]
    BY <1>2 DEF Bbox
  <2>2. formatFieldValue(parseParameters(w)) = w
    BY <2>1 DEF parseParameters, formatFieldValue
  <2>3. QED
    BY <2>2
<1>3. CASE w.kind = "nested" /\ w = Nested(w.left, w.width)
  <2>1. parseParameters(w) = Bbox(w.left, w.width)
    BY <1>3 DEF parseParameters
  <2>2. formatFieldValue(Bbox(w.left, w.width)) = Bbox(w.left, w.width)
    BY DEF formatFieldValue, Bbox
  <2>3. ReadValue(Bbox(w.left, w.width)) = Bbox(w.left, w.width)
    BY DEF ReadValue, Bbox
  <2>4. QED
    BY <1>3, <2>1, <2>2, <2>3 DEF ReadValue
<1>4. CASE w.kind = "view" /\ w = View(w.text) /\ w.text # ""
  BY <1>4 DEF ReadBack, parseParameters, formatFieldValue
<1>5. CASE w.kind = "plain" /\ w = Plain(w.text)
  <2>1. parseParameters(w) = Plain(ReadText(w.text))
        /\ ReadText(w.text) = IF w.text = "list" THEN "word" ELSE w.text
    BY <1>5 DEF ReadBack, parseParameters, ReadText
  <2>2. formatFieldValue(Plain(ReadText(w.text))) = Plain(ReadText(w.text))
    BY DEF formatFieldValue, Plain
  <2>3. w.text # "marked"
    BY <1>5 DEF ReadBack
  <2>4. QED
    BY <1>5, <2>1, <2>2, <2>3 DEF ReadValue, Plain
<1>6. CASE w.kind = "torn" /\ w = Torn(w.of) /\ w.of \in {"point", "bbox"}
  <2>1. formatFieldValue(parseParameters(w)) = w
    BY <1>6 DEF parseParameters, formatFieldValue, Point, Bbox
  <2>2. QED
    BY <2>1
<1>7. QED
  BY <1>1, <1>2, <1>3, <1>4, <1>5, <1>6 DEF Written

\* A value that was read is read again from what the form writes for it.
LEMMA ReadAgain ==
    \A w : Written(w) => parseParameters(formatFieldValue(parseParameters(w))) = parseParameters(w)
<1> SUFFICES ASSUME NEW w, Written(w)
             PROVE  parseParameters(formatFieldValue(parseParameters(w))) = parseParameters(w)
  OBVIOUS
<1>1. \A x : parseParameters(formatFieldValue(Point(x))) = Point(x)
  BY DEF parseParameters, formatFieldValue, Point
<1>2. \A x, y : parseParameters(formatFieldValue(Bbox(x, y))) = Bbox(x, y)
  BY DEF parseParameters, formatFieldValue, Bbox
<1>3. CASE w.kind = "point" /\ w = Point(w.x)
  <2>1. PICK x : w = Point(x)
    BY <1>3
  <2>2. parseParameters(w) = w
    BY <2>1 DEF parseParameters, Point
  <2>3. QED
    BY <1>1, <2>1, <2>2
<1>4. CASE w.kind = "bbox" /\ w = Bbox(w.left, w.width)
  <2>1. PICK x, y : w = Bbox(x, y)
    BY <1>4
  <2>2. parseParameters(w) = w
    BY <2>1 DEF parseParameters, Bbox
  <2>3. QED
    BY <1>2, <2>1, <2>2
<1>5. CASE w.kind = "nested" /\ w = Nested(w.left, w.width)
  <2>1. parseParameters(w) = Bbox(w.left, w.width)
    BY <1>5 DEF parseParameters
  <2>2. QED
    BY <1>2, <2>1
<1>6. CASE w.kind = "view" /\ w = View(w.text) /\ w.text # ""
  BY <1>6 DEF parseParameters, formatFieldValue, View, Plain, ReadText
<1>7. CASE w.kind = "plain" /\ w = Plain(w.text)
  <2>1. CASE w.text = "marked"
    <3>1. parseParameters(w) = Point(0)
      BY <1>7, <2>1 DEF parseParameters
    <3>2. QED
      BY <1>1, <3>1
  <2>2. CASE w.text # "marked"
    <3>1. parseParameters(w) = Plain(ReadText(w.text))
      BY <1>7, <2>2 DEF parseParameters
    <3>2. ReadText(w.text) # "marked" /\ ReadText(ReadText(w.text)) = ReadText(w.text)
      BY <2>2 DEF ReadText
    <3>3. formatFieldValue(Plain(ReadText(w.text))) = Plain(ReadText(w.text))
      BY DEF formatFieldValue, Plain
    <3>4. parseParameters(Plain(ReadText(w.text))) = Plain(ReadText(w.text))
      BY <3>2 DEF parseParameters, Plain
    <3>5. QED
      BY <3>1, <3>3, <3>4
  <2>3. QED
    BY <2>1, <2>2
<1>8. CASE w.kind = "torn" /\ w = Torn(w.of) /\ w.of \in {"point", "bbox"}
  <2>1. formatFieldValue(parseParameters(w)) = w
    BY <1>8 DEF parseParameters, formatFieldValue, Point, Bbox
  <2>2. QED
    BY <2>1
<1>9. QED
  BY <1>3, <1>4, <1>5, <1>6, <1>7, <1>8 DEF Written

LEMMA ParsedIsHeld ==
    ASSUME NEW s, EventString(s), parseEventStr(s) # Null
    PROVE  FieldsHeld(parseEventStr(s))
BY ReadIsHeld DEF EventString, FieldsHeld, parseEventStr

LEMMA GeneratedIsWritten ==
    ASSUME NEW p, FieldsHeld(p)
    PROVE  EventString(generateEventStr(p))
BY HeldIsWritten DEF EventString, FieldsHeld, generateEventStr

\* A string the server writes for a new event.
LEMMA NewIsWritten ==
    ASSUME NEW s, EventString(s), NEW found \in BOOLEAN
    PROVE  EventString(get_event_str(s, found))
<1> DEFINE names == (DOMAIN s.fields \cap SchemaFields(s.class))
                    \ (IF s.class = "SwipeEvent" THEN {"view"} ELSE {})
           write(v) == IF v.kind = "bbox" THEN Nested(v.left, v.width) ELSE v
           all == names \cup (IF s.class = "SwipeEvent" THEN {"start_view", "end_view"} ELSE {})
           value(f) == CASE f = "view" -> IF found /\ s.fields[f] = View("view") THEN View("view")
                                          ELSE Plain("None")
                         [] f \in {"start_view", "end_view"} -> Plain("None")
                         [] OTHER -> write(ReadValue(s.fields[f]))
           fields == [f \in all |-> value(f)]
<1>1. get_event_str(s, found) = [class |-> s.class, ordered |-> s.class # "SwipeEvent", fields |-> fields]
  BY DEF get_event_str
<1>2. \A w : Written(w) => Written(ReadValue(w))
  <2> SUFFICES ASSUME NEW w, Written(w) PROVE Written(ReadValue(w))
    OBVIOUS
  <2>1. CASE w.kind = "nested"
    <3>1. ReadValue(w) = Bbox(w.left, w.width)
      BY <2>1 DEF ReadValue
    <3>2. QED
      BY <3>1, WrittenValues
  <2>2. CASE w.kind = "plain" /\ w.text \in {"list", "marked"}
    <3>1. ReadValue(w) = Plain("word")
      BY <2>2 DEF ReadValue
    <3>2. QED
      BY <3>1, WrittenValues
  <2>3. CASE w.kind # "nested" /\ ~(w.kind = "plain" /\ w.text \in {"list", "marked"})
    <3>1. ReadValue(w) = w
      BY <2>3 DEF ReadValue
    <3>2. QED
      BY <3>1
  <2>4. QED
    BY <2>1, <2>2, <2>3
<1>3. \A w : Written(w) => Written(write(w))
  BY DEF Written, Nested
<1>4. Written(View("view")) /\ Written(Plain("None"))
  BY WrittenValues
<1>5. ASSUME NEW f \in all PROVE Written(value(f))
  <2>1. CASE f \in {"view", "start_view", "end_view"}
    BY <1>4, <2>1
  <2>2. CASE f \notin {"view", "start_view", "end_view"}
    <3>1. f \in DOMAIN s.fields
      BY <2>2
    <3>2. Written(s.fields[f])
      BY <3>1 DEF EventString
    <3>3. Written(write(ReadValue(s.fields[f])))
      BY <1>2, <1>3, <3>2
    <3>4. QED
      BY <2>2, <3>3
  <2>3. QED
    BY <2>1, <2>2
<1> HIDE DEF value, all
<1>6. QED
  BY <1>1, <1>5 DEF EventString

LEMMA KeptEvent ==
    ASSUME NEW s, EventString(s), parseEventStr(s) # Null, Sound(s)
    PROVE  /\ from_event_str(generateEventStr(parseEventStr(s))) = from_event_str(s)
           /\ parseEventStr(generateEventStr(parseEventStr(s))) = parseEventStr(s)
<1> DEFINE p == parseEventStr(s)
           read == [f \in DOMAIN s.fields |-> parseParameters(s.fields[f])]
           sent == [f \in DOMAIN s.fields |-> formatFieldValue(parseParameters(s.fields[f]))]
<1>1. p = [class |-> s.class, fields |-> read] /\ s.class \in Classes
  BY DEF parseEventStr
<1> HIDE DEF p
<1>2. generateEventStr(p) = [class |-> s.class, ordered |-> TRUE, fields |-> sent]
  BY <1>1 DEF generateEventStr
<1>3. \A f \in DOMAIN s.fields : Written(s.fields[f]) /\ ReadBack(s.fields[f])
  BY DEF EventString, Sound
<1>4. from_event_str(generateEventStr(p)) = from_event_str(s)
  <2>1. from_event_str(generateEventStr(p)) =
          [class |-> s.class,
           fields |-> [f \in DOMAIN s.fields |->
                         ReadValue(formatFieldValue(parseParameters(s.fields[f])))]]
    BY <1>2 DEF from_event_str
  <2>2. \A f \in DOMAIN s.fields :
          ReadValue(formatFieldValue(parseParameters(s.fields[f]))) = ReadValue(s.fields[f])
    BY <1>3, ReadAlike
  <2>3. QED
    BY <2>1, <2>2 DEF from_event_str
<1>5. parseEventStr(generateEventStr(p)) = p
  <2>1. parseEventStr(generateEventStr(p)) =
          [class |-> s.class,
           fields |-> [f \in DOMAIN s.fields |->
                         parseParameters(formatFieldValue(parseParameters(s.fields[f])))]]
    BY <1>1, <1>2 DEF parseEventStr
  <2>2. \A f \in DOMAIN s.fields :
          parseParameters(formatFieldValue(parseParameters(s.fields[f]))) = parseParameters(s.fields[f])
    BY <1>3, ReadAgain
  <2>3. QED
    BY <1>1, <2>1, <2>2
<1>6. QED
  BY <1>4, <1>5 DEF p

LEMMA EmptyIsHeld == \A class : FieldsHeld(createEmptyFields(class))
<1> SUFFICES ASSUME NEW class PROVE FieldsHeld(createEmptyFields(class))
  OBVIOUS
<1> DEFINE e == createEmptyFields(class)
<1>1. e = [class |-> e.class, fields |-> e.fields]
  BY DEF createEmptyFields
<1>2. ASSUME NEW f \in DOMAIN e.fields PROVE Held(e.fields[f])
  <2>1. \/ e.fields[f] = View("") \/ e.fields[f] = Point(-1) \/ e.fields[f] = Bbox(-1, -1)
        \/ \E text : e.fields[f] = Plain(text)
    <3>1. e.fields[f] = CASE f = "view" -> View("")
                          [] IsPoint(f) -> Point(-1)
                          [] IsBbox(f) -> Bbox(-1, -1)
                          [] OTHER -> getDefaultValueForField(f)
      BY <1>2 DEF createEmptyFields
    <3>2. \E text : getDefaultValueForField(f) = Plain(text)
      BY DEF getDefaultValueForField
    <3> HIDE DEF e
    <3>3. QED
      BY <3>1, <3>2
  <2>2. Held(View("")) /\ Held(Point(-1)) /\ Held(Bbox(-1, -1)) /\ \A text : Held(Plain(text))
    BY DEF Held, View, Point, Bbox, Plain
  <2>3. QED
    BY <2>1, <2>2
<1>3. QED
  BY <1>1, <1>2 DEF FieldsHeld

LEMMA MigratedIsHeld ==
    ASSUME NEW old, FieldsHeld(old), NEW class
    PROVE  FieldsHeld(migrateCompatibleFields(old, class))
<1> DEFINE e == createEmptyFields(class)
           m == [f \in DOMAIN e.fields |->
                    IF f \in DOMAIN old.fields /\ isFieldValueCompatible(f, old.fields[f])
                    THEN old.fields[f] ELSE e.fields[f]]
<1>1. e = [class |-> e.class, fields |-> e.fields]
      /\ \A f \in DOMAIN e.fields : Held(e.fields[f])
  BY EmptyIsHeld DEF FieldsHeld
<1>2. \A f \in DOMAIN m : Held(m[f])
  BY <1>1 DEF FieldsHeld
<1> HIDE DEF e
<1>3. migrateCompatibleFields(old, class) = [e EXCEPT !.fields = m]
  BY DEF migrateCompatibleFields, e
<1> HIDE DEF m
<1>4. [e EXCEPT !.fields = m] = [class |-> e.class, fields |-> m]
  BY <1>1
<1>5. QED
  BY <1>2, <1>3, <1>4 DEF FieldsHeld

LEMMA InputIsHeld ==
    ASSUME NEW f, NEW v, Held(v), NEW w \in Inputs(f, v)
    PROVE  Held(w)
<1>1. CASE v.kind = "point"
  <2>1. v = [kind |-> "point", x |-> v.x, torn |-> v.torn] /\ v.torn \in BOOLEAN
    BY <1>1 DEF Held
  <2>2. PICK n \in Typed : w = [v EXCEPT !.x = n]
    BY <1>1 DEF Inputs
  <2>3. w = [kind |-> "point", x |-> n, torn |-> v.torn]
    BY <2>1, <2>2
  <2>4. QED
    BY <2>1, <2>3 DEF Held
<1>2. CASE v.kind = "bbox"
  <2>1. v = [kind |-> "bbox", left |-> v.left, width |-> v.width, torn |-> v.torn]
        /\ v.torn \in BOOLEAN
    BY <1>2 DEF Held
  <2>2. PICK n \in Typed : w = [v EXCEPT !.left = n] \/ w = [v EXCEPT !.width = n]
    BY <1>2 DEF Inputs
  <2>3. \/ w = [kind |-> "bbox", left |-> n, width |-> v.width, torn |-> v.torn]
        \/ w = [kind |-> "bbox", left |-> v.left, width |-> n, torn |-> v.torn]
    BY <2>1, <2>2
  <2>4. QED
    BY <2>1, <2>3 DEF Held
<1>3. CASE v.kind = "view"
  <2>1. w \in {View(""), View("view")}
    BY <1>3 DEF Inputs
  <2>2. QED
    BY <2>1, HeldValues
<1>4. CASE v.kind = "plain"
  BY <1>4 DEF Inputs, Held, Plain
<1>5. QED
  BY <1>1, <1>2, <1>3, <1>4 DEF Held

\* An opening, whichever string it shows.
LEMMA OpeningEInv ==
    ASSUME EInv, NEW new \in BOOLEAN, Opening(new), FormHeld',
           ~new => form' = parseEventStr(stored)
    PROVE  EInv'
<1>1. UNCHANGED <<img, stored, saving>> /\ adding' = new
  BY DEF Opening
<1>2. ImageTypeOK' /\ StringsWritten'
  BY <1>1 DEF EInv, ImageTypeOK, StringsWritten
<1>3. EventAsOpened'
  <2>1. parseEventStr(stored)' = parseEventStr(stored)
    BY <1>1
  <2>2. QED
    BY <1>1, <2>1 DEF EventAsOpened
<1>4. QED
  BY <1>2, <1>3 DEF EInv

\* A change of the form alone.
LEMMA TouchedEInv ==
    ASSUME EInv, UNCHANGED <<stored, saving>>, touched' = TRUE, ImageTypeOK', FormHeld'
    PROVE  EInv'
BY DEF EInv, StringsWritten, EventAsOpened

\* A change of the image alone.
LEMMA ImageEInv ==
    ASSUME EInv, EditorOnly, ImageTypeOK'
    PROVE  EInv'
<1>1. parseEventStr(stored)' = parseEventStr(stored)
  BY DEF EditorOnly
<1>2. QED
  BY <1>1 DEF EInv, EditorOnly, StringsWritten, EventAsOpened, FormHeld

LEMMA ClosedEInv ==
    ASSUME EInv, form' = Null, open' = FALSE, EventString(stored'), saving' = Null \/ saving' = saving,
           UNCHANGED img
    PROVE  EInv'
BY DEF EInv, StringsWritten, EventAsOpened, FormHeld, ImageTypeOK

LEMMA NoImgTyped == img' = NoImg => ImageTypeOK'
BY DEF NoImg, ImageTypeOK, ImageKeys

LEMMA PixelsType == Pixels \subseteq Nat
<1>1. (CHOOSE n \in Shown : \A m \in Shown : m <= n) \in Nat
  BY WidthAssumption
<1>2. QED
  BY <1>1 DEF Pixels

\* The value picked in the image is a value of its kind.
LEMMA PickedIsHeld ==
    ASSUME NEW v, Held(v), v.kind = img.mode, img.mode \in {"point", "bbox"}
    PROVE  Held(Picked(v))
<1>1. CASE img.mode = "bbox"
  <2>1. v = [kind |-> "bbox", left |-> v.left, width |-> v.width, torn |-> v.torn]
        /\ v.torn \in BOOLEAN
    BY <1>1 DEF Held
  <2>2. Picked(v) = [kind |-> "bbox", left |-> img.left, width |-> img.width, torn |-> v.torn]
    BY <1>1, <2>1 DEF Picked
  <2>3. QED
    BY <2>1, <2>2, HeldValues
<1>2. CASE img.mode = "point"
  <2>1. v = [kind |-> "point", x |-> v.x, torn |-> v.torn] /\ v.torn \in BOOLEAN
    BY <1>2 DEF Held
  <2>2. Picked(v) = [kind |-> "point", x |-> img.x, torn |-> v.torn]
    BY <1>2, <2>1 DEF Picked
  <2>3. QED
    BY <2>1, <2>2, HeldValues
<1>3. QED
  BY <1>1, <1>2

LEMMA InitEInv == Init => EInv
BY RecordedAssumption, NoImgTyped
   DEF Init, EventInit, EInv, FormHeld, StringsWritten, EventAsOpened, ImageTypeOK, NoImg, ImageKeys

LEMMA NextEInv == EInv /\ [EventNext]_eventVars => EInv'
<1> SUFFICES ASSUME EInv, [EventNext]_eventVars PROVE EInv'
  OBVIOUS
<1>0. /\ DOMAIN img = ImageKeys /\ img.mode \in {"point", "bbox"}
      /\ img.loaded => img.at \in Shown
      /\ img.dragging => img.loaded /\ img.from \in Nat /\ img.to \in Nat
  BY DEF EInv, ImageTypeOK
<1>a. /\ form # Null => FieldsHeld(form)
      /\ EventString(stored)
      /\ saving # Null => saving = Blank \/ EventString(saving)
  BY DEF EInv, FormHeld, StringsWritten
<1>1. CASE UNCHANGED eventVars
  <2>1. parseEventStr(stored)' = parseEventStr(stored)
    BY <1>1 DEF eventVars
  <2>2. QED
    BY <1>1, <2>1 DEF eventVars, EInv, ImageTypeOK, FormHeld, StringsWritten, EventAsOpened
<1>2. CASE openForNodeEditing
  <2>1. Opening(FALSE) /\ form' = parseEventStr(stored)
    BY <1>2 DEF openForNodeEditing, Filled
  <2>2. FormHeld'
    BY <1>a, <2>1, ParsedIsHeld DEF FormHeld
  <2>3. QED
    BY <2>1, <2>2, OpeningEInv
<1>3. CASE addNewEvent
  <2>1. Opening(TRUE) /\ form' = createEmptyFields("TouchEvent")
    BY <1>3 DEF addNewEvent, Filled
  <2>2. FormHeld'
    BY <2>1, EmptyIsHeld DEF FormHeld
  <2>3. QED
    BY <2>1, <2>2, OpeningEInv
<1>4. ASSUME NEW t \in allowedEventTypes, handleEventTypeChange(t) PROVE EInv'
  <2>1. UNCHANGED <<stored, saving, img>> /\ touched' = TRUE
    BY <1>4 DEF handleEventTypeChange
  <2>2. FormHeld'
    BY <1>4, <1>a, EmptyIsHeld, MigratedIsHeld DEF handleEventTypeChange, FormHeld
  <2>3. ImageTypeOK'
    BY <1>0, <2>1 DEF ImageTypeOK
  <2>4. QED
    BY <2>1, <2>2, <2>3, TouchedEInv
<1>5. ASSUME NEW f \in Fields, updateFieldValue(f) PROVE EInv'
  <2>1. UNCHANGED <<stored, saving, img>> /\ touched' = TRUE /\ form # Null
    BY <1>5 DEF updateFieldValue
  <2>2. f \in DOMAIN form.fields /\ FieldsHeld(form)
    BY <1>a, <2>1 DEF Fields
  <2>3. PICK v \in Inputs(f, form.fields[f]) : form' = [form EXCEPT !.fields[f] = v]
    BY <1>5 DEF updateFieldValue
  <2>4. Held(v)
    BY <2>2, InputIsHeld DEF FieldsHeld
  <2>5. form' = [class |-> form.class, fields |-> [form.fields EXCEPT ![f] = v]]
    BY <2>2, <2>3 DEF FieldsHeld
  <2>6. \A g \in DOMAIN form.fields : Held([form.fields EXCEPT ![f] = v][g])
    BY <2>2, <2>4 DEF FieldsHeld
  <2>7. FieldsHeld(form')
    BY <2>5, <2>6 DEF FieldsHeld
  <2>8. ImageTypeOK'
    BY <1>0, <2>1 DEF ImageTypeOK
  <2>9. QED
    BY <2>1, <2>7, <2>8, TouchedEInv DEF FormHeld
<1>6. CASE save
  <2>1. UNCHANGED <<stored, form, open, adding, img, touched>>
    BY <1>6 DEF save
  <2>2. saving' = Blank \/ EventString(saving')
    BY <1>6, <1>a, GeneratedIsWritten DEF save
  <2>3. parseEventStr(stored)' = parseEventStr(stored)
    BY <2>1
  <2>4. QED
    BY <2>1, <2>2, <2>3 DEF EInv, ImageTypeOK, FormHeld, StringsWritten, EventAsOpened
<1>7. ASSUME NEW ok \in BOOLEAN, SaveAnswered(ok) PROVE EInv'
  <2>1. UNCHANGED img /\ saving # Null /\ saving' = Null
    BY <1>7 DEF SaveAnswered
  <2>2. CASE ok
    <3>1. Readable(saving) /\ open' = FALSE /\ form' = Null
          /\ (stored' = saving \/ \E found \in BOOLEAN : stored' = get_event_str(saving, found))
      BY <1>7, <2>2 DEF SaveAnswered
    <3>2. EventString(saving)
      <4>1. Blank.class \notin Classes
        BY DEF Blank, Classes, eventTypeSchema
      <4>2. saving.class \in Classes
        BY <3>1 DEF Readable
      <4>3. saving # Blank
        BY <4>1, <4>2
      <4>4. QED
        BY <1>a, <2>1, <4>3
    <3>3. EventString(stored')
      BY <3>1, <3>2, NewIsWritten
    <3>4. QED
      BY <2>1, <3>1, <3>3, ClosedEInv
  <2>3. CASE ~ok
    <3>1. UNCHANGED <<stored, open, form, adding, touched>>
      BY <1>7, <2>3 DEF SaveAnswered
    <3>2. parseEventStr(stored)' = parseEventStr(stored)
      BY <3>1
    <3>3. QED
      BY <2>1, <3>1, <3>2 DEF EInv, ImageTypeOK, FormHeld, StringsWritten, EventAsOpened
  <2>4. QED
    BY <2>2, <2>3
<1>8. CASE close
  BY <1>8, <1>a, ClosedEInv DEF close
<1>9. ASSUME NEW f \in Fields, openPointImageEditor(f) PROVE EInv'
  <2>1. ImageTypeOK'
    BY <1>9, <1>0 DEF openPointImageEditor, ImageTypeOK, ImageKeys
  <2>2. QED
    BY <1>9, <2>1, ImageEInv DEF openPointImageEditor
<1>10. ASSUME NEW f \in Fields, openBboxImageEditor(f) PROVE EInv'
  <2>1. ImageTypeOK'
    BY <1>10, <1>0 DEF openBboxImageEditor, updateBboxCoordinateLabels, ImageTypeOK, ImageKeys
  <2>2. QED
    BY <1>10, <2>1, ImageEInv DEF openBboxImageEditor
<1>11. ASSUME NEW m \in {"point", "bbox"}, NEW w \in Shown, Displayed(m, w) PROVE EInv'
  <2>1. ImageTypeOK'
    BY <1>11, <1>0 DEF Displayed, ImageTypeOK, ImageKeys
  <2>2. QED
    BY <1>11, <2>1, ImageEInv DEF Displayed
<1>12. ASSUME NEW w \in Shown, zoomImage(w) PROVE EInv'
  <2>1. ImageTypeOK'
    BY <1>12, <1>0 DEF zoomImage, ImageTypeOK, ImageKeys
  <2>2. QED
    BY <1>12, <2>1, ImageEInv DEF zoomImage
<1>13. ASSUME NEW p \in Pixels, handleImageClick(p) PROVE EInv'
  <2>1. ImageTypeOK'
    BY <1>13, <1>0 DEF handleImageClick, ImageTypeOK, ImageKeys
  <2>2. QED
    BY <1>13, <2>1, ImageEInv DEF handleImageClick
<1>14. ASSUME NEW p \in Pixels, handleBboxMouseDown(p) PROVE EInv'
  <2>1. ImageTypeOK'
    BY <1>14, <1>0, PixelsType DEF handleBboxMouseDown, ImageTypeOK, ImageKeys
  <2>2. QED
    BY <1>14, <2>1, ImageEInv DEF handleBboxMouseDown
<1>15. ASSUME NEW p \in Pixels, handleBboxMouseMove(p) PROVE EInv'
  <2>1. ImageTypeOK'
    BY <1>15, <1>0, PixelsType
       DEF handleBboxMouseMove, updateBboxCoordinateDisplay, ImageTypeOK, ImageKeys
  <2>2. QED
    BY <1>15, <2>1, ImageEInv DEF handleBboxMouseMove
<1>16. CASE handleBboxMouseUp
  <2>1. ImageTypeOK'
    BY <1>16, <1>0 DEF handleBboxMouseUp, updateBboxCoordinateDisplay, ImageTypeOK, ImageKeys
  <2>2. QED
    BY <1>16, <2>1, ImageEInv DEF handleBboxMouseUp
<1>17. CASE cancelImageEditor
  BY <1>17, NoImgTyped, ImageEInv DEF cancelImageEditor, closePointImageEditor
<1>18. CASE applyPointCoordinates
  <2>1. UNCHANGED <<stored, open, adding, saving>> /\ ImageTypeOK'
    BY <1>18, NoImgTyped DEF applyPointCoordinates, closePointImageEditor
  <2>2. CASE UNCHANGED <<form, touched>>
    <3>1. parseEventStr(stored)' = parseEventStr(stored)
      BY <2>1
    <3>2. QED
      BY <2>1, <2>2, <3>1 DEF EInv, FormHeld, StringsWritten, EventAsOpened
  <2>3. CASE ~UNCHANGED <<form, touched>>
    <3> DEFINE old == IF img.field \in DOMAIN form.fields THEN form.fields[img.field]
                      ELSE IF img.mode = "bbox" THEN Bbox(0, 0) ELSE Point(0)
               merged == [f \in DOMAIN form.fields \cup {img.field} |->
                            IF f = img.field THEN Picked(old) ELSE form.fields[f]]
    <3>1. /\ form # Null /\ old.kind = img.mode /\ touched' = TRUE
          /\ form' = [form EXCEPT !.fields = merged]
      BY <1>18, <2>3 DEF applyPointCoordinates
    <3>2. FieldsHeld(form)
      BY <1>a, <3>1
    <3>3. Held(old)
      BY <3>2 DEF FieldsHeld, Held, Bbox, Point
    <3> HIDE DEF old
    <3>4. Held(Picked(old))
      BY <1>0, <3>1, <3>3, PickedIsHeld
    <3>5. \A f \in DOMAIN merged : Held(merged[f])
      BY <3>2, <3>4 DEF FieldsHeld
    <3> HIDE DEF merged
    <3>6. form' = [class |-> form.class, fields |-> merged]
      BY <3>1, <3>2 DEF FieldsHeld
    <3>7. FormHeld'
      BY <3>5, <3>6 DEF FormHeld, FieldsHeld
    <3>8. QED
      BY <2>1, <3>1, <3>7, TouchedEInv
  <2>4. QED
    BY <2>2, <2>3
<1>19. QED
  BY <1>1, <1>2, <1>3, <1>4, <1>5, <1>6, <1>7, <1>8, <1>9, <1>10, <1>11, <1>12, <1>13, <1>14,
     <1>15, <1>16, <1>17, <1>18 DEF EventNext, displayImageInEditor, displayImageInBboxEditor

\* The labels' form leaves the events alone.
LEMMA StepOfEvents == [Next]_<<eventVars, labelVars>> => [EventNext]_eventVars
BY DEF Next

LEMMA SpecEInv == Spec => []EInv
<1>1. EInv /\ [Next]_<<eventVars, labelVars>> => EInv'
  BY StepOfEvents, NextEInv
<1>2. QED
  BY <1>1, InitEInv, PTL DEF Spec

LEMMA ClampBounds ==
    \A high \in Nat, n \in Int : Clamp(0, high, n) \in 0..high
BY DEF Clamp, Least

LEMMA AbsoluteType ==
    ASSUME NEW p \in Nat, NEW at \in Nat \ {0}
    PROVE  Absolute(p, at) \in Int
<1>1. 2 * p * Width + at \in Int /\ 2 * at \in Int /\ 2 * at > 0
  BY WidthAssumption
<1>2. \A a, b \in Int : b > 0 => a \div b \in Int
  OBVIOUS
<1>3. QED
  BY <1>1, <1>2 DEF Absolute

\* The box of two points of the page lies in the screenshot.
LEMMA DrawnInside ==
    ASSUME NEW i, DOMAIN i = ImageKeys, i.at \in Shown, i.from \in Nat, i.to \in Nat
    PROVE  LET box == updateBboxCoordinateDisplay(i)
           IN  0 <= box.left /\ 0 <= box.width /\ box.left + box.width <= Width
<1> DEFINE left == Clamp(0, Width, Absolute(Least(i.from, i.to), i.at))
           size == Absolute(IF i.to < i.from THEN i.from - i.to ELSE i.to - i.from, i.at)
           box == updateBboxCoordinateDisplay(i)
<1>1. Least(i.from, i.to) \in Nat /\ i.at \in Nat \ {0} /\ Width \in Nat
  BY WidthAssumption DEF Least
<1>2. (IF i.to < i.from THEN i.from - i.to ELSE i.to - i.from) \in Nat
  OBVIOUS
<1>3. left \in 0..Width
  BY <1>1, AbsoluteType, ClampBounds
<1>4. size \in Int
  BY <1>1, <1>2, AbsoluteType
<1>5. box = [i EXCEPT !.left = left, !.width = Clamp(0, Width - left, size)]
  BY DEF updateBboxCoordinateDisplay
<1> HIDE DEF left, size, box
<1>6. Width - left \in Nat
  BY <1>1, <1>3
<1>7. Clamp(0, Width - left, size) \in 0..(Width - left)
  BY <1>4, <1>6, ClampBounds
<1>8. box.left = left /\ box.width = Clamp(0, Width - left, size)
  BY <1>5 DEF ImageKeys
<1>9. 0 <= box.left /\ 0 <= box.width /\ box.left + box.width <= Width
  BY <1>1, <1>3, <1>7, <1>8
<1>10. QED
  BY <1>9 DEF box

\* A box drawn on the screenshot lies inside it, whatever the sizes of the screenshot
\* and of the page, and however it is dragged, zoomed and rounded.
THEOREM BoxStaysInside == Spec => BoxInside
<1> DEFINE Inside ==
      img.dragging /\ img' # img =>
         \/ img'.left = img.left /\ img'.width = img.width
         \/ 0 <= img'.left /\ 0 <= img'.width /\ img'.left + img'.width <= Width
<1>1. EInv /\ [EventNext]_eventVars => Inside
  <2> SUFFICES ASSUME EInv, [EventNext]_eventVars, img.dragging, img' # img PROVE Inside
    OBVIOUS
  <2>0. /\ DOMAIN img = ImageKeys /\ img.loaded /\ img.at \in Shown
        /\ img.from \in Nat /\ img.to \in Nat
    BY DEF EInv, ImageTypeOK
  <2>1. EventNext
    BY DEF eventVars
  <2>2. ASSUME NEW f \in Fields, openPointImageEditor(f) PROVE Inside
    BY <2>0, <2>2 DEF openPointImageEditor, ImageKeys
  <2>3. ASSUME NEW f \in Fields, openBboxImageEditor(f) PROVE Inside
    BY <2>0, <2>3 DEF openBboxImageEditor, updateBboxCoordinateLabels, ImageKeys
  <2>4. ASSUME NEW w \in Shown, zoomImage(w) PROVE Inside
    BY <2>0, <2>4 DEF zoomImage, ImageKeys
  <2>5. ASSUME NEW p \in Pixels, handleImageClick(p) PROVE Inside
    BY <2>0, <2>5 DEF handleImageClick, ImageKeys
  <2>6. ASSUME NEW p \in Pixels, handleBboxMouseMove(p) PROVE Inside
    <3> DEFINE i == [img EXCEPT !.to = p]
    <3>1. DOMAIN i = ImageKeys /\ i.at \in Shown /\ i.from \in Nat /\ i.to \in Nat
      BY <2>0, PixelsType DEF ImageKeys
    <3>2. img' = updateBboxCoordinateDisplay(i)
      BY <2>6 DEF handleBboxMouseMove
    <3> HIDE DEF i
    <3>3. QED
      BY <3>1, <3>2, DrawnInside
  <2>7. CASE handleBboxMouseUp
    <3> DEFINE i == [img EXCEPT !.dragging = FALSE]
    <3>1. DOMAIN i = ImageKeys /\ i.at \in Shown /\ i.from \in Nat /\ i.to \in Nat
      BY <2>0 DEF ImageKeys
    <3>2. img' = updateBboxCoordinateDisplay(i)
      BY <2>7 DEF handleBboxMouseUp
    <3> HIDE DEF i
    <3>3. QED
      BY <3>1, <3>2, DrawnInside
  <2>8. ASSUME img' = NoImg PROVE Inside
    BY <2>8, WidthAssumption DEF NoImg
  <2>9. QED
    BY <2>0, <2>1, <2>2, <2>3, <2>4, <2>5, <2>6, <2>7, <2>8
       DEF EventNext, openForNodeEditing, addNewEvent, Opening, handleEventTypeChange,
           updateFieldValue, save, SaveAnswered, close, displayImageInEditor,
           displayImageInBboxEditor, Displayed, handleBboxMouseDown, cancelImageEditor,
           applyPointCoordinates, closePointImageEditor
<1>2. EInv /\ [Next]_<<eventVars, labelVars>> => [Inside]_eventVars
  BY <1>1, StepOfEvents
<1>3. QED
  BY <1>2, SpecEInv, PTL DEF Spec, BoxInside

\* A form of an event that is opened and saved unchanged sends a string that the server
\* reads as the same event and that opens as the same form.
LEMMA UneditedEventsSurvive == Spec => UneditedSaveKeeps
<1> DEFINE Kept ==
      saving = Null /\ saving' # Null /\ ~touched /\ ~adding /\ form # Null /\ Sound(stored)
       => /\ from_event_str(saving') = from_event_str(stored)
          /\ parseEventStr(saving') = form
<1>1. EInv /\ [EventNext]_eventVars => Kept
  <2> SUFFICES ASSUME EInv, [EventNext]_eventVars, saving = Null, saving' # Null,
                      ~touched, ~adding, form # Null,
                      Sound(stored)
               PROVE  /\ from_event_str(saving') = from_event_str(stored)
                      /\ parseEventStr(saving') = form
    OBVIOUS
  <2>1. save
    BY DEF EventNext, eventVars, openForNodeEditing, addNewEvent, Opening, handleEventTypeChange,
           updateFieldValue, SaveAnswered, close, openPointImageEditor, openBboxImageEditor,
           EditorOnly, displayImageInEditor, displayImageInBboxEditor, Displayed, zoomImage,
           handleImageClick, handleBboxMouseDown, handleBboxMouseMove, handleBboxMouseUp,
           cancelImageEditor, applyPointCoordinates
  <2>2. saving' = generateEventStr(form) /\ open
    BY <2>1 DEF save, Editable
  <2>3. form = parseEventStr(stored) /\ EventString(stored)
    BY <2>2 DEF EInv, EventAsOpened, StringsWritten
  <2>4. QED
    BY <2>2, <2>3, KeptEvent
<1>2. EInv /\ [Next]_<<eventVars, labelVars>> => [Kept]_eventVars
  BY <1>1, StepOfEvents
<1>3. QED
  BY <1>2, SpecEInv, PTL DEF Spec, UneditedSaveKeeps

\* Opening a form to look at it and saving it changes neither the event nor the state.
THEOREM UneditedFormsSurvive == Spec => UneditedIsKept
BY UneditedEventsSurvive, UneditedLabelsSurvive DEF UneditedIsKept

=============================================================================

----------------------------- MODULE LabelsForm -----------------------------
(***************************************************************************)
(* The form of a state's labels (labels-edit-dialog.js): a text of labels, *)
(* a score for FINISH and texts for NEED_FEEDBACK, which are kept in the   *)
(* label_meta of the state.  Older recordings hold the score as a label of *)
(* its own, which the form takes out of the labels.                        *)
(***************************************************************************)
EXTENDS Naturals, FiniteSets

CONSTANTS Nodes,       \* what a recording may hold: labels and label_meta
          NoText,      \* an empty input
          MaxChanges,  \* how many changes the user makes
          MaxShows     \* how often the form is opened

VARIABLES node,        \* labels and label_meta of the state, at the server
          shown,       \* the dialog is open
          input,       \* labels-edit-input
          rating,      \* finish-rating-input
          feedback,    \* need-feedback-user-feedback-input
          currentLabelMeta,
          changed,     \* the user has changed something since it was opened
          changes, shows

labelVars == <<node, shown, input, rating, feedback, currentLabelMeta, changed, changes, shows>>

-----------------------------------------------------------------------------
(* Labels *)

\* A label that parseInt reads as 0 to 100 counts as a score, whatever follows the digits.
ScoreOf == [s80 |-> "80", s3D |-> "3"]
ScoreLabel == DOMAIN ScoreOf
Label == {"FINISH", "NEED_FEEDBACK", "word"} \cup ScoreLabel
ValidRating == {"80", "3"}
Rating == ValidRating \cup {"101", NoText}

stripScoreLabels(labels) == labels \ ScoreLabel
scoreLabel(labels) ==
    IF labels \cap ScoreLabel = {} THEN NoText
    ELSE ScoreOf[CHOOSE l \in labels \cap ScoreLabel : TRUE]

\* label_meta: the score and the user's text, or nothing, and the keys of others.
Meta == [FINISH : Rating \cup {"none"}, NEED_FEEDBACK : {"text", NoText, "none"}, other : BOOLEAN]
NoMeta == [FINISH |-> "none", NEED_FEEDBACK |-> "none", other |-> FALSE]

\* An empty input is no score and none of the texts.
ASSUME LabelAssumption ==
    /\ Nodes \subseteq [labels : SUBSET Label, meta : Meta]
    /\ NoText \notin ValidRating \cup {"101", "text", "none"}

LabelInit ==
    /\ node \in Nodes
    /\ shown = FALSE /\ input = {} /\ rating = NoText /\ feedback = NoText
    /\ currentLabelMeta = NoMeta
    /\ changed = FALSE /\ changes = 0 /\ shows = 0

Change == changes < MaxChanges /\ changes' = changes + 1 /\ changed' = TRUE

\* updateNeedFeedbackArea and updateFinishControls: texts of labels that are gone are
\* cleared.  The first takes typed scores out of the labels, so the second finds none.
Controls(labels, r, t) ==
    LET kept == stripScoreLabels(labels)
    IN  /\ input' = kept
        /\ feedback' = IF "NEED_FEEDBACK" \in kept THEN t ELSE NoText
        /\ rating' = IF "FINISH" \in kept THEN r ELSE NoText

\* Mutant: a score among the labels goes before the one in label_meta.
startRatingLabels(n) ==
    IF scoreLabel(n.labels) # NoText THEN scoreLabel(n.labels)
    ELSE IF n.meta.FINISH # "none" THEN n.meta.FINISH ELSE NoText

startRating(n) ==
    IF n.meta.FINISH \notin {"none", NoText} THEN n.meta.FINISH ELSE scoreLabel(n.labels)

show ==
    /\ ~shown /\ shows < MaxShows
    /\ shown' = TRUE /\ shows' = shows + 1 /\ changed' = FALSE
    /\ currentLabelMeta' = node.meta
    /\ Controls(node.labels, startRating(node),
                IF node.meta.NEED_FEEDBACK = "none" THEN NoText ELSE node.meta.NEED_FEEDBACK)
    /\ UNCHANGED <<node, changes>>

typeLabels(labels) ==
    /\ shown /\ Change
    /\ Controls(labels, rating, feedback)
    /\ UNCHANGED <<node, shown, currentLabelMeta, shows>>

addLabel(l) ==
    /\ shown /\ l \notin input /\ Change
    /\ Controls(input \cup {l}, rating, feedback)
    /\ UNCHANGED <<node, shown, currentLabelMeta, shows>>

\* The rating is there while FINISH is among the labels.
syncFinishRating(r) ==
    /\ shown /\ "FINISH" \in input /\ Change
    /\ rating' = r
    /\ UNCHANGED <<node, shown, input, feedback, currentLabelMeta, shows>>

typeFeedback(t) ==
    /\ shown /\ "NEED_FEEDBACK" \in input /\ Change
    /\ feedback' = t
    /\ UNCHANGED <<node, shown, input, rating, currentLabelMeta, shows>>

Closed ==
    /\ shown' = FALSE /\ input' = {} /\ rating' = NoText /\ feedback' = NoText
    /\ currentLabelMeta' = NoMeta

\* Mutant: the meta of labels taken away is kept.
builtAdding ==
    [currentLabelMeta EXCEPT
        !.NEED_FEEDBACK = IF "NEED_FEEDBACK" \in input THEN feedback ELSE @,
        !.FINISH = IF "FINISH" \in input THEN rating ELSE @]

labelMeta ==
    [currentLabelMeta EXCEPT
        !.NEED_FEEDBACK = IF "NEED_FEEDBACK" \in input THEN feedback ELSE "none",
        !.FINISH = IF "FINISH" \in input THEN rating ELSE "none"]

\* FINISH needs a score.  The dialog does not wait for the answer: if the request fails
\* a message is shown, and what was typed is gone.
saveLabels(ok) ==
    /\ shown
    /\ "FINISH" \in input => rating \in ValidRating
    /\ node' = IF ok THEN [labels |-> stripScoreLabels(input), meta |-> labelMeta] ELSE node
    /\ Closed
    /\ UNCHANGED <<changed, changes, shows>>

closeLabels ==
    /\ shown
    /\ Closed
    /\ UNCHANGED <<node, changed, changes, shows>>

LabelNext ==
    \/ show
    \/ \E labels \in SUBSET Label : typeLabels(labels)
    \/ \E l \in {"FINISH", "NEED_FEEDBACK"} : addLabel(l)
    \/ \E r \in Rating : syncFinishRating(r)
    \/ \E t \in {"text", NoText} : typeFeedback(t)
    \/ \E ok \in BOOLEAN : saveLabels(ok)
    \/ closeLabels

-----------------------------------------------------------------------------
(* Properties *)

\* What is saved agrees with itself whatever was typed, added and taken away before:
\* FINISH goes with a score and NEED_FEEDBACK with a text, none of them is left behind
\* when its label is gone, no score is a label, and other keys of label_meta are kept.
LabelsAgree ==
    [][node' # node =>
         /\ ("FINISH" \in node'.labels) = (node'.meta.FINISH # "none")
         /\ node'.meta.FINISH \in ValidRating \cup {"none"}
         /\ ("NEED_FEEDBACK" \in node'.labels) = (node'.meta.NEED_FEEDBACK # "none")
         /\ node'.labels \cap ScoreLabel = {}
         /\ node'.meta.other = node.meta.other]_labelVars

\* Saving the form as it was opened keeps the labels, the score, in label_meta or a label
\* of its own, and the text; only the labels that look like a score are dropped.
UneditedLabelsKept ==
    [][node' # node /\ ~changed =>
         /\ node'.labels = node.labels \ ScoreLabel
         /\ "FINISH" \in node.labels =>
              IF node.meta.FINISH \in ValidRating THEN node'.meta.FINISH = node.meta.FINISH
              ELSE node'.meta.FINISH = scoreLabel(node.labels)
         /\ "NEED_FEEDBACK" \in node.labels /\ node.meta.NEED_FEEDBACK # "none" =>
              node'.meta.NEED_FEEDBACK = node.meta.NEED_FEEDBACK]_labelVars

=============================================================================

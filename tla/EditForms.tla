------------------------------ MODULE EditForms ------------------------------
(***************************************************************************)
(* The two forms of the node editor on one page.  Each has an overlay that *)
(* covers the page, so one is opened while the other is closed; Escape is  *)
(* heard by both.                                                          *)
(***************************************************************************)
EXTENDS EventForm, LabelsForm

CONSTANTS MaxForms,    \* how many forms are opened
          MaxTouches   \* how many changes there are in all of them

Init == EventInit /\ LabelInit

Bounded == (opens + shows)' <= MaxForms /\ (inputs + changes)' <= MaxTouches

Next ==
    \/ ~shown /\ EventNext /\ UNCHANGED labelVars /\ Bounded
    \/ ~open /\ ~img.shown /\ saving = Null /\ LabelNext /\ UNCHANGED eventVars /\ Bounded

Spec == Init /\ [][Next]_<<eventVars, labelVars>>

\* Opening a form to look at it and saving it changes neither the event, as the server reads
\* it, nor the labels of the state.
UneditedIsKept == UneditedSaveKeeps /\ UneditedLabelsKept

\* The forms hold what their inputs may hold, and only while they are open.
TypeOK ==
    /\ stored \in Recorded \/ stored.class \in Classes
    /\ ~open => form = Null
    /\ form # Null => form.class \in Classes
    /\ img.mode \in {"point", "bbox"}
    /\ node.labels \subseteq Label /\ node.meta \in Meta
    /\ input \subseteq Label \ ScoreLabel /\ rating \in Rating
    /\ ~shown => input = {} /\ rating = NoText /\ feedback = NoText
    /\ "FINISH" \notin input => rating = NoText

=============================================================================

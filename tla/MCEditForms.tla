----------------------------- MODULE MCEditForms -----------------------------
(* Event strings as the recorder writes them: a swipe, with its two views; one of an    *)
(* older type, cut off in its box; one with a comma in its text and one that cannot be   *)
(* parsed.  A state with its score as a label and one with a score in both places.       *)
EXTENDS EditForms

MCRecorded ==
    {[class |-> "LongTouchEvent", ordered |-> TRUE,
      fields |-> [view |-> View("view"), point |-> Point(1), bbox |-> Torn("bbox")]],
     [class |-> "SwipeEvent", ordered |-> FALSE,
      fields |-> [start_view |-> Plain("view"), start_point |-> Point(1), start_bbox |-> Nested(1, 2),
                  end_view |-> Plain("view"), end_point |-> Point(2), end_bbox |-> Nested(1, 2),
                  duration |-> Plain("digits")]],
     [class |-> "PutTextEvent", ordered |-> TRUE, fields |-> [text |-> Plain("list")]],
     [class |-> "garbage", ordered |-> TRUE, fields |-> <<>>]}

MCNodes ==
    {[labels |-> {"FINISH", "s80", "word"}, meta |-> [NoMeta EXCEPT !.other = TRUE]],
     [labels |-> {"FINISH", "NEED_FEEDBACK", "s3D"},
      meta |-> [NoMeta EXCEPT !.FINISH = "80", !.NEED_FEEDBACK = "text"]]}
=============================================================================

---------------------------- MODULE MCUTGEditing ----------------------------
(* Two states with two events from the first to the second: the user types the    *)
(* string of the second, so that an edited or new event may be one there already. *)
EXTENDS UTGEditing

CONSTANTS n1, n2, a, b

MCRecorded == <<[from |-> n1, to |-> n2, str |-> a], [from |-> n1, to |-> n2, str |-> b]>>
=============================================================================

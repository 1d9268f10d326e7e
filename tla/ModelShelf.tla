------------------------------- MODULE ModelShelf -------------------------------
(***************************************************************************)
(* What the model registry promises: a shelf on which finished models are  *)
(* only added, each newer than all before it, and a label that names the   *)
(* one to use.  A reader that looks while there is a label comes away with *)
(* the model it names, whatever happens meanwhile.  Only a reader that     *)
(* finds no label may come away with nothing, or with a model not older    *)
(* than any on the shelf that has not been labelled.                       *)
(***************************************************************************)
EXTENDS Integers

CONSTANT MaxVersion      \* bounds the number of trainings

Versions == 1 .. MaxVersion

\* No label, or no model.
Nothing == 0

VARIABLES
    shelf,       \* the finished models
    label,       \* the model to use, or Nothing
    offer,       \* what the reader may come away with; {} if nobody reads
    serving      \* what the last reader came away with

shelfVars == <<shelf, label, offer, serving>>

Newest(m, models) == \A x \in models : x <= m

Offered == IF label # Nothing THEN {label}
           ELSE {Nothing} \union {m \in Versions : Newest(m, shelf)}

\* What is on offer to a reader may become less, but never runs out.
Narrow == offer' \subseteq offer /\ (offer' = {} => offer = {})

Init ==
    /\ shelf = {}
    /\ label = Nothing
    /\ offer = {}
    /\ serving = Nothing

\* A model is finished.
Put ==
    /\ \E m \in Versions : m \notin shelf /\ Newest(m, shelf) /\ shelf' = shelf \union {m}
    /\ Narrow
    /\ UNCHANGED <<label, serving>>

\* The label is taken off for a newer model, and put on the newest.
Unlabel ==
    /\ \E m \in shelf : m > label
    /\ label' = Nothing
    /\ UNCHANGED <<shelf, offer, serving>>

Label ==
    /\ label = Nothing
    /\ label' \in shelf /\ Newest(label', shelf)
    /\ UNCHANGED <<shelf, offer, serving>>

\* A reader looks for a label.
Look ==
    /\ offer = {} /\ serving = Nothing
    /\ offer' \subseteq Offered /\ offer' # {}
    /\ UNCHANGED <<shelf, label, serving>>

LookOn ==
    /\ Narrow
    /\ UNCHANGED <<shelf, label, serving>>

Finish ==
    /\ serving' \in offer
    /\ offer' = {}
    /\ UNCHANGED <<shelf, label>>

\* The reader, or the process that used what it read, is gone.
Leave ==
    /\ offer' = {}
    /\ serving' = Nothing
    /\ UNCHANGED <<shelf, label>>

Next == Put \/ Unlabel \/ Label \/ Look \/ LookOn \/ Finish \/ Leave

Spec == Init /\ [][Next]_shelfVars
===============================================================================

------------------------------ MODULE TextField -----------------------------
(***************************************************************************)
(* What the keyboard dialog promises: a line of text with a cursor in it,  *)
(* keys that insert what is printed on them, and an answer that is the     *)
(* line.                                                                   *)
(***************************************************************************)
EXTENDS Naturals, SequencesExt

CONSTANTS
    Faces,      \* what the keys can show: functions from keys to characters
    Lines       \* the texts a window can ask to edit

VARIABLES
    inUse,      \* the field is on the screen
    line,       \* the characters
    caret,      \* the cursor stands before line[caret + 1]
    printed,    \* what is printed on each key
    answer      \* what the field gave back last

fieldVars == <<inUse, line, caret, printed, answer>>

Init ==
    /\ inUse = FALSE
    /\ line \in Lines /\ caret = Len(line)
    /\ printed \in Faces /\ answer = <<>>

Edit ==
    /\ ~inUse /\ inUse' = TRUE
    /\ line' \in Lines /\ caret' = Len(line')
    /\ printed' \in Faces
    /\ UNCHANGED answer

Insert(c) ==
    /\ inUse
    /\ line' = InsertAt(line, caret + 1, c)
    /\ caret' = caret + 1
    /\ UNCHANGED <<inUse, printed, answer>>

Type(k) == Insert(printed[k])
Space == Insert(" ")

Erase(i) ==
    /\ inUse /\ i \in 1 .. Len(line)
    /\ line' = RemoveAt(line, i)
    /\ UNCHANGED <<inUse, printed, answer>>

Delete == Erase(caret + 1) /\ caret' = caret
Backspace == Erase(caret) /\ caret' = caret - 1

MoveCaret ==
    /\ inUse
    /\ caret' \in {caret - 1, caret + 1} \cap (0 .. Len(line))
    /\ UNCHANGED <<inUse, line, printed, answer>>

Shift ==
    /\ inUse
    /\ printed' \in Faces \ {printed}
    /\ UNCHANGED <<inUse, line, caret, answer>>

Leave ==
    /\ inUse /\ inUse' = FALSE
    /\ answer' \in {answer, line}
    /\ UNCHANGED <<line, caret, printed>>

\* Nobody sees what happens to the field between two uses.
Forget ==
    /\ ~inUse /\ inUse' = FALSE
    /\ line' = <<>> /\ caret' = 0
    /\ UNCHANGED <<printed, answer>>

Next ==
    \/ Edit \/ Space \/ Delete \/ Backspace \/ MoveCaret \/ Shift \/ Leave \/ Forget
    \/ \E k \in DOMAIN printed : Type(k)

Spec == Init /\ [][Next]_fieldVars
=============================================================================

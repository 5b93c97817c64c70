------------------------------ MODULE Keyboard ------------------------------
(***************************************************************************)
(* The keyboard dialog (src/src/GUI_M_DlgKeyboard.c) and the label it      *)
(* edits (src/src/GUI_Ctrl_Label.c).  A label that lost its last character *)
(* has no string at all: its cursor can then not be moved, and the dialog  *)
(* follows the null pointer when it asks for the text.                     *)
(***************************************************************************)
EXTENDS Naturals, SequencesExt

CONSTANT MaxLength      \* bound: characters in the label

VARIABLES
    isOpen,     \* the dialog is on the screen
    str,        \* lpStr of ID_LABEL_EDIT, or NoString
    cursor,     \* nCursorPos of it
    shift,      \* ID_BUTTON_SHIFT is on
    labels,     \* the labels of the keys
    ret,        \* szRetValue
    crashed     \* a null pointer was followed

keyboardVars == <<isOpen, str, cursor, shift, labels, ret, crashed>>

NoString == <<"null">>

\* Three keys: a digit, a letter, and one that has no second meaning.
Keys == {"1", "A", "."}
Chars == {"1", "!", "a", "A", ".", " "}
Texts == SeqOf({"a", "."}, 2)       \* bound: what the windows hand over

\* UpdateButtons
Labels(on) == [k \in Keys |-> CASE k = "1" -> IF on THEN "!" ELSE "1"
                                [] k = "A" -> IF on THEN "A" ELSE "a"
                                [] k = "." -> "."]

\* KeyboardChar.  The key's identifier is the character, in upper case.
CharOf_Mutant(k) == IF k = "A" /\ shift THEN "a" ELSE Labels(shift)[k]
CharOf(k) ==
    IF k = "1" /\ shift THEN "!"
    ELSE IF k = "A" /\ ~shift THEN "a"
    ELSE k

Init ==
    /\ isOpen = FALSE /\ str = <<"a">> /\ cursor = 1 /\ shift = FALSE
    /\ labels = Labels(FALSE) /\ ret = <<>> /\ crashed = FALSE

\* GUI_Ctrl_Label_SetCursor
SetCursor_Mutant(s, pos) == IF s = NoString THEN cursor ELSE pos
SetCursor(s, pos) ==
    IF s = NoString THEN cursor
    ELSE IF pos > Len(s) THEN Len(s) ELSE pos

\* GUI_Ctrl_Label_Insert and GUI_Ctrl_Label_Delete, positions from 0
LabelInsert(pos, c) ==
    IF str = NoString THEN <<c>>
    ELSE InsertAt(str, (IF pos > Len(str) THEN Len(str) ELSE pos) + 1, c)
LabelDelete(pos) ==
    IF str = NoString \/ Len(str) <= 1 THEN NoString
    ELSE RemoveAt(str, (IF pos >= Len(str) THEN Len(str) - 1 ELSE pos) + 1)

\* GUI_DlgKeyboard and GUI_MSG_OPEN: the shift key keeps its state.
Open ==
    /\ ~isOpen /\ ~crashed /\ isOpen' = TRUE
    /\ str' \in Texts
    /\ cursor' = Len(str')
    /\ labels' = Labels(shift)
    /\ UNCHANGED <<shift, ret, crashed>>

Put(c) ==
    /\ isOpen /\ (str # NoString => Len(str) < MaxLength)
    /\ str' = LabelInsert(cursor, c)
    /\ cursor' = SetCursor(str', cursor + 1)
    /\ UNCHANGED <<isOpen, shift, labels, ret, crashed>>

Key(k) == Put(CharOf(k))
Space == Put(" ")

Left ==
    /\ isOpen /\ cursor > 0
    /\ cursor' = SetCursor(str, cursor - 1)
    /\ UNCHANGED <<isOpen, str, shift, labels, ret, crashed>>

Right ==
    /\ isOpen /\ str # NoString /\ cursor < Len(str)
    /\ cursor' = SetCursor(str, cursor + 1)
    /\ UNCHANGED <<isOpen, str, shift, labels, ret, crashed>>

Delete ==
    /\ isOpen /\ str # NoString /\ cursor < Len(str)
    /\ str' = LabelDelete(cursor)
    /\ UNCHANGED <<isOpen, cursor, shift, labels, ret, crashed>>

Backspace ==
    /\ isOpen /\ cursor > 0
    /\ str' = LabelDelete(cursor - 1)
    /\ cursor' = SetCursor(str', cursor - 1)
    /\ UNCHANGED <<isOpen, shift, labels, ret, crashed>>

\* The toggle button has changed its state when its handler runs.
Shift ==
    /\ isOpen
    /\ shift' = ~shift
    /\ labels' = Labels(shift')
    /\ UNCHANGED <<isOpen, str, cursor, ret, crashed>>

Ok ==
    /\ isOpen /\ str # NoString
    /\ ret' = str
    /\ isOpen' = FALSE
    /\ UNCHANGED <<str, cursor, shift, labels, crashed>>

Cancel ==
    /\ isOpen /\ isOpen' = FALSE
    /\ UNCHANGED <<str, cursor, shift, labels, ret, crashed>>

\* ID_BUTTON_OK and ID_BUTTON_RIGHT ask for the text without a test.
FollowNull ==
    /\ isOpen /\ str = NoString
    /\ crashed' = TRUE /\ isOpen' = FALSE
    /\ UNCHANGED <<str, cursor, shift, labels, ret>>

\* GUI_FreeSkin and GUI_LoadSkin: the controls are made anew.
NewSkin ==
    /\ ~isOpen /\ ~crashed
    /\ shift' = FALSE /\ str' = NoString /\ cursor' = 0
    /\ UNCHANGED <<isOpen, labels, ret, crashed>>

Next ==
    \/ Open \/ Space \/ Left \/ Right \/ Delete \/ Backspace \/ Shift
    \/ Ok \/ Cancel \/ FollowNull \/ NewSkin
    \/ \E k \in Keys : Key(k)

Spec == Init /\ [][Next]_keyboardVars

------------------------------------------------------------------------------
TypeOK ==
    /\ isOpen \in BOOLEAN /\ shift \in BOOLEAN /\ crashed \in BOOLEAN
    /\ str = NoString \/ str \in SeqOf(Chars, MaxLength)
    /\ cursor \in 0 .. MaxLength
    /\ labels \in [Keys -> Chars] /\ ret \in SeqOf(Chars, MaxLength)

\* No string is an empty line with the cursor at its start, wherever it stands.
Field == INSTANCE TextField WITH
    Faces <- {Labels(TRUE), Labels(FALSE)}, Lines <- Texts, inUse <- isOpen,
    line <- IF str = NoString THEN <<>> ELSE str,
    caret <- IF str = NoString THEN 0 ELSE cursor,
    printed <- labels, answer <- ret

(* The keyboard is a text field: the keys insert at the cursor what is       *)
(* printed on them, the cursor stays in the text even though it cannot move  *)
(* in a label without a string, and the answer is the text on the screen.    *)
IsATextField == Field!Spec
=============================================================================

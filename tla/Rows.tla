-------------------------------- MODULE Rows --------------------------------
(***************************************************************************)
(* The rows of a list (src/src/GUI_Ctrl_List.c) or of a directory view     *)
(* (GUI_Ctrl_Dirview.c): the items, the one under the cursor and the first *)
(* on the screen, counted from 0, and the marks.  Both controls share this *)
(* logic; the modules of the windows build on it.                          *)
(***************************************************************************)
EXTENDS Naturals, Sequences, FiniteSets

CONSTANT NumDraw    \* rows that fit on the screen

NoRows == [items |-> <<>>, sel |-> 0, start |-> 0, marked |-> {}]

\* GUI_Ctrl_List_AddItem, GUI_Ctrl_List_Clean
AddItem(rows, item) == [rows EXCEPT !.items = Append(@, item)]
Filled(items) == [NoRows EXCEPT !.items = items]

\* The cursor drags the visible part with it.
SetCursor_Mutant(rows, pos) ==
    [rows EXCEPT !.sel = pos,
                 !.start = IF pos < @ THEN pos
                           ELSE IF pos > @ + NumDraw THEN pos - NumDraw + 1 ELSE @]
SetCursor(rows, pos) ==
    [rows EXCEPT !.sel = pos,
                 !.start = IF pos < @ THEN pos
                           ELSE IF pos >= @ + NumDraw THEN pos - NumDraw + 1 ELSE @]

\* The buttons that move the cursor.
MoveButtons == {"DOWN", "UP", "L1", "R1"}
CanMove(rows, btn) ==
    /\ rows.items # <<>>
    /\ btn = "DOWN" => rows.sel < Len(rows.items) - 1
    /\ btn = "UP" => rows.sel > 0
Moved(rows, btn) ==
    SetCursor(rows, CASE btn = "DOWN" -> rows.sel + 1
                      [] btn = "UP"   -> rows.sel - 1
                      [] btn = "L1"   -> 0
                      [] btn = "R1"   -> Len(rows.items) - 1)

\* SQUARE
ToggleMark(rows) ==
    [rows EXCEPT !.marked = IF rows.sel \in @ THEN @ \ {rows.sel} ELSE @ \cup {rows.sel}]

GetSel(rows) == rows.items[rows.sel + 1]
NumMark(rows) == Cardinality(rows.marked)
GetMarked(rows) == {rows.items[i + 1] : i \in rows.marked}
SetMarked(rows, indices) == [rows EXCEPT !.marked = indices]

\* The cursor is on a row, and the row is on the screen.
CursorSeen(rows) ==
    rows.items # <<>> => /\ rows.sel < Len(rows.items)
                         /\ rows.start <= rows.sel /\ rows.sel < rows.start + NumDraw
=============================================================================

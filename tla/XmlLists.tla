------------------------------ MODULE XmlLists ------------------------------
(***************************************************************************)
(* Two lists that are read from XML files: the shares of the network, once *)
(* when the program starts (src/src/samba.c), and the skins, whenever the  *)
(* window of the skins is opened (src/src/GUI_M_Skins.c).  A row of the    *)
(* list of skins points to a string of its own that the window frees when  *)
(* it is closed.                                                           *)
(***************************************************************************)
EXTENDS Naturals, Sequences, SequencesExt, FiniteSets

CONSTANTS
    ShareFiles,     \* what samba.xml may be
    SkinLists,      \* directories of skins, in their order, with what their skin.xml is
    MaxOpens        \* bound: how often the window is opened

VARIABLES
    pc,         \* "init", "shares", "idle", "listing", "open", "confirm"
    shareFile,
    elem,       \* the next element of samba.xml, or directory of the skins
    smbShares,  \* the array; beyond nNumSmbShares it may hold the name of a skipped share
    nNumSmbShares,
    skins,      \* skin.xml of each directory, in the order of the directory
    rows,       \* the rows of the list, with the string each points to
    strings,    \* the strings that are allocated
    wild,       \* a string that is not allocated was read or freed
    cut,        \* memory ran out while the list was made
    sel,
    skin_name,
    opens

listVars == <<pc, shareFile, elem, smbShares, nNumSmbShares, skins, rows, strings, wild, cut, sel,
              skin_name, opens>>
shareVars == <<shareFile, smbShares, nNumSmbShares>>
windowVars == <<skins, rows, strings, wild, cut, sel, skin_name, opens>>

None == "none"      \* an element that is not there, or without contents

Init ==
    /\ pc = "init" /\ shareFile \in ShareFiles /\ elem = 1
    /\ smbShares = << >> /\ nNumSmbShares = 0
    /\ skins \in SkinLists /\ rows = << >> /\ strings = {} /\ wild = FALSE /\ cut = FALSE
    /\ sel = 1 /\ skin_name = "default" /\ opens = 0

------------------------------------------------------------------------------
\* SMB_Init: smbc_init may fail; and SMB_ParseShares returns early for a file that is
\* missing, empty or none of XML, or has another root.
SMB_Init ==
    /\ pc = "init"
    /\ pc' \in {"idle", IF shareFile.root = "shares" THEN "shares" ELSE "idle"}
    /\ UNCHANGED <<elem, shareVars, windowVars>>

\* A share is counted when it has both; before, its name is already in the array.
PathMissing_Mutant(e) == FALSE
PathMissing(e) == e.path = None
ParseShare ==
    /\ pc = "shares" /\ elem <= Len(shareFile.elements)
    /\ elem' = elem + 1
    /\ LET e == shareFile.elements[elem]
           before == SubSeq(smbShares, 1, nNumSmbShares)
       IN IF e.name = None THEN UNCHANGED <<smbShares, nNumSmbShares>>
          ELSE /\ smbShares' = Append(before, e)
               /\ nNumSmbShares' = IF PathMissing(e) THEN nNumSmbShares ELSE nNumSmbShares + 1
    /\ UNCHANGED <<pc, shareFile, windowVars>>

SharesParsed ==
    /\ pc = "shares" /\ elem > Len(shareFile.elements)
    /\ pc' = "idle" /\ UNCHANGED <<elem, shareVars, windowVars>>

SMB_GetShare(i) == smbShares[i]
SMB_GetShareNameByPath(path) ==
    smbShares[CHOOSE i \in 1..nNumSmbShares :
                 smbShares[i].path = path /\ \A j \in 1..(i - 1) : smbShares[j].path # path].name

------------------------------------------------------------------------------
\* The window of the skins: ListSkins takes a directory after the other.
OpenSkins == pc' = "listing" /\ elem' = 1 /\ cut' = FALSE
Open ==
    /\ pc = "idle" /\ opens < MaxOpens /\ opens' = opens + 1
    /\ OpenSkins
    /\ UNCHANGED <<shareVars, skins, rows, strings, wild, sel, skin_name>>

\* The name of a row is read after the tree it is in was freed.
Freed(name) == {name, "garbage"}
Usable(dir) == dir.xml = "skin" /\ dir.name # None
NewString(s) == CHOOSE n \in 1..(Cardinality(s) + 1) : n \notin s
ListSkin ==
    /\ pc = "listing" /\ elem <= Len(skins)
    /\ IF Usable(skins[elem])
       THEN \E name \in Freed(skins[elem].name) :
               LET string == NewString(strings) IN
                  /\ rows' = Append(rows, [name |-> name, data |-> string, path |-> skins[elem].dir])
                  /\ strings' = strings \cup {string}
       ELSE UNCHANGED <<rows, strings>>
    /\ elem' = elem + 1
    /\ UNCHANGED <<pc, shareVars, skins, wild, cut, sel, skin_name, opens>>

\* malloc fails: the function returns with the rows it has.
ListCut ==
    /\ pc = "listing" /\ elem <= Len(skins) /\ skins[elem].xml # "missing"
    /\ cut' = TRUE /\ pc' = "open"
    /\ UNCHANGED <<elem, shareVars, skins, rows, strings, wild, sel, skin_name, opens>>

Listed ==
    /\ pc = "listing" /\ elem > Len(skins) /\ pc' = "open"
    /\ UNCHANGED <<elem, shareVars, windowVars>>

MoveCursor ==
    /\ pc = "open" /\ sel' \in DOMAIN rows
    /\ UNCHANGED <<pc, elem, shareVars, skins, rows, strings, wild, cut, skin_name, opens>>

\* GUI_MSG_CLOSE: the strings are freed, then the rows.
Cleaned_Mutant == rows
Cleaned == << >>
Close ==
    /\ wild' = (wild \/ \E i \in DOMAIN rows : rows[i].data \notin strings)
    /\ strings' = strings \ {rows[i].data : i \in DOMAIN rows}
    /\ rows' = Cleaned /\ sel' = 1
GoBack ==
    /\ pc = "open" /\ Close /\ pc' = "idle"
    /\ UNCHANGED <<elem, shareVars, skins, cut, skin_name, opens>>

Click ==
    /\ pc = "open" /\ rows # << >> /\ pc' = "confirm"
    /\ UNCHANGED <<elem, shareVars, windowVars>>

AnswerNo == pc = "confirm" /\ pc' = "open" /\ UNCHANGED <<elem, shareVars, windowVars>>

\* GUI_FreeSkin closes the window, and GUI_OpenMenu opens it in the new skin; the path
\* was copied before.
AnswerYes ==
    /\ pc = "confirm" /\ opens < MaxOpens /\ opens' = opens + 1
    /\ skin_name' = rows[sel].path
    /\ Close /\ OpenSkins
    /\ UNCHANGED <<shareVars, skins>>

\* A skin is copied to the device or deleted while the window is open or not.
Change ==
    /\ pc \in {"idle", "open", "confirm"} /\ skins' \in SkinLists \ {skins}
    /\ UNCHANGED <<pc, elem, shareVars, rows, strings, wild, cut, sel, skin_name, opens>>

Next ==
    \/ SMB_Init \/ ParseShare \/ SharesParsed
    \/ Open \/ ListSkin \/ ListCut \/ Listed \/ MoveCursor \/ GoBack
    \/ Click \/ AnswerNo \/ AnswerYes \/ Change

Spec == Init /\ [][Next]_listVars

------------------------------------------------------------------------------
TypeOK ==
    /\ pc \in {"init", "shares", "idle", "listing", "open", "confirm"}
    /\ nNumSmbShares \in 0..Len(smbShares) /\ skins \in SkinLists /\ opens \in 0..MaxOpens
    /\ sel \in 1..(Len(rows) + 1) /\ {wild, cut} \subseteq BOOLEAN

(* The shares that can be asked for are those of the file with a name and a  *)
(* path, in its order, whatever stands between them; a path leads to the     *)
(* name of a share that has it (SMB_ParseShares, SMB_GetShareNameByPath).    *)
Complete(e) == e.name # None /\ e.path # None
SharesAsWritten ==
    /\ pc = "shares" =>
          [i \in 1..nNumSmbShares |-> SMB_GetShare(i)] =
             SelectSeq(SubSeq(shareFile.elements, 1, elem - 1), Complete)
    /\ \A i \in 1..nNumSmbShares :
          /\ Complete(SMB_GetShare(i))
          /\ \E j \in 1..i :
                /\ SMB_GetShare(j).path = SMB_GetShare(i).path
                /\ SMB_GetShare(j).name = SMB_GetShareNameByPath(SMB_GetShare(i).path)

(* Every row has a string of its own, no string is freed twice or left over  *)
(* when the window is closed, whether it closes by itself or because the     *)
(* skin is replaced (ListSkins, GUI_CB_Skins).                               *)
StringsOwned ==
    /\ ~wild
    /\ strings = {rows[i].data : i \in DOMAIN rows} /\ Cardinality(strings) = Len(rows)
    /\ pc \in {"init", "shares", "idle"} => rows = << >>

(* While the list is made the rows are the skins that can be used, each once *)
(* and in order, and a click asks for one of them.                           *)
RowsAreSkins ==
    /\ pc = "listing" =>
          LET usable == SelectSeq(SubSeq(skins, 1, elem - 1), Usable) IN
             [i \in DOMAIN rows |-> rows[i].path] = [i \in DOMAIN usable |-> usable[i].dir]
    /\ pc = "confirm" => sel \in DOMAIN rows

ListsRight == SharesAsWritten /\ StringsOwned /\ RowsAreSkins
=============================================================================

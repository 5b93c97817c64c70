------------------------------ MODULE DirView -------------------------------
(***************************************************************************)
(* The directory view of src/src/GUI_Ctrl_Dirview.c as its rows are in     *)
(* order: from a list of the devices into directories and back, with a     *)
(* filter, marks that are kept by row, and three orders to sort in.  A     *)
(* path is a sequence of names; a name is a number, its place in the order *)
(* of strcmp, and an extension likewise (0 is none).                       *)
(***************************************************************************)
EXTENDS Integers, Sequences, FiniteSets, SequencesExt, FiniteSetsExt, TLC

CONSTANTS
    RootPaths,    \* the paths of the devices' roots
    Shares,     \* shares of the network: the path, and whether samba.xml has it with the / at
                \* its end
    Tree,       \* the rows of each directory that can be read
    Filters,    \* sets of extensions; {} is no filter
    Word        \* sizes are subtracted as integers of this range

VARIABLES
    path,       \* szPath; << >> is the list of devices
    items,      \* pItems
    sel,        \* nSelectedItem
    filter,     \* szFilter
    asked,      \* what the user marked since the rows were read
    order       \* the order the rows were last sorted in, or "none"

dirVars == <<path, items, sel, filter, asked, order>>

Dots == 5       \* the name ".."
Item(name, isDir, ext, size) ==
    [name |-> name, dir |-> isDir, ext |-> ext, size |-> size, marked |-> FALSE]
Up == Item(Dots, TRUE, 1, 0)

\* The list of devices; a share is opened by its path.
DeviceItem(i, p) ==
    [name |-> 100 + i, dir |-> TRUE, ext |-> 0, size |-> 0, marked |-> FALSE, path |-> p]
AllRoots == RootPaths \o [i \in DOMAIN Shares |-> Shares[i].path]
DeviceItems == [i \in DOMAIN AllRoots |-> DeviceItem(i, AllRoots[i])]

Init ==
    /\ path = << >> /\ items = DeviceItems /\ sel = 1
    /\ filter = {} /\ asked = {} /\ order = "none"

------------------------------------------------------------------------------
\* GUI_Ctrl_Dirview_Init and _Clean: the filter is forgotten, whatever the window shows.
ShowDevices ==
    /\ path' = << >> /\ items' = DeviceItems /\ sel' = 1 /\ filter' = {}
    /\ asked' = {} /\ order' = "none"

Contents(p, exts) == << Up >> \o SelectSeq(Tree[p], LAMBDA i : i.dir \/ exts = {} \/ i.ext \in exts)
SetDir(p) ==
    /\ IF p \in DOMAIN Tree
       THEN path' = p /\ items' = Contents(p, filter) /\ sel' = 1 /\ asked' = {} /\ order' = "none"
       ELSE UNCHANGED <<path, items, sel, asked, order>>
    /\ UNCHANGED filter

\* GUI_Ctrl_Dirview_Root: a share is only found again if its path is written with the /.
Root(p) ==
    \/ \E i \in DOMAIN RootPaths : RootPaths[i] = p
    \/ \E i \in DOMAIN Shares : Shares[i].path = p /\ Shares[i].slash

Parent_Mutant(p) == SubSeq(p, 1, 1)
Parent(p) == Front(p)

Cross ==
    /\ items[sel].dir
    /\ IF path = << >> THEN SetDir(items[sel].path)
       ELSE IF items[sel].name # Dots THEN SetDir(Append(path, items[sel].name))
       ELSE IF Root(path) THEN ShowDevices
       ELSE IF Len(path) > 1 THEN SetDir(Parent(path))
       ELSE UNCHANGED dirVars

\* DOWN, UP, L1, R1
MoveCursor ==
    /\ sel' \in ({sel - 1, sel + 1, 1, Len(items)} \cap DOMAIN items)
    /\ UNCHANGED <<path, items, filter, asked, order>>

Toggled(row) == [items EXCEPT ![row].marked = ~@]
Flip(names) == (asked \cup names) \ (asked \cap names)
Square ==
    /\ items[sel].name # Dots
    /\ items' = Toggled(sel) /\ asked' = Flip({items[sel].name})
    /\ UNCHANGED <<path, sel, filter, order>>

\* SelectAllFiles inverts the marks of all but "..", wherever it was sorted to.
Selectable_Mutant == 2..Len(items)
Selectable == {i \in DOMAIN items : items[i].name # Dots}
SelectAll ==
    /\ path # << >>
    /\ items' = [i \in DOMAIN items |-> IF i \in Selectable THEN Toggled(i)[i] ELSE items[i]]
    /\ asked' = Flip({items[i].name : i \in DOMAIN items} \ {Dots})
    /\ UNCHANGED <<path, sel, filter, order>>

\* The comparisons qsort is given.  qsort may leave rows that are equal in any order,
\* and all of them when the comparison contradicts itself.
AsInt(n) == IF n % Word < Word \div 2 THEN n % Word ELSE (n % Word) - Word
Compare(kind, a, b) ==
    IF a.dir # b.dir THEN IF a.dir THEN -1 ELSE 1
    ELSE CASE kind = "name" -> a.name - b.name
           [] kind = "size" -> AsInt(a.size - b.size)
           [] kind = "type" -> a.ext - b.ext
Ordered(kind, s) == \A i, j \in DOMAIN s : i < j => Compare(kind, s[j], s[i]) >= 0
Arranged == {[i \in DOMAIN items |-> items[f[i]]] : f \in Permutations(DOMAIN items)}
Sort(kind) ==
    LET sorted == {s \in Arranged : Ordered(kind, s)} IN
       /\ items' \in IF sorted = {} THEN Arranged ELSE sorted
       /\ order' = kind
       /\ UNCHANGED <<path, sel, filter, asked>>

Refresh == IF path = << >> THEN ShowDevices ELSE SetDir(path)
SetFilter(exts) ==
    /\ IF path = << >> THEN ShowDevices
       ELSE /\ filter' = exts
            /\ items' = Contents(path, exts)
            /\ sel' = 1 /\ asked' = {} /\ order' = "none" /\ UNCHANGED path

\* MakeFileList: one after another the marked rows are asked for (GetMarked).
GetMarked(n) == SelectSeq(items, LAMBDA i : i.marked)[n]
NumMark == Quantify(DOMAIN items, LAMBDA i : items[i].marked)
FileList == [n \in 1..NumMark |-> GetMarked(n).name]
MakeFileList == path # << >> /\ NumMark > 0 /\ Refresh

Next ==
    \/ Cross \/ MoveCursor \/ Square \/ SelectAll \/ MakeFileList
    \/ (\E kind \in {"name", "size", "type"} : Sort(kind)) \/ (\E exts \in Filters : SetFilter(exts))

Spec == Init /\ [][Next]_dirVars

------------------------------------------------------------------------------
TypeOK ==
    /\ path \in DOMAIN Tree \cup {<< >>} /\ sel \in DOMAIN items
    /\ filter \in Filters \cup {{}} /\ order \in {"none", "name", "size", "type"}

Named(name, s) == SelectSeq(s, LAMBDA i : i.name = name)

(* The rows are the directory's, each once, whatever they were sorted in and *)
(* marked; marked, and handed to the copy, are those the user marked, never   *)
(* "..", though marks lie at rows, and ".." need not stay the first of them.  *)
RowsRight ==
    path # << >> =>
       LET rows == Contents(path, filter) IN
          /\ Len(items) = Len(rows)
          /\ \A i \in DOMAIN rows :
                Named(rows[i].name, items) = << [rows[i] EXCEPT !.marked = rows[i].name \in asked] >>
          /\ Dots \notin asked /\ ToSet(FileList) = asked

(* Sorted rows have the directories first, then the names, sizes or types    *)
(* in their order, unless two sizes are half the integers apart.             *)
Key(kind, i) == IF kind = "name" THEN i.name ELSE IF kind = "size" THEN i.size ELSE i.ext
SortedRight ==
    order # "none" =>
       \A i, j \in DOMAIN items : i < j =>
          /\ items[j].dir => items[i].dir
          /\ items[j].dir = items[i].dir /\ (\A k \in DOMAIN items : items[k].size < Word \div 2) =>
                Key(order, items[i]) <= Key(order, items[j])

DirViewRight == RowsRight /\ SortedRight

(* A row of a directory leads one step down, ".." one step up; the list of   *)
(* devices is reached from the root of a device and of no directory in it.   *)
WayBack ==
    [][path' # path =>
          \/ path = << >>
          \/ path' # << >> /\ (path = Front(path') \/ path' = Front(path))
          \/ path' = << >> /\ \E i \in DOMAIN AllRoots : AllRoots[i] = path]_dirVars
=============================================================================

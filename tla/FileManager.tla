----------------------------- MODULE FileManager -----------------------------
(***************************************************************************)
(* The file manager: its window (src/src/GUI_M_MyFiles.c), the directory   *)
(* view it shows (src/src/GUI_Ctrl_Dirview.c) and the file operations of   *)
(* src/src/file.c it calls.  A path is a sequence of names, the first of   *)
(* which is the device.  The rows are a set: the user may move the cursor  *)
(* to any of them.                                                         *)
(***************************************************************************)
EXTENDS Naturals, Sequences, FiniteSets, SequencesExt, FiniteSetsExt

CONSTANTS
    Names,          \* bound: the names of files and directories
    MaxDepth,       \* bound: the longest path a device accepts
    MaxChanges,     \* bound: how often what the devices hold is changed
    Disks           \* bound: what the devices may hold when the window opens

VARIABLES
    fs,             \* path -> "dir" or what the file holds
    dir,            \* szPath of the view; <<>> is the list of devices
    rows,           \* the items of the view, a set of [name, isDir]
    marked,         \* those with FLAG_MARKED
    enabled,        \* the buttons that are not nDisabled
    focus,          \* iSelID: a button or the list
    dialog,         \* the dialog that covers the window, or "none"
    files,          \* lpFiles: the items to copy
    src,            \* szSrc
    oldName,        \* szOldName
    changes         \* counts the changes, for the bound

fmVars == <<fs, dir, rows, marked, enabled, focus, dialog, files, src, oldName, changes>>

Buttons == {"NEW_FOLDER", "SELECT_ALL", "DELETE", "RENAME", "COPY", "START"}
Dialogs == {"none", "name", "confirm", "rename", "message", "copied"}
DeviceNames == {"pfs0", "mc0", "cdfs"}
Up == [name |-> "..", isDir |-> TRUE]
NoFault == <<>>

Paths == UNION {[1 .. n -> Names] : n \in 1 .. MaxDepth - 1}
Below(path) == {p \in DOMAIN fs : IsPrefix(path, p)}
IsDir(disk, path) == path \in DOMAIN disk /\ disk[path] = "dir"
Children(disk, path) == {p \in DOMAIN disk : Len(p) = Len(path) + 1 /\ IsPrefix(path, p)}
Device(path) == path[1]
ReadOnly(path) == Device(path) = "cdfs"

Keep(disk, paths) == [p \in paths |-> disk[p]]
Put(disk, path, what) == [p \in DOMAIN disk \cup {path} |-> IF p = path THEN what ELSE disk[p]]

Init ==
    /\ fs \in Disks
    /\ dir = <<>> /\ rows = {[name |-> d, isDir |-> TRUE] : d \in DeviceNames}
    /\ marked = {} /\ enabled = {} /\ focus = "list" /\ dialog = "none"
    /\ files = {} /\ src = <<>> /\ oldName = "none" /\ changes = 0

------------------------------------------------------------------------------
(* file.c.  "fault" is a path at which the device fails, or NoFault.         *)

FileMkdir(disk, path, fault) ==
    IF \/ ReadOnly(path) \/ path = fault \/ Len(path) > MaxDepth
       \/ path \in DOMAIN disk \/ ~IsDir(disk, Front(path))
    THEN disk ELSE Put(disk, path, "dir")

\* DirGetContents, without "." and "..".
Contents(disk, path) ==
    {[name |-> Last(p), isDir |-> disk[p] = "dir"] : p \in Children(disk, path)}

\* FileRemove.  On a memory card a fioRmdir follows: it takes an empty directory.
FileRemove(disk, path, fault) ==
    IF \/ ReadOnly(path) \/ path = fault \/ path \notin DOMAIN disk
       \/ disk[path] = "dir" /\ (Device(path) # "mc0" \/ Children(disk, path) # {})
    THEN disk ELSE Keep(disk, DOMAIN disk \ {path})

\* A directory goes when nothing is left in it.
DirRemove(disk, path, fault) ==
    IF ReadOnly(path) \/ ~IsDir(disk, path) THEN disk
    ELSE Keep(disk, {p \in DOMAIN disk : IsPrefix(path, p) => IsPrefix(p, fault)})

\* Not implemented for memory cards.
FileRename(disk, from, to, fault) ==
    IF \/ Device(from) # "pfs0" \/ from = fault \/ from \notin DOMAIN disk
       \/ to \in DOMAIN disk \/ IsPrefix(from, to)
    THEN disk
    ELSE LET Moved(p) == IF IsPrefix(from, p) THEN to \o SubSeq(p, Len(from) + 1, Len(p)) ELSE p
             Origin(q) == CHOOSE p \in DOMAIN disk : Moved(p) = q
         IN [q \in {Moved(p) : p \in DOMAIN disk} |-> disk[Origin(q)]]

\* The output is truncated before the input is read; a copy that breaks off is
\* kept, and the caller never learns of it.
FileCopy(disk, in, out, fault) ==
    IF \/ in \notin DOMAIN disk \/ disk[in] = "dir"
       \/ ReadOnly(out) \/ Len(out) > MaxDepth \/ ~IsDir(disk, Front(out)) \/ IsDir(disk, out)
    THEN disk
    ELSE Put(disk, out, IF in = out \/ out = fault THEN "cut" ELSE disk[in])

\* The contents are read after the directory was made, so a directory that is
\* copied into itself is found there again.  Only -1 stops a copy, and
\* fileXioMkdir says something else when the directory exists.
RECURSIVE DirCopy(_, _, _, _)
DirCopy(disk, in, out, fault) ==
    LET made == FileMkdir(disk, out, fault)
        Copied(d, item) ==
            IF item.isDir THEN DirCopy(d, Append(in, item.name), Append(out, item.name), fault)
            ELSE FileCopy(d, Append(in, item.name), Append(out, item.name), fault)
    IN IF ~IsDir(made, out) /\ out \notin DOMAIN made THEN disk
       ELSE FoldSet(LAMBDA item, d : Copied(d, item), made, Contents(made, in))

\* Nothing is written to a CD.
Faults == {NoFault} \cup {<<d>> \o p : d \in DeviceNames \ {"cdfs"}, p \in Paths}

------------------------------------------------------------------------------
(* GUI_Ctrl_Dirview.c                                                        *)

\* GUI_Ctrl_Dirview_Init
ShowDevices ==
    /\ dir' = <<>>
    /\ rows' = {[name |-> d, isDir |-> TRUE] : d \in DeviceNames}
    /\ marked' = {}

\* GUI_Ctrl_Dirview_SetDir: when the directory cannot be read the view stays as
\* it is, its marks too.
SetDir(path, disk) ==
    \/ /\ dir' = path
       /\ rows' = {Up} \cup Contents(disk, path)
       /\ marked' = {}
    \/ /\ ~IsDir(disk, path)
       /\ UNCHANGED <<dir, rows, marked>>

Refresh(disk) == IF dir = <<>> THEN ShowDevices ELSE SetDir(dir, disk)

------------------------------------------------------------------------------
(* GUI_M_MyFiles.c                                                           *)

ButtonsFor(path, marks, list) ==
    IF path = <<>> THEN {}
    ELSE Buttons \ UNION {
        IF ReadOnly(path) THEN {"NEW_FOLDER", "DELETE", "RENAME", "START"} ELSE {},
        IF Cardinality(marks) > 1 THEN {"RENAME"} ELSE {},
        IF marks = {} THEN {"DELETE", "RENAME", "COPY"} ELSE {},
        IF list = {} THEN {"START"} ELSE {}}

SetButtonStates == enabled' = ButtonsFor(dir', marked', files')

\* The arrow keys skip what is disabled.
MoveFocus ==
    /\ dialog = "none"
    /\ focus' \in (enabled \cup {"list", "sort"}) \ {focus}
    /\ UNCHANGED <<fs, dir, rows, marked, enabled, dialog, files, src, oldName, changes>>

Item(row) == IF dir = <<>> THEN <<row.name>> ELSE Append(dir, row.name)

\* CROSS on a directory; above the root of a device is the list of devices.
Enter(row) ==
    /\ dialog = "none" /\ focus = "list" /\ row.isDir
    /\ IF row = Up
       THEN IF Len(dir) = 1 THEN ShowDevices ELSE SetDir(Front(dir), fs)
       ELSE SetDir(Item(row), fs)
    /\ UNCHANGED <<fs, files, src, oldName, focus, dialog, changes>>
    /\ SetButtonStates

\* SQUARE; the devices can be marked too.
Mark(row) ==
    /\ dialog = "none" /\ focus = "list" /\ row # Up
    /\ marked' = (marked \cup {row}) \ (marked \cap {row})
    /\ UNCHANGED <<fs, dir, rows, files, src, oldName, focus, dialog, changes>>
    /\ SetButtonStates

\* GUI_Input calls the window for the button under the focus without a look at
\* nDisabled.
Press(btn) == dialog = "none" /\ focus = btn

SelectAllFiles ==
    /\ Press("SELECT_ALL")
    /\ marked' = rows \ (marked \cup {Up})
    /\ UNCHANGED <<fs, dir, rows, files, src, oldName, focus, dialog, changes>>
    /\ SetButtonStates

AskName ==
    /\ Press("NEW_FOLDER") /\ dialog' = "name"
    /\ UNCHANGED <<fs, dir, rows, marked, enabled, files, src, oldName, focus, changes>>

AskDelete ==
    /\ Press("DELETE") /\ dialog' = "confirm"
    /\ UNCHANGED <<fs, dir, rows, marked, enabled, files, src, oldName, focus, changes>>

\* The name of the first marked item is kept for the dialog's answer.
AskRename ==
    /\ Press("RENAME") /\ dialog' = "rename"
    /\ \E row \in marked : oldName' = row.name
    /\ UNCHANGED <<fs, dir, rows, marked, enabled, files, src, focus, changes>>

\* MakeFileList, and the user is asked for the destination.
Copy ==
    /\ Press("COPY") /\ dialog' = "message"
    /\ files' = marked /\ src' = dir
    /\ ShowDevices
    /\ focus' = "list"
    /\ UNCHANGED <<fs, oldName, changes>>
    /\ SetButtonStates

CopyItem_Mutant(disk, row, dst, fault) ==
    IF row.isDir THEN DirCopy(disk, Append(src, row.name), dst, fault)
    ELSE FileCopy(disk, Append(src, row.name), Append(dst, row.name), fault)
CopyItem(disk, row, dst, fault) ==
    IF row.isDir THEN DirCopy(disk, Append(src, row.name), Append(dst, row.name), fault)
    ELSE FileCopy(disk, Append(src, row.name), Append(dst, row.name), fault)

Change == changes < MaxChanges /\ changes' = changes + 1

\* The dialog copies when it opens (CopyFiles), then forgets the list.
Start(fault) ==
    /\ Press("START") /\ Change /\ dialog' = "copied"
    /\ fs' = FoldSet(LAMBDA row, disk : CopyItem(disk, row, dir, fault), fs, files)
    /\ files' = {}
    /\ UNCHANGED <<dir, rows, marked, enabled, src, oldName, focus>>

\* The answers of the dialogs.  NO and CANCEL change nothing.
Dismiss ==
    /\ dialog \in Dialogs \ {"none", "copied"} /\ dialog' = "none"
    /\ UNCHANGED <<fs, dir, rows, marked, enabled, files, src, oldName, focus, changes>>

CopyDone_Mutant ==
    /\ dialog = "copied" /\ dialog' = "none"
    /\ Refresh(fs)
    /\ UNCHANGED <<fs, files, src, oldName, focus, changes>>
    /\ SetButtonStates
CopyDone ==
    /\ dialog = "copied" /\ dialog' = "none"
    /\ Refresh(fs)
    /\ focus' = "list"
    /\ UNCHANGED <<fs, files, src, oldName, changes>>
    /\ SetButtonStates

Answer(asked, disk) ==
    /\ dialog = asked /\ Change /\ dialog' = "none"
    /\ fs' = disk
    /\ Refresh(disk)
    /\ focus' = "list"
    /\ UNCHANGED <<files, src, oldName>>
    /\ SetButtonStates

DeleteFiles(fault) ==
    Answer("confirm", FoldSet(LAMBDA row, disk : IF row.isDir THEN DirRemove(disk, Item(row), fault)
                                                 ELSE FileRemove(disk, Item(row), fault),
                              fs, marked))

MakeDir(name, fault) == Answer("name", FileMkdir(fs, Append(dir, name), fault))

Rename(name, fault) ==
    Answer("rename", FileRename(fs, Append(dir, oldName), Append(dir, name), fault))

\* Meanwhile an FTP client may delete a file or a directory, or store a file.
ClientChanges(path) ==
    /\ Change
    /\ Device(path) = "pfs0"
    /\ IF path \in DOMAIN fs THEN fs' = Keep(fs, DOMAIN fs \ Below(path))
       ELSE IsDir(fs, Front(path)) /\ fs' = Put(fs, path, "sent")
    /\ UNCHANGED <<dir, rows, marked, enabled, files, src, oldName, focus, dialog>>

Next ==
    \/ MoveFocus
    \/ \E row \in rows : Enter(row) \/ Mark(row)
    \/ SelectAllFiles \/ AskName \/ AskDelete \/ AskRename \/ Copy \/ Dismiss \/ CopyDone
    \/ \E fault \in Faults :
          \/ Start(fault) \/ DeleteFiles(fault)
          \/ \E name \in Names : MakeDir(name, fault) \/ Rename(name, fault)
    \/ \E p \in Paths : ClientChanges(<<"pfs0">> \o p)

Spec == Init /\ [][Next]_fmVars

------------------------------------------------------------------------------
TypeOK ==
    /\ \A p \in DOMAIN fs : Len(p) > 1 => IsDir(fs, Front(p))
    /\ marked \subseteq rows /\ enabled \subseteq Buttons
    /\ focus \in Buttons \cup {"list", "sort"} /\ dialog \in Dialogs

(* A button that can be pressed is one the window's state allows: the focus  *)
(* never rests on a disabled one, whatever marks, directory and list to copy *)
(* have become (SetButtonStates, the handlers that move the focus).          *)
ButtonsAreRight ==
    dialog = "none" => /\ enabled = ButtonsFor(dir, marked, files)
                       /\ focus \in enabled \cup {"list", "sort"}

Targets == {Append(dir, row.name) : row \in files}
Sources == {Append(src, row.name) : row \in files}
Related(p, q) == IsPrefix(p, q) \/ IsPrefix(q, p)

(* What a copy leaves at the destination, and nowhere else, is what was      *)
(* marked, below the names it had; the sources stay as they are, unless one  *)
(* of the two directories lies within the other.  Of a directory that is     *)
(* gone when the copy starts an empty one is left (CopyFiles, DirCopy).      *)
CopyIsExact ==
    (dialog' = "copied" /\ dialog # "copied") =>
        /\ \A p \in DOMAIN fs \cup DOMAIN fs' :
              (\A t \in Targets : ~IsPrefix(t, p)) =>
                  p \in DOMAIN fs /\ p \in DOMAIN fs' /\ fs'[p] = fs[p]
        /\ \A s \in Sources : (\A t \in Targets : ~Related(s, t)) =>
              \A p \in Below(s) : p \in DOMAIN fs' /\ fs'[p] = fs[p]
        /\ \A p \in DOMAIN fs' \ DOMAIN fs :
              \/ \E t \in Targets, s \in Sources : Related(s, t)
              \/ p \in Targets /\ fs'[p] = "dir"
              \/ \E s \in Sources, q \in DOMAIN fs :
                    /\ IsPrefix(s, q) /\ Last(q) = Last(p)
                    /\ fs'[p] \in {fs[q], "cut"}

(* A file goes only when its deletion was confirmed and it is at or below    *)
(* what was marked, or a client of the FTP server deletes it; a rename loses *)
(* nothing (DeleteFiles, DirRemove, FileRemove, FileRename).                 *)
OnlyMarkedGo ==
    \A p \in DOMAIN fs \ DOMAIN fs' :
        \/ dialog' = dialog
        \/ dialog = "confirm" /\ \E row \in marked : IsPrefix(Item(row), p)
        \/ dialog = "rename" /\ Cardinality(DOMAIN fs) = Cardinality(DOMAIN fs')

FilesAreSafe == [][CopyIsExact /\ OnlyMarkedGo]_fmVars
=============================================================================

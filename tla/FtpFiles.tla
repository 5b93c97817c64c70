------------------------------ MODULE FtpFiles ------------------------------
(***************************************************************************)
(* The files behind the FTP server: irx/ps2ftpd/FileSystem.c and the       *)
(* commands of FtpCommands.c that name a file.  Each client has a context, *)
(* which is also the handle the device's driver works on.  A path is the   *)
(* sequence of its entries: the device, the unit, then what the driver     *)
(* sees.  What drivers do is left open where they may fail; where in a    *)
(* file a transfer begins (REST) is left out.                              *)
(***************************************************************************)
EXTENDS Naturals, Sequences, FiniteSets, SequencesExt

CONSTANTS
    Slots,          \* the clients
    Arguments,      \* bound: the paths each client sends, records [abs, path]
    Stored,         \* bound: the paths of the files the devices hold at first
    Directories     \* bound: the paths each client sends with CWD

VARIABLES
    cwd,            \* m_kContext.m_Path
    ctx,            \* m_eType and m_kFile
    action,         \* m_eDataAction, when a transfer is under way
    buffer,         \* the static buffer of FtpCommands.c: a path or <<"text">>
    disk,           \* the files: a set of paths
    handles,        \* what the drivers have open: number -> path
    asked,          \* the file or directory each client wants
    named           \* what each client's RNFR has named, and no one disturbed

ftpFilesVars == <<cwd, ctx, action, buffer, disk, handles, asked, named>>

Drivers == {"pfs", "mass"}
Units == {"0", "1"}
MaxUnits == 2           \* bound: the units a listing tries (16)
Text == <<"text">>
Nothing == <<"nothing">>
Closed == [type |-> "invalid", device |-> "none", unit |-> "0", mode |-> "none", fd |-> 0]

Contexts ==
    [type : {"invalid", "devlist", "io"}, device : Drivers \cup {"none"},
     unit : Units \cup {"end"}, mode : {"none", "read", "write", "dir"},
     fd : 0 .. Cardinality(Slots)]

Init ==
    /\ cwd = [c \in Slots |-> <<>>] /\ ctx = [c \in Slots |-> Closed]
    /\ action = [c \in Slots |-> "none"]
    /\ buffer = Text /\ disk = Stored /\ handles = <<>>
    /\ asked = [c \in Slots |-> Nothing] /\ named = [c \in Slots |-> Nothing]

------------------------------------------------------------------------------
(* A state of the files, p: p.x the context, p.h the open handles.  What an   *)
(* invalid context says besides is never read again, and is Closed here.      *)

FileSystem_BuildPath(c, arg) == IF arg.abs THEN arg.path ELSE cwd[c] \o arg.path

\* The driver's close is called even when nothing was opened: it finds fd 0.
FileSystem_Close_Mutant(p) ==
    [x |-> [p.x EXCEPT !.type = "invalid"],
     h |-> [n \in DOMAIN p.h \ {p.x.fd} |-> p.h[n]]]
FileSystem_Close(p) ==
    [x |-> Closed,
     h |-> IF p.x.type = "io" THEN [n \in DOMAIN p.h \ {p.x.fd} |-> p.h[n]] ELSE p.h]

\* What a path names, in a context x that was closed: "io" with device, unit and
\* local path, or a list of devices or units.
FileSystem_ClassifyPath(x, path) ==
    IF path = <<>> THEN [x EXCEPT !.type = "devlist"]
    ELSE IF path[1] \notin Drivers THEN [x EXCEPT !.type = "devlist"]
    ELSE IF Len(path) = 1 \/ path[2] \notin Units
    THEN [x EXCEPT !.type = "devlist", !.device = path[1]]
    ELSE [x EXCEPT !.type = "io", !.device = path[1], !.unit = path[2]]

Accepted(path) ==
    \/ path = <<>>
    \/ path # <<>> /\ path[1] \in Drivers /\ (Len(path) > 1 => path[2] \in Units)
Local(path) == SubSeq(path, 3, Len(path))

Pointed(p, path) == [FileSystem_Close(p) EXCEPT !.x = FileSystem_ClassifyPath(@, path)]
Lowest(used) == CHOOSE n \in 1 .. Cardinality(Slots) : n \notin used /\ \A m \in 1 .. n - 1 : m \in used
Opened(p, path, mode) ==
    LET n == Lowest(DOMAIN p.h)
    IN [x |-> [p.x EXCEPT !.mode = mode, !.fd = n],
        h |-> [m \in DOMAIN p.h \cup {n} |-> IF m = n THEN path ELSE p.h[m]]]

\* FileSystem_OpenFile.  To read, the file must be there; a writer makes it.
\* When the driver cannot seek, the file is closed and opened from its start.
FileSystem_OpenFile(p, path, mode) ==
    LET q == Pointed(p, path)
        fails == IF q.x.type = "io" THEN [q EXCEPT !.x = Closed] ELSE q
        may == q.x.type = "io" /\ (mode = "write" \/ path \in disk)
    IN {[p |-> fails, ok |-> FALSE]}
         \cup (IF may THEN {[p |-> Opened(q, path, mode), ok |-> TRUE]} ELSE {})

FileSystem_OpenDir(p, path) ==
    LET q == Pointed(p, path)
        failed == [p |-> [q EXCEPT !.x = Closed], ok |-> FALSE]
    IN CASE ~Accepted(path) -> {[p |-> q, ok |-> FALSE]}
         [] Accepted(path) /\ q.x.type = "devlist" -> {[p |-> q, ok |-> TRUE]}
         [] Accepted(path) /\ q.x.type = "io" ->
              {failed, [p |-> Opened(q, path, "dir"), ok |-> TRUE]}

\* FileSystem_GetFileSize: the driver is asked and the context forgets it.
FileSystem_GetFileSize(p, path) == [Pointed(p, path) EXCEPT !.x = Closed]

\* FileSystem_MountDevice, UnmountDevice and SyncDevice take only a full path.
FileSystem_MountDevice(p, arg) ==
    LET q == Pointed(p, arg.path)
    IN IF ~arg.abs THEN FileSystem_Close(p)
       ELSE IF q.x.type = "io" THEN [q EXCEPT !.x = Closed] ELSE q

State(c) == [x |-> ctx[c], h |-> handles]
Becomes(c, p) == ctx' = [ctx EXCEPT ![c] = p.x] /\ handles' = p.h

------------------------------------------------------------------------------
(* FtpCommands.c                                                             *)

\* Whoever writes the buffer takes the name from all clients.
Overwritten == /\ buffer' = Text
               /\ named' = [c \in Slots |-> Nothing]

\* FtpClient_OnCmdRetr, and Stor and Appe, which differ in where they begin
Transfer(c, arg, kind) ==
    LET path == FileSystem_BuildPath(c, arg) IN
    /\ \E r \in FileSystem_OpenFile(State(c), path, IF kind = "retr" THEN "read" ELSE "write") :
          /\ Becomes(c, r.p)
          /\ action' = [action EXCEPT ![c] = IF r.ok THEN kind ELSE @]
          /\ asked' = [asked EXCEPT ![c] = IF r.ok THEN path ELSE Nothing]
          /\ disk' = IF r.ok THEN disk \cup {path} ELSE disk
    /\ UNCHANGED <<cwd, buffer, named>>

\* FtpClient_OnCmdList: the action is set first.
List(c, arg) ==
    LET path == FileSystem_BuildPath(c, arg) IN
    /\ action' = [action EXCEPT ![c] = "list"]
    /\ \E r \in FileSystem_OpenDir(State(c), path) :
          /\ Becomes(c, r.p)
          /\ asked' = [asked EXCEPT ![c] = IF r.ok THEN path ELSE Nothing]
    /\ UNCHANGED <<cwd, buffer, disk, named>>

\* FtpClient_OnCmdPwd, and FtpClient_OnCmdPasv's reply
Pwd ==
    /\ Overwritten
    /\ UNCHANGED <<cwd, ctx, action, disk, handles, asked>>

\* FileSystem_ChangeDir: entry by entry, and no one looks whether it is there.
Entered(path, entry) ==
    IF entry # ".." THEN Append(path, entry) ELSE IF path = <<>> THEN path ELSE Front(path)
FileSystem_ChangeDir(c, arg) ==
    LET walk[n \in 0 .. Len(arg.path)] ==
            IF n = 0 THEN cwd[c] ELSE Entered(walk[n - 1], arg.path[n])
    IN IF arg.abs THEN arg.path ELSE walk[Len(arg.path)]
Cwd(c, arg) ==
    /\ cwd' = [cwd EXCEPT ![c] = FileSystem_ChangeDir(c, arg)]
    /\ UNCHANGED <<ctx, action, buffer, disk, handles, asked, named>>

\* FtpClient_OnCmdDele, Mkd and Rmd: the context keeps pointing there.
Change(c, arg) ==
    LET path == FileSystem_BuildPath(c, arg) IN
    /\ Becomes(c, Pointed(State(c), path))
    /\ \/ Accepted(path) /\ ctx'[c].type = "io" /\ disk' = disk \ {path}
       \/ UNCHANGED disk
    /\ asked' = [asked EXCEPT ![c] = Nothing]
    /\ UNCHANGED <<cwd, action, buffer, named>>

\* FtpClient_OnCmdRnfr: a file or a directory of that name can be opened.
Remembered_Mutant(path) == IF Len(path) > 2 THEN <<Last(path)>> ELSE path
Remembered(path) == IF Len(path) > 1 THEN Local(path) ELSE path

Found(c, path) ==
    LET file == FileSystem_OpenFile(State(c), path, "read")
    IN {r \in file : r.ok}
         \cup UNION {FileSystem_OpenDir(r.p, path) : r \in {r \in file : ~r.ok}}
Rnfr(c, arg) ==
    LET path == FileSystem_BuildPath(c, arg) IN
    /\ \E r \in Found(c, path) :
          IF ~r.ok THEN /\ Becomes(c, r.p)
                        /\ named' = [named EXCEPT ![c] = Nothing]
                        /\ UNCHANGED buffer
          ELSE /\ Becomes(c, Pointed(r.p, path))
               /\ buffer' = Remembered(path)
               /\ named' = [d \in Slots |-> IF d = c THEN path ELSE Nothing]
    /\ asked' = [asked EXCEPT ![c] = Nothing]
    /\ UNCHANGED <<cwd, action, disk>>

\* FtpClient_OnCmdRnto and FileSystem_Rename: the driver and unit are those of
\* the new name, and only pfs can rename.  It refuses a name that is taken.
Renamed(old, new) ==
    LET from == SubSeq(new, 1, 2) \o old
        Moved(path) == IF IsPrefix(from, path) THEN new \o SubSeq(path, Len(from) + 1, Len(path))
                       ELSE path
    IN {Moved(path) : path \in disk}
Rnto(c, arg) ==
    LET path == FileSystem_BuildPath(c, arg) IN
    /\ Becomes(c, Pointed(State(c), path))
    /\ \/ /\ ctx'[c].type = "io" /\ ctx'[c].device = "pfs" /\ Len(path) > 2
          /\ buffer \notin {Text, <<>>} /\ \A p \in disk : ~IsPrefix(path, p)
          /\ disk' = Renamed(buffer, path)
       \/ UNCHANGED disk
    /\ asked' = [asked EXCEPT ![c] = Nothing]
    /\ named' = [named EXCEPT ![c] = IF disk' = disk THEN @ ELSE Nothing]
    /\ UNCHANGED <<cwd, action, buffer>>

\* FtpClient_OnCmdSize writes the size into the buffer, if there is one, ...
Size(c, arg) ==
    /\ Becomes(c, FileSystem_GetFileSize(State(c), FileSystem_BuildPath(c, arg)))
    /\ Overwritten \/ UNCHANGED <<buffer, named>>
    /\ asked' = [asked EXCEPT ![c] = Nothing]
    /\ UNCHANGED <<cwd, action, disk>>

\* ... and FtpClient_OnCmdSite its command.
Site(c, arg) ==
    /\ Becomes(c, FileSystem_MountDevice(State(c), arg))
    /\ Overwritten
    /\ asked' = [asked EXCEPT ![c] = Nothing]
    /\ UNCHANGED <<cwd, action, disk>>

Command(c, arg) ==
    \/ \E kind \in {"retr", "stor"} : Transfer(c, arg, kind)
    \/ List(c, arg) \/ Change(c, arg)
    \/ Rnfr(c, arg) \/ Rnto(c, arg)
    \/ Size(c, arg) \/ Site(c, arg)

------------------------------------------------------------------------------
(* FtpClient.c: the transfers                                                *)

\* OnDataCleanup closes; the action stays, but for a failure.
End(c, action1) ==
    /\ Becomes(c, FileSystem_Close(State(c)))
    /\ action' = [action EXCEPT ![c] = action1]
    /\ asked' = [asked EXCEPT ![c] = Nothing]
    /\ UNCHANGED <<cwd, buffer, disk, named>>

\* FileSystem_ReadFile, WriteFile and ReadDir go on only with the right mode.
Moves(c) ==
    /\ ctx[c].type = "io" /\ ctx[c].device # "none"
    /\ ctx[c].mode = CASE action[c] = "retr" -> "read" [] action[c] = "stor" -> "write"
                       [] action[c] = "list" -> "dir" [] OTHER -> "no transfer"
Data(c) ==
    /\ action[c] # "none"
    /\ \/ Moves(c) /\ End(c, action[c])
       \/ ~Moves(c) /\ End(c, IF action[c] = "list" THEN "list" ELSE "none")

\* FileSystem_ReadDir lists units, or devices.
NextUnit(x) ==
    IF x.device = "mass" THEN "end" ELSE IF x.unit = "0" THEN "1" ELSE "end"
DataUnits(c) ==
    /\ action[c] = "list" /\ ctx[c].type = "devlist" /\ ctx[c].unit # "end"
    /\ ctx' = [ctx EXCEPT ![c].unit = NextUnit(ctx[c])]
    /\ UNCHANGED <<cwd, action, buffer, disk, handles, asked, named>>

Next ==
    \/ Pwd
    \/ \E c \in Slots :
          \/ \E arg \in Arguments[c] : Command(c, arg)
          \/ \E arg \in Directories[c] : Cwd(c, arg)
          \/ Data(c) \/ DataUnits(c)

Spec == Init /\ [][Next]_ftpFilesVars

------------------------------------------------------------------------------
TypeOK ==
    /\ ctx \in [Slots -> Contexts] /\ DOMAIN cwd = Slots
    /\ {action[c] : c \in Slots} \subseteq {"none", "retr", "stor", "list"}
    /\ DOMAIN handles \subseteq 1 .. Cardinality(Slots)

(* What a driver has open is what some client's context holds, once, and a    *)
(* transfer moves data of the file its command named, whichever commands came *)
(* in between: a context that points at a file nobody has opened moves none   *)
(* (FileSystem_Close, FileSystem_ClassifyPath, the modes).                    *)
HandlesSound ==
    /\ DOMAIN handles = {ctx[c].fd : c \in Slots} \ {0}
    /\ \A c, d \in Slots : c # d /\ ctx[c].fd # 0 => ctx[c].fd # ctx[d].fd
    /\ \A c \in Slots : Moves(c) => ctx[c].fd # 0 /\ handles[ctx[c].fd] = asked[c]

(* A rename moves what the client's RNFR named and leaves the rest where it   *)
(* was, if RNTO stays on the unit and no one wrote the shared buffer.  Only a  *)
(* rename takes the name and adds to the disk.                                *)
RenameMeant ==
    \A c \in Slots :
        /\ Len(named[c]) > 1 /\ named[c] # Nothing /\ named'[c] = Nothing
        /\ \E p \in disk' \ disk : SubSeq(p, 1, 2) = SubSeq(named[c], 1, 2)
        => disk \ disk' = {p \in disk : IsPrefix(named[c], p)}
RenamesMeant == [][RenameMeant]_ftpFilesVars
=============================================================================

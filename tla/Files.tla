------------------------------- MODULE Files --------------------------------
(***************************************************************************)
(* Listing a directory and reading lines (DirGetContents, FileOpen,        *)
(* FileGets of src/src/file.c), on each kind of device.  A directory is    *)
(* the sequence of entries its driver returns, with "." and "..", and a    *)
(* file the sequence of its characters.                                    *)
(***************************************************************************)
EXTENDS Naturals, Sequences, SequencesExt

CONSTANTS
    MaxItems,   \* MAX_DIR_FILES, and maxItems of every caller
    Dirs,       \* the directories: sequences of [name, kind, ext]
    Filters,    \* the filters: sets of extensions, or NoFilter
    TextFiles,  \* the files
    Num         \* the size of the buffer of FileGets

VARIABLES
    pc,
    device,     \* DT_CD, DT_HDD, ...: which driver is asked; -1 after an open that failed
    dir, filter,
    next,       \* the entry the driver returns next
    dirEntry,   \* the last it returned
    infos,      \* fileInfo[0 .. index)
    failed,     \* whether the hard disk's driver reported an error
    file, offset,       \* the file that is read
    string, lines       \* the buffer of FileGets; what it returned so far

fileVars == <<pc, device, dir, filter, next, dirEntry, infos, failed, file, offset, string, lines>>
dirVars == <<dir, filter, next, dirEntry, infos, failed>>
lineVars == <<file, offset, string, lines>>

NoFilter == {}
Devices == {"cdfs", "pfs", "mc", "mass", "smb", "host"}
Listed == Devices \ {"host"}
Dots == {".", ".."}
First(s, n) == SubSeq(s, 1, IF Len(s) < n THEN Len(s) ELSE n)

\* DirGetContents' tests of a name: directories pass every filter.
Passes_Mutant(e) == filter = NoFilter \/ e.ext \in filter
Passes(e) == filter = NoFilter \/ e.kind = "dir" \/ e.ext \in filter
Skipped(e) == e.name \in Dots \/ (device = "mass" /\ e.kind = "label")

------------------------------------------------------------------------------
Init ==
    /\ pc = "idle" /\ device = "cdfs"
    /\ dir = << >> /\ filter = NoFilter /\ next = 1 /\ dirEntry = << >> /\ infos = << >>
    /\ failed = FALSE
    /\ file = << >> /\ offset = 0 /\ string = << >> /\ lines = << >>

\* CDVD_GetDir and mcGetDir fill a table of MaxItems entries at once.
CallDirGetContents(d, entries, f) ==
    /\ pc = "idle" /\ pc' = "list"
    /\ d = "mass" \/ \A i \in DOMAIN entries : entries[i].kind # "label"
    /\ device' = d /\ filter' = f
    /\ dir' = IF d \in {"cdfs", "mc"} THEN First(entries, MaxItems) ELSE entries
    /\ next' = 1 /\ dirEntry' = << >> /\ infos' = << >> /\ failed' = FALSE
    /\ UNCHANGED lineVars

Return == pc' = "listed" /\ UNCHANGED <<device, dir, filter, infos, lineVars>>

EndOfDir ==
    /\ pc = "list" /\ next > Len(dir) /\ Return
    /\ UNCHANGED <<next, dirEntry, failed>>

\* The entry goes to fileInfo[index] if there is room and the filter lets it pass.
Full == Len(infos) >= MaxItems
Take(e) ==
    IF Full /\ ~Skipped(e) THEN Return
    ELSE /\ infos' = IF Skipped(e) \/ ~Passes(e) THEN infos ELSE Append(infos, e)
         /\ UNCHANGED <<pc, device, dir, filter, lineVars>>

NextEntry ==
    /\ pc = "list" /\ next <= Len(dir)
    /\ next' = next + 1 /\ dirEntry' = << dir[next] >>
    /\ IF device = "cdfs" /\ Full THEN Return ELSE Take(dir[next])
    /\ UNCHANGED failed

\* fileXioDread that fails leaves dirEntry, which is taken again before the loop ends.
DreadFails ==
    /\ pc = "list" /\ device = "pfs" /\ dirEntry # << >> /\ next <= Len(dir)
    /\ failed' = TRUE /\ pc' = "listed"
    /\ infos' = IF Full \/ Skipped(dirEntry[1]) \/ ~Passes(dirEntry[1]) THEN infos
                ELSE Append(infos, dirEntry[1])
    /\ UNCHANGED <<device, dir, filter, next, dirEntry, lineVars>>

------------------------------------------------------------------------------
\* FileOpen: a handle that was not opened reads nothing.
FileOpen(d, text, opens) ==
    /\ pc = "idle" /\ pc' = "gets"
    /\ device' = IF opens THEN d ELSE "none"
    /\ file' = text /\ offset' = 0 /\ string' = << >> /\ lines' = << >>
    /\ UNCHANGED dirVars

AtEnd == device = "none" \/ offset = Len(file)
\* FileGets: a line of Windows loses its carriage return.
Ended_Mutant(s) == s
Ended(s) ==
    IF Len(s) >= 2 /\ s[Len(s) - 1] = "\r" THEN SubSeq(s, 1, Len(s) - 2) \o << "\n" >> ELSE s

FileRead ==
    /\ pc = "gets" /\ ~AtEnd
    /\ offset' = offset + 1
    /\ LET read == Append(string, file[offset'])
           complete == file[offset'] = "\n" \/ Len(read) = Num
       IN /\ string' = IF complete THEN << >> ELSE read
          /\ lines' = IF complete THEN Append(lines, Ended(read)) ELSE lines
    /\ UNCHANGED <<pc, device, file, dirVars>>

\* FileGets returns NULL: what it had read is lost.
FileGetsEnds ==
    /\ pc = "gets" /\ AtEnd
    /\ pc' = "got"
    /\ UNCHANGED <<device, file, offset, string, lines, dirVars>>

Again == pc \in {"listed", "got"} /\ pc' = "idle" /\ UNCHANGED <<device, dirVars, lineVars>>

Next ==
    \/ \E d \in Listed, entries \in Dirs, f \in Filters : CallDirGetContents(d, entries, f)
    \/ \E d \in Devices, text \in TextFiles, opens \in BOOLEAN : FileOpen(d, text, opens)
    \/ EndOfDir \/ NextEntry \/ DreadFails \/ FileRead \/ FileGetsEnds \/ Again

Spec == Init /\ [][Next]_fileVars

------------------------------------------------------------------------------
TypeOK ==
    /\ pc \in {"idle", "list", "listed", "gets", "got"} /\ device \in Devices \cup {"none"}
    /\ next \in 1..(Len(dir) + 1) /\ offset \in 0..Len(file)

\* What a listing is for: directories, and the files the caller can use.
Wanted(e) ==
    /\ e.name \notin Dots /\ e.kind \in {"dir", "file"}
    /\ e.kind = "file" => filter = NoFilter \/ e.ext \in filter

(* A directory is listed as the first of its entries that are directories or *)
(* that the filter lets pass, each once and without "." and "..", on every   *)
(* device alike, unless its driver fails, when at most the last is repeated  *)
(* (DirGetContents); and never more than the caller's array holds.           *)
ListingRight ==
    /\ Len(infos) <= MaxItems
    /\ pc = "listed" /\ ~failed => infos = First(SelectSeq(dir, Wanted), MaxItems)
    /\ pc = "listed" /\ failed =>
          /\ ToSet(infos) \subseteq {e \in ToSet(dir) : Wanted(e)}
          /\ \A i, j \in DOMAIN infos :
                infos[i] = infos[j] => i = j \/ {i, j} = {Len(infos) - 1, Len(infos)}

\* The lines of a text, without the last that no newline ends.
Line(s) == IF Len(s) >= 2 /\ Last(Front(s)) = "\r" THEN Append(Front(Front(s)), "\n") ELSE s
RECURSIVE LinesOf(_)
LinesOf(s) ==
    LET end == SelectInSeq(s, LAMBDA c : c = "\n") IN
       IF end = 0 THEN << >>
       ELSE << Line(SubSeq(s, 1, end)) >> \o LinesOf(SubSeq(s, end + 1, Len(s)))
Short(s) == \A i \in 1..(Len(s) + 2 - Num) : \E k \in i..(i + Num - 2) : s[k] = "\n"

(* A file whose lines fit the buffer is read line by line, CR LF as LF, and  *)
(* the terminating zero stays in the buffer; a last line that no newline     *)
(* ends is not returned (FileGets, as playlists are read).                   *)
LinesWhole ==
    pc \in {"gets", "got"} /\ Short(file) =>
       /\ \A i \in DOMAIN lines : Len(lines[i]) < Num
       /\ pc = "got" /\ device # "none" => lines = LinesOf(file)
=============================================================================

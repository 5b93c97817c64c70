-------------------------------- MODULE Radio -------------------------------
(***************************************************************************)
(* The radio window (src/src/GUI_M_Radio.c): one list that shows either    *)
(* the stations of the directory or the bookmarks, with a toggle button    *)
(* that says which, and two tables behind it that a click or a cursor      *)
(* movement indexes with the number of the row.                            *)
(***************************************************************************)
EXTENDS Rows, FiniteSets, SequencesExt, FiniteSetsExt

CONSTANTS
    Directories,    \* bound: what the station directory may hold
    Winamp          \* bound: what the file of bookmarks may hold

VARIABLES
    isOpen,         \* the window is on the screen
    stations,       \* pStations
    bookmarks,      \* pBookmarks
    list,           \* ID_LIST; the window keeps its rows while it is closed
    toggle,         \* ID_BOOKMARKS: "on" or "off"
    label,          \* ID_STATION_NAME
    heard,          \* the stream that was opened last
    mayRefresh,     \* nNextRefresh has passed
    cache,          \* stations.xml, NoFile if there is none
    bmFile,         \* Winamp.bm
    stale           \* the bookmarks were read again while the list showed them

radioVars == <<isOpen, stations, bookmarks, list, toggle, label, heard, mayRefresh,
               cache, bmFile, stale>>

NoFile == <<"none">>
Nothing == 0

Init ==
    /\ isOpen = FALSE /\ stations = <<>> /\ bookmarks = <<>> /\ list = NoRows
    /\ toggle = "off" /\ label = Nothing /\ heard = Nothing /\ mayRefresh = TRUE
    /\ cache \in Directories \cup {NoFile} /\ bmFile \in Winamp /\ stale = FALSE

\* ParseStationXML: the stations of a file; none when it cannot be parsed.
Parsed(file) == {file, <<>>}

RefreshStationList(table) ==
    /\ list' = Filled(table)
    /\ toggle' = "off"
    /\ stale' = FALSE

RefreshBookmarkList ==
    /\ list' = Filled(bookmarks)
    /\ toggle' = "on"
    /\ stale' = FALSE

\* LoadRadioBookmarks.  An empty list is filled from the cache, if there is one
\* and the settings want it.
Open ==
    /\ ~isOpen /\ isOpen' = TRUE
    /\ bookmarks' = bmFile
    /\ \/ /\ list.items = <<>> /\ cache # NoFile
          /\ \E table \in Parsed(cache) : stations' = table /\ RefreshStationList(table)
       \/ /\ stale' = (stale \/ (toggle = "on" /\ list.items # bmFile))
          /\ UNCHANGED <<stations, list, toggle>>
    /\ UNCHANGED <<label, heard, mayRefresh, cache, bmFile>>

\* FreeRadioBookmarks
Close ==
    /\ isOpen /\ isOpen' = FALSE
    /\ bookmarks' = <<>>
    /\ UNCHANGED <<stations, list, toggle, label, heard, mayRefresh, cache, bmFile, stale>>

\* GetRadioStations, after the player has been stopped; at most once in five
\* minutes.  The file may be kept for the next time.
Download ==
    /\ isOpen /\ mayRefresh
    /\ \E file \in Directories : \E table \in Parsed(file) :
          /\ stations' = table
          /\ RefreshStationList(table)
          /\ cache' \in {cache, file}
    /\ mayRefresh' = FALSE
    /\ UNCHANGED <<isOpen, bookmarks, label, heard, bmFile>>

FiveMinutesPass ==
    /\ ~mayRefresh
    /\ mayRefresh' = TRUE
    /\ UNCHANGED <<isOpen, stations, bookmarks, list, toggle, label, heard, cache, bmFile, stale>>

\* RadioSortName, Genre, BR, LC: what two stations are compared by.
Key(by, s) ==
    CASE by = "name" -> s
      [] by = "genre" -> s % 2
      [] by = "bitrate" -> 10 - s
      [] by = "listeners" -> (s * 2) % 3

Sorted(table, by) ==
    {t \in [1 .. Len(table) -> ToSet(table)] :
        /\ ToSet(t) = ToSet(table)
        /\ \A i \in 1 .. (Len(t) - 1) : Key(by, t[i]) <= Key(by, t[i + 1])}

Sort_Mutant(by) ==
    /\ isOpen
    /\ \E t \in Sorted(stations, by) : stations' = t
    /\ UNCHANGED <<isOpen, bookmarks, list, toggle, label, heard, mayRefresh, cache, bmFile, stale>>
Sort(by) ==
    /\ isOpen
    /\ \E t \in Sorted(stations, by) : stations' = t /\ RefreshStationList(t)
    /\ UNCHANGED <<isOpen, bookmarks, label, heard, mayRefresh, cache, bmFile>>

\* The toggle button has changed its state when its handler runs.
ShowBookmarks ==
    /\ isOpen /\ toggle = "off"
    /\ RefreshBookmarkList
    /\ UNCHANGED <<isOpen, stations, bookmarks, label, heard, mayRefresh, cache, bmFile>>

ShowStations ==
    /\ isOpen /\ toggle = "on"
    /\ RefreshStationList(stations)
    /\ UNCHANGED <<isOpen, stations, bookmarks, label, heard, mayRefresh, cache, bmFile>>

\* GUI_NOT_LIST_POS: the row's number indexes pStations unchecked.
Move(btn) ==
    /\ isOpen /\ CanMove(list, btn)
    /\ list' = Moved(list, btn)
    /\ label' = IF toggle = "on" \/ list'.sel = list.sel THEN label
                ELSE stations[list'.sel + 1]
    /\ UNCHANGED <<isOpen, stations, bookmarks, toggle, heard, mayRefresh, cache, bmFile, stale>>

\* GUI_NOT_LIST_CLICK: the address of a station's stream must be fetched first.
Click ==
    /\ isOpen /\ list.items # <<>>
    /\ LET table == IF toggle = "off" THEN stations ELSE bookmarks
       IN heard' \in IF list.sel >= Len(table) THEN {heard}
                     ELSE {heard, table[list.sel + 1]}
    /\ UNCHANGED <<isOpen, stations, bookmarks, list, toggle, label, mayRefresh, cache, bmFile, stale>>

\* Somebody writes the file of bookmarks, over FTP for instance.
WriteBookmarks ==
    /\ \E b \in Winamp : bmFile' = b
    /\ UNCHANGED <<isOpen, stations, bookmarks, list, toggle, label, heard, mayRefresh, cache, stale>>

\* GUI_FreeSkin and GUI_LoadSkin: all controls are made anew.
NewSkin ==
    /\ ~isOpen
    /\ list' = NoRows /\ toggle' = "off" /\ label' = Nothing /\ stale' = FALSE
    /\ UNCHANGED <<isOpen, stations, bookmarks, heard, mayRefresh, cache, bmFile>>

Next ==
    \/ Open \/ Close \/ Download \/ FiveMinutesPass
    \/ \E by \in {"name", "genre", "bitrate", "listeners"} : Sort(by)
    \/ ShowBookmarks \/ ShowStations
    \/ \E btn \in MoveButtons : Move(btn)
    \/ Click \/ WriteBookmarks \/ NewSkin

Spec == Init /\ [][Next]_radioVars

------------------------------------------------------------------------------
TypeOK ==
    /\ isOpen \in BOOLEAN /\ mayRefresh \in BOOLEAN /\ stale \in BOOLEAN
    /\ toggle \in {"on", "off"}
    /\ stations \in Seq(Nat) /\ bookmarks \in Seq(Nat) /\ list.items \in Seq(Nat)

(* A click plays the station whose name is in the row, and the label shows   *)
(* the station under the cursor, however the list was sorted, downloaded or  *)
(* switched since it was filled (GUI_CB_Radio).  Not so when the file of     *)
(* bookmarks changed while the closed window kept its rows.                  *)
RowIsPlayed ==
    /\ (heard' # heard /\ ~stale) => heard' = GetSel(list)
    /\ (label' # label /\ isOpen) => label' = GetSel(list')
RowsArePlayed == [][RowIsPlayed]_radioVars

(* The cursor never leaves the rows (GUI_Ctrl_List_SetCursor).               *)
CursorInList == CursorSeen(list)
=============================================================================

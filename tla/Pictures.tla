------------------------------- MODULE Pictures -------------------------------
(***************************************************************************)
(* The picture browser: its window and the thumbnails it makes and caches  *)
(* (src/src/GUI_M_MyPictures.c), the panel that shows them a page at a     *)
(* time (src/src/GUI_Ctrl_ThumbnailPanel.c) and the window that shows one  *)
(* picture (src/src/GUI_M_View.c).  Two contents of a picture are told     *)
(* apart by their size.                                                    *)
(***************************************************************************)
EXTENDS Naturals, Sequences, FiniteSets, SequencesExt, FiniteSetsExt

CONSTANTS
    Grids,          \* bound: columns and rows of the panel, as skins choose
    Pictures,       \* bound: the pictures of a directory and their first sizes
    NewSizes        \* bound: the sizes one of them has later; 0 is no picture

VARIABLES
    grid,           \* nNumItemsX and nNumItemsY
    window,         \* "pictures", "view", or "away"
    dir,            \* szCurDir
    panel,          \* the panel's items, and what they have in video memory
    image,          \* gsTexture of the view
    sizes,          \* the pictures on the device
    cache,          \* the .TBN files: the size they name and what they show
    raced,          \* the pictures thumbnails of which were made too late
    crashed         \* a NULL pointer was followed

picVars == <<grid, window, dir, panel, image, sizes, cache, raced, crashed>>

Blank == [kind |-> "none", of |-> 0]
Fresh == [items |-> <<>>, tex |-> <<>>, start |-> 0, selected |-> 0, live |-> 0]
Folder(n) == [name |-> n, isDir |-> TRUE, size |-> 0]
Changing == CHOOSE n \in DOMAIN Pictures : \A m \in DOMAIN Pictures : Pictures[n] <= Pictures[m]

\* "live" counts the textures of the panel; an item is counted from 0, as in C.
PageSize == grid[1] * grid[2]
Page(p) == {i \in DOMAIN p.items : p.start < i /\ i <= p.start + PageSize}
Own(p, S) == Cardinality({i \in S : p.tex[i].kind = "own"})

------------------------------------------------------------------------------
(* GUI_Ctrl_ThumbnailPanel.c                                                 *)

\* GUI_NOT_REMOVE for every item of the page
VramClean_Mutant(p) == [p EXCEPT !.tex = [i \in DOMAIN p.tex |-> IF i \in Page(p) THEN Blank ELSE @[i]]]
VramClean(p) ==
    [p EXCEPT !.tex = [i \in DOMAIN p.tex |-> IF i \in Page(p) THEN Blank ELSE @[i]],
              !.live = @ - Own(p, Page(p))]

\* GUI_Ctrl_ThumbnailPanel_Clean, then AddItem for each
Refilled(p, items) ==
    [Fresh EXCEPT !.items = items, !.tex = [i \in DOMAIN items |-> Blank], !.live = VramClean(p).live]

Column(p) == p.selected % grid[1]

Left(p) == IF Column(p) = 0 THEN p ELSE [p EXCEPT !.selected = @ - 1]
Right(p) ==
    IF Column(p) = grid[1] - 1 \/ p.selected + 1 = Len(p.items) THEN p
    ELSE [p EXCEPT !.selected = @ + 1]
Up(p) ==
    IF p.selected > p.start + grid[1] - 1 THEN [p EXCEPT !.selected = @ - grid[1]]
    ELSE IF p.start = 0 THEN p
    ELSE LET start == p.start - PageSize
         IN [VramClean(p) EXCEPT !.start = start,
                              !.selected = start + Column(p) + grid[1] * (grid[2] - 1)]

\* The test for the last row confuses rows and columns.
Downmost(p) == p.selected >= p.start + grid[2] * (grid[1] - 1)
Down_Mutant(p) ==
    IF ~Downmost(p)
    THEN IF p.selected + grid[1] > Len(p.items) THEN p ELSE [p EXCEPT !.selected = @ + grid[1]]
    ELSE IF Len(p.items) <= p.start + PageSize THEN p
    ELSE LET start == p.start + PageSize
         IN [VramClean(p) EXCEPT !.start = start, !.selected = start + Column(p)]
Down(p) ==
    IF ~Downmost(p)
    THEN IF p.selected + grid[1] >= Len(p.items) THEN p ELSE [p EXCEPT !.selected = @ + grid[1]]
    ELSE IF Len(p.items) <= p.start + PageSize THEN p
    ELSE LET start == p.start + PageSize
         IN [VramClean(p) EXCEPT !.start = start,
                              !.selected = IF start + Column(p) < Len(p.items)
                                           THEN start + Column(p) ELSE start]

------------------------------------------------------------------------------
(* CreateThumbnail                                                           *)

\* TbnCacheLoad takes a thumbnail made of a picture of the size listed.
Cached_Mutant(item, tbns) == item.name \in DOMAIN tbns
Cached(item, tbns) == item.name \in DOMAIN tbns /\ tbns[item.name].size = item.size

\* What the item shows; without room in video memory, the error image.
Thumbnail(item, tbns, room) ==
    IF item.isDir THEN [kind |-> "dir", of |-> 0]
    ELSE IF Cached(item, tbns) /\ room THEN [kind |-> "own", of |-> tbns[item.name].of]
    ELSE IF sizes[item.name] = 0 \/ ~room THEN [kind |-> "error", of |-> 0]
    ELSE [kind |-> "own", of |-> sizes[item.name]]

\* TbnCacheSave
Decoded(items, tbns, room) ==
    {item \in items : ~item.isDir /\ ~(room /\ Cached(item, tbns)) /\ sizes[item.name] # 0}
Saved(tbns, items) ==
    [n \in DOMAIN tbns \cup {item.name : item \in items} |->
        IF \E item \in items : item.name = n
        THEN [size |-> (CHOOSE item \in items : item.name = n).size, of |-> sizes[n]] ELSE tbns[n]]

\* GUI_Ctrl_ThumbnailPanel_Draw asks for the thumbnails it has not got.
Drawn(p, room) ==
    LET new == {i \in Page(p) : p.tex[i].kind = "none"}
        q == [p EXCEPT !.tex = [i \in DOMAIN p.tex |->
                                   IF i \in new THEN Thumbnail(p.items[i], cache, room) ELSE @[i]]]
    IN [q EXCEPT !.live = @ + Own(q, new)]
Draw(p) ==
    \E room \in BOOLEAN :
        LET decoded == Decoded({p.items[i] : i \in {j \in Page(p) : p.tex[j].kind = "none"}},
                               cache, room)
        IN /\ panel' = Drawn(p, room)
           /\ cache' = Saved(cache, decoded)
           /\ raced' = raced \cup {item.name : item \in {i \in decoded : i.size # sizes[i.name]}}

------------------------------------------------------------------------------
(* GUI_M_MyPictures.c                                                        *)

\* SortPanelByName
ByName(pictures) == SetToSortSeq(pictures, LAMBDA a, b : Pictures[a.name] < Pictures[b.name])

\* The picture a device holds may be replaced: over FTP, by the file manager.
Contents(path) ==
    IF Len(path) = 1
    THEN <<Folder(".."), Folder("sub")>>
           \o ByName({[name |-> n, isDir |-> FALSE, size |-> sizes[n]] : n \in DOMAIN sizes})
    ELSE <<Folder("..")>>

\* MyPictures_Init, and SetBrowseDir; a directory that cannot be read has
\* nothing, not even a way back.
MyPictures_Init == /\ dir' = <<>> /\ Draw(Refilled(panel, <<Folder("device")>>))
SetBrowseDir(path) ==
    /\ dir' = path
    /\ \/ Draw(Refilled(panel, Contents(path)))
       \/ Draw(Refilled(panel, <<>>))

Init ==
    /\ grid \in Grids
    /\ window = "away" /\ dir = <<>> /\ panel = Fresh /\ image = FALSE
    /\ sizes = Pictures /\ cache = <<>> /\ raced = {} /\ crashed = FALSE

Open ==
    /\ window = "away" /\ window' = "pictures"
    /\ IF dir = <<>> THEN MyPictures_Init ELSE Draw(panel) /\ UNCHANGED dir
    /\ UNCHANGED <<grid, image, sizes, crashed>>

\* GUI_MSG_CLOSE: GUI_Ctrl_ThumbnailPanel_VramClean
GoBack ==
    /\ window = "pictures" /\ window' = "away"
    /\ panel' = VramClean(panel)
    /\ UNCHANGED <<grid, dir, image, sizes, cache, raced, crashed>>

\* Only while the window is closed: the panel is made anew.
NewSkin ==
    /\ window = "away" /\ panel' = [Fresh EXCEPT !.live = panel.live]
    /\ UNCHANGED <<grid, window, dir, image, sizes, cache, raced, crashed>>

Move ==
    /\ window = "pictures"
    /\ \E q \in {Left(panel), Right(panel), Up(panel), Down(panel)} : Draw(q)
    /\ UNCHANGED <<grid, window, dir, image, sizes, crashed>>

\* SortPanelBySize: directories first, and qsort leaves the order
\* of equals open.
BySize(pictures) == SetToSortSeq(pictures, LAMBDA a, b : a.size < b.size)
Sorted(items, key) ==
    LET folders == {item \in items : item.isDir}
    IN IF key = "name"
       THEN {SetToSortSeq(folders, LAMBDA a, b : a.name = "..") \o ByName(items \ folders)}
       ELSE {f \o BySize(items \ folders) : f \in SetToSeqs(folders)}
Sort(key) ==
    /\ window = "pictures" /\ panel.items # <<>>
    /\ \E items \in Sorted(ToSet(panel.items), key) : Draw(Refilled(panel, items))
    /\ UNCHANGED <<grid, window, dir, image, sizes, crashed>>

\* GUI_CB_DlgThumb makes the thumbnails of the whole directory for the cache.
CacheAll ==
    /\ window = "pictures"
    /\ LET decoded == Decoded(ToSet(panel.items), cache, TRUE)
       IN /\ cache' = Saved(cache, decoded)
          /\ raced' = raced \cup {item.name : item \in {i \in decoded : i.size # sizes[i.name]}}
    /\ UNCHANGED <<grid, window, dir, panel, image, sizes, crashed>>

Selected == panel.items[panel.selected + 1]

Enter ==
    /\ window = "pictures" /\ panel.selected < Len(panel.items) /\ Selected.isDir
    /\ IF Selected.name # ".." THEN SetBrowseDir(Append(dir, Selected.name))
       ELSE IF Len(dir) = 1 THEN MyPictures_Init ELSE SetBrowseDir(Front(dir))
    /\ UNCHANGED <<grid, window, image, sizes, crashed>>

\* GUI_OpenViewMenu: the panel's textures go before LoadImage needs room; without
\* a picture, GUI_View_Render follows NULL.
View ==
    /\ window = "pictures" /\ panel.selected < Len(panel.items) /\ ~Selected.isDir
    /\ panel.tex[panel.selected + 1].kind # "error"
    /\ window' = "view" /\ panel' = VramClean(panel)
    /\ \E loaded \in {FALSE, sizes[Selected.name] # 0} :
          image' = loaded /\ crashed' = ~loaded
    /\ UNCHANGED <<grid, dir, sizes, cache, raced>>

CloseView ==
    /\ window = "view" /\ ~crashed
    /\ image' = FALSE /\ window' = "pictures"
    /\ IF dir = <<>> THEN MyPictures_Init ELSE Draw(panel) /\ UNCHANGED dir
    /\ UNCHANGED <<grid, sizes, crashed>>

\* CROSS in an empty panel
FollowNothing ==
    /\ window = "pictures" /\ panel.items = <<>> /\ crashed' = TRUE
    /\ window' = "view"
    /\ UNCHANGED <<grid, dir, panel, image, sizes, cache, raced>>

Replace(size) ==
    /\ ~crashed /\ sizes' = [sizes EXCEPT ![Changing] = size]
    /\ UNCHANGED <<grid, window, dir, panel, image, cache, raced, crashed>>

Next ==
    \/ Open \/ GoBack \/ NewSkin \/ Move \/ CacheAll
    \/ \E key \in {"name", "size"} : Sort(key)
    \/ Enter \/ View \/ CloseView \/ FollowNothing
    \/ \E size \in NewSizes : Replace(size)

Spec == Init /\ [][Next]_picVars

------------------------------------------------------------------------------
TypeOK ==
    /\ window \in {"pictures", "view", "away"} /\ {image, crashed} \subseteq BOOLEAN
    /\ panel.live \in Nat /\ DOMAIN panel.tex = DOMAIN panel.items
    /\ raced \subseteq DOMAIN Pictures

(* Video memory holds the thumbnails of the page shown, each once, and none   *)
(* while the window is closed or a picture is viewed (NEED_INFO and REMOVE    *)
(* when the panel scrolls, is sorted, refilled or closed).                    *)
VideoMemoryBalanced ==
    /\ panel.live = Own(panel, DOMAIN panel.items)
    /\ \A i \in DOMAIN panel.items : (panel.tex[i].kind # "none") = (i \in Page(panel) /\ window = "pictures")
    /\ image => window = "view"

(* An item is selected; on a panel with as many rows as columns, one that can *)
(* be seen (GUI_Ctrl_ThumbnailPanel_Input).                                   *)
SelectionSeen ==
    panel.items # <<>> /\ window # "away" =>
        /\ panel.selected < Len(panel.items)
        /\ grid[1] = grid[2] => panel.selected + 1 \in Page(panel)

(* A thumbnail shows the picture it was asked for, as it was when listed, if  *)
(* no thumbnail of it was made after the picture had been replaced            *)
(* (TbnCacheLoad).                                                            *)
ThumbnailsTrue ==
    \A i \in DOMAIN panel.items :
        panel.tex[i].kind = "own" /\ panel.items[i].name \notin raced
        => panel.tex[i].of = panel.items[i].size

PicturesRight == VideoMemoryBalanced /\ SelectionSeen /\ ThumbnailsTrue
=============================================================================

-------------------------------- MODULE Menus -------------------------------
(***************************************************************************)
(* The windows of the user interface and the dialogs that cover them       *)
(* (GUI_OpenMenu, GUI_OpenDialog and GUI_CloseDialog of src/src/GUI.c): a  *)
(* window's pictures and fonts are in video memory while it is on the      *)
(* screen, and a dialog returns its answer to the window that asked, with  *)
(* the number it was asked under.  The tables are what the callbacks of    *)
(* the windows (src/src/GUI_M_*.c) do with a button or an answer.          *)
(***************************************************************************)
EXTENDS Naturals, FiniteSets

VARIABLES
    gui,    \* active (pActiveMenu), parent and id of the dialogs, and held: how
            \* often a window's graphics are in video memory
    hdd,    \* HDD_Available()
    asked,  \* what the dialog on the screen was opened for
    last    \* the last answer: what for, whether it was yes, what it did

menuVars == <<gui, hdd, asked, last>>

None == "none"
Windows == {"MAIN", "MYPICTURES", "MYPROGRAMS", "MYFILES", "MYMUSIC", "RADIO", "VIEW",
            "SETTINGS", "NETWORK", "SAMBA", "PARTITIONS", "SKINS", "LANGUAGE"}
Dialogs == {"YESNO", "KEYBOARD", "MSGBOX", "COPYDLG", "DLGTHUMB", "PARTITION1", "PARTITION2"}
MsgBoxID == 65535       \* the low word of 0xFFFFFFFF

\* The windows a button of this one opens.
Leads ==
    [MAIN |-> {"MYPICTURES", "MYPROGRAMS", "MYFILES", "MYMUSIC", "SETTINGS"},
     MYPICTURES |-> {"MAIN", "VIEW"}, VIEW |-> {"MYPICTURES"}, MYPROGRAMS |-> {"MAIN"},
     MYFILES |-> {"MAIN"}, MYMUSIC |-> {"MAIN", "RADIO"}, RADIO |-> {"MYMUSIC"},
     SETTINGS |-> {"MAIN", "NETWORK", "PARTITIONS", "SKINS", "LANGUAGE", "SETTINGS"},
     NETWORK |-> {"SAMBA", "SETTINGS"}, SAMBA |-> {"NETWORK"},
     PARTITIONS |-> {"SETTINGS"}, SKINS |-> {"SETTINGS"}, LANGUAGE |-> {"SETTINGS"}]

Q(dialog, id, what) == [dialog |-> dialog, id |-> id, what |-> what]
Message == Q("MSGBOX", MsgBoxID, "go on")
NetworkKeys == <<"net_ip", "net_netmask", "net_gateway", "net_dns", "ftp_port", "ftp_login",
                 "ftp_password">>
SambaKeys == <<"net_smb_workgroup", "net_smb_wins">>
SettingsKeys == <<"scr_path", "tbn_cache_path">>
Keys(keys) == {Q("KEYBOARD", i - 1, keys[i]) : i \in DOMAIN keys}

\* The dialogs a button opens, with their numbers and what for.
Questions(window) ==
    CASE window = "MAIN" -> {Q("YESNO", 0, "turn off")}
      [] window = "MYFILES" -> {Q("KEYBOARD", 1, "new folder"), Q("YESNO", 0, "delete"), Message,
                                Q("KEYBOARD", 2, "rename"), Q("COPYDLG", 3, "show the copies")}
      [] window = "MYPICTURES" -> {Q("DLGTHUMB", 0, "go on")}
      [] window = "NETWORK" -> Keys(NetworkKeys)
      [] window = "SAMBA" -> Keys(SambaKeys)
      [] window = "SETTINGS" -> Keys(SettingsKeys) \cup {Message}
      [] window = "SKINS" -> {Q("YESNO", 0, "skin")}
      [] window = "LANGUAGE" -> {Q("YESNO", 0, "language")}
      [] window \in {"MYPROGRAMS", "RADIO", "PARTITIONS"} -> {Message}
      [] OTHER -> {}

\* The codes a dialog's buttons return: DLG_RET_YES is DLG_RET_CANCEL.
Yes(dialog) == IF dialog \in {"YESNO", "PARTITION1"} THEN 1 ELSE 0
No(dialog) == IF dialog \in {"MSGBOX", "COPYDLG", "DLGTHUMB"} THEN 0 ELSE 1 - Yes(dialog)

\* What the window does in GUI_MSG_DIALOG.
KeyOf(keys, id, code) == IF code = 0 /\ id + 1 \in DOMAIN keys THEN keys[id + 1] ELSE "go on"
Effect_Mutant(window, id, code) ==
    CASE window = "MYFILES" /\ id \in {0, 1} -> IF code = 1 THEN "delete" ELSE "new folder"
      [] OTHER -> "go on"
Effect(window, id, code) ==
    CASE window = "MAIN" /\ id = 0 /\ code = 1 -> "turn off"
      [] window = "MAIN" /\ id = 1 /\ code = 1 -> "ask for a size"
      [] window = "MAIN" /\ id = 2 /\ code = 0 -> "tell the outcome"
      [] window = "MYFILES" /\ id = 0 /\ code = 1 -> "delete"
      [] window = "MYFILES" /\ id = 1 /\ code = 0 -> "new folder"
      [] window = "MYFILES" /\ id = 2 /\ code = 0 -> "rename"
      [] window = "MYFILES" /\ id = 3 -> "show the copies"
      [] window = "NETWORK" -> KeyOf(NetworkKeys, id, code)
      [] window = "SAMBA" -> KeyOf(SambaKeys, id, code)
      [] window = "SETTINGS" -> KeyOf(SettingsKeys, id, code)
      [] window = "SKINS" /\ id = 0 /\ code = 1 -> "skin"
      [] window = "LANGUAGE" /\ id = 0 /\ code = 1 -> "language"
      [] OTHER -> "go on"

------------------------------------------------------------------------------
Upload(g, w) == [g EXCEPT !.active = w, !.held[w] = @ + 1]
Free(g, w) == [g EXCEPT !.held[w] = @ - 1]
OpenMenu(g, w) == Upload(IF g.active = None THEN g ELSE Free(g, g.active), w)

\* The parent keeps its graphics: it is not closed.
OpenDialog_Mutant(g, dialog, id) ==
    OpenMenu([g EXCEPT !.parent[dialog] = g.active, !.id[dialog] = id], dialog)
OpenDialog(g, dialog, id) ==
    OpenMenu([g EXCEPT !.parent[dialog] = g.active, !.id[dialog] = id, !.active = None], dialog)

\* GUI_FreeSkin empties the windows' lists; GUI_LoadSkin fills them again.
FreeSkin(g) == [Free(g, g.active) EXCEPT !.active = None]

React(g, effect) ==
    CASE effect = "ask for a size" -> OpenDialog(g, "PARTITION2", 2)
      [] effect = "tell the outcome" -> OpenDialog(g, "MSGBOX", MsgBoxID)
      [] effect = "skin" -> OpenMenu(FreeSkin(g), "SKINS")
      [] effect = "language" -> OpenMenu(FreeSkin(g), "LANGUAGE")
      [] OTHER -> g

\* The callback may have opened another dialog by the time the fields are reset.
CloseDialog(g, dialog, effect) ==
    LET window == g.parent[dialog]
        answered == React([Free(g, dialog) EXCEPT !.active = window], effect)
    IN [answered EXCEPT !.parent[dialog] = None, !.id[dialog] = 0]

------------------------------------------------------------------------------
Init ==
    /\ hdd = "no partition" /\ asked = None
    /\ last = [what |-> "go on", agreed |-> TRUE, did |-> "go on"]
    /\ gui = [active |-> None, parent |-> [d \in Dialogs |-> None], id |-> [d \in Dialogs |-> 0],
              held |-> [w \in Windows \cup Dialogs |-> 0]]

\* GUI_Init, and what the main window asks when it opens for the first time.
Start(status) ==
    /\ gui.active = None
    /\ hdd' = status
    /\ LET shown == OpenMenu(gui, "MAIN") IN
          IF status = "no partition"
          THEN gui' = OpenDialog(shown, "PARTITION1", 1) /\ asked' = "ask for a size"
          ELSE gui' = shown /\ asked' = None
    /\ UNCHANGED last

\* The main window's other openings ask nothing: bInit is set.
Go(window) ==
    /\ gui.active \in Windows /\ window \in Leads[gui.active]
    /\ gui' = OpenMenu(gui, window)
    /\ UNCHANGED <<hdd, asked, last>>

Ask(q) ==
    /\ gui.active \in Windows
    /\ gui' = OpenDialog(gui, q.dialog, q.id)
    /\ asked' = q.what
    /\ UNCHANGED <<hdd, last>>

Answer(agreed) ==
    /\ gui.active \in Dialogs
    /\ LET dialog == gui.active
           effect == Effect(gui.parent[dialog], gui.id[dialog],
                            IF agreed THEN Yes(dialog) ELSE No(dialog))
       IN /\ gui' = CloseDialog(gui, dialog, effect)
          /\ last' = [what |-> asked, agreed |-> agreed, did |-> effect]
          /\ asked' = CASE effect = "ask for a size" -> "tell the outcome"
                        [] effect = "tell the outcome" -> "go on"
                        [] OTHER -> None
          /\ hdd' \in {hdd} \cup (IF effect = "tell the outcome" THEN {"partition"} ELSE {})

Next ==
    \/ \E status \in {"none", "no partition", "partition"} : Start(status)
    \/ \E window \in Windows : Go(window)
    \/ \E q \in Questions(gui.active) : Ask(q)
    \/ \E agreed \in BOOLEAN : Answer(agreed)

Spec == Init /\ [][Next]_menuVars

------------------------------------------------------------------------------
TypeOK ==
    /\ gui.active \in Windows \cup Dialogs \cup {None}
    /\ gui.parent \in [Dialogs -> Windows \cup {None}]

OnScreen ==
    IF gui.active \in Dialogs THEN {gui.active, gui.parent[gui.active]} ELSE {gui.active} \ {None}

(* The pictures and fonts of the windows on the screen, a dialog's and those *)
(* of the window below it, are in video memory once, and those of no other   *)
(* window (GUI_OpenMenu, GUI_CloseDialog, GUI_FreeSkin); a dialog that can   *)
(* be answered has a window to tell.                                         *)
GraphicsHeld ==
    /\ \A w \in Windows \cup Dialogs : gui.held[w] = IF w \in OnScreen THEN 1 ELSE 0
    /\ gui.active \in Dialogs => gui.parent[gui.active] \in Windows

(* An answer is taken for the question the user was asked, and for no other: *)
(* the numbers and codes are those of the window that asked, though they     *)
(* mean something else in another window or of another dialog.               *)
AnswersMeant ==
    /\ last.did \in {last.what, "go on"}
    /\ last.agreed => last.did = last.what

WindowsRight == GraphicsHeld /\ AnswersMeant
=============================================================================

------------------------------- MODULE Input --------------------------------
(***************************************************************************)
(* The gamepad and the control that has the focus: the loop of the user    *)
(* interface's thread (GUI_Run, GUI_Input of src/src/GUI.c), press mode    *)
(* (src/src/gamepad.c), the slider, the combo and the toggle button        *)
(* (src/src/GUI_Ctrl_*.c), as the windows of music and of pictures use     *)
(* them (src/src/GUI_M_MyMusic.c, GUI_M_View.c).  The other windows and    *)
(* what lies in lists and panels are in Menus, Rows and Pictures.          *)
(***************************************************************************)
EXTENDS Integers, FiniteSets

CONSTANTS
    Cases,      \* a skin (window -> control -> its type, its neighbours, whether it can
                \* be used), the first focus of each window, the sets of buttons a poll
                \* can find held, and the longest playing time
    MaxPos, Step,       \* the slider's: 0x3FFF and 0x3FF in the code
    MaxZoom, MaxOffset, \* fZoomStep and fOffsetX, fOffsetY, in steps from the middle
    FitsUpTo    \* the zooms at which the picture fits the screen, across and down

VARIABLES
    case,       \* the case that runs
    pc,         \* where GUI_Run is
    pad,        \* btns, old (nPadBtns, nPadBtnsOld) and mode (GP_PressMode)
    window,     \* GUI.pActiveMenu
    focus,      \* iSelID of each window
    slider,     \* its position
    delaying,   \* whether the slider has started nDelayTimer
    combo,      \* nSelectedItem, and the filter of the list of files
    toggle,     \* the state of the toggle button
    view,       \* zoom, x and y (fOffsetX, fOffsetY)
    player,     \* what MP3_Get* return: time, playing, volume, looping
    screen      \* what was drawn last: time and playing; and nPlayTime

inputVars == <<case, pc, pad, window, focus, slider, delaying, combo, toggle, view, player, screen>>

None == "none"
Bits == [DOWN |-> 64, LEFT |-> 128, UP |-> 16, RIGHT |-> 32, CROSS |-> 16384,
         TRIANGLE |-> 4096, L1 |-> 1024, R1 |-> 2048]
Mask(buttons) ==
    LET bit(b) == IF b \in buttons THEN Bits[b] ELSE 0
    IN  bit("DOWN") + bit("LEFT") + bit("UP") + bit("RIGHT") + bit("CROSS") + bit("TRIANGLE")
        + bit("L1") + bit("R1")
Pressed(b) == b \in pad.btns
Skin == case.skin
Controls == Skin[window]
Focused == Controls[focus[window]]

\* Whether the loop gives the buttons to GUI_Input: the masks are compared as numbers.
Heeds_Mutant(p) == Mask(p.btns) >= Mask(p.old) /\ p.btns # {}
Heeds(p) == IF p.mode = 1 THEN p.btns # {} ELSE Mask(p.btns) > Mask(p.old)

------------------------------------------------------------------------------
Init ==
    /\ pc = "top" /\ window = "MAIN" /\ case \in Cases /\ focus = case.focus
    /\ pad = [btns |-> {}, old |-> {}, mode |-> 0]
    /\ slider = 0 /\ delaying = FALSE
    /\ combo = [cur |-> 0, filter |-> None] /\ toggle = FALSE
    /\ view = [zoom |-> 0, x |-> 0, y |-> 0]
    /\ player = [time |-> 0, playing |-> FALSE, volume |-> MaxPos, looping |-> FALSE]
    /\ screen = [time |-> 0, playing |-> FALSE, polled |-> 0]

\* GUI_Render and GUI_UpdateSpecialCtrls: the labels are hidden when nothing plays.
Rendered(s) ==
    [s EXCEPT !.playing = player.playing, !.time = IF player.playing THEN player.time ELSE @]
Draw == screen' = Rendered(screen)

\* The top of the loop: draw when the playing time changed, and once a minute.
RenderTimes ==
    /\ pc = "top" /\ pc' = "input"
    /\ \E minute \in BOOLEAN :
          screen' = IF screen.polled # player.time \/ minute
                    THEN [Rendered(screen) EXCEPT !.polled = player.time]
                    ELSE screen
    /\ UNCHANGED <<pad, window, focus, slider, delaying, combo, toggle, view, player>>

\* Scheduler_YieldThread, when there is nothing new.
NothingPressed ==
    /\ pc = "input" /\ pc' = "poll" /\ ~Heeds(pad)
    /\ UNCHANGED <<pad, window, focus, slider, delaying, combo, toggle, view, player, screen>>

\* GP_GetButtons: padRead that fails leaves the buttons of the poll before.  The
\* player's thread runs meanwhile; a round takes far less than a second.
Poll ==
    /\ pc = "poll" /\ pc' = "top"
    /\ \E found \in case.presses \cup {pad.btns} : pad' = [pad EXCEPT !.old = pad.btns, !.btns = found]
    /\ \E time \in 0..case.maxTime, playing \in BOOLEAN :
          /\ playing \/ time = 0
          /\ player' = [player EXCEPT !.time = time, !.playing = playing]
    /\ UNCHANGED <<window, focus, slider, delaying, combo, toggle, view, screen>>

------------------------------------------------------------------------------
Acts == pc = "input" /\ pc' = "poll" /\ Heeds(pad)

\* GUI_OpenMenu: the window that closes and the one that opens set the press mode.
Opens(w, mode) ==
    /\ window' = w /\ Draw
    /\ pad' = [pad EXCEPT !.mode = IF w = "VIEW" THEN 1 ELSE IF window = "VIEW" THEN 0 ELSE mode]
    /\ slider' = IF w = "MYMUSIC" THEN player.volume ELSE slider
    /\ view' = IF w = "VIEW" THEN [zoom |-> 0, x |-> 0, y |-> 0] ELSE view
    /\ UNCHANGED <<focus, combo, toggle, player>>

\* GUI_View_Input has every button of the window that shows a picture.
Zoomed == IF Pressed("R1") THEN (IF view.zoom < MaxZoom THEN view.zoom + 1 ELSE view.zoom)
          ELSE IF view.zoom > 0 THEN view.zoom - 1 ELSE view.zoom
Shifted(offset, more) ==
    IF more THEN (IF offset < MaxOffset THEN offset + 1 ELSE offset)
    ELSE IF offset > -MaxOffset THEN offset - 1 ELSE offset
ViewInput ==
    /\ Acts /\ window = "VIEW" /\ UNCHANGED delaying
    /\ IF Pressed("TRIANGLE") THEN Opens("MYPICTURES", pad.mode)
       ELSE /\ view' =
                 CASE Pressed("R1") \/ Pressed("L1") -> [view EXCEPT !.zoom = Zoomed]
                   [] (Pressed("LEFT") \/ Pressed("RIGHT")) /\ ~(Pressed("R1") \/ Pressed("L1")) ->
                        IF view.zoom > FitsUpTo[1]
                        THEN [view EXCEPT !.x = Shifted(@, Pressed("LEFT"))] ELSE view
                   [] OTHER ->
                        IF view.zoom > FitsUpTo[2] /\ (Pressed("DOWN") \/ Pressed("UP"))
                        THEN [view EXCEPT !.y = Shifted(@, ~Pressed("DOWN"))] ELSE view
            /\ screen' = IF view' # view THEN Rendered(screen) ELSE screen
            /\ UNCHANGED <<pad, window, focus, slider, combo, toggle, player>>

\* GUI_Ctrl_Slider_Input: idle, no input came for 250 msecs; waiting, nDelayTimer
\* lies ahead.  What it leaves to GUI_Input has turned press mode on.
ModeAfter(idle) == IF idle THEN 0 ELSE pad.mode
JumpsTo == IF Pressed("L1") THEN 0 ELSE IF Pressed("R1") THEN MaxPos ELSE slider
HeldBack(idle, waiting) == waiting /\ delaying /\ ModeAfter(idle) = 1
Stepped_Mutant == IF Pressed("RIGHT") THEN slider + Step ELSE slider - Step
Stepped ==
    IF Pressed("RIGHT") THEN (IF slider + Step > MaxPos THEN MaxPos ELSE slider + Step)
    ELSE IF slider < Step THEN 0 ELSE slider - Step

\* GUI_Ctrl_Slider_SetPos, and the window's callback when the position moved.
SetPos(pos, mode) ==
    /\ slider' = pos
    /\ player' = [player EXCEPT !.volume = pos]
    /\ pad' = [pad EXCEPT !.mode = mode]
    /\ screen' = IF pos # slider THEN Rendered(screen) ELSE screen
    /\ UNCHANGED <<window, focus, combo, toggle, view>>

Filters == << "MP3 M3U", "MP3", "M3U" >>

\* GUI_Ctrl_Combo_Input and GUI_Ctrl_ToggleButton_Input, with the callbacks they call.
ComboNext ==
    /\ LET cur == (combo.cur + 1) % 3 IN combo' = [cur |-> cur, filter |-> Filters[cur + 1]]
    /\ Draw
    /\ UNCHANGED <<pad, window, focus, slider, toggle, view, player>>

Toggle ==
    /\ toggle' = ~toggle
    /\ player' = [player EXCEPT !.looping = toggle']
    /\ Draw
    /\ UNCHANGED <<pad, window, focus, slider, combo, view>>

\* The thumbnail panel takes a direction when its cursor can move.
PanelMoves ==
    /\ Draw
    /\ UNCHANGED <<pad, window, focus, slider, combo, toggle, view, player>>

------------------------------------------------------------------------------
\* What no control took, in the order of GUI_Input.
Direction ==
    CASE Pressed("DOWN") -> "DOWN" [] Pressed("LEFT") -> "LEFT" [] Pressed("UP") -> "UP"
      [] Pressed("RIGHT") -> "RIGHT" [] OTHER -> None

\* Along the neighbours until one is visible and enabled.
NextUsable_Mutant(d) == Focused.to[d]
NextUsable(d) ==
    LET after[n \in 0..Cardinality(DOMAIN Controls)] ==
          IF n = 0 THEN Focused.to[d]
          ELSE IF after[n - 1] = None \/ Controls[after[n - 1]].usable THEN after[n - 1]
          ELSE Controls[after[n - 1]].to[d]
    IN after[Cardinality(DOMAIN Controls)]

MoveFocus(mode) ==
    /\ Direction # None
    /\ LET control == NextUsable(Direction) IN
          IF control = None THEN pad' = [pad EXCEPT !.mode = mode] /\ UNCHANGED <<focus, screen>>
          ELSE /\ focus' = [focus EXCEPT ![window] = control]
               /\ pad' = [pad EXCEPT !.mode = 0]
               /\ Draw
    /\ UNCHANGED <<window, slider, combo, toggle, view, player>>

\* The window's callback: the buttons and controls that open another window.
Answer(control) ==
    CASE window = "MAIN" /\ control = "music" -> "MYMUSIC"
      [] window = "MAIN" /\ control = "pictures" -> "MYPICTURES"
      [] window # "MAIN" /\ control = "back" -> "MAIN"
      [] OTHER -> None
Callback(control, mode) ==
    IF Answer(control) # None THEN Opens(Answer(control), mode)
    ELSE /\ pad' = [pad EXCEPT !.mode = mode]
         /\ UNCHANGED <<window, focus, slider, combo, toggle, view, player, screen>>

Unhandled(mode) ==
    \/ MoveFocus(mode)
    \/ Direction = None /\ Pressed("CROSS") /\ Callback(focus[window], mode)
    \/ Direction = None /\ ~Pressed("CROSS") /\ Pressed("TRIANGLE") /\ Callback("back", mode)
    \/ /\ Direction = None /\ {"CROSS", "TRIANGLE"} \cap pad.btns = {}
       /\ pad' = [pad EXCEPT !.mode = mode]
       /\ UNCHANGED <<window, focus, slider, combo, toggle, view, player, screen>>

SliderInput ==
    /\ Acts /\ window # "VIEW" /\ Focused.type = "SLIDER"
    /\ \E idle, waiting \in BOOLEAN :
          \/ JumpsTo # slider /\ SetPos(JumpsTo, ModeAfter(idle)) /\ UNCHANGED delaying
          \/ /\ JumpsTo = slider /\ HeldBack(idle, waiting)
             /\ SetPos(slider, 1) /\ UNCHANGED delaying
          \/ /\ JumpsTo = slider /\ ~HeldBack(idle, waiting)
             /\ delaying' = (delaying \/ ModeAfter(idle) = 0)
             /\ IF {"RIGHT", "LEFT"} \cap pad.btns # {} THEN SetPos(Stepped, 1) ELSE Unhandled(1)

ControlInput ==
    /\ Acts /\ window # "VIEW" /\ Focused.type # "SLIDER" /\ UNCHANGED delaying
    /\ CASE Focused.type = "COMBO" /\ Pressed("CROSS") -> ComboNext
         [] Focused.type = "TOGGLEBUTTON" /\ Pressed("CROSS") -> Toggle
         [] Focused.type = "THUMBNAILPANEL" /\ Direction = None /\ Pressed("CROSS") ->
                Opens("VIEW", pad.mode)
         [] Focused.type = "THUMBNAILPANEL" /\ Direction # None ->
                PanelMoves \/ Unhandled(pad.mode)
         [] OTHER -> Unhandled(pad.mode)

Next ==
    /\ UNCHANGED case
    /\ RenderTimes \/ NothingPressed \/ Poll \/ ViewInput \/ SliderInput \/ ControlInput

Spec == Init /\ [][Next]_inputVars

------------------------------------------------------------------------------
TypeOK ==
    /\ pc \in {"top", "input", "poll"} /\ window \in DOMAIN Skin
    /\ pad.btns \subseteq DOMAIN Bits /\ pad.mode \in {0, 1}
    /\ view \in [zoom : 0..MaxZoom, x : -MaxOffset..MaxOffset, y : -MaxOffset..MaxOffset]

(* The focus is on a control that can be used (GUI_Input follows the         *)
(* neighbours), so that no window is left without a way on.                  *)
FocusUsable == \A w \in DOMAIN Skin : Skin[w][focus[w]].usable

(* The slider, the combo and the toggle button show what they set: the       *)
(* player's volume, the filter of the list of files, looping (GUI_CB_MyMusic).*)
(* Until the combo is touched it says both while no filter is set.           *)
ChoicesShown ==
    /\ window = "MYMUSIC" => slider = player.volume /\ slider \in 0..MaxPos
    /\ combo.filter \in {Filters[combo.cur + 1]} \cup (IF combo.cur = 0 THEN {None} ELSE {})
    /\ toggle = player.looping

(* Press mode is on only where buttons may repeat: in the picture's window,  *)
(* or after a slider had the buttons (it leaves press mode on).              *)
PressModeMeant == pad.mode = 1 => window = "VIEW" \/ delaying

InputRight == FocusUsable /\ ChoicesShown /\ PressModeMeant

(* Out of press mode a button that is held does nothing again, though        *)
(* others are let go, and one that is pressed while none is let go is never  *)
(* missed, though only the values of the masks are compared (GUI_Run).       *)
PressesHeeded ==
    [][/\ pc = "input" /\ pad.mode = 0 /\ pad.btns \subseteq pad.old
            => UNCHANGED <<window, focus, slider, combo, toggle, view>>
       /\ NothingPressed => pad.btns \subseteq pad.old \/ ~(pad.old \subseteq pad.btns)]_inputVars

(* The playing time on the screen is the player's whenever the loop goes     *)
(* round, if it shows one and there is one (GUI_Run compares the times only, *)
(* and not whether a track plays).                                           *)
TimeShown ==
    [][RenderTimes /\ screen'.playing /\ player.playing => screen'.time = player.time]_inputVars
=============================================================================

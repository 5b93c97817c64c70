---------------------------- MODULE UserInterface ---------------------------
(***************************************************************************)
(* What the user sees and presses: video memory and the packets that draw  *)
(* from it, the windows and dialogs, the keyboard, the gamepad and the     *)
(* controls.  MCShell lets each of them run beside the other components.   *)
(***************************************************************************)
EXTENDS Integers, Sequences, FiniteSets, SequencesExt, FiniteSetsExt

CONSTANTS
    MemSize, BlockSize, FrameSize, Sizes, Scratchpad, MaxTextures,  \* VideoMemory
    MaxLength,                                                      \* Keyboard
    Cases, MaxPos, SliderStep, MaxZoom, MaxOffset, FitsUpTo,        \* Input
    Pads, MaxPlugs                                                  \* Gamepad

VARIABLES
    vmBlocks, vmTextures, vmActive, vmShown, vmSpr, vmPacket, vmFlight, vmPixels,
    mnGui, mnHdd, mnAsked, mnLast,
    kbIsOpen, kbStr, kbCursor, kbShift, kbLabels, kbRet, kbCrashed,
    inCase, inPc, inPad, inWindow, inFocus, inSlider, inDelaying, inCombo,
    inToggle, inView, inPlayer, inScreen,
    gpPc, gpAfter, gpPad, gpState, gpRequest, gpSet, gpKept, gpPlugs

Video == INSTANCE VideoMemory WITH
    blocks <- vmBlocks, textures <- vmTextures, active <- vmActive, shown <- vmShown,
    spr <- vmSpr, packet <- vmPacket, flight <- vmFlight, pixels <- vmPixels
Menus == INSTANCE Menus WITH
    gui <- mnGui, hdd <- mnHdd, asked <- mnAsked, last <- mnLast
Keyboard == INSTANCE Keyboard WITH
    isOpen <- kbIsOpen, str <- kbStr, cursor <- kbCursor, shift <- kbShift,
    labels <- kbLabels, ret <- kbRet, crashed <- kbCrashed
Input == INSTANCE Input WITH
    Step <- SliderStep, case <- inCase, pc <- inPc, pad <- inPad, window <- inWindow,
    focus <- inFocus, slider <- inSlider, delaying <- inDelaying, combo <- inCombo,
    toggle <- inToggle, view <- inView, player <- inPlayer, screen <- inScreen
Gamepad == INSTANCE Gamepad WITH
    pc <- gpPc, after <- gpAfter, pad <- gpPad, state <- gpState,
    request <- gpRequest, set <- gpSet, kept <- gpKept, plugs <- gpPlugs

\* FramesFit: GSINIT allocates the two frames, and GSCORE a texture, from the memory of the GS.
VideoAssumption ==
    /\ BlockSize \in Nat \ {0} /\ MemSize \in Nat
    /\ FrameSize \in Nat \ {0} /\ Sizes \subseteq Nat \ {0}
    /\ Scratchpad \in Nat /\ Scratchpad >= 30
FramesFit == 2 * Video!RoundUp(FrameSize) <= MemSize /\ Video!RoundUp(FrameSize) < MemSize

\* Input: what the skin gives can be pressed.  Gamepad: a pad without modes is no DualShock.
InputAssumption ==
    /\ MaxPos \in Nat /\ SliderStep \in Nat
    /\ \A c \in Cases : c.presses \subseteq SUBSET DOMAIN Input!Bits /\ c.maxTime \in Nat
PadAssumption ==
    /\ "none" \notin DOMAIN Pads
    /\ \A p \in DOMAIN Pads : Pads[p].simple => ~Gamepad!DualShock(p)

ASSUME ConsoleAssumption == VideoAssumption /\ FramesFit /\ InputAssumption /\ PadAssumption

(* The windows on the screen have their graphics, and each answer belongs to *)
(* its question (Menus); the slider, the combo and the toggle button show    *)
(* what they set, and buttons repeat only where they may (Input); the pad    *)
(* the program goes on with is set up (Gamepad).                             *)
WindowsRight ==
    Menus!WindowsRight /\ Input!ChoicesShown /\ Input!PressModeMeant /\ Gamepad!PadSetUp

(* Video memory and DMA packets are not shared (VideoMemory).                *)
PicturesWhole == Video!PicturesWhole

(* The keyboard is a text field (Keyboard, TextField), a button is heeded    *)
(* once when it is pressed, and the time drawn is the player's (Input).      *)
KeysHeeded == Keyboard!IsATextField /\ Input!PressesHeeded /\ Input!TimeShown
=============================================================================

------------------------------ MODULE Gamepad -------------------------------
(***************************************************************************)
(* How the gamepad is set up when the program starts (GP_Init,             *)
(* initializePad of src/src/gamepad.c).                                    *)
(* The pad and the library that talks to it are external: a request is     *)
(* carried out some time after it was made, and one that is made while     *)
(* another is carried out is refused.                                      *)
(***************************************************************************)
EXTENDS Naturals, Sequences, SequencesExt

CONSTANTS
    Pads,       \* kinds of pads: [modes, extended, actuators, simple]
    MaxPlugs    \* bound: how often the pad is pulled out or plugged in

VARIABLES
    pc,         \* "wait" for the pad, or what is done when it is ready
    after,      \* what follows the wait
    pad,        \* the kind that is plugged in, or "none"
    state,      \* what padGetState says
    request,    \* what is carried out
    set,        \* what the pad was set to: a set of "dualshock", "locked", "engines"
    kept,       \* the pad is the one that was asked for its modes
    plugs

padVars == <<pc, after, pad, state, request, set, kept, plugs>>

Ready == state \in {"STABLE", "FINDCTP1"}
DualShock(p) == p # "none" /\ Contains(Pads[p].modes, "DUALSHOCK") /\ Pads[p].extended

\* padPortOpen may fail: the program sleeps.
Init ==
    /\ pc \in {"wait", "asleep"} /\ after = "modes" /\ request = "none" /\ set = {}
    /\ pad \in DOMAIN Pads \cup {"none"}
    /\ state = IF pad = "none" THEN "DISCONN" ELSE "FINDPAD"
    /\ kept = FALSE /\ plugs = 0

------------------------------------------------------------------------------
\* The library and the user.
PadFound ==
    /\ state = "FINDPAD"
    /\ state' = IF Pads[pad].simple THEN "FINDCTP1" ELSE "STABLE"
    /\ UNCHANGED <<pc, after, pad, request, set, kept, plugs>>

CarriedOut ==
    /\ state = "EXECCMD" /\ state' = "STABLE"
    /\ set' = set \cup IF request = "mode" THEN {"dualshock", "locked"} ELSE {"engines"}
    /\ request' = "none"
    /\ UNCHANGED <<pc, after, pad, kept, plugs>>

PullOut ==
    /\ pad # "none" /\ plugs < MaxPlugs
    /\ pad' = "none" /\ state' = "DISCONN" /\ request' = "none" /\ set' = {}
    /\ plugs' = plugs + 1 /\ kept' = FALSE
    /\ UNCHANGED <<pc, after>>

PlugIn ==
    /\ pad = "none" /\ plugs < MaxPlugs
    /\ pad' \in DOMAIN Pads /\ state' = "FINDPAD" /\ plugs' = plugs + 1
    /\ UNCHANGED <<pc, after, request, set, kept>>

Request(what) ==
    IF state = "STABLE" THEN state' = "EXECCMD" /\ request' = what ELSE UNCHANGED <<state, request>>

------------------------------------------------------------------------------
\* waitPadReady, which takes a pad that is still being looked at for ready.
WaitPadReady_Mutant == TRUE
WaitPadReady == Ready
Waited ==
    /\ pc = "wait" /\ WaitPadReady
    /\ pc' = after
    /\ kept' = (kept \/ after = "modes")
    /\ UNCHANGED <<after, pad, state, request, set, plugs>>

WaitThen(what) == pc' = "wait" /\ after' = what

\* initializePad
AskModes ==
    /\ pc = "modes"
    /\ IF DualShock(pad) THEN Request("mode") /\ WaitThen("actuators")
       ELSE pc' = "done" /\ UNCHANGED <<after, state, request>>
    /\ UNCHANGED <<pad, set, kept, plugs>>

\* padInfoAct: a pad that is not in the mode of a dual shock has none.
Actuators == IF pad # "none" /\ "dualshock" \in set THEN Pads[pad].actuators ELSE 0
AskActuators ==
    /\ pc = "actuators"
    /\ WaitThen(IF Actuators # 0 THEN "align" ELSE "done")
    /\ UNCHANGED <<pad, state, request, set, kept, plugs>>

SetActAlign ==
    /\ pc = "align" /\ Request("engines") /\ WaitThen("done")
    /\ UNCHANGED <<pad, set, kept, plugs>>

Next ==
    \/ PadFound \/ CarriedOut \/ PullOut \/ PlugIn
    \/ Waited \/ AskModes \/ AskActuators \/ SetActAlign

Spec == Init /\ [][Next]_padVars

------------------------------------------------------------------------------
TypeOK ==
    /\ pc \in {"wait", "modes", "actuators", "align", "done", "asleep"}
    /\ after \in {"modes", "actuators", "align", "done"} /\ pad \in DOMAIN Pads \cup {"none"}
    /\ state \in {"DISCONN", "FINDPAD", "FINDCTP1", "STABLE", "EXECCMD"}
    /\ set \subseteq {"dualshock", "locked", "engines"} /\ plugs \in 0..MaxPlugs

(* When the program goes on, a pad that was not pulled out since it was asked *)
(* is set up: a dual shock as such, locked, with its engines if it has any,   *)
(* and no other pad was asked for what it cannot do.  No request was lost by  *)
(* a library that was still busy with the one before (waitPadReady).          *)
Wanted(p) ==
    IF ~DualShock(p) THEN {}
    ELSE {"dualshock", "locked"} \cup IF Pads[p].actuators = 0 THEN {} ELSE {"engines"}
PadSetUp == pc = "done" /\ kept => set = Wanted(pad)
=============================================================================

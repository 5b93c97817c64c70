------------------------------ MODULE Settings ------------------------------
(***************************************************************************)
(* The settings (src/src/sysconf.c): a linked list of keys and values that *)
(* starts with the defaults, the windows that change it, and CONFIG.DAT,   *)
(* which is rewritten line by line and may be cut short by a full card or  *)
(* by the power switch.                                                    *)
(***************************************************************************)
EXTENDS Naturals, SequencesExt

CONSTANTS Defaults,     \* SC_DEFAULTS: a sequence of pairs
          Files         \* bound: what CONFIG.DAT may hold when the console starts

VARIABLES
    running,    \* the program has read its settings
    list,       \* listHead: a sequence of pairs
    file,       \* the lines of CONFIG.DAT that end in a line feed; NoFile
    offset,     \* what gsLib_set_offset was given last
    expected    \* what the next SC_LoadConfig should find, key by key

settingsVars == <<running, list, file, offset, expected>>

Default(k) == LET S == {i \in DOMAIN Defaults : Defaults[i].key = k}
              IN IF S = {} THEN "" ELSE Defaults[CHOOSE i \in S : TRUE].value
AdjustKey == "scr_adjust_x"     \* stands for scr_adjust_y too

Pair(k, v) == [key |-> k, value |-> v]
Comment == Pair("#", "")
NoFile == << Pair("no file", "") >>
KeysOf(l) == {l[i].key : i \in DOMAIN l}
AllKeys == KeysOf(Defaults) \cup {"unknown"}

\* The values a user can enter; blanks around one do not survive the file.
Values == {"1", "2", "2 ", ""}
Trimmed(v) == IF v = "2 " THEN "2" ELSE v

\* SC_GetValueForKey_Str and _Int: the first pair with the key.
HasKey(l, k) == k \in KeysOf(l)
GetValue(l, k) ==
    l[CHOOSE i \in DOMAIN l : l[i].key = k /\ \A j \in 1 .. (i - 1) : l[j].key # k].value

\* SC_SetValueForKey_Str and _Int
SetValue_Mutant(l, k, v) == Append(l, Pair(k, v))
SetValue(l, k, v) ==
    IF HasKey(l, k)
    THEN LET i == SelectInSeq(l, LAMBDA p : p.key = k) IN [l EXCEPT ![i].value = v]
    ELSE Append(l, Pair(k, v))

SetAll(l, pairs) == FoldLeft(LAMBDA acc, p : SetValue(acc, p.key, p.value), l, pairs)

\* SC_LoadConfig.  Comments are skipped, blanks around the value are dropped;
\* ReadBufLine does not deliver a last line that has no line feed.
IsPair(line) == line # Comment
Parsed(lines) ==
    LET Parse(line) == Pair(line.key, Trimmed(line.value))
        pairs == SelectSeq(lines, IsPair)
    IN [i \in DOMAIN pairs |-> Parse(pairs[i])]
LoadConfig(l, safeMode) ==
    LET defaults == SetAll(l, Defaults)
    IN IF safeMode \/ file = NoFile THEN defaults ELSE SetAll(defaults, Parsed(file))

\* SC_SaveConfig: empty values are left out.
Lines(l) == SelectSeq(l, LAMBDA p : p.value # "")

\* What a file promises: the value of its last line for the key, or the default.
Promise(lines) ==
    [k \in AllKeys |->
        LET mine == SelectSeq(lines, LAMBDA line : IsPair(line) /\ line.key = k)
        IN IF mine = <<>> THEN Default(k) ELSE Trimmed(Last(mine).value)]

Init ==
    /\ running = FALSE /\ list = <<>> /\ offset = "0"
    /\ file \in Files
    /\ expected = Promise(IF file = NoFile THEN <<>> ELSE file)

\* main: the settings are read again after the devices were set up.  With
\* enough shoulder buttons held down the file is not read.
Boot ==
    /\ ~running /\ running' = TRUE
    /\ \E safeMode \in BOOLEAN : list' = LoadConfig(<<>>, safeMode)
    /\ offset' = GetValue(list', AdjustKey)     \* GUI_Init
    /\ UNCHANGED <<file, expected>>

\* A slider, a toggle button, a list or the answer of a dialog.
Change(k, v) ==
    /\ running /\ k \in KeysOf(Defaults)
    /\ list' = SetValue(list, k, v)
    /\ offset' = IF k = AdjustKey THEN GetValue(list', k) ELSE offset
    /\ UNCHANGED <<running, file, expected>>

\* SC_SaveConfig ignores what FileWrite returns: with n lines written it
\* reports success all the same, and part of the next line may follow them.
Save ==
    /\ running
    /\ \E n \in 0 .. Len(Lines(list)) :
          /\ file' = SubSeq(Lines(list), 1, n)
          /\ expected' = [k \in AllKeys |->
                IF \E i \in 1 .. n : Lines(list)[i].key = k
                THEN Trimmed(GetValue(list, k)) ELSE Default(k)]
          /\ running' \in (IF n = Len(Lines(list)) THEN {TRUE} ELSE BOOLEAN)
          /\ list' = IF running' THEN list ELSE <<>>
    /\ UNCHANGED offset

\* LoadSettings: SC_Clean, SC_LoadConfig, gsLib_set_offset
Load_Mutant ==
    /\ running
    /\ list' = LoadConfig(<<>>, FALSE)
    /\ UNCHANGED <<running, file, offset, expected>>
Load ==
    /\ running
    /\ list' = LoadConfig(<<>>, FALSE)
    /\ offset' = GetValue(list', AdjustKey)
    /\ UNCHANGED <<running, file, expected>>

\* The console is switched off.
PowerOff ==
    /\ running /\ running' = FALSE
    /\ list' = <<>>                             \* SC_Clean, if that
    /\ UNCHANGED <<file, offset, expected>>

Next ==
    \/ Boot \/ Save \/ Load \/ PowerOff
    \/ \E k \in AllKeys, v \in Values : Change(k, v)

Spec == Init /\ [][Next]_settingsVars

------------------------------------------------------------------------------
TypeOK ==
    /\ running \in BOOLEAN /\ offset \in Values \cup {"0"}
    /\ expected \in [AllKeys -> STRING]
    /\ \A i \in DOMAIN list : list[i].key \in AllKeys /\ list[i].value \in STRING

Found(l) == [k \in AllKeys |-> IF HasKey(l, k) THEN GetValue(l, k) ELSE ""]

(* After a load every key has the value it had when the settings were saved, *)
(* and the default if its line was lost with the end of the file or its      *)
(* value was empty; in safe mode, the defaults.  The screen is where the     *)
(* settings say (SC_LoadConfig, SC_SaveConfig, SC_SetValueForKey_Str).       *)
SettingsComeBack ==
    [][/\ Load => Found(list') = expected
       /\ Boot => Found(list') \in {expected, [k \in AllKeys |-> Default(k)]}
       /\ running' => offset' = GetValue(list', AdjustKey)]_settingsVars
=============================================================================

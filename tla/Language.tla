------------------------------ MODULE Language ------------------------------
(***************************************************************************)
(* The strings of the user interface, the character set and the time zone: *)
(* the table of strings (GUI_LoadLangTable, GUI_FreeLangTable,             *)
(* GUI_GetLangStr of src/src/GUI.c), the window that changes them          *)
(* (src/src/GUI_M_Language.c) and what they change in the converter        *)
(* (src/src/charset.c) and in the clock (src/lib/libps2time).  And a text  *)
(* drawn into a control: its conversion, the loop that shortens it until   *)
(* it fits and the place it gets (GUI_Ctrl_*_Draw), and the font that      *)
(* prints it (src/lib/gsLib/gsFont.c).  There a character is its name;     *)
(* widths, positions and sizes are unsigned, modulo Word in place of 2^32. *)
(***************************************************************************)
EXTENDS Integers, Sequences, SequencesExt, FiniteSetsExt

CONSTANTS
    Strings,    \* each file of the directory of languages: the elements [id, value]
                \* of its strings, or Unreadable
    Ids,        \* the numbers of strings the program asks for
    Charsets,   \* the tables of character sets and of time zones, the combos' items
    Zones,
    Saved,      \* the settings a configuration can hold: [file, charset, zone, dst]
    Word,       \* one more than the largest unsigned number
    WidthOf,    \* how wide the font draws each character
    Wide,       \* characters of several bytes in UTF-8; Foreign, not in the charset
    Foreign,
    Lines,      \* the texts, and the controls they are drawn into
    Boxes

VARIABLES
    settings,   \* lang_file, lang_charset, time_timezone, time_dst
    table,      \* GUI.LangTable
    converter,  \* the character set iconvHandle was opened for, or Closed
    clock,      \* the time zone of libps2time, in minutes
    window,     \* whether the window is closed, open or asks for a confirmation
    list,       \* the item of the list that was clicked
    shown,      \* the items shown by the combos (0: empty) and the toggle button
    chosen,     \* the file the user confirmed last
    reloaded,   \* whether the configuration was loaded again since
    box,        \* the control: its kind, width, image (texture width), align, offset
    text,       \* its text, in UTF-8
    handle,     \* iconvHandle: the charset it converts to, or closed; and those leaked
    pc, str, nStrIndex,     \* szDisplayStr
    x           \* where the text is printed

languageVars == <<settings, table, converter, clock, window, list, shown, chosen, reloaded>>

Unreadable == << "unreadable" >>
Missing == ""           \* an element without contents
NoString == "NULL"
Closed == "closed"
Readable(f) == Strings[f] # Unreadable
Zone(zone, dst) == IF dst THEN zone + 60 ELSE zone

\* GUI_LoadLangTable: a string without id or value is left out; a file that is no
\* list of strings gives an empty table.
Loaded_Mutant(f) == IF Readable(f) THEN Strings[f] ELSE << >>
Loaded(f) ==
    IF Readable(f) THEN SelectSeq(Strings[f], LAMBDA e : e.id # Missing /\ e.value # Missing)
    ELSE << >>

\* GUI_GetLangStr
GetLangStr(id) ==
    LET i == SelectInSeq(table, LAMBDA e : e.id = id)
    IN IF i = 0 THEN NoString ELSE table[i].value

------------------------------------------------------------------------------
\* main sets the time zone; GUI_Init without strings leaves nothing to draw.
Init ==
    /\ settings \in {s \in Saved : Readable(s.file)}
    /\ table = Loaded(settings.file)
    /\ converter = Closed
    /\ clock = Zone(settings.zone, settings.dst)
    /\ window = "closed" /\ list = settings.file
    /\ shown = [charset |-> 0, zone |-> 0, dst |-> FALSE]
    /\ chosen = settings.file /\ reloaded = FALSE

\* The first item stands for a setting that is none of them.
ItemOf(items, v) == IF Contains(items, v) THEN SelectInSeq(items, LAMBDA w : w = v) ELSE 1
Filled(combo, items, v) == IF combo = 0 THEN ItemOf(items, v) ELSE combo

\* GUI_MSG_OPEN: only an empty combo is filled.
Opened(combos, s) ==
    [charset |-> Filled(combos.charset, Charsets, s.charset),
     zone    |-> Filled(combos.zone, Zones, s.zone),
     dst     |-> s.dst]

OpenMenu ==
    /\ window = "closed" /\ window' = "open"
    /\ shown' = Opened(shown, settings)
    /\ UNCHANGED <<settings, table, converter, clock, list, chosen, reloaded>>

GoBack ==
    /\ window = "open" /\ window' = "closed"
    /\ UNCHANGED <<settings, table, converter, clock, list, shown, chosen, reloaded>>

\* Any text that is drawn opens the converter (CharsetConvert_UTF8ToCharset).
Draw ==
    /\ converter = Closed
    /\ converter' = settings.charset
    /\ UNCHANGED <<settings, table, clock, window, list, shown, chosen, reloaded>>

------------------------------------------------------------------------------
\* ID_CHARSET, ID_TIMEZONE and ID_DST; a combo goes round.
NextItem(i, items) == (i % Len(items)) + 1

SelectCharset ==
    /\ window = "open"
    /\ LET i == NextItem(shown.charset, Charsets) IN
          /\ shown' = [shown EXCEPT !.charset = i]
          /\ settings' = [settings EXCEPT !.charset = Charsets[i]]
    /\ converter' = Closed
    /\ UNCHANGED <<table, clock, window, list, chosen, reloaded>>

SelectTimezone ==
    /\ window = "open"
    /\ LET i == NextItem(shown.zone, Zones) IN
          /\ shown' = [shown EXCEPT !.zone = i]
          /\ settings' = [settings EXCEPT !.zone = Zones[i]]
          /\ clock' = Zone(Zones[i], settings.dst)
    /\ UNCHANGED <<table, converter, window, list, chosen, reloaded>>

ToggleDst ==
    /\ window = "open"
    /\ shown' = [shown EXCEPT !.dst = ~shown.dst]
    /\ settings' = [settings EXCEPT !.dst = shown'.dst]
    /\ clock' = Zone(settings.zone, shown'.dst)
    /\ UNCHANGED <<table, converter, window, list, chosen, reloaded>>

\* A click in the list asks first; the cursor stays while the dialog is open.
ClickLanguage ==
    /\ window = "open" /\ window' = "confirm"
    /\ list' \in DOMAIN Strings
    /\ UNCHANGED <<settings, table, converter, clock, shown, chosen, reloaded>>

AnswerNo ==
    /\ window = "confirm" /\ window' = "open"
    /\ UNCHANGED <<settings, table, converter, clock, list, shown, chosen, reloaded>>

\* A file that cannot be loaded is loaded again, and not the old one.  The skin is
\* loaded anew, with empty combos, and the window is opened.
KeptFile_Mutant == list
KeptFile == IF Readable(list) THEN list ELSE settings.file
AnswerYes ==
    /\ window = "confirm" /\ window' = "open"
    /\ settings' = [settings EXCEPT !.file = KeptFile]
    /\ table' = Loaded(list)
    /\ shown' = Opened([charset |-> 0, zone |-> 0], settings)
    /\ chosen' = list
    /\ UNCHANGED <<converter, clock, list, reloaded>>

\* LoadSettings of the settings window: the list of settings only.
LoadSettings ==
    /\ window = "closed"
    /\ settings' \in Saved /\ reloaded' = TRUE
    /\ UNCHANGED <<table, converter, clock, window, list, shown, chosen>>

Next ==
    \/ OpenMenu \/ GoBack \/ Draw \/ SelectCharset \/ SelectTimezone \/ ToggleDst
    \/ ClickLanguage \/ AnswerNo \/ AnswerYes \/ LoadSettings

Spec == Init /\ [][Next]_languageVars

------------------------------------------------------------------------------
TypeOK ==
    /\ settings.file \in DOMAIN Strings /\ window \in {"closed", "open", "confirm"}
    /\ shown.charset \in 0..Len(Charsets) /\ shown.zone \in 0..Len(Zones)
    /\ converter \in {Closed} \cup {s.charset : s \in Saved} \cup {Charsets[i] : i \in DOMAIN Charsets}
    /\ box \in Boxes /\ text \in Lines /\ pc \in {"draw", "shorten", "drawn"}
    /\ nStrIndex \in 0..(Word - 1) /\ str \in Seq(DOMAIN WidthOf)

\* What a file says a string is: its first complete element.
Meant(f, id) ==
    LET Fits(i) == Strings[f][i].id = id /\ Strings[f][i].value # Missing IN
       IF Readable(f) /\ \E i \in DOMAIN Strings[f] : Fits(i)
       THEN LET i == CHOOSE i \in DOMAIN Strings[f] : Fits(i) /\ \A j \in 1..(i - 1) : ~Fits(j)
            IN Strings[f][i].value
       ELSE NoString

(* Every string is that of the file the user confirmed last, none if it is   *)
(* no list of strings; such a file does not become the setting, with which   *)
(* the next start would fail (GUI_CB_Language).                              *)
StringsMeant ==
    /\ \A id \in Ids : GetLangStr(id) = Meant(chosen, id)
    /\ ~reloaded => Readable(settings.file)
    /\ Readable(chosen) /\ ~reloaded => settings.file = chosen

(* Unless the configuration was loaded again, the clock goes by the zone and *)
(* the summer time that are set, texts are converted to the character set    *)
(* that is set, and the open window shows what is set (GUI_CB_Language).     *)
ZoneAndCharsetMeant ==
    ~reloaded =>
       /\ clock = Zone(settings.zone, settings.dst)
       /\ converter \in {Closed, settings.charset}
       /\ window # "closed" =>
             /\ shown = Opened([charset |-> 0, zone |-> 0], settings)
             /\ Contains(Zones, settings.zone) => Zones[shown.zone] = settings.zone

LanguageRight == StringsMeant /\ ZoneAndCharsetMeant

------------------------------------------------------------------------------
(* A text in a control.                                                    *)
textVars == <<box, text, handle, pc, str, nStrIndex, x>>

Minus(a, b) == (a + Word - (b % Word)) % Word
Buttons == {"BUTTON", "COMBO", "TOGGLEBUTTON"}
RowsOf == {"LIST", "DIRVIEW"}

\* gsLib_font_width
FontWidth(s) == FoldLeft(LAMBDA w, c : w + WidthOf[c], 0, s)

------------------------------------------------------------------------------
DrawInit ==
    /\ box \in Boxes /\ text \in Lines
    /\ handle = [open |-> FALSE, leaked |-> 0]
    /\ pc = "draw" /\ str = << >> /\ nStrIndex = 0 /\ x = 0

\* CharsetConvert_Reset closes a handle only when there is none.
CharsetReset ==
    /\ pc = "drawn" /\ handle.leaked = 0
    /\ handle' = [open |-> FALSE, leaked |-> handle.leaked + 1]
    /\ UNCHANGED <<box, text, pc, str, nStrIndex, x>>

\* What iconv cannot convert is copied with all that follows, byte by byte.
Bytes(s) == FlattenSeq([i \in DOMAIN s |-> IF s[i] \in Wide THEN << "?", "?" >> ELSE << s[i] >>])
Converted(s) ==
    LET good == SelectInSeq(s, LAMBDA c : c \in Foreign)
    IN IF good = 0 THEN s ELSE SubSeq(s, 1, good - 1) \o Bytes(SubSeq(s, good, Len(s)))

UTF8ToCharset ==
    /\ pc = "draw" /\ pc' = "shorten"
    /\ handle' = [handle EXCEPT !.open = TRUE]
    /\ str' = Converted(text)
    /\ nStrIndex' = IF str' = << >> THEN Word - 1 ELSE Len(str') - 1
    /\ UNCHANGED <<box, text, x>>

------------------------------------------------------------------------------
\* What an image beside the label leaves of a button's width, and where.
Beside(align) == box.kind \in Buttons /\ box.image > 0 /\ box.imageAlign = align
LabelWidth == IF Beside("LEFT") \/ Beside("RIGHT") THEN Minus(box.width, box.image) ELSE box.width
LabelX == IF Beside("LEFT") THEN box.image ELSE 0

Limit_Mutant == LabelWidth
Limit ==
    CASE box.kind \in Buttons -> Minus(LabelWidth, box.offset)
      [] box.kind \in RowsOf -> Minus(box.width, box.offset * 2)
      [] OTHER -> box.width

\* A label of no width is not shortened.
TooLong == (box.kind = "LABEL" => box.width > 0) /\ FontWidth(str) > Limit

Shortened(s, i) ==
    [k \in 1..i |-> IF i > 1 /\ k > i - 2 THEN "." ELSE s[k]]
Shorten ==
    /\ pc = "shorten" /\ TooLong
    /\ str' = Shortened(str, nStrIndex)
    /\ nStrIndex' = Minus(nStrIndex, 1)
    /\ UNCHANGED <<box, text, handle, pc, x>>

\* The places of labels, of buttons, of rows and of thumbnails' names.
PlaceOf(w) ==
    CASE box.kind = "LABEL" /\ box.align = "RIGHT" -> Minus(box.width, w)
      [] box.kind = "LABEL" /\ box.align = "CENTER" -> Minus(box.width, w) \div 2
      [] box.kind \in Buttons /\ box.align = "LEFT" -> LabelX + box.offset
      [] box.kind \in Buttons /\ box.align = "RIGHT" -> LabelX + Minus(LabelWidth, w + box.offset)
      [] box.kind \in Buttons /\ box.align = "CENTER" -> LabelX + Minus(LabelWidth, w) \div 2
      [] box.kind \in RowsOf -> box.offset
      [] box.kind = "THUMBNAILPANEL" -> Minus(box.width, w) \div 2
      [] OTHER -> 0

PrintFont ==
    /\ pc = "shorten" /\ ~TooLong
    /\ pc' = "drawn"
    /\ x' = PlaceOf(FontWidth(str))
    /\ UNCHANGED <<box, text, handle, str, nStrIndex>>

\* Another text: what GUI_Ctrl_Label_SetText, GUI_Ctrl_Button_SetText and the like store.
SetText ==
    /\ pc = "drawn" /\ pc' = "draw"
    /\ text' \in Lines
    /\ UNCHANGED <<box, handle, str, nStrIndex, x>>

DrawNext == CharsetReset \/ UTF8ToCharset \/ Shorten \/ PrintFont \/ SetText

DrawSpec == DrawInit /\ [][DrawNext]_textVars

------------------------------------------------------------------------------
\* The skin leaves room for a label: its image and its margins are not wider than it.
Sensible ==
    /\ box.kind \in Buttons => box.image + box.offset <= box.width
    /\ box.kind \in RowsOf => box.offset * 2 <= box.width
    /\ box.kind = "LABEL" => box.width > 0

\* The beginning of a text that is left in n characters.
Beginning(whole, n) ==
    IF n > 1 THEN SubSeq(whole, 1, n - 2) \o << ".", "." >>
    ELSE IF n = 0 THEN << >> ELSE IF Len(whole) = 2 THEN << whole[1] >> ELSE << "." >>

(* Whatever the text, the loop writes inside the buffer, and what it leaves  *)
(* lies within the control and is the longest beginning that does, with two  *)
(* dots where there is room for them (the drawing functions of the controls).*)
TextFits ==
    /\ pc = "shorten" /\ TooLong => nStrIndex < Len(str)
    /\ pc = "drawn" /\ Sensible =>
          LET whole == Converted(text)
              Fitting == {n \in 0..(Len(whole) - 1) : FontWidth(Beginning(whole, n)) <= Limit}
          IN /\ x + FontWidth(str) <= box.width
             /\ str = IF FontWidth(whole) <= Limit THEN whole ELSE Beginning(whole, Max(Fitting))
=============================================================================

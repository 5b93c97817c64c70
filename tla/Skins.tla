-------------------------------- MODULE Skins -------------------------------
(***************************************************************************)
(* Loading a skin (GUI_LoadSkin and GUI_FreeSkin in src/src/GUI.c, the     *)
(* loaders of windows and controls in src/src/GUI_Load.c).  Pictures and   *)
(* fonts are kept once, in two tables of the whole interface; a control    *)
(* holds their indices, and each window a list of the indices it must      *)
(* upload when it opens.                                                   *)
(***************************************************************************)
EXTENDS Naturals, SequencesExt, FiniteSetsExt

CONSTANTS
    MenuFiles,      \* GUIMenus: the files of the windows, in their order
    Skins,          \* what each skin's directory holds
    Charsets,       \* the alphabets of the languages
    MaxMissing      \* bound: files that cannot be read during a load

VARIABLES
    images,     \* pGUIImages: each the picture of a name in a skin
    fonts,      \* pGUIFonts
    windows,    \* pGUIMenus: controls, pImages, pFonts
    from        \* what was loaded last: the skin, the alphabet, what was missing

skinVars == <<images, fonts, windows, from>>

Default == "latin"                  \* DEFAULT_CHARSET
Missing(files) == {S \in SUBSET files : Cardinality(S) <= MaxMissing}

\* The fields of a control that name pictures or a font, in the order its
\* loader reads them: GUI_Load_Label, _Button, _Image, _Slider, _Progress,
\* _ThumbnailPanel, _List, _Dirview, _ToggleButton, _Combo.
LabelFields == <<"font">>
ButtonFields == <<"texturefocus", "texturenofocus", "font">>
ImageFields == <<"texture">>
SliderFields == <<"texturebg", "textureslidernib", "textureslidernibfocus">>
ProgressFields == <<"texturebg", "textureleft", "textureright", "texturemid">>
PanelFields == <<"itemtexture", "itemtexturefocus", "font">>
RowFields == <<"texture", "texturefocus", "texturemarked", "font">>
ScrollFields == <<"texturedown", "textureup">>
ToggleFields == <<"texturefocus", "texturenofocus", "alttexturefocus", "alttexturenofocus", "font">>
ComboFields == <<"texturefocus", "texturenofocus", "font">>

FieldsOf(type) ==
    CASE type = "LABEL" -> LabelFields
      [] type = "BUTTON" -> ButtonFields
      [] type = "IMAGE" -> ImageFields
      [] type = "SLIDER" -> SliderFields
      [] type = "PROGRESS" -> ProgressFields
      [] type = "THUMBNAILPANEL" -> PanelFields \o ScrollFields
      [] type \in {"LIST", "DIRVIEW"} -> RowFields \o ScrollFields
      [] type = "TOGGLEBUTTON" -> ToggleFields
      [] type = "COMBO" -> ComboFields

NoWindow == [controls |-> <<>>, images |-> <<>>, fonts |-> <<>>]

\* GUI_ImageLookup and GUI_FontLookup: the first entry of that name, from 1.
Lookup(table, name) == SelectInSeq(table, LAMBDA entry : entry.name = name)

\* GUI_MenuGetImage and GUI_MenuAddImage, GUI_MenuGetFont and GUI_MenuAddFont
AddOnce_Mutant(list, i) == IF list # <<>> THEN list ELSE Append(list, i)
AddOnce(list, i) == IF Contains(list, i) THEN list ELSE Append(list, i)

\* GUI_ImageAdd, when the picture is not there yet: st is a load under way.
WithImage(st, name) ==
    IF Lookup(st.images, name) > 0 \/ name \in st.missing THEN st
    ELSE [st EXCEPT !.images = Append(@, [skin |-> st.skin, name |-> name])]

\* One field of the control being loaded; a control whose picture or font
\* cannot be found is given up, with all that follow it.
LoadField(st, ctrl, w, field) ==
    IF ~st.going \/ field \notin DOMAIN ctrl.fields THEN st
    ELSE LET name == ctrl.fields[field]
             next == IF field = "font" THEN st ELSE WithImage(st, name)
             i == Lookup(IF field = "font" THEN next.fonts ELSE next.images, name)
         IN IF i = 0 THEN [next EXCEPT !.going = FALSE]
            ELSE IF field = "font"
            THEN [next EXCEPT !.windows[w].fonts = AddOnce(@, i), !.indices = Append(@, i)]
            ELSE [next EXCEPT !.windows[w].images = AddOnce(@, i), !.indices = Append(@, i)]

LoadControl(st, ctrl, w) ==
    LET done == FoldLeft(LAMBDA acc, field : LoadField(acc, ctrl, w, field),
                         [st EXCEPT !.indices = <<>>], FieldsOf(ctrl.type))
    IN IF ~done.going THEN done
       ELSE [done EXCEPT !.windows[w].controls = Append(@, [of |-> ctrl, indices |-> done.indices])]

\* GUI_LoadMenu: it has succeeded, however many controls were loaded.
LoadMenu(st, w) ==
    [FoldLeft(LAMBDA acc, ctrl : LoadControl(acc, ctrl, w),
              [st EXCEPT !.going = TRUE], Skins[st.skin].windows[w])
       EXCEPT !.going = TRUE]

\* GUI_LoadFonts and GUI_FontAdd: the set of fonts for the language, or the
\* default set; the list ends at the first font that cannot be read.
FontSet(skin, charset) ==
    LET sets == Skins[skin].fonts IN IF charset \in DOMAIN sets THEN sets[charset] ELSE sets[Default]
LoadFonts(st, charset) ==
    LET set == FontSet(st.skin, charset)
        n == IF \E i \in DOMAIN set : set[i] \in st.missing
             THEN Min({i \in DOMAIN set : set[i] \in st.missing}) - 1 ELSE Len(set)
    IN [st EXCEPT !.fonts = [i \in 1 .. n |-> [skin |-> st.skin, charset |-> charset, name |-> set[i]]]]

\* GUI_FreeSkin: the fonts' lists of the windows are forgotten to be emptied.
Freed_Mutant(skin, missing) ==
    [skin |-> skin, missing |-> missing, going |-> TRUE, indices |-> <<>>,
     images |-> images, fonts |-> <<>>,
     windows |-> [w \in DOMAIN windows |-> [NoWindow EXCEPT !.fonts = windows[w].fonts]]]
Freed(skin, missing) ==
    [skin |-> skin, missing |-> missing, going |-> TRUE, indices |-> <<>>,
     images |-> <<>>, fonts |-> <<>>,
     windows |-> [w \in DOMAIN windows |-> [NoWindow EXCEPT !.fonts = windows[w].fonts]]]

\* GUI_LoadSkin: nothing without skin.xml or font.xml; the first window whose
\* file is found in neither directory ends it.
LoadSkin(st, charset) ==
    IF {"skin.xml", "font.xml"} \cap st.missing # {} THEN st
    ELSE LET n == IF \E i \in DOMAIN MenuFiles : MenuFiles[i] \in st.missing
                  THEN Min({i \in DOMAIN MenuFiles : MenuFiles[i] \in st.missing}) - 1
                  ELSE Len(MenuFiles)
         IN FoldLeft(LoadMenu, LoadFonts(st, charset), SubSeq(MenuFiles, 1, n))

Init ==
    /\ images = <<>> /\ fonts = <<>>
    /\ windows = [w \in Range(MenuFiles) |-> NoWindow]
    /\ from = [skin |-> "none", charset |-> Default, missing |-> {}]

Files(skin) ==
    {"skin.xml", "font.xml"} \cup Range(MenuFiles) \cup Range(Skins[skin].fonts[Default])
        \cup UNION {UNION {Range(Skins[skin].windows[w][i].fields) :
                           i \in DOMAIN Skins[skin].windows[w]} : w \in Range(MenuFiles)}

\* GUI_Init, and GUI_CB_Skins and GUI_CB_Language when the user says yes.
ChangeSkin(skin, charset) ==
    \E missing \in Missing(Files(skin)) :
        /\ LET st == LoadSkin(Freed(skin, missing), charset) IN
              /\ images' = st.images /\ fonts' = st.fonts /\ windows' = st.windows
        /\ from' = [skin |-> skin, charset |-> charset, missing |-> missing]

Next == \E skin \in DOMAIN Skins, charset \in Charsets : ChangeSkin(skin, charset)

Spec == Init /\ [][Next]_skinVars

------------------------------------------------------------------------------
TypeOK ==
    /\ DOMAIN windows = Range(MenuFiles)
    /\ from.skin \in DOMAIN Skins \cup {"none"} /\ from.charset \in Charsets

Named(w, c) ==  \* the fields of a loaded control, in the order of its indices
    SelectSeq(FieldsOf(c.of.type), LAMBDA field : field \in DOMAIN c.of.fields)

(* Every control shows the pictures and writes in the font its skin gave it, *)
(* each of which its window uploads exactly once when it opens, whichever    *)
(* skins were loaded before (GUI_FreeSkin, GUI_MenuAddImage,                 *)
(* GUI_MenuAddFont); and a skin that can be read is loaded completely.       *)
SkinWhole ==
    /\ \A w \in DOMAIN windows : \A k \in DOMAIN windows[w].controls :
          LET c == windows[w].controls[k] IN
          \A j \in DOMAIN c.indices :
             LET field == Named(w, c)[j]
                 list == IF field = "font" THEN windows[w].fonts ELSE windows[w].images
                 table == IF field = "font" THEN fonts ELSE images
             IN /\ table[c.indices[j]].name = c.of.fields[field]
                /\ table[c.indices[j]].skin = from.skin
                /\ field = "font" => table[c.indices[j]].charset = from.charset
                /\ Cardinality({i \in DOMAIN list : list[i] = c.indices[j]}) = 1
    /\ \A w \in DOMAIN windows : Range(windows[w].images) \subseteq DOMAIN images
    /\ (from.skin # "none" /\ from.missing = {}) =>
          \A w \in DOMAIN windows :
             LET loaded == windows[w].controls IN
             [k \in DOMAIN loaded |-> loaded[k].of] = Skins[from.skin].windows[w]
=============================================================================

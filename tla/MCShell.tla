------------------------------- MODULE MCShell -------------------------------
(***************************************************************************)
(* Small instances of the windows and of what they rest on: the file       *)
(* manager, the windows' stack and their skins, video memory, the pictures,*)
(* the settings, the keyboard, the devices, the gamepad and the controls,  *)
(* texts, directories and text files, scaled pictures, lists of skins and  *)
(* shares, and the start of the program.  They share no state; a behaviour *)
(* is one of one of them.  The components of UserInterface get their       *)
(* constants from the configuration, where a definition below is named.    *)
(***************************************************************************)
EXTENDS UserInterface

\* What the devices of the file manager hold.
DeviceRoots == { <<"pfs0">>, <<"mc0">>, <<"cdfs">> }
Disks ==
    { [p \in DeviceRoots \cup { <<"pfs0", "a">>, <<"pfs0", "a", "b">>, <<"cdfs", "b">> } |->
          IF p = <<"pfs0", "a", "b">> THEN "x" ELSE IF p = <<"cdfs", "b">> THEN "z" ELSE "dir"] }

\* Two skins: three windows, controls of most kinds, pictures and fonts shared.
MenuFiles == <<"main.xml", "radio.xml", "pictures.xml">>
Control(type, fields) == [type |-> type, fields |-> fields]
MainWindow ==
    << Control("IMAGE", [texture |-> "back.jpg"]),
       Control("BUTTON", [texturefocus |-> "on.png", texturenofocus |-> "off.png", font |-> "small"]),
       Control("LABEL", [font |-> "big"]) >>
RadioWindow ==
    << Control("LIST", [texture |-> "off.png", texturefocus |-> "on.png", font |-> "small",
                        texturedown |-> "off.png"]),
       Control("TOGGLEBUTTON", [texturefocus |-> "on.png", alttexturefocus |-> "on.png",
                                font |-> "big"]),
       Control("SLIDER", [texturebg |-> "back.jpg"]) >>
PicturesWindow ==
    << Control("THUMBNAILPANEL", [itemtexture |-> "off.png", textureup |-> "on.png",
                                  font |-> "big"]),
       Control("PROGRESS", [texturemid |-> "on.png"]),
       Control("DIRVIEW", [texturemarked |-> "on.png"]),
       Control("COMBO", [texturefocus |-> "on.png", font |-> "big"]) >>
SkinFiles ==
    [default |-> [fonts |-> [latin |-> <<"small", "big">>, greek |-> <<"small", "big">>],
                  windows |-> ("main.xml" :> MainWindow @@ "radio.xml" :> RadioWindow
                               @@ "pictures.xml" :> PicturesWindow)],
     blue    |-> [fonts |-> [latin |-> <<"big">>],
                  windows |-> ("main.xml" :> << MainWindow[3], MainWindow[1] >>
                               @@ "radio.xml" :> << RadioWindow[3] >>
                               @@ "pictures.xml" :> PicturesWindow)]]

Grids == { <<2, 2>>, <<1, 2>>, <<2, 1>> }
PictureSizes == "p1" :> 1 @@ "p2" :> 2 @@ "p3" :> 3

Setting(k, v) == [key |-> k, value |-> v]
NoConfigFile == << Setting("no file", "") >>
CommentLine == Setting("#", "")
Defaults == << Setting("scr_adjust_x", "0"), Setting("net_dns", "1"), Setting("part_mount_list", "") >>
ConfigFiles ==
    { NoConfigFile, << >>, << CommentLine, Setting("unknown", "1"), Setting("net_dns", "2 ") >>,
      << Setting("net_dns", "2"), Setting("net_dns", "1"), Setting("scr_adjust_x", "2") >> }
MountLists == { << >>, << "+B", "gone", "+A" >> }

\* Four windows and what their controls' neighbours are.
Neighbours(down, left, up, right) == [DOWN |-> down, LEFT |-> left, UP |-> up, RIGHT |-> right]
Placed(type, usable, to) == [type |-> type, usable |-> usable, to |-> to]
MainButtons == "music" :> Placed("BUTTON", TRUE, Neighbours("gone", "none", "none", "none"))
           @@ "gone" :> Placed("BUTTON", FALSE, Neighbours("pictures", "none", "music", "none"))
           @@ "pictures" :> Placed("BUTTON", TRUE, Neighbours("none", "none", "gone", "none"))
Volume == "volume" :> Placed("SLIDER", TRUE, Neighbours("back", "none", "none", "none"))
          @@ "back" :> Placed("BUTTON", TRUE, Neighbours("none", "none", "volume", "none"))
ChoiceControls == "loop" :> Placed("TOGGLEBUTTON", TRUE, Neighbours("filter", "none", "none", "none"))
           @@ "filter" :> Placed("COMBO", TRUE, Neighbours("none", "none", "loop", "none"))
Panel == "panel" :> Placed("THUMBNAILPANEL", TRUE, Neighbours("back", "none", "none", "none"))
         @@ "back" :> Placed("BUTTON", TRUE, Neighbours("none", "none", "panel", "none"))
ViewPicture == "none" :> Placed("IMAGE", TRUE, Neighbours("none", "none", "none", "none"))
InputCase(main, music, first, presses, maxTime) ==
    [skin |-> [MAIN |-> MainButtons, MYMUSIC |-> music, MYPICTURES |-> Panel, VIEW |-> ViewPicture],
     focus |-> [MAIN |-> main, MYMUSIC |-> first, MYPICTURES |-> "panel", VIEW |-> "none"],
     presses |-> presses, maxTime |-> maxTime]
Unzoomed == <<1, 0>>
InputCases ==
    { InputCase("music", Volume, "volume", { {}, {"RIGHT"}, {"RIGHT", "CROSS"}, {"L1"}, {"DOWN"}, {"TRIANGLE"} }, 0),
      InputCase("music", Volume, "volume", { {}, {"LEFT"}, {"R1"}, {"CROSS"} }, 1),
      InputCase("music", ChoiceControls, "loop", { {}, {"DOWN"}, {"DOWN", "CROSS"}, {"CROSS"}, {"UP"} }, 0),
      InputCase("pictures", Volume, "volume", { {}, {"RIGHT"}, {"R1"}, {"CROSS"}, {"TRIANGLE"} }, 0),
      InputCase("pictures", Volume, "volume", { {}, {"UP", "DOWN"}, {"R1"}, {"UP"}, {"L1"}, {"CROSS"} }, 0)}
\* A font, the places a text is drawn in, and texts.
FontWidths == [c \in {"i", "m", "u", ".", "?"} |-> IF c \in {"i", "."} THEN 1 ELSE IF c = "m" THEN 3 ELSE 2]
TextBox(kind, width, align, offset, image, imageAlign) ==
    [kind |-> kind, width |-> width, align |-> align, offset |-> offset, image |-> image, imageAlign |-> imageAlign]
TextBoxes ==
    {TextBox("LABEL", w, a, 0, 0, "LEFT") : w \in {0, 1, 5}, a \in {"LEFT", "CENTER", "RIGHT"}}
    \cup {TextBox("BUTTON", w, a, 1, m, ia) : w \in {0, 7}, a \in {"LEFT", "CENTER", "RIGHT"},
             m \in {0, 2}, ia \in {"LEFT", "CENTER", "RIGHT"}}
    \cup {TextBox(k, w, "LEFT", 1, 0, "LEFT") : k \in {"LIST", "THUMBNAILPANEL"}, w \in {1, 6}}
TextLines == { << >>, << "m" >>, << "i", "m" >>, << "i", "m", "u", "i", "m" >>, << "u", "i", "m", "m" >> }
\* Languages, and the settings a configuration can hold.
Message(id, value) == [id |-> id, value |-> value]
LanguageFiles ==
    [english |-> << Message("1", "yes"), Message("2", "no") >>,
     german  |-> << Message("1", ""), Message("", "ja"), Message("1", "ja"), Message("1", "doch") >>,
     broken  |-> << "unreadable" >>]
SavedLanguage(file, charset, zone, dst) == [file |-> file, charset |-> charset, zone |-> zone, dst |-> dst]
SavedLanguages ==
    {SavedLanguage("english", "latin", -60, FALSE), SavedLanguage("german", "other", 90, TRUE),
     SavedLanguage("broken", "greek", 0, FALSE)}

\* Directories and text files as a device lists and holds them.
Entry(name, kind, ext) == [name |-> name, kind |-> kind, ext |-> ext]
Listing ==
    << Entry(".", "dir", ""), Entry("..", "dir", ""), Entry("a", "file", "mp3"), Entry("d", "dir", ""),
       Entry("disk", "label", ""), Entry("b", "file", "jpg"), Entry("c", "file", "mp3") >>
Listings ==
    { << >>, SubSeq(Listing, 1, 4) \o SubSeq(Listing, 6, 7) \o << Entry("f", "dir", "") >>,
      SubSeq(Listing, 3, 7), Listing, << Entry("e", "dir", "") >> }
LineFiles ==
    { << >>, << "a", "\r", "\n", "b", "\n", "c" >>, << "a", "b", "c", "\n", "b", "\n" >>,
      << "a", "b", "c", "c", "\n", "b", "\n" >>, << "\n", "\r", "\n", "c", "\r" >>,
      << "a", "b", "c", "d", "e", "\n" >>, << "a", "a", "\r", "b", "\n" >> }

\* The modules of the IOP, consoles they are loaded on, and settings of the network.
ModuleNeeds ==
    [m \in {"SIO2MAN", "IOMANX", "PS2DEV9", "LIBSD", "USBD", "PS2IP", "CDVD"} |-> {}]
    @@ "MCMAN" :> {"SIO2MAN"} @@ "PADMAN" :> {"SIO2MAN"} @@ "MCSERV" :> {"MCMAN"}
    @@ "FILEXIO" :> {"IOMANX"} @@ "PS2ATAD" :> {"PS2DEV9"} @@ "PS2HDD" :> {"PS2ATAD", "IOMANX"}
    @@ "PS2FS" :> {"PS2HDD", "IOMANX"} @@ "POWEROFF" :> {"PS2DEV9"} @@ "SJPCM" :> {"LIBSD"}
    @@ "USB_MASS" :> {"USBD"} @@ "SMAP" :> {"PS2IP", "PS2DEV9"} @@ "DNS" :> {"PS2IP"}
    @@ "PS2IPS" :> {"PS2IP"} @@ "PS2FTPD" :> {"PS2IP", "IOMANX"}
StartedFrom(device, slashes, dirs) ==
    [device |-> device, slashes |-> slashes, dirs |-> dirs, fakehost |-> FALSE]
Console(argv, broken, own, card, answers, disc) ==
    [argv |-> argv, broken |-> broken, usbd |-> [own |-> own, card |-> card],
     answers |-> answers, disc |-> disc]
AllAnswer == {"USB_MASS", "PS2IPS", "PS2FTPD"}
SomeConsole ==
    Console([StartedFrom("host", TRUE, << >>) EXCEPT !.fakehost = TRUE], {"SMAP"}, "good", << >>,
            AllAnswer, TRUE)
Consoles ==
    { Console(StartedFrom("mc0", TRUE, << "BOOT" >>), broken, "none", << "bad", "good" >>,
              AllAnswer, FALSE) : broken \in {{}} \cup { {m} : m \in DOMAIN ModuleNeeds } }
    \cup { Console(StartedFrom("cdrom0", FALSE, << "A" >>), {"PS2ATAD"}, own, << "empty", "none" >>,
                   answers, TRUE) : own \in {"bad", "good"}, answers \in SUBSET AllAnswer }
    \cup { SomeConsole,
           Console(StartedFrom("mass", TRUE, << "A", "B" >>), {}, "none", << >>,
                   AllAnswer \ {"USB_MASS"}, TRUE) }
LongName == "a name of more than 31 letters"
NameCut == "-port" :> "-port" @@ "ps2" :> "ps2" @@ LongName :> "a name of more"
NetConfig(net, ftp, anonymous, login, password) ==
    [net_enable |-> net, ftp_enable |-> ftp, dns |-> (login # "-port"), port |-> "2121",
     anonymous |-> anonymous, login |-> login, password |-> password]
SomeConfig == NetConfig(FALSE, TRUE, TRUE, "ps2", "ps2")
NetConfigs ==
    { SomeConfig, NetConfig(TRUE, FALSE, TRUE, "ps2", "ps2"), NetConfig(TRUE, TRUE, TRUE, "ps2", "ps2"),
      NetConfig(TRUE, TRUE, FALSE, "-port", "ps2"), NetConfig(TRUE, TRUE, FALSE, LongName, "-port") }

PadKind(modes, extended, actuators, simple) ==
    [modes |-> modes, extended |-> extended, actuators |-> actuators, simple |-> simple]
PadKinds ==
    [digital   |-> PadKind(<< >>, FALSE, 0, TRUE),
     dualshock |-> PadKind(<< "DIGITAL", "DUALSHOCK" >>, TRUE, 2, FALSE),
     still     |-> PadKind(<< "DUALSHOCK" >>, TRUE, 0, FALSE),
     guitar    |-> PadKind(<< "DIGITAL" >>, TRUE, 0, FALSE),
     odd       |-> PadKind(<< "DUALSHOCK" >>, FALSE, 1, FALSE)]

\* A device with three directories, and shares: one is written without / at its end, one
\* cannot be read.
DirRow(name, isDir, ext, size) ==
    [name |-> name, dir |-> isDir, ext |-> ext, size |-> size, marked |-> FALSE]
DirTree ==
    << 1 >> :> << DirRow(7, FALSE, 2, 3), DirRow(3, TRUE, 0, 0) >>
    @@ << 1, 3 >> :> << DirRow(8, FALSE, 0, 0), DirRow(9, TRUE, 0, 0) >>
    @@ << 1, 3, 9 >> :> << >>
    @@ << 2, 2 >> :> << DirRow(7, FALSE, 2, 6), DirRow(6, FALSE, 3, 1) >>
    @@ << 2, 4 >> :> << DirRow(3, TRUE, 0, 0) >>
\* Pictures of one pixel, of all, and of every second, to be scaled.
BlackAnd(w, h, lit) == [r \in 1..h |-> [c \in 1..w |-> IF << r, c >> \in lit THEN 255 ELSE 0]]
Lit(w, h) ==
    LET all == (1..h) \X (1..w) IN {all, {q \in all : (q[1] + q[2]) % 2 = 0}} \cup { {q} : q \in all }
ScaleJobs ==
    UNION { { [pixels |-> BlackAnd(s[1], s[2], lit), width |-> s[1], height |-> s[2],
               newWidth |-> n[1], newHeight |-> n[2]] :
                 lit \in Lit(s[1], s[2]), n \in {0, 1, 2, 3, 5} \X {1, 2, 4} } :
            s \in { << 1, 1 >>, << 3, 2 >>, << 2, 3 >>, << 5, 4 >> } }

\* Files of shares, and directories of skins with what their skin.xml is.
ShareElement(name, p) == [name |-> name, path |-> p]
SambaFiles ==
    { [root |-> "none", elements |-> << >>],
      [root |-> "shares",
       elements |-> << ShareElement("music", "smb://a/"), ShareElement("films", "none"),
                       ShareElement("none", "smb://b/"), ShareElement("copy", "smb://a/"),
                       ShareElement("all", "smb://c/"), ShareElement("last", "none") >>] }
SkinDir(dir, xml, name) == [dir |-> dir, xml |-> xml, name |-> name]
SkinDirs ==
    { << SkinDir("default", "skin", "Default"), SkinDir("old", "missing", "none"),
         SkinDir("blue", "skin", "Blue") >>,
      << SkinDir("broken", "broken", "none"), SkinDir("nameless", "skin", "none"),
         SkinDir("blue", "skin", "Blue") >>,
      << >> }

\* JPEG files: a whole one with all kinds of segments, one whose comment holds what looks
\* like a file, one of a later version, gray, cut off, short of rows, unknown behind them.
Item(m) == [m |-> m, body |-> << >>]
Segment(m, body) == [m |-> m, body |-> body]
PixelRows == << << 1, 2, 3, 4, 5 >>, << 6, 7, 8, 9, 10 >> >>
JpgFile(bytes, bpp) == [bytes |-> bytes, pixels |-> PixelRows, bpp |-> bpp]
JpgHead(version, comment) ==
    << Item("SOI"), Segment("APP0", << Item(version), Item("data") >>), Segment("COM", comment), Item("DQT"),
       Item("SOF"), Segment("APP1", << Item("data") >>), Item("DHT"), Item("SOS") >>
WholeJpg == JpgHead("JFIF 1", << Item("data") >>) \o << Item("row"), Item("row"), Item("EOI") >>
JpgFiles ==
    { JpgFile(bytes, 24) :
        bytes \in { WholeJpg, SubSeq(WholeJpg, 1, 3), SubSeq(WholeJpg, 1, 9), SubSeq(WholeJpg, 1, 10), Tail(WholeJpg),
                    JpgHead("JFIF 1", << Item("SOI"), Item("data") >>) \o << Item("row"), Item("row"), Item("EOI") >>,
                    JpgHead("JFIF 1", << >>) \o << Item("row"), Item("EOI") >>,
                    JpgHead("JFIF 1", << >>) \o << Item("row"), Item("row"), Item("RES"), Item("EOI") >>,
                    JpgHead("JFIF 2", << >>) \o << Item("row"), Item("row"), Item("EOI") >> } }
    \cup { JpgFile(WholeJpg, 8) }
PngFile(signed, whole, pixels, bpp) == [signed |-> signed, whole |-> whole, pixels |-> pixels, bpp |-> bpp]
PngFiles ==
    { PngFile(FALSE, FALSE, << >>, 0), PngFile(TRUE, FALSE, << << 9, 9, 9 >> >>, 24),
      PngFile(TRUE, TRUE, << << 9, 8, 7, 6, 5, 4 >> >>, 24),
      PngFile(TRUE, TRUE, << << 9, 8, 7, 255, 6, 5, 4, 1 >>, << 3, 2, 1, 0, 2, 4, 6, 8 >> >>, 32) }
Screens ==
    { [psm |-> "CT16", pixels |-> << << 31, 32768 + 1024 >>, << 992 + 1, 65535 >> >>],
      [psm |-> "CT24", pixels |-> << << << 1, 2, 3 >>, << 4, 5, 6 >> >> >>],
      [psm |-> "CT32", pixels |-> << << << 1, 2, 3, 128 >>, << 4, 5, 6, 0 >> >> >>] }

Share(p, slash) == [path |-> p, slash |-> slash]
NetShares == << Share(<< 2, 2 >>, TRUE), Share(<< 2, 4 >>, FALSE), Share(<< 2, 6 >>, TRUE) >>

VARIABLES
    part,       \* the component that runs
    fmFs, fmDir, fmRows, fmMarked, fmEnabled, fmFocus, fmDialog, fmFiles,
    fmSrc, fmOldName, fmChanges,
    skImages, skFonts, skWindows, skFrom,
    pcGrid, pcWindow, pcDir, pcPanel, pcImage, pcSizes, pcCache, pcRaced,
    pcCrashed,
    stRunning, stList, stFile, stOffset, stExpected,
    dvStage, dvBoot, dvParts, dvBHddAvail, dvMounted, dvNames, dvNum,
    dvMountList, dvRows, dvUsb, dvServices,
    txBox, txText, txHandle, txPc, txStr, txNStrIndex, txX,
    flPc, flDevice, flDir, flFilter, flNext, flDirEntry, flInfos, flFailed,
    flFile, flOffset, flString, flLines,
    laSettings, laTable, laConverter, laClock, laWindow, laList, laShown,
    laChosen, laReloaded,
    suPc, suMachine, suConfig, suStrElfPath, suNBootMode, suNext, suLoaded,
    suNMCInit, suNUSBInit, suNNetInit, suNFTPInit, suCDInit, suServer,
    isPc, isJob, isRow, isCol, isX, isY, isLine, isBelow, isOut,
    xlPc, xlShareFile, xlElem, xlSmbShares, xlNNumSmbShares, xlSkins, xlRows,
    xlStrings, xlWild, xlCut, xlSel, xlSkin_name, xlOpens,
    pfPc, pfCaller, pfFile, pfRest, pfSeen, pfWarned, pfBeyond, pfDest,
    pfLive, pfBad, pfWhy, pfCoded, pfChunk,
    dwPath, dwItems, dwSel, dwFilter, dwAsked, dwOrder

fmVars == <<fmFs, fmDir, fmRows, fmMarked, fmEnabled, fmFocus, fmDialog,
            fmFiles, fmSrc, fmOldName, fmChanges>>
mnVars == <<mnGui, mnHdd, mnAsked, mnLast>>
skVars == <<skImages, skFonts, skWindows, skFrom>>
vmVars == <<vmBlocks, vmTextures, vmActive, vmShown, vmSpr, vmPacket,
            vmFlight, vmPixels>>
pcVars == <<pcGrid, pcWindow, pcDir, pcPanel, pcImage, pcSizes, pcCache,
            pcRaced, pcCrashed>>
stVars == <<stRunning, stList, stFile, stOffset, stExpected>>
kbVars == <<kbIsOpen, kbStr, kbCursor, kbShift, kbLabels, kbRet, kbCrashed>>
dvVars == <<dvStage, dvBoot, dvParts, dvBHddAvail, dvMounted, dvNames, dvNum,
            dvMountList, dvRows, dvUsb, dvServices>>
inVars == <<inCase, inPc, inPad, inWindow, inFocus, inSlider, inDelaying,
            inCombo, inToggle, inView, inPlayer, inScreen>>
txVars == <<txBox, txText, txHandle, txPc, txStr, txNStrIndex, txX>>
flVars == <<flPc, flDevice, flDir, flFilter, flNext, flDirEntry, flInfos,
            flFailed, flFile, flOffset, flString, flLines>>
laVars == <<laSettings, laTable, laConverter, laClock, laWindow, laList,
            laShown, laChosen, laReloaded>>
suVars == <<suPc, suMachine, suConfig, suStrElfPath, suNBootMode, suNext,
            suLoaded, suNMCInit, suNUSBInit, suNNetInit, suNFTPInit, suCDInit,
            suServer>>
gpVars == <<gpPc, gpAfter, gpPad, gpState, gpRequest, gpSet, gpKept, gpPlugs>>
isVars == <<isPc, isJob, isRow, isCol, isX, isY, isLine, isBelow, isOut>>
xlVars == <<xlPc, xlShareFile, xlElem, xlSmbShares, xlNNumSmbShares, xlSkins,
            xlRows, xlStrings, xlWild, xlCut, xlSel, xlSkin_name, xlOpens>>
pfVars == <<pfPc, pfCaller, pfFile, pfRest, pfSeen, pfWarned, pfBeyond,
            pfDest, pfLive, pfBad, pfWhy, pfCoded, pfChunk>>
dwVars == <<dwPath, dwItems, dwSel, dwFilter, dwAsked, dwOrder>>
allVars == <<part, fmVars, mnVars, skVars, vmVars, pcVars, stVars, kbVars, dvVars,
             inVars, txVars, flVars, laVars, suVars, gpVars, isVars, xlVars,
             pfVars, dwVars>>

Manager == INSTANCE FileManager WITH
    Names <- {"a", "b"}, MaxDepth <- 3, MaxChanges <- 2, Disks <- Disks,
    fs <- fmFs, dir <- fmDir, rows <- fmRows, marked <- fmMarked,
    enabled <- fmEnabled, focus <- fmFocus, dialog <- fmDialog,
    files <- fmFiles, src <- fmSrc, oldName <- fmOldName, changes <- fmChanges
Skins == INSTANCE Skins WITH
    MenuFiles <- MenuFiles, Skins <- SkinFiles,
    Charsets <- {"latin", "greek"}, MaxMissing <- 1, images <- skImages,
    fonts <- skFonts, windows <- skWindows, from <- skFrom
Pictures == INSTANCE Pictures WITH
    Grids <- Grids, Pictures <- PictureSizes, NewSizes <- {0, 1, 4},
    grid <- pcGrid, window <- pcWindow, dir <- pcDir, panel <- pcPanel,
    image <- pcImage, sizes <- pcSizes, cache <- pcCache, raced <- pcRaced,
    crashed <- pcCrashed
Settings == INSTANCE Settings WITH
    Defaults <- Defaults, Files <- ConfigFiles, running <- stRunning,
    list <- stList, file <- stFile, offset <- stOffset, expected <- stExpected
Devices == INSTANCE Devices WITH
    MaxMount <- 2, Found <- {"+A", "+B"}, Bad <- {"+B"},
    MountLists <- MountLists, stage <- dvStage, boot <- dvBoot,
    parts <- dvParts, bHddAvail <- dvBHddAvail, mounted <- dvMounted,
    names <- dvNames, num <- dvNum, mountList <- dvMountList, rows <- dvRows,
    usb <- dvUsb, services <- dvServices
Files == INSTANCE Files WITH
    MaxItems <- 4, Dirs <- Listings, Filters <- {{}, {"mp3"}, {"mp3", "jpg"}},
    TextFiles <- LineFiles, Num <- 5, pc <- flPc, device <- flDevice,
    dir <- flDir, filter <- flFilter, next <- flNext, dirEntry <- flDirEntry,
    infos <- flInfos, failed <- flFailed, file <- flFile, offset <- flOffset,
    string <- flString, lines <- flLines
Language == INSTANCE Language WITH
    Strings <- LanguageFiles, Ids <- {"1", "2"},
    Charsets <- << "latin", "greek" >>, Zones <- << -60, 0, 60 >>,
    Saved <- SavedLanguages, settings <- laSettings, table <- laTable,
    converter <- laConverter, clock <- laClock, window <- laWindow,
    list <- laList, shown <- laShown, chosen <- laChosen,
    reloaded <- laReloaded,
    Word <- 64, WidthOf <- FontWidths, Wide <- {"u"}, Foreign <- {"u"},
    Lines <- TextLines, Boxes <- TextBoxes, box <- txBox, text <- txText,
    handle <- txHandle, pc <- txPc, str <- txStr, nStrIndex <- txNStrIndex,
    x <- txX
Startup == INSTANCE Startup WITH
    Needs <- ModuleNeeds, Machines <- Consoles, Configs <- NetConfigs,
    Cut <- NameCut, pc <- suPc, machine <- suMachine, config <- suConfig,
    strElfPath <- suStrElfPath, nBootMode <- suNBootMode, next <- suNext,
    loaded <- suLoaded, nMCInit <- suNMCInit, nUSBInit <- suNUSBInit,
    nNetInit <- suNNetInit, nFTPInit <- suNFTPInit, CDInit <- suCDInit,
    server <- suServer
Scale == INSTANCE ImageScale WITH
    Jobs <- ScaleJobs, One <- 1024, White <- 255, pc <- isPc, job <- isJob,
    row <- isRow, col <- isCol, x <- isX, y <- isY, line <- isLine,
    below <- isBelow, out <- isOut
Lists == INSTANCE XmlLists WITH
    ShareFiles <- SambaFiles, SkinLists <- SkinDirs, MaxOpens <- 3,
    pc <- xlPc, shareFile <- xlShareFile, elem <- xlElem,
    smbShares <- xlSmbShares, nNumSmbShares <- xlNNumSmbShares,
    skins <- xlSkins, rows <- xlRows, strings <- xlStrings, wild <- xlWild,
    cut <- xlCut, sel <- xlSel, skin_name <- xlSkin_name, opens <- xlOpens
PictureFiles == INSTANCE PictureFiles WITH
    JpgFiles <- JpgFiles, PngFiles <- PngFiles, Screens <- Screens, Unit <- 4,
    OutputSize <- 3, MaxBytes <- 7, pc <- pfPc, caller <- pfCaller,
    file <- pfFile, rest <- pfRest, seen <- pfSeen, warned <- pfWarned,
    beyond <- pfBeyond, dest <- pfDest, live <- pfLive, bad <- pfBad,
    why <- pfWhy, coded <- pfCoded, chunk <- pfChunk
DirView == INSTANCE DirView WITH
    RootPaths <- << << 1 >> >>, Shares <- NetShares, Tree <- DirTree,
    Filters <- {{}, {2}}, Word <- 8, path <- dwPath, items <- dwItems,
    sel <- dwSel, filter <- dwFilter, asked <- dwAsked, order <- dwOrder

Parts == {"manager", "menus", "skins", "video", "pictures", "settings",
          "keyboard", "devices", "input", "texts", "listing", "language",
          "startup", "gamepad", "scale", "lists", "jpgpng", "dirview"}

\* A component that does not run stays in one of its initial states.
Init ==
    /\ part \in Parts
    /\ Manager!Init
    /\ Menus!Init
    /\ Skins!Init
    /\ Video!Init
    /\ (part # "pictures" => pcGrid = <<2, 2>>)
    /\ Pictures!Init
    /\ (part # "settings" => stFile = NoConfigFile)
    /\ Settings!Init
    /\ Keyboard!Init
    /\ (part # "devices" =>
            dvBoot = [mode |-> "MC", part |-> "+A", point |-> 4] /\ dvParts = Devices!NoDisk)
    /\ Devices!Init
    /\ (part # "input" => inCase = CHOOSE c \in InputCases : TRUE)
    /\ Input!Init
    /\ Language!DrawInit
    /\ (part # "texts" =>
            txBox.kind = "LABEL" /\ txBox.width = 0 /\ txBox.align = "LEFT" /\ txText = << >>)
    /\ Files!Init
    /\ (part # "language" => laSettings = CHOOSE s \in SavedLanguages : s.file = "english")
    /\ Language!Init
    /\ (part # "startup" => suMachine = SomeConsole /\ suConfig = SomeConfig /\ suLoaded = {})
    /\ Startup!Init
    /\ (part # "gamepad" => gpPad = "none" /\ gpPc = "wait")
    /\ Gamepad!Init
    /\ (part # "scale" => isJob = CHOOSE j \in ScaleJobs : j.width = 1)
    /\ Scale!Init
    /\ (part # "lists" => xlSkins = << >> /\ xlShareFile = CHOOSE f \in SambaFiles : TRUE)
    /\ Lists!Init
    /\ PictureFiles!Init
    /\ DirView!Init

Only(p) ==
    /\ part = p /\ UNCHANGED part
    /\ p # "manager" => UNCHANGED fmVars
    /\ p # "menus" => UNCHANGED mnVars
    /\ p # "skins" => UNCHANGED skVars
    /\ p # "video" => UNCHANGED vmVars
    /\ p # "pictures" => UNCHANGED pcVars
    /\ p # "settings" => UNCHANGED stVars
    /\ p # "keyboard" => UNCHANGED kbVars
    /\ p # "devices" => UNCHANGED dvVars
    /\ p # "input" => UNCHANGED inVars
    /\ p # "texts" => UNCHANGED txVars
    /\ p # "listing" => UNCHANGED flVars
    /\ p # "language" => UNCHANGED laVars
    /\ p # "startup" => UNCHANGED suVars
    /\ p # "gamepad" => UNCHANGED gpVars
    /\ p # "scale" => UNCHANGED isVars
    /\ p # "lists" => UNCHANGED xlVars
    /\ p # "jpgpng" => UNCHANGED pfVars
    /\ p # "dirview" => UNCHANGED dwVars

Next ==
    \/ Only("manager") /\ Manager!Next
    \/ Only("menus") /\ Menus!Next
    \/ Only("skins") /\ Skins!Next
    \/ Only("video") /\ Video!Next
    \/ Only("pictures") /\ Pictures!Next
    \/ Only("settings") /\ Settings!Next
    \/ Only("keyboard") /\ Keyboard!Next
    \/ Only("devices") /\ Devices!Next
    \/ Only("input") /\ Input!Next
    \/ Only("texts") /\ Language!DrawNext
    \/ Only("listing") /\ Files!Next
    \/ Only("language") /\ Language!Next
    \/ Only("startup") /\ Startup!Next
    \/ Only("gamepad") /\ Gamepad!Next
    \/ Only("scale") /\ Scale!Next
    \/ Only("lists") /\ Lists!Next
    \/ Only("jpgpng") /\ PictureFiles!Next
    \/ Only("dirview") /\ DirView!Next

Spec ==
    /\ Init /\ [][Next]_allVars

-------------------------------------------------------------------------------
(* Every variable of every component keeps its type.                         *)
TypeOK ==
    /\ part \in Parts
    /\ part = "manager" => Manager!TypeOK
    /\ part = "menus" => Menus!TypeOK
    /\ part = "skins" => Skins!TypeOK
    /\ part = "video" => Video!TypeOK
    /\ part = "pictures" => Pictures!TypeOK
    /\ part = "settings" => Settings!TypeOK
    /\ part = "keyboard" => Keyboard!TypeOK
    /\ part = "devices" => Devices!TypeOK
    /\ part = "input" => Input!TypeOK
    /\ part = "listing" => Files!TypeOK
    /\ part \in {"language", "texts"} => Language!TypeOK
    /\ part = "startup" => Startup!TypeOK
    /\ part = "gamepad" => Gamepad!TypeOK
    /\ part = "scale" => Scale!TypeOK
    /\ part = "lists" => Lists!TypeOK
    /\ part = "jpgpng" => PictureFiles!TypeOK
    /\ part = "dirview" => DirView!TypeOK

(* What is copied arrives whole and nothing else changes, only what was      *)
(* confirmed goes; a button that can be pressed fits the window              *)
(* (FileManager); a row leads one directory down and .. back (DirView); a    *)
(* setting that was saved is loaded again (Settings).                        *)
FilesSafe ==
    /\ Manager!FilesAreSafe /\ [](part = "manager" => Manager!ButtonsAreRight)
    /\ DirView!WayBack
    /\ Settings!SettingsComeBack

(* What is listed, drawn and loaded is what is stored.  The user sees behind *)
(* every mount point the partition that is mounted there (Devices); the      *)
(* program comes up with the modules its services need, and the FTP daemon   *)
(* as it was set (Startup); directories are listed and files read line by    *)
(* line as they are stored (Files); rows, marks and order of a directory are *)
(* right (DirView), and those of skins and shares (XmlLists); controls show  *)
(* the pictures and fonts their skin gave them (Skins), thumbnails are those *)
(* of the page (Pictures); strings, character set and zone are those that    *)
(* were set (Language); the focus can be used (Input) and a text fits its    *)
(* control (Language); a scaled picture is the mean of what it covers        *)
(* (ImageScale), and pictures are read and written to the last pixel, and    *)
(* their memory freed (PictureFiles).                                        *)
ContentsRight ==
    /\ part = "devices" => Devices!DevicesRight
    /\ part = "startup" => Startup!StartupRight
    /\ part = "listing" => Files!ListingRight /\ Files!LinesWhole
    /\ part = "dirview" => DirView!DirViewRight
    /\ part = "lists" => Lists!ListsRight
    /\ part = "skins" => Skins!SkinWhole
    /\ part = "pictures" => Pictures!PicturesRight
    /\ part = "language" => Language!LanguageRight
    /\ part = "input" => Input!FocusUsable
    /\ part = "texts" => Language!TextFits
    /\ part = "scale" => Scale!PictureScaled
    /\ part = "jpgpng" => PictureFiles!PicturesRead
===============================================================================

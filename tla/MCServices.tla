----------------------------- MODULE MCServices ------------------------------
(***************************************************************************)
(* Small instances of the services below the windows: the rotation of the  *)
(* threads, the socket calls, downloads, the clock, the command lines and  *)
(* files of the FTP server, the list of radio stations, a station's stream,*)
(* files of music, addresses and the sound driver.  They share no state; a *)
(* behaviour is one of one of them.                                        *)
(***************************************************************************)
EXTENDS Integers, Sequences, FiniteSets, SequencesExt, FiniteSetsExt

CONSTANTS
    Workers,                                            \* RoundRobin
    Block, BufSize, Top, Buffers, RecvLengths, MaxCalls,\* SocketRpc
    LineSize, LineLengths, MaxCommands,                 \* FtpLine
    Slots, Arguments, Stored, Directories, c1, c2,      \* FtpFiles
    NumDraw, StationLists, BookmarkFiles,               \* Radio
    MaxFile, MaxBody, MaxSegment,                       \* HttpDownload
    Tick, Ring, FrameLengths, Volumes, MaxSamples,      \* Sound
    Tracks,                                             \* Mp3Sources
    Period, MaxTicks                                    \* Ps2Clock

\* The entries of a path: strings.  Two of them are named because the provers do not
\* know which strings STRING holds: FtpFiles has them in its buffer.
Entries == STRING \cup {"text", "nothing"}
SentPaths == [abs : BOOLEAN, path : Seq(Entries)]

\* What the proofs take for granted.
RpcAssumption ==
    /\ Block \in Nat \ {0} /\ BufSize \in Nat /\ Block <= BufSize /\ Top \in Nat
    /\ Buffers \subseteq Nat /\ RecvLengths \subseteq Nat
LineAssumption == LineLengths \subseteq Nat
FilesAssumption ==
    /\ IsFiniteSet(Slots)
    /\ Arguments \in [Slots -> SUBSET SentPaths] /\ Directories \in [Slots -> SUBSET SentPaths]
    /\ Stored \subseteq Seq(Entries)
RadioAssumption ==
    /\ NumDraw \in Nat \ {0}
    /\ StationLists \subseteq Seq(Nat) /\ BookmarkFiles \subseteq Seq(Nat)

\* The header is read in less than a file may have (three tokens are no part of it).
HttpAssumption ==
    MaxFile \in Nat /\ MaxBody \in Nat /\ MaxSegment \in Nat /\ MaxSegment <= MaxFile + 3
SoundAssumption ==
    /\ Tick \in Nat \ {0} /\ Ring \in Nat \ {0}
    /\ FrameLengths \in [DOMAIN FrameLengths -> Nat]
    /\ "none" \notin DOMAIN FrameLengths
    /\ Volumes \subseteq Nat /\ 0 \in Volumes
    /\ \E v \in Volumes : \A w \in Volumes : w <= v
TimerAssumption == Period \in Nat \ {0} /\ MaxTicks \in Nat

ASSUME ServicesAssumption ==
    /\ RpcAssumption /\ LineAssumption /\ LineSize \in Nat /\ FilesAssumption /\ RadioAssumption
    /\ HttpAssumption /\ SoundAssumption /\ TimerAssumption

\* What TLC takes for the constants that are no sets of numbers.
Abs(path) == [abs |-> TRUE, path |-> path]
Rel(path) == [abs |-> FALSE, path |-> path]
TheArguments == c1 :> {Rel(<<"a">>), Abs(<<"pfs", "0", "d", "a">>)} @@ c2 :> {Abs(<<"mass", "0", "a">>)}
TheDirectories == c1 :> {Abs(<<"pfs", "0">>), Rel(<<"..">>)} @@ c2 :> {}
TheStored == { <<"pfs", "0", "d", "a">>, <<"pfs", "0", "a">>, <<"mass", "0", "a">> }

TheStationLists == { <<1, 2, 3>>, <<4, 2>> }
TheBookmarkFiles == { <<5, 6>>, <<6, 5>>, <<>> }

\* Sampling rates: the samples of a frame; there is no resampler for the last.
TheFrameLengths == [a |-> 3, b |-> 2, odd |-> 0]

\* Radio stations: the header's lines, and blocks of audio with a title, in which
\* 50 stands for the text before it and 39 for the quote behind it.
HeaderLine(kind, value) == [kind |-> kind, value |-> value]
Ok == HeaderLine("ICY 200 OK", 0)
AudioBlock(sound, before, song) ==
    [audio |-> sound, title |-> song,
     text |-> IF song = << >> THEN before ELSE before \o << 50 >> \o song \o << 39 >>]
RadioStations ==
    { [lines |-> << Ok, HeaderLine("icy-name", 0), HeaderLine("icy-metaint", 3) >>,
       blocks |-> << AudioBlock(<< 1, 2, 3 >>, << >>, << 7, 8 >>), AudioBlock(<< 3, 0, 50 >>, << >>, << >>),
                     AudioBlock(<< 4, 5, 6 >>, << 9 >>, << >>) >>],
      [lines |-> << Ok, HeaderLine("icy-metaint", 2) >>,
       blocks |-> << AudioBlock(<< 1, 2 >>, << 6 >>, << 7, 8, 7, 8, 7 >>),
                     AudioBlock(<< 3, 2 >>, << >>, << 7, 39, 8 >>) >>],
      [lines |-> << Ok >>, blocks |-> << AudioBlock(<< 1, 2, 3, 4, 1 >>, << >>, << >>) >>],
      [lines |-> << Ok, HeaderLine("name with ICY", 0) >>, blocks |-> << >>],
      [lines |-> << HeaderLine("HTTP", 0) >>, blocks |-> << >>] }

\* Files of music.
FrontTag(digits, footer, has0xFF) == [digits |-> digits, footer |-> footer, has0xFF |-> has0xFF]
FrontTags ==
    { FrontTag(<< >>, FALSE, FALSE), FrontTag(<< 0, 0, 0, 100 >>, FALSE, FALSE),
      FrontTag(<< 0, 0, 0, 127 >>, TRUE, FALSE), FrontTag(<< 0, 0, 2, 5 >>, FALSE, TRUE) }
FrameHeader(version, layer, index) == [version |-> version, layer |-> layer, index |-> index]
FrameHeaders ==
    { FrameHeader("none", 0, 0), FrameHeader("V2", 3, 4) }
        \cup { FrameHeader("V1", l, i) : l \in 1..3, i \in {0, 1, 9, 14} }
MusicFiles ==
    [tag : FrontTags, junk : {0, 40}, frame : FrameHeaders, audio : {100000, 2000000},
     tagBehind : BOOLEAN]

\* URLs and addresses as the user writes them, in the characters of Addresses; a byte is
\* 4 there.
Digits(n) == IF n < 10 THEN << n >> ELSE << n \div 10, n % 10 >>
Parsed(kind, t) == [kind |-> kind, url |-> << >>, numbers |-> << >>, nonsense |-> FALSE, text |-> t]
UrlOf(host, port, file) ==
    [Parsed("url", << 21, 21, 19, 20, 20 >> \o host
                   \o (IF port = 80 THEN << >> ELSE << 19 >> \o Digits(port)) \o file)
        EXCEPT !.url = [host |-> host, port |-> port, file |-> file]]
Urls ==
    { UrlOf(h, p, f) : h \in { << 21 >>, << 10, 16, 21 >> }, p \in {80, 8, 90},
                       f \in { << >>, << 20 >>, << 20, 21, 19, 5, 20, 7 >> } }
Address(n) ==
    [Parsed("address", Tail(FlattenSeq([i \in DOMAIN n |-> << 16 >> \o Digits(n[i])])))
        EXCEPT !.numbers = n]
Numbers ==
    UNION { [1..k -> {0, 3, 8, 10}] : k \in 1..4 }
        \cup { << 1, 1, 1, 1, 1 >>, << 60 >>, << 1, 1, 15 >>, << 1, 1, 16 >>, << 99, 1 >> }
NoUrls == { << >>, << 21, 19, 21 >>, << 21, 19, 20, 21 >>, << 21, 20, 20 >> }
NoAddresses ==
    { << >>, << 16 >>, << 1, 16, 16, 2 >>, << 1, 16 >>, << 21 >>, << 1, 21 >>, << 0, 17, 21 >>,
      << 1, 10 >>, << 1, 16, 18 >> }
Hexadecimals == { << 0, 17, 10 >>, << 0, 17 >>, << 0, 1, 1, 18, 21 >> }
Nonsense(t) == [t EXCEPT !.nonsense = TRUE]
AddressTexts ==
    Urls \cup { Nonsense(Parsed("url", t)) : t \in NoUrls } \cup { Address(n) : n \in Numbers }
         \cup { Nonsense(Parsed("address", t)) : t \in NoAddresses }
         \cup { Parsed("address", t) : t \in Hexadecimals }

VARIABLES
    part,       \* the component that runs
    rrQueue, rrPrio, rrNext, rrFresh,
    rpcMem, rpcIntr, rpcCall, rpcStage, rpcSif, rpcBound, rpcArrived, rpcRet,
    rpcCalls,
    httpAt, httpSock, httpToCome, httpKept, httpReqOK, httpLength, httpBuffer,
    httpResult, httpSplit,
    ckRtc, ckStart, ckZone, ckShown,
    tmCount, tmOverflow, tmInterrupts, tmHalf, tmValue, tmReading, tmElapsed,
    tmBegan,
    sfFormat, sfFmt, sfMaxsize, sfNum, sfWritten, sfOver,
    lnSent, lnWire, lnCommand, lnExecuted, lnConnected, lnPipelined, lnOverrun,
    ffCwd, ffCtx, ffAction, ffBuffer, ffDisk, ffHandles, ffAsked, ffNamed,
    rdIsOpen, rdStations, rdBookmarks, rdList, rdToggle, rdLabel, rdHeard,
    rdMayRefresh, rdCache, rdBmFile, rdStale,
    soPc, soStatus, soCancel, soVolume, soLastVolume, soEarly, soRate,
    soResampler, soFrame, soPcm, soIop, soBufpos, soMade, soPlayed,
    icPc, icStation, icMeta_int, icPos, icDemux, icTitle, icAudio, icOpens,
    adPc, adInput, adCp, adBase, adVal, adParts, adResult,
    tfStage, tfFile, tfNFileSize, tfNID3Size, tfNBitRate, tfMp3_tracklength

rrVars == <<rrQueue, rrPrio, rrNext, rrFresh>>
rpcVars == <<rpcMem, rpcIntr, rpcCall, rpcStage, rpcSif, rpcBound, rpcArrived,
             rpcRet, rpcCalls>>
httpVars == <<httpAt, httpSock, httpToCome, httpKept, httpReqOK, httpLength,
              httpBuffer, httpResult, httpSplit>>
ckVars == <<ckRtc, ckStart, ckZone, ckShown>>
tmVars == <<tmCount, tmOverflow, tmInterrupts, tmHalf, tmValue, tmReading,
            tmElapsed, tmBegan>>
sfVars == <<sfFormat, sfFmt, sfMaxsize, sfNum, sfWritten, sfOver>>
lnVars == <<lnSent, lnWire, lnCommand, lnExecuted, lnConnected, lnPipelined,
            lnOverrun>>
ffVars == <<ffCwd, ffCtx, ffAction, ffBuffer, ffDisk, ffHandles, ffAsked,
            ffNamed>>
rdVars == <<rdIsOpen, rdStations, rdBookmarks, rdList, rdToggle, rdLabel,
            rdHeard, rdMayRefresh, rdCache, rdBmFile, rdStale>>
soVars == <<soPc, soStatus, soCancel, soVolume, soLastVolume, soEarly, soRate,
            soResampler, soFrame, soPcm, soIop, soBufpos, soMade, soPlayed>>
icVars == <<icPc, icStation, icMeta_int, icPos, icDemux, icTitle, icAudio,
            icOpens>>
adVars == <<adPc, adInput, adCp, adBase, adVal, adParts, adResult>>
tfVars == <<tfStage, tfFile, tfNFileSize, tfNID3Size, tfNBitRate,
            tfMp3_tracklength>>
allVars == <<part, rrVars, rpcVars, httpVars, ckVars, tmVars, sfVars, lnVars,
             ffVars, rdVars, soVars, icVars, adVars, tfVars>>

Round == INSTANCE RoundRobin WITH
    Workers <- Workers, queue <- rrQueue, prio <- rrPrio, next <- rrNext,
    fresh <- rrFresh
Rpc == INSTANCE SocketRpc WITH
    Block <- Block, BufSize <- BufSize, Top <- Top, Buffers <- Buffers,
    Lengths <- RecvLengths, MaxCalls <- MaxCalls, mem <- rpcMem,
    intr <- rpcIntr, call <- rpcCall, stage <- rpcStage, sif <- rpcSif,
    bound <- rpcBound, arrived <- rpcArrived, ret <- rpcRet, calls <- rpcCalls
Http == INSTANCE HttpDownload WITH
    at <- httpAt, sock <- httpSock, toCome <- httpToCome, kept <- httpKept,
    reqOK <- httpReqOK, length <- httpLength, buffer <- httpBuffer,
    result <- httpResult, split <- httpSplit
Clock == INSTANCE Ps2Clock WITH
    Years <- {2000, 2003, 2004}, Zones <- {0, 9}, Widths <- {1, 2, 4},
    MaxPieces <- 4, MaxSize <- 9, rtc <- ckRtc, start <- ckStart,
    zone <- ckZone, shown <- ckShown, format <- sfFormat, fmt <- sfFmt,
    maxsize <- sfMaxsize, num <- sfNum, written <- sfWritten, over <- sfOver,
    count <- tmCount, overflow <- tmOverflow, interrupts <- tmInterrupts, half <- tmHalf, value <- tmValue,
    reading <- tmReading, elapsed <- tmElapsed, began <- tmBegan
Line == INSTANCE FtpLine WITH
    BufferSize <- LineSize, Lengths <- LineLengths, MaxCommands <- MaxCommands,
    sent <- lnSent, wire <- lnWire, command <- lnCommand,
    executed <- lnExecuted, connected <- lnConnected,
    pipelined <- lnPipelined, overrun <- lnOverrun
Files == INSTANCE FtpFiles WITH
    Slots <- Slots, Arguments <- Arguments, Stored <- Stored,
    Directories <- Directories, cwd <- ffCwd, ctx <- ffCtx,
    action <- ffAction, buffer <- ffBuffer, disk <- ffDisk,
    handles <- ffHandles, asked <- ffAsked, named <- ffNamed
Radio == INSTANCE Radio WITH
    NumDraw <- NumDraw, Directories <- StationLists, Winamp <- BookmarkFiles,
    isOpen <- rdIsOpen, stations <- rdStations, bookmarks <- rdBookmarks,
    list <- rdList, toggle <- rdToggle, label <- rdLabel, heard <- rdHeard,
    mayRefresh <- rdMayRefresh, cache <- rdCache, bmFile <- rdBmFile,
    stale <- rdStale
Sound == INSTANCE Sound WITH
    Slots <- Ring, Length <- FrameLengths, pc <- soPc, status <- soStatus, cancel <- soCancel,
    volume <- soVolume, lastVolume <- soLastVolume, early <- soEarly,
    rate <- soRate, resampler <- soResampler, frame <- soFrame, pcm <- soPcm,
    iop <- soIop, bufpos <- soBufpos, made <- soMade, played <- soPlayed
Sources == INSTANCE Mp3Sources WITH
    Stations <- RadioStations, Unit <- 2, MaxTitle <- 5, MaxSegment <- 4,
    MaxOpens <- 2, pc <- icPc, station <- icStation, meta_int <- icMeta_int,
    pos <- icPos, demux <- icDemux, title <- icTitle, audio <- icAudio,
    opens <- icOpens, stage <- tfStage, file <- tfFile,
    nFileSize <- tfNFileSize, nID3Size <- tfNID3Size, nBitRate <- tfNBitRate,
    mp3_tracklength <- tfMp3_tracklength
Addresses == INSTANCE Addresses WITH
    Texts <- AddressTexts, Bits <- 2, pc <- adPc, input <- adInput,
    cp <- adCp, base <- adBase, val <- adVal, parts <- adParts,
    result <- adResult

\* The files of music: a tag's size has four digits, a frame a version, a layer and an
\* index into the table of bit rates, of which the last is no rate.
ASSUME TracksAssumption ==
    \A f \in Tracks :
        /\ f.junk \in Nat /\ f.audio \in Nat /\ f.tagBehind \in BOOLEAN
        /\ f.tag # Sources!NoTag => \A i \in 1..4 : f.tag.digits[i] \in Nat
        /\ f.frame.version = "V1" => f.frame.layer \in 1..3 /\ f.frame.index \in 0..14

Parts == {"round", "rpc", "http", "clock", "timer", "format", "line", "files",
          "radio", "sound", "icy", "addresses", "track"}

\* A component that does not run stays in one of its initial states.
Init ==
    /\ part \in Parts
    /\ Round!Init
    /\ Rpc!Init
    /\ Http!Init
    /\ (part # "clock" => ckRtc = CHOOSE r \in Clock!Readings : TRUE)
    /\ Clock!Init
    /\ Clock!TimerInit
    /\ (part # "format" => sfFormat = <<>> /\ sfMaxsize = 0)
    /\ Clock!FormatInit
    /\ Line!Init
    /\ Files!Init
    /\ (part # "radio" => rdCache = Radio!NoFile /\ rdBmFile = <<>>)
    /\ Radio!Init
    /\ Sound!Init
    /\ (part # "icy" => icStation = CHOOSE s \in RadioStations : TRUE)
    /\ Sources!Init
    /\ (part # "addresses" => adInput = CHOOSE t \in AddressTexts : TRUE)
    /\ Addresses!Init
    /\ (part # "track" => tfFile = CHOOSE f \in MusicFiles : TRUE)
    /\ Sources!TrackInit

Only(p) ==
    /\ part = p /\ UNCHANGED part
    /\ p # "round" => UNCHANGED rrVars
    /\ p # "rpc" => UNCHANGED rpcVars
    /\ p # "http" => UNCHANGED httpVars
    /\ p # "clock" => UNCHANGED ckVars
    /\ p # "timer" => UNCHANGED tmVars
    /\ p # "format" => UNCHANGED sfVars
    /\ p # "line" => UNCHANGED lnVars
    /\ p # "files" => UNCHANGED ffVars
    /\ p # "radio" => UNCHANGED rdVars
    /\ p # "sound" => UNCHANGED soVars
    /\ p # "icy" => UNCHANGED icVars
    /\ p # "addresses" => UNCHANGED adVars
    /\ p # "track" => UNCHANGED tfVars

Next ==
    \/ Only("round") /\ Round!Next
    \/ Only("rpc") /\ Rpc!Next
    \/ Only("http") /\ Http!Next
    \/ Only("clock") /\ Clock!Next
    \/ Only("timer") /\ Clock!TimerNext
    \/ Only("format") /\ Clock!Piece
    \/ Only("line") /\ Line!Next
    \/ Only("files") /\ Files!Next
    \/ Only("radio") /\ Radio!Next
    \/ Only("sound") /\ Sound!Next
    \/ Only("icy") /\ Sources!Next
    \/ Only("addresses") /\ Addresses!Next
    \/ Only("track") /\ Sources!TrackNext

Spec ==
    /\ Init /\ [][Next]_allVars
    /\ WF_rrVars(part = "round" /\ Round!SchedulerStep)
    /\ WF_rrVars(part = "round" /\ Round!Vblank)
    /\ \A w \in Workers : WF_rrVars(part = "round" /\ Round!Work(w))

-------------------------------------------------------------------------------
(* Every variable of every component keeps its type.                         *)
TypeOK ==
    /\ part \in Parts
    /\ part = "round" => Round!TypeOK
    /\ part = "rpc" => Rpc!TypeOK
    /\ part = "http" => Http!TypeOK
    /\ part \in {"clock", "format", "timer"} => Clock!TypeOK
    /\ part = "line" => Line!TypeOK
    /\ part = "files" => Files!TypeOK
    /\ part = "radio" => Radio!TypeOK
    /\ part = "sound" => Sound!TypeOK
    /\ part \in {"icy", "track"} => Sources!TypeOK
    /\ part = "addresses" => Addresses!TypeOK

(* A worker that is ready executes again, whatever the others do             *)
(* (RoundRobin).                                                             *)
ReadyWorkerExecutes == part = "round" => Round!ReadyWorkerExecutes

(* What recv delivers lies where the caller wanted it, and what send sends is*)
(* the caller's (SocketRpc).                                                 *)
SocketDataWhole == Rpc!ReceivesInPlace /\ []Rpc!SendsTheBuffer

(* What comes in pieces is whole.  A download that succeeds is the file, and *)
(* its socket is given back (HttpDownload); decoded samples are heard in     *)
(* their order and at the volume set (Sound); the decoder is given a file    *)
(* without its tags, and its length is right (Mp3Sources); the time read from*)
(* two registers is that of the reading (Ps2Clock).                          *)
DownloadsSound ==
    /\ [](Http!SuccessIsTheFile /\ Http!SocketGivenBack)
    /\ []Sound!SoundRight
    /\ []Sources!TrackRight
    /\ Clock!ReadingsNear

(* What is parsed and written is what it stands for.  Dates are those of the *)
(* calendar and are put into their buffer whole or not at all (Ps2Clock); the*)
(* audio of a station has no titles in it, and the title is right            *)
(* (Mp3Sources); a URL and an address are what they are written as           *)
(* (Addresses).                                                              *)
TextsRight ==
    /\ Clock!ShowsDates
    /\ [](/\ part = "format" => Clock!CutWhereItMust
          /\ part = "icy" => Sources!StreamRight
          /\ part = "addresses" => Addresses!AddressesRight)

(* FTP commands are executed whole, once and in order (FtpLine); contexts    *)
(* hold what was opened for them, and a rename moves what was named          *)
(* (FtpFiles).                                                               *)
FtpRequestsMeant == []Line!CommandsWhole /\ []Files!HandlesSound /\ Files!RenamesMeant

(* The row under the cursor is the station that is shown and played, and the *)
(* cursor is on a row (Radio, Rows).                                         *)
StationsMeant == Radio!RowsArePlayed /\ []Radio!CursorInList
===============================================================================

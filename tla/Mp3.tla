--------------------------------- MODULE Mp3 ---------------------------------
(***************************************************************************)
(* The MP3 player of myPS2 (src/mp3.c) and the three kinds of thread it    *)
(* creates: "playback" decodes the files of a playlist, "net" receives a   *)
(* radio station's stream, "stream" decodes what net has received.  They   *)
(* and the GUI thread share plain volatile variables and three semaphores. *)
(*                                                                         *)
(* A step of this module is the code of one thread from one access to that *)
(* shared state to the next.  Left out: mp3_wait_sema, which only the GUI  *)
(* thread takes and which therefore never makes anyone wait; volume, play  *)
(* time and titles; the contents of the stream buffer (StreamBuffer);      *)
(* the bookkeeping of Scheduler_BeginThread and _EndThread (Scheduler).    *)
(***************************************************************************)
EXTENDS Naturals, FiniteSets

CONSTANTS
    Threads,        \* the threads that can be created
    Sockets,        \* socket descriptors
    NoSocket,       \* -1
    MaxTracks,      \* bound: tracks of a playlist
    MaxPlaylists,   \* bound: playlists the user opens
    Buttons,        \* the GUI operations the user has
    Impatient,      \* may the user press a button while a thread is starting
                    \* up or winding down?
    TracksEnd,      \* can decoding end by itself (end of file, no memory)?
    HangsUp,        \* can the radio server close the connection?
    RunsOut         \* bound: may the user go on when fewer than two threads
                    \* are left to be created?

AllButtons == {"play", "replay", "stop", "pause", "loop", "next", "prev",
               "station", "bookmark", "download"}

ASSUME Mp3Assumption ==
    /\ Buttons \subseteq AllButtons
    /\ NoSocket \notin Sockets
    /\ MaxTracks \in Nat \ {0}
    /\ MaxPlaylists \in Nat
    /\ Impatient \in BOOLEAN /\ TracksEnd \in BOOLEAN
    /\ HangsUp \in BOOLEAN /\ RunsOut \in BOOLEAN

VARIABLES
    status,         \* mp3_status
    cancel,         \* mp3_cancel_playback
    cancelSema,     \* mp3_cancel_sema
    loop,           \* mp3_loop
    playlist,       \* playList: its generation and its number of tracks
    current,        \* the entry current points to, NoEntry for NULL
    netCancel,      \* mp3_net_cancel
    netShutdown,    \* mp3_net_shutdown
    netSema,        \* mp3_net_sema
    socket,         \* mp3_net_socket
    open,           \* the descriptors that are open
    enough,         \* the stream buffer holds MP3_STREAM_CHUNK bytes
    ui,             \* where the GUI thread is, and in which operation
    kind,           \* the entry function of each thread
    pc              \* where each thread is

flags == <<status, cancel, cancelSema>>
list == <<loop, playlist, current>>
net == <<netCancel, netShutdown, netSema>>
sock == <<socket, open>>
threads == <<kind, pc>>
vars == <<flags, list, net, sock, enough, ui, threads>>

\* An entry of a playlist: the playlist's generation and a position.  MP3_Play
\* frees the entries of the old playlist, which have an older generation.
NoEntry == [gen |-> 0, pos |-> 0]
Entries == [gen : 1 .. MaxPlaylists, pos : 1 .. MaxTracks]
FirstEntry == IF playlist.len = 0 THEN NoEntry ELSE [gen |-> playlist.gen, pos |-> 1]
Allocated(e) == e # NoEntry /\ e.gen = playlist.gen
NextEntry_Mutant(e) == IF e.pos <= playlist.len THEN [e EXCEPT !.pos = @ + 1] ELSE NoEntry
NextEntry(e) == IF e.pos < playlist.len THEN [e EXCEPT !.pos = @ + 1] ELSE NoEntry
PrevEntry(e) == IF e.pos > 1 THEN [e EXCEPT !.pos = @ - 1] ELSE NoEntry

UiPlaces == {"idle", "setpause", "test", "flag", "wait", "clear", "act", "download",
             "socket", "connect", "begin_net", "begin_stream", "begin_playback"}
PlaybackPlaces == {"start", "top", "setup", "after"}
DecoderPlaces == {"input", "output", "finish"}
StreamPlaces == {"s_start", "s_net", "s_cancel", "s_wait", "s_clear"}
NetPlaces == {"n_start", "n_top", "n_recv", "n_bye", "n_fail", "n_flag"}
ThreadPlaces == PlaybackPlaces \cup DecoderPlaces \cup StreamPlaces \cup NetPlaces
                    \cup {"unborn", "end", "tail", "dead"}

TypeOK ==
    /\ status \in {"STOPPED", "PLAYING", "PAUSED", "STREAMING"}
    /\ cancel \in BOOLEAN /\ cancelSema \in {0, 1}
    /\ loop \in BOOLEAN
    /\ playlist \in [gen : 0 .. MaxPlaylists, len : 0 .. MaxTracks]
    /\ current \in Entries \cup {NoEntry}
    /\ netCancel \in BOOLEAN /\ netShutdown \in BOOLEAN /\ netSema \in {0, 1}
    /\ socket \in Sockets \cup {NoSocket} /\ open \in SUBSET Sockets
    /\ enough \in BOOLEAN
    /\ ui \in [pc : UiPlaces, op : AllButtons \cup {"none", "unpause"}]
    /\ kind \in [Threads -> {"none", "playback", "stream", "net"}]
    /\ pc \in [Threads -> ThreadPlaces]

\* After _mp3_init.
Init ==
    /\ status = "STOPPED" /\ cancel = FALSE /\ cancelSema = 0
    /\ loop = FALSE
    /\ playlist = [gen |-> 0, len |-> 0] /\ current = NoEntry
    /\ netCancel = FALSE /\ netShutdown = FALSE /\ netSema = 0
    /\ socket = NoSocket /\ open = {}
    /\ enough = FALSE
    /\ ui = [pc |-> "idle", op |-> "none"]
    /\ kind = [t \in Threads |-> "none"]
    /\ pc = [t \in Threads |-> "unborn"]

\* Between Scheduler_BeginThread and the end of Scheduler_EndThread.
Live(t) == pc[t] \notin {"unborn", "tail", "dead"}
Goto(t, place) == pc' = [pc EXCEPT ![t] = place]
UiGoto(place) == ui' = [ui EXCEPT !.pc = place]
UiIdle == ui' = [pc |-> "idle", op |-> "none"]

\* Scheduler_BeginThread, whose result mp3.c ignores: without a thread to give
\* nothing is started.
BeginThread(k, place) ==
    \/ \E t \in Threads :
          /\ pc[t] = "unborn"
          /\ kind' = [kind EXCEPT ![t] = k]
          /\ Goto(t, place)
    \/ /\ \A t \in Threads : pc[t] # "unborn"
       /\ UNCHANGED threads

------------------------------------------------------------------------------
(* The GUI thread: a button starts an operation. *)

\* Every thread is dead or in the middle of its work.
Settled ==
    \A t \in Threads : pc[t] \in {"unborn", "dead", "input", "output", "n_top", "n_recv"}

Room(op) ==
    \/ RunsOut \/ op \in {"stop", "pause", "download"}
    \/ Cardinality({t \in Threads : pc[t] = "unborn"}) >= 2

\* MP3_NextTrack, MP3_PrevTrack and MP3_SetPause return at once in some states.
HasEffect(op) ==
    CASE op = "next" -> /\ status # "STREAMING" /\ current # NoEntry
                        /\ Allocated(current) => NextEntry(current) # NoEntry
      [] op = "prev" -> /\ status # "STREAMING" /\ current # NoEntry
                        /\ Allocated(current) => PrevEntry(current) # NoEntry
      [] op = "pause" -> status \notin {"STOPPED", "STREAMING"}
      [] op = "play" -> playlist.gen < MaxPlaylists
      [] OTHER -> TRUE

\* The pause button passes the opposite of the status it reads.
Press(op) ==
    /\ ui.pc = "idle"
    /\ Impatient \/ Settled
    /\ Room(op)
    /\ op \in Buttons \ {"loop"} /\ HasEffect(op)
    /\ ui' = IF op # "pause" THEN [pc |-> "test", op |-> op]
             ELSE [pc |-> "setpause", op |-> IF status = "PAUSED" THEN "unpause" ELSE "pause"]
    /\ UNCHANGED <<flags, list, net, sock, enough, threads>>

PressLoop ==
    /\ ui.pc = "idle"
    /\ "loop" \in Buttons
    /\ loop' = ~loop
    /\ UNCHANGED <<flags, playlist, current, net, sock, enough, ui, threads>>

\* MP3_SetPause, after its tests.
SetPause ==
    /\ ui.pc = "setpause"
    /\ status' = IF ui.op = "pause" THEN "PAUSED" ELSE "PLAYING"
    /\ UiIdle
    /\ UNCHANGED <<cancel, cancelSema, list, net, sock, enough, threads>>

(* MP3_Stop, which the other operations call first *)

TestStatus ==
    /\ ui.pc = "test"
    /\ UiGoto(IF status = "STOPPED" THEN "act" ELSE "flag")
    /\ UNCHANGED <<flags, list, net, sock, enough, threads>>

RaiseCancel ==
    /\ ui.pc = "flag"
    /\ cancel' = TRUE
    /\ UiGoto("wait")
    /\ UNCHANGED <<status, cancelSema, list, net, sock, enough, threads>>

AwaitCancel ==
    /\ ui.pc = "wait"
    /\ cancelSema = 1
    /\ cancelSema' = 0
    /\ UiGoto("clear")
    /\ UNCHANGED <<status, cancel, list, net, sock, enough, threads>>

ClearCancel_Mutant ==
    /\ ui.pc = "clear"
    /\ UiGoto("act")
    /\ UNCHANGED <<flags, list, net, sock, enough, threads>>
ClearCancel ==
    /\ ui.pc = "clear"
    /\ cancel' = FALSE
    /\ UiGoto("act")
    /\ UNCHANGED <<status, cancelSema, list, net, sock, enough, threads>>

(* What follows when MP3_Stop has returned. *)

ActStop ==
    /\ ui.pc = "act" /\ ui.op = "stop"
    /\ UiIdle
    /\ UNCHANGED <<flags, list, net, sock, enough, threads>>

\* MP3_Play with a file name: the old playlist is freed.  The new one may turn
\* out empty; when it cannot be read or memory runs out no thread is started.
ActPlay ==
    /\ ui.pc = "act" /\ ui.op = "play"
    /\ \E n \in 0 .. MaxTracks :
          /\ playlist' = [gen |-> playlist.gen + 1, len |-> n]
          /\ UiGoto("begin_playback") \/ UiIdle
    /\ UNCHANGED <<flags, loop, current, net, sock, enough, threads>>

ActReplay ==
    /\ ui.pc = "act" /\ ui.op = "replay"
    /\ UiGoto("begin_playback")
    /\ UNCHANGED <<flags, list, net, sock, enough, threads>>

\* current = current->next (or prev), read again after MP3_Stop, from NULL or a
\* freed entry perhaps, which may hold anything; then
\* MP3_Play(NULL), which tests the status once more.
ActSkip ==
    /\ ui.pc = "act" /\ ui.op \in {"next", "prev"}
    /\ IF Allocated(current)
       THEN current' = (IF ui.op = "next" THEN NextEntry(current) ELSE PrevEntry(current))
       ELSE current' \in {current, NoEntry}
    /\ ui' = [pc |-> "test", op |-> "replay"]
    /\ UNCHANGED <<flags, loop, playlist, net, sock, enough, threads>>

BeginPlayback ==
    /\ ui.pc = "begin_playback"
    /\ BeginThread("playback", "start")
    /\ UiIdle
    /\ UNCHANGED <<flags, list, net, sock, enough>>

\* GetStationURL and GetRadioStations download a file over the network.
ActDownload ==
    /\ ui.pc = "act" /\ ui.op \in {"station", "download"}
    /\ UiGoto("download")
    /\ UNCHANGED <<flags, list, net, sock, enough, threads>>

Download ==
    /\ ui.pc = "download"
    /\ UiIdle \/ (ui.op = "station" /\ ui' = [pc |-> "test", op |-> "bookmark"])
    /\ UNCHANGED <<flags, list, net, sock, enough, threads>>

\* MP3_OpenStream after its own MP3_Stop: the name may not resolve.
ActOpenStream ==
    /\ ui.pc = "act" /\ ui.op = "bookmark"
    /\ UiGoto("socket") \/ UiIdle
    /\ UNCHANGED <<flags, list, net, sock, enough, threads>>

OpenSocket ==
    /\ ui.pc = "socket"
    /\ \/ \E s \in Sockets \ open :
             /\ socket' = s
             /\ open' = open \cup {s}
             /\ UiGoto("connect")
       \/ /\ socket' = NoSocket
          /\ UiIdle
          /\ UNCHANGED open
    /\ UNCHANGED <<flags, list, net, enough, threads>>

\* connect, send or the ICY header fails: the descriptor is closed, and stays
\* in mp3_net_socket.
ConnectFails ==
    /\ ui.pc = "connect"
    /\ open' = open \ {socket}
    /\ UiIdle
    /\ UNCHANGED <<flags, list, net, socket, enough, threads>>

Connect ==
    /\ ui.pc = "connect"
    /\ UiGoto("begin_net")
    /\ UNCHANGED <<flags, list, net, sock, enough, threads>>

\* MP3_PlayStream
BeginNet ==
    /\ ui.pc = "begin_net"
    /\ IF socket = NoSocket
       THEN UiIdle /\ UNCHANGED threads
       ELSE BeginThread("net", "n_start") /\ UiGoto("begin_stream")
    /\ UNCHANGED <<flags, list, net, sock, enough>>

BeginStream ==
    /\ ui.pc = "begin_stream"
    /\ BeginThread("stream", "s_start")
    /\ UiIdle
    /\ UNCHANGED <<flags, list, net, sock, enough>>

MP3_Stop == TestStatus \/ RaiseCancel \/ AwaitCancel \/ ClearCancel
UiProceeds ==
    \/ SetPause \/ MP3_Stop
    \/ ActStop \/ ActPlay \/ ActReplay \/ ActSkip \/ BeginPlayback
    \/ ActDownload \/ Download
    \/ ActOpenStream \/ OpenSocket \/ ConnectFails \/ Connect
    \/ BeginNet \/ BeginStream

------------------------------------------------------------------------------
(* _mp3_playback *)

ChooseEntry(t) ==
    /\ pc[t] = "start"
    /\ current' = IF current = NoEntry THEN FirstEntry ELSE current
    /\ Goto(t, "top")
    /\ UNCHANGED <<flags, loop, playlist, net, sock, enough, ui, kind>>

\* while( current ), and the file's contents read into memory.  Any failure
\* leaves the loop.
LoadTrack(t) ==
    /\ pc[t] = "top"
    /\ IF current = NoEntry THEN Goto(t, "end") ELSE Goto(t, "setup") \/ Goto(t, "end")
    /\ UNCHANGED <<flags, list, net, sock, enough, ui, kind>>

StartPlaying(t) ==
    /\ pc[t] = "setup"
    /\ status' = "PLAYING"
    /\ Goto(t, "input")
    /\ UNCHANGED <<cancel, cancelSema, list, net, sock, enough, ui, kind>>

\* Cancelled, or on to the next track, or the same one again.
LeaveTrack(t) ==
    /\ pc[t] = "after"
    /\ IF cancel \/ loop THEN UNCHANGED current
       ELSE IF Allocated(current) THEN current' = NextEntry(current)
       ELSE current' \in {current, NoEntry}
    /\ Goto(t, IF cancel THEN "end" ELSE "top")
    /\ UNCHANGED <<flags, loop, playlist, net, sock, enough, ui, kind>>

\* Scheduler_EndThread, of the playback and the stream thread.
EndThread(t) ==
    /\ pc[t] = "end" /\ kind[t] \in {"playback", "stream"}
    /\ Goto(t, "tail")
    /\ UNCHANGED <<flags, list, net, sock, enough, ui, kind>>

\* "UI thread can continue".
SignalCancel_Mutant(t) ==
    /\ pc[t] = "tail" /\ kind[t] \in {"playback", "stream"}
    /\ Goto(t, "dead")
    /\ UNCHANGED <<flags, list, net, sock, enough, ui, kind>>
SignalCancel(t) ==
    /\ pc[t] = "tail" /\ kind[t] \in {"playback", "stream"}
    /\ cancelSema' = IF cancel THEN 1 ELSE cancelSema
    /\ Goto(t, "dead")
    /\ UNCHANGED <<status, cancel, list, net, sock, enough, ui, kind>>

Playback(t) == ChooseEntry(t) \/ LoadTrack(t) \/ StartPlaying(t) \/ LeaveTrack(t)

------------------------------------------------------------------------------
(* mad_decoder_run and its callbacks, for the playback and the stream thread *)

\* _mp3_input while streaming: it waits until there is a chunk and takes what
\* there is; a shut-down net thread stops the decoder.  Memory may run out.
StreamInput_Mutant(t) ==
    /\ pc[t] = "input" /\ status = "STREAMING"
    /\ ~netShutdown /\ enough
    /\ enough' = FALSE
    /\ Goto(t, "output") \/ (TracksEnd /\ Goto(t, "finish"))
    /\ UNCHANGED <<flags, list, net, sock, ui, kind>>
StreamInput(t) ==
    /\ pc[t] = "input" /\ status = "STREAMING"
    /\ \/ /\ netShutdown
          /\ Goto(t, "finish")
          /\ UNCHANGED enough
       \/ /\ ~netShutdown /\ enough
          /\ enough' = FALSE
          /\ Goto(t, "output") \/ (TracksEnd /\ Goto(t, "finish"))
    /\ UNCHANGED <<flags, list, net, sock, ui, kind>>

\* _mp3_input otherwise: the file's contents, once.  The stream thread has no
\* file and reads through a NULL pointer: whatever comes of it.
FileInput(t) ==
    /\ pc[t] = "input" /\ status # "STREAMING"
    /\ Goto(t, "output") \/ ((TracksEnd \/ kind[t] = "stream") /\ Goto(t, "finish"))
    /\ UNCHANGED <<flags, list, net, sock, enough, ui, kind>>

\* _mp3_output finds mp3_cancel_playback set, in its pause loop too.
StopDecoding_Mutant(t) ==
    /\ pc[t] = "output"
    /\ cancel /\ status # "PAUSED"
    /\ Goto(t, "finish")
    /\ UNCHANGED <<flags, list, net, sock, enough, ui, kind>>
StopDecoding(t) ==
    /\ pc[t] = "output"
    /\ cancel
    /\ Goto(t, "finish")
    /\ UNCHANGED <<flags, list, net, sock, enough, ui, kind>>

\* The buffer is used up: the stream thread asks for more.
Refill(t) ==
    /\ pc[t] = "output" /\ kind[t] = "stream"
    /\ ~cancel /\ status # "PAUSED"
    /\ Goto(t, "input")
    /\ UNCHANGED <<flags, list, net, sock, enough, ui, kind>>

\* _mp3_output goes on.  The file is used up then, and _mp3_input called once
\* more, or memory runs out.
DecodingEnds(t) ==
    /\ pc[t] = "output"
    /\ TracksEnd /\ ~cancel /\ status # "PAUSED"
    /\ Goto(t, "finish") \/ (kind[t] = "playback" /\ Goto(t, "input"))
    /\ UNCHANGED <<flags, list, net, sock, enough, ui, kind>>

\* What _mp3_playback and _mp3_stream_thread do when the decoder returns.
FinishTrack_Mutant(t) ==
    /\ pc[t] = "finish"
    /\ Goto(t, IF kind[t] = "playback" THEN "after" ELSE "s_net")
    /\ UNCHANGED <<flags, list, net, sock, enough, ui, kind>>
FinishTrack(t) ==
    /\ pc[t] = "finish"
    /\ status' = "STOPPED"
    /\ Goto(t, IF kind[t] = "playback" THEN "after" ELSE "s_net")
    /\ UNCHANGED <<cancel, cancelSema, list, net, sock, enough, ui, kind>>

Decode(t) ==
    \/ StreamInput(t) \/ FileInput(t) \/ StopDecoding(t) \/ Refill(t) \/ FinishTrack(t)

------------------------------------------------------------------------------
(* _mp3_stream_thread *)

StartStreaming(t) ==
    /\ pc[t] = "s_start"
    /\ status' = "STREAMING"
    /\ Goto(t, "input")
    /\ UNCHANGED <<cancel, cancelSema, list, net, sock, enough, ui, kind>>

TestShutdown_Mutant(t) ==
    /\ pc[t] = "s_net"
    /\ Goto(t, IF netShutdown THEN "s_cancel" ELSE "end")
    /\ UNCHANGED <<flags, list, net, sock, enough, ui, kind>>
TestShutdown(t) ==
    /\ pc[t] = "s_net"
    /\ IF netShutdown
       THEN Goto(t, "end") /\ enough' = FALSE
       ELSE Goto(t, "s_cancel") /\ UNCHANGED enough
    /\ UNCHANGED <<flags, list, net, sock, ui, kind>>

RaiseNetCancel(t) ==
    /\ pc[t] = "s_cancel"
    /\ netCancel' = TRUE
    /\ Goto(t, "s_wait")
    /\ UNCHANGED <<flags, list, netShutdown, netSema, sock, enough, ui, kind>>

AwaitNet_Mutant(t) ==
    /\ pc[t] = "s_wait"
    /\ Goto(t, "s_clear")
    /\ UNCHANGED <<flags, list, net, sock, enough, ui, kind>>
AwaitNet(t) ==
    /\ pc[t] = "s_wait"
    /\ netSema = 1
    /\ netSema' = 0
    /\ Goto(t, "s_clear")
    /\ UNCHANGED <<flags, list, netCancel, netShutdown, sock, enough, ui, kind>>

\* The flag is reset and the stream buffer flushed.
ClearNetCancel(t) ==
    /\ pc[t] = "s_clear"
    /\ netCancel' = FALSE
    /\ enough' = FALSE
    /\ Goto(t, "end")
    /\ UNCHANGED <<flags, list, netShutdown, netSema, sock, ui, kind>>

Stream(t) ==
    \/ StartStreaming(t) \/ TestShutdown(t) \/ RaiseNetCancel(t) \/ AwaitNet(t) \/ ClearNetCancel(t)

------------------------------------------------------------------------------
(* _mp3_net_thread *)

\* Without a connection the thread ends here, Scheduler_EndThread included.
NetStart(t) ==
    /\ pc[t] = "n_start"
    /\ IF socket = NoSocket
       THEN netShutdown' = TRUE /\ Goto(t, "dead")
       ELSE Goto(t, "n_top") /\ UNCHANGED netShutdown
    /\ UNCHANGED <<flags, list, netCancel, netSema, sock, enough, ui, kind>>

NetTestCancel(t) ==
    /\ pc[t] = "n_top"
    /\ Goto(t, IF netCancel THEN "n_bye" ELSE "n_recv")
    /\ UNCHANGED <<flags, list, net, sock, enough, ui, kind>>

\* recv returns data, which mp3_stream_addBuffer appends ...
NetData(t) ==
    /\ pc[t] = "n_recv"
    /\ socket \in open
    /\ enough' \in {enough, TRUE}
    /\ Goto(t, "n_top")
    /\ UNCHANGED <<flags, list, net, sock, ui, kind>>

\* ... or the server has closed the connection, or the descriptor is not open.
NetError(t) ==
    /\ pc[t] = "n_recv"
    /\ HangsUp \/ socket \notin open
    /\ Goto(t, "n_fail")
    /\ UNCHANGED <<flags, list, net, sock, enough, ui, kind>>

\* disconnect
NetDisconnect_Mutant(t) ==
    /\ pc[t] \in {"n_bye", "n_fail"}
    /\ IF pc[t] = "n_bye" THEN UNCHANGED open ELSE open' = open \ {socket}
    /\ Goto(t, IF pc[t] = "n_bye" THEN "end" ELSE "n_flag")
    /\ UNCHANGED <<flags, list, net, socket, enough, ui, kind>>
NetDisconnect(t) ==
    /\ pc[t] \in {"n_bye", "n_fail"}
    /\ open' = open \ {socket}
    /\ Goto(t, IF pc[t] = "n_bye" THEN "end" ELSE "n_flag")
    /\ UNCHANGED <<flags, list, net, socket, enough, ui, kind>>

NetRaiseShutdown(t) ==
    /\ pc[t] = "n_flag"
    /\ netShutdown' = TRUE
    /\ Goto(t, "end")
    /\ UNCHANGED <<flags, list, netCancel, netSema, sock, enough, ui, kind>>

NetEndThread(t) ==
    /\ pc[t] = "end" /\ kind[t] = "net"
    /\ Goto(t, "tail")
    /\ UNCHANGED <<flags, list, net, sock, enough, ui, kind>>

NetSignal(t) ==
    /\ pc[t] = "tail" /\ kind[t] = "net"
    /\ netSema' = IF netCancel THEN 1 ELSE netSema
    /\ Goto(t, "dead")
    /\ UNCHANGED <<flags, list, netCancel, netShutdown, sock, enough, ui, kind>>

NetProceeds(t) ==
    \/ NetStart(t) \/ NetTestCancel(t) \/ NetDisconnect(t) \/ NetRaiseShutdown(t)
    \/ NetEndThread(t) \/ NetSignal(t)

------------------------------------------------------------------------------
Next ==
    \/ \E op \in Buttons : Press(op)
    \/ PressLoop
    \/ UiProceeds
    \/ \E t \in Threads :
          \/ Playback(t) \/ Decode(t) \/ DecodingEnds(t) \/ Stream(t)
          \/ EndThread(t) \/ SignalCancel(t)
          \/ NetProceeds(t) \/ NetData(t) \/ NetError(t)

Spec == Init /\ [][Next]_vars

\* Every thread gets the processor again and again (module RoundRobin) and runs
\* on; decoding a track, or waiting for data, need not end.
ThreadsRun ==
    /\ WF_vars(UiProceeds)
    /\ \A t \in Threads :
          WF_vars(Playback(t) \/ Decode(t) \/ Stream(t) \/ EndThread(t) \/ SignalCancel(t) \/ NetProceeds(t))

\* The server does send: recv returns in the end, and with enough data so often
\* that the buffer fills again and again.
ServerSends ==
    \A t \in Threads : WF_vars(NetData(t)) /\ SF_vars(NetData(t) /\ enough')

FairSpec == Spec /\ ThreadsRun
StreamingSpec == FairSpec /\ ServerSends

------------------------------------------------------------------------------
(* Properties that hold whatever the user, the files and the server do *)

Decoding(t, k) == kind[t] = k /\ pc[t] \in DecoderPlaces

\* Without the pause button, a status other than STOPPED has a thread behind it
\* that decodes and will set it back: MP3_Stop, which waits because of that
\* status, is not waiting for a thread that was never there.
StatusHasOwner ==
    /\ status \in {"PLAYING", "PAUSED"} => \E t \in Threads : Decoding(t, "playback")
    /\ status = "STREAMING" => \E t \in Threads : Decoding(t, "stream")

\* A playback thread that is still in _mp3_output when MP3_Stop waits ends and
\* wakes the GUI, paused or not, and whatever other threads start or end.
StopHeardWhileDecoding ==
    (ui.pc = "wait" /\ \E t \in Threads : kind[t] = "playback" /\ pc[t] = "output")
        ~> ui.pc # "wait"

\* The inductive invariant behind the theorems of Mp3Proofs: a thread is at a
\* place of its entry function.
PlacesOf(k) ==
    CASE k = "none" -> {"unborn"}
      [] k = "playback" -> PlaybackPlaces \cup DecoderPlaces \cup {"end", "tail", "dead"}
      [] k = "stream" -> StreamPlaces \cup DecoderPlaces \cup {"end", "tail", "dead"}
      [] k = "net" -> NetPlaces \cup {"end", "tail", "dead"}
ThreadsInPlace == \A t \in Threads : pc[t] \in PlacesOf(kind[t])
ListHasGeneration ==
    /\ playlist.len > 0 => playlist.gen > 0
    /\ ui.op = "play" /\ ui.pc \in {"test", "flag", "wait", "clear", "act"}
          => playlist.gen < MaxPlaylists
IndInv == TypeOK /\ ThreadsInPlace /\ ListHasGeneration

------------------------------------------------------------------------------
(* Properties that hold as long as the user waits for threads to start and to  *)
(* end, and neither a track ends nor a server hangs up while a button works    *)

\* Once the server has hung up, the thread that decodes the stream comes to its
\* end without the GUI's help.
HangupEndsStream ==
    \A t \in Threads :
        (netShutdown /\ kind[t] = "stream" /\ pc[t] \in {"input", "output"}) ~> pc[t] = "dead"

IsPlayer(t) == Live(t) /\ kind[t] \in {"playback", "stream"}
NetLive == \E t \in Threads : Live(t) /\ kind[t] = "net"

\* mp3.c:96: "make sure current playback thread is terminated before creating a
\* new one".  Two of them would share the decoder's static state and the sound
\* device.
OnePlayer == \A t, u \in Threads : IsPlayer(t) /\ IsPlayer(u) => t = u

\* GUI_M_Radio.c:180: "send/recv is not thread safe so be sure any running net
\* thread is shut down before downloading"; mp3.c:474 says the same of
\* MP3_OpenStream.
NoConcurrentSocketCalls == ui.pc \in {"download", "socket", "connect"} => ~NetLive

\* mp3.c:1285: "this waits until net thread has shut down".
NetWaitedFor == (\E t \in Threads : pc[t] = "s_clear") => ~NetLive

\* The net thread closes a descriptor that is open, and no descriptor is left
\* open when nobody will close it any more.
SocketClosedOnce ==
    /\ \A t \in Threads : pc[t] \in {"n_bye", "n_fail"} => socket \in open
    /\ ui.pc = "idle" /\ ~NetLive => open = {}

\* mp3.c:217: "Stops playback of MP3 and terminates mp3 thread".
StopReturns == ui.pc = "wait" ~> ui.pc = "idle"

------------------------------------------------------------------------------
(* What a comment of the source says, and what does not hold *)

\* mp3.c:103 frees the old playlist, and mp3.c:83 keeps re-playing for a call
\* without a file name: a thread never plays an entry of a freed playlist.
PlaysCurrentPlaylist == \A t \in Threads : pc[t] = "setup" => Allocated(current)
==============================================================================

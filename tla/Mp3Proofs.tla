------------------------------ MODULE Mp3Proofs ------------------------------
(***************************************************************************)
(* Theorems about module Mp3, for every number of threads, sockets, tracks *)
(* and playlists, every set of buttons and every behaviour of the user,    *)
(* the files and the server; the handshakes of its threads, in the second  *)
(* half, for the calm player.                                              *)
(***************************************************************************)
EXTENDS Mp3, FiniteSetTheorems, TLAPS

USE DEF UiPlaces, PlaybackPlaces, DecoderPlaces, StreamPlaces, NetPlaces, ThreadPlaces, AllButtons

\* A thread that goes on to a place of its entry function keeps the part of
\* the invariant that is about places.
LEMMA ThreadMoves ==
    ASSUME IndInv, NEW t \in Threads, NEW place \in PlacesOf(kind[t]),
           pc' = [pc EXCEPT ![t] = place], kind' = kind
    PROVE  /\ kind' \in [Threads -> {"none", "playback", "stream", "net"}]
           /\ pc' \in [Threads -> ThreadPlaces]
           /\ ThreadsInPlace'
<1>1. kind[t] \in {"none", "playback", "stream", "net"} /\ pc \in [Threads -> ThreadPlaces]
  BY DEF IndInv, TypeOK
<1>2. place \in ThreadPlaces
  BY <1>1 DEF PlacesOf
<1>3. pc' \in [Threads -> ThreadPlaces]
  BY <1>1, <1>2
<1>4. ASSUME NEW u \in Threads PROVE pc'[u] \in PlacesOf(kind'[u])
  BY <1>1, <1>4 DEF IndInv, ThreadsInPlace
<1>. QED  BY <1>3, <1>4 DEF IndInv, TypeOK, ThreadsInPlace

\* So does the creation of a thread.
LEMMA ThreadBegins ==
    ASSUME IndInv, NEW k \in {"playback", "stream", "net"}, NEW place \in PlacesOf(k),
           BeginThread(k, place)
    PROVE  /\ kind' \in [Threads -> {"none", "playback", "stream", "net"}]
           /\ pc' \in [Threads -> ThreadPlaces]
           /\ ThreadsInPlace'
<1>1. kind \in [Threads -> {"none", "playback", "stream", "net"}] /\ pc \in [Threads -> ThreadPlaces]
  BY DEF IndInv, TypeOK
<1>2. CASE UNCHANGED threads
  BY <1>1, <1>2 DEF IndInv, ThreadsInPlace, threads
<1>3. CASE \E t \in Threads : kind' = [kind EXCEPT ![t] = k] /\ Goto(t, place)
  <2>1. PICK t \in Threads : kind' = [kind EXCEPT ![t] = k] /\ pc' = [pc EXCEPT ![t] = place]
    BY <1>3 DEF Goto
  <2>2. place \in ThreadPlaces
    BY DEF PlacesOf
  <2>3. ASSUME NEW u \in Threads PROVE pc'[u] \in PlacesOf(kind'[u])
    BY <1>1, <2>1, <2>3 DEF IndInv, ThreadsInPlace
  <2>. QED  BY <1>1, <2>1, <2>2, <2>3 DEF ThreadsInPlace
<1>. QED  BY <1>2, <1>3 DEF BeginThread

LEMMA InitIndInv == Init => IndInv
<1>. SUFFICES ASSUME Init PROVE IndInv
  OBVIOUS
<1>. USE Mp3Assumption DEF Init
<1>0. /\ ui \in [pc : UiPlaces, op : AllButtons \cup {"none", "unpause"}]
      /\ playlist \in [gen : 0 .. MaxPlaylists, len : 0 .. MaxTracks]
      /\ kind \in [Threads -> {"none", "playback", "stream", "net"}]
      /\ pc \in [Threads -> ThreadPlaces]
  OBVIOUS
<1>1. TypeOK
  BY <1>0 DEF TypeOK
<1>4. ListHasGeneration
  BY DEF ListHasGeneration
<1>2. PlacesOf("none") = {"unborn"}
  BY DEF PlacesOf
<1>3. ThreadsInPlace
  BY <1>2 DEF Init, ThreadsInPlace
<1>. QED  BY <1>1, <1>3, <1>4 DEF IndInv

\* The entry that follows an allocated one, and the first one, are entries.
LEMMA EntriesFollow ==
    ASSUME TypeOK, ListHasGeneration
    PROVE  /\ FirstEntry \in Entries \cup {NoEntry}
           /\ \A e \in Entries \cup {NoEntry} : Allocated(e) =>
                 NextEntry(e) \in Entries \cup {NoEntry} /\ PrevEntry(e) \in Entries \cup {NoEntry}
<1>1. /\ playlist.gen \in 0 .. MaxPlaylists /\ playlist.len \in 0 .. MaxTracks
      /\ MaxPlaylists \in Nat /\ MaxTracks \in Nat /\ MaxTracks > 0
  BY Mp3Assumption DEF TypeOK
<1>2. FirstEntry \in Entries \cup {NoEntry}
  BY <1>1 DEF FirstEntry, Entries, ListHasGeneration
<1>3. ASSUME NEW e \in Entries, e.pos < playlist.len PROVE [e EXCEPT !.pos = @ + 1] \in Entries
  BY <1>1, <1>3 DEF Entries
<1>4. ASSUME NEW e \in Entries, e.pos > 1 PROVE [e EXCEPT !.pos = @ - 1] \in Entries
  BY <1>1, <1>4 DEF Entries
<1>. QED  BY <1>2, <1>3, <1>4 DEF Allocated, NextEntry, PrevEntry

\* Every operation of the GUI thread preserves the invariant.
LEMMA UiIndInv ==
    ASSUME IndInv, (\E op \in Buttons : Press(op)) \/ PressLoop \/ UiProceeds
    PROVE  IndInv'
<1>. USE Mp3Assumption
<1>. DEFINE UiTypes == [pc : UiPlaces, op : AllButtons \cup {"none", "unpause"}]
<1>0. /\ TypeOK /\ ListHasGeneration /\ ui \in UiTypes
      /\ UNCHANGED threads => ThreadsInPlace'
  BY DEF IndInv, TypeOK, ThreadsInPlace, threads
<1>1. ASSUME NEW op \in Buttons, Press(op) PROVE IndInv'
  <2>1. /\ ui' \in UiTypes
        /\ ui'.op = "play" => playlist.gen < MaxPlaylists
    BY <1>1 DEF Press, HasEffect
  <2>2. TypeOK' /\ ListHasGeneration'
    BY <1>0, <1>1, <2>1 DEF Press, TypeOK, ListHasGeneration, flags, list, net, sock, threads
  <2>. QED  BY <1>0, <1>1, <2>2 DEF Press, IndInv
<1>2. CASE PressLoop
  <2>1. TypeOK' /\ ListHasGeneration'
    BY <1>0, <1>2 DEF PressLoop, TypeOK, ListHasGeneration, flags, net, sock, threads
  <2>. QED  BY <1>0, <1>2, <2>1 DEF PressLoop, IndInv
<1>3. CASE SetPause
  <2>1. TypeOK' /\ ListHasGeneration'
    BY <1>0, <1>3 DEF SetPause, UiIdle, TypeOK, ListHasGeneration, list, net, sock, threads
  <2>. QED  BY <1>0, <1>3, <2>1 DEF SetPause, IndInv
<1>4. CASE MP3_Stop
  <2>1. /\ ui.pc \in {"test", "flag", "wait", "clear"}
        /\ ui' \in UiTypes /\ ui'.op = ui.op
        /\ cancel' \in BOOLEAN /\ cancelSema' \in {0, 1}
        /\ UNCHANGED <<status, list, net, sock, enough, threads>>
    BY <1>0, <1>4 DEF MP3_Stop, TestStatus, RaiseCancel, AwaitCancel, ClearCancel, UiGoto, flags, TypeOK
  <2>2. TypeOK' /\ ListHasGeneration'
    BY <1>0, <2>1 DEF TypeOK, ListHasGeneration, list, net, sock, threads
  <2>. QED  BY <1>0, <2>1, <2>2 DEF IndInv
<1>5. CASE ActStop \/ ActReplay \/ ActDownload \/ Download \/ ActOpenStream \/ Connect
  <2>1. /\ ui' \in UiTypes /\ (ui'.op = "play" => ui'.pc \notin {"test", "flag", "wait", "clear", "act"})
        /\ UNCHANGED <<flags, list, net, sock, enough, threads>>
    BY <1>0, <1>5 DEF ActStop, ActReplay, ActDownload, Download, ActOpenStream, Connect, UiGoto, UiIdle
  <2>2. TypeOK' /\ ListHasGeneration'
    BY <1>0, <2>1 DEF TypeOK, ListHasGeneration, flags, list, net, sock, threads
  <2>. QED  BY <1>0, <2>1, <2>2 DEF IndInv
<1>6. CASE ActPlay
  <2>1. PICK n \in 0 .. MaxTracks : playlist' = [gen |-> playlist.gen + 1, len |-> n]
    BY <1>6 DEF ActPlay
  <2>2. playlist.gen \in 0 .. MaxPlaylists /\ playlist.gen < MaxPlaylists
    BY <1>0, <1>6 DEF ActPlay, ListHasGeneration, TypeOK
  <2>3. playlist' \in [gen : 0 .. MaxPlaylists, len : 0 .. MaxTracks] /\ playlist'.gen > 0
    BY <2>1, <2>2
  <2>4. ui' \in UiTypes /\ ui'.pc \in {"begin_playback", "idle"}
    BY <1>0, <1>6 DEF ActPlay, UiGoto, UiIdle
  <2>5. UNCHANGED <<flags, loop, current, net, sock, enough, threads>>
    BY <1>6 DEF ActPlay
  <2>6. TypeOK' /\ ListHasGeneration'
    BY <1>0, <2>3, <2>4, <2>5 DEF TypeOK, ListHasGeneration, flags, net, sock, threads
  <2>. QED  BY <1>0, <2>5, <2>6 DEF IndInv
<1>7. CASE ActSkip
  <2>1. current \in Entries \cup {NoEntry}
    BY <1>0 DEF TypeOK
  <2>2. current' \in Entries \cup {NoEntry}
    BY <1>0, <1>7, <2>1, EntriesFollow DEF ActSkip
  <2>3. ui' = [pc |-> "test", op |-> "replay"] /\ UNCHANGED <<flags, loop, playlist, net, sock, enough, threads>>
    BY <1>7 DEF ActSkip
  <2>4. TypeOK' /\ ListHasGeneration'
    BY <1>0, <2>2, <2>3 DEF TypeOK, ListHasGeneration, flags, net, sock, threads
  <2>. QED  BY <1>0, <2>3, <2>4 DEF IndInv
<1>8. CASE OpenSocket \/ ConnectFails
  <2>1. /\ ui' \in UiTypes /\ ui'.pc \in {"connect", "idle"}
        /\ socket' \in Sockets \cup {NoSocket} /\ open' \in SUBSET Sockets
        /\ UNCHANGED <<flags, list, net, enough, threads>>
    BY <1>0, <1>8 DEF OpenSocket, ConnectFails, UiGoto, UiIdle, TypeOK
  <2>2. TypeOK' /\ ListHasGeneration'
    BY <1>0, <2>1 DEF TypeOK, ListHasGeneration, flags, list, net, threads
  <2>. QED  BY <1>0, <2>1, <2>2 DEF IndInv
<1>9. CASE BeginPlayback \/ BeginNet \/ BeginStream
  <2>1. "start" \in PlacesOf("playback") /\ "n_start" \in PlacesOf("net") /\ "s_start" \in PlacesOf("stream")
    BY DEF PlacesOf
  <2>2. \/ BeginThread("playback", "start") \/ BeginThread("net", "n_start")
        \/ BeginThread("stream", "s_start") \/ UNCHANGED threads
    BY <1>9 DEF BeginPlayback, BeginNet, BeginStream
  <2>3. /\ kind' \in [Threads -> {"none", "playback", "stream", "net"}]
        /\ pc' \in [Threads -> ThreadPlaces] /\ ThreadsInPlace'
    BY <1>0, <2>1, <2>2, ThreadBegins DEF threads, TypeOK
  <2>4. /\ ui' \in UiTypes /\ ui'.pc \in {"begin_stream", "idle"}
        /\ UNCHANGED <<flags, list, net, sock, enough>>
    BY <1>0, <1>9 DEF BeginPlayback, BeginNet, BeginStream, UiGoto, UiIdle
  <2>5. TypeOK' /\ ListHasGeneration'
    BY <1>0, <2>3, <2>4 DEF TypeOK, ListHasGeneration, flags, list, net, sock
  <2>. QED  BY <2>3, <2>5 DEF IndInv
<1>. QED
  BY <1>1, <1>2, <1>3, <1>4, <1>5, <1>6, <1>7, <1>8, <1>9 DEF UiProceeds

\* The entry function of a thread follows from the place where it is.
LEMMA KindAt ==
    ASSUME IndInv, NEW t \in Threads
    PROVE  /\ kind[t] \in {"none", "playback", "stream", "net"}
           /\ pc[t] \in PlaybackPlaces => kind[t] = "playback"
           /\ pc[t] \in StreamPlaces => kind[t] = "stream"
           /\ pc[t] \in DecoderPlaces => kind[t] \in {"playback", "stream"}
           /\ pc[t] \in NetPlaces => kind[t] = "net"
           /\ kind[t] = "none" => pc[t] = "unborn"
<1>1. kind[t] \in {"none", "playback", "stream", "net"} /\ pc[t] \in PlacesOf(kind[t])
  BY DEF IndInv, TypeOK, ThreadsInPlace
<1>. QED  BY <1>1 DEF PlacesOf

\* Every step of a thread takes it to a place of its entry function.
LEMMA ThreadStep ==
    ASSUME IndInv, NEW t \in Threads,
           \/ Playback(t) \/ Decode(t) \/ DecodingEnds(t) \/ Stream(t)
           \/ EndThread(t) \/ SignalCancel(t) \/ NetProceeds(t) \/ NetData(t) \/ NetError(t)
    PROVE  /\ \E place \in PlacesOf(kind[t]) : pc' = [pc EXCEPT ![t] = place]
           /\ kind' = kind
<1>1. CASE Playback(t)
  BY <1>1, KindAt DEF Playback, ChooseEntry, LoadTrack, StartPlaying, LeaveTrack, Goto, PlacesOf
<1>2. CASE Decode(t) \/ DecodingEnds(t)
  <2>1. kind[t] \in {"playback", "stream"}
    BY <1>2, KindAt DEF Decode, StreamInput, FileInput, StopDecoding, Refill, FinishTrack, DecodingEnds
  <2>2. {"input", "output", "finish", IF kind[t] = "playback" THEN "after" ELSE "s_net"}
           \subseteq PlacesOf(kind[t])
    BY <2>1 DEF PlacesOf
  <2>. QED
    BY <1>2, <2>2 DEF Decode, StreamInput, FileInput, StopDecoding, Refill, FinishTrack, DecodingEnds, Goto
<1>3. CASE Stream(t)
  BY <1>3, KindAt DEF Stream, StartStreaming, TestShutdown, RaiseNetCancel, AwaitNet, ClearNetCancel,
     Goto, PlacesOf
<1>4. CASE EndThread(t) \/ SignalCancel(t)
  BY <1>4 DEF EndThread, SignalCancel, Goto, PlacesOf
<1>5. CASE NetProceeds(t) \/ NetData(t) \/ NetError(t)
  <2>1. kind[t] = "net"
    BY <1>5, KindAt DEF NetProceeds, NetStart, NetTestCancel, NetDisconnect, NetRaiseShutdown,
       NetEndThread, NetSignal, NetData, NetError
  <2>2. PlacesOf(kind[t]) = NetPlaces \cup {"end", "tail", "dead"}
    BY <2>1 DEF PlacesOf
  <2>. QED
    BY <1>5, <2>2 DEF NetProceeds, NetStart, NetTestCancel, NetDisconnect, NetRaiseShutdown,
       NetEndThread, NetSignal, NetData, NetError, Goto
<1>. QED  BY <1>1, <1>2, <1>3, <1>4, <1>5

\* Every step of a thread preserves the invariant.
LEMMA ThreadIndInv ==
    ASSUME IndInv, NEW t \in Threads,
           \/ Playback(t) \/ Decode(t) \/ DecodingEnds(t) \/ Stream(t)
           \/ EndThread(t) \/ SignalCancel(t) \/ NetProceeds(t) \/ NetData(t) \/ NetError(t)
    PROVE  IndInv'
<1>1. /\ kind' \in [Threads -> {"none", "playback", "stream", "net"}]
      /\ pc' \in [Threads -> ThreadPlaces] /\ ThreadsInPlace'
  BY ThreadStep, ThreadMoves
<1>2. TypeOK
  BY DEF IndInv
<1>3. /\ current' \in Entries \cup {NoEntry}
      /\ loop' = loop /\ playlist' = playlist /\ ui' = ui
  <2>1. current \in Entries \cup {NoEntry}
    BY <1>2 DEF TypeOK
  <2>2. CASE ChooseEntry(t) \/ LeaveTrack(t)
    BY <2>1, <2>2, EntriesFollow DEF IndInv, ChooseEntry, LeaveTrack
  <2>3. CASE UNCHANGED <<list, ui>>
    BY <2>1, <2>3 DEF list
  <2>. QED
    BY <2>2, <2>3 DEF Playback, LoadTrack, StartPlaying, Decode, StreamInput, FileInput, StopDecoding,
       Refill, FinishTrack, DecodingEnds, Stream, StartStreaming, TestShutdown, RaiseNetCancel, AwaitNet,
       ClearNetCancel, EndThread, SignalCancel, NetProceeds, NetStart, NetTestCancel, NetDisconnect,
       NetRaiseShutdown, NetEndThread, NetSignal, NetData, NetError
<1>4. /\ status' \in {"STOPPED", "PLAYING", "PAUSED", "STREAMING"}
      /\ cancel' \in BOOLEAN /\ cancelSema' \in {0, 1}
  BY <1>2 DEF TypeOK, flags, Playback, ChooseEntry, LeaveTrack, LoadTrack, StartPlaying, Decode, StreamInput,
     FileInput, StopDecoding, Refill, FinishTrack, DecodingEnds, Stream, StartStreaming, TestShutdown,
     RaiseNetCancel, AwaitNet, ClearNetCancel, EndThread, SignalCancel, NetProceeds, NetStart, NetTestCancel,
     NetDisconnect, NetRaiseShutdown, NetEndThread, NetSignal, NetData, NetError
<1>5. /\ netCancel' \in BOOLEAN /\ netShutdown' \in BOOLEAN /\ netSema' \in {0, 1}
      /\ socket' \in Sockets \cup {NoSocket} /\ open' \in SUBSET Sockets
      /\ enough' \in BOOLEAN
  BY <1>2 DEF TypeOK, net, sock, Playback, ChooseEntry, LeaveTrack, LoadTrack, StartPlaying, Decode,
     StreamInput, FileInput, StopDecoding, Refill, FinishTrack, DecodingEnds, Stream, StartStreaming,
     TestShutdown, RaiseNetCancel, AwaitNet, ClearNetCancel, EndThread, SignalCancel, NetProceeds, NetStart,
     NetTestCancel, NetDisconnect, NetRaiseShutdown, NetEndThread, NetSignal, NetData, NetError
<1>6. TypeOK'
  BY <1>1, <1>2, <1>3, <1>4, <1>5 DEF TypeOK
<1>7. ListHasGeneration'
  BY <1>3 DEF IndInv, ListHasGeneration
<1>. QED  BY <1>1, <1>6, <1>7 DEF IndInv

LEMMA StepIndInv == IndInv /\ [Next]_vars => IndInv'
<1>. SUFFICES ASSUME IndInv, [Next]_vars PROVE IndInv'
  OBVIOUS
<1>1. CASE UNCHANGED vars
  BY <1>1 DEF IndInv, TypeOK, ThreadsInPlace, ListHasGeneration, vars, flags, list, net, sock, threads
<1>2. CASE Next
  BY <1>2, UiIndInv, ThreadIndInv DEF Next
<1>. QED  BY <1>1, <1>2

\* The inductive invariant holds in every reachable state.
THEOREM Invariant == Spec => []IndInv
BY InitIndInv, StepIndInv, PTL DEF Spec

\* Every variable of the player has its type, whatever the user, the files and
\* the server do (the kernel keeps the two semaphores at their maximum of 1).
THEOREM TypeCorrect == Spec => []TypeOK
<1>1. IndInv => TypeOK
  BY DEF IndInv
<1>. QED  BY <1>1, Invariant, PTL

------------------------------------------------------------------------------
\* Without the pause button, a step leaves a status other than STOPPED only
\* while a thread is decoding that will reset it.
LEMMA OwnerStep ==
    ASSUME "pause" \notin Buttons, IndInv, StatusHasOwner, ui.pc # "setpause", [Next]_vars
    PROVE  StatusHasOwner' /\ ui'.pc # "setpause"
<1>. DEFINE KeepsDecoders ==
        \A u \in Threads : pc[u] \in DecoderPlaces => kind'[u] = kind[u] /\ pc'[u] \in DecoderPlaces
<1>0. kind \in [Threads -> {"none", "playback", "stream", "net"}] /\ pc \in [Threads -> ThreadPlaces]
      /\ ui \in [pc : UiPlaces, op : AllButtons \cup {"none", "unpause"}]
  BY DEF IndInv, TypeOK
<1>1. ASSUME status' = status, KeepsDecoders PROVE StatusHasOwner'
  BY <1>1 DEF StatusHasOwner, Decoding
<1>2. ASSUME NEW op \in Buttons, Press(op) PROVE StatusHasOwner' /\ ui'.pc # "setpause"
  <2>1. UNCHANGED <<flags, threads>> /\ op # "pause"
    BY <1>2 DEF Press
  <2>. QED  BY <1>1, <1>2, <2>1 DEF Press, flags, threads
<1>3. CASE PressLoop \/ UNCHANGED vars
  BY <1>1, <1>3 DEF PressLoop, vars, flags, threads
<1>4. CASE UiProceeds
  <2>1. ui'.pc # "setpause"
    BY <1>0, <1>4 DEF UiProceeds, SetPause, MP3_Stop, TestStatus, RaiseCancel, AwaitCancel, ClearCancel,
       ActStop, ActPlay, ActReplay, ActSkip, BeginPlayback, ActDownload, Download, ActOpenStream, OpenSocket,
       ConnectFails, Connect, BeginNet, BeginStream, UiGoto, UiIdle
  <2>2. status' = status
    BY <1>4 DEF UiProceeds, SetPause, MP3_Stop, TestStatus, RaiseCancel, AwaitCancel, ClearCancel,
       ActStop, ActPlay, ActReplay, ActSkip, BeginPlayback, ActDownload, Download, ActOpenStream, OpenSocket,
       ConnectFails, Connect, BeginNet, BeginStream, flags
  <2>3. \/ UNCHANGED threads
        \/ BeginThread("playback", "start") \/ BeginThread("net", "n_start")
        \/ BeginThread("stream", "s_start")
    BY <1>4 DEF UiProceeds, SetPause, MP3_Stop, TestStatus, RaiseCancel, AwaitCancel, ClearCancel,
       ActStop, ActPlay, ActReplay, ActSkip, BeginPlayback, ActDownload, Download, ActOpenStream, OpenSocket,
       ConnectFails, Connect, BeginNet, BeginStream
  <2>4. KeepsDecoders
    BY <1>0, <2>3 DEF BeginThread, Goto, threads
  <2>. QED  BY <1>1, <2>1, <2>2, <2>4
<1>5. ASSUME NEW t \in Threads,
             \/ Playback(t) \/ Decode(t) \/ DecodingEnds(t) \/ Stream(t)
             \/ EndThread(t) \/ SignalCancel(t) \/ NetProceeds(t) \/ NetData(t) \/ NetError(t)
      PROVE  StatusHasOwner' /\ ui'.pc # "setpause"
  <2>1. ui' = ui
    BY <1>5 DEF Playback, ChooseEntry, LeaveTrack, LoadTrack, StartPlaying, Decode, StreamInput, FileInput,
       StopDecoding, Refill, FinishTrack, DecodingEnds, Stream, StartStreaming, TestShutdown, RaiseNetCancel,
       AwaitNet, ClearNetCancel, EndThread, SignalCancel, NetProceeds, NetStart, NetTestCancel, NetDisconnect,
       NetRaiseShutdown, NetEndThread, NetSignal, NetData, NetError
  <2>2. PICK place \in PlacesOf(kind[t]) : pc' = [pc EXCEPT ![t] = place] /\ kind' = kind
    BY <1>5, ThreadStep
  <2>3. CASE StartPlaying(t) \/ StartStreaming(t)
    BY <1>0, <2>3, KindAt DEF StartPlaying, StartStreaming, StatusHasOwner, Decoding, Goto
  <2>4. CASE FinishTrack(t)
    BY <2>4 DEF FinishTrack, StatusHasOwner
  <2>5. CASE StreamInput(t) \/ FileInput(t) \/ StopDecoding(t) \/ Refill(t) \/ DecodingEnds(t)
    <3>1. status' = status /\ pc'[t] \in DecoderPlaces
      BY <1>0, <2>5 DEF StreamInput, FileInput, StopDecoding, Refill, DecodingEnds, Goto, flags
    <3>2. KeepsDecoders
      BY <1>0, <2>2, <3>1
    <3>. QED  BY <1>1, <2>1, <3>1, <3>2
  <2>6. CASE \/ ChooseEntry(t) \/ LoadTrack(t) \/ LeaveTrack(t)
             \/ TestShutdown(t) \/ RaiseNetCancel(t) \/ AwaitNet(t) \/ ClearNetCancel(t)
             \/ EndThread(t) \/ SignalCancel(t) \/ NetProceeds(t) \/ NetData(t) \/ NetError(t)
    <3>1. status' = status /\ pc[t] \notin DecoderPlaces
      BY <2>6 DEF ChooseEntry, LoadTrack, LeaveTrack, TestShutdown, RaiseNetCancel, AwaitNet, ClearNetCancel,
         EndThread, SignalCancel, NetProceeds, NetStart, NetTestCancel, NetDisconnect, NetRaiseShutdown,
         NetEndThread, NetSignal, NetData, NetError, flags
    <3>2. KeepsDecoders
      BY <1>0, <2>2, <3>1
    <3>. QED  BY <1>1, <2>1, <3>1, <3>2
  <2>7. StatusHasOwner'
    BY <1>5, <2>3, <2>4, <2>5, <2>6 DEF Playback, Decode, Stream
  <2>. QED  BY <2>1, <2>7
<1>. QED  BY <1>2, <1>3, <1>4, <1>5 DEF Next

\* As long as there is no pause button, mp3_status never names a thread that is
\* not there, however threads and buttons interleave: MP3_Stop waits only for
\* a thread that it saw decoding.
THEOREM StatusOwned == ASSUME "pause" \notin Buttons PROVE Spec => []StatusHasOwner
<1>1. Init => StatusHasOwner /\ ui.pc # "setpause"
  BY DEF Init, StatusHasOwner
<1>2. IndInv /\ StatusHasOwner /\ ui.pc # "setpause" /\ [Next]_vars
         => (StatusHasOwner /\ ui.pc # "setpause")'
  BY OwnerStep
<1>. QED  BY <1>1, <1>2, Invariant, PTL DEF Spec

------------------------------------------------------------------------------
(* The handshakes between the GUI, the decoding thread and the net thread, for *)
(* a user who waits until threads have started or ended, tracks that outlast   *)
(* the button pressed, and a server that stays.                                *)

Calm == ~Impatient /\ ~TracksEnd /\ ~HangsUp /\ ~RunsOut

\* OnePlayer and its like are not inductive: they do not say why the GUI, past
\* its wait, may create a thread.  What follows says what each flag, semaphore
\* and place of the GUI thread tells about the other threads.

Running(t) == pc[t] \notin {"unborn", "dead"}
Player(t) == Running(t) /\ kind[t] \in {"playback", "stream"}
NetThread(t) == Running(t) /\ kind[t] = "net"
Unborn == {t \in Threads : pc[t] = "unborn"}

AtMostOneOfEach ==
    /\ \A t, u \in Threads : Player(t) /\ Player(u) => t = u
    /\ \A t, u \in Threads : NetThread(t) /\ NetThread(u) => t = u

\* mp3_status names the thread that decodes.
StatusTells ==
    /\ StatusHasOwner
    /\ \A t \in Threads :
          /\ Decoding(t, "playback") => status \in {"PLAYING", "PAUSED"}
          /\ Decoding(t, "stream") => status = "STREAMING"

\* mp3_cancel_playback is up while the GUI waits and until it has cleared it;
\* the signal comes from a player that has ended, and a decoder returns only
\* when it is told to.
CancelHandshake ==
    /\ cancel <=> ui.pc \in {"wait", "clear"}
    /\ cancelSema = 1 => ui.pc = "wait" /\ \A t \in Threads : ~Player(t)
    /\ \A t \in Threads :
          pc[t] \in {"finish", "after", "s_net", "s_cancel", "s_wait", "s_clear"} => cancel

\* The same between the stream and the net thread, which has a stream thread to
\* wait for it, or is about to get one.
NetHandshake ==
    /\ ~netShutdown
    /\ netCancel => \E t \in Threads : pc[t] \in {"s_wait", "s_clear"}
    /\ netSema = 1 => /\ \E t \in Threads : pc[t] = "s_wait"
                      /\ \A t \in Threads : ~NetThread(t)
    /\ (\E t \in Threads : pc[t] = "s_clear") => \A t \in Threads : ~NetThread(t)
    /\ \A t \in Threads : NetThread(t) =>
          /\ pc[t] \in {"n_start", "n_top", "n_recv", "n_bye", "end", "tail"}
          /\ pc[t] \in {"n_bye", "end", "tail"} => netCancel
          /\ \/ ui.pc = "begin_stream"
             \/ \E u \in Threads : \/ pc[u] \in {"s_start", "s_net", "s_cancel", "s_wait"}
                                   \/ Decoding(u, "stream")

\* What the GUI thread may rely on, by where it is.
GuiKnows ==
    /\ ui.pc = "test" => Settled
    /\ ui.pc = "flag" => status # "STOPPED"
    /\ ui.pc = "setpause" => status \in {"PLAYING", "PAUSED"}
    /\ ui.pc \in {"clear", "act", "download", "socket", "connect", "begin_net", "begin_playback"}
          => \A t \in Threads : ~Running(t)
    /\ ui.pc = "begin_stream" => \A t \in Threads : ~Player(t)

\* Neither the net nor the stream thread is refused.
ThreadsLeft ==
    /\ ui.pc \in {"socket", "connect", "begin_net", "begin_stream"} => ui.op = "bookmark"
    /\ ui.op \in {"station", "bookmark"} /\ ui.pc # "begin_stream" => \E t, u \in Unborn : t # u
    /\ ui.pc = "begin_stream" => Unborn # {}

\* One descriptor is open at most, mp3_net_socket, while someone will close it.
SocketKept ==
    /\ open \subseteq {socket}
    /\ open # {} <=> \/ ui.pc \in {"connect", "begin_net"}
                     \/ \E t \in Threads : pc[t] \in {"n_start", "n_top", "n_recv", "n_bye"}

Handshakes ==
    /\ AtMostOneOfEach /\ StatusTells /\ CancelHandshake /\ NetHandshake
    /\ GuiKnows /\ ThreadsLeft /\ SocketKept
CalmInv == IndInv /\ Handshakes

\* A step of a thread keeps the handshakes.
LEMMA ThreadCalm ==
    ASSUME Calm, CalmInv, NEW t \in Threads,
           \/ Playback(t) \/ Decode(t) \/ DecodingEnds(t) \/ Stream(t)
           \/ EndThread(t) \/ SignalCancel(t) \/ NetProceeds(t) \/ NetData(t) \/ NetError(t)
    PROVE  Handshakes'
<1>. USE DEF CalmInv, Handshakes, AtMostOneOfEach, StatusTells, CancelHandshake, NetHandshake, GuiKnows,
       ThreadsLeft, SocketKept, Player, NetThread, Running, Unborn, Decoding, StatusHasOwner, Settled,
       flags, list, net, sock
<1>1. /\ kind \in [Threads -> {"none", "playback", "stream", "net"}] /\ pc \in [Threads -> ThreadPlaces]
      /\ kind' = kind
  BY ThreadStep DEF IndInv, TypeOK
<1>2. \A u \in Threads :
           /\ kind[u] \in {"none", "playback", "stream", "net"}
           /\ pc[u] \in PlaybackPlaces => kind[u] = "playback"
           /\ pc[u] \in StreamPlaces => kind[u] = "stream"
           /\ pc[u] \in DecoderPlaces => kind[u] \in {"playback", "stream"}
           /\ pc[u] \in NetPlaces => kind[u] = "net"
           /\ kind[u] = "none" => pc[u] = "unborn"
  BY KindAt
<1>3. CASE ChooseEntry(t)
  BY <1>1, <1>2, <1>3 DEF ChooseEntry, Goto, Calm
<1>4. CASE LoadTrack(t)
  BY <1>1, <1>2, <1>4 DEF LoadTrack, Goto, Calm
<1>5. CASE StartPlaying(t)
  BY <1>1, <1>2, <1>5 DEF StartPlaying, Goto, Calm
<1>6. CASE LeaveTrack(t)
  BY <1>1, <1>2, <1>6 DEF LeaveTrack, Goto, Calm
<1>7. CASE StreamInput(t)
  BY <1>1, <1>2, <1>7 DEF StreamInput, Goto, Calm
<1>8. CASE FileInput(t)
  BY <1>1, <1>2, <1>8 DEF FileInput, Goto, Calm
<1>9. CASE StopDecoding(t)
  BY <1>1, <1>2, <1>9 DEF StopDecoding, Goto, Calm
<1>10. CASE Refill(t)
  BY <1>1, <1>2, <1>10 DEF Refill, Goto, Calm
<1>11. CASE FinishTrack(t)
  BY <1>1, <1>2, <1>11 DEF FinishTrack, Goto, Calm
<1>12. CASE DecodingEnds(t)
  BY <1>1, <1>2, <1>12 DEF DecodingEnds, Goto, Calm
<1>13. CASE StartStreaming(t)
  BY <1>1, <1>2, <1>13 DEF StartStreaming, Goto, Calm
<1>14. CASE TestShutdown(t)
  BY <1>1, <1>2, <1>14 DEF TestShutdown, Goto, Calm
<1>15. CASE RaiseNetCancel(t)
  BY <1>1, <1>2, <1>15 DEF RaiseNetCancel, Goto, Calm
<1>16. CASE AwaitNet(t)
  BY <1>1, <1>2, <1>16 DEF AwaitNet, Goto, Calm
<1>17. CASE ClearNetCancel(t)
  BY <1>1, <1>2, <1>17 DEF ClearNetCancel, Goto, Calm
<1>18. CASE EndThread(t)
  BY <1>1, <1>2, <1>18 DEF EndThread, Goto, Calm
<1>19. CASE SignalCancel(t)
  BY <1>1, <1>2, <1>19 DEF SignalCancel, Goto, Calm
<1>20. CASE NetStart(t)
  BY <1>1, <1>2, <1>20, Mp3Assumption DEF NetStart, Goto, Calm, IndInv, TypeOK
<1>21. CASE NetTestCancel(t)
  BY <1>1, <1>2, <1>21 DEF NetTestCancel, Goto, Calm
<1>22. CASE NetDisconnect(t)
  BY <1>1, <1>2, <1>22 DEF NetDisconnect, Goto, Calm
<1>23. CASE NetRaiseShutdown(t)
  BY <1>1, <1>2, <1>23 DEF NetRaiseShutdown, Goto, Calm
<1>24. CASE NetEndThread(t)
  BY <1>1, <1>2, <1>24 DEF NetEndThread, Goto, Calm
<1>25. CASE NetSignal(t)
  BY <1>1, <1>2, <1>25 DEF NetSignal, Goto, Calm
<1>26. CASE NetData(t)
  BY <1>1, <1>2, <1>26 DEF NetData, Goto, Calm
<1>27. CASE NetError(t)
  BY <1>1, <1>2, <1>27 DEF NetError, Goto, Calm
<1>. QED
  BY <1>3, <1>4, <1>5, <1>6, <1>7, <1>8, <1>9, <1>10, <1>11, <1>12, <1>13, <1>14, <1>15, <1>16, <1>17, <1>18, <1>19, <1>20, <1>21, <1>22, <1>23, <1>24, <1>25, <1>26, <1>27 DEF Playback, Decode, Stream, NetProceeds

\* So does a step of the GUI thread.
LEMMA UiCalm ==
    ASSUME Calm, CalmInv, (\E op \in Buttons : Press(op)) \/ PressLoop \/ UiProceeds
    PROVE  Handshakes'
<1>. USE DEF CalmInv, Handshakes, AtMostOneOfEach, StatusTells, CancelHandshake, NetHandshake, GuiKnows,
       ThreadsLeft, SocketKept, Player, NetThread, Running, Unborn, Decoding, StatusHasOwner, Settled,
       flags, list, net, sock
<1>1. /\ kind \in [Threads -> {"none", "playback", "stream", "net"}] /\ pc \in [Threads -> ThreadPlaces]
      /\ ui \in [pc : UiPlaces, op : AllButtons \cup {"none", "unpause"}]
  BY DEF IndInv, TypeOK
<1>2. \A u \in Threads :
           /\ kind[u] \in {"none", "playback", "stream", "net"}
           /\ pc[u] \in PlaybackPlaces => kind[u] = "playback"
           /\ pc[u] \in StreamPlaces => kind[u] = "stream"
           /\ pc[u] \in DecoderPlaces => kind[u] \in {"playback", "stream"}
           /\ pc[u] \in NetPlaces => kind[u] = "net"
           /\ kind[u] = "none" => pc[u] = "unborn"
  BY KindAt
<1>3. ASSUME Cardinality({t \in Threads : pc[t] = "unborn"}) >= 2 PROVE \E t, u \in Unborn : t # u
  <2>1. CASE Unborn = {}
    <3>1. Cardinality({t \in Threads : pc[t] = "unborn"}) = 0
      BY <2>1, FS_EmptySet
    <3>. QED  BY <1>3, <3>1
  <2>2. CASE \E t \in Unborn : Unborn = {t}
    <3>1. Cardinality({t \in Threads : pc[t] = "unborn"}) = 1
      <4>1. PICK t : {u \in Threads : pc[u] = "unborn"} = {t}
        BY <2>2
      <4>2. Cardinality({t}) = 1
        BY FS_Singleton
      <4>. QED  BY <4>1, <4>2
    <3>. QED  BY <1>3, <3>1
  <2>. QED  BY <2>1, <2>2
<1>4. ASSUME NEW op \in Buttons, Press(op)
      PROVE  Handshakes'
  <2>1. /\ ui.pc = "idle" /\ Settled /\ UNCHANGED <<flags, list, net, sock, enough, threads>>
        /\ \/ ui' = [pc |-> "test", op |-> op] /\ (op \in {"station", "bookmark"} => \E t, u \in Unborn : t # u)
           \/ ui'.pc = "setpause" /\ ui'.op \in {"pause", "unpause"} /\ status \notin {"STOPPED", "STREAMING"}
    <3>1. Room(op) /\ op \in {"station", "bookmark"} => \E t, u \in Unborn : t # u
      BY <1>3 DEF Room, Calm
    <3>. QED
      BY <1>1, <1>4, <3>1 DEF Press, HasEffect, Calm
  <2>. HIDE DEF Settled
  <2>2. status \in {"STOPPED", "PLAYING", "PAUSED", "STREAMING"}
    BY DEF IndInv, TypeOK
  <2>3. Settled'
    BY <2>1 DEF Settled, threads
  <2>. QED  BY <1>1, <1>2, <2>1, <2>2, <2>3 DEF threads
<1>5. CASE PressLoop
  BY <1>1, <1>2, <1>5 DEF PressLoop, UiGoto, UiIdle, threads
<1>6. CASE SetPause
  BY <1>1, <1>2, <1>6 DEF SetPause, UiGoto, UiIdle, threads
<1>7. CASE TestStatus
  BY <1>1, <1>2, <1>7 DEF TestStatus, UiGoto, UiIdle, threads
<1>8. CASE RaiseCancel
  BY <1>1, <1>2, <1>8 DEF RaiseCancel, UiGoto, UiIdle, threads
<1>9. CASE AwaitCancel
  <2>1. \A t \in Threads : ~Player(t)
    BY <1>9 DEF AwaitCancel
  <2>2. \A t \in Threads : ~Running(t)
    BY <1>1, <1>2, <1>9, <2>1 DEF AwaitCancel
  <2>. QED  BY <1>1, <1>2, <1>9, <2>2 DEF AwaitCancel, UiGoto, UiIdle, threads
<1>10. CASE ClearCancel
  BY <1>1, <1>2, <1>10 DEF ClearCancel, UiGoto, UiIdle, threads
<1>11. CASE ActStop
  BY <1>1, <1>2, <1>11 DEF ActStop, UiGoto, UiIdle, threads
<1>12. CASE ActPlay
  BY <1>1, <1>2, <1>12 DEF ActPlay, UiGoto, UiIdle, threads
<1>13. CASE ActReplay
  BY <1>1, <1>2, <1>13 DEF ActReplay, UiGoto, UiIdle, threads
<1>14. CASE ActSkip
  BY <1>1, <1>2, <1>14 DEF ActSkip, UiGoto, UiIdle, threads
<1>15. CASE BeginPlayback
  BY <1>1, <1>2, <1>15 DEF BeginPlayback, UiGoto, UiIdle, threads, BeginThread, Goto
<1>16. CASE ActDownload
  BY <1>1, <1>2, <1>16 DEF ActDownload, UiGoto, UiIdle, threads
<1>17. CASE Download
  BY <1>1, <1>2, <1>17 DEF Download, UiGoto, UiIdle, threads
<1>18. CASE ActOpenStream
  BY <1>1, <1>2, <1>18 DEF ActOpenStream, UiGoto, UiIdle, threads
<1>19. CASE OpenSocket
  BY <1>1, <1>2, <1>19 DEF OpenSocket, UiGoto, UiIdle, threads
<1>20. CASE ConnectFails
  BY <1>1, <1>2, <1>20 DEF ConnectFails, UiGoto, UiIdle, threads
<1>21. CASE Connect
  BY <1>1, <1>2, <1>21 DEF Connect, UiGoto, UiIdle, threads
<1>22. CASE BeginNet
  <2>1. socket # NoSocket
    BY <1>22, Mp3Assumption DEF BeginNet, IndInv, TypeOK
  <2>2. PICK t \in Unborn, u \in Unborn : t # u
    BY <1>22 DEF BeginNet
  <2>3. PICK v \in Unborn : kind' = [kind EXCEPT ![v] = "net"] /\ pc' = [pc EXCEPT ![v] = "n_start"]
    BY <1>22, <2>1, <2>2 DEF BeginNet, BeginThread, Goto
  <2>4. Unborn' # {}
    BY <1>1, <2>2, <2>3
  <2>5. /\ \A x \in Threads \ {v} : pc'[x] = pc[x] /\ kind'[x] = kind[x] /\ ~Running(x)
        /\ pc'[v] = "n_start" /\ kind'[v] = "net"
        /\ ui'.pc = "begin_stream" /\ ui'.op = "bookmark"
        /\ UNCHANGED <<flags, list, net, sock, enough>>
    BY <1>1, <1>22, <2>1, <2>3 DEF BeginNet, UiGoto
  <2>6. /\ ui.pc = "begin_net" /\ v \in Threads /\ pc[v] = "unborn"
    BY <1>22, <2>3 DEF BeginNet
  <2>. HIDE DEF Unborn
  <2>71. AtMostOneOfEach' /\ StatusTells'
    BY <2>4, <2>5, <2>6
  <2>72. CancelHandshake'
    BY <2>4, <2>5, <2>6
  <2>73. NetHandshake'
    <3>1. ~netShutdown' /\ ~netCancel' /\ netSema' # 1
      BY <2>5, <2>6
    <3>2. \A x \in Threads : pc'[x] # "s_clear"
      BY <2>5, <2>6
    <3>. QED  BY <2>5, <2>6, <3>1, <3>2
  <2>74. GuiKnows'
    BY <2>4, <2>5, <2>6
  <2>75. ThreadsLeft'
    BY <2>4, <2>5
  <2>76. SocketKept'
    BY <2>4, <2>5, <2>6
  <2>. QED  BY <2>71, <2>72, <2>73, <2>74, <2>75, <2>76
<1>23. CASE BeginStream
  BY <1>1, <1>2, <1>23 DEF BeginStream, UiGoto, UiIdle, threads, BeginThread, Goto
<1>. QED
  BY <1>4, <1>5, <1>6, <1>7, <1>8, <1>9, <1>10, <1>11, <1>12, <1>13, <1>14, <1>15, <1>16, <1>17, <1>18, <1>19, <1>20, <1>21, <1>22, <1>23 DEF UiProceeds, MP3_Stop

LEMMA InitCalm == Init => CalmInv
<1>. SUFFICES ASSUME Init PROVE CalmInv
  OBVIOUS
<1>1. IndInv
  BY InitIndInv
<1>2. \A t \in Threads : pc[t] = "unborn" /\ kind[t] = "none"
  BY DEF Init
<1>3. AtMostOneOfEach /\ StatusTells /\ CancelHandshake /\ NetHandshake
  BY <1>2 DEF Init, AtMostOneOfEach, StatusTells, StatusHasOwner, Decoding, CancelHandshake, NetHandshake,
     Player, NetThread, Running
<1>4. GuiKnows /\ ThreadsLeft /\ SocketKept
  BY <1>2 DEF Init, GuiKnows, ThreadsLeft, SocketKept
<1>. QED  BY <1>1, <1>3, <1>4 DEF CalmInv, Handshakes

LEMMA StepCalm == ASSUME Calm PROVE CalmInv /\ [Next]_vars => CalmInv'
<1>. SUFFICES ASSUME CalmInv, [Next]_vars PROVE CalmInv'
  OBVIOUS
<1>1. IndInv'
  BY StepIndInv DEF CalmInv
<1>2. CASE UNCHANGED vars
  BY <1>1, <1>2 DEF CalmInv, Handshakes, AtMostOneOfEach, StatusTells, CancelHandshake, NetHandshake, GuiKnows,
     ThreadsLeft, SocketKept, Player, NetThread, Running, Unborn, Decoding, StatusHasOwner, Settled,
     vars, flags, list, net, sock, threads
<1>3. CASE Next
  BY <1>1, <1>3, UiCalm, ThreadCalm DEF Next, CalmInv
<1>. QED  BY <1>2, <1>3

\* The inductive invariant of the handshakes holds in every reachable state.
THEOREM CalmInvariant == ASSUME Calm PROVE Spec => []CalmInv
BY InitCalm, StepCalm, PTL DEF Spec

\* The handshakes give what the comments of mp3.c and GUI_M_Radio.c promise.
LEMMA CalmSuffices ==
    CalmInv => StatusHasOwner /\ OnePlayer /\ NoConcurrentSocketCalls /\ NetWaitedFor /\ SocketClosedOnce
<1>. SUFFICES ASSUME CalmInv
              PROVE  StatusHasOwner /\ OnePlayer /\ NoConcurrentSocketCalls /\ NetWaitedFor /\ SocketClosedOnce
  OBVIOUS
<1>1. \A t \in Threads : /\ IsPlayer(t) => Player(t)
                         /\ Live(t) => Running(t)
                         /\ Live(t) /\ kind[t] = "net" => NetThread(t)
                         /\ pc[t] \in {"n_start", "n_top", "n_recv", "n_bye", "n_fail"} => Live(t) /\ NetThread(t)
  BY KindAt DEF CalmInv, IsPlayer, Live, Player, NetThread, Running
<1>2. OnePlayer
  BY <1>1 DEF OnePlayer, CalmInv, Handshakes, AtMostOneOfEach
<1>3. NoConcurrentSocketCalls
  BY <1>1 DEF NoConcurrentSocketCalls, NetLive, CalmInv, Handshakes, GuiKnows
<1>4. NetWaitedFor
  BY <1>1 DEF NetWaitedFor, NetLive, CalmInv, Handshakes, NetHandshake
<1>5. SocketClosedOnce
  <2>1. \A t \in Threads : pc[t] \in {"n_bye", "n_fail"} => socket \in open
    BY <1>1 DEF CalmInv, Handshakes, NetHandshake, SocketKept
  <2>2. ui.pc = "idle" /\ ~NetLive => open = {}
    BY <1>1, KindAt DEF CalmInv, Handshakes, SocketKept, NetLive, NetThread
  <2>. QED  BY <2>1, <2>2 DEF SocketClosedOnce
<1>. QED  BY <1>2, <1>3, <1>4, <1>5 DEF CalmInv, Handshakes, StatusTells

\* The pause button included, mp3_status never names a thread that is not there.
THEOREM StatusOwnedWhenCalm == ASSUME Calm PROVE Spec => []StatusHasOwner
BY CalmSuffices, CalmInvariant, PTL

\* mp3.c:96: no second thread decodes, whichever way playback and streaming are
\* started and stopped: MP3_Stop returns only when the old one has ended.
THEOREM OnePlayerAtATime == ASSUME Calm PROVE Spec => []OnePlayer
BY CalmSuffices, CalmInvariant, PTL

\* GUI_M_Radio.c:180, mp3.c:474: the GUI calls into the network only while no net
\* thread does, because MP3_Stop waits for the stream thread, and that one for
\* the net thread.
THEOREM SocketCallsAlone == ASSUME Calm PROVE Spec => []NoConcurrentSocketCalls
BY CalmSuffices, CalmInvariant, PTL

\* mp3.c:1285: the stream thread flushes the buffer and ends after the net thread.
THEOREM NetThreadWaitedFor == ASSUME Calm PROVE Spec => []NetWaitedFor
BY CalmSuffices, CalmInvariant, PTL

\* The radio's descriptor is closed while it is open, and is not left behind.
THEOREM SocketClosed == ASSUME Calm PROVE Spec => []SocketClosedOnce
BY CalmSuffices, CalmInvariant, PTL
=============================================================================

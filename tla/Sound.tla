-------------------------------- MODULE Sound -------------------------------
(***************************************************************************)
(* From a decoded frame to the loudspeaker: the output callback of the     *)
(* decoder (_mp3_output of src/src/mp3.c), the calls that set the volume   *)
(* and pause, and the client of the sound driver (src/src/sjpcm_rpc.c).    *)
(* The driver on the IOP is external: a ring of ticks it plays in turn.    *)
(***************************************************************************)
EXTENDS Naturals, Sequences, SequencesExt

CONSTANTS
    Tick,       \* samples per SjPCM_Enqueue: TICK
    Slots,      \* ticks the ring of the driver holds
    Length,     \* for each sampling rate, the samples of a frame at 48 kHz, or 0 where
                \* there is no resampler
    Volumes,    \* 0 .. 0x3FFF
    MaxSamples  \* bound: how many samples are decoded

VARIABLES
    pc,         \* where the playback thread is
    status,     \* mp3_status
    cancel,     \* mp3_cancel_playback
    volume, lastVolume, \* mp3_volume, and the volume _mp3_output set last
    early,      \* whether the track is before its first frame, began, or began
                \* after the volume had changed
    rate,       \* inType.rate: of the frame before
    resampler,  \* the rate pResampler was made for
    frame,      \* pResampleBuf, from the index on
    pcm,        \* left[0 .. iSamples)
    iop,        \* the driver: ring, read, used (in ticks), volume
    bufpos,     \* where the EE writes the next tick
    made,       \* samples decoded so far; they are their numbers
    played      \* the last that left the ring

soundVars == <<pc, status, cancel, volume, lastVolume, early, rate, resampler, frame, pcm,
               iop, bufpos, made, played>>

None == "none"
Empty == << >>
Numbers(before, n) == [i \in 1..n |-> before + i]
EmptyRing == [i \in 0..(Slots - 1) |-> Empty]
Full == CHOOSE v \in Volumes : \A w \in Volumes : w <= v

Init ==
    /\ pc = "idle" /\ status = "stopped" /\ cancel = FALSE
    /\ volume = Full /\ lastVolume = Full /\ early = "began"
    /\ rate = None /\ resampler = None /\ frame = Empty /\ pcm = Empty
    /\ iop = [ring |-> EmptyRing, read |-> 0, used |-> 0, volume |-> 0] /\ bufpos = 0
    /\ made = 0 /\ played = 0

------------------------------------------------------------------------------
\* MP3_SetVolume: the playback thread will adjust the volume.
SetVolume ==
    /\ ~cancel
    /\ volume' \in Volumes
    /\ early' = IF early = "before" THEN "changed" ELSE early
    /\ UNCHANGED <<pc, status, cancel, lastVolume, rate, resampler, frame, pcm, iop, bufpos, made, played>>

SetPause ==
    /\ ~cancel /\ status # "stopped"
    /\ status' \in {"playing", "paused"}
    /\ UNCHANGED <<pc, cancel, volume, lastVolume, early, rate, resampler, frame, pcm, iop, bufpos, made, played>>

Stop ==
    /\ status # "stopped" /\ cancel' = TRUE
    /\ UNCHANGED <<pc, status, volume, lastVolume, early, rate, resampler, frame, pcm, iop, bufpos, made, played>>

------------------------------------------------------------------------------
\* SjPCM_Init, SjPCM_Clearbuff, SjPCM_Setvol, SjPCM_Play, as _mp3_playback and
\* _mp3_stream_thread call them.  What is left of the track before stays in pcm.
StartTrack ==
    /\ pc = "idle" /\ ~cancel
    /\ pc' = "started" /\ status' = "playing" /\ early' = "before"
    /\ iop' = [ring |-> EmptyRing, read |-> 0, used |-> 0, volume |-> volume]
    /\ bufpos' = 0
    /\ played' = made - Len(pcm)
    /\ UNCHANGED <<cancel, volume, lastVolume, rate, resampler, frame, pcm, made>>

\* A frame was decoded: _mp3_output looks at the flags first.
CallOutput ==
    /\ pc \in {"started", "decoding"} /\ made < MaxSamples
    /\ pc' = IF cancel THEN "ending" ELSE IF status = "paused" THEN "paused" ELSE "frame"
    /\ IF pc' = "paused" THEN iop' = [iop EXCEPT !.volume = 0] /\ lastVolume' = 0
       ELSE UNCHANGED <<iop, lastVolume>>
    /\ UNCHANGED <<status, cancel, volume, early, rate, resampler, frame, pcm, bufpos, made, played>>

Paused ==
    /\ pc = "paused" /\ (cancel \/ status # "paused")
    /\ pc' = IF status = "paused" THEN "ending" ELSE "frame"
    /\ UNCHANGED <<status, cancel, volume, lastVolume, early, rate, resampler, frame, pcm, iop,
                   bufpos, made, played>>

\* The volume, the resampler and the samples.  A rate without a resampler ends the
\* track; the next frame of that rate follows a NULL pointer.
AdjustVolume_Mutant == iop
AdjustVolume == IF lastVolume = volume THEN iop ELSE [iop EXCEPT !.volume = volume]
Resampler(r) == IF r = rate THEN resampler ELSE IF Length[r] = 0 THEN None ELSE r
TakeFrame(r) ==
    /\ pc = "frame"
    /\ iop' = AdjustVolume /\ lastVolume' = volume
    /\ early' = IF early = "before" THEN "began" ELSE early
    /\ rate' = r /\ resampler' = Resampler(r)
    /\ IF resampler' = None
       THEN pc' = (IF r = rate THEN "fault" ELSE "ending") /\ UNCHANGED <<frame, made>>
       ELSE /\ pc' = "store"
            /\ made' = made + Length[r]
            /\ frame' = Numbers(made, Length[r])
    /\ UNCHANGED <<status, cancel, volume, pcm, bufpos, played>>

StoreSample ==
    /\ pc = "store" /\ frame # Empty
    /\ pcm' = Append(pcm, Head(frame)) /\ frame' = Tail(frame)
    /\ pc' = IF Len(pcm') = Tick THEN "full" ELSE pc
    /\ UNCHANGED <<status, cancel, volume, lastVolume, early, rate, resampler, iop, bufpos, made, played>>

FrameStored ==
    /\ pc = "store" /\ frame = Empty
    /\ pc' = "decoding"
    /\ UNCHANGED <<status, cancel, volume, lastVolume, early, rate, resampler, frame, pcm, iop,
                   bufpos, made, played>>

\* SjPCM_Enqueue: the samples by DMA to bufpos, then the call that counts them and
\* answers with the next place.
Available == Slots - iop.used
Enqueues_Mutant == pc = "full"
Enqueues == pc = "full" /\ Available >= 1
Enqueue ==
    /\ Enqueues
    /\ iop' = [iop EXCEPT !.used = @ + 1, !.ring[bufpos] = pcm]
    /\ bufpos' = (iop.read + iop'.used) % Slots
    /\ pcm' = Empty /\ pc' = "store"
    /\ UNCHANGED <<status, cancel, volume, lastVolume, early, rate, resampler, frame, made, played>>

\* The input callback has no more data.
TrackEnds ==
    /\ pc \in {"started", "decoding"} /\ pc' = "ending"
    /\ UNCHANGED <<status, cancel, volume, lastVolume, early, rate, resampler, frame, pcm, iop,
                   bufpos, made, played>>

\* SjPCM_Pause, SjPCM_Quit; SjPCM_Clearbuff does nothing any more.
EndTrack ==
    /\ pc = "ending" /\ pc' = "idle"
    /\ status' = "stopped" /\ cancel' = FALSE
    /\ iop' = [iop EXCEPT !.volume = 0]
    /\ UNCHANGED <<volume, lastVolume, early, rate, resampler, frame, pcm, bufpos, made, played>>

\* The driver plays on while it is paused, at no volume.
IopPlays ==
    /\ iop.used > 0
    /\ iop' = [iop EXCEPT !.read = (@ + 1) % Slots, !.used = @ - 1]
    /\ played' = Last(iop.ring[iop.read])
    /\ UNCHANGED <<pc, status, cancel, volume, lastVolume, early, rate, resampler, frame, pcm,
                   bufpos, made>>

Next ==
    \/ SetVolume \/ SetPause \/ Stop
    \/ StartTrack \/ CallOutput \/ Paused \/ (\E r \in DOMAIN Length : TakeFrame(r))
    \/ StoreSample \/ FrameStored \/ Enqueue \/ TrackEnds \/ EndTrack \/ IopPlays

Spec == Init /\ [][Next]_soundVars

------------------------------------------------------------------------------
TypeOK ==
    /\ status \in {"stopped", "playing", "paused"} /\ volume \in Volumes /\ lastVolume \in Volumes
    /\ bufpos \in 0..(Slots - 1) /\ iop.used <= Slots /\ Len(pcm) <= Tick

(* Every decoded sample is on its way once and in its order: in the ring, in *)
(* the tick that is filled, or in the frame; none is overwritten before it   *)
(* was played, over pauses and over the end of a track (_mp3_output,         *)
(* SjPCM_Enqueue).                                                           *)
SamplesInOrder ==
    LET inRing == iop.used * Tick IN
       /\ \A t \in 0..(iop.used - 1) :
             iop.ring[(iop.read + t) % Slots] = Numbers(played + t * Tick, Tick)
       /\ pcm = Numbers(played + inRing, Len(pcm))
       /\ frame = Numbers(played + inRing + Len(pcm), Len(frame))
       /\ made = played + inRing + Len(pcm) + Len(frame)

(* A frame sounds at the volume _mp3_output remembers as set, which is that  *)
(* of the user since the frame before, though pauses and new tracks set it   *)
(* too; unless the user changed it between the start of the track and its    *)
(* first frame.                                                              *)
VolumeHeard == pc \in {"store", "full", "decoding"} /\ early = "began" => iop.volume = lastVolume

SoundRight == SamplesInOrder /\ VolumeHeard
=============================================================================

----------------------------- MODULE Mp3Sources -----------------------------
(***************************************************************************)
(* What the player's bytes come from.  The protocol of radio stations: the *)
(* header (_mp3_readIcyHeader,                                             *)
(* _mp3_parseIcyLine of src/src/mp3.c), and the stream in which the title  *)
(* of the song is mixed with the audio at fixed distances, received in     *)
(* segments of any size (_mp3_net_thread, _mp3_parseMetaTitle).  And what  *)
(* it makes of a file of music before it decodes it: the tags it leaves    *)
(* out and the length it shows (_mp3_playback, _mp3_getbitrate_mem).  A    *)
(* file is a tag in front, bytes that are no frame, frames of one bit rate,*)
(* and a tag behind.                                                       *)
(***************************************************************************)
EXTENDS Integers, Sequences, SequencesExt

CONSTANTS
    Stations,   \* each has the lines of its header, and blocks of audio followed by a
                \* text with a title (none in an empty text)
    Unit,       \* a title's length is given in units of as many bytes: 16
    MaxTitle,   \* sizeof(mp3_net_meta_title)
    MaxSegment, \* the most bytes a recv returns: 4096
    MaxOpens,   \* bound: stations opened
    Tracks      \* the files: [tag, junk, frame, audio, tagBehind]

VARIABLES
    pc,
    station,    \* the station that is connected
    meta_int,   \* mp3_ICYHeader.meta_int: kept from one station to the next
    pos,        \* how much of the header's lines or of the stream was read
    demux,      \* count, len (nMetaCount, nMetaLen), meta (strMeta)
    title,      \* mp3_net_meta_title
    audio,      \* what mp3_stream_addBuffer was given
    opens,
    stage,          \* of a file that is opened
    file,
    nFileSize,      \* what is taken for the size of the audio
    nID3Size,       \* where the decoder starts in pBuffer
    nBitRate,       \* in kilobits per second, or -1
    mp3_tracklength \* in seconds

icyVars == <<pc, station, meta_int, pos, demux, title, audio, opens>>
trackVars == <<stage, file, nFileSize, nID3Size, nBitRate, mp3_tracklength>>

\* Bytes with a meaning: "StreamTitle='" as one, the quote, and the padding.
Start == 50
Quote == 39
Zero == 0
NotAvailable == << "Not Available" >>
AtStart == [count |-> 0, len |-> 0, meta |-> << >>]

------------------------------------------------------------------------------
\* What the server sends: each byte with what it is, which the program is not told.
Padded(text) == text \o [i \in 1..((Unit - (Len(text) % Unit)) % Unit) |-> Zero]
Sent(kind, bytes) == [i \in DOMAIN bytes |-> [kind |-> kind, value |-> bytes[i]]]
BlockSent(block) ==
    Sent("audio", block.audio)
        \o Sent("length", << Len(Padded(block.text)) \div Unit >>) \o Sent("meta", Padded(block.text))
Stream(s) == FlattenSeq([i \in DOMAIN s.blocks |-> BlockSent(s.blocks[i])])

Init ==
    /\ pc = "stopped" /\ station \in Stations
    /\ meta_int = 0 /\ pos = 0 /\ demux = AtStart /\ title = << >> /\ audio = << >> /\ opens = 0

\* MP3_OpenStream, connected: the header it fills is not cleared.
OpenStream(s) ==
    /\ pc = "stopped" /\ opens < MaxOpens
    /\ pc' = "header" /\ station' = s /\ pos' = 0 /\ opens' = opens + 1
    /\ UNCHANGED <<meta_int, demux, title, audio>>

\* _mp3_parseIcyLine: an answer of HTTP, another answer than ICY 200 OK, and a line
\* of a header without a colon are errors.  ICY is looked for in the whole line.
Refused(line) == line.kind \in {"HTTP", "ICY", "no colon", "name with ICY"}
ReadIcyLine ==
    /\ pc = "header" /\ pos < Len(station.lines)
    /\ LET line == station.lines[pos + 1] IN
          /\ pc' = IF Refused(line) THEN "stopped" ELSE pc
          /\ meta_int' = IF line.kind = "icy-metaint" THEN line.value ELSE meta_int
    /\ pos' = pos + 1
    /\ UNCHANGED <<station, demux, title, audio, opens>>

\* The empty line: MP3_PlayStream starts _mp3_net_thread.
HeaderEnds ==
    /\ pc = "header" /\ pos = Len(station.lines)
    /\ pc' = "streaming" /\ pos' = 0
    /\ demux' = AtStart /\ title' = << >> /\ audio' = << >>
    /\ UNCHANGED <<station, meta_int, opens>>

------------------------------------------------------------------------------
\* _mp3_parseMetaTitle
Text(meta) == IF Contains(meta, Zero) THEN SubSeq(meta, 1, SelectInSeq(meta, LAMBDA b : b = Zero) - 1)
              ELSE meta
First(s, n) == SubSeq(s, 1, IF Len(s) < n THEN Len(s) ELSE n)
ToQuote(s) == IF Contains(s, Quote) THEN SubSeq(s, 1, SelectInSeq(s, LAMBDA b : b = Quote) - 1) ELSE s
ParseMetaTitle(meta) ==
    LET text == Text(meta)
        start == SelectInSeq(text, LAMBDA b : b = Start)
    IN IF start = 0 THEN NotAvailable
       ELSE First(ToQuote(SubSeq(text, start + 1, Len(text))), MaxTitle - 1)

\* One byte of strBuffer; acc has the state of the loop.
TakesLength_Mutant(count) == count > meta_int
TakesLength(count) == count >= meta_int
TakeByte(acc, b) ==
    IF acc.len > 0
    THEN LET meta == Append(acc.meta, b) IN
            [acc EXCEPT !.meta = meta, !.len = @ - 1,
                        !.title = IF acc.len = 1 THEN ParseMetaTitle(meta) ELSE @]
    ELSE IF TakesLength(acc.count) THEN [acc EXCEPT !.len = b * Unit, !.count = 0, !.meta = << >>]
    ELSE [acc EXCEPT !.count = @ + 1, !.audio = Append(@, b)]

Recv(n) ==
    /\ pc = "streaming" /\ pos + n <= Len(Stream(station))
    /\ pos' = pos + n
    /\ LET bytes == [i \in 1..n |-> Stream(station)[pos + i].value]
           acc == FoldLeft(TakeByte, [title |-> title, audio |-> audio, count |-> demux.count,
                                      len |-> demux.len, meta |-> demux.meta], bytes)
       IN /\ title' = acc.title /\ audio' = acc.audio
          /\ demux' = [count |-> acc.count, len |-> acc.len, meta |-> acc.meta]
    /\ UNCHANGED <<pc, station, meta_int, opens>>

\* The server closes, in the header or later, or the user stops.
Disconnect ==
    /\ pc \in {"header", "streaming"} /\ pc' = "stopped"
    /\ UNCHANGED <<station, meta_int, pos, demux, title, audio, opens>>

Next ==
    \/ (\E s \in Stations : OpenStream(s)) \/ ReadIcyLine \/ HeaderEnds
    \/ (\E n \in 1..MaxSegment : Recv(n)) \/ Disconnect

Spec == Init /\ [][Next]_icyVars

------------------------------------------------------------------------------
(* Files *)

NoTag == [digits |-> << >>, footer |-> FALSE, has0xFF |-> FALSE]
NoFrame == [version |-> "none", layer |-> 0, index |-> 0]

\* The size in a tag: four digits of seven bits, as the format has them, and as
\* they are read.
Number(digits, base) ==
    digits[4] + base * (digits[3] + base * (digits[2] + base * digits[1]))
Around(tag) == IF tag.footer THEN 20 ELSE 10
TagBytes(tag) == IF tag = NoTag THEN 0 ELSE Number(tag.digits, 128) + Around(tag)
SizeOf(f) == TagBytes(f.tag) + f.junk + f.audio + IF f.tagBehind THEN 128 ELSE 0

TrackInit ==
    /\ stage = "read" /\ file \in Tracks
    /\ nFileSize = SizeOf(file) /\ nID3Size = 0 /\ nBitRate = -1 /\ mp3_tracklength = 0

StripID3V1 ==
    /\ stage = "read" /\ stage' = "behind"
    /\ nFileSize' = IF file.tagBehind THEN nFileSize - 128 ELSE nFileSize
    /\ UNCHANGED <<file, nID3Size, nBitRate, mp3_tracklength>>

TagSize_Mutant(tag) == Number(tag.digits, 256) + 10
TagSize(tag) == Number(tag.digits, 256) + Around(tag)
StripID3V2 ==
    /\ stage = "behind" /\ stage' = "stripped"
    /\ nID3Size' = IF file.tag = NoTag THEN 0 ELSE TagSize(file.tag)
    /\ nFileSize' = nFileSize - nID3Size'
    /\ UNCHANGED <<file, nBitRate, mp3_tracklength>>

\* nBitrates[version][layer - 1][index], as far as the files need it.
Bitrates ==
    [V1 |-> << << 0, 32, 40, 48, 56, 64, 80, 96, 112, 128, 160, 192, 224, 256, 320 >>,
               << 0, 32, 48, 56, 64, 80, 96, 112, 128, 160, 192, 224, 256, 320, 384 >>,
               << 0, 32, 64, 96, 128, 160, 192, 224, 256, 288, 320, 352, 384, 416, 448 >> >>,
     V2 |-> << << 8, 16, 24, 32, 40, 48, 56, 64, 80, 96, 112, 128, 144, 160, 0 >>,
               << 8, 16, 24, 32, 40, 48, 56, 64, 80, 96, 112, 128, 144, 160, 0 >>,
               << 32, 48, 56, 64, 80, 96, 112, 128, 144, 160, 176, 192, 224, 256, 0 >> >>]
FrameRate(frame) == Bitrates[frame.version][frame.layer][frame.index + 1]

\* The first 0xFF of the buffer, from its beginning, is taken for a frame.
GetBitrate ==
    /\ stage = "stripped" /\ stage' = "rated"
    /\ nBitRate' = IF file.tag.has0xFF \/ file.frame = NoFrame \/ nFileSize <= TagBytes(file.tag) + file.junk
                   THEN -1 ELSE FrameRate(file.frame)
    /\ UNCHANGED <<file, nFileSize, nID3Size, mp3_tracklength>>

SetTrackLength ==
    /\ stage = "rated" /\ stage' = "decoding"
    /\ mp3_tracklength' = IF nBitRate > 0 THEN nFileSize \div (nBitRate * 128) ELSE 0
    /\ UNCHANGED <<file, nFileSize, nID3Size, nBitRate>>

TrackNext == StripID3V1 \/ StripID3V2 \/ GetBitrate \/ SetTrackLength

TrackSpec == TrackInit /\ [][TrackNext]_trackVars

------------------------------------------------------------------------------
TypeOK ==
    /\ pc \in {"stopped", "header", "streaming"} /\ station \in Stations
    /\ pos \in 0..(Len(station.lines) + Len(Stream(station))) /\ opens \in 0..MaxOpens
    /\ stage \in {"read", "behind", "stripped", "rated", "decoding"} /\ file \in Tracks
    /\ nID3Size \in Nat /\ nBitRate \in -1..448 /\ mp3_tracklength \in Nat

\* The station says where its titles are.
SaysWhere == \E i \in DOMAIN station.lines : station.lines[i].kind = "icy-metaint"

\* The title of a block, and the blocks that were received with a text.
TitleOf(block) ==
    IF Contains(block.text, Start) THEN First(ToQuote(block.title), MaxTitle - 1) ELSE NotAvailable
Ends(i) == Len(FlattenSeq([j \in 1..i |-> BlockSent(station.blocks[j])]))
Titled == {i \in DOMAIN station.blocks : station.blocks[i].text # << >> /\ Ends(i) <= pos}

(* Whatever segments the stream arrives in and whatever station was heard    *)
(* before, the decoder is given the audio and nothing else, and the title is *)
(* that of the last text that arrived as a whole; if the station says where  *)
(* its titles are (otherwise the distance of the last station is used, or    *)
(* every byte is taken for a length).                                        *)
StreamRight ==
    pc = "streaming" /\ SaysWhere =>
       /\ LET heard == SelectSeq(SubSeq(Stream(station), 1, pos), LAMBDA b : b.kind = "audio")
          IN audio = [i \in DOMAIN heard |-> heard[i].value]
       /\ title = IF Titled = {} THEN << >>
                  ELSE TitleOf(station.blocks[CHOOSE i \in Titled : \A j \in Titled : j <= i])

(* The decoder is given the audio and no tag, if the tag in front has less   *)
(* than 128 bytes (longer ones are given seven bits a digit, and are read as *)
(* eight: the beginning of the track is lost, or the size becomes negative). *)
TagsLeftOut ==
    stage \in {"stripped", "rated", "decoding"} /\ TagBytes(file.tag) < 128 + Around(file.tag) =>
       /\ nID3Size = TagBytes(file.tag)
       /\ nID3Size + nFileSize = SizeOf(file) - (IF file.tagBehind THEN 128 ELSE 0)

\* The bit rates in kilobits of the header's index from 1 on (0 and 15 are none).
Kilobits ==
    [V1 |-> << << 32, 40, 48, 56, 64, 80, 96, 112, 128, 160, 192, 224, 256, 320 >>,
               << 32, 48, 56, 64, 80, 96, 112, 128, 160, 192, 224, 256, 320, 384 >>,
               << 32, 64, 96, 128, 160, 192, 224, 256, 288, 320, 352, 384, 416, 448 >> >>]

(* The length on the screen is that of the track at its bit rate, to within  *)
(* the kilobits of 1024 bits that are used, for frames of MPEG 1 (the tables *)
(* of the others lack the index 0), if no tag has a byte 0xFF.               *)
Usual ==
    /\ file.frame.version = "V1" /\ file.frame.index > 0
    /\ TagBytes(file.tag) < 128 + Around(file.tag) /\ ~file.tag.has0xFF
LengthShown ==
    /\ stage = "decoding" /\ nBitRate # -1 /\ Usual =>
          LET bytes == 125 * Kilobits.V1[file.frame.layer][file.frame.index] IN
             /\ mp3_tracklength * bytes <= nFileSize
             /\ nFileSize < (mp3_tracklength + 1) * bytes + (nFileSize \div 40)
    /\ stage = "decoding" /\ file.frame = NoFrame => mp3_tracklength = 0

TrackRight == TagsLeftOut /\ LengthShown
==============================================================================

----------------------------- MODULE PictureFiles -----------------------------
(***************************************************************************)
(* From a file to pixels and back: the layer of myPS2 over the JPEG and    *)
(* PNG libraries (src/lib/libjpg/libjpg.c, src/lib/libpng/libpng.c), who   *)
(* opens, reads and closes pictures, and the screenshot.  A JPEG file is a *)
(* sequence of items: a marker with the body of its segment, a byte that   *)
(* belongs to none ("data"), or what one row is coded in ("row").  Memory  *)
(* is a set of blocks, and frees of what is not allocated are kept.        *)
(***************************************************************************)
EXTENDS Naturals, Sequences, SequencesExt, FiniteSetsExt

CONSTANTS
    JpgFiles,   \* [bytes: items, pixels: rows, bpp]
    PngFiles,   \* [signed, whole: BOOLEAN, pixels: rows of bytes, bpp]
    Screens,    \* [psm, pixels: rows as the frame buffer holds them]
    Unit,       \* what JPG_WIDTH_FIX makes the width a multiple of: 4
    OutputSize, \* OUTPUT_BUF_SIZE
    MaxBytes    \* bound: how many bytes a screenshot is compressed to

VARIABLES
    pc, caller, file,
    rest,       \* what the library has not read of the file
    seen,       \* saw_SOI, saw_SOF, and whether the scan began
    warned,     \* num_warnings is not 0
    beyond,     \* the library read behind the end of the file
    dest,       \* the pixels that were copied
    live, bad,  \* blocks that are allocated; those that were freed and were not
    why,        \* why there is no picture
    coded, chunk    \* a screenshot: dest and buffer of _destination_mgr

fileVars == <<pc, caller, file, rest, seen, warned, beyond, dest, live, bad, why, coded, chunk>>
readVars == <<rest, seen, warned, beyond>>
shotVars == <<coded, chunk>>

Callers == {"view", "thumbnail", "window"}
Handle == {"handle", "priv"}
Raw(c) == IF c = "window" THEN {} ELSE {"raw"}  \* a window's files are the skin's
NoFile == [bytes |-> << >>, pixels |-> << >>, bpp |-> 0]

Init ==
    /\ pc = "idle" /\ caller = "window" /\ file = NoFile
    /\ rest = << >> /\ seen = {} /\ warned = FALSE /\ beyond = FALSE /\ dest = << >>
    /\ live = {} /\ bad = {} /\ why = "none" /\ coded = << >> /\ chunk = << >>

Free(blocks) == live' = live \ blocks /\ bad' = bad \cup (blocks \ live)
\* jpgClose, pngClose: priv->data was never set; it may be any address.
Close(also) ==
    \/ Free(Handle \cup also)
    \/ live' = live \ (Handle \cup also) /\ bad' = bad \cup ((Handle \cup also) \ live) \cup {"data"}
Fail(reason) == pc' = "failed" /\ why' = reason

------------------------------------------------------------------------------
(* jpgOpenRAW                                                                *)

Open(c, f) ==
    /\ pc = "idle" /\ pc' = "header"
    /\ caller' = c /\ file' = f /\ rest' = f.bytes
    /\ live' = Raw(c) \cup Handle \cup {"pool"}
    /\ UNCHANGED <<seen, warned, beyond, dest, bad, why, shotVars>>

\* Without memory for priv the handle is lost.
OpenWithoutMemory(c, f) ==
    /\ pc = "idle" /\ Fail("memory")
    /\ caller' = c /\ file' = f /\ live' \in {{}, {"handle"}}
    /\ UNCHANGED <<readVars, dest, bad, shotVars>>

\* custom_error_exit: jpeg_destroy, then back to the function that called the library,
\* which closes the handle; the viewer and the thumbnails close it once more.
ErrorExit(reason) ==
    /\ Fail(reason)
    /\ \/ pc = "header" /\ Close({"pool", "raw"} \cap live)
       \/ /\ pc \in {"rows", "trailer"}
          /\ IF caller = "window" THEN Close({"pool"})
             ELSE /\ live' = {}
                  /\ bad' \in {bad \cup Handle, bad \cup Handle \cup {"data"}}
    /\ UNCHANGED <<caller, file, readVars, dest, shotVars>>

\* The library's own memory.
LibraryWithoutMemory == pc \in {"header", "rows"} /\ ErrorExit("memory")

\* custom_emit_message does not count bytes that belong to no segment.
Counts_Mutant(warning) == warning # "none"
Counts(warning) == warning \notin {"none", "EXTRANEOUS_DATA"}

\* next_marker: bytes are passed over until a marker comes.
MarkerAt == SelectInSeq(rest, LAMBDA item : item.m \notin {"data", "row"})
Marker == rest[MarkerAt].m
Behind == SubSeq(rest, MarkerAt + 1, Len(rest))
Extraneous == IF MarkerAt > 1 THEN "EXTRANEOUS_DATA" ELSE "none"

\* Errors of read_markers and of its callers.
Rejected ==
    \/ "SOI" \notin seen /\ (MarkerAt # 1 \/ Marker # "SOI")
    \/ Marker = "SOI" /\ "SOI" \in seen
    \/ Marker = "SOF" /\ "SOF" \in seen
    \/ Marker = "SOS" /\ ("SOF" \notin seen \/ "SOS" \in seen)
    \/ Marker = "EOI" /\ "SOS" \notin seen
    \/ Marker = "RES"

ReadRejected == pc \in {"header", "trailer"} /\ MarkerAt > 0 /\ Rejected /\ ErrorExit("error")

Segments == {"DQT", "DHT", "DRI", "SOF"}
Passed == {"COM", "DNL", "APP1"}
\* _src_skip_input_data skips nothing: the body of a segment that is not of interest is
\* read as if markers could begin in it.  Of APP0 the first bytes are examined.
Skipped(body) == body
ReadSegment ==
    /\ pc \in {"header", "trailer"} /\ MarkerAt > 0 /\ ~Rejected
    /\ Marker \notin {"SOS", "EOI"}
    /\ LET body == rest[MarkerAt].body
           version == IF Marker = "APP0" /\ Head(body).m = "JFIF 2" THEN "JFIF_MAJOR" ELSE "none"
       IN /\ rest' = (IF Marker \in Passed THEN Skipped(body)
                      ELSE IF Marker = "APP0" THEN Skipped(Tail(body)) ELSE << >>) \o Behind
          /\ warned' = (warned \/ Counts(Extraneous) \/ Counts(version))
    /\ seen' = seen \cup ({Marker} \cap {"SOI", "SOF"})
    /\ UNCHANGED <<pc, caller, file, beyond, dest, live, bad, why, shotVars>>

\* _src_fill_input_buffer gives nothing: the library reads on behind the file, until
\* what is there looks like a marker.
ReadBeyond ==
    /\ pc \in {"header", "trailer"} /\ MarkerAt = 0
    /\ beyond' = TRUE
    /\ \E m \in {"SOI", "EOI", "RES"} : rest' = << [m |-> "data", body |-> << >>], [m |-> m, body |-> << >>] >>
    /\ UNCHANGED <<pc, caller, file, seen, warned, dest, live, bad, why, shotVars>>

\* A picture with warnings is not returned, nor is its memory.
ReadScan ==
    /\ pc = "header" /\ MarkerAt > 0 /\ ~Rejected /\ Marker = "SOS"
    /\ rest' = Behind /\ seen' = seen \cup {"SOS"}
    /\ warned' = (warned \/ Counts(Extraneous))
    /\ IF warned' THEN Fail("warning") /\ Free(Raw(caller))
       ELSE pc' = "opened" /\ UNCHANGED <<why, live, bad>>
    /\ UNCHANGED <<caller, file, beyond, dest, shotVars>>

------------------------------------------------------------------------------
(* The callers: LoadImage, CreateThumbnail, GUI_OpenMenu.                    *)

\* Only the thumbnails look at bpp.
Gray == caller = "thumbnail" /\ file.bpp # 24
GiveUpOpened(reason) ==
    /\ pc = "opened" /\ Fail(reason)
    /\ IF caller = "window" THEN UNCHANGED <<live, bad>> ELSE Close({"raw"})
    /\ UNCHANGED <<caller, file, readVars, dest, shotVars>>
RefuseGray == Gray /\ GiveUpOpened("gray")
ImageWithoutMemory == ~Gray /\ GiveUpOpened("memory")

AllocImage ==
    /\ pc = "opened" /\ ~Gray /\ pc' = "rows"
    /\ live' = live \cup {"image"}
    /\ UNCHANGED <<caller, file, readVars, dest, bad, why, shotVars>>

------------------------------------------------------------------------------
(* jpgReadImage                                                              *)

Height == Len(file.pixels)
Width == LET w == Len(file.pixels[1]) IN IF caller = "window" THEN w ELSE w - (w % Unit)
RowsDone == Len(dest) \div Width

\* A row that is cut short by a marker is gray, and a warning.
ReadRow ==
    /\ pc = "rows" /\ Width > 0 /\ RowsDone < Height
    /\ LET short == rest # << >> /\ Head(rest).m # "row"
           row == IF short THEN [c \in 1..Width |-> "gray"]
                  ELSE IF rest = << >> THEN [c \in 1..Width |-> "garbage"]
                  ELSE SubSeq(file.pixels[RowsDone + 1], 1, Width)
       IN /\ dest' = dest \o row
          /\ rest' = IF short \/ rest = << >> THEN rest ELSE Tail(rest)
          /\ warned' = (warned \/ short)
          /\ beyond' = (beyond \/ rest = << >>)
    /\ UNCHANGED <<pc, caller, file, seen, live, bad, why, shotVars>>

FinishRows ==
    /\ pc = "rows" /\ (Width = 0 \/ RowsDone = Height) /\ pc' = "trailer"
    /\ UNCHANGED <<caller, file, readVars, dest, live, bad, why, shotVars>>

\* jpeg_finish_decompress has come to the end: the picture is shown, if it is one.
ReadEnd ==
    /\ pc = "trailer" /\ MarkerAt > 0 /\ ~Rejected /\ Marker = "EOI"
    /\ IF ~warned THEN pc' = "shown" /\ UNCHANGED why /\ Close({"pool", "image"} \cup Raw(caller))
       ELSE /\ Fail("warning")
            /\ IF caller = "window" THEN Free({"pool"}) ELSE Close({"pool", "image", "raw"})
    /\ UNCHANGED <<caller, file, readVars, dest, shotVars>>

------------------------------------------------------------------------------
(* libpng.c, for the windows and the boot screen.                            *)

pngOpen(f) ==
    /\ pc = "idle" /\ caller' = "window" /\ file' = f
    /\ IF ~f.signed THEN Fail("error") /\ UNCHANGED live
       ELSE /\ UNCHANGED why
            /\ live' = Handle \cup {"pool"}
            \* png_read_png: no one has called setjmp for the library's errors.
            /\ pc' = IF f.whole THEN "png" ELSE "crashed"
    /\ UNCHANGED <<readVars, dest, bad, shotVars>>

pngOpenWithoutMemory(f) ==
    /\ pc = "idle" /\ f.signed /\ Fail("memory")
    /\ caller' = "window" /\ file' = f /\ live' \in {{}, {"handle"}, {"priv"}}
    /\ UNCHANGED <<readVars, dest, bad, shotVars>>

\* The alpha channel has half the range.
Normalized_Mutant(row) == [i \in DOMAIN row |-> IF i % 4 = 0 THEN row[i] \div 2 ELSE row[i]]
Normalized(row) ==
    [i \in DOMAIN row |-> IF file.bpp = 32 /\ i % 4 = 0 THEN row[i] \div 2 ELSE row[i]]
pngReadImage ==
    /\ pc = "png" /\ pc' = "shown"
    /\ dest' = FlattenSeq([r \in DOMAIN file.pixels |-> Normalized(file.pixels[r])])
    /\ Close({"pool"})
    /\ UNCHANGED <<caller, file, readVars, why, shotVars>>

pngImageWithoutMemory ==
    /\ pc = "png" /\ Fail("memory")
    /\ UNCHANGED <<caller, file, readVars, dest, live, bad, shotVars>>

------------------------------------------------------------------------------
(* jpgScreenshot                                                             *)

\* What ps2_screenshot reads of a pixel becomes three bytes.
RGB(psm, pixel) ==
    IF psm = "CT16"
    THEN << (pixel % 32) * 8, ((pixel \div 32) % 32) * 8, ((pixel \div 1024) % 32) * 8 >>
    ELSE SubSeq(pixel, 1, 3)
Line(screen, r) == FlattenSeq([c \in DOMAIN screen.pixels[r] |-> RGB(screen.psm, screen.pixels[r][c])])

Screenshot(screen) ==
    /\ pc = "idle" /\ pc' = "code"
    /\ file' = [bytes |-> << >>, pixels |-> screen.pixels, bpp |-> 24]
    /\ dest' = FlattenSeq([r \in DOMAIN screen.pixels |-> Line(screen, r)])
    /\ live' = Handle \cup {"out", "buffer", "file"}
    /\ UNCHANGED <<caller, readVars, bad, why, shotVars>>

\* No file; or no memory for the picture, and the file stays open.
ScreenshotFails(screen) ==
    /\ pc = "idle" /\ Fail("memory") /\ live' \in {{}, {"file"}}
    /\ UNCHANGED <<caller, file, readVars, dest, bad, shotVars>>

\* jpgCreateRAW and the realloc of the destination are not asked whether they succeeded.
CodeWithoutMemory ==
    /\ pc = "code" /\ pc' = "crashed"
    /\ UNCHANGED <<caller, file, readVars, dest, live, bad, why, shotVars>>

\* The library hands over byte after byte; _dest_empty_output_buffer when the buffer is full.
Total == Len(coded) + Len(chunk)
Code ==
    /\ pc = "code" /\ Total < MaxBytes
    /\ LET filled == Append(chunk, Total + 1) IN
          IF Len(filled) < OutputSize THEN chunk' = filled /\ UNCHANGED coded
          ELSE coded' = coded \o filled /\ chunk' = << >>
    /\ UNCHANGED <<pc, caller, file, readVars, dest, live, bad, why>>

\* _dest_term_destination, and the end of jpgScreenshot: the picture belongs to priv, which
\* frees it, and is freed once more; the two buffers are not.
Rest_Mutant == IF coded = << >> THEN chunk ELSE << >>
Rest == chunk
CodeEnds ==
    /\ pc = "code" /\ Total > 0 /\ pc' = "saved"
    /\ coded' = coded \o Rest /\ UNCHANGED chunk
    /\ live' = (live \ (Handle \cup {"out", "file"})) \cup {"coded"} /\ bad' = bad \cup {"out"}
    /\ UNCHANGED <<caller, file, readVars, dest, why>>

Next ==
    \/ \E c \in Callers, f \in JpgFiles : Open(c, f) \/ OpenWithoutMemory(c, f)
    \/ LibraryWithoutMemory \/ ReadRejected \/ ReadSegment \/ ReadBeyond \/ ReadScan
    \/ RefuseGray \/ ImageWithoutMemory \/ AllocImage \/ ReadRow \/ FinishRows \/ ReadEnd
    \/ \E f \in PngFiles : pngOpen(f) \/ pngOpenWithoutMemory(f)
    \/ pngReadImage \/ pngImageWithoutMemory
    \/ \E screen \in Screens : Screenshot(screen) \/ ScreenshotFails(screen)
    \/ Code \/ CodeEnds \/ CodeWithoutMemory

Spec == Init /\ [][Next]_fileVars

------------------------------------------------------------------------------
Blocks == Handle \cup {"pool", "raw", "image", "out", "buffer", "file", "coded", "data"}
TypeOK ==
    /\ pc \in {"idle", "header", "opened", "rows", "trailer", "png", "code", "shown", "failed",
               "saved", "crashed"}
    /\ caller \in Callers /\ seen \subseteq {"SOI", "SOF", "SOS"} /\ {warned, beyond} \subseteq BOOLEAN
    /\ live \cup bad \subseteq Blocks /\ why \in {"none", "memory", "error", "warning", "gray"}

(* What a JPEG file is: no body of a segment that is passed over looks like  *)
(* a marker, and there is a row of data for every row of pixels.             *)
Plain(body) == \A i \in DOMAIN body : body[i].m \in {"data", "JFIF 1"}
WellFormed(f) ==
    LET n == Len(f.bytes)
        first == n - Len(f.pixels)
    IN /\ first > 2 /\ f.bytes[1].m = "SOI" /\ f.bytes[n].m = "EOI" /\ f.bytes[first - 1].m = "SOS"
       /\ \A i \in first..(n - 1) : f.bytes[i].m = "row"
       /\ \A i \in 2..(first - 2) : f.bytes[i].m \in Segments \cup Passed \cup {"APP0"}
                                    /\ Plain(f.bytes[i].body)
       /\ Cardinality({i \in 2..(first - 2) : f.bytes[i].m = "SOF"}) = 1

(* A well-formed picture is read within its file and shown, unless memory    *)
(* runs out or a thumbnail of a gray one is asked for, whatever segments it  *)
(* has that nobody is interested in (_src_skip_input_data,                   *)
(* custom_emit_message).                                                     *)
WellFormedShown ==
    file \in JpgFiles /\ WellFormed(file) =>
        ~beyond /\ (pc = "failed" => why = "memory" \/ (why = "gray" /\ file.bpp # 24))

(* The pixels of a picture that is shown are those of its file, row after    *)
(* row without a gap: of a JPEG as many columns as a multiple of Unit has,   *)
(* of a PNG all, with half of every alpha (jpgReadImage, pngReadImage).      *)
PixelsTrue ==
    pc = "shown" /\ ~beyond =>
        IF file \in JpgFiles
        THEN /\ Len(dest) = Width * Height
             /\ \A r \in 1..Height, c \in 1..Width : dest[(r - 1) * Width + c] = file.pixels[r][c]
        ELSE LET bytes == FlattenSeq(file.pixels)
                 alpha == {i \in DOMAIN bytes : file.bpp = 32 /\ i % 4 = 0}
             IN /\ Len(dest) = Len(bytes)
                /\ \A i \in DOMAIN bytes : dest[i] = bytes[i] \div (IF i \in alpha THEN 2 ELSE 1)

(* A picture that is shown leaves no memory behind, one that is rejected     *)
(* nothing but what a window loses; and apart from the field nobody sets,    *)
(* only an error while a picture is read, and a screenshot, free twice       *)
(* (jpgClose and its callers).                                               *)
MemoryReturned ==
    /\ pc = "shown" => live = {}
    /\ pc = "failed" /\ why = "error" => live \subseteq {"image"} /\ (caller # "window" => live = {})
    /\ pc = "failed" => "raw" \notin live
    /\ bad \subseteq {"data"}
         \cup (IF pc = "failed" /\ why \in {"error", "memory"} /\ caller # "window" THEN Handle ELSE {})
         \cup (IF pc = "saved" THEN {"out"} ELSE {})

(* A screenshot's file holds all that was compressed, in order, whether or   *)
(* not it fills the buffer a whole number of times (_destination_mgr), and   *)
(* what was compressed has three bytes for every pixel.                      *)
ScreenshotWhole ==
    /\ pc = "saved" => /\ coded = [i \in 1..Len(coded) |-> i]
                       /\ IF chunk = << >> THEN coded # << >> ELSE IsSuffix(chunk, coded)
    /\ pc \in {"code", "saved"} => Len(dest) = 3 * Len(FlattenSeq(file.pixels))

PicturesRead == WellFormedShown /\ PixelsTrue /\ MemoryReturned /\ ScreenshotWhole
=============================================================================

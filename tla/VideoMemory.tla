----------------------------- MODULE VideoMemory ----------------------------
(***************************************************************************)
(* The graphics library: the list of blocks of video memory that textures  *)
(* and fonts live in (src/lib/gsLib/gsCore.c, gsTexture.c, gsFont.c), and  *)
(* the packets that are built one after the other in the scratchpad while  *)
(* the DMA controller may still read the last one (src/lib/dmaKit).        *)
(***************************************************************************)
EXTENDS Integers, SequencesExt, FiniteSetsExt

CONSTANTS
    MemSize,        \* GS_MEM_SIZE; 4 MB on the console, a few blocks here
    BlockSize,      \* GS_VRAM_BLOCKSIZE; 8 KB on the console
    FrameSize,      \* bytes of a frame buffer
    Sizes,          \* bound: the sizes of textures, in bytes
    Scratchpad,     \* its size in quadwords; 16 KB on the console
    MaxTextures     \* bound: textures and colour tables alive

VARIABLES
    blocks,     \* the list at gs_mem_head: addresses and sizes
    textures,   \* what gsLib_texture_raw handed out: addresses and sizes
    active,     \* ActiveBuffer & 1: the buffer that is drawn into
    shown,      \* the buffer on the screen
    spr,        \* DMA_SPR: the next free quadword of the scratchpad
    packet,     \* the packet being built: <<first, next, kind>>
    flight,     \* the packet the DMA controller reads
    pixels      \* the EE memory a texture is sent from: "none", "held"

videoVars == <<blocks, textures, active, shown, spr, packet, flight, pixels>>

AllocError == -1
NoPacket == <<0, 0, "none">>
Kinds == {"sprite", "texture", "swap"}
Quadwords(kind) == CASE kind = "sprite" -> 5 [] kind = "swap" -> 2 [] kind = "texture" -> 11

\* gsLib_texture_size rounded as gsLib_vram_alloc does
RoundUp(size) == ((size + BlockSize - 1) \div BlockSize) * BlockSize

End(b) == b.address + b.size
Block(a, s) == [address |-> a, size |-> s]

\* The first gap behind the head that is large enough, or the end of the list.
GapsFor_Mutant(list, size) ==
    {i \in 2 .. Len(list) : list[i].address - End(list[i - 1]) >= size - BlockSize}
GapsFor(list, size) == {i \in 2 .. Len(list) : list[i].address - End(list[i - 1]) >= size}

\* gsLib_vram_alloc: the index the new block gets in the list, or AllocError
Place(list, size) ==
    IF size >= MemSize THEN AllocError
    ELSE IF list = <<>> THEN 1
    ELSE IF GapsFor(list, size) # {} THEN Min(GapsFor(list, size))
    ELSE IF MemSize - End(Last(list)) < size THEN AllocError
    ELSE Len(list) + 1
VramAlloc(list, size) ==
    LET i == Place(list, size)
        address == IF i = 1 THEN 0 ELSE End(list[i - 1])
    IN InsertAt(list, i, Block(address, size))

\* gsLib_vram_free: the first block there; freeing the head forgets the whole list.
VramFree(list, address) ==
    LET found == {i \in 1 .. Len(list) : list[i].address = address}
    IN IF found = {} THEN list
       ELSE IF Min(found) = 1 THEN <<>>
       ELSE RemoveAt(list, Min(found))

\* dmaKit_spr_alloc
SprAlloc(n) == IF spr + n >= Scratchpad THEN 0 ELSE spr
Build(kind) ==
    LET n == Quadwords(kind) IN
    /\ packet = NoPacket
    /\ packet' = << SprAlloc(n), SprAlloc(n) + n, kind >>
    /\ spr' = SprAlloc(n) + n

\* gsLib_init: two frame buffers, and one packet that is under way.
Init ==
    /\ blocks = LET size == RoundUp(FrameSize)
                IN VramAlloc(VramAlloc(<<>>, size), size)
    /\ textures = {} /\ active = 1 /\ shown = 0
    /\ spr = 8 /\ packet = NoPacket /\ flight = << 0, 8, "init" >> /\ pixels = "none"

\* gsLib_prim_sprite, gsLib_prim_sprite_texture
Draw ==
    /\ Build("sprite")
    /\ UNCHANGED <<blocks, textures, active, shown, flight, pixels>>

\* gsLib_swap, after the vertical blank
Swap ==
    /\ Build("swap")
    /\ shown' = active /\ active' = 1 - active
    /\ UNCHANGED <<blocks, textures, flight, pixels>>

\* gsLib_texture_raw and gsLib_texture_send; with the colour table first, the
\* two halves of gsLib_font_create.
TextureRaw(size) ==
    /\ Cardinality(textures) < MaxTextures
    /\ LET i == Place(blocks, RoundUp(size)) IN
          IF i = AllocError
          THEN UNCHANGED <<blocks, textures, spr, packet, pixels>>
          ELSE /\ Build("texture")
               /\ blocks' = VramAlloc(blocks, RoundUp(size))
               /\ textures' = textures \cup {Block(blocks'[i].address, size)}
               /\ pixels' = "held"
    /\ UNCHANGED <<active, shown, flight>>

\* gsLib_texture_free; gsLib_font_destroy frees two
TextureFree(t) ==
    /\ packet = NoPacket /\ t \in textures
    /\ textures' = textures \ {t}
    /\ blocks' = VramFree(blocks, t.address)
    /\ UNCHANGED <<active, shown, spr, packet, flight, pixels>>

\* dmaKit_send_spr and dmaKit_send_chain_spr wait for the last packet.
Send ==
    /\ packet # NoPacket /\ flight = NoPacket
    /\ flight' = packet
    /\ packet' = NoPacket
    /\ UNCHANGED <<blocks, textures, active, shown, spr, pixels>>

TransferEnds ==
    /\ flight # NoPacket /\ flight' = NoPacket
    /\ UNCHANGED <<blocks, textures, active, shown, spr, packet, pixels>>

\* gsLib_texture_send waits for its own packet; the caller frees the pixels.
FreePixels_Mutant ==
    /\ pixels = "held" /\ packet = NoPacket
    /\ pixels' = "none"
    /\ UNCHANGED <<blocks, textures, active, shown, spr, packet, flight>>
FreePixels ==
    /\ pixels = "held" /\ packet = NoPacket /\ flight = NoPacket
    /\ pixels' = "none"
    /\ UNCHANGED <<blocks, textures, active, shown, spr, packet, flight>>

Next ==
    \/ Send \/ TransferEnds \/ FreePixels
    \/ /\ pixels = "none"
       /\ \/ Draw \/ Swap
          \/ \E size \in Sizes : TextureRaw(size)
          \/ \E t \in textures : TextureFree(t)

Spec == Init /\ [][Next]_videoVars

------------------------------------------------------------------------------
TypeOK ==
    /\ \A i \in DOMAIN blocks : blocks[i].address \in 0 .. MemSize /\ blocks[i].size \in 1 .. MemSize
    /\ textures \subseteq [address : 0 .. MemSize, size : Sizes]
    /\ {active, shown} \subseteq {0, 1} /\ spr \in 0 .. Scratchpad
    /\ pixels \in {"none", "held"}

Overlap(a, b) == a.address < b.address + b.size /\ b.address < a.address + a.size

(* No two textures, and no texture and frame buffer, share video memory,     *)
(* whatever was freed in between (gsLib_vram_alloc, gsLib_vram_free); what   *)
(* is drawn into is not what is shown.                                       *)
MemoryNotShared ==
    /\ \A a, b \in textures : a # b => ~Overlap(a, b)
    /\ \A a \in textures : a.address >= 2 * RoundUp(FrameSize) /\ a.address + a.size <= MemSize
    /\ active # shown

(* A packet is never built over one that is still being read, and the pixels *)
(* of a texture are not freed before they are in video memory                *)
(* (dmaKit_spr_alloc, gsLib_texture_send).                                   *)
TransfersUndisturbed ==
    /\ (packet # NoPacket /\ flight # NoPacket) =>
          packet[2] <= flight[1] \/ flight[2] <= packet[1]
    /\ packet[2] <= Scratchpad
    /\ flight[3] = "texture" => pixels = "held"

PicturesWhole == MemoryNotShared /\ TransfersUndisturbed
=============================================================================

------------------------------ MODULE ShellProofs ------------------------------
(***************************************************************************)
(* Proofs about what the user sees and presses: for every memory of the GS,*)
(* every texture, every window of controls and every gamepad.              *)
(***************************************************************************)
EXTENDS UserInterface, WellFoundedInduction, SequenceTheorems, FiniteSetTheorems, TLAPS

-------------------------------------------------------------------------------
(* Video memory.                                                             *)
LEMMA PieceOf ==
    ASSUME NEW S, NEW s \in Seq(S), NEW m \in 1 .. Len(s) + 1, NEW n \in m - 1 .. Len(s)
    PROVE  /\ SubSeq(s, m, n) \in Seq(S) /\ Len(SubSeq(s, m, n)) = n - m + 1
           /\ \A i \in 1 .. n - m + 1 : SubSeq(s, m, n)[i] = s[m + i - 1]
<1>1. Len(s) \in Nat /\ m \in Int /\ n \in Int
  BY LenProperties
<1>2. \A i \in m .. n : s[i] \in S
  BY <1>1, ElementOfSeq
<1>3. /\ SubSeq(s, m, n) \in Seq(S)
      /\ Len(SubSeq(s, m, n)) = IF m <= n THEN n - m + 1 ELSE 0
      /\ \A i \in 1 .. n - m + 1 : SubSeq(s, m, n)[i] = s[m + i - 1]
  BY <1>1, <1>2, SubSeqProperties
<1>4. (IF m <= n THEN n - m + 1 ELSE 0) = n - m + 1
  BY <1>1
<1>. QED  BY <1>3, <1>4

\* A sequence into which one element more was put.
LEMMA InsertAtMeans ==
    ASSUME NEW S, NEW s \in Seq(S), NEW i \in 1 .. Len(s) + 1, NEW e \in S
    PROVE  /\ Video!InsertAt(s, i, e) \in Seq(S) /\ Len(Video!InsertAt(s, i, e)) = Len(s) + 1
           /\ \A j \in 1 .. Len(s) + 1 : Video!InsertAt(s, i, e)[j] =
                  IF j < i THEN s[j] ELSE IF j = i THEN e ELSE s[j - 1]
<1>. DEFINE L == Len(s)
            a == SubSeq(s, 1, i - 1)
            b == SubSeq(s, i, L)
            m == a \o <<e>>
            t == m \o b
<1>1. L \in Nat /\ i \in 1 .. L + 1
  BY LenProperties
<1>2. /\ a \in Seq(S) /\ Len(a) = i - 1
      /\ \A j \in 1 .. i - 1 : a[j] = s[j]
  <2>1. 1 \in 1 .. Len(s) + 1 /\ i - 1 \in 1 - 1 .. Len(s)
    BY <1>1
  <2>2. /\ a \in Seq(S) /\ Len(a) = (i - 1) - 1 + 1
        /\ \A j \in 1 .. (i - 1) - 1 + 1 : a[j] = s[1 + j - 1]
    BY <2>1, PieceOf
  <2>. HIDE DEF a
  <2>. QED  BY <1>1, <2>2
<1>3. /\ b \in Seq(S) /\ Len(b) = L - i + 1
      /\ \A j \in 1 .. L - i + 1 : b[j] = s[i + j - 1]
  <2>1. i \in 1 .. Len(s) + 1 /\ L \in i - 1 .. Len(s)
    BY <1>1
  <2>. QED  BY <2>1, PieceOf
<1>4. <<e>> \in Seq(S) /\ Len(<<e>>) = 1 /\ <<e>>[1] = e
  OBVIOUS
<1>. HIDE DEF a, b, L
<1>5. /\ m \in Seq(S) /\ Len(m) = i - 1 + 1
      /\ \A j \in 1 .. i - 1 + 1 : m[j] = IF j <= i - 1 THEN a[j] ELSE <<e>>[j - (i - 1)]
  <2>1. /\ m \in Seq(S) /\ Len(m) = Len(a) + Len(<<e>>)
        /\ \A j \in 1 .. Len(a) + Len(<<e>>) : m[j] = IF j <= Len(a) THEN a[j] ELSE <<e>>[j - Len(a)]
    BY <1>2, <1>4, ConcatProperties
  <2>. HIDE DEF m
  <2>. QED  BY <1>2, <1>4, <2>1
<1>6. /\ m \in Seq(S) /\ Len(m) = i
      /\ \A j \in 1 .. i : m[j] = IF j < i THEN s[j] ELSE e
  <2>1. \A j \in 1 .. i : j \in 1 .. i - 1 + 1 /\ (j <= i - 1 <=> j < i) /\ (~(j < i) => j - (i - 1) = 1)
    BY <1>1
  <2>2. \A j \in 1 .. i : j < i => j \in 1 .. i - 1
    BY <1>1
  <2>3. i - 1 + 1 = i
    BY <1>1
  <2>. HIDE DEF m
  <2>. QED  BY <1>2, <1>4, <1>5, <2>1, <2>2, <2>3
<1>. HIDE DEF m
<1>7. /\ t \in Seq(S) /\ Len(t) = i + (L - i + 1)
      /\ \A j \in 1 .. i + (L - i + 1) : t[j] = IF j <= i THEN m[j] ELSE b[j - i]
  <2>1. /\ t \in Seq(S) /\ Len(t) = Len(m) + Len(b)
        /\ \A j \in 1 .. Len(m) + Len(b) : t[j] = IF j <= Len(m) THEN m[j] ELSE b[j - Len(m)]
    BY <1>3, <1>6, ConcatProperties
  <2>. HIDE DEF t
  <2>. QED  BY <1>3, <1>6, <2>1
<1>. HIDE DEF t
<1>8. i + (L - i + 1) = L + 1
  BY <1>1
<1>9. ASSUME NEW j \in 1 .. L + 1
      PROVE  t[j] = IF j < i THEN s[j] ELSE IF j = i THEN e ELSE s[j - 1]
  <2>1. t[j] = IF j <= i THEN m[j] ELSE b[j - i]
    BY <1>7, <1>8
  <2>2. ASSUME j <= i PROVE t[j] = IF j < i THEN s[j] ELSE e
    BY <1>1, <1>6, <2>1, <2>2
  <2>3. ASSUME ~(j <= i) PROVE t[j] = s[j - 1]
    <3>1. j - i \in 1 .. L - i + 1 /\ i + (j - i) - 1 = j - 1
      BY <1>1, <2>3
    <3>. QED  BY <1>3, <2>1, <2>3, <3>1
  <2>4. (j < i => j <= i) /\ (j = i => j <= i /\ ~(j < i)) /\ (~(j < i) /\ j # i => ~(j <= i))
    BY <1>1
  <2>. QED  BY <2>2, <2>3, <2>4
<1>10. Video!InsertAt(s, i, e) = t /\ Len(s) = L
  BY DEF Video!InsertAt, t, m, b, a, L
<1>. QED  BY <1>7, <1>8, <1>9, <1>10

\* A sequence from which one element was taken.
LEMMA RemoveAtMeans ==
    ASSUME NEW S, NEW s \in Seq(S), NEW i \in 1 .. Len(s)
    PROVE  /\ Video!RemoveAt(s, i) \in Seq(S) /\ Len(Video!RemoveAt(s, i)) = Len(s) - 1
           /\ \A j \in 1 .. Len(s) - 1 : Video!RemoveAt(s, i)[j] = IF j < i THEN s[j] ELSE s[j + 1]
<1>. DEFINE L == Len(s)
            a == SubSeq(s, 1, i - 1)
            b == SubSeq(s, i + 1, L)
            t == a \o b
<1>1. L \in Nat /\ i \in 1 .. L
  BY LenProperties
<1>2. /\ a \in Seq(S) /\ Len(a) = i - 1
      /\ \A j \in 1 .. i - 1 : a[j] = s[j]
  <2>1. 1 \in 1 .. Len(s) + 1 /\ i - 1 \in 1 - 1 .. Len(s)
    BY <1>1
  <2>2. /\ a \in Seq(S) /\ Len(a) = (i - 1) - 1 + 1
        /\ \A j \in 1 .. (i - 1) - 1 + 1 : a[j] = s[1 + j - 1]
    BY <2>1, PieceOf
  <2>. HIDE DEF a
  <2>. QED  BY <1>1, <2>2
<1>3. /\ b \in Seq(S) /\ Len(b) = L - i
      /\ \A j \in 1 .. L - i : b[j] = s[i + j]
  <2>1. i + 1 \in 1 .. Len(s) + 1 /\ L \in (i + 1) - 1 .. Len(s)
    BY <1>1
  <2>2. /\ b \in Seq(S) /\ Len(b) = L - (i + 1) + 1
        /\ \A j \in 1 .. L - (i + 1) + 1 : b[j] = s[(i + 1) + j - 1]
    BY <2>1, PieceOf
  <2>. HIDE DEF b
  <2>3. L - (i + 1) + 1 = L - i /\ \A j \in Int : (i + 1) + j - 1 = i + j
    BY <1>1
  <2>. QED  BY <1>1, <2>2, <2>3
<1>. HIDE DEF a, b, L
<1>7. /\ t \in Seq(S) /\ Len(t) = i - 1 + (L - i)
      /\ \A j \in 1 .. i - 1 + (L - i) : t[j] = IF j <= i - 1 THEN a[j] ELSE b[j - (i - 1)]
  <2>1. /\ t \in Seq(S) /\ Len(t) = Len(a) + Len(b)
        /\ \A j \in 1 .. Len(a) + Len(b) : t[j] = IF j <= Len(a) THEN a[j] ELSE b[j - Len(a)]
    BY <1>2, <1>3, ConcatProperties
  <2>. HIDE DEF t
  <2>. QED  BY <1>2, <1>3, <2>1
<1>. HIDE DEF t
<1>8. i - 1 + (L - i) = L - 1
  BY <1>1
<1>9. ASSUME NEW j \in 1 .. L - 1
      PROVE  t[j] = IF j < i THEN s[j] ELSE s[j + 1]
  <2>1. t[j] = IF j <= i - 1 THEN a[j] ELSE b[j - (i - 1)]
    BY <1>7, <1>8
  <2>2. ASSUME j < i PROVE t[j] = s[j]
    <3>1. j <= i - 1 /\ j \in 1 .. i - 1
      BY <1>1, <2>2
    <3>. QED  BY <1>2, <2>1, <3>1
  <2>3. ASSUME ~(j < i) PROVE t[j] = s[j + 1]
    <3>1. ~(j <= i - 1) /\ j - (i - 1) \in 1 .. L - i /\ i + (j - (i - 1)) = j + 1
      BY <1>1, <2>3
    <3>. QED  BY <1>3, <2>1, <3>1
  <2>. QED  BY <2>2, <2>3
<1>10. Video!RemoveAt(s, i) = t /\ Len(s) = L
  BY DEF Video!RemoveAt, t, b, a, L
<1>. QED  BY <1>7, <1>8, <1>9, <1>10

\* The blocks of video memory.
R == Video!RoundUp(FrameSize)
Blocks == [address : Nat, size : Nat \ {0}]

\* The blocks lie one behind the other; the first two are the frame buffers.
Apart(list) ==
    /\ \A i, j \in 1 .. Len(list) : i < j => Video!End(list[i]) <= list[j].address
    /\ \A i \in 1 .. Len(list) : Video!End(list[i]) <= MemSize
ListSound ==
    /\ vmBlocks \in Seq(Blocks) /\ Len(vmBlocks) >= 2
    /\ vmBlocks[1] = Video!Block(0, R) /\ vmBlocks[2] = Video!Block(R, R)
    /\ Apart(vmBlocks)
\* Each texture has a block of its own.
TexturesSound ==
    /\ vmTextures \subseteq [address : Nat, size : Nat \ {0}]
    /\ \A t \in vmTextures : \E i \in 3 .. Len(vmBlocks) :
          vmBlocks[i].address = t.address /\ t.size <= vmBlocks[i].size
    /\ \A t, u \in vmTextures : t.address = u.address => t = u

\* The packet that is built ends where the next one may begin, and does not reach into
\* the one that is read.
Length(kind) == IF kind = "init" THEN 8 ELSE Video!Quadwords(kind)
Packets == { <<a, a + Video!Quadwords(k), k>> : a \in 0 .. Scratchpad, k \in Video!Kinds }
Flights == Packets \cup { <<0, 8, "init">> }
PacketsSound ==
    /\ vmPacket \in Packets \cup {Video!NoPacket} /\ vmFlight \in Flights \cup {Video!NoPacket}
    /\ vmSpr \in 0 .. Scratchpad
    /\ vmPacket # Video!NoPacket => vmSpr = vmPacket[2]
    /\ vmPacket = Video!NoPacket /\ vmFlight # Video!NoPacket => vmSpr = vmFlight[2]
    /\ vmPacket # Video!NoPacket /\ vmFlight # Video!NoPacket =>
          vmPacket[2] <= vmFlight[1] \/ vmFlight[2] <= vmPacket[1]
    /\ "texture" \in {vmPacket[3], vmFlight[3]} => vmPixels = "held"
    /\ vmPixels \in {"none", "held"}

VideoInv ==
    /\ ListSound /\ TexturesSound /\ PacketsSound
    /\ vmActive \in {0, 1} /\ vmShown = 1 - vmActive

(* gsCore rounds a size up to whole blocks.                                 *)
LEMMA Rounded ==
    ASSUME BlockSize \in Nat \ {0}, NEW size \in Nat \ {0}
    PROVE  Video!RoundUp(size) \in Nat /\ Video!RoundUp(size) >= size
<1>. DEFINE a == size + BlockSize - 1
            q == a \div BlockSize
<1>1. a \in Nat /\ q \in Nat /\ a = BlockSize * q + (a % BlockSize) /\ a % BlockSize \in 0 .. BlockSize - 1
  OBVIOUS
<1>2. q * BlockSize \in Nat /\ q * BlockSize = BlockSize * q
  BY <1>1
<1>3. Video!RoundUp(size) = q * BlockSize
  BY DEF Video!RoundUp
<1>. HIDE DEF q
<1>4. q * BlockSize >= size
  <2>. DEFINE p == q * BlockSize
              r == a % BlockSize
  <2>1. a = p + r /\ p \in Nat /\ r \in 0 .. BlockSize - 1
    BY <1>1, <1>2
  <2>. HIDE DEF p, r
  <2>2. p >= size
    BY <2>1
  <2>. QED  BY <2>2 DEF p
<1>. QED  BY <1>2, <1>3, <1>4

(* Of the places that fit, VramAlloc takes one of the smallest size: it     *)
(* exists.                                                                  *)
LEMMA LeastExists ==
    ASSUME NEW T \in SUBSET Nat, T # {}
    PROVE  \E m \in T : \A n \in T : m <= n
<1>1. PICK m \in T : \A n \in T : <<n, m>> \notin OpToRel(<, Nat)
  BY NatLessThanWellFounded, WFMin, Zenon
<1>2. \A n \in T : ~(n < m)
  BY <1>1 DEF OpToRel
<1>. QED  BY <1>2

(* The smallest of a set of sizes is one of them.                           *)
LEMMA SmallestOf ==
    ASSUME NEW T \in SUBSET Nat, T # {}
    PROVE  Video!Min(T) \in T /\ \A y \in T : Video!Min(T) <= y
BY LeastExists DEF Video!Min

\* gsLib_vram_alloc finds room behind the frame buffers.
LEMMA PlaceFree ==
    ASSUME VideoAssumption, ListSound, NEW size \in Nat \ {0}, Video!Place(vmBlocks, size) # Video!AllocError
    PROVE  LET i == Video!Place(vmBlocks, size)
           IN /\ i \in 3 .. Len(vmBlocks) + 1
              /\ Video!End(vmBlocks[i - 1]) + size <= MemSize
              /\ i <= Len(vmBlocks) => Video!End(vmBlocks[i - 1]) + size <= vmBlocks[i].address
<1>. DEFINE L == Len(vmBlocks)
            i == Video!Place(vmBlocks, size)
            G == Video!GapsFor(vmBlocks, size)
<1>1. L \in Nat /\ L >= 2 /\ \A j \in 1 .. L : vmBlocks[j] \in Blocks
  BY LenProperties, ElementOfSeq DEF ListSound
<1>2. \A j \in 1 .. L : vmBlocks[j].address \in Nat /\ vmBlocks[j].size \in Nat \ {0}
                       /\ Video!End(vmBlocks[j]) = vmBlocks[j].address + vmBlocks[j].size
  BY <1>1 DEF Blocks, Video!End
<1>3. vmBlocks # <<>>
  BY <1>1
<1>4. size < MemSize /\ i = IF G # {} THEN Video!Min(G) ELSE L + 1
  BY <1>1, <1>3 DEF Video!Place, VideoAssumption
<1>5. CASE G # {}
  <2>1. G \in SUBSET Nat
    BY <1>1 DEF Video!GapsFor
  <2>2. i \in G
    BY <1>4, <1>5, <2>1, SmallestOf
  <2>3. i \in 2 .. L /\ vmBlocks[i].address - Video!End(vmBlocks[i - 1]) >= size
    BY <2>2 DEF Video!GapsFor
  <2>4. i # 2
    <3>1. ASSUME i = 2 PROVE FALSE
      <4>1. vmBlocks[2].address - Video!End(vmBlocks[1]) >= size
        BY <2>3, <3>1
      <4>2. vmBlocks[2].address = R /\ Video!End(vmBlocks[1]) = 0 + R /\ R \in Nat
        BY <1>1, <1>2 DEF ListSound, Video!End, Video!Block
      <4>. QED  BY <4>1, <4>2
    <3>. QED  BY <3>1
  <2>. HIDE DEF i, G
  <2>5. i \in 3 .. L /\ i - 1 \in 1 .. L
    BY <1>1, <2>3, <2>4
  <2>6. Video!End(vmBlocks[i]) <= MemSize
    BY <1>1, <2>5 DEF ListSound, Apart
  <2>. DEFINE a == vmBlocks[i].address
              e == Video!End(vmBlocks[i - 1])
              n == vmBlocks[i].size
  <2>7. a \in Nat /\ e \in Nat /\ n \in Nat /\ a + n <= MemSize /\ a - e >= size /\ MemSize \in Nat
    BY <1>2, <2>3, <2>5, <2>6 DEF VideoAssumption
  <2>. HIDE DEF a, e, n
  <2>8. e + size <= MemSize /\ e + size <= a
    BY <2>7
  <2>. QED  BY <1>1, <2>5, <2>8 DEF i, G, L, a, e
<1>6. CASE G = {}
  <2>1. ~(MemSize - Video!End(Video!Last(vmBlocks)) < size) /\ i = L + 1
    BY <1>1, <1>3, <1>4, <1>6 DEF Video!Place, VideoAssumption
  <2>2. Video!Last(vmBlocks) = vmBlocks[L]
    BY DEF Video!Last
  <2>3. i - 1 = L /\ i \in 3 .. L + 1 /\ ~(i <= L)
    BY <1>1, <2>1
  <2>4. Video!End(vmBlocks[L]) \in Nat
    BY <1>1, <1>2
  <2>5. Video!End(vmBlocks[L]) + size <= MemSize
    BY <2>1, <2>2, <2>4 DEF VideoAssumption
  <2>. QED  BY <2>3, <2>5
<1>. QED  BY <1>5, <1>6

(* The size of a frame, rounded up, is a whole number.                      *)
LEMMA RIsNat == ASSUME VideoAssumption PROVE R \in Nat \ {0}
BY Rounded DEF VideoAssumption, R

\* A block more between two others that leave room for it.
LEMMA BlockMore ==
    ASSUME VideoAssumption, ListSound, TexturesSound,
           NEW size \in Nat \ {0}, NEW want \in Nat \ {0}, want <= size,
           NEW i \in 3 .. Len(vmBlocks) + 1,
           Video!End(vmBlocks[i - 1]) + size <= MemSize,
           i <= Len(vmBlocks) => Video!End(vmBlocks[i - 1]) + size <= vmBlocks[i].address,
           NEW b, b = Video!Block(Video!End(vmBlocks[i - 1]), size),
           vmBlocks' = Video!InsertAt(vmBlocks, i, b),
           vmTextures' = vmTextures \cup {Video!Block(b.address, want)}
    PROVE  ListSound' /\ TexturesSound'
<1>. DEFINE L == Len(vmBlocks)
            s == vmBlocks
            t == vmBlocks'
            A(x) == s[x].address
            E(x) == Video!End(s[x])
<1>1. L \in Nat /\ L >= 2 /\ i \in 3 .. L + 1 /\ i - 1 \in 1 .. L
  BY LenProperties DEF ListSound
<1>2. \A j \in 1 .. L : s[j] \in Blocks /\ A(j) \in Nat /\ s[j].size \in Nat \ {0} /\ E(j) = A(j) + s[j].size
  <2>1. \A j \in 1 .. L : s[j] \in Blocks
    BY <1>1, ElementOfSeq DEF ListSound
  <2>. QED  BY <2>1 DEF Blocks, Video!End
<1>3. b \in Blocks /\ b.address = E(i - 1) /\ b.size = size /\ Video!End(b) = E(i - 1) + size
  BY <1>1, <1>2 DEF Blocks, Video!Block, Video!End
<1>4. /\ t \in Seq(Blocks) /\ Len(t) = L + 1
      /\ \A j \in 1 .. L + 1 : t[j] = IF j < i THEN s[j] ELSE IF j = i THEN b ELSE s[j - 1]
  <2>1. i \in 1 .. Len(s) + 1 /\ s \in Seq(Blocks)
    BY <1>1 DEF ListSound
  <2>. DEFINE u == Video!InsertAt(s, i, b)
  <2>2. /\ u \in Seq(Blocks) /\ Len(u) = Len(s) + 1
        /\ \A j \in 1 .. Len(s) + 1 : u[j] = IF j < i THEN s[j] ELSE IF j = i THEN b ELSE s[j - 1]
    BY <1>3, <2>1, InsertAtMeans
  <2>3. t = u /\ Len(s) = L
    OBVIOUS
  <2>. HIDE DEF u, t, L
  <2>. QED  BY <2>2, <2>3
<1>5. \A x, y \in 1 .. L : x < y => E(x) <= A(y)
  BY DEF ListSound, Apart
<1>6. \A x \in 1 .. L : E(x) <= MemSize
  BY DEF ListSound, Apart
<1>7. E(i - 1) + size <= MemSize /\ (i <= L => E(i - 1) + size <= A(i))
  OBVIOUS
<1>8. s[1] = Video!Block(0, R) /\ s[2] = Video!Block(R, R)
  BY DEF ListSound
<1>9. \A x \in 1 .. L : x < i => E(x) <= E(i - 1)
  <2>1. ASSUME NEW x \in 1 .. L, x < i, x # i - 1 PROVE E(x) <= E(i - 1)
    <3>1. x < i - 1
      BY <1>1, <2>1
    <3>2. E(x) <= A(i - 1)
      BY <1>1, <1>5, <3>1
    <3>3. E(x) \in Nat /\ A(i - 1) \in Nat /\ s[i - 1].size \in Nat /\ E(i - 1) = A(i - 1) + s[i - 1].size
      <4>1. i - 1 \in 1 .. L /\ x \in 1 .. L
        BY <1>1, <2>1
      <4>. HIDE DEF E, A
      <4>2. E(x) = A(x) + s[x].size /\ A(x) \in Nat /\ s[x].size \in Nat
        BY <1>2, <4>1
      <4>3. E(i - 1) = A(i - 1) + s[i - 1].size /\ A(i - 1) \in Nat /\ s[i - 1].size \in Nat
        BY <1>2, <4>1
      <4>. QED  BY <4>2, <4>3
    <3>. HIDE DEF E, A
    <3>. QED  BY <3>2, <3>3
  <2>2. E(i - 1) <= E(i - 1)
    BY <1>1, <1>2
  <2>. QED  BY <1>1, <2>1, <2>2
<1>10. \A y \in 1 .. L : y >= i => E(i - 1) + size <= A(y)
  <2>1. ASSUME NEW y \in 1 .. L, y >= i PROVE E(i - 1) + size <= A(y)
    <3>1. i \in 1 .. L /\ i <= L
      BY <1>1, <2>1
    <3>2. CASE y = i
      BY <1>7, <3>1, <3>2
    <3>3. CASE y # i
      <4>1. i < y
        BY <1>1, <2>1, <3>3
      <4>2. E(i) <= A(y)
        BY <1>5, <3>1, <4>1
      <4>3. A(i) \in Nat /\ s[i].size \in Nat /\ E(i) = A(i) + s[i].size /\ A(y) \in Nat /\ E(i - 1) \in Nat
        <5>1. i \in 1 .. L /\ y \in 1 .. L /\ i - 1 \in 1 .. L
          BY <1>1, <3>1
        <5>. HIDE DEF A, E
        <5>2. \A j \in 1 .. L : E(j) \in Nat
          BY <1>2
        <5>. QED  BY <1>2, <5>1, <5>2
      <4>4. E(i - 1) + size <= A(i)
        BY <1>7, <3>1
      <4>. HIDE DEF A, E
      <4>. QED  BY <4>2, <4>3, <4>4
    <3>. QED  BY <3>2, <3>3
  <2>. QED  BY <2>1
<1>. HIDE DEF L, s, t, A, E
<1>11. \A j \in 1 .. L + 1 : (t[j] = b /\ j = i) \/ \E x \in 1 .. L : t[j] = s[x] /\ ((x = j /\ x < i) \/ (x = j - 1 /\ x >= i))
  <2>1. ASSUME NEW j \in 1 .. L + 1, j < i PROVE j \in 1 .. L /\ t[j] = s[j]
    BY <1>1, <1>4, <2>1
  <2>2. ASSUME NEW j \in 1 .. L + 1, j > i PROVE j - 1 \in 1 .. L /\ j - 1 >= i /\ t[j] = s[j - 1]
    <3>1. ~(j < i) /\ j # i /\ j - 1 \in 1 .. L /\ j - 1 >= i
      BY <1>1, <2>2
    <3>. QED  BY <1>4, <3>1
  <2>3. t[i] = b
    <3>1. i \in 1 .. L + 1 /\ ~(i < i)
      BY <1>1
    <3>. QED  BY <1>4, <3>1
  <2>. TAKE j \in 1 .. L + 1
  <2>4. CASE j < i
    <3>1. j \in 1 .. L /\ t[j] = s[j]
      BY <2>1, <2>4
    <3>. QED  BY <2>4, <3>1
  <2>5. CASE j > i
    BY <2>2, <2>5
  <2>6. CASE j = i
    BY <2>3, <2>6
  <2>7. j < i \/ j = i \/ j > i
    BY <1>1
  <2>. QED  BY <2>4, <2>5, <2>6, <2>7
<1>12. ASSUME NEW x \in 1 .. L + 1, NEW y \in 1 .. L + 1, x < y PROVE Video!End(t[x]) <= t[y].address
  <2>1. CASE x = i /\ t[x] = b
    <3>1. PICK v \in 1 .. L : t[y] = s[v] /\ ((v = y /\ v < i) \/ (v = y - 1 /\ v >= i))
      <4>1. y # i
        BY <1>1, <1>12, <2>1
      <4>. QED  BY <1>11, <4>1
    <3>2. v >= i
      BY <1>1, <1>12, <2>1, <3>1
    <3>3. E(i - 1) + size <= A(v)
      BY <1>10, <3>2
    <3>. QED  BY <1>3, <2>1, <3>1, <3>3 DEF A
  <2>2. CASE y = i /\ t[y] = b
    <3>1. PICK u \in 1 .. L : t[x] = s[u] /\ ((u = x /\ u < i) \/ (u = x - 1 /\ u >= i))
      BY <1>1, <1>11, <1>12, <2>2
    <3>2. u < i
      BY <1>1, <1>12, <2>2, <3>1
    <3>3. E(u) <= E(i - 1)
      BY <1>9, <3>2
    <3>. QED  BY <1>3, <2>2, <3>1, <3>3 DEF E
  <2>3. CASE ~(x = i /\ t[x] = b) /\ ~(y = i /\ t[y] = b)
    <3>1. PICK u \in 1 .. L : t[x] = s[u] /\ ((u = x /\ u < i) \/ (u = x - 1 /\ u >= i))
      BY <1>11, <2>3
    <3>2. PICK v \in 1 .. L : t[y] = s[v] /\ ((v = y /\ v < i) \/ (v = y - 1 /\ v >= i))
      BY <1>11, <2>3
    <3>3. u < v
      BY <1>1, <1>12, <3>1, <3>2
    <3>. QED  BY <1>5, <3>1, <3>2, <3>3 DEF E, A
  <2>. QED  BY <2>1, <2>2, <2>3
<1>13. ASSUME NEW x \in 1 .. L + 1 PROVE Video!End(t[x]) <= MemSize
  BY <1>3, <1>6, <1>7, <1>11 DEF E
<1>14. ListSound'
  <2>1. t[1] = s[1] /\ t[2] = s[2]
    <3>1. 1 \in 1 .. L + 1 /\ 2 \in 1 .. L + 1 /\ 1 < i /\ 2 < i
      BY <1>1
    <3>. QED  BY <1>4, <3>1
  <2>2. Apart(t)
    BY <1>4, <1>12, <1>13 DEF Apart
  <2>3. L + 1 >= 2
    BY <1>1
  <2>. QED  BY <1>4, <1>8, <2>1, <2>2, <2>3 DEF ListSound, t, Apart
<1>15. TexturesSound'
  <2>. DEFINE new == Video!Block(b.address, want)
  <2>1. new.address = E(i - 1) /\ new.size = want /\ new \in [address : Nat, size : Nat \ {0}]
    BY <1>3 DEF Video!Block, Blocks
  <2>2. ASSUME NEW x \in vmTextures
        PROVE  \E j \in 3 .. L + 1 : t[j].address = x.address /\ x.size <= t[j].size
    <3>1. PICK j \in 3 .. L : s[j].address = x.address /\ x.size <= s[j].size
      BY DEF TexturesSound, s, L
    <3>2. CASE j < i
      <4>1. j \in 3 .. L + 1 /\ j \in 1 .. L + 1
        BY <1>1
      <4>2. t[j] = s[j]
        BY <1>4, <3>2, <4>1
      <4>. QED  BY <3>1, <4>1, <4>2
    <3>3. CASE ~(j < i)
      <4>1. j + 1 \in 3 .. L + 1 /\ j + 1 \in 1 .. L + 1 /\ ~(j + 1 < i) /\ j + 1 # i /\ (j + 1) - 1 = j
        BY <1>1, <3>3
      <4>2. t[j + 1] = s[j]
        BY <1>4, <4>1
      <4>. QED  BY <3>1, <4>1, <4>2
    <3>. QED  BY <3>2, <3>3
  <2>3. \E j \in 3 .. L + 1 : t[j].address = new.address /\ new.size <= t[j].size
    <3>1. i \in 3 .. L + 1 /\ i \in 1 .. L + 1 /\ ~(i < i)
      BY <1>1
    <3>2. t[i] = b
      BY <1>4, <3>1
    <3>. QED  BY <1>3, <2>1, <3>1, <3>2
  <2>4. ASSUME NEW x \in vmTextures, x.address = new.address PROVE FALSE
    <3>1. PICK j \in 3 .. L : s[j].address = x.address
      BY DEF TexturesSound, s, L
    <3>2. j \in 1 .. L /\ A(j) = E(i - 1) /\ A(j) \in Nat /\ E(j) = A(j) + s[j].size /\ s[j].size \in Nat \ {0}
      BY <1>1, <1>2, <2>1, <2>4, <3>1 DEF A
    <3>3. CASE j < i
      <4>1. E(j) <= E(i - 1)
        BY <1>9, <3>2, <3>3
      <4>. QED  BY <3>2, <4>1
    <3>4. CASE ~(j < i)
      <4>1. j >= i
        BY <1>1, <3>4
      <4>2. E(i - 1) + size <= A(j)
        BY <1>10, <3>2, <4>1
      <4>. QED  BY <3>2, <4>2
    <3>. QED  BY <3>3, <3>4
  <2>5. vmTextures' = vmTextures \cup {new}
    OBVIOUS
  <2>. HIDE DEF new
  <2>6. vmTextures' \subseteq [address : Nat, size : Nat \ {0}]
    BY <2>1, <2>5 DEF TexturesSound
  <2>7. \A x \in vmTextures' : \E j \in 3 .. Len(t) : t[j].address = x.address /\ x.size <= t[j].size
    BY <1>4, <2>2, <2>3, <2>5
  <2>8. \A x, y \in vmTextures' : x.address = y.address => x = y
    BY <2>4, <2>5 DEF TexturesSound
  <2>. QED  BY <2>6, <2>7, <2>8 DEF TexturesSound, t
<1>. QED  BY <1>14, <1>15

\* gsLib_vram_free takes the texture's block out of the list, and no other.
LEMMA BlockLess ==
    ASSUME VideoAssumption, ListSound, TexturesSound, NEW u \in vmTextures,
           vmBlocks' = Video!VramFree(vmBlocks, u.address),
           vmTextures' = vmTextures \ {u}
    PROVE  ListSound' /\ TexturesSound'
<1>. DEFINE L == Len(vmBlocks)
            s == vmBlocks
            t == vmBlocks'
            A(x) == s[x].address
            E(x) == Video!End(s[x])
<1>1. L \in Nat /\ L >= 2
  BY LenProperties DEF ListSound
<1>2. \A j \in 1 .. L : s[j] \in Blocks /\ A(j) \in Nat /\ s[j].size \in Nat \ {0} /\ E(j) = A(j) + s[j].size
  <2>1. \A j \in 1 .. L : s[j] \in Blocks
    BY <1>1, ElementOfSeq DEF ListSound
  <2>. QED  BY <2>1 DEF Blocks, Video!End
<1>3. \A x, y \in 1 .. L : x < y => E(x) <= A(y)
  BY DEF ListSound, Apart
<1>4. \A x \in 1 .. L : E(x) <= MemSize
  BY DEF ListSound, Apart
<1>5. s[1] = Video!Block(0, R) /\ s[2] = Video!Block(R, R)
  BY DEF ListSound
<1>6. ASSUME NEW x \in 1 .. L, NEW y \in 1 .. L, x # y PROVE A(x) # A(y)
  <2>1. A(x) \in Nat /\ s[x].size \in Nat \ {0} /\ E(x) = A(x) + s[x].size
    BY <1>2
  <2>2. A(y) \in Nat /\ s[y].size \in Nat \ {0} /\ E(y) = A(y) + s[y].size
    BY <1>2
  <2>3. x < y \/ y < x
    BY <1>1, <1>6
  <2>4. E(x) <= A(y) \/ E(y) <= A(x)
    BY <1>3, <2>3
  <2>. HIDE DEF A, E
  <2>. QED  BY <2>1, <2>2, <2>4
<1>7. PICK i \in 3 .. L : A(i) = u.address
  BY DEF TexturesSound
<1>8. i \in 1 .. L /\ i # 1
  BY <1>1
<1>9. t = Video!RemoveAt(s, i)
  <2>. DEFINE found == {j \in 1 .. Len(s) : s[j].address = u.address}
  <2>1. found = {i}
    BY <1>6, <1>7, <1>8
  <2>2. t = IF found = {} THEN s ELSE IF Video!Min(found) = 1 THEN <<>> ELSE Video!RemoveAt(s, Video!Min(found))
    BY DEF Video!VramFree
  <2>3. {i} \in SUBSET Nat
    BY <1>1
  <2>4. Video!Min({i}) = i
    BY <2>3, SmallestOf
  <2>. HIDE DEF found, t, s
  <2>. QED  BY <1>8, <2>1, <2>2, <2>4
<1>10. /\ t \in Seq(Blocks) /\ Len(t) = L - 1
       /\ \A j \in 1 .. L - 1 : t[j] = IF j < i THEN s[j] ELSE s[j + 1]
  <2>1. i \in 1 .. Len(s) /\ s \in Seq(Blocks)
    BY <1>8 DEF ListSound
  <2>. DEFINE r == Video!RemoveAt(s, i)
  <2>2. /\ r \in Seq(Blocks) /\ Len(r) = Len(s) - 1
        /\ \A j \in 1 .. Len(s) - 1 : r[j] = IF j < i THEN s[j] ELSE s[j + 1]
    BY <2>1, RemoveAtMeans
  <2>3. Len(s) = L
    OBVIOUS
  <2>. HIDE DEF r, L, t
  <2>. QED  BY <1>9, <2>2, <2>3 DEF r
<1>. HIDE DEF L, s, t, A, E
<1>11. ASSUME NEW j \in 1 .. L - 1
       PROVE  \E x \in 1 .. L : t[j] = s[x] /\ ((x = j /\ j < i) \/ (x = j + 1 /\ j >= i))
  <2>1. CASE j < i
    <3>1. j \in 1 .. L /\ t[j] = s[j]
      BY <1>1, <1>10, <2>1
    <3>. QED  BY <2>1, <3>1
  <2>2. CASE j >= i
    <3>1. j + 1 \in 1 .. L /\ ~(j < i)
      BY <1>1, <1>8, <2>2
    <3>2. t[j] = s[j + 1]
      BY <1>10, <3>1
    <3>. QED  BY <2>2, <3>1, <3>2
  <2>3. j < i \/ j >= i
    BY <1>1, <1>8
  <2>. QED  BY <2>1, <2>2, <2>3
<1>12. ASSUME NEW x \in 1 .. L - 1, NEW y \in 1 .. L - 1, x < y PROVE Video!End(t[x]) <= t[y].address
  <2>1. PICK v \in 1 .. L : t[x] = s[v] /\ ((v = x /\ x < i) \/ (v = x + 1 /\ x >= i))
    BY <1>11
  <2>2. PICK w \in 1 .. L : t[y] = s[w] /\ ((w = y /\ y < i) \/ (w = y + 1 /\ y >= i))
    BY <1>11
  <2>3. v < w
    BY <1>1, <1>8, <1>12, <2>1, <2>2
  <2>. QED  BY <1>3, <2>1, <2>2, <2>3 DEF E, A
<1>13. ASSUME NEW x \in 1 .. L - 1 PROVE Video!End(t[x]) <= MemSize
  BY <1>4, <1>11 DEF E
<1>14. ListSound'
  <2>1. 1 \in 1 .. L - 1 /\ 2 \in 1 .. L - 1 /\ 1 < i /\ 2 < i /\ L - 1 >= 2
    BY <1>1, <1>7
  <2>2. t[1] = s[1] /\ t[2] = s[2]
    BY <1>10, <2>1
  <2>3. Apart(t)
    BY <1>10, <1>12, <1>13 DEF Apart
  <2>. QED  BY <1>5, <1>10, <2>1, <2>2, <2>3 DEF ListSound, t, Apart
<1>15. TexturesSound'
  <2>1. ASSUME NEW x \in vmTextures \ {u}
        PROVE  \E j \in 3 .. L - 1 : t[j].address = x.address /\ x.size <= t[j].size
    <3>1. PICK j \in 3 .. L : s[j].address = x.address /\ x.size <= s[j].size
      BY DEF TexturesSound, s, L
    <3>2. x.address # u.address
      BY DEF TexturesSound
    <3>3. j # i
      BY <1>7, <3>1, <3>2 DEF A
    <3>4. CASE j < i
      <4>1. j \in 3 .. L - 1 /\ j \in 1 .. L - 1
        BY <1>1, <1>7, <3>4
      <4>2. t[j] = s[j]
        BY <1>10, <3>4, <4>1
      <4>. QED  BY <3>1, <4>1, <4>2
    <3>5. CASE ~(j < i)
      <4>1. j - 1 \in 3 .. L - 1 /\ j - 1 \in 1 .. L - 1 /\ ~(j - 1 < i) /\ (j - 1) + 1 = j
        BY <1>1, <1>7, <3>3, <3>5
      <4>2. t[j - 1] = s[j]
        BY <1>10, <4>1
      <4>. QED  BY <3>1, <4>1, <4>2
    <3>. QED  BY <3>4, <3>5
  <2>2. vmTextures' \subseteq [address : Nat, size : Nat \ {0}]
    BY DEF TexturesSound
  <2>3. \A x \in vmTextures' : \E j \in 3 .. Len(t) : t[j].address = x.address /\ x.size <= t[j].size
    BY <1>10, <2>1
  <2>4. \A x, y \in vmTextures' : x.address = y.address => x = y
    BY DEF TexturesSound
  <2>. QED  BY <2>2, <2>3, <2>4 DEF TexturesSound, t
<1>. QED  BY <1>14, <1>15

\* A packet is only begun when the one that is read is no texture's.
LEMMA PacketBegins ==
    ASSUME VideoAssumption, PacketsSound, NEW kind \in Video!Kinds, Video!Build(kind),
           vmPixels = "none", UNCHANGED vmFlight,
           vmPixels' = IF kind = "texture" THEN "held" ELSE "none"
    PROVE  PacketsSound'
<1>. DEFINE n == Video!Quadwords(kind)
            a == Video!SprAlloc(n)
<1>1. n \in {5, 2, 11}
  BY DEF Video!Quadwords, Video!Kinds
<1>2. vmPacket = Video!NoPacket /\ vmPacket' = <<a, a + n, kind>> /\ vmSpr' = a + n
  BY DEF Video!Build
<1>3. vmSpr \in 0 .. Scratchpad /\ Scratchpad \in Nat /\ Scratchpad >= 30
  BY DEF PacketsSound, VideoAssumption
<1>4. a = IF vmSpr + n >= Scratchpad THEN 0 ELSE vmSpr
  BY DEF Video!SprAlloc
<1>5. a \in 0 .. Scratchpad /\ a + n \in 0 .. Scratchpad
  BY <1>1, <1>3, <1>4
<1>6. vmPacket' \in Packets
  BY <1>2, <1>5 DEF Packets
<1>7. ASSUME vmFlight # Video!NoPacket
      PROVE  a + n <= vmFlight[1] \/ vmFlight[2] <= a
  <2>1. PICK f \in Nat, m \in {2, 5, 8} : vmFlight[1] = f /\ vmFlight[2] = f + m
    <3>1. CASE vmFlight = <<0, 8, "init">>
      BY <3>1
    <3>2. CASE vmFlight \in Packets
      <4>1. PICK b \in 0 .. Scratchpad, k \in Video!Kinds : vmFlight = <<b, b + Video!Quadwords(k), k>>
        BY <3>2 DEF Packets
      <4>2. k # "texture"
        BY <4>1 DEF PacketsSound
      <4>3. Video!Quadwords(k) \in {2, 5}
        BY <4>2 DEF Video!Quadwords, Video!Kinds
      <4>. QED  BY <1>3, <4>1, <4>3
    <3>. QED  BY <1>7, <3>1, <3>2 DEF PacketsSound, Flights
  <2>2. vmSpr = f + m
    BY <1>2, <1>7, <2>1 DEF PacketsSound
  <2>. HIDE DEF a, n
  <2>. QED  BY <1>1, <1>3, <1>4, <2>1, <2>2
<1>8. vmPacket'[1] = a /\ vmPacket'[2] = a + n /\ vmPacket'[3] = kind
  BY <1>2
<1>9. vmPacket' # Video!NoPacket
  BY <1>2, <1>8 DEF Video!NoPacket, Video!Kinds
<1>10. vmFlight[3] # "texture"
  BY DEF PacketsSound
<1>. HIDE DEF a, n
<1>. QED  BY <1>2, <1>5, <1>6, <1>7, <1>8, <1>9, <1>10 DEF PacketsSound

\* At its end a block more is appended.
LEMMA BlockAtEnd ==
    ASSUME NEW s \in Seq(Blocks), NEW e \in Blocks, NEW i, i = Len(s) + 1
    PROVE  Video!InsertAt(s, i, e) = Append(s, e)
<1>. DEFINE t == Video!InsertAt(s, i, e)
            a == Append(s, e)
<1>1. Len(s) \in Nat /\ i \in 1 .. Len(s) + 1
  BY LenProperties
<1>2. /\ t \in Seq(Blocks) /\ Len(t) = Len(s) + 1
      /\ \A j \in 1 .. Len(s) + 1 : t[j] = IF j < i THEN s[j] ELSE IF j = i THEN e ELSE s[j - 1]
  <2>1. ASSUME NEW k \in 1 .. Len(s) + 1
        PROVE  LET u == Video!InsertAt(s, k, e) IN
                  /\ u \in Seq(Blocks) /\ Len(u) = Len(s) + 1
                  /\ \A j \in 1 .. Len(s) + 1 : u[j] = IF j < k THEN s[j] ELSE IF j = k THEN e ELSE s[j - 1]
    BY InsertAtMeans
  <2>. QED  BY <1>1, <2>1
<1>3. /\ a \in Seq(Blocks) /\ Len(a) = Len(s) + 1
      /\ \A j \in 1 .. Len(s) : a[j] = s[j]
      /\ a[Len(s) + 1] = e
  BY AppendProperties
<1>. HIDE DEF t, a
<1>4. \A j \in 1 .. Len(t) : t[j] = a[j]
  BY <1>1, <1>2, <1>3
<1>5. Len(t) = Len(a)
  BY <1>2, <1>3
<1>6. t = a
  BY <1>2, <1>3, <1>4, <1>5, SeqEqual
<1>. QED  BY <1>6 DEF t, a

(* GSINIT and GSCORE leave the two frames in the list of blocks.            *)
LEMMA VideoBegins == VideoAssumption /\ FramesFit /\ Video!Init => VideoInv
<1>. SUFFICES ASSUME VideoAssumption, FramesFit, Video!Init PROVE VideoInv
  OBVIOUS
<1>1. R \in Nat \ {0} /\ R < MemSize /\ 2 * R <= MemSize /\ MemSize \in Nat
  BY RIsNat DEF FramesFit, R, VideoAssumption
<1>. DEFINE b1 == Video!Block(0, R)
            b2 == Video!Block(R, R)
<1>2. b1 \in Blocks /\ b2 \in Blocks /\ Video!End(b1) = R /\ Video!End(b2) = 2 * R /\ b1.address = 0 /\ b2.address = R
  BY <1>1 DEF Blocks, Video!Block, Video!End
<1>3. Video!VramAlloc(<<>>, R) = <<b1>>
  <2>1. Video!Place(<<>>, R) = 1
    BY <1>1 DEF Video!Place
  <2>2. Video!VramAlloc(<<>>, R) = Video!InsertAt(<<>>, 1, b1)
    BY <2>1 DEF Video!VramAlloc
  <2>3. <<>> \in Seq(Blocks) /\ 1 = Len(<<>>) + 1 /\ Append(<<>>, b1) = <<b1>>
    OBVIOUS
  <2>. HIDE DEF b1
  <2>4. ASSUME NEW s \in Seq(Blocks), 1 = Len(s) + 1 PROVE Video!InsertAt(s, 1, b1) = Append(s, b1)
    BY <1>2, <2>4, BlockAtEnd
  <2>. QED  BY <2>2, <2>3, <2>4
<1>4. Video!VramAlloc(<<b1>>, R) = <<b1, b2>>
  <2>1. /\ <<b1>> \in Seq(Blocks) /\ Len(<<b1>>) = 1 /\ <<b1>>[1] = b1
        /\ <<b1>> # <<>> /\ Video!Last(<<b1>>) = b1
    BY <1>2 DEF Video!Last
  <2>2. Video!GapsFor(<<b1>>, R) = {}
    BY DEF Video!GapsFor
  <2>3. Video!Place(<<b1>>, R) = 2
    BY <1>1, <1>2, <2>1, <2>2 DEF Video!Place
  <2>4. Video!VramAlloc(<<b1>>, R) = Video!InsertAt(<<b1>>, 2, b2)
    BY <1>2, <2>1, <2>3 DEF Video!VramAlloc
  <2>. HIDE DEF b1, b2
  <2>5. ASSUME NEW s \in Seq(Blocks), 2 = Len(s) + 1 PROVE Video!InsertAt(s, 2, b2) = Append(s, b2)
    BY <1>2, <2>5, BlockAtEnd
  <2>6. Append(<<b1>>, b2) = <<b1, b2>>
    <3>. DEFINE a == Append(<<b1>>, b2)
                c == <<b1, b2>>
    <3>1. a \in Seq(Blocks) /\ Len(a) = 2 /\ a[1] = b1 /\ a[2] = b2
      BY <1>2
    <3>2. c \in Seq(Blocks) /\ Len(c) = 2 /\ c[1] = b1 /\ c[2] = b2
      BY <1>2
    <3>. HIDE DEF a, c
    <3>3. \A x \in 1 .. Len(a) : a[x] = c[x]
      BY <3>1, <3>2
    <3>4. a = c
      BY <3>1, <3>2, <3>3, SeqEqual
    <3>. QED  BY <3>4 DEF a, c
  <2>7. 2 = Len(<<b1>>) + 1
    BY <2>1
  <2>. QED  BY <2>1, <2>4, <2>5, <2>6, <2>7
<1>5. vmBlocks = <<b1, b2>>
  BY <1>3, <1>4 DEF Video!Init, R
<1>6. ListSound
  <2>1. Apart(vmBlocks)
    BY <1>1, <1>2, <1>5 DEF Apart
  <2>. QED  BY <1>2, <1>5, <2>1 DEF ListSound
<1>7. TexturesSound
  BY DEF Video!Init, TexturesSound
<1>8. PacketsSound
  BY DEF Video!Init, PacketsSound, Flights, VideoAssumption, Video!NoPacket
<1>. QED  BY <1>6, <1>7, <1>8 DEF Video!Init, VideoInv

(* Every step of a texture, of a packet and of its transfer keeps the       *)
(* blocks apart.                                                            *)
LEMMA VideoSteps ==
    ASSUME VideoAssumption, VideoInv, [Video!Next]_(Video!videoVars)
    PROVE  VideoInv'
<1>. USE DEF VideoInv
<1>1. CASE UNCHANGED Video!videoVars
  BY <1>1 DEF Video!videoVars, ListSound, Apart, TexturesSound, PacketsSound
<1>2. CASE Video!Send
  <2>1. ListSound' /\ TexturesSound'
    BY <1>2 DEF Video!Send, ListSound, Apart, TexturesSound
  <2>2. PacketsSound'
    BY <1>2 DEF Video!Send, PacketsSound, Flights, Video!NoPacket
  <2>. QED  BY <1>2, <2>1, <2>2 DEF Video!Send
<1>3. CASE Video!TransferEnds
  <2>1. ListSound' /\ TexturesSound'
    BY <1>3 DEF Video!TransferEnds, ListSound, Apart, TexturesSound
  <2>2. PacketsSound'
    BY <1>3 DEF Video!TransferEnds, PacketsSound, Flights, Video!NoPacket
  <2>. QED  BY <1>3, <2>1, <2>2 DEF Video!TransferEnds
<1>4. CASE Video!FreePixels
  <2>1. ListSound' /\ TexturesSound'
    BY <1>4 DEF Video!FreePixels, ListSound, Apart, TexturesSound
  <2>2. PacketsSound'
    BY <1>4 DEF Video!FreePixels, PacketsSound, Flights, Video!NoPacket
  <2>. QED  BY <1>4, <2>1, <2>2 DEF Video!FreePixels
<1>5. CASE vmPixels = "none" /\ Video!Draw
  <2>1. ListSound' /\ TexturesSound'
    BY <1>5 DEF Video!Draw, ListSound, Apart, TexturesSound
  <2>2. PacketsSound'
    BY <1>5, PacketBegins DEF Video!Draw, Video!Kinds
  <2>. QED  BY <1>5, <2>1, <2>2 DEF Video!Draw
<1>6. CASE vmPixels = "none" /\ Video!Swap
  <2>1. ListSound' /\ TexturesSound'
    BY <1>6 DEF Video!Swap, ListSound, Apart, TexturesSound
  <2>2. PacketsSound'
    BY <1>6, PacketBegins DEF Video!Swap, Video!Kinds
  <2>3. vmActive' \in {0, 1} /\ vmShown' = 1 - vmActive'
    BY <1>6 DEF Video!Swap
  <2>. QED  BY <2>1, <2>2, <2>3
<1>7. ASSUME vmPixels = "none", NEW size \in Sizes, Video!TextureRaw(size) PROVE VideoInv'
  <2>. DEFINE n == Video!RoundUp(size)
              i == Video!Place(vmBlocks, n)
  <2>1. CASE i = Video!AllocError
    <3>1. UNCHANGED Video!videoVars
      BY <1>7, <2>1 DEF Video!TextureRaw, Video!videoVars
    <3>. QED  BY <1>1, <3>1
  <2>2. CASE i # Video!AllocError
    <3>1. /\ Video!Build("texture") /\ vmBlocks' = Video!VramAlloc(vmBlocks, n)
          /\ vmTextures' = vmTextures \cup {Video!Block(vmBlocks'[i].address, size)}
          /\ vmPixels' = "held" /\ UNCHANGED <<vmActive, vmShown, vmFlight>>
      BY <1>7, <2>2 DEF Video!TextureRaw
    <3>2. size \in Nat \ {0} /\ n \in Nat \ {0} /\ size <= n
      BY Rounded DEF VideoAssumption
    <3>. HIDE DEF n
    <3>3. /\ i \in 3 .. Len(vmBlocks) + 1
          /\ Video!End(vmBlocks[i - 1]) + n <= MemSize
          /\ i <= Len(vmBlocks) => Video!End(vmBlocks[i - 1]) + n <= vmBlocks[i].address
      BY <2>2, <3>2, PlaceFree
    <3>. HIDE DEF i
    <3>. DEFINE b == Video!Block(Video!End(vmBlocks[i - 1]), n)
    <3>4. vmBlocks' = Video!InsertAt(vmBlocks, i, b)
      <4>1. i # 1
        BY <3>3
      <4>. QED  BY <3>1, <4>1 DEF Video!VramAlloc, i
    <3>5. vmBlocks'[i] = b
      <4>1. b \in Blocks /\ vmBlocks \in Seq(Blocks) /\ i \in 1 .. Len(vmBlocks) + 1 /\ ~(i < i)
        <5>1. Len(vmBlocks) \in Nat /\ i \in 3 .. Len(vmBlocks) + 1 /\ vmBlocks \in Seq(Blocks)
          BY <3>3, LenProperties DEF ListSound
        <5>2. i - 1 \in 1 .. Len(vmBlocks)
          BY <5>1
        <5>3. vmBlocks[i - 1] \in Blocks
          BY <5>1, <5>2, ElementOfSeq
        <5>. QED  BY <3>2, <5>1, <5>3 DEF Blocks, Video!End, Video!Block
      <4>. HIDE DEF b
      <4>. QED  BY <3>4, <4>1, InsertAtMeans
    <3>6. vmTextures' = vmTextures \cup {Video!Block(b.address, size)}
      BY <3>1, <3>5
    <3>. HIDE DEF b
    <3>7. ListSound' /\ TexturesSound'
      BY <3>2, <3>3, <3>4, <3>6, BlockMore DEF b
    <3>8. PacketsSound'
      BY <1>7, <3>1, PacketBegins DEF Video!Kinds
    <3>. QED  BY <3>1, <3>7, <3>8
  <2>. QED  BY <2>1, <2>2
<1>8. ASSUME NEW u \in vmTextures, Video!TextureFree(u) PROVE VideoInv'
  <2>1. ListSound' /\ TexturesSound'
    BY <1>8, BlockLess DEF Video!TextureFree
  <2>2. PacketsSound'
    BY <1>8 DEF Video!TextureFree, PacketsSound, Video!NoPacket
  <2>. QED  BY <1>8, <2>1, <2>2 DEF Video!TextureFree
<1>. QED  BY <1>1, <1>2, <1>3, <1>4, <1>5, <1>6, <1>7, <1>8 DEF Video!Next

(* Blocks that are apart leave no texture and no frame in the memory of     *)
(* another.                                                                 *)
LEMMA MemoryApart ==
    ASSUME VideoAssumption, VideoInv
    PROVE  Video!MemoryNotShared
<1>1. R \in Nat \ {0} /\ MemSize \in Nat
  BY RIsNat DEF VideoAssumption
<1>2. Len(vmBlocks) \in Nat /\ \A j \in 1 .. Len(vmBlocks) :
         /\ vmBlocks[j].address \in Nat /\ vmBlocks[j].size \in Nat
         /\ Video!End(vmBlocks[j]) = vmBlocks[j].address + vmBlocks[j].size
  <2>1. vmBlocks \in Seq(Blocks)
    BY DEF VideoInv, ListSound
  <2>2. Len(vmBlocks) \in Nat /\ \A j \in 1 .. Len(vmBlocks) : vmBlocks[j] \in Blocks
    BY <2>1, LenProperties, ElementOfSeq
  <2>. QED  BY <2>2 DEF Blocks, Video!End
<1>3. ASSUME NEW a \in vmTextures
      PROVE  \E i \in 3 .. Len(vmBlocks) :
                /\ vmBlocks[i].address = a.address
                /\ a.address + a.size <= Video!End(vmBlocks[i])
  <2>1. PICK i \in 3 .. Len(vmBlocks) : vmBlocks[i].address = a.address /\ a.size <= vmBlocks[i].size
    BY DEF VideoInv, TexturesSound
  <2>2. a.address \in Nat /\ a.size \in Nat
    BY DEF VideoInv, TexturesSound
  <2>3. i \in 1 .. Len(vmBlocks)
    BY <1>2
  <2>4. a.address + a.size <= Video!End(vmBlocks[i])
    BY <1>2, <2>1, <2>2, <2>3
  <2>. QED  BY <2>1, <2>4
<1>4. ASSUME NEW a \in vmTextures, NEW b \in vmTextures, a # b PROVE ~Video!Overlap(a, b)
  <2>1. PICK i \in 3 .. Len(vmBlocks) :
           vmBlocks[i].address = a.address /\ a.address + a.size <= Video!End(vmBlocks[i])
    BY <1>3
  <2>2. PICK j \in 3 .. Len(vmBlocks) :
           vmBlocks[j].address = b.address /\ b.address + b.size <= Video!End(vmBlocks[j])
    BY <1>3
  <2>3. a.address # b.address
    BY <1>4 DEF VideoInv, TexturesSound
  <2>0. Len(vmBlocks) \in Nat /\ i \in 3 .. Len(vmBlocks) /\ j \in 3 .. Len(vmBlocks) /\ i # j
    BY <1>2, <2>1, <2>2, <2>3
  <2>4. i \in 1 .. Len(vmBlocks) /\ j \in 1 .. Len(vmBlocks) /\ (i < j \/ j < i)
    BY <2>0
  <2>5. Video!End(vmBlocks[i]) <= b.address \/ Video!End(vmBlocks[j]) <= a.address
    BY <2>1, <2>2, <2>4 DEF VideoInv, ListSound, Apart
  <2>6. a.address \in Nat /\ a.size \in Nat /\ b.address \in Nat /\ b.size \in Nat
    BY DEF VideoInv, TexturesSound
  <2>7. Video!End(vmBlocks[i]) \in Nat /\ Video!End(vmBlocks[j]) \in Nat
    <3>1. \A x \in 1 .. Len(vmBlocks) : Video!End(vmBlocks[x]) \in Nat
      BY <1>2
    <3>. QED  BY <2>4, <3>1
  <2>8. a.address + a.size <= b.address \/ b.address + b.size <= a.address
    BY <2>1, <2>2, <2>5, <2>6, <2>7
  <2>. QED  BY <2>6, <2>8 DEF Video!Overlap
<1>5. ASSUME NEW a \in vmTextures
      PROVE  a.address >= 2 * Video!RoundUp(FrameSize) /\ a.address + a.size <= MemSize
  <2>1. PICK i \in 3 .. Len(vmBlocks) :
           vmBlocks[i].address = a.address /\ a.address + a.size <= Video!End(vmBlocks[i])
    BY <1>3
  <2>2. a.address \in Nat /\ a.size \in Nat
    BY DEF VideoInv, TexturesSound
  <2>3. i \in 1 .. Len(vmBlocks) /\ 2 \in 1 .. Len(vmBlocks) /\ 2 < i
    BY <1>2
  <2>4. Video!End(vmBlocks[2]) <= a.address /\ Video!End(vmBlocks[i]) <= MemSize
    BY <2>1, <2>3 DEF VideoInv, ListSound, Apart
  <2>5. Video!End(vmBlocks[2]) = R + R
    BY DEF VideoInv, ListSound, Video!Block, Video!End
  <2>6. Video!End(vmBlocks[i]) \in Nat
    BY <1>2, <2>3
  <2>7. a.address >= 2 * R /\ a.address + a.size <= MemSize
    BY <1>1, <2>1, <2>2, <2>4, <2>5, <2>6
  <2>. QED  BY <2>7 DEF R
<1>6. vmActive # vmShown
  BY DEF VideoInv
<1>. QED  BY <1>4, <1>5, <1>6 DEF Video!MemoryNotShared

(* Packets that fit the half of the scratchpad leave the one in flight      *)
(* alone.                                                                   *)
LEMMA TransfersApart == ASSUME VideoAssumption, VideoInv PROVE Video!TransfersUndisturbed
<1>1. vmPacket[2] <= Scratchpad
  <2>1. CASE vmPacket = Video!NoPacket
    BY <2>1 DEF VideoAssumption, Video!NoPacket
  <2>2. CASE vmPacket # Video!NoPacket
    BY <2>2 DEF VideoAssumption, VideoInv, PacketsSound
  <2>. QED  BY <2>1, <2>2
<1>. QED  BY <1>1 DEF VideoInv, PacketsSound, Video!TransfersUndisturbed

(* No texture and no frame has its memory in another's, and no packet is      *)
(* written over while it is sent (gsCore.c, dmaSpr.c).                       *)
THEOREM PicturesStayWhole == Video!Spec => []PicturesWhole
<1>1. Video!Init => VideoInv
  BY ConsoleAssumption, VideoBegins
<1>2. VideoInv /\ [Video!Next]_(Video!videoVars) => VideoInv'
  BY ConsoleAssumption, VideoSteps
<1>3. VideoInv => PicturesWhole
  BY ConsoleAssumption, MemoryApart, TransfersApart DEF PicturesWhole, Video!PicturesWhole
<1>. QED  BY <1>1, <1>2, <1>3, PTL DEF Video!Spec

-------------------------------------------------------------------------------
(* Keyboard.                                                                 *)
NoStr == Keyboard!NoString
Line == IF kbStr = NoStr THEN <<>> ELSE kbStr
Caret == IF kbStr = NoStr THEN 0 ELSE kbCursor

LabelSound ==
    /\ kbCursor \in Nat
    /\ kbStr = NoStr \/ (kbStr \in Seq(Keyboard!Chars) /\ kbCursor <= Len(kbStr))
KeysSound ==
    /\ kbIsOpen \in BOOLEAN /\ kbShift \in BOOLEAN
    /\ kbLabels = Keyboard!Labels(TRUE) \/ kbLabels = Keyboard!Labels(FALSE)
    /\ kbIsOpen => kbLabels = Keyboard!Labels(kbShift)
KeyboardInv == LabelSound /\ KeysSound

(* No string that is written is the NULL of a text that was never set.      *)
LEMMA NotNull == ASSUME NEW s \in Seq(Keyboard!Chars) PROVE s # NoStr
<1>1. "null" \notin Keyboard!Chars
  BY DEF Keyboard!Chars
<1>2. ASSUME s = NoStr PROVE FALSE
  <2>1. Len(s) = 1 /\ s[1] = "null"
    BY <1>2 DEF NoStr, Keyboard!NoString
  <2>2. s[1] \in Keyboard!Chars
    BY <2>1, ElementOfSeq
  <2>. QED  BY <1>1, <2>1, <2>2
<1>. QED  BY <1>2

(* The texts a keyboard is opened with are lines of its characters.         *)
LEMMA TextsAreLines == Keyboard!Texts \subseteq Seq(Keyboard!Chars)
<1>1. ASSUME NEW s \in Keyboard!Texts PROVE s \in Seq(Keyboard!Chars)
  <2>1. PICK m \in 0 .. 2 : s \in [1 .. m -> {"a", "."}]
    BY <1>1 DEF Keyboard!Texts, Keyboard!SeqOf
  <2>2. s \in [1 .. m -> Keyboard!Chars]
    BY <2>1 DEF Keyboard!Chars
  <2>. QED  BY <2>1, <2>2, SeqDef
<1>. QED  BY <1>1

(* What a key writes is a character of its keyboard.                        *)
LEMMA KeyShows ==
    ASSUME kbShift \in BOOLEAN, NEW k \in Keyboard!Keys
    PROVE  Keyboard!CharOf(k) = Keyboard!Labels(kbShift)[k] /\ Keyboard!CharOf(k) \in Keyboard!Chars
<1>1. CASE k = "1"
  BY <1>1 DEF Keyboard!CharOf, Keyboard!Labels, Keyboard!Keys, Keyboard!Chars
<1>2. CASE k = "A"
  BY <1>2 DEF Keyboard!CharOf, Keyboard!Labels, Keyboard!Keys, Keyboard!Chars
<1>3. CASE k = "."
  BY <1>3 DEF Keyboard!CharOf, Keyboard!Labels, Keyboard!Keys, Keyboard!Chars
<1>. QED  BY <1>1, <1>2, <1>3 DEF Keyboard!Keys

(* The labels of the two faces of the keyboard differ.                      *)
LEMMA FacesDiffer ==
    ASSUME NEW b \in BOOLEAN PROVE Keyboard!Labels(~b) # Keyboard!Labels(b)
<1>1. "1" \in Keyboard!Keys
  BY DEF Keyboard!Keys
<1>2. Keyboard!Labels(~b)["1"] # Keyboard!Labels(b)["1"]
  BY <1>1 DEF Keyboard!Labels
<1>. QED  BY <1>2

(* A keyboard that has not been opened is an empty text field.              *)
LEMMA KeyboardBegins == Keyboard!Init => KeyboardInv /\ Keyboard!Field!Init
<1>. SUFFICES ASSUME Keyboard!Init PROVE KeyboardInv /\ Keyboard!Field!Init
  OBVIOUS
<1>1. kbStr \in Seq(Keyboard!Chars) /\ Len(kbStr) = 1 /\ kbStr = <<"a">>
  BY DEF Keyboard!Init, Keyboard!Chars
<1>2. kbStr # NoStr
  BY <1>1, NotNull
<1>3. kbStr \in Keyboard!Texts
  <2>1. kbStr \in [1 .. 1 -> {"a", "."}] /\ 1 \in 0 .. 2
    BY <1>1
  <2>. QED  BY <2>1 DEF Keyboard!Texts, Keyboard!SeqOf
<1>4. KeyboardInv
  <2>1. kbIsOpen = FALSE /\ kbShift = FALSE /\ kbCursor = 1
    BY DEF Keyboard!Init
  <2>2. kbShift \in BOOLEAN /\ kbIsOpen \in BOOLEAN
    BY <2>1, Zenon
  <2>5. kbCursor \in Nat /\ kbCursor <= Len(kbStr)
    BY <1>1, <2>1
  <2>3. kbLabels = Keyboard!Labels(TRUE) \/ kbLabels = Keyboard!Labels(FALSE)
    BY DEF Keyboard!Init
  <2>4. kbIsOpen => kbLabels = Keyboard!Labels(kbShift)
    BY DEF Keyboard!Init
  <2>. HIDE DEF Keyboard!Init
  <2>. QED  BY <1>1, <2>2, <2>3, <2>4, <2>5 DEF KeyboardInv, LabelSound, KeysSound
<1>5. Keyboard!Field!Init
  BY <1>1, <1>2, <1>3 DEF Keyboard!Field!Init, Keyboard!Init, NoStr
<1>. QED  BY <1>4, <1>5

\* A character typed into the label: the label's text, and the field's.
LEMMA PutIsInsert ==
    ASSUME KeyboardInv, NEW c \in Keyboard!Chars, Keyboard!Put(c)
    PROVE  KeyboardInv' /\ Keyboard!Field!Insert(c)
<1>. DEFINE u == Keyboard!LabelInsert(kbCursor, c)
<1>1. /\ kbIsOpen /\ kbStr' = u /\ kbCursor' = Keyboard!SetCursor(u, kbCursor + 1)
      /\ kbIsOpen' = kbIsOpen /\ kbLabels' = kbLabels /\ kbShift' = kbShift /\ kbRet' = kbRet
  BY DEF Keyboard!Put
<1>2. CASE kbStr = NoStr
  <2>1. u = <<c>> /\ u \in Seq(Keyboard!Chars) /\ Len(u) = 1
    BY <1>2 DEF Keyboard!LabelInsert, NoStr
  <2>2. u # NoStr
    BY <2>1, NotNull
  <2>3. Keyboard!Field!InsertAt(<<>>, 0 + 1, c) = <<c>>
    <3>1. <<>> \in Seq(Keyboard!Chars) /\ Len(<<>>) = 0 /\ 1 \in 1 .. Len(<<>>) + 1
      OBVIOUS
    <3>2. Len(Video!InsertAt(<<>>, 1, c)) = 1 /\ Video!InsertAt(<<>>, 1, c)[1] = c
          /\ Video!InsertAt(<<>>, 1, c) \in Seq(Keyboard!Chars)
      <4>1. ASSUME NEW s \in Seq(Keyboard!Chars), NEW i \in 1 .. Len(s) + 1
            PROVE  /\ Video!InsertAt(s, i, c) \in Seq(Keyboard!Chars)
                   /\ Len(Video!InsertAt(s, i, c)) = Len(s) + 1
                   /\ \A j \in 1 .. Len(s) + 1 : Video!InsertAt(s, i, c)[j] =
                          IF j < i THEN s[j] ELSE IF j = i THEN c ELSE s[j - 1]
        BY InsertAtMeans
      <4>. HIDE DEF Keyboard!Chars
      <4>2. Video!InsertAt(<<>>, 1, c)[1] = c /\ Len(Video!InsertAt(<<>>, 1, c)) = 1
        <5>1. /\ Len(Video!InsertAt(<<>>, 1, c)) = Len(<<>>) + 1
              /\ Video!InsertAt(<<>>, 1, c)[1] = IF 1 < 1 THEN <<>>[1] ELSE IF 1 = 1 THEN c ELSE <<>>[1 - 1]
          BY <3>1, <4>1, Zenon
        <5>. QED  BY <3>1, <5>1
      <4>. QED  BY <3>1, <4>1, <4>2
    <3>3. Video!InsertAt(<<>>, 1, c) = <<c>>
      BY <3>1, <3>2
    <3>. QED  BY <3>3 DEF Keyboard!Field!InsertAt, Video!InsertAt
  <2>4. kbCursor' = 1
    BY <1>1, <2>1, <2>2 DEF Keyboard!SetCursor, NoStr, KeyboardInv, LabelSound, KeysSound
  <2>5. KeyboardInv'
    <3>1. kbStr' \in Seq(Keyboard!Chars) /\ kbCursor' <= Len(kbStr') /\ kbCursor' \in Nat
      BY <1>1, <2>1, <2>4
    <3>. QED  BY <1>1, <3>1 DEF KeyboardInv, LabelSound, KeysSound
  <2>6. Keyboard!Field!Insert(c)
    BY <1>1, <1>2, <2>1, <2>2, <2>3, <2>4 DEF Keyboard!Field!Insert, NoStr
  <2>. QED  BY <2>5, <2>6
<1>3. CASE kbStr # NoStr
  <2>1. kbStr \in Seq(Keyboard!Chars) /\ kbCursor \in Nat /\ kbCursor <= Len(kbStr)
    BY <1>3 DEF KeyboardInv, LabelSound, KeysSound
  <2>2. Len(kbStr) \in Nat /\ kbCursor + 1 \in 1 .. Len(kbStr) + 1
    BY <2>1, LenProperties
  <2>3. u = Video!InsertAt(kbStr, kbCursor + 1, c)
    <3>1. (IF kbCursor > Len(kbStr) THEN Len(kbStr) ELSE kbCursor) = kbCursor
      BY <2>1, <2>2
    <3>2. u = Keyboard!InsertAt(kbStr, kbCursor + 1, c)
      BY <1>3, <3>1 DEF Keyboard!LabelInsert, NoStr
    <3>. QED  BY <3>2 DEF Keyboard!InsertAt, Video!InsertAt
  <2>4. /\ Video!InsertAt(kbStr, kbCursor + 1, c) \in Seq(Keyboard!Chars)
        /\ Len(Video!InsertAt(kbStr, kbCursor + 1, c)) = Len(kbStr) + 1
    <3>1. ASSUME NEW s \in Seq(Keyboard!Chars), NEW i \in 1 .. Len(s) + 1
          PROVE  /\ Video!InsertAt(s, i, c) \in Seq(Keyboard!Chars)
                 /\ Len(Video!InsertAt(s, i, c)) = Len(s) + 1
      BY InsertAtMeans
    <3>. QED  BY <2>1, <2>2, <3>1, Zenon
  <2>5. u \in Seq(Keyboard!Chars) /\ Len(u) = Len(kbStr) + 1
    BY <2>3, <2>4
  <2>6. u # NoStr
    BY <2>5, NotNull
  <2>. HIDE DEF u
  <2>7. kbCursor' = kbCursor + 1 /\ kbCursor' \in Nat /\ kbCursor' <= Len(u)
    BY <1>1, <2>1, <2>2, <2>5, <2>6 DEF Keyboard!SetCursor, NoStr
  <2>8. KeyboardInv'
    BY <1>1, <2>5, <2>7 DEF KeyboardInv, LabelSound, KeysSound
  <2>9. u = Keyboard!Field!InsertAt(kbStr, kbCursor + 1, c)
    BY <2>3 DEF Keyboard!Field!InsertAt, Video!InsertAt
  <2>10. Keyboard!Field!Insert(c)
    BY <1>1, <1>3, <2>6, <2>7, <2>9 DEF Keyboard!Field!Insert, NoStr
  <2>. QED  BY <2>8, <2>10
<1>. QED  BY <1>2, <1>3

\* A character taken out of the label, the one at the position pos + 1.
LEMMA DeleteIsErase ==
    ASSUME KeyboardInv, kbStr # NoStr, NEW pos \in Nat, pos < Len(kbStr)
    PROVE  /\ (IF Keyboard!LabelDelete(pos) = NoStr THEN <<>> ELSE Keyboard!LabelDelete(pos))
                  = Keyboard!Field!RemoveAt(kbStr, pos + 1)
           /\ IF Len(kbStr) = 1 THEN Keyboard!LabelDelete(pos) = NoStr
              ELSE /\ Keyboard!LabelDelete(pos) # NoStr
                   /\ Keyboard!LabelDelete(pos) \in Seq(Keyboard!Chars)
                   /\ Len(Keyboard!LabelDelete(pos)) = Len(kbStr) - 1
<1>. DEFINE u == Keyboard!LabelDelete(pos)
<1>1. kbStr \in Seq(Keyboard!Chars) /\ Len(kbStr) \in Nat
  BY LenProperties DEF KeyboardInv, LabelSound, KeysSound
<1>2. pos + 1 \in 1 .. Len(kbStr)
  BY <1>1
<1>3. /\ Video!RemoveAt(kbStr, pos + 1) \in Seq(Keyboard!Chars)
      /\ Len(Video!RemoveAt(kbStr, pos + 1)) = Len(kbStr) - 1
  BY <1>1, <1>2, RemoveAtMeans
<1>4. Keyboard!Field!RemoveAt(kbStr, pos + 1) = Video!RemoveAt(kbStr, pos + 1)
  BY DEF Keyboard!Field!RemoveAt, Video!RemoveAt
<1>5. CASE Len(kbStr) = 1
  <2>1. u = NoStr
    BY <1>5 DEF Keyboard!LabelDelete, NoStr
  <2>2. Len(Video!RemoveAt(kbStr, pos + 1)) = 0
    BY <1>3, <1>5
  <2>3. Video!RemoveAt(kbStr, pos + 1) = <<>>
    BY <1>3, <2>2, EmptySeq
  <2>. QED  BY <1>4, <1>5, <2>1, <2>3
<1>6. CASE Len(kbStr) # 1
  <2>1. u = Video!RemoveAt(kbStr, pos + 1)
    <3>1. (IF pos >= Len(kbStr) THEN Len(kbStr) - 1 ELSE pos) = pos /\ ~(Len(kbStr) <= 1)
      <4>1. ASSUME NEW n \in Nat, pos < n, n # 1
            PROVE  (IF pos >= n THEN n - 1 ELSE pos) = pos /\ ~(n <= 1)
        BY <4>1
      <4>. QED  BY <1>1, <1>6, <4>1
    <3>2. u = Keyboard!RemoveAt(kbStr, pos + 1)
      BY <3>1 DEF Keyboard!LabelDelete, NoStr
    <3>. QED  BY <3>2 DEF Keyboard!RemoveAt, Video!RemoveAt
  <2>2. u \in Seq(Keyboard!Chars) /\ Len(u) = Len(kbStr) - 1 /\ u # NoStr
    BY <1>3, <2>1, NotNull
  <2>. QED  BY <1>4, <1>6, <2>1, <2>2, Zenon
<1>. QED  BY <1>5, <1>6

(* Every step of the keyboard is one of the text field, or leaves the field *)
(* alone.                                                                   *)
LEMMA KeyboardSteps ==
    ASSUME KeyboardInv, [Keyboard!Next]_(Keyboard!keyboardVars)
    PROVE  KeyboardInv' /\ [Keyboard!Field!Next]_(Keyboard!Field!fieldVars)
<1>. DEFINE Goal == KeyboardInv' /\ [Keyboard!Field!Next]_(Keyboard!Field!fieldVars)
\* What the mapped variables are, and when nothing of them changes.
<1>0. ASSUME kbIsOpen' = kbIsOpen, kbStr' = kbStr, kbCursor' = kbCursor,
             kbLabels' = kbLabels, kbRet' = kbRet
      PROVE  UNCHANGED Keyboard!Field!fieldVars
  BY <1>0 DEF Keyboard!Field!fieldVars
<1>1. CASE UNCHANGED Keyboard!keyboardVars
  <2>1. /\ kbIsOpen' = kbIsOpen /\ kbStr' = kbStr /\ kbCursor' = kbCursor
        /\ kbShift' = kbShift /\ kbLabels' = kbLabels /\ kbRet' = kbRet
    BY <1>1 DEF Keyboard!keyboardVars
  <2>2. KeyboardInv'
    BY <2>1 DEF KeyboardInv, LabelSound, KeysSound
  <2>. QED  BY <1>0, <2>1, <2>2
<1>2. CASE Keyboard!Open
  <2>1. /\ ~kbIsOpen /\ kbIsOpen' = TRUE /\ kbStr' \in Keyboard!Texts /\ kbCursor' = Len(kbStr')
        /\ kbLabels' = Keyboard!Labels(kbShift) /\ kbShift' = kbShift /\ kbRet' = kbRet
    BY <1>2 DEF Keyboard!Open
  <2>2. kbStr' \in Seq(Keyboard!Chars) /\ Len(kbStr') \in Nat /\ kbStr' # NoStr
    BY <2>1, TextsAreLines, NotNull, LenProperties
  <2>3. kbShift \in BOOLEAN
    BY DEF KeyboardInv, LabelSound, KeysSound
  <2>4. kbLabels' = Keyboard!Labels(TRUE) \/ kbLabels' = Keyboard!Labels(FALSE)
    BY <2>1, <2>3, Zenon
  <2>5. KeyboardInv'
    <3>1. LabelSound'
      BY <2>1, <2>2 DEF LabelSound
    <3>2. KeysSound'
      BY <2>1, <2>3, <2>4, Zenon DEF KeysSound
    <3>. QED  BY <3>1, <3>2 DEF KeyboardInv
  <2>6. Keyboard!Field!Edit
    BY <2>1, <2>2, <2>4 DEF Keyboard!Field!Edit, NoStr
  <2>. QED  BY <2>5, <2>6 DEF Keyboard!Field!Next
<1>3. CASE Keyboard!Space
  <2>1. " " \in Keyboard!Chars /\ Keyboard!Put(" ")
    BY <1>3 DEF Keyboard!Space, Keyboard!Chars
  <2>2. KeyboardInv' /\ Keyboard!Field!Insert(" ")
    BY <2>1, PutIsInsert
  <2>. QED  BY <2>2 DEF Keyboard!Field!Next, Keyboard!Field!Space
<1>4. ASSUME NEW k \in Keyboard!Keys, Keyboard!Key(k) PROVE Goal
  <2>1. kbShift \in BOOLEAN /\ kbIsOpen /\ kbLabels = Keyboard!Labels(kbShift)
    BY <1>4 DEF Keyboard!Key, Keyboard!Put, KeyboardInv, LabelSound, KeysSound
  <2>2. Keyboard!CharOf(k) = Keyboard!Labels(kbShift)[k] /\ Keyboard!CharOf(k) \in Keyboard!Chars
    BY <2>1, KeyShows
  <2>3. KeyboardInv' /\ Keyboard!Field!Insert(Keyboard!CharOf(k))
    BY <1>4, <2>2, PutIsInsert DEF Keyboard!Key
  <2>4. k \in DOMAIN kbLabels /\ kbLabels[k] = Keyboard!CharOf(k)
    BY <1>4, <2>1, <2>2 DEF Keyboard!Labels
  <2>5. Keyboard!Field!Type(k)
    BY <2>3, <2>4 DEF Keyboard!Field!Type
  <2>. QED  BY <2>3, <2>4, <2>5 DEF Keyboard!Field!Next
<1>5. CASE Keyboard!Left \/ Keyboard!Right
  <2>1. /\ kbIsOpen /\ kbIsOpen' = kbIsOpen /\ kbStr' = kbStr
        /\ kbShift' = kbShift /\ kbLabels' = kbLabels /\ kbRet' = kbRet
    BY <1>5 DEF Keyboard!Left, Keyboard!Right
  <2>2. CASE kbStr = NoStr
    <3>1. kbCursor' = kbCursor
      BY <1>5, <2>2 DEF Keyboard!Left, Keyboard!Right, Keyboard!SetCursor, NoStr
    <3>2. KeyboardInv'
      BY <2>1, <3>1 DEF KeyboardInv, LabelSound, KeysSound
    <3>. QED  BY <1>0, <2>1, <3>1, <3>2
  <2>3. CASE kbStr # NoStr
    <3>1. kbStr \in Seq(Keyboard!Chars) /\ kbCursor \in Nat /\ kbCursor <= Len(kbStr) /\ Len(kbStr) \in Nat
      BY <2>3, LenProperties DEF KeyboardInv, LabelSound, KeysSound
    <3>2. kbCursor' \in {kbCursor - 1, kbCursor + 1} /\ kbCursor' \in 0 .. Len(kbStr)
      <4>1. CASE Keyboard!Left
        <5>1. kbCursor > 0 /\ kbCursor' = IF kbCursor - 1 > Len(kbStr) THEN Len(kbStr) ELSE kbCursor - 1
          BY <2>3, <4>1 DEF Keyboard!Left, Keyboard!SetCursor, NoStr
        <5>. QED  BY <3>1, <5>1
      <4>2. CASE Keyboard!Right
        <5>1. kbCursor < Len(kbStr) /\ kbCursor' = IF kbCursor + 1 > Len(kbStr) THEN Len(kbStr) ELSE kbCursor + 1
          BY <2>3, <4>2 DEF Keyboard!Right, Keyboard!SetCursor, NoStr
        <5>. QED  BY <3>1, <5>1
      <4>. QED  BY <1>5, <4>1, <4>2
    <3>3. KeyboardInv'
      <4>1. LabelSound'
        BY <2>1, <3>1, <3>2 DEF LabelSound
      <4>2. KeysSound'
        BY <2>1 DEF KeyboardInv, KeysSound
      <4>. QED  BY <4>1, <4>2 DEF KeyboardInv
    <3>4. Keyboard!Field!MoveCaret
      BY <2>1, <2>3, <3>2 DEF Keyboard!Field!MoveCaret, NoStr
    <3>. QED  BY <3>3, <3>4 DEF Keyboard!Field!Next
  <2>. QED  BY <2>2, <2>3
<1>6. CASE Keyboard!Delete
  <2>1. /\ kbIsOpen /\ kbStr # NoStr /\ kbCursor < Len(kbStr) /\ kbStr' = Keyboard!LabelDelete(kbCursor)
        /\ kbIsOpen' = kbIsOpen /\ kbCursor' = kbCursor /\ kbShift' = kbShift
        /\ kbLabels' = kbLabels /\ kbRet' = kbRet
    BY <1>6 DEF Keyboard!Delete, NoStr
  <2>2. kbStr \in Seq(Keyboard!Chars) /\ kbCursor \in Nat /\ Len(kbStr) \in Nat
    BY <2>1, LenProperties DEF KeyboardInv, LabelSound, KeysSound
  <2>3. /\ (IF kbStr' = NoStr THEN <<>> ELSE kbStr') = Keyboard!Field!RemoveAt(kbStr, kbCursor + 1)
        /\ IF Len(kbStr) = 1 THEN kbStr' = NoStr
           ELSE kbStr' # NoStr /\ kbStr' \in Seq(Keyboard!Chars) /\ Len(kbStr') = Len(kbStr) - 1
    BY <2>1, <2>2, DeleteIsErase
  <2>4. KeyboardInv'
    <3>1. kbStr' = NoStr \/ (kbStr' \in Seq(Keyboard!Chars) /\ kbCursor' <= Len(kbStr'))
      BY <2>1, <2>2, <2>3
    <3>. QED  BY <2>1, <2>2, <3>1 DEF KeyboardInv, LabelSound, KeysSound
  <2>5. (IF kbStr' = NoStr THEN 0 ELSE kbCursor') = kbCursor
    <3>1. kbStr' = NoStr => Len(kbStr) = 1
      BY <2>3
    <3>2. kbStr' = NoStr => kbCursor = 0
      BY <2>1, <2>2, <3>1
    <3>. QED  BY <2>1, <3>2
  <2>6. kbCursor + 1 \in 1 .. Len(kbStr)
    BY <2>1, <2>2
  <2>7. Keyboard!Field!Delete
    BY <2>1, <2>3, <2>5, <2>6 DEF Keyboard!Field!Delete, Keyboard!Field!Erase, NoStr
  <2>. QED  BY <2>4, <2>7 DEF Keyboard!Field!Next
<1>7. CASE Keyboard!Backspace
  <2>1. /\ kbIsOpen /\ kbCursor > 0 /\ kbStr' = Keyboard!LabelDelete(kbCursor - 1)
        /\ kbCursor' = Keyboard!SetCursor(kbStr', kbCursor - 1)
        /\ kbIsOpen' = kbIsOpen /\ kbShift' = kbShift /\ kbLabels' = kbLabels /\ kbRet' = kbRet
    BY <1>7 DEF Keyboard!Backspace
  <2>2. CASE kbStr = NoStr
    <3>1. kbStr' = kbStr /\ kbCursor' = kbCursor
      BY <2>1, <2>2 DEF Keyboard!LabelDelete, Keyboard!SetCursor, NoStr
    <3>2. KeyboardInv'
      BY <2>1, <3>1 DEF KeyboardInv, LabelSound, KeysSound
    <3>. QED  BY <1>0, <2>1, <3>1, <3>2
  <2>3. CASE kbStr # NoStr
    <3>1. /\ kbStr \in Seq(Keyboard!Chars) /\ kbCursor \in Nat /\ Len(kbStr) \in Nat
          /\ kbCursor <= Len(kbStr)
      BY <2>3, LenProperties DEF KeyboardInv, LabelSound, KeysSound
    <3>2. kbCursor - 1 \in Nat /\ kbCursor - 1 < Len(kbStr) /\ kbCursor - 1 + 1 = kbCursor
      BY <2>1, <3>1
    <3>3. /\ (IF kbStr' = NoStr THEN <<>> ELSE kbStr') = Keyboard!Field!RemoveAt(kbStr, kbCursor - 1 + 1)
          /\ IF Len(kbStr) = 1 THEN kbStr' = NoStr
             ELSE kbStr' # NoStr /\ kbStr' \in Seq(Keyboard!Chars) /\ Len(kbStr') = Len(kbStr) - 1
      BY <2>1, <2>3, <3>2, DeleteIsErase
    <3>4. /\ kbStr' = NoStr => kbCursor' = kbCursor
          /\ kbStr' # NoStr => kbCursor' = IF kbCursor - 1 > Len(kbStr') THEN Len(kbStr') ELSE kbCursor - 1
      <4>1. kbCursor' = IF kbStr' = NoStr THEN kbCursor
                        ELSE IF kbCursor - 1 > Len(kbStr') THEN Len(kbStr') ELSE kbCursor - 1
        BY <2>1 DEF Keyboard!SetCursor, NoStr
      <4>. QED  BY <4>1
    <3>5. /\ kbCursor' \in Nat
          /\ kbStr' # NoStr => kbCursor' = kbCursor - 1 /\ kbCursor' <= Len(kbStr')
      BY <3>1, <3>2, <3>3, <3>4
    <3>6. KeyboardInv'
      <4>1. kbStr' = NoStr \/ (kbStr' \in Seq(Keyboard!Chars) /\ kbCursor' <= Len(kbStr'))
        BY <3>3, <3>5
      <4>. QED  BY <2>1, <3>5, <4>1 DEF KeyboardInv, LabelSound, KeysSound
    <3>7. (IF kbStr' = NoStr THEN 0 ELSE kbCursor') = kbCursor - 1
      <4>1. kbStr' = NoStr => kbCursor = 1
        <5>1. kbStr' = NoStr => Len(kbStr) = 1
          BY <3>3
        <5>2. kbCursor > 0 /\ kbCursor <= Len(kbStr) /\ kbCursor \in Nat /\ Len(kbStr) \in Nat
          BY <2>1, <3>1
        <5>3. Len(kbStr) = 1 => kbCursor = 1
          BY <5>2
        <5>. QED  BY <5>1, <5>3
      <4>2. kbStr' # NoStr => kbCursor' = kbCursor - 1
        BY <3>5
      <4>. QED  BY <4>1, <4>2
    <3>8. kbCursor \in 1 .. Len(kbStr)
      BY <2>1, <3>1
    <3>9. Keyboard!Field!Backspace
      BY <2>1, <2>3, <3>2, <3>3, <3>7, <3>8 DEF Keyboard!Field!Backspace, Keyboard!Field!Erase, NoStr
    <3>. QED  BY <3>6, <3>9 DEF Keyboard!Field!Next
  <2>. QED  BY <2>2, <2>3
<1>8. CASE Keyboard!Shift
  <2>1. /\ kbIsOpen /\ kbShift' = ~kbShift /\ kbLabels' = Keyboard!Labels(kbShift')
        /\ kbIsOpen' = kbIsOpen /\ kbStr' = kbStr /\ kbCursor' = kbCursor /\ kbRet' = kbRet
    BY <1>8 DEF Keyboard!Shift
  <2>2. kbShift \in BOOLEAN /\ kbShift' \in BOOLEAN /\ kbLabels = Keyboard!Labels(kbShift)
    BY <2>1 DEF KeyboardInv, LabelSound, KeysSound
  <2>3. kbLabels' # kbLabels
    BY <2>1, <2>2, FacesDiffer
  <2>4. kbLabels' = Keyboard!Labels(TRUE) \/ kbLabels' = Keyboard!Labels(FALSE)
    BY <2>1, <2>2, Zenon
  <2>5. KeyboardInv'
    BY <2>1, <2>2, <2>4, Zenon DEF KeyboardInv, LabelSound, KeysSound
  <2>6. Keyboard!Field!Shift
    BY <2>1, <2>3, <2>4 DEF Keyboard!Field!Shift
  <2>. QED  BY <2>5, <2>6 DEF Keyboard!Field!Next
<1>9. CASE Keyboard!Ok \/ Keyboard!Cancel \/ Keyboard!FollowNull
  <2>1. /\ kbIsOpen /\ kbIsOpen' = FALSE
        /\ kbRet' = kbRet \/ (kbStr # NoStr /\ kbRet' = kbStr)
        /\ kbShift' = kbShift /\ kbLabels' = kbLabels /\ kbStr' = kbStr /\ kbCursor' = kbCursor
    BY <1>9 DEF Keyboard!Ok, Keyboard!Cancel, Keyboard!FollowNull, NoStr
  <2>2. KeyboardInv'
    BY <2>1 DEF KeyboardInv, LabelSound, KeysSound
  <2>3. Keyboard!Field!Leave
    BY <2>1 DEF Keyboard!Field!Leave, NoStr
  <2>. QED  BY <2>2, <2>3 DEF Keyboard!Field!Next
<1>10. CASE Keyboard!NewSkin
  <2>1. /\ ~kbIsOpen /\ kbIsOpen' = kbIsOpen /\ kbShift' = FALSE /\ kbStr' = NoStr /\ kbCursor' = 0
        /\ kbLabels' = kbLabels /\ kbRet' = kbRet
    BY <1>10 DEF Keyboard!NewSkin, NoStr
  <2>2. kbIsOpen \in BOOLEAN /\ kbIsOpen' = FALSE
    BY <2>1 DEF KeyboardInv, LabelSound, KeysSound
  <2>3. KeyboardInv'
    BY <2>1, <2>2, Zenon DEF KeyboardInv, LabelSound, KeysSound
  <2>4. Keyboard!Field!Forget
    BY <2>1, <2>2 DEF Keyboard!Field!Forget, NoStr
  <2>. QED  BY <2>3, <2>4 DEF Keyboard!Field!Next
<1>. QED
  BY <1>1, <1>2, <1>3, <1>4, <1>5, <1>6, <1>7, <1>8, <1>9, <1>10 DEF Keyboard!Next

(* The keyboard dialog is the text field it should be (GUI_M_DlgKeyboard.c). *)
THEOREM KeyboardIsATextField == Keyboard!Spec => Keyboard!IsATextField
<1>1. Keyboard!Init => KeyboardInv /\ Keyboard!Field!Init
  BY KeyboardBegins
<1>2. KeyboardInv /\ [Keyboard!Next]_(Keyboard!keyboardVars)
        => KeyboardInv' /\ [Keyboard!Field!Next]_(Keyboard!Field!fieldVars)
  BY KeyboardSteps
<1>. QED  BY <1>1, <1>2, PTL DEF Keyboard!Spec, Keyboard!IsATextField, Keyboard!Field!Spec

-------------------------------------------------------------------------------
(* Windows and dialogs.                                                      *)
AllWindows == Menus!Windows \cup Menus!Dialogs
Guis == [active : AllWindows \cup {Menus!None}, parent : [Menus!Dialogs -> Menus!Windows \cup {Menus!None}],
         id : [Menus!Dialogs -> Nat], held : [AllWindows -> Int]]
Seen(g) == IF g.active \in Menus!Dialogs THEN {g.active, g.parent[g.active]} ELSE {g.active} \ {Menus!None}
Held(g) ==
    /\ \A w \in AllWindows : g.held[w] = IF w \in Seen(g) THEN 1 ELSE 0
    /\ g.active \in Menus!Dialogs => g.parent[g.active] \in Menus!Windows

\* What a dialog can have been opened for: by a button, or by the chain of the main window.
Asked(w) ==
    Menus!Questions(w) \cup
    IF w = "MAIN"
    THEN {Menus!Q("PARTITION1", 1, "ask for a size"), Menus!Q("PARTITION2", 2, "tell the outcome"),
          Menus!Message}
    ELSE {}
MenuInv ==
    /\ mnGui \in Guis /\ Held(mnGui)
    /\ Menus!AnswersMeant
    /\ mnGui.active \in Menus!Dialogs =>
          Menus!Q(mnGui.active, mnGui.id[mnGui.active], mnAsked) \in Asked(mnGui.parent[mnGui.active])

(* No window is what is active when there is none.                          *)
LEMMA NoneIsNoWindow ==
    /\ Menus!None \notin AllWindows
    /\ \A w \in Menus!Windows : w \notin Menus!Dialogs
BY DEF AllWindows, Menus!Windows, Menus!Dialogs, Menus!None

(* A window whose textures are uploaded is on the screen with its graphics. *)
LEMMA Uploaded ==
    ASSUME NEW g \in Guis, NEW w \in AllWindows
    PROVE  /\ Menus!Upload(g, w) \in Guis /\ Menus!Upload(g, w).active = w
           /\ Menus!Upload(g, w).held = [g.held EXCEPT ![w] = @ + 1]
           /\ Menus!Upload(g, w).parent = g.parent /\ Menus!Upload(g, w).id = g.id
<1>1. g.held \in [AllWindows -> Int] /\ g.held[w] \in Int
      /\ [g.held EXCEPT ![w] = @ + 1] \in [AllWindows -> Int]
  BY DEF Guis
<1>2. Menus!Upload(g, w) = [active |-> w, parent |-> g.parent, id |-> g.id,
                           held |-> [g.held EXCEPT ![w] = @ + 1]]
  <2>1. ASSUME NEW h, h = Menus!Upload(g, w)
        PROVE  h = [active |-> w, parent |-> g.parent, id |-> g.id, held |-> [g.held EXCEPT ![w] = @ + 1]]
    BY <2>1 DEF Guis, Menus!Upload
  <2>. QED  BY <2>1
<1>. QED  BY <1>1, <1>2 DEF Guis

(* GUI_OpenMenu leaves the new window alone on the screen.                  *)
LEMMA MenuOpens ==
    ASSUME NEW g \in Guis, Held(g), g.active \notin Menus!Dialogs, NEW w \in Menus!Windows,
           NEW h, h = Menus!OpenMenu(g, w)
    PROVE  h \in Guis /\ Held(h) /\ h.active = w
<1>. DEFINE f == IF g.active = Menus!None THEN g ELSE Menus!Free(g, g.active)
<1>1. w \in AllWindows /\ w \notin Menus!Dialogs /\ g.active \in AllWindows \cup {Menus!None}
      /\ g.held \in [AllWindows -> Int]
  BY NoneIsNoWindow DEF AllWindows, Guis
<1>2. /\ f \in Guis /\ f.held \in [AllWindows -> Int]
      /\ \A v \in AllWindows : f.held[v] = 0
  <2>1. CASE g.active = Menus!None
    BY <1>1, <2>1, NoneIsNoWindow DEF Held, Seen
  <2>2. CASE g.active # Menus!None
    <3>1. g.active \in AllWindows /\ f = [g EXCEPT !.held[g.active] = @ - 1]
      BY <1>1, <2>2 DEF Menus!Free
    <3>2. f \in Guis /\ f.held = [g.held EXCEPT ![g.active] = @ - 1]
      BY <1>1, <3>1 DEF Guis
    <3>3. \A v \in AllWindows : g.held[v] = IF v = g.active THEN 1 ELSE 0
      BY <2>2, <3>1 DEF Held, Seen
    <3>. QED  BY <1>1, <3>1, <3>2, <3>3 DEF Guis
  <2>. QED  BY <2>1, <2>2
<1>3. h = Menus!Upload(f, w)
  BY DEF Menus!OpenMenu
<1>. HIDE DEF f
<1>4. h \in Guis /\ h.active = w /\ h.held = [f.held EXCEPT ![w] = @ + 1]
  BY <1>1, <1>2, <1>3, Uploaded
<1>5. Held(h)
  <2>1. \A v \in AllWindows : h.held[v] = IF v = w THEN 1 ELSE 0
    BY <1>1, <1>2, <1>4
  <2>2. Seen(h) = {w}
    BY <1>1, <1>4, NoneIsNoWindow DEF Seen
  <2>. QED  BY <1>1, <1>4, <2>1, <2>2 DEF Held
<1>. QED  BY <1>4, <1>5

(* GUI_OpenDialog leaves a window and the dialog over it.                   *)
LEMMA DialogOpens ==
    ASSUME NEW g \in Guis, Held(g), g.active \in Menus!Windows, NEW d \in Menus!Dialogs, NEW n \in Nat,
           NEW h, h = Menus!OpenDialog(g, d, n)
    PROVE  /\ h \in Guis /\ Held(h) /\ h.active = d
           /\ h.parent[d] = g.active /\ h.id[d] = n
<1>. DEFINE f == [g EXCEPT !.parent[d] = g.active, !.id[d] = n, !.active = Menus!None]
<1>1. /\ d \in AllWindows /\ d # g.active /\ g.active \notin Menus!Dialogs
      /\ g.active \in AllWindows /\ g.active # Menus!None /\ g.held \in [AllWindows -> Int]
  BY NoneIsNoWindow DEF AllWindows, Guis
<1>2. /\ f \in Guis /\ f.active = Menus!None /\ f.held = g.held
      /\ f.parent = [g.parent EXCEPT ![d] = g.active] /\ f.id = [g.id EXCEPT ![d] = n]
  BY <1>1 DEF Guis
<1>3. h = Menus!Upload(f, d)
  <2>1. h = Menus!OpenMenu(f, d)
    BY DEF Menus!OpenDialog
  <2>. HIDE DEF f
  <2>. QED  BY <1>2, <2>1 DEF Menus!OpenMenu
<1>. HIDE DEF f
<1>4. /\ h \in Guis /\ h.active = d /\ h.held = [f.held EXCEPT ![d] = @ + 1]
      /\ h.parent = f.parent /\ h.id = f.id
  BY <1>1, <1>2, <1>3, Uploaded
<1>5. h.parent[d] = g.active /\ h.id[d] = n
  BY <1>2, <1>4 DEF Guis
<1>6. Held(h)
  <2>1. \A v \in AllWindows : g.held[v] = IF v = g.active THEN 1 ELSE 0
    BY <1>1 DEF Held, Seen
  <2>2. \A v \in AllWindows : h.held[v] = IF v = d \/ v = g.active THEN 1 ELSE 0
    BY <1>1, <1>2, <1>4, <2>1
  <2>3. Seen(h) = {d, g.active}
    BY <1>4, <1>5 DEF Seen
  <2>. QED  BY <1>4, <1>5, <2>2, <2>3 DEF Held
<1>. QED  BY <1>4, <1>5, <1>6

\* A dialog that is gone has left the window below it on the screen.
LEMMA DialogGoes ==
    ASSUME NEW g \in Guis, Held(g), g.active \in Menus!Dialogs,
           NEW h, h = [Menus!Free(g, g.active) EXCEPT !.active = g.parent[g.active]]
    PROVE  /\ h \in Guis /\ Held(h) /\ h.active = g.parent[g.active] /\ h.active \in Menus!Windows
           /\ h.parent = g.parent /\ h.id = g.id
<1>. DEFINE d == g.active
            w == g.parent[d]
<1>1. /\ d \in AllWindows /\ w \in Menus!Windows /\ w \in AllWindows /\ w # d /\ w \notin Menus!Dialogs
      /\ w # Menus!None /\ g.held \in [AllWindows -> Int]
  BY NoneIsNoWindow DEF AllWindows, Guis, Held
<1>2. /\ h \in Guis /\ h.active = w /\ h.parent = g.parent /\ h.id = g.id
      /\ h.held = [g.held EXCEPT ![d] = @ - 1]
  <2>1. [g.held EXCEPT ![d] = @ - 1] \in [AllWindows -> Int]
    BY <1>1
  <2>2. h = [active |-> w, parent |-> g.parent, id |-> g.id, held |-> [g.held EXCEPT ![d] = @ - 1]]
    <3>1. Menus!Free(g, d) = [active |-> g.active, parent |-> g.parent, id |-> g.id,
                              held |-> [g.held EXCEPT ![d] = @ - 1]]
      BY <1>1 DEF Guis, Menus!Free
    <3>. QED  BY <3>1
  <2>. QED  BY <1>1, <2>1, <2>2 DEF Guis
<1>3. \A v \in AllWindows : g.held[v] = IF v = d \/ v = w THEN 1 ELSE 0
  BY DEF Held, Seen
<1>. HIDE DEF w, d
<1>4. \A v \in AllWindows : h.held[v] = IF v = w THEN 1 ELSE 0
  BY <1>1, <1>2, <1>3
<1>5. Seen(h) = {w}
  BY <1>1, <1>2 DEF Seen
<1>6. Held(h)
  BY <1>1, <1>2, <1>4, <1>5 DEF Held
<1>. QED  BY <1>1, <1>2, <1>6 DEF w, d

\* Answers of which both kinds mean what they should.
Meant(w, q) ==
    /\ q.dialog \in Menus!Dialogs /\ q.id \in Nat /\ q = Menus!Q(q.dialog, q.id, q.what)
    /\ Menus!Effect(w, q.id, Menus!Yes(q.dialog)) = q.what
    /\ Menus!Effect(w, q.id, Menus!No(q.dialog)) = q.what \/ "go on" = Menus!Effect(w, q.id, Menus!No(q.dialog))
    /\ q.what = "ask for a size" => w = "MAIN" /\ q.dialog = "PARTITION1"
    /\ q.what = "tell the outcome" => w = "MAIN" /\ q.dialog = "PARTITION2"

\* The codes of the dialogs that ask.
LEMMA Codes ==
    /\ Menus!Yes("YESNO") = 1 /\ Menus!No("YESNO") = 0
    /\ Menus!Yes("PARTITION1") = 1 /\ Menus!No("PARTITION1") = 0
    /\ Menus!Yes("PARTITION2") = 0 /\ Menus!No("PARTITION2") = 1
    /\ Menus!Yes("KEYBOARD") = 0 /\ Menus!No("KEYBOARD") = 1
    /\ Menus!Yes("MSGBOX") = 0 /\ Menus!No("MSGBOX") = 0
    /\ Menus!Yes("COPYDLG") = 0 /\ Menus!No("COPYDLG") = 0
    /\ Menus!Yes("DLGTHUMB") = 0 /\ Menus!No("DLGTHUMB") = 0
<1>1. /\ Menus!Yes("YESNO") = 1 /\ Menus!Yes("PARTITION1") = 1 /\ Menus!Yes("PARTITION2") = 0
      /\ Menus!Yes("KEYBOARD") = 0 /\ Menus!Yes("MSGBOX") = 0 /\ Menus!Yes("COPYDLG") = 0
      /\ Menus!Yes("DLGTHUMB") = 0
  BY DEF Menus!Yes
<1>2. /\ Menus!No("YESNO") = 0 /\ Menus!No("PARTITION1") = 0 /\ Menus!No("PARTITION2") = 1
      /\ Menus!No("KEYBOARD") = 1
  BY <1>1 DEF Menus!No
<1>3. Menus!No("MSGBOX") = 0 /\ Menus!No("COPYDLG") = 0 /\ Menus!No("DLGTHUMB") = 0
  BY DEF Menus!No
<1>. QED  BY <1>1, <1>2, <1>3

\* The number a message box is asked under is none a window knows.
LEMMA MsgBoxIsApart ==
    /\ Menus!MsgBoxID \in Nat /\ Menus!MsgBoxID # 0 /\ Menus!MsgBoxID # 1 /\ Menus!MsgBoxID # 2
    /\ Menus!MsgBoxID # 3 /\ Menus!MsgBoxID + 1 \notin 1 .. 7 /\ Menus!MsgBoxID + 1 \notin 1 .. 2
BY SMT DEF Menus!MsgBoxID

(* A question a window asks is one its reaction belongs to.                 *)
LEMMA QuestionMeant ==
    ASSUME NEW w, NEW dialog \in Menus!Dialogs, NEW id \in Nat, NEW what,
           Menus!Effect(w, id, Menus!Yes(dialog)) = what,
           Menus!Effect(w, id, Menus!No(dialog)) = what \/ "go on" = Menus!Effect(w, id, Menus!No(dialog)),
           what = "ask for a size" => w = "MAIN" /\ dialog = "PARTITION1",
           what = "tell the outcome" => w = "MAIN" /\ dialog = "PARTITION2"
    PROVE  Meant(w, Menus!Q(dialog, id, what))
<1>. DEFINE q == Menus!Q(dialog, id, what)
<1>1. q.dialog = dialog /\ q.id = id /\ q.what = what
  BY DEF Menus!Q
<1>. HIDE DEF q
<1>2. q = Menus!Q(q.dialog, q.id, q.what)
  BY <1>1 DEF q
<1>. QED  BY <1>1, <1>2 DEF Meant, q

(* The numbers of the keys the keyboard is asked for.                       *)
LEMMA KeyNumbers ==
    /\ \A n \in Nat : \A i \in 1 .. n : i - 1 \in Nat /\ i - 1 + 1 = i /\ i - 1 + 1 \in 1 .. n
    /\ 1 # 0
OBVIOUS

(* What the keyboard returns is taken for the setting it was opened for.    *)
LEMMA KeysMeant ==
    ASSUME NEW w, NEW n \in Nat, NEW keys, DOMAIN keys = 1 .. n, NEW q \in Menus!Keys(keys),
           \A i \in 1 .. n : keys[i] # "ask for a size" /\ keys[i] # "tell the outcome",
           \A i \in 1 .. n, code \in {0, 1} :
              Menus!Effect(w, i - 1, code) = Menus!KeyOf(keys, i - 1, code)
    PROVE  Meant(w, q)
<1>1. PICK i \in 1 .. n : q = Menus!Q("KEYBOARD", i - 1, keys[i])
  BY Zenon DEF Menus!Keys
<1>2. i - 1 \in Nat /\ i - 1 + 1 \in 1 .. n /\ i - 1 + 1 = i
  BY KeyNumbers, Zenon
<1>3. "KEYBOARD" \in Menus!Dialogs
  BY Zenon DEF Menus!Dialogs
<1>4. Menus!KeyOf(keys, i - 1, 0) = keys[i]
  BY <1>2, Zenon DEF Menus!KeyOf
<1>5. "go on" = Menus!KeyOf(keys, i - 1, 1)
  BY KeyNumbers, Zenon DEF Menus!KeyOf
<1>6. Menus!Effect(w, i - 1, 0) = keys[i] /\ "go on" = Menus!Effect(w, i - 1, 1)
  BY <1>4, <1>5, Zenon
<1>. QED  BY <1>1, <1>2, <1>3, <1>6, Codes, QuestionMeant, Zenon

(* A message box has nothing to be taken for.                               *)
LEMMA MessageMeant ==
    ASSUME NEW w, "go on" = Menus!Effect(w, Menus!MsgBoxID, 0)
    PROVE  Meant(w, Menus!Message)
<1>1. "MSGBOX" \in Menus!Dialogs
  BY Zenon DEF Menus!Dialogs
<1>2. Meant(w, Menus!Q("MSGBOX", Menus!MsgBoxID, "go on"))
  BY <1>1, QuestionMeant, Codes, MsgBoxIsApart, Zenon
<1>. QED  BY <1>2, Zenon DEF Menus!Message

(* Every question that can be open is meant by the reaction of its window.  *)
LEMMA QuestionsMeant == ASSUME NEW w \in Menus!Windows, NEW q \in Asked(w) PROVE Meant(w, q)
<1>1. CASE w = "NETWORK"
  <2>1. q \in Menus!Keys(Menus!NetworkKeys)
    BY <1>1 DEF Asked, Menus!Questions
  <2>2. DOMAIN Menus!NetworkKeys = 1 .. 7 /\ \A i \in 1 .. 7 :
           Menus!NetworkKeys[i] # "ask for a size" /\ Menus!NetworkKeys[i] # "tell the outcome"
    BY DEF Menus!NetworkKeys
  <2>4. \A i \in 1 .. 7, code \in {0, 1} :
           Menus!Effect(w, i - 1, code) = Menus!KeyOf(Menus!NetworkKeys, i - 1, code)
    BY <1>1 DEF Menus!Effect
  <2>. QED  BY <2>1, <2>2, <2>4, KeysMeant, Zenon
<1>2. CASE w = "SAMBA"
  <2>1. q \in Menus!Keys(Menus!SambaKeys)
    BY <1>2 DEF Asked, Menus!Questions
  <2>2. DOMAIN Menus!SambaKeys = 1 .. 2 /\ \A i \in 1 .. 2 :
           Menus!SambaKeys[i] # "ask for a size" /\ Menus!SambaKeys[i] # "tell the outcome"
    BY DEF Menus!SambaKeys
  <2>4. \A i \in 1 .. 2, code \in {0, 1} :
           Menus!Effect(w, i - 1, code) = Menus!KeyOf(Menus!SambaKeys, i - 1, code)
    BY <1>2 DEF Menus!Effect
  <2>. QED  BY <2>1, <2>2, <2>4, KeysMeant, Zenon
<1>3. CASE w = "SETTINGS"
  <2>1. q \in Menus!Keys(Menus!SettingsKeys) \/ q = Menus!Message
    BY <1>3 DEF Asked, Menus!Questions
  <2>2. DOMAIN Menus!SettingsKeys = 1 .. 2 /\ \A i \in 1 .. 2 :
           Menus!SettingsKeys[i] # "ask for a size" /\ Menus!SettingsKeys[i] # "tell the outcome"
    BY DEF Menus!SettingsKeys
  <2>4. \A i \in 1 .. 2, code \in {0, 1} :
           Menus!Effect(w, i - 1, code) = Menus!KeyOf(Menus!SettingsKeys, i - 1, code)
    BY <1>3 DEF Menus!Effect
  <2>3. "go on" = Menus!Effect("SETTINGS", Menus!MsgBoxID, 0)
    <3>1. "go on" = Menus!KeyOf(Menus!SettingsKeys, Menus!MsgBoxID, 0)
      BY <2>2, MsgBoxIsApart, Zenon DEF Menus!KeyOf
    <3>2. Menus!Effect("SETTINGS", Menus!MsgBoxID, 0) = Menus!KeyOf(Menus!SettingsKeys, Menus!MsgBoxID, 0)
      BY MsgBoxIsApart DEF Menus!Effect
    <3>. QED  BY <3>1, <3>2, Zenon
  <2>5. q \in Menus!Keys(Menus!SettingsKeys) => Meant(w, q)
    BY <2>2, <2>4, KeysMeant, Zenon
  <2>6. Meant(w, Menus!Message)
    BY <1>3, <2>3, MessageMeant, Zenon
  <2>. QED  BY <2>1, <2>5, <2>6, Zenon
<1>4. CASE w \in {"MYPROGRAMS", "RADIO", "PARTITIONS"}
  <2>1. q = Menus!Message
    BY <1>4 DEF Asked, Menus!Questions
  <2>2. /\ "go on" = Menus!Effect("MYPROGRAMS", Menus!MsgBoxID, 0) /\ "go on" = Menus!Effect("RADIO", Menus!MsgBoxID, 0)
        /\ "go on" = Menus!Effect("PARTITIONS", Menus!MsgBoxID, 0)
    BY MsgBoxIsApart DEF Menus!Effect
  <2>. QED  BY <1>4, <2>1, <2>2, MessageMeant, Zenon
<1>5. "YESNO" \in Menus!Dialogs /\ "DLGTHUMB" \in Menus!Dialogs /\ "KEYBOARD" \in Menus!Dialogs
      /\ "COPYDLG" \in Menus!Dialogs /\ "PARTITION1" \in Menus!Dialogs /\ "PARTITION2" \in Menus!Dialogs
  BY DEF Menus!Dialogs
<1>6. CASE w = "MYPICTURES"
  <2>1. q = Menus!Q("DLGTHUMB", 0, "go on")
    BY <1>6 DEF Asked, Menus!Questions
  <2>2. "go on" = Menus!Effect("MYPICTURES", 0, 0)
    BY MsgBoxIsApart DEF Menus!Effect
  <2>. QED  BY <1>5, <1>6, <2>1, <2>2, QuestionMeant, Codes, Zenon
<1>7. CASE w = "SKINS"
  <2>1. q = Menus!Q("YESNO", 0, "skin")
    BY <1>7 DEF Asked, Menus!Questions
  <2>2. "skin" = Menus!Effect("SKINS", 0, 1) /\ "go on" = Menus!Effect("SKINS", 0, 0)
    BY MsgBoxIsApart DEF Menus!Effect
  <2>. QED  BY <1>5, <1>7, <2>1, <2>2, QuestionMeant, Codes, Zenon
<1>8. CASE w = "LANGUAGE"
  <2>1. q = Menus!Q("YESNO", 0, "language")
    BY <1>8 DEF Asked, Menus!Questions
  <2>2. "language" = Menus!Effect("LANGUAGE", 0, 1) /\ "go on" = Menus!Effect("LANGUAGE", 0, 0)
    BY MsgBoxIsApart DEF Menus!Effect
  <2>. QED  BY <1>5, <1>8, <2>1, <2>2, QuestionMeant, Codes, Zenon
<1>9. CASE w = "MYFILES"
  <2>1. /\ "go on" = Menus!Effect("MYFILES", Menus!MsgBoxID, 0)
        /\ "delete" = Menus!Effect("MYFILES", 0, 1) /\ "go on" = Menus!Effect("MYFILES", 0, 0)
        /\ "new folder" = Menus!Effect("MYFILES", 1, 0) /\ "go on" = Menus!Effect("MYFILES", 1, 1)
        /\ "rename" = Menus!Effect("MYFILES", 2, 0) /\ "go on" = Menus!Effect("MYFILES", 2, 1)
        /\ "show the copies" = Menus!Effect("MYFILES", 3, 0)
    BY MsgBoxIsApart DEF Menus!Effect
  <2>2. Meant(w, Menus!Message)
    BY <1>9, <2>1, MessageMeant, Zenon
  <2>3. Meant(w, Menus!Q("KEYBOARD", 1, "new folder"))
    BY <1>5, <1>9, <2>1, QuestionMeant, Codes, Zenon
  <2>4. Meant(w, Menus!Q("KEYBOARD", 2, "rename"))
    BY <1>5, <1>9, <2>1, QuestionMeant, Codes, Zenon
  <2>5. Meant(w, Menus!Q("YESNO", 0, "delete"))
    BY <1>5, <1>9, <2>1, QuestionMeant, Codes, Zenon
  <2>6. Meant(w, Menus!Q("COPYDLG", 3, "show the copies"))
    BY <1>5, <1>9, <2>1, QuestionMeant, Codes, Zenon
  <2>. QED  BY <1>9, <2>2, <2>3, <2>4, <2>5, <2>6 DEF Asked, Menus!Questions
<1>10. CASE w = "MAIN"
  <2>1. /\ "go on" = Menus!Effect("MAIN", Menus!MsgBoxID, 0)
        /\ "turn off" = Menus!Effect("MAIN", 0, 1) /\ "go on" = Menus!Effect("MAIN", 0, 0)
        /\ "ask for a size" = Menus!Effect("MAIN", 1, 1) /\ "go on" = Menus!Effect("MAIN", 1, 0)
        /\ "tell the outcome" = Menus!Effect("MAIN", 2, 0) /\ "go on" = Menus!Effect("MAIN", 2, 1)
    BY MsgBoxIsApart DEF Menus!Effect
  <2>2. Meant(w, Menus!Message)
    BY <1>10, <2>1, MessageMeant, Zenon
  <2>3. Meant(w, Menus!Q("YESNO", 0, "turn off"))
    BY <1>5, <1>10, <2>1, QuestionMeant, Codes, Zenon
  <2>4. Meant(w, Menus!Q("PARTITION1", 1, "ask for a size"))
    BY <1>5, <1>10, <2>1, QuestionMeant, Codes, Zenon
  <2>5. Meant(w, Menus!Q("PARTITION2", 2, "tell the outcome"))
    BY <1>5, <1>10, <2>1, QuestionMeant, Codes, Zenon
  <2>. QED  BY <1>10, <2>2, <2>3, <2>4, <2>5 DEF Asked, Menus!Questions
<1>11. CASE w \in {"MYMUSIC", "VIEW"}
  BY <1>11 DEF Asked, Menus!Questions
<1>. QED  BY <1>1, <1>2, <1>3, <1>4, <1>6, <1>7, <1>8, <1>9, <1>10, <1>11 DEF Menus!Windows

(* The main window is opened when the program starts.                       *)
LEMMA MenusBegin == Menus!Init => MenuInv
<1>. SUFFICES ASSUME Menus!Init PROVE MenuInv
  OBVIOUS
<1>1. mnGui = [active |-> Menus!None, parent |-> [d \in Menus!Dialogs |-> Menus!None],
               id |-> [d \in Menus!Dialogs |-> 0], held |-> [w \in AllWindows |-> 0]]
  BY DEF Menus!Init, AllWindows
<1>2. mnGui \in Guis
  BY <1>1 DEF Guis
<1>3. mnGui.active = Menus!None /\ Menus!None \notin Menus!Dialogs
      /\ \A w \in AllWindows : mnGui.held[w] = 0
  BY <1>1, NoneIsNoWindow DEF AllWindows
<1>4. Held(mnGui)
  BY <1>3, NoneIsNoWindow DEF Held, Seen
<1>5. Menus!AnswersMeant
  BY DEF Menus!Init, Menus!AnswersMeant
<1>. QED  BY <1>2, <1>3, <1>4, <1>5 DEF MenuInv

\* A dialog that is closed, whatever opened after it.
LEMMA FieldsReset ==
    ASSUME NEW g \in Guis, Held(g), NEW d \in Menus!Dialogs, g.active # d,
           NEW h, h = [g EXCEPT !.parent[d] = Menus!None, !.id[d] = 0]
    PROVE  /\ h \in Guis /\ Held(h) /\ h.active = g.active
           /\ g.active \in Menus!Dialogs =>
                 h.parent[g.active] = g.parent[g.active] /\ h.id[g.active] = g.id[g.active]
<1>1. h = [active |-> g.active, parent |-> [g.parent EXCEPT ![d] = Menus!None],
           id |-> [g.id EXCEPT ![d] = 0], held |-> g.held]
  BY DEF Guis
<1>2. /\ [g.parent EXCEPT ![d] = Menus!None] \in [Menus!Dialogs -> Menus!Windows \cup {Menus!None}]
      /\ [g.id EXCEPT ![d] = 0] \in [Menus!Dialogs -> Nat]
      /\ \A e \in Menus!Dialogs : e # d => [g.parent EXCEPT ![d] = Menus!None][e] = g.parent[e]
                                          /\ [g.id EXCEPT ![d] = 0][e] = g.id[e]
  BY DEF Guis
<1>3. h \in Guis /\ h.active = g.active /\ h.held = g.held
  BY <1>1, <1>2 DEF Guis
<1>4. g.active \in Menus!Dialogs => h.parent[g.active] = g.parent[g.active] /\ h.id[g.active] = g.id[g.active]
  BY <1>1, <1>2
<1>5. Held(h)
  BY <1>3, <1>4 DEF Held, Seen
<1>. QED  BY <1>3, <1>4, <1>5

\* A question that is put by the window on the screen.
LEMMA Asks ==
    ASSUME MenuInv, mnGui.active \in Menus!Windows, NEW q \in Menus!Questions(mnGui.active), Menus!Ask(q)
    PROVE  MenuInv'
<1>. DEFINE w == mnGui.active
<1>1. q \in Asked(w)
  BY DEF Asked
<1>2. q.dialog \in Menus!Dialogs /\ q.id \in Nat /\ q = Menus!Q(q.dialog, q.id, q.what)
  BY <1>1, QuestionsMeant, Zenon DEF Meant
<1>3. mnGui' = Menus!OpenDialog(mnGui, q.dialog, q.id) /\ mnAsked' = q.what /\ mnLast' = mnLast
  BY DEF Menus!Ask
<1>4. /\ mnGui' \in Guis /\ Held(mnGui') /\ mnGui'.active = q.dialog
      /\ mnGui'.parent[q.dialog] = w /\ mnGui'.id[q.dialog] = q.id
  <2>1. mnGui \in Guis /\ Held(mnGui)
    BY DEF MenuInv
  <2>2. mnGui' = Menus!OpenDialog(mnGui, q.dialog, q.id) /\ q.dialog \in Menus!Dialogs /\ q.id \in Nat
    BY <1>2, <1>3, Zenon
  <2>. HIDE DEF w
  <2>3. ASSUME NEW h, h = Menus!OpenDialog(mnGui, q.dialog, q.id)
        PROVE  /\ h \in Guis /\ Held(h) /\ h.active = q.dialog
               /\ h.parent[q.dialog] = mnGui.active /\ h.id[q.dialog] = q.id
    BY <2>1, <2>2, <2>3, DialogOpens
  <2>. QED  BY <2>2, <2>3 DEF w
<1>5. Menus!Q(mnGui'.active, mnGui'.id[mnGui'.active], mnAsked') \in Asked(mnGui'.parent[mnGui'.active])
  BY <1>1, <1>2, <1>3, <1>4, Zenon
<1>6. Menus!AnswersMeant'
  BY <1>3, Zenon DEF MenuInv, Menus!AnswersMeant
<1>. QED  BY <1>4, <1>5, <1>6, Zenon DEF MenuInv

\* GUI_FreeSkin takes the window off the screen.
LEMMA SkinFreed ==
    ASSUME NEW g \in Guis, Held(g), g.active \in Menus!Windows, NEW h, h = Menus!FreeSkin(g)
    PROVE  h \in Guis /\ Held(h) /\ h.active = Menus!None
<1>. DEFINE w == g.active
<1>1. w \in AllWindows /\ w \notin Menus!Dialogs /\ w # Menus!None /\ g.held \in [AllWindows -> Int]
  BY NoneIsNoWindow DEF AllWindows, Guis
<1>2. h = [active |-> Menus!None, parent |-> g.parent, id |-> g.id, held |-> [g.held EXCEPT ![w] = @ - 1]]
  <2>1. Menus!Free(g, w) = [active |-> w, parent |-> g.parent, id |-> g.id,
                            held |-> [g.held EXCEPT ![w] = @ - 1]]
    BY <1>1 DEF Guis, Menus!Free
  <2>2. h = [Menus!Free(g, w) EXCEPT !.active = Menus!None]
    BY DEF Menus!FreeSkin
  <2>. QED  BY <2>1, <2>2
<1>3. [g.held EXCEPT ![w] = @ - 1] \in [AllWindows -> Int]
  BY <1>1
<1>4. h \in Guis /\ h.active = Menus!None /\ h.held = [g.held EXCEPT ![w] = @ - 1]
  BY <1>2, <1>3 DEF Guis
<1>5. \A v \in AllWindows : g.held[v] = IF v = w THEN 1 ELSE 0
  BY <1>1 DEF Held, Seen
<1>6. \A v \in AllWindows : h.held[v] = 0
  BY <1>1, <1>4, <1>5
<1>7. Held(h)
  BY <1>4, <1>6, NoneIsNoWindow DEF Held, Seen, AllWindows
<1>. QED  BY <1>4, <1>7

\* What an answer makes of the windows: g before, h after.
Reacted(g, e, h) ==
    /\ h \in Guis /\ Held(h)
    /\ e = "ask for a size" =>
          h.active = "PARTITION2" /\ h.parent[h.active] = g.active /\ h.id[h.active] = 2
    /\ e = "tell the outcome" =>
          h.active = "MSGBOX" /\ h.parent[h.active] = g.active /\ h.id[h.active] = Menus!MsgBoxID
    /\ e \notin {"ask for a size", "tell the outcome"} => h.active \in Menus!Windows

(* What a window does with an answer leaves the right windows on the        *)
(* screen.                                                                  *)
LEMMA Reacts ==
    ASSUME NEW g \in Guis, Held(g), g.active \in Menus!Windows, NEW e, NEW h, h = Menus!React(g, e)
    PROVE  Reacted(g, e, h)
<1>. USE DEF Reacted
<1>1. CASE e = "ask for a size"
  <2>1. h = Menus!OpenDialog(g, "PARTITION2", 2) /\ "PARTITION2" \in Menus!Dialogs /\ 2 \in Nat
    BY <1>1 DEF Menus!React, Menus!Dialogs
  <2>2. /\ h \in Guis /\ Held(h) /\ h.active = "PARTITION2"
        /\ h.parent["PARTITION2"] = g.active /\ h.id["PARTITION2"] = 2
    BY <2>1, DialogOpens
  <2>. QED  BY <1>1, <2>2
<1>2. CASE e = "tell the outcome"
  <2>1. h = Menus!OpenDialog(g, "MSGBOX", Menus!MsgBoxID) /\ "MSGBOX" \in Menus!Dialogs
    BY <1>2 DEF Menus!React, Menus!Dialogs
  <2>2. /\ h \in Guis /\ Held(h) /\ h.active = "MSGBOX"
        /\ h.parent["MSGBOX"] = g.active /\ h.id["MSGBOX"] = Menus!MsgBoxID
    BY <2>1, DialogOpens, MsgBoxIsApart
  <2>. QED  BY <1>2, <2>2
<1>3. CASE e \in {"skin", "language"}
  <2>1. PICK w \in {"SKINS", "LANGUAGE"} : h = Menus!OpenMenu(Menus!FreeSkin(g), w)
    BY <1>3 DEF Menus!React
  <2>2. PICK f : f = Menus!FreeSkin(g)
    OBVIOUS
  <2>3. f \in Guis /\ Held(f) /\ f.active = Menus!None
    BY <2>2, SkinFreed
  <2>4. f.active \notin Menus!Dialogs /\ w \in Menus!Windows /\ h = Menus!OpenMenu(f, w)
    BY <2>1, <2>2, <2>3, NoneIsNoWindow DEF AllWindows, Menus!Windows
  <2>5. h \in Guis /\ Held(h) /\ h.active = w
    BY <2>3, <2>4, MenuOpens
  <2>. QED  BY <1>3, <2>4, <2>5
<1>4. CASE e \notin {"ask for a size", "tell the outcome", "skin", "language"}
  <2>1. h = g
    BY <1>4 DEF Menus!React
  <2>. QED  BY <1>4, <2>1
<1>. QED  BY <1>1, <1>2, <1>3, <1>4

\* An answer, whatever it is for.
LEMMA Answers ==
    ASSUME MenuInv, NEW agreed \in BOOLEAN, Menus!Answer(agreed)
    PROVE  MenuInv'
<1>. DEFINE d == mnGui.active
            w == mnGui.parent[d]
            n == mnGui.id[d]
            code == IF agreed THEN Menus!Yes(d) ELSE Menus!No(d)
            e == Menus!Effect(w, n, code)
<1>1. /\ d \in Menus!Dialogs /\ mnGui' = Menus!CloseDialog(mnGui, d, e)
      /\ mnLast' = [what |-> mnAsked, agreed |-> agreed, did |-> e]
      /\ mnAsked' = CASE e = "ask for a size" -> "tell the outcome"
                      [] e = "tell the outcome" -> "go on"
                      [] OTHER -> Menus!None
  BY DEF Menus!Answer
<1>2. mnGui \in Guis /\ Held(mnGui) /\ w \in Menus!Windows /\ Menus!Q(d, n, mnAsked) \in Asked(w)
  BY <1>1 DEF MenuInv, Held
<1>3. Meant(w, Menus!Q(d, n, mnAsked))
  <2>. HIDE DEF d, w, n
  <2>. QED  BY <1>2, QuestionsMeant
<1>4. /\ Menus!Effect(w, n, Menus!Yes(d)) = mnAsked
      /\ Menus!Effect(w, n, Menus!No(d)) = mnAsked \/ "go on" = Menus!Effect(w, n, Menus!No(d))
      /\ mnAsked = "ask for a size" => w = "MAIN" /\ d = "PARTITION1"
      /\ mnAsked = "tell the outcome" => w = "MAIN" /\ d = "PARTITION2"
  <2>. HIDE DEF d, w, n
  <2>1. Menus!Q(d, n, mnAsked).dialog = d /\ Menus!Q(d, n, mnAsked).id = n
        /\ Menus!Q(d, n, mnAsked).what = mnAsked
    BY DEF Menus!Q
  <2>. QED  BY <1>3, <2>1, Zenon DEF Meant
<1>5. (e = mnAsked \/ "go on" = e) /\ (agreed => e = mnAsked)
  <2>. HIDE DEF d, w, n
  <2>. QED  BY <1>4, Zenon
<1>6. PICK f : f = [Menus!Free(mnGui, d) EXCEPT !.active = w]
  OBVIOUS
<1>7. PICK h : h = Menus!React(f, e)
  OBVIOUS
<1>8. mnGui' = [h EXCEPT !.parent[d] = Menus!None, !.id[d] = 0]
  BY <1>1, <1>6, <1>7, Zenon DEF Menus!CloseDialog
<1>9. f \in Guis /\ Held(f) /\ f.active = w
  BY <1>1, <1>2, <1>6, DialogGoes
<1>. HIDE DEF e, code, n, w, d
<1>10. /\ h \in Guis /\ Held(h)
       /\ e = "ask for a size" => h.active = "PARTITION2" /\ h.parent[h.active] = w /\ h.id[h.active] = 2
       /\ e = "tell the outcome" => h.active = "MSGBOX" /\ h.parent[h.active] = w
                                    /\ h.id[h.active] = Menus!MsgBoxID
       /\ e \notin {"ask for a size", "tell the outcome"} => h.active \in Menus!Windows
  <2>1. f.active \in Menus!Windows
    BY <1>2, <1>9
  <2>2. Reacted(f, e, h)
    BY <1>7, <1>9, <2>1, Reacts, Zenon
  <2>. QED  BY <1>9, <2>2, Zenon DEF Reacted
<1>11. h.active # d
  <2>1. CASE e = "ask for a size"
    BY <1>4, <1>5, <1>10, <2>1
  <2>2. CASE e = "tell the outcome"
    BY <1>4, <1>5, <1>10, <2>2
  <2>3. CASE e \notin {"ask for a size", "tell the outcome"}
    BY <1>1, <1>10, <2>3, NoneIsNoWindow
  <2>. QED  BY <2>1, <2>2, <2>3
<1>12. \A k : k = [h EXCEPT !.parent[d] = Menus!None, !.id[d] = 0] =>
          /\ k \in Guis /\ Held(k) /\ k.active = h.active
          /\ h.active \in Menus!Dialogs =>
                k.parent[h.active] = h.parent[h.active] /\ k.id[h.active] = h.id[h.active]
  BY <1>1, <1>10, <1>11, FieldsReset, Zenon
<1>13. /\ mnGui' \in Guis /\ Held(mnGui') /\ mnGui'.active = h.active
       /\ h.active \in Menus!Dialogs =>
             mnGui'.parent[h.active] = h.parent[h.active] /\ mnGui'.id[h.active] = h.id[h.active]
  BY <1>8, <1>12, Zenon
<1>14. Menus!AnswersMeant'
  BY <1>1, <1>5 DEF Menus!AnswersMeant
<1>15. ASSUME mnGui'.active \in Menus!Dialogs
       PROVE  Menus!Q(mnGui'.active, mnGui'.id[mnGui'.active], mnAsked')
                 \in Asked(mnGui'.parent[mnGui'.active])
  <2>1. /\ mnGui'.active = h.active /\ mnGui'.parent[mnGui'.active] = h.parent[h.active]
        /\ mnGui'.id[mnGui'.active] = h.id[h.active] /\ h.active \in Menus!Dialogs
    BY <1>13, <1>15, Zenon
  <2>2. CASE e = "ask for a size"
    <3>1. w = "MAIN" /\ mnAsked' = "tell the outcome"
      BY <1>1, <1>4, <1>5, <2>2
    <3>2. Menus!Q("PARTITION2", 2, "tell the outcome") \in Asked("MAIN")
      BY Zenon DEF Asked
    <3>. QED  BY <1>10, <2>1, <2>2, <3>1, <3>2, Zenon
  <2>3. CASE e = "tell the outcome"
    <3>1. w = "MAIN" /\ mnAsked' = "go on"
      BY <1>1, <1>4, <1>5, <2>3
    <3>2. Menus!Q("MSGBOX", Menus!MsgBoxID, "go on") \in Asked("MAIN")
      BY Zenon DEF Asked, Menus!Message
    <3>. QED  BY <1>10, <2>1, <2>3, <3>1, <3>2, Zenon
  <2>4. CASE e \notin {"ask for a size", "tell the outcome"}
    BY <1>10, <2>1, <2>4, NoneIsNoWindow, Zenon
  <2>. QED  BY <2>2, <2>3, <2>4
<1>. QED  BY <1>13, <1>14, <1>15, Zenon DEF MenuInv

(* Every step of the windows and dialogs keeps the invariant.               *)
LEMMA MenuSteps == ASSUME MenuInv, [Menus!Next]_(Menus!menuVars) PROVE MenuInv'
<1>1. CASE UNCHANGED Menus!menuVars
  <2>1. mnGui' = mnGui /\ mnAsked' = mnAsked /\ mnLast' = mnLast
    BY <1>1 DEF Menus!menuVars
  <2>. QED  BY <2>1, Zenon DEF MenuInv, Menus!AnswersMeant
<1>2. ASSUME NEW status, Menus!Start(status) PROVE MenuInv'
  <2>1. mnGui.active = Menus!None /\ mnLast' = mnLast /\ mnGui \in Guis /\ Held(mnGui)
        /\ Menus!None \notin Menus!Dialogs /\ "MAIN" \in Menus!Windows
    BY <1>2, NoneIsNoWindow DEF Menus!Start, MenuInv, AllWindows, Menus!Windows
  <2>2. PICK g : g = Menus!OpenMenu(mnGui, "MAIN")
    OBVIOUS
  <2>3. g \in Guis /\ Held(g) /\ g.active = "MAIN" /\ g.active \in Menus!Windows
    BY <2>1, <2>2, MenuOpens
  <2>4. Menus!AnswersMeant'
    BY <2>1, Zenon DEF MenuInv, Menus!AnswersMeant
  <2>5. CASE status = "no partition"
    <3>1. mnGui' = Menus!OpenDialog(g, "PARTITION1", 1) /\ mnAsked' = "ask for a size"
      BY <1>2, <2>2, <2>5, Zenon DEF Menus!Start
    <3>2. "PARTITION1" \in Menus!Dialogs /\ 1 \in Nat
      BY DEF Menus!Dialogs
    <3>3. \A h : h = Menus!OpenDialog(g, "PARTITION1", 1) =>
             /\ h \in Guis /\ Held(h) /\ h.active = "PARTITION1"
             /\ h.parent["PARTITION1"] = g.active /\ h.id["PARTITION1"] = 1
      BY <2>3, <3>2, DialogOpens
    <3>4. /\ mnGui' \in Guis /\ Held(mnGui') /\ mnGui'.active = "PARTITION1"
          /\ mnGui'.parent["PARTITION1"] = "MAIN" /\ mnGui'.id["PARTITION1"] = 1
      BY <2>3, <3>1, <3>3, Zenon
    <3>5. Menus!Q("PARTITION1", 1, "ask for a size") \in Asked("MAIN")
      BY Zenon DEF Asked
    <3>. QED  BY <2>4, <3>1, <3>4, <3>5, Zenon DEF MenuInv
  <2>6. CASE status # "no partition"
    <3>1. mnGui' = g
      BY <1>2, <2>2, <2>6, Zenon DEF Menus!Start
    <3>2. mnGui'.active \notin Menus!Dialogs
      BY <2>3, <3>1, NoneIsNoWindow, Zenon
    <3>. QED  BY <2>3, <2>4, <3>1, <3>2, Zenon DEF MenuInv
  <2>. QED  BY <2>5, <2>6
<1>3. ASSUME NEW window \in Menus!Windows, Menus!Go(window) PROVE MenuInv'
  <2>1. /\ mnGui.active \in Menus!Windows /\ mnGui' = Menus!OpenMenu(mnGui, window) /\ mnLast' = mnLast
        /\ mnGui \in Guis /\ Held(mnGui)
    BY <1>3, Zenon DEF Menus!Go, MenuInv
  <2>2. mnGui.active \notin Menus!Dialogs
    BY <2>1, NoneIsNoWindow, Zenon
  <2>3. \A h : h = Menus!OpenMenu(mnGui, window) => h \in Guis /\ Held(h) /\ h.active = window
    BY <2>1, <2>2, MenuOpens
  <2>4. mnGui' \in Guis /\ Held(mnGui') /\ mnGui'.active = window /\ mnGui'.active \notin Menus!Dialogs
    BY <2>1, <2>3, NoneIsNoWindow, Zenon
  <2>. QED  BY <2>1, <2>4, Zenon DEF MenuInv, Menus!AnswersMeant
<1>4. ASSUME NEW q \in Menus!Questions(mnGui.active), Menus!Ask(q) PROVE MenuInv'
  BY <1>4, Asks DEF Menus!Ask
<1>5. ASSUME NEW agreed \in BOOLEAN, Menus!Answer(agreed) PROVE MenuInv'
  BY <1>5, Answers
<1>. QED  BY <1>1, <1>2, <1>3, <1>4, <1>5 DEF Menus!Next

(* The windows on the screen have their graphics, and an answer is taken for *)
(* the question that was asked (GUI_OpenDialog, GUI_CloseDialog).            *)
THEOREM WindowsStayRight == Menus!Spec => []Menus!WindowsRight
<1>1. Menus!Init => MenuInv
  BY MenusBegin
<1>2. MenuInv /\ [Menus!Next]_(Menus!menuVars) => MenuInv'
  BY MenuSteps
<1>3. MenuInv => Menus!WindowsRight
  <2>. SUFFICES ASSUME MenuInv PROVE Menus!GraphicsHeld /\ Menus!AnswersMeant
    BY DEF Menus!WindowsRight
  <2>1. Menus!OnScreen = Seen(mnGui)
    BY Zenon DEF Menus!OnScreen, Seen
  <2>2. Menus!GraphicsHeld
    BY <2>1, Zenon DEF MenuInv, Held, Menus!GraphicsHeld, AllWindows
  <2>. QED  BY <2>2, Zenon DEF MenuInv
<1>. QED  BY <1>1, <1>2, <1>3, PTL DEF Menus!Spec

-------------------------------------------------------------------------------
(* Controls.                                                                 *)
Buttons == DOMAIN Input!Bits
Bit(b, set) == IF b \in set THEN Input!Bits[b] ELSE 0
PadSound == inPad \in [btns : SUBSET Buttons, old : SUBSET Buttons, mode : {0, 1}]
PlayerSound ==
    /\ inPlayer \in [time : Nat, playing : BOOLEAN, volume : 0 .. MaxPos, looping : BOOLEAN]
    /\ inSlider \in 0 .. MaxPos /\ inToggle \in BOOLEAN
    /\ inToggle = inPlayer.looping
    /\ inWindow = "MYMUSIC" => inSlider = inPlayer.volume
ComboSound ==
    /\ inCombo.cur \in 0 .. 2
    /\ inCombo.filter = Input!Filters[inCombo.cur + 1] \/ (inCombo.cur = 0 /\ inCombo.filter = Input!None)
\* The time that was drawn last is the one the loop compared last.
ScreenSound ==
    /\ inScreen \in [time : Nat, playing : BOOLEAN, polled : Nat]
    /\ inPc \in {"top", "input", "poll"}
    /\ inPc # "top" => inScreen.polled = inPlayer.time
    /\ inScreen.playing => inScreen.time = inScreen.polled
InputInv ==
    /\ inCase \in Cases
    /\ PadSound /\ PlayerSound /\ ComboSound /\ ScreenSound
    /\ Input!PressModeMeant

(* The buttons, and what each counts for in the mask of the pad.            *)
LEMMA ButtonBits ==
    /\ Buttons = {"DOWN", "LEFT", "UP", "RIGHT", "CROSS", "TRIANGLE", "L1", "R1"}
    /\ \A b \in Buttons : Input!Bits[b] \in Nat \ {0}
BY DEF Buttons, Input!Bits

(* The mask is the sum of the bits of the buttons that are pressed.         *)
LEMMA MaskIsSum ==
    ASSUME NEW B
    PROVE  Input!Mask(B) = Bit("DOWN", B) + Bit("LEFT", B) + Bit("UP", B) + Bit("RIGHT", B)
                           + Bit("CROSS", B) + Bit("TRIANGLE", B) + Bit("L1", B) + Bit("R1", B)
BY DEF Input!Mask, Bit

\* More buttons are a greater number.
LEMMA MoreIsGreater ==
    ASSUME NEW A \in SUBSET Buttons, NEW B \in SUBSET Buttons, A \subseteq B
    PROVE  /\ ~(Input!Mask(A) > Input!Mask(B))
           /\ ~(B \subseteq A) => Input!Mask(B) > Input!Mask(A)
<1>1. \A b \in Buttons : /\ Bit(b, A) \in Nat /\ Bit(b, B) \in Nat /\ Bit(b, A) <= Bit(b, B)
                         /\ b \in B /\ b \notin A => Bit(b, A) < Bit(b, B)
  BY ButtonBits DEF Bit
<1>3. /\ "DOWN" \in Buttons /\ "LEFT" \in Buttons /\ "UP" \in Buttons /\ "RIGHT" \in Buttons
      /\ "CROSS" \in Buttons /\ "TRIANGLE" \in Buttons /\ "L1" \in Buttons /\ "R1" \in Buttons
  BY ButtonBits
<1>. HIDE DEF Buttons
<1>4. ~(B \subseteq A) => \E b \in Buttons : Bit(b, A) < Bit(b, B)
  BY <1>1
<1>5. (\E b \in Buttons : Bit(b, A) < Bit(b, B)) =>
         \/ Bit("DOWN", A) < Bit("DOWN", B) \/ Bit("LEFT", A) < Bit("LEFT", B) \/ Bit("UP", A) < Bit("UP", B)
         \/ Bit("RIGHT", A) < Bit("RIGHT", B) \/ Bit("CROSS", A) < Bit("CROSS", B)
         \/ Bit("TRIANGLE", A) < Bit("TRIANGLE", B) \/ Bit("L1", A) < Bit("L1", B)
         \/ Bit("R1", A) < Bit("R1", B)
  BY ButtonBits, Zenon
<1>6. /\ ~(Bit("DOWN", A) + Bit("LEFT", A) + Bit("UP", A) + Bit("RIGHT", A)
             + Bit("CROSS", A) + Bit("TRIANGLE", A) + Bit("L1", A) + Bit("R1", A)
           > Bit("DOWN", B) + Bit("LEFT", B) + Bit("UP", B) + Bit("RIGHT", B)
             + Bit("CROSS", B) + Bit("TRIANGLE", B) + Bit("L1", B) + Bit("R1", B))
      /\ ~(B \subseteq A) =>
           Bit("DOWN", B) + Bit("LEFT", B) + Bit("UP", B) + Bit("RIGHT", B)
             + Bit("CROSS", B) + Bit("TRIANGLE", B) + Bit("L1", B) + Bit("R1", B)
           > Bit("DOWN", A) + Bit("LEFT", A) + Bit("UP", A) + Bit("RIGHT", A)
             + Bit("CROSS", A) + Bit("TRIANGLE", A) + Bit("L1", A) + Bit("R1", A)
  <2>1. /\ Bit("DOWN", A) \in Nat /\ Bit("DOWN", B) \in Nat /\ Bit("DOWN", A) <= Bit("DOWN", B)
        /\ Bit("LEFT", A) \in Nat /\ Bit("LEFT", B) \in Nat /\ Bit("LEFT", A) <= Bit("LEFT", B)
        /\ Bit("UP", A) \in Nat /\ Bit("UP", B) \in Nat /\ Bit("UP", A) <= Bit("UP", B)
        /\ Bit("RIGHT", A) \in Nat /\ Bit("RIGHT", B) \in Nat /\ Bit("RIGHT", A) <= Bit("RIGHT", B)
        /\ Bit("CROSS", A) \in Nat /\ Bit("CROSS", B) \in Nat /\ Bit("CROSS", A) <= Bit("CROSS", B)
        /\ Bit("TRIANGLE", A) \in Nat /\ Bit("TRIANGLE", B) \in Nat /\ Bit("TRIANGLE", A) <= Bit("TRIANGLE", B)
        /\ Bit("L1", A) \in Nat /\ Bit("L1", B) \in Nat /\ Bit("L1", A) <= Bit("L1", B)
        /\ Bit("R1", A) \in Nat /\ Bit("R1", B) \in Nat /\ Bit("R1", A) <= Bit("R1", B)
    BY <1>1, <1>3, Zenon
  <2>. HIDE DEF Bit
  <2>2. ~(B \subseteq A) =>
           \/ Bit("DOWN", A) < Bit("DOWN", B)
           \/ Bit("LEFT", A) < Bit("LEFT", B)
           \/ Bit("UP", A) < Bit("UP", B)
           \/ Bit("RIGHT", A) < Bit("RIGHT", B)
           \/ Bit("CROSS", A) < Bit("CROSS", B)
           \/ Bit("TRIANGLE", A) < Bit("TRIANGLE", B)
           \/ Bit("L1", A) < Bit("L1", B)
           \/ Bit("R1", A) < Bit("R1", B)
    BY <1>4, <1>5, Zenon
  <2>. QED  BY <2>1, <2>2, SMT
<1>. QED  BY <1>6, MaskIsSum, Zenon

\* What the buttons leave behind, whatever they do.
Did ==
    /\ PadSound' /\ PlayerSound' /\ ComboSound' /\ Input!PressModeMeant'
    /\ inPlayer'.time = inPlayer.time
    /\ inScreen' = inScreen \/ inScreen' = Input!Rendered(inScreen)

(* Setting the mode leaves the buttons of the pad alone.                    *)
LEMMA ModeSet ==
    ASSUME PadSound, NEW m \in {0, 1}, inPad' = [inPad EXCEPT !.mode = m]
    PROVE  PadSound' /\ inPad'.mode = m /\ inPad'.btns = inPad.btns /\ inPad'.old = inPad.old
BY DEF PadSound

(* A window that opens sets its controls from the player.                   *)
LEMMA Opening ==
    ASSUME InputInv, NEW w, NEW mode \in {0, 1},
           mode = 1 /\ inWindow # "VIEW" => inDelaying',
           Input!Opens(w, mode)
    PROVE  Did
<1>1. /\ inWindow' = w /\ inScreen' = Input!Rendered(inScreen) /\ inPlayer' = inPlayer
      /\ inCombo' = inCombo /\ inToggle' = inToggle
      /\ inSlider' = IF w = "MYMUSIC" THEN inPlayer.volume ELSE inSlider
      /\ inPad' = [inPad EXCEPT !.mode = IF w = "VIEW" THEN 1 ELSE IF inWindow = "VIEW" THEN 0 ELSE mode]
  BY DEF Input!Opens, Input!Draw
<1>2. PICK m \in {0, 1} : m = (IF w = "VIEW" THEN 1 ELSE IF inWindow = "VIEW" THEN 0 ELSE mode)
  OBVIOUS
<1>3. PadSound' /\ inPad'.mode = m
  BY <1>1, <1>2, ModeSet DEF InputInv
<1>4. PlayerSound'
  BY <1>1 DEF InputInv, PlayerSound
<1>5. ComboSound'
  BY <1>1 DEF InputInv, ComboSound
<1>6. Input!PressModeMeant'
  BY <1>1, <1>2, <1>3 DEF Input!PressModeMeant
<1>. QED  BY <1>1, <1>3, <1>4, <1>5, <1>6 DEF Did

(* A control that sets the player shows what it set.                        *)
LEMMA Setting ==
    ASSUME InputInv, NEW pos \in 0 .. MaxPos, NEW mode \in {0, 1},
           mode = 1 => inWindow = "VIEW" \/ inDelaying',
           Input!SetPos(pos, mode)
    PROVE  Did
<1>1. /\ inSlider' = pos /\ inPlayer' = [inPlayer EXCEPT !.volume = pos] /\ inWindow' = inWindow
      /\ inPad' = [inPad EXCEPT !.mode = mode] /\ inCombo' = inCombo /\ inToggle' = inToggle
      /\ inScreen' = inScreen \/ inScreen' = Input!Rendered(inScreen)
  BY DEF Input!SetPos
<1>2. PadSound' /\ inPad'.mode = mode
  BY <1>1, ModeSet DEF InputInv
<1>3. PlayerSound' /\ inPlayer'.time = inPlayer.time
  BY <1>1 DEF InputInv, PlayerSound
<1>4. ComboSound'
  BY <1>1 DEF InputInv, ComboSound
<1>5. Input!PressModeMeant'
  BY <1>1, <1>2 DEF Input!PressModeMeant
<1>. QED  BY <1>1, <1>2, <1>3, <1>4, <1>5 DEF Did

\* What changes the mode alone, and may draw.
LEMMA ModeOnly ==
    ASSUME InputInv, NEW mode \in {0, 1}, mode = 1 => inWindow = "VIEW" \/ inDelaying',
           inPad' = [inPad EXCEPT !.mode = mode],
           inWindow' = inWindow, inSlider' = inSlider, inCombo' = inCombo, inToggle' = inToggle,
           inPlayer' = inPlayer, inScreen' = inScreen \/ inScreen' = Input!Rendered(inScreen)
    PROVE  Did
<1>1. PadSound' /\ inPad'.mode = mode
  BY ModeSet DEF InputInv
<1>2. PlayerSound'
  BY DEF InputInv, PlayerSound
<1>3. ComboSound'
  BY DEF InputInv, ComboSound
<1>4. Input!PressModeMeant'
  BY <1>1 DEF Input!PressModeMeant
<1>. QED  BY <1>1, <1>2, <1>3, <1>4 DEF Did

(* What no control takes goes to the window.                                *)
LEMMA LeftToTheWindow ==
    ASSUME InputInv, NEW mode \in {0, 1}, mode = 1 /\ inWindow # "VIEW" => inDelaying',
           inWindow # "VIEW", Input!Unhandled(mode)
    PROVE  Did
<1>1. ASSUME NEW control, Input!Callback(control, mode) PROVE Did
  <2>1. CASE Input!Answer(control) # Input!None
    <3>1. Input!Opens(Input!Answer(control), mode)
      BY <1>1, <2>1 DEF Input!Callback
    <3>. QED  BY <3>1, Opening
  <2>2. CASE Input!Answer(control) = Input!None
    <3>1. /\ inPad' = [inPad EXCEPT !.mode = mode]
          /\ inWindow' = inWindow /\ inSlider' = inSlider /\ inCombo' = inCombo
          /\ inToggle' = inToggle /\ inPlayer' = inPlayer /\ inScreen' = inScreen
      BY <1>1, <2>2 DEF Input!Callback
    <3>. QED  BY <3>1, ModeOnly
  <2>. QED  BY <2>1, <2>2
<1>2. CASE Input!MoveFocus(mode)
  <2>1. PICK m \in {0, mode} : inPad' = [inPad EXCEPT !.mode = m]
    BY <1>2 DEF Input!MoveFocus
  <2>2. /\ inWindow' = inWindow /\ inSlider' = inSlider /\ inCombo' = inCombo
        /\ inToggle' = inToggle /\ inPlayer' = inPlayer
        /\ inScreen' = inScreen \/ inScreen' = Input!Rendered(inScreen)
    BY <1>2 DEF Input!MoveFocus, Input!Draw
  <2>3. m \in {0, 1} /\ (m = 1 => inWindow = "VIEW" \/ inDelaying')
    OBVIOUS
  <2>. QED  BY <2>1, <2>2, <2>3, ModeOnly
<1>3. CASE /\ inPad' = [inPad EXCEPT !.mode = mode]
           /\ UNCHANGED <<inWindow, inFocus, inSlider, inCombo, inToggle, inView, inPlayer, inScreen>>
  BY <1>3, ModeOnly
<1>. QED  BY <1>1, <1>2, <1>3 DEF Input!Unhandled

(* A step that changes no mode keeps the pad.                               *)
LEMMA KeepsMode == ASSUME PadSound PROVE inPad.mode \in {0, 1} /\ inPad = [inPad EXCEPT !.mode = inPad.mode]
BY DEF PadSound

(* The step of a slider.                                                    *)
LEMMA SliderDid == ASSUME InputAssumption, InputInv, Input!SliderInput PROVE Did
<1>1. inWindow # "VIEW"
  BY DEF Input!SliderInput
<1>2. PICK idle \in BOOLEAN, waiting \in BOOLEAN :
         \/ /\ Input!JumpsTo # inSlider /\ Input!SetPos(Input!JumpsTo, Input!ModeAfter(idle))
            /\ inDelaying' = inDelaying
         \/ /\ Input!HeldBack(idle, waiting) /\ Input!SetPos(inSlider, 1) /\ inDelaying' = inDelaying
         \/ /\ inDelaying' = (inDelaying \/ Input!ModeAfter(idle) = 0)
            /\ Input!SetPos(Input!Stepped, 1) \/ Input!Unhandled(1)
  BY Zenon DEF Input!SliderInput
<1>3. /\ MaxPos \in Nat /\ SliderStep \in Nat /\ inSlider \in 0 .. MaxPos
      /\ inPad.mode = 1 => inDelaying
  BY <1>1 DEF InputAssumption, InputInv, PlayerSound, Input!PressModeMeant
<1>4. Input!JumpsTo \in 0 .. MaxPos /\ Input!Stepped \in 0 .. MaxPos
  BY <1>3 DEF Input!JumpsTo, Input!Stepped
<1>5. Input!ModeAfter(idle) \in {0, 1} /\ (Input!ModeAfter(idle) = 1 => inPad.mode = 1)
      /\ (Input!ModeAfter(idle) # 0 => inPad.mode = 1)
  BY KeepsMode DEF Input!ModeAfter, InputInv
<1>6. CASE /\ Input!SetPos(Input!JumpsTo, Input!ModeAfter(idle))
           /\ inDelaying' = inDelaying
  <2>1. Input!ModeAfter(idle) = 1 => inWindow = "VIEW" \/ inDelaying'
    BY <1>3, <1>5, <1>6
  <2>. QED  BY <1>4, <1>5, <1>6, <2>1, Setting
<1>7. CASE Input!HeldBack(idle, waiting) /\ Input!SetPos(inSlider, 1) /\ inDelaying' = inDelaying
  <2>1. inDelaying'
    BY <1>7 DEF Input!HeldBack
  <2>. QED  BY <1>3, <1>7, <2>1, Setting
<1>8. CASE /\ inDelaying' = (inDelaying \/ Input!ModeAfter(idle) = 0)
           /\ Input!SetPos(Input!Stepped, 1) \/ Input!Unhandled(1)
  <2>1. inDelaying'
    BY <1>3, <1>5, <1>8
  <2>2. ASSUME Input!SetPos(Input!Stepped, 1) PROVE Did
    BY <1>4, <2>1, <2>2, Setting
  <2>3. ASSUME Input!Unhandled(1) PROVE Did
    BY <1>1, <2>1, <2>3, LeftToTheWindow
  <2>. QED  BY <1>8, <2>2, <2>3
<1>. QED  BY <1>2, <1>6, <1>7, <1>8

(* The step of a button, a toggle button or a combo.                        *)
LEMMA ControlDid == ASSUME InputInv, Input!ControlInput PROVE Did
<1>1. inWindow # "VIEW" /\ inDelaying' = inDelaying
  BY DEF Input!ControlInput
<1>2. inPad.mode \in {0, 1} /\ inPad = [inPad EXCEPT !.mode = inPad.mode]
      /\ (inPad.mode = 1 => inDelaying')
  BY <1>1, KeepsMode DEF InputInv, Input!PressModeMeant
<1>3. \/ Input!ComboNext \/ Input!Toggle \/ Input!Opens("VIEW", inPad.mode)
      \/ Input!PanelMoves \/ Input!Unhandled(inPad.mode)
  BY Zenon DEF Input!ControlInput
<1>4. CASE Input!ComboNext
  <2>1. PICK cur : cur = (inCombo.cur + 1) % 3
    OBVIOUS
  <2>2. /\ inCombo' = [cur |-> cur, filter |-> Input!Filters[cur + 1]]
        /\ inPad' = inPad /\ inWindow' = inWindow /\ inSlider' = inSlider /\ inToggle' = inToggle
        /\ inPlayer' = inPlayer /\ inScreen' = Input!Rendered(inScreen)
    BY <1>4, <2>1 DEF Input!ComboNext, Input!Draw
  <2>3. ComboSound'
    <3>1. cur \in 0 .. 2
      BY <2>1 DEF InputInv, ComboSound
    <3>2. inCombo'.cur = cur /\ inCombo'.filter = Input!Filters[cur + 1]
      BY <2>2
    <3>. QED  BY <3>1, <3>2 DEF ComboSound
  <2>4. PadSound' /\ PlayerSound' /\ Input!PressModeMeant'
    BY <1>1, <2>2 DEF InputInv, PadSound, PlayerSound, Input!PressModeMeant
  <2>. QED  BY <2>2, <2>3, <2>4 DEF Did
<1>5. CASE Input!Toggle
  <2>1. /\ inToggle' = ~inToggle /\ inPlayer' = [inPlayer EXCEPT !.looping = inToggle']
        /\ inPad' = inPad /\ inWindow' = inWindow /\ inSlider' = inSlider /\ inCombo' = inCombo
        /\ inScreen' = Input!Rendered(inScreen)
    BY <1>5 DEF Input!Toggle, Input!Draw
  <2>2. inToggle' \in BOOLEAN
    BY <2>1, Zenon
  <2>3. PlayerSound' /\ inPlayer'.time = inPlayer.time
    BY <2>1, <2>2 DEF InputInv, PlayerSound
  <2>4. PadSound' /\ ComboSound' /\ Input!PressModeMeant'
    BY <1>1, <2>1 DEF InputInv, PadSound, ComboSound, Input!PressModeMeant
  <2>. QED  BY <2>1, <2>3, <2>4 DEF Did
<1>6. CASE Input!Opens("VIEW", inPad.mode)
  BY <1>2, <1>6, Opening
<1>7. CASE Input!PanelMoves
  <2>1. /\ inPad' = [inPad EXCEPT !.mode = inPad.mode] /\ inWindow' = inWindow /\ inSlider' = inSlider
        /\ inCombo' = inCombo /\ inToggle' = inToggle /\ inPlayer' = inPlayer
        /\ inScreen' = Input!Rendered(inScreen)
    BY <1>2, <1>7 DEF Input!PanelMoves, Input!Draw
  <2>. QED  BY <1>2, <2>1, ModeOnly
<1>8. CASE Input!Unhandled(inPad.mode)
  BY <1>1, <1>2, <1>8, LeftToTheWindow
<1>. QED  BY <1>3, <1>4, <1>5, <1>6, <1>7, <1>8

(* The step of the picture on the whole screen.                             *)
LEMMA ViewDid == ASSUME InputInv, Input!ViewInput PROVE Did
<1>1. inWindow = "VIEW" /\ inDelaying' = inDelaying
  BY DEF Input!ViewInput
<1>2. inPad.mode \in {0, 1} /\ inPad = [inPad EXCEPT !.mode = inPad.mode]
  BY KeepsMode DEF InputInv
<1>3. CASE Input!Opens("MYPICTURES", inPad.mode)
  BY <1>1, <1>2, <1>3, Opening
<1>4. CASE /\ inScreen' = inScreen \/ inScreen' = Input!Rendered(inScreen)
           /\ UNCHANGED <<inPad, inWindow, inFocus, inSlider, inCombo, inToggle, inPlayer>>
  BY <1>1, <1>2, <1>4, ModeOnly
<1>. QED  BY <1>3, <1>4, Zenon DEF Input!ViewInput

\* A button acts only when it is heeded, in the loop's second step.
Acting == Input!ViewInput \/ Input!SliderInput \/ Input!ControlInput
(* Only a pass that heeds the buttons acts on them.                         *)
LEMMA ActingMeans ==
    ASSUME Acting PROVE inPc = "input" /\ inPc' = "poll" /\ Input!Heeds(inPad)
BY DEF Acting, Input!ViewInput, Input!SliderInput, Input!ControlInput, Input!Acts

(* Every pass of the loop keeps what the controls show.                     *)
LEMMA InputSteps == ASSUME InputAssumption, InputInv, [Input!Next]_(Input!inputVars) PROVE InputInv'
<1>1. CASE UNCHANGED Input!inputVars
  BY <1>1 DEF Input!inputVars, InputInv, PadSound, PlayerSound, ComboSound, ScreenSound,
              Input!PressModeMeant
<1>2. ASSUME Input!Next PROVE inCase' = inCase
  BY <1>2 DEF Input!Next
<1>3. ASSUME Acting, inCase' = inCase PROVE InputInv'
  <2>1. inPc = "input" /\ inPc' = "poll" /\ Did
    BY <1>3, ActingMeans, SliderDid, ControlDid, ViewDid DEF Acting
  <2>2. /\ inScreen \in [time : Nat, playing : BOOLEAN, polled : Nat]
        /\ inScreen.polled = inPlayer.time /\ (inScreen.playing => inScreen.time = inScreen.polled)
        /\ inPlayer.time \in Nat /\ inPlayer.playing \in BOOLEAN
    BY <2>1 DEF InputInv, ScreenSound, PlayerSound
  <2>3. CASE inScreen' = inScreen
    <3>1. ScreenSound'
      BY <2>1, <2>2, <2>3 DEF ScreenSound, Did
    <3>. QED  BY <1>3, <2>1, <3>1 DEF InputInv, Did
  <2>4. CASE inScreen' = Input!Rendered(inScreen)
    <3>1. /\ inScreen' \in [time : Nat, playing : BOOLEAN, polled : Nat]
          /\ inScreen'.polled = inScreen.polled
          /\ inScreen'.playing => inScreen'.time = inPlayer.time
      BY <2>2, <2>4 DEF Input!Rendered
    <3>2. ScreenSound'
      BY <2>1, <2>2, <3>1 DEF ScreenSound, Did
    <3>. QED  BY <1>3, <2>1, <3>2 DEF InputInv, Did
  <2>. QED  BY <2>1, <2>3, <2>4 DEF Did
<1>4. ASSUME Input!RenderTimes, inCase' = inCase PROVE InputInv'
  <2>1. /\ inPc' = "input" /\ inPad' = inPad /\ inWindow' = inWindow /\ inSlider' = inSlider
        /\ inDelaying' = inDelaying /\ inCombo' = inCombo /\ inToggle' = inToggle /\ inPlayer' = inPlayer
        /\ \/ inScreen' = [Input!Rendered(inScreen) EXCEPT !.polled = inPlayer.time]
           \/ inScreen' = inScreen /\ inScreen.polled = inPlayer.time
    BY <1>4 DEF Input!RenderTimes
  <2>2. /\ inScreen \in [time : Nat, playing : BOOLEAN, polled : Nat]
        /\ (inScreen.playing => inScreen.time = inScreen.polled)
        /\ inPlayer.time \in Nat /\ inPlayer.playing \in BOOLEAN
    BY DEF InputInv, ScreenSound, PlayerSound
  <2>3. ScreenSound'
    <3>1. CASE inScreen' = inScreen /\ inScreen.polled = inPlayer.time
      BY <2>1, <2>2, <3>1 DEF ScreenSound
    <3>2. CASE inScreen' = [Input!Rendered(inScreen) EXCEPT !.polled = inPlayer.time]
      BY <2>1, <2>2, <3>2 DEF ScreenSound, Input!Rendered
    <3>. QED  BY <2>1, <3>1, <3>2
  <2>. QED  BY <1>4, <2>1, <2>3 DEF InputInv, PadSound, PlayerSound, ComboSound, Input!PressModeMeant
<1>5. ASSUME Input!NothingPressed, inCase' = inCase PROVE InputInv'
  BY <1>5 DEF Input!NothingPressed, InputInv, PadSound, PlayerSound, ComboSound, ScreenSound,
              Input!PressModeMeant
<1>6. ASSUME Input!Poll, inCase' = inCase PROVE InputInv'
  <2>1. PICK found \in inCase.presses \cup {inPad.btns} :
           inPad' = [inPad EXCEPT !.old = inPad.btns, !.btns = found]
    BY <1>6 DEF Input!Poll
  <2>2. PICK time \in 0 .. inCase.maxTime, playing \in BOOLEAN :
           inPlayer' = [inPlayer EXCEPT !.time = time, !.playing = playing]
    BY <1>6 DEF Input!Poll
  <2>3. /\ inPc' = "top" /\ inWindow' = inWindow /\ inSlider' = inSlider /\ inDelaying' = inDelaying
        /\ inCombo' = inCombo /\ inToggle' = inToggle /\ inScreen' = inScreen
    BY <1>6 DEF Input!Poll
  <2>4. inCase.presses \subseteq SUBSET Buttons /\ inCase.maxTime \in Nat
    BY DEF InputAssumption, InputInv, Buttons
  <2>5. PadSound' /\ inPad'.mode = inPad.mode
    BY <2>1, <2>4 DEF InputInv, PadSound
  <2>6. PlayerSound'
    <3>1. inPlayer \in [time : Nat, playing : BOOLEAN, volume : 0 .. MaxPos, looping : BOOLEAN]
      BY DEF InputInv, PlayerSound
    <3>2. inPlayer' = [time |-> time, playing |-> playing, volume |-> inPlayer.volume,
                       looping |-> inPlayer.looping]
      BY <2>2, <3>1
    <3>3. time \in Nat
      BY <2>4
    <3>4. /\ inPlayer' \in [time : Nat, playing : BOOLEAN, volume : 0 .. MaxPos, looping : BOOLEAN]
          /\ inPlayer'.volume = inPlayer.volume /\ inPlayer'.looping = inPlayer.looping
      BY <3>1, <3>2, <3>3
    <3>. QED  BY <2>3, <3>4, Zenon DEF InputInv, PlayerSound
  <2>. QED  BY <1>6, <2>3, <2>5, <2>6 DEF InputInv, ComboSound, ScreenSound, Input!PressModeMeant
<1>. QED  BY <1>1, <1>2, <1>3, <1>4, <1>5, <1>6 DEF Input!Next, Acting

(* The main window opens with its controls set.                             *)
LEMMA InputBegins == ASSUME InputAssumption, Input!Init PROVE InputInv
<1>1. MaxPos \in Nat
  BY DEF InputAssumption
<1>2. PadSound
  BY DEF Input!Init, PadSound
<1>3. PlayerSound
  <2>1. inPlayer = [time |-> 0, playing |-> FALSE, volume |-> MaxPos, looping |-> FALSE]
        /\ inSlider = 0 /\ inWindow = "MAIN"
    BY DEF Input!Init
  <2>2. inToggle = FALSE
    BY DEF Input!Init
  <2>3. inPlayer.looping = FALSE
    BY <2>1, Zenon
  <2>4. /\ inPlayer \in [time : Nat, playing : BOOLEAN, volume : 0 .. MaxPos, looping : BOOLEAN]
        /\ inSlider \in 0 .. MaxPos /\ inWindow # "MYMUSIC"
    BY <1>1, <2>1
  <2>. QED  BY <2>2, <2>3, <2>4, Zenon DEF PlayerSound
<1>4. ComboSound
  BY DEF Input!Init, ComboSound
<1>5. ScreenSound
  BY DEF Input!Init, ScreenSound
<1>6. Input!PressModeMeant /\ inCase \in Cases
  BY DEF Input!Init, Input!PressModeMeant
<1>. QED  BY <1>2, <1>3, <1>4, <1>5, <1>6 DEF InputInv

(* The slider, the combo and the toggle button show what they set, and press *)
(* mode is on only where buttons may repeat (GUI_Ctrl_*.c, gamepad.c).       *)
THEOREM ControlsStayRight == Input!Spec => [](Input!ChoicesShown /\ Input!PressModeMeant)
<1>1. Input!Init => InputInv
  BY ConsoleAssumption, InputBegins
<1>2. InputInv /\ [Input!Next]_(Input!inputVars) => InputInv'
  BY ConsoleAssumption, InputSteps
<1>3. InputInv => Input!ChoicesShown /\ Input!PressModeMeant
  BY DEF InputInv, PlayerSound, ComboSound, Input!ChoicesShown
<1>. QED  BY <1>1, <1>2, <1>3, PTL DEF Input!Spec

(* A button that is held does nothing again and one that is pressed is not   *)
(* missed (GUI_Run compares the masks as numbers).                           *)
LEMMA HeedsPresses ==
    ASSUME InputInv, [Input!Next]_(Input!inputVars)
    PROVE  [/\ inPc = "input" /\ inPad.mode = 0 /\ inPad.btns \subseteq inPad.old
                  => UNCHANGED <<inWindow, inFocus, inSlider, inCombo, inToggle, inView>>
            /\ Input!NothingPressed => inPad.btns \subseteq inPad.old
                                       \/ ~(inPad.old \subseteq inPad.btns)]_(Input!inputVars)
<1>. SUFFICES ASSUME Input!Next
     PROVE  /\ inPc = "input" /\ inPad.mode = 0 /\ inPad.btns \subseteq inPad.old
                  => UNCHANGED <<inWindow, inFocus, inSlider, inCombo, inToggle, inView>>
            /\ Input!NothingPressed => inPad.btns \subseteq inPad.old
                                       \/ ~(inPad.old \subseteq inPad.btns)
  BY Zenon
<1>1. inPad.btns \in SUBSET Buttons /\ inPad.old \in SUBSET Buttons
  BY DEF InputInv, PadSound
<1>2. ASSUME inPc = "input", inPad.mode = 0, inPad.btns \subseteq inPad.old
      PROVE  UNCHANGED <<inWindow, inFocus, inSlider, inCombo, inToggle, inView>>
  <2>1. ~Input!Heeds(inPad)
    <3>1. ~(Input!Mask(inPad.btns) > Input!Mask(inPad.old))
      BY <1>1, <1>2, MoreIsGreater
    <3>. QED  BY <1>2, <3>1 DEF Input!Heeds
  <2>2. ~Acting
    BY <2>1, ActingMeans
  <2>3. CASE Input!NothingPressed
    BY <2>3 DEF Input!NothingPressed
  <2>4. CASE Input!RenderTimes \/ Input!Poll
    BY <1>2, <2>4 DEF Input!RenderTimes, Input!Poll
  <2>. QED  BY <2>2, <2>3, <2>4 DEF Input!Next, Acting
<1>3. ASSUME Input!NothingPressed, inPad.old \subseteq inPad.btns PROVE inPad.btns \subseteq inPad.old
  <2>1. ~Input!Heeds(inPad)
    BY <1>3 DEF Input!NothingPressed
  <2>2. CASE inPad.mode = 1
    BY <2>1, <2>2 DEF Input!Heeds
  <2>3. CASE inPad.mode # 1
    <3>1. ~(Input!Mask(inPad.btns) > Input!Mask(inPad.old))
      BY <2>1, <2>3 DEF Input!Heeds
    <3>. QED  BY <1>1, <1>3, <3>1, MoreIsGreater
  <2>. QED  BY <2>2, <2>3
<1>. QED  BY <1>2, <1>3

(* A pass that draws the time draws the time of the player.                 *)
LEMMA DrawsTime ==
    ASSUME InputInv, [Input!Next]_(Input!inputVars)
    PROVE  [Input!RenderTimes /\ inScreen'.playing /\ inPlayer.playing
                => inScreen'.time = inPlayer.time]_(Input!inputVars)
<1>. SUFFICES ASSUME Input!RenderTimes, inScreen'.playing, inPlayer.playing
     PROVE  inScreen'.time = inPlayer.time
  BY Zenon
<1>1. /\ inScreen \in [time : Nat, playing : BOOLEAN, polled : Nat]
      /\ (inScreen.playing => inScreen.time = inScreen.polled)
  BY DEF InputInv, ScreenSound
<1>2. CASE inScreen' = [Input!Rendered(inScreen) EXCEPT !.polled = inPlayer.time]
  BY <1>1, <1>2 DEF Input!Rendered
<1>3. CASE inScreen' = inScreen /\ inScreen.polled = inPlayer.time
  BY <1>1, <1>3
<1>. QED  BY <1>2, <1>3 DEF Input!RenderTimes

(* A button is heeded once when it is pressed, and the time that is drawn is *)
(* the player's (GUI_Run).                                                   *)
THEOREM PressesAreHeeded == Input!Spec => Input!PressesHeeded /\ Input!TimeShown
<1>1. Input!Init => InputInv
  BY ConsoleAssumption, InputBegins
<1>2. InputInv /\ [Input!Next]_(Input!inputVars) => InputInv'
  BY ConsoleAssumption, InputSteps
<1>3. InputInv /\ [Input!Next]_(Input!inputVars) =>
         [/\ inPc = "input" /\ inPad.mode = 0 /\ inPad.btns \subseteq inPad.old
                  => UNCHANGED <<inWindow, inFocus, inSlider, inCombo, inToggle, inView>>
          /\ Input!NothingPressed => inPad.btns \subseteq inPad.old
                                     \/ ~(inPad.old \subseteq inPad.btns)]_(Input!inputVars)
  BY HeedsPresses
<1>4. InputInv /\ [Input!Next]_(Input!inputVars) =>
         [Input!RenderTimes /\ inScreen'.playing /\ inPlayer.playing
                => inScreen'.time = inPlayer.time]_(Input!inputVars)
  BY DrawsTime
<1>. QED  BY <1>1, <1>2, <1>3, <1>4, PTL DEF Input!Spec, Input!PressesHeeded, Input!TimeShown

-------------------------------------------------------------------------------
(* Gamepad.                                                                  *)
PadsIdle == gpState = "STABLE" /\ gpRequest = "none"
Shocked == {"dualshock", "locked"}
Engines == IF Pads[gpPad].actuators = 0 THEN {} ELSE {"engines"}
\* How far the pad is that the program asked, at each of its steps.
AskedPad ==
    /\ gpPad # "none"
    /\ gpPc = "modes" => gpSet = {} /\ gpRequest = "none" /\ gpState \in {"STABLE", "FINDCTP1"}
    /\ gpPc \in {"actuators", "align"} \/ (gpPc = "wait" /\ gpAfter = "align") =>
          Gamepad!DualShock(gpPad) /\ PadsIdle /\ gpSet = Shocked
    /\ gpPc = "align" \/ (gpPc = "wait" /\ gpAfter = "align") => Engines = {"engines"}
    /\ gpPc = "wait" /\ gpAfter = "actuators" =>
          /\ Gamepad!DualShock(gpPad)
          /\ \/ gpState = "EXECCMD" /\ gpRequest = "mode" /\ gpSet = {}
             \/ PadsIdle /\ gpSet = Shocked
    /\ gpPc = "wait" /\ gpAfter = "done" =>
          /\ Gamepad!DualShock(gpPad)
          /\ \/ gpState = "EXECCMD" /\ gpRequest = "engines" /\ gpSet = Shocked /\ Engines = {"engines"}
             \/ PadsIdle /\ gpSet = Shocked \cup Engines
    /\ gpPc = "done" =>
          /\ gpState \in {"STABLE", "FINDCTP1"} /\ gpRequest = "none"
          /\ gpSet = Gamepad!Wanted(gpPad)
PadInv ==
    /\ gpPc \in {"wait", "modes", "actuators", "align", "done", "asleep"}
    /\ gpAfter \in {"modes", "actuators", "align", "done"}
    /\ gpState \in {"DISCONN", "FINDPAD", "FINDCTP1", "STABLE", "EXECCMD"}
    /\ gpPad \in DOMAIN Pads \cup {"none"}
    /\ (gpPad = "none") <=> (gpState = "DISCONN")
    /\ gpState = "EXECCMD" \/ gpRequest = "none"
    /\ gpState = "FINDCTP1" => Pads[gpPad].simple
    /\ gpPc = "wait" /\ gpAfter = "modes" =>
          ~gpKept /\ gpSet = {} /\ gpRequest = "none" /\ gpState # "EXECCMD"
    /\ gpKept => AskedPad /\ gpPc # "asleep"

(* A pad that was not yet asked can be in any state.                        *)
LEMMA PadBegins == Gamepad!Init => PadInv
BY DEF Gamepad!Init, PadInv

\* The library's steps and the user's.
LEMMA PadMoves ==
    ASSUME PadAssumption, PadInv,
           Gamepad!PadFound \/ Gamepad!CarriedOut \/ Gamepad!PullOut \/ Gamepad!PlugIn
    PROVE  PadInv'
<1>1. CASE Gamepad!PadFound
  <2>1. /\ gpState = "FINDPAD" /\ gpPc' = gpPc /\ gpAfter' = gpAfter /\ gpPad' = gpPad
        /\ gpRequest' = gpRequest /\ gpSet' = gpSet /\ gpKept' = gpKept
        /\ gpState' = IF Pads[gpPad].simple THEN "FINDCTP1" ELSE "STABLE"
    BY <1>1 DEF Gamepad!PadFound
  <2>2. ~gpKept
    BY <2>1 DEF PadInv, AskedPad, PadsIdle
  <2>. QED  BY <2>1, <2>2 DEF PadInv
<1>2. CASE Gamepad!CarriedOut
  <2>1. /\ gpState = "EXECCMD" /\ gpState' = "STABLE" /\ gpPc' = gpPc /\ gpAfter' = gpAfter
        /\ gpPad' = gpPad /\ gpRequest' = "none" /\ gpKept' = gpKept
        /\ gpSet' = gpSet \cup IF gpRequest = "mode" THEN Shocked ELSE {"engines"}
    BY <1>2 DEF Gamepad!CarriedOut, Shocked
  <2>2. ASSUME gpKept PROVE AskedPad'
    <3>1. AskedPad /\ gpPc # "asleep" /\ ~(gpPc = "wait" /\ gpAfter = "modes")
      BY <2>2 DEF PadInv
    <3>2. Engines' = Engines
      BY <2>1 DEF Engines
    <3>3. gpPc = "wait" /\ gpAfter \in {"actuators", "done"}
      BY <2>1, <3>1 DEF PadInv, AskedPad, PadsIdle
    <3>4. CASE gpAfter = "actuators"
      BY <2>1, <3>1, <3>3, <3>4 DEF AskedPad, PadsIdle, Shocked
    <3>5. CASE gpAfter = "done"
      BY <2>1, <3>1, <3>2, <3>3, <3>5 DEF AskedPad, PadsIdle, Shocked
    <3>. QED  BY <3>3, <3>4, <3>5
  <2>. QED  BY <2>1, <2>2 DEF PadInv
<1>3. CASE Gamepad!PullOut
  <2>1. /\ gpPc' = gpPc /\ gpAfter' = gpAfter /\ gpPad' = "none" /\ gpState' = "DISCONN"
        /\ gpRequest' = "none" /\ gpSet' = {} /\ gpKept' = FALSE
    BY <1>3 DEF Gamepad!PullOut
  <2>2. ~gpKept'
    BY <1>3, Zenon DEF Gamepad!PullOut
  <2>. QED  BY <2>1, <2>2 DEF PadInv
<1>4. CASE Gamepad!PlugIn
  <2>1. /\ gpPad = "none" /\ gpPc' = gpPc /\ gpAfter' = gpAfter /\ gpPad' \in DOMAIN Pads
        /\ gpState' = "FINDPAD" /\ gpRequest' = gpRequest /\ gpSet' = gpSet /\ gpKept' = gpKept
    BY <1>4 DEF Gamepad!PlugIn
  <2>2. ~gpKept /\ gpRequest = "none"
    BY <2>1 DEF PadInv, AskedPad
  <2>3. gpPad' # "none"
    BY <2>1 DEF PadAssumption
  <2>. QED  BY <2>1, <2>2, <2>3 DEF PadInv
<1>. QED  BY <1>1, <1>2, <1>3, <1>4

\* The program's steps.
LEMMA PadAsked ==
    ASSUME PadAssumption, PadInv,
           Gamepad!Waited \/ Gamepad!AskModes \/ Gamepad!AskActuators \/ Gamepad!SetActAlign
    PROVE  PadInv'
<1>1. CASE Gamepad!Waited
  <2>1. /\ gpPc = "wait" /\ gpPc' = gpAfter /\ gpAfter' = gpAfter /\ gpPad' = gpPad
        /\ gpState' = gpState /\ gpRequest' = gpRequest /\ gpSet' = gpSet
        /\ gpState \in {"STABLE", "FINDCTP1"}
    BY <1>1 DEF Gamepad!Waited, Gamepad!WaitPadReady, Gamepad!Ready
  <2>2. gpKept' <=> gpKept \/ gpAfter = "modes"
    BY <1>1, Zenon DEF Gamepad!Waited
  <2>3. gpPc' \in {"modes", "actuators", "align", "done"} /\ gpPad # "none"
    BY <2>1 DEF PadInv
  <2>4. ASSUME gpKept' PROVE AskedPad'
    <3>1. CASE gpAfter = "modes"
      BY <2>1, <2>3, <3>1 DEF PadInv, AskedPad
    <3>2. CASE gpAfter # "modes"
      <4>1. AskedPad /\ gpAfter \in {"actuators", "align", "done"}
        BY <2>2, <2>4, <3>2 DEF PadInv
      <4>2. Engines' = Engines /\ Gamepad!Wanted(gpPad)' = Gamepad!Wanted(gpPad)
            /\ Gamepad!DualShock(gpPad)' = Gamepad!DualShock(gpPad)
        BY <2>1 DEF Engines, Gamepad!Wanted, Gamepad!DualShock
      <4>3. CASE gpAfter = "actuators"
        <5>1. Gamepad!DualShock(gpPad) /\ PadsIdle /\ gpSet = Shocked
          BY <2>1, <4>1, <4>3 DEF AskedPad
        <5>. QED  BY <2>1, <2>3, <4>2, <4>3, <5>1 DEF AskedPad, PadsIdle
      <4>4. CASE gpAfter = "align"
        <5>1. Gamepad!DualShock(gpPad) /\ PadsIdle /\ gpSet = Shocked /\ Engines = {"engines"}
          BY <2>1, <4>1, <4>4 DEF AskedPad
        <5>. QED  BY <2>1, <2>3, <4>2, <4>4, <5>1 DEF AskedPad, PadsIdle
      <4>5. CASE gpAfter = "done"
        <5>1. Gamepad!DualShock(gpPad) /\ PadsIdle /\ gpSet = Shocked \cup Engines
          BY <2>1, <4>1, <4>5 DEF AskedPad
        <5>2. Gamepad!Wanted(gpPad) = Shocked \cup Engines
          BY <5>1 DEF Gamepad!Wanted, Shocked, Engines
        <5>. QED  BY <2>1, <2>3, <4>2, <4>5, <5>1, <5>2 DEF AskedPad, PadsIdle
      <4>. QED  BY <4>1, <4>3, <4>4, <4>5
    <3>. QED  BY <3>1, <3>2
  <2>. QED  BY <2>1, <2>2, <2>3, <2>4 DEF PadInv
<1>2. CASE Gamepad!AskModes
  <2>1. gpPc = "modes" /\ gpPad' = gpPad /\ gpSet' = gpSet /\ gpKept' = gpKept
    BY <1>2 DEF Gamepad!AskModes
  <2>2. CASE Gamepad!DualShock(gpPad)
    <3>1. /\ gpPc' = "wait" /\ gpAfter' = "actuators"
          /\ \/ gpState = "STABLE" /\ gpState' = "EXECCMD" /\ gpRequest' = "mode"
             \/ gpState # "STABLE" /\ gpState' = gpState /\ gpRequest' = gpRequest
      BY <1>2, <2>2 DEF Gamepad!AskModes, Gamepad!Request, Gamepad!WaitThen
    <3>2. ASSUME gpKept PROVE AskedPad'
      <4>1. gpPad # "none" /\ gpSet = {} /\ gpState \in {"STABLE", "FINDCTP1"}
        BY <2>1, <3>2 DEF PadInv, AskedPad
      <4>2. gpState = "STABLE"
        BY <2>2, <4>1 DEF PadInv, PadAssumption
      <4>3. Gamepad!DualShock(gpPad)'
        BY <2>1, <2>2 DEF Gamepad!DualShock
      <4>. QED  BY <2>1, <3>1, <4>1, <4>2, <4>3 DEF AskedPad
    <3>. QED  BY <2>1, <3>1, <3>2 DEF PadInv
  <2>3. CASE ~Gamepad!DualShock(gpPad)
    <3>1. gpPc' = "done" /\ gpAfter' = gpAfter /\ gpState' = gpState /\ gpRequest' = gpRequest
      BY <1>2, <2>3 DEF Gamepad!AskModes
    <3>2. ASSUME gpKept PROVE AskedPad'
      <4>1. /\ gpPad # "none" /\ gpSet = {} /\ gpState \in {"STABLE", "FINDCTP1"}
            /\ gpRequest = "none"
        BY <2>1, <3>2 DEF PadInv, AskedPad
      <4>2. Gamepad!Wanted(gpPad)' = {}
        BY <2>1, <2>3 DEF Gamepad!Wanted, Gamepad!DualShock
      <4>. QED  BY <2>1, <3>1, <4>1, <4>2 DEF AskedPad
    <3>. QED  BY <2>1, <3>1, <3>2 DEF PadInv
  <2>. QED  BY <2>2, <2>3
<1>3. CASE Gamepad!AskActuators
  <2>1. /\ gpPc = "actuators" /\ gpPc' = "wait" /\ gpPad' = gpPad /\ gpState' = gpState
        /\ gpRequest' = gpRequest /\ gpSet' = gpSet /\ gpKept' = gpKept
        /\ gpAfter' = IF Gamepad!Actuators # 0 THEN "align" ELSE "done"
    BY <1>3 DEF Gamepad!AskActuators, Gamepad!WaitThen
  <2>2. ASSUME gpKept PROVE AskedPad'
    <3>1. gpPad # "none" /\ Gamepad!DualShock(gpPad) /\ PadsIdle /\ gpSet = Shocked
      BY <2>1, <2>2 DEF PadInv, AskedPad
    <3>2. Gamepad!Actuators = Pads[gpPad].actuators
      BY <3>1 DEF Gamepad!Actuators, Shocked
    <3>3. Gamepad!DualShock(gpPad)' /\ Engines' = Engines
      BY <2>1, <3>1 DEF Gamepad!DualShock, Engines
    <3>4. CASE Gamepad!Actuators # 0
      <4>1. Engines = {"engines"}
        BY <3>2, <3>4 DEF Engines
      <4>. QED  BY <2>1, <3>1, <3>3, <3>4, <4>1 DEF AskedPad, PadsIdle
    <3>5. CASE Gamepad!Actuators = 0
      <4>1. Engines = {}
        BY <3>2, <3>5 DEF Engines
      <4>. QED  BY <2>1, <3>1, <3>3, <3>5, <4>1 DEF AskedPad, PadsIdle
    <3>. QED  BY <3>4, <3>5
  <2>3. gpAfter' \in {"align", "done"}
    BY <2>1
  <2>. QED  BY <2>1, <2>2, <2>3 DEF PadInv
<1>4. CASE Gamepad!SetActAlign
  <2>1. /\ gpPc = "align" /\ gpPc' = "wait" /\ gpAfter' = "done" /\ gpPad' = gpPad
        /\ gpSet' = gpSet /\ gpKept' = gpKept
        /\ \/ gpState = "STABLE" /\ gpState' = "EXECCMD" /\ gpRequest' = "engines"
           \/ gpState # "STABLE" /\ gpState' = gpState /\ gpRequest' = gpRequest
    BY <1>4 DEF Gamepad!SetActAlign, Gamepad!Request, Gamepad!WaitThen
  <2>2. ASSUME gpKept PROVE AskedPad'
    <3>1. /\ gpPad # "none" /\ Gamepad!DualShock(gpPad) /\ PadsIdle /\ gpSet = Shocked
          /\ Engines = {"engines"}
      BY <2>1, <2>2 DEF PadInv, AskedPad
    <3>2. Gamepad!DualShock(gpPad)' /\ Engines' = Engines
      BY <2>1, <3>1 DEF Gamepad!DualShock, Engines
    <3>. QED  BY <2>1, <3>1, <3>2 DEF AskedPad, PadsIdle
  <2>. QED  BY <2>1, <2>2 DEF PadInv
<1>. QED  BY <1>1, <1>2, <1>3, <1>4

(* When the program goes on, the pad it asked is set up (GP_Init).           *)
THEOREM PadIsSetUp == Gamepad!Spec => []Gamepad!PadSetUp
<1>1. Gamepad!Init => PadInv
  BY PadBegins
<1>2. PadInv /\ [Gamepad!Next]_(Gamepad!padVars) => PadInv'
  <2>. SUFFICES ASSUME PadInv, [Gamepad!Next]_(Gamepad!padVars) PROVE PadInv'
    OBVIOUS
  <2>1. CASE UNCHANGED Gamepad!padVars
    <3>1. /\ gpPc' = gpPc /\ gpAfter' = gpAfter /\ gpPad' = gpPad /\ gpState' = gpState
          /\ gpRequest' = gpRequest /\ gpSet' = gpSet /\ gpKept' = gpKept
      BY <2>1 DEF Gamepad!padVars
    <3>. QED  BY <3>1, Zenon DEF PadInv, AskedPad, PadsIdle, Engines
  <2>2. CASE Gamepad!Next
    BY <2>2, ConsoleAssumption, PadMoves, PadAsked DEF Gamepad!Next
  <2>. QED  BY <2>1, <2>2
<1>3. PadInv => Gamepad!PadSetUp
  BY DEF PadInv, AskedPad, Gamepad!PadSetUp
<1>. QED  BY <1>1, <1>2, <1>3, PTL DEF Gamepad!Spec

-------------------------------------------------------------------------------
(* The three side by side, as the program runs them: what the windows, the   *)
(* controls and the gamepad show is right (GUI.c, GUI_Ctrl_*.c, gamepad.c).  *)
THEOREM InterfaceStaysRight == Menus!Spec /\ Input!Spec /\ Gamepad!Spec => []WindowsRight
<1>1. Menus!WindowsRight /\ (Input!ChoicesShown /\ Input!PressModeMeant) /\ Gamepad!PadSetUp => WindowsRight
  BY Zenon DEF WindowsRight
<1>. QED  BY <1>1, WindowsStayRight, ControlsStayRight, PadIsSetUp, PTL

(* What is pressed is heeded once: by the keyboard, which edits as a text    *)
(* field does, and by the controls (GUI_M_DlgKeyboard.c, GUI.c).             *)
THEOREM KeysStayHeeded == Keyboard!Spec /\ Input!Spec => KeysHeeded
BY KeyboardIsATextField, PressesAreHeeded, PTL DEF KeysHeeded
===============================================================================

--------------------------- MODULE ServicesProofs ---------------------------
(***************************************************************************)
(* Proofs about components of MCServices, for all values of the constants  *)
(* that keep ServicesAssumption: the command lines and files of the FTP    *)
(* server, the stations, and the socket calls.                             *)
(***************************************************************************)
EXTENDS MCServices, WellFoundedInduction, SequenceTheorems, FiniteSetTheorems, TLAPS

-------------------------------------------------------------------------------
(* FtpLine: command lines                                                      *)

Letters == Nat \ {0}
LineEnd == <<Line!CR, Line!LF>>

LineBytes == Letters \cup {Line!CR, Line!LF}

\* Without pipelining there is at most one command that has not been executed, of
\* which a part has been received.
LineInv ==
    /\ lnSent \in Seq(Seq(Letters)) /\ lnPipelined \in BOOLEAN
    /\ ~lnPipelined =>
        /\ lnExecuted \in Seq(Seq(LineBytes))
        /\ \A i \in 1 .. Len(lnExecuted) : lnExecuted[i] \in {lnSent[i], Append(lnSent[i], Line!CR)}
        /\ \/ lnWire = <<>> /\ lnCommand = <<>> /\ Len(lnSent) = Len(lnExecuted)
           \/ /\ Len(lnSent) = Len(lnExecuted) + 1
              /\ \E k \in 0 .. Len(lnSent[Len(lnSent)]) + 1 :
                    LET t == lnSent[Len(lnSent)] \o LineEnd IN
                    lnCommand = SubSeq(t, 1, k) /\ lnWire = SubSeq(t, k + 1, Len(t))

LEMMA MinOfOne == ASSUME NEW x \in Int PROVE Line!Min({x}) = x
BY DEF Line!Min

\* A part of a sequence, of which its bounds say that it is one.
LEMMA PieceOf ==
    ASSUME NEW S, NEW s \in Seq(S), NEW m \in 1 .. Len(s) + 1, NEW n \in m - 1 .. Len(s)
    PROVE  /\ SubSeq(s, m, n) \in Seq(S) /\ Len(SubSeq(s, m, n)) = n - m + 1
           /\ \A i \in 1 .. n - m + 1 : SubSeq(s, m, n)[i] = s[m + i - 1]
<1>1. Len(s) \in Nat /\ m \in Int /\ n \in Int
  BY LenProperties
<1>2. \A i \in m .. n : s[i] \in S
  BY <1>1, ElementOfSeq
<1>3. /\ SubSeq(s, m, n) \in Seq(S)
      /\ Len(SubSeq(s, m, n)) = IF m <= n THEN n - m + 1 ELSE 0
      /\ \A i \in 1 .. n - m + 1 : SubSeq(s, m, n)[i] = s[m + i - 1]
  BY <1>1, <1>2, SubSeqProperties
<1>4. (IF m <= n THEN n - m + 1 ELSE 0) = n - m + 1
  BY <1>1
<1>. QED  BY <1>3, <1>4

LEMMA LineMade ==
    ASSUME NEW s \in Seq(Letters)
    PROVE  LET t == s \o LineEnd
               L == Len(s)
           IN /\ t \in Seq(LineBytes) /\ Len(t) = L + 2
              /\ \A i \in 1 .. L : t[i] = s[i]
              /\ t[L + 1] = Line!CR /\ t[L + 2] = Line!LF
<1>. DEFINE L == Len(s)
            t == s \o LineEnd
<1>1. L \in Nat
  BY LenProperties
<1>2. LineEnd \in Seq(LineBytes) /\ Len(LineEnd) = 2 /\ LineEnd[1] = Line!CR /\ LineEnd[2] = Line!LF
  BY DEF LineEnd, LineBytes
<1>3. s \in Seq(LineBytes)
  BY SeqMonotonic DEF LineBytes
<1>4. /\ t \in Seq(LineBytes) /\ Len(t) = L + Len(LineEnd)
      /\ \A i \in 1 .. L + Len(LineEnd) : t[i] = IF i <= L THEN s[i] ELSE LineEnd[i - L]
  BY <1>2, <1>3, ConcatProperties
<1>. HIDE DEF t, L
<1>5. /\ t \in Seq(LineBytes) /\ Len(t) = L + 2
      /\ \A i \in 1 .. L : t[i] = s[i]
      /\ t[L + 1] = Line!CR /\ t[L + 2] = Line!LF
  <2>1. \A i \in 1 .. L + 2 : t[i] = IF i <= L THEN s[i] ELSE LineEnd[i - L]
    BY <1>2, <1>4
  <2>2. \A i \in 1 .. L : i \in 1 .. L + 2 /\ i <= L
    BY <1>1
  <2>3. /\ L + 1 \in 1 .. L + 2 /\ ~(L + 1 <= L) /\ (L + 1) - L = 1
        /\ L + 2 \in 1 .. L + 2 /\ ~(L + 2 <= L) /\ (L + 2) - L = 2
    BY <1>1
  <2>4. t[L + 1] = LineEnd[1] /\ t[L + 2] = LineEnd[2]
    BY <2>1, <2>3
  <2>. QED  BY <1>2, <1>4, <2>1, <2>2, <2>4
<1>. QED  BY <1>5 DEF t, L

\* What is taken out of a line that is complete.
LEMMA LineTaken ==
    ASSUME NEW s \in Seq(Letters), NEW k \in 0 .. Len(s) + 1
    PROVE  LET t == s \o LineEnd
               rofs == Line!First(Line!Found(t, Line!CR, k))
               nofs == Line!First(Line!Found(t, Line!LF, k))
               cmdlen == IF rofs # -1 THEN rofs ELSE nofs
               ended == [t EXCEPT ![cmdlen + 1] = Line!Zero]
           IN /\ nofs # -1
              /\ Line!CString(ended) \in {s, Append(s, Line!CR)}
              /\ Line!Rest(ended, nofs) = <<>>
<1>. DEFINE L == Len(s)
            t == s \o LineEnd
            rofs == Line!First(Line!Found(t, Line!CR, k))
            nofs == Line!First(Line!Found(t, Line!LF, k))
            cmdlen == IF rofs # -1 THEN rofs ELSE nofs
            ended == [t EXCEPT ![cmdlen + 1] = Line!Zero]
<1>1. L \in Nat /\ \A i \in 1 .. L : s[i] \in Letters
  BY LenProperties
<1>2. /\ t \in Seq(LineBytes) /\ Len(t) = L + 2
      /\ \A i \in 1 .. L : t[i] = s[i]
      /\ t[L + 1] = Line!CR /\ t[L + 2] = Line!LF
  BY LineMade
<1>3. Line!CR = -1 /\ Line!LF = -2 /\ Line!Zero = 0 /\ \A x \in Letters : x > 0 /\ x \in Nat
  BY DEF Line!CR, Line!LF, Line!Zero, Letters
<1>. HIDE DEF t, L
<1>4. k \in 0 .. L + 1
  BY DEF L
<1>. DEFINE F(b, o) == {i \in o .. (L + 1) : t[i + 1] = b}
<1>5. F(Line!LF, k) = {L + 1}
  <2>1. \A i \in 0 .. L : t[i + 1] # Line!LF
    <3>1. ASSUME NEW i \in 0 .. L PROVE i + 1 \in 1 .. L \/ i + 1 = L + 1
      BY <1>1
    <3>2. \A j \in 1 .. L : t[j] # Line!LF
      BY <1>1, <1>2, <1>3
    <3>3. t[L + 1] # Line!LF
      BY <1>2, <1>3
    <3>. QED  BY <3>1, <3>2, <3>3
  <2>. QED  BY <1>1, <1>2, <1>4, <2>1
<1>6. F(Line!CR, k) = IF k <= L THEN {L} ELSE {}
  <2>1. \A i \in 0 .. L - 1 : t[i + 1] # Line!CR
    BY <1>1, <1>2, <1>3
  <2>2. t[L + 1 + 1] # Line!CR /\ t[L + 1] = Line!CR
    BY <1>1, <1>2, <1>3
  <2>3. \A i \in k .. L + 1 : t[i + 1] = Line!CR <=> i = L
    BY <1>1, <1>4, <2>1, <2>2
  <2>. QED  BY <1>1, <1>4, <2>3
<1>. HIDE DEF F
<1>7. nofs = L + 1
  <2>1. Line!Found(t, Line!LF, k) = F(Line!LF, k)
    BY <1>1, <1>2 DEF Line!Found, F
  <2>. QED  BY <1>1, <1>5, <2>1, MinOfOne DEF Line!First
<1>8. rofs = IF k <= L THEN L ELSE -1
  <2>1. Line!Found(t, Line!CR, k) = F(Line!CR, k)
    BY <1>1, <1>2 DEF Line!Found, F
  <2>. QED  BY <1>1, <1>6, <2>1, MinOfOne DEF Line!First
<1>. HIDE DEF nofs, rofs
<1>9. cmdlen = IF k <= L THEN L ELSE L + 1
  BY <1>1, <1>4, <1>7, <1>8
<1>. HIDE DEF cmdlen
<1>10. /\ ended \in Seq(Int) /\ Len(ended) = L + 2
       /\ \A i \in 1 .. L + 2 : ended[i] = IF i = cmdlen + 1 THEN 0 ELSE t[i]
  <2>1. t \in Seq(Int)
    BY <1>2, <1>3, SeqMonotonic DEF LineBytes
  <2>. QED  BY <1>1, <1>2, <1>3, <1>4, <1>9, <2>1, ExceptSeq
<1>. HIDE DEF ended
<1>11. {i \in 0 .. L + 1 : ended[i + 1] = 0} = {cmdlen}
  <2>1. \A i \in 0 .. L + 1 : ended[i + 1] = 0 <=> i = cmdlen
    <3>1. \A j \in 1 .. L + 2 : t[j] # 0
      <4>1. \A j \in 1 .. L : t[j] # 0
        BY <1>1, <1>2, <1>3
      <4>2. t[L + 1] # 0 /\ t[L + 2] # 0
        BY <1>2, <1>3
      <4>3. \A j \in 1 .. L + 2 : j \in 1 .. L \/ j = L + 1 \/ j = L + 2
        BY <1>1
      <4>. QED  BY <4>1, <4>2, <4>3
    <3>2. ASSUME NEW i \in 0 .. L + 1 PROVE i + 1 \in 1 .. L + 2 /\ (i + 1 = cmdlen + 1 <=> i = cmdlen)
      BY <1>1, <1>4, <1>9
    <3>. QED  BY <1>10, <3>1, <3>2
  <2>2. cmdlen \in 0 .. L + 1
    BY <1>1, <1>4, <1>9
  <2>. QED  BY <2>1, <2>2
<1>12. Line!CString(ended) = SubSeq(ended, 1, cmdlen)
  <2>1. Line!Contains(ended, Line!Zero)
    BY <1>1, <1>3, <1>4, <1>9, <1>10 DEF Line!Contains
  <2>2. Line!Found(ended, Line!Zero, 0) = {cmdlen}
    BY <1>1, <1>3, <1>10, <1>11 DEF Line!Found
  <2>. QED  BY <1>1, <1>9, <2>1, <2>2, MinOfOne DEF Line!CString
<1>13. SubSeq(ended, 1, cmdlen) \in {s, Append(s, Line!CR)}
  <2>1. SubSeq(ended, 1, cmdlen) \in Seq(Int) /\ Len(SubSeq(ended, 1, cmdlen)) = cmdlen
        /\ \A i \in 1 .. cmdlen : SubSeq(ended, 1, cmdlen)[i] = t[i]
    <3>1. \A i \in 1 .. cmdlen : ended[i] = t[i] /\ t[i] \in Int
      BY <1>1, <1>2, <1>3, <1>4, <1>9, <1>10
    <3>2. cmdlen \in Nat
      BY <1>1, <1>4, <1>9
    <3>. QED  BY <3>1, <3>2, SubSeqProperties
  <2>2. s \in Seq(Int) /\ Len(s) = L
    BY <1>3, SeqMonotonic DEF L
  <2>3. Append(s, Line!CR) \in Seq(Int) /\ Len(Append(s, Line!CR)) = L + 1
        /\ \A i \in 1 .. L + 1 : Append(s, Line!CR)[i] = IF i <= L THEN s[i] ELSE Line!CR
    BY <1>1, <1>3, <2>2, AppendProperties
  <2>. DEFINE u == SubSeq(ended, 1, cmdlen)
              v == Append(s, Line!CR)
  <2>. HIDE DEF u, v
  <2>4. CASE k <= L
    <3>1. cmdlen = L /\ \A i \in 1 .. L : u[i] = s[i]
      BY <1>1, <1>2, <1>9, <2>1, <2>4 DEF u
    <3>2. u \in Seq(Int) /\ Len(u) = Len(s) /\ \A i \in 1 .. Len(u) : u[i] = s[i]
      BY <2>1, <2>2, <3>1 DEF u
    <3>. QED  BY <2>2, <3>2, SeqEqual DEF u
  <2>5. CASE ~(k <= L)
    <3>1. cmdlen = L + 1 /\ \A i \in 1 .. L + 1 : u[i] = v[i]
      <4>1. cmdlen = L + 1 /\ \A i \in 1 .. L + 1 : u[i] = t[i]
        BY <1>9, <2>1, <2>5 DEF u
      <4>2. \A i \in 1 .. L : t[i] = v[i]
        BY <1>1, <1>2, <2>3 DEF v
      <4>3. t[L + 1] = v[L + 1]
        BY <1>1, <1>2, <2>3 DEF v
      <4>4. \A i \in 1 .. L + 1 : i \in 1 .. L \/ i = L + 1
        BY <1>1
      <4>. QED  BY <4>1, <4>2, <4>3, <4>4
    <3>2. /\ u \in Seq(Int) /\ v \in Seq(Int) /\ Len(u) = Len(v)
          /\ \A i \in 1 .. Len(u) : u[i] = v[i]
      BY <2>1, <2>3, <3>1 DEF u, v
    <3>3. u = v
      BY <3>2, SeqEqual
    <3>. QED  BY <3>3 DEF u, v
  <2>. QED  BY <2>4, <2>5
<1>14. Line!Rest(ended, nofs) = <<>>
  <2>1. nofs + 2 \in Int /\ Len(ended) \in Int /\ Len(ended) < nofs + 2
    BY <1>1, <1>7, <1>10
  <2>2. SubSeq(ended, nofs + 2, Len(ended)) = <<>>
    BY <2>1, SubSeqEmpty
  <2>. QED  BY <2>2 DEF Line!Rest
<1>15. nofs # -1
  BY <1>1, <1>7
<1>. QED  BY <1>12, <1>13, <1>14, <1>15 DEF t, rofs, nofs, cmdlen, ended

\* Receiving goes on in the line, or takes it out.
LEMMA LineReceived ==
    ASSUME NEW s \in Seq(Letters), NEW k \in 0 .. Len(s) + 1, NEW n \in 1 .. Len(s) + 2 - k
    PROVE  LET t == s \o LineEnd
               wire == SubSeq(t, k + 1, Len(t))
               buf == SubSeq(t, 1, k) \o SubSeq(wire, 1, n)
               nofs == Line!First(Line!Found(buf, Line!LF, k))
           IN /\ Len(SubSeq(t, 1, k)) = k
              /\ SubSeq(wire, n + 1, Len(wire)) = SubSeq(t, k + n + 1, Len(t))
              /\ buf = SubSeq(t, 1, k + n)
              /\ k + n = Len(s) + 2 => buf = t
              /\ k + n # Len(s) + 2 => nofs = -1
<1>. DEFINE t == s \o LineEnd
            L == Len(s)
            wire == SubSeq(t, k + 1, Len(t))
            buf == SubSeq(t, 1, k) \o SubSeq(wire, 1, n)
            nofs == Line!First(Line!Found(buf, Line!LF, k))
<1>1. /\ t \in Seq(LineBytes) /\ Len(t) = L + 2
      /\ \A i \in 1 .. L : t[i] = s[i]
      /\ t[L + 1] = Line!CR /\ t[L + 2] = Line!LF
  BY LineMade
<1>2. L \in Nat /\ k \in 0 .. L + 1 /\ n \in 1 .. L + 2 - k /\ \A i \in 1 .. L : s[i] \in Letters
  BY LenProperties
<1>3. \A i \in 1 .. L + 1 : t[i] # Line!LF
  <2>. HIDE DEF t, L
  <2>1. ASSUME NEW i \in 1 .. L PROVE t[i] # Line!LF
    BY <1>1, <1>2 DEF Line!LF, Letters
  <2>2. t[L + 1] # Line!LF
    BY <1>1 DEF Line!LF, Line!CR
  <2>. QED  BY <1>2, <2>1, <2>2
<1>. HIDE DEF t, L
<1>4. \A i \in 1 .. L + 2 : t[i] \in LineBytes
  BY <1>1, ElementOfSeq
<1>5. Len(SubSeq(t, 1, k)) = k /\ \A i \in 1 .. k : t[i] \in LineBytes
  <2>1. \A i \in 1 .. k : t[i] \in LineBytes
    BY <1>2, <1>4
  <2>. QED  BY <1>2, <2>1, SubSeqProperties
<1>6. Len(wire) = L + 2 - k
  <2>1. k + 1 \in 1 .. Len(t) + 1 /\ Len(t) \in (k + 1) - 1 .. Len(t)
    BY <1>1, <1>2
  <2>2. Len(wire) = Len(t) - (k + 1) + 1
    BY <1>1, <2>1, PieceOf
  <2>. QED  BY <1>1, <1>2, <2>2
<1>0. \A i, j \in 1 .. Len(t) : \A a, b \in 1 .. j - i + 1 :
         SubSeq(SubSeq(t, i, j), a, b) = SubSeq(t, i + a - 1, i + b - 1)
  BY <1>1, SubSeqOfSubSeq
<1>7. SubSeq(wire, 1, n) = SubSeq(t, k + 1, k + n)
  <2>1. /\ k + 1 \in 1 .. Len(t) /\ Len(t) \in 1 .. Len(t)
        /\ 1 \in 1 .. Len(t) - (k + 1) + 1 /\ n \in 1 .. Len(t) - (k + 1) + 1
        /\ (k + 1) + 1 - 1 = k + 1 /\ (k + 1) + n - 1 = k + n
    BY <1>1, <1>2
  <2>. QED  BY <1>0, <2>1
<1>8. buf = SubSeq(t, 1, k + n)
  <2>1. /\ 1 \in 1 .. Len(t) + 1 /\ k \in 1 - 1 .. Len(t) /\ k + n \in k .. Len(t)
    BY <1>1, <1>2
  <2>. QED  BY <1>1, <1>7, <2>1, ConcatAdjacentSubSeq
<1>9. SubSeq(wire, n + 1, Len(wire)) = SubSeq(t, k + n + 1, Len(t))
  <2>1. CASE n = L + 2 - k
    BY <1>1, <1>2, <1>6, <2>1, SubSeqEmpty
  <2>2. CASE n # L + 2 - k
    <3>1. /\ k + 1 \in 1 .. Len(t) /\ Len(t) \in 1 .. Len(t)
          /\ n + 1 \in 1 .. Len(t) - (k + 1) + 1 /\ Len(wire) \in 1 .. Len(t) - (k + 1) + 1
          /\ (k + 1) + (n + 1) - 1 = k + n + 1 /\ (k + 1) + Len(wire) - 1 = Len(t)
      BY <1>1, <1>2, <1>6, <2>2
    <3>. HIDE DEF wire
    <3>2. SubSeq(SubSeq(t, k + 1, Len(t)), n + 1, Len(wire)) = SubSeq(t, k + n + 1, Len(t))
      BY <1>0, <3>1
    <3>. QED  BY <3>2 DEF wire
  <2>. QED  BY <2>1, <2>2
<1>10. k + n = L + 2 => buf = t
  BY <1>1, <1>8, SubSeqFull
<1>11. ASSUME k + n # L + 2 PROVE nofs = -1
  <2>1. Len(buf) = k + n /\ \A i \in 1 .. k + n : buf[i] = t[i]
    <3>1. 1 \in 1 .. Len(t) + 1 /\ k + n \in 1 - 1 .. Len(t)
      BY <1>1, <1>2
    <3>. HIDE DEF buf
    <3>2. /\ Len(SubSeq(t, 1, k + n)) = k + n - 1 + 1
          /\ \A i \in 1 .. k + n - 1 + 1 : SubSeq(t, 1, k + n)[i] = t[1 + i - 1]
      BY <1>1, <3>1, PieceOf
    <3>. QED  BY <1>2, <1>8, <3>2
  <2>. HIDE DEF buf
  <2>2. Line!Found(buf, Line!LF, k) = {}
    <3>1. Len(buf) - 1 = k + n - 1 /\ k + n <= L + 1
      BY <1>2, <1>11, <2>1
    <3>2. ASSUME NEW i \in k .. k + n - 1 PROVE buf[i + 1] # Line!LF
      <4>1. i + 1 \in 1 .. k + n /\ i + 1 \in 1 .. L + 1
        BY <1>2, <3>1
      <4>. QED  BY <1>3, <2>1, <4>1
    <3>. QED  BY <3>1, <3>2 DEF Line!Found
  <2>. QED  BY <2>2 DEF Line!First
<1>. QED  BY <1>5, <1>8, <1>9, <1>10, <1>11 DEF t, L

LEMMA MinOfTwo ==
    ASSUME NEW a \in Int, NEW b \in Int
    PROVE  Line!Min({a, b}) \in Int /\ Line!Min({a, b}) <= a
<1>1. \E x \in {a, b} : \A y \in {a, b} : x <= y
  OBVIOUS
<1>2. Line!Min({a, b}) \in {a, b} /\ \A y \in {a, b} : Line!Min({a, b}) <= y
  BY <1>1 DEF Line!Min
<1>. QED  BY <1>2

\* A command that is sent is a line.
LEMMA CommandSpelt ==
    ASSUME NEW k \in Nat, NEW n \in Nat PROVE Line!Command(k + 1, n) \in Seq(Letters)
<1>1. \A i \in 1 .. n : 10 * (k + 1) + i \in Letters
  BY DEF Letters
<1>. QED  BY <1>1 DEF Line!Command

LEMMA LineSends ==
    ASSUME LineAssumption, LineInv, NEW n \in LineLengths, Line!Send(n) PROVE LineInv'
<1>. DEFINE c == Line!Command(Len(lnSent) + 1, n)
            L == Len(lnSent)
<1>1. L \in Nat /\ n \in Nat
  BY LenProperties DEF LineAssumption, LineInv
<1>2. c \in Seq(Letters)
  BY <1>1, CommandSpelt
<1>3. /\ lnSent' = Append(lnSent, c) /\ lnSent' \in Seq(Seq(Letters)) /\ Len(lnSent') = L + 1
      /\ \A i \in 1 .. L : lnSent'[i] = lnSent[i]
      /\ lnSent'[L + 1] = c
  <2>1. lnSent' = Append(lnSent, c)
    BY DEF Line!Send
  <2>. HIDE DEF c
  <2>. QED  BY <1>2, <2>1, AppendProperties DEF LineInv
<1>4. lnPipelined' \in BOOLEAN
  BY DEF Line!Send, LineInv
<1>5. ASSUME ~lnPipelined' PROVE LineInv'
  <2>1. ~lnPipelined /\ ~(Len(lnExecuted) < Len(lnSent)) /\ lnExecuted' = lnExecuted /\ lnCommand' = lnCommand
    BY <1>5 DEF Line!Send
  <2>2. lnExecuted \in Seq(Seq(LineBytes)) /\ Len(lnExecuted) \in Nat
    BY <2>1, LenProperties DEF LineInv
  <2>3. lnWire = <<>> /\ lnCommand = <<>> /\ Len(lnExecuted) = L
    BY <1>1, <2>1, <2>2 DEF LineInv
  <2>4. lnWire' = c \o LineEnd
    <3>1. lnWire' = (<<>> \o c) \o LineEnd
      BY <2>3 DEF Line!Send, LineEnd
    <3>2. <<>> \o c = c
      BY <1>2, ConcatEmptySeq
    <3>. QED  BY <3>1, <3>2
  <2>. DEFINE t == c \o LineEnd
  <2>5. t \in Seq(LineBytes) /\ Len(c) \in Nat /\ lnWire' = t
    BY <1>2, <2>4, LineMade, LenProperties
  <2>6. 0 \in 0 .. Len(c) + 1 /\ lnCommand' = SubSeq(t, 1, 0) /\ lnWire' = SubSeq(t, 0 + 1, Len(t))
    <3>. HIDE DEF t, c
    <3>. QED  BY <2>1, <2>3, <2>5, SubSeqEmpty, SubSeqFull
  <2>7. \A i \in 1 .. Len(lnExecuted) : lnExecuted[i] \in {lnSent'[i], Append(lnSent'[i], Line!CR)}
    BY <1>1, <1>3, <2>1, <2>3 DEF LineInv
  <2>. HIDE DEF c
  <2>. QED  BY <1>1, <1>3, <1>4, <2>1, <2>2, <2>3, <2>6, <2>7 DEF LineInv
<1>. QED  BY <1>3, <1>4, <1>5 DEF LineInv

\* A line of which nothing is on its way any more has been executed.
LEMMA LineOnItsWay ==
    ASSUME LineInv, ~lnPipelined, lnWire = <<>>
    PROVE  lnCommand = <<>> /\ Len(lnSent) = Len(lnExecuted)
<1>. DEFINE s == lnSent[Len(lnSent)]
            t == s \o LineEnd
<1>1. Len(lnExecuted) \in Nat /\ Len(lnSent) \in Nat
  BY LenProperties DEF LineInv
<1>2. ASSUME Len(lnSent) = Len(lnExecuted) + 1,
             NEW k \in 0 .. Len(s) + 1, lnWire = SubSeq(t, k + 1, Len(t))
      PROVE  FALSE
  <2>1. s \in Seq(Letters)
    BY <1>1, <1>2, ElementOfSeq DEF LineInv
  <2>2. t \in Seq(LineBytes) /\ Len(t) = Len(s) + 2 /\ Len(s) \in Nat
    BY <2>1, LineMade, LenProperties
  <2>. HIDE DEF t, s
  <2>3. k + 1 \in 1 .. Len(t) + 1 /\ Len(t) \in (k + 1) - 1 .. Len(t) /\ k + 1 <= Len(t)
    BY <2>2
  <2>4. Len(lnWire) = Len(t) - (k + 1) + 1
    <3>1. Len(SubSeq(t, k + 1, Len(t))) = Len(t) - (k + 1) + 1
      BY <2>2, <2>3, PieceOf
    <3>. QED  BY <1>2, <3>1
  <2>5. Len(lnWire) = 0
    OBVIOUS
  <2>. QED  BY <2>2, <2>3, <2>4, <2>5
<1>. QED  BY <1>2 DEF LineInv

LEMMA LineReceives ==
    ASSUME LineAssumption, LineSize \in Int, LineInv, NEW n \in 1 .. LineSize, Line!Receive(n) PROVE LineInv'
<1>. DEFINE s == lnSent[Len(lnSent)]
            t == s \o LineEnd
            E == Len(lnExecuted)
<1>0. lnSent' = lnSent /\ lnPipelined' = lnPipelined
  BY DEF Line!Receive
<1>. SUFFICES ASSUME ~lnPipelined PROVE LineInv'
  BY <1>0 DEF LineInv
<1>1. /\ lnExecuted \in Seq(Seq(LineBytes)) /\ E \in Nat /\ Len(lnSent) \in Nat
      /\ lnSent \in Seq(Seq(Letters))
  BY LenProperties DEF LineInv
<1>2. n \in 1 .. Line!Min({Len(lnWire), LineSize - Len(lnCommand)})
  BY DEF Line!Receive
<1>3. lnWire # <<>>
  <2>. SUFFICES ASSUME lnWire = <<>>, lnCommand = <<>> PROVE FALSE
    BY LineOnItsWay
  <2>1. Line!Min({0, LineSize}) <= 0 /\ Line!Min({0, LineSize}) \in Int
    BY MinOfTwo
  <2>. QED  BY <1>2, <2>1
<1>4. /\ Len(lnSent) = E + 1
      /\ \E k \in 0 .. Len(s) + 1 : lnCommand = SubSeq(t, 1, k) /\ lnWire = SubSeq(t, k + 1, Len(t))
  BY <1>3 DEF LineInv
<1>5. s \in Seq(Letters) /\ Len(s) \in Nat
  BY <1>1, <1>4, ElementOfSeq, LenProperties
<1>6. PICK k \in 0 .. Len(s) + 1 : lnCommand = SubSeq(t, 1, k) /\ lnWire = SubSeq(t, k + 1, Len(t))
  BY <1>4
<1>7. t \in Seq(LineBytes) /\ Len(t) = Len(s) + 2
  BY <1>5, LineMade
<1>. HIDE DEF t, s
<1>8. Len(lnWire) = Len(s) + 2 - k /\ Len(lnCommand) = k
  <2>1. \A i \in 1 .. Len(t) : t[i] \in LineBytes
    BY <1>7, ElementOfSeq
  <2>2. /\ 1 \in Int /\ k \in Int /\ k + 1 \in Int /\ Len(t) \in Int
        /\ \A i \in 1 .. k : t[i] \in LineBytes
        /\ \A i \in k + 1 .. Len(t) : t[i] \in LineBytes
    BY <1>5, <1>7, <2>1
  <2>3. /\ Len(lnCommand) = IF 1 <= k THEN k - 1 + 1 ELSE 0
        /\ Len(lnWire) = IF k + 1 <= Len(t) THEN Len(t) - (k + 1) + 1 ELSE 0
    BY <1>6, <2>2, SubSeqProperties
  <2>. QED  BY <1>5, <1>7, <2>3
<1>9. n \in 1 .. Len(s) + 2 - k
  <2>1. Line!Min({Len(lnWire), LineSize - Len(lnCommand)}) <= Len(lnWire)
        /\ Line!Min({Len(lnWire), LineSize - Len(lnCommand)}) \in Int
    <3>1. Len(lnWire) \in Int /\ LineSize - Len(lnCommand) \in Int
      BY <1>5, <1>8
    <3>. QED  BY <3>1, MinOfTwo
  <2>. QED  BY <1>2, <1>5, <1>8, <2>1
<1>. DEFINE buf == lnCommand \o SubSeq(lnWire, 1, n)
            nofs == Line!First(Line!Found(buf, Line!LF, k))
            rofs == Line!First(Line!Found(buf, Line!CR, k))
            cmdlen == IF rofs # -1 THEN rofs ELSE nofs
            ended == [buf EXCEPT ![cmdlen + 1] = Line!Zero]
<1>10. /\ lnWire' = SubSeq(lnWire, n + 1, Len(lnWire))
       /\ IF nofs = -1 THEN lnCommand' = buf /\ lnExecuted' = lnExecuted
          ELSE lnExecuted' = Append(lnExecuted, Line!CString(ended)) /\ lnCommand' = Line!Rest(ended, nofs)
  BY <1>8 DEF Line!Receive
<1>11. /\ SubSeq(lnWire, n + 1, Len(lnWire)) = SubSeq(t, k + n + 1, Len(t))
       /\ buf = SubSeq(t, 1, k + n)
       /\ k + n = Len(s) + 2 => buf = t
       /\ k + n # Len(s) + 2 => nofs = -1
  BY <1>5, <1>6, <1>9, LineReceived DEF t
<1>12. CASE k + n # Len(s) + 2
  <2>1. k + n \in 0 .. Len(s) + 1
    BY <1>5, <1>9, <1>12
  <2>2. lnCommand' = SubSeq(t, 1, k + n) /\ lnWire' = SubSeq(t, (k + n) + 1, Len(t)) /\ lnExecuted' = lnExecuted
    BY <1>10, <1>11, <1>12
  <2>. QED  BY <1>0, <1>1, <1>4, <2>1, <2>2 DEF LineInv, t, s
<1>13. CASE k + n = Len(s) + 2
  <2>1. /\ nofs # -1
        /\ Line!CString(ended) \in {s, Append(s, Line!CR)}
        /\ Line!Rest(ended, nofs) = <<>>
    BY <1>5, <1>11, <1>13, LineTaken DEF t
  <2>. DEFINE x == Line!CString(ended)
  <2>2. lnWire' = <<>>
    BY <1>5, <1>7, <1>10, <1>11, <1>13, SubSeqEmpty
  <2>3. lnExecuted' = Append(lnExecuted, x) /\ lnCommand' = <<>>
    BY <1>10, <2>1
  <2>4. x \in Seq(LineBytes)
    <3>1. s \in Seq(LineBytes) /\ Line!CR \in LineBytes
      BY <1>5, SeqMonotonic DEF LineBytes
    <3>2. Append(s, Line!CR) \in Seq(LineBytes)
      BY <3>1, AppendProperties
    <3>. QED  BY <2>1, <3>1, <3>2
  <2>. HIDE DEF x
  <2>5. /\ lnExecuted' \in Seq(Seq(LineBytes)) /\ Len(lnExecuted') = E + 1
        /\ \A i \in 1 .. E : lnExecuted'[i] = lnExecuted[i]
        /\ lnExecuted'[E + 1] = x
    BY <1>1, <2>3, <2>4, AppendProperties
  <2>6. x \in {lnSent[E + 1], Append(lnSent[E + 1], Line!CR)}
    BY <1>4, <2>1 DEF x, s
  <2>7. \A i \in 1 .. Len(lnExecuted') : lnExecuted'[i] \in {lnSent[i], Append(lnSent[i], Line!CR)}
    <3>1. \A i \in 1 .. E : lnExecuted[i] \in {lnSent[i], Append(lnSent[i], Line!CR)}
      BY DEF LineInv
    <3>2. ASSUME NEW i \in 1 .. E + 1
          PROVE  lnExecuted'[i] \in {lnSent[i], Append(lnSent[i], Line!CR)}
      <4>1. CASE i = E + 1
        BY <2>5, <2>6, <4>1
      <4>2. CASE i \in 1 .. E
        BY <2>5, <3>1, <4>2
      <4>. QED  BY <1>1, <4>1, <4>2
    <3>. QED  BY <2>5, <3>2
  <2>. QED  BY <1>0, <1>1, <1>4, <2>2, <2>3, <2>5, <2>7 DEF LineInv
<1>. QED  BY <1>12, <1>13

LEMMA LineSteps ==
    ASSUME LineAssumption, LineSize \in Int, LineInv, [Line!Next]_lnVars PROVE LineInv'
<1>1. CASE \E n \in LineLengths : Line!Send(n)
  BY <1>1, LineSends
<1>2. CASE \E n \in 1 .. LineSize : Line!Receive(n)
  BY <1>2, LineReceives
<1>3. CASE Line!Disconnect \/ UNCHANGED lnVars
  BY <1>3 DEF Line!Disconnect, LineInv, lnVars
<1>. QED  BY <1>1, <1>2, <1>3 DEF Line!Next

LEMMA LineMeant == ASSUME LineInv PROVE Line!CommandsWhole
<1>. SUFFICES ASSUME ~lnPipelined
              PROVE  /\ Len(lnExecuted) <= Len(lnSent)
                     /\ \A i \in 1 .. Len(lnExecuted) : lnExecuted[i] \in {lnSent[i], Append(lnSent[i], Line!CR)}
                     /\ lnWire = <<>> => Len(lnExecuted) = Len(lnSent)
  BY DEF Line!CommandsWhole
<1>1. Len(lnExecuted) \in Nat /\ Len(lnSent) \in Nat
  BY LenProperties DEF LineInv
<1>2. Len(lnSent) = Len(lnExecuted) \/ Len(lnSent) = Len(lnExecuted) + 1
  BY DEF LineInv
<1>3. \A i \in 1 .. Len(lnExecuted) : lnExecuted[i] \in {lnSent[i], Append(lnSent[i], Line!CR)}
  BY DEF LineInv
<1>4. lnWire = <<>> => Len(lnExecuted) = Len(lnSent)
  BY LineOnItsWay
<1>. QED  BY <1>1, <1>2, <1>3, <1>4

LEMMA LineBegins == Line!Init => LineInv
<1>. SUFFICES ASSUME Line!Init PROVE LineInv
  OBVIOUS
<1>1. lnSent = <<>> /\ lnExecuted = <<>> /\ lnWire = <<>> /\ lnCommand = <<>> /\ lnPipelined = FALSE
  BY DEF Line!Init
<1>2. lnSent \in Seq(Seq(Letters)) /\ lnExecuted \in Seq(Seq(LineBytes)) /\ Len(lnSent) = 0 /\ Len(lnExecuted) = 0
  BY <1>1, EmptySeq
<1>. QED  BY <1>1, <1>2 DEF LineInv

-------------------------------------------------------------------------------
(* FtpFiles: what a client's context holds                                     *)

Numbers1 == 1 .. Cardinality(Slots)
FdsOfOthers(c) == {ffCtx[d].fd : d \in Slots \ {c}} \ {0}

\* What a driver has open is in one context, and is what the client asked for; a
\* context has a mode only while it holds something.
ContextsSound ==
    /\ ffCtx \in [Slots -> Files!Contexts]
    /\ DOMAIN ffHandles = {ffCtx[c].fd : c \in Slots} \ {0}
    /\ \A c, d \in Slots : c # d /\ ffCtx[c].fd # 0 => ffCtx[c].fd # ffCtx[d].fd
    /\ \A c \in Slots :
          /\ ffCtx[c].fd # 0 => ffCtx[c].type = "io" /\ ffHandles[ffCtx[c].fd] = ffAsked[c]
          /\ ffCtx[c].mode # "none" => ffCtx[c].fd # 0
    /\ DOMAIN ffAsked = Slots

\* A state of the files while one client's command is executed: others have the
\* numbers O, and this client holds w, or nothing.
Shut(p, O) ==
    /\ p = [x |-> p.x, h |-> p.h]
    /\ p.x \in Files!Contexts /\ p.x.fd = 0 /\ p.x.mode = "none"
    /\ DOMAIN p.h = O /\ \A n \in O : p.h[n] = ffHandles[n]
Holding(p, O, w) ==
    /\ p = [x |-> p.x, h |-> p.h]
    /\ p.x \in Files!Contexts /\ p.x.fd # 0 /\ p.x.fd \notin O /\ p.x.type = "io"
    /\ DOMAIN p.h = O \cup {p.x.fd} /\ p.h[p.x.fd] = w
    /\ \A n \in O : p.h[n] = ffHandles[n]
Holds(p, O, w) == Shut(p, O) \/ Holding(p, O, w)

LEMMA LeastExists ==
    ASSUME NEW S \in SUBSET Nat, S # {}
    PROVE  \E m \in S : \A n \in S : m <= n
<1>1. PICK m \in S : \A n \in S : <<n, m>> \notin OpToRel(<, Nat)
  BY NatLessThanWellFounded, WFMin, Zenon
<1>2. \A n \in S : ~(n < m)
  BY <1>1 DEF OpToRel
<1>. QED  BY <1>2

\* The module counts with its own copy of the operator.
LEMMA CountsAlike == Files!Cardinality(Slots) = Cardinality(Slots)
BY DEF Files!Cardinality, Cardinality, Files!IsFiniteSet, IsFiniteSet

LEMMA ClosedFields ==
  ASSUME FilesAssumption
  PROVE
    /\ Files!Closed \in Files!Contexts /\ Files!Closed.fd = 0 /\ Files!Closed.mode = "none"
    /\ Files!Closed.type # "io"
<1>1. 0 \in 0 .. Cardinality(Slots)
  BY FS_CardinalityType DEF FilesAssumption
<1>. QED  BY <1>1, CountsAlike DEF Files!Closed, Files!Contexts, Files!Units, Files!Drivers

LEMMA ClosesHandle ==
    ASSUME FilesAssumption, NEW p, NEW O, 0 \notin O, NEW w, Holds(p, O, w)
    PROVE  Shut(Files!FileSystem_Close(p), O) /\ Files!FileSystem_Close(p).x = Files!Closed
<1>. DEFINE q == Files!FileSystem_Close(p)
<1>1. /\ q = [x |-> q.x, h |-> q.h] /\ q.x = Files!Closed
      /\ q.h = IF p.x.type = "io" THEN [n \in DOMAIN p.h \ {p.x.fd} |-> p.h[n]] ELSE p.h
  BY DEF Files!FileSystem_Close
<1>2. DOMAIN q.h = O /\ \A n \in O : q.h[n] = ffHandles[n]
  <2>. HIDE DEF q
  <2>1. CASE Shut(p, O)
    BY <1>1, <2>1 DEF Shut
  <2>2. CASE Holding(p, O, w)
    BY <1>1, <2>2 DEF Holding
  <2>. QED  BY <2>1, <2>2 DEF Holds
<1>. HIDE DEF q
<1>3. Shut(q, O) /\ q.x = Files!Closed
  BY <1>1, <1>2, ClosedFields DEF Shut
<1>. QED  BY <1>3 DEF q

LEMMA PointsAt ==
    ASSUME FilesAssumption, NEW p, NEW O, 0 \notin O, NEW w, Holds(p, O, w), NEW path
    PROVE  Shut(Files!Pointed(p, path), O)
<1>. DEFINE q == Files!FileSystem_Close(p)
            x == Files!FileSystem_ClassifyPath(Files!Closed, path)
            r == Files!Pointed(p, path)
<1>1. Shut(q, O) /\ q.x = Files!Closed
  BY ClosesHandle
<1>2. x \in Files!Contexts /\ x.fd = 0 /\ x.mode = "none"
  BY ClosedFields DEF Files!FileSystem_ClassifyPath, Files!Contexts, Files!Drivers, Files!Units, Files!Closed
<1>. HIDE DEF x
<1>3. r.x = x /\ r.h = q.h /\ r = [x |-> r.x, h |-> r.h]
  BY <1>1 DEF Files!Pointed, Shut, x
<1>. HIDE DEF r, q
<1>4. Shut(r, O)
  BY <1>1, <1>2, <1>3 DEF Shut
<1>. QED  BY <1>4 DEF r

\* Who holds nothing leaves a number for a new handle.
LEMMA NumberFree ==
    ASSUME FilesAssumption, ContextsSound, NEW c \in Slots
    PROVE  LET O == FdsOfOthers(c)
           IN O \subseteq Numbers1 /\ Files!Lowest(O) \in Numbers1 \ O
<1>. DEFINE O == FdsOfOthers(c)
            N == Cardinality(Slots)
            D == Slots \ {c}
<1>1. N \in Nat /\ IsFiniteSet(D) /\ Cardinality(D) = N - 1
  BY FS_CardinalityType, FS_RemoveElement DEF FilesAssumption
<1>2. O \subseteq 1 .. N
  BY <1>1, CountsAlike DEF FdsOfOthers, ContextsSound, Files!Contexts
<1>3. (1 .. N) \ O # {}
  <2>. SUFFICES ASSUME 1 .. N \subseteq O PROVE FALSE
    OBVIOUS
  <2>. DEFINE f == [n \in 1 .. N |-> CHOOSE d \in D : ffCtx[d].fd = n]
  <2>1. \A n \in 1 .. N : f[n] \in D /\ ffCtx[f[n]].fd = n
    BY DEF FdsOfOthers
  <2>2. f \in [1 .. N -> D]
    BY <2>1
  <2>3. IsFiniteSet(1 .. N) /\ Cardinality(1 .. N) = N
    BY <1>1, FS_Interval
  <2>4. Cardinality(D) < Cardinality(1 .. N)
    BY <1>1, <2>3
  <2>. HIDE DEF f
  <2>5. \E m, n \in 1 .. N : m # n /\ f[m] = f[n]
    BY <1>1, <2>2, <2>3, <2>4, FS_PigeonHole
  <2>. QED  BY <2>1, <2>5
<1>. HIDE DEF O
<1>4. PICK n \in (1 .. N) \ O : \A m \in (1 .. N) \ O : n <= m
  <2>1. (1 .. N) \ O \in SUBSET Nat
    BY <1>1
  <2>. QED  BY <1>3, <2>1, LeastExists
<1>5. n \in 1 .. N /\ n \notin O /\ \A m \in 1 .. n - 1 : m \in O
  BY <1>1, <1>4
<1>6. Files!Lowest(O) \in 1 .. N /\ Files!Lowest(O) \notin O
  BY <1>5, CountsAlike DEF Files!Lowest
<1>. QED  BY <1>2, <1>6 DEF Numbers1, O

\* What another client holds is nobody else's.
LEMMA OthersHold ==
    ASSUME ContextsSound, NEW c \in Slots
    PROVE  /\ 0 \notin FdsOfOthers(c)
           /\ Holds(Files!State(c), FdsOfOthers(c), ffAsked[c])
<1>. DEFINE O == FdsOfOthers(c)
            p == Files!State(c)
<1>1. p.x = ffCtx[c] /\ p.h = ffHandles /\ p = [x |-> p.x, h |-> p.h]
  BY DEF Files!State
<1>2. p.x \in Files!Contexts /\ p.x.fd \notin O
  <2>1. p.x.fd # 0 => p.x.fd \notin O
    BY <1>1 DEF ContextsSound, FdsOfOthers
  <2>. QED  BY <1>1, <2>1 DEF ContextsSound, FdsOfOthers
<1>3. DOMAIN p.h = O \cup ({p.x.fd} \ {0})
  BY <1>1 DEF ContextsSound, FdsOfOthers
<1>4. 0 \notin O /\ \A n \in O : p.h[n] = ffHandles[n]
  BY <1>1 DEF FdsOfOthers
<1>5. p.x.fd # 0 => p.x.type = "io" /\ p.h[p.x.fd] = ffAsked[c]
  BY <1>1 DEF ContextsSound
<1>6. p.x.fd = 0 => p.x.mode = "none"
  BY <1>1 DEF ContextsSound
<1>. HIDE DEF O, p
<1>7. Holds(p, O, ffAsked[c])
  <2>1. CASE p.x.fd = 0
    BY <1>1, <1>2, <1>3, <1>4, <1>6, <2>1 DEF Holds, Shut
  <2>2. CASE p.x.fd # 0
    BY <1>1, <1>2, <1>3, <1>4, <1>5, <2>2 DEF Holds, Holding
  <2>. QED  BY <2>1, <2>2
<1>. QED  BY <1>4, <1>7 DEF O, p

LEMMA OpensHandle ==
    ASSUME FilesAssumption, ContextsSound, NEW c \in Slots, NEW p, Shut(p, FdsOfOthers(c)),
           p.x.type = "io", NEW path, NEW mode \in {"read", "write", "dir"}
    PROVE  Holding(Files!Opened(p, path, mode), FdsOfOthers(c), path)
<1>. DEFINE O == FdsOfOthers(c)
            n == Files!Lowest(DOMAIN p.h)
            q == Files!Opened(p, path, mode)
<1>1. p.x \in Files!Contexts /\ DOMAIN p.h = O /\ \A m \in O : p.h[m] = ffHandles[m]
  BY DEF Shut
<1>2. n \in Numbers1 /\ n \notin O /\ Cardinality(Slots) \in Nat
  BY <1>1, NumberFree, FS_CardinalityType DEF FilesAssumption
<1>. HIDE DEF O, n
<1>3. /\ q.x = [p.x EXCEPT !.mode = mode, !.fd = n]
      /\ q.h = [m \in DOMAIN p.h \cup {n} |-> IF m = n THEN path ELSE p.h[m]]
      /\ q = [x |-> q.x, h |-> q.h]
  BY DEF Files!Opened, n
<1>. HIDE DEF q
<1>4. n # 0 /\ n \in 0 .. Files!Cardinality(Slots)
  BY <1>2, CountsAlike DEF Numbers1
<1>5. q.x \in Files!Contexts /\ q.x.fd = n /\ q.x.type = "io"
  BY <1>1, <1>3, <1>4 DEF Files!Contexts
<1>6. DOMAIN q.h = O \cup {n} /\ q.h[n] = path /\ \A m \in O : q.h[m] = ffHandles[m]
  BY <1>1, <1>2, <1>3
<1>7. Holding(q, O, path)
  BY <1>2, <1>3, <1>4, <1>5, <1>6 DEF Holding
<1>. QED  BY <1>7 DEF O, q

\* A context that is forgotten holds nothing.
LEMMA Forgets ==
    ASSUME FilesAssumption, NEW p, NEW O, Shut(p, O)
    PROVE  Shut([p EXCEPT !.x = Files!Closed], O)
<1>. DEFINE q == [p EXCEPT !.x = Files!Closed]
<1>1. p = [x |-> p.x, h |-> p.h]
  BY DEF Shut
<1>2. q.x = Files!Closed /\ q.h = p.h /\ q = [x |-> q.x, h |-> q.h]
  BY <1>1
<1>. HIDE DEF q
<1>3. Shut(q, O)
  BY <1>2, ClosedFields DEF Shut
<1>. QED  BY <1>3 DEF q

LEMMA OpensFile ==
    ASSUME FilesAssumption, ContextsSound, NEW c \in Slots, NEW p, NEW w, Holds(p, FdsOfOthers(c), w),
           NEW path, NEW mode \in {"read", "write"}, NEW r \in Files!FileSystem_OpenFile(p, path, mode)
    PROVE  IF r.ok THEN Holding(r.p, FdsOfOthers(c), path) ELSE Shut(r.p, FdsOfOthers(c))
<1>. DEFINE q == Files!Pointed(p, path)
<1>1. Shut(q, FdsOfOthers(c))
  BY PointsAt, OthersHold
<1>2. \/ r.p \in {q, [q EXCEPT !.x = Files!Closed]} /\ ~r.ok
      \/ r.p = Files!Opened(q, path, mode) /\ r.ok /\ q.x.type = "io"
  BY DEF Files!FileSystem_OpenFile
<1>. HIDE DEF q
<1>. QED  BY <1>1, <1>2, Forgets, OpensHandle

LEMMA OpensDir ==
    ASSUME FilesAssumption, ContextsSound, NEW c \in Slots, NEW p, NEW w, Holds(p, FdsOfOthers(c), w),
           NEW path, NEW r \in Files!FileSystem_OpenDir(p, path)
    PROVE  IF r.ok THEN Holds(r.p, FdsOfOthers(c), path) ELSE Shut(r.p, FdsOfOthers(c))
<1>. DEFINE q == Files!Pointed(p, path)
<1>1. Shut(q, FdsOfOthers(c))
  BY PointsAt, OthersHold
<1>2. \/ r.p \in {q, [q EXCEPT !.x = Files!Closed]} /\ ~r.ok
      \/ r.p = q /\ r.ok
      \/ r.p = Files!Opened(q, path, "dir") /\ r.ok /\ q.x.type = "io"
  <2>1. CASE ~Files!Accepted(path)
    BY <2>1 DEF Files!FileSystem_OpenDir
  <2>2. CASE Files!Accepted(path)
    <3>1. q.x.type \in {"devlist", "io"}
      BY ClosesHandle, OthersHold DEF Files!Pointed, Files!FileSystem_ClassifyPath, Files!Closed, Files!FileSystem_Close
    <3>. HIDE DEF q
    <3>. QED  BY <2>2, <3>1 DEF Files!FileSystem_OpenDir, q
  <2>. QED  BY <2>1, <2>2
<1>. HIDE DEF q
<1>. QED  BY <1>1, <1>2, Forgets, OpensHandle DEF Holds

\* The client's context after a command, and the driver's handles.
LEMMA ContextBecomes ==
    ASSUME ContextsSound, NEW c \in Slots, NEW p, NEW w, Holds(p, FdsOfOthers(c), w),
           Files!Becomes(c, p), ffAsked' = [ffAsked EXCEPT ![c] = w]
    PROVE  ContextsSound'
<1>. DEFINE O == FdsOfOthers(c)
<1>1. /\ ffCtx' = [ffCtx EXCEPT ![c] = p.x] /\ ffHandles' = p.h
      /\ p.x \in Files!Contexts /\ (p.x.fd # 0 => p.x.fd \notin O)
      /\ DOMAIN p.h = O \cup ({p.x.fd} \ {0})
      /\ \A n \in O : p.h[n] = ffHandles[n]
      /\ p.x.fd # 0 => p.x.type = "io" /\ p.h[p.x.fd] = w
      /\ p.x.mode # "none" => p.x.fd # 0
  BY DEF Files!Becomes, Holds, Shut, Holding
<1>2. /\ ffCtx \in [Slots -> Files!Contexts] /\ ffCtx' \in [Slots -> Files!Contexts]
      /\ ffCtx'[c] = p.x /\ \A d \in Slots \ {c} : ffCtx'[d] = ffCtx[d]
      /\ DOMAIN ffAsked' = Slots /\ ffAsked'[c] = w /\ \A d \in Slots \ {c} : ffAsked'[d] = ffAsked[d]
  BY <1>1 DEF ContextsSound
<1>3. \A d \in Slots \ {c} : ffCtx[d].fd # 0 => ffCtx[d].fd \in O
  BY DEF FdsOfOthers
<1>4. {ffCtx'[d].fd : d \in Slots} \ {0} = O \cup ({p.x.fd} \ {0})
  BY <1>2 DEF FdsOfOthers
<1>5. \A d, e \in Slots : d # e /\ ffCtx'[d].fd # 0 => ffCtx'[d].fd # ffCtx'[e].fd
  <2>1. SUFFICES ASSUME NEW d \in Slots, NEW e \in Slots, d # e, ffCtx'[d].fd # 0, ffCtx'[d].fd = ffCtx'[e].fd
                 PROVE  FALSE
    OBVIOUS
  <2>2. CASE d = c
    BY <1>1, <1>2, <1>3, <2>1, <2>2
  <2>3. CASE e = c
    BY <1>1, <1>2, <1>3, <2>1, <2>3
  <2>4. CASE d # c /\ e # c
    BY <1>2, <2>1, <2>4 DEF ContextsSound
  <2>. QED  BY <2>2, <2>3, <2>4
<1>6. ASSUME NEW d \in Slots
      PROVE  /\ ffCtx'[d].fd # 0 => ffCtx'[d].type = "io" /\ ffHandles'[ffCtx'[d].fd] = ffAsked'[d]
             /\ ffCtx'[d].mode # "none" => ffCtx'[d].fd # 0
  <2>1. CASE d = c
    BY <1>1, <1>2, <2>1
  <2>2. CASE d # c
    BY <1>1, <1>2, <1>3, <2>2 DEF ContextsSound
  <2>. QED  BY <2>1, <2>2
<1>. HIDE DEF O
<1>. QED  BY <1>1, <1>2, <1>4, <1>5, <1>6 DEF ContextsSound

LEMMA CommandBecomes ==
    ASSUME FilesAssumption, ContextsSound, NEW c \in Slots, NEW arg, Files!Command(c, arg)
    PROVE  ContextsSound'
<1>. DEFINE O == FdsOfOthers(c)
            p == Files!State(c)
            path == Files!FileSystem_BuildPath(c, arg)
<1>1. 0 \notin O /\ Holds(p, O, ffAsked[c])
  BY OthersHold
<1>2. \A q : Shut(q, O) => Holds(q, O, Files!Nothing)
  BY DEF Holds
<1>3. Shut(Files!Pointed(p, path), O)
  BY <1>1, PointsAt
<1>. HIDE DEF O, p, path
<1>4. ASSUME NEW kind \in {"retr", "stor"}, Files!Transfer(c, arg, kind)
      PROVE  ContextsSound'
  <2>. DEFINE mode == IF kind = "retr" THEN "read" ELSE "write"
  <2>1. PICK r \in Files!FileSystem_OpenFile(p, path, mode) :
           /\ Files!Becomes(c, r.p)
           /\ ffAsked' = [ffAsked EXCEPT ![c] = IF r.ok THEN path ELSE Files!Nothing]
    BY <1>4 DEF Files!Transfer, p, path
  <2>2. mode \in {"read", "write"}
    OBVIOUS
  <2>. HIDE DEF mode
  <2>3. IF r.ok THEN Holding(r.p, O, path) ELSE Shut(r.p, O)
    BY <1>1, <2>1, <2>2, OpensFile DEF O
  <2>4. CASE r.ok
    BY <2>1, <2>3, <2>4, ContextBecomes DEF O, Holds
  <2>5. CASE ~r.ok
    BY <2>1, <2>3, <2>5, ContextBecomes DEF O, Holds
  <2>. QED  BY <2>4, <2>5
<1>5. ASSUME Files!List(c, arg) PROVE ContextsSound'
  <2>1. PICK r \in Files!FileSystem_OpenDir(p, path) :
           /\ Files!Becomes(c, r.p)
           /\ ffAsked' = [ffAsked EXCEPT ![c] = IF r.ok THEN path ELSE Files!Nothing]
    BY <1>5 DEF Files!List, p, path
  <2>2. IF r.ok THEN Holds(r.p, O, path) ELSE Shut(r.p, O)
    BY <1>1, <2>1, OpensDir DEF O
  <2>3. CASE r.ok
    BY <2>1, <2>2, <2>3, ContextBecomes DEF O
  <2>4. CASE ~r.ok
    BY <2>1, <2>2, <2>4, ContextBecomes DEF O, Holds
  <2>. QED  BY <2>3, <2>4
<1>6. ASSUME NEW q, Shut(q, O), Files!Becomes(c, q), ffAsked' = [ffAsked EXCEPT ![c] = Files!Nothing]
      PROVE  ContextsSound'
  BY <1>2, <1>6, ContextBecomes DEF O
<1>7. ASSUME Files!Change(c, arg) PROVE ContextsSound'
  BY <1>3, <1>6, <1>7 DEF Files!Change, p, path
<1>8. ASSUME Files!Rnfr(c, arg) PROVE ContextsSound'
  <2>1. PICK r \in Files!Found(c, path) :
           /\ IF ~r.ok THEN Files!Becomes(c, r.p) ELSE Files!Becomes(c, Files!Pointed(r.p, path))
           /\ ffAsked' = [ffAsked EXCEPT ![c] = Files!Nothing]
    BY <1>8 DEF Files!Rnfr, path
  <2>2. IF r.ok THEN Holds(r.p, O, path) ELSE Shut(r.p, O)
    <3>1. CASE r \in Files!FileSystem_OpenFile(p, path, "read")
      BY <1>1, <3>1, OpensFile DEF O, Holds
    <3>2. ASSUME NEW s \in Files!FileSystem_OpenFile(p, path, "read"), ~s.ok,
                 r \in Files!FileSystem_OpenDir(s.p, path)
          PROVE  IF r.ok THEN Holds(r.p, O, path) ELSE Shut(r.p, O)
      <4>1. Holds(s.p, O, path)
        BY <1>1, <3>2, OpensFile DEF O, Holds
      <4>. QED  BY <3>2, <4>1, OpensDir DEF O
    <3>. QED  BY <2>1, <3>1, <3>2 DEF Files!Found, p
  <2>3. CASE r.ok
    BY <1>1, <1>6, <2>1, <2>2, <2>3, PointsAt
  <2>4. CASE ~r.ok
    BY <1>6, <2>1, <2>2, <2>4
  <2>. QED  BY <2>3, <2>4
<1>9. ASSUME Files!Rnto(c, arg) PROVE ContextsSound'
  BY <1>3, <1>6, <1>9 DEF Files!Rnto, p, path
<1>10. ASSUME Files!Size(c, arg) PROVE ContextsSound'
  BY <1>3, <1>6, <1>10, Forgets DEF Files!Size, Files!FileSystem_GetFileSize, p, path
<1>11. ASSUME Files!Site(c, arg) PROVE ContextsSound'
  <2>1. Shut(Files!FileSystem_Close(p), O) /\ Shut(Files!Pointed(p, arg.path), O)
    BY <1>1, ClosesHandle, PointsAt
  <2>2. Shut(Files!FileSystem_MountDevice(p, arg), O)
    BY <2>1, Forgets DEF Files!FileSystem_MountDevice
  <2>. QED  BY <1>6, <1>11, <2>2 DEF Files!Site, p
<1>. QED  BY <1>4, <1>5, <1>7, <1>8, <1>9, <1>10, <1>11 DEF Files!Command

LEMMA ContextsSteps ==
    ASSUME FilesAssumption, ContextsSound, [Files!Next]_ffVars
    PROVE  ContextsSound'
<1>1. CASE UNCHANGED <<ffCtx, ffHandles, ffAsked>>
  BY <1>1 DEF ContextsSound
<1>2. CASE Files!Pwd
  BY <1>1, <1>2 DEF Files!Pwd
<1>3. ASSUME NEW c \in Slots, NEW arg, Files!Cwd(c, arg) PROVE ContextsSound'
  BY <1>1, <1>3 DEF Files!Cwd
<1>4. ASSUME NEW c \in Slots, Files!Data(c) PROVE ContextsSound'
  <2>1. /\ Files!Becomes(c, Files!FileSystem_Close(Files!State(c)))
        /\ ffAsked' = [ffAsked EXCEPT ![c] = Files!Nothing]
    BY <1>4 DEF Files!Data, Files!End
  <2>2. Shut(Files!FileSystem_Close(Files!State(c)), FdsOfOthers(c))
    BY OthersHold, ClosesHandle
  <2>. QED  BY <2>1, <2>2, ContextBecomes DEF Holds
<1>5. ASSUME NEW c \in Slots, Files!DataUnits(c) PROVE ContextsSound'
  <2>1. /\ ffCtx[c].fd = 0 /\ ffCtx[c].mode = "none" /\ ffCtx[c] \in Files!Contexts
        /\ ffCtx' = [ffCtx EXCEPT ![c].unit = Files!NextUnit(ffCtx[c])]
        /\ ffHandles' = ffHandles /\ ffAsked' = ffAsked
    BY <1>5 DEF Files!DataUnits, ContextsSound
  <2>. DEFINE x == [ffCtx[c] EXCEPT !.unit = Files!NextUnit(ffCtx[c])]
  <2>2. x \in Files!Contexts /\ x.fd = 0 /\ x.mode = "none"
    BY <2>1 DEF Files!Contexts, Files!NextUnit, Files!Units
  <2>3. ffCtx' = [ffCtx EXCEPT ![c] = x]
    BY <2>1 DEF ContextsSound
  <2>. HIDE DEF x
  <2>4. /\ ffCtx' \in [Slots -> Files!Contexts] /\ ffCtx'[c] = x
        /\ \A d \in Slots \ {c} : ffCtx'[d] = ffCtx[d]
        /\ \A d \in Slots : ffCtx'[d].fd = ffCtx[d].fd
    BY <2>1, <2>2, <2>3 DEF ContextsSound
  <2>5. {ffCtx'[d].fd : d \in Slots} = {ffCtx[d].fd : d \in Slots}
    BY <2>4
  <2>. QED  BY <2>1, <2>2, <2>4, <2>5 DEF ContextsSound
<1>6. CASE UNCHANGED ffVars
  BY <1>1, <1>6 DEF ffVars
<1>. QED  BY <1>2, <1>3, <1>4, <1>5, <1>6, CommandBecomes DEF Files!Next

\* A context that moves data holds what it moves.
LEMMA HandlesMeant == ContextsSound => Files!HandlesSound
<1>. SUFFICES ASSUME ContextsSound PROVE Files!HandlesSound
  OBVIOUS
<1>1. ASSUME NEW c \in Slots, Files!Moves(c) PROVE ffCtx[c].fd # 0 /\ ffHandles[ffCtx[c].fd] = ffAsked[c]
  <2>1. ffCtx[c].mode # "none"
    BY <1>1 DEF Files!Moves
  <2>. QED  BY <2>1 DEF ContextsSound
<1>. QED  BY <1>1 DEF ContextsSound, Files!HandlesSound

LEMMA FilesBegin == FilesAssumption /\ Files!Init => ContextsSound
<1>. SUFFICES ASSUME FilesAssumption, Files!Init PROVE ContextsSound
  OBVIOUS
<1>1. \A c \in Slots : ffCtx[c] = Files!Closed
  BY DEF Files!Init
<1>2. ffHandles = << >> /\ ffCtx \in [Slots -> Files!Contexts] /\ DOMAIN ffAsked = Slots
  BY ClosedFields DEF Files!Init
<1>3. DOMAIN ffHandles = {}
  BY <1>2
<1>4. \A c \in Slots : ffCtx[c].fd = 0 /\ ffCtx[c].mode = "none"
  BY <1>1, ClosedFields
<1>5. {ffCtx[c].fd : c \in Slots} \ {0} = {}
  BY <1>4
<1>. QED  BY <1>2, <1>3, <1>4, <1>5 DEF ContextsSound

-------------------------------------------------------------------------------
(* FtpFiles: what a rename moves                                               *)

NamesSound ==
    /\ ffCwd \in [Slots -> Seq(Entries)] /\ ffNamed \in [Slots -> Seq(Entries)]
    /\ ffDisk \subseteq Seq(Entries) /\ ffBuffer \in Seq(Entries)
    /\ \A c \in Slots : ffNamed[c] # Files!Nothing => ffBuffer = Files!Remembered(ffNamed[c])

LEMMA NamesOfNothing == {<<>>, Files!Nothing, Files!Text} \subseteq Seq(Entries)
BY DEF Files!Nothing, Files!Text, Entries

LEMMA PathEntered ==
    ASSUME NEW path \in Seq(Entries), NEW entry \in Entries
    PROVE  Files!Entered(path, entry) \in Seq(Entries)
<1>1. Append(path, entry) \in Seq(Entries)
  BY AppendProperties
<1>2. ASSUME path # <<>> PROVE Files!Front(path) \in Seq(Entries)
  <2>1. Len(path) \in Nat /\ \A i \in 1 .. Len(path) - 1 : path[i] \in Entries
    BY LenProperties, ElementOfSeq
  <2>2. SubSeq(path, 1, Len(path) - 1) \in Seq(Entries)
    BY <2>1, SubSeqProperties
  <2>. QED  BY <2>2 DEF Files!Front
<1>. QED  BY <1>1, <1>2 DEF Files!Entered

\* FileSystem_ChangeDir's walk reaches a directory: were there a shortest way that
\* does not, the one without its last entry would.
LEMMA WalkEnds ==
    ASSUME NEW s \in Seq(Entries), NEW t \in Seq(Entries)
    PROVE  LET walk == CHOOSE w : w = [n \in 0 .. Len(t) |->
                                         IF n = 0 THEN s ELSE Files!Entered(w[n - 1], t[n])]
           IN walk[Len(t)] \in Seq(Entries)
<1>. DEFINE L == Len(t)
            IsWalk(w, m) == /\ DOMAIN w = 0 .. m /\ w[0] = s
                            /\ \A n \in 1 .. m : w[n] = Files!Entered(w[n - 1], t[n])
                            /\ w = [n \in 0 .. m |-> w[n]]
            Bad == {m \in 0 .. L : ~ \E w : IsWalk(w, m)}
<1>1. L \in Nat /\ \A n \in 1 .. L : t[n] \in Entries
  BY LenProperties, ElementOfSeq
<1>. HIDE DEF L
<1>2. Bad = {}
  <2>. SUFFICES ASSUME Bad # {} PROVE FALSE
    OBVIOUS
  <2>1. PICK m \in Bad : \A n \in Bad : m <= n
    <3>1. Bad \in SUBSET Nat
      BY <1>1
    <3>. HIDE DEF Bad
    <3>. QED  BY <3>1, LeastExists
  <2>2. m # 0
    <3>. DEFINE w == [n \in 0 .. 0 |-> s]
    <3>1. IsWalk(w, 0)
      OBVIOUS
    <3>. QED  BY <2>1, <3>1
  <2>3. m \in Nat /\ m - 1 \in 0 .. L /\ m - 1 \notin Bad
    BY <1>1, <2>1, <2>2
  <2>4. PICK v : IsWalk(v, m - 1)
    BY <2>3
  <2>. DEFINE w == [n \in 0 .. m |-> IF n < m THEN v[n] ELSE Files!Entered(v[m - 1], t[m])]
  <2>5. DOMAIN w = 0 .. m /\ w[0] = s /\ w = [n \in 0 .. m |-> w[n]]
    BY <2>2, <2>3, <2>4
  <2>6. ASSUME NEW n \in 1 .. m PROVE w[n] = Files!Entered(w[n - 1], t[n])
    <3>1. CASE n = m
      BY <2>3, <3>1
    <3>2. CASE n # m
      <4>1. n \in 1 .. m - 1 /\ n \in 0 .. m /\ n - 1 \in 0 .. m /\ n < m /\ n - 1 < m
        BY <2>3, <3>2
      <4>2. w[n] = v[n] /\ w[n - 1] = v[n - 1]
        BY <4>1
      <4>. QED  BY <2>4, <4>1, <4>2
    <3>. QED  BY <3>1, <3>2
  <2>. HIDE DEF w
  <2>7. IsWalk(w, m)
    BY <2>5, <2>6
  <2>. QED  BY <2>1, <2>7
<1>. DEFINE Walk(w) == w = [n \in 0 .. L |-> IF n = 0 THEN s ELSE Files!Entered(w[n - 1], t[n])]
            walk == CHOOSE w : Walk(w)
<1>3. Walk(walk)
  <2>1. PICK w : IsWalk(w, L)
    <3>1. L \in 0 .. L
      BY <1>1
    <3>. HIDE DEF IsWalk
    <3>. QED  BY <1>2, <3>1
  <2>2. \A n \in 0 .. L : w[n] = IF n = 0 THEN s ELSE Files!Entered(w[n - 1], t[n])
    <3>1. ASSUME NEW n \in 0 .. L PROVE n = 0 \/ n \in 1 .. L
      BY <1>1
    <3>. QED  BY <2>1, <3>1
  <2>3. Walk(w)
    BY <2>1, <2>2
  <2>. QED  BY <2>3
<1>. HIDE DEF walk, Bad
<1>4. {m \in 0 .. L : walk[m] \notin Seq(Entries)} = {}
  <2>. DEFINE Lost == {m \in 0 .. L : walk[m] \notin Seq(Entries)}
  <2>. SUFFICES ASSUME Lost # {} PROVE FALSE
    OBVIOUS
  <2>1. PICK m \in Lost : \A n \in Lost : m <= n
    <3>1. Lost \in SUBSET Nat
      BY <1>1
    <3>. HIDE DEF Lost
    <3>. QED  BY <3>1, LeastExists
  <2>2. m # 0
    BY <1>1, <1>3, <2>1
  <2>3. m \in 1 .. L /\ m - 1 \in 0 .. L /\ walk[m - 1] \in Seq(Entries)
    BY <1>1, <2>1, <2>2
  <2>4. walk[m] = Files!Entered(walk[m - 1], t[m])
    BY <1>1, <1>3, <2>3
  <2>5. walk[m] \in Seq(Entries)
    BY <1>1, <2>3, <2>4, PathEntered
  <2>. QED  BY <2>1, <2>5
<1>5. walk[L] \in Seq(Entries)
  BY <1>1, <1>4
<1>. QED  BY <1>5 DEF walk, L

LEMMA WhereTo ==
    ASSUME FilesAssumption, NamesSound, NEW c \in Slots
    PROVE  /\ \A arg \in Arguments[c] : Files!FileSystem_BuildPath(c, arg) \in Seq(Entries)
           /\ \A arg \in Directories[c] : Files!FileSystem_ChangeDir(c, arg) \in Seq(Entries)
<1>1. /\ Arguments[c] \subseteq SentPaths /\ Directories[c] \subseteq SentPaths
      /\ ffCwd[c] \in Seq(Entries)
  BY DEF FilesAssumption, NamesSound
<1>2. ASSUME NEW arg \in Arguments[c] PROVE Files!FileSystem_BuildPath(c, arg) \in Seq(Entries)
  <2>1. arg.path \in Seq(Entries)
    BY <1>1 DEF SentPaths
  <2>2. ffCwd[c] \o arg.path \in Seq(Entries)
    BY <1>1, <2>1, ConcatProperties
  <2>. QED  BY <2>1, <2>2 DEF Files!FileSystem_BuildPath
<1>3. ASSUME NEW arg \in Directories[c] PROVE Files!FileSystem_ChangeDir(c, arg) \in Seq(Entries)
  <2>1. arg.path \in Seq(Entries)
    BY <1>1 DEF SentPaths
  <2>. DEFINE walk == CHOOSE w : w = [n \in 0 .. Len(arg.path) |->
                                        IF n = 0 THEN ffCwd[c] ELSE Files!Entered(w[n - 1], arg.path[n])]
  <2>2. walk[Len(arg.path)] \in Seq(Entries)
    BY <1>1, <2>1, WalkEnds
  <2>. QED  BY <2>1, <2>2 DEF Files!FileSystem_ChangeDir
<1>. QED  BY <1>2, <1>3

\* The new name's unit and what the buffer remembers make the old name.
LEMMA UnitAndRest ==
    ASSUME NEW s \in Seq(Entries), Len(s) > 1
    PROVE  SubSeq(s, 1, 2) \o Files!Local(s) = s
<1>1. Len(s) \in Nat /\ 2 \in 0 .. Len(s) /\ 2 \in 1 - 1 .. Len(s)
  BY LenProperties
<1>2. 1 \in 1 .. Len(s) + 1 /\ Len(s) \in 2 .. Len(s)
  BY <1>1
<1>3. SubSeq(s, 1, 2) \o SubSeq(s, 2 + 1, Len(s)) = SubSeq(s, 1, Len(s))
  BY <1>1, <1>2, ConcatAdjacentSubSeq
<1>4. SubSeq(s, 1, Len(s)) = s
  BY SubSeqFull
<1>. QED  BY <1>3, <1>4 DEF Files!Local

\* What Renamed makes of a path that begins with the old name.
LEMMA PathMoved ==
    ASSUME NEW new \in Seq(Entries), NEW rest \in Seq(Entries)
    PROVE  /\ new \o rest \in Seq(Entries) /\ Files!IsPrefix(new, new \o rest)
           /\ Len(new) > 2 => SubSeq(new \o rest, 1, 2) = SubSeq(new, 1, 2)
<1>. DEFINE n == Len(new)
            p == new \o rest
<1>1. n \in Nat /\ Len(rest) \in Nat
  BY LenProperties
<1>2. p \in Seq(Entries) /\ Len(p) = n + Len(rest)
  BY ConcatProperties
<1>3. ASSUME n > 2 PROVE SubSeq(p, 1, 2) = SubSeq(new, 1, 2)
  <2>1. 1 \in 1 .. n /\ 2 \in 1 .. n
    BY <1>1, <1>3
  <2>. QED  BY <2>1, SubSeqOfConcat1
<1>4. SubSeq(new, 1, n) = SubSeq(p, 1, n)
  <2>1. CASE n = 0
    BY <2>1, SubSeqEmpty
  <2>2. CASE n # 0
    <3>1. 1 \in 1 .. n /\ n \in 1 .. n
      BY <1>1, <2>2
    <3>. QED  BY <3>1, SubSeqOfConcat1
  <2>. QED  BY <2>1, <2>2
<1>5. Files!IsPrefix(new, p)
  <2>. HIDE DEF p, n
  <2>1. Len(new) <= Len(p)
    BY <1>1, <1>2 DEF n
  <2>. QED  BY <1>4, <2>1 DEF Files!IsPrefix, n
<1>. QED  BY <1>2, <1>3, <1>5

LEMMA RestOfPath ==
    ASSUME NEW p \in Seq(Entries), NEW n \in Nat
    PROVE  SubSeq(p, n + 1, Len(p)) \in Seq(Entries)
<1>1. Len(p) \in Nat /\ \A i \in n + 1 .. Len(p) : p[i] \in Entries
  BY LenProperties, ElementOfSeq
<1>. QED  BY <1>1, SubSeqProperties

LEMMA FromRest ==
    ASSUME NEW s \in Seq(Entries), NEW old \in Seq(Entries)
    PROVE  /\ SubSeq(s, 1, 2) \o old \in Seq(Entries) \/ Len(s) < 2
           /\ Len(s) > 1 => Len(SubSeq(s, 1, 2) \o old) \in Nat
<1>1. ASSUME Len(s) > 1 PROVE SubSeq(s, 1, 2) \o old \in Seq(Entries)
  <2>1. \A i \in 1 .. 2 : s[i] \in Entries
    BY <1>1, LenProperties, ElementOfSeq
  <2>2. SubSeq(s, 1, 2) \in Seq(Entries)
    BY <2>1, SubSeqProperties
  <2>. QED  BY <2>2, ConcatProperties
<1>2. Len(s) \in Nat
  BY LenProperties
<1>. QED  BY <1>1, <1>2, LenProperties

LEMMA RenameMoves ==
    ASSUME ffDisk \subseteq Seq(Entries), NEW old \in Seq(Entries), NEW new \in Seq(Entries), Len(new) > 2,
           \A p \in ffDisk : ~Files!IsPrefix(new, p)
    PROVE  LET from == SubSeq(new, 1, 2) \o old
               moved == Files!Renamed(old, new)
           IN /\ moved \subseteq Seq(Entries)
              /\ ffDisk \ moved = {p \in ffDisk : Files!IsPrefix(from, p)}
              /\ \A p \in moved \ ffDisk : SubSeq(p, 1, 2) = SubSeq(new, 1, 2)
<1>. DEFINE from == SubSeq(new, 1, 2) \o old
            Moved(p) == IF Files!IsPrefix(from, p) THEN new \o SubSeq(p, Len(from) + 1, Len(p)) ELSE p
<1>1. Files!Renamed(old, new) = {Moved(p) : p \in ffDisk}
  BY DEF Files!Renamed
<1>2. Len(from) \in Nat
  BY FromRest
<1>. HIDE DEF from
<1>3. ASSUME NEW p \in ffDisk, Files!IsPrefix(from, p)
      PROVE  /\ Moved(p) \in Seq(Entries) /\ Moved(p) \notin ffDisk
             /\ SubSeq(Moved(p), 1, 2) = SubSeq(new, 1, 2)
  <2>. DEFINE rest == SubSeq(p, Len(from) + 1, Len(p))
  <2>1. rest \in Seq(Entries)
    BY <1>2, RestOfPath
  <2>2. Moved(p) = new \o rest
    BY <1>3
  <2>. HIDE DEF rest, Moved
  <2>. QED  BY <2>1, <2>2, PathMoved
<1>4. ASSUME NEW p \in ffDisk, ~Files!IsPrefix(from, p) PROVE Moved(p) = p
  BY <1>4
<1>. HIDE DEF Moved
<1>5. {Moved(p) : p \in ffDisk} \subseteq Seq(Entries)
  BY <1>3, <1>4
<1>6. ffDisk \ {Moved(p) : p \in ffDisk} = {p \in ffDisk : Files!IsPrefix(from, p)}
  BY <1>3, <1>4
<1>7. \A p \in {Moved(q) : q \in ffDisk} \ ffDisk : SubSeq(p, 1, 2) = SubSeq(new, 1, 2)
  BY <1>3, <1>4
<1>. QED  BY <1>1, <1>5, <1>6, <1>7 DEF from

\* Only a rename adds to the files and takes the name, and it moves what was named.
LEMMA RntoMeant ==
    ASSUME FilesAssumption, NamesSound, NEW d \in Slots, NEW arg \in Arguments[d], Files!Rnto(d, arg)
    PROVE  NamesSound' /\ Files!RenameMeant
<1>. DEFINE new == Files!FileSystem_BuildPath(d, arg)
<1>1. new \in Seq(Entries)
  BY WhereTo
<1>2. /\ ffNamed' = [ffNamed EXCEPT ![d] = IF ffDisk' = ffDisk THEN @ ELSE Files!Nothing]
      /\ ffCwd' = ffCwd /\ ffBuffer' = ffBuffer
      /\ \/ /\ Len(new) > 2 /\ \A p \in ffDisk : ~Files!IsPrefix(new, p)
            /\ ffDisk' = Files!Renamed(ffBuffer, new)
         \/ ffDisk' = ffDisk
  BY DEF Files!Rnto
<1>. HIDE DEF new
<1>3. /\ ffDisk \subseteq Seq(Entries) /\ ffBuffer \in Seq(Entries)
      /\ ffNamed \in [Slots -> Seq(Entries)] /\ ffCwd \in [Slots -> Seq(Entries)]
      /\ Files!Nothing \in Seq(Entries)
  BY NamesOfNothing DEF NamesSound
<1>4. ffDisk' \subseteq Seq(Entries)
  BY <1>1, <1>2, <1>3, RenameMoves
<1>5. /\ ffNamed' \in [Slots -> Seq(Entries)]
      /\ \A c \in Slots : ffNamed'[c] \in {ffNamed[c], Files!Nothing}
      /\ \A c \in Slots : ffNamed'[c] = ffNamed[c] \/ (c = d /\ ffDisk' # ffDisk)
  BY <1>2, <1>3
<1>6. NamesSound'
  BY <1>2, <1>3, <1>4, <1>5 DEF NamesSound, Files!Remembered, Files!Local
<1>7. ASSUME NEW c \in Slots, Len(ffNamed[c]) > 1, ffNamed[c] # Files!Nothing, ffNamed'[c] = Files!Nothing,
             NEW p \in ffDisk' \ ffDisk, SubSeq(p, 1, 2) = SubSeq(ffNamed[c], 1, 2)
      PROVE  ffDisk \ ffDisk' = {q \in ffDisk : Files!IsPrefix(ffNamed[c], q)}
  <2>1. /\ Len(new) > 2 /\ \A q \in ffDisk : ~Files!IsPrefix(new, q)
        /\ ffDisk' = Files!Renamed(ffBuffer, new)
    BY <1>2, <1>7
  <2>2. SubSeq(p, 1, 2) = SubSeq(new, 1, 2)
    BY <1>1, <1>3, <1>7, <2>1, RenameMoves
  <2>3. ffBuffer = Files!Local(ffNamed[c])
    BY <1>7 DEF NamesSound, Files!Remembered
  <2>4. SubSeq(new, 1, 2) \o ffBuffer = ffNamed[c]
    BY <1>3, <1>7, <2>2, <2>3, UnitAndRest
  <2>5. ffDisk \ Files!Renamed(ffBuffer, new)
          = {q \in ffDisk : Files!IsPrefix(SubSeq(new, 1, 2) \o ffBuffer, q)}
    BY <1>1, <1>3, <2>1, RenameMoves
  <2>. QED  BY <2>1, <2>4, <2>5
<1>8. Files!RenameMeant
  BY <1>7 DEF Files!RenameMeant
<1>. QED  BY <1>6, <1>8

LEMMA NamesSteps ==
    ASSUME FilesAssumption, NamesSound, [Files!Next]_ffVars
    PROVE  NamesSound' /\ [Files!RenameMeant]_ffVars
<1>. DEFINE Kept == \A c \in Slots : ffNamed'[c] = ffNamed[c] \/ ffNamed[c] = Files!Nothing
            Lost == ffDisk' \subseteq ffDisk
<1>1. Kept \/ Lost => Files!RenameMeant
  BY DEF Files!RenameMeant
<1>2. /\ ffDisk \subseteq Seq(Entries) /\ ffBuffer \in Seq(Entries)
      /\ ffNamed \in [Slots -> Seq(Entries)] /\ ffCwd \in [Slots -> Seq(Entries)]
      /\ Files!Nothing \in Seq(Entries) /\ Files!Text \in Seq(Entries)
  BY NamesOfNothing DEF NamesSound
<1>. HIDE DEF Kept, Lost
<1>3. ASSUME UNCHANGED <<ffCwd, ffBuffer, ffNamed>>, ffDisk' \subseteq Seq(Entries)
      PROVE  NamesSound'
  BY <1>3 DEF NamesSound, Files!Remembered, Files!Local
<1>4. ASSUME Files!Overwritten, UNCHANGED <<ffCwd, ffDisk>>
      PROVE  NamesSound' /\ Files!RenameMeant
  <2>1. ffNamed' \in [Slots -> Seq(Entries)] /\ \A c \in Slots : ffNamed'[c] = Files!Nothing
    BY <1>2, <1>4 DEF Files!Overwritten
  <2>. QED  BY <1>1, <1>2, <1>4, <2>1 DEF NamesSound, Files!Overwritten, Lost
<1>5. ASSUME UNCHANGED ffDisk PROVE Files!RenameMeant
  BY <1>1, <1>5 DEF Lost
<1>6. CASE UNCHANGED ffVars
  BY <1>2, <1>3, <1>6 DEF ffVars
<1>7. CASE Files!Pwd
  BY <1>4, <1>7 DEF Files!Pwd
<1>8. ASSUME NEW c \in Slots, NEW arg \in Arguments[c], Files!Command(c, arg)
      PROVE  NamesSound' /\ Files!RenameMeant
  <2>. DEFINE path == Files!FileSystem_BuildPath(c, arg)
  <2>1. path \in Seq(Entries)
    BY WhereTo
  <2>2. ASSUME NEW kind, Files!Transfer(c, arg, kind) PROVE NamesSound' /\ Files!RenameMeant
    <3>1. UNCHANGED <<ffCwd, ffBuffer, ffNamed>> /\ ffDisk' \in {ffDisk, ffDisk \cup {path}}
      BY <2>2 DEF Files!Transfer
    <3>. HIDE DEF path
    <3>. QED  BY <1>1, <1>2, <1>3, <2>1, <3>1 DEF Kept
  <2>3. CASE Files!List(c, arg)
    BY <1>2, <1>3, <1>5, <2>3 DEF Files!List
  <2>4. CASE Files!Change(c, arg)
    <3>1. UNCHANGED <<ffCwd, ffBuffer, ffNamed>> /\ ffDisk' \subseteq ffDisk
      BY <2>4 DEF Files!Change
    <3>. QED  BY <1>1, <1>2, <1>3, <3>1 DEF Lost
  <2>5. CASE Files!Rnfr(c, arg)
    <3>1. /\ UNCHANGED <<ffCwd, ffDisk>>
          /\ \/ ffNamed' = [ffNamed EXCEPT ![c] = Files!Nothing] /\ UNCHANGED ffBuffer
             \/ /\ ffBuffer' = Files!Remembered(path)
                /\ ffNamed' = [d \in Slots |-> IF d = c THEN path ELSE Files!Nothing]
      BY <2>5 DEF Files!Rnfr
    <3>2. Files!Remembered(path) \in Seq(Entries)
      <4>. HIDE DEF path
      <4>1. SubSeq(path, 2 + 1, Len(path)) \in Seq(Entries)
        BY <2>1, RestOfPath
      <4>2. SubSeq(path, 3, Len(path)) \in Seq(Entries)
        BY <4>1
      <4>. QED  BY <2>1, <4>2 DEF Files!Remembered, Files!Local
    <3>. HIDE DEF path
    <3>3. CASE ffNamed' = [ffNamed EXCEPT ![c] = Files!Nothing] /\ UNCHANGED ffBuffer
      <4>1. /\ ffNamed' \in [Slots -> Seq(Entries)]
            /\ \A d \in Slots : ffNamed'[d] \in {ffNamed[d], Files!Nothing}
        BY <1>2, <3>3
      <4>. QED  BY <1>2, <1>5, <3>1, <3>3, <4>1 DEF NamesSound, Files!Remembered, Files!Local
    <3>4. CASE /\ ffBuffer' = Files!Remembered(path)
               /\ ffNamed' = [d \in Slots |-> IF d = c THEN path ELSE Files!Nothing]
      <4>1. /\ ffNamed' \in [Slots -> Seq(Entries)]
            /\ \A d \in Slots : ffNamed'[d] # Files!Nothing => ffNamed'[d] = path
        BY <1>2, <2>1, <3>4
      <4>. QED  BY <1>2, <1>5, <3>1, <3>2, <3>4, <4>1 DEF NamesSound, Files!Remembered, Files!Local
    <3>. QED  BY <3>1, <3>3, <3>4
  <2>6. CASE Files!Rnto(c, arg)
    BY <2>6, RntoMeant
  <2>7. CASE Files!Size(c, arg)
    <3>1. UNCHANGED <<ffCwd, ffDisk>> /\ (Files!Overwritten \/ UNCHANGED <<ffBuffer, ffNamed>>)
      BY <2>7 DEF Files!Size
    <3>. QED  BY <1>2, <1>3, <1>4, <1>5, <3>1
  <2>8. CASE Files!Site(c, arg)
    BY <1>4, <2>8 DEF Files!Site
  <2>. QED  BY <1>8, <2>2, <2>3, <2>4, <2>5, <2>6, <2>7, <2>8 DEF Files!Command
<1>9. ASSUME NEW c \in Slots, NEW arg \in Directories[c], Files!Cwd(c, arg)
      PROVE  NamesSound' /\ Files!RenameMeant
  <2>1. /\ UNCHANGED <<ffBuffer, ffDisk, ffNamed>>
        /\ ffCwd' = [ffCwd EXCEPT ![c] = Files!FileSystem_ChangeDir(c, arg)]
    BY <1>9 DEF Files!Cwd
  <2>2. ffCwd' \in [Slots -> Seq(Entries)]
    BY <1>2, <2>1, WhereTo
  <2>. QED  BY <1>2, <1>5, <2>1, <2>2 DEF NamesSound, Files!Remembered, Files!Local
<1>10. ASSUME NEW c \in Slots, Files!Data(c) \/ Files!DataUnits(c)
       PROVE  NamesSound' /\ Files!RenameMeant
  <2>1. UNCHANGED <<ffCwd, ffBuffer, ffDisk, ffNamed>>
    BY <1>10 DEF Files!Data, Files!End, Files!DataUnits
  <2>. QED  BY <1>2, <1>3, <1>5, <2>1
<1>. QED  BY <1>6, <1>7, <1>8, <1>9, <1>10 DEF Files!Next

LEMMA NamesBegin == FilesAssumption /\ Files!Init => NamesSound
<1>. SUFFICES ASSUME FilesAssumption, Files!Init PROVE NamesSound
  OBVIOUS
<1>1. <<>> \in Seq(Entries) /\ Files!Nothing \in Seq(Entries) /\ Files!Text \in Seq(Entries)
  BY NamesOfNothing
<1>. QED  BY <1>1 DEF NamesSound, Files!Init, FilesAssumption

-------------------------------------------------------------------------------
(* The components side by side                                                 *)

LEMMA PartsStep ==
    ASSUME [Next]_allVars
    PROVE  [Line!Next]_lnVars /\ [Files!Next]_ffVars /\ [Rpc!Next]_rpcVars /\ [Radio!Next]_rdVars
<1>1. CASE UNCHANGED allVars
  BY <1>1 DEF allVars
<1>2. ASSUME NEW p \in Parts, Only(p)
      PROVE  /\ p # "line" => UNCHANGED lnVars
             /\ p # "files" => UNCHANGED ffVars
             /\ p # "rpc" => UNCHANGED rpcVars
             /\ p # "radio" => UNCHANGED rdVars
  BY <1>2 DEF Only
<1>3. \/ \E p \in Parts \ {"line", "files", "rpc", "radio"} : Only(p)
      \/ Only("line") /\ Line!Next
      \/ Only("files") /\ Files!Next
      \/ Only("rpc") /\ Rpc!Next
      \/ Only("radio") /\ Radio!Next
      \/ UNCHANGED allVars
  BY DEF Next, Parts
<1>. QED  BY <1>1, <1>2, <1>3 DEF Parts

(* In every behaviour, however many clients there are, whatever they send and  *)
(* however it is cut into pieces: commands are executed whole and in order,    *)
(* each client's transfer moves what it asked for, and a rename moves what was *)
(* named (FtpClient_OnCommand, FtpCommands.c, FileSystem.c).                   *)
THEOREM RequestsMeant == Spec => FtpRequestsMeant
<1>0. LineAssumption /\ LineSize \in Int /\ FilesAssumption
  BY ServicesAssumption
<1>. DEFINE Inv == LineInv /\ ContextsSound /\ NamesSound
<1>1. Init => Inv
  BY <1>0, LineBegins, FilesBegin, NamesBegin DEF Init
<1>2. Inv /\ [Next]_allVars => Inv'
  BY <1>0, PartsStep, LineSteps, ContextsSteps, NamesSteps
<1>3. Inv /\ [Next]_allVars => [Files!RenameMeant]_(Files!ftpFilesVars)
  BY <1>0, PartsStep, NamesSteps DEF Files!ftpFilesVars, ffVars
<1>4. Inv => Line!CommandsWhole /\ Files!HandlesSound
  BY LineMeant, HandlesMeant
<1>. HIDE DEF Inv
<1>. QED  BY <1>1, <1>2, <1>3, <1>4, PTL DEF Spec, FtpRequestsMeant, Files!RenamesMeant

-------------------------------------------------------------------------------
(* Radio: the rows and the tables behind them                                  *)

RowsOfNumbers == [items : Seq(Nat), sel : Nat, start : Nat, marked : {{}}]

\* What the rows say is what the tables hold: those of the stations always, those of
\* the bookmarks while the window is open and its list is not stale.
RowsSound ==
    /\ rdIsOpen \in BOOLEAN /\ rdStale \in BOOLEAN /\ rdToggle \in {"on", "off"}
    /\ rdStations \in Seq(Nat) /\ rdBookmarks \in Seq(Nat)
    /\ rdCache \in StationLists \cup {Radio!NoFile} /\ rdBmFile \in BookmarkFiles
    /\ rdList \in RowsOfNumbers /\ Radio!CursorInList
    /\ rdToggle = "off" /\ rdList.items # <<>> => rdList.items = rdStations
    /\ rdToggle = "on" /\ rdIsOpen /\ ~rdStale => rdList.items = rdBookmarks

LEMMA RowsFilled ==
    ASSUME RadioAssumption, NEW items \in Seq(Nat)
    PROVE  LET rows == Radio!Filled(items)
           IN /\ rows \in RowsOfNumbers /\ rows.items = items
              /\ Radio!CursorSeen(rows)
<1>. DEFINE rows == Radio!Filled(items)
<1>1. rows \in RowsOfNumbers /\ rows.items = items /\ rows.sel = 0 /\ rows.start = 0
  BY DEF Radio!Filled, Radio!NoRows, RowsOfNumbers
<1>2. items # <<>> => 0 < Len(items)
  BY EmptySeq
<1>. HIDE DEF rows
<1>3. rows \in RowsOfNumbers /\ rows.items = items /\ Radio!CursorSeen(rows)
  BY <1>1, <1>2 DEF Radio!CursorSeen, RadioAssumption
<1>. QED  BY <1>3 DEF rows

LEMMA RowsMoved ==
    ASSUME RadioAssumption, NEW rows \in RowsOfNumbers, Radio!CursorSeen(rows),
           NEW btn \in Radio!MoveButtons, Radio!CanMove(rows, btn)
    PROVE  LET moved == Radio!Moved(rows, btn)
           IN /\ moved \in RowsOfNumbers /\ moved.items = rows.items
              /\ Radio!CursorSeen(moved)
<1>. DEFINE pos == CASE btn = "DOWN" -> rows.sel + 1
                     [] btn = "UP"   -> rows.sel - 1
                     [] btn = "L1"   -> 0
                     [] btn = "R1"   -> Len(rows.items) - 1
            first == IF pos < rows.start THEN pos
                     ELSE IF pos >= rows.start + NumDraw THEN pos - NumDraw + 1 ELSE rows.start
            moved == Radio!Moved(rows, btn)
            L == Len(rows.items)
<1>1. moved = [rows EXCEPT !.sel = pos, !.start = first]
  BY DEF Radio!Moved, Radio!SetCursor
<1>2. L \in Nat \ {0} /\ rows.sel \in Nat /\ rows.start \in Nat /\ NumDraw \in Nat \ {0}
  BY EmptySeq DEF RowsOfNumbers, RadioAssumption, Radio!CanMove
<1>3. rows.sel < L /\ (btn = "DOWN" => rows.sel < L - 1) /\ (btn = "UP" => rows.sel > 0)
  BY DEF Radio!CursorSeen, Radio!CanMove
<1>. HIDE DEF L
<1>4. pos \in Nat /\ pos < L
  <2>1. CASE btn = "DOWN"  BY <1>2, <1>3, <2>1
  <2>2. CASE btn = "UP"    BY <1>2, <1>3, <2>2
  <2>3. CASE btn = "L1"    BY <1>2, <2>3
  <2>4. CASE btn = "R1"    BY <1>2, <2>4 DEF L
  <2>. QED  BY <2>1, <2>2, <2>3, <2>4 DEF Radio!MoveButtons
<1>. HIDE DEF pos
<1>5. first \in Nat /\ first <= pos /\ pos < first + NumDraw
  BY <1>2, <1>4
<1>. HIDE DEF first, moved
<1>6. moved \in RowsOfNumbers /\ moved.items = rows.items /\ moved.sel = pos /\ moved.start = first
  BY <1>1, <1>4, <1>5 DEF RowsOfNumbers
<1>7. Radio!CursorSeen(moved)
  BY <1>4, <1>5, <1>6 DEF Radio!CursorSeen, L
<1>. QED  BY <1>6, <1>7 DEF moved

LEMMA RadioBegins == RadioAssumption /\ Radio!Init => RowsSound
<1>. SUFFICES ASSUME RadioAssumption, Radio!Init PROVE RowsSound
  OBVIOUS
<1>1. <<>> \in Seq(Nat) /\ rdList = Radio!Filled(<<>>)
  BY DEF Radio!Init, Radio!Filled, Radio!NoRows
<1>2. rdList \in RowsOfNumbers /\ rdList.items = <<>> /\ Radio!CursorInList
  BY <1>1, RowsFilled DEF Radio!CursorInList
<1>. QED  BY <1>1, <1>2 DEF Radio!Init, RowsSound

\* Filling the list from a table of stations is sound wherever that table ends up.
LEMMA StationsShown ==
    ASSUME RadioAssumption, RowsSound, rdStations' \in Seq(Nat), Radio!RefreshStationList(rdStations'),
           rdIsOpen' \in BOOLEAN, rdBookmarks' \in Seq(Nat),
           rdCache' \in StationLists \cup {Radio!NoFile}, rdBmFile' \in BookmarkFiles
    PROVE  RowsSound'
<1>1. rdList' = Radio!Filled(rdStations') /\ rdToggle' = "off" /\ rdStale' = FALSE
  BY DEF Radio!RefreshStationList
<1>2. rdList' \in RowsOfNumbers /\ rdList'.items = rdStations' /\ Radio!CursorSeen(rdList')
  BY <1>1, RowsFilled
<1>. QED  BY <1>1, <1>2 DEF RowsSound, Radio!CursorInList, Radio!CursorSeen

LEMMA SortsNumbers ==
    ASSUME NEW table \in Seq(Nat), NEW by, NEW t \in Radio!Sorted(table, by)
    PROVE  t \in Seq(Nat)
<1>1. t \in [1 .. Len(table) -> Radio!ToSet(table)]
  BY DEF Radio!Sorted
<1>2. Len(table) \in Nat /\ Radio!ToSet(table) \subseteq Nat
  BY LenProperties, ElementOfSeq DEF Radio!ToSet
<1>3. t \in [1 .. Len(table) -> Nat]
  BY <1>1, <1>2
<1>. QED  BY <1>2, <1>3

LEMMA RadioSteps ==
    ASSUME RadioAssumption, RowsSound, [Radio!Next]_rdVars
    PROVE  RowsSound' /\ [Radio!RowIsPlayed]_rdVars
<1>. DEFINE Silent == UNCHANGED rdHeard /\ UNCHANGED rdLabel
<1>1. Silent => Radio!RowIsPlayed
  BY DEF Radio!RowIsPlayed
<1>2. /\ rdStations \in Seq(Nat) /\ rdBookmarks \in Seq(Nat) /\ rdIsOpen \in BOOLEAN
      /\ rdCache \in StationLists \cup {Radio!NoFile} /\ rdBmFile \in BookmarkFiles
      /\ BookmarkFiles \subseteq Seq(Nat) /\ StationLists \subseteq Seq(Nat) /\ <<>> \in Seq(Nat)
  BY DEF RowsSound, RadioAssumption
<1>3. CASE UNCHANGED rdVars
  BY <1>3 DEF rdVars, RowsSound, Radio!CursorInList, Radio!CursorSeen
<1>4. CASE Radio!Open
  <2>1. Radio!RowIsPlayed
    BY <1>1, <1>4 DEF Radio!Open
  <2>2. ASSUME rdCache # Radio!NoFile, NEW table \in Radio!Parsed(rdCache), rdStations' = table,
               Radio!RefreshStationList(table)
        PROVE  RowsSound'
    <3>1. table \in Seq(Nat)
      BY <1>2, <2>2 DEF Radio!Parsed
    <3>. QED  BY <1>2, <1>4, <2>2, <3>1, StationsShown DEF Radio!Open
  <2>3. ASSUME rdStale' = (rdStale \/ (rdToggle = "on" /\ rdList.items # rdBmFile)),
               UNCHANGED <<rdStations, rdList, rdToggle>>
        PROVE  RowsSound'
    <3>1. /\ rdIsOpen' = TRUE /\ rdBookmarks' = rdBmFile
          /\ UNCHANGED <<rdStations, rdList, rdToggle, rdCache, rdBmFile>>
      BY <1>4, <2>3 DEF Radio!Open
    <3>2. rdStale' \in BOOLEAN /\ (rdToggle = "on" /\ ~rdStale' => rdList.items = rdBmFile)
      BY <2>3 DEF RowsSound
    <3>3. Radio!CursorInList'
      BY <3>1 DEF RowsSound, Radio!CursorInList, Radio!CursorSeen
    <3>4. rdToggle' = "off" /\ rdList'.items # <<>> => rdList'.items = rdStations'
      BY <3>1 DEF RowsSound
    <3>5. rdToggle' = "on" /\ ~rdStale' => rdList'.items = rdBookmarks'
      BY <3>1, <3>2
    <3>6. /\ rdIsOpen' \in BOOLEAN /\ rdStale' \in BOOLEAN /\ rdToggle' \in {"on", "off"}
          /\ rdStations' \in Seq(Nat) /\ rdBookmarks' \in Seq(Nat)
          /\ rdCache' \in StationLists \cup {Radio!NoFile} /\ rdBmFile' \in BookmarkFiles
          /\ rdList' \in RowsOfNumbers
      BY <1>2, <3>1, <3>2 DEF RowsSound
    <3>. QED  BY <3>3, <3>4, <3>5, <3>6 DEF RowsSound
  <2>. QED  BY <1>4, <2>1, <2>2, <2>3 DEF Radio!Open
<1>5. CASE Radio!Close
  BY <1>1, <1>2, <1>5 DEF Radio!Close, RowsSound, Radio!CursorInList, Radio!CursorSeen
<1>6. CASE Radio!Download
  <2>1. PICK file \in StationLists : \E table \in Radio!Parsed(file) :
           rdStations' = table /\ Radio!RefreshStationList(table) /\ rdCache' \in {rdCache, file}
    BY <1>6 DEF Radio!Download
  <2>2. rdStations' \in Seq(Nat) /\ Radio!RefreshStationList(rdStations')
    BY <1>2, <2>1 DEF Radio!Parsed
  <2>3. RowsSound'
    BY <1>2, <1>6, <2>1, <2>2, StationsShown DEF Radio!Download
  <2>. QED  BY <1>1, <1>6, <2>3 DEF Radio!Download
<1>7. CASE Radio!FiveMinutesPass \/ Radio!WriteBookmarks
  BY <1>1, <1>2, <1>7
  DEF Radio!FiveMinutesPass, Radio!WriteBookmarks, RowsSound, Radio!CursorInList, Radio!CursorSeen
<1>8. ASSUME NEW by, Radio!Sort(by) PROVE RowsSound' /\ Radio!RowIsPlayed
  <2>1. PICK t \in Radio!Sorted(rdStations, by) : rdStations' = t /\ Radio!RefreshStationList(t)
    BY <1>8 DEF Radio!Sort
  <2>2. t \in Seq(Nat)
    BY <1>2, SortsNumbers
  <2>3. RowsSound'
    BY <1>2, <1>8, <2>1, <2>2, StationsShown DEF Radio!Sort
  <2>. QED  BY <1>1, <1>8, <2>3 DEF Radio!Sort
<1>9. CASE Radio!ShowBookmarks
  <2>1. /\ rdList' = Radio!Filled(rdBookmarks) /\ rdToggle' = "on" /\ rdStale' = FALSE
        /\ UNCHANGED <<rdIsOpen, rdStations, rdBookmarks, rdCache, rdBmFile>> /\ Silent
    BY <1>9 DEF Radio!ShowBookmarks, Radio!RefreshBookmarkList
  <2>2. rdList' \in RowsOfNumbers /\ rdList'.items = rdBookmarks /\ Radio!CursorSeen(rdList')
    BY <1>2, <2>1, RowsFilled
  <2>. QED  BY <1>1, <1>2, <2>1, <2>2 DEF RowsSound, Radio!CursorInList, Radio!CursorSeen
<1>10. CASE Radio!ShowStations
  <2>1. RowsSound'
    BY <1>2, <1>10, StationsShown DEF Radio!ShowStations
  <2>. QED  BY <1>1, <1>10, <2>1 DEF Radio!ShowStations
<1>11. ASSUME NEW btn \in Radio!MoveButtons, Radio!Move(btn) PROVE RowsSound' /\ Radio!RowIsPlayed
  <2>1. rdList' = Radio!Moved(rdList, btn) /\ Radio!CanMove(rdList, btn) /\ rdList.items # <<>>
    BY <1>11 DEF Radio!Move, Radio!CanMove
  <2>2. rdList' \in RowsOfNumbers /\ rdList'.items = rdList.items /\ Radio!CursorSeen(rdList')
    BY <2>1, RowsMoved DEF RowsSound, Radio!CursorInList
  <2>3. UNCHANGED <<rdIsOpen, rdStations, rdBookmarks, rdToggle, rdHeard, rdCache, rdBmFile, rdStale>>
    BY <1>11 DEF Radio!Move
  <2>4. RowsSound'
    BY <1>2, <2>2, <2>3 DEF RowsSound, Radio!CursorInList, Radio!CursorSeen
  <2>5. rdLabel' # rdLabel => rdLabel' = Radio!GetSel(rdList')
    BY <1>11, <2>1, <2>2 DEF Radio!Move, RowsSound, Radio!GetSel
  <2>. QED  BY <2>3, <2>4, <2>5 DEF Radio!RowIsPlayed
<1>12. CASE Radio!Click
  <2>1. RowsSound'
    BY <1>12 DEF Radio!Click, RowsSound, Radio!CursorInList, Radio!CursorSeen
  <2>2. rdHeard' # rdHeard /\ ~rdStale => rdHeard' = Radio!GetSel(rdList)
    BY <1>12 DEF Radio!Click, RowsSound, Radio!GetSel
  <2>. QED  BY <1>12, <2>1, <2>2 DEF Radio!Click, Radio!RowIsPlayed
<1>13. CASE Radio!NewSkin
  <2>1. /\ rdList' = Radio!Filled(<<>>) /\ rdToggle' = "off" /\ rdStale' = FALSE
        /\ UNCHANGED <<rdIsOpen, rdStations, rdBookmarks, rdHeard, rdCache, rdBmFile>> /\ ~rdIsOpen
    BY <1>13 DEF Radio!NewSkin, Radio!Filled, Radio!NoRows
  <2>2. rdList' \in RowsOfNumbers /\ rdList'.items = <<>> /\ Radio!CursorSeen(rdList')
    BY <1>2, <2>1, RowsFilled
  <2>. QED  BY <1>2, <2>1, <2>2 DEF RowsSound, Radio!CursorInList, Radio!CursorSeen, Radio!RowIsPlayed
<1>. QED
  BY <1>3, <1>4, <1>5, <1>6, <1>7, <1>8, <1>9, <1>10, <1>11, <1>12, <1>13 DEF Radio!Next

(* Whatever the directory and the bookmarks hold, and however the list was     *)
(* filled, sorted and left: a click plays the row under the cursor, the label  *)
(* names it, and the cursor is on a row that is drawn (GUI_CB_Radio,           *)
(* GUI_Ctrl_List_SetCursor).                                                   *)
THEOREM StationsAreMeant == Spec => StationsMeant
<1>1. Init => RowsSound
  BY ServicesAssumption, RadioBegins DEF Init
<1>2. RowsSound /\ [Next]_allVars => RowsSound' /\ [Radio!RowIsPlayed]_(Radio!radioVars)
  BY ServicesAssumption, PartsStep, RadioSteps DEF Radio!radioVars, rdVars
<1>3. RowsSound => Radio!CursorInList
  BY DEF RowsSound
<1>. QED  BY <1>1, <1>2, <1>3, PTL DEF Spec, StationsMeant, Radio!RowsArePlayed

-------------------------------------------------------------------------------
(* SocketRpc: the bytes of a call                                              *)

LEMMA SmallerOfTwo ==
    ASSUME NEW x \in Int, NEW y \in Int
    PROVE  Rpc!Min({x, y}) = IF x <= y THEN x ELSE y
BY DEF Rpc!Min

LEMMA BlocksLie ==
    ASSUME RpcAssumption, NEW b \in Nat
    PROVE  /\ Rpc!ToNextBlock(b) \in 0 .. Block - 1
           /\ \E k \in Nat : b + Rpc!ToNextBlock(b) = Block * k
           /\ \E k \in Nat : Rpc!RoundDown(b) = Block * k
           /\ Rpc!RoundDown(b) <= b /\ b < Rpc!RoundDown(b) + Block
<1>. DEFINE q == b \div Block
            r == b % Block
<1>1. Block \in Nat \ {0}
  BY DEF RpcAssumption
<1>2. q \in Nat /\ r \in 0 .. Block - 1 /\ b = Block * q + r
  BY <1>1
<1>3. Rpc!RoundDown(b) = q * Block
  BY DEF Rpc!RoundDown
<1>4. Rpc!ToNextBlock(b) = IF r = 0 THEN 0 ELSE Block - r
  <2>1. (Block - 0) % Block = 0
    BY <1>1
  <2>2. \A x \in 1 .. Block - 1 : (Block - x) % Block = Block - x
    BY <1>1
  <2>. HIDE DEF r, q
  <2>. QED  BY <1>2, <2>1, <2>2 DEF Rpc!ToNextBlock, r
<1>. HIDE DEF q, r
<1>5. q * Block = Block * q /\ Block * q \in Nat
  BY <1>1, <1>2
<1>6. Block * (q + 1) = Block * q + Block
  BY <1>1, <1>2
<1>7. \E k \in Nat : b + Rpc!ToNextBlock(b) = Block * k
  <2>1. CASE r = 0
    BY <1>2, <1>4, <1>5, <2>1
  <2>2. CASE r # 0
    <3>1. b + Rpc!ToNextBlock(b) = Block * (q + 1)
      BY <1>1, <1>2, <1>4, <1>5, <1>6, <2>2
    <3>. QED  BY <1>2, <3>1
  <2>. QED  BY <2>1, <2>2
<1>8. Rpc!RoundDown(b) <= b /\ b < Rpc!RoundDown(b) + Block
  <2>. DEFINE qB == Block * q
  <2>1. qB \in Nat /\ b = qB + r /\ Rpc!RoundDown(b) = qB
    BY <1>2, <1>3, <1>5
  <2>. HIDE DEF qB
  <2>. QED  BY <1>1, <1>2, <2>1
<1>9. \E k \in Nat : Rpc!RoundDown(b) = Block * k
  BY <1>2, <1>3, <1>5
<1>10. Rpc!ToNextBlock(b) \in 0 .. Block - 1
  BY <1>1, <1>2, <1>4
<1>. QED  BY <1>7, <1>8, <1>9, <1>10

\* Between two multiples of a block, there is nothing below the lower one.
LEMMA BodyNotNegative ==
    ASSUME RpcAssumption, NEW b \in Nat, NEW rlen \in Nat, rlen > Block
    PROVE  LET head == Rpc!ToNextBlock(b)
               end == Rpc!RoundDown(b + rlen)
           IN head \in 0 .. Block - 1 /\ end \in Nat /\ b + head <= end /\ end <= b + rlen
<1>. DEFINE head == Rpc!ToNextBlock(b)
            end == Rpc!RoundDown(b + rlen)
<1>1. Block \in Nat \ {0} /\ b + rlen \in Nat
  BY DEF RpcAssumption
<1>2. head \in 0 .. Block - 1 /\ \E k \in Nat : b + head = Block * k
  BY BlocksLie
<1>3. /\ \E k \in Nat : end = Block * k
      /\ end <= b + rlen /\ b + rlen < end + Block
  BY <1>1, BlocksLie
<1>. HIDE DEF head, end
<1>4. PICK i \in Nat : b + head = Block * i
  BY <1>2
<1>5. PICK k \in Nat : end = Block * k
  BY <1>3
<1>6. end \in Nat /\ b + head < end + Block
  BY <1>1, <1>2, <1>3, <1>5
<1>7. b + head <= end
  <2>1. Block * i < Block * (k + 1)
    <3>1. Block * (k + 1) = Block * k + Block
      BY <1>1
    <3>. QED  BY <1>4, <1>5, <1>6, <3>1
  <2>2. i < k + 1
    <3>1. SUFFICES ASSUME i >= k + 1 PROVE FALSE
      OBVIOUS
    <3>2. Block * i >= Block * (k + 1)
      <4>1. PICK d \in Nat : i = (k + 1) + d
        BY <3>1
      <4>2. Block * ((k + 1) + d) = Block * (k + 1) + Block * d /\ Block * d \in Nat
        BY <1>1
      <4>3. Block * (k + 1) \in Nat
        BY <1>1
      <4>. QED  BY <4>1, <4>2, <4>3
    <3>3. Block * i \in Nat /\ Block * (k + 1) \in Nat
      BY <1>1
    <3>. QED  BY <2>1, <3>2, <3>3
  <2>3. Block * i <= Block * k
    <3>1. PICK d \in Nat : k = i + d
      BY <2>2
    <3>2. Block * (i + d) = Block * i + Block * d /\ Block * d \in Nat /\ Block * i \in Nat
      BY <1>1
    <3>. QED  BY <3>1, <3>2
  <2>. QED  BY <1>4, <1>5, <2>3
<1>8. head \in 0 .. Block - 1 /\ end \in Nat /\ b + head <= end /\ end <= b + rlen
  BY <1>2, <1>3, <1>6, <1>7
<1>. QED  BY <1>8 DEF head, end

\* Head, blocks and tail make what was received.
LEMMA PiecesMakeWhole ==
    ASSUME RpcAssumption, NEW m, DOMAIN m \subseteq Int, NEW b \in Nat, NEW len \in Nat,
           NEW rlen \in Nat \ {0}, rlen <= len, NEW bytes \in Seq(Int), Len(bytes) = rlen
    PROVE  LET cut == Rpc!Split(b, len, bytes)
           IN Rpc!recv_intr(Rpc!Written(m, cut.abuffer, cut.body), cut.rests) = Rpc!Written(m, b, bytes)
<1>. DEFINE cut == Rpc!Split(b, len, bytes)
            one == Rpc!Written(m, cut.abuffer, cut.body)
            two == Rpc!Written(one, cut.rests.sbuf, cut.rests.sbuffer)
            three == Rpc!Written(two, cut.rests.ebuf, cut.rests.ebuffer)
            whole == Rpc!Written(m, b, bytes)
<1>1. /\ DOMAIN one = DOMAIN m /\ DOMAIN two = DOMAIN m /\ DOMAIN three = DOMAIN m
      /\ DOMAIN whole = DOMAIN m
      /\ three = [x \in DOMAIN m |-> three[x]] /\ whole = [x \in DOMAIN m |-> whole[x]]
  BY DEF Rpc!Written
<1>2. ASSUME NEW x \in DOMAIN m
      PROVE  /\ one[x] = IF x \in cut.abuffer .. (cut.abuffer + Len(cut.body) - 1)
                         THEN cut.body[x - cut.abuffer + 1] ELSE m[x]
             /\ two[x] = IF x \in cut.rests.sbuf .. (cut.rests.sbuf + Len(cut.rests.sbuffer) - 1)
                         THEN cut.rests.sbuffer[x - cut.rests.sbuf + 1] ELSE one[x]
             /\ three[x] = IF x \in cut.rests.ebuf .. (cut.rests.ebuf + Len(cut.rests.ebuffer) - 1)
                           THEN cut.rests.ebuffer[x - cut.rests.ebuf + 1] ELSE two[x]
             /\ whole[x] = IF x \in b .. (b + rlen - 1) THEN bytes[x - b + 1] ELSE m[x]
  <2>. HIDE DEF cut
  <2>. QED  BY <1>1 DEF Rpc!Written
<1>. HIDE DEF one, two, three, whole
<1>3. ASSUME NEW x \in DOMAIN m PROVE three[x] = whole[x]
  <2>1. CASE rlen <= Block
    <3>1. /\ cut.abuffer = 0 /\ cut.body = <<>>
          /\ cut.rests.sbuf = b /\ cut.rests.sbuffer = bytes
          /\ cut.rests.ebuf = 0 /\ cut.rests.ebuffer = <<>>
      BY <2>1 DEF Rpc!Split, Rpc!NoRests
    <3>. HIDE DEF cut
    <3>2. Len(cut.body) = 0 /\ Len(cut.rests.ebuffer) = 0 /\ Len(cut.rests.sbuffer) = rlen
      BY <3>1
    <3>3. one[x] = m[x] /\ three[x] = two[x]
      BY <1>2, <3>1, <3>2
    <3>. QED  BY <1>2, <3>1, <3>2, <3>3
  <2>2. CASE rlen > Block
    <3>. DEFINE head == Rpc!ToNextBlock(b)
                end == Rpc!RoundDown(b + rlen)
                body == end - (b + head)
    <3>1. head \in 0 .. Block - 1 /\ end \in Nat /\ b + head <= end /\ end <= b + rlen /\ Block \in Nat
      BY <2>2, BodyNotNegative DEF RpcAssumption
    <3>2. Rpc!HeadSize(b, len) = head
      BY <2>2 DEF Rpc!HeadSize, RpcAssumption
    <3>3. /\ cut.abuffer = b + head
          /\ cut.body = SubSeq(bytes, Block - (Block - head) + 1, Block - (Block - head) + body)
          /\ cut.rests.sbuf = b /\ cut.rests.sbuffer = SubSeq(bytes, 1, head)
          /\ cut.rests.ebuf = end
          /\ cut.rests.ebuffer = SubSeq(bytes, Block + body - (Block - head) + 1, rlen)
      <4>1. ~(rlen <= Block)
        BY <2>2, <3>1
      <4>2. cut = [rests |-> [ssize |-> head, sbuf |-> b,
                              sbuffer |-> SubSeq(bytes, 1, head),
                              esize |-> b + rlen - end, ebuf |-> end,
                              ebuffer |-> SubSeq(bytes, Block + body - (Block - head) + 1, rlen)],
                   abuffer |-> b + head,
                   body |-> SubSeq(bytes, Block - (Block - head) + 1, Block - (Block - head) + body)]
        BY <3>2, <4>1, Zenon DEF Rpc!Split
      <4>. HIDE DEF head, body, end, cut
      <4>. QED  BY <4>2
    <3>. HIDE DEF head, end, cut
    <3>4. /\ body \in Nat /\ head + body <= rlen /\ head + body \in Nat
          /\ Block - (Block - head) + 1 = head + 1
          /\ Block - (Block - head) + body = head + body
          /\ Block + body - (Block - head) + 1 = head + body + 1
      BY <3>1
    <3>. HIDE DEF body
    <3>6. /\ Len(cut.rests.sbuffer) = head
          /\ \A i \in 1 .. head : cut.rests.sbuffer[i] = bytes[i]
      <4>1. 1 \in 1 .. Len(bytes) + 1 /\ head \in 1 - 1 .. Len(bytes)
        BY <3>1, <3>4
      <4>2. /\ Len(SubSeq(bytes, 1, head)) = head - 1 + 1
            /\ \A i \in 1 .. head - 1 + 1 : SubSeq(bytes, 1, head)[i] = bytes[1 + i - 1]
        BY <4>1, PieceOf
      <4>. QED  BY <3>1, <3>3, <4>2
    <3>7. /\ Len(cut.body) = body
          /\ \A i \in 1 .. body : cut.body[i] = bytes[head + i]
      <4>. DEFINE first == head + 1
                  last == head + body
      <4>1. first \in 1 .. Len(bytes) + 1 /\ last \in first - 1 .. Len(bytes) /\ last - first + 1 = body
        BY <3>1, <3>4
      <4>2. cut.body = SubSeq(bytes, first, last)
        BY <3>3, <3>4
      <4>3. \A i \in 1 .. body : first + i - 1 = head + i
        BY <3>1, <3>4
      <4>. HIDE DEF first, last
      <4>4. Len(cut.body) = body /\ \A i \in 1 .. body : cut.body[i] = bytes[first + i - 1]
        <5>1. /\ Len(SubSeq(bytes, first, last)) = last - first + 1
              /\ \A i \in 1 .. last - first + 1 : SubSeq(bytes, first, last)[i] = bytes[first + i - 1]
          BY <4>1, PieceOf
        <5>. QED  BY <4>1, <4>2, <5>1
      <4>. QED  BY <4>3, <4>4
    <3>8. /\ Len(cut.rests.ebuffer) = rlen - (head + body)
          /\ \A i \in 1 .. rlen - (head + body) : cut.rests.ebuffer[i] = bytes[head + body + i]
      <4>. DEFINE first == head + body + 1
                  k == rlen - (head + body)
      <4>1. first \in 1 .. Len(bytes) + 1 /\ rlen \in first - 1 .. Len(bytes) /\ rlen - first + 1 = k
        BY <3>1, <3>4
      <4>2. cut.rests.ebuffer = SubSeq(bytes, first, rlen)
        BY <3>3, <3>4
      <4>3. \A i \in 1 .. k : first + i - 1 = head + body + i
        BY <3>1, <3>4
      <4>. HIDE DEF first, k
      <4>4. Len(cut.rests.ebuffer) = k /\ \A i \in 1 .. k : cut.rests.ebuffer[i] = bytes[first + i - 1]
        <5>1. /\ Len(SubSeq(bytes, first, rlen)) = rlen - first + 1
              /\ \A i \in 1 .. rlen - first + 1 : SubSeq(bytes, first, rlen)[i] = bytes[first + i - 1]
          BY <4>1, PieceOf
        <5>. QED  BY <4>1, <4>2, <5>1
      <4>. QED  BY <4>3, <4>4 DEF k
    <3>9. x \in Int /\ head \in Int /\ body \in Int /\ end \in Int /\ b + head + body = end
      BY <3>1, <3>4 DEF body
    <3>10. CASE x \in b .. b + head - 1
      <4>1. /\ x - b + 1 \in 1 .. head /\ x \in b .. b + rlen - 1
            /\ x \notin end .. (end + Len(cut.rests.ebuffer) - 1)
        BY <3>1, <3>4, <3>8, <3>9, <3>10
      <4>2. three[x] = two[x]
        BY <1>2, <3>3, <4>1
      <4>3. x \in cut.rests.sbuf .. (cut.rests.sbuf + Len(cut.rests.sbuffer) - 1)
        BY <3>3, <3>6, <3>10
      <4>4. two[x] = bytes[x - b + 1]
        BY <1>2, <3>3, <3>6, <4>1, <4>3
      <4>. QED  BY <1>2, <4>1, <4>2, <4>4
    <3>11. CASE x \in b + head .. end - 1
      <4>1. x - (b + head) + 1 \in 1 .. body /\ x \in b .. b + rlen - 1
        BY <3>1, <3>4, <3>9, <3>11
      <4>2. three[x] = two[x]
        BY <1>2, <3>1, <3>3, <3>9, <3>11
      <4>3. two[x] = one[x]
        BY <1>2, <3>1, <3>3, <3>6, <3>9, <3>11
      <4>4. x \in cut.abuffer .. (cut.abuffer + Len(cut.body) - 1)
        <5>1. cut.abuffer + Len(cut.body) - 1 = end - 1
          <6>1. (b + head) + body - 1 = end - 1
            BY <3>9
          <6>2. cut.abuffer = b + head /\ Len(cut.body) = body
            BY <3>3, <3>7
          <6>. QED  BY <6>1, <6>2
        <5>. QED  BY <3>3, <3>11, <5>1
      <4>5. one[x] = cut.body[x - (b + head) + 1]
        BY <1>2, <3>3, <4>4
      <4>6. cut.body[x - (b + head) + 1] = bytes[head + (x - (b + head) + 1)]
        BY <3>7, <4>1
      <4>7. head + (x - (b + head) + 1) = x - b + 1
        BY <3>1, <3>9
      <4>. QED  BY <1>2, <4>1, <4>2, <4>3, <4>5, <4>6, <4>7
    <3>12. CASE x \in end .. b + rlen - 1
      <4>1. x - end + 1 \in 1 .. rlen - (head + body) /\ x \in b .. b + rlen - 1
        BY <3>1, <3>4, <3>9, <3>12
      <4>2. x \in cut.rests.ebuf .. (cut.rests.ebuf + Len(cut.rests.ebuffer) - 1)
        <5>1. end + (rlen - (head + body)) - 1 = b + rlen - 1
          BY <3>9
        <5>. QED  BY <3>3, <3>8, <3>12, <5>1
      <4>3. three[x] = cut.rests.ebuffer[x - end + 1]
        BY <1>2, <3>3, <4>2
      <4>4. cut.rests.ebuffer[x - end + 1] = bytes[head + body + (x - end + 1)]
        BY <3>8, <4>1
      <4>5. head + body + (x - end + 1) = x - b + 1
        BY <3>9
      <4>. QED  BY <1>2, <4>1, <4>3, <4>4, <4>5
    <3>13. CASE x \notin b .. b + rlen - 1
      <4>1. /\ x \notin b .. b + head - 1 /\ x \notin b + head .. b + head + body - 1
            /\ x \notin end .. end + (rlen - (head + body)) - 1
        BY <3>1, <3>4, <3>9, <3>13
      <4>2. three[x] = two[x]
        BY <1>2, <3>3, <3>8, <4>1
      <4>3. two[x] = one[x]
        BY <1>2, <3>3, <3>6, <4>1
      <4>4. one[x] = m[x]
        BY <1>2, <3>3, <3>7, <4>1
      <4>. QED  BY <1>2, <3>13, <4>2, <4>3, <4>4
    <3>14. \/ x \in b .. b + head - 1 \/ x \in b + head .. end - 1
           \/ x \in end .. b + rlen - 1 \/ x \notin b .. b + rlen - 1
      BY <3>1, <3>9
    <3>. QED  BY <3>10, <3>11, <3>12, <3>13, <3>14
  <2>. QED  BY <2>1, <2>2 DEF RpcAssumption
<1>4. three = whole
  BY <1>1, <1>3
<1>. QED  BY <1>4 DEF three, two, one, whole, Rpc!recv_intr

LEMMA SequenceMade ==
    ASSUME NEW S, NEW n \in Nat, NEW f \in [1 .. n -> S]
    PROVE  f \in Seq(S) /\ Len(f) = n
OBVIOUS

\* What goes with the request and what the server fetches make the buffer.
LEMMA SentWhole ==
    ASSUME RpcAssumption, NEW m, NEW c, c.buf \in Nat, c.len \in Nat,
           c.malign = Rpc!Bytes(m, c.buf, Rpc!Misaligned(c.buf, c.len))
    PROVE  Rpc!Outgoing(m, c) = Rpc!Bytes(m, c.buf, Rpc!Min({BufSize, c.len}))
<1>. DEFINE b == c.buf
            n == Rpc!Min({BufSize, c.len})
            k == Rpc!Misaligned(b, c.len)
            S == {m[i] : i \in Int}
            first == Rpc!Bytes(m, b, k)
            rest == Rpc!Bytes(m, b + k, n - k)
            all == Rpc!Bytes(m, b, n)
<1>1. k \in Nat /\ n \in Nat /\ k <= n /\ b \in Nat
  <2>1. /\ Rpc!ToNextBlock(b) \in Nat /\ Rpc!ToNextBlock(b) <= BufSize /\ BufSize \in Nat
        /\ c.len \in Nat
    BY BlocksLie DEF RpcAssumption
  <2>2. /\ k = IF Rpc!ToNextBlock(b) <= c.len THEN Rpc!ToNextBlock(b) ELSE c.len
        /\ n = IF BufSize <= c.len THEN BufSize ELSE c.len
    BY <2>1, SmallerOfTwo DEF Rpc!Misaligned
  <2>. HIDE DEF k, n
  <2>. QED  BY <2>1, <2>2
<1>. HIDE DEF b, n, k
<1>2. /\ first \in [1 .. k -> S] /\ rest \in [1 .. n - k -> S] /\ all \in [1 .. n -> S]
      /\ \A i \in 1 .. k : first[i] = m[b + i - 1]
      /\ \A i \in 1 .. n - k : rest[i] = m[b + k + i - 1]
      /\ \A i \in 1 .. n : all[i] = m[b + i - 1]
  BY <1>1 DEF Rpc!Bytes
<1>. HIDE DEF first, rest, all, S
<1>3. /\ first \in Seq(S) /\ Len(first) = k /\ rest \in Seq(S) /\ Len(rest) = n - k
      /\ all \in Seq(S) /\ Len(all) = n
  <2>1. n - k \in Nat
    BY <1>1
  <2>. QED  BY <1>1, <1>2, <2>1, SequenceMade
<1>4. /\ first \o rest \in Seq(S) /\ Len(first \o rest) = k + (n - k)
      /\ \A i \in 1 .. k + (n - k) : (first \o rest)[i] = IF i <= k THEN first[i] ELSE rest[i - k]
  <2>1. /\ first \o rest \in Seq(S) /\ Len(first \o rest) = Len(first) + Len(rest)
        /\ \A i \in 1 .. Len(first) + Len(rest) :
              (first \o rest)[i] = IF i <= Len(first) THEN first[i] ELSE rest[i - Len(first)]
    BY <1>3, ConcatProperties
  <2>. QED  BY <1>3, <2>1
<1>5. \A i \in 1 .. n : (first \o rest)[i] = all[i]
  <2>. SUFFICES ASSUME NEW i \in 1 .. n PROVE (first \o rest)[i] = all[i]
    OBVIOUS
  <2>1. CASE i <= k
    <3>1. i \in 1 .. k /\ i \in 1 .. k + (n - k)
      BY <1>1, <2>1
    <3>. QED  BY <1>2, <1>4, <2>1, <3>1
  <2>2. CASE i > k
    <3>1. i - k \in 1 .. n - k /\ b + k + (i - k) - 1 = b + i - 1
      BY <1>1, <2>2
    <3>2. rest[i - k] = m[b + i - 1]
      BY <1>2, <3>1
    <3>3. i \in 1 .. k + (n - k) /\ ~(i <= k)
      BY <1>1, <2>2
    <3>4. (first \o rest)[i] = rest[i - k]
      BY <1>4, <3>3
    <3>. QED  BY <1>2, <3>2, <3>4
  <2>3. i <= k \/ i > k
    BY <1>1
  <2>. QED  BY <2>1, <2>2, <2>3
<1>6. first \o rest = all
  <2>1. Len(first \o rest) = Len(all)
    BY <1>1, <1>3, <1>4
  <2>. QED  BY <1>3, <1>4, <1>5, <2>1, SeqEqual
<1>7. Rpc!Outgoing(m, c) = first \o rest
  <2>1. c.malign = first /\ Len(c.malign) = k
    BY <1>3 DEF first, b, k
  <2>. QED  BY <2>1 DEF Rpc!Outgoing, first, rest, n, b
<1>. QED  BY <1>6, <1>7 DEF all, b, n

\* What is under way to the EE when n bytes were received: the blocks, if there are
\* any, the rests and the reply.  What has not arrived yet will make the buffer whole.
Received(n) == [i \in 1 .. n |-> rpcArrived - n + i]
Whole(n) == Rpc!Written(rpcCall.before, rpcCall.buf, Received(n))
Body(at, bytes) == [kind |-> "body", at |-> at, bytes |-> bytes]
Rests(rests) == [kind |-> "rests", rests |-> rests]
Coming(n) ==
    \/ \E at, bytes, rests :
          /\ rpcSif = <<Body(at, bytes), Rests(rests), Rpc!Reply(n)>>
          /\ Rpc!recv_intr(Rpc!Written(rpcMem, at, bytes), rests) = Whole(n)
    \/ \E rests :
          /\ rpcSif = <<Rests(rests), Rpc!Reply(n)>>
          /\ Rpc!recv_intr(rpcMem, rests) = Whole(n)
    \/ /\ rpcSif = <<Rpc!Reply(n)>>
       /\ Rpc!recv_intr(rpcMem, rpcIntr) = Whole(n)

\* A request is what its caller made; a reply to a receive that brought n bytes, or
\* none, is under way.
MemoryKept == rpcMem = [a \in Rpc!Address |-> rpcMem[a]]
Requested ==
    rpcStage = "request" =>
        /\ rpcMem = rpcCall.before
        /\ rpcCall = [op |-> rpcCall.op, buf |-> rpcCall.buf, len |-> rpcCall.len,
                      malign |-> rpcCall.malign, before |-> rpcCall.before, out |-> rpcCall.out]
        /\ rpcCall.buf \in Nat /\ rpcCall.len \in Nat
        /\ rpcCall.op \in Rpc!Sends =>
              rpcCall.malign = Rpc!Bytes(rpcMem, rpcCall.buf, Rpc!Misaligned(rpcCall.buf, rpcCall.len))
Replied ==
    rpcStage = "reply" /\ rpcCall.op \in Rpc!Receives =>
        \E n \in Int : IF n <= 0 THEN rpcSif = <<Rpc!Reply(n)>> ELSE Coming(n)
CallSound ==
    /\ MemoryKept /\ rpcArrived \in Nat
    /\ rpcStage \in {"idle", "request", "reply"} /\ (rpcStage # "reply" => rpcSif = <<>>)
    /\ Requested /\ Rpc!SendsTheBuffer /\ Replied

LEMMA RpcBegins == Rpc!Init => CallSound
BY DEF Rpc!Init, CallSound, Rpc!Own, Rpc!SendsTheBuffer, MemoryKept, Requested, Replied

LEMMA WrittenKept ==
    ASSUME NEW m, NEW A, m = [x \in A |-> m[x]], NEW at, NEW bytes
    PROVE  LET w == Rpc!Written(m, at, bytes) IN w = [x \in A |-> w[x]]
BY DEF Rpc!Written

LEMMA TransfersJoined ==
    ASSUME NEW a, NEW b, NEW c
    PROVE  <<a>> \o <<b>> \o <<c>> = <<a, b, c>> /\ <<>> \o <<b>> \o <<c>> = <<b, c>>
<1>. DEFINE S == {a, b, c}
<1>1. <<a>> \in Seq(S) /\ <<b>> \in Seq(S) /\ <<c>> \in Seq(S) /\ <<a, b>> \in Seq(S)
  OBVIOUS
<1>2. <<b, c>> \in Seq(S) /\ <<a, b, c>> \in Seq(S)
  OBVIOUS
<1>. HIDE DEF S
<1>3. ASSUME NEW x, NEW y, <<x>> \in Seq(S), <<y>> \in Seq(S), <<x, y>> \in Seq(S)
      PROVE  <<x>> \o <<y>> = <<x, y>>
  <2>1. /\ <<x>> \o <<y>> \in Seq(S) /\ Len(<<x>> \o <<y>>) = 2
        /\ (<<x>> \o <<y>>)[1] = x /\ (<<x>> \o <<y>>)[2] = y
    BY <1>3, ConcatProperties
  <2>2. Len(<<x, y>>) = 2 /\ \A i \in 1 .. 2 : (<<x>> \o <<y>>)[i] = <<x, y>>[i]
    BY <2>1
  <2>. QED  BY <1>3, <2>1, <2>2, SeqEqual
<1>4. <<a, b>> \o <<c>> = <<a, b, c>>
  <2>1. /\ <<a, b>> \o <<c>> \in Seq(S) /\ Len(<<a, b>> \o <<c>>) = 3
        /\ \A i \in 1 .. 3 : (<<a, b>> \o <<c>>)[i] = IF i <= 2 THEN <<a, b>>[i] ELSE <<c>>[i - 2]
    BY <1>1, ConcatProperties
  <2>2. \A i \in 1 .. 3 : (<<a, b>> \o <<c>>)[i] = <<a, b, c>>[i]
    BY <2>1
  <2>. QED  BY <1>2, <2>1, <2>2, SeqEqual
<1>5. <<>> \o <<b>> = <<b>>
  BY <1>1, ConcatEmptySeq
<1>6. <<a>> \o <<b>> = <<a, b>> /\ <<b>> \o <<c>> = <<b, c>>
  BY <1>1, <1>2, <1>3
<1>. QED  BY <1>4, <1>5, <1>6

\* recv, recvfrom: what the server sends to the EE will make the buffer whole.
LEMMA ReceiveSound ==
    ASSUME RpcAssumption, CallSound, NEW op \in Rpc!Receives, Rpc!Receive(op)
    PROVE  CallSound'
<1>1. /\ rpcStage = "request" /\ rpcStage' = "reply"
      /\ UNCHANGED <<rpcMem, rpcIntr, rpcCall>>
  BY DEF Rpc!Receive
<1>2. /\ rpcMem = rpcCall.before /\ rpcCall.buf \in Nat /\ rpcCall.len \in Nat
      /\ rpcMem = [a \in Rpc!Address |-> rpcMem[a]] /\ rpcArrived \in Nat
  BY <1>1 DEF CallSound, Requested, MemoryKept
<1>3. DOMAIN rpcMem \subseteq Int
  <2>1. Rpc!Address \subseteq Int
    BY DEF Rpc!Address, RpcAssumption
  <2>2. DOMAIN rpcMem = Rpc!Address
    BY <1>2
  <2>. QED  BY <2>1, <2>2
<1>4. PICK n \in -1 .. Rpc!Min({BufSize, rpcCall.len}) :
         LET cut == Rpc!Split(rpcCall.buf, rpcCall.len, [i \in 1 .. n |-> rpcArrived + i])
             body == IF cut.body = <<>> THEN <<>> ELSE <<Body(cut.abuffer, cut.body)>>
         IN IF n <= 0 THEN rpcSif' = <<Rpc!Reply(n)>> /\ UNCHANGED rpcArrived
            ELSE rpcSif' = body \o <<Rests(cut.rests)>> \o <<Rpc!Reply(n)>> /\ rpcArrived' = rpcArrived + n
  BY DEF Rpc!Receive, Body, Rests
<1>5. n \in Int /\ n <= rpcCall.len
  <2>1. BufSize \in Int /\ rpcCall.len \in Int
    BY <1>2 DEF RpcAssumption
  <2>2. Rpc!Min({BufSize, rpcCall.len}) \in Int /\ Rpc!Min({BufSize, rpcCall.len}) <= rpcCall.len
    BY <2>1, SmallerOfTwo
  <2>. QED  BY <1>2, <2>2
<1>6. ASSUME rpcArrived' \in Nat, IF n <= 0 THEN rpcSif' = <<Rpc!Reply(n)>> ELSE Coming(n)'
      PROVE  CallSound'
  <2>1. MemoryKept' /\ Requested' /\ Rpc!SendsTheBuffer'
    BY <1>1, <1>2 DEF MemoryKept, Requested, Rpc!SendsTheBuffer, Rpc!Sends, Rpc!Receives, Rpc!Receive
  <2>2. Replied'
    BY <1>5, <1>6 DEF Replied
  <2>. QED  BY <1>1, <1>6, <2>1, <2>2 DEF CallSound
<1>7. CASE n <= 0
  BY <1>2, <1>4, <1>6, <1>7
<1>8. CASE n > 0
  <2>. DEFINE bytes == [i \in 1 .. n |-> rpcArrived + i]
              cut == Rpc!Split(rpcCall.buf, rpcCall.len, bytes)
  <2>1. bytes \in Seq(Int) /\ Len(bytes) = n /\ n \in Nat \ {0}
    BY <1>2, <1>5, <1>8
  <2>2. /\ rpcSif' = (IF cut.body = <<>> THEN <<>> ELSE <<Body(cut.abuffer, cut.body)>>)
                         \o <<Rests(cut.rests)>> \o <<Rpc!Reply(n)>>
        /\ rpcArrived' = rpcArrived + n
    <3>1. ~(n <= 0)
      BY <1>5, <1>8
    <3>. QED  BY <1>4, <3>1, Zenon
  <2>3. rpcArrived' \in Nat /\ Whole(n)' = Rpc!Written(rpcMem, rpcCall.buf, bytes)
    <3>1. \A i \in 1 .. n : (rpcArrived + n) - n + i = rpcArrived + i
      BY <1>2, <2>1
    <3>2. Received(n)' = bytes
      BY <2>2, <3>1 DEF Received
    <3>. QED  BY <1>1, <1>2, <2>1, <2>2, <3>2 DEF Whole
  <2>. HIDE DEF bytes
  <2>4. Rpc!recv_intr(Rpc!Written(rpcMem, cut.abuffer, cut.body), cut.rests) = Whole(n)'
    <3>1. n <= rpcCall.len /\ n \in Nat \ {0}
      BY <1>5, <2>1
    <3>2. Rpc!recv_intr(Rpc!Written(rpcMem, cut.abuffer, cut.body), cut.rests)
            = Rpc!Written(rpcMem, rpcCall.buf, bytes)
      BY <1>2, <1>3, <2>1, <3>1, PiecesMakeWhole
    <3>. QED  BY <2>3, <3>2
  <2>. HIDE DEF cut
  <2>5. CASE cut.body # <<>>
    <3>1. rpcSif' = <<Body(cut.abuffer, cut.body), Rests(cut.rests), Rpc!Reply(n)>>
      BY <2>2, <2>5, TransfersJoined
    <3>2. Coming(n)'
      BY <1>1, <2>4, <3>1 DEF Coming
    <3>. QED  BY <1>6, <1>8, <2>1, <2>3, <3>2
  <2>6. CASE cut.body = <<>>
    <3>1. rpcSif' = <<Rests(cut.rests), Rpc!Reply(n)>>
      BY <2>2, <2>6, TransfersJoined
    <3>2. Rpc!Written(rpcMem, cut.abuffer, cut.body) = rpcMem
      <4>1. cut.abuffer \in Int
        <5>1. Rpc!HeadSize(rpcCall.buf, rpcCall.len) \in Int
          BY <1>2, BlocksLie DEF Rpc!HeadSize
        <5>2. cut.abuffer \in {0, rpcCall.buf + Rpc!HeadSize(rpcCall.buf, rpcCall.len), rpcCall.buf + n}
          <6>1. CASE Len(bytes) <= Block
            BY <6>1 DEF cut, Rpc!Split
          <6>2. CASE ~(Len(bytes) <= Block)
            BY <6>2 DEF cut, Rpc!Split
          <6>. QED  BY <6>1, <6>2
        <5>. QED  BY <1>2, <1>5, <5>1, <5>2
      <4>2. Len(cut.body) = 0
        BY <2>6
      <4>3. \A x \in Int : x \notin cut.abuffer .. (cut.abuffer + Len(cut.body) - 1)
        BY <4>1, <4>2
      <4>. HIDE DEF cut
      <4>4. Rpc!Written(rpcMem, cut.abuffer, cut.body) = [x \in DOMAIN rpcMem |-> rpcMem[x]]
        BY <1>3, <4>3 DEF Rpc!Written
      <4>. QED  BY <1>2, <4>4
    <3>3. Coming(n)'
      BY <1>1, <2>4, <3>1, <3>2 DEF Coming
    <3>. QED  BY <1>6, <1>8, <2>1, <2>3, <3>3
  <2>. QED  BY <2>5, <2>6
<1>. QED  BY <1>5, <1>7, <1>8

\* send, sendto: what lwIP is given.
LEMMA TransmitSound ==
    ASSUME RpcAssumption, CallSound, NEW op \in Rpc!Sends, Rpc!Transmit(op)
    PROVE  CallSound'
<1>1. /\ rpcStage = "request" /\ rpcStage' = "reply" /\ rpcCall.op = op
      /\ UNCHANGED <<rpcMem, rpcIntr, rpcArrived>>
      /\ rpcCall' = [rpcCall EXCEPT !.out = Rpc!Outgoing(rpcMem, rpcCall)]
  BY DEF Rpc!Transmit
<1>2. Requested /\ MemoryKept /\ rpcArrived \in Nat
  BY DEF CallSound
<1>3. Rpc!Outgoing(rpcMem, rpcCall) = Rpc!Bytes(rpcMem, rpcCall.buf, Rpc!Min({BufSize, rpcCall.len}))
  BY <1>1, <1>2, SentWhole DEF Requested
<1>4. /\ rpcCall'.op = op /\ rpcCall'.buf = rpcCall.buf /\ rpcCall'.len = rpcCall.len
      /\ rpcCall'.before = rpcMem /\ rpcCall'.out = Rpc!Outgoing(rpcMem, rpcCall)
  BY <1>1, <1>2 DEF Requested
<1>5. Rpc!SendsTheBuffer'
  BY <1>3, <1>4 DEF Rpc!SendsTheBuffer
<1>6. MemoryKept' /\ Requested' /\ Replied'
  BY <1>1, <1>2, <1>4 DEF MemoryKept, Requested, Replied, Rpc!Sends, Rpc!Receives
<1>. QED  BY <1>1, <1>2, <1>5, <1>6 DEF CallSound

\* A call is made with the memory as it is.
LEMMA MakeSound ==
    ASSUME RpcAssumption, CallSound, NEW op, NEW b \in Nat, NEW n \in Nat, NEW malign,
           Rpc!Make(op, b, n, malign),
           op \in Rpc!Sends => malign = Rpc!Bytes(rpcMem, b, Rpc!Misaligned(b, n))
    PROVE  CallSound'
<1>1. /\ rpcStage = "idle" /\ rpcStage' = "request"
      /\ rpcCall' = [op |-> op, buf |-> b, len |-> n, malign |-> malign, before |-> rpcMem, out |-> <<>>]
      /\ UNCHANGED <<rpcMem, rpcIntr, rpcSif, rpcArrived>>
  BY DEF Rpc!Make
<1>2. MemoryKept /\ rpcArrived \in Nat /\ rpcSif = <<>>
  BY <1>1 DEF CallSound
<1>3. /\ rpcCall'.op = op /\ rpcCall'.buf = b /\ rpcCall'.len = n /\ rpcCall'.malign = malign
      /\ rpcCall'.before = rpcMem
  BY <1>1
<1>4. Requested'
  BY <1>1, <1>3 DEF Requested
<1>5. MemoryKept' /\ Rpc!SendsTheBuffer' /\ Replied'
  BY <1>1, <1>2 DEF MemoryKept, Rpc!SendsTheBuffer, Replied
<1>. QED  BY <1>1, <1>2, <1>4, <1>5 DEF CallSound

\* Blocks, rests and reply arrive in their order.
LEMMA ArrivesSound ==
    ASSUME CallSound, Rpc!BodyArrives \/ Rpc!RestsArrive
    PROVE  CallSound'
<1>1. /\ rpcSif # <<>> /\ rpcSif' = Tail(rpcSif) /\ UNCHANGED <<rpcCall, rpcStage, rpcArrived>>
      /\ \/ /\ Head(rpcSif).kind = "body" /\ UNCHANGED rpcIntr
            /\ rpcMem' = Rpc!Written(rpcMem, Head(rpcSif).at, Head(rpcSif).bytes)
         \/ /\ Head(rpcSif).kind = "rests" /\ UNCHANGED rpcMem
            /\ rpcIntr' = Head(rpcSif).rests
  BY DEF Rpc!BodyArrives, Rpc!RestsArrive
<1>2. rpcStage = "reply" /\ MemoryKept /\ rpcArrived \in Nat /\ Rpc!SendsTheBuffer
  BY <1>1 DEF CallSound
<1>3. MemoryKept'
  BY <1>1, <1>2, WrittenKept DEF MemoryKept
<1>4. Requested' /\ Rpc!SendsTheBuffer'
  BY <1>1, <1>2 DEF Requested, Rpc!SendsTheBuffer
<1>5. Replied'
  <2>1. SUFFICES ASSUME rpcCall.op \in Rpc!Receives
                 PROVE  \E n \in Int : IF n <= 0 THEN rpcSif' = <<Rpc!Reply(n)>> ELSE Coming(n)'
    BY <1>1 DEF Replied
  <2>2. PICK n \in Int : IF n <= 0 THEN rpcSif = <<Rpc!Reply(n)>> ELSE Coming(n)
    BY <1>2, <2>1 DEF CallSound, Replied
  <2>3. rpcSif # <<Rpc!Reply(n)>>
    BY <1>1 DEF Rpc!Reply
  <2>4. Whole(n)' = Whole(n)
    BY <1>1 DEF Whole, Received
  <2>5. ~(n <= 0) /\ Coming(n)
    BY <2>2, <2>3
  <2>6. CASE \E at, bytes, rests :
                /\ rpcSif = <<Body(at, bytes), Rests(rests), Rpc!Reply(n)>>
                /\ Rpc!recv_intr(Rpc!Written(rpcMem, at, bytes), rests) = Whole(n)
    <3>1. PICK at, bytes, rests :
             /\ rpcSif = <<Body(at, bytes), Rests(rests), Rpc!Reply(n)>>
             /\ Rpc!recv_intr(Rpc!Written(rpcMem, at, bytes), rests) = Whole(n)
      BY <2>6
    <3>2. /\ Head(rpcSif) = Body(at, bytes) /\ Tail(rpcSif) = <<Rests(rests), Rpc!Reply(n)>>
      BY <3>1
    <3>3. rpcMem' = Rpc!Written(rpcMem, at, bytes)
      BY <1>1, <3>2 DEF Body
    <3>. QED  BY <1>1, <2>4, <2>5, <3>1, <3>2, <3>3 DEF Coming
  <2>7. CASE \E rests :
                /\ rpcSif = <<Rests(rests), Rpc!Reply(n)>>
                /\ Rpc!recv_intr(rpcMem, rests) = Whole(n)
    <3>1. PICK rests : /\ rpcSif = <<Rests(rests), Rpc!Reply(n)>>
                       /\ Rpc!recv_intr(rpcMem, rests) = Whole(n)
      BY <2>7
    <3>2. Head(rpcSif) = Rests(rests) /\ Tail(rpcSif) = <<Rpc!Reply(n)>>
      BY <3>1
    <3>3. rpcMem' = rpcMem /\ rpcIntr' = rests
      BY <1>1, <3>2 DEF Rests
    <3>. QED  BY <1>1, <2>4, <2>5, <3>1, <3>2, <3>3 DEF Coming
  <2>. QED  BY <2>3, <2>5, <2>6, <2>7 DEF Coming
<1>. QED  BY <1>1, <1>2, <1>3, <1>4, <1>5 DEF CallSound

LEMMA ReturnSound ==
    ASSUME CallSound, Rpc!Return
    PROVE  CallSound' /\ Rpc!ReceivedInPlace
<1>1. /\ rpcSif # <<>> /\ Head(rpcSif).kind = "reply" /\ rpcSif' = <<>>
      /\ rpcMem' = IF rpcCall.op \in Rpc!Receives THEN Rpc!recv_intr(rpcMem, rpcIntr) ELSE rpcMem
      /\ rpcRet' = Head(rpcSif).ret /\ rpcStage' = "idle" /\ UNCHANGED rpcArrived
  BY DEF Rpc!Return
<1>2. rpcStage = "reply" /\ MemoryKept /\ rpcArrived \in Nat /\ Replied
  BY <1>1 DEF CallSound
<1>3. MemoryKept'
  <2>1. DOMAIN rpcMem' = Rpc!Address /\ rpcMem' = [a \in Rpc!Address |-> rpcMem'[a]]
    BY <1>1, <1>2 DEF MemoryKept, Rpc!recv_intr, Rpc!Written
  <2>. QED  BY <2>1 DEF MemoryKept
<1>4. CallSound'
  BY <1>1, <1>2, <1>3 DEF CallSound, Requested, Replied, Rpc!SendsTheBuffer
<1>5. ASSUME rpcCall.op \in Rpc!Receives, rpcRet' > 0
      PROVE  rpcMem' = Rpc!Written(rpcCall.before, rpcCall.buf,
                                   [i \in 1 .. rpcRet' |-> rpcArrived - rpcRet' + i])
  <2>1. PICK n \in Int : IF n <= 0 THEN rpcSif = <<Rpc!Reply(n)>> ELSE Coming(n)
    BY <1>2, <1>5 DEF Replied
  <2>2. rpcSif = <<Rpc!Reply(n)>> => rpcRet' = n
    BY <1>1 DEF Rpc!Reply
  <2>3. ~(n <= 0) /\ Coming(n)
    BY <1>5, <2>1, <2>2
  <2>4. rpcSif = <<Rpc!Reply(n)>> /\ Rpc!recv_intr(rpcMem, rpcIntr) = Whole(n)
    BY <1>1, <2>3 DEF Coming, Body, Rests
  <2>. QED  BY <1>1, <1>5, <2>2, <2>4 DEF Whole, Received
<1>. QED  BY <1>4, <1>5 DEF Rpc!ReceivedInPlace

LEMMA RpcSteps ==
    ASSUME RpcAssumption, CallSound, [Rpc!Next]_rpcVars
    PROVE  CallSound' /\ [Rpc!ReceivedInPlace]_rpcVars
<1>1. ASSUME ~(rpcStage = "reply" /\ rpcStage' = "idle") PROVE Rpc!ReceivedInPlace
  BY <1>1 DEF Rpc!ReceivedInPlace
<1>2. ASSUME UNCHANGED <<rpcMem, rpcIntr, rpcCall, rpcStage, rpcSif, rpcArrived>>
      PROVE  CallSound' /\ Rpc!ReceivedInPlace
  <2>1. \A n \in Int : Coming(n)' <=> Coming(n)
    BY <1>2 DEF Coming, Whole, Received
  <2>2. Replied'
    BY <1>2, <2>1 DEF CallSound, Replied
  <2>3. MemoryKept' /\ Requested' /\ Rpc!SendsTheBuffer'
    BY <1>2 DEF CallSound, MemoryKept, Requested, Rpc!SendsTheBuffer
  <2>4. CallSound'
    BY <1>2, <2>2, <2>3 DEF CallSound
  <2>5. Rpc!ReceivedInPlace
    BY <1>1, <1>2
  <2>. QED  BY <2>4, <2>5
<1>3. CASE UNCHANGED rpcVars
  BY <1>2, <1>3 DEF rpcVars
<1>4. CASE Rpc!Initialise \/ \E op \in Rpc!Receives \cup Rpc!Others : Rpc!Refuse(op)
  BY <1>2, <1>4 DEF Rpc!Initialise, Rpc!Refuse
<1>5. ASSUME NEW op, NEW b \in Nat, NEW n \in Nat, NEW malign, Rpc!Make(op, b, n, malign),
             op \in Rpc!Sends => malign = Rpc!Bytes(rpcMem, b, Rpc!Misaligned(b, n))
      PROVE  CallSound' /\ Rpc!ReceivedInPlace
  BY <1>1, <1>5, MakeSound DEF Rpc!Make
<1>6. Buffers \subseteq Nat /\ RecvLengths \subseteq Nat /\ 0 \in Nat
  BY DEF RpcAssumption
<1>7. CASE Rpc!CallRecv \/ Rpc!CallRecvfrom
  <2>1. PICK b \in Buffers, n \in RecvLengths : Rpc!Make("recv", b, n, <<>>) \/ Rpc!Make("recvfrom", b, n, <<>>)
    BY <1>7 DEF Rpc!CallRecv, Rpc!CallRecvfrom
  <2>2. "recv" \notin Rpc!Sends /\ "recvfrom" \notin Rpc!Sends
    BY DEF Rpc!Sends
  <2>. QED  BY <1>5, <1>6, <2>1, <2>2
<1>8. CASE Rpc!CallSend \/ Rpc!CallSendto
  <2>1. PICK b \in Buffers, n \in RecvLengths :
           \E op \in {"send", "sendto"} : Rpc!Make(op, b, n, Rpc!Bytes(rpcMem, b, Rpc!Misaligned(b, n)))
    BY <1>8 DEF Rpc!CallSend, Rpc!CallSendto
  <2>. QED  BY <1>5, <1>6, <2>1
<1>9. ASSUME NEW op \in Rpc!Others, Rpc!Make(op, 0, 0, <<>>) PROVE CallSound' /\ Rpc!ReceivedInPlace
  <2>1. op \notin Rpc!Sends
    BY DEF Rpc!Sends, Rpc!Others, Rpc!Connecting, Rpc!Configuring, Rpc!Naming, Rpc!Tuning
  <2>. QED  BY <1>5, <1>6, <1>9, <2>1
<1>10. CASE Rpc!CallConnecting \/ Rpc!CallConfiguring \/ Rpc!CallSelect \/ Rpc!CallNaming \/ Rpc!CallTuning
  <2>1. \E op \in Rpc!Others : Rpc!Make(op, 0, 0, <<>>)
    BY <1>10 DEF Rpc!CallConnecting, Rpc!CallConfiguring, Rpc!CallSelect, Rpc!CallNaming, Rpc!CallTuning, Rpc!Others
  <2>. QED  BY <1>9, <2>1
<1>11. CASE Rpc!ServeRecv \/ Rpc!ServeRecvfrom
  <2>1. PICK op \in Rpc!Receives : Rpc!Receive(op)
    BY <1>11 DEF Rpc!ServeRecv, Rpc!ServeRecvfrom, Rpc!Receives
  <2>2. ~(rpcStage = "reply")
    BY <2>1 DEF Rpc!Receive
  <2>. QED  BY <1>1, <2>1, <2>2, ReceiveSound
<1>12. CASE Rpc!ServeSend \/ Rpc!ServeSendto
  <2>1. PICK op \in Rpc!Sends : Rpc!Transmit(op)
    BY <1>12 DEF Rpc!ServeSend, Rpc!ServeSendto, Rpc!Sends
  <2>2. ~(rpcStage = "reply")
    BY <2>1 DEF Rpc!Transmit
  <2>. QED  BY <1>1, <2>1, <2>2, TransmitSound
<1>13. CASE \/ Rpc!ServeConnecting \/ Rpc!ServeConfiguring \/ Rpc!ServeSelect \/ Rpc!ServeNaming
            \/ Rpc!ServeTuning
  <2>1. PICK ops \in {Rpc!Connecting, Rpc!Configuring, {"select"}, Rpc!Naming, Rpc!Tuning} : Rpc!Answer(ops)
    BY <1>13 DEF Rpc!ServeConnecting, Rpc!ServeConfiguring, Rpc!ServeSelect, Rpc!ServeNaming, Rpc!ServeTuning
  <2>2. /\ rpcStage = "request" /\ rpcStage' = "reply" /\ rpcCall.op \in ops
        /\ UNCHANGED <<rpcMem, rpcIntr, rpcCall, rpcArrived>>
    BY <2>1 DEF Rpc!Answer
  <2>3. rpcCall.op \notin Rpc!Sends /\ rpcCall.op \notin Rpc!Receives
    BY <2>1, <2>2 DEF Rpc!Sends, Rpc!Receives, Rpc!Connecting, Rpc!Configuring, Rpc!Naming, Rpc!Tuning
  <2>4. CallSound'
    BY <2>2, <2>3 DEF CallSound, MemoryKept, Requested, Replied, Rpc!SendsTheBuffer
  <2>. QED  BY <1>1, <2>2, <2>4
<1>14. CASE Rpc!BodyArrives \/ Rpc!RestsArrive
  <2>1. rpcStage' = rpcStage
    BY <1>14 DEF Rpc!BodyArrives, Rpc!RestsArrive
  <2>. QED  BY <1>1, <1>14, <2>1, ArrivesSound
<1>15. CASE Rpc!Return
  BY <1>15, ReturnSound
<1>16. CASE Rpc!Use
  <2>1. /\ rpcStage = "idle" /\ rpcMem' = Rpc!Own
        /\ UNCHANGED <<rpcIntr, rpcCall, rpcStage, rpcSif, rpcArrived>>
    BY <1>16 DEF Rpc!Use
  <2>2. MemoryKept'
    BY <2>1 DEF MemoryKept, Rpc!Own
  <2>3. CallSound'
    BY <2>1, <2>2 DEF CallSound, Requested, Replied, Rpc!SendsTheBuffer
  <2>. QED  BY <1>1, <2>1, <2>3
<1>. QED
  BY <1>3, <1>4, <1>7, <1>8, <1>10, <1>11, <1>12, <1>13, <1>14, <1>15, <1>16 DEF Rpc!Next

(* Whatever the block and buffer sizes are, wherever the program's buffer lies *)
(* and however much it asked for: what recv delivers is in the buffer and      *)
(* nothing is written outside of it, and what send sends is the buffer         *)
(* (ps2ipc.c, ps2ips.c).                                                       *)
THEOREM SocketDataIsWhole == Spec => SocketDataWhole
<1>1. Init => CallSound
  BY ServicesAssumption, RpcBegins DEF Init
<1>2. CallSound /\ [Next]_allVars => CallSound' /\ [Rpc!ReceivedInPlace]_(Rpc!vars)
  BY ServicesAssumption, PartsStep, RpcSteps DEF Rpc!vars, rpcVars
<1>3. CallSound => Rpc!SendsTheBuffer
  BY DEF CallSound
<1>. QED  BY <1>1, <1>2, <1>3, PTL DEF Spec, SocketDataWhole, Rpc!ReceivesInPlace
===============================================================================

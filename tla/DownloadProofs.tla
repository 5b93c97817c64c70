----------------------------- MODULE DownloadProofs -----------------------------
(***************************************************************************)
(* Proofs about what comes in pieces, for all values of the constants of   *)
(* MCServices that keep ServicesAssumption and TracksAssumption: downloads,*)
(* samples, files of music, and the two registers of the timer.            *)
(***************************************************************************)
EXTENDS MCServices, SequenceTheorems, TLAPS

-------------------------------------------------------------------------------
(* A piece of a sequence.                                                  *)
LEMMA PieceOf ==
    ASSUME NEW S, NEW s \in Seq(S), NEW m \in 1 .. Len(s) + 1, NEW n \in m - 1 .. Len(s)
    PROVE  /\ SubSeq(s, m, n) \in Seq(S) /\ Len(SubSeq(s, m, n)) = n - m + 1
           /\ \A i \in 1 .. n - m + 1 : SubSeq(s, m, n)[i] = s[m + i - 1]
<1>1. Len(s) \in Nat /\ m \in Int /\ n \in Int
  BY LenProperties
<1>2. \A i \in m .. n : s[i] \in S
  BY <1>1, ElementOfSeq
<1>3. /\ SubSeq(s, m, n) \in Seq(S)
      /\ Len(SubSeq(s, m, n)) = IF m <= n THEN n - m + 1 ELSE 0
      /\ \A i \in 1 .. n - m + 1 : SubSeq(s, m, n)[i] = s[m + i - 1]
  BY <1>1, <1>2, SubSeqProperties
<1>4. (IF m <= n THEN n - m + 1 ELSE 0) = n - m + 1
  BY <1>1
<1>. QED  BY <1>3, <1>4

-------------------------------------------------------------------------------
(* HttpDownload: the file in pieces                                           *)

HttpTokens == {"status", "crlf", "length", "file"} \X Int
FileFrom(k, s) == s \in Seq(HttpTokens) /\ \A i \in 1 .. Len(s) : s[i] = <<"file", k + i>>
EmptyAt(s, i) == s[i] = Http!Crlf /\ (i = 1 \/ s[i - 1] = Http!Crlf)
\* Behind the first empty line, at h, is the file.
HeaderThenFile(s, h) ==
    /\ s \in Seq(HttpTokens) /\ h \in Nat /\ h >= 3
    /\ \A i \in 1 .. Len(s) : /\ i < h => ~EmptyAt(s, i)
                              /\ i > h => s[i] = <<"file", i - h>>
HttpInv ==
    /\ Http!SocketGivenBack
    /\ httpKept => httpSplit
    /\ httpAt \in {"socket", "resolve", "connect", "send"} => ~httpKept /\ ~httpSplit
    /\ httpAt = "header" /\ ~httpSplit => \E h \in Nat : HeaderThenFile(httpToCome, h)
    /\ ~httpSplit /\ (httpAt \in {"check", "body"} \/ (httpAt = "return" /\ httpResult = "ok")) =>
          FileFrom(0, httpBuffer) /\ Len(httpBuffer) <= MaxFile
    /\ ~httpSplit /\ httpAt \in {"check", "body"} => FileFrom(Len(httpBuffer), httpToCome)

(* The smaller of two numbers is their minimum.                             *)
LEMMA LeastOfTwo ==
    ASSUME NEW a \in Int, NEW b \in Int
    PROVE  Http!Min({a, b}) \in Int /\ Http!Min({a, b}) <= a /\ Http!Min({a, b}) <= b
<1>1. \E x \in {a, b} : \A y \in {a, b} : x <= y
  OBVIOUS
<1>2. Http!Min({a, b}) \in {a, b} /\ \A y \in {a, b} : Http!Min({a, b}) <= y
  BY <1>1 DEF Http!Min
<1>. QED  BY <1>2

(* Where the header ends in a segment that has its end.                      *)
LEMMA HeaderEndsAt ==
    ASSUME NEW s, NEW h, HeaderThenFile(s, h), NEW n \in 1 .. Len(s), NEW seg, seg = SubSeq(s, 1, n),
           Http!EndOfHeader(seg) # 0
    PROVE  h <= n /\ Http!EndOfHeader(seg) = h
<1>1. s \in Seq(HttpTokens) /\ h \in Nat /\ h >= 3 /\ Len(s) \in Nat
  BY LenProperties DEF HeaderThenFile
<1>2. Len(seg) = n /\ \A i \in 1 .. n : seg[i] = s[i]
  <2>1. Len(SubSeq(s, 1, n)) = n - 1 + 1 /\ \A i \in 1 .. n - 1 + 1 : SubSeq(s, 1, n)[i] = s[1 + i - 1]
    BY <1>1, PieceOf
  <2>. QED  BY <1>1, <2>1
<1>3. ASSUME NEW i \in Http!EmptyLines(seg) PROVE i = h
  <2>1. i \in 1 .. n /\ seg[i] = Http!Crlf /\ (i = 1 \/ seg[i - 1] = Http!Crlf)
    BY <1>2, <1>3 DEF Http!EmptyLines
  <2>2. s[i] = Http!Crlf /\ i \in 1 .. Len(s) /\ (i = 1 \/ s[i - 1] = Http!Crlf)
    BY <1>1, <1>2, <2>1
  <2>3. ~(i < h)
    BY <2>2 DEF HeaderThenFile, EmptyAt
  <2>4. ~(i > h)
    <3>1. ASSUME i > h PROVE FALSE
      <4>1. s[i] = <<"file", i - h>>
        BY <2>2, <3>1 DEF HeaderThenFile
      <4>. QED  BY <2>2, <4>1 DEF Http!Crlf
    <3>. QED  BY <3>1
  <2>. QED  BY <1>1, <2>2, <2>3, <2>4
<1>4. Http!EmptyLines(seg) # {} /\ Http!EndOfHeader(seg) = Http!Min(Http!EmptyLines(seg))
  BY DEF Http!EndOfHeader
<1>5. Http!EmptyLines(seg) = {h}
  BY <1>3, <1>4
<1>6. h \in 1 .. n
  BY <1>2, <1>5 DEF Http!EmptyLines
<1>7. Http!Min({h}) = h
  BY <1>1 DEF Http!Min
<1>8. Http!EndOfHeader(seg) = h
  BY <1>4, <1>5, <1>7, Zenon
<1>. QED  BY <1>1, <1>6, <1>8

(* Of a file that is to come, what is taken and what is left.                *)
LEMMA FileCut ==
    ASSUME NEW s, NEW k \in Nat, FileFrom(k, s), NEW n \in 1 .. Len(s)
    PROVE  /\ FileFrom(k, SubSeq(s, 1, n)) /\ Len(SubSeq(s, 1, n)) = n
           /\ FileFrom(k + n, SubSeq(s, n + 1, Len(s)))
<1>1. s \in Seq(HttpTokens) /\ Len(s) \in Nat
  BY LenProperties DEF FileFrom
<1>2. /\ SubSeq(s, 1, n) \in Seq(HttpTokens) /\ Len(SubSeq(s, 1, n)) = n - 1 + 1
      /\ \A i \in 1 .. n - 1 + 1 : SubSeq(s, 1, n)[i] = s[1 + i - 1]
  BY <1>1, PieceOf
<1>3. /\ SubSeq(s, n + 1, Len(s)) \in Seq(HttpTokens)
      /\ Len(SubSeq(s, n + 1, Len(s))) = Len(s) - (n + 1) + 1
      /\ \A i \in 1 .. Len(s) - (n + 1) + 1 : SubSeq(s, n + 1, Len(s))[i] = s[n + 1 + i - 1]
  BY <1>1, PieceOf
<1>4. \A i \in 1 .. Len(s) : s[i] = <<"file", k + i>>
  BY DEF FileFrom
<1>5. FileFrom(k, SubSeq(s, 1, n)) /\ Len(SubSeq(s, 1, n)) = n
  BY <1>1, <1>2, <1>4 DEF FileFrom
<1>6. FileFrom(k + n, SubSeq(s, n + 1, Len(s)))
  <2>1. ASSUME NEW i \in 1 .. Len(s) - n
        PROVE  SubSeq(s, n + 1, Len(s))[i] = <<"file", (k + n) + i>>
    <3>1. SubSeq(s, n + 1, Len(s))[i] = s[n + i] /\ n + i \in 1 .. Len(s)
      BY <1>1, <1>3
    <3>2. s[n + i] = <<"file", k + (n + i)>>
      BY <1>4, <3>1
    <3>. QED  BY <3>1, <3>2
  <2>. QED  BY <1>1, <1>3, <2>1 DEF FileFrom
<1>. QED  BY <1>5, <1>6

(* What recv appends to the beginning of the file continues it.             *)
LEMMA FileJoined ==
    ASSUME NEW b, NEW s, FileFrom(0, b), FileFrom(Len(b), s)
    PROVE  FileFrom(0, b \o s) /\ Len(b \o s) = Len(b) + Len(s)
<1>1. b \in Seq(HttpTokens) /\ s \in Seq(HttpTokens) /\ Len(b) \in Nat /\ Len(s) \in Nat
  BY LenProperties DEF FileFrom
<1>2. /\ b \o s \in Seq(HttpTokens) /\ Len(b \o s) = Len(b) + Len(s)
      /\ \A i \in 1 .. Len(b) + Len(s) : (b \o s)[i] = IF i <= Len(b) THEN b[i] ELSE s[i - Len(b)]
  BY <1>1, ConcatProperties
<1>3. ASSUME NEW i \in 1 .. Len(b) + Len(s) PROVE (b \o s)[i] = <<"file", 0 + i>>
  <2>1. CASE i <= Len(b)
    BY <1>1, <1>2, <2>1 DEF FileFrom
  <2>2. CASE i > Len(b)
    <3>1. (b \o s)[i] = s[i - Len(b)] /\ i - Len(b) \in 1 .. Len(s)
      BY <1>1, <1>2, <2>2
    <3>2. s[i - Len(b)] = <<"file", Len(b) + (i - Len(b))>>
      BY <3>1 DEF FileFrom
    <3>. QED  BY <1>1, <3>1, <3>2
  <2>. QED  BY <1>1, <2>1, <2>2
<1>. QED  BY <1>2, <1>3 DEF FileFrom

(* Behind the end of the header is the beginning of the file.                *)
LEMMA FileBegins ==
    ASSUME NEW s, NEW h, HeaderThenFile(s, h), NEW n \in h .. Len(s), n >= 1
    PROVE  LET b == SubSeq(SubSeq(s, 1, n), h + 1, n)
           IN /\ FileFrom(0, b) /\ Len(b) = n - h
              /\ FileFrom(n - h, SubSeq(s, n + 1, Len(s)))
<1>. DEFINE seg == SubSeq(s, 1, n)
<1>1. s \in Seq(HttpTokens) /\ h \in Nat /\ h >= 3 /\ Len(s) \in Nat /\ n \in 1 .. Len(s)
  BY LenProperties DEF HeaderThenFile
<1>2. \A i \in 1 .. Len(s) : i > h => s[i] = <<"file", i - h>>
  BY DEF HeaderThenFile
<1>3. /\ seg \in Seq(HttpTokens) /\ Len(seg) = n - 1 + 1
      /\ \A i \in 1 .. n - 1 + 1 : seg[i] = s[1 + i - 1]
  BY <1>1, PieceOf
<1>. HIDE DEF seg
<1>4. /\ SubSeq(seg, h + 1, n) \in Seq(HttpTokens) /\ Len(SubSeq(seg, h + 1, n)) = n - (h + 1) + 1
      /\ \A i \in 1 .. n - (h + 1) + 1 : SubSeq(seg, h + 1, n)[i] = seg[h + 1 + i - 1]
  <2>1. h + 1 \in 1 .. Len(seg) + 1 /\ n \in (h + 1) - 1 .. Len(seg)
    BY <1>1, <1>3
  <2>. QED  BY <1>3, <2>1, PieceOf
<1>5. FileFrom(0, SubSeq(seg, h + 1, n)) /\ Len(SubSeq(seg, h + 1, n)) = n - h
  <2>1. ASSUME NEW i \in 1 .. n - h PROVE SubSeq(seg, h + 1, n)[i] = <<"file", 0 + i>>
    <3>1. SubSeq(seg, h + 1, n)[i] = s[h + i] /\ h + i \in 1 .. Len(s) /\ h + i > h
      BY <1>1, <1>3, <1>4
    <3>2. s[h + i] = <<"file", (h + i) - h>>
      BY <1>2, <3>1
    <3>. QED  BY <1>1, <3>1, <3>2
  <2>2. Len(SubSeq(seg, h + 1, n)) = n - h /\ SubSeq(seg, h + 1, n) \in Seq(HttpTokens)
    BY <1>1, <1>4
  <2>. QED  BY <2>1, <2>2, Zenon DEF FileFrom
<1>6. /\ SubSeq(s, n + 1, Len(s)) \in Seq(HttpTokens)
      /\ Len(SubSeq(s, n + 1, Len(s))) = Len(s) - (n + 1) + 1
      /\ \A i \in 1 .. Len(s) - (n + 1) + 1 : SubSeq(s, n + 1, Len(s))[i] = s[n + 1 + i - 1]
  BY <1>1, PieceOf
<1>7. FileFrom(n - h, SubSeq(s, n + 1, Len(s)))
  <2>1. ASSUME NEW i \in 1 .. Len(s) - n
        PROVE  SubSeq(s, n + 1, Len(s))[i] = <<"file", (n - h) + i>>
    <3>1. SubSeq(s, n + 1, Len(s))[i] = s[n + i] /\ n + i \in 1 .. Len(s) /\ n + i > h
      BY <1>1, <1>6
    <3>2. s[n + i] = <<"file", (n + i) - h>>
      BY <1>2, <3>1
    <3>. QED  BY <1>1, <3>1, <3>2
  <2>2. Len(SubSeq(s, n + 1, Len(s))) = Len(s) - n /\ SubSeq(s, n + 1, Len(s)) \in Seq(HttpTokens)
    BY <1>1, <1>6
  <2>. QED  BY <2>1, <2>2, Zenon DEF FileFrom
<1>. QED  BY <1>5, <1>7 DEF seg

(* Every answer a server can give is a header and a file, whole or cut off.  *)
LEMMA AnswerSound ==
    ASSUME NEW a \in Http!Answers, NEW n \in Nat, n <= Len(a)
    PROVE  \E h \in Nat : HeaderThenFile(SubSeq(a, 1, n), h)
<1>1. PICK st \in {200, 404}, l \in Http!Lengths, m \in 0 .. MaxBody :
         a = Http!Answer(st, l, m)
  BY DEF Http!Answers
<1>. DEFINE top == <<<<"status", st>>, Http!Crlf>>
            mid == IF l < 0 THEN <<>> ELSE <<<<"length", l>>, Http!Crlf>>
            f == Http!File(m)
            h == IF l < 0 THEN 3 ELSE 5
<1>0. MaxBody \in Nat /\ MaxFile \in Nat
  BY ServicesAssumption DEF HttpAssumption
<1>2. m \in Nat /\ l \in Int
  BY <1>0, <1>1 DEF Http!Lengths
<1>3. /\ <<"status", st>> \in HttpTokens /\ <<"length", l>> \in HttpTokens /\ Http!Crlf \in HttpTokens
      /\ \A i \in Int : <<"file", i>> \in HttpTokens
      /\ <<"status", st>> # Http!Crlf /\ <<"length", l>> # Http!Crlf /\ \A i \in Int : <<"file", i>> # Http!Crlf
  BY <1>1, <1>2 DEF HttpTokens, Http!Crlf
<1>4. f \in Seq(HttpTokens) /\ Len(f) = m /\ \A i \in 1 .. m : f[i] = <<"file", i>>
  BY <1>2, <1>3 DEF Http!File
<1>5. top \in Seq(HttpTokens) /\ Len(top) = 2 /\ top[1] = <<"status", st>> /\ top[2] = Http!Crlf
  BY <1>3
<1>6. /\ mid \in Seq(HttpTokens) /\ Len(mid) = h - 3 /\ h \in {3, 5} 
      /\ h = 5 => mid[1] = <<"length", l>> /\ mid[2] = Http!Crlf
  BY <1>2, <1>3
<1>7. <<Http!Crlf>> \in Seq(HttpTokens) /\ Len(<<Http!Crlf>>) = 1 /\ <<Http!Crlf>>[1] = Http!Crlf
  BY <1>3
<1>8. a = ((top \o mid) \o <<Http!Crlf>>) \o f
  BY <1>1, Zenon DEF Http!Answer
<1>. HIDE DEF top, mid, f, h
<1>9. /\ top \o mid \in Seq(HttpTokens) /\ Len(top \o mid) = h - 1
      /\ \A i \in 1 .. h - 1 : (top \o mid)[i] = IF i <= 2 THEN top[i] ELSE mid[i - 2]
  <2>1. /\ top \o mid \in Seq(HttpTokens) /\ Len(top \o mid) = Len(top) + Len(mid)
        /\ \A i \in 1 .. Len(top) + Len(mid) : (top \o mid)[i] =
               IF i <= Len(top) THEN top[i] ELSE mid[i - Len(top)]
    <3>1. ASSUME NEW s \in Seq(HttpTokens), NEW t \in Seq(HttpTokens)
          PROVE  /\ s \o t \in Seq(HttpTokens) /\ Len(s \o t) = Len(s) + Len(t)
                 /\ \A i \in 1 .. Len(s) + Len(t) : (s \o t)[i] =
                        IF i <= Len(s) THEN s[i] ELSE t[i - Len(s)]
      BY ConcatProperties
    <3>. QED  BY <1>5, <1>6, <3>1, Zenon
  <2>. QED  BY <1>5, <1>6, <2>1
<1>. DEFINE u == top \o mid
<1>. HIDE DEF u
<1>10. u \in Seq(HttpTokens) /\ Len(u) = h - 1 /\ \A i \in 1 .. h - 1 : u[i] = IF i <= 2 THEN top[i] ELSE mid[i - 2]
  BY <1>9 DEF u
<1>. DEFINE v == u \o <<Http!Crlf>>
<1>11. v \in Seq(HttpTokens) /\ Len(v) = h /\ \A i \in 1 .. h : v[i] = IF i <= h - 1 THEN u[i] ELSE Http!Crlf
  <2>1. /\ v \in Seq(HttpTokens) /\ Len(v) = Len(u) + Len(<<Http!Crlf>>)
        /\ \A i \in 1 .. Len(u) + Len(<<Http!Crlf>>) : v[i] =
               IF i <= Len(u) THEN u[i] ELSE <<Http!Crlf>>[i - Len(u)]
    <3>1. ASSUME NEW s \in Seq(HttpTokens), NEW t \in Seq(HttpTokens)
          PROVE  /\ s \o t \in Seq(HttpTokens) /\ Len(s \o t) = Len(s) + Len(t)
                 /\ \A i \in 1 .. Len(s) + Len(t) : (s \o t)[i] =
                        IF i <= Len(s) THEN s[i] ELSE t[i - Len(s)]
      BY ConcatProperties
    <3>. QED  BY <1>7, <1>10, <3>1, Zenon DEF v
  <2>2. Len(u) + Len(<<Http!Crlf>>) = h
    BY <1>6, <1>7, <1>10
  <2>3. ASSUME NEW i \in 1 .. h PROVE v[i] = IF i <= h - 1 THEN u[i] ELSE Http!Crlf
    <3>1. v[i] = IF i <= Len(u) THEN u[i] ELSE <<Http!Crlf>>[i - Len(u)]
      BY <2>1, <2>2
    <3>2. CASE i <= h - 1
      BY <1>10, <3>1, <3>2
    <3>3. CASE ~(i <= h - 1)
      <4>1. i - Len(u) = 1 /\ ~(i <= Len(u))
        BY <1>6, <1>10, <3>3
      <4>. QED  BY <1>7, <3>1, <3>3, <4>1
    <3>. QED  BY <3>2, <3>3
  <2>. QED  BY <2>1, <2>2, <2>3
<1>. HIDE DEF v
<1>12. a = v \o f
  BY <1>8, Zenon DEF u, v
<1>13. /\ a \in Seq(HttpTokens) /\ Len(a) = h + m
       /\ \A i \in 1 .. h + m : a[i] = IF i <= h THEN v[i] ELSE f[i - h]
  BY <1>4, <1>6, <1>11, <1>12, ConcatProperties
<1>14. /\ SubSeq(a, 1, n) \in Seq(HttpTokens) /\ Len(SubSeq(a, 1, n)) = n
       /\ \A i \in 1 .. n : SubSeq(a, 1, n)[i] = a[i]
  <2>1. Len(a) \in Nat
    BY <1>13, LenProperties
  <2>2. /\ SubSeq(a, 1, n) \in Seq(HttpTokens) /\ Len(SubSeq(a, 1, n)) = n - 1 + 1
        /\ \A i \in 1 .. n - 1 + 1 : SubSeq(a, 1, n)[i] = a[1 + i - 1]
    BY <1>13, <2>1, PieceOf
  <2>. QED  BY <2>2
<1>15. ASSUME NEW i \in 1 .. n, i > h PROVE SubSeq(a, 1, n)[i] = <<"file", i - h>>
  <2>1. a[i] = f[i - h] /\ i - h \in 1 .. m
    BY <1>2, <1>6, <1>13, <1>15
  <2>. QED  BY <1>4, <1>14, <2>1
<1>16. ASSUME NEW i \in 1 .. n, i < h PROVE ~EmptyAt(SubSeq(a, 1, n), i)
  <2>1. /\ i = 1 \/ i = 2 \/ (h = 5 /\ (i = 3 \/ i = 4))
    BY <1>6, <1>16
  <2>2. SubSeq(a, 1, n)[i] = u[i]
    <3>1. a[i] = v[i] /\ v[i] = u[i]
      BY <1>2, <1>6, <1>11, <1>13, <1>16
    <3>. QED  BY <1>14, <3>1
  <2>3. u[i] = IF i <= 2 THEN top[i] ELSE mid[i - 2]
    BY <1>6, <1>10, <1>16
  <2>4. CASE i = 1
    <3>1. u[i] = <<"status", st>>
      BY <1>5, <2>3, <2>4
    <3>. QED  BY <1>3, <2>2, <3>1 DEF EmptyAt
  <2>5. CASE i = 2 \/ i = 4
    <3>1. i - 1 \in 1 .. n /\ i - 1 < h
      BY <1>6, <1>16, <2>5
    <3>2. SubSeq(a, 1, n)[i - 1] = u[i - 1]
      <4>1. a[i - 1] = v[i - 1] /\ v[i - 1] = u[i - 1]
        BY <1>2, <1>6, <1>11, <1>13, <1>16, <3>1
      <4>. QED  BY <1>14, <3>1, <4>1
    <3>3. u[i - 1] = IF i - 1 <= 2 THEN top[i - 1] ELSE mid[(i - 1) - 2]
      BY <1>6, <1>10, <3>1
    <3>4. u[i - 1] = <<"status", st>> \/ u[i - 1] = <<"length", l>>
      <4>1. CASE i = 2
        BY <1>5, <3>3, <4>1
      <4>2. CASE i = 4
        <5>1. h = 5
          BY <2>1, <4>2
        <5>2. u[i - 1] = mid[1]
          BY <3>3, <4>2
        <5>. QED  BY <1>6, <5>1, <5>2, Zenon
      <4>. QED  BY <2>5, <4>1, <4>2
    <3>5. SubSeq(a, 1, n)[i - 1] # Http!Crlf
      BY <1>3, <3>2, <3>4
    <3>6. i # 1
      BY <2>5
    <3>. QED  BY <3>5, <3>6 DEF EmptyAt
  <2>6. CASE i = 3
    <3>1. h = 5 /\ u[i] = mid[1]
      BY <2>1, <2>3, <2>6
    <3>2. u[i] = <<"length", l>>
      BY <1>6, <3>1, Zenon
    <3>. QED  BY <1>3, <2>2, <3>2 DEF EmptyAt
  <2>. QED  BY <2>1, <2>4, <2>5, <2>6
<1>17. HeaderThenFile(SubSeq(a, 1, n), h)
  <2>1. h \in Nat /\ h >= 3
    BY <1>6
  <2>. QED  BY <1>14, <1>15, <1>16, <2>1 DEF HeaderThenFile
<1>. QED  BY <1>6, <1>17

(* Before the socket is made nothing has come.                              *)
LEMMA HttpBegins == Http!Init => HttpInv
BY DEF Http!Init, HttpInv, Http!SocketGivenBack

(* A download that fails promises nothing.                                  *)
LEMMA HttpFails ==
    ASSUME HttpInv, NEW e, e # "ok", NEW w, Http!Fail(e, w), w # "open" \/ e = "HTTP_ERROR_RESOLVE"
    PROVE  HttpInv'
BY DEF HttpInv, Http!Fail, Http!SocketGivenBack

(* A piece of the header, or its end with the first of the file.            *)
LEMMA HttpHeader == ASSUME HttpInv, Http!RecvHeader PROVE HttpInv'
<1>1. /\ httpAt = "header" /\ httpToCome # <<>> /\ UNCHANGED <<httpSock, httpResult>>
      /\ httpKept => httpSplit
  BY DEF HttpInv, Http!RecvHeader
<1>2. PICK n \in 1 .. Http!Min({MaxSegment, Len(httpToCome)}) :
        LET seg == SubSeq(httpToCome, 1, n)
            end == Http!EndOfHeader(seg)
        IN /\ httpToCome' = SubSeq(httpToCome, n + 1, Len(httpToCome))
           /\ IF httpKept
              THEN /\ httpKept' = FALSE
                   /\ UNCHANGED <<httpAt, httpReqOK, httpLength, httpBuffer, httpSplit>>
              ELSE /\ httpKept' = (end = 0)
                   /\ httpSplit' = (httpSplit \/ end = 0)
                   /\ httpAt' = IF end = 0 THEN "header" ELSE "check"
                   /\ httpBuffer' = IF end = 0 THEN httpBuffer ELSE SubSeq(seg, end + 1, n)
  BY Zenon DEF Http!RecvHeader
<1>. DEFINE seg == SubSeq(httpToCome, 1, n)
            end == Http!EndOfHeader(seg)
<1>3. CASE httpKept
  BY <1>1, <1>2, <1>3 DEF HttpInv, Http!SocketGivenBack
<1>4. CASE ~httpKept /\ end = 0
  <2>1. httpSplit' /\ httpAt' = "header"
    BY <1>2, <1>4, Zenon
  <2>. QED  BY <1>1, <2>1 DEF HttpInv, Http!SocketGivenBack
<1>5. CASE ~httpKept /\ end # 0
  <2>1. /\ httpToCome' = SubSeq(httpToCome, n + 1, Len(httpToCome)) /\ ~httpKept'
        /\ (httpSplit' <=> httpSplit) /\ httpAt' = "check" /\ httpBuffer' = SubSeq(seg, end + 1, n)
    <3>1. /\ httpToCome' = SubSeq(httpToCome, n + 1, Len(httpToCome)) /\ httpKept' = (end = 0)
          /\ httpSplit' = (httpSplit \/ end = 0) /\ httpAt' = IF end = 0 THEN "header" ELSE "check"
          /\ httpBuffer' = IF end = 0 THEN httpBuffer ELSE SubSeq(seg, end + 1, n)
      BY <1>2, <1>5, Zenon
    <3>2. httpSplit' <=> httpSplit
      BY <1>5, <3>1, Zenon
    <3>3. ~httpKept' /\ httpAt' = "check"
      BY <1>5, <3>1, Zenon
    <3>. QED  BY <3>1, <3>2, <3>3, Zenon
  <2>2. CASE httpSplit
    BY <1>1, <2>1, <2>2 DEF HttpInv, Http!SocketGivenBack
  <2>3. CASE ~httpSplit
    <3>1. PICK h \in Nat : HeaderThenFile(httpToCome, h)
      BY <1>1, <2>3 DEF HttpInv
    <3>2. Len(httpToCome) \in Nat /\ h >= 3
      BY <3>1, LenProperties DEF HeaderThenFile
    <3>3. MaxSegment \in Nat /\ MaxFile \in Nat /\ MaxSegment <= MaxFile + 3
      BY ServicesAssumption DEF HttpAssumption
    <3>4. n \in 1 .. Len(httpToCome) /\ n <= MaxSegment
      <4>1. Http!Min({MaxSegment, Len(httpToCome)}) \in Int /\ Http!Min({MaxSegment, Len(httpToCome)}) <= MaxSegment
            /\ Http!Min({MaxSegment, Len(httpToCome)}) <= Len(httpToCome)
        BY <3>2, <3>3, LeastOfTwo
      <4>. QED  BY <1>2, <3>2, <3>3, <4>1
    <3>5. h <= n /\ end = h
      BY <1>5, <3>1, <3>4, HeaderEndsAt
    <3>6. /\ FileFrom(0, SubSeq(seg, h + 1, n)) /\ Len(SubSeq(seg, h + 1, n)) = n - h
          /\ FileFrom(n - h, SubSeq(httpToCome, n + 1, Len(httpToCome)))
      BY <3>1, <3>2, <3>4, <3>5, FileBegins
    <3>7. FileFrom(0, httpBuffer') /\ Len(httpBuffer') = n - h /\ FileFrom(n - h, httpToCome')
      BY <2>1, <3>5, <3>6, Zenon
    <3>8. n - h <= MaxFile
      BY <3>2, <3>3, <3>4
    <3>. HIDE DEF seg, end
    <3>. QED  BY <1>1, <2>1, <3>7, <3>8 DEF HttpInv, Http!SocketGivenBack
  <2>. QED  BY <2>2, <2>3
<1>. QED  BY <1>3, <1>4, <1>5

(* A piece of the file.                                                     *)
LEMMA HttpBody == ASSUME HttpInv, Http!RecvBody PROVE HttpInv'
<1>1. httpAt = "body" /\ httpToCome # <<>>
  BY DEF Http!RecvBody
<1>2. PICK n \in 1 .. Http!Min({MaxSegment, Len(httpToCome)}) :
         \/ \E e \in {"HTTP_ERROR_SIZE", "HTTP_ERROR_MEMORY"} : Http!Fail(e, "closed")
         \/ /\ ~Http!TooLarge(Len(httpBuffer) + n)
            /\ httpToCome' = SubSeq(httpToCome, n + 1, Len(httpToCome))
            /\ httpBuffer' = Http!Extended(httpBuffer, SubSeq(httpToCome, 1, n))
            /\ UNCHANGED <<httpAt, httpSock, httpKept, httpReqOK, httpLength, httpResult, httpSplit>>
  BY Zenon DEF Http!RecvBody
<1>3. CASE \E e \in {"HTTP_ERROR_SIZE", "HTTP_ERROR_MEMORY"} : Http!Fail(e, "closed")
  BY <1>3, HttpFails
<1>4. CASE /\ ~Http!TooLarge(Len(httpBuffer) + n)
           /\ httpToCome' = SubSeq(httpToCome, n + 1, Len(httpToCome))
           /\ httpBuffer' = Http!Extended(httpBuffer, SubSeq(httpToCome, 1, n))
           /\ UNCHANGED <<httpAt, httpSock, httpKept, httpReqOK, httpLength, httpResult, httpSplit>>
  <2>1. CASE httpSplit
    BY <1>1, <1>4, <2>1 DEF HttpInv, Http!SocketGivenBack
  <2>2. CASE ~httpSplit
    <3>1. FileFrom(0, httpBuffer) /\ FileFrom(Len(httpBuffer), httpToCome)
      BY <1>1, <2>2 DEF HttpInv
    <3>2. MaxSegment \in Nat /\ MaxFile \in Nat /\ Len(httpToCome) \in Nat /\ Len(httpBuffer) \in Nat
      BY <3>1, ServicesAssumption, LenProperties DEF HttpAssumption, FileFrom
    <3>3. n \in 1 .. Len(httpToCome)
      <4>1. Http!Min({MaxSegment, Len(httpToCome)}) \in Int
            /\ Http!Min({MaxSegment, Len(httpToCome)}) <= Len(httpToCome)
        BY <3>2, LeastOfTwo
      <4>. QED  BY <1>2, <3>2, <4>1
    <3>4. /\ FileFrom(Len(httpBuffer), SubSeq(httpToCome, 1, n)) /\ Len(SubSeq(httpToCome, 1, n)) = n
          /\ FileFrom(Len(httpBuffer) + n, SubSeq(httpToCome, n + 1, Len(httpToCome)))
      BY <3>1, <3>2, <3>3, FileCut
    <3>5. httpBuffer' = httpBuffer \o SubSeq(httpToCome, 1, n)
      BY <1>4, Zenon DEF Http!Extended
    <3>6. FileFrom(0, httpBuffer') /\ Len(httpBuffer') = Len(httpBuffer) + n
      <4>1. \A t : FileFrom(Len(httpBuffer), t) =>
               FileFrom(0, httpBuffer \o t) /\ Len(httpBuffer \o t) = Len(httpBuffer) + Len(t)
        BY <3>1, FileJoined
      <4>. QED  BY <3>4, <3>5, <4>1, Zenon
    <3>7. Len(httpBuffer') <= MaxFile
      BY <1>4, <3>2, <3>3, <3>6 DEF Http!TooLarge
    <3>8. FileFrom(Len(httpBuffer'), httpToCome')
      BY <1>4, <3>4, <3>6, Zenon
    <3>. QED  BY <1>1, <1>4, <3>6, <3>7, <3>8 DEF HttpInv, Http!SocketGivenBack
  <2>. QED  BY <2>1, <2>2
<1>. QED  BY <1>2, <1>3, <1>4

(* Every call of the function, failed ones included.                        *)
LEMMA HttpSteps == ASSUME HttpInv, [Http!Next]_(Http!httpVars) PROVE HttpInv'
<1>1. CASE UNCHANGED Http!httpVars
  BY <1>1 DEF Http!httpVars, HttpInv, Http!SocketGivenBack
<1>2. ASSUME Http!Socket \/ Http!Resolve \/ Http!Connect PROVE HttpInv'
  <2>1. \/ \E e \in {"HTTP_ERROR_SOCKET", "HTTP_ERROR_CONNECT"}, w \in {"none", "closed"} : Http!Fail(e, w)
        \/ Http!Fail("HTTP_ERROR_RESOLVE", httpSock)
        \/ /\ httpAt \in {"socket", "resolve", "connect"} /\ httpAt' \in {"resolve", "connect", "send"}
           /\ UNCHANGED <<httpToCome, httpKept, httpReqOK, httpLength, httpBuffer, httpResult, httpSplit>>
    BY <1>2 DEF Http!Socket, Http!Resolve, Http!Connect
  <2>2. CASE \E e \in {"HTTP_ERROR_SOCKET", "HTTP_ERROR_CONNECT"}, w \in {"none", "closed"} : Http!Fail(e, w)
    BY <2>2, HttpFails
  <2>3. CASE Http!Fail("HTTP_ERROR_RESOLVE", httpSock)
    BY <2>3, HttpFails
  <2>4. CASE /\ httpAt \in {"socket", "resolve", "connect"} /\ httpAt' \in {"resolve", "connect", "send"}
             /\ UNCHANGED <<httpToCome, httpKept, httpReqOK, httpLength, httpBuffer, httpResult, httpSplit>>
    BY <2>4 DEF HttpInv, Http!SocketGivenBack
  <2>. QED  BY <2>1, <2>2, <2>3, <2>4
<1>3. ASSUME Http!SendRequest PROVE HttpInv'
  <2>1. httpAt = "send"
    BY <1>3 DEF Http!SendRequest
  <2>2. CASE Http!Fail("HTTP_ERROR_SEND", "closed")
    BY <2>2, HttpFails
  <2>3. CASE ~Http!Fail("HTTP_ERROR_SEND", "closed")
    <3>1. PICK a \in Http!Answers, n \in 0 .. (MaxBody + 6) : n <= Len(a) /\ httpToCome' = SubSeq(a, 1, n)
      BY <1>3, <2>3 DEF Http!SendRequest
    <3>2. n \in Nat
      BY <3>1, ServicesAssumption DEF HttpAssumption
    <3>3. \E h \in Nat : HeaderThenFile(httpToCome', h)
      <4>1. \E h \in Nat : HeaderThenFile(SubSeq(a, 1, n), h)
        BY <3>1, <3>2, AnswerSound
      <4>. QED  BY <3>1, <4>1, Zenon
    <3>4. httpAt' = "header" /\ UNCHANGED <<httpSock, httpKept, httpReqOK, httpLength, httpBuffer, httpResult, httpSplit>>
      BY <1>3, <2>3 DEF Http!SendRequest
    <3>. QED  BY <2>1, <3>3, <3>4 DEF HttpInv, Http!SocketGivenBack
  <2>. QED  BY <2>2, <2>3
<1>4. ASSUME Http!RecvHeader PROVE HttpInv'
  BY <1>4, HttpHeader
<1>5. ASSUME Http!HeaderBreaks \/ Http!BodyBreaks PROVE HttpInv'
  BY <1>5, HttpFails DEF Http!HeaderBreaks, Http!BodyBreaks
<1>6. ASSUME Http!CheckHeader PROVE HttpInv'
  <2>1. \/ \E e \in {"HTTP_ERROR_BADREQ", "HTTP_ERROR_SIZE", "HTTP_ERROR_MEMORY"} : Http!Fail(e, "closed")
        \/ /\ httpAt = "check" /\ httpAt' = "body"
           /\ UNCHANGED <<httpSock, httpToCome, httpKept, httpReqOK, httpLength, httpBuffer, httpResult, httpSplit>>
    BY <1>6, Zenon DEF Http!CheckHeader
  <2>2. CASE \E e \in {"HTTP_ERROR_BADREQ", "HTTP_ERROR_SIZE", "HTTP_ERROR_MEMORY"} : Http!Fail(e, "closed")
    BY <2>2, HttpFails
  <2>3. CASE /\ httpAt = "check" /\ httpAt' = "body"
             /\ UNCHANGED <<httpSock, httpToCome, httpKept, httpReqOK, httpLength, httpBuffer, httpResult, httpSplit>>
    BY <2>3 DEF HttpInv, Http!SocketGivenBack
  <2>. QED  BY <2>1, <2>2, <2>3
<1>7. ASSUME Http!RecvBody PROVE HttpInv'
  BY <1>7, HttpBody
<1>8. ASSUME Http!BodyEnds \/ Http!Again PROVE HttpInv'
  BY <1>8 DEF HttpInv, Http!BodyEnds, Http!Again, Http!SocketGivenBack
<1>. QED
  BY <1>1, <1>2, <1>3, <1>4, <1>5, <1>6, <1>7, <1>8 DEF Http!Next

(* What the property asks of a download.                                    *)
LEMMA HttpMeant == ASSUME HttpInv PROVE Http!SuccessIsTheFile /\ Http!SocketGivenBack
<1>1. ASSUME httpAt = "return", httpResult = "ok", ~httpSplit
      PROVE  httpBuffer = Http!File(Len(httpBuffer)) /\ Len(httpBuffer) <= MaxFile
  <2>1. FileFrom(0, httpBuffer) /\ Len(httpBuffer) <= MaxFile
    BY <1>1 DEF HttpInv
  <2>2. Len(httpBuffer) \in Nat /\ httpBuffer \in [1 .. Len(httpBuffer) -> HttpTokens]
    BY <2>1, LenProperties DEF FileFrom
  <2>3. \A i \in 1 .. Len(httpBuffer) : httpBuffer[i] = <<"file", i>>
    BY <2>1, <2>2 DEF FileFrom
  <2>4. httpBuffer = Http!File(Len(httpBuffer))
    BY <2>2, <2>3 DEF Http!File
  <2>. QED  BY <2>1, <2>4
<1>. QED  BY <1>1 DEF HttpInv, Http!SuccessIsTheFile

-------------------------------------------------------------------------------
(* Ps2Clock: the two halves of a time                                         *)

\* The registers and the counter of interrupts together are the time that passed;
\* what a thread has read is a part of the time when it began.
TimerInv ==
    /\ tmCount \in 0 .. (Period - 1) /\ tmOverflow \in BOOLEAN /\ tmInterrupts \in Nat
    /\ tmElapsed \in Nat
    /\ tmElapsed = (IF tmOverflow THEN tmInterrupts + 1 ELSE tmInterrupts) * Period + tmCount
    /\ tmHalf # "nothing" =>
        /\ tmBegan \in Nat /\ tmBegan <= tmElapsed
        /\ tmHalf = "count" => tmValue = tmBegan % Period
        /\ tmHalf # "count" => tmValue = tmBegan \div Period

(* A time is a number of periods and a part of one.                          *)
LEMMA PeriodsOf ==
    ASSUME NEW n \in Nat, NEW p \in Nat \ {0}
    PROVE  \E d \in Nat, r \in 0 .. (p - 1) :
              d = n \div p /\ r = n % p /\ d * p \in Nat /\ n = d * p + r
<1>1. PICK d, r : d = n \div p /\ r = n % p
  OBVIOUS
<1>2. d \in Nat /\ r \in 0 .. (p - 1) /\ n = p * d + r
  BY <1>1
<1>3. d * p = p * d /\ d * p \in Nat
  BY <1>2
<1>4. d \in Nat /\ r \in 0 .. (p - 1) /\ d * p \in Nat /\ n = d * p + r
  BY <1>2, <1>3
<1>. QED  BY <1>1, <1>4, Zenon

(* A number is its periods and what is left.                                *)
LEMMA PeriodsAre ==
    ASSUME NEW q \in Nat, NEW p \in Nat \ {0}, NEW r \in 0 .. (p - 1)
    PROVE  (q * p + r) \div p = q /\ (q * p + r) % p = r
OBVIOUS

(* Of two times the later one has as many full periods, or more.             *)
LEMMA PeriodsGrow ==
    ASSUME NEW a \in Nat, NEW b \in Nat, NEW p \in Nat \ {0}
    PROVE  /\ a = b => a * p = b * p
           /\ a < b => a * p + p <= b * p
<1>1. a * p \in Nat /\ b * p \in Nat
  OBVIOUS
<1>2. ASSUME a < b PROVE a * p + p <= b * p
  <2>1. (b - a) * p = b * p - a * p /\ (b - a) * p >= p
    BY <1>2
  <2>. QED  BY <1>1, <2>1
<1>. QED  BY <1>2

(* A reading is near the time in which it was made, if one of its halves is  *)
(* of its beginning and the other of its end.                                *)
LEMMA HalvesFit ==
    ASSUME NEW e \in Nat, NEW b \in Nat, b <= e, NEW p \in Nat \ {0}, NEW t,
           t = (b % p) + (e \div p) * p \/ t = (e % p) + (b \div p) * p
    PROVE  IF e \div p = b \div p THEN t \in b .. e ELSE t \in (b - p) .. (e + p)
<1>1. PICK ed \in Nat, er \in 0 .. (p - 1) :
         ed = e \div p /\ er = e % p /\ ed * p \in Nat /\ e = ed * p + er
  BY PeriodsOf, Zenon
<1>2. PICK bd \in Nat, br \in 0 .. (p - 1) :
         bd = b \div p /\ br = b % p /\ bd * p \in Nat /\ b = bd * p + br
  BY PeriodsOf, Zenon
<1>. DEFINE ep == ed * p
            bp == bd * p
<1>3. ep \in Nat /\ bp \in Nat /\ e = ep + er /\ b = bp + br
  BY <1>1, <1>2
<1>4. (ed = bd => ep = bp) /\ (bd < ed => bp + p <= ep) /\ (ed < bd => ep + p <= bp)
  BY PeriodsGrow
<1>5. t = br + ep \/ t = er + bp
  BY <1>1, <1>2, Zenon
<1>6. IF ed = bd THEN t \in b .. e ELSE t \in (b - p) .. (e + p)
  <2>. HIDE DEF ep, bp
  <2>. QED  BY <1>3, <1>4, <1>5
<1>. QED  BY <1>1, <1>2, <1>6, Zenon

(* No time has passed.                                                      *)
LEMMA TimerBegins == TimerAssumption /\ Clock!TimerInit => TimerInv
<1>1. TimerAssumption => 0 \in 0 .. (Period - 1) /\ 0 = 0 * Period + 0
  BY DEF TimerAssumption
<1>2. Clock!TimerInit => (tmOverflow \in BOOLEAN /\ ~tmOverflow)
  BY Zenon DEF Clock!TimerInit
<1>3. TimerAssumption /\ Clock!TimerInit =>
        tmElapsed = (IF tmOverflow THEN tmInterrupts + 1 ELSE tmInterrupts) * Period + tmCount
  BY <1>1, <1>2 DEF Clock!TimerInit
<1>. QED  BY <1>1, <1>2, <1>3 DEF Clock!TimerInit, TimerInv

(* A tick, the interrupt, and either register read first or second.         *)
LEMMA TimerSteps ==
    ASSUME TimerAssumption, TimerInv, [Clock!TimerNext]_(Clock!timerVars)
    PROVE  TimerInv' /\ [Clock!ReadingNear]_(Clock!timerVars)
<1>. DEFINE full == IF tmOverflow THEN tmInterrupts + 1 ELSE tmInterrupts
            whole == full * Period
            next == (full + 1) * Period
<1>1. /\ Period \in Nat \ {0}
      /\ tmCount \in 0 .. (Period - 1) /\ tmOverflow \in BOOLEAN /\ tmInterrupts \in Nat
      /\ tmElapsed \in Nat /\ full \in Nat /\ tmElapsed = whole + tmCount
  BY DEF TimerAssumption, TimerInv
<1>2. whole \in Nat /\ next = whole + Period
  BY <1>1
<1>3. CASE UNCHANGED Clock!timerVars
  BY <1>3 DEF Clock!timerVars, TimerInv
<1>4. CASE Clock!CountUp
  <2>1. /\ tmElapsed' = tmElapsed + 1 /\ UNCHANGED <<tmInterrupts, tmHalf, tmValue, tmBegan>>
        /\ tmCount = Period - 1 => ~tmOverflow
        /\ tmCount' = (tmCount + 1) % Period
        /\ tmOverflow' = (tmOverflow \/ tmCount = Period - 1)
    BY <1>4 DEF Clock!CountUp
  <2>2. /\ tmCount' \in 0 .. (Period - 1) /\ tmOverflow' \in BOOLEAN
        /\ tmElapsed' = (IF tmOverflow' THEN tmInterrupts' + 1 ELSE tmInterrupts') * Period + tmCount'
    <3>1. CASE tmCount = Period - 1
      <4>1. tmCount + 1 = Period /\ Period % Period = 0
        BY <1>1, <3>1
      <4>2. tmCount' = 0 /\ ~tmOverflow /\ full = tmInterrupts
        BY <2>1, <3>1, <4>1
      <4>3. tmOverflow' = TRUE
        BY <2>1, <3>1, Zenon
      <4>4. tmElapsed' = next
        <5>. HIDE DEF full, whole, next
        <5>. QED  BY <1>1, <1>2, <2>1, <3>1
      <4>. QED  BY <1>1, <2>1, <4>2, <4>3, <4>4
    <3>2. CASE tmCount # Period - 1
      <4>1. tmCount + 1 \in 0 .. (Period - 1)
        BY <1>1, <3>2
      <4>2. tmCount' = tmCount + 1
        BY <1>1, <2>1, <4>1
      <4>3. tmOverflow' <=> tmOverflow
        BY <2>1, <3>2, Zenon
      <4>4. tmOverflow' \in BOOLEAN
        BY <2>1, Zenon
      <4>5. tmElapsed' = whole + tmCount'
        <5>. HIDE DEF whole
        <5>. QED  BY <1>1, <1>2, <2>1, <4>2
      <4>6. (IF tmOverflow' THEN tmInterrupts' + 1 ELSE tmInterrupts') = full
        BY <2>1, <4>3
      <4>. QED  BY <4>1, <4>2, <4>4, <4>5, <4>6
    <3>. QED  BY <3>1, <3>2
  <2>3. tmHalf' # "nothing" => tmBegan' \in Nat /\ tmBegan' <= tmElapsed'
    BY <1>1, <2>1 DEF TimerInv
  <2>4. TimerInv'
    BY <1>1, <2>1, <2>2, <2>3 DEF TimerInv
  <2>. QED  BY <2>1, <2>4 DEF Clock!ReadingNear
<1>5. CASE Clock!Interrupt
  <2>1. /\ tmOverflow /\ ~tmOverflow' /\ tmOverflow' \in BOOLEAN /\ tmInterrupts' = tmInterrupts + 1
        /\ UNCHANGED <<tmCount, tmHalf, tmValue, tmElapsed, tmBegan>>
    BY <1>5 DEF Clock!Interrupt
  <2>. QED  BY <1>1, <2>1 DEF TimerInv, Clock!ReadingNear
<1>6. ~tmOverflow => tmElapsed \div Period = tmInterrupts /\ tmElapsed % Period = tmCount
  <2>1. (tmInterrupts * Period + tmCount) \div Period = tmInterrupts
        /\ (tmInterrupts * Period + tmCount) % Period = tmCount
    BY <1>1, PeriodsAre
  <2>. QED  BY <1>1, <2>1
<1>7. ASSUME NEW register \in {"count", "interrupts"}, Clock!ReadFirst(register)
      PROVE  TimerInv' /\ Clock!ReadingNear
  <2>1. /\ ~tmOverflow /\ tmHalf = "nothing" /\ tmHalf' = register /\ tmBegan' = tmElapsed
        /\ tmValue' = IF register = "count" THEN tmCount ELSE tmInterrupts
        /\ UNCHANGED <<tmCount, tmOverflow, tmInterrupts, tmElapsed>>
    BY <1>7 DEF Clock!ReadFirst
  <2>. QED  BY <1>1, <1>6, <2>1 DEF TimerInv, Clock!ReadingNear
<1>8. CASE Clock!ReadSecond
  <2>1. /\ ~tmOverflow /\ tmHalf # "nothing" /\ tmHalf' = "nothing"
        /\ tmReading' = IF tmHalf = "count" THEN tmValue + tmInterrupts * Period
                        ELSE tmCount + tmValue * Period
        /\ UNCHANGED <<tmCount, tmOverflow, tmInterrupts, tmElapsed, tmBegan>>
    BY <1>8 DEF Clock!ReadSecond, Clock!Time
  <2>2. /\ tmBegan \in Nat /\ tmBegan <= tmElapsed
        /\ tmHalf = "count" => tmValue = tmBegan % Period
        /\ tmHalf # "count" => tmValue = tmBegan \div Period
    BY <2>1 DEF TimerInv
  <2>3. \/ tmReading' = (tmBegan % Period) + (tmElapsed \div Period) * Period
        \/ tmReading' = (tmElapsed % Period) + (tmBegan \div Period) * Period
    BY <1>6, <2>1, <2>2, Zenon
  <2>4. IF tmElapsed \div Period = tmBegan \div Period THEN tmReading' \in tmBegan .. tmElapsed
        ELSE tmReading' \in (tmBegan - Period) .. (tmElapsed + Period)
    BY <1>1, <2>2, <2>3, HalvesFit
  <2>5. Clock!ReadingNear
    BY <2>4, Zenon DEF Clock!ReadingNear
  <2>6. TimerInv'
    BY <2>1 DEF TimerInv
  <2>. QED  BY <2>5, <2>6
<1>. QED  BY <1>3, <1>4, <1>5, <1>7, <1>8 DEF Clock!TimerNext

-------------------------------------------------------------------------------
(* Mp3Sources: files of music                                                 *)

\* At each stage, what was computed before.
TrackInv ==
    /\ tfFile \in Tracks
    /\ tfStage \in {"read", "behind", "stripped", "rated", "decoding"}
    /\ tfNID3Size = IF tfStage \in {"read", "behind"} \/ tfFile.tag = Sources!NoTag THEN 0
                    ELSE Sources!TagSize(tfFile.tag)
    /\ tfNFileSize = Sources!SizeOf(tfFile) - tfNID3Size
                     - (IF tfStage # "read" /\ tfFile.tagBehind THEN 128 ELSE 0)
    /\ tfStage \in {"rated", "decoding"} =>
          tfNBitRate = IF \/ tfFile.tag.has0xFF \/ tfFile.frame = Sources!NoFrame
                          \/ tfNFileSize <= Sources!TagBytes(tfFile.tag) + tfFile.junk
                       THEN -1 ELSE Sources!FrameRate(tfFile.frame)
    /\ tfStage = "decoding" =>
          tfMp3_tracklength = IF tfNBitRate > 0 THEN tfNFileSize \div (tfNBitRate * 128) ELSE 0

(* Sizes are numbers, and a digit of seven bits is one of eight if it is the *)
(* only one.                                                                 *)
LEMMA SizesOfTags ==
    ASSUME NEW f \in Tracks
    PROVE  /\ Sources!TagBytes(f.tag) \in Nat /\ Sources!SizeOf(f) \in Nat
           /\ f.tag # Sources!NoTag => Sources!TagSize(f.tag) \in Nat
           /\ f.tag # Sources!NoTag /\ Sources!TagBytes(f.tag) < 128 + Sources!Around(f.tag) =>
                 Sources!TagSize(f.tag) = Sources!TagBytes(f.tag)
<1>. DEFINE d == f.tag.digits
            around == Sources!Around(f.tag)
<1>1. f.junk \in Nat /\ f.audio \in Nat /\ around \in {10, 20}
  BY TracksAssumption DEF Sources!Around
<1>2. Sources!TagBytes(f.tag) = IF f.tag = Sources!NoTag THEN 0
                                ELSE d[4] + 128 * (d[3] + 128 * (d[2] + 128 * d[1])) + around
  BY DEF Sources!TagBytes, Sources!Number
<1>3. Sources!TagSize(f.tag) = d[4] + 256 * (d[3] + 256 * (d[2] + 256 * d[1])) + around
  BY DEF Sources!TagSize, Sources!Number
<1>4. f.tag # Sources!NoTag => d[1] \in Nat /\ d[2] \in Nat /\ d[3] \in Nat /\ d[4] \in Nat
  BY TracksAssumption
<1>5. Sources!SizeOf(f) = Sources!TagBytes(f.tag) + f.junk + f.audio + (IF f.tagBehind THEN 128 ELSE 0)
  BY DEF Sources!SizeOf
<1>6. Sources!TagBytes(f.tag) \in Nat /\ (f.tag # Sources!NoTag => Sources!TagSize(f.tag) \in Nat)
  <2>. HIDE DEF d, around
  <2>. QED  BY <1>1, <1>2, <1>3, <1>4
<1>7. f.tag # Sources!NoTag /\ Sources!TagBytes(f.tag) < 128 + around =>
         Sources!TagSize(f.tag) = Sources!TagBytes(f.tag)
  <2>. HIDE DEF d, around
  <2>. QED  BY <1>1, <1>2, <1>3, <1>4
<1>8. Sources!SizeOf(f) \in Nat
  BY <1>1, <1>5, <1>6
<1>. QED  BY <1>6, <1>7, <1>8

(* The program's table has a rate of the standard at the next index.         *)
LEMMA RatesAgree ==
    ASSUME NEW l \in 1..3, NEW i \in 1..14
    PROVE  /\ Sources!Bitrates["V1"][l][i + 1] = Sources!Kilobits.V1[l][i]
           /\ Sources!Kilobits.V1[l][i] \in Nat \ {0}
<1>. DEFINE t == Sources!Bitrates["V1"]
            k == Sources!Kilobits.V1
<1>1. /\ t[1] = << 0, 32, 40, 48, 56, 64, 80, 96, 112, 128, 160, 192, 224, 256, 320 >>
      /\ t[2] = << 0, 32, 48, 56, 64, 80, 96, 112, 128, 160, 192, 224, 256, 320, 384 >>
      /\ t[3] = << 0, 32, 64, 96, 128, 160, 192, 224, 256, 288, 320, 352, 384, 416, 448 >>
  BY DEF Sources!Bitrates
<1>2. /\ k[1] = << 32, 40, 48, 56, 64, 80, 96, 112, 128, 160, 192, 224, 256, 320 >>
      /\ k[2] = << 32, 48, 56, 64, 80, 96, 112, 128, 160, 192, 224, 256, 320, 384 >>
      /\ k[3] = << 32, 64, 96, 128, 160, 192, 224, 256, 288, 320, 352, 384, 416, 448 >>
  BY DEF Sources!Kilobits
<1>. HIDE DEF t, k
<1>3. l = 1 => t[l][i + 1] = k[l][i] /\ k[l][i] \in Nat \ {0}
  BY <1>1, <1>2
<1>4. l = 2 => t[l][i + 1] = k[l][i] /\ k[l][i] \in Nat \ {0}
  BY <1>1, <1>2
<1>5. l = 3 => t[l][i + 1] = k[l][i] /\ k[l][i] \in Nat \ {0}
  BY <1>1, <1>2
<1>6. t[l][i + 1] = k[l][i] /\ k[l][i] \in Nat \ {0}
  BY <1>3, <1>4, <1>5
<1>. QED  BY <1>6 DEF t, k

(* Kilobits of 1024 bits instead of 1000 make a track seem shorter by less   *)
(* than a fortieth.                                                          *)
LEMMA LengthsNear ==
    ASSUME NEW n \in Nat, NEW k \in Nat \ {0}, NEW a, a = n \div (k * 128)
    PROVE  a * (125 * k) <= n /\ n < (a + 1) * (125 * k) + (n \div 40)
<1>1. PICK q \in Nat, r \in 0 .. (k * 128 - 1) :
         q = n \div (k * 128) /\ r = n % (k * 128) /\ q * (k * 128) \in Nat /\ n = q * (k * 128) + r
  BY PeriodsOf
<1>2. PICK m \in Nat, s \in 0 .. 39 : m = n \div 40 /\ s = n % 40 /\ m * 40 \in Nat /\ n = m * 40 + s
  BY PeriodsOf
<1>3. PICK b : b = q * k
  OBVIOUS
<1>4. /\ b \in Nat /\ q * (k * 128) = 128 * b /\ q * (125 * k) = 125 * b
      /\ (q + 1) * (125 * k) = 125 * b + 125 * k
  BY <1>3
<1>5. 125 * b <= n /\ n < 125 * b + 125 * k + m
  <2>1. n = 128 * b + r /\ n = m * 40 + s
    BY <1>1, <1>2, <1>4
  <2>. QED  BY <1>4, <2>1
<1>. QED  BY <1>1, <1>2, <1>4, <1>5

(* The file as it is.                                                       *)
LEMMA TrackBegins == Sources!TrackInit => TrackInv
<1>. SUFFICES ASSUME Sources!TrackInit PROVE TrackInv
  OBVIOUS
<1>1. tfFile \in Tracks /\ Sources!SizeOf(tfFile) \in Nat
  BY SizesOfTags DEF Sources!TrackInit
<1>. QED  BY <1>1 DEF Sources!TrackInit, TrackInv

(* Each of the stages of a file of music.                                   *)
LEMMA TrackSteps ==
    ASSUME TrackInv, [Sources!TrackNext]_(Sources!trackVars)
    PROVE  TrackInv'
<1>1. tfFile \in Tracks
  BY DEF TrackInv
<1>2. Sources!SizeOf(tfFile) \in Nat /\ (tfFile.tag # Sources!NoTag => Sources!TagSize(tfFile.tag) \in Nat)
  BY <1>1, SizesOfTags
<1>3. CASE UNCHANGED Sources!trackVars
  BY <1>3 DEF Sources!trackVars, TrackInv
<1>4. CASE Sources!StripID3V1
  BY <1>2, <1>4 DEF Sources!StripID3V1, TrackInv
<1>5. CASE Sources!StripID3V2
  BY <1>2, <1>5 DEF Sources!StripID3V2, TrackInv
<1>6. CASE Sources!GetBitrate
  <2>1. tfStage = "stripped" /\ tfStage' = "rated" /\ UNCHANGED <<tfFile, tfNFileSize, tfNID3Size>>
    BY <1>6 DEF Sources!GetBitrate
  <2>2. tfNBitRate' = IF \/ tfFile.tag.has0xFF \/ tfFile.frame = Sources!NoFrame
                         \/ tfNFileSize <= Sources!TagBytes(tfFile.tag) + tfFile.junk
                      THEN -1 ELSE Sources!FrameRate(tfFile.frame)
    BY <1>6 DEF Sources!GetBitrate
  <2>. QED  BY <2>1, <2>2 DEF TrackInv
<1>7. CASE Sources!SetTrackLength
  <2>1. /\ tfStage = "rated" /\ tfStage' = "decoding"
        /\ UNCHANGED <<tfFile, tfNFileSize, tfNID3Size, tfNBitRate>>
        /\ tfMp3_tracklength' = IF tfNBitRate > 0 THEN tfNFileSize \div (tfNBitRate * 128) ELSE 0
    BY <1>7 DEF Sources!SetTrackLength
  <2>. QED  BY <2>1 DEF TrackInv
<1>. QED  BY <1>3, <1>4, <1>5, <1>6, <1>7 DEF Sources!TrackNext

(* Tags are left out, and the length is that of the audio.                  *)
LEMMA TrackMeant == ASSUME TrackInv PROVE Sources!TrackRight
<1>. DEFINE size == Sources!SizeOf(tfFile)
            front == Sources!TagBytes(tfFile.tag)
            short == front < 128 + Sources!Around(tfFile.tag)
            behind == IF tfFile.tagBehind THEN 128 ELSE 0
<1>1. /\ tfFile \in Tracks /\ tfFile.junk \in Nat /\ tfFile.audio \in Nat
      /\ tfFile.frame.version = "V1" => tfFile.frame.layer \in 1..3 /\ tfFile.frame.index \in 0..14
  BY TracksAssumption DEF TrackInv
<1>2. /\ front \in Nat /\ size \in Nat
      /\ tfFile.tag # Sources!NoTag => Sources!TagSize(tfFile.tag) \in Nat
      /\ tfFile.tag # Sources!NoTag /\ short => Sources!TagSize(tfFile.tag) = front
  BY <1>1, SizesOfTags
<1>3. tfFile.tag = Sources!NoTag => front = 0
  BY DEF Sources!TagBytes
<1>4. ASSUME tfStage \in {"stripped", "rated", "decoding"}
      PROVE  /\ tfNFileSize \in Int
             /\ tfNFileSize = size - tfNID3Size - behind
             /\ short => tfNID3Size = front
  BY <1>2, <1>3, <1>4 DEF TrackInv
<1>5. Sources!TagsLeftOut
  <2>1. ASSUME tfStage \in {"stripped", "rated", "decoding"}, short
        PROVE  tfNID3Size = front /\ tfNID3Size + tfNFileSize = size - behind
    <3>1. tfNID3Size = front /\ tfNFileSize = size - front - behind
      BY <1>4, <2>1
    <3>. HIDE DEF size, front, short
    <3>. QED  BY <1>2, <3>1
  <2>. QED  BY <2>1 DEF Sources!TagsLeftOut
<1>6. ASSUME tfStage = "decoding", tfNBitRate # -1, Sources!Usual
      PROVE  LET bytes == 125 * Sources!Kilobits.V1[tfFile.frame.layer][tfFile.frame.index] IN
                /\ tfMp3_tracklength * bytes <= tfNFileSize
                /\ tfNFileSize < (tfMp3_tracklength + 1) * bytes + (tfNFileSize \div 40)
  <2>. DEFINE k == Sources!Kilobits.V1[tfFile.frame.layer][tfFile.frame.index]
  <2>1. tfFile.frame.version = "V1" /\ tfFile.frame.layer \in 1..3 /\ tfFile.frame.index \in 1..14
    BY <1>1, <1>6 DEF Sources!Usual
  <2>2. /\ tfNBitRate = Sources!FrameRate(tfFile.frame)
        /\ ~(tfNFileSize <= front + tfFile.junk)
    BY <1>6 DEF TrackInv
  <2>3. Sources!FrameRate(tfFile.frame) = k /\ k \in Nat \ {0}
    <3>1. Sources!FrameRate(tfFile.frame) =
             Sources!Bitrates["V1"][tfFile.frame.layer][tfFile.frame.index + 1]
      BY <2>1, Zenon DEF Sources!FrameRate
    <3>2. /\ Sources!Bitrates["V1"][tfFile.frame.layer][tfFile.frame.index + 1] = k
          /\ k \in Nat \ {0}
      BY <2>1, RatesAgree, Zenon
    <3>. QED  BY <3>1, <3>2, Zenon
  <2>4. tfNFileSize \in Nat
    BY <1>1, <1>2, <1>4, <1>6, <2>2
  <2>5. tfMp3_tracklength = tfNFileSize \div (k * 128)
    BY <1>6, <2>2, <2>3 DEF TrackInv
  <2>. HIDE DEF k
  <2>6. tfMp3_tracklength * (125 * k) <= tfNFileSize
        /\ tfNFileSize < (tfMp3_tracklength + 1) * (125 * k) + (tfNFileSize \div 40)
    BY <2>3, <2>4, <2>5, LengthsNear
  <2>. QED  BY <2>6 DEF k
<1>7. ASSUME tfStage = "decoding", tfFile.frame = Sources!NoFrame PROVE tfMp3_tracklength = 0
  BY <1>7 DEF TrackInv
<1>. QED  BY <1>5, <1>6, <1>7 DEF Sources!TrackRight, Sources!LengthShown

-------------------------------------------------------------------------------
(* Sound: from the frame to the ring of the driver                            *)

Driver == [ring : [0 .. (Ring - 1) -> Seq(Nat)], read : 0 .. (Ring - 1), used : 0 .. Ring, volume : Volumes]
\* The driver counts as the program does, samples wait only while they are stored, and
\* the volume is the remembered one as soon as the track began.
SoundInv ==
    /\ soIop \in Driver /\ soPcm \in Seq(Nat) /\ soFrame \in Seq(Nat)
    /\ soMade \in Nat /\ soPlayed \in Nat /\ soVolume \in Volumes /\ soLastVolume \in Volumes
    /\ soBufpos = (soIop.read + soIop.used) % Ring
    /\ Sound!SamplesInOrder
    /\ soPc \notin {"store", "full"} => soFrame = <<>>
    /\ Len(soPcm) <= Tick /\ (soPc = "full" <=> Len(soPcm) = Tick)
    /\ soEarly = "began" /\ soPc \notin {"idle", "ending", "fault"} => soIop.volume = soLastVolume
    /\ soEarly = "before" /\ soPc # "idle" /\ soLastVolume = soVolume => soIop.volume = soVolume

(* A place behind another in the ring.                                       *)
LEMMA RingPlace ==
    ASSUME Ring \in Nat \ {0}, NEW a \in 0 .. (Ring - 1), NEW b \in 0 .. Ring
    PROVE  /\ a + b < Ring => (a + b) % Ring = a + b
           /\ a + b >= Ring => (a + b) % Ring = a + b - Ring
<1>1. ASSUME NEW n \in Nat \ {0}, NEW x \in 0 .. (n - 1), NEW y \in 0 .. n
      PROVE  /\ x + y < n => (x + y) % n = x + y
             /\ x + y >= n => (x + y) % n = x + y - n
  OBVIOUS
<1>. QED  BY <1>1, Zenon

(* The samples of a frame are numbered as they were decoded.                *)
LEMMA NumbersAre ==
    ASSUME NEW m \in Nat, NEW n \in Nat
    PROVE  /\ Sound!Numbers(m, n) \in Seq(Nat) /\ Len(Sound!Numbers(m, n)) = n
           /\ \A i \in 1 .. n : Sound!Numbers(m, n)[i] = m + i
BY DEF Sound!Numbers

(* A sample goes from the frame to the tick.                                 *)
LEMMA SampleMoves ==
    ASSUME NEW m \in Nat, NEW j \in Nat, NEW k \in Nat,
           k > 0
    PROVE  /\ Append(Sound!Numbers(m, j), Head(Sound!Numbers(m + j, k))) = Sound!Numbers(m, j + 1)
           /\ Tail(Sound!Numbers(m + j, k)) = Sound!Numbers(m + (j + 1), k - 1)
<1>. DEFINE s == Sound!Numbers(m, j)
            t == Sound!Numbers(m + j, k)
<1>1. /\ s \in Seq(Nat) /\ Len(s) = j /\ \A i \in 1 .. j : s[i] = m + i
      /\ t \in Seq(Nat) /\ Len(t) = k /\ \A i \in 1 .. k : t[i] = m + j + i
  <2>1. m + j \in Nat
    OBVIOUS
  <2>2. s \in Seq(Nat) /\ Len(s) = j /\ \A i \in 1 .. j : s[i] = m + i
    BY NumbersAre, Zenon
  <2>3. t \in Seq(Nat) /\ Len(t) = k /\ \A i \in 1 .. k : t[i] = (m + j) + i
    BY <2>1, NumbersAre, Zenon
  <2>. QED  BY <2>2, <2>3
<1>. HIDE DEF s, t
<1>3. Head(t) = m + j + 1
  BY <1>1
<1>4. Append(s, Head(t)) = Sound!Numbers(m, j + 1)
  <2>1. Head(t) \in Nat
    BY <1>3
  <2>2. /\ Append(s, Head(t)) \in Seq(Nat) /\ Len(Append(s, Head(t))) = j + 1
        /\ \A i \in 1 .. j : Append(s, Head(t))[i] = s[i]
        /\ Append(s, Head(t))[j + 1] = Head(t)
    BY <1>1, <2>1, AppendProperties
  <2>3. \A i \in 1 .. (j + 1) : Append(s, Head(t))[i] = m + i
    <3>1. ASSUME NEW i \in 1 .. (j + 1) PROVE i \in 1 .. j \/ i = j + 1
      OBVIOUS
    <3>2. ASSUME NEW i \in 1 .. j PROVE Append(s, Head(t))[i] = m + i
      BY <1>1, <2>2
    <3>. QED  BY <1>3, <2>2, <3>1, <3>2
  <2>4. Append(s, Head(t)) = [i \in 1 .. (j + 1) |-> Append(s, Head(t))[i]]
    BY <2>2, LenProperties
  <2>. QED  BY <2>3, <2>4 DEF Sound!Numbers
<1>5. Tail(t) = Sound!Numbers(m + (j + 1), k - 1)
  <2>1. /\ Tail(t) \in Seq(Nat) /\ Len(Tail(t)) = k - 1
        /\ \A i \in 1 .. (k - 1) : Tail(t)[i] = t[i + 1]
    BY <1>1, HeadTailProperties
  <2>2. \A i \in 1 .. (k - 1) : Tail(t)[i] = m + (j + 1) + i
    BY <1>1, <2>1
  <2>3. Tail(t) = [i \in 1 .. (k - 1) |-> Tail(t)[i]]
    BY <2>1, LenProperties
  <2>. QED  BY <2>2, <2>3 DEF Sound!Numbers
<1>. QED  BY <1>4, <1>5 DEF s, t

(* Nothing was decoded.                                                     *)
LEMMA SoundBegins == SoundAssumption /\ Sound!Init => SoundInv
<1>. SUFFICES ASSUME SoundAssumption, Sound!Init PROVE SoundInv
  OBVIOUS
<1>1. Tick \in Nat \ {0} /\ Ring \in Nat \ {0} /\ 0 \in Volumes /\ Sound!Full \in Volumes
  BY DEF SoundAssumption, Sound!Full
<1>2. Sound!EmptyRing \in [0 .. (Ring - 1) -> Seq(Nat)]
  BY DEF Sound!EmptyRing, Sound!Empty
<1>3. soIop = [ring |-> Sound!EmptyRing, read |-> 0, used |-> 0, volume |-> 0]
  BY DEF Sound!Init
<1>4. soIop \in Driver /\ soIop.read = 0 /\ soIop.used = 0
  BY <1>1, <1>2, <1>3 DEF Driver
<1>5. soPcm = <<>> /\ soFrame = <<>> /\ Len(soPcm) = 0 /\ soMade = 0 /\ soPlayed = 0 /\ soBufpos = 0
      /\ soPc = "idle"
  BY DEF Sound!Init, Sound!Empty
<1>6. (0 + 0) % Ring = 0 /\ 0 * Tick = 0
  BY <1>1
<1>7. Sound!Numbers(0, 0) = <<>>
  BY DEF Sound!Numbers
<1>8. Sound!SamplesInOrder
  BY <1>4, <1>5, <1>6, <1>7 DEF Sound!SamplesInOrder
<1>. QED  BY <1>1, <1>4, <1>5, <1>6, <1>8 DEF Sound!Init, SoundInv

(* Where only the volume changes, the samples stay where they are.           *)
LEMMA SamplesStay ==
    ASSUME SoundInv, UNCHANGED <<soPcm, soFrame, soMade, soPlayed, soBufpos>>,
           NEW v \in Volumes, soIop' = soIop \/ soIop' = [soIop EXCEPT !.volume = v]
    PROVE  /\ soIop' \in Driver /\ soPcm' \in Seq(Nat) /\ soFrame' \in Seq(Nat)
           /\ soMade' \in Nat /\ soPlayed' \in Nat
           /\ soBufpos' = (soIop'.read + soIop'.used) % Ring
           /\ Sound!SamplesInOrder'
           /\ soIop' = soIop \/ soIop'.volume = v
<1>1. soIop \in Driver
  BY DEF SoundInv
<1>2. /\ soIop' \in Driver /\ soIop'.ring = soIop.ring /\ soIop'.read = soIop.read /\ soIop'.used = soIop.used
      /\ soIop' = soIop \/ soIop'.volume = v
  BY <1>1 DEF Driver
<1>3. Sound!SamplesInOrder
  BY DEF SoundInv
<1>4. Sound!SamplesInOrder'
  BY <1>2, <1>3 DEF Sound!SamplesInOrder
<1>. QED  BY <1>2, <1>4 DEF SoundInv

(* The user sets the volume or stops.                                       *)
LEMMA SoundControls ==
    ASSUME SoundAssumption, SoundInv, Sound!SetVolume \/ Sound!SetPause \/ Sound!Stop
    PROVE  SoundInv'
<1>1. UNCHANGED <<soPc, soLastVolume, soFrame, soPcm, soIop, soBufpos, soMade, soPlayed>>
  BY DEF Sound!SetVolume, Sound!SetPause, Sound!Stop
<1>2. /\ soVolume' \in Volumes
      /\ \/ UNCHANGED <<soVolume, soEarly>>
         \/ soEarly' # "before" /\ (soEarly' = "began" => soEarly = "began")
  BY DEF Sound!SetVolume, Sound!SetPause, Sound!Stop, SoundInv
<1>3. soIop' \in Driver /\ Sound!SamplesInOrder' /\ soBufpos' = (soIop'.read + soIop'.used) % Ring
  BY <1>1, SamplesStay DEF SoundAssumption
<1>. QED  BY <1>1, <1>2, <1>3 DEF SoundInv

(* The thread goes from track to track.                                     *)
LEMMA SoundTurns ==
    ASSUME SoundAssumption, SoundInv,
           Sound!CallOutput \/ Sound!Paused \/ Sound!FrameStored \/ Sound!TrackEnds \/ Sound!EndTrack
    PROVE  SoundInv'
<1>1. UNCHANGED <<soVolume, soEarly, soFrame, soPcm, soBufpos, soMade, soPlayed>>
  BY DEF Sound!CallOutput, Sound!Paused, Sound!FrameStored, Sound!TrackEnds, Sound!EndTrack
<1>2. 0 \in Volumes /\ (soIop' = soIop \/ soIop' = [soIop EXCEPT !.volume = 0])
  BY DEF SoundAssumption, Sound!CallOutput, Sound!Paused, Sound!FrameStored, Sound!TrackEnds, Sound!EndTrack
<1>3. /\ soIop' \in Driver /\ Sound!SamplesInOrder' /\ soBufpos' = (soIop'.read + soIop'.used) % Ring
      /\ soIop' = soIop \/ soIop'.volume = 0
  BY <1>1, <1>2, SamplesStay
<1>4. soPc \notin {"full", "idle", "fault"} /\ (soPc = "store" => soFrame = <<>>)
  BY DEF Sound!CallOutput, Sound!Paused, Sound!FrameStored, Sound!TrackEnds, Sound!EndTrack, Sound!Empty
<1>5. soPc' \notin {"store", "full"} /\ soFrame' = <<>>
  <2>1. soPc' \notin {"store", "full"}
    BY DEF Sound!CallOutput, Sound!Paused, Sound!FrameStored, Sound!TrackEnds, Sound!EndTrack
  <2>. QED  BY <1>1, <1>4, <2>1 DEF SoundInv
<1>6. Len(soPcm') <= Tick /\ (soPc' = "full" <=> Len(soPcm') = Tick)
  BY <1>1, <1>4, <1>5 DEF SoundInv
<1>7. \/ soPc' = "idle" /\ UNCHANGED soLastVolume
      \/ soPc' = "paused" /\ soLastVolume' = 0 /\ soIop' = [soIop EXCEPT !.volume = 0]
      \/ /\ UNCHANGED <<soIop, soLastVolume>>
         /\ soPc' = "ending" \/ soPc \notin {"idle", "ending", "fault"}
  BY DEF Sound!CallOutput, Sound!Paused, Sound!FrameStored, Sound!TrackEnds, Sound!EndTrack
<1>8. soLastVolume' \in Volumes
  BY <1>2, <1>7 DEF SoundInv
<1>9. soPc' = "paused" /\ soLastVolume' = 0 /\ soIop' = [soIop EXCEPT !.volume = 0] => soIop'.volume = soLastVolume'
  BY DEF SoundInv, Driver
<1>10. /\ soEarly' = "began" /\ soPc' \notin {"idle", "ending", "fault"} => soIop'.volume = soLastVolume'
       /\ soEarly' = "before" /\ soPc' # "idle" /\ soLastVolume' = soVolume' => soIop'.volume = soVolume'
  BY <1>1, <1>4, <1>7, <1>9 DEF SoundInv
<1>. QED  BY <1>1, <1>3, <1>5, <1>6, <1>8, <1>10 DEF SoundInv

(* The first frame sets the volume.                                         *)
LEMMA SoundStarts ==
    ASSUME SoundAssumption, SoundInv, Sound!StartTrack
    PROVE  SoundInv'
<1>1. /\ soPc = "idle" /\ soPc' = "started" /\ soEarly' = "before"
      /\ soIop' = [ring |-> Sound!EmptyRing, read |-> 0, used |-> 0, volume |-> soVolume]
      /\ soBufpos' = 0 /\ soPlayed' = soMade - Len(soPcm)
      /\ UNCHANGED <<soVolume, soLastVolume, soFrame, soPcm, soMade>>
  BY DEF Sound!StartTrack
<1>2. Tick \in Nat \ {0} /\ Ring \in Nat \ {0}
  BY DEF SoundAssumption
<1>3. Sound!EmptyRing \in [0 .. (Ring - 1) -> Seq(Nat)]
  BY DEF Sound!EmptyRing, Sound!Empty
<1>4. soIop' \in Driver /\ soIop'.read = 0 /\ soIop'.used = 0 /\ soIop'.volume = soVolume
  BY <1>1, <1>2, <1>3 DEF Driver, SoundInv
<1>5. (0 + 0) % Ring = 0 /\ 0 * Tick = 0
  BY <1>2
<1>6. /\ soFrame = <<>> /\ soPcm \in Seq(Nat) /\ soFrame \in Seq(Nat) /\ soMade \in Nat /\ soPlayed \in Nat
      /\ soIop \in Driver /\ Len(soPcm) <= Tick /\ Len(soPcm) # Tick
  BY <1>1 DEF SoundInv
<1>7. PICK u \in Int : u = soIop.used * Tick /\ u >= 0
  BY <1>2, <1>6 DEF Driver
<1>8. /\ soPcm = Sound!Numbers(soPlayed + u, Len(soPcm))
      /\ soMade = soPlayed + u + Len(soPcm) + Len(soFrame)
  BY <1>7 DEF SoundInv, Sound!SamplesInOrder
<1>9. Len(soFrame) = 0 /\ Len(soPcm) \in Nat
  BY <1>6, LenProperties
<1>10. soPlayed' = soPlayed + u /\ soPlayed' \in Nat
  BY <1>1, <1>6, <1>7, <1>8, <1>9
<1>11. \A m : Sound!Numbers(m, 0) = <<>>
  BY DEF Sound!Numbers
<1>12. Sound!SamplesInOrder'
  <2>1. soPlayed' + 0 = soPlayed + u /\ soMade' = soPlayed' + 0 + Len(soPcm') + Len(soFrame')
    BY <1>1, <1>6, <1>8, <1>9, <1>10
  <2>2. soPcm' = Sound!Numbers(soPlayed' + 0, Len(soPcm'))
    BY <1>1, <1>8, <2>1, Zenon
  <2>3. soFrame' = Sound!Numbers(soPlayed' + 0 + Len(soPcm'), Len(soFrame'))
    BY <1>1, <1>6, <1>9, <1>11, Zenon
  <2>4. \A t \in 0 .. (soIop'.used - 1) : FALSE
    BY <1>4
  <2>5. soIop'.used * Tick = 0
    BY <1>4, <1>5, Zenon
  <2>. QED  BY <2>1, <2>2, <2>3, <2>4, <2>5, Zenon DEF Sound!SamplesInOrder
<1>. QED  BY <1>1, <1>4, <1>5, <1>6, <1>10, <1>12 DEF SoundInv

(* A frame is decoded.                                                      *)
LEMMA SoundTakes ==
    ASSUME SoundAssumption, SoundInv, NEW r \in DOMAIN FrameLengths, Sound!TakeFrame(r)
    PROVE  SoundInv'
<1>1. /\ soPc = "frame" /\ soLastVolume' = soVolume
      /\ soIop' = (IF soLastVolume = soVolume THEN soIop ELSE [soIop EXCEPT !.volume = soVolume])
      /\ soEarly' = IF soEarly = "before" THEN "began" ELSE soEarly
      /\ UNCHANGED <<soVolume, soPcm, soBufpos, soPlayed>>
  BY DEF Sound!TakeFrame, Sound!AdjustVolume
<1>2. \/ soPc' \in {"fault", "ending"} /\ UNCHANGED <<soFrame, soMade>>
      \/ /\ soPc' = "store" /\ soMade' = soMade + FrameLengths[r]
         /\ soFrame' = Sound!Numbers(soMade, FrameLengths[r])
  BY DEF Sound!TakeFrame
<1>3. /\ soIop \in Driver /\ soVolume \in Volumes /\ soPcm \in Seq(Nat) /\ soFrame = <<>>
      /\ soMade \in Nat /\ soPlayed \in Nat /\ Len(soPcm) <= Tick /\ Len(soPcm) # Tick
      /\ FrameLengths[r] \in Nat /\ Tick \in Nat
  BY <1>1 DEF SoundInv, SoundAssumption
<1>4. /\ soIop' \in Driver /\ soIop'.ring = soIop.ring /\ soIop'.read = soIop.read /\ soIop'.used = soIop.used
      /\ soLastVolume = soVolume => soIop'.volume = soIop.volume
      /\ soLastVolume # soVolume => soIop'.volume = soVolume
  BY <1>1, <1>3 DEF Driver
<1>5. soEarly' = "began" => soIop'.volume = soLastVolume'
  BY <1>1, <1>4 DEF SoundInv
<1>6. soEarly' # "before"
  BY <1>1
<1>7. /\ soFrame' \in Seq(Nat) /\ soMade' \in Nat /\ Sound!SamplesInOrder'
      /\ soPc' \notin {"store", "full"} => soFrame' = <<>>
  <2>1. CASE soPc' \in {"fault", "ending"} /\ UNCHANGED <<soFrame, soMade>>
    BY <1>1, <1>3, <1>4, <2>1 DEF SoundInv, Sound!SamplesInOrder
  <2>2. CASE /\ soPc' = "store" /\ soMade' = soMade + FrameLengths[r]
             /\ soFrame' = Sound!Numbers(soMade, FrameLengths[r])
    <3>1. soFrame' \in Seq(Nat) /\ Len(soFrame') = FrameLengths[r]
      BY <1>3, <2>2, NumbersAre
    <3>2. PICK u \in Int : u = soIop.used * Tick
      BY <1>3 DEF Driver
    <3>3. /\ soMade = soPlayed + u + Len(soPcm) + Len(soFrame)
          /\ soPcm = Sound!Numbers(soPlayed + u, Len(soPcm))
          /\ \A t \in 0 .. (soIop.used - 1) :
               soIop.ring[(soIop.read + t) % Ring] = Sound!Numbers(soPlayed + t * Tick, Tick)
      BY <3>2 DEF SoundInv, Sound!SamplesInOrder
    <3>4. Len(soFrame) = 0 /\ Len(soPcm) \in Nat
      BY <1>3, LenProperties
    <3>5. soMade = soPlayed + u + Len(soPcm)
      BY <1>3, <3>2, <3>3, <3>4
    <3>6. soFrame' = Sound!Numbers(soPlayed + u + Len(soPcm), Len(soFrame'))
      BY <2>2, <3>1, <3>5, Zenon
    <3>7. soMade' = soPlayed + u + Len(soPcm) + Len(soFrame')
      BY <1>3, <2>2, <3>1, <3>2, <3>4, <3>5
    <3>8. soIop'.used * Tick = u
      BY <1>4, <3>2, Zenon
    <3>9. Sound!SamplesInOrder'
      BY <1>1, <1>4, <3>3, <3>6, <3>7, <3>8, Zenon DEF Sound!SamplesInOrder
    <3>. QED  BY <1>3, <2>2, <3>1, <3>9
  <2>. QED  BY <1>2, <2>1, <2>2
<1>8. soPc' # "full" /\ Len(soPcm') <= Tick /\ Len(soPcm') # Tick
  BY <1>1, <1>2, <1>3
<1>9. soBufpos' = (soIop'.read + soIop'.used) % Ring
  BY <1>1, <1>4 DEF SoundInv
<1>. QED  BY <1>1, <1>3, <1>4, <1>5, <1>6, <1>7, <1>8, <1>9 DEF SoundInv

(* A sample goes from the frame into the tick.                              *)
LEMMA SoundStores ==
    ASSUME SoundAssumption, SoundInv, Sound!StoreSample
    PROVE  SoundInv'
<1>1. /\ soPc = "store" /\ soFrame # <<>>
      /\ soPcm' = Append(soPcm, Head(soFrame)) /\ soFrame' = Tail(soFrame)
      /\ soPc' = IF Len(soPcm') = Tick THEN "full" ELSE "store"
      /\ UNCHANGED <<soVolume, soLastVolume, soEarly, soIop, soBufpos, soMade, soPlayed>>
  BY DEF Sound!StoreSample, Sound!Empty
<1>2. /\ soIop \in Driver /\ soPcm \in Seq(Nat) /\ soFrame \in Seq(Nat) /\ soMade \in Nat /\ soPlayed \in Nat
      /\ Len(soPcm) <= Tick /\ Len(soPcm) # Tick /\ Tick \in Nat \ {0}
  BY <1>1 DEF SoundInv, SoundAssumption
<1>3. PICK u \in Nat : u = soIop.used * Tick
  BY <1>2 DEF Driver
<1>4. PICK j \in Nat, k \in Nat : j = Len(soPcm) /\ k = Len(soFrame)
  BY <1>2, LenProperties
<1>5. /\ soPcm = Sound!Numbers(soPlayed + u, j)
      /\ soFrame = Sound!Numbers(soPlayed + u + j, k)
      /\ soMade = soPlayed + u + j + k
      /\ \A t \in 0 .. (soIop.used - 1) :
           soIop.ring[(soIop.read + t) % Ring] = Sound!Numbers(soPlayed + t * Tick, Tick)
  BY <1>3, <1>4 DEF SoundInv, Sound!SamplesInOrder
<1>6. PICK m \in Nat : m = soPlayed + u
  BY <1>2
<1>7. /\ k > 0
      /\ soPcm' = Sound!Numbers(m, j + 1) /\ soFrame' = Sound!Numbers(m + (j + 1), k - 1)
  <2>1. soPcm = Sound!Numbers(m, j) /\ soFrame = Sound!Numbers(m + j, k)
    BY <1>5, <1>6
  <2>2. k > 0
    BY <1>1, <1>2, <1>4, EmptySeq
  <2>3. /\ Append(Sound!Numbers(m, j), Head(Sound!Numbers(m + j, k))) = Sound!Numbers(m, j + 1)
        /\ Tail(Sound!Numbers(m + j, k)) = Sound!Numbers(m + (j + 1), k - 1)
    BY <2>2, SampleMoves
  <2>. QED  BY <1>1, <2>1, <2>2, <2>3, Zenon
<1>8. /\ soPcm' \in Seq(Nat) /\ Len(soPcm') = j + 1
      /\ soFrame' \in Seq(Nat) /\ Len(soFrame') = k - 1
  <2>1. j + 1 \in Nat /\ k - 1 \in Nat /\ m + (j + 1) \in Nat
    BY <1>7
  <2>. QED  BY <1>7, <2>1, NumbersAre
<1>9. Sound!SamplesInOrder'
  <2>1. soPlayed' + u = m /\ m + (j + 1) = soPlayed' + u + Len(soPcm')
    BY <1>1, <1>6, <1>8
  <2>2. /\ soPcm' = Sound!Numbers(soPlayed' + u, Len(soPcm'))
        /\ soFrame' = Sound!Numbers(soPlayed' + u + Len(soPcm'), Len(soFrame'))
    BY <1>7, <1>8, <2>1, Zenon
  <2>3. soMade' = soPlayed' + u + Len(soPcm') + Len(soFrame')
    <3>1. soMade' = soMade /\ soPlayed' = soPlayed /\ Len(soPcm') = j + 1 /\ Len(soFrame') = k - 1
      BY <1>1, <1>8
    <3>. QED  BY <1>2, <1>5, <3>1
  <2>4. soIop'.used * Tick = u
    BY <1>1, <1>3, Zenon
  <2>. QED  BY <1>1, <1>5, <2>2, <2>3, <2>4, Zenon DEF Sound!SamplesInOrder
<1>10. Len(soPcm') <= Tick /\ (soPc' = "full" <=> Len(soPcm') = Tick) /\ soPc' \in {"store", "full"}
  BY <1>1, <1>2, <1>4, <1>8
<1>. QED  BY <1>1, <1>8, <1>9, <1>10 DEF SoundInv

(* A full tick goes into the ring.                                          *)
LEMMA SoundQueues ==
    ASSUME SoundAssumption, SoundInv, Sound!Enqueue
    PROVE  SoundInv'
<1>1. /\ soPc = "full" /\ Ring - soIop.used >= 1
      /\ soIop' = [soIop EXCEPT !.used = @ + 1, !.ring[soBufpos] = soPcm]
      /\ soBufpos' = (soIop.read + soIop'.used) % Ring
      /\ soPcm' = <<>> /\ soPc' = "store"
      /\ UNCHANGED <<soVolume, soLastVolume, soEarly, soFrame, soMade, soPlayed>>
  BY DEF Sound!Enqueue, Sound!Enqueues, Sound!Available, Sound!Empty
<1>2. /\ soIop \in Driver /\ soPcm \in Seq(Nat) /\ soFrame \in Seq(Nat) /\ soMade \in Nat /\ soPlayed \in Nat
      /\ Len(soPcm) = Tick /\ Tick \in Nat \ {0} /\ Ring \in Nat \ {0}
      /\ soBufpos = (soIop.read + soIop.used) % Ring
  BY <1>1 DEF SoundInv, SoundAssumption
<1>3. PICK read \in 0 .. (Ring - 1), used \in 0 .. (Ring - 1) : read = soIop.read /\ used = soIop.used
  BY <1>1, <1>2 DEF Driver
<1>4. soBufpos = IF read + used < Ring THEN read + used ELSE read + used - Ring
  <2>1. used \in 0 .. Ring /\ read + used \in Int
    BY <1>2
  <2>2. /\ read + used < Ring => (read + used) % Ring = read + used
        /\ read + used >= Ring => (read + used) % Ring = read + used - Ring
    BY <1>2, <2>1, RingPlace, Zenon
  <2>3. PICK x : x = (read + used) % Ring
    OBVIOUS
  <2>4. /\ read + used < Ring => x = read + used
        /\ read + used >= Ring => x = read + used - Ring
    BY <2>2, <2>3, Zenon
  <2>5. x = IF read + used < Ring THEN read + used ELSE read + used - Ring
    BY <1>2, <2>1, <2>4
  <2>. QED  BY <1>2, <1>3, <2>3, <2>5, Zenon
<1>5. soBufpos \in 0 .. (Ring - 1)
  BY <1>2, <1>4
<1>6. /\ soIop' \in Driver /\ soIop'.read = read /\ soIop'.used = used + 1 /\ soIop'.volume = soIop.volume
      /\ soIop'.ring[soBufpos] = soPcm
      /\ \A x \in 0 .. (Ring - 1) : x # soBufpos => soIop'.ring[x] = soIop.ring[x]
  <2>1. PICK ring : ring = [soIop.ring EXCEPT ![soBufpos] = soPcm]
    OBVIOUS
  <2>2. /\ ring \in [0 .. (Ring - 1) -> Seq(Nat)] /\ ring[soBufpos] = soPcm
        /\ \A x \in 0 .. (Ring - 1) : x # soBufpos => ring[x] = soIop.ring[x]
    <3>1. soIop.ring \in [0 .. (Ring - 1) -> Seq(Nat)]
      BY <1>2 DEF Driver
    <3>. QED  BY <1>2, <1>5, <2>1, <3>1
  <2>3. soIop' = [ring |-> ring, read |-> read, used |-> used + 1, volume |-> soIop.volume]
    BY <1>1, <1>2, <1>3, <2>1 DEF Driver
  <2>4. used + 1 \in 0 .. Ring /\ soIop.volume \in Volumes
    BY <1>2 DEF Driver
  <2>. QED  BY <2>2, <2>3, <2>4 DEF Driver
<1>7. PICK u \in Nat : u = used * Tick
  BY <1>2
<1>8. (used + 1) * Tick = u + Tick
  BY <1>2, <1>7
<1>9. /\ soPcm = Sound!Numbers(soPlayed + u, Tick)
      /\ soFrame = Sound!Numbers(soPlayed + u + Tick, Len(soFrame))
      /\ soMade = soPlayed + u + Tick + Len(soFrame)
      /\ \A t \in 0 .. (used - 1) : soIop.ring[(read + t) % Ring] = Sound!Numbers(soPlayed + t * Tick, Tick)
  BY <1>2, <1>3, <1>7, Zenon DEF SoundInv, Sound!SamplesInOrder
<1>10. ASSUME NEW t \in 0 .. used
       PROVE  soIop'.ring[(read + t) % Ring] = Sound!Numbers(soPlayed + t * Tick, Tick)
  <2>1. CASE t = used
    BY <1>2, <1>3, <1>6, <1>7, <1>9, <2>1, Zenon
  <2>2. CASE t # used
    <3>1. t \in 0 .. (used - 1) /\ t \in 0 .. Ring
      BY <1>2, <2>2
    <3>2. /\ read + t < Ring => (read + t) % Ring = read + t
          /\ read + t >= Ring => (read + t) % Ring = read + t - Ring
      BY <1>2, <3>1, RingPlace, Zenon
    <3>3. (read + t) % Ring \in 0 .. (Ring - 1) /\ (read + t) % Ring # soBufpos
      <4>1. t < used
        BY <2>2
      <4>2. PICK place : place = (read + t) % Ring
        OBVIOUS
      <4>3. place = IF read + t < Ring THEN read + t ELSE read + t - Ring
        BY <1>2, <3>2, <4>2
      <4>4. place \in 0 .. (Ring - 1) /\ place # soBufpos
        BY <1>2, <1>4, <4>1, <4>3
      <4>. QED  BY <4>2, <4>4, Zenon
    <3>. QED  BY <1>6, <1>9, <3>1, <3>3, Zenon
  <2>. QED  BY <2>1, <2>2
<1>11. Len(soPcm') = 0 /\ \A m : Sound!Numbers(m, 0) = <<>>
  BY <1>1 DEF Sound!Numbers
<1>12. Sound!SamplesInOrder'
  <2>1. \A t \in 0 .. (soIop'.used - 1) : t \in 0 .. used
    BY <1>6
  <2>2. soPcm' = Sound!Numbers(soPlayed' + (u + Tick), Len(soPcm'))
    BY <1>1, <1>11, Zenon
  <2>3. PICK k \in Nat : k = Len(soFrame)
    BY <1>2, LenProperties
  <2>4. /\ soPlayed' + (u + Tick) + Len(soPcm') = soPlayed + u + Tick
        /\ soMade' = soPlayed' + (u + Tick) + Len(soPcm') + Len(soFrame')
    BY <1>1, <1>2, <1>9, <1>11, <2>3
  <2>5. soFrame' = Sound!Numbers(soPlayed' + (u + Tick) + Len(soPcm'), Len(soFrame'))
    BY <1>1, <1>9, <2>4, Zenon
  <2>6. soIop'.used * Tick = u + Tick
    BY <1>6, <1>8, Zenon
  <2>7. \A t \in 0 .. (soIop'.used - 1) :
           soIop'.ring[(soIop'.read + t) % Ring] = Sound!Numbers(soPlayed' + t * Tick, Tick)
    BY <1>1, <1>6, <1>10, <2>1, Zenon
  <2>. QED  BY <2>2, <2>4, <2>5, <2>6, <2>7, Zenon DEF Sound!SamplesInOrder
<1>13. soBufpos' = (soIop'.read + soIop'.used) % Ring
  BY <1>1, <1>3, <1>6, Zenon
<1>14. soPcm' \in Seq(Nat) /\ Len(soPcm') <= Tick /\ Len(soPcm') # Tick
  BY <1>1, <1>2, <1>11
<1>. QED  BY <1>1, <1>2, <1>3, <1>6, <1>12, <1>13, <1>14 DEF SoundInv

(* The driver plays the oldest tick.                                        *)
LEMMA SoundPlays ==
    ASSUME SoundAssumption, SoundInv, Sound!IopPlays
    PROVE  SoundInv'
<1>1. /\ soIop.used > 0
      /\ soIop' = [soIop EXCEPT !.read = (@ + 1) % Ring, !.used = @ - 1]
      /\ soPlayed' = Sound!Last(soIop.ring[soIop.read])
      /\ UNCHANGED <<soPc, soVolume, soLastVolume, soEarly, soFrame, soPcm, soBufpos, soMade>>
  BY DEF Sound!IopPlays
<1>2. /\ soIop \in Driver /\ soPcm \in Seq(Nat) /\ soFrame \in Seq(Nat) /\ soMade \in Nat /\ soPlayed \in Nat
      /\ Tick \in Nat \ {0} /\ Ring \in Nat \ {0}
      /\ soBufpos = (soIop.read + soIop.used) % Ring
  BY DEF SoundInv, SoundAssumption
<1>3. PICK read \in 0 .. (Ring - 1), used \in 1 .. Ring : read = soIop.read /\ used = soIop.used
  BY <1>1, <1>2 DEF Driver
<1>4. PICK next : next = (read + 1) % Ring
  OBVIOUS
<1>5. next = IF read + 1 < Ring THEN read + 1 ELSE read + 1 - Ring
  <2>1. 1 \in 0 .. Ring
    BY <1>2
  <2>2. /\ read + 1 < Ring => (read + 1) % Ring = read + 1
        /\ read + 1 >= Ring => (read + 1) % Ring = read + 1 - Ring
    BY <1>2, <2>1, RingPlace, Zenon
  <2>. QED  BY <1>2, <1>4, <2>2
<1>6. next \in 0 .. (Ring - 1) /\ used - 1 \in 0 .. Ring
  BY <1>2, <1>5
<1>7. soIop' = [ring |-> soIop.ring, read |-> next, used |-> used - 1, volume |-> soIop.volume]
  BY <1>1, <1>2, <1>3, <1>4 DEF Driver
<1>8. /\ soIop' \in Driver /\ soIop'.read = next /\ soIop'.used = used - 1
      /\ soIop'.volume = soIop.volume /\ soIop'.ring = soIop.ring
  BY <1>2, <1>6, <1>7 DEF Driver
<1>9. PICK u \in Nat : u = (used - 1) * Tick
  BY <1>2
<1>10. used * Tick = u + Tick
  BY <1>2, <1>9
<1>11. /\ soPcm = Sound!Numbers(soPlayed + (u + Tick), Len(soPcm))
       /\ soFrame = Sound!Numbers(soPlayed + (u + Tick) + Len(soPcm), Len(soFrame))
       /\ soMade = soPlayed + (u + Tick) + Len(soPcm) + Len(soFrame)
       /\ \A t \in 0 .. (used - 1) : soIop.ring[(read + t) % Ring] = Sound!Numbers(soPlayed + t * Tick, Tick)
  BY <1>3, <1>10, Zenon DEF SoundInv, Sound!SamplesInOrder
<1>12. soPlayed' = soPlayed + Tick
  <2>1. 0 \in 0 .. (used - 1) /\ (read + 0) % Ring = read /\ soPlayed + 0 * Tick = soPlayed
    <3>1. read + 0 < Ring /\ 0 \in 0 .. Ring /\ read + 0 = read /\ 0 * Tick = 0
          /\ soPlayed + 0 = soPlayed /\ 0 \in 0 .. (used - 1)
      BY <1>2
    <3>2. (read + 0) % Ring = read + 0
      BY <1>2, <3>1, RingPlace, Zenon
    <3>. QED  BY <3>1, <3>2, Zenon
  <2>2. soIop.ring[read] = Sound!Numbers(soPlayed, Tick)
    BY <1>11, <2>1, Zenon
  <2>3. Len(Sound!Numbers(soPlayed, Tick)) = Tick /\ Sound!Numbers(soPlayed, Tick)[Tick] = soPlayed + Tick
    <3>1. Tick \in Nat /\ Tick \in 1 .. Tick
      BY <1>2
    <3>. QED  BY <1>2, <3>1, NumbersAre, Zenon
  <2>. QED  BY <1>1, <1>3, <2>2, <2>3, Zenon DEF Sound!Last
<1>13. ASSUME NEW t \in 0 .. (used - 2)
       PROVE  soIop.ring[(next + t) % Ring] = Sound!Numbers(soPlayed' + t * Tick, Tick)
  <2>1. t + 1 \in 0 .. (used - 1) /\ t + 1 \in 0 .. Ring /\ t \in 0 .. Ring
    BY <1>2, <1>6
  <2>2. /\ read + (t + 1) < Ring => (read + (t + 1)) % Ring = read + (t + 1)
        /\ read + (t + 1) >= Ring => (read + (t + 1)) % Ring = read + (t + 1) - Ring
        /\ next + t < Ring => (next + t) % Ring = next + t
        /\ next + t >= Ring => (next + t) % Ring = next + t - Ring
    BY <1>2, <1>6, <2>1, RingPlace, Zenon
  <2>3. (read + (t + 1)) % Ring = (next + t) % Ring
    <3>1. t < used
      BY <2>1
    <3>2. PICK x, y : x = (read + (t + 1)) % Ring /\ y = (next + t) % Ring
      OBVIOUS
    <3>3. /\ read + (t + 1) < Ring => x = read + (t + 1)
          /\ read + (t + 1) >= Ring => x = read + (t + 1) - Ring
          /\ next + t < Ring => y = next + t
          /\ next + t >= Ring => y = next + t - Ring
      BY <2>2, <3>2, Zenon
    <3>4. x = y
      BY <1>2, <1>5, <2>1, <3>1, <3>3
    <3>. QED  BY <3>2, <3>4, Zenon
  <2>4. soPlayed + (t + 1) * Tick = soPlayed' + t * Tick
    BY <1>2, <1>12
  <2>. QED  BY <1>11, <2>1, <2>3, <2>4, Zenon
<1>14. soPlayed' + u = soPlayed + (u + Tick)
  BY <1>2, <1>12
<1>15. Sound!SamplesInOrder'
  <2>1. \A t \in 0 .. (soIop'.used - 1) : t \in 0 .. (used - 2)
    BY <1>8
  <2>2. soIop'.used * Tick = u
    BY <1>8, <1>9, Zenon
  <2>3. \A t \in 0 .. (soIop'.used - 1) :
           soIop'.ring[(soIop'.read + t) % Ring] = Sound!Numbers(soPlayed' + t * Tick, Tick)
    BY <1>8, <1>13, <2>1, Zenon
  <2>4. /\ soPcm' = Sound!Numbers(soPlayed' + u, Len(soPcm'))
        /\ soFrame' = Sound!Numbers(soPlayed' + u + Len(soPcm'), Len(soFrame'))
        /\ soMade' = soPlayed' + u + Len(soPcm') + Len(soFrame')
    BY <1>1, <1>11, <1>14, Zenon
  <2>. QED  BY <2>2, <2>3, <2>4, Zenon DEF Sound!SamplesInOrder
<1>16. soBufpos' = (soIop'.read + soIop'.used) % Ring
  <2>1. used \in 0 .. Ring /\ used - 1 \in 0 .. Ring
    BY <1>2
  <2>2. /\ read + used < Ring => (read + used) % Ring = read + used
        /\ read + used >= Ring => (read + used) % Ring = read + used - Ring
        /\ next + (used - 1) < Ring => (next + (used - 1)) % Ring = next + (used - 1)
        /\ next + (used - 1) >= Ring => (next + (used - 1)) % Ring = next + (used - 1) - Ring
    BY <1>2, <1>6, <2>1, RingPlace, Zenon
  <2>3. soBufpos = (next + (used - 1)) % Ring
    <3>1. PICK x, y : x = (read + used) % Ring /\ y = (next + (used - 1)) % Ring
      OBVIOUS
    <3>2. /\ read + used < Ring => x = read + used
          /\ read + used >= Ring => x = read + used - Ring
          /\ next + (used - 1) < Ring => y = next + (used - 1)
          /\ next + (used - 1) >= Ring => y = next + (used - 1) - Ring
      BY <2>2, <3>1, Zenon
    <3>3. x = y
      BY <1>2, <1>5, <3>2
    <3>. QED  BY <1>2, <1>3, <3>1, <3>3, Zenon
  <2>. QED  BY <1>1, <1>8, <2>3
<1>17. soPlayed' \in Nat
  BY <1>2, <1>12
<1>. QED  BY <1>1, <1>2, <1>8, <1>15, <1>16, <1>17 DEF SoundInv

(* Every step of the thread, the user and the driver.                       *)
LEMMA SoundSteps ==
    ASSUME SoundAssumption, SoundInv, [Sound!Next]_(Sound!soundVars)
    PROVE  SoundInv'
<1>1. CASE UNCHANGED Sound!soundVars
  BY <1>1 DEF Sound!soundVars, SoundInv, Sound!SamplesInOrder
<1>2. CASE Sound!Next
  BY <1>2, SoundControls, SoundTurns, SoundStarts, SoundTakes, SoundStores, SoundQueues, SoundPlays
     DEF Sound!Next
<1>. QED  BY <1>1, <1>2

(* What the property asks of the samples.                                   *)
LEMMA SoundMeant == ASSUME SoundInv PROVE Sound!SoundRight
BY DEF SoundInv, Sound!SoundRight, Sound!VolumeHeard


(* A step of the sum is one of each of these components or leaves it alone. *)
LEMMA DownloadPartsStep ==
    ASSUME [Next]_allVars
    PROVE  /\ [Http!Next]_(Http!httpVars) /\ [Clock!TimerNext]_(Clock!timerVars)
           /\ [Sources!TrackNext]_(Sources!trackVars) /\ [Sound!Next]_(Sound!soundVars)
<1>1. CASE UNCHANGED allVars
  BY <1>1 DEF allVars, httpVars, Http!httpVars, tmVars, Clock!timerVars, tfVars, Sources!trackVars,
              soVars, Sound!soundVars
<1>2. ASSUME NEW p \in Parts, Only(p)
      PROVE  /\ p # "http" => UNCHANGED Http!httpVars
             /\ p # "timer" => UNCHANGED Clock!timerVars
             /\ p # "track" => UNCHANGED Sources!trackVars
             /\ p # "sound" => UNCHANGED Sound!soundVars
  BY <1>2 DEF Only, httpVars, Http!httpVars, tmVars, Clock!timerVars, tfVars, Sources!trackVars,
              soVars, Sound!soundVars
<1>3. \/ \E p \in Parts \ {"http", "timer", "track", "sound"} : Only(p)
      \/ Only("http") /\ Http!Next
      \/ Only("timer") /\ Clock!TimerNext
      \/ Only("track") /\ Sources!TrackNext
      \/ Only("sound") /\ Sound!Next
      \/ UNCHANGED allVars
  BY DEF Next, Parts
<1>. QED  BY <1>1, <1>2, <1>3 DEF Parts

(* In every behaviour, whatever the server sends and in whatever pieces, a     *)
(* download that succeeds is the file from its first byte, and its socket is   *)
(* given back (HttpDownload); of every file the decoder is given the audio     *)
(* without the tags, and the length that is shown is that of the track         *)
(* (_mp3_playback, _mp3_getbitrate_mem); every decoded sample is played once   *)
(* and in its order at the volume that was set, whatever the user does         *)
(* meanwhile (_mp3_output, SjPCM_Enqueue); and a time that was read is near the *)
(* one when it was read, wherever the counter overflows                        *)
(* (ps2time_gettimeofday).                                                     *)
THEOREM DownloadsStaySound == Spec => DownloadsSound
<1>0. HttpAssumption /\ SoundAssumption /\ TimerAssumption
  BY ServicesAssumption
<1>. DEFINE Inv == HttpInv /\ SoundInv /\ TrackInv /\ TimerInv
<1>1. Init => Inv
  BY <1>0, HttpBegins, SoundBegins, TrackBegins, TimerBegins DEF Init
<1>2. Inv /\ [Next]_allVars => Inv'
  BY <1>0, DownloadPartsStep, HttpSteps, SoundSteps, TrackSteps, TimerSteps
<1>3. Inv /\ [Next]_allVars => [Clock!ReadingNear]_(Clock!timerVars)
  BY <1>0, DownloadPartsStep, TimerSteps
<1>4. Inv => Http!SuccessIsTheFile /\ Http!SocketGivenBack /\ Sound!SoundRight /\ Sources!TrackRight
  BY HttpMeant, SoundMeant, TrackMeant
<1>. HIDE DEF Inv
<1>. QED  BY <1>1, <1>2, <1>3, <1>4, PTL DEF Spec, DownloadsSound, Clock!ReadingsNear
===============================================================================

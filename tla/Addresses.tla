----------------------------- MODULE Addresses ------------------------------
(***************************************************************************)
(* Addresses of the network as the user writes them (src/src/net.c): the   *)
(* parts of a URL (TokenizeURL), and the numbers of an internet address    *)
(* (inet_aton).  A character is a number: that of the digit, 10 to 15 for  *)
(* the letters a to f, and those below.                                    *)
(***************************************************************************)
EXTENDS Integers, Sequences, SequencesExt, FiniteSetsExt

CONSTANTS
    Texts,      \* what is parsed: [kind, text]
    Bits        \* of a byte: 8, or less, for the checker's integers

VARIABLES
    pc,
    input,
    cp,         \* where inet_aton is in the text
    base, val, parts,
    result      \* NotYet, Failed, or what was found

addressVars == <<pc, input, cp, base, val, parts, result>>

Byte == 2 ^ Bits

Dot == 16
LetterX == 17
Space == 18
Colon == 19
Slash == 20
Other == 21
End == 22       \* the 0 behind the text
NotYet == [ok |-> FALSE, value |-> << >>]
Failed == [ok |-> FALSE, value |-> << 0 >>]
Found(value) == [ok |-> TRUE, value |-> value]

text == input.text
CharAt(i) == IF i > Len(text) THEN End ELSE text[i]
IsDigit(c) == c \in 0..9
IsHexDigit(c) == c \in 0..15
Width(v) == v % (Byte * Byte * Byte * Byte)

Init ==
    /\ input \in Texts /\ pc = input.kind
    /\ cp = 1 /\ base = 10 /\ val = 0 /\ parts = << >> /\ result = NotYet

------------------------------------------------------------------------------
\* TokenizeURL, for host, port and file; a host or a port without characters is what
\* pHost held before, and 0.
FirstOf(chars, from) ==
    LET at == {i \in from..Len(text) : text[i] \in chars}
    IN IF at = {} THEN Len(text) + 1 ELSE CHOOSE i \in at : \A j \in at : i <= j
atoi(s) ==
    FoldLeft(LAMBDA acc, c : IF acc.on /\ IsDigit(c) THEN [acc EXCEPT !.n = 10 * @ + c]
                             ELSE [acc EXCEPT !.on = FALSE],
             [n |-> 0, on |-> TRUE], s).n
PortEnds_Mutant(hostEnd) == hostEnd
PortEnds(hostEnd) == IF CharAt(hostEnd) = Colon THEN FirstOf({Slash}, hostEnd) ELSE hostEnd
TokenizeURL ==
    /\ pc = "url" /\ pc' = "done"
    /\ LET start == FirstOf({Colon}, 1) + 3
           hostEnd == FirstOf({Colon, Slash}, start)
           portEnd == PortEnds(hostEnd)
       IN result' =
            IF CharAt(start - 2) # Slash \/ CharAt(start - 1) # Slash THEN Failed
            ELSE Found(<< SubSeq(text, start, hostEnd - 1),
                          IF CharAt(hostEnd) = Colon
                             THEN atoi(SubSeq(text, hostEnd + 1, FirstOf({Slash}, hostEnd) - 1)) ELSE 80,
                          IF CharAt(portEnd) = Slash THEN SubSeq(text, portEnd, Len(text))
                          ELSE << Slash >> >>)
    /\ UNCHANGED <<input, cp, base, val, parts>>

------------------------------------------------------------------------------
\* inet_aton: a number starts, goes on, and ends.
Fail == pc' = "done" /\ result' = Failed /\ UNCHANGED <<input, cp, base, val, parts>>

StartNumber ==
    /\ pc = "address"
    /\ IF ~IsDigit(CharAt(cp)) THEN Fail
       ELSE /\ pc' = "digits" /\ val' = 0
            /\ LET hex == CharAt(cp) = 0 /\ CharAt(cp + 1) = LetterX IN
                  /\ base' = IF hex THEN 16 ELSE IF CharAt(cp) = 0 THEN 8 ELSE 10
                  /\ cp' = IF hex THEN cp + 2 ELSE IF CharAt(cp) = 0 THEN cp + 1 ELSE cp
            /\ UNCHANGED <<input, parts, result>>

InNumber(c) == IsDigit(c) \/ (base = 16 /\ IsHexDigit(c))
Digit ==
    /\ pc = "digits" /\ InNumber(CharAt(cp))
    /\ val' = Width(val * base + CharAt(cp)) /\ cp' = cp + 1
    /\ UNCHANGED <<pc, input, base, parts, result>>

NumberEnds == pc = "digits" /\ ~InNumber(CharAt(cp))

NextPart ==
    /\ NumberEnds /\ CharAt(cp) = Dot
    /\ IF Len(parts) = 3 THEN Fail
       ELSE /\ pc' = "address" /\ parts' = Append(parts, val) /\ cp' = cp + 1
            /\ UNCHANGED <<input, base, val, result>>

\* The last number fills the bytes that are left; only that is looked at.
Limit_Mutant == Byte ^ (5 - Len(parts))
Limit == Byte ^ (4 - Len(parts))
Shifted(i) == Width(parts[i] * Byte ^ (4 - i))
BitOf(v, i) == (v \div 2 ^ i) % 2
Joined ==
    LET terms == {val} \cup {Shifted(i) : i \in DOMAIN parts}
    IN MapThenSumSet(LAMBDA i : IF \E v \in terms : BitOf(v, i) = 1 THEN 2 ^ i ELSE 0, 0..(4 * Bits - 1))
Ends ==
    /\ NumberEnds /\ CharAt(cp) # Dot
    /\ IF CharAt(cp) \notin {End, Space} \/ val >= Limit THEN Fail
       ELSE pc' = "done" /\ result' = Found(<< Joined >>) /\ UNCHANGED <<input, cp, base, val, parts>>

Next == TokenizeURL \/ StartNumber \/ Digit \/ NextPart \/ Ends

Spec == Init /\ [][Next]_addressVars

------------------------------------------------------------------------------
TypeOK ==
    /\ pc \in {"url", "address", "digits", "done"} /\ input \in Texts
    /\ cp \in 1..(Len(text) + 1) /\ val \in 0..(Byte ^ 4 - 1) /\ Len(parts) <= 3

\* The text of a URL, and of an address.
Number(n) == IF n < 10 THEN << n >> ELSE IF n < 100 THEN << n \div 10, n % 10 >>
             ELSE << n \div 100, (n \div 10) % 10, n % 10 >>
UrlText(host, port, file) ==
    << Other, Other, Colon, Slash, Slash >> \o host \o
    (IF port = 80 THEN << >> ELSE << Colon >> \o Number(port)) \o file
Dotted(numbers) == FlattenSeq([i \in DOMAIN numbers |-> IF i = 1 THEN Number(numbers[1])
                                                       ELSE << Dot >> \o Number(numbers[i])])

(* Host, port and file of a URL are those it was made of, and the file is /  *)
(* when there is none (TokenizeURL).                                         *)
UrlTaken ==
    pc = "done" /\ input.kind = "url" /\ input.url # << >> =>
       LET u == input.url IN
          result = Found(<< u.host, u.port, IF u.file = << >> THEN << Slash >> ELSE u.file >>)

(* An address of up to four numbers is the one it stands for if every number *)
(* fits its bytes; if the last does not, it is refused (the others are not   *)
(* looked at: they run into each other).  That holds for decimal numbers: a  *)
(* leading 0 makes a number octal.                                           *)
AddressTaken ==
    pc = "done" /\ input.kind = "address" /\ input.numbers # << >> =>
       LET n == input.numbers
           last == Last(n)
           fits == last < Byte ^ (5 - Len(n))
       IN /\ result.ok = (fits /\ Len(n) <= 4)
          /\ fits /\ Len(n) <= 4 /\ (\A i \in 1..(Len(n) - 1) : n[i] < Byte) =>
                result.value[1] = last + FoldLeft(LAMBDA s, i : s + n[i] * Byte ^ (4 - i), 0,
                                                  [i \in 1..(Len(n) - 1) |-> i])

(* What is no number is refused, whatever stands behind it.                  *)
NonsenseRefused == pc = "done" /\ input.nonsense => ~result.ok

AddressesRight == UrlTaken /\ AddressTaken /\ NonsenseRefused
=============================================================================

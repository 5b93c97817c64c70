---------------------------- MODULE HttpDownload ----------------------------
(***************************************************************************)
(* HttpDownload (src/net.c): fetches a file over HTTP/1.0 into memory.     *)
(*                                                                         *)
(* The answer comes in segments cut anywhere, at most one per recv.  It is *)
(* a sequence of a status (HTTP/1. with or without 200 OK), perhaps a      *)
(* length (Content-Length:), ends of lines and, behind the empty line, the *)
(* bytes of the file, which are numbered.                                  *)
(***************************************************************************)
EXTENDS Integers, Sequences, FiniteSetsExt

CONSTANTS
    MaxFile,    \* HTTP_MAX_FILESIZE
    MaxBody,    \* bound: length of the file
    MaxSegment  \* bound: tokens that one recv returns

VARIABLES
    at,         \* where HttpDownload is; "return" when it is over
    sock,       \* its socket: "none", "open", "closed"
    toCome,     \* what the server has sent or will send
    kept,       \* nRecv > 0 while the header is read
    reqOK,      \* nReqOK
    length,     \* nContentSize
    buffer,     \* *pBuffer up to nTotal
    result,     \* what HttpDownload returns
    split       \* the header did not come in one segment

httpVars == <<at, sock, toCome, kept, reqOK, length, buffer, result, split>>

File(n) == [i \in 1 .. n |-> <<"file", i>>]
Crlf == <<"crlf", 0>>
OK == <<"status", 200>>
Lengths == -1 .. (MaxFile + 1)      \* -1: the header does not tell

Answer(st, n, m) ==
    <<<<"status", st>>, Crlf>> \o (IF n < 0 THEN <<>> ELSE <<<<"length", n>>, Crlf>>)
    \o <<Crlf>> \o File(m)
Answers == { Answer(st, n, m) : st \in {200, 404}, n \in Lengths, m \in 0 .. MaxBody }

Init ==
    /\ at = "socket" /\ sock = "none" /\ toCome = <<>>
    /\ kept = FALSE /\ reqOK = FALSE /\ length = 0
    /\ buffer = <<>> /\ result = "none" /\ split = FALSE

\* The error exits; all but one close the socket.
Fail(error, s) ==
    /\ at' = "return" /\ result' = error /\ sock' = s
    /\ UNCHANGED <<toCome, kept, reqOK, length, buffer, split>>

Socket ==
    /\ at = "socket"
    /\ \/ Fail("HTTP_ERROR_SOCKET", "none")
       \/ /\ at' = "resolve" /\ sock' = "open"
          /\ UNCHANGED <<toCome, kept, reqOK, length, buffer, result, split>>

\* An address or a name; a name may be unknown.
Resolve ==
    /\ at = "resolve"
    /\ \/ Fail("HTTP_ERROR_RESOLVE", sock)
       \/ /\ at' = "connect"
          /\ UNCHANGED <<sock, toCome, kept, reqOK, length, buffer, result, split>>

Connect ==
    /\ at = "connect"
    /\ \/ Fail("HTTP_ERROR_CONNECT", "closed")
       \/ /\ at' = "send"
          /\ UNCHANGED <<sock, toCome, kept, reqOK, length, buffer, result, split>>

\* GET; the server answers, perhaps not to the end.
SendRequest ==
    /\ at = "send"
    /\ \/ Fail("HTTP_ERROR_SEND", "closed")
       \/ /\ at' = "header"
          /\ \E a \in Answers, n \in 0 .. (MaxBody + 6) :
                /\ n <= Len(a)
                /\ toCome' = SubSeq(a, 1, n)
          /\ UNCHANGED <<sock, kept, reqOK, length, buffer, result, split>>

------------------------------------------------------------------------------
(* The header *)

\* Where the empty line ends, 0 if there is none.
EmptyLines(seg) ==
    {i \in 1 .. Len(seg) : seg[i] = Crlf /\ (i = 1 \/ seg[i - 1] = Crlf)}
EndOfHeader(seg) == IF EmptyLines(seg) = {} THEN 0 ELSE Min(EmptyLines(seg))

\* ReadBufLine returns only whole lines.
LinesRead(seg) == {i \in 1 .. Len(seg) : \E j \in (i + 1) .. Len(seg) : seg[j] = Crlf}

Parse(seg) ==
    LET announced == {seg[i][2] : i \in {k \in LinesRead(seg) : seg[k][1] = "length"}}
    IN /\ reqOK' = (reqOK \/ \E i \in LinesRead(seg) : seg[i] = OK)
       /\ length' = IF announced = {} THEN length ELSE Max(announced)

\* One recv and the lines in it.  A segment without the empty line is "moved to
\* the front" from behind its end, so that the buffer begins with a zero and
\* the segment after it is not looked at.
RecvHeader ==
    /\ at = "header" /\ toCome # <<>>
    /\ \E n \in 1 .. Min({MaxSegment, Len(toCome)}) :
          LET seg == SubSeq(toCome, 1, n)
              end == EndOfHeader(seg)
          IN /\ toCome' = SubSeq(toCome, n + 1, Len(toCome))
             /\ IF kept
                THEN /\ kept' = FALSE
                     /\ UNCHANGED <<at, reqOK, length, buffer, split>>
                ELSE /\ Parse(IF end = 0 THEN seg ELSE SubSeq(seg, 1, end))
                     /\ kept' = (end = 0)
                     /\ split' = (split \/ end = 0)
                     /\ at' = IF end = 0 THEN "header" ELSE "check"
                     /\ buffer' = IF end = 0 THEN buffer
                                  ELSE SubSeq(seg, end + 1, n)
    /\ UNCHANGED <<sock, result>>

\* The peer has closed or reset the connection.
HeaderBreaks_Mutant ==
    /\ at = "header" /\ toCome = <<>>
    /\ Fail("HTTP_ERROR_RECV", sock)
HeaderBreaks ==
    /\ at = "header" /\ toCome = <<>>
    /\ Fail("HTTP_ERROR_RECV", "closed")

\* What came behind the header is the beginning of the file.
CheckHeader ==
    /\ at = "check"
    /\ CASE ~reqOK -> Fail("HTTP_ERROR_BADREQ", "closed")
         [] reqOK /\ length > MaxFile -> Fail("HTTP_ERROR_SIZE", "closed")
         [] OTHER -> \/ /\ buffer # <<>>
                        /\ Fail("HTTP_ERROR_MEMORY", "closed")
                     \/ /\ at' = "body"
                        /\ UNCHANGED <<sock, toCome, kept, reqOK, length, buffer,
                                       result, split>>

------------------------------------------------------------------------------
(* The file *)

Extended_Mutant(b, seg) == seg
Extended(b, seg) == b \o seg

TooLarge(n) == n > MaxFile

RecvBody ==
    /\ at = "body" /\ toCome # <<>>
    /\ \E n \in 1 .. Min({MaxSegment, Len(toCome)}) :
          CASE TooLarge(Len(buffer) + n) -> Fail("HTTP_ERROR_SIZE", "closed")
            [] OTHER -> \/ Fail("HTTP_ERROR_MEMORY", "closed")
                        \/ /\ toCome' = SubSeq(toCome, n + 1, Len(toCome))
                           /\ buffer' = Extended(buffer, SubSeq(toCome, 1, n))
                           /\ UNCHANGED <<at, sock, kept, reqOK, length, result, split>>

BodyBreaks ==
    /\ at = "body"
    /\ Fail("HTTP_ERROR_RECV", "closed")

\* recv returns 0: the file is complete, or the peer has closed too early.
BodyEnds ==
    /\ at = "body" /\ toCome = <<>>
    /\ at' = "return" /\ result' = "ok" /\ sock' = "closed"
    /\ UNCHANGED <<toCome, kept, reqOK, length, buffer, split>>

\* The caller uses the buffer and, later, downloads again.
Again ==
    /\ at = "return"
    /\ at' = "socket" /\ sock' = "none" /\ toCome' = <<>>
    /\ kept' = FALSE /\ reqOK' = FALSE /\ length' = 0
    /\ buffer' = <<>> /\ result' = "none" /\ split' = FALSE

Next ==
    \/ Socket \/ Resolve \/ Connect \/ SendRequest
    \/ RecvHeader \/ HeaderBreaks \/ CheckHeader
    \/ RecvBody \/ BodyBreaks \/ BodyEnds
    \/ Again

Spec == Init /\ [][Next]_httpVars

------------------------------------------------------------------------------
TypeOK ==
    /\ at \in {"socket", "resolve", "connect", "send", "header", "check", "body", "return"}
    /\ sock \in {"none", "open", "closed"}
    /\ kept \in BOOLEAN /\ reqOK \in BOOLEAN /\ split \in BOOLEAN
    /\ length \in Lengths /\ Len(buffer) <= MaxFile + MaxSegment

(* A download that succeeds has the file, from its first byte and without a  *)
(* gap, within the limit.  It needs a header in one segment (net.c:115-130: *)
(* of a header in two the second half is dropped).                           *)
SuccessIsTheFile ==
    (at = "return" /\ result = "ok" /\ ~split) =>
        /\ buffer = File(Len(buffer))
        /\ Len(buffer) <= MaxFile

(* HttpDownload never keeps its socket, however it ends, unless the name     *)
(* could not be resolved (net.c:81-87).                                      *)
SocketGivenBack ==
    (at = "return" /\ result # "HTTP_ERROR_RESOLVE") => sock # "open"
=============================================================================

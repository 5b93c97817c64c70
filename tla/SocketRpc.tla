----------------------------- MODULE SocketRpc ------------------------------
(***************************************************************************)
(* Socket calls of the EE (ps2sdk/.../ps2ipc.c) answered by the IOP        *)
(* (ps2sdk/.../ps2ips.c).                                                  *)
(*                                                                         *)
(* The DMA channel between the processors moves whole blocks of 16 bytes   *)
(* at addresses that are multiples of 16, but a program receives into any  *)
(* address.  The server therefore cuts what it received in three: the      *)
(* blocks in the middle go by DMA, the head and the tail travel in a       *)
(* packet of their own (rests) to a fixed place of the EE's memory, from   *)
(* where an interrupt handler copies them when the reply comes in.  To     *)
(* send, the EE puts the bytes before the first block into the request and *)
(* the server fetches the others.                                          *)
(*                                                                         *)
(* One call is made at a time: the request and the reply share one buffer  *)
(* that no lock protects (NoConcurrentSocketCalls of module Mp3).          *)
(***************************************************************************)
EXTENDS Integers, Sequences, FiniteSetsExt

CONSTANTS
    Block,      \* bytes in a DMA block: 16
    BufSize,    \* BUFF_SIZE: what the server receives or sends in one go
    Top,        \* bound: addresses of the EE's memory are below it
    Buffers,    \* bound: where the program's buffers begin
    Lengths,    \* bound: how long they are
    MaxCalls    \* bound: number of calls

VARIABLES
    mem,        \* the EE's memory: numbers of received bytes, and below
                \* zero the program's own data
    intr,       \* _intr_data
    call,       \* the socket call being made, NoCall if none
    stage,      \* "idle", "request" on its way, "reply" coming in
    sif,        \* DMA transfers to the EE, in their order
    bound,      \* _init_check
    arrived,    \* number of bytes received so far, which numbers them
    ret,        \* what the last call returned
    calls       \* number of calls so far

vars == <<mem, intr, call, stage, sif, bound, arrived, ret, calls>>

Address == 0 .. (Top - 1)
Own == [a \in Address |-> -1 - a]
Receives == {"recv", "recvfrom"}
Sends == {"send", "sendto"}

\* The other calls pass a few words by value and get a few back.  Some of them
\* do not test _init_check.
Connecting == {"accept", "bind", "disconnect", "connect", "listen", "socket"}
Configuring == {"ps2ip_setconfig", "ps2ip_getconfig"}
Tuning == {"ioctlsocket", "getsockopt", "setsockopt", "gethostbyname"}
Naming == {"getsockname", "getpeername"}
Others == Connecting \cup Configuring \cup {"select"} \cup Naming \cup Tuning
Unchecked == Sends \cup Tuning

NoCall == [op |-> "none", buf |-> 0, len |-> 0, malign |-> <<>>,
           before |-> <<>>, out |-> <<>>]
NoRests == [ssize |-> 0, sbuf |-> 0, sbuffer |-> <<>>,
            esize |-> 0, ebuf |-> 0, ebuffer |-> <<>>]

Init ==
    /\ mem = Own
    /\ intr = NoRests /\ call = NoCall /\ stage = "idle" /\ sif = <<>>
    /\ bound = FALSE /\ arrived = 0 /\ ret = 0 /\ calls = 0

\* The memory after bytes were written at address a.
Written(m, a, bytes) ==
    [x \in DOMAIN m |-> IF x \in a .. (a + Len(bytes) - 1)
                        THEN bytes[x - a + 1] ELSE m[x]]

Bytes(m, a, n) == [i \in 1 .. n |-> m[a + i - 1]]

\* The bytes from a to the next block.
ToNextBlock(a) == (Block - (a % Block)) % Block
RoundDown(a) == (a \div Block) * Block

------------------------------------------------------------------------------
(* The EE's side of a call *)

\* ps2ip_init: tries until the server is there.
Initialise ==
    /\ ~bound
    /\ bound' = TRUE
    /\ UNCHANGED <<mem, intr, call, stage, sif, arrived, ret, calls>>

\* Before ps2ip_init most calls fail at once.
Refuse(op) ==
    /\ stage = "idle" /\ ~bound /\ calls < MaxCalls
    /\ op \notin Unchecked
    /\ ret' = -1
    /\ calls' = calls + 1
    /\ UNCHANGED <<mem, intr, call, stage, sif, bound, arrived>>

\* SifCallRpc sends the request; before and out are for the properties only:
\* the memory when the call is made, and what lwIP is given to send.
Make(op, b, n, malign) ==
    /\ stage = "idle" /\ bound /\ calls < MaxCalls
    /\ call' = [op |-> op, buf |-> b, len |-> n, malign |-> malign,
                before |-> mem, out |-> <<>>]
    /\ stage' = "request"
    /\ calls' = calls + 1
    /\ UNCHANGED <<mem, intr, sif, bound, arrived, ret>>

CallRecv == \E b \in Buffers, n \in Lengths : Make("recv", b, n, <<>>)
CallRecvfrom == \E b \in Buffers, n \in Lengths : Make("recvfrom", b, n, <<>>)

\* How many bytes lie before the first block: these go with the request.
Misaligned_Mutant(b, n) == ToNextBlock(b)
Misaligned(b, n) == Min({ToNextBlock(b), n})

CallSend == \E b \in Buffers, n \in Lengths :
    Make("send", b, n, Bytes(mem, b, Misaligned(b, n)))
CallSendto == \E b \in Buffers, n \in Lengths :
    Make("sendto", b, n, Bytes(mem, b, Misaligned(b, n)))

CallConnecting == \E op \in Connecting : Make(op, 0, 0, <<>>)
CallConfiguring == \E op \in Configuring : Make(op, 0, 0, <<>>)
CallSelect == Make("select", 0, 0, <<>>)
CallNaming == \E op \in Naming : Make(op, 0, 0, <<>>)
CallTuning == \E op \in Tuning : Make(op, 0, 0, <<>>)

------------------------------------------------------------------------------
(* The server *)

HeadSize(b, n) == IF n <= Block THEN n ELSE ToNextBlock(b)

\* do_recv: how the bytes received into b, of length n, are cut.  lwip_buffer
\* is such that its byte number Block belongs at the first block of b.
Split(b, n, bytes) ==
    LET rlen == Len(bytes)
        offset == Block - HeadSize(b, n)
        head == IF rlen <= Block THEN rlen ELSE HeadSize(b, n)
        end == RoundDown(b + rlen)
        body == end - (b + head)
    IN IF rlen <= Block
       THEN [rests |-> [NoRests EXCEPT !.ssize = head, !.sbuf = b, !.sbuffer = bytes],
             abuffer |-> 0, body |-> <<>>]
       ELSE [rests |-> [ssize |-> head, sbuf |-> b,
                        sbuffer |-> SubSeq(bytes, 1, head),
                        esize |-> b + rlen - end, ebuf |-> end,
                        ebuffer |-> SubSeq(bytes, Block + body - offset + 1, rlen)],
             abuffer |-> b + head,
             body |-> SubSeq(bytes, Block - offset + 1, Block - offset + body)]

Reply(n) == [kind |-> "reply", ret |-> n]

\* What lwIP has for the program: at most what was asked for, nothing when the
\* peer has closed, -1 when the call fails.  Then no rests are sent.
Receive(op) ==
    /\ stage = "request" /\ call.op = op
    /\ stage' = "reply"
    /\ \E n \in -1 .. Min({BufSize, call.len}) :
          LET cut == Split(call.buf, call.len, [i \in 1 .. n |-> arrived + i])
              body == IF cut.body = <<>> THEN <<>>
                      ELSE <<[kind |-> "body", at |-> cut.abuffer, bytes |-> cut.body]>>
              rests == <<[kind |-> "rests", rests |-> cut.rests]>>
          IN IF n <= 0
             THEN sif' = <<Reply(n)>> /\ UNCHANGED arrived
             ELSE sif' = body \o rests \o <<Reply(n)>> /\ arrived' = arrived + n
    /\ UNCHANGED <<mem, intr, call, bound, ret, calls>>

ServeRecv == Receive("recv")
ServeRecvfrom == Receive("recvfrom")

\* do_send, do_sendto: what lwIP is given.  The server fetches all but the
\* first bytes from the EE.
Outgoing(m, c) ==
    LET n == Min({BufSize, c.len})
        missing == Len(c.malign)
    IN c.malign \o Bytes(m, c.buf + missing, n - missing)

Transmit(op) ==
    /\ stage = "request" /\ call.op = op
    /\ stage' = "reply"
    /\ call' = [call EXCEPT !.out = Outgoing(mem, call)]
    /\ \E n \in {-1, Min({BufSize, call.len})} : sif' = <<Reply(n)>>
    /\ UNCHANGED <<mem, intr, bound, arrived, ret, calls>>

ServeSend == Transmit("send")
ServeSendto == Transmit("sendto")

Answer(ops) ==
    /\ stage = "request" /\ call.op \in ops
    /\ stage' = "reply"
    /\ \E n \in {-1, 0} : sif' = <<Reply(n)>>
    /\ UNCHANGED <<mem, intr, call, bound, arrived, ret, calls>>

ServeConnecting == Answer(Connecting)
ServeConfiguring == Answer(Configuring)
ServeSelect == Answer({"select"})
ServeNaming == Answer(Naming)
ServeTuning == Answer(Tuning)

------------------------------------------------------------------------------
(* What comes in at the EE *)

\* A transfer arrives: the middle at its place, head and tail in _intr_data.
BodyArrives ==
    /\ sif # <<>> /\ Head(sif).kind = "body"
    /\ sif' = Tail(sif)
    /\ mem' = Written(mem, Head(sif).at, Head(sif).bytes)
    /\ UNCHANGED <<intr, call, stage, bound, arrived, ret, calls>>

RestsArrive ==
    /\ sif # <<>> /\ Head(sif).kind = "rests"
    /\ sif' = Tail(sif)
    /\ intr' = Head(sif).rests
    /\ UNCHANGED <<mem, call, stage, bound, arrived, ret, calls>>

\* recv_intr copies whatever _intr_data holds: after a receive that brought
\* nothing, the head and the tail of an earlier one.
recv_intr_Mutant(m, rests) == Written(m, rests.sbuf, rests.sbuffer)
recv_intr(m, rests) ==
    Written(Written(m, rests.sbuf, rests.sbuffer), rests.ebuf, rests.ebuffer)

\* The end of SifCallRpc: the interrupt handler, then the caller goes on.
Return ==
    /\ sif # <<>> /\ Head(sif).kind = "reply"
    /\ sif' = <<>>
    /\ mem' = IF call.op \in Receives THEN recv_intr(mem, intr) ELSE mem
    /\ ret' = Head(sif).ret
    /\ call' = NoCall
    /\ stage' = "idle"
    /\ UNCHANGED <<intr, bound, arrived, calls>>

\* Between the calls the program fills its memory anew.
Use ==
    /\ stage = "idle" /\ calls < MaxCalls
    /\ mem' = Own
    /\ UNCHANGED <<intr, call, stage, sif, bound, arrived, ret, calls>>

Next ==
    \/ Initialise
    \/ \E op \in Receives \cup Others : Refuse(op)
    \/ CallRecv \/ CallRecvfrom \/ CallSend \/ CallSendto
    \/ CallConnecting \/ CallConfiguring \/ CallSelect \/ CallNaming \/ CallTuning
    \/ ServeRecv \/ ServeRecvfrom \/ ServeSend \/ ServeSendto
    \/ ServeConnecting \/ ServeConfiguring \/ ServeSelect \/ ServeNaming \/ ServeTuning
    \/ BodyArrives \/ RestsArrive \/ Return
    \/ Use

Spec == Init /\ [][Next]_vars

------------------------------------------------------------------------------
TypeOK ==
    /\ DOMAIN mem = Address /\ \A a \in Address : mem[a] \in Int
    /\ call.op \in Receives \cup Sends \cup Others \cup {"none"}
    /\ stage \in {"idle", "request", "reply"}
    /\ \A i \in 1 .. Len(sif) : sif[i].kind \in {"body", "rests", "reply"}
    /\ bound \in BOOLEAN /\ arrived \in Nat /\ ret \in Int /\ calls \in Nat

(* A receive that brought something puts exactly the bytes that came next    *)
(* into the caller's buffer, and nothing before it or behind it: wherever    *)
(* the buffer lies, whatever was asked for and however little came           *)
(* (do_recv, recv_intr).                                                     *)
ReceivedInPlace ==
    (stage = "reply" /\ stage' = "idle" /\ call.op \in Receives /\ ret' > 0) =>
        mem' = Written(call.before, call.buf,
                       [i \in 1 .. ret' |-> arrived - ret' + i])
ReceivesInPlace == [][ReceivedInPlace]_vars

(* What lwIP is given to send is the beginning of the caller's buffer, all   *)
(* of it unless it is longer than the server's (send, do_send).              *)
SendsTheBuffer ==
    (stage = "reply" /\ call.op \in Sends) =>
        call.out = Bytes(call.before, call.buf, Min({BufSize, call.len}))
=============================================================================

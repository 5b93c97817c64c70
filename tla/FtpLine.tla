------------------------------- MODULE FtpLine ------------------------------
(***************************************************************************)
(* How the FTP server (src/irx/ps2ftpd/FtpServer.c) makes command lines of *)
(* what arrives on a control socket: any number of bytes at a time, behind *)
(* what it already has, into a buffer of fixed size.  Only new bytes are   *)
(* searched, and one line is taken out per recv.                           *)
(***************************************************************************)
EXTENDS Integers, Sequences, SequencesExt, FiniteSetsExt

CONSTANTS
    BufferSize, \* sizeof m_CommandBuffer: 512
    Lengths,    \* bound: lengths of the commands
    MaxCommands \* bound: how many there are

VARIABLES
    sent,       \* the commands the client has sent
    wire,       \* bytes on their way
    command,    \* m_CommandBuffer up to m_iCommandOffset
    executed,   \* what FtpClient_OnCommand was called with
    connected,
    pipelined,  \* the client did not wait for the answer to a command
    overrun     \* the terminating zero was written behind the buffer

lineVars == <<sent, wire, command, executed, connected, pipelined, overrun>>

\* A byte of a command is a number that tells which and where.
CR == -1
LF == -2
Zero == 0
Command(k, n) == [i \in 1 .. n |-> 10 * k + i]

Init ==
    /\ sent = <<>> /\ wire = <<>> /\ command = <<>> /\ executed = <<>>
    /\ connected = TRUE /\ pipelined = FALSE /\ overrun = FALSE

Send(n) ==
    /\ connected /\ Len(sent) < MaxCommands
    /\ LET c == Command(Len(sent) + 1, n)
       IN sent' = Append(sent, c) /\ wire' = wire \o c \o <<CR, LF>>
    /\ pipelined' = (pipelined \/ Len(executed) < Len(sent))
    /\ UNCHANGED <<command, executed, connected, overrun>>

\* Places of a byte, counted from 0, at or behind the offset.
Found(buf, b, offset) == {i \in offset .. (Len(buf) - 1) : buf[i + 1] = b}
First(places) == IF places = {} THEN -1 ELSE Min(places)
CString(s) == SubSeq(s, 1, IF Contains(s, Zero) THEN Min(Found(s, Zero, 0)) ELSE Len(s))

Rest_Mutant(buf, nofs) == SubSeq(buf, nofs + 1, Len(buf))
Rest(buf, nofs) == SubSeq(buf, nofs + 2, Len(buf))

\* FtpServer_HandleEvents, the part on a control socket.
Receive(n) ==
    /\ connected
    /\ n \in 1 .. Min({Len(wire), BufferSize - Len(command)})
    /\ wire' = SubSeq(wire, n + 1, Len(wire))
    /\ overrun' = (overrun \/ Len(command) + n = BufferSize)
    /\ LET offset == Len(command)
           buf == command \o SubSeq(wire, 1, n)
           rofs == First(Found(buf, CR, offset))
           nofs == First(Found(buf, LF, offset))
           cmdlen == IF rofs # -1 THEN rofs ELSE nofs
           ended == [buf EXCEPT ![cmdlen + 1] = Zero]
       IN IF nofs = -1
          THEN command' = buf /\ UNCHANGED executed
          ELSE /\ executed' = Append(executed, CString(ended))
               /\ command' = Rest(ended, nofs)
    /\ UNCHANGED <<sent, connected, pipelined>>

\* A full buffer leaves no room: recv is asked for nothing and returns 0.
\* The client may also close.
Disconnect ==
    /\ connected
    /\ \/ Len(command) = BufferSize
       \/ wire = <<>>
    /\ connected' = FALSE
    /\ UNCHANGED <<sent, wire, command, executed, pipelined, overrun>>

Next ==
    \/ \E n \in Lengths : Send(n)
    \/ \E n \in 1 .. BufferSize : Receive(n)
    \/ Disconnect

Spec == Init /\ [][Next]_lineVars

------------------------------------------------------------------------------
TypeOK ==
    /\ Len(command) <= BufferSize /\ Len(executed) <= MaxCommands
    /\ connected \in BOOLEAN /\ pipelined \in BOOLEAN /\ overrun \in BOOLEAN

(* To a client that waits for each answer, every command is executed once,   *)
(* in order and whole, however it was cut, and none stays behind when all    *)
(* its bytes are there.  A \r that came without its \n stays at its end      *)
(* (FtpServer.c:252-259).                                                    *)
CommandsWhole ==
    ~pipelined =>
        /\ Len(executed) <= Len(sent)
        /\ \A i \in 1 .. Len(executed) : executed[i] \in {sent[i], Append(sent[i], CR)}
        /\ (connected /\ wire = <<>> /\ Len(command) < BufferSize)
              => Len(executed) = Len(sent)
=============================================================================

---------------------------- MODULE StreamBuffer ----------------------------
(***************************************************************************)
(* The stream buffer between the net thread and the stream thread of a     *)
(* radio station (src/mp3.c): one heap block that every addition and every *)
(* extraction replaces by a new one.  mp3_stream_sema protects the block,  *)
(* but the sizes of the new blocks are computed before it is taken.        *)
(*                                                                         *)
(* A critical section is one step: outside of it only mp3_streambuf_size   *)
(* is read, and every critical section writes that once.  One net and one  *)
(* stream thread are assumed (OnePlayer and NoConcurrentSocketCalls of     *)
(* module Mp3 say when that is so).                                        *)
(***************************************************************************)
EXTENDS Naturals, Sequences

CONSTANTS
    Chunk,          \* MP3_STREAM_CHUNK
    Reads,          \* how many audio bytes a recv can yield
    MaxArrived,     \* bound: bytes that arrive
    MemoryFails     \* can malloc fail?

ASSUME StreamBufferAssumption ==
    /\ Chunk \in Nat \ {0}
    /\ Reads \subseteq Nat \ {0}
    /\ MaxArrived \in Nat
    /\ MemoryFails \in BOOLEAN

VARIABLES
    size,       \* mp3_streambuf_size
    block,      \* the size of the heap block mp3_streambuf points to, 0 for NULL
    data,       \* the bytes in it, numbered in the order of their arrival
    arrived,    \* the number of bytes that have arrived so far
    netPc, netSize, netBlock,       \* mp3_stream_addBuffer: size and the size of p
    pc, nSize, take, rest,          \* _mp3_input's nSize; _mp3_stream_getBuffer's
                                    \* size and the size of p
    fed                             \* the bytes the decoder was given last

buffer == <<size, block, data>>
netThread == <<arrived, netPc, netSize, netBlock>>
streamThread == <<pc, nSize, take, rest, fed>>
vars == <<buffer, netThread, streamThread>>

TypeOK ==
    /\ size \in Nat /\ block \in Nat /\ arrived \in Nat
    /\ data \in Seq(Nat) /\ fed \in Seq(Nat)
    /\ netPc \in {"recv", "add"} /\ netSize \in Reads \cup {0} /\ netBlock \in Nat
    /\ pc \in {"poll", "ask", "clamp", "alloc", "copy", "flush"}
    /\ nSize \in Nat /\ take \in Nat /\ rest \in Nat

Init ==
    /\ size = 0 /\ block = 0 /\ data = <<>> /\ arrived = 0
    /\ netPc = "recv" /\ netSize = 0 /\ netBlock = 0
    /\ pc = "poll" /\ nSize = 0 /\ take = 0 /\ rest = 0
    /\ fed = <<>>

Goto(place) == pc' = place

\* malloc(n): the size of the new block.
Malloc(n) == n

------------------------------------------------------------------------------
(* The net thread: recv, and mp3_stream_addBuffer *)

NewBlock_Mutant(n) == Malloc(n)
NewBlock(n) == Malloc(size + n)

Receive ==
    /\ netPc = "recv"
    /\ \E n \in Reads :
          /\ arrived + n <= MaxArrived
          /\ arrived' = arrived + n
          /\ netSize' = n
          /\ netBlock' = NewBlock(n)
    /\ netPc' = "add"
    /\ UNCHANGED <<buffer, streamThread>>

\* malloc fails: the bytes are lost.
ReceiveInVain ==
    /\ MemoryFails
    /\ netPc = "recv"
    /\ \E n \in Reads : arrived + n <= MaxArrived /\ arrived' = arrived + n
    /\ UNCHANGED <<buffer, netPc, netSize, netBlock, streamThread>>

Arrivals == [i \in 1 .. netSize |-> arrived - netSize + i]

Add_Mutant ==
    /\ netPc = "add"
    /\ data' = Arrivals \o data
    /\ size' = size + netSize
    /\ block' = netBlock
    /\ netPc' = "recv"
    /\ UNCHANGED <<arrived, netSize, netBlock, streamThread>>
Add ==
    /\ netPc = "add"
    /\ data' = data \o Arrivals
    /\ size' = size + netSize
    /\ block' = netBlock
    /\ netPc' = "recv"
    /\ UNCHANGED <<arrived, netSize, netBlock, streamThread>>

------------------------------------------------------------------------------
(* The stream thread: _mp3_input with _mp3_stream_pollBuffer and _getBuffer *)

Poll ==
    /\ pc = "poll"
    /\ size >= Chunk
    /\ Goto("ask")
    /\ UNCHANGED <<buffer, netThread, nSize, take, rest, fed>>

\* The net thread has shut down, or the user stops the stream.
Stop ==
    /\ pc \in {"poll", "ask"}
    /\ Goto("flush")
    /\ UNCHANGED <<buffer, netThread, nSize, take, rest, fed>>

Ask ==
    /\ pc = "ask"
    /\ nSize' = size
    /\ Goto("clamp") \/ (MemoryFails /\ Goto("flush"))
    /\ UNCHANGED <<buffer, netThread, take, rest, fed>>

Clamp_Mutant ==
    /\ pc = "clamp"
    /\ take' = IF nSize > size THEN size ELSE nSize + 1
    /\ Goto("alloc")
    /\ UNCHANGED <<buffer, netThread, nSize, rest, fed>>
Clamp ==
    /\ pc = "clamp"
    /\ take' = IF nSize > size THEN size ELSE nSize
    /\ Goto("alloc")
    /\ UNCHANGED <<buffer, netThread, nSize, rest, fed>>

Allocate_Mutant ==
    /\ pc = "alloc"
    /\ rest' = Malloc(size - take - 1)
    /\ Goto("copy")
    /\ UNCHANGED <<buffer, netThread, nSize, take, fed>>
Allocate ==
    /\ pc = "alloc"
    /\ rest' = Malloc(size - take + 1)
    /\ Goto("copy")
    /\ UNCHANGED <<buffer, netThread, nSize, take, fed>>

\* malloc fails: nothing is copied, and the decoder gets nSize bytes that
\* nobody has written.
AllocateInVain ==
    /\ MemoryFails
    /\ pc = "alloc"
    /\ fed' = <<>>
    /\ Goto("poll")
    /\ UNCHANGED <<buffer, netThread, nSize, take, rest>>

Copy ==
    /\ pc = "copy"
    /\ fed' = SubSeq(data, 1, take)
    /\ data' = SubSeq(data, take + 1, Len(data))
    /\ size' = size - take
    /\ block' = rest
    /\ Goto("poll")
    /\ UNCHANGED <<netThread, nSize, take, rest>>

\* _mp3_stream_flushBuffer; the next stream starts with an empty buffer.
Flush ==
    /\ pc = "flush"
    /\ data' = <<>>
    /\ size' = 0
    /\ block' = 0
    /\ Goto("poll")
    /\ UNCHANGED <<netThread, nSize, take, rest, fed>>

StreamProceeds == Poll \/ Ask \/ Clamp \/ Allocate \/ Copy \/ Flush

Next ==
    \/ Receive \/ ReceiveInVain \/ Add
    \/ StreamProceeds \/ AllocateInVain \/ Stop

Spec == Init /\ [][Next]_vars

------------------------------------------------------------------------------
(* Properties *)

\* mp3_stream_addBuffer computes the size of its block before it has the
\* semaphore.  The old bytes and the new ones fit all the same, whatever the
\* stream thread has done in between.
AddFits == netPc = "add" => size + netSize <= netBlock

\* mp3_streambuf_size counts the bytes in the buffer: neither the decoder nor
\* the copy of the rest reads beyond them, although _mp3_stream_getBuffer works
\* with a size it read earlier.
TakesWhatIsThere ==
    /\ Len(data) = size
    /\ pc \in {"alloc", "copy"} => take <= size

\* mp3.c:846 takes what mp3.c:841 has polled: _mp3_input hands all of the nSize
\* bytes to the decoder, so all of them must have been copied.
FedInFull == pc \in {"alloc", "copy"} => take = nSize

\* No byte overtakes another, none is played twice.
Increasing(s) == \A i, j \in 1 .. Len(s) : i < j => s[i] < s[j]
AllBelow(s, n) == \A i \in 1 .. Len(s) : s[i] <= n
Delivered == IF netPc = "add" THEN arrived - netSize ELSE arrived
AudioInOrder ==
    /\ Increasing(fed) /\ Increasing(data)
    /\ AllBelow(fed, Delivered) /\ AllBelow(data, Delivered)
    /\ \A i \in 1 .. Len(fed), j \in 1 .. Len(data) : fed[i] < data[j]

\* The inductive invariant behind the theorems of StreamBufferProofs: what
\* _mp3_input has polled is still there when it is copied, as only the stream
\* thread takes bytes out.
PolledIsThere == pc = "clamp" => nSize <= size
ArrivedFirst == netPc = "add" => netSize <= arrived
IndInv ==
    /\ TypeOK /\ AddFits /\ TakesWhatIsThere /\ FedInFull /\ AudioInOrder
    /\ PolledIsThere /\ ArrivedFirst

\* The buffer implements the queue; bytes in mp3_stream_addBuffer's hands have
\* not arrived yet.
Queue == INSTANCE AudioQueue WITH
    queue <- data,
    arrived <- Delivered
ImplementsQueue == Queue!Spec

------------------------------------------------------------------------------
(* What the code intends, and what does not hold *)

\* mp3.c:1449: "Extracts audio data from the stream buffer": the bytes that are
\* not extracted fit into the block that replaces the old one.
ExtractFits == pc = "copy" => size - take <= rest
==============================================================================

------------------------- MODULE StreamBufferProofs -------------------------
(***************************************************************************)
(* Theorems about module StreamBuffer, for every chunk size and every way  *)
(* the audio bytes arrive: the sizes that are computed outside of the      *)
(* critical sections do no harm to additions nor to what the decoder gets, *)
(* and the buffer is a queue.                                              *)
(***************************************************************************)
EXTENDS StreamBuffer, TLAPS

\* The first n elements of a sequence, and the others, element by element.
LEMMA Split ==
    ASSUME NEW s \in Seq(Nat), NEW n \in 0 .. Len(s)
    PROVE  LET front == SubSeq(s, 1, n)
               back == SubSeq(s, n + 1, Len(s))
           IN  /\ front \in Seq(Nat) /\ back \in Seq(Nat)
               /\ Len(front) = n /\ \A i \in 1 .. n : front[i] = s[i]
               /\ Len(back) = Len(s) - n
               /\ \A i \in 1 .. Len(s) - n : back[i] = s[n + i]
<1>1. Len(s) \in Nat /\ n \in Nat /\ n <= Len(s)
  OBVIOUS
<1>. QED  BY <1>1

\* A sequence of bytes in order stays in order when it is split.
LEMMA SplitInOrder ==
    ASSUME NEW s \in Seq(Nat), NEW n \in 0 .. Len(s), NEW bound \in Nat,
           Increasing(s), AllBelow(s, bound)
    PROVE  LET front == SubSeq(s, 1, n)
               back == SubSeq(s, n + 1, Len(s))
           IN  /\ Increasing(front) /\ AllBelow(front, bound)
               /\ Increasing(back) /\ AllBelow(back, bound)
               /\ \A i \in 1 .. Len(front), j \in 1 .. Len(back) : front[i] < back[j]
<1>. DEFINE front == SubSeq(s, 1, n)
            back == SubSeq(s, n + 1, Len(s))
<1>1. /\ Len(front) = n /\ \A i \in 1 .. n : front[i] = s[i]
      /\ Len(back) = Len(s) - n /\ \A i \in 1 .. Len(s) - n : back[i] = s[n + i]
  BY Split
<1>2. Len(s) \in Nat /\ n \in Nat /\ n <= Len(s)
  OBVIOUS
<1>3. \A i \in 1 .. n : i \in 1 .. Len(s)
  BY <1>2
<1>4. \A i \in 1 .. Len(s) - n : n + i \in 1 .. Len(s)
  BY <1>2
<1>. HIDE DEF front, back
<1>5. Increasing(front) /\ AllBelow(front, bound)
  BY <1>1, <1>3 DEF Increasing, AllBelow
<1>6. AllBelow(back, bound)
  BY <1>1, <1>4 DEF AllBelow
<1>7. ASSUME NEW i \in 1 .. Len(back), NEW j \in 1 .. Len(back), i < j PROVE back[i] < back[j]
  <2>1. n + i \in 1 .. Len(s) /\ n + j \in 1 .. Len(s) /\ n + i < n + j
    BY <1>1, <1>2, <1>4, <1>7
  <2>. QED  BY <1>1, <1>7, <2>1 DEF Increasing
<1>8. ASSUME NEW i \in 1 .. Len(front), NEW j \in 1 .. Len(back) PROVE front[i] < back[j]
  <2>1. i \in 1 .. Len(s) /\ n + j \in 1 .. Len(s) /\ i < n + j
    BY <1>1, <1>2, <1>3, <1>4, <1>8
  <2>. QED  BY <1>1, <1>8, <2>1 DEF Increasing
<1>9. Increasing(back)
  BY <1>7 DEF Increasing
<1>. QED  BY <1>5, <1>6, <1>8, <1>9 DEF front, back

\* One sequence after another, element by element.
LEMMA Joined ==
    ASSUME NEW s \in Seq(Nat), NEW t \in Seq(Nat)
    PROVE  /\ s \o t \in Seq(Nat) /\ Len(s \o t) = Len(s) + Len(t)
           /\ Len(s) \in Nat /\ Len(t) \in Nat
           /\ \A i \in 1 .. Len(s) : (s \o t)[i] = s[i]
           /\ \A i \in 1 .. Len(t) : (s \o t)[Len(s) + i] = t[i]
OBVIOUS

\* The bytes of an addition, element by element.
LEMMA Appended ==
    ASSUME TypeOK, ArrivedFirst, netPc = "add"
    PROVE  /\ Arrivals \in Seq(Nat)
           /\ Len(Arrivals) = netSize
           /\ \A i \in 1 .. netSize : Arrivals[i] = arrived - netSize + i
<1>1. netSize \in Nat /\ arrived \in Nat /\ netSize <= arrived
  BY StreamBufferAssumption DEF TypeOK, ArrivedFirst
<1>2. \A i \in 1 .. netSize : arrived - netSize + i \in Nat
  BY <1>1
<1>. QED  BY <1>1, <1>2 DEF Arrivals

LEMMA InitIndInv == Init => IndInv
BY StreamBufferAssumption DEF Init, IndInv, TypeOK, AddFits, TakesWhatIsThere, FedInFull,
   AudioInOrder, Increasing, AllBelow, Delivered, PolledIsThere, ArrivedFirst

\* Every step preserves the inductive invariant.
LEMMA StepIndInv == IndInv /\ [Next]_vars => IndInv'
<1>. SUFFICES ASSUME IndInv, [Next]_vars PROVE IndInv'
  OBVIOUS
<1>. USE StreamBufferAssumption
<1>0. TypeOK /\ size = Len(data) /\ netSize \in Nat
  BY DEF IndInv, TakesWhatIsThere, TypeOK
<1>1. CASE Receive
  <2>1. PICK n \in Reads : arrived' = arrived + n /\ netSize' = n /\ netBlock' = size + n
    BY <1>1 DEF Receive, NewBlock, Malloc
  <2>2. n \in Nat /\ netPc = "recv" /\ netPc' = "add" /\ UNCHANGED <<buffer, streamThread>>
    BY <1>1 DEF Receive
  <2>3. TypeOK' /\ AddFits' /\ ArrivedFirst'
    BY <1>0, <2>1, <2>2 DEF TypeOK, AddFits, ArrivedFirst, buffer, streamThread
  <2>4. TakesWhatIsThere' /\ FedInFull' /\ PolledIsThere'
    BY <2>2 DEF IndInv, TakesWhatIsThere, FedInFull, PolledIsThere, buffer, streamThread
  <2>5. Delivered' = Delivered /\ fed' = fed /\ data' = data
    BY <1>0, <2>1, <2>2 DEF Delivered, buffer, streamThread, TypeOK
  <2>6. AudioInOrder'
    BY <2>5 DEF IndInv, AudioInOrder, Increasing, AllBelow
  <2>. QED  BY <2>3, <2>4, <2>6 DEF IndInv
<1>2. CASE ReceiveInVain
  <2>1. PICK n \in Reads : arrived' = arrived + n
    BY <1>2 DEF ReceiveInVain
  <2>2. n \in Nat /\ netPc = "recv" /\ UNCHANGED <<buffer, netPc, netSize, netBlock, streamThread>>
    BY <1>2 DEF ReceiveInVain
  <2>3. TypeOK' /\ AddFits' /\ ArrivedFirst'
    BY <1>0, <2>1, <2>2 DEF TypeOK, AddFits, ArrivedFirst, buffer, streamThread
  <2>4. TakesWhatIsThere' /\ FedInFull' /\ PolledIsThere'
    BY <2>2 DEF IndInv, TakesWhatIsThere, FedInFull, PolledIsThere, buffer, streamThread
  <2>5. Delivered \in Nat /\ Delivered' >= Delivered /\ Delivered' \in Nat /\ fed' = fed /\ data' = data
    BY <1>0, <2>1, <2>2 DEF Delivered, buffer, streamThread, TypeOK
  <2>6. AllBelow(fed, Delivered') /\ AllBelow(data, Delivered')
    BY <1>0, <2>5 DEF IndInv, AudioInOrder, AllBelow, TypeOK
  <2>7. AudioInOrder'
    BY <2>5, <2>6 DEF IndInv, AudioInOrder, Increasing, AllBelow
  <2>. QED  BY <2>3, <2>4, <2>7 DEF IndInv
<1>3. CASE Add
  <2>. DEFINE old == arrived - netSize
  <2>1. netPc = "add" /\ netPc' = "recv" /\ data' = data \o Arrivals /\ size' = size + netSize
        /\ block' = netBlock /\ UNCHANGED <<arrived, netSize, netBlock, streamThread>>
    BY <1>3 DEF Add
  <2>2. /\ Arrivals \in Seq(Nat) /\ Len(Arrivals) = netSize
        /\ \A i \in 1 .. netSize : Arrivals[i] = old + i
    BY <1>0, <2>1, Appended DEF IndInv
  <2>3. old \in Nat /\ netSize \in Nat /\ arrived = old + netSize
    BY <1>0, <2>1 DEF IndInv, ArrivedFirst, TypeOK
  <2>4. /\ data' \in Seq(Nat) /\ Len(data') = Len(data) + netSize
        /\ \A i \in 1 .. Len(data) : data'[i] = data[i]
        /\ \A i \in 1 .. netSize : data'[Len(data) + i] = old + i
    <3>1. data \in Seq(Nat)
      BY <1>0 DEF TypeOK
    <3>. HIDE DEF old
    <3>. QED  BY <2>1, <2>2, <3>1, Joined
  <2>5. TypeOK' /\ AddFits' /\ ArrivedFirst'
    BY <1>0, <2>1, <2>3, <2>4 DEF TypeOK, AddFits, ArrivedFirst, streamThread
  <2>6. TakesWhatIsThere' /\ FedInFull' /\ PolledIsThere'
    BY <1>0, <2>1, <2>3, <2>4
       DEF IndInv, TakesWhatIsThere, FedInFull, PolledIsThere, streamThread, TypeOK
  <2>7. Delivered = old /\ Delivered' = old + netSize /\ fed' = fed
    BY <2>1, <2>3 DEF Delivered, streamThread
  <2>8. ASSUME NEW i \in 1 .. Len(data')
        PROVE  IF i \in 1 .. Len(data) THEN data'[i] = data[i]
               ELSE i > Len(data) /\ data'[i] = old + (i - Len(data))
    <3>1. CASE i \in 1 .. Len(data)
      BY <2>4, <3>1
    <3>2. CASE i \notin 1 .. Len(data)
      <4>1. Len(data) \in Nat /\ i > Len(data) /\ i - Len(data) \in 1 .. netSize
        BY <1>0, <2>3, <2>4, <2>8, <3>2 DEF TypeOK
      <4>2. data'[Len(data) + (i - Len(data))] = old + (i - Len(data))
        BY <2>4, <4>1
      <4>3. Len(data) + (i - Len(data)) = i
        BY <2>8, <4>1
      <4>. QED  BY <3>2, <4>1, <4>2, <4>3
    <3>. QED  BY <3>1, <3>2
  <2>9. Len(data) \in Nat /\ Len(fed) \in Nat /\ Len(data') \in Nat
        /\ (\A i \in 1 .. Len(data) : data[i] \in Nat) /\ (\A i \in 1 .. Len(fed) : fed[i] \in Nat)
    BY <1>0, <2>4 DEF TypeOK
  <2>10. /\ Increasing(data) /\ AllBelow(data, old) /\ AllBelow(fed, old)
         /\ \A i \in 1 .. Len(fed), j \in 1 .. Len(data) : fed[i] < data[j]
    BY <2>7 DEF IndInv, AudioInOrder
  <2>. HIDE DEF old
  <2>11. Increasing(data')
    <3>. SUFFICES ASSUME NEW i \in 1 .. Len(data'), NEW j \in 1 .. Len(data'), i < j
                  PROVE  data'[i] < data'[j]
      BY DEF Increasing
    <3>1. CASE i \in 1 .. Len(data) /\ j \in 1 .. Len(data)
      BY <2>8, <2>10, <3>1 DEF Increasing
    <3>2. CASE i \in 1 .. Len(data) /\ j \notin 1 .. Len(data)
      <4>1. data'[i] = data[i] /\ data[i] \in Nat /\ data[i] <= old
        BY <2>8, <2>9, <2>10, <3>2 DEF AllBelow
      <4>2. data'[j] = old + (j - Len(data)) /\ j > Len(data)
        BY <2>8, <3>2
      <4>. QED  BY <2>3, <2>9, <4>1, <4>2
    <3>3. CASE i \notin 1 .. Len(data) /\ j \in 1 .. Len(data)
      <4>1. i > Len(data)
        BY <2>8, <3>3
      <4>. QED  BY <2>9, <3>3, <4>1
    <3>4. CASE i \notin 1 .. Len(data) /\ j \notin 1 .. Len(data)
      <4>1. data'[i] = old + (i - Len(data)) /\ data'[j] = old + (j - Len(data))
        BY <2>8, <3>4
      <4>. QED  BY <2>3, <2>9, <4>1
    <3>. QED  BY <3>1, <3>2, <3>3, <3>4
  <2>12. /\ AllBelow(data', old + netSize) /\ AllBelow(fed, old + netSize)
         /\ \A i \in 1 .. Len(fed), j \in 1 .. Len(data') : fed[i] < data'[j]
    <3>1. ASSUME NEW i \in 1 .. Len(fed) PROVE fed[i] \in Nat /\ fed[i] <= old
      BY <2>9, <2>10 DEF AllBelow
    <3>2. ASSUME NEW j \in 1 .. Len(data')
          PROVE  /\ data'[j] <= old + netSize
                 /\ \A i \in 1 .. Len(fed) : fed[i] < data'[j]
      <4>1. CASE j \in 1 .. Len(data)
        <5>1. data'[j] = data[j] /\ data[j] \in Nat /\ data[j] <= old
          BY <2>8, <2>9, <2>10, <4>1 DEF AllBelow
        <5>. QED  BY <2>3, <2>10, <4>1, <5>1
      <4>2. CASE j \notin 1 .. Len(data)
        <5>1. data'[j] = old + (j - Len(data)) /\ j > Len(data)
          BY <2>8, <4>2
        <5>2. j \in Nat /\ j <= Len(data) + netSize
          BY <2>4, <2>9
        <5>. QED  BY <2>3, <2>9, <3>1, <5>1, <5>2
      <4>. QED  BY <4>1, <4>2
    <3>. QED  BY <2>3, <3>1, <3>2 DEF AllBelow
  <2>13. AudioInOrder'
    BY <2>7, <2>10, <2>11, <2>12 DEF IndInv, AudioInOrder, Increasing, AllBelow
  <2>. QED  BY <2>5, <2>6, <2>13 DEF IndInv
<1>4. CASE Poll \/ Stop \/ Ask \/ Clamp \/ Allocate
  <2>1. TypeOK' /\ TakesWhatIsThere' /\ FedInFull' /\ PolledIsThere'
    BY <1>0, <1>4 DEF IndInv, Poll, Stop, Ask, Clamp, Allocate, Malloc, Goto, TypeOK,
       TakesWhatIsThere, FedInFull, PolledIsThere, buffer, netThread
  <2>2. UNCHANGED <<buffer, netThread, fed>>
    BY <1>4 DEF Poll, Stop, Ask, Clamp, Allocate
  <2>3. AddFits' /\ ArrivedFirst' /\ AudioInOrder'
    BY <2>2 DEF IndInv, AddFits, ArrivedFirst, AudioInOrder, Increasing, AllBelow, Delivered,
       buffer, netThread
  <2>. QED  BY <2>1, <2>3 DEF IndInv
<1>5. CASE AllocateInVain
  <2>1. fed' = <<>> /\ pc' = "poll" /\ UNCHANGED <<buffer, netThread, nSize, take, rest>>
    BY <1>5 DEF AllocateInVain, Goto
  <2>2. TypeOK' /\ TakesWhatIsThere' /\ FedInFull' /\ PolledIsThere' /\ AddFits' /\ ArrivedFirst'
    BY <1>0, <2>1 DEF IndInv, TypeOK, TakesWhatIsThere, FedInFull, PolledIsThere, AddFits,
       ArrivedFirst, buffer, netThread
  <2>3. AudioInOrder'
    BY <2>1 DEF IndInv, AudioInOrder, Increasing, AllBelow, Delivered, buffer, netThread
  <2>. QED  BY <2>2, <2>3 DEF IndInv
<1>6. CASE Copy
  <2>1. /\ pc = "copy" /\ pc' = "poll"
        /\ fed' = SubSeq(data, 1, take) /\ data' = SubSeq(data, take + 1, Len(data))
        /\ size' = size - take /\ block' = rest
        /\ UNCHANGED <<netThread, nSize, take, rest>>
    BY <1>6 DEF Copy, Goto
  <2>2. data \in Seq(Nat) /\ take \in 0 .. Len(data) /\ Len(data) \in Nat
    BY <1>0, <2>1 DEF IndInv, TakesWhatIsThere, TypeOK
  <2>3. /\ fed' \in Seq(Nat) /\ data' \in Seq(Nat)
        /\ Len(fed') = take /\ Len(data') = Len(data) - take
        /\ \A i \in 1 .. take : fed'[i] = data[i]
        /\ \A i \in 1 .. Len(data) - take : data'[i] = data[take + i]
    BY <2>1, <2>2, Split
  <2>4. TypeOK' /\ AddFits' /\ ArrivedFirst'
    BY <1>0, <2>1, <2>2, <2>3 DEF IndInv, TypeOK, AddFits, ArrivedFirst, netThread
  <2>5. TakesWhatIsThere' /\ FedInFull' /\ PolledIsThere'
    BY <1>0, <2>1, <2>2, <2>3 DEF TakesWhatIsThere, FedInFull, PolledIsThere
  <2>6. Delivered' = Delivered /\ Increasing(data) /\ AllBelow(data, Delivered)
    BY <2>1 DEF IndInv, AudioInOrder, Delivered, netThread
  <2>7. Delivered \in Nat
    BY <1>0 DEF IndInv, Delivered, TypeOK, ArrivedFirst
  <2>8. /\ Increasing(fed') /\ AllBelow(fed', Delivered)
        /\ Increasing(data') /\ AllBelow(data', Delivered)
        /\ \A i \in 1 .. Len(fed'), j \in 1 .. Len(data') : fed'[i] < data'[j]
    BY <2>1, <2>2, <2>6, <2>7, SplitInOrder
  <2>10. AudioInOrder'
    BY <2>6, <2>8 DEF AudioInOrder, Increasing, AllBelow
  <2>. QED  BY <2>4, <2>5, <2>10 DEF IndInv
<1>7. CASE Flush
  <2>1. /\ pc = "flush" /\ pc' = "poll" /\ data' = <<>> /\ size' = 0 /\ block' = 0
        /\ UNCHANGED <<netThread, nSize, take, rest, fed>>
    BY <1>7 DEF Flush, Goto
  <2>2. TypeOK' /\ TakesWhatIsThere' /\ FedInFull' /\ PolledIsThere' /\ AddFits' /\ ArrivedFirst'
    BY <1>0, <2>1 DEF IndInv, TypeOK, TakesWhatIsThere, FedInFull, PolledIsThere, AddFits,
       ArrivedFirst, netThread
  <2>3. AudioInOrder'
    BY <2>1 DEF IndInv, AudioInOrder, Increasing, AllBelow, Delivered, netThread
  <2>. QED  BY <2>2, <2>3 DEF IndInv
<1>8. CASE UNCHANGED vars
  BY <1>8 DEF IndInv, TypeOK, AddFits, TakesWhatIsThere, FedInFull, AudioInOrder, Increasing,
     AllBelow, Delivered, PolledIsThere, ArrivedFirst, vars, buffer, netThread, streamThread
<1>. QED
  BY <1>1, <1>2, <1>3, <1>4, <1>5, <1>6, <1>7, <1>8 DEF Next, StreamProceeds

\* The inductive invariant holds in every reachable state.
THEOREM Invariant == Spec => []IndInv
BY InitIndInv, StepIndInv, PTL DEF Spec

\* Every variable has its type; sizes never become negative.
THEOREM TypeCorrect == Spec => []TypeOK
<1>1. IndInv => TypeOK
  BY DEF IndInv
<1>. QED  BY <1>1, Invariant, PTL

\* mp3_stream_addBuffer never writes past the block it has allocated.
THEOREM AdditionsFit == Spec => []AddFits
<1>1. IndInv => AddFits
  BY DEF IndInv
<1>. QED  BY <1>1, Invariant, PTL

\* mp3_streambuf_size is the number of bytes there are, and an extraction stays
\* within them.
THEOREM ExtractionsStayInside == Spec => []TakesWhatIsThere
<1>1. IndInv => TakesWhatIsThere
  BY DEF IndInv
<1>. QED  BY <1>1, Invariant, PTL

\* An extraction copies all that the decoder has been promised.
THEOREM DecoderFedInFull == Spec => []FedInFull
<1>1. IndInv => FedInFull
  BY DEF IndInv
<1>. QED  BY <1>1, Invariant, PTL

\* Audio bytes stay in the order of their arrival.
THEOREM OrderKept == Spec => []AudioInOrder
<1>1. IndInv => AudioInOrder
  BY DEF IndInv
<1>. QED  BY <1>1, Invariant, PTL

\* The block-swapping buffer implements the queue of audio bytes.
THEOREM QueueRefined == Spec => ImplementsQueue
<1>. USE StreamBufferAssumption
<1>1. Init => Queue!Init
  BY DEF Init, Queue!Init, Delivered
<1>2. IndInv /\ [Next]_vars => [Queue!Next]_(Queue!vars)
  <2>. SUFFICES ASSUME IndInv, [Next]_vars PROVE [Queue!Next]_(Queue!vars)
    OBVIOUS
  <2>0. TypeOK /\ size = Len(data) /\ netSize \in Nat /\ ArrivedFirst
    BY DEF IndInv, TakesWhatIsThere, TypeOK
  <2>1. CASE Receive
    <3>1. PICK n \in Reads : arrived' = arrived + n /\ netSize' = n
      BY <2>1 DEF Receive
    <3>2. Delivered' = Delivered
      BY <2>0, <2>1, <3>1 DEF Receive, Delivered, TypeOK
    <3>. QED  BY <2>1, <3>2 DEF Receive, Queue!vars, buffer, streamThread
  <2>2. CASE ReceiveInVain
    <3>1. PICK n \in Reads : arrived' = arrived + n
      BY <2>2 DEF ReceiveInVain
    <3>2. Delivered = arrived /\ Delivered' = arrived' /\ data' = data /\ fed' = fed
      BY <2>2 DEF ReceiveInVain, Delivered, buffer, streamThread
    <3>3. Queue!Arrive
      BY <2>0, <3>1, <3>2 DEF Queue!Arrive, TypeOK
    <3>. QED  BY <3>3 DEF Queue!Next
  <2>3. CASE Add
    <3>1. netPc = "add" /\ Delivered = arrived - netSize /\ Delivered' = arrived
          /\ data' = data \o Arrivals /\ fed' = fed
      BY <2>3 DEF Add, Delivered, streamThread
    <3>2. arrived \in Nat /\ netSize <= arrived /\ arrived - (arrived - netSize) = netSize
      BY <2>0, <3>1 DEF TypeOK, ArrivedFirst
    <3>3. Queue!Arriving = Arrivals
      BY <3>1, <3>2 DEF Queue!Arriving, Arrivals
    <3>4. Queue!Arrive
      BY <2>0, <3>1, <3>2, <3>3 DEF Queue!Arrive
    <3>. QED  BY <3>4 DEF Queue!Next
  <2>4. CASE Poll \/ Stop \/ Ask \/ Clamp \/ Allocate
    <3>1. UNCHANGED <<buffer, netThread, fed>>
      BY <2>4 DEF Poll, Stop, Ask, Clamp, Allocate
    <3>. QED  BY <3>1 DEF Queue!vars, Delivered, buffer, netThread
  <2>5. CASE AllocateInVain
    <3>1. fed' = <<>> /\ data' = data /\ Delivered' = Delivered
      BY <2>5 DEF AllocateInVain, Delivered, buffer, netThread
    <3>2. /\ 0 \in 0 .. Len(data) /\ SubSeq(data, 1, 0) = <<>>
          /\ SubSeq(data, 0 + 1, Len(data)) = data
      BY <2>0 DEF TypeOK
    <3>3. Queue!Feed
      BY <3>1, <3>2 DEF Queue!Feed
    <3>. QED  BY <3>3 DEF Queue!Next
  <2>6. CASE Copy
    <3>1. take \in 0 .. Len(data)
      BY <2>0, <2>6 DEF Copy, IndInv, TakesWhatIsThere, TypeOK
    <3>2. Queue!Feed
      BY <2>6, <3>1 DEF Copy, Queue!Feed, Delivered, netThread
    <3>. QED  BY <3>2 DEF Queue!Next
  <2>7. CASE Flush
    <3>1. Queue!Discard
      BY <2>7 DEF Flush, Queue!Discard, Delivered, netThread
    <3>. QED  BY <3>1 DEF Queue!Next
  <2>8. CASE UNCHANGED vars
    BY <2>8 DEF vars, Queue!vars, Delivered, buffer, netThread, streamThread
  <2>. QED
    BY <2>1, <2>2, <2>3, <2>4, <2>5, <2>6, <2>7, <2>8 DEF Next, StreamProceeds
<1>. QED  BY <1>1, <1>2, Invariant, PTL DEF Spec, ImplementsQueue, Queue!Spec
============================================================================

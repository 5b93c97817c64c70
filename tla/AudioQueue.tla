----------------------------- MODULE AudioQueue -----------------------------
(***************************************************************************)
(* What the radio's stream buffer promises: the audio bytes of a station    *)
(* reach the decoder in the order in which they arrived, each at most once. *)
(* Bytes are numbered in the order of their arrival.                        *)
(***************************************************************************)
EXTENDS Naturals, Sequences

VARIABLES
    arrived,    \* the number of bytes that have arrived so far
    queue,      \* those that wait
    fed         \* those the decoder was given last

vars == <<arrived, queue, fed>>

Arriving == [i \in 1 .. arrived' - arrived |-> arrived + i]

Init == arrived = 0 /\ queue = <<>> /\ fed = <<>>

\* Bytes arrive; they are lost when there is no memory for them.
Arrive ==
    /\ arrived' \in Nat /\ arrived' >= arrived
    /\ queue' \in {queue, queue \o Arriving}
    /\ UNCHANGED fed

\* Nothing is fed when there is no memory for what stays behind.
Feed ==
    \E n \in 0 .. Len(queue) :
        /\ fed' = SubSeq(queue, 1, n)
        /\ queue' = SubSeq(queue, n + 1, Len(queue))
        /\ UNCHANGED arrived

Discard == queue' = <<>> /\ UNCHANGED <<arrived, fed>>

Next == Arrive \/ Feed \/ Discard

Spec == Init /\ [][Next]_vars
=============================================================================

----------------------------- MODULE ByteQueue -----------------------------
(***************************************************************************)
(* What a Buffer promises to Connection: a queue of bytes.  Bytes are put  *)
(* at its end, taken from its front, and a string taken out is the front   *)
(* of the queue at that moment.                                            *)
(***************************************************************************)
EXTENDS Naturals, Sequences

CONSTANT Inputs     \* the strings that may be put
VARIABLES
    queue,  \* the bytes put and not yet taken
    last    \* the last string put in or taken out

Init ==
    /\ queue = <<>>
    /\ last = <<>>

Put(data) ==
    /\ queue' = queue \o data
    /\ last' = data

Take(n) ==
    /\ queue' = SubSeq(queue, n + 1, Len(queue))
    /\ UNCHANGED last

Get(n) ==
    /\ last' = SubSeq(queue, 1, n)
    /\ queue' = SubSeq(queue, n + 1, Len(queue))

Next ==
    \/ \E data \in Inputs : Put(data)
    \/ \E n \in 0 .. Len(queue) : Take(n) \/ Get(n)

Spec == Init /\ [][Next]_<<queue, last>>
=============================================================================

------------------------------ MODULE LogQueue ------------------------------
(***************************************************************************)
(* What the asynchronous log promises to the threads that log: lines come  *)
(* out in the order in which they were appended, none twice, and a line is *)
(* lost only when the back end gives up a run of adjacent lines.           *)
(***************************************************************************)
EXTENDS Naturals, Sequences

VARIABLES
    count,      \* lines appended so far, numbered 1 .. count
    waiting,    \* lines appended and not yet written
    written     \* lines written, in order

vars == <<count, waiting, written>>

Init ==
    /\ count = 0
    /\ waiting = <<>>
    /\ written = <<>>

\* a thread logs a line
Submit ==
    /\ count' = count + 1
    /\ waiting' = Append(waiting, count')
    /\ UNCHANGED written

\* the first n waiting lines are written
Write(n) ==
    /\ written' = written \o SubSeq(waiting, 1, n)
    /\ waiting' = SubSeq(waiting, n + 1, Len(waiting))
    /\ UNCHANGED count

\* the lines between the m-th and the n-th are given up
Discard(m, n) ==
    /\ waiting' = SubSeq(waiting, 1, m) \o SubSeq(waiting, n, Len(waiting))
    /\ UNCHANGED <<count, written>>

Next ==
    \/ Submit
    \/ \E n \in 1 .. Len(waiting) : Write(n)
    \/ \E m \in 0 .. Len(waiting), n \in 1 .. Len(waiting) + 1 :
          m < n /\ Discard(m, n)

Spec == Init /\ [][Next]_vars
=============================================================================

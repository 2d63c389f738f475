--------------------------- MODULE ConnLifecycle ---------------------------
(***************************************************************************)
(* What the server promises a client that keeps talking, whatever loops,   *)
(* tables and threads it uses: a descriptor is one connection's from its   *)
(* acceptance to its end, a served connection ends only after it was       *)
(* closed, and an end is final.                                            *)
(***************************************************************************)
CONSTANTS Conns, Fds, NoFd

VARIABLES
    stage,  \* stage[c]: "unknown", "arriving", "served", "closing", "gone"
    fd      \* fd[c]: the descriptor c has, or had

vars == <<stage, fd>>

Init ==
    /\ stage = [c \in Conns |-> "unknown"]
    /\ fd = [c \in Conns |-> NoFd]

Arrive(c, f) ==
    /\ \A d \in Conns : fd[d] = f => stage[d] \in {"unknown", "gone"}
    /\ stage[c] = "unknown"
    /\ stage' = [stage EXCEPT ![c] = "arriving"]
    /\ fd' = [fd EXCEPT ![c] = f]

Later == [arriving |-> {"served", "gone"}, served |-> {"closing"},
          closing |-> {"gone"}]

Turn(c) ==
    /\ stage[c] \in DOMAIN Later
    /\ \E s \in Later[stage[c]] : stage' = [stage EXCEPT ![c] = s]
    /\ UNCHANGED fd

Next == \E c \in Conns : Turn(c) \/ \E f \in Fds : Arrive(c, f)

Spec == Init /\ [][Next]_vars
=============================================================================

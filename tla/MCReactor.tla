----------------------------- MODULE MCReactor -----------------------------
(* Instances of Reactor for TLC.                                           *)
EXTENDS Reactor

\* the clients are interchangeable
ConnSymmetry == Permutations(Conns)

\* a view for invariants: the fields of a destroyed connection do not count,
\* since no step reads them and no invariant is about them
Fields(c) == IF obj[c] = "freed" THEN <<>> ELSE <<age[c], disc[c]>>
Visible == <<obj, fdOf, [c \in Conns |-> Fields(c)],
             registries, round, sources, mainVars, pool>>
=============================================================================

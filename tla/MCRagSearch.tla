----------------------------- MODULE MCRagSearch -----------------------------
(* Instances of RagSearch for TLC.                                         *)
EXTENDS RagSearch, TLC

CONSTANTS d1, d2, c1, c2, r1, p1, u1, u2, txt, s1

\* Every content has two chunks.
MCExtract == [c \in Contents |-> [f \in Formats |-> 2]]

Symmetry == Permutations(DocIds) \cup Permutations(Users) \cup Permutations(Contents)
=============================================================================

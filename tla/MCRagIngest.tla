---------------------------- MODULE MCRagIngest ----------------------------
(* Instances of RagIngest for TLC.                                         *)
EXTENDS RagIngest, TLC

CONSTANTS d1, d2, d3, c1, c2, r1, r2, p1, p2, u1, u2, txt, pdf

\* c1 is text: two chunks as txt, a parser error as pdf.  c2 has no text.
MCExtract == [c \in Contents |-> [f \in Formats |->
                IF c = c2 THEN 0 ELSE IF f = txt THEN 2 ELSE -1]]

Symmetry == Permutations(DocIds) \cup Permutations(Slots) \cup Permutations(Procs)
            \cup Permutations(Users)
=============================================================================

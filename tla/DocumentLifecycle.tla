-------------------------- MODULE DocumentLifecycle --------------------------
(***************************************************************************)
(* What the RAG half promises the owner of a document: the phase shown in  *)
(* the list of documents, and which ingest attempt, if any, a search finds *)
(* it through.  RagIngest implements this.                                 *)
(*                                                                         *)
(* An attempt becomes searchable as a whole, once, while the document is   *)
(* being worked on; "done" is only said of a searchable document, which    *)
(* stays as it is until it is deleted or found to have failed; a retry     *)
(* starts from nothing; a deleted document never comes back.               *)
(***************************************************************************)
EXTENDS Naturals

CONSTANTS
    DocIds,
    Attempts     \* numbers of ingest attempts, 0 excluded

VARIABLES
    phase,       \* phase[d] \in Phases
    index        \* index[d]: the attempt whose chunks are searchable, or 0

vars == <<phase, index>>

Phases == {"absent", "working", "done", "failed", "deleted"}

Init ==
    /\ phase = [d \in DocIds |-> "absent"]
    /\ index = [d \in DocIds |-> 0]

Become(d, x) == phase' = [phase EXCEPT ![d] = x]

Accept(d) ==
    /\ phase[d] = "absent"
    /\ Become(d, "working")
    /\ UNCHANGED index

Index(d, a) ==
    /\ phase[d] = "working"
    /\ index[d] = 0
    /\ index' = [index EXCEPT ![d] = a]
    /\ UNCHANGED phase

Finish(d) ==
    /\ phase[d] = "working"
    /\ index[d] # 0
    /\ Become(d, "done")
    /\ UNCHANGED index

\* From "done" as well: the reply to the update that said so can be lost.
Fail(d) ==
    /\ phase[d] \in {"working", "done"}
    /\ Become(d, "failed")
    /\ UNCHANGED index

Retry(d) ==
    /\ phase[d] = "failed"
    /\ Become(d, "working")
    /\ index' = [index EXCEPT ![d] = 0]

Delete(d) ==
    /\ phase[d] \in {"working", "done", "failed"}
    /\ Become(d, "deleted")
    /\ index' = [index EXCEPT ![d] = 0]

Next ==
    \E d \in DocIds :
       \/ Accept(d) \/ Finish(d) \/ Fail(d) \/ Retry(d) \/ Delete(d)
       \/ \E a \in Attempts : Index(d, a)

Spec == Init /\ [][Next]_vars
=============================================================================

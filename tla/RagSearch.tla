------------------------------ MODULE RagSearch ------------------------------
(***************************************************************************)
(* Searches while documents are uploaded, ingested, retried and deleted:   *)
(* search and get_context of app/rag_retrieval.py with the queries of      *)
(* app/rag_store.py, called by the panel and by the tools of               *)
(* app/server.py.                                                          *)
(*                                                                         *)
(*   vector -> fts -> fetch -> rerank -> answered                          *)
(*                                                                         *)
(* Every step is one awaited call, and the stores change in between.  The  *)
(* rankings (external) put any of the candidates first; their order is     *)
(* modelled in RagText.                                                    *)
(***************************************************************************)
EXTENDS RagIngest, FiniteSetsExt

CONSTANTS
    Searches,      \* searches that can be in progress at the same time
    CandidateK,    \* RAG_CANDIDATE_K
    TopK           \* RAG_TOP_K

ASSUME SearchAssumption == CandidateK \in Nat /\ TopK \in Nat

VARIABLE search

searchVars == <<documents, chunks, points, uploads, jobs, nextJob, failures,
                worker, handler, crashes, search>>

SearchPC == {"idle", "vector", "fts", "fetch", "rerank", "answered"}

\* A chunk as searches name it; points of deleted documents have such names too.
Hits == DocIds \X ChunkIds

\* found: ids of the two searches; rows: those that were still there.
\* Histories: dead, the documents deleted before the search began; due, what it
\* has to find.
Search == [ pc     : SearchPC,
            proc   : Procs \cup {Nil},
            user   : Users \cup {Nil},
            found  : SUBSET Hits,
            rows   : SUBSET Hits,
            answer : SUBSET Hits,
            dead   : SUBSET DocIds,
            due    : SUBSET Hits ]

Quiet == [ pc |-> "idle", proc |-> Nil, user |-> Nil, found |-> {},
           rows |-> {}, answer |-> {}, dead |-> {}, due |-> {} ]

SearchTypeOK == search \in [Searches -> Search]

-----------------------------------------------------------------------------
(* What the stores hold.                                                   *)

Of(index, D) == UNION {{d} \X index[d] : d \in D}

\* A point's payload names the owner of the document it was made for.
OwnedBy(u) == {d \in DocIds : documents[d].owner = u}

Deleted == {d \in DocIds : documents[d].status = "deleted"}

ReadOutcomes == {"ok", "raised"}

\* Any n of S, or all when there are fewer.
Best(S, n) == IF Cardinality(S) <= n THEN {S} ELSE kSubset(n, S)

AtSearch(s, l) == search[s].pc = l

\* A search that is over, and what it answered; nothing stays of one that
\* raised or found nothing.
Over(p, u, dead, answer) ==
    IF answer = {} THEN Quiet
    ELSE [Quiet EXCEPT !.pc = "answered", !.proc = p, !.user = u, !.dead = dead,
                       !.answer = answer]

Ends(s, answer) ==
    search' = [search EXCEPT ![s] = Over(@.proc, @.user, @.dead, answer)]

-----------------------------------------------------------------------------
\* rag_search of the panel (with its session) or the tool of that name, up to
\* the embedding of the query, which reads no store and whose error search()
\* does not catch.
BeginSearch(s, p, u, o) ==
    /\ search[s].pc \in {"idle", "answered"}
    /\ Charge(o)
    /\ search' = [search EXCEPT ![s] =
          IF o = "ok" THEN [Quiet EXCEPT !.pc = "vector", !.proc = p, !.user = u,
                                         !.dead = Deleted]
          ELSE Quiet]

\* Mutant: the query has no filter on the owner.
VectorSearchUnfiltered(s, o) ==
    /\ AtSearch(s, "vector")
    /\ Charge(o)
    /\ \E V \in IF o = "ok" THEN Best(Of(points, DocIds), CandidateK) ELSE {{}} :
          search' = [search EXCEPT ![s].pc = "fts", ![s].found = V]

\* vector_search: the best points with this owner in their payload, whether
\* their rows are there or not.  An error is logged, and there are no hits.
VectorSearch(s, o) ==
    /\ AtSearch(s, "vector")
    /\ Charge(o)
    /\ LET u    == search[s].user
           mine == Of(points, OwnedBy(u))
           done == {d \in OwnedBy(u) : documents[d].status = "done"}
       IN  \E V \in IF o = "ok" THEN Best(mine, CandidateK) ELSE {{}} :
              search' = [search EXCEPT
                 ![s].pc = "fts", ![s].found = V,
                 ![s].due = IF o = "ok" /\ Cardinality(mine) <= CandidateK
                            THEN Of(chunks, done) ELSE {}]

\* Mutant: only what both searches found is kept.
FusedIfAgreed(V, F) == {V \cap F}

\* The best candidate_k of the two lists.
Fused(V, F) == Best(V \cup F, CandidateK)

\* fts_search: any rows of this owner match; an error is logged.  Without any
\* hit search() returns at once.
FtsSearch(s, o) ==
    /\ AtSearch(s, "fts")
    /\ Charge(o)
    /\ \E F \in IF o = "ok" THEN SUBSET Of(chunks, OwnedBy(search[s].user)) ELSE {{}} :
          /\ Cardinality(F) <= CandidateK
          /\ \E C \in Fused(search[s].found, F) :
                IF C = {} THEN Ends(s, {})
                ELSE search' = [search EXCEPT
                        ![s].pc = "fetch", ![s].found = C,
                        ![s].due = IF Cardinality(search[s].found \cup F) <= CandidateK
                                   THEN @ ELSE {}]

\* Mutant: an id without a row is answered from what its point says of it.
FetchAll(s, o) ==
    /\ AtSearch(s, "fetch")
    /\ Charge(o)
    /\ IF o = "ok"
       THEN search' = [search EXCEPT ![s].pc = "rerank", ![s].rows = search[s].found]
       ELSE Ends(s, {})

\* fetch_chunks_by_id, whose error search() does not catch; ids without a row
\* are dropped.  The owner is not asked for again.
FetchChunks(s, o) ==
    /\ AtSearch(s, "fetch")
    /\ Charge(o)
    /\ IF o = "ok"
       THEN search' = [search EXCEPT ![s].pc = "rerank",
                                     ![s].rows = search[s].found \cap Of(chunks, DocIds)]
       ELSE Ends(s, {})

\* Mutant: the results do not say which document they are of.
AnswerWithoutDocument(s, o) ==
    /\ AtSearch(s, "rerank")
    /\ Charge(o)
    /\ \E A \in IF o = "ok" THEN Best(search[s].rows, TopK) ELSE {{}} :
          Ends(s, {h[2] : h \in A})

\* rerank and the cut to top_k.  An outage keeps the order of the fusion, which
\* is one of the orders there are; what rerank does not catch leaves search().
RerankAndAnswer(s, o) ==
    /\ AtSearch(s, "rerank")
    /\ Charge(o)
    /\ \E A \in IF o = "ok" THEN Best(search[s].rows, TopK) ELSE {{}} : Ends(s, A)

\* get_context for a document_id and ordinal of an earlier answer, or any other:
\* the rows of the neighbourhood, one query joined with the owner.
GetContext(s, p, u, d, ordinal, before, after, o) ==
    /\ search[s].pc \in {"idle", "answered"}
    /\ Charge(o)
    /\ LET rows == {h \in Of(chunks, {d} \cap OwnedBy(u)) :
                       ordinal - before <= h[2][2] /\ h[2][2] <= ordinal + after}
       IN  search' = [search EXCEPT ![s] =
              Over(p, u, Deleted, IF o = "ok" THEN rows ELSE {})]

Ask(s) ==
    \E p \in Procs, u \in Users, o \in ReadOutcomes :
       \/ BeginSearch(s, p, u, o)
       \/ \E d \in DocIds, ordinal, window \in 0 .. 1 :
             GetContext(s, p, u, d, ordinal, window, window, o)

Advance(s) ==
    \E o \in ReadOutcomes :
       VectorSearch(s, o) \/ FtsSearch(s, o) \/ FetchChunks(s, o) \/ RerankAndAnswer(s, o)

SearchStep(s) ==
    /\ Ask(s) \/ Advance(s)
    /\ UNCHANGED <<documents, chunks, points, uploads, jobs, nextJob, worker, handler, crashes>>

IngestStep ==
    /\ (\E p \in Procs : Work(p)) \/ (\E r \in Slots : Request(r) \/ Serve(r))
    /\ UNCHANGED search

RestartAll(p) ==
    /\ Restart(p)
    /\ search' = [s \in Searches |-> IF search[s].proc = p THEN Quiet ELSE search[s]]

SearchInit == Init /\ search = [s \in Searches |-> Quiet]

SearchNext ==
    \/ IngestStep
    \/ \E p \in Procs : RestartAll(p)
    \/ \E s \in Searches : SearchStep(s)

SearchSpec == SearchInit /\ [][SearchNext]_searchVars

-----------------------------------------------------------------------------
\* Nobody is shown a chunk of somebody else's document, although the rows are
\* fetched by id alone, after two other awaits.
ResultsAreOwned ==
    \A s \in Searches : \A h \in search[s].answer : documents[h[1]].owner = search[s].user

\* A search that begins after a document was deleted answers nothing of it, even
\* if its vectors are still there, or are written later by the worker that was
\* ingesting it.
DeletedStaysDeleted ==
    \A s \in Searches : \A h \in search[s].answer : h[1] \notin search[s].dead

\* Every chunk of a document that was done when the vectors were searched, and
\* whose row is still there, is among the candidates, whatever the full-text
\* search returned; unless the owner has more vectors than candidate_k, or the
\* cut after the fusion drops some of what the two searches found.
SearchFindsDone ==
    \A s \in Searches :
       AtSearch(s, "rerank") =>
          search[s].due \cap Of(chunks, DocIds) \subseteq search[s].rows
=============================================================================

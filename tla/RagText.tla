------------------------------- MODULE RagText -------------------------------
(***************************************************************************)
(* One document's way through ingest_document, from its lines to the rows  *)
(* and vectors that are stored, and then the ranking of a search over it.  *)
(* What other processes do to the stores meanwhile is RagIngest and        *)
(* RagSearch.                                                              *)
(***************************************************************************)
EXTENDS Chunking, Embedding, Ranking

CONSTANTS
    CandidateK,      \* RAG_CANDIDATE_K
    TopK,            \* RAG_TOP_K
    MaxRanked        \* bound: documents with more chunks are not searched

ASSUME CutAssumption == CandidateK \in Nat /\ TopK \in Nat /\ MaxRanked \in Nat

VARIABLES
    stage,       \* of ingest_document
    stored,      \* pairs of a row and its vector
    query        \* a search, once the document is stored

vars == <<doc, pos, heading, paragraphs, sections, at, chunks, texts, batch, reply,
          stage, stored, query>>

Stages == {"parse", "embed", "store", "done", "error"}

NoQuery == [pc |-> "none", vec |-> <<>>, fts |-> <<>>, fused |-> <<>>,
            scores |-> <<>>, answer |-> <<>>]

Init ==
    /\ ChunkingInit /\ EmbeddingInit
    /\ stage = "parse" /\ stored = {} /\ query = NoQuery

Parse == stage = "parse" /\ Chunk /\ UNCHANGED <<embedVars, stage, stored, query>>

\* ingest_document finds no text: the document is set to 'error'.
NoText ==
    /\ stage = "parse" /\ Chunked /\ chunks = <<>>
    /\ stage' = "error"
    /\ UNCHANGED <<chunkVars, embedVars, stored, query>>

BeginEmbedding ==
    /\ stage = "parse" /\ Chunked /\ chunks # <<>>
    /\ Embed(Len(chunks))
    /\ stage' = "embed"
    /\ UNCHANGED <<chunkVars, stored, query>>

\* The requests go on when the call has raised.
Requests == (Post \/ \E b \in DOMAIN batch : Reply(b)) /\ UNCHANGED <<chunkVars, stage, stored, query>>

EmbedRaises ==
    /\ stage = "embed" /\ SomeFailed
    /\ stage' = "error"
    /\ UNCHANGED <<chunkVars, embedVars, stored, query>>

EmbedReturns ==
    /\ stage = "embed" /\ AllOk
    /\ stage' = "store"
    /\ UNCHANGED <<chunkVars, embedVars, stored, query>>

\* Mutant: the lengths are not compared, and zip pairs what there is.
InsertChunksUnchecked ==
    /\ stage = "store"
    /\ stage' = "done"
    /\ stored' = {<<chunks[k], Vectors[k]>> : k \in DOMAIN chunks \cap DOMAIN Vectors}
    /\ UNCHANGED <<chunkVars, embedVars, query>>

\* insert_chunks: the assert, then row k and point k share an id.
InsertChunks ==
    /\ stage = "store"
    /\ IF Len(chunks) = Len(Vectors)
       THEN stage' = "done" /\ stored' = {<<chunks[k], Vectors[k]>> : k \in DOMAIN chunks}
       ELSE stage' = "error" /\ UNCHANGED stored
    /\ UNCHANGED <<chunkVars, embedVars, query>>

-----------------------------------------------------------------------------
\* Lists of at most CandidateK chunks, best first; a search that fails has none.
Rankings == {s \in UNION {[1 .. n -> DOMAIN chunks] : n \in 0 .. CandidateK} :
                Cardinality(ToSet(s)) = Len(s)}

Cut(s, n) == SubSeq(s, 1, Min({n, Len(s)}))

\* Mutant: the candidates are cut to top_k before they are reranked.
FuseToTopK(vec, fts) == Cut(ReciprocalRankFusion(vec, fts), TopK)

Fuse(vec, fts) == Cut(ReciprocalRankFusion(vec, fts), CandidateK)

\* search(): the two searches (external rankings) and their fusion.
Search ==
    /\ stage = "done" /\ Len(chunks) <= MaxRanked
    /\ query.pc = "none"
    /\ \E vec, fts \in Rankings :
          query' = [NoQuery EXCEPT !.pc = "fused", !.vec = vec, !.fts = fts,
                                   !.fused = Fuse(vec, fts)]
    /\ UNCHANGED <<chunkVars, embedVars, stage, stored>>

\* _rerank_or_keep_order with the scores of the reranker (external), then top_k.
Rerank ==
    /\ query.pc = "fused"
    /\ \E scores \in [ToSet(query.fused) -> 0 .. 2] :
          query' = [query EXCEPT !.pc = "answered", !.scores = scores,
                                 !.answer = Cut(Reranked(query.fused, scores), TopK)]
    /\ UNCHANGED <<chunkVars, embedVars, stage, stored>>

\* The reranker is not available: the order of the fusion stands.
KeepOrder ==
    /\ query.pc = "fused"
    /\ query' = [query EXCEPT !.pc = "kept", !.answer = Cut(query.fused, TopK)]
    /\ UNCHANGED <<chunkVars, embedVars, stage, stored>>

Ingest == Parse \/ NoText \/ BeginEmbedding \/ Requests \/ EmbedRaises \/ EmbedReturns \/ InsertChunks

Next == Ingest \/ Search \/ Rerank \/ KeepOrder

\* The worker's task goes on, and every request ends by its timeout.
Fairness ==
    /\ WF_vars(Parse) /\ WF_vars(NoText) /\ WF_vars(BeginEmbedding)
    /\ WF_vars(EmbedRaises) /\ WF_vars(EmbedReturns) /\ WF_vars(InsertChunks)
    /\ WF_vars(Requests)

Spec == Init /\ [][Next]_vars /\ Fairness

-----------------------------------------------------------------------------
TypeOK == ChunkingTypeOK /\ EmbeddingTypeOK /\ stage \in Stages

\* A document that is done has all of its chunks stored, each with the vector of
\* its own text, in whatever order the batches ended and however short a reply.
VectorsPaired ==
    /\ stage = "done" => {p[1] : p \in stored} = ToSet(chunks)
    /\ \A p \in stored : p[1].ordinal + 1 = p[2]

\* A chunk that both searches found comes before every chunk that only one of
\* them found, at whatever ranks; lists longer than _RRF_K + 1 could break it.
AgreementWins ==
    LET both == ToSet(query.vec) \cap ToSet(query.fts)
    IN  \A i, j \in DOMAIN query.fused :
           query.fused[i] \notin both /\ query.fused[j] \in both => j < i

\* The reranker judges all that was found, up to candidate_k, and no chunk left
\* out of the answer scored more than one in it.
AnswerIsBest ==
    query.pc = "answered" =>
       LET found == ToSet(query.vec) \cup ToSet(query.fts)
       IN  /\ Cardinality(found) <= CandidateK => DOMAIN query.scores = found
           /\ \A c \in DOMAIN query.scores, a \in ToSet(query.answer) :
                 c \notin ToSet(query.answer) => query.scores[c] <= query.scores[a]

\* Ingestion of a document ends, whatever the gateway does.
Finishes == <>(stage \in {"done", "error"})
=============================================================================

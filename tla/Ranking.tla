------------------------------- MODULE Ranking -------------------------------
(***************************************************************************)
(* The pure parts of app/rag_retrieval.py: reciprocal_rank_fusion, and the *)
(* order _rerank_or_keep_order gives the candidates.                       *)
(***************************************************************************)
EXTENDS Integers, Sequences, FiniteSets, FiniteSetsExt, SequencesExt

CONSTANT RrfK        \* _RRF_K

ASSUME RrfAssumption == RrfK \in Nat

\* Rank of id in a list, from 1: its first place there.
RankIn(list, id) == Min({i \in DOMAIN list : list[i] = id})

\* Scores are sums of 1 / (k + rank); a pair <<n, d>> stands for n / d.
Plus(f, g) == <<f[1] * g[2] + g[1] * f[2], f[2] * g[2]>>

Greater(f, g) == f[1] * g[2] > g[1] * f[2]

Share(list, id) == IF id \in ToSet(list) THEN <<1, RrfK + RankIn(list, id)>> ELSE <<0, 1>>

\* Mutant: the second list overwrites what the first gave.
ScoreOverwritten(vec, fts, id) == IF id \in ToSet(fts) THEN Share(fts, id) ELSE Share(vec, id)

Score(vec, fts, id) == Plus(Share(vec, id), Share(fts, id))

\* sorted(..., reverse=True) is stable: the best value first, equals in the
\* order of the entries.
SortBest(entries, value) ==
    LET Before(a, b) == \/ Greater(value[a], value[b])
                        \/ ~Greater(value[b], value[a]) /\ RankIn(entries, a) < RankIn(entries, b)
        ids == ToSet(entries)
    IN  CHOOSE s \in [1 .. Cardinality(ids) -> ids] :
           \A i, j \in DOMAIN s : i < j => Before(s[i], s[j])

\* The ids enter the dict of scores in the order of the two lists, once each.
ReciprocalRankFusion(vec, fts) ==
    LET entries == vec \o fts
    IN  SortBest(entries, [id \in ToSet(entries) |-> Score(vec, fts, id)])

\* The reranker's score of each candidate, 0 for one it left out.
Reranked(candidates, scores) ==
    SortBest(candidates, [c \in ToSet(candidates) |-> <<scores[c], 1>>])
=============================================================================

------------------------------ MODULE Embedding ------------------------------
(***************************************************************************)
(* app/rag_embed.py, embed_texts: the texts go to the gateway (external)   *)
(* in batches, a few at a time, and the replies are put together in the    *)
(* order of the batches.  A vector is the number of the text it was        *)
(* computed from.                                                          *)
(***************************************************************************)
EXTENDS Integers, Sequences, FiniteSets, FiniteSetsExt, SequencesExt

CONSTANTS
    BatchSize,       \* _EMBED_BATCH_SIZE
    Concurrency      \* _EMBED_CONCURRENCY

ASSUME BatchAssumption == BatchSize \in Nat \ {0} /\ Concurrency \in Nat \ {0}

VARIABLES
    texts,       \* how many texts the call is for
    batch,       \* batch[b]: its request
    reply        \* reply[b]: the vectors of its answer

embedVars == <<texts, batch, reply>>

BatchStatus == {"waiting", "posted", "ok", "failed"}

EmbeddingTypeOK ==
    /\ texts \in Nat
    /\ DOMAIN batch = DOMAIN reply
    /\ \A b \in DOMAIN batch : batch[b] \in BatchStatus

EmbeddingInit == texts = 0 /\ batch = <<>> /\ reply = <<>>

TextsOf(b) == [k \in 1 .. Min({BatchSize, texts - (b - 1) * BatchSize}) |-> (b - 1) * BatchSize + k]

\* embed_texts is called for n texts: one task per batch.
Embed(n) ==
    /\ texts' = n
    /\ batch' = [b \in 1 .. (n + BatchSize - 1) \div BatchSize |-> "waiting"]
    /\ reply' = [b \in 1 .. (n + BatchSize - 1) \div BatchSize |-> <<>>]

With(status) == {b \in DOMAIN batch : batch[b] = status}

\* Mutant: a request that ended keeps its place.
PlaceFreeLeaking == Cardinality(DOMAIN batch) - Cardinality(With("waiting")) < Concurrency

\* The semaphore, which serves the tasks in the order they wait.
PlaceFree == Cardinality(With("posted")) < Concurrency

Post ==
    /\ With("waiting") # {} /\ PlaceFree
    /\ batch' = [batch EXCEPT ![Min(With("waiting"))] = "posted"]
    /\ UNCHANGED <<texts, reply>>

\* The gateway answers, perhaps with fewer vectors than it was sent texts.
Answered(b) ==
    /\ batch[b] = "posted"
    /\ batch' = [batch EXCEPT ![b] = "ok"]
    /\ \E n \in {Len(TextsOf(b)) - 1, Len(TextsOf(b))} :
          reply' = [reply EXCEPT ![b] = SubSeq(TextsOf(b), 1, n)]
    /\ UNCHANGED texts

\* An error, or the timeout of 60 s.
Failed(b) ==
    /\ batch[b] = "posted"
    /\ batch' = [batch EXCEPT ![b] = "failed"]
    /\ UNCHANGED <<texts, reply>>

\* The requests end in any order.
Reply(b) == Answered(b) \/ Failed(b)

\* gather returns when all are done, and raises at the first that failed, while
\* the others go on.
AllOk == With("ok") = DOMAIN batch

SomeFailed == With("failed") # {}

Vectors == FlattenSeq(reply)
=============================================================================

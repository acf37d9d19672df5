------------------------------ MODULE RagStore ------------------------------
(***************************************************************************)
(* app/rag_store.py: the four stores a document lives in, and the single   *)
(* statements the rest of the RAG code runs against them.                  *)
(*                                                                         *)
(*   documents    Postgres, one row per (owner, content_hash)              *)
(*   chunks       Postgres, the rows of each document                      *)
(*   jobs         Postgres, ingest_jobs, used as a queue                   *)
(*   points       Qdrant, one vector per chunk                             *)
(*   uploads      files in RAG_UPLOAD_DIR, named <document id>.<suffix>    *)
(*                                                                         *)
(* A chunk id (a random UUID) is modelled as <<job, ordinal>>: one job     *)
(* inserts at most one batch of chunks, so the pair is as unique as the    *)
(* UUID.  A document id is never reused: a deleted one stays "deleted".    *)
(***************************************************************************)
EXTENDS Integers, FiniteSets

CONSTANTS
    DocIds,      \* the UUIDs documents can get
    Users,       \* the owners (usernames of rag sessions)
    Contents,    \* the contents a user can upload, told apart by their hash
    Formats,     \* SUPPORTED_FORMATS; also the suffix of an accepted filename
    Extract,     \* Extract[c][f]: number of chunks content c yields when it is
                 \*   parsed as f; 0: no text found; negative: the parser raises
    Nil,         \* no document / no user / no content
    Procs,       \* the server processes, each with one worker task
    MaxJobs,     \* bound: ingest_jobs rows ever created
    MaxFailures  \* bound: calls to Postgres, Qdrant, disk or the embedding
                 \*   service that fail or lose their reply

ASSUME ExtractAssumption == Extract \in [Contents -> [Formats -> Int]]
ASSUME BoundsAssumption  == MaxJobs \in Nat /\ MaxFailures \in Nat
ASSUME NilAssumption     == Nil \notin DocIds \cup Formats

VARIABLES
    documents, chunks, points, uploads, jobs, nextJob,
    failures     \* failed calls so far

storeVars == <<documents, chunks, points, uploads, jobs, nextJob, failures>>

JobIds == 1 .. MaxJobs

ChunkIds == JobIds \X Nat

DocStatus == {"absent", "pending", "processing", "done", "error", "deleted"}

JobStatus == {"none", "queued", "running", "done", "error", "gone"}

Document == [ owner   : Users \cup {Nil},
              content : Contents \cup {Nil},
              format  : Formats \cup {Nil},
              suffix  : Formats \cup {Nil},
              status  : DocStatus,
              count   : Nat ]

Job == [ doc : DocIds \cup {Nil}, status : JobStatus, attempts : Nat ]

StoreTypeOK ==
    /\ documents \in [DocIds -> Document]
    /\ chunks \in [DocIds -> SUBSET ChunkIds]
    /\ points \in [DocIds -> SUBSET ChunkIds]
    /\ uploads \in SUBSET (DocIds \X Formats)
    /\ jobs \in [JobIds -> Job]
    /\ nextJob \in 1 .. MaxJobs + 1
    /\ failures \in Nat

NoDocument ==
    [ owner |-> Nil, content |-> Nil, format |-> Nil, suffix |-> Nil,
      status |-> "absent", count |-> 0 ]

StoreInit ==
    /\ documents = [d \in DocIds |-> NoDocument]
    /\ chunks = [d \in DocIds |-> {}]
    /\ points = [d \in DocIds |-> {}]
    /\ uploads = {}
    /\ jobs = [j \in JobIds |-> [doc |-> Nil, status |-> "none", attempts |-> 0]]
    /\ nextJob = 1
    /\ failures = 0

-----------------------------------------------------------------------------
(* What a call over the network can do to its caller: return, raise with   *)
(* nothing done, or raise although the other side has applied the call.    *)

Outcomes == {"ok", "raised", "lost"}

Applied(o) == o # "raised"

Charge(o) ==
    IF o = "ok" THEN failures' = failures
    ELSE failures < MaxFailures /\ failures' = failures + 1

-----------------------------------------------------------------------------
(* Rows of documents and chunks.                                           *)

Exists(d) == d \in DocIds /\ documents[d].status \notin {"absent", "deleted"}

\* The row an upload of content c by u conflicts with: UNIQUE (owner, content_hash).
Conflicts(u, c) ==
    {d \in DocIds : Exists(d) /\ documents[d].owner = u /\ documents[d].content = c}

\* Number of chunks document d yields: the worker parses with documents.format.
Yield(d) == Extract[documents[d].content][documents[d].format]

\* The rows one job inserts for n chunks.
Batch(j, n) == {j} \X (0 .. n - 1)

Ordinals(S) == {c[2] : c \in S}

\* INSERT INTO documents ... for a hash this owner does not have yet.
NewDocument(d, u, c, f) ==
    documents' = [documents EXCEPT ![d] =
        [owner |-> u, content |-> c, format |-> f, suffix |-> f,
         status |-> "pending", count |-> 0]]

\* Mutant: the chunk rows of the failed attempt are not purged.
ResetKeepingChunks(d, f) ==
    /\ documents' = [documents EXCEPT ![d].suffix = f,
                                      ![d].status = "pending",
                                      ![d].count = 0]
    /\ UNCHANGED chunks

\* ... ON CONFLICT DO UPDATE, and the purge of the chunk rows in the same
\* transaction.  The format column is not in the SET list.
ResetDocument(d, f) ==
    /\ documents' = [documents EXCEPT ![d].suffix = f,
                                      ![d].status = "pending",
                                      ![d].count = 0]
    /\ chunks' = [chunks EXCEPT ![d] = {}]

\* UPDATE documents SET status = s WHERE id = d, which may match no row.
SetDocumentStatus(d, s) ==
    documents' = IF Exists(d) THEN [documents EXCEPT ![d].status = s] ELSE documents

\* DELETE FROM documents, with the cascade to chunks and ingest_jobs.
DeleteRow(d) ==
    /\ documents' = [documents EXCEPT ![d].status = "deleted", ![d].count = 0]
    /\ chunks' = [chunks EXCEPT ![d] = {}]
    /\ jobs' = [j \in JobIds |->
                  IF jobs[j].doc = d THEN [jobs[j] EXCEPT !.status = "gone"] ELSE jobs[j]]

\* FOREIGN KEY (document_id) and UNIQUE (document_id, ordinal) let the batch in.
CanInsert(d, B) == Exists(d) /\ Ordinals(B) \cap Ordinals(chunks[d]) = {}

\* The transaction of insert_chunks: all the rows and chunk_count, or nothing.
InsertRows(d, B, n) ==
    /\ chunks' = [chunks EXCEPT ![d] = @ \cup B]
    /\ documents' = [documents EXCEPT ![d].count = @ + n]

UpsertPoints(d, B) == points' = [points EXCEPT ![d] = @ \cup B]

DeletePoints(d, ids) == points' = [points EXCEPT ![d] = @ \ ids]

-----------------------------------------------------------------------------
(* The ingest_jobs table.                                                  *)

EnqueueIngestJob(d) ==
    /\ jobs' = [jobs EXCEPT ![nextJob] = [doc |-> d, status |-> "queued", attempts |-> 0]]
    /\ nextJob' = nextJob + 1

\* Mutant: the queue is read without FOR UPDATE SKIP LOCKED.
ClaimableIgnoringLocks(j, locked) ==
    /\ jobs[j].status = "queued"
    /\ \A k \in JobIds : jobs[k].status = "queued" => j <= k

\* The row SELECT ... WHERE status = 'queued' ORDER BY id FOR UPDATE SKIP LOCKED
\* LIMIT 1 returns when the rows in locked are held by other transactions.
Claimable(j, locked) ==
    /\ jobs[j].status = "queued"
    /\ j \notin locked
    /\ \A k \in JobIds : jobs[k].status = "queued" /\ k \notin locked => j <= k

ClaimJob(j) ==
    jobs' = [jobs EXCEPT ![j].status = "running", ![j].attempts = @ + 1]

\* UPDATE ingest_jobs SET status = s WHERE id = j, which may match no row.
FinishJob(j, s) ==
    jobs' = IF jobs[j].status = "gone" THEN jobs ELSE [jobs EXCEPT ![j].status = s]
=============================================================================

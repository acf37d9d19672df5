------------------------------ MODULE RagWorker ------------------------------
(***************************************************************************)
(* app/rag_worker.py and ingest_document of app/rag_ingest.py: one poll    *)
(* loop per server process.  A step is what runs between two awaits, and   *)
(* the pc of a worker names the call it makes next:                        *)
(*                                                                         *)
(*   poll -> claiming -> fetch -> read -> mark -> prepare -> insert        *)
(*        -> upsert -> set_done -> finish_ok -> poll                       *)
(*                                                                         *)
(* with no_text, fail_doc, fail_job and finish_missing on the way out, and *)
(* "dead" for a task that ended with an exception.                         *)
(***************************************************************************)
EXTENDS RagStore

VARIABLE worker      \* worker[p]: its pc, its job and the row it has read

WorkerPC == {"poll", "claiming", "fetch", "read", "mark", "prepare", "no_text",
             "insert", "upsert", "set_done", "finish_ok", "fail_doc", "fail_job",
             "finish_missing", "dead"}

\* suffix and format are local copies of the row get_document returned.
Worker == [ pc     : WorkerPC,
            job    : JobIds \cup {0},
            suffix : Formats \cup {Nil},
            format : Formats \cup {Nil} ]

Polling == [pc |-> "poll", job |-> 0, suffix |-> Nil, format |-> Nil]

Dead == [Polling EXCEPT !.pc = "dead"]

WorkerTypeOK == worker \in [Procs -> Worker]

WorkerInit == worker = [p \in Procs |-> Polling]

Goto(p, l) == worker' = [worker EXCEPT ![p].pc = l]

\* Next pc of a worker whose call had outcome o.
GoOn(p, o, good, bad) == Goto(p, IF o = "ok" THEN good ELSE bad)

DocOf(p) == jobs[worker[p].job].doc

\* Rows of ingest_jobs locked by an open claim transaction.
Locked == {worker[p].job : p \in {q \in Procs : worker[q].pc = "claiming"}}

-----------------------------------------------------------------------------
\* SELECT ... FOR UPDATE SKIP LOCKED inside the transaction of claim_next_job.
LockJob(p) ==
    /\ worker[p].pc = "poll"
    /\ \E j \in JobIds :
          /\ Claimable(j, Locked)
          /\ worker' = [worker EXCEPT ![p].pc = "claiming", ![p].job = j]
    /\ UNCHANGED storeVars

\* The UPDATE and the commit.  When they raise the loop polls again; a lost
\* commit leaves a running job no worker has heard of.
CommitClaim(p, o) ==
    /\ worker[p].pc = "claiming"
    /\ Charge(o)
    /\ IF Applied(o) THEN ClaimJob(worker[p].job) ELSE UNCHANGED jobs
    /\ IF o = "ok" THEN Goto(p, "fetch") ELSE worker' = [worker EXCEPT ![p] = Polling]
    /\ UNCHANGED <<documents, chunks, points, uploads, nextJob>>

\* get_document is outside every try: an exception ends the task.
GetDocument(p, o) ==
    /\ worker[p].pc = "fetch"
    /\ o # "lost"
    /\ Charge(o)
    /\ IF o = "raised" THEN worker' = [worker EXCEPT ![p] = Dead]
       ELSE IF Exists(DocOf(p))
            THEN worker' = [worker EXCEPT ![p].pc = "read",
                                          ![p].suffix = documents[DocOf(p)].suffix,
                                          ![p].format = documents[DocOf(p)].format]
            ELSE Goto(p, "finish_missing")
    /\ UNCHANGED <<documents, chunks, points, uploads, jobs, nextJob>>

\* Mutant: return where the loop has continue.
FinishMissingAndReturn(p, o) ==
    /\ worker[p].pc = "finish_missing"
    /\ Charge(o)
    /\ IF Applied(o) THEN FinishJob(worker[p].job, "error") ELSE UNCHANGED jobs
    /\ worker' = [worker EXCEPT ![p] = Dead]
    /\ UNCHANGED <<documents, chunks, points, uploads, nextJob>>

\* finish_job for a document deleted before its job ran, also outside the try.
FinishMissing(p, o) ==
    /\ worker[p].pc = "finish_missing"
    /\ Charge(o)
    /\ IF Applied(o) THEN FinishJob(worker[p].job, "error") ELSE UNCHANGED jobs
    /\ worker' = [worker EXCEPT ![p] = IF o = "ok" THEN Polling ELSE Dead]
    /\ UNCHANGED <<documents, chunks, points, uploads, nextJob>>

\* path.read_bytes().
ReadFile(p, o) ==
    /\ worker[p].pc = "read"
    /\ o # "lost"
    /\ Charge(o)
    /\ Goto(p, IF o = "ok" /\ <<DocOf(p), worker[p].suffix>> \in uploads
               THEN "mark" ELSE "fail_job")
    /\ UNCHANGED <<documents, chunks, points, uploads, jobs, nextJob>>

MarkProcessing(p, o) ==
    /\ worker[p].pc = "mark"
    /\ Charge(o)
    /\ IF Applied(o) THEN SetDocumentStatus(DocOf(p), "processing") ELSE UNCHANGED documents
    /\ GoOn(p, o, "prepare", "fail_job")
    /\ UNCHANGED <<chunks, points, uploads, jobs, nextJob>>

\* parse, chunk_paragraphs and embed_texts: no state of the stores changes.
\* What they produce depends on the content of the file and on the format
\* column; embed_texts may also fail.
Prepare(p, o) ==
    /\ worker[p].pc = "prepare"
    /\ o # "lost"
    /\ Charge(o)
    /\ LET n == Extract[documents[DocOf(p)].content][worker[p].format]
       IN  IF n = 0 THEN o = "ok" /\ Goto(p, "no_text")
           ELSE Goto(p, IF o = "ok" /\ n > 0 THEN "insert" ELSE "fail_doc")
    /\ UNCHANGED <<documents, chunks, points, uploads, jobs, nextJob>>

\* Mutant: returns without recording why the document failed.
NoTextUnmarked(p, o) ==
    /\ worker[p].pc = "no_text"
    /\ Charge(o)
    /\ UNCHANGED documents
    /\ GoOn(p, o, "finish_ok", "fail_doc")
    /\ UNCHANGED <<chunks, points, uploads, jobs, nextJob>>

\* "No extractable text found": the document fails, the job succeeds.
NoText(p, o) ==
    /\ worker[p].pc = "no_text"
    /\ Charge(o)
    /\ IF Applied(o) THEN SetDocumentStatus(DocOf(p), "error") ELSE UNCHANGED documents
    /\ GoOn(p, o, "finish_ok", "fail_doc")
    /\ UNCHANGED <<chunks, points, uploads, jobs, nextJob>>

\* The transaction of insert_chunks.  A violated constraint raises as well.
InsertChunks(p, o) ==
    /\ worker[p].pc = "insert"
    /\ LET d == DocOf(p)
           n == Extract[documents[d].content][worker[p].format]
           B == Batch(worker[p].job, n)
       IN  IF CanInsert(d, B)
           THEN /\ Charge(o)
                /\ IF Applied(o) THEN InsertRows(d, B, n) ELSE UNCHANGED <<documents, chunks>>
                /\ GoOn(p, o, "upsert", "fail_doc")
           ELSE /\ o = "raised"
                /\ Goto(p, "fail_doc")
                /\ UNCHANGED <<documents, chunks, failures>>
    /\ UNCHANGED <<points, uploads, jobs, nextJob>>

\* The Qdrant upsert, after the rows are committed.
UpsertVectors(p, o) ==
    /\ worker[p].pc = "upsert"
    /\ Charge(o)
    /\ LET d == DocOf(p)
           n == Extract[documents[d].content][worker[p].format]
       IN  IF Applied(o) THEN UpsertPoints(d, Batch(worker[p].job, n)) ELSE UNCHANGED points
    /\ GoOn(p, o, "set_done", "fail_doc")
    /\ UNCHANGED <<documents, chunks, uploads, jobs, nextJob>>

\* Mutant: a status no reader of the column knows.
SetDoneMisspelt(p, o) ==
    /\ worker[p].pc = "set_done"
    /\ Charge(o)
    /\ IF Applied(o) THEN SetDocumentStatus(DocOf(p), "ready") ELSE UNCHANGED documents
    /\ GoOn(p, o, "finish_ok", "fail_doc")
    /\ UNCHANGED <<chunks, points, uploads, jobs, nextJob>>

SetDone(p, o) ==
    /\ worker[p].pc = "set_done"
    /\ Charge(o)
    /\ IF Applied(o) THEN SetDocumentStatus(DocOf(p), "done") ELSE UNCHANGED documents
    /\ GoOn(p, o, "finish_ok", "fail_doc")
    /\ UNCHANGED <<chunks, points, uploads, jobs, nextJob>>

\* finish_job(ok=True) is still inside the try of the loop.
FinishOk(p, o) ==
    /\ worker[p].pc = "finish_ok"
    /\ Charge(o)
    /\ IF Applied(o) THEN FinishJob(worker[p].job, "done") ELSE UNCHANGED jobs
    /\ IF o = "ok" THEN worker' = [worker EXCEPT ![p] = Polling] ELSE Goto(p, "fail_job")
    /\ UNCHANGED <<documents, chunks, points, uploads, nextJob>>

\* except of ingest_document: record the error and raise, whatever the UPDATE did.
FailDocument(p, o) ==
    /\ worker[p].pc = "fail_doc"
    /\ Charge(o)
    /\ IF Applied(o) THEN SetDocumentStatus(DocOf(p), "error") ELSE UNCHANGED documents
    /\ Goto(p, "fail_job")
    /\ UNCHANGED <<chunks, points, uploads, jobs, nextJob>>

\* except of the loop: a failure here is raised out of the task.
FailJob(p, o) ==
    /\ worker[p].pc = "fail_job"
    /\ Charge(o)
    /\ IF Applied(o) THEN FinishJob(worker[p].job, "error") ELSE UNCHANGED jobs
    /\ worker' = [worker EXCEPT ![p] = IF o = "ok" THEN Polling ELSE Dead]
    /\ UNCHANGED <<documents, chunks, points, uploads, nextJob>>

WorkerStep(p) ==
    \/ LockJob(p)
    \/ \E o \in Outcomes :
          \/ CommitClaim(p, o)    \/ GetDocument(p, o)   \/ FinishMissing(p, o)
          \/ ReadFile(p, o)       \/ MarkProcessing(p, o) \/ Prepare(p, o)
          \/ NoText(p, o)         \/ InsertChunks(p, o)  \/ UpsertVectors(p, o)
          \/ SetDone(p, o)        \/ FinishOk(p, o)      \/ FailDocument(p, o)
          \/ FailJob(p, o)
=============================================================================

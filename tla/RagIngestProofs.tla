-------------------------- MODULE RagIngestProofs --------------------------
(***************************************************************************)
(* Proofs about RagIngest, for every value of the constants.               *)
(***************************************************************************)
EXTENDS RagIngest, TLAPS

-----------------------------------------------------------------------------
(* The shape of a reachable state: what the pc of a worker or a handler    *)
(* says about its local variables and the rows they point to.              *)

Held == {"claiming", "fetch", "read", "mark", "prepare", "no_text", "insert", "upsert",
         "set_done", "finish_ok", "fail_doc", "fail_job", "finish_missing"}

Fetched == {"read", "mark", "prepare", "no_text", "insert", "upsert", "set_done", "fail_doc"}

Deleting == {"delete_row", "delete_points", "unlink"}

DocShape ==
    \A d \in DocIds : documents[d].status # "absent" =>
       /\ documents[d].content \in Contents
       /\ documents[d].format \in Formats
       /\ documents[d].suffix \in Formats

JobShape ==
    \A j \in JobIds :
       /\ j >= nextJob => jobs[j].status = "none"
       /\ jobs[j].status = "none" => jobs[j].doc = Nil
       /\ jobs[j].status # "none" =>
             jobs[j].doc \in DocIds /\ documents[jobs[j].doc].status # "absent"

WorkerOK(p) ==
    /\ worker[p].pc \in Held => worker[p].job \in JobIds
    /\ worker[p].pc = "claiming" => jobs[worker[p].job].status = "queued"
    /\ worker[p].pc \in Held \ {"claiming"} =>
          jobs[worker[p].job].status \notin {"none", "queued"}
    /\ worker[p].pc \in Fetched => worker[p].format = documents[DocOf(p)].format
    /\ worker[p].pc \in {"insert", "upsert", "set_done"} => Yield(DocOf(p)) > 0
    /\ worker[p].pc = "no_text" => Yield(DocOf(p)) = 0

WorkerShape == \A p \in Procs : WorkerOK(p)

\* No two workers hold the same job.
OneWorkerPerJob ==
    \A p, q \in Procs :
       worker[p].pc \in Held /\ worker[q].pc \in Held /\ worker[p].job = worker[q].job => p = q

HandlerOK(r) ==
    /\ Uploading(r) \/ At(r, "lookup") => handler[r].doc \in DocIds
    /\ Uploading(r) =>
          handler[r].suffix \in Formats /\ documents[handler[r].doc].status # "absent"
    /\ handler[r].pc \in Deleting =>
          /\ handler[r].doc \in DocIds
          /\ documents[handler[r].doc].status # "absent"
          /\ documents[handler[r].doc].owner = handler[r].user
    /\ handler[r].pc \in {"delete_points", "unlink"} =>
          documents[handler[r].doc].status = "deleted"

HandlerShape == \A r \in Slots : HandlerOK(r)

StoreShape == StoreTypeOK /\ DocShape /\ JobShape

Shape ==
    /\ StoreShape
    /\ WorkerTypeOK /\ WorkerShape /\ OneWorkerPerJob
    /\ RoutesTypeOK /\ HandlerShape
    /\ crashes \in Nat

\* What no step takes back: the identity of a document and of a job.
KeepsDocuments ==
    \A d \in DocIds : documents[d].status # "absent" =>
       /\ documents'[d].content = documents[d].content
       /\ documents'[d].format = documents[d].format
       /\ documents'[d].owner = documents[d].owner
       /\ documents'[d].status # "absent"
       /\ documents[d].status = "deleted" => documents'[d].status = "deleted"

KeepsJobs ==
    \A j \in JobIds : jobs[j].status # "none" =>
       /\ jobs'[j].doc = jobs[j].doc
       /\ jobs'[j].status # "none"
       /\ jobs[j].status # "queued" => jobs'[j].status # "queued"

NoNewJob ==
    \A j \in JobIds : jobs[j].status = "none" => jobs'[j] = jobs[j]

StoreStep == StoreShape' /\ KeepsDocuments /\ KeepsJobs

-----------------------------------------------------------------------------
LEMMA ShapeInit == Init => Shape
  BY BoundsAssumption, NilAssumption
  DEF Init, StoreInit, WorkerInit, RoutesInit, Shape, StoreShape, StoreTypeOK, WorkerTypeOK,
      RoutesTypeOK, DocShape, JobShape, WorkerShape, WorkerOK, OneWorkerPerJob, HandlerShape,
      HandlerOK, JobIds, ChunkIds, NoDocument, Document, Job, Worker, Handler, Polling, Idle,
      DocStatus, JobStatus, WorkerPC, HandlerPC, Held, Fetched, Deleting, Uploading, At

-----------------------------------------------------------------------------
(* The statements of RagStore keep the shape of the rows they touch.       *)

LEMMA ChargeType ==
  ASSUME failures \in Nat, NEW o, Charge(o)
  PROVE  failures' \in Nat
  BY DEF Charge

LEMMA SetDocumentStatusShape ==
  ASSUME StoreShape, NEW d, NEW s \in {"processing", "done", "error"}, SetDocumentStatus(d, s)
  PROVE  documents' \in [DocIds -> Document] /\ DocShape' /\ KeepsDocuments
  BY DEF StoreShape, StoreTypeOK, DocShape, SetDocumentStatus, Exists, Document, DocStatus, KeepsDocuments

LEMMA InsertRowsShape ==
  ASSUME StoreShape, NEW d \in DocIds, NEW j \in JobIds, NEW n \in Nat,
         InsertRows(d, Batch(j, n), n)
  PROVE  /\ documents' \in [DocIds -> Document] /\ DocShape' /\ KeepsDocuments
         /\ chunks' \in [DocIds -> SUBSET ChunkIds]
<1>1. Batch(j, n) \in SUBSET ChunkIds
  BY DEF Batch, ChunkIds
<1>2. chunks' \in [DocIds -> SUBSET ChunkIds]
  BY <1>1 DEF StoreShape, StoreTypeOK, InsertRows
<1>3. documents' \in [DocIds -> Document] /\ DocShape' /\ KeepsDocuments
  BY DEF StoreShape, StoreTypeOK, DocShape, InsertRows, Document, KeepsDocuments
<1> QED
  BY <1>2, <1>3

LEMMA SameDocumentsShape ==
  ASSUME StoreShape, documents' = documents
  PROVE  documents' \in [DocIds -> Document] /\ DocShape' /\ KeepsDocuments
  BY DEF StoreShape, StoreTypeOK, DocShape, KeepsDocuments

LEMMA ClaimJobShape ==
  ASSUME StoreShape, NEW j \in JobIds, jobs[j].status # "none", ClaimJob(j)
  PROVE  jobs' \in [JobIds -> Job] /\ KeepsJobs /\ NoNewJob
  BY DEF StoreShape, StoreTypeOK, ClaimJob, Job, JobStatus, KeepsJobs, NoNewJob

LEMMA FinishJobShape ==
  ASSUME StoreShape, NEW j \in JobIds, jobs[j].status # "none",
         NEW s \in {"done", "error"}, FinishJob(j, s)
  PROVE  jobs' \in [JobIds -> Job] /\ KeepsJobs /\ NoNewJob
  BY DEF StoreShape, StoreTypeOK, FinishJob, Job, JobStatus, KeepsJobs, NoNewJob

LEMMA SameJobsShape ==
  ASSUME StoreShape, jobs' = jobs
  PROVE  jobs' \in [JobIds -> Job] /\ KeepsJobs /\ NoNewJob
  BY DEF StoreShape, StoreTypeOK, KeepsJobs, NoNewJob

\* A step that creates no job is in shape when its parts are.
LEMMA StoreStepParts ==
  ASSUME StoreShape, NoNewJob, KeepsJobs, KeepsDocuments, DocShape',
         documents' \in [DocIds -> Document],
         chunks' \in [DocIds -> SUBSET ChunkIds],
         points' \in [DocIds -> SUBSET ChunkIds],
         uploads' \in SUBSET (DocIds \X Formats),
         jobs' \in [JobIds -> Job],
         nextJob' = nextJob, failures' \in Nat
  PROVE  StoreStep
<1>1. JobShape'
  BY DEF StoreShape, StoreTypeOK, JobShape, KeepsDocuments, KeepsJobs, NoNewJob, Job
<1> QED
  BY <1>1 DEF StoreStep, StoreShape, StoreTypeOK, JobIds, ChunkIds

-----------------------------------------------------------------------------
(* The worker.                                                             *)

\* The job of a worker past the poll exists, and so did its document.
LEMMA HeldJob ==
  ASSUME Shape, NEW p \in Procs, worker[p].pc \in Held
  PROVE  /\ worker[p].job \in JobIds
         /\ jobs[worker[p].job].status # "none"
         /\ DocOf(p) \in DocIds
         /\ documents[DocOf(p)].status # "absent"
  BY DEF Shape, StoreShape, WorkerShape, WorkerOK, JobShape, DocOf, Held

LEMMA WorkerStoreStep ==
  ASSUME Shape, NEW p \in Procs, WorkerStep(p)
  PROVE  StoreStep
<1> USE DEF Shape
<1>1. CASE LockJob(p)
  <2>1. UNCHANGED storeVars
    BY <1>1 DEF LockJob
  <2> QED
    BY <2>1, StoreStepParts, SameDocumentsShape, SameJobsShape DEF storeVars, StoreShape, StoreTypeOK
<1>2. ASSUME NEW o \in Outcomes, CommitClaim(p, o)
      PROVE  StoreStep
  <2>1. worker[p].pc \in Held /\ failures' \in Nat /\ UNCHANGED <<uploads, nextJob>>
    BY <1>2, ChargeType DEF CommitClaim, Held, StoreShape, StoreTypeOK
  <2>2. documents' \in [DocIds -> Document] /\ DocShape' /\ KeepsDocuments
    BY <1>2, SameDocumentsShape DEF CommitClaim
  <2>3. chunks' \in [DocIds -> SUBSET ChunkIds]
    BY <1>2 DEF CommitClaim, StoreShape, StoreTypeOK
  <2>4. points' \in [DocIds -> SUBSET ChunkIds]
    BY <1>2 DEF CommitClaim, StoreShape, StoreTypeOK
  <2>5. jobs' \in [JobIds -> Job] /\ KeepsJobs /\ NoNewJob
    BY <1>2, <2>1, HeldJob, SameJobsShape, ClaimJobShape DEF CommitClaim
  <2>6. uploads' \in SUBSET (DocIds \X Formats)
    BY <2>1 DEF StoreShape, StoreTypeOK
  <2> QED
    BY <2>1, <2>2, <2>3, <2>4, <2>5, <2>6, StoreStepParts
<1>3. ASSUME NEW o \in Outcomes, GetDocument(p, o)
      PROVE  StoreStep
  <2>1. worker[p].pc \in Held /\ failures' \in Nat /\ UNCHANGED <<uploads, nextJob>>
    BY <1>3, ChargeType DEF GetDocument, Held, StoreShape, StoreTypeOK
  <2>2. documents' \in [DocIds -> Document] /\ DocShape' /\ KeepsDocuments
    BY <1>3, SameDocumentsShape DEF GetDocument
  <2>3. chunks' \in [DocIds -> SUBSET ChunkIds]
    BY <1>3 DEF GetDocument, StoreShape, StoreTypeOK
  <2>4. points' \in [DocIds -> SUBSET ChunkIds]
    BY <1>3 DEF GetDocument, StoreShape, StoreTypeOK
  <2>5. jobs' \in [JobIds -> Job] /\ KeepsJobs /\ NoNewJob
    BY <1>3, <2>1, HeldJob, SameJobsShape DEF GetDocument
  <2>6. uploads' \in SUBSET (DocIds \X Formats)
    BY <2>1 DEF StoreShape, StoreTypeOK
  <2> QED
    BY <2>1, <2>2, <2>3, <2>4, <2>5, <2>6, StoreStepParts
<1>4. ASSUME NEW o \in Outcomes, FinishMissing(p, o)
      PROVE  StoreStep
  <2>1. worker[p].pc \in Held /\ failures' \in Nat /\ UNCHANGED <<uploads, nextJob>>
    BY <1>4, ChargeType DEF FinishMissing, Held, StoreShape, StoreTypeOK
  <2>2. documents' \in [DocIds -> Document] /\ DocShape' /\ KeepsDocuments
    BY <1>4, SameDocumentsShape DEF FinishMissing
  <2>3. chunks' \in [DocIds -> SUBSET ChunkIds]
    BY <1>4 DEF FinishMissing, StoreShape, StoreTypeOK
  <2>4. points' \in [DocIds -> SUBSET ChunkIds]
    BY <1>4 DEF FinishMissing, StoreShape, StoreTypeOK
  <2>5. jobs' \in [JobIds -> Job] /\ KeepsJobs /\ NoNewJob
    BY <1>4, <2>1, HeldJob, SameJobsShape, FinishJobShape DEF FinishMissing
  <2>6. uploads' \in SUBSET (DocIds \X Formats)
    BY <2>1 DEF StoreShape, StoreTypeOK
  <2> QED
    BY <2>1, <2>2, <2>3, <2>4, <2>5, <2>6, StoreStepParts
<1>5. ASSUME NEW o \in Outcomes, ReadFile(p, o)
      PROVE  StoreStep
  <2>1. worker[p].pc \in Held /\ failures' \in Nat /\ UNCHANGED <<uploads, nextJob>>
    BY <1>5, ChargeType DEF ReadFile, Held, StoreShape, StoreTypeOK
  <2>2. documents' \in [DocIds -> Document] /\ DocShape' /\ KeepsDocuments
    BY <1>5, SameDocumentsShape DEF ReadFile
  <2>3. chunks' \in [DocIds -> SUBSET ChunkIds]
    BY <1>5 DEF ReadFile, StoreShape, StoreTypeOK
  <2>4. points' \in [DocIds -> SUBSET ChunkIds]
    BY <1>5 DEF ReadFile, StoreShape, StoreTypeOK
  <2>5. jobs' \in [JobIds -> Job] /\ KeepsJobs /\ NoNewJob
    BY <1>5, <2>1, HeldJob, SameJobsShape DEF ReadFile
  <2>6. uploads' \in SUBSET (DocIds \X Formats)
    BY <2>1 DEF StoreShape, StoreTypeOK
  <2> QED
    BY <2>1, <2>2, <2>3, <2>4, <2>5, <2>6, StoreStepParts
<1>6. ASSUME NEW o \in Outcomes, MarkProcessing(p, o)
      PROVE  StoreStep
  <2>1. worker[p].pc \in Held /\ failures' \in Nat /\ UNCHANGED <<uploads, nextJob>>
    BY <1>6, ChargeType DEF MarkProcessing, Held, StoreShape, StoreTypeOK
  <2>2. documents' \in [DocIds -> Document] /\ DocShape' /\ KeepsDocuments
    BY <1>6, SameDocumentsShape, SetDocumentStatusShape DEF MarkProcessing
  <2>3. chunks' \in [DocIds -> SUBSET ChunkIds]
    BY <1>6 DEF MarkProcessing, StoreShape, StoreTypeOK
  <2>4. points' \in [DocIds -> SUBSET ChunkIds]
    BY <1>6 DEF MarkProcessing, StoreShape, StoreTypeOK
  <2>5. jobs' \in [JobIds -> Job] /\ KeepsJobs /\ NoNewJob
    BY <1>6, <2>1, HeldJob, SameJobsShape DEF MarkProcessing
  <2>6. uploads' \in SUBSET (DocIds \X Formats)
    BY <2>1 DEF StoreShape, StoreTypeOK
  <2> QED
    BY <2>1, <2>2, <2>3, <2>4, <2>5, <2>6, StoreStepParts
<1>7. ASSUME NEW o \in Outcomes, Prepare(p, o)
      PROVE  StoreStep
  <2>1. worker[p].pc \in Held /\ failures' \in Nat /\ UNCHANGED <<uploads, nextJob>>
    BY <1>7, ChargeType DEF Prepare, Held, StoreShape, StoreTypeOK
  <2>2. documents' \in [DocIds -> Document] /\ DocShape' /\ KeepsDocuments
    BY <1>7, SameDocumentsShape DEF Prepare
  <2>3. chunks' \in [DocIds -> SUBSET ChunkIds]
    BY <1>7 DEF Prepare, StoreShape, StoreTypeOK
  <2>4. points' \in [DocIds -> SUBSET ChunkIds]
    BY <1>7 DEF Prepare, StoreShape, StoreTypeOK
  <2>5. jobs' \in [JobIds -> Job] /\ KeepsJobs /\ NoNewJob
    BY <1>7, <2>1, HeldJob, SameJobsShape DEF Prepare
  <2>6. uploads' \in SUBSET (DocIds \X Formats)
    BY <2>1 DEF StoreShape, StoreTypeOK
  <2> QED
    BY <2>1, <2>2, <2>3, <2>4, <2>5, <2>6, StoreStepParts
<1>8. ASSUME NEW o \in Outcomes, NoText(p, o)
      PROVE  StoreStep
  <2>1. worker[p].pc \in Held /\ failures' \in Nat /\ UNCHANGED <<uploads, nextJob>>
    BY <1>8, ChargeType DEF NoText, Held, StoreShape, StoreTypeOK
  <2>2. documents' \in [DocIds -> Document] /\ DocShape' /\ KeepsDocuments
    BY <1>8, SameDocumentsShape, SetDocumentStatusShape DEF NoText
  <2>3. chunks' \in [DocIds -> SUBSET ChunkIds]
    BY <1>8 DEF NoText, StoreShape, StoreTypeOK
  <2>4. points' \in [DocIds -> SUBSET ChunkIds]
    BY <1>8 DEF NoText, StoreShape, StoreTypeOK
  <2>5. jobs' \in [JobIds -> Job] /\ KeepsJobs /\ NoNewJob
    BY <1>8, <2>1, HeldJob, SameJobsShape DEF NoText
  <2>6. uploads' \in SUBSET (DocIds \X Formats)
    BY <2>1 DEF StoreShape, StoreTypeOK
  <2> QED
    BY <2>1, <2>2, <2>3, <2>4, <2>5, <2>6, StoreStepParts
<1>9. ASSUME NEW o \in Outcomes, InsertChunks(p, o)
      PROVE  StoreStep
  <2>1. worker[p].pc \in Held /\ failures' \in Nat /\ UNCHANGED <<uploads, nextJob>>
    BY <1>9, ChargeType DEF InsertChunks, Held, StoreShape, StoreTypeOK
  <2>2. documents' \in [DocIds -> Document] /\ DocShape' /\ KeepsDocuments
        /\ chunks' \in [DocIds -> SUBSET ChunkIds]
    <3>1. CASE UNCHANGED <<documents, chunks>>
      BY <3>1, SameDocumentsShape DEF StoreShape, StoreTypeOK
    <3>2. CASE ~ UNCHANGED <<documents, chunks>>
      <4> DEFINE n == Extract[documents[DocOf(p)].content][worker[p].format]
      <4>1. InsertRows(DocOf(p), Batch(worker[p].job, n), n)
        BY <1>9, <3>2 DEF InsertChunks
      <4>2. n \in Nat
        BY <1>9, <2>1, HeldJob, ExtractAssumption
        DEF InsertChunks, WorkerShape, WorkerOK, Fetched, Yield, StoreShape, DocShape
      <4>3. worker[p].job \in JobIds /\ DocOf(p) \in DocIds
        BY <2>1, HeldJob
      <4> QED
        BY <4>1, <4>2, <4>3, InsertRowsShape
    <3> QED
      BY <3>1, <3>2
  <2>4. points' \in [DocIds -> SUBSET ChunkIds]
    BY <1>9 DEF InsertChunks, StoreShape, StoreTypeOK
  <2>5. jobs' \in [JobIds -> Job] /\ KeepsJobs /\ NoNewJob
    BY <1>9, <2>1, HeldJob, SameJobsShape DEF InsertChunks
  <2>6. uploads' \in SUBSET (DocIds \X Formats)
    BY <2>1 DEF StoreShape, StoreTypeOK
  <2> QED
    BY <2>1, <2>2, <2>4, <2>5, <2>6, StoreStepParts
<1>10. ASSUME NEW o \in Outcomes, UpsertVectors(p, o)
      PROVE  StoreStep
  <2>1. worker[p].pc \in Held /\ failures' \in Nat /\ UNCHANGED <<uploads, nextJob>>
    BY <1>10, ChargeType DEF UpsertVectors, Held, StoreShape, StoreTypeOK
  <2>2. documents' \in [DocIds -> Document] /\ DocShape' /\ KeepsDocuments
    BY <1>10, SameDocumentsShape DEF UpsertVectors
  <2>3. chunks' \in [DocIds -> SUBSET ChunkIds]
    BY <1>10 DEF UpsertVectors, StoreShape, StoreTypeOK
  <2>4. points' \in [DocIds -> SUBSET ChunkIds]
    <3>1. Batch(worker[p].job, Extract[documents[DocOf(p)].content][worker[p].format])
             \in SUBSET ChunkIds
      BY <2>1, HeldJob DEF Batch, ChunkIds
    <3> QED
      BY <1>10, <3>1 DEF UpsertVectors, UpsertPoints, StoreShape, StoreTypeOK
  <2>5. jobs' \in [JobIds -> Job] /\ KeepsJobs /\ NoNewJob
    BY <1>10, <2>1, HeldJob, SameJobsShape DEF UpsertVectors
  <2>6. uploads' \in SUBSET (DocIds \X Formats)
    BY <2>1 DEF StoreShape, StoreTypeOK
  <2> QED
    BY <2>1, <2>2, <2>3, <2>4, <2>5, <2>6, StoreStepParts
<1>11. ASSUME NEW o \in Outcomes, SetDone(p, o)
      PROVE  StoreStep
  <2>1. worker[p].pc \in Held /\ failures' \in Nat /\ UNCHANGED <<uploads, nextJob>>
    BY <1>11, ChargeType DEF SetDone, Held, StoreShape, StoreTypeOK
  <2>2. documents' \in [DocIds -> Document] /\ DocShape' /\ KeepsDocuments
    BY <1>11, SameDocumentsShape, SetDocumentStatusShape DEF SetDone
  <2>3. chunks' \in [DocIds -> SUBSET ChunkIds]
    BY <1>11 DEF SetDone, StoreShape, StoreTypeOK
  <2>4. points' \in [DocIds -> SUBSET ChunkIds]
    BY <1>11 DEF SetDone, StoreShape, StoreTypeOK
  <2>5. jobs' \in [JobIds -> Job] /\ KeepsJobs /\ NoNewJob
    BY <1>11, <2>1, HeldJob, SameJobsShape DEF SetDone
  <2>6. uploads' \in SUBSET (DocIds \X Formats)
    BY <2>1 DEF StoreShape, StoreTypeOK
  <2> QED
    BY <2>1, <2>2, <2>3, <2>4, <2>5, <2>6, StoreStepParts
<1>12. ASSUME NEW o \in Outcomes, FinishOk(p, o)
      PROVE  StoreStep
  <2>1. worker[p].pc \in Held /\ failures' \in Nat /\ UNCHANGED <<uploads, nextJob>>
    BY <1>12, ChargeType DEF FinishOk, Held, StoreShape, StoreTypeOK
  <2>2. documents' \in [DocIds -> Document] /\ DocShape' /\ KeepsDocuments
    BY <1>12, SameDocumentsShape DEF FinishOk
  <2>3. chunks' \in [DocIds -> SUBSET ChunkIds]
    BY <1>12 DEF FinishOk, StoreShape, StoreTypeOK
  <2>4. points' \in [DocIds -> SUBSET ChunkIds]
    BY <1>12 DEF FinishOk, StoreShape, StoreTypeOK
  <2>5. jobs' \in [JobIds -> Job] /\ KeepsJobs /\ NoNewJob
    BY <1>12, <2>1, HeldJob, SameJobsShape, FinishJobShape DEF FinishOk
  <2>6. uploads' \in SUBSET (DocIds \X Formats)
    BY <2>1 DEF StoreShape, StoreTypeOK
  <2> QED
    BY <2>1, <2>2, <2>3, <2>4, <2>5, <2>6, StoreStepParts
<1>13. ASSUME NEW o \in Outcomes, FailDocument(p, o)
      PROVE  StoreStep
  <2>1. worker[p].pc \in Held /\ failures' \in Nat /\ UNCHANGED <<uploads, nextJob>>
    BY <1>13, ChargeType DEF FailDocument, Held, StoreShape, StoreTypeOK
  <2>2. documents' \in [DocIds -> Document] /\ DocShape' /\ KeepsDocuments
    BY <1>13, SameDocumentsShape, SetDocumentStatusShape DEF FailDocument
  <2>3. chunks' \in [DocIds -> SUBSET ChunkIds]
    BY <1>13 DEF FailDocument, StoreShape, StoreTypeOK
  <2>4. points' \in [DocIds -> SUBSET ChunkIds]
    BY <1>13 DEF FailDocument, StoreShape, StoreTypeOK
  <2>5. jobs' \in [JobIds -> Job] /\ KeepsJobs /\ NoNewJob
    BY <1>13, <2>1, HeldJob, SameJobsShape DEF FailDocument
  <2>6. uploads' \in SUBSET (DocIds \X Formats)
    BY <2>1 DEF StoreShape, StoreTypeOK
  <2> QED
    BY <2>1, <2>2, <2>3, <2>4, <2>5, <2>6, StoreStepParts
<1>14. ASSUME NEW o \in Outcomes, FailJob(p, o)
      PROVE  StoreStep
  <2>1. worker[p].pc \in Held /\ failures' \in Nat /\ UNCHANGED <<uploads, nextJob>>
    BY <1>14, ChargeType DEF FailJob, Held, StoreShape, StoreTypeOK
  <2>2. documents' \in [DocIds -> Document] /\ DocShape' /\ KeepsDocuments
    BY <1>14, SameDocumentsShape DEF FailJob
  <2>3. chunks' \in [DocIds -> SUBSET ChunkIds]
    BY <1>14 DEF FailJob, StoreShape, StoreTypeOK
  <2>4. points' \in [DocIds -> SUBSET ChunkIds]
    BY <1>14 DEF FailJob, StoreShape, StoreTypeOK
  <2>5. jobs' \in [JobIds -> Job] /\ KeepsJobs /\ NoNewJob
    BY <1>14, <2>1, HeldJob, SameJobsShape, FinishJobShape DEF FailJob
  <2>6. uploads' \in SUBSET (DocIds \X Formats)
    BY <2>1 DEF StoreShape, StoreTypeOK
  <2> QED
    BY <2>1, <2>2, <2>3, <2>4, <2>5, <2>6, StoreStepParts
<1> QED
  BY <1>1, <1>2, <1>3, <1>4, <1>5, <1>6, <1>7, <1>8, <1>9, <1>10, <1>11, <1>12, <1>13, <1>14 DEF WorkerStep

\* A step of worker p changes its own pc and, in jobs, at most its own job.
WorkerMove(p) ==
    /\ worker' \in [Procs -> Worker]
    /\ \A q \in Procs \ {p} : worker'[q] = worker[q]
    /\ \A j \in JobIds :
          jobs'[j] = jobs[j] \/ (worker[p].pc \in Held /\ worker[p].job = j)
    /\ worker'[p].pc \in Held =>
          \/ worker[p].pc \in Held /\ worker'[p].job = worker[p].job
          \/ worker'[p].job \notin Locked /\ jobs[worker'[p].job].status = "queued"

LEMMA GotoMoves ==
  ASSUME WorkerTypeOK, NEW p \in Procs, NEW l \in WorkerPC, Goto(p, l)
  PROVE  /\ worker' \in [Procs -> Worker]
         /\ \A q \in Procs \ {p} : worker'[q] = worker[q]
         /\ worker'[p] = [worker[p] EXCEPT !.pc = l]
  BY DEF WorkerTypeOK, Goto, Worker

LEMMA PutMoves ==
  ASSUME WorkerTypeOK, NEW p \in Procs, NEW w \in Worker, worker' = [worker EXCEPT ![p] = w]
  PROVE  worker' \in [Procs -> Worker] /\ \A q \in Procs \ {p} : worker'[q] = worker[q]
  BY DEF WorkerTypeOK

LEMMA EndStates == Polling \in Worker /\ Dead \in Worker
  BY DEF Polling, Dead, Worker, WorkerPC

LEMMA WorkerMoves ==
  ASSUME Shape, NEW p \in Procs, WorkerStep(p)
  PROVE  WorkerMove(p)
<1> USE DEF Shape
<1>1. CASE LockJob(p)
  <2>1. PICK j \in JobIds : /\ Claimable(j, Locked)
                            /\ worker' = [worker EXCEPT ![p].pc = "claiming", ![p].job = j]
    BY <1>1 DEF LockJob
  <2>2. worker' \in [Procs -> Worker] /\ \A q \in Procs \ {p} : worker'[q] = worker[q]
    BY <2>1 DEF WorkerTypeOK, Worker, WorkerPC
  <2>3. worker'[p].job = j
    BY <2>1 DEF WorkerTypeOK, Worker
  <2>4. jobs' = jobs
    BY <1>1 DEF LockJob, storeVars
  <2> QED
    BY <2>1, <2>2, <2>3, <2>4 DEF WorkerMove, Claimable
<1>2. ASSUME NEW o \in Outcomes, CommitClaim(p, o)
      PROVE  WorkerMove(p)
  <2>1. worker' \in [Procs -> Worker] /\ \A q \in Procs \ {p} : worker'[q] = worker[q]
    <3>1. CASE o = "ok"
      <4>1. Goto(p, "fetch")
        BY <1>2, <3>1 DEF CommitClaim
      <4> QED
        BY <4>1, GotoMoves DEF WorkerPC
    <3>2. CASE o # "ok"
      <4>1. worker' = [worker EXCEPT ![p] = Polling]
        BY <1>2, <3>2 DEF CommitClaim
      <4> QED
        BY <4>1, PutMoves, EndStates
    <3> QED
      BY <3>1, <3>2
  <2>2. worker[p].pc \in Held /\ (worker'[p].pc \in Held => worker'[p].job = worker[p].job)
    BY <1>2 DEF CommitClaim, Goto, GoOn, Polling, Dead, WorkerTypeOK, Worker, Held
  <2>3. \A j \in JobIds : jobs'[j] = jobs[j] \/ worker[p].job = j
    BY <1>2 DEF CommitClaim, ClaimJob, StoreShape, StoreTypeOK
  <2> QED
    BY <2>1, <2>2, <2>3 DEF WorkerMove
<1>3. ASSUME NEW o \in Outcomes, GetDocument(p, o)
      PROVE  WorkerMove(p)
  <2>1. worker' \in [Procs -> Worker] /\ \A q \in Procs \ {p} : worker'[q] = worker[q]
    <3>1. CASE o = "raised"
      <4>1. worker' = [worker EXCEPT ![p] = Dead]
        BY <1>3, <3>1 DEF GetDocument
      <4> QED
        BY <4>1, PutMoves, EndStates
    <3>2. CASE o # "raised" /\ ~Exists(DocOf(p))
      <4>1. Goto(p, "finish_missing")
        BY <1>3, <3>2 DEF GetDocument
      <4> QED
        BY <4>1, GotoMoves DEF WorkerPC
    <3>3. CASE o # "raised" /\ Exists(DocOf(p))
      <4> DEFINE row == documents[DocOf(p)]
      <4>1. row.suffix \in Formats \cup {Nil} /\ row.format \in Formats \cup {Nil}
        BY <3>3 DEF Exists, StoreShape, StoreTypeOK, Document
      <4> DEFINE w == [worker[p] EXCEPT !.pc = "read", !.suffix = row.suffix, !.format = row.format]
      <4>2. worker' = [worker EXCEPT ![p] = w]
        BY <1>3, <3>3 DEF GetDocument, WorkerTypeOK
      <4>3. worker[p] \in Worker
        BY DEF WorkerTypeOK
      <4> HIDE DEF row
      <4>4. w \in Worker
        BY <4>1, <4>3 DEF Worker, WorkerPC
      <4> HIDE DEF w
      <4> QED
        BY <4>2, <4>4, PutMoves
    <3> QED
      BY <3>1, <3>2, <3>3
  <2>2. worker[p].pc \in Held /\ (worker'[p].pc \in Held => worker'[p].job = worker[p].job)
    BY <1>3 DEF GetDocument, Goto, GoOn, Polling, Dead, WorkerTypeOK, Worker, Held
  <2>3. \A j \in JobIds : jobs'[j] = jobs[j] \/ worker[p].job = j
    BY <1>3 DEF GetDocument, StoreShape, StoreTypeOK
  <2> QED
    BY <2>1, <2>2, <2>3 DEF WorkerMove
<1>4. ASSUME NEW o \in Outcomes, FinishMissing(p, o)
      PROVE  WorkerMove(p)
  <2>1. worker' \in [Procs -> Worker] /\ \A q \in Procs \ {p} : worker'[q] = worker[q]
    <3> DEFINE w == IF o = "ok" THEN Polling ELSE Dead
    <3>1. worker' = [worker EXCEPT ![p] = w]
      BY <1>4 DEF FinishMissing
    <3>2. w \in Worker
      BY EndStates
    <3> HIDE DEF w
    <3> QED
      BY <3>1, <3>2, PutMoves
  <2>2. worker[p].pc \in Held /\ (worker'[p].pc \in Held => worker'[p].job = worker[p].job)
    BY <1>4 DEF FinishMissing, Goto, GoOn, Polling, Dead, WorkerTypeOK, Worker, Held
  <2>3. \A j \in JobIds : jobs'[j] = jobs[j] \/ worker[p].job = j
    BY <1>4 DEF FinishMissing, FinishJob, StoreShape, StoreTypeOK
  <2> QED
    BY <2>1, <2>2, <2>3 DEF WorkerMove
<1>5. ASSUME NEW o \in Outcomes, ReadFile(p, o)
      PROVE  WorkerMove(p)
  <2>1. \E l \in WorkerPC : Goto(p, l)
    BY <1>5 DEF ReadFile, GoOn, WorkerPC
  <2>2. worker[p].pc \in Held /\ jobs' = jobs
    BY <1>5 DEF ReadFile, Held
  <2> QED
    BY <2>1, <2>2, GotoMoves DEF WorkerMove, WorkerTypeOK, Worker
<1>6. ASSUME NEW o \in Outcomes, MarkProcessing(p, o)
      PROVE  WorkerMove(p)
  <2>1. \E l \in WorkerPC : Goto(p, l)
    BY <1>6 DEF MarkProcessing, GoOn, WorkerPC
  <2>2. worker[p].pc \in Held /\ jobs' = jobs
    BY <1>6 DEF MarkProcessing, Held
  <2> QED
    BY <2>1, <2>2, GotoMoves DEF WorkerMove, WorkerTypeOK, Worker
<1>7. ASSUME NEW o \in Outcomes, Prepare(p, o)
      PROVE  WorkerMove(p)
  <2>1. \E l \in WorkerPC : Goto(p, l)
    BY <1>7 DEF Prepare, GoOn, WorkerPC
  <2>2. worker[p].pc \in Held /\ jobs' = jobs
    BY <1>7 DEF Prepare, Held
  <2> QED
    BY <2>1, <2>2, GotoMoves DEF WorkerMove, WorkerTypeOK, Worker
<1>8. ASSUME NEW o \in Outcomes, NoText(p, o)
      PROVE  WorkerMove(p)
  <2>1. \E l \in WorkerPC : Goto(p, l)
    BY <1>8 DEF NoText, GoOn, WorkerPC
  <2>2. worker[p].pc \in Held /\ jobs' = jobs
    BY <1>8 DEF NoText, Held
  <2> QED
    BY <2>1, <2>2, GotoMoves DEF WorkerMove, WorkerTypeOK, Worker
<1>9. ASSUME NEW o \in Outcomes, InsertChunks(p, o)
      PROVE  WorkerMove(p)
  <2>1. \E l \in WorkerPC : Goto(p, l)
    BY <1>9 DEF InsertChunks, GoOn, WorkerPC
  <2>2. worker[p].pc \in Held /\ jobs' = jobs
    BY <1>9 DEF InsertChunks, Held
  <2> QED
    BY <2>1, <2>2, GotoMoves DEF WorkerMove, WorkerTypeOK, Worker
<1>10. ASSUME NEW o \in Outcomes, UpsertVectors(p, o)
      PROVE  WorkerMove(p)
  <2>1. \E l \in WorkerPC : Goto(p, l)
    BY <1>10 DEF UpsertVectors, GoOn, WorkerPC
  <2>2. worker[p].pc \in Held /\ jobs' = jobs
    BY <1>10 DEF UpsertVectors, Held
  <2> QED
    BY <2>1, <2>2, GotoMoves DEF WorkerMove, WorkerTypeOK, Worker
<1>11. ASSUME NEW o \in Outcomes, SetDone(p, o)
      PROVE  WorkerMove(p)
  <2>1. \E l \in WorkerPC : Goto(p, l)
    BY <1>11 DEF SetDone, GoOn, WorkerPC
  <2>2. worker[p].pc \in Held /\ jobs' = jobs
    BY <1>11 DEF SetDone, Held
  <2> QED
    BY <2>1, <2>2, GotoMoves DEF WorkerMove, WorkerTypeOK, Worker
<1>12. ASSUME NEW o \in Outcomes, FinishOk(p, o)
      PROVE  WorkerMove(p)
  <2>1. worker' \in [Procs -> Worker] /\ \A q \in Procs \ {p} : worker'[q] = worker[q]
    <3>1. CASE o = "ok"
      <4>1. worker' = [worker EXCEPT ![p] = Polling]
        BY <1>12, <3>1 DEF FinishOk
      <4> QED
        BY <4>1, PutMoves, EndStates
    <3>2. CASE o # "ok"
      <4>1. Goto(p, "fail_job")
        BY <1>12, <3>2 DEF FinishOk
      <4> QED
        BY <4>1, GotoMoves DEF WorkerPC
    <3> QED
      BY <3>1, <3>2
  <2>2. worker[p].pc \in Held /\ (worker'[p].pc \in Held => worker'[p].job = worker[p].job)
    BY <1>12 DEF FinishOk, Goto, GoOn, Polling, Dead, WorkerTypeOK, Worker, Held
  <2>3. \A j \in JobIds : jobs'[j] = jobs[j] \/ worker[p].job = j
    BY <1>12 DEF FinishOk, FinishJob, StoreShape, StoreTypeOK
  <2> QED
    BY <2>1, <2>2, <2>3 DEF WorkerMove
<1>13. ASSUME NEW o \in Outcomes, FailDocument(p, o)
      PROVE  WorkerMove(p)
  <2>1. \E l \in WorkerPC : Goto(p, l)
    BY <1>13 DEF FailDocument, GoOn, WorkerPC
  <2>2. worker[p].pc \in Held /\ jobs' = jobs
    BY <1>13 DEF FailDocument, Held
  <2> QED
    BY <2>1, <2>2, GotoMoves DEF WorkerMove, WorkerTypeOK, Worker
<1>14. ASSUME NEW o \in Outcomes, FailJob(p, o)
      PROVE  WorkerMove(p)
  <2>1. worker' \in [Procs -> Worker] /\ \A q \in Procs \ {p} : worker'[q] = worker[q]
    <3> DEFINE w == IF o = "ok" THEN Polling ELSE Dead
    <3>1. worker' = [worker EXCEPT ![p] = w]
      BY <1>14 DEF FailJob
    <3>2. w \in Worker
      BY EndStates
    <3> HIDE DEF w
    <3> QED
      BY <3>1, <3>2, PutMoves
  <2>2. worker[p].pc \in Held /\ (worker'[p].pc \in Held => worker'[p].job = worker[p].job)
    BY <1>14 DEF FailJob, Goto, GoOn, Polling, Dead, WorkerTypeOK, Worker, Held
  <2>3. \A j \in JobIds : jobs'[j] = jobs[j] \/ worker[p].job = j
    BY <1>14 DEF FailJob, FinishJob, StoreShape, StoreTypeOK
  <2> QED
    BY <2>1, <2>2, <2>3 DEF WorkerMove
<1> QED
  BY <1>1, <1>2, <1>3, <1>4, <1>5, <1>6, <1>7, <1>8, <1>9, <1>10, <1>11, <1>12, <1>13, <1>14 DEF WorkerStep

\* A worker that does not move stays in shape: what it relies on is not taken back.
LEMMA OtherWorkerOK ==
  ASSUME Shape, StoreStep, NEW q \in Procs, worker'[q] = worker[q],
         worker[q].pc = "claiming" => jobs'[worker[q].job].status = "queued"
  PROVE  WorkerOK(q)'
<1>1. WorkerOK(q)
  BY DEF Shape, WorkerShape
<1>2. CASE worker[q].pc \in Held
  <2>1. DocOf(q)' = DocOf(q) /\ Yield(DocOf(q))' = Yield(DocOf(q))
        /\ documents'[DocOf(q)].format = documents[DocOf(q)].format
    BY <1>2, HeldJob DEF StoreStep, KeepsDocuments, KeepsJobs, DocOf, Yield
  <2>2. worker[q].pc # "claiming" => jobs'[worker[q].job].status \notin {"none", "queued"}
    BY <1>1, <1>2, HeldJob DEF WorkerOK, StoreStep, KeepsJobs
  <2> QED
    BY <1>1, <2>1, <2>2 DEF WorkerOK
<1>3. CASE worker[q].pc \notin Held
  BY <1>3 DEF WorkerOK, Held, Fetched
<1> QED
  BY <1>2, <1>3

\* A worker that goes on with its job without having read the row again.
LEMMA OwnWorkerOK ==
  ASSUME Shape, NEW p \in Procs, WorkerStep(p)
  PROVE  WorkerOK(p)'
<1> USE DEF Shape
<1>a. StoreStep /\ WorkerMove(p)
  BY WorkerStoreStep, WorkerMoves
<1>b. ASSUME worker[p].pc \in Held \ {"claiming"}, worker'[p].pc \in Held \ {"claiming"},
             worker'[p].job = worker[p].job
      PROVE  /\ worker'[p].job \in JobIds
             /\ jobs'[worker'[p].job].status \notin {"none", "queued"}
             /\ DocOf(p)' = DocOf(p) /\ Yield(DocOf(p))' = Yield(DocOf(p))
             /\ documents'[DocOf(p)].format = documents[DocOf(p)].format
  <2>1. /\ worker[p].job \in JobIds /\ jobs[worker[p].job].status # "none"
        /\ DocOf(p) \in DocIds /\ documents[DocOf(p)].status # "absent"
    BY <1>b, HeldJob
  <2>2. jobs[worker[p].job].status # "queued"
    BY <1>b DEF WorkerShape, WorkerOK
  <2>3. DocOf(p)' = DocOf(p)
    BY <1>a, <1>b, <2>1 DEF StoreStep, KeepsJobs, DocOf
  <2> QED
    BY <1>a, <1>b, <2>1, <2>2, <2>3 DEF StoreStep, KeepsDocuments, KeepsJobs, Yield
<1>c. WorkerOK(p)
  BY DEF WorkerShape
<1>d. worker'[p].pc \notin Held => WorkerOK(p)'
  BY DEF WorkerOK, Held, Fetched
<1>1. CASE LockJob(p)
  <2>1. PICK j \in JobIds : /\ Claimable(j, Locked)
                            /\ worker' = [worker EXCEPT ![p].pc = "claiming", ![p].job = j]
    BY <1>1 DEF LockJob
  <2>2. worker'[p].pc = "claiming" /\ worker'[p].job = j
    BY <2>1 DEF WorkerTypeOK, Worker
  <2>3. jobs' = jobs
    BY <1>1 DEF LockJob, storeVars
  <2> QED
    BY <2>1, <2>2, <2>3 DEF WorkerOK, Claimable, Fetched
<1>2. ASSUME NEW o \in Outcomes, CommitClaim(p, o)
      PROVE  WorkerOK(p)'
  <2>1. worker[p].pc = "claiming" /\ worker[p].job \in JobIds
    BY <1>2, HeldJob DEF CommitClaim, Held
  <2>2. CASE o = "ok"
    <3>1. worker'[p].pc = "fetch" /\ worker'[p].job = worker[p].job
      BY <1>2, <2>2 DEF CommitClaim, Goto, WorkerTypeOK, Worker
    <3>2. jobs'[worker[p].job].status = "running"
      BY <1>2, <2>1, <2>2 DEF CommitClaim, Applied, ClaimJob, StoreShape, StoreTypeOK, Job
    <3> QED
      BY <2>1, <3>1, <3>2 DEF WorkerOK, Fetched, Held
  <2>3. CASE o # "ok"
    BY <1>2, <2>3, <1>d DEF CommitClaim, Polling, WorkerTypeOK, Held
  <2> QED
    BY <2>2, <2>3
<1>3. ASSUME NEW o \in Outcomes, GetDocument(p, o)
      PROVE  WorkerOK(p)'
  <2>1. worker[p].pc = "fetch"
    BY <1>3 DEF GetDocument
  <2>2. CASE o = "raised"
    BY <1>3, <2>2, <1>d DEF GetDocument, Dead, Polling, WorkerTypeOK, Held
  <2>3. CASE o # "raised"
    <3>1. worker'[p].pc \in {"read", "finish_missing"} /\ worker'[p].job = worker[p].job
      BY <1>3, <2>3 DEF GetDocument, Goto, WorkerTypeOK, Worker
    <3>2. worker'[p].pc = "read" => worker'[p].format = documents[DocOf(p)].format
      BY <1>3, <2>3 DEF GetDocument, Goto, WorkerTypeOK, Worker
    <3> QED
      BY <2>1, <3>1, <3>2, <1>b DEF WorkerOK, Held, Fetched
  <2> QED
    BY <2>2, <2>3
<1>4. ASSUME NEW o \in Outcomes, FinishMissing(p, o)
      PROVE  WorkerOK(p)'
  <2>1. worker'[p].pc \notin Held
    BY <1>4 DEF FinishMissing, Polling, Dead, WorkerTypeOK, Held
  <2> QED
    BY <2>1, <1>d
<1>5. ASSUME NEW o \in Outcomes, ReadFile(p, o)
      PROVE  WorkerOK(p)'
  <2>1. worker[p].pc = "read"
    BY <1>5 DEF ReadFile
  <2>2. /\ worker'[p].pc \in {"mark", "fail_job"}
        /\ worker'[p].job = worker[p].job /\ worker'[p].format = worker[p].format
    BY <1>5 DEF ReadFile, GoOn, Goto, WorkerTypeOK, Worker
  <2> QED
    BY <2>1, <2>2, <1>b, <1>c DEF WorkerOK, Held, Fetched
<1>6. ASSUME NEW o \in Outcomes, MarkProcessing(p, o)
      PROVE  WorkerOK(p)'
  <2>1. worker[p].pc = "mark"
    BY <1>6 DEF MarkProcessing
  <2>2. /\ worker'[p].pc \in {"prepare", "fail_job"}
        /\ worker'[p].job = worker[p].job /\ worker'[p].format = worker[p].format
    BY <1>6 DEF MarkProcessing, GoOn, Goto, WorkerTypeOK, Worker
  <2> QED
    BY <2>1, <2>2, <1>b, <1>c DEF WorkerOK, Held, Fetched
<1>7. ASSUME NEW o \in Outcomes, Prepare(p, o)
      PROVE  WorkerOK(p)'
  <2>1. worker[p].pc = "prepare"
    BY <1>7 DEF Prepare
  <2>2. /\ worker'[p].pc \in {"no_text", "insert", "fail_doc"}
        /\ worker'[p].job = worker[p].job /\ worker'[p].format = worker[p].format
    BY <1>7 DEF Prepare, GoOn, Goto, WorkerTypeOK, Worker
  <2>3. /\ worker'[p].pc = "no_text" => Yield(DocOf(p)) = 0
        /\ worker'[p].pc = "insert" => Yield(DocOf(p)) > 0
    BY <1>7, <2>1, <1>c DEF Prepare, Goto, WorkerTypeOK, Worker, WorkerOK, Fetched, Yield
  <2> QED
    BY <2>1, <2>2, <2>3, <1>b, <1>c DEF WorkerOK, Held, Fetched
<1>8. ASSUME NEW o \in Outcomes, NoText(p, o)
      PROVE  WorkerOK(p)'
  <2>1. worker[p].pc = "no_text"
    BY <1>8 DEF NoText
  <2>2. /\ worker'[p].pc \in {"finish_ok", "fail_doc"}
        /\ worker'[p].job = worker[p].job /\ worker'[p].format = worker[p].format
    BY <1>8 DEF NoText, GoOn, Goto, WorkerTypeOK, Worker
  <2> QED
    BY <2>1, <2>2, <1>b, <1>c DEF WorkerOK, Held, Fetched
<1>9. ASSUME NEW o \in Outcomes, InsertChunks(p, o)
      PROVE  WorkerOK(p)'
  <2>1. worker[p].pc = "insert"
    BY <1>9 DEF InsertChunks
  <2>2. /\ worker'[p].pc \in {"upsert", "fail_doc"}
        /\ worker'[p].job = worker[p].job /\ worker'[p].format = worker[p].format
    BY <1>9 DEF InsertChunks, GoOn, Goto, WorkerTypeOK, Worker
  <2> QED
    BY <2>1, <2>2, <1>b, <1>c DEF WorkerOK, Held, Fetched
<1>10. ASSUME NEW o \in Outcomes, UpsertVectors(p, o)
      PROVE  WorkerOK(p)'
  <2>1. worker[p].pc = "upsert"
    BY <1>10 DEF UpsertVectors
  <2>2. /\ worker'[p].pc \in {"set_done", "fail_doc"}
        /\ worker'[p].job = worker[p].job /\ worker'[p].format = worker[p].format
    BY <1>10 DEF UpsertVectors, GoOn, Goto, WorkerTypeOK, Worker
  <2> QED
    BY <2>1, <2>2, <1>b, <1>c DEF WorkerOK, Held, Fetched
<1>11. ASSUME NEW o \in Outcomes, SetDone(p, o)
      PROVE  WorkerOK(p)'
  <2>1. worker[p].pc = "set_done"
    BY <1>11 DEF SetDone
  <2>2. /\ worker'[p].pc \in {"finish_ok", "fail_doc"}
        /\ worker'[p].job = worker[p].job /\ worker'[p].format = worker[p].format
    BY <1>11 DEF SetDone, GoOn, Goto, WorkerTypeOK, Worker
  <2> QED
    BY <2>1, <2>2, <1>b, <1>c DEF WorkerOK, Held, Fetched
<1>12. ASSUME NEW o \in Outcomes, FinishOk(p, o)
      PROVE  WorkerOK(p)'
  <2>1. worker[p].pc = "finish_ok"
    BY <1>12 DEF FinishOk
  <2>2. worker'[p].pc \notin Held \/ (worker'[p].pc = "fail_job" /\ worker'[p].job = worker[p].job)
    BY <1>12 DEF FinishOk, Polling, Goto, WorkerTypeOK, Worker, Held
  <2> QED
    BY <2>1, <2>2, <1>b, <1>d DEF WorkerOK, Held, Fetched
<1>13. ASSUME NEW o \in Outcomes, FailDocument(p, o)
      PROVE  WorkerOK(p)'
  <2>1. worker[p].pc = "fail_doc"
    BY <1>13 DEF FailDocument
  <2>2. /\ worker'[p].pc \in {"fail_job"}
        /\ worker'[p].job = worker[p].job /\ worker'[p].format = worker[p].format
    BY <1>13 DEF FailDocument, GoOn, Goto, WorkerTypeOK, Worker
  <2> QED
    BY <2>1, <2>2, <1>b, <1>c DEF WorkerOK, Held, Fetched
<1>14. ASSUME NEW o \in Outcomes, FailJob(p, o)
      PROVE  WorkerOK(p)'
  <2>1. worker'[p].pc \notin Held
    BY <1>14 DEF FailJob, Polling, Dead, WorkerTypeOK, Held
  <2> QED
    BY <2>1, <1>d
<1> QED
  BY <1>1, <1>2, <1>3, <1>4, <1>5, <1>6, <1>7, <1>8, <1>9, <1>10, <1>11, <1>12, <1>13, <1>14 DEF WorkerStep

LEMMA SameHandlerOK ==
  ASSUME Shape, StoreStep, NEW r \in Slots, handler'[r] = handler[r]
  PROVE  HandlerOK(r)'
<1>1. HandlerOK(r)
  BY DEF Shape, HandlerShape
<1> QED
  BY <1>1 DEF HandlerOK, StoreStep, KeepsDocuments, Uploading, At, Deleting

LEMMA WorkShape ==
  ASSUME Shape, NEW p \in Procs, Work(p)
  PROVE  Shape'
<1>1. WorkerStep(p) /\ handler' = handler /\ crashes' = crashes
  BY DEF Work
<1>2. StoreStep /\ WorkerMove(p)
  BY <1>1, WorkerStoreStep, WorkerMoves
<1>3. ASSUME NEW q \in Procs PROVE WorkerOK(q)'
  <2>1. CASE q = p
    BY <2>1, <1>1, OwnWorkerOK
  <2>2. CASE q # p
    <3>1. worker'[q] = worker[q]
      BY <2>2, <1>2 DEF WorkerMove
    <3>2. worker[q].pc = "claiming" => jobs'[worker[q].job].status = "queued"
      BY <2>2, <1>2, HeldJob DEF WorkerMove, Shape, OneWorkerPerJob, WorkerShape, WorkerOK, Held
    <3> QED
      BY <3>1, <3>2, <1>2, OtherWorkerOK
  <2> QED
    BY <2>1, <2>2
<1>4. OneWorkerPerJob'
  <2> SUFFICES ASSUME NEW q \in Procs, NEW t \in Procs, worker'[q].pc \in Held,
                      worker'[t].pc \in Held, worker'[q].job = worker'[t].job
               PROVE  q = t
    BY DEF OneWorkerPerJob
  <2>1. ASSUME NEW u \in Procs, u # p, worker[u].pc \in Held,
               worker'[p].pc \in Held, worker'[p].job = worker[u].job
        PROVE  FALSE
    <3>1. ~ (worker[p].pc \in Held /\ worker'[p].job = worker[p].job)
      BY <2>1 DEF Shape, OneWorkerPerJob
    <3>2. worker'[p].job \notin Locked /\ jobs[worker'[p].job].status = "queued"
      BY <3>1, <2>1, <1>2 DEF WorkerMove
    <3>3. worker[u].pc = "claiming"
      BY <2>1, <3>2 DEF Shape, WorkerShape, WorkerOK, Held
    <3> QED
      BY <2>1, <3>2, <3>3 DEF Locked
  <2>2. \A u \in Procs : u # p => worker'[u] = worker[u]
    BY <1>2 DEF WorkerMove
  <2>3. CASE q # p /\ t # p
    BY <2>2, <2>3 DEF Shape, OneWorkerPerJob
  <2>4. CASE q = p /\ t # p
    BY <2>1, <2>2, <2>4
  <2>5. CASE q # p /\ t = p
    BY <2>1, <2>2, <2>5
  <2> QED
    BY <2>3, <2>4, <2>5
<1>5. HandlerShape' /\ RoutesTypeOK'
  BY <1>1, <1>2, SameHandlerOK DEF Shape, HandlerShape, RoutesTypeOK, Handler, ChunkIds, JobIds
<1> QED
  BY <1>1, <1>2, <1>3, <1>4, <1>5 DEF Shape, StoreStep, WorkerMove, WorkerTypeOK, WorkerShape,
     Worker, JobIds

-----------------------------------------------------------------------------
(* The handlers.                                                           *)

RequestStep(r) == \/ \E p \in Procs : Arrive(r, p)
                  \/ Continue(r, Locked)

LEMMA NewDocumentShape ==
  ASSUME StoreShape, NEW d \in DocIds, NEW u \in Users, NEW c \in Contents,
         NEW f \in Formats, documents[d].status = "absent", NewDocument(d, u, c, f)
  PROVE  documents' \in [DocIds -> Document] /\ DocShape' /\ KeepsDocuments
  BY DEF StoreShape, StoreTypeOK, DocShape, NewDocument, Document, DocStatus, KeepsDocuments

LEMMA ResetDocumentShape ==
  ASSUME StoreShape, NEW d \in DocIds, NEW f \in Formats,
         documents[d].status = "error", ResetDocument(d, f)
  PROVE  /\ documents' \in [DocIds -> Document] /\ DocShape' /\ KeepsDocuments
         /\ chunks' \in [DocIds -> SUBSET ChunkIds]
  BY DEF StoreShape, StoreTypeOK, DocShape, ResetDocument, Document, DocStatus, KeepsDocuments

LEMMA DeleteRowShape ==
  ASSUME StoreShape, NEW d \in DocIds, Exists(d), DeleteRow(d)
  PROVE  /\ documents' \in [DocIds -> Document] /\ DocShape' /\ KeepsDocuments
         /\ chunks' \in [DocIds -> SUBSET ChunkIds]
         /\ jobs' \in [JobIds -> Job] /\ KeepsJobs /\ NoNewJob
<1>1. /\ documents' \in [DocIds -> Document] /\ DocShape' /\ KeepsDocuments
      /\ chunks' \in [DocIds -> SUBSET ChunkIds]
  BY DEF StoreShape, StoreTypeOK, DocShape, DeleteRow, Document, DocStatus, KeepsDocuments, Exists
<1>2. jobs' \in [JobIds -> Job] /\ KeepsJobs
  BY DEF StoreShape, StoreTypeOK, DeleteRow, Job, JobStatus, KeepsJobs
<1>3. NoNewJob
  BY NilAssumption DEF StoreShape, StoreTypeOK, JobShape, DeleteRow, Job, NoNewJob
<1> QED
  BY <1>1, <1>2, <1>3

LEMMA RequestStoreStep ==
  ASSUME Shape, NEW r \in Slots, RequestStep(r)
  PROVE  StoreStep
<1> USE DEF Shape
<1>1. CASE UNCHANGED storeVars
  BY <1>1, StoreStepParts, SameDocumentsShape, SameJobsShape DEF storeVars, StoreShape, StoreTypeOK
<1>2. ASSUME NEW p \in Procs, NEW u \in Users, NEW c \in Contents, NEW f \in Formats,
             NEW o \in Outcomes, CreateDocument(r, p, u, c, f, o)
      PROVE  StoreStep
  <2>1. failures' \in Nat /\ UNCHANGED <<chunks, points, uploads, jobs, nextJob>>
    BY <1>2, ChargeType DEF CreateDocument, StoreShape, StoreTypeOK
  <2>2. documents' \in [DocIds -> Document] /\ DocShape' /\ KeepsDocuments
    BY <1>2, NewDocumentShape DEF CreateDocument
  <2> QED
    BY <2>1, <2>2, SameJobsShape, StoreStepParts DEF StoreShape, StoreTypeOK
<1>3. ASSUME NEW p \in Procs, NEW u \in Users, NEW c \in Contents, NEW f \in Formats,
             NEW o \in Outcomes, RetryDocument(r, p, u, c, f, o)
      PROVE  StoreStep
  <2>1. failures' \in Nat /\ UNCHANGED <<points, uploads, jobs, nextJob>>
    BY <1>3, ChargeType DEF RetryDocument, StoreShape, StoreTypeOK
  <2>2. /\ documents' \in [DocIds -> Document] /\ DocShape' /\ KeepsDocuments
        /\ chunks' \in [DocIds -> SUBSET ChunkIds]
    BY <1>3, ResetDocumentShape DEF RetryDocument, Conflicts
  <2> QED
    BY <2>1, <2>2, SameJobsShape, StoreStepParts DEF StoreShape, StoreTypeOK
<1>4. ASSUME NEW o \in Outcomes, PurgePoints(r, o) \/ DeleteVectors(r, o)
      PROVE  StoreStep
  <2>1. failures' \in Nat /\ UNCHANGED <<documents, chunks, uploads, jobs, nextJob>>
    BY <1>4, ChargeType DEF PurgePoints, DeleteVectors, StoreShape, StoreTypeOK
  <2>2. points' \in [DocIds -> SUBSET ChunkIds]
    BY <1>4 DEF PurgePoints, DeleteVectors, DeletePoints, StoreShape, StoreTypeOK
  <2> QED
    BY <2>1, <2>2, SameDocumentsShape, SameJobsShape, StoreStepParts DEF StoreShape, StoreTypeOK
<1>5. ASSUME NEW o \in Outcomes, WriteUpload(r, o)
      PROVE  StoreStep
  <2>1. failures' \in Nat /\ UNCHANGED <<documents, chunks, points, jobs, nextJob>>
    BY <1>5, ChargeType DEF WriteUpload, StoreShape, StoreTypeOK
  <2>2. handler[r].doc \in DocIds /\ handler[r].suffix \in Formats
    BY <1>5 DEF WriteUpload, HandlerShape, HandlerOK, At, Uploading
  <2>3. uploads' \in SUBSET (DocIds \X Formats)
    BY <1>5, <2>2 DEF WriteUpload, StoreShape, StoreTypeOK
  <2> QED
    BY <2>1, <2>3, SameDocumentsShape, SameJobsShape, StoreStepParts DEF StoreShape, StoreTypeOK
<1>6. ASSUME NEW o \in Outcomes, Unlink(r, o)
      PROVE  StoreStep
  <2>1. failures' \in Nat /\ UNCHANGED <<documents, chunks, points, jobs, nextJob>>
        /\ uploads' \in SUBSET (DocIds \X Formats)
    BY <1>6, ChargeType DEF Unlink, StoreShape, StoreTypeOK
  <2> QED
    BY <2>1, SameDocumentsShape, SameJobsShape, StoreStepParts DEF StoreShape, StoreTypeOK
<1>7. ASSUME NEW o \in Outcomes, Enqueue(r, o)
      PROVE  StoreStep
  <2>1. failures' \in Nat /\ UNCHANGED <<documents, chunks, points, uploads>>
    BY <1>7, ChargeType DEF Enqueue, StoreShape, StoreTypeOK
  <2>2. CASE UNCHANGED <<jobs, nextJob>>
    BY <2>1, <2>2, SameDocumentsShape, SameJobsShape, StoreStepParts DEF StoreShape, StoreTypeOK
  <2>3. CASE ~ UNCHANGED <<jobs, nextJob>>
    <3>1. Exists(handler[r].doc) /\ EnqueueIngestJob(handler[r].doc) /\ nextJob <= MaxJobs
      BY <1>7, <2>3 DEF Enqueue
    <3>2. nextJob \in JobIds /\ nextJob' \in 1 .. MaxJobs + 1 /\ jobs[nextJob].status = "none"
      BY <3>1, BoundsAssumption DEF EnqueueIngestJob, StoreShape, StoreTypeOK, JobShape, JobIds
    <3>3. jobs' \in [JobIds -> Job] /\ KeepsJobs
      BY <3>1, <3>2 DEF EnqueueIngestJob, StoreShape, StoreTypeOK, Job, JobStatus, KeepsJobs, Exists
    <3>4. JobShape'
      BY <2>1, <3>1, <3>2, BoundsAssumption
      DEF EnqueueIngestJob, StoreShape, StoreTypeOK, JobShape, Job, Exists, JobIds
    <3> QED
      BY <2>1, <3>2, <3>3, <3>4, SameDocumentsShape
      DEF StoreStep, StoreShape, StoreTypeOK, JobIds, ChunkIds
  <2> QED
    BY <2>2, <2>3
<1>8. ASSUME NEW o \in Outcomes, DeleteDocument(r, o, Locked)
      PROVE  StoreStep
  <2>1. failures' \in Nat /\ UNCHANGED <<points, uploads, nextJob>>
    BY <1>8, ChargeType DEF DeleteDocument, StoreShape, StoreTypeOK
  <2>2. CASE UNCHANGED <<documents, chunks, jobs>>
    BY <2>1, <2>2, SameDocumentsShape, SameJobsShape, StoreStepParts DEF StoreShape, StoreTypeOK
  <2>3. CASE ~ UNCHANGED <<documents, chunks, jobs>>
    <3>1. Exists(handler[r].doc) /\ DeleteRow(handler[r].doc)
      BY <1>8, <2>3 DEF DeleteDocument
    <3>2. handler[r].doc \in DocIds
      BY <3>1 DEF Exists
    <3> QED
      BY <2>1, <3>1, <3>2, DeleteRowShape, StoreStepParts DEF StoreShape, StoreTypeOK
  <2> QED
    BY <2>2, <2>3
<1>9. CASE \/ AnswerSkipped(r) \/ LookupOwned(r)
           \/ \E p \in Procs, u \in Users, c \in Contents : SkipDuplicate(r, p, u, c)
           \/ \E p \in Procs, u \in Users, d \in DocIds : ReadChunkIds(r, p, u, d)
  <2>1. UNCHANGED storeVars
    BY <1>9 DEF AnswerSkipped, LookupOwned, SkipDuplicate, ReadChunkIds
  <2> QED
    BY <1>1, <2>1
<1> QED
  BY <1>2, <1>3, <1>4, <1>5, <1>6, <1>7, <1>8, <1>9 DEF RequestStep, Arrive, Continue

LEMMA LeaveMoves ==
  ASSUME RoutesTypeOK, NEW r \in Slots, Leave(r)
  PROVE  /\ handler' \in [Slots -> Handler]
         /\ \A s \in Slots \ {r} : handler'[s] = handler[s]
         /\ handler'[r] = Idle
  BY DEF RoutesTypeOK, Leave, Idle, Handler, HandlerPC

LEMMA StepMoves ==
  ASSUME RoutesTypeOK, NEW r \in Slots, NEW l \in HandlerPC, Step(r, l)
  PROVE  /\ handler' \in [Slots -> Handler]
         /\ \A s \in Slots \ {r} : handler'[s] = handler[s]
         /\ handler'[r] = [handler[r] EXCEPT !.pc = l]
  BY DEF RoutesTypeOK, Step, Handler

\* A handler step changes its own record, which it leaves in shape.
HandlerMove(r) ==
    /\ handler' \in [Slots -> Handler]
    /\ \A s \in Slots \ {r} : handler'[s] = handler[s]
    /\ HandlerOK(r)'

LEMMA IdleMove ==
  ASSUME RoutesTypeOK, NEW r \in Slots, Leave(r)
  PROVE  HandlerMove(r)
<1>1. HandlerOK(r)'
  BY LeaveMoves DEF HandlerOK, Idle, Uploading, At, Deleting
<1> QED
  BY <1>1, LeaveMoves DEF HandlerMove

\* A handler that goes on with the document it already had.
LEMMA NextMove ==
  ASSUME Shape, StoreStep, NEW r \in Slots, NEW l \in HandlerPC, Step(r, l),
         \/ Uploading(r) /\ l \in {"write", "enqueue"}
         \/ At(r, "delete_points") /\ l = "unlink"
  PROVE  HandlerMove(r)
<1>1. handler'[r] = [handler[r] EXCEPT !.pc = l] /\ handler[r] \in Handler
  BY StepMoves DEF Shape, RoutesTypeOK
<1>2. HandlerOK(r)
  BY DEF Shape, HandlerShape
<1>3. HandlerOK(r)'
  BY <1>1, <1>2 DEF HandlerOK, Uploading, At, Deleting, StoreStep, KeepsDocuments, Handler
<1> QED
  BY <1>3, StepMoves DEF HandlerMove, Shape

LEMMA RequestMoves ==
  ASSUME Shape, NEW r \in Slots, RequestStep(r)
  PROVE  HandlerMove(r)
<1>a. StoreStep
  BY RequestStoreStep
<1>b. RoutesTypeOK /\ StoreTypeOK /\ HandlerOK(r)
  BY DEF Shape, StoreShape, HandlerShape
<1>1. ASSUME NEW p \in Procs, NEW u \in Users, NEW c \in Contents, NEW f \in Formats,
             NEW o \in Outcomes, CreateDocument(r, p, u, c, f, o)
      PROVE  HandlerMove(r)
  <2>1. CASE handler' = handler
    BY <2>1, <1>a, <1>b, SameHandlerOK DEF HandlerMove, RoutesTypeOK
  <2>2. CASE handler' # handler
    <3>1. PICK d \in DocIds :
             /\ documents[d].status = "absent" /\ NewDocument(d, u, c, f)
             /\ handler' = [handler EXCEPT ![r] =
                   [pc |-> "write", proc |-> p, user |-> u, doc |-> d, suffix |-> f, ids |-> {}]]
      BY <1>1, <2>2 DEF CreateDocument
    <3>2. documents'[d].status = "pending"
      BY <3>1, <1>b DEF NewDocument, StoreTypeOK, Document
    <3>3. handler' \in [Slots -> Handler] /\ \A s \in Slots \ {r} : handler'[s] = handler[s]
      BY <3>1, <1>b DEF RoutesTypeOK, Handler, HandlerPC
    <3>4. HandlerOK(r)'
      BY <3>1, <3>2, <1>b DEF HandlerOK, RoutesTypeOK, Uploading, At, Deleting
    <3> QED
      BY <3>3, <3>4 DEF HandlerMove
  <2> QED
    BY <2>1, <2>2
<1>2. ASSUME NEW p \in Procs, NEW u \in Users, NEW c \in Contents, NEW f \in Formats,
             NEW o \in Outcomes, RetryDocument(r, p, u, c, f, o)
      PROVE  HandlerMove(r)
  <2>1. CASE handler' = handler
    BY <2>1, <1>a, <1>b, SameHandlerOK DEF HandlerMove, RoutesTypeOK
  <2>2. CASE handler' # handler
    <3>1. PICK d \in DocIds, l \in {"write", "purge"} :
             /\ documents[d].status = "error"
             /\ handler' = [handler EXCEPT ![r] =
                   [pc |-> l, proc |-> p, user |-> u, doc |-> d, suffix |-> f, ids |-> chunks[d]]]
      BY <1>2, <2>2 DEF RetryDocument, Conflicts
    <3>2. documents'[d].status # "absent" /\ chunks[d] \in SUBSET ChunkIds
      BY <3>1, <1>a, <1>b DEF StoreStep, KeepsDocuments, StoreTypeOK
    <3>3. handler' \in [Slots -> Handler] /\ \A s \in Slots \ {r} : handler'[s] = handler[s]
      BY <3>1, <3>2, <1>b DEF RoutesTypeOK, Handler, HandlerPC
    <3>4. HandlerOK(r)'
      BY <3>1, <3>2, <1>b DEF HandlerOK, RoutesTypeOK, Uploading, At, Deleting
    <3> QED
      BY <3>3, <3>4 DEF HandlerMove
  <2> QED
    BY <2>1, <2>2
<1>3. ASSUME NEW p \in Procs, NEW u \in Users, NEW c \in Contents, SkipDuplicate(r, p, u, c)
      PROVE  HandlerMove(r)
  <2>1. PICK d \in DocIds : handler' = [handler EXCEPT ![r] =
                [Idle EXCEPT !.pc = "skipped", !.proc = p, !.user = u, !.doc = d]]
    BY <1>3 DEF SkipDuplicate, Conflicts
  <2>2. handler' \in [Slots -> Handler] /\ \A s \in Slots \ {r} : handler'[s] = handler[s]
    BY <2>1, <1>b DEF RoutesTypeOK, Handler, HandlerPC, Idle
  <2>3. HandlerOK(r)'
    BY <2>1, <1>b DEF HandlerOK, RoutesTypeOK, Uploading, At, Deleting, Idle
  <2> QED
    BY <2>2, <2>3 DEF HandlerMove
<1>4. ASSUME NEW p \in Procs, NEW u \in Users, NEW d \in DocIds, ReadChunkIds(r, p, u, d)
      PROVE  HandlerMove(r)
  <2>1. handler' \in [Slots -> Handler] /\ \A s \in Slots \ {r} : handler'[s] = handler[s]
    BY <1>4, <1>b DEF ReadChunkIds, RoutesTypeOK, StoreTypeOK, Handler, HandlerPC
  <2>2. HandlerOK(r)'
    BY <1>4, <1>b DEF ReadChunkIds, HandlerOK, RoutesTypeOK, Uploading, At, Deleting
  <2> QED
    BY <2>1, <2>2 DEF HandlerMove
<1>5. CASE LookupOwned(r)
  <2>1. CASE Leave(r)
    BY <2>1, <1>b, IdleMove
  <2>2. CASE ~ Leave(r)
    <3> DEFINE d == handler[r].doc
    <3>1. /\ Exists(d) /\ documents[d].owner = handler[r].user
          /\ handler' = [handler EXCEPT ![r].pc = "delete_row", ![r].suffix = documents[d].suffix]
          /\ documents' = documents
      BY <1>5, <2>2 DEF LookupOwned, storeVars
    <3>2. documents[d] \in Document
      BY <3>1, <1>b DEF Exists, StoreTypeOK
    <3>3. handler' \in [Slots -> Handler] /\ \A s \in Slots \ {r} : handler'[s] = handler[s]
      <4>1. documents[d].suffix \in Formats \cup {Nil}
        BY <3>2 DEF Document
      <4>2. handler[r] \in Handler
        BY <1>b DEF RoutesTypeOK
      <4>3. [handler[r] EXCEPT !.pc = "delete_row", !.suffix = documents[d].suffix] \in Handler
        BY <4>1, <4>2 DEF Handler, HandlerPC
      <4>4. handler' = [handler EXCEPT ![r] =
               [handler[r] EXCEPT !.pc = "delete_row", !.suffix = documents[d].suffix]]
        BY <3>1, <1>b DEF RoutesTypeOK
      <4> QED
        BY <4>3, <4>4, <1>b DEF RoutesTypeOK
    <3>4. HandlerOK(r)'
      BY <3>1, <1>b DEF HandlerOK, RoutesTypeOK, Handler, Uploading, At, Deleting, Exists
    <3> QED
      BY <3>3, <3>4 DEF HandlerMove
  <2> QED
    BY <2>1, <2>2
<1>6. ASSUME NEW o \in Outcomes, PurgePoints(r, o)
      PROVE  HandlerMove(r)
  <2>1. CASE Leave(r)
    BY <2>1, <1>b, IdleMove
  <2>2. CASE ~ Leave(r)
    <3>1. At(r, "purge") /\ handler' = [handler EXCEPT ![r].pc = "write", ![r].ids = {}]
      BY <1>6, <2>2 DEF PurgePoints
    <3>2. handler' \in [Slots -> Handler] /\ \A s \in Slots \ {r} : handler'[s] = handler[s]
      <4>1. handler[r] \in Handler
        BY <1>b DEF RoutesTypeOK
      <4>2. [handler[r] EXCEPT !.pc = "write", !.ids = {}] \in Handler
        BY <4>1 DEF Handler, HandlerPC
      <4>3. handler' = [handler EXCEPT ![r] = [handler[r] EXCEPT !.pc = "write", !.ids = {}]]
        BY <3>1, <1>b DEF RoutesTypeOK
      <4> QED
        BY <4>2, <4>3, <1>b DEF RoutesTypeOK
    <3>3. HandlerOK(r)'
      BY <3>1, <1>a, <1>b
      DEF HandlerOK, RoutesTypeOK, Handler, Uploading, At, Deleting, StoreStep, KeepsDocuments
    <3> QED
      BY <3>2, <3>3 DEF HandlerMove
  <2> QED
    BY <2>1, <2>2
<1>7. ASSUME NEW o \in Outcomes, WriteUpload(r, o)
      PROVE  HandlerMove(r)
  <2>1. Leave(r) \/ (Uploading(r) /\ Step(r, "enqueue"))
    BY <1>7 DEF WriteUpload, At, Uploading
  <2> QED
    BY <2>1, <1>a, <1>b, IdleMove, NextMove DEF HandlerPC
<1>8. ASSUME NEW o \in Outcomes, DeleteDocument(r, o, Locked)
      PROVE  HandlerMove(r)
  <2>1. CASE Leave(r)
    BY <2>1, <1>b, IdleMove
  <2>2. CASE ~ Leave(r)
    <3>1. PICK l \in {"unlink", "delete_points"} : Step(r, l)
      BY <1>8, <2>2 DEF DeleteDocument
    <3>2. At(r, "delete_row") /\ handler[r].doc \in DocIds
      BY <1>8, <1>b DEF DeleteDocument, HandlerOK, At, Deleting
    <3>3. documents'[handler[r].doc].status = "deleted"
      <4>1. documents[handler[r].doc].owner = handler[r].user
            /\ documents[handler[r].doc].status # "absent"
        BY <3>2, <1>b DEF HandlerOK, At, Deleting
      <4>2. CASE Exists(handler[r].doc)
        <5>1. DeleteRow(handler[r].doc)
          BY <1>8, <2>2, <4>1, <4>2 DEF DeleteDocument, Applied
        <5> QED
          BY <5>1, <3>2, <1>b DEF DeleteRow, StoreTypeOK, Document
      <4>3. CASE ~ Exists(handler[r].doc)
        BY <4>1, <4>3, <3>2, <1>a DEF Exists, StoreStep, KeepsDocuments
      <4> QED
        BY <4>2, <4>3
    <3>4. handler'[r] = [handler[r] EXCEPT !.pc = l] /\ handler[r] \in Handler
      BY <3>1, <1>b, StepMoves DEF HandlerPC, RoutesTypeOK
    <3>5. HandlerOK(r)'
      BY <3>2, <3>3, <3>4, <1>a, <1>b
      DEF HandlerOK, Handler, Uploading, At, Deleting, StoreStep, KeepsDocuments
    <3> QED
      BY <3>1, <3>5, <1>b, StepMoves DEF HandlerMove, HandlerPC
  <2> QED
    BY <2>1, <2>2
<1>9. ASSUME NEW o \in Outcomes, DeleteVectors(r, o)
      PROVE  HandlerMove(r)
  <2>1. Leave(r) \/ (At(r, "delete_points") /\ Step(r, "unlink"))
    BY <1>9 DEF DeleteVectors
  <2> QED
    BY <2>1, <1>a, <1>b, IdleMove, NextMove DEF HandlerPC
<1>10. CASE AnswerSkipped(r) \/ (\E o \in Outcomes : Unlink(r, o) \/ Enqueue(r, o))
  <2>1. Leave(r)
    BY <1>10 DEF AnswerSkipped, Unlink, Enqueue
  <2> QED
    BY <2>1, <1>b, IdleMove
<1> QED
  BY <1>1, <1>2, <1>3, <1>4, <1>5, <1>6, <1>7, <1>8, <1>9, <1>10 DEF RequestStep, Arrive, Continue

\* A request leaves a job alone that a claim has locked: DELETE waits for the row.
LEMMA RequestRespectsLocks ==
  ASSUME Shape, NEW r \in Slots, RequestStep(r), NEW q \in Procs, worker[q].pc = "claiming"
  PROVE  jobs'[worker[q].job].status = "queued"
<1> DEFINE j == worker[q].job
<1>1. j \in Locked /\ j \in JobIds /\ jobs[j].status = "queued"
  BY DEF Locked, Shape, WorkerShape, WorkerOK, Held
<1>2. CASE jobs' = jobs
  BY <1>1, <1>2
<1>3. ASSUME NEW o \in Outcomes, Enqueue(r, o), jobs' # jobs
      PROVE  jobs'[j].status = "queued"
  <2>1. EnqueueIngestJob(handler[r].doc)
    BY <1>3 DEF Enqueue
  <2> QED
    BY <2>1, <1>1 DEF EnqueueIngestJob, Shape, StoreShape, StoreTypeOK, JobShape
<1>4. ASSUME NEW o \in Outcomes, DeleteDocument(r, o, Locked), jobs' # jobs
      PROVE  jobs'[j].status = "queued"
  <2>1. DeleteRow(handler[r].doc) /\ jobs[j].doc # handler[r].doc
    BY <1>1, <1>4 DEF DeleteDocument
  <2> QED
    BY <2>1, <1>1 DEF DeleteRow
<1>5. jobs' = jobs \/ (\E o \in Outcomes : Enqueue(r, o) \/ DeleteDocument(r, o, Locked))
  <2>1. ASSUME NEW p \in Procs, Arrive(r, p) PROVE jobs' = jobs
    BY <2>1 DEF Arrive, CreateDocument, RetryDocument, SkipDuplicate, ReadChunkIds, storeVars
  <2>2. AnswerSkipped(r) \/ LookupOwned(r) => jobs' = jobs
    BY DEF AnswerSkipped, LookupOwned, storeVars
  <2>3. ASSUME NEW o \in Outcomes, \/ PurgePoints(r, o) \/ WriteUpload(r, o)
                                   \/ DeleteVectors(r, o) \/ Unlink(r, o)
        PROVE  jobs' = jobs
    BY <2>3 DEF PurgePoints, WriteUpload, DeleteVectors, Unlink
  <2> QED
    BY <2>1, <2>2, <2>3 DEF RequestStep, Continue
<1> QED
  BY <1>2, <1>3, <1>4, <1>5

LEMMA RequestShape ==
  ASSUME Shape, NEW r \in Slots, Request(r) \/ Serve(r)
  PROVE  Shape'
<1>1. RequestStep(r) /\ worker' = worker /\ crashes' = crashes
  BY DEF Request, Serve, RequestStep
<1>2. StoreStep /\ HandlerMove(r)
  BY <1>1, RequestStoreStep, RequestMoves
<1>3. ASSUME NEW q \in Procs PROVE WorkerOK(q)'
  BY <1>1, <1>2, OtherWorkerOK, RequestRespectsLocks
<1>4. ASSUME NEW s \in Slots PROVE HandlerOK(s)'
  BY <1>2, SameHandlerOK DEF HandlerMove
<1>5. WorkerTypeOK' /\ OneWorkerPerJob'
  BY <1>1 DEF Shape, WorkerTypeOK, OneWorkerPerJob, Worker, JobIds
<1> QED
  BY <1>1, <1>2, <1>3, <1>4, <1>5
  DEF Shape, StoreStep, HandlerMove, RoutesTypeOK, WorkerShape, HandlerShape, Handler, ChunkIds, JobIds

LEMMA RestartShape ==
  ASSUME Shape, NEW p \in Procs, Restart(p)
  PROVE  Shape'
<1> USE DEF Shape
<1>1. StoreStep
  BY StoreStepParts, SameDocumentsShape, SameJobsShape DEF Restart, storeVars, StoreShape, StoreTypeOK
<1>2. /\ worker' \in [Procs -> Worker] /\ worker'[p] = Polling
      /\ \A q \in Procs \ {p} : worker'[q] = worker[q]
  BY DEF Restart, Polling, WorkerTypeOK, Worker, WorkerPC
<1>3. ASSUME NEW q \in Procs PROVE WorkerOK(q)'
  <2>1. CASE q = p
    BY <2>1, <1>2 DEF WorkerOK, Polling, Held, Fetched
  <2>2. CASE q # p
    <3>1. worker[q].pc = "claiming" => jobs'[worker[q].job].status = "queued"
      BY DEF Restart, storeVars, WorkerShape, WorkerOK
    <3> QED
      BY <2>2, <3>1, <1>1, <1>2, OtherWorkerOK
  <2> QED
    BY <2>1, <2>2
<1>4. OneWorkerPerJob'
  BY <1>2 DEF OneWorkerPerJob, Polling, Held
<1>5. ASSUME NEW s \in Slots PROVE handler'[s] \in Handler /\ HandlerOK(s)'
  <2>1. handler'[s] = Idle \/ handler'[s] = handler[s]
    BY DEF Restart
  <2>2. CASE handler'[s] = Idle
    BY <2>2 DEF HandlerOK, Idle, Handler, HandlerPC, Uploading, At, Deleting
  <2>3. CASE handler'[s] = handler[s]
    BY <2>3, <1>1, SameHandlerOK DEF RoutesTypeOK
  <2> QED
    BY <2>1, <2>2, <2>3
<1>6. handler' \in [Slots -> Handler]
  BY <1>5 DEF Restart
<1> QED
  BY <1>1, <1>2, <1>3, <1>4, <1>5, <1>6 DEF Restart, StoreStep, WorkerTypeOK, RoutesTypeOK,
     WorkerShape, HandlerShape, Worker, Handler, ChunkIds, JobIds

\* The inductive step, one case per kind of step.
LEMMA ShapeStep == Shape /\ [Next]_vars => Shape'
<1> SUFFICES ASSUME Shape, [Next]_vars PROVE Shape'
  OBVIOUS
<1>1. ASSUME NEW p \in Procs, Work(p) PROVE Shape'
  BY <1>1, WorkShape
<1>2. ASSUME NEW p \in Procs, Restart(p) PROVE Shape'
  BY <1>2, RestartShape
<1>3. ASSUME NEW r \in Slots, Request(r) \/ Serve(r) PROVE Shape'
  BY <1>3, RequestShape
<1>4. CASE UNCHANGED vars
  BY <1>4 DEF vars, Shape, StoreShape, StoreTypeOK, DocShape, JobShape, WorkerTypeOK, WorkerShape,
     WorkerOK, OneWorkerPerJob, RoutesTypeOK, HandlerShape, HandlerOK, DocOf, Yield, Uploading, At,
     JobIds, ChunkIds, Worker, Handler
<1> QED
  BY <1>1, <1>2, <1>3, <1>4 DEF Next

LEMMA ShapeInvariant == Spec => []Shape
  BY ShapeInit, ShapeStep, PTL DEF Spec

\* The types of all variables, whatever fails, restarts or interleaves.
THEOREM TypeCorrect == Spec => []TypeOK
<1>1. Shape => TypeOK
  BY DEF Shape, StoreShape, TypeOK
<1> QED
  BY <1>1, ShapeInvariant, PTL

\* No job is held by two workers, of however many processes: FOR UPDATE SKIP
\* LOCKED and the status column hand every job to one of them.
THEOREM ClaimsAreExclusive == Spec => []OneWorkerPerJob
<1>1. Shape => OneWorkerPerJob
  BY DEF Shape
<1> QED
  BY <1>1, ShapeInvariant, PTL
=============================================================================

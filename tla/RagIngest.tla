------------------------------ MODULE RagIngest ------------------------------
(***************************************************************************)
(* The document half of the server: the upload and delete handlers and the *)
(* ingest worker of every process, over the shared stores, with calls that *)
(* fail and processes that stop and start again at any point.              *)
(***************************************************************************)
EXTENDS RagWorker, RagRoutes

CONSTANT MaxCrashes  \* bound: process restarts

ASSUME CrashAssumption == MaxCrashes \in Nat

VARIABLE crashes

vars == <<documents, chunks, points, uploads, jobs, nextJob, failures,
          worker, handler, crashes>>

Init ==
    /\ StoreInit
    /\ WorkerInit
    /\ RoutesInit
    /\ crashes = 0

\* The process stops (killed, or lifespan cancels its tasks) and starts again:
\* its requests are gone, open transactions roll back, and lifespan starts a
\* new worker.  Nothing looks at jobs or documents left behind.
Restart(p) ==
    /\ crashes < MaxCrashes
    /\ crashes' = crashes + 1
    /\ worker' = [worker EXCEPT ![p] = Polling]
    /\ handler' = [r \in Slots |-> IF handler[r].proc = p THEN Idle ELSE handler[r]]
    /\ UNCHANGED storeVars

Work(p) == WorkerStep(p) /\ UNCHANGED <<handler, crashes>>

Request(r) == (\E p \in Procs : Arrive(r, p)) /\ UNCHANGED <<worker, crashes>>

Serve(r) == Continue(r, Locked) /\ UNCHANGED <<worker, crashes>>

Next ==
    \/ \E p \in Procs : Work(p) \/ Restart(p)
    \/ \E r \in Slots : Request(r) \/ Serve(r)

Spec == Init /\ [][Next]_vars

\* The event loop keeps running every task: a worker or a handler whose next
\* call can return is eventually resumed.  Nobody has to send a request.
Fairness ==
    /\ \A p \in Procs : WF_vars(Work(p))
    /\ \A r \in Slots : WF_vars(Serve(r))

FairSpec == Spec /\ Fairness

-----------------------------------------------------------------------------
(* Who is about to ingest a document: an upload that will enqueue a job,   *)
(* a queued job, or a worker that has claimed a job and not yet given it   *)
(* up.                                                                     *)

Busy == {"fetch", "read", "mark", "prepare", "no_text", "insert", "upsert",
         "set_done", "fail_doc"}

Uploads(d) == {r \in Slots : Uploading(r) /\ handler[r].doc = d}

Queued(d) == {j \in JobIds : jobs[j].doc = d /\ jobs[j].status = "queued"}

Workers(d) == {p \in Procs : worker[p].pc \in Busy /\ DocOf(p) = d}

InProgress(d) == Uploads(d) \cup Queued(d) \cup Workers(d) # {}

\* A document whose content has text when parsed as its format, or makes the
\* parser raise.  One without text is set to 'error' with the job still open:
\* when the reply to that update is lost a re-upload can overtake the job.
HasText(d) == Exists(d) /\ Yield(d) # 0

-----------------------------------------------------------------------------
(* Invariants.                                                             *)

\* Types of the variables.
TypeOK ==
    /\ StoreTypeOK
    /\ WorkerTypeOK
    /\ RoutesTypeOK
    /\ crashes \in Nat

\* At most one upload, queued job or worker is ingesting a document, however
\* uploads, retries, claims of several workers and restarts interleave
\* (FOR UPDATE SKIP LOCKED, the WHERE status = 'error' of create_document).
ExclusiveIngest ==
    \A d \in DocIds : HasText(d) =>
       /\ \A r, s \in Uploads(d) : r = s
       /\ \A j, k \in Queued(d) : j = k
       /\ \A p, q \in Workers(d) : p = q
       /\ Uploads(d) # {} => Queued(d) \cup Workers(d) = {}
       /\ Queued(d) # {} => Workers(d) = {}

\* A worker about to insert never collides with rows of an earlier attempt
\* (create_document purges them; UNIQUE (document_id, ordinal) never fires).
RetryCannotCollide ==
    \A p \in Procs :
       worker[p].pc = "insert" /\ HasText(DocOf(p)) => chunks[DocOf(p)] = {}

\* A document shown as done is all there: the rows of exactly one attempt, every
\* ordinal, chunk_count equal to their number, and a vector for each and no other.
DoneComplete ==
    \A d \in DocIds : documents[d].status = "done" =>
       /\ \E j \in JobIds : jobs[j].doc = d /\ chunks[d] = Batch(j, Yield(d))
       /\ documents[d].count = Yield(d)
       /\ points[d] = chunks[d]

\* Once ingestion of a document has started, no vector of it is left without
\* its row: a purge that failed keeps the document from ever being ingested.
VectorsHaveRows ==
    \A d \in DocIds : HasText(d) /\ documents[d].status # "pending" =>
       points[d] \subseteq chunks[d]

\* A job that is queued, or claimed and not yet read, finds the file of its
\* document under the name the row gives it.
FileForJob ==
    \A d \in DocIds : HasText(d) =>
       /\ Queued(d) # {} => <<d, documents[d].suffix>> \in uploads
       /\ \A p \in Workers(d) : worker[p].pc \in {"fetch", "read"} =>
             <<d, documents[d].suffix>> \in uploads
       /\ \A p \in Workers(d) : worker[p].pc = "read" =>
             worker[p].suffix = documents[d].suffix

-----------------------------------------------------------------------------
(* Refinement of DocumentLifecycle, for the documents that have text.      *)

Phase(d) ==
    CASE documents[d].status = "deleted"                  -> "deleted"
      [] documents[d].status = "done"                     -> "done"
      [] documents[d].status = "error"                    -> "failed"
      [] documents[d].status \in {"pending", "processing"} -> "working"
      [] OTHER                                            -> "absent"

\* The job all chunks of which a search can find; 0 when there are none.
IndexedBy(d) ==
    IF chunks[d] = {} THEN 0
    ELSE CHOOSE j \in JobIds : chunks[d] = Batch(j, Yield(d))

Textless(d) == documents[d].status # "absent" /\ Yield(d) = 0

Lifecycle == INSTANCE DocumentLifecycle WITH
    Attempts <- JobIds,
    phase <- [d \in DocIds |-> IF Textless(d) THEN "absent" ELSE Phase(d)],
    index <- [d \in DocIds |-> IF Textless(d) THEN 0 ELSE IndexedBy(d)]

\* Every step is a step of the life of one document, or leaves all as they are.
ImplementsLifecycle == Lifecycle!Spec

-----------------------------------------------------------------------------
(* Liveness, under FairSpec.                                               *)

Settled(d) == documents[d].status \in {"done", "error", "deleted"}

\* As long as no process restarts and no call fails, every accepted document
\* is ingested or found bad.
Settles ==
    [](crashes = 0 /\ failures = 0) =>
       \A d \in DocIds : (documents[d].status = "pending") ~> Settled(d)

\* A queued job is claimed (or goes with its document), across restarts too.
JobsAreClaimed ==
    [](failures = 0) =>
       \A j \in JobIds : (jobs[j].status = "queued") ~> (jobs[j].status # "queued")

-----------------------------------------------------------------------------
(* Statements of the repository the code does not keep.                    *)

\* create_document: "None if this owner already has this exact content ingested
\* or in progress".  A skipped upload is of a document that is.
DedupMeansLive ==
    [][\A r \in Slots :
          handler[r].pc = "idle" /\ handler'[r].pc = "skipped" =>
             LET d == handler'[r].doc
             IN  documents[d].status = "done" \/ InProgress(d)]_vars

\* test_rag_worker: the poll loop is "intentionally infinite".
WorkerPollsForever == \A p \in Procs : worker[p].pc # "dead"
=============================================================================

------------------------------ MODULE RagRoutes ------------------------------
(***************************************************************************)
(* app/rag_routes.py with create_document and delete_document of           *)
(* app/rag_store.py: the handlers of the upload and delete requests.  A    *)
(* slot handler[r] runs one request at a time, in the process that         *)
(* accepted it; its pc names the call it makes next.                       *)
(*                                                                         *)
(*   upload:  create_document -> purge -> write -> enqueue -> reply        *)
(*   delete:  read chunk ids -> lookup -> delete_row -> delete_points      *)
(*            -> unlink -> reply                                           *)
(*                                                                         *)
(* A request with several files is as many uploads in a row.  A file whose *)
(* suffix is not supported, or that is too large, reaches no store.        *)
(***************************************************************************)
EXTENDS RagStore

CONSTANT Slots       \* requests that can be in progress at the same time

VARIABLE handler

HandlerPC == {"idle", "purge", "write", "enqueue", "skipped",
              "lookup", "delete_row", "delete_points", "unlink"}

\* ids: chunk ids read before they are used; suffix: of the local filename.
Handler == [ pc     : HandlerPC,
             proc   : Procs \cup {Nil},
             user   : Users \cup {Nil},
             doc    : DocIds \cup {Nil},
             suffix : Formats \cup {Nil},
             ids    : SUBSET ChunkIds ]

Idle == [pc |-> "idle", proc |-> Nil, user |-> Nil, doc |-> Nil, suffix |-> Nil, ids |-> {}]

RoutesTypeOK == handler \in [Slots -> Handler]

RoutesInit == handler = [r \in Slots |-> Idle]

At(r, l) == handler[r].pc = l

Step(r, l) == handler' = [handler EXCEPT ![r].pc = l]

Leave(r) == handler' = [handler EXCEPT ![r] = Idle]

\* Uploads whose job is still to be created.
Uploading(r) == handler[r].pc \in {"purge", "write", "enqueue"}

\* Bound: no more uploads are accepted than there are job ids.
MayUpload == nextJob + Cardinality({r \in Slots : Uploading(r)}) <= MaxJobs

-----------------------------------------------------------------------------
\* create_document inserts a row for content this owner has not uploaded.
\* When the reply of the commit is lost the handler raises and the row stays.
CreateDocument(r, p, u, c, f, o) ==
    /\ At(r, "idle") /\ MayUpload
    /\ Conflicts(u, c) = {}
    /\ o # "raised"
    /\ Charge(o)
    /\ \E d \in DocIds :
          /\ documents[d].status = "absent"
          /\ NewDocument(d, u, c, f)
          /\ IF o = "ok"
             THEN handler' = [handler EXCEPT ![r] =
                     [pc |-> "write", proc |-> p, user |-> u, doc |-> d,
                      suffix |-> f, ids |-> {}]]
             ELSE UNCHANGED handler
    /\ UNCHANGED <<chunks, points, uploads, jobs, nextJob>>

\* Mutant: every document that is not done is reset, to free those left pending.
RetryUnfinished(r, p, u, c, f, o) ==
    /\ At(r, "idle") /\ MayUpload
    /\ o # "raised"
    /\ Charge(o)
    /\ \E d \in Conflicts(u, c) :
          /\ documents[d].status # "done"
          /\ ResetDocument(d, f)
          /\ IF o = "ok"
             THEN handler' = [handler EXCEPT ![r] =
                     [pc |-> IF chunks[d] = {} THEN "write" ELSE "purge",
                      proc |-> p, user |-> u, doc |-> d, suffix |-> f, ids |-> chunks[d]]]
             ELSE UNCHANGED handler
    /\ UNCHANGED <<points, uploads, jobs, nextJob>>

\* create_document resets the row of an attempt that failed and purges its
\* chunk rows in the same transaction.
RetryDocument(r, p, u, c, f, o) ==
    /\ At(r, "idle") /\ MayUpload
    /\ o # "raised"
    /\ Charge(o)
    /\ \E d \in Conflicts(u, c) :
          /\ documents[d].status = "error"
          /\ ResetDocument(d, f)
          /\ IF o = "ok"
             THEN handler' = [handler EXCEPT ![r] =
                     [pc |-> IF chunks[d] = {} THEN "write" ELSE "purge",
                      proc |-> p, user |-> u, doc |-> d, suffix |-> f, ids |-> chunks[d]]]
             ELSE UNCHANGED handler
    /\ UNCHANGED <<points, uploads, jobs, nextJob>>

\* create_document returns None: the upload is skipped as a duplicate.
SkipDuplicate(r, p, u, c) ==
    /\ At(r, "idle")
    /\ \E d \in Conflicts(u, c) :
          /\ documents[d].status # "error"
          /\ handler' = [handler EXCEPT ![r] =
                [Idle EXCEPT !.pc = "skipped", !.proc = p, !.user = u, !.doc = d]]
    /\ UNCHANGED storeVars

\* The handler of a skipped upload answers with the list of documents.
AnswerSkipped(r) ==
    /\ At(r, "skipped")
    /\ Leave(r)
    /\ UNCHANGED storeVars

\* Mutant: the vectors of the failed attempt are not deleted.
PurgeForgotten(r, o) ==
    /\ At(r, "purge")
    /\ Charge(o)
    /\ handler' = [handler EXCEPT ![r].pc = "write", ![r].ids = {}]
    /\ UNCHANGED <<documents, chunks, points, uploads, jobs, nextJob>>

\* The Qdrant delete of create_document, after its transaction.
PurgePoints(r, o) ==
    /\ At(r, "purge")
    /\ Charge(o)
    /\ IF Applied(o) THEN DeletePoints(handler[r].doc, handler[r].ids) ELSE UNCHANGED points
    /\ IF o = "ok" THEN handler' = [handler EXCEPT ![r].pc = "write", ![r].ids = {}] ELSE Leave(r)
    /\ UNCHANGED <<documents, chunks, uploads, jobs, nextJob>>

\* Mutant: an error of the write is swallowed.
WriteUploadIgnoringErrors(r, o) ==
    /\ At(r, "write")
    /\ Charge(o)
    /\ uploads' = IF Applied(o) THEN uploads \cup {<<handler[r].doc, handler[r].suffix>>}
                  ELSE uploads
    /\ Step(r, "enqueue")
    /\ UNCHANGED <<documents, chunks, points, jobs, nextJob>>

\* upload_path(doc["id"], filename).write_bytes(data).
WriteUpload(r, o) ==
    /\ At(r, "write")
    /\ Charge(o)
    /\ uploads' = IF Applied(o) THEN uploads \cup {<<handler[r].doc, handler[r].suffix>>}
                  ELSE uploads
    /\ IF o = "ok" THEN Step(r, "enqueue") ELSE Leave(r)
    /\ UNCHANGED <<documents, chunks, points, jobs, nextJob>>

\* enqueue_ingest_job, refused by the foreign key when the document is gone.
\* The handler ends here either way, so a lost reply looks like a good one.
Enqueue(r, o) ==
    /\ At(r, "enqueue") /\ nextJob <= MaxJobs
    /\ o # "lost"
    /\ IF Exists(handler[r].doc)
       THEN /\ Charge(o)
            /\ IF Applied(o) THEN EnqueueIngestJob(handler[r].doc) ELSE UNCHANGED <<jobs, nextJob>>
       ELSE o = "raised" /\ UNCHANGED <<jobs, nextJob, failures>>
    /\ Leave(r)
    /\ UNCHANGED <<documents, chunks, points, uploads>>

-----------------------------------------------------------------------------
\* delete_document reads the chunk ids of the document, whoever owns it.
ReadChunkIds(r, p, u, d) ==
    /\ At(r, "idle")
    /\ handler' = [handler EXCEPT ![r] =
          [pc |-> "lookup", proc |-> p, user |-> u, doc |-> d, suffix |-> Nil,
           ids |-> chunks[d]]]
    /\ UNCHANGED storeVars

\* Mutant: the row is read by id alone.
LookupAnyone(r) ==
    /\ At(r, "lookup")
    /\ LET d == handler[r].doc
       IN  IF Exists(d)
           THEN handler' = [handler EXCEPT ![r].pc = "delete_row",
                                           ![r].suffix = documents[d].suffix]
           ELSE Leave(r)
    /\ UNCHANGED storeVars

\* SELECT filename ... WHERE id AND owner; no row: the handler answers.
LookupOwned(r) ==
    /\ At(r, "lookup")
    /\ LET d == handler[r].doc
       IN  IF Exists(d) /\ documents[d].owner = handler[r].user
           THEN handler' = [handler EXCEPT ![r].pc = "delete_row",
                                           ![r].suffix = documents[d].suffix]
           ELSE Leave(r)
    /\ UNCHANGED storeVars

\* DELETE ... WHERE id AND owner.  The cascade to ingest_jobs waits for a job
\* row that a claim transaction holds (locked).
DeleteDocument(r, o, locked) ==
    /\ At(r, "delete_row")
    /\ \A j \in locked : jobs[j].doc # handler[r].doc
    /\ Charge(o)
    /\ LET d == handler[r].doc
       IN  IF Applied(o) /\ Exists(d) /\ documents[d].owner = handler[r].user
           THEN DeleteRow(d) ELSE UNCHANGED <<documents, chunks, jobs>>
    /\ IF o = "ok"
       THEN Step(r, IF handler[r].ids = {} THEN "unlink" ELSE "delete_points")
       ELSE Leave(r)
    /\ UNCHANGED <<points, uploads, nextJob>>

\* The Qdrant delete of the ids read at the start.
DeleteVectors(r, o) ==
    /\ At(r, "delete_points")
    /\ Charge(o)
    /\ IF Applied(o) THEN DeletePoints(handler[r].doc, handler[r].ids) ELSE UNCHANGED points
    /\ IF o = "ok" THEN Step(r, "unlink") ELSE Leave(r)
    /\ UNCHANGED <<documents, chunks, uploads, jobs, nextJob>>

\* path.unlink(missing_ok=True), and the handler answers, or raises when the
\* disk refuses; a local call loses no reply.
Unlink(r, o) ==
    /\ At(r, "unlink")
    /\ o # "lost"
    /\ Charge(o)
    /\ uploads' = IF Applied(o) THEN uploads \ {<<handler[r].doc, handler[r].suffix>>}
                  ELSE uploads
    /\ Leave(r)
    /\ UNCHANGED <<documents, chunks, points, jobs, nextJob>>

Arrive(r, p) ==
    \E u \in Users :
       \/ \E c \in Contents :
             \/ SkipDuplicate(r, p, u, c)
             \/ \E f \in Formats, o \in Outcomes :
                   CreateDocument(r, p, u, c, f, o) \/ RetryDocument(r, p, u, c, f, o)
       \/ \E d \in DocIds : ReadChunkIds(r, p, u, d)

Continue(r, locked) ==
    \/ AnswerSkipped(r) \/ LookupOwned(r)
    \/ \E o \in Outcomes :
          \/ PurgePoints(r, o) \/ WriteUpload(r, o) \/ Enqueue(r, o)
          \/ DeleteDocument(r, o, locked) \/ DeleteVectors(r, o) \/ Unlink(r, o)
=============================================================================

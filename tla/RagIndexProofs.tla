--------------------------- MODULE RagIndexProofs ---------------------------
(***************************************************************************)
(* The safety properties of RagIngest, for every value of the constants.   *)
(*                                                                         *)
(* The invariant says of every document with text what it looks like while *)
(* an upload, a queued job or a worker is busy with it (its one ticket),   *)
(* and that an 'error' document has no ticket, which is what makes the     *)
(* reset of create_document safe.                                          *)
(***************************************************************************)
EXTENDS RagIngestProofs

Up(r, d) == Uploading(r) /\ handler[r].doc = d
Qu(j, d) == jobs[j].status = "queued" /\ jobs[j].doc = d
Wk(p, d) == worker[p].pc \in Busy /\ DocOf(p) = d

Blank(d) == chunks[d] = {} /\ documents[d].count = 0

HasFile(d) == <<d, documents[d].suffix>> \in uploads

\* The rows of document d are those of job j.
Indexed(d, j) == chunks[d] = Batch(j, Yield(d)) /\ documents[d].count = Yield(d)

UpState(r, d) ==
    /\ documents[d].status = "pending" /\ Blank(d)
    /\ handler[r].suffix = documents[d].suffix
    /\ IF At(r, "purge") THEN points[d] \subseteq handler[r].ids ELSE points[d] = {}
    /\ At(r, "enqueue") => HasFile(d)

QuState(d) == documents[d].status = "pending" /\ Blank(d) /\ points[d] = {} /\ HasFile(d)

WkState(p, d) ==
    /\ worker[p].pc \in {"fetch", "read", "mark"} =>
          documents[d].status = "pending" /\ Blank(d) /\ points[d] = {}
    /\ worker[p].pc \in {"fetch", "read"} => HasFile(d)
    /\ worker[p].pc = "read" => worker[p].suffix = documents[d].suffix
    /\ worker[p].pc \in {"prepare", "insert"} =>
          documents[d].status = "processing" /\ Blank(d) /\ points[d] = {}
    /\ worker[p].pc = "upsert" =>
          documents[d].status = "processing" /\ Indexed(d, worker[p].job) /\ points[d] = {}
    /\ worker[p].pc = "set_done" =>
          documents[d].status = "processing" /\ Indexed(d, worker[p].job) /\ points[d] = chunks[d]
    /\ worker[p].pc = "fail_doc" => documents[d].status \in {"processing", "done"}

DocState(d) ==
    /\ documents[d].status = "done" =>
          /\ \E j \in JobIds : jobs[j].doc = d /\ Indexed(d, j)
          /\ points[d] = chunks[d]
    /\ documents[d].status # "pending" => points[d] \subseteq chunks[d]

OneTicket(d) ==
    /\ \A r, s \in Slots : Up(r, d) /\ Up(s, d) => r = s
    /\ \A j, k \in JobIds : Qu(j, d) /\ Qu(k, d) => j = k
    /\ \A p, q \in Procs : Wk(p, d) /\ Wk(q, d) => p = q
    /\ \A r \in Slots, j \in JobIds : ~ (Up(r, d) /\ Qu(j, d))
    /\ \A r \in Slots, p \in Procs : ~ (Up(r, d) /\ Wk(p, d))
    /\ \A j \in JobIds, p \in Procs : ~ (Qu(j, d) /\ Wk(p, d))

NoTicket(d) ==
    /\ \A r \in Slots : ~ Up(r, d)
    /\ \A j \in JobIds : ~ Qu(j, d)
    /\ \A p \in Procs : ~ Wk(p, d)

TicketInv(d) ==
    HasText(d) =>
       /\ \A r \in Slots : Up(r, d) => UpState(r, d)
       /\ \A j \in JobIds : Qu(j, d) => QuState(d)
       /\ \A p \in Procs : Wk(p, d) => WkState(p, d)
       /\ DocState(d)
       /\ OneTicket(d)
       /\ documents[d].status = "error" => NoTicket(d)

AbsentBlank == \A d \in DocIds : documents[d].status = "absent" => Blank(d) /\ points[d] = {}

DoneHasText == \A d \in DocIds : documents[d].status = "done" => Yield(d) > 0

IndexInv ==
    /\ Shape
    /\ AbsentBlank
    /\ DoneHasText
    /\ \A d \in DocIds : TicketInv(d)

-----------------------------------------------------------------------------
(* Frames.                                                                 *)

LEMMA IndexInit == Init => IndexInv
<1> SUFFICES ASSUME Init PROVE IndexInv
  OBVIOUS
<1>1. Shape
  BY ShapeInit
<1>2. \A d \in DocIds : documents[d].status = "absent" /\ Blank(d) /\ points[d] = {}
  BY DEF Init, StoreInit, NoDocument, Blank
<1> QED
  BY <1>1, <1>2 DEF IndexInv, AbsentBlank, DoneHasText, TicketInv, HasText, Exists

\* Identity and text of a document that is there before and after a step.
LEMMA SameYield ==
  ASSUME StoreStep, NEW d \in DocIds, documents[d].status # "absent"
  PROVE  Yield(d)' = Yield(d)
  BY DEF StoreStep, KeepsDocuments, Yield

\* A document that has text after a step had it before, unless it is new.
LEMMA HadText ==
  ASSUME StoreStep, NEW d \in DocIds, HasText(d)', documents[d].status # "absent"
  PROVE  HasText(d)
  BY SameYield DEF HasText, Exists, StoreStep, KeepsDocuments

\* What is stored of document d stays as it is.
FrameDoc(d) ==
    /\ documents'[d] = documents[d] /\ chunks'[d] = chunks[d] /\ points'[d] = points[d]
    /\ \A f \in Formats : <<d, f>> \in uploads => <<d, f>> \in uploads'

\* Tickets of d may be given up and none appears.
FrameTickets(d) ==
    /\ \A r \in Slots : Up(r, d)' => Up(r, d) /\ handler'[r] = handler[r]
    /\ \A j \in JobIds : Qu(j, d)' => Qu(j, d)
    /\ \A p \in Procs : Wk(p, d)' => Wk(p, d) /\ worker'[p] = worker[p]

LEMMA Framed ==
  ASSUME Shape, StoreStep, NEW d \in DocIds, TicketInv(d), FrameDoc(d), FrameTickets(d)
  PROVE  TicketInv(d)'
<1> SUFFICES ASSUME HasText(d)'
             PROVE  /\ \A r \in Slots : Up(r, d)' => UpState(r, d)'
                    /\ \A j \in JobIds : Qu(j, d)' => QuState(d)'
                    /\ \A p \in Procs : Wk(p, d)' => WkState(p, d)'
                    /\ DocState(d)'
                    /\ OneTicket(d)'
                    /\ documents'[d].status = "error" => NoTicket(d)'
  BY DEF TicketInv
<1>1. documents[d].status # "absent" /\ documents[d].suffix \in Formats /\ HasText(d)
  <2>1. documents[d].status # "absent"
    BY DEF HasText, Exists, FrameDoc
  <2> QED
    BY <2>1, HadText DEF Shape, StoreShape, DocShape
<1>2. Yield(d)' = Yield(d) /\ (HasFile(d) => HasFile(d)')
  BY <1>1, SameYield DEF HasFile, FrameDoc
<1>3. ASSUME NEW r \in Slots, Up(r, d)' PROVE UpState(r, d)'
  <2>1. UpState(r, d)
    BY <1>1, <1>3 DEF TicketInv, FrameTickets
  <2> QED
    BY <1>2, <1>3, <2>1 DEF UpState, FrameDoc, FrameTickets, Blank, At
<1>4. ASSUME NEW j \in JobIds, Qu(j, d)' PROVE QuState(d)'
  <2>1. QuState(d)
    BY <1>1, <1>4 DEF TicketInv, FrameTickets
  <2> QED
    BY <1>2, <2>1 DEF QuState, FrameDoc, Blank
<1>5. ASSUME NEW p \in Procs, Wk(p, d)' PROVE WkState(p, d)'
  <2>1. WkState(p, d) /\ worker'[p] = worker[p]
    BY <1>1, <1>5 DEF TicketInv, FrameTickets
  <2> QED
    BY <1>2, <2>1 DEF WkState, FrameDoc, Blank, Indexed
<1>6. DocState(d)'
  <2>1. DocState(d)
    BY <1>1 DEF TicketInv
  <2>2. \A j \in JobIds : jobs[j].doc = d => jobs'[j].doc = d
    BY NilAssumption DEF Shape, StoreShape, StoreStep, KeepsJobs, JobShape
  <2> QED
    BY <1>2, <2>1, <2>2 DEF DocState, Indexed, FrameDoc
<1>7. OneTicket(d)'
  BY <1>1 DEF TicketInv, OneTicket, FrameTickets
<1>8. documents'[d].status = "error" => NoTicket(d)'
  BY <1>1 DEF TicketInv, NoTicket, FrameTickets, FrameDoc
<1> QED
  BY <1>3, <1>4, <1>5, <1>6, <1>7, <1>8

\* A step of the worker that has the ticket of d: the others have none.
LEMMA SoleWorker ==
  ASSUME Shape, StoreStep, NEW d \in DocIds, HasText(d), TicketInv(d),
         NEW p \in Procs, Wk(p, d), handler' = handler, jobs' = jobs, WorkerMove(p),
         worker'[p].pc \in Busy => WkState(p, d)' /\ documents'[d].status # "error",
         DocState(d)'
  PROVE  TicketInv(d)'
<1>1. \A r \in Slots : ~ Up(r, d)'
  BY DEF TicketInv, OneTicket, Up, Uploading
<1>2. \A j \in JobIds : ~ Qu(j, d)'
  BY DEF TicketInv, OneTicket, Qu
<1>3. \A q \in Procs : Wk(q, d)' => q = p
  BY DEF TicketInv, OneTicket, Wk, WorkerMove, DocOf
<1>4. Wk(p, d)' => WkState(p, d)' /\ documents'[d].status # "error"
  BY DEF Wk
<1> QED
  BY <1>1, <1>2, <1>3, <1>4 DEF TicketInv, OneTicket, NoTicket

\* A step of the upload that has the ticket of d and keeps it.
LEMMA SoleUpload ==
  ASSUME Shape, StoreStep, NEW d \in DocIds, HasText(d), TicketInv(d),
         NEW r \in Slots, Up(r, d), worker' = worker, jobs' = jobs, HandlerMove(r),
         UpState(r, d)', DocState(d)'
  PROVE  TicketInv(d)'
<1>1. \A s \in Slots : Up(s, d)' => s = r
  BY DEF TicketInv, OneTicket, Up, Uploading, HandlerMove
<1>2. \A j \in JobIds : ~ Qu(j, d)'
  BY DEF TicketInv, OneTicket, Qu
<1>3. \A q \in Procs : ~ Wk(q, d)'
  BY DEF TicketInv, OneTicket, Wk, DocOf
<1>4. documents'[d].status # "error"
  BY DEF UpState
<1> QED
  BY <1>1, <1>2, <1>3, <1>4 DEF TicketInv, OneTicket, NoTicket

-----------------------------------------------------------------------------
(* The steps of a worker.                                                  *)

\* A worker that holds a job goes on with it or gives it up.
LEMMA WorkerKeepsJob ==
  ASSUME WorkerTypeOK, NEW p \in Procs, WorkerStep(p),
         worker[p].pc \in Held, worker'[p].pc \in Held
  PROVE  worker'[p].job = worker[p].job
<1>1. ASSUME NEW l, Goto(p, l) PROVE worker'[p].job = worker[p].job
  BY <1>1 DEF Goto, WorkerTypeOK, Worker
<1>2. CASE worker' = [worker EXCEPT ![p] = Polling] \/ worker' = [worker EXCEPT ![p] = Dead]
  BY <1>2 DEF Polling, Dead, Held, WorkerTypeOK
<1>3. ASSUME NEW o \in Outcomes, GetDocument(p, o) PROVE worker'[p].job = worker[p].job
  <2>1. CASE worker' = [worker EXCEPT ![p].pc = "read",
                                      ![p].suffix = documents[DocOf(p)].suffix,
                                      ![p].format = documents[DocOf(p)].format]
    BY <2>1 DEF WorkerTypeOK, Worker
  <2> QED
    BY <1>1, <1>2, <1>3, <2>1 DEF GetDocument
<1>4. ASSUME NEW o \in Outcomes,
             CommitClaim(p, o) \/ FinishMissing(p, o) \/ FinishOk(p, o) \/ FailJob(p, o)
      PROVE  worker'[p].job = worker[p].job
  BY <1>1, <1>2, <1>4 DEF CommitClaim, FinishMissing, FinishOk, FailJob
<1>5. ASSUME NEW o \in Outcomes,
             \/ ReadFile(p, o) \/ MarkProcessing(p, o) \/ Prepare(p, o) \/ NoText(p, o)
             \/ InsertChunks(p, o) \/ UpsertVectors(p, o) \/ SetDone(p, o) \/ FailDocument(p, o)
      PROVE  worker'[p].job = worker[p].job
  <2>1. \E l : Goto(p, l)
    BY <1>5 DEF ReadFile, MarkProcessing, Prepare, NoText, InsertChunks, UpsertVectors, SetDone,
       FailDocument, GoOn
  <2> QED
    BY <1>1, <2>1
<1>6. ~ LockJob(p)
  BY DEF LockJob, Held
<1> QED
  BY <1>3, <1>4, <1>5, <1>6 DEF WorkerStep

\* A worker step creates no ticket but its own.
LEMMA WorkerFrameTickets ==
  ASSUME Shape, StoreStep, NEW p \in Procs, WorkerStep(p), WorkerMove(p), handler' = handler,
         NEW d \in DocIds,
         worker'[p].pc \in Busy /\ worker[p].pc \in Held => DocOf(p) # d
  PROVE  FrameTickets(d)
<1>1. \A r \in Slots : Up(r, d)' => Up(r, d) /\ handler'[r] = handler[r]
  BY DEF Up, Uploading
<1>2. \A j \in JobIds : Qu(j, d)' => Qu(j, d)
  BY HeldJob DEF Qu, WorkerMove, StoreStep, KeepsJobs
<1>3. ASSUME NEW q \in Procs, q # p, Wk(q, d)' PROVE Wk(q, d) /\ worker'[q] = worker[q]
  <2>1. worker'[q] = worker[q] /\ worker[q].pc \in Held
    BY <1>3 DEF WorkerMove, Wk, Busy, Held
  <2> QED
    BY <1>3, <2>1, HeldJob DEF Wk, DocOf, StoreStep, KeepsJobs
<1>4. ~ Wk(p, d)'
  <2>1. CASE worker[p].pc \in Held
    <3>1. worker'[p].pc \in Busy => worker'[p].job = worker[p].job
      BY <2>1, WorkerKeepsJob DEF Busy, Held, Shape
    <3> QED
      BY <2>1, <3>1, HeldJob DEF Wk, DocOf, StoreStep, KeepsJobs
  <2>2. CASE worker[p].pc \notin Held
    <3>1. LockJob(p)
      BY <2>2 DEF WorkerStep, CommitClaim, GetDocument, FinishMissing, ReadFile,
         MarkProcessing, Prepare, NoText, InsertChunks, UpsertVectors, SetDone, FinishOk,
         FailDocument, FailJob, Held
    <3>2. worker'[p].pc = "claiming"
      BY <3>1 DEF LockJob, Shape, WorkerTypeOK, Worker
    <3> QED
      BY <3>2 DEF Wk, Busy
  <2> QED
    BY <2>1, <2>2
<1> QED
  BY <1>1, <1>2, <1>3, <1>4 DEF FrameTickets

\* It leaves alone what is stored of documents that are not its own.
LEMMA WorkerFrameDoc ==
  ASSUME Shape, NEW p \in Procs, WorkerStep(p), NEW d \in DocIds, d # DocOf(p)
  PROVE  FrameDoc(d)
<1>0. /\ documents \in [DocIds -> Document]
      /\ chunks \in [DocIds -> SUBSET ChunkIds]
      /\ points \in [DocIds -> SUBSET ChunkIds]
  BY DEF Shape, StoreShape, StoreTypeOK
<1>1. CASE UNCHANGED <<documents, chunks, points, uploads>>
  BY <1>1 DEF FrameDoc
<1>2. ASSUME NEW s, SetDocumentStatus(DocOf(p), s), UNCHANGED <<chunks, points, uploads>>
      PROVE  FrameDoc(d)
  BY <1>0, <1>2 DEF SetDocumentStatus, FrameDoc
<1>3. ASSUME NEW o \in Outcomes, InsertChunks(p, o)
      PROVE  FrameDoc(d)
  BY <1>0, <1>3 DEF InsertChunks, InsertRows, FrameDoc
<1>4. ASSUME NEW o \in Outcomes, UpsertVectors(p, o)
      PROVE  FrameDoc(d)
  BY <1>0, <1>4 DEF UpsertVectors, UpsertPoints, FrameDoc
<1>5. ASSUME NEW o \in Outcomes, MarkProcessing(p, o) \/ NoText(p, o) \/ SetDone(p, o) \/ FailDocument(p, o)
      PROVE  FrameDoc(d)
  BY <1>1, <1>2, <1>5 DEF MarkProcessing, NoText, SetDone, FailDocument
<1>6. ASSUME NEW o \in Outcomes, \/ CommitClaim(p, o) \/ GetDocument(p, o) \/ FinishMissing(p, o)
                                 \/ ReadFile(p, o) \/ Prepare(p, o) \/ FinishOk(p, o) \/ FailJob(p, o)
      PROVE  FrameDoc(d)
  BY <1>1, <1>6 DEF CommitClaim, GetDocument, FinishMissing, ReadFile, Prepare, FinishOk, FailJob
<1>7. CASE LockJob(p)
  BY <1>1, <1>7 DEF LockJob, storeVars
<1> QED
  BY <1>3, <1>4, <1>5, <1>6, <1>7 DEF WorkerStep

\* A worker on its own document d, which has text.
OnOwn(p, d) ==
    /\ Shape /\ StoreStep /\ TicketInv(d) /\ HasText(d)
    /\ WorkerStep(p) /\ WorkerMove(p) /\ handler' = handler
    /\ worker[p].pc \in Held /\ d = DocOf(p)

\* It gives its ticket up and changes nothing of d.
LEMMA OwnGivenUp ==
  ASSUME NEW p \in Procs, NEW d \in DocIds, OnOwn(p, d), worker'[p].pc \notin Busy,
         UNCHANGED <<documents, chunks, points, uploads>>
  PROVE  TicketInv(d)'
<1>1. FrameDoc(d)
  BY DEF FrameDoc
<1>2. FrameTickets(d)
  BY WorkerFrameTickets DEF OnOwn
<1> QED
  BY <1>1, <1>2, Framed DEF OnOwn

\* It goes on with pc l.
LEMMA OwnGoesOn ==
  ASSUME NEW p \in Procs, NEW d \in DocIds, OnOwn(p, d), worker[p].pc \in Busy,
         NEW l \in WorkerPC, Goto(p, l), jobs' = jobs,
         l \in Busy => WkState(p, d)' /\ documents'[d].status # "error",
         DocState(d)'
  PROVE  TicketInv(d)'
<1>1. Wk(p, d)
  BY DEF OnOwn, Wk
<1>2. worker'[p].pc = l
  BY DEF Goto, OnOwn, Shape, WorkerTypeOK, Worker
<1> QED
  BY <1>1, <1>2, SoleWorker DEF OnOwn

LEMMA OwnFacts ==
  ASSUME NEW p \in Procs, NEW d \in DocIds, OnOwn(p, d)
  PROVE  /\ documents[d].status # "absent" /\ documents[d].suffix \in Formats
         /\ Exists(d)
         /\ documents \in [DocIds -> Document]
         /\ chunks \in [DocIds -> SUBSET ChunkIds]
         /\ points \in [DocIds -> SUBSET ChunkIds]
         /\ Yield(d)' = Yield(d) /\ Yield(d) # 0
         /\ DocState(d)
         /\ worker[p].pc \in Busy => WkState(p, d)
         /\ worker[p].pc \in Fetched => worker[p].format = documents[d].format
         /\ worker[p].pc # "no_text"
         /\ worker[p].pc \in {"insert", "upsert", "set_done"} => Yield(d) > 0
         /\ worker[p].job \in JobIds /\ jobs[worker[p].job].doc = d
<1>1. Exists(d) /\ documents[d].status # "absent" /\ Yield(d) # 0
  BY DEF OnOwn, HasText, Exists
<1>2. documents[d].suffix \in Formats
  BY <1>1 DEF OnOwn, Shape, StoreShape, DocShape
<1>3. /\ documents \in [DocIds -> Document]
      /\ chunks \in [DocIds -> SUBSET ChunkIds]
      /\ points \in [DocIds -> SUBSET ChunkIds]
  BY DEF OnOwn, Shape, StoreShape, StoreTypeOK
<1>4. Yield(d)' = Yield(d)
  BY <1>1, SameYield DEF OnOwn
<1>5. DocState(d) /\ (worker[p].pc \in Busy => WkState(p, d))
  BY DEF OnOwn, TicketInv, Wk
<1>6. WorkerOK(p)
  BY DEF OnOwn, Shape, WorkerShape
<1>7. worker[p].job \in JobIds /\ jobs[worker[p].job].doc = d
  BY HeldJob DEF OnOwn, DocOf
<1> QED
  BY <1>1, <1>2, <1>3, <1>4, <1>5, <1>6, <1>7 DEF WorkerOK, OnOwn

LEMMA OwnRead ==
  ASSUME NEW p \in Procs, NEW d \in DocIds, OnOwn(p, d), NEW o \in Outcomes,
         GetDocument(p, o) \/ ReadFile(p, o)
  PROVE  TicketInv(d)'
<1>1. UNCHANGED <<documents, chunks, points, uploads, jobs>>
  BY DEF GetDocument, ReadFile
<1>2. WorkerTypeOK /\ worker[p].pc \in Busy
  BY DEF OnOwn, Shape, GetDocument, ReadFile, Busy
<1>3. DocState(d)'
  BY <1>1, OwnFacts DEF DocState, Indexed
<1>4. CASE worker'[p].pc \notin Busy
  BY <1>1, <1>4, OwnGivenUp
<1>5. CASE worker'[p].pc \in Busy /\ GetDocument(p, o)
  <2>1. worker' = [worker EXCEPT ![p].pc = "read", ![p].suffix = documents[DocOf(p)].suffix,
                                 ![p].format = documents[DocOf(p)].format]
    BY <1>2, <1>5 DEF GetDocument, Goto, Dead, Polling, Busy, WorkerTypeOK, Worker
  <2>2. worker'[p].pc = "read" /\ worker'[p].suffix = documents[d].suffix
    BY <1>2, <2>1 DEF WorkerTypeOK, Worker, OnOwn
  <2>3. worker[p].pc = "fetch" /\ documents[d].status = "pending" /\ Blank(d)
        /\ points[d] = {} /\ HasFile(d)
    BY <1>2, <1>5, OwnFacts DEF GetDocument, WkState
  <2>4. WkState(p, d)' /\ documents'[d].status # "error"
    BY <1>1, <2>2, <2>3 DEF WkState, Blank, HasFile
  <2> QED
    BY <1>1, <1>2, <1>3, <2>4, SoleWorker DEF OnOwn, Wk
<1>6. CASE worker'[p].pc \in Busy /\ ReadFile(p, o)
  <2>1. Goto(p, "mark")
    BY <1>2, <1>6 DEF ReadFile, Goto, Busy, WorkerTypeOK, Worker
  <2>2. worker'[p].pc = "mark"
    BY <1>2, <2>1 DEF Goto, WorkerTypeOK, Worker
  <2>3. worker[p].pc = "read" /\ documents[d].status = "pending" /\ Blank(d) /\ points[d] = {}
    BY <1>2, <1>6, OwnFacts DEF ReadFile, WkState
  <2>4. WkState(p, d)' /\ documents'[d].status # "error"
    BY <1>1, <2>2, <2>3 DEF WkState, Blank
  <2> QED
    BY <1>1, <1>2, <1>3, <2>1, <2>4, OwnGoesOn DEF WorkerPC
<1> QED
  BY <1>4, <1>5, <1>6

LEMMA OwnMark ==
  ASSUME NEW p \in Procs, NEW d \in DocIds, OnOwn(p, d), NEW o \in Outcomes,
         MarkProcessing(p, o)
  PROVE  TicketInv(d)'
<1>1. worker[p].pc = "mark" /\ UNCHANGED <<chunks, points, uploads, jobs>>
  BY DEF MarkProcessing
<1>2. documents[d].status = "pending" /\ Blank(d) /\ points[d] = {}
  BY <1>1, OwnFacts DEF WkState, Busy
<1>3. documents'[d].status \in {"pending", "processing"} /\ documents'[d].count = documents[d].count
  BY <1>2, OwnFacts DEF MarkProcessing, SetDocumentStatus, Document, OnOwn
<1>4. DocState(d)'
  BY <1>1, <1>2, <1>3 DEF DocState
<1>5. CASE o = "ok"
  <2>1. Goto(p, "prepare") /\ documents'[d].status = "processing"
    BY <1>5, OwnFacts DEF MarkProcessing, GoOn, Applied, SetDocumentStatus, Document, OnOwn
  <2>2. worker'[p].pc = "prepare"
    BY <2>1 DEF Goto, OnOwn, Shape, WorkerTypeOK, Worker
  <2>3. WkState(p, d)'
    BY <1>1, <1>2, <1>3, <2>1, <2>2 DEF WkState, Blank
  <2> QED
    BY <1>1, <1>4, <2>1, <2>3, OwnGoesOn DEF Busy, WorkerPC
<1>6. CASE o # "ok"
  <2>1. Goto(p, "fail_job")
    BY <1>6 DEF MarkProcessing, GoOn
  <2> QED
    BY <1>1, <1>4, <2>1, OwnGoesOn DEF Busy, WorkerPC
<1> QED
  BY <1>5, <1>6

LEMMA OwnPrepare ==
  ASSUME NEW p \in Procs, NEW d \in DocIds, OnOwn(p, d), NEW o \in Outcomes,
         Prepare(p, o)
  PROVE  TicketInv(d)'
<1>1. worker[p].pc = "prepare" /\ UNCHANGED <<documents, chunks, points, uploads, jobs>>
  BY DEF Prepare
<1>2. documents[d].status = "processing" /\ Blank(d) /\ points[d] = {}
  BY <1>1, OwnFacts DEF WkState, Busy
<1>3. DocState(d)'
  BY <1>1, OwnFacts DEF DocState, Indexed
<1>4. PICK l \in {"insert", "fail_doc"} : Goto(p, l)
  <2>1. Extract[documents[DocOf(p)].content][worker[p].format] = Yield(d)
    BY <1>1, OwnFacts DEF Yield, OnOwn, Fetched
  <2> QED
    BY <2>1, OwnFacts DEF Prepare
<1>5. worker'[p].pc = l
  BY <1>4 DEF Goto, OnOwn, Shape, WorkerTypeOK, Worker
<1>6. WkState(p, d)' /\ documents'[d].status # "error"
  BY <1>1, <1>2, <1>5 DEF WkState, Blank
<1> QED
  BY <1>1, <1>3, <1>4, <1>6, OwnGoesOn DEF Busy, WorkerPC

LEMMA OwnInsert ==
  ASSUME NEW p \in Procs, NEW d \in DocIds, OnOwn(p, d), NEW o \in Outcomes,
         InsertChunks(p, o)
  PROVE  TicketInv(d)'
<1>1. worker[p].pc = "insert" /\ UNCHANGED <<points, uploads, jobs>>
  BY DEF InsertChunks
<1>2. documents[d].status = "processing" /\ Blank(d) /\ points[d] = {}
  BY <1>1, OwnFacts DEF WkState, Busy
<1>3. Extract[documents[DocOf(p)].content][worker[p].format] = Yield(d) /\ Yield(d) > 0
  BY <1>1, OwnFacts DEF Yield, OnOwn, Fetched
<1>4. PICK l \in {"upsert", "fail_doc"} : Goto(p, l)
  BY <1>1 DEF InsertChunks, GoOn
<1>5. worker'[p].pc = l /\ worker'[p].job = worker[p].job
  BY <1>4 DEF Goto, OnOwn, Shape, WorkerTypeOK, Worker
<1>6. CASE UNCHANGED <<documents, chunks>>
  <2>1. DocState(d)'
    BY <1>1, <1>6, OwnFacts DEF DocState, Indexed
  <2>2. CanInsert(d, Batch(worker[p].job, Yield(d)))
    BY <1>2, OwnFacts DEF CanInsert, Blank, Ordinals
  <2>3. ~ Applied(o)
    <3> SUFFICES ASSUME Applied(o) PROVE FALSE
      OBVIOUS
    <3>1. InsertRows(d, Batch(worker[p].job, Yield(d)), Yield(d))
      BY <1>3, <2>2 DEF InsertChunks, OnOwn
    <3>2. <<worker[p].job, 0>> \in Batch(worker[p].job, Yield(d))
      <4>1. Yield(d) \in Int
        BY OwnFacts, ExtractAssumption DEF Yield, OnOwn, Shape, StoreShape, DocShape
      <4> QED
        BY <1>3, <4>1 DEF Batch
    <3>3. chunks'[d] # {}
      BY <3>1, <3>2, OwnFacts DEF InsertRows
    <3> QED
      BY <1>2, <1>6, <3>3 DEF Blank
  <2>4. l = "fail_doc"
    BY <1>3, <1>5, <2>2, <2>3 DEF InsertChunks, GoOn, Goto, Applied, OnOwn, Shape, WorkerTypeOK, Worker
  <2>5. WkState(p, d)' /\ documents'[d].status # "error"
    BY <1>2, <1>5, <1>6, <2>4 DEF WkState
  <2> QED
    BY <1>1, <1>4, <2>1, <2>5, OwnGoesOn DEF Busy, WorkerPC
<1>7. CASE ~ UNCHANGED <<documents, chunks>>
  <2>1. InsertRows(d, Batch(worker[p].job, Yield(d)), Yield(d))
    BY <1>3, <1>7 DEF InsertChunks, OnOwn
  <2>2. chunks'[d] = Batch(worker[p].job, Yield(d))
    BY <1>2, <2>1, OwnFacts DEF InsertRows, Blank
  <2>3. documents'[d].count = Yield(d) /\ documents'[d].status = "processing"
    <3>1. Yield(d) \in Int
      BY OwnFacts, ExtractAssumption DEF Yield, OnOwn, Shape, StoreShape, DocShape
    <3>2. documents' = [documents EXCEPT ![d].count = documents[d].count + Yield(d)]
      BY <2>1 DEF InsertRows
    <3>3. documents[d] \in Document
      BY OwnFacts
    <3> QED
      BY <1>2, <3>1, <3>2, <3>3, OwnFacts DEF Blank, Document
  <2>4. Indexed(d, worker[p].job)' /\ points'[d] = {}
    BY <1>1, <1>2, <1>5, <2>2, <2>3, OwnFacts DEF Indexed
  <2>5. DocState(d)'
    BY <2>3, <2>4 DEF DocState
  <2>6. WkState(p, d)' /\ documents'[d].status # "error"
    BY <1>5, <2>3, <2>4 DEF WkState
  <2> QED
    BY <1>1, <1>4, <2>5, <2>6, OwnGoesOn DEF Busy, WorkerPC
<1> QED
  BY <1>6, <1>7

LEMMA OwnUpsert ==
  ASSUME NEW p \in Procs, NEW d \in DocIds, OnOwn(p, d), NEW o \in Outcomes,
         UpsertVectors(p, o)
  PROVE  TicketInv(d)'
<1>1. worker[p].pc = "upsert" /\ UNCHANGED <<documents, chunks, uploads, jobs>>
  BY DEF UpsertVectors
<1>2. documents[d].status = "processing" /\ Indexed(d, worker[p].job) /\ points[d] = {}
  BY <1>1, OwnFacts DEF WkState, Busy
<1>3. Extract[documents[DocOf(p)].content][worker[p].format] = Yield(d)
  BY <1>1, OwnFacts DEF Yield, OnOwn, Fetched
<1>4. points'[d] = {} \/ points'[d] = chunks[d]
  <2>1. CASE points' = points
    BY <1>2, <2>1
  <2>2. CASE UpsertPoints(d, Batch(worker[p].job, Yield(d)))
    BY <1>2, <2>2, OwnFacts DEF UpsertPoints, Indexed
  <2> QED
    BY <1>3, <2>1, <2>2 DEF UpsertVectors, OnOwn
<1>5. DocState(d)'
  BY <1>1, <1>2, <1>4 DEF DocState
<1>6. CASE o = "ok"
  <2>1. Goto(p, "set_done") /\ points'[d] = chunks[d]
    <3>1. UpsertPoints(d, Batch(worker[p].job, Yield(d)))
      BY <1>3, <1>6 DEF UpsertVectors, OnOwn, Applied
    <3> QED
      BY <1>2, <1>6, <3>1, OwnFacts DEF UpsertVectors, GoOn, UpsertPoints, Indexed
  <2>2. worker'[p].pc = "set_done" /\ worker'[p].job = worker[p].job
    BY <2>1 DEF Goto, OnOwn, Shape, WorkerTypeOK, Worker
  <2>3. Indexed(d, worker[p].job)'
    BY <1>1, <1>2, <2>2, OwnFacts DEF Indexed
  <2>4. WkState(p, d)' /\ documents'[d].status # "error"
    BY <1>1, <1>2, <2>1, <2>2, <2>3 DEF WkState, Indexed
  <2> QED
    BY <1>1, <1>5, <2>1, <2>4, OwnGoesOn DEF Busy, WorkerPC
<1>7. CASE o # "ok"
  <2>1. Goto(p, "fail_doc")
    BY <1>7 DEF UpsertVectors, GoOn
  <2>2. worker'[p].pc = "fail_doc"
    BY <2>1 DEF Goto, OnOwn, Shape, WorkerTypeOK, Worker
  <2>3. WkState(p, d)' /\ documents'[d].status # "error"
    BY <1>1, <1>2, <2>2 DEF WkState
  <2> QED
    BY <1>1, <1>5, <2>1, <2>3, OwnGoesOn DEF Busy, WorkerPC
<1> QED
  BY <1>6, <1>7

LEMMA OwnSetDone ==
  ASSUME NEW p \in Procs, NEW d \in DocIds, OnOwn(p, d), NEW o \in Outcomes,
         SetDone(p, o)
  PROVE  TicketInv(d)'
<1>1. worker[p].pc = "set_done" /\ UNCHANGED <<chunks, points, uploads, jobs>>
  BY DEF SetDone
<1>2. documents[d].status = "processing" /\ Indexed(d, worker[p].job) /\ points[d] = chunks[d]
  BY <1>1, OwnFacts DEF WkState, Busy
<1>3. documents'[d].status \in {"processing", "done"} /\ documents'[d].count = documents[d].count
  BY <1>2, OwnFacts DEF SetDone, SetDocumentStatus, Document, OnOwn
<1>4. jobs[worker[p].job].doc = d /\ worker[p].job \in JobIds
      /\ chunks'[d] = Batch(worker[p].job, Yield(d)') /\ documents'[d].count = Yield(d)'
  BY <1>1, <1>2, <1>3, OwnFacts DEF Indexed
<1>5. DocState(d)'
  BY <1>1, <1>2, <1>3, <1>4 DEF DocState, Indexed
<1>6. PICK l \in {"finish_ok", "fail_doc"} : Goto(p, l)
  BY DEF SetDone, GoOn
<1>7. worker'[p].pc = l
  BY <1>6 DEF Goto, OnOwn, Shape, WorkerTypeOK, Worker
<1>8. WkState(p, d)' /\ documents'[d].status # "error"
  BY <1>3, <1>7 DEF WkState
<1> QED
  BY <1>1, <1>5, <1>6, <1>8, OwnGoesOn DEF Busy, WorkerPC

LEMMA OwnFailDocument ==
  ASSUME NEW p \in Procs, NEW d \in DocIds, OnOwn(p, d), NEW o \in Outcomes,
         FailDocument(p, o)
  PROVE  TicketInv(d)'
<1>1. worker[p].pc = "fail_doc" /\ Goto(p, "fail_job") /\ UNCHANGED <<chunks, points, uploads, jobs>>
  BY DEF FailDocument
<1>2. documents[d].status \in {"processing", "done"}
  BY <1>1, OwnFacts DEF WkState, Busy
<1>3. \/ documents' = documents
      \/ documents'[d].status = "error"
  BY OwnFacts DEF FailDocument, SetDocumentStatus, Document, OnOwn
<1>4. DocState(d)'
  <2>1. CASE documents' = documents
    BY <1>1, <2>1, OwnFacts DEF DocState, Indexed
  <2>2. CASE documents'[d].status = "error"
    BY <1>1, <1>2, <2>2, OwnFacts DEF DocState
  <2> QED
    BY <1>3, <2>1, <2>2
<1> QED
  BY <1>1, <1>4, OwnGoesOn DEF Busy, WorkerPC

\* The claim of a queued job turns its ticket into the worker's.
LEMMA OwnClaim ==
  ASSUME NEW p \in Procs, NEW d \in DocIds, OnOwn(p, d), NEW o \in Outcomes,
         CommitClaim(p, o)
  PROVE  TicketInv(d)'
<1>1. worker[p].pc = "claiming" /\ UNCHANGED <<documents, chunks, points, uploads>>
  BY DEF CommitClaim
<1>2. WorkerTypeOK /\ StoreTypeOK
  BY DEF OnOwn, Shape, StoreShape
<1>3. CASE o # "ok"
  <2>1. worker'[p].pc \notin Busy
    BY <1>2, <1>3 DEF CommitClaim, Polling, Busy, WorkerTypeOK
  <2> QED
    BY <1>1, <2>1, OwnGivenUp
<1>4. CASE o = "ok"
  <2>1. ClaimJob(worker[p].job) /\ Goto(p, "fetch")
    BY <1>4 DEF CommitClaim, Applied
  <2>2. worker'[p].pc = "fetch" /\ worker'[p].job = worker[p].job
    BY <1>2, <2>1 DEF Goto, WorkerTypeOK, Worker
  <2>3. Qu(worker[p].job, d) /\ worker[p].job \in JobIds
    BY <1>1, OwnFacts DEF OnOwn, Shape, WorkerShape, WorkerOK, Qu
  <2>4. QuState(d) /\ OneTicket(d)
    BY <2>3 DEF OnOwn, TicketInv
  <2>5. /\ \A j \in JobIds : Qu(j, d)' => Qu(j, d) /\ j # worker[p].job
        /\ \A j \in JobIds : jobs'[j].doc = jobs[j].doc
    BY <1>2, <2>1, <2>3 DEF ClaimJob, Qu, StoreTypeOK, Job
  <2>6. /\ \A r \in Slots : ~ Up(r, d)'
        /\ \A j \in JobIds : ~ Qu(j, d)'
    BY <2>3, <2>4, <2>5 DEF OneTicket, Up, Uploading, OnOwn
  <2>7. ASSUME NEW q \in Procs, Wk(q, d)' PROVE q = p
    <3> SUFFICES ASSUME q # p PROVE FALSE
      OBVIOUS
    <3>1. worker'[q] = worker[q] /\ worker[q].pc \in Held
      BY <2>7 DEF OnOwn, WorkerMove, Wk, Busy, Held
    <3>2. Wk(q, d)
      BY <2>5, <2>7, <3>1, HeldJob DEF Wk, DocOf, OnOwn
    <3> QED
      BY <2>3, <2>4, <3>2 DEF OneTicket
  <2>8. WkState(p, d)'
    BY <1>1, <2>2, <2>4 DEF QuState, WkState, Blank, HasFile
  <2>9. DocState(d)' /\ documents'[d].status # "error"
    BY <1>1, <2>4 DEF QuState, DocState
  <2> QED
    BY <2>6, <2>7, <2>8, <2>9 DEF TicketInv, OneTicket, NoTicket
<1> QED
  BY <1>3, <1>4

LEMMA WorkTickets ==
  ASSUME IndexInv, NEW p \in Procs, Work(p), NEW d \in DocIds
  PROVE  TicketInv(d)'
<1>1. Shape /\ TicketInv(d) /\ WorkerStep(p) /\ handler' = handler
  BY DEF IndexInv, Work
<1>2. StoreStep /\ WorkerMove(p)
  BY <1>1, WorkerStoreStep, WorkerMoves
<1>3. CASE d # DocOf(p) \/ worker[p].pc \notin Held
  <2>1. FrameDoc(d)
    <3>1. CASE worker[p].pc \notin Held
      <4>1. LockJob(p)
        BY <1>1, <3>1 DEF WorkerStep, CommitClaim, GetDocument, FinishMissing, ReadFile,
           MarkProcessing, Prepare, NoText, InsertChunks, UpsertVectors, SetDone, FinishOk,
           FailDocument, FailJob, Held
      <4> QED
        BY <4>1 DEF LockJob, storeVars, FrameDoc
    <3> QED
      BY <1>1, <1>3, <3>1, WorkerFrameDoc
  <2>2. FrameTickets(d)
    BY <1>1, <1>2, <1>3, WorkerFrameTickets
  <2> QED
    BY <1>1, <1>2, <2>1, <2>2, Framed
<1>4. CASE d = DocOf(p) /\ worker[p].pc \in Held /\ ~ HasText(d)
  BY <1>1, <1>2, <1>4, HadText, HeldJob DEF TicketInv
<1>5. CASE d = DocOf(p) /\ worker[p].pc \in Held /\ HasText(d)
  <2>1. OnOwn(p, d)
    BY <1>1, <1>2, <1>5 DEF OnOwn
  <2>2. WorkerTypeOK
    BY <1>1 DEF Shape
  <2>3. ASSUME NEW o \in Outcomes, FinishMissing(p, o) \/ FinishOk(p, o) \/ FailJob(p, o)
        PROVE  TicketInv(d)'
    <3>1. UNCHANGED <<documents, chunks, points, uploads>>
      BY <2>3 DEF FinishMissing, FinishOk, FailJob
    <3>2. \/ Goto(p, "fail_job")
          \/ worker' = [worker EXCEPT ![p] = Polling]
          \/ worker' = [worker EXCEPT ![p] = Dead]
      BY <2>3 DEF FinishMissing, FinishOk, FailJob
    <3>3. worker'[p].pc \notin Busy
      BY <2>2, <3>2 DEF Goto, Polling, Dead, Busy, WorkerTypeOK, Worker
    <3> QED
      BY <2>1, <3>1, <3>3, OwnGivenUp
  <2>4. ASSUME NEW o \in Outcomes PROVE ~ NoText(p, o)
    BY <2>1, OwnFacts DEF NoText
  <2>5. ~ LockJob(p)
    BY <1>5 DEF LockJob, Held
  <2> QED
    BY <1>1, <2>1, <2>3, <2>4, <2>5, OwnRead, OwnMark, OwnPrepare, OwnInsert, OwnUpsert, OwnSetDone,
       OwnFailDocument, OwnClaim DEF WorkerStep
<1> QED
  BY <1>3, <1>4, <1>5

-----------------------------------------------------------------------------
(* The steps of a handler.                                                 *)

\* A handler at work: the frame of every step below.
Serving(r) ==
    /\ IndexInv /\ StoreStep
    /\ RequestStep(r) /\ HandlerMove(r) /\ worker' = worker

LEMMA ServingFacts ==
  ASSUME NEW r \in Slots, Serving(r)
  PROVE  /\ Shape /\ StoreTypeOK /\ RoutesTypeOK /\ StoreStep /\ HandlerOK(r)
         /\ \A d \in DocIds : TicketInv(d)
         /\ handler[r] \in Handler
  BY DEF Serving, IndexInv, Shape, StoreShape, HandlerShape, RoutesTypeOK

\* What workers hold is not changed by a handler.
LEMMA SameWorkers ==
  ASSUME NEW r \in Slots, Serving(r), NEW d \in DocIds, NEW p \in Procs
  PROVE  Wk(p, d)' => Wk(p, d) /\ worker'[p] = worker[p]
<1> SUFFICES ASSUME Wk(p, d)' PROVE Wk(p, d) /\ worker'[p] = worker[p]
  OBVIOUS
<1>1. worker'[p] = worker[p] /\ worker[p].pc \in Held
  BY DEF Serving, Wk, Busy, Held
<1> QED
  BY <1>1, HeldJob, ServingFacts DEF Wk, DocOf, StoreStep, KeepsJobs

\* A handler step that neither creates a ticket of d nor touches what is stored of it.
LEMMA ServingFrame ==
  ASSUME NEW r \in Slots, Serving(r), NEW d \in DocIds, FrameDoc(d),
         \A j \in JobIds : Qu(j, d)' => Qu(j, d),
         ~ Up(r, d)' \/ handler'[r] = handler[r]
  PROVE  TicketInv(d)'
<1>1. \A s \in Slots : Up(s, d)' => Up(s, d) /\ handler'[s] = handler[s]
  BY DEF Serving, HandlerMove, Up, Uploading
<1>2. FrameTickets(d)
  BY <1>1, SameWorkers DEF FrameTickets
<1> QED
  BY <1>2, ServingFacts, Framed

LEMMA ServingSameJobs ==
  ASSUME NEW d, jobs' = jobs
  PROVE  \A j \in JobIds : Qu(j, d)' => Qu(j, d)
  BY DEF Qu

\* The upload that has the ticket of d gives it up; d stays pending.
LEMMA UploadGivenUp ==
  ASSUME NEW r \in Slots, Serving(r), NEW d \in DocIds, HasText(d), Up(r, d),
         jobs' = jobs, ~ Up(r, d)', documents'[d].status = "pending"
  PROVE  TicketInv(d)'
<1>1. OneTicket(d)
  BY ServingFacts DEF TicketInv
<1>2. \A s \in Slots : ~ Up(s, d)'
  BY <1>1 DEF OneTicket, Serving, HandlerMove, Up, Uploading
<1>3. \A j \in JobIds : ~ Qu(j, d)'
  BY <1>1 DEF OneTicket, Qu
<1>4. \A p \in Procs : ~ Wk(p, d)'
  BY <1>1, SameWorkers DEF OneTicket
<1> QED
  BY <1>2, <1>3, <1>4 DEF TicketInv, OneTicket, DocState

\* A document without tickets gets the one of r, or none.
LEMMA FreshUpload ==
  ASSUME NEW r \in Slots, Serving(r), NEW d \in DocIds, jobs' = jobs,
         \A s \in Slots : ~ Up(s, d), \A j \in JobIds : ~ Qu(j, d), \A p \in Procs : ~ Wk(p, d),
         documents'[d].status = "pending",
         Up(r, d)' => UpState(r, d)'
  PROVE  TicketInv(d)'
<1>1. \A s \in Slots : Up(s, d)' => s = r
  BY DEF Serving, HandlerMove, Up, Uploading
<1>2. \A j \in JobIds : ~ Qu(j, d)'
  BY DEF Qu
<1>3. \A p \in Procs : ~ Wk(p, d)'
  BY SameWorkers
<1> QED
  BY <1>1, <1>2, <1>3 DEF TicketInv, OneTicket, DocState

\* A document that is not there has no ticket.
LEMMA AbsentHasNoTicket ==
  ASSUME Shape, NEW d \in DocIds, documents[d].status = "absent"
  PROVE  NoTicket(d)
<1>1. \A r \in Slots : ~ Up(r, d)
  BY DEF Up, Shape, HandlerShape, HandlerOK
<1>2. \A j \in JobIds : ~ Qu(j, d)
  BY DEF Qu, Shape, StoreShape, JobShape
<1>3. \A p \in Procs : ~ Wk(p, d)
  BY HeldJob DEF Wk, Busy, Held
<1> QED
  BY <1>1, <1>2, <1>3 DEF NoTicket

\* Steps of a handler that leave the stores alone.
LEMMA QuietRequest ==
  ASSUME NEW r \in Slots, Serving(r), NEW d \in DocIds, UNCHANGED storeVars,
         \/ AnswerSkipped(r) \/ LookupOwned(r)
         \/ \E p \in Procs, u \in Users, c \in Contents : SkipDuplicate(r, p, u, c)
         \/ \E p \in Procs, u \in Users, e \in DocIds : ReadChunkIds(r, p, u, e)
  PROVE  TicketInv(d)'
<1>1. FrameDoc(d) /\ jobs' = jobs
  BY DEF storeVars, FrameDoc
<1>2. handler'[r].pc \in {"idle", "skipped", "lookup", "delete_row"}
  <2>1. CASE AnswerSkipped(r)
    BY <2>1, ServingFacts, LeaveMoves DEF AnswerSkipped, Idle
  <2>2. CASE LookupOwned(r)
    <3>1. CASE Leave(r)
      BY <3>1, ServingFacts, LeaveMoves DEF Idle
    <3>2. CASE ~ Leave(r)
      BY <2>2, <3>2, ServingFacts DEF LookupOwned, RoutesTypeOK, Handler
    <3> QED
      BY <3>1, <3>2
  <2>3. ASSUME NEW p \in Procs, NEW u \in Users, NEW c \in Contents, SkipDuplicate(r, p, u, c)
        PROVE  handler'[r].pc = "skipped"
    BY <2>3, ServingFacts DEF SkipDuplicate, RoutesTypeOK, Idle
  <2>4. ASSUME NEW p \in Procs, NEW u \in Users, NEW e \in DocIds, ReadChunkIds(r, p, u, e)
        PROVE  handler'[r].pc = "lookup"
    BY <2>4, ServingFacts DEF ReadChunkIds, RoutesTypeOK
  <2> QED
    BY <2>1, <2>2, <2>3, <2>4
<1>3. ~ Up(r, d)'
  BY <1>2 DEF Up, Uploading
<1> QED
  BY <1>1, <1>3, ServingFrame, ServingSameJobs

LEMMA CreateTickets ==
  ASSUME NEW r \in Slots, Serving(r), NEW d \in DocIds,
         NEW p \in Procs, NEW u \in Users, NEW c \in Contents, NEW f \in Formats,
         NEW o \in Outcomes, CreateDocument(r, p, u, c, f, o)
  PROVE  TicketInv(d)'
<1>1. PICK e \in DocIds :
        /\ documents[e].status = "absent" /\ NewDocument(e, u, c, f)
        /\ \/ handler' = [handler EXCEPT ![r] = [pc |-> "write", proc |-> p, user |-> u, doc |-> e,
                                                 suffix |-> f, ids |-> {}]]
           \/ handler' = handler
  BY DEF CreateDocument
<1>2. UNCHANGED <<chunks, points, uploads, jobs>>
  BY DEF CreateDocument
<1>3. CASE d # e
  <2>1. FrameDoc(d)
    BY <1>1, <1>2, <1>3, ServingFacts DEF FrameDoc, NewDocument, StoreTypeOK
  <2>2. ~ Up(r, d)' \/ handler'[r] = handler[r]
    BY <1>1, <1>3, ServingFacts DEF RoutesTypeOK, Up
  <2> QED
    BY <1>2, <2>1, <2>2, ServingFrame, ServingSameJobs
<1>4. CASE d = e
  <2>1. NoTicket(d) /\ Blank(d) /\ points[d] = {}
    BY <1>1, <1>4, ServingFacts, AbsentHasNoTicket DEF Serving, IndexInv, AbsentBlank
  <2>2. documents'[d] = [owner |-> u, content |-> c, format |-> f, suffix |-> f,
                         status |-> "pending", count |-> 0]
    BY <1>1, <1>4, ServingFacts DEF NewDocument, StoreTypeOK
  <2>3. ASSUME Up(r, d)' PROVE UpState(r, d)'
    <3>1. handler' # handler
      BY <2>1, <2>3 DEF NoTicket, Up, Uploading
    <3>2. handler'[r] = [pc |-> "write", proc |-> p, user |-> u, doc |-> e,
                         suffix |-> f, ids |-> {}]
      BY <1>1, <3>1, ServingFacts DEF RoutesTypeOK
    <3> QED
      BY <1>2, <2>1, <2>2, <3>2 DEF UpState, Blank, At
  <2> QED
    BY <1>2, <2>1, <2>2, <2>3, FreshUpload DEF NoTicket
<1> QED
  BY <1>3, <1>4

LEMMA RetryTickets ==
  ASSUME NEW r \in Slots, Serving(r), NEW d \in DocIds,
         NEW p \in Procs, NEW u \in Users, NEW c \in Contents, NEW f \in Formats,
         NEW o \in Outcomes, RetryDocument(r, p, u, c, f, o)
  PROVE  TicketInv(d)'
<1>1. PICK e \in DocIds :
        /\ documents[e].status = "error" /\ ResetDocument(e, f)
        /\ \/ handler' = [handler EXCEPT ![r] =
                 [pc |-> IF chunks[e] = {} THEN "write" ELSE "purge",
                  proc |-> p, user |-> u, doc |-> e, suffix |-> f, ids |-> chunks[e]]]
           \/ handler' = handler
  BY DEF RetryDocument, Conflicts
<1>2. UNCHANGED <<points, uploads, jobs>>
  BY DEF RetryDocument
<1>3. CASE d # e
  <2>1. FrameDoc(d)
    BY <1>1, <1>2, <1>3, ServingFacts DEF FrameDoc, ResetDocument, StoreTypeOK
  <2>2. ~ Up(r, d)' \/ handler'[r] = handler[r]
    BY <1>1, <1>3, ServingFacts DEF RoutesTypeOK, Up
  <2> QED
    BY <1>2, <2>1, <2>2, ServingFrame, ServingSameJobs
<1>4. CASE d = e /\ ~ HasText(d)
  BY <1>1, <1>4, HadText, ServingFacts DEF TicketInv
<1>5. CASE d = e /\ HasText(d)
  <2>1. NoTicket(d) /\ points[d] \subseteq chunks[d]
    BY <1>1, <1>5, ServingFacts DEF TicketInv, DocState
  <2>2. /\ documents'[d].status = "pending" /\ documents'[d].suffix = f
        /\ documents'[d].count = 0 /\ chunks'[d] = {}
    BY <1>1, <1>5, ServingFacts DEF ResetDocument, StoreTypeOK, Document
  <2>3. ASSUME Up(r, d)' PROVE UpState(r, d)'
    <3>1. handler' # handler
      BY <2>1, <2>3 DEF NoTicket, Up, Uploading
    <3>2. handler'[r] = [pc |-> IF chunks[e] = {} THEN "write" ELSE "purge",
                         proc |-> p, user |-> u, doc |-> e, suffix |-> f, ids |-> chunks[e]]
      BY <1>1, <3>1, ServingFacts DEF RoutesTypeOK
    <3>3. handler'[r].pc = (IF chunks[d] = {} THEN "write" ELSE "purge")
          /\ handler'[r].suffix = f /\ handler'[r].ids = chunks[d]
      BY <1>5, <3>2
    <3>4. CASE chunks[d] = {}
      BY <1>2, <2>1, <2>2, <3>3, <3>4 DEF UpState, Blank, At
    <3>5. CASE chunks[d] # {}
      BY <1>2, <2>1, <2>2, <3>3, <3>5 DEF UpState, Blank, At
    <3> QED
      BY <3>4, <3>5
  <2> QED
    BY <1>2, <2>1, <2>2, <2>3, FreshUpload DEF NoTicket
<1> QED
  BY <1>3, <1>4, <1>5

\* A handler that only goes on or leaves keeps its document.
LEMMA StepOrLeave ==
  ASSUME NEW r \in Slots, Serving(r), NEW d \in DocIds, NEW l \in HandlerPC,
         Leave(r) \/ Step(r, l), handler[r].doc # d
  PROVE  ~ Up(r, d)'
<1>1. CASE Leave(r)
  BY <1>1, ServingFacts, LeaveMoves DEF Up, Uploading, Idle
<1>2. CASE Step(r, l)
  BY <1>2, ServingFacts, StepMoves DEF Up, Handler
<1> QED
  BY <1>1, <1>2

LEMMA LeaveGivesUp ==
  ASSUME NEW r \in Slots, Serving(r), NEW d \in DocIds, Leave(r)
  PROVE  ~ Up(r, d)'
  BY ServingFacts, LeaveMoves DEF Up, Uploading, Idle

LEMMA PurgeTickets ==
  ASSUME NEW r \in Slots, Serving(r), NEW d \in DocIds, NEW o \in Outcomes, PurgePoints(r, o)
  PROVE  TicketInv(d)'
<1>1. At(r, "purge") /\ UNCHANGED <<documents, chunks, uploads, jobs>>
  BY DEF PurgePoints
<1>2. CASE handler[r].doc # d
  <2>1. FrameDoc(d)
    BY <1>1, <1>2, ServingFacts DEF PurgePoints, DeletePoints, FrameDoc, StoreTypeOK
  <2>2. ~ Up(r, d)'
    <3>1. CASE Leave(r)
      BY <3>1, LeaveGivesUp
    <3>2. CASE handler' = [handler EXCEPT ![r].pc = "write", ![r].ids = {}]
      BY <1>2, <3>2, ServingFacts DEF RoutesTypeOK, Handler, Up
    <3> QED
      BY <3>1, <3>2 DEF PurgePoints
  <2> QED
    BY <1>1, <2>1, <2>2, ServingFrame, ServingSameJobs
<1>3. CASE ~ HasText(d)
  BY <1>1, <1>3 DEF TicketInv, HasText, Exists, Yield
<1>4. CASE handler[r].doc = d /\ HasText(d)
  <2>1. Up(r, d)
    BY <1>1, <1>4 DEF Up, Uploading, At
  <2>2. UpState(r, d)
    BY <1>4, <2>1, ServingFacts DEF TicketInv
  <2>3. CASE o = "ok"
    <3>1. handler' = [handler EXCEPT ![r].pc = "write", ![r].ids = {}]
          /\ DeletePoints(d, handler[r].ids)
      BY <1>4, <2>3 DEF PurgePoints, Applied
    <3>2. handler'[r].pc = "write" /\ handler'[r].suffix = handler[r].suffix
      BY <3>1, ServingFacts DEF RoutesTypeOK, Handler
    <3>3. points'[d] = {}
      BY <1>1, <2>2, <3>1, ServingFacts DEF DeletePoints, StoreTypeOK, UpState
    <3>4. UpState(r, d)' /\ DocState(d)'
      BY <1>1, <2>2, <3>2, <3>3 DEF UpState, DocState, Blank, At
    <3> QED
      BY <1>1, <1>4, <2>1, <3>4, SoleUpload, ServingFacts DEF Serving
  <2>4. CASE o # "ok"
    <3>1. Leave(r)
      BY <2>4 DEF PurgePoints
    <3> QED
      BY <1>1, <1>4, <2>1, <2>2, <3>1, LeaveGivesUp, UploadGivenUp DEF UpState
  <2> QED
    BY <2>3, <2>4
<1> QED
  BY <1>2, <1>3, <1>4

LEMMA WriteTickets ==
  ASSUME NEW r \in Slots, Serving(r), NEW d \in DocIds, NEW o \in Outcomes, WriteUpload(r, o)
  PROVE  TicketInv(d)'
<1>1. At(r, "write") /\ UNCHANGED <<documents, chunks, points, jobs>>
  BY DEF WriteUpload
<1>2. FrameDoc(d)
  BY <1>1 DEF WriteUpload, FrameDoc
<1>3. CASE Leave(r)
  BY <1>1, <1>2, <1>3, LeaveGivesUp, ServingFrame, ServingSameJobs
<1>4. CASE ~ Leave(r) /\ handler[r].doc # d
  <2>1. Step(r, "enqueue")
    BY <1>4 DEF WriteUpload
  <2> QED
    BY <1>1, <1>2, <1>4, <2>1, StepOrLeave, ServingFrame, ServingSameJobs DEF HandlerPC
<1>5. CASE ~ HasText(d)
  BY <1>1, <1>5 DEF TicketInv, HasText, Exists, Yield
<1>6. CASE ~ Leave(r) /\ handler[r].doc = d /\ HasText(d)
  <2>1. Up(r, d)
    BY <1>1, <1>6 DEF Up, Uploading, At
  <2>2. UpState(r, d)
    BY <1>6, <2>1, ServingFacts DEF TicketInv
  <2>3. Step(r, "enqueue") /\ <<d, handler[r].suffix>> \in uploads'
    BY <1>6 DEF WriteUpload, Applied
  <2>4. handler'[r].pc = "enqueue" /\ handler'[r].suffix = handler[r].suffix
    BY <2>3, ServingFacts DEF Step, RoutesTypeOK, Handler
  <2>5. UpState(r, d)' /\ DocState(d)'
    BY <1>1, <2>2, <2>3, <2>4 DEF UpState, DocState, Blank, At, HasFile
  <2> QED
    BY <1>1, <1>6, <2>1, <2>5, SoleUpload, ServingFacts DEF Serving
<1> QED
  BY <1>3, <1>4, <1>5, <1>6

\* The ticket of an upload becomes that of the job it enqueues.
LEMMA EnqueueTickets ==
  ASSUME NEW r \in Slots, Serving(r), NEW d \in DocIds, NEW o \in Outcomes, Enqueue(r, o)
  PROVE  TicketInv(d)'
<1>1. /\ At(r, "enqueue") /\ nextJob <= MaxJobs /\ Leave(r)
      /\ UNCHANGED <<documents, chunks, points, uploads>>
  BY DEF Enqueue
<1>2. FrameDoc(d) /\ ~ Up(r, d)'
  BY <1>1, LeaveGivesUp DEF FrameDoc
<1>3. CASE jobs' = jobs
  BY <1>2, <1>3, ServingFrame, ServingSameJobs
<1>4. CASE jobs' # jobs
  <2> DEFINE e == handler[r].doc
  <2>1. EnqueueIngestJob(e)
    BY <1>4 DEF Enqueue
  <2>2. nextJob \in JobIds /\ jobs \in [JobIds -> Job]
    BY <1>1, ServingFacts, BoundsAssumption DEF StoreTypeOK, JobIds
  <2>3. \A j \in JobIds : jobs'[j] = IF j = nextJob
                                     THEN [doc |-> e, status |-> "queued", attempts |-> 0] ELSE jobs[j]
    BY <2>1, <2>2 DEF EnqueueIngestJob
  <2>4. CASE d # e
    BY <1>2, <2>3, <2>4, ServingFrame DEF Qu
  <2>5. CASE ~ HasText(d)
    BY <1>1, <2>5 DEF TicketInv, HasText, Exists, Yield
  <2>6. CASE d = e /\ HasText(d)
    <3>1. Up(r, d)
      BY <1>1, <2>6 DEF Up, Uploading, At
    <3>2. UpState(r, d) /\ OneTicket(d)
      BY <2>6, <3>1, ServingFacts DEF TicketInv
    <3>3. QuState(d)' /\ DocState(d)'
      BY <1>1, <3>2 DEF UpState, QuState, DocState, Blank, At, HasFile
    <3>4. \A s \in Slots : ~ Up(s, d)'
      BY <1>2, <3>1, <3>2 DEF OneTicket, Serving, HandlerMove, Up, Uploading
    <3>5. \A j \in JobIds : Qu(j, d)' => j = nextJob
      BY <2>3, <3>1, <3>2 DEF OneTicket, Qu
    <3>6. \A p \in Procs : ~ Wk(p, d)'
      BY <3>1, <3>2, SameWorkers DEF OneTicket
    <3>7. documents'[d].status # "error"
      BY <3>3 DEF QuState
    <3> QED
      BY <3>3, <3>4, <3>5, <3>6, <3>7 DEF TicketInv, OneTicket
  <2> QED
    BY <2>4, <2>5, <2>6
<1> QED
  BY <1>3, <1>4

\* The steps of a delete: of documents other than its own they change nothing,
\* and its own is deleted once they change something.
LEMMA DeleteTickets ==
  ASSUME NEW r \in Slots, Serving(r), NEW d \in DocIds, NEW o \in Outcomes,
         DeleteDocument(r, o, Locked) \/ DeleteVectors(r, o) \/ Unlink(r, o)
  PROVE  TicketInv(d)'
<1>1. handler[r].pc \in Deleting
  BY DEF DeleteDocument, DeleteVectors, Unlink, At, Deleting
<1>2. ~ Up(r, d)'
  <2>1. \E l \in {"unlink", "delete_points"} : Leave(r) \/ Step(r, l)
    BY DEF DeleteDocument, DeleteVectors, Unlink
  <2>2. handler'[r].pc \in {"idle", "unlink", "delete_points"}
    BY <2>1, ServingFacts, LeaveMoves DEF Step, RoutesTypeOK, Handler, Idle
  <2> QED
    BY <2>2 DEF Up, Uploading
<1>3. CASE UNCHANGED <<documents, chunks, points, uploads, jobs>>
  BY <1>2, <1>3, ServingFrame, ServingSameJobs DEF FrameDoc
<1>4. ASSUME DeleteDocument(r, o, Locked), DeleteRow(handler[r].doc) PROVE TicketInv(d)'
  <2>1. CASE d # handler[r].doc
    <3>1. FrameDoc(d)
      BY <1>4, <2>1, ServingFacts DEF DeleteDocument, DeleteRow, FrameDoc, StoreTypeOK
    <3>2. \A j \in JobIds : Qu(j, d)' => Qu(j, d)
      BY <1>4, <2>1, ServingFacts DEF DeleteRow, Qu, StoreTypeOK, Job
    <3> QED
      BY <1>2, <3>1, <3>2, ServingFrame
  <2>2. CASE d = handler[r].doc
    BY <1>4, <2>2, ServingFacts DEF DeleteRow, TicketInv, HasText, Exists, StoreTypeOK, Document
  <2> QED
    BY <2>1, <2>2
<1>5. ASSUME DeleteVectors(r, o) \/ Unlink(r, o) PROVE TicketInv(d)'
  <2>1. UNCHANGED <<documents, chunks, jobs>>
    BY <1>5 DEF DeleteVectors, Unlink
  <2>2. CASE d # handler[r].doc
    <3>1. FrameDoc(d)
      BY <1>5, <2>1, <2>2, ServingFacts DEF DeleteVectors, DeletePoints, Unlink, FrameDoc, StoreTypeOK
    <3> QED
      BY <1>2, <2>1, <3>1, ServingFrame, ServingSameJobs
  <2>3. CASE d = handler[r].doc
    <3>1. documents[d].status = "deleted"
      BY <1>5, <2>3, ServingFacts DEF HandlerOK, DeleteVectors, Unlink, At
    <3> QED
      BY <2>1, <3>1 DEF TicketInv, HasText, Exists
  <2> QED
    BY <2>2, <2>3
<1> QED
  BY <1>3, <1>4, <1>5 DEF DeleteDocument

LEMMA RequestTickets ==
  ASSUME IndexInv, NEW r \in Slots, Request(r) \/ Serve(r), NEW d \in DocIds
  PROVE  TicketInv(d)'
<1>1. RequestStep(r) /\ worker' = worker /\ Shape
  BY DEF Request, Serve, RequestStep, IndexInv
<1>2. Serving(r)
  BY <1>1, RequestStoreStep, RequestMoves DEF Serving
<1>3. CASE \/ AnswerSkipped(r) \/ LookupOwned(r)
           \/ \E p \in Procs, u \in Users, c \in Contents : SkipDuplicate(r, p, u, c)
           \/ \E p \in Procs, u \in Users, e \in DocIds : ReadChunkIds(r, p, u, e)
  <2>1. UNCHANGED storeVars
    BY <1>3 DEF AnswerSkipped, LookupOwned, SkipDuplicate, ReadChunkIds
  <2> QED
    BY <1>2, <1>3, <2>1, QuietRequest
<1> QED
  BY <1>1, <1>2, <1>3, CreateTickets, RetryTickets, PurgeTickets, WriteTickets, EnqueueTickets,
     DeleteTickets DEF RequestStep, Arrive, Continue, Outcomes

LEMMA RestartTickets ==
  ASSUME IndexInv, NEW p \in Procs, Restart(p), NEW d \in DocIds
  PROVE  TicketInv(d)'
<1>1. Shape /\ TicketInv(d)
  BY DEF IndexInv
<1>2. StoreStep
  BY <1>1, StoreStepParts, SameDocumentsShape, SameJobsShape
  DEF Restart, storeVars, Shape, StoreShape, StoreTypeOK
<1>3. FrameDoc(d)
  BY DEF Restart, storeVars, FrameDoc
<1>4. \A r \in Slots : Up(r, d)' => Up(r, d) /\ handler'[r] = handler[r]
  BY DEF Restart, Up, Uploading, Idle
<1>5. \A j \in JobIds : Qu(j, d)' => Qu(j, d)
  BY DEF Restart, storeVars, Qu
<1>6. \A q \in Procs : Wk(q, d)' => Wk(q, d) /\ worker'[q] = worker[q]
  BY <1>1 DEF Restart, storeVars, Wk, DocOf, Polling, Busy, Shape, WorkerTypeOK
<1> QED
  BY <1>1, <1>2, <1>3, <1>4, <1>5, <1>6, Framed DEF FrameTickets

-----------------------------------------------------------------------------
(* The two remaining parts of the invariant.                               *)

\* A document that a step leaves absent keeps its empty stores.
AbsentFrame ==
    \A d \in DocIds : documents'[d].status = "absent" =>
       documents'[d] = documents[d] /\ chunks'[d] = chunks[d] /\ points'[d] = points[d]

\* A document becomes "done" only with text.
DoneFrame ==
    \A d \in DocIds : documents'[d].status = "done" =>
       documents[d].status = "done" \/ (documents[d].status # "absent" /\ Yield(d) > 0)

LEMMA PartsKept ==
  ASSUME IndexInv, StoreStep, AbsentFrame, DoneFrame
  PROVE  AbsentBlank' /\ DoneHasText'
<1>1. AbsentBlank'
  BY DEF IndexInv, AbsentBlank, AbsentFrame, Blank
<1>2. ASSUME NEW d \in DocIds, documents'[d].status = "done" PROVE Yield(d)' > 0
  <2>1. documents[d].status # "absent" /\ Yield(d) > 0
    BY <1>2 DEF DoneFrame, IndexInv, DoneHasText
  <2> QED
    BY <2>1, SameYield
<1> QED
  BY <1>1, <1>2 DEF DoneHasText

LEMMA WorkFrames ==
  ASSUME Shape, NEW p \in Procs, WorkerStep(p)
  PROVE  AbsentFrame /\ DoneFrame
<1>1. /\ documents \in [DocIds -> Document] /\ StoreStep /\ WorkerOK(p)
  BY WorkerStoreStep DEF Shape, StoreShape, StoreTypeOK, WorkerShape
<1>2. ASSUME NEW d \in DocIds, documents'[d].status = "absent"
      PROVE  documents'[d] = documents[d] /\ chunks'[d] = chunks[d] /\ points'[d] = points[d]
  <2>1. documents[d].status = "absent"
    BY <1>1, <1>2 DEF StoreStep, KeepsDocuments
  <2>2. CASE worker[p].pc \in Held
    BY <2>1, <2>2, HeldJob, WorkerFrameDoc DEF FrameDoc
  <2>3. CASE worker[p].pc \notin Held
    <3>1. LockJob(p)
      BY <2>3 DEF WorkerStep, CommitClaim, GetDocument, FinishMissing, ReadFile,
         MarkProcessing, Prepare, NoText, InsertChunks, UpsertVectors, SetDone, FinishOk,
         FailDocument, FailJob, Held
    <3> QED
      BY <3>1 DEF LockJob, storeVars
  <2> QED
    BY <2>2, <2>3
<1>3. ASSUME NEW d \in DocIds, documents'[d].status = "done"
      PROVE  documents[d].status = "done" \/ (documents[d].status # "absent" /\ Yield(d) > 0)
  <2>1. CASE documents' = documents
    BY <1>3, <2>1
  <2>2. ASSUME NEW s \in {"processing", "error"}, SetDocumentStatus(DocOf(p), s)
        PROVE  documents[d].status = "done"
    BY <1>1, <1>3, <2>2 DEF SetDocumentStatus, Document
  <2>3. ASSUME NEW o \in Outcomes, SetDone(p, o)
        PROVE  documents[d].status = "done" \/ (documents[d].status # "absent" /\ Yield(d) > 0)
    <3>1. worker[p].pc = "set_done" /\ worker[p].pc \in Held
      BY <2>3 DEF SetDone, Held
    <3>2. Yield(DocOf(p)) > 0 /\ documents[DocOf(p)].status # "absent"
      BY <1>1, <3>1, HeldJob DEF WorkerOK
    <3>3. d # DocOf(p) => documents'[d] = documents[d]
      BY <1>1, <2>3 DEF SetDone, SetDocumentStatus
    <3> QED
      BY <1>3, <3>2, <3>3
  <2>4. ASSUME NEW o \in Outcomes, InsertChunks(p, o)
        PROVE  documents[d].status = "done"
    BY <1>1, <1>3, <2>4 DEF InsertChunks, InsertRows, Document
  <2>5. ASSUME NEW o \in Outcomes, MarkProcessing(p, o) \/ NoText(p, o) \/ FailDocument(p, o)
        PROVE  documents[d].status = "done"
    BY <1>3, <2>2, <2>5 DEF MarkProcessing, NoText, FailDocument
  <2>6. ASSUME NEW o \in Outcomes, \/ CommitClaim(p, o) \/ GetDocument(p, o) \/ FinishMissing(p, o)
                                   \/ ReadFile(p, o) \/ Prepare(p, o) \/ UpsertVectors(p, o)
                                   \/ FinishOk(p, o) \/ FailJob(p, o)
        PROVE  documents' = documents
    BY <2>6 DEF CommitClaim, GetDocument, FinishMissing, ReadFile, Prepare, UpsertVectors, FinishOk,
       FailJob
  <2>7. LockJob(p) => documents' = documents
    BY DEF LockJob, storeVars
  <2> QED
    BY <2>1, <2>3, <2>4, <2>5, <2>6, <2>7 DEF WorkerStep
<1> QED
  BY <1>2, <1>3 DEF AbsentFrame, DoneFrame

LEMMA RequestFrames ==
  ASSUME NEW r \in Slots, Serving(r)
  PROVE  AbsentFrame /\ DoneFrame
<1> DEFINE Kept(d) == documents'[d] = documents[d] /\ chunks'[d] = chunks[d] /\ points'[d] = points[d]
<1>1. StoreTypeOK /\ HandlerOK(r)
  BY ServingFacts
<1>2. ASSUME NEW d \in DocIds,
             \/ Kept(d)
             \/ documents'[d].status \in {"pending", "deleted"}
             \/ documents'[d] = documents[d] /\ documents[d].status # "absent"
      PROVE  /\ documents'[d].status = "absent" => Kept(d)
             /\ documents'[d].status = "done" => documents[d].status = "done"
  BY <1>2
<1>3. ASSUME NEW d \in DocIds
      PROVE  \/ Kept(d)
             \/ documents'[d].status \in {"pending", "deleted"}
             \/ documents'[d] = documents[d] /\ documents[d].status # "absent"
  <2>1. CASE UNCHANGED <<documents, chunks, points>>
    BY <2>1
  <2>2. ASSUME NEW p \in Procs, NEW u \in Users, NEW c \in Contents, NEW f \in Formats,
               NEW o \in Outcomes, CreateDocument(r, p, u, c, f, o)
        PROVE  Kept(d) \/ documents'[d].status = "pending"
    BY <1>1, <2>2 DEF CreateDocument, NewDocument, StoreTypeOK
  <2>3. ASSUME NEW p \in Procs, NEW u \in Users, NEW c \in Contents, NEW f \in Formats,
               NEW o \in Outcomes, RetryDocument(r, p, u, c, f, o)
        PROVE  Kept(d) \/ documents'[d].status = "pending"
    <3>1. PICK e \in DocIds : ResetDocument(e, f) /\ points' = points
      BY <2>3 DEF RetryDocument, Conflicts
    <3> QED
      BY <1>1, <3>1 DEF ResetDocument, StoreTypeOK, Document
  <2>4. ASSUME NEW o \in Outcomes, PurgePoints(r, o) \/ DeleteVectors(r, o)
        PROVE  Kept(d) \/ (documents'[d] = documents[d] /\ documents[d].status # "absent")
    <3>1. documents' = documents /\ chunks' = chunks
          /\ (points' = points \/ DeletePoints(handler[r].doc, handler[r].ids))
      BY <2>4 DEF PurgePoints, DeleteVectors
    <3>2. documents[handler[r].doc].status # "absent"
      BY <1>1, <2>4 DEF PurgePoints, DeleteVectors, HandlerOK, At, Uploading, Deleting
    <3> QED
      BY <1>1, <3>1, <3>2 DEF DeletePoints, StoreTypeOK
  <2>5. ASSUME NEW o \in Outcomes, DeleteDocument(r, o, Locked)
        PROVE  Kept(d) \/ documents'[d].status = "deleted"
    <3>1. points' = points /\ (UNCHANGED <<documents, chunks>> \/ DeleteRow(handler[r].doc))
      BY <2>5 DEF DeleteDocument
    <3> QED
      BY <1>1, <3>1 DEF DeleteRow, StoreTypeOK, Document
  <2>6. ASSUME NEW o \in Outcomes, WriteUpload(r, o) \/ Enqueue(r, o) \/ Unlink(r, o)
        PROVE  UNCHANGED <<documents, chunks, points>>
    BY <2>6 DEF WriteUpload, Enqueue, Unlink
  <2>7. \/ AnswerSkipped(r) \/ LookupOwned(r)
        \/ \E p \in Procs, u \in Users, c \in Contents : SkipDuplicate(r, p, u, c)
        \/ \E p \in Procs, u \in Users, e \in DocIds : ReadChunkIds(r, p, u, e)
        => UNCHANGED <<documents, chunks, points>>
    BY DEF AnswerSkipped, LookupOwned, SkipDuplicate, ReadChunkIds, storeVars
  <2> QED
    BY <2>1, <2>2, <2>3, <2>4, <2>5, <2>6, <2>7 DEF Serving, RequestStep, Arrive, Continue
<1> QED
  BY <1>2, <1>3 DEF AbsentFrame, DoneFrame

-----------------------------------------------------------------------------
(* The inductive step and the theorems.                                    *)

LEMMA IndexStep == IndexInv /\ [Next]_vars => IndexInv'
<1> SUFFICES ASSUME IndexInv, [Next]_vars PROVE IndexInv'
  OBVIOUS
<1>1. Shape'
  BY ShapeStep DEF IndexInv
<1>2. ASSUME NEW p \in Procs, Work(p) PROVE IndexInv'
  <2>1. StoreStep /\ AbsentFrame /\ DoneFrame
    BY <1>2, WorkerStoreStep, WorkFrames DEF Work, IndexInv
  <2> QED
    BY <1>1, <1>2, <2>1, PartsKept, WorkTickets DEF IndexInv
<1>3. ASSUME NEW r \in Slots, Request(r) \/ Serve(r) PROVE IndexInv'
  <2>1. Serving(r)
    <3>1. RequestStep(r) /\ worker' = worker /\ Shape
      BY <1>3 DEF Request, Serve, RequestStep, IndexInv
    <3> QED
      BY <3>1, RequestStoreStep, RequestMoves DEF Serving
  <2>2. StoreStep /\ AbsentFrame /\ DoneFrame
    BY <2>1, RequestFrames DEF Serving
  <2> QED
    BY <1>1, <1>3, <2>2, PartsKept, RequestTickets DEF IndexInv
<1>4. ASSUME NEW p \in Procs, Restart(p) PROVE IndexInv'
  <2>1. AbsentBlank' /\ DoneHasText'
    BY <1>4 DEF Restart, storeVars, IndexInv, AbsentBlank, DoneHasText, Blank, Yield
  <2> QED
    BY <1>1, <1>4, <2>1, RestartTickets DEF IndexInv
<1>5. CASE UNCHANGED vars
  <2>1. AbsentBlank' /\ DoneHasText'
    BY <1>5 DEF vars, IndexInv, AbsentBlank, DoneHasText, Blank, Yield
  <2>2. ASSUME NEW d \in DocIds PROVE TicketInv(d)'
    <3>1. Shape /\ TicketInv(d) /\ FrameDoc(d) /\ FrameTickets(d)
      BY <1>5 DEF vars, IndexInv, FrameDoc, FrameTickets, Up, Uploading, Qu, Wk, DocOf
    <3>2. StoreStep
      BY <1>5, <3>1, StoreStepParts, SameDocumentsShape, SameJobsShape
      DEF vars, Shape, StoreShape, StoreTypeOK
    <3> QED
      BY <3>1, <3>2, Framed
  <2> QED
    BY <1>1, <2>1, <2>2 DEF IndexInv
<1> QED
  BY <1>2, <1>3, <1>4, <1>5 DEF Next

LEMMA IndexInvariant == Spec => []IndexInv
  BY IndexInit, IndexStep, PTL DEF Spec

LEMMA InvIsExclusive ==
  ASSUME IndexInv
  PROVE  ExclusiveIngest
BY DEF IndexInv, TicketInv, OneTicket, ExclusiveIngest, Uploads, Queued, Workers, Up, Qu, Wk

LEMMA InvNeverCollides ==
  ASSUME IndexInv
  PROVE  RetryCannotCollide
<1> SUFFICES ASSUME NEW p \in Procs, worker[p].pc = "insert", HasText(DocOf(p))
             PROVE  chunks[DocOf(p)] = {}
  BY DEF RetryCannotCollide
<1>1. DocOf(p) \in DocIds
  BY HeldJob DEF IndexInv, Held
<1>2. WkState(p, DocOf(p))
  BY <1>1 DEF IndexInv, TicketInv, Wk, Busy
<1> QED
  BY <1>2 DEF WkState, Blank

LEMMA InvDoneIsComplete ==
  ASSUME IndexInv
  PROVE  DoneComplete
<1> SUFFICES ASSUME NEW d \in DocIds, documents[d].status = "done"
             PROVE  /\ \E j \in JobIds : jobs[j].doc = d /\ chunks[d] = Batch(j, Yield(d))
                    /\ documents[d].count = Yield(d)
                    /\ points[d] = chunks[d]
  BY DEF DoneComplete
<1>1. HasText(d)
  BY DEF IndexInv, DoneHasText, HasText, Exists
<1>2. DocState(d)
  BY <1>1 DEF IndexInv, TicketInv
<1> QED
  BY <1>2 DEF DocState, Indexed

LEMMA InvHasRows ==
  ASSUME IndexInv
  PROVE  VectorsHaveRows
BY DEF IndexInv, TicketInv, DocState, VectorsHaveRows

LEMMA InvFindsFiles ==
  ASSUME IndexInv
  PROVE  FileForJob
<1> SUFFICES ASSUME NEW d \in DocIds, HasText(d)
             PROVE  /\ Queued(d) # {} => <<d, documents[d].suffix>> \in uploads
                    /\ \A p \in Workers(d) : worker[p].pc \in {"fetch", "read"} =>
                          <<d, documents[d].suffix>> \in uploads
                    /\ \A p \in Workers(d) : worker[p].pc = "read" =>
                          worker[p].suffix = documents[d].suffix
  BY DEF FileForJob
<1>1. /\ \A j \in JobIds : Qu(j, d) => QuState(d)
      /\ \A p \in Procs : Wk(p, d) => WkState(p, d)
  BY DEF IndexInv, TicketInv
<1> QED
  BY <1>1 DEF Qu, Wk, QuState, WkState, HasFile, Queued, Workers

\* At most one upload, queued job or worker is ever ingesting a document that has
\* text, whatever fails or restarts and however many processes there are.
THEOREM IngestIsExclusive == Spec => []ExclusiveIngest
BY InvIsExclusive, IndexInvariant, PTL

\* The UNIQUE (document_id, ordinal) constraint never refuses a retry.
THEOREM RetriesNeverCollide == Spec => []RetryCannotCollide
BY InvNeverCollides, IndexInvariant, PTL

\* A document shown as done has every chunk of one attempt, the right count, and
\* exactly the vectors of those chunks.
THEOREM DoneIsComplete == Spec => []DoneComplete
BY InvDoneIsComplete, IndexInvariant, PTL

\* No vector is left without its row once ingestion has started.
THEOREM NoOrphanVectors == Spec => []VectorsHaveRows
BY InvHasRows, IndexInvariant, PTL

\* A job finds the file of its document.
THEOREM JobsFindFiles == Spec => []FileForJob
BY InvFindsFiles, IndexInvariant, PTL

-----------------------------------------------------------------------------
(***************************************************************************)
(* RagIngest implements DocumentLifecycle, for every number of documents,  *)
(* owners, processes, requests, jobs, failed calls and restarts.           *)
(*                                                                         *)
(* A step changes the row and the chunks of one document at most; what it  *)
(* may do to that document follows from its ticket.                        *)
(***************************************************************************)

PhaseOf(d) == IF Textless(d) THEN "absent" ELSE Phase(d)

IndexOf(d) == IF Textless(d) THEN 0 ELSE IndexedBy(d)

Same(d) == PhaseOf(d)' = PhaseOf(d) /\ IndexOf(d)' = IndexOf(d)

\* The life of one document goes on.
Lives(d) ==
    \/ /\ PhaseOf(d) = "absent" /\ PhaseOf(d)' = "working" /\ IndexOf(d)' = IndexOf(d)
    \/ /\ PhaseOf(d) = "working" /\ PhaseOf(d)' = "working"
       /\ IndexOf(d) = 0 /\ IndexOf(d)' \in JobIds
    \/ /\ PhaseOf(d) = "working" /\ PhaseOf(d)' = "done"
       /\ IndexOf(d) # 0 /\ IndexOf(d)' = IndexOf(d)
    \/ /\ PhaseOf(d) \in {"working", "done"} /\ PhaseOf(d)' = "failed"
       /\ IndexOf(d)' = IndexOf(d)
    \/ /\ PhaseOf(d) = "failed" /\ PhaseOf(d)' = "working" /\ IndexOf(d)' = 0
    \/ /\ PhaseOf(d) \in {"working", "done", "failed"} /\ PhaseOf(d)' = "deleted"
       /\ IndexOf(d)' = 0

Maps == [Lifecycle!Next]_(Lifecycle!vars)

LEMMA AllSame ==
  ASSUME \A d \in DocIds : Same(d)
  PROVE  Maps
<1>1. UNCHANGED Lifecycle!vars
  BY DEF Same, PhaseOf, IndexOf, Lifecycle!vars
<1> QED
  BY <1>1 DEF Maps

LEMMA OneLives ==
  ASSUME NEW d \in DocIds, Lives(d), \A e \in DocIds : e # d => Same(e)
  PROVE  Maps
<1> DEFINE phase == [e \in DocIds |-> PhaseOf(e)]
           index == [e \in DocIds |-> IndexOf(e)]
<1>1. /\ phase[d] = PhaseOf(d) /\ index[d] = IndexOf(d)
      /\ phase' = [phase EXCEPT ![d] = PhaseOf(d)']
      /\ index' = [index EXCEPT ![d] = IndexOf(d)']
  BY DEF Same
<1>2. index' = index \/ IndexOf(d)' # IndexOf(d)
  BY <1>1
<1> HIDE DEF phase, index
<1>3. \/ /\ phase[d] = "absent" /\ phase' = [phase EXCEPT ![d] = "working"] /\ index' = index
      \/ /\ phase[d] = "working" /\ phase' = phase
         /\ index[d] = 0 /\ \E a \in JobIds : index' = [index EXCEPT ![d] = a]
      \/ /\ phase[d] = "working" /\ phase' = [phase EXCEPT ![d] = "done"]
         /\ index[d] # 0 /\ index' = index
      \/ /\ phase[d] \in {"working", "done"} /\ phase' = [phase EXCEPT ![d] = "failed"]
         /\ index' = index
      \/ /\ phase[d] = "failed" /\ phase' = [phase EXCEPT ![d] = "working"]
         /\ index' = [index EXCEPT ![d] = 0]
      \/ /\ phase[d] \in {"working", "done", "failed"}
         /\ phase' = [phase EXCEPT ![d] = "deleted"] /\ index' = [index EXCEPT ![d] = 0]
  <2>1. PhaseOf(d)' = PhaseOf(d) => phase' = phase
    BY <1>1 DEF phase
  <2> QED
    BY <1>1, <1>2, <2>1 DEF Lives
<1>4. Lifecycle!Next
  BY <1>3 DEF phase, index, PhaseOf, IndexOf, Lifecycle!Next, Lifecycle!Accept, Lifecycle!Index,
     Lifecycle!Finish, Lifecycle!Fail, Lifecycle!Retry, Lifecycle!Delete, Lifecycle!Become
<1> QED
  BY <1>4 DEF Maps

-----------------------------------------------------------------------------
(* What the mapping makes of the row and the chunks of a document.         *)

LEMMA SameRow ==
  ASSUME NEW d \in DocIds, documents'[d] = documents[d], chunks'[d] = chunks[d]
  PROVE  Same(d)
<1>1. Yield(d)' = Yield(d)
  BY DEF Yield
<1>2. Textless(d)' = Textless(d) /\ Phase(d)' = Phase(d) /\ IndexedBy(d)' = IndexedBy(d)
  BY <1>1 DEF Textless, Phase, IndexedBy
<1> QED
  BY <1>2 DEF Same, PhaseOf, IndexOf

LEMMA TextlessSame ==
  ASSUME StoreStep, NEW d \in DocIds, Textless(d)
  PROVE  Same(d)
<1>1. Textless(d)'
  BY SameYield DEF Textless, StoreStep, KeepsDocuments
<1> QED
  BY <1>1 DEF Same, PhaseOf, IndexOf

\* A document with text.
LEMMA TextOf ==
  ASSUME NEW d \in DocIds, HasText(d)
  PROVE  /\ documents[d].status \in {"pending", "processing"} => PhaseOf(d) = "working"
         /\ documents[d].status = "done" => PhaseOf(d) = "done"
         /\ documents[d].status = "error" => PhaseOf(d) = "failed"
         /\ IndexOf(d) = IndexedBy(d)
         /\ chunks[d] = {} => IndexOf(d) = 0
  BY DEF HasText, Exists, Textless, PhaseOf, IndexOf, Phase, IndexedBy

\* The same after a step.
LEMMA TextOfNext ==
  ASSUME StoreStep, NEW d \in DocIds, HasText(d)
  PROVE  /\ documents'[d].status \in {"pending", "processing"} => PhaseOf(d)' = "working"
         /\ documents'[d].status = "done" => PhaseOf(d)' = "done"
         /\ documents'[d].status = "error" => PhaseOf(d)' = "failed"
         /\ documents'[d].status = "deleted" => PhaseOf(d)' = "deleted"
         /\ IndexOf(d)' = IndexedBy(d)'
         /\ chunks'[d] = {} => IndexOf(d)' = 0
         /\ chunks'[d] = chunks[d] => IndexOf(d)' = IndexOf(d)
<1>1. Yield(d)' = Yield(d) /\ Yield(d) # 0 /\ documents[d].status # "absent"
  BY SameYield DEF HasText, Exists
<1>2. ~Textless(d)' /\ ~Textless(d)
  BY <1>1 DEF Textless
<1>3. chunks'[d] = chunks[d] => IndexedBy(d)' = IndexedBy(d)
  BY <1>1 DEF IndexedBy
<1> QED
  BY <1>2, <1>3 DEF PhaseOf, IndexOf, Phase, IndexedBy

LEMMA IndexedIs ==
  ASSUME NEW d, NEW j \in JobIds, Yield(d) \in Int, Yield(d) > 0, chunks[d] = Batch(j, Yield(d))
  PROVE  IndexedBy(d) \in JobIds /\ IndexedBy(d) # 0
<1>1. <<j, 0>> \in chunks[d]
  BY DEF Batch
<1>2. \E k \in JobIds : chunks[d] = Batch(k, Yield(d))
  OBVIOUS
<1>3. IndexedBy(d) \in JobIds
  BY <1>1, <1>2 DEF IndexedBy
<1> QED
  BY <1>3, BoundsAssumption DEF JobIds

-----------------------------------------------------------------------------
(* The steps of a worker.                                                  *)

LEMMA RowMoves ==
  ASSUME NEW p \in Procs, NEW d \in DocIds, OnOwn(p, d), IndexInv, NEW o \in Outcomes,
         \/ MarkProcessing(p, o) \/ SetDone(p, o) \/ FailDocument(p, o) \/ InsertChunks(p, o)
  PROVE  Same(d) \/ Lives(d)
<1> USE DEF Busy, Fetched
<1>1. HasText(d) /\ StoreStep
  BY DEF OnOwn
<1>2. CASE documents' = documents /\ chunks' = chunks
  BY <1>2, SameRow
<1>3. ASSUME NEW st \in {"processing", "done", "error"}, SetDocumentStatus(d, st),
             chunks' = chunks
      PROVE  documents'[d].status = st /\ chunks'[d] = chunks[d]
  BY <1>3, OwnFacts DEF SetDocumentStatus, Document
<1>4. Yield(d) \in Int
  BY OwnFacts, ExtractAssumption DEF Yield, OnOwn, Shape, StoreShape, DocShape
<1>5. CASE MarkProcessing(p, o) /\ documents' # documents
  <2>1. documents[d].status = "pending"
    BY <1>5, OwnFacts DEF MarkProcessing, WkState
  <2>2. documents'[d].status = "processing" /\ chunks'[d] = chunks[d]
    BY <1>3, <1>5 DEF MarkProcessing, OnOwn
  <2> QED
    BY <1>1, <2>1, <2>2, TextOf, TextOfNext DEF Same
<1>6. CASE SetDone(p, o) /\ documents' # documents
  <2>1. documents[d].status = "processing" /\ Indexed(d, worker[p].job) /\ Yield(d) > 0
    BY <1>6, OwnFacts DEF SetDone, WkState
  <2>2. documents'[d].status = "done" /\ chunks'[d] = chunks[d]
    BY <1>3, <1>6 DEF SetDone, OnOwn
  <2>3. IndexOf(d) # 0
    BY <1>1, <1>4, <2>1, OwnFacts, IndexedIs, TextOf DEF Indexed
  <2> QED
    BY <1>1, <2>1, <2>2, <2>3, TextOf, TextOfNext DEF Lives
<1>7. CASE FailDocument(p, o) /\ documents' # documents
  <2>1. documents[d].status \in {"processing", "done"}
    BY <1>7, OwnFacts DEF FailDocument, WkState
  <2>2. documents'[d].status = "error" /\ chunks'[d] = chunks[d]
    BY <1>3, <1>7 DEF FailDocument, OnOwn
  <2> QED
    BY <1>1, <2>1, <2>2, TextOf, TextOfNext DEF Lives
<1>8. CASE InsertChunks(p, o) /\ ~(documents' = documents /\ chunks' = chunks)
  <2>1. documents[d].status = "processing" /\ Blank(d) /\ Yield(d) > 0
    BY <1>8, OwnFacts DEF InsertChunks, WkState
  <2>2. Extract[documents[DocOf(p)].content][worker[p].format] = Yield(d)
    BY <1>8, OwnFacts DEF InsertChunks, Yield, OnOwn
  <2>3. InsertRows(d, Batch(worker[p].job, Yield(d)), Yield(d))
    BY <1>8, <2>2 DEF InsertChunks, OnOwn
  <2>4. chunks'[d] = Batch(worker[p].job, Yield(d)) /\ documents'[d].status = "processing"
    BY <2>1, <2>3, OwnFacts DEF InsertRows, Blank, Document
  <2>5. IndexedBy(d)' \in JobIds
    <3>1. PICK j \in JobIds : j = worker[p].job
      BY OwnFacts
    <3>2. \A n \in Int : n > 0 => <<j, 0>> \in Batch(j, n)
      BY DEF Batch
    <3>3. chunks'[d] # {} /\ chunks'[d] = Batch(j, Yield(d)')
      BY <1>4, <2>1, <2>4, <3>1, <3>2, OwnFacts
    <3> QED
      BY <3>3 DEF IndexedBy, JobIds, Batch
  <2> QED
    BY <1>1, <2>1, <2>4, <2>5, TextOf, TextOfNext DEF Lives, Blank
<1>9. CASE documents' = documents /\ chunks' # chunks
  BY <1>8, <1>9 DEF MarkProcessing, SetDone, FailDocument
<1> QED
  BY <1>2, <1>5, <1>6, <1>7, <1>8, <1>9 DEF MarkProcessing, SetDone, FailDocument

LEMMA WorkMaps ==
  ASSUME IndexInv, NEW p \in Procs, Work(p)
  PROVE  Maps
<1>1. /\ Shape /\ WorkerStep(p) /\ handler' = handler /\ StoreStep /\ WorkerMove(p)
  BY WorkerStoreStep, WorkerMoves DEF IndexInv, Work
<1>2. CASE documents' = documents /\ chunks' = chunks
  BY <1>2, SameRow, AllSame
<1>3. ASSUME NEW o \in Outcomes,
             \/ MarkProcessing(p, o) \/ SetDone(p, o) \/ FailDocument(p, o)
             \/ InsertChunks(p, o) \/ NoText(p, o)
      PROVE  Maps
  <2>1. worker[p].pc \in Held
    BY <1>3 DEF MarkProcessing, SetDone, FailDocument, InsertChunks, NoText, Held
  <2>2. PICK d \in DocIds : d = DocOf(p) /\ documents[d].status # "absent"
    BY <1>1, <2>1, HeldJob
  <2>3. \A e \in DocIds : e # d => Same(e)
    BY <1>1, <2>2, WorkerFrameDoc, SameRow DEF FrameDoc
  <2>4. CASE Textless(d)
    BY <1>1, <2>3, <2>4, TextlessSame, AllSame
  <2>5. CASE ~Exists(d)
    BY <1>2, <1>3, <2>2, <2>5 DEF MarkProcessing, SetDone, FailDocument, InsertChunks, NoText,
       SetDocumentStatus, CanInsert
  <2>6. CASE Exists(d) /\ ~Textless(d)
    <3>1. HasText(d)
      BY <2>2, <2>6 DEF HasText, Textless
    <3>2. OnOwn(p, d)
      BY <1>1, <2>1, <2>2, <3>1 DEF OnOwn, IndexInv
    <3>3. ~NoText(p, o)
      BY <3>2, OwnFacts DEF NoText
    <3>4. Same(d) \/ Lives(d)
      BY <1>3, <3>2, <3>3, RowMoves
    <3> QED
      BY <2>3, <3>4, AllSame, OneLives
  <2> QED
    BY <2>4, <2>5, <2>6
<1>4. ASSUME NEW o \in Outcomes,
             \/ CommitClaim(p, o) \/ GetDocument(p, o) \/ FinishMissing(p, o) \/ ReadFile(p, o)
             \/ Prepare(p, o) \/ UpsertVectors(p, o) \/ FinishOk(p, o) \/ FailJob(p, o)
      PROVE  documents' = documents /\ chunks' = chunks
  BY <1>4 DEF CommitClaim, GetDocument, FinishMissing, ReadFile, Prepare, UpsertVectors, FinishOk,
     FailJob
<1>5. LockJob(p) => documents' = documents /\ chunks' = chunks
  BY DEF LockJob, storeVars
<1> QED
  BY <1>1, <1>2, <1>3, <1>4, <1>5 DEF WorkerStep

-----------------------------------------------------------------------------
(* The steps of a handler.                                                 *)

LEMMA CreateMaps ==
  ASSUME NEW r \in Slots, Serving(r), NEW p \in Procs, NEW u \in Users, NEW c \in Contents,
         NEW f \in Formats, NEW o \in Outcomes, CreateDocument(r, p, u, c, f, o)
  PROVE  Maps
<1>1. PICK d \in DocIds : documents[d].status = "absent" /\ NewDocument(d, u, c, f)
  BY DEF CreateDocument
<1>2. chunks' = chunks /\ StoreTypeOK
  BY ServingFacts DEF CreateDocument
<1>3. \A e \in DocIds : e # d => Same(e)
  BY <1>1, <1>2, SameRow DEF NewDocument, StoreTypeOK
<1>4. documents'[d].status = "pending"
  BY <1>1, <1>2 DEF NewDocument, StoreTypeOK
<1>5. chunks[d] = {} /\ PhaseOf(d) = "absent" /\ IndexOf(d) = 0
  BY <1>1 DEF Serving, IndexInv, AbsentBlank, Blank, PhaseOf, IndexOf, IndexedBy, Phase, Textless
<1>6. IndexOf(d)' = 0
  BY <1>2, <1>5 DEF IndexOf, IndexedBy
<1>7. PhaseOf(d)' \in {"absent", "working"}
  BY <1>4 DEF PhaseOf, Phase
<1>8. Same(d) \/ Lives(d)
  BY <1>5, <1>6, <1>7 DEF Same, Lives
<1> QED
  BY <1>3, <1>8, AllSame, OneLives

LEMMA RetryMaps ==
  ASSUME NEW r \in Slots, Serving(r), NEW p \in Procs, NEW u \in Users, NEW c \in Contents,
         NEW f \in Formats, NEW o \in Outcomes, RetryDocument(r, p, u, c, f, o)
  PROVE  Maps
<1>1. PICK d \in DocIds : documents[d].status = "error" /\ ResetDocument(d, f)
  BY DEF RetryDocument, Conflicts
<1>2. StoreTypeOK /\ StoreStep
  BY ServingFacts
<1>3. \A e \in DocIds : e # d => Same(e)
  BY <1>1, <1>2, SameRow DEF ResetDocument, StoreTypeOK
<1>4. documents'[d].status = "pending" /\ chunks'[d] = {}
  BY <1>1, <1>2 DEF ResetDocument, StoreTypeOK, Document
<1>5. CASE Textless(d)
  BY <1>2, <1>3, <1>5, TextlessSame, AllSame
<1>6. CASE ~Textless(d)
  <2>1. HasText(d)
    BY <1>1, <1>6 DEF HasText, Exists, Textless
  <2>2. Lives(d)
    BY <1>1, <1>2, <1>4, <2>1, TextOf, TextOfNext DEF Lives
  <2> QED
    BY <1>3, <2>2, OneLives
<1> QED
  BY <1>5, <1>6

LEMMA DeleteMaps ==
  ASSUME NEW r \in Slots, Serving(r), NEW o \in Outcomes, DeleteDocument(r, o, Locked)
  PROVE  Maps
<1>1. CASE documents' = documents /\ chunks' = chunks
  BY <1>1, SameRow, AllSame
<1>2. CASE ~(documents' = documents /\ chunks' = chunks)
  <2>1. PICK d \in DocIds : d = handler[r].doc /\ Exists(d) /\ DeleteRow(d)
    BY <1>2 DEF DeleteDocument, Exists
  <2>2. StoreTypeOK /\ StoreStep
    BY ServingFacts
  <2>3. \A e \in DocIds : e # d => Same(e)
    BY <2>1, <2>2, SameRow DEF DeleteRow, StoreTypeOK
  <2>4. documents'[d].status = "deleted" /\ chunks'[d] = {}
    BY <2>1, <2>2 DEF DeleteRow, StoreTypeOK, Document
  <2>5. CASE Textless(d)
    BY <2>2, <2>3, <2>5, TextlessSame, AllSame
  <2>6. CASE ~Textless(d)
    <3>1. HasText(d) /\ documents[d].status \in {"pending", "processing", "done", "error"}
      BY <2>1, <2>2, <2>6 DEF HasText, Exists, Textless, StoreTypeOK, Document, DocStatus
    <3>2. PhaseOf(d) \in {"working", "done", "failed"}
      BY <3>1, TextOf
    <3>3. Lives(d)
      BY <2>2, <2>4, <3>1, <3>2, TextOfNext DEF Lives
    <3> QED
      BY <2>3, <3>3, OneLives
  <2> QED
    BY <2>5, <2>6
<1> QED
  BY <1>1, <1>2

LEMMA RequestMaps ==
  ASSUME IndexInv, NEW r \in Slots, Request(r) \/ Serve(r)
  PROVE  Maps
<1>1. Serving(r)
  <2>1. RequestStep(r) /\ worker' = worker /\ Shape
    BY DEF Request, Serve, RequestStep, IndexInv
  <2> QED
    BY <2>1, RequestStoreStep, RequestMoves DEF Serving
<1>2. CASE documents' = documents /\ chunks' = chunks
  BY <1>2, SameRow, AllSame
<1>3. ASSUME NEW o \in Outcomes,
             \/ PurgePoints(r, o) \/ WriteUpload(r, o) \/ Enqueue(r, o)
             \/ DeleteVectors(r, o) \/ Unlink(r, o)
      PROVE  Maps
  BY <1>2, <1>3 DEF PurgePoints, WriteUpload, Enqueue, DeleteVectors, Unlink
<1>4. \/ AnswerSkipped(r) \/ LookupOwned(r)
      \/ \E p \in Procs, u \in Users, c \in Contents : SkipDuplicate(r, p, u, c)
      \/ \E p \in Procs, u \in Users, e \in DocIds : ReadChunkIds(r, p, u, e)
      => Maps
  BY <1>2 DEF AnswerSkipped, LookupOwned, SkipDuplicate, ReadChunkIds, storeVars
<1> QED
  BY <1>1, <1>3, <1>4, CreateMaps, RetryMaps, DeleteMaps DEF Serving, RequestStep, Arrive, Continue

-----------------------------------------------------------------------------
LEMMA StepMaps == IndexInv /\ [Next]_vars => [Lifecycle!Next]_(Lifecycle!vars)
<1> SUFFICES ASSUME IndexInv, [Next]_vars PROVE Maps
  BY DEF Maps
<1>1. ASSUME NEW p \in Procs, Restart(p) PROVE Maps
  BY <1>1, SameRow, AllSame DEF Restart, storeVars
<1>2. CASE UNCHANGED vars
  BY <1>2, SameRow, AllSame DEF vars
<1> QED
  BY <1>1, <1>2, WorkMaps, RequestMaps DEF Next

LEMMA InitMaps == Init => Lifecycle!Init
<1> SUFFICES ASSUME Init PROVE Lifecycle!Init
  OBVIOUS
<1>1. \A d \in DocIds : documents[d].status = "absent" /\ chunks[d] = {}
  BY DEF Init, StoreInit, NoDocument
<1> QED
  BY <1>1 DEF Lifecycle!Init, Textless, Phase, IndexedBy

\* The document half implements DocumentLifecycle: whatever fails, restarts or runs
\* at the same time, an attempt becomes searchable as a whole, "done" is only said of
\* a searchable document, a retry starts from nothing, a deleted document stays away.
THEOREM ImplementsLifecycleHolds == Spec => ImplementsLifecycle
BY InitMaps, IndexInit, IndexStep, StepMaps, PTL DEF Spec, ImplementsLifecycle, Lifecycle!Spec
=============================================================================

--------------------------- MODULE RagSearchProofs ---------------------------
(***************************************************************************)
(* Proofs about RagSearch, for any number of documents, users, processes,  *)
(* requests, searches, failed calls and restarts, and any limits.          *)
(***************************************************************************)
EXTENDS RagSearch, RagIndexProofs

(***************************************************************************)
(* The ingestion a search runs beside keeps its own invariant (IndexInv):  *)
(* a search writes nothing.  What a search holds in memory stays true of   *)
(* the stores, because an owner never changes and a deleted document never *)
(* comes back; and no row of a deleted document is left or ever inserted   *)
(* (GoneBlank), so that hydration drops what its vectors still answer.     *)
(***************************************************************************)
GoneBlank == \A d \in DocIds : documents[d].status \in {"absent", "deleted"} => chunks[d] = {}

OwnedHits(u, S) ==
    \A h \in S : documents[h[1]].owner = u /\ documents[h[1]].status # "absent"

SearchSound(x) ==
    /\ x \in Search
    /\ OwnedHits(x.user, x.found) /\ OwnedHits(x.user, x.rows) /\ OwnedHits(x.user, x.answer)
    /\ \A d \in x.dead : documents[d].status = "deleted"
    /\ \A h \in x.rows \cup x.answer : h[1] \notin x.dead

SearchInv ==
    /\ IndexInv
    /\ GoneBlank
    /\ search \in [Searches -> Search]
    /\ \A s \in Searches : SearchSound(search[s])

-----------------------------------------------------------------------------
(* The rows of a deleted document.                                         *)

LEMMA StatusKeepsGone ==
  ASSUME Shape, GoneBlank, NEW e, NEW s \in {"processing", "done", "error"},
         SetDocumentStatus(e, s), chunks' = chunks
  PROVE  GoneBlank'
  BY DEF SetDocumentStatus, Exists, GoneBlank, Shape, StoreShape, StoreTypeOK, Document

LEMMA InsertKeepsGone ==
  ASSUME Shape, GoneBlank, NEW p \in Procs, NEW o \in Outcomes, InsertChunks(p, o)
  PROVE  GoneBlank'
<1> DEFINE d == DocOf(p)
           n == Extract[documents[d].content][worker[p].format]
           B == Batch(worker[p].job, n)
<1>1. UNCHANGED <<documents, chunks>> \/ (Exists(d) /\ InsertRows(d, B, n))
  BY DEF InsertChunks, CanInsert
<1> HIDE DEF d, n, B
<1> QED
  BY <1>1 DEF InsertRows, Exists, GoneBlank, Shape, StoreShape, StoreTypeOK, Document

LEMMA WorkKeepsGone ==
  ASSUME Shape, GoneBlank, NEW p \in Procs, WorkerStep(p)
  PROVE  GoneBlank'
<1>1. CASE UNCHANGED <<documents, chunks>>
  BY <1>1 DEF GoneBlank
<1>2. ASSUME NEW o \in Outcomes, InsertChunks(p, o) PROVE GoneBlank'
  BY <1>2, InsertKeepsGone
<1>3. ASSUME NEW o \in Outcomes,
             MarkProcessing(p, o) \/ NoText(p, o) \/ SetDone(p, o) \/ FailDocument(p, o)
      PROVE  GoneBlank'
  <2>1. chunks' = chunks
    BY <1>3 DEF MarkProcessing, NoText, SetDone, FailDocument
  <2>2. documents' = documents
        \/ \E s \in {"processing", "done", "error"} : SetDocumentStatus(DocOf(p), s)
    BY <1>3 DEF MarkProcessing, NoText, SetDone, FailDocument
  <2> QED
    BY <1>1, <2>1, <2>2, StatusKeepsGone
<1>4. ASSUME NEW o \in Outcomes,
             \/ CommitClaim(p, o) \/ GetDocument(p, o) \/ FinishMissing(p, o) \/ ReadFile(p, o)
             \/ Prepare(p, o) \/ UpsertVectors(p, o) \/ FinishOk(p, o) \/ FailJob(p, o)
      PROVE  UNCHANGED <<documents, chunks>>
  BY <1>4 DEF CommitClaim, GetDocument, FinishMissing, ReadFile, Prepare, UpsertVectors,
              FinishOk, FailJob
<1>5. LockJob(p) => UNCHANGED <<documents, chunks>>
  BY DEF LockJob, storeVars
<1> QED
  BY <1>1, <1>2, <1>3, <1>4, <1>5 DEF WorkerStep

LEMMA RequestKeepsGone ==
  ASSUME Shape, GoneBlank, NEW r \in Slots, RequestStep(r)
  PROVE  GoneBlank'
<1> DEFINE Kept == UNCHANGED <<documents, chunks>>
<1>1. CASE Kept
  BY <1>1 DEF GoneBlank
<1>2. ASSUME NEW p \in Procs, NEW u \in Users, NEW c \in Contents, NEW f \in Formats,
             NEW o \in Outcomes, CreateDocument(r, p, u, c, f, o)
      PROVE  GoneBlank'
  BY <1>2 DEF CreateDocument, NewDocument, GoneBlank, Shape, StoreShape, StoreTypeOK
<1>3. ASSUME NEW p \in Procs, NEW u \in Users, NEW c \in Contents, NEW f \in Formats,
             NEW o \in Outcomes, RetryDocument(r, p, u, c, f, o)
      PROVE  GoneBlank'
  <2>1. PICK e \in DocIds : ResetDocument(e, f)
    BY <1>3 DEF RetryDocument, Conflicts
  <2> QED
    BY <2>1 DEF ResetDocument, GoneBlank, Shape, StoreShape, StoreTypeOK, Document
<1>4. ASSUME NEW o \in Outcomes, DeleteDocument(r, o, Locked) PROVE GoneBlank'
  <2>1. Kept \/ DeleteRow(handler[r].doc)
    BY <1>4 DEF DeleteDocument
  <2> QED
    BY <1>1, <2>1 DEF DeleteRow, GoneBlank, Shape, StoreShape, StoreTypeOK, Document
<1>5. ASSUME NEW o \in Outcomes, \/ PurgePoints(r, o) \/ DeleteVectors(r, o)
                                 \/ WriteUpload(r, o) \/ Enqueue(r, o) \/ Unlink(r, o)
      PROVE  Kept
  BY <1>5 DEF PurgePoints, DeleteVectors, WriteUpload, Enqueue, Unlink
<1>6. \/ AnswerSkipped(r) \/ LookupOwned(r)
      \/ \E p \in Procs, u \in Users, c \in Contents : SkipDuplicate(r, p, u, c)
      \/ \E p \in Procs, u \in Users, e \in DocIds : ReadChunkIds(r, p, u, e)
      => Kept
  BY DEF AnswerSkipped, LookupOwned, SkipDuplicate, ReadChunkIds, storeVars
<1> HIDE DEF Kept
<1> QED
  BY <1>1, <1>2, <1>3, <1>4, <1>5, <1>6 DEF RequestStep, Arrive, Continue

-----------------------------------------------------------------------------
(* The ingestion beside the searches.                                      *)

\* A step of a request, a worker or a restart keeps what is never taken back.
LEMMA IngestKeeps ==
  ASSUME IndexInv, GoneBlank,
         \/ \E p \in Procs : Work(p) \/ Restart(p)
         \/ \E r \in Slots : Request(r) \/ Serve(r)
  PROVE  IndexInv' /\ GoneBlank' /\ KeepsDocuments
<1>1. IndexInv' /\ Shape
  BY IndexStep DEF Next, IndexInv
<1>2. ASSUME NEW p \in Procs, Work(p) PROVE GoneBlank' /\ KeepsDocuments
  BY <1>1, <1>2, WorkerStoreStep, WorkKeepsGone DEF Work, StoreStep
<1>3. ASSUME NEW p \in Procs, Restart(p) PROVE GoneBlank' /\ KeepsDocuments
  BY <1>3 DEF Restart, storeVars, GoneBlank, KeepsDocuments
<1>4. ASSUME NEW r \in Slots, Request(r) \/ Serve(r) PROVE GoneBlank' /\ KeepsDocuments
  <2>1. RequestStep(r)
    BY <1>4 DEF Request, Serve, RequestStep
  <2> QED
    BY <1>1, <2>1, RequestStoreStep, RequestKeepsGone DEF StoreStep
<1> QED
  BY <1>1, <1>2, <1>3, <1>4

\* A step that changes nothing of the stores but the count of failed calls.
LEMMA ReadingKeeps ==
  ASSUME IndexInv, failures' \in Nat,
         UNCHANGED <<documents, chunks, points, uploads, jobs, nextJob, worker, handler, crashes>>
  PROVE  IndexInv'
<1>1. Shape'
  BY DEF IndexInv, Shape, StoreShape, StoreTypeOK, DocShape, JobShape, WorkerTypeOK, WorkerShape,
     WorkerOK, OneWorkerPerJob, RoutesTypeOK, HandlerShape, HandlerOK, DocOf, Yield, Uploading, At,
     JobIds, ChunkIds, Worker, Handler
<1>2. StoreStep
  BY <1>1 DEF Shape, StoreStep, KeepsDocuments, KeepsJobs
<1>3. AbsentBlank' /\ DoneHasText'
  BY DEF IndexInv, AbsentBlank, DoneHasText, Blank, Yield
<1>4. ASSUME NEW d \in DocIds PROVE TicketInv(d)'
  <2>1. Shape /\ TicketInv(d) /\ FrameDoc(d) /\ FrameTickets(d)
    BY DEF IndexInv, FrameDoc, FrameTickets, Up, Uploading, Qu, Wk, DocOf
  <2> QED
    BY <1>2, <2>1, Framed
<1> QED
  BY <1>1, <1>3, <1>4 DEF IndexInv

-----------------------------------------------------------------------------
(* The steps of a search.                                                  *)

LEMMA BestOf ==
  ASSUME NEW S, NEW n, NEW X \in Best(S, n)
  PROVE  X \subseteq S
  BY DEF Best, kSubset

\* What the stores hold under the name of a document that is theirs.
LEMMA HeldHits ==
  ASSUME IndexInv, NEW u
  PROVE  /\ Of(points, OwnedBy(u)) \subseteq Hits /\ OwnedHits(u, Of(points, OwnedBy(u)))
         /\ Of(chunks, OwnedBy(u)) \subseteq Hits /\ OwnedHits(u, Of(chunks, OwnedBy(u)))
<1>1. ASSUME NEW index, index \in [DocIds -> SUBSET ChunkIds],
             \A d \in DocIds : documents[d].status = "absent" => index[d] = {}
      PROVE  /\ Of(index, OwnedBy(u)) \subseteq Hits
             /\ OwnedHits(u, Of(index, OwnedBy(u)))
  <2> SUFFICES ASSUME NEW h \in Of(index, OwnedBy(u))
               PROVE  h \in Hits /\ documents[h[1]].owner = u /\ documents[h[1]].status # "absent"
    BY DEF OwnedHits
  <2>1. PICK d \in OwnedBy(u) : h \in {d} \X index[d]
    BY DEF Of
  <2>2. d \in DocIds /\ documents[d].owner = u /\ h[1] = d /\ h[2] \in index[d]
        /\ h = <<h[1], h[2]>>
    BY <2>1 DEF OwnedBy
  <2>3. index[d] # {} /\ index[d] \subseteq ChunkIds
    BY <1>1, <2>2
  <2> QED
    BY <1>1, <2>2, <2>3 DEF Hits
<1>2. points \in [DocIds -> SUBSET ChunkIds] /\ chunks \in [DocIds -> SUBSET ChunkIds]
  BY DEF IndexInv, Shape, StoreShape, StoreTypeOK
<1>3. \A d \in DocIds : documents[d].status = "absent" => points[d] = {} /\ chunks[d] = {}
  BY DEF IndexInv, AbsentBlank, Blank
<1> QED
  BY <1>1, <1>2, <1>3

LEMMA QuietSound == SearchSound(Quiet)
  BY DEF SearchSound, OwnedHits, Quiet, Search, SearchPC

\* The search that is over keeps what it may show.
LEMMA OverSound ==
  ASSUME NEW p \in Procs \cup {Nil}, NEW u \in Users \cup {Nil}, NEW dead \in SUBSET DocIds,
         NEW A \in SUBSET Hits, OwnedHits(u, A), \A h \in A : h[1] \notin dead,
         \A d \in dead : documents[d].status = "deleted"
  PROVE  SearchSound(Over(p, u, dead, A))
<1> DEFINE y == [pc |-> "answered", proc |-> p, user |-> u, found |-> {}, rows |-> {},
                 answer |-> A, dead |-> dead, due |-> {}]
<1>1. Over(p, u, dead, A) = Quiet \/ Over(p, u, dead, A) = y
  BY DEF Over, Quiet
<1>2. SearchSound(y)
  BY DEF SearchSound, OwnedHits, Search, SearchPC
<1> QED
  BY <1>1, <1>2, QuietSound

\* One search changes, to a sound one.
OneSearch(s) == \E y : SearchSound(y) /\ search' = [search EXCEPT ![s] = y]

LEMMA BeginSound ==
  ASSUME SearchInv, NEW s \in Searches, NEW p \in Procs, NEW u \in Users, NEW o,
         BeginSearch(s, p, u, o)
  PROVE  OneSearch(s)
<1> DEFINE y == [Quiet EXCEPT !.pc = "vector", !.proc = p, !.user = u, !.dead = Deleted]
<1>1. /\ y \in Search /\ y.found = {} /\ y.rows = {} /\ y.answer = {} /\ y.dead = Deleted
  BY DEF Quiet, Search, SearchPC, Deleted
<1>2. search' = [search EXCEPT ![s] = IF o = "ok" THEN y ELSE Quiet]
  BY DEF BeginSearch
<1> HIDE DEF y
<1>3. SearchSound(y)
  BY <1>1 DEF SearchSound, OwnedHits, Deleted
<1> QED
  BY <1>2, <1>3, QuietSound DEF OneSearch

LEMMA EndsSound ==
  ASSUME SearchInv, NEW s \in Searches, NEW A, A \subseteq search[s].rows, Ends(s, A)
  PROVE  OneSearch(s)
<1> DEFINE x == search[s]
           y == Over(x.proc, x.user, x.dead, A)
<1>1. SearchSound(x) /\ x \in Search
  BY DEF SearchInv, SearchSound
<1>2. /\ x.proc \in Procs \cup {Nil} /\ x.user \in Users \cup {Nil} /\ x.dead \in SUBSET DocIds
      /\ x.rows \in SUBSET Hits
  BY <1>1 DEF Search
<1>3. /\ A \in SUBSET Hits /\ OwnedHits(x.user, A) /\ \A h \in A : h[1] \notin x.dead
      /\ \A d \in x.dead : documents[d].status = "deleted"
  BY <1>1, <1>2 DEF SearchSound, OwnedHits
<1>4. SearchSound(y)
  BY <1>2, <1>3, OverSound
<1>5. search' = [search EXCEPT ![s] = y]
  BY DEF Ends
<1> QED
  BY <1>4, <1>5 DEF OneSearch

LEMMA VectorSound ==
  ASSUME SearchInv, NEW s \in Searches, NEW o, VectorSearch(s, o)
  PROVE  OneSearch(s)
<1> DEFINE x == search[s]
           mine == Of(points, OwnedBy(x.user))
           done == {d \in OwnedBy(x.user) : documents[d].status = "done"}
           due == IF o = "ok" /\ Cardinality(mine) <= CandidateK THEN Of(chunks, done) ELSE {}
<1>1. SearchSound(x) /\ x \in Search /\ search \in [Searches -> Search]
  BY DEF SearchInv, SearchSound
<1>2. PICK V \in IF o = "ok" THEN Best(mine, CandidateK) ELSE {{}} :
         search' = [search EXCEPT ![s].pc = "fts", ![s].found = V, ![s].due = due]
  BY DEF VectorSearch
<1>3. V \subseteq mine
  BY <1>2, BestOf
<1>4. V \in SUBSET Hits /\ OwnedHits(x.user, V)
  BY <1>3, HeldHits DEF SearchInv, OwnedHits
<1>5. due \in SUBSET Hits
  <2>1. Of(chunks, done) \subseteq Of(chunks, OwnedBy(x.user))
    BY DEF Of
  <2> QED
    BY <2>1, HeldHits DEF SearchInv
<1> DEFINE y == [x EXCEPT !.pc = "fts", !.found = V, !.due = due]
<1>6. search' = [search EXCEPT ![s] = y]
  BY <1>1, <1>2
<1> HIDE DEF mine, done, due
<1>7. SearchSound(y)
  BY <1>1, <1>4, <1>5 DEF SearchSound, OwnedHits, Search, SearchPC
<1> QED
  BY <1>6, <1>7 DEF OneSearch

LEMMA FtsSound ==
  ASSUME SearchInv, NEW s \in Searches, NEW o, FtsSearch(s, o)
  PROVE  OneSearch(s)
<1> DEFINE x == search[s]
           text == Of(chunks, OwnedBy(x.user))
<1>1. SearchSound(x) /\ x \in Search /\ search \in [Searches -> Search]
  BY DEF SearchInv, SearchSound
<1>2. PICK F \in IF o = "ok" THEN SUBSET text ELSE {{}} :
         \E C \in Fused(x.found, F) :
            IF C = {} THEN Ends(s, {})
            ELSE search' = [search EXCEPT ![s].pc = "fetch", ![s].found = C,
                     ![s].due = IF Cardinality(x.found \cup F) <= CandidateK THEN @ ELSE {}]
  BY DEF FtsSearch
<1> DEFINE due == IF Cardinality(x.found \cup F) <= CandidateK THEN x.due ELSE {}
<1>3. PICK C \in Fused(x.found, F) :
         \/ Ends(s, {})
         \/ search' = [search EXCEPT ![s].pc = "fetch", ![s].found = C, ![s].due = due]
  BY <1>1, <1>2
<1>4. C \subseteq x.found \cup F /\ F \subseteq text
  BY <1>2, BestOf DEF Fused
<1>5. C \in SUBSET Hits /\ OwnedHits(x.user, C)
  BY <1>1, <1>4, HeldHits DEF SearchInv, SearchSound, OwnedHits, Search
<1>6. due \in SUBSET Hits
  BY <1>1 DEF Search
<1> DEFINE y == [x EXCEPT !.pc = "fetch", !.found = C, !.due = due]
<1>7. CASE search' = [search EXCEPT ![s].pc = "fetch", ![s].found = C, ![s].due = due]
  <2>1. search' = [search EXCEPT ![s] = y]
    BY <1>1, <1>7
  <2> HIDE DEF due
  <2>2. SearchSound(y)
    BY <1>1, <1>5, <1>6 DEF SearchSound, OwnedHits, Search, SearchPC
  <2> QED
    BY <2>1, <2>2 DEF OneSearch
<1>8. CASE Ends(s, {})
  BY <1>8, EndsSound
<1> QED
  BY <1>3, <1>7, <1>8

\* A row that is still there is of no document deleted before the search.
LEMMA FetchSound ==
  ASSUME SearchInv, NEW s \in Searches, NEW o, FetchChunks(s, o)
  PROVE  OneSearch(s)
<1> DEFINE x == search[s]
           rows == x.found \cap Of(chunks, DocIds)
           y == [x EXCEPT !.pc = "rerank", !.rows = rows]
<1>1. SearchSound(x) /\ x \in Search /\ search \in [Searches -> Search]
  BY DEF SearchInv, SearchSound
<1>2. \A h \in rows : h \in x.found /\ h[1] \notin x.dead
  <2> SUFFICES ASSUME NEW h \in rows PROVE h[1] \notin x.dead
    OBVIOUS
  <2>1. PICK d \in DocIds : h \in {d} \X chunks[d]
    BY DEF Of
  <2>2. h[1] = d /\ chunks[d] # {}
    BY <2>1
  <2> QED
    BY <1>1, <2>2 DEF SearchInv, GoneBlank, SearchSound
<1>3. search' = [search EXCEPT ![s] = y] \/ Ends(s, {})
  BY <1>1 DEF FetchChunks
<1> HIDE DEF rows
<1>4. SearchSound(y)
  BY <1>1, <1>2 DEF SearchSound, OwnedHits, Search, SearchPC
<1>5. CASE Ends(s, {})
  BY <1>5, EndsSound
<1>6. CASE search' = [search EXCEPT ![s] = y]
  BY <1>4, <1>6 DEF OneSearch
<1> QED
  BY <1>3, <1>5, <1>6

LEMMA AnswerSound ==
  ASSUME SearchInv, NEW s \in Searches, NEW o, RerankAndAnswer(s, o)
  PROVE  OneSearch(s)
  BY BestOf, EndsSound DEF RerankAndAnswer

LEMMA ContextSound ==
  ASSUME SearchInv, NEW s \in Searches, NEW p \in Procs, NEW u \in Users, NEW d \in DocIds,
         NEW ordinal, NEW before, NEW after, NEW o,
         GetContext(s, p, u, d, ordinal, before, after, o)
  PROVE  OneSearch(s)
<1> DEFINE all == Of(chunks, {d} \cap OwnedBy(u))
           rows == {h \in all : ordinal - before <= h[2][2] /\ h[2][2] <= ordinal + after}
           A == IF o = "ok" THEN rows ELSE {}
           y == Over(p, u, Deleted, A)
<1>1. A \subseteq all
  OBVIOUS
<1>2. all \subseteq Of(chunks, OwnedBy(u))
  BY DEF Of
<1>3. A \in SUBSET Hits /\ OwnedHits(u, A)
  BY <1>1, <1>2, HeldHits DEF SearchInv, OwnedHits
<1>4. \A h \in A : h[1] \notin Deleted
  <2> SUFFICES ASSUME NEW h \in all PROVE h[1] \notin Deleted
    BY <1>1
  <2>1. PICK e \in {d} \cap OwnedBy(u) : h \in {e} \X chunks[e]
    BY DEF Of
  <2>2. h[1] = e /\ e \in DocIds /\ chunks[e] # {}
    BY <2>1
  <2> QED
    BY <2>2 DEF SearchInv, GoneBlank, Deleted
<1>5. search' = [search EXCEPT ![s] = y]
  BY DEF GetContext
<1> HIDE DEF A
<1>6. SearchSound(y)
  BY <1>3, <1>4, OverSound DEF Deleted
<1> QED
  BY <1>5, <1>6 DEF OneSearch

-----------------------------------------------------------------------------
(* The invariant.                                                          *)

\* What a search holds stays sound while the stores change under it.
LEMMA SoundNext ==
  ASSUME KeepsDocuments, NEW s, NEW y, SearchSound(y), search'[s] = y
  PROVE  search'[s] \in Search /\ SearchSound(search[s])'
<1>1. y \in Search
  BY DEF SearchSound
<1> QED
  BY <1>1 DEF SearchSound, OwnedHits, KeepsDocuments, Search, Hits

LEMMA SearchesStay ==
  ASSUME SearchInv, KeepsDocuments, IndexInv', GoneBlank',
         NEW T \in SUBSET Searches,
         search' = [s \in Searches |-> IF s \in T THEN Quiet ELSE search[s]]
  PROVE  SearchInv'
<1>1. ASSUME NEW s \in Searches
      PROVE  search'[s] \in Search /\ SearchSound(search[s])'
  <2>1. PICK y : search'[s] = y /\ SearchSound(y)
    BY QuietSound DEF SearchInv
  <2> QED
    BY <2>1, SoundNext
<1> QED
  BY <1>1 DEF SearchInv

LEMMA SameSearches ==
  ASSUME SearchInv, KeepsDocuments, IndexInv', GoneBlank', search' = search
  PROVE  SearchInv'
<1>1. ASSUME NEW s \in Searches PROVE SearchSound(search[s])'
  BY SoundNext DEF SearchInv
<1> QED
  BY <1>1 DEF SearchInv, SearchSound

LEMMA SearchStepKeeps ==
  ASSUME SearchInv, NEW s \in Searches, SearchStep(s)
  PROVE  SearchInv'
<1>1. UNCHANGED <<documents, chunks, points, uploads, jobs, nextJob, worker, handler, crashes>>
  BY DEF SearchStep
<1>2. KeepsDocuments /\ GoneBlank'
  BY <1>1 DEF KeepsDocuments, GoneBlank, SearchInv
<1>3. failures' \in Nat
  <2>1. failures \in Nat
    BY DEF SearchInv, IndexInv, Shape, StoreShape, StoreTypeOK
  <2>2. failures' = failures \/ failures' = failures + 1
    BY DEF SearchStep, Ask, Advance, BeginSearch, GetContext, VectorSearch, FtsSearch, FetchChunks,
           RerankAndAnswer, Charge
  <2> QED
    BY <2>1, <2>2
<1>4. IndexInv'
  BY <1>1, <1>3, ReadingKeeps DEF SearchInv
<1>5. OneSearch(s)
  BY BeginSound, ContextSound, VectorSound, FtsSound, FetchSound, AnswerSound
     DEF SearchStep, Ask, Advance
<1>6. PICK y : SearchSound(y) /\ search' = [search EXCEPT ![s] = y]
  BY <1>5 DEF OneSearch
<1>7. ASSUME NEW t \in Searches PROVE SearchSound(search[t])'
  <2>1. PICK z : search'[t] = z /\ SearchSound(z)
    BY <1>6 DEF SearchInv
  <2> QED
    BY <1>2, <2>1, SoundNext
<1>8. search' \in [Searches -> Search]
  BY <1>6 DEF SearchInv, SearchSound
<1> QED
  BY <1>2, <1>4, <1>7, <1>8 DEF SearchInv

LEMMA SearchInvariant == SearchSpec => []SearchInv
<1>1. SearchInit => SearchInv
  <2> SUFFICES ASSUME SearchInit PROVE SearchInv
    OBVIOUS
  <2>1. IndexInv /\ GoneBlank
    BY IndexInit DEF SearchInit, Init, StoreInit, GoneBlank
  <2>2. search = [s \in Searches |-> Quiet] /\ Quiet \in Search
    BY QuietSound DEF SearchInit, SearchSound
  <2> QED
    BY <2>1, <2>2, QuietSound DEF SearchInv
<1>2. SearchInv /\ [SearchNext]_searchVars => SearchInv'
  <2> SUFFICES ASSUME SearchInv, [SearchNext]_searchVars PROVE SearchInv'
    OBVIOUS
  <2>1. CASE IngestStep
    <3>1. IndexInv' /\ GoneBlank' /\ KeepsDocuments
      BY <2>1, IngestKeeps DEF IngestStep, SearchInv
    <3> QED
      BY <2>1, <3>1, SameSearches DEF IngestStep
  <2>2. ASSUME NEW p \in Procs, RestartAll(p) PROVE SearchInv'
    <3> DEFINE T == {s \in Searches : search[s].proc = p}
    <3>1. IndexInv' /\ GoneBlank' /\ KeepsDocuments
      BY <2>2, IngestKeeps DEF RestartAll, SearchInv
    <3>2. search' = [s \in Searches |-> IF s \in T THEN Quiet ELSE search[s]]
      BY <2>2 DEF RestartAll
    <3> QED
      BY <3>1, <3>2, SearchesStay
  <2>3. ASSUME NEW s \in Searches, SearchStep(s) PROVE SearchInv'
    BY <2>3, SearchStepKeeps
  <2>4. CASE UNCHANGED searchVars
    <3>1. IndexInv'
      BY <2>4, IndexStep DEF searchVars, SearchInv, vars
    <3>2. KeepsDocuments /\ GoneBlank'
      BY <2>4 DEF searchVars, KeepsDocuments, GoneBlank, SearchInv
    <3> QED
      BY <2>4, <3>1, <3>2, SameSearches DEF searchVars
  <2> QED
    BY <2>1, <2>2, <2>3, <2>4 DEF SearchNext
<1> QED
  BY <1>1, <1>2, PTL DEF SearchSpec

-----------------------------------------------------------------------------
\* The types of the searches, whatever the stores return or fail to return.
THEOREM SearchTypeCorrect == SearchSpec => []SearchTypeOK
<1>1. SearchInv => SearchTypeOK
  BY DEF SearchInv, SearchTypeOK
<1> QED
  BY <1>1, SearchInvariant, PTL

\* Whatever is uploaded, deleted, retried or restarted between the calls of a
\* search, it answers chunks of its own user's documents only, although it
\* fetches the rows by id alone.
THEOREM ResultsAreOwnedHolds == SearchSpec => []ResultsAreOwned
<1>1. SearchInv => ResultsAreOwned
  BY DEF SearchInv, SearchSound, OwnedHits, ResultsAreOwned
<1> QED
  BY <1>1, SearchInvariant, PTL

\* A search that begins after a document was deleted answers nothing of it,
\* whichever of its vectors stayed behind or are written later.
THEOREM DeletedStaysDeletedHolds == SearchSpec => []DeletedStaysDeleted
<1>1. SearchInv => DeletedStaysDeleted
  BY DEF SearchInv, SearchSound, DeletedStaysDeleted
<1> QED
  BY <1>1, SearchInvariant, PTL

-----------------------------------------------------------------------------
(* What a search has to find (SearchFindsDone).  The rows of a document    *)
(* that is done are of a job whose batch is inserted (Spent), so that a    *)
(* row that a delete or a retry removes never comes back under its name:   *)
(* the rows that are still there when the search ends were there when it   *)
(* fetched them.                                                           *)

BeforeInsert == {"claiming", "fetch", "read", "mark", "prepare", "insert"}

Spent(j) ==
    /\ j \in JobIds /\ jobs[j].status \notin {"none", "queued"}
    /\ \A p \in Procs : worker[p].pc \in BeforeInsert => worker[p].job # j

DueSound(x) ==
    /\ x.due # {} => x.pc \in {"fts", "fetch", "rerank"}
    /\ x.pc \in {"fts", "fetch"} => x.due \subseteq x.found
    /\ x.pc = "rerank" => x.due \cap Of(chunks, DocIds) \subseteq x.rows
    /\ \A h \in x.due : Spent(h[2][1])

\* No chunk of a job whose batch is in appears again.
NoRevival ==
    \A j \in JobIds : Spent(j) =>
       /\ Spent(j)'
       /\ \A d \in DocIds : \A c \in chunks'[d] : c[1] = j => c \in chunks[d]

\* A worker about to insert was so before, or has just locked a queued job.
LEMMA WorkersTurn ==
  ASSUME Shape, NEW p \in Procs, WorkerStep(p), NEW q \in Procs,
         worker'[q].pc \in BeforeInsert
  PROVE  \/ worker[q].pc \in BeforeInsert /\ worker'[q].job = worker[q].job
         \/ jobs[worker'[q].job].status = "queued"
<1>1. worker \in [Procs -> Worker]
  BY DEF Shape, WorkerTypeOK
<1>2. CASE LockJob(p)
  BY <1>1, <1>2 DEF LockJob, Claimable, Worker
<1>3. ASSUME NEW o \in Outcomes, CommitClaim(p, o)
      PROVE  worker[q].pc \in BeforeInsert /\ worker'[q].job = worker[q].job
  BY <1>1, <1>3 DEF CommitClaim, Goto, BeforeInsert, Polling, Worker
<1>4. ASSUME NEW o \in Outcomes, GetDocument(p, o) \/ ReadFile(p, o)
      PROVE  worker[q].pc \in BeforeInsert /\ worker'[q].job = worker[q].job
  BY <1>1, <1>4 DEF GetDocument, ReadFile, Goto, BeforeInsert, Dead, Polling, Worker
<1>5. ASSUME NEW o \in Outcomes, MarkProcessing(p, o) \/ Prepare(p, o) \/ InsertChunks(p, o)
      PROVE  worker[q].pc \in BeforeInsert /\ worker'[q].job = worker[q].job
  BY <1>1, <1>5 DEF MarkProcessing, Prepare, InsertChunks, GoOn, Goto, BeforeInsert, Worker
<1>6. ASSUME NEW o \in Outcomes, NoText(p, o) \/ UpsertVectors(p, o) \/ SetDone(p, o)
      PROVE  worker[q].pc \in BeforeInsert /\ worker'[q].job = worker[q].job
  BY <1>1, <1>6 DEF NoText, UpsertVectors, SetDone, GoOn, Goto, BeforeInsert, Worker
<1>7. ASSUME NEW o \in Outcomes, \/ FinishMissing(p, o) \/ FinishOk(p, o) \/ FailDocument(p, o)
                                 \/ FailJob(p, o)
      PROVE  worker[q].pc \in BeforeInsert /\ worker'[q].job = worker[q].job
  BY <1>1, <1>7 DEF FinishMissing, FinishOk, FailDocument, FailJob, Goto, BeforeInsert, Polling,
                    Dead, Worker
<1> QED
  BY <1>2, <1>3, <1>4, <1>5, <1>6, <1>7 DEF WorkerStep

\* The chunks a worker adds are of the job it holds.
LEMMA WorkersAdd ==
  ASSUME Shape, NEW p \in Procs, WorkerStep(p), NEW d \in DocIds, NEW c \in chunks'[d],
         c \notin chunks[d]
  PROVE  worker[p].pc \in BeforeInsert /\ c[1] = worker[p].job
<1>1. ASSUME NEW o \in Outcomes, InsertChunks(p, o)
      PROVE  worker[p].pc \in BeforeInsert /\ c[1] = worker[p].job
  <2> DEFINE e == DocOf(p)
             n == Extract[documents[e].content][worker[p].format]
             B == Batch(worker[p].job, n)
  <2>1. worker[p].pc = "insert" /\ (chunks' = chunks \/ InsertRows(e, B, n))
    BY <1>1 DEF InsertChunks
  <2>2. \A b \in B : b[1] = worker[p].job
    BY DEF Batch
  <2> HIDE DEF e, n, B
  <2>3. c \in B
    BY <2>1 DEF InsertRows, Shape, StoreShape, StoreTypeOK
  <2> QED
    BY <2>1, <2>2, <2>3 DEF BeforeInsert
<1>2. ASSUME NEW o \in Outcomes,
             \/ CommitClaim(p, o) \/ GetDocument(p, o) \/ FinishMissing(p, o) \/ ReadFile(p, o)
             \/ MarkProcessing(p, o) \/ Prepare(p, o) \/ NoText(p, o) \/ UpsertVectors(p, o)
             \/ SetDone(p, o) \/ FinishOk(p, o) \/ FailDocument(p, o) \/ FailJob(p, o)
      PROVE  chunks' = chunks
  BY <1>2 DEF CommitClaim, GetDocument, FinishMissing, ReadFile, MarkProcessing, Prepare, NoText,
              UpsertVectors, SetDone, FinishOk, FailDocument, FailJob
<1>3. LockJob(p) => chunks' = chunks
  BY DEF LockJob, storeVars
<1> QED
  BY <1>1, <1>2, <1>3 DEF WorkerStep

LEMMA WorkRevivesNone ==
  ASSUME Shape, NEW p \in Procs, WorkerStep(p)
  PROVE  NoRevival
<1>1. KeepsJobs
  BY WorkerStoreStep DEF StoreStep
<1>2. ASSUME NEW j \in JobIds, Spent(j) PROVE Spent(j)'
  <2>1. jobs'[j].status \notin {"none", "queued"}
    BY <1>1, <1>2 DEF KeepsJobs, Spent
  <2>2. ASSUME NEW q \in Procs, worker'[q].pc \in BeforeInsert PROVE worker'[q].job # j
    BY <1>2, <2>2, WorkersTurn DEF Spent
  <2> QED
    BY <2>1, <2>2 DEF Spent, JobIds
<1>3. ASSUME NEW j \in JobIds, Spent(j), NEW d \in DocIds, NEW c \in chunks'[d], c[1] = j
      PROVE  c \in chunks[d]
  BY <1>3, WorkersAdd DEF Spent
<1> QED
  BY <1>2, <1>3 DEF NoRevival

\* Requests only remove chunks.
LEMMA RequestsRemove ==
  ASSUME Shape, NEW r \in Slots, RequestStep(r), NEW d \in DocIds
  PROVE  chunks'[d] \subseteq chunks[d]
<1>1. ASSUME NEW p \in Procs, NEW u \in Users, NEW c \in Contents, NEW f \in Formats,
             NEW o \in Outcomes, RetryDocument(r, p, u, c, f, o)
      PROVE  chunks'[d] \subseteq chunks[d]
  <2>1. PICK e \in DocIds : ResetDocument(e, f)
    BY <1>1 DEF RetryDocument, Conflicts
  <2> QED
    BY <2>1 DEF ResetDocument, Shape, StoreShape, StoreTypeOK
<1>2. ASSUME NEW o \in Outcomes, DeleteDocument(r, o, Locked)
      PROVE  chunks'[d] \subseteq chunks[d]
  <2>1. chunks' = chunks \/ DeleteRow(handler[r].doc)
    BY <1>2 DEF DeleteDocument
  <2> QED
    BY <2>1 DEF DeleteRow, Shape, StoreShape, StoreTypeOK
<1>3. ASSUME NEW o \in Outcomes, \/ PurgePoints(r, o) \/ DeleteVectors(r, o)
                                 \/ WriteUpload(r, o) \/ Enqueue(r, o) \/ Unlink(r, o)
      PROVE  chunks' = chunks
  BY <1>3 DEF PurgePoints, DeleteVectors, WriteUpload, Enqueue, Unlink
<1>4. \/ AnswerSkipped(r) \/ LookupOwned(r)
      \/ \E p \in Procs, u \in Users, c \in Contents : SkipDuplicate(r, p, u, c)
      \/ \E p \in Procs, u \in Users, e \in DocIds : ReadChunkIds(r, p, u, e)
      \/ \E p \in Procs, u \in Users, c \in Contents, f \in Formats, o \in Outcomes :
            CreateDocument(r, p, u, c, f, o)
      => chunks' = chunks
  BY DEF AnswerSkipped, LookupOwned, SkipDuplicate, ReadChunkIds, CreateDocument, storeVars
<1> QED
  BY <1>1, <1>2, <1>3, <1>4 DEF RequestStep, Arrive, Continue

LEMMA IngestRevivesNone ==
  ASSUME Shape, \/ \E p \in Procs : Work(p) \/ Restart(p)
                \/ \E r \in Slots : Request(r) \/ Serve(r)
  PROVE  NoRevival
<1>1. ASSUME NEW p \in Procs, Work(p) PROVE NoRevival
  BY <1>1, WorkRevivesNone DEF Work
<1>2. ASSUME NEW p \in Procs, Restart(p) PROVE NoRevival
  BY <1>2 DEF Restart, storeVars, NoRevival, Spent, Polling, BeforeInsert, JobIds, Shape,
              WorkerTypeOK
<1>3. ASSUME NEW r \in Slots, Request(r) \/ Serve(r) PROVE NoRevival
  <2>1. RequestStep(r) /\ worker' = worker
    BY <1>3 DEF Request, Serve, RequestStep
  <2>2. KeepsJobs
    BY <2>1, RequestStoreStep DEF StoreStep
  <2> QED
    BY <2>1, <2>2, RequestsRemove DEF NoRevival, Spent, KeepsJobs, JobIds
<1> QED
  BY <1>1, <1>2, <1>3

\* What the stores hold of documents that are done.
LEMMA DoneHits ==
  ASSUME IndexInv, NEW u, NEW h \in Of(chunks, {d \in OwnedBy(u) : documents[d].status = "done"})
  PROVE  Spent(h[2][1]) /\ h \in Of(points, OwnedBy(u))
<1>1. PICK d \in OwnedBy(u) : documents[d].status = "done" /\ h \in {d} \X chunks[d]
  BY DEF Of
<1>2. /\ d \in DocIds /\ h[2] \in chunks[d] /\ h = <<d, h[2]>>
  BY <1>1 DEF OwnedBy
<1>3. HasText(d) /\ TicketInv(d)
  BY <1>1, <1>2 DEF IndexInv, DoneHasText, HasText, Exists
<1>4. points[d] = chunks[d] /\ \E j \in JobIds : jobs[j].doc = d /\ Indexed(d, j)
  BY <1>1, <1>3 DEF TicketInv, DocState
<1>5. PICK j \in JobIds : jobs[j].doc = d /\ chunks[d] = Batch(j, Yield(d))
  BY <1>4 DEF Indexed
<1>6. h[2][1] = j
  BY <1>2, <1>5 DEF Batch
<1>7. jobs[j].status \notin {"none", "queued"}
  <2>1. jobs[j].status # "none"
    BY <1>2, <1>5, NilAssumption DEF IndexInv, Shape, StoreShape, JobShape
  <2>2. jobs[j].status # "queued"
    BY <1>1, <1>3, <1>5 DEF TicketInv, Qu, QuState
  <2> QED
    BY <2>1, <2>2
<1>8. ASSUME NEW p \in Procs, worker[p].pc \in BeforeInsert, worker[p].job = j
      PROVE  FALSE
  <2>1. CASE worker[p].pc = "claiming"
    BY <1>7, <1>8, <2>1 DEF IndexInv, Shape, WorkerShape, WorkerOK
  <2>2. CASE worker[p].pc # "claiming"
    <3>1. Wk(p, d)
      BY <1>5, <1>8, <2>2 DEF Wk, DocOf, Busy, BeforeInsert
    <3>2. WkState(p, d)
      BY <1>3, <3>1 DEF TicketInv
    <3> QED
      BY <1>1, <1>8, <2>2, <3>2 DEF WkState, BeforeInsert
  <2> QED
    BY <2>1, <2>2
<1>9. Spent(j)
  BY <1>7, <1>8 DEF Spent
<1>10. h \in Of(points, OwnedBy(u))
  BY <1>1, <1>2, <1>4 DEF Of
<1> QED
  BY <1>6, <1>9, <1>10

FindInv == SearchInv /\ \A s \in Searches : DueSound(search[s])

\* What a search has to find stays found while the stores change under it.
LEMMA DueNext ==
  ASSUME NoRevival, NEW s, NEW y, SearchSound(y), DueSound(y), search'[s] = y
  PROVE  DueSound(search[s])'
<1>1. y \in Search
  BY DEF SearchSound
<1>2. \A h \in y.due : Spent(h[2][1])'
  BY DEF DueSound, NoRevival, Spent
<1>3. y.due \cap Of(chunks, DocIds)' \subseteq Of(chunks, DocIds)
  <2> SUFFICES ASSUME NEW h \in y.due, h \in Of(chunks, DocIds)' PROVE h \in Of(chunks, DocIds)
    OBVIOUS
  <2>1. PICK d \in DocIds : h \in {d} \X chunks'[d]
    BY DEF Of
  <2>2. h[2] \in chunks'[d] /\ h = <<d, h[2]>>
    BY <2>1
  <2>3. Spent(h[2][1]) /\ h[2][1] \in JobIds
    BY DEF DueSound, Spent
  <2>4. h[2] \in chunks[d]
    BY <2>2, <2>3 DEF NoRevival
  <2> QED
    BY <2>2, <2>4 DEF Of
<1> QED
  BY <1>2, <1>3 DEF DueSound

LEMMA QuietDue == DueSound(Quiet)
  BY DEF DueSound, Quiet

LEMMA OverDue ==
  ASSUME NEW p, NEW u, NEW dead, NEW A
  PROVE  DueSound(Over(p, u, dead, A))
<1> DEFINE y == Over(p, u, dead, A)
<1>1. y.due = {} /\ y.pc \in {"idle", "answered"}
  BY DEF Over, Quiet
<1> HIDE DEF y
<1> QED
  BY <1>1 DEF DueSound, y

\* The search that takes a step still has found what it has to find.
LEMMA DueStep ==
  ASSUME FindInv, NEW s \in Searches, SearchStep(s)
  PROVE  \E y : DueSound(y) /\ search' = [search EXCEPT ![s] = y]
<1> DEFINE x == search[s]
           Good == \E y : DueSound(y) /\ search' = [search EXCEPT ![s] = y]
<1>1. IndexInv /\ x \in Search /\ DueSound(x) /\ search \in [Searches -> Search]
  BY DEF FindInv, SearchInv
<1>2. ASSUME NEW A, Ends(s, A) PROVE Good
  BY <1>2, OverDue DEF Ends
<1>3. ASSUME NEW p, NEW u, NEW o, BeginSearch(s, p, u, o) PROVE Good
  <2> DEFINE y == [Quiet EXCEPT !.pc = "vector", !.proc = p, !.user = u, !.dead = Deleted]
  <2>1. y.pc = "vector" /\ y.due = {}
    BY DEF Quiet
  <2>2. search' = [search EXCEPT ![s] = IF o = "ok" THEN y ELSE Quiet]
    BY <1>3 DEF BeginSearch
  <2> HIDE DEF y
  <2>3. DueSound(y)
    BY <2>1 DEF DueSound
  <2> QED
    BY <2>2, <2>3, QuietDue
<1>4. ASSUME NEW p, NEW u, NEW d, NEW ordinal, NEW window, NEW o,
             GetContext(s, p, u, d, ordinal, window, window, o)
      PROVE  Good
  BY <1>4, OverDue DEF GetContext
<1>5. ASSUME NEW o, VectorSearch(s, o) PROVE Good
  <2> DEFINE mine == Of(points, OwnedBy(x.user))
             done == {d \in OwnedBy(x.user) : documents[d].status = "done"}
             due == IF o = "ok" /\ Cardinality(mine) <= CandidateK THEN Of(chunks, done) ELSE {}
  <2>1. PICK V \in IF o = "ok" THEN Best(mine, CandidateK) ELSE {{}} :
           search' = [search EXCEPT ![s].pc = "fts", ![s].found = V, ![s].due = due]
    BY <1>5 DEF VectorSearch
  <2>2. \A h \in due : Spent(h[2][1]) /\ h \in mine
    BY <1>1, DoneHits
  <2>3. due # {} => V = mine
    BY <2>1 DEF Best
  <2> DEFINE y == [x EXCEPT !.pc = "fts", !.found = V, !.due = due]
  <2>4. search' = [search EXCEPT ![s] = y]
    BY <1>1, <2>1
  <2>5. y.pc = "fts" /\ y.found = V /\ y.due = due
    BY <1>1 DEF Search
  <2> HIDE DEF y, mine, done, due
  <2>6. DueSound(y)
    BY <2>2, <2>3, <2>5 DEF DueSound
  <2> QED
    BY <2>4, <2>6
<1>6. ASSUME NEW o, FtsSearch(s, o) PROVE Good
  <2>1. PICK F : \E C \in Fused(x.found, F) :
           IF C = {} THEN Ends(s, {})
           ELSE search' = [search EXCEPT ![s].pc = "fetch", ![s].found = C,
                    ![s].due = IF Cardinality(x.found \cup F) <= CandidateK THEN @ ELSE {}]
    BY <1>6 DEF FtsSearch
  <2> DEFINE due == IF Cardinality(x.found \cup F) <= CandidateK THEN x.due ELSE {}
  <2>2. PICK C \in Fused(x.found, F) :
           \/ Ends(s, {})
           \/ search' = [search EXCEPT ![s].pc = "fetch", ![s].found = C, ![s].due = due]
    BY <1>1, <2>1
  <2>3. x.pc = "fts" /\ x.due \subseteq x.found /\ \A h \in x.due : Spent(h[2][1])
    BY <1>1, <1>6 DEF FtsSearch, AtSearch, DueSound
  <2>4. due \subseteq C /\ \A h \in due : Spent(h[2][1])
    BY <2>2, <2>3 DEF Fused, Best
  <2> DEFINE y == [x EXCEPT !.pc = "fetch", !.found = C, !.due = due]
  <2>5. CASE search' = [search EXCEPT ![s].pc = "fetch", ![s].found = C, ![s].due = due]
    <3>1. search' = [search EXCEPT ![s] = y]
      BY <1>1, <2>5
    <3>2. y.pc = "fetch" /\ y.found = C /\ y.due = due
      BY <1>1 DEF Search
    <3> HIDE DEF y, due
    <3>3. DueSound(y)
      BY <2>4, <3>2 DEF DueSound
    <3> QED
      BY <3>1, <3>3
  <2> QED
    BY <1>2, <2>2, <2>5
<1>7. ASSUME NEW o, FetchChunks(s, o) PROVE Good
  <2> DEFINE rows == x.found \cap Of(chunks, DocIds)
             y == [x EXCEPT !.pc = "rerank", !.rows = rows]
  <2>1. search' = [search EXCEPT ![s] = y] \/ Ends(s, {})
    BY <1>1, <1>7 DEF FetchChunks
  <2>2. x.due \subseteq x.found /\ \A h \in x.due : Spent(h[2][1])
    BY <1>1, <1>7 DEF FetchChunks, AtSearch, DueSound
  <2>3. y.pc = "rerank" /\ y.rows = rows /\ y.due = x.due
    BY <1>1 DEF Search
  <2>4. x.due \cap Of(chunks, DocIds) \subseteq rows
    BY <2>2
  <2> HIDE DEF y, rows
  <2>5. DueSound(y)
    BY <2>2, <2>3, <2>4 DEF DueSound
  <2> QED
    BY <1>2, <2>1, <2>5
<1>8. ASSUME NEW o, RerankAndAnswer(s, o) PROVE Good
  BY <1>2, <1>8 DEF RerankAndAnswer
<1> QED
  BY <1>3, <1>4, <1>5, <1>6, <1>7, <1>8 DEF SearchStep, Ask, Advance

LEMMA FindInvariant == SearchSpec => []FindInv
<1>1. SearchInit => \A s \in Searches : DueSound(search[s])
  BY QuietDue DEF SearchInit
<1>2. FindInv /\ SearchInv' /\ [SearchNext]_searchVars => FindInv'
  <2> SUFFICES ASSUME FindInv, SearchInv', [SearchNext]_searchVars, NEW s \in Searches
               PROVE  DueSound(search[s])'
    BY DEF FindInv
  <2>1. /\ Shape /\ search \in [Searches -> Search]
        /\ \A t \in Searches : SearchSound(search[t]) /\ DueSound(search[t])
    BY DEF FindInv, SearchInv, IndexInv
  <2>2. ASSUME NoRevival, search'[s] = search[s] PROVE DueSound(search[s])'
    BY <2>1, <2>2, DueNext
  <2>3. CASE IngestStep
    <3>1. NoRevival /\ search' = search
      BY <2>1, <2>3, IngestRevivesNone DEF IngestStep
    <3> QED
      BY <2>2, <3>1
  <2>4. ASSUME NEW p \in Procs, RestartAll(p) PROVE DueSound(search[s])'
    <3>1. NoRevival /\ (search'[s] = Quiet \/ search'[s] = search[s])
      BY <2>1, <2>4, IngestRevivesNone DEF RestartAll
    <3> QED
      BY <2>2, <3>1, DueNext, QuietSound, QuietDue
  <2>5. ASSUME UNCHANGED <<chunks, jobs, worker>> PROVE NoRevival
    BY <2>5 DEF NoRevival, Spent, JobIds
  <2>6. ASSUME NEW t \in Searches, SearchStep(t) PROVE DueSound(search[s])'
    <3>1. NoRevival
      BY <2>5, <2>6 DEF SearchStep
    <3>2. PICK y : DueSound(y) /\ search' = [search EXCEPT ![t] = y]
      BY <2>6, DueStep
    <3>3. UNCHANGED <<chunks, jobs, worker>>
      BY <2>6 DEF SearchStep
    <3>4. CASE s = t
      <4>1. search'[s] = y
        BY <2>1, <3>2, <3>4
      <4> QED
        BY <3>2, <3>3, <4>1 DEF DueSound, Spent, JobIds, Of
    <3>5. CASE s # t
      <4>1. search'[s] = search[s]
        BY <2>1, <3>2, <3>5
      <4> QED
        BY <2>2, <3>1, <4>1
    <3> QED
      BY <3>4, <3>5
  <2>7. CASE UNCHANGED searchVars
    BY <2>2, <2>5, <2>7 DEF searchVars
  <2> QED
    BY <2>3, <2>4, <2>6, <2>7 DEF SearchNext
<1> QED
  BY <1>1, <1>2, SearchInvariant, PTL DEF SearchSpec, FindInv

\* Every chunk of a document that was done when the vectors were searched, and
\* whose row is still there, is among what is ranked, unless candidate_k cuts
\* it off; whatever the full-text search returns or fails to return, and
\* whatever is deleted or ingested again meanwhile.
THEOREM SearchFindsDoneHolds == SearchSpec => []SearchFindsDone
<1>1. FindInv => SearchFindsDone
  BY DEF FindInv, DueSound, SearchFindsDone, AtSearch
<1> QED
  BY <1>1, FindInvariant, PTL

-----------------------------------------------------------------------------
(* The ingestion is none the worse for the searches beside it.             *)

LEMMA SearchStepMaps == SearchInv /\ [SearchNext]_searchVars => [Lifecycle!Next]_(Lifecycle!vars)
<1> SUFFICES ASSUME SearchInv, [SearchNext]_searchVars PROVE [Lifecycle!Next]_(Lifecycle!vars)
  OBVIOUS
<1>1. CASE IngestStep \/ \E p \in Procs : RestartAll(p)
  <2>1. Next
    BY <1>1 DEF IngestStep, RestartAll, Next
  <2> QED
    BY <2>1, StepMaps DEF SearchInv
<1>2. CASE (\E s \in Searches : SearchStep(s)) \/ UNCHANGED searchVars
  <2>1. UNCHANGED <<documents, chunks>>
    BY <1>2 DEF SearchStep, searchVars
  <2> QED
    BY <2>1, SameRow, AllSame DEF Maps
<1> QED
  BY <1>1, <1>2 DEF SearchNext

\* Searches only read: documents live as promised while any number of them runs.
THEOREM LifecycleWithSearches == SearchSpec => ImplementsLifecycle
<1>1. SearchInit => Lifecycle!Init
  BY InitMaps DEF SearchInit
<1> QED
  BY <1>1, SearchStepMaps, SearchInvariant, PTL DEF SearchSpec, ImplementsLifecycle, Lifecycle!Spec

\* Once ingestion of a document has started, no vector of it is left without its
\* row, whatever searches, requests and workers are doing.
THEOREM VectorsHaveRowsHolds == SearchSpec => []VectorsHaveRows
<1>1. SearchInv => VectorsHaveRows
  BY InvHasRows DEF SearchInv
<1> QED
  BY <1>1, SearchInvariant, PTL

\* The promises of the ingestion hold with searches beside it.
THEOREM IngestWithSearches ==
  SearchSpec => [](ExclusiveIngest /\ RetryCannotCollide /\ DoneComplete /\ FileForJob)
<1>1. SearchInv => ExclusiveIngest /\ RetryCannotCollide /\ DoneComplete /\ FileForJob
  BY InvIsExclusive, InvNeverCollides, InvDoneIsComplete, InvFindsFiles DEF SearchInv
<1> QED
  BY <1>1, SearchInvariant, PTL
=============================================================================

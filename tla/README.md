# Verification of mcp-auth-rag

TLA+ models of the MCP server in `app/`: what its handlers, its background
worker and its stores do together, model-checked with TLC on small instances,
with every safety property and both refinements proved by TLAPS for every instance
(two of them under a condition on the configuration, named in section 4).

## 1. The system

One Python process (Starlette on an asyncio event loop) serves two halves:
an OAuth 2.0 authorization server in front of the `/mcp` endpoint, and a
document store with search (RAG). Several such processes may run on the same
Postgres and Qdrant.

| Component | State it keeps | Operations |
|---|---|---|
| Document store, `rag_store.py` | Postgres `documents`, `chunks`, `ingest_jobs`; Qdrant points; files in `RAG_UPLOAD_DIR` | create (insert, or reset after a failure), delete, set status, insert chunks, enqueue / claim / finish job, the reads of search |
| Ingest worker, `rag_worker.py`, `ingest_document` | local variables of one job | poll, claim, read the file, parse, embed, insert, record the outcome |
| Upload, delete, search handlers, `rag_routes.py` | local variables of one request; a session cookie | upload, delete, list, search, login |
| Parsing and chunking, `rag_ingest.py` | none | sniff, parse, `chunk_paragraphs` |
| Retrieval, `rag_retrieval.py`, `rag_embed.py` | none | embed in batches, two searches, fusion, hydration, rerank, context window |
| Authorization server, `oauth.py` | in memory: pending logins, codes, access tokens, clients, failed attempts, metadata cache; in SQLite: access tokens, refresh tokens, clients | register, authorize, login, the three token grants, revoke, cleanup, sweep |
| Gate, `main.py`, `auth.py` | none (a `ContextVar` per request) | verify JWT, look the token up in SQLite, attribute an actor |
| Users, `users.py` | SQLite `users`, `login_log`, alert memory | verify with rehash, log, alert on repeated failures |
| Body limit, `body_limit.py` | counters of one request | wrap ASGI receive and send |
| `db.py`, `config.py`, `server.py`, command line | one SQLite connection per thread; constants; none | wiring |

How they interact: the upload handler writes a `documents` row, purges
leftover points, writes a file, and enqueues a row of `ingest_jobs`; the worker
of some process claims that row and talks to the handlers through nothing but
the stores. No transaction spans two stores. Every `await` between two calls
is a point where another handler, another worker or a restart comes in.

What is hard here, and what makes each component correct:

* **Ingest.** Uploads, deletes, retries and workers interleave on four stores;
  any call can fail, or be applied and lose its reply; a process can stop
  between any two calls. Correct means: one document is ingested by one worker
  at a time, a retry never meets rows of the attempt before it, a document
  shown as done has all its chunks and exactly their vectors, a job finds its
  file, and nothing waits for ever without a failure.
* **OAuth.** The login post awaits the argon2 thread between checking a pending
  login and the rate limit and using them; memory and database are written
  separately, and failed writes are only logged; time, cleanup, revocation and
  restart come in between. Correct means: a grant is one credential at a time,
  for the client and user it was made for; a refused request burns nothing;
  cleanup drops nothing a request could still use; the rate limit holds up to
  the requests that run together; abandoned flows leave memory.
* **Users.** A password hash is rewritten after a login that read an older one, while
  `--adduser` in another process may have changed it. Correct means: an account has a
  password its operator chose, and failed logins in numbers raise an alert.
* **Body limit.** The limiter cuts a body while a handler reads it. Correct means: one
  response per request, whichever of handler and limiter speaks first, and no handler
  behind the limit sees more than it allows.
* **Retrieval.** The two searches, the fetch of the rows and the rerank are separate
  awaits over stores that change in between. Correct means: nobody sees a chunk that is
  not theirs, a deleted document is not found again, a finished one is.
* **Text.** Windows of words overlap; batches of embeddings complete in any order, fail,
  or come back short. Correct means: no text is lost or repeated beyond the overlap, and
  every chunk is stored with the vector of its own text.

`PROJECT.json` lists every hazard at its line with the property that covers it.

## 2. Modules

| Module | Models | Notes |
|---|---|---|
| `RagStore` | `rag_store.py`: the stores and the single statements run against them | a chunk id (a random UUID) is `<<job, ordinal>>`; a content is told apart by its hash only |
| `RagWorker` | `rag_worker.py` and `ingest_document` | one worker per process; its `pc` is the call it makes next |
| `RagRoutes` | `rag_upload`, `rag_delete_document`, `create_document`, `delete_document` | a slot runs one request; its `pc` is the call it makes next |
| `RagIngest` | the composition of the three, with restarts | properties, fairness, refinement mapping |
| `DocumentLifecycle` | what the owner of a document is promised (abstract) | `RagIngest` implements it |
| `RagSearch` | `search` and `get_context` over the stores of `RagIngest` | extends `RagIngest`; one search is one awaited call after another |
| `Chunking` | `chunk_paragraphs` and what builds its input: headings, merging across pages, sections, windows | a state machine over one document: a line, then a section, then a window per step |
| `Embedding` | `embed_texts` and its batches | |
| `Ranking` | reciprocal rank fusion and the order after reranking | pure operators |
| `RagText` | one document from its lines to its vectors, and one search of it | composes the three |
| `BodyLimit` | `body_limit.py`, and what Starlette does around it | a slot is one POST request |
| `Accounts` | `users.py`, and `--setup` and `--adduser` of `main.py` | |
| `FrontDoor` | the public forms, behind `BodyLimit` and in front of `Accounts` | |
| `OAuthState` | the dicts and tables of `oauth.py` and the functions that issue, redeem, revoke, load and drop | also `Accepted`, the two checks of `handle_mcp` |
| `OAuthEndpoints` | the handlers of register, authorize, login and token | a slot runs one login post, the only handler that waits between a check and its use |
| `OAuthServer` | the composition with the clock, the cleanup loop, revocation, the command line and restarts | properties, fairness, refinement mapping |
| `GrantLifecycle` | what a login gives a client: a code, then one refresh token after another, then nothing (abstract) | `OAuthServer` implements it |

`MCRagIngest`, `MCRagSearch`, `MCRagText`, `MCFrontDoor` and `MCOAuth` are the instances
TLC checks; the modules named `...Proofs` hold the theorems, and `DataFacts` the lemmas about numbers,
lists and sorted orders that `FrontDoorProofs` and `RagTextProofs` use (section 4).

### Correspondence with the code: ingest

An action is what runs between two awaits: one call to Postgres, Qdrant, the
disk or the embedding service, with the assignments around it. A call has an
*outcome*: `ok`; `raised`, when it raises and nothing happened; `lost`, when it
raises although the other side applied it (a commit or an upsert whose reply
is lost). The handlers of the exceptions are actions like any other:

* `_run_forever`: `LockJob` and `CommitClaim` are the transaction of
  `claim_next_job` (the row lock is held in between; `SKIP LOCKED` lets the
  others pass); `GetDocument`, `FinishMissing` and `FailJob` are outside every
  `try`, so an exception there ends the task (pc `dead`); `ReadFile`,
  `MarkProcessing`, `FinishOk` are inside.
* `ingest_document`: `Prepare` (parse, chunk, embed: no store changes), `NoText`,
  `InsertChunks` (rows and `chunk_count` in one transaction, with the two
  constraints that can refuse it), `UpsertVectors`, `SetDone`, `FailDocument`.
* `create_document`: `CreateDocument` (new row), `RetryDocument` (row in
  `error`: reset and purge of the chunk rows in one transaction; `format` is not
  reset), `SkipDuplicate` (any other row), then `PurgePoints`.
* `rag_upload`: `WriteUpload`, `Enqueue`. `delete_document`: `ReadChunkIds`,
  `LookupOwned`, `DeleteDocument`, `DeleteVectors`, `Unlink` (which may raise too; the file then stays).
* `Restart` is a kill or the cancellation by `lifespan` (`CancelledError` is not
  an `Exception`, so no handler catches it) followed by a start: the requests and
  the worker of the process are gone, and nothing looks at what they left.

Abstractions. A request with several files is several uploads in a row. A file
is present or absent (a partly written one is never enqueued). A poll of an
empty queue is a stutter. `Enqueue` is the last call of its handler, so a lost
reply is the same as a good one. The processes share `RAG_UPLOAD_DIR`. Of the
row-lock waits only the one on a job row that is being claimed is modelled. A
statement in flight when its process stops is applied before the stop or never.

### Correspondence with the code: OAuth

SQLite calls and everything between two awaits run without interruption on the
event loop, so an action is a handler from its last await to its end. The login
post is two: `BeginLogin` (look up the login, compare the cookie, check the rate
limit) up to `await anyio.to_thread.run_sync(verify_user, ...)`, then `AcceptLogin`,
`RefuseLogin`, or `BreakLogin` when the read of the users table raises; what the
handler read before the await is `posts[s]`. `oauth_authorize` awaits the
metadata of a client before it looks at any state, and `oauth_token` its form: `RedeemCode`, `Refresh` and `ClientCredentials` are one step
each. `Register` is `oauth_clients_register`; `AddServiceClient` is the command line,
another process, which writes the row and not the server's memory.
`CleanupPass` is one pass of `_cleanup_loop` (without `prune_login_alerts`, which
belongs to `users.py`); `Restart` is a stop and `lifespan`.

* A dict or table keyed by fresh random values is a set of records; `id` numbers
  codes, logins and refresh tokens in the order they are made. An access token
  is a JWT, that is its claims: two of one account in one second are one token.
* Time is in whole seconds (the code compares floats, the `exp` claim is whole).
* A failed SQLite call has changed nothing (the next `db.connect` rolls back).
  `issue_token` reads the user first and may raise there (`found`), after the code or
  the old refresh token is consumed; its INSERT (`saved`) and that of
  `issue_refresh_token` (`kept`) may fail and are only logged.
* `client_secret` and `code_verifier` are right or not (`proof`); the client of a
  refresh has proved who it is. A code made without `redirect_uri` is shown to nobody,
  so nobody redeems it. Requests that are answered with an error and change nothing
  are not steps.
* A process that stops inside the token endpoint leaves what a failed call at that
  point leaves, followed by a restart.
* `grants`, and the field `grant` of a refresh token, are history: what login, user and
  client is behind each code.
* One client address, one server process (SECURITY.md: memory is not shared), service
  clients of distinct names (the `svc` claim is the name).

### Correspondence with the code: search

`RagSearch` has one action per await of `search()`: `BeginSearch` (the session or
token's user, then the embedding of the query, whose error leaves `search`), `VectorSearch`
and `FtsSearch` (each logs an error and goes on with no hits), `FetchChunks` (its error leaves
`search`; ids without a row are dropped; it does not ask for the owner again), and
`RerankAndAnswer` (an outage of the reranker leaves the order of the fusion; an exception that `rerank` does not catch leaves
`search`). `GetContext` is one query, joined with the owner. The rankings of Qdrant,
Postgres and the reranker are any: each search may return any candidates of the owner, and
a cut may keep any of them; what the order does is in `RagText`. `dead` and `due`
are history: the documents that were deleted before the search began, and the chunks
it has to find. The worker, the handlers and the restart are those of `RagIngest`.

### Correspondence with the code: text

`Chunking` takes a document as its lines (page, scanned or not, large or not, number of words): how
PyMuPDF, Tesseract, python-docx and the patterns of Markdown find lines and large type is
external. `ParseLine` is the loop over lines of a parser, with the heading of the moment; outside PDF a
line without text is skipped before its style is looked at;
`Group` is `_merge_consecutive_lines` and `_group_by_section`; `Window` is one turn of the loop of
`chunk_paragraphs`. A word is the line it stands in and its place there, so that a lost or
doubled word shows. `Embedding` posts batches under the semaphore (`Post`); each ends by
itself (`Answered`, which may be short of vectors, or `Failed`), and the
call raises with the first failure while the others go on. `InsertChunks` of `RagText` is the
assertion on the lengths and the `zip`. Fusion compares sums of `1 / (_RRF_K + rank)` as fractions;
the sorts are stable, as Python's are.

### Correspondence with the code: front door

An exchange goes `receiving -> parsed -> handling -> answer -> closed`, or to `cut` where the
form parser is told that the client has left: by the client (`Disconnect`), or by
`counting_receive` past the limit. `GuardedSend` and `Returned` are the two places
where the middleware says 413, `RefuseDeclared` the third; `Raised` is
Starlette's `ServerErrorMiddleware`, which is outside. The handlers are `SignIn`, `Check`,
`RefuseRate`, `RefusePassword` and `Conclude` for the two logins, `Register`, and `AnswerOnly` for the
posts that answer without touching an account, `oauth_token` among them (what it grants is in `OAuthServer`).
`UnusableBody` is what `oauth_clients_register` and `oauth_token` raise on a body that came whole and is no JSON object, or
neither a form nor JSON; after a cut, `oauth_token` asks for the body again and gets the same exception (`HandlerCut`).
A post to a login without a form's content type has an empty name, which is that of no account; a sign-in is modelled with a form. `oauth_login_post` verifies in a worker
thread; `rag_login_post` verifies on the event loop, so nothing else runs meanwhile (`LoopFree`).

`Lookup`, `Verify` and `Rehash` are `verify_user`: the hash is read, compared outside of
SQLite, and written again if its parameters are old. `LogFailure` is `log_login_attempt` of a failed
login with `_check_login_anomaly`; the insert and the count fail apart. `Cleanup` runs
`prune_login_alerts`. `RunSetup`, `SetupLookup`, `RunAddUser`, `EnterPassword` and `GiveUp` are the commands, each an
operator's process beside the server; a password prompt is a wait. A hash is the password and whether its
parameters are current. Any login may be over the rate limit here: the limit itself is in `OAuthState`.
`chosen`, `warnings` and, of an exchange, `cut` and `served` are history. The cleanup loop is on
time: `Tick` waits for a pass that is due, where `asyncio.sleep` and the pass itself may take a little longer than the interval. A host starts bare, or with a server that has run before, or
upgraded from a release with other argon2 parameters.

## 3. Runs

| Run | Question | Bounds | Result |
|---|---|---|---|
| `ingest_safety` | Do the safety properties and the refinement hold? | 1 document id, 2 users, a content with text (2 chunks as txt, a parser error as pdf) and one without, 2 processes, 2 concurrent requests, 2 jobs, 1 failed call, 1 restart; symmetry | holds |
| `ingest_live` | Does every accepted document settle, and is every queued job claimed? | 2 documents, 1 process, 1 request at a time, 2 jobs, 1 restart | holds |
| `ingest_dedup_stuck` | Is a skipped upload really "ingested or in progress" (docstring of `create_document`)? | no failed call, 1 restart | violated |
| `ingest_worker_dead` | Is the poll loop "intentionally infinite" (`test_rag_worker.py`)? | 1 failed call | violated |
| `search_stores` | What may a search see while documents come and go? | 2 documents, 2 users, 1 content of 2 chunks, 1 process, 1 upload or delete at a time, 1 search at a time, 2 jobs, `CandidateK` 2, `TopK` 1, 1 failed call, 1 restart; symmetry | holds |
| `text_pipeline` | Are chunks, vectors and rankings what they should be? | every PDF of up to 4 lines on 2 pages (the second may be a scan), every text of up to 3 lines, lines of 0 to 5 words, windows of 3 words with 1 of overlap, batches of 2, 2 at a time; searches over up to 3 chunks with `_RRF_K` 60, `CandidateK` 2, `TopK` 1 | holds |
| `door_safety` | One answer, nothing past the limit, passwords somebody chose, attacks reported? | 2 requests in progress, 2 in all, of `/oauth/login`, `/rag/login`, `/oauth/token`, registration and the exempt upload; a limit of 1 byte and bodies up to 2 in messages of 1; 1 account, 2 passwords, 1 address, 2 commands, a clock to 3, thresholds 1 and 2, window and cleanup interval 1, 1 failed call; symmetry | holds |
| `door_oversize` | Is an oversized body refused "without the handler running" (`test_body_limit.py`)? | as `door_safety` | violated |
| `door_setup` | Does the setup wizard, which the README has run first, end? | as `door_safety` | violated |
| `oauth_safety` | Do the safety and action properties and the refinement hold? | 2 users, a registered, a document and a service client, 2 concurrent login posts, 1 login transaction, 2 codes, 2 refresh tokens, all lifetimes 1 and a clock from 0 to 2, a limit of 1 failed login, 1 failed call, 1 restart; symmetry on the posts | holds |
| `oauth_live` | Do abandoned logins and codes leave memory? | 1 user, 1 client, 2 logins, 2 codes, clock to 3, 1 failed call, no restart | holds |
| `oauth_login_twice` | Are login transactions "single-use" (SECURITY.md)? | as `oauth_safety` | violated |

### Why the bounds are enough

One document id is enough for `ingest_safety`: rows, points and files of two
documents never meet except in the queue, and two jobs of one document (the
first attempt and its retry) exercise the queue and both sides of every race
on the row. The second user owns nothing of it and tries to delete it. Two
documents are in the liveness run, where one must not starve the other.

In `search_stores` a search needs a second document to be mistaken about, and there are two kinds: one
of the other user, and one the same user uploads after deleting the first, whose points may still be there. With
these, an owner has more vectors than `CandidateK`, or not, and the two searches together find more than
`CandidateK`, or not, so both cuts happen and also do not happen. (Two live documents of one owner need a
second content; that instance holds too, with 2,666,942 states.) One job each, or two of one
document, gives a search that spans a delete and a retry. Searches do not change the stores, so one search at a time
meets every interleaving that several would, and the theorems have no bound on them.

In `text_pipeline` documents are enumerated, not sampled. Lines shorter than, equal to and
longer than a window, empty lines, two headings that may be equal or follow one another, and a
paragraph that goes on over the page break make every branch of the merge, of the sections and of the last
window; more batches than the two places make one wait, and up to three chunks with a cut at two make
each of fusion, rerank and answer drop something. Whatever the length, the windows of
one section are found in one loop over one list of words.

In `door_safety` the body is under, at or over the limit, in one message or more, and a client may
leave at each point. Two requests let one login verify while another is refused or an operator resets
the password. A threshold of 2 above one of 1, with a clock that outlives a window and two
cleanup passes, lets an alert be raised, raised further, forgotten and raised again. The accepted
requests are few, but each can fail and restart around the others; the properties proved in
section 4 have no such bound.

In `oauth_safety` one login transaction suffices because two posts of it already make
two grants, with two users; two codes and two refresh tokens let one be rotated, two
grants run side by side, and a code be redeemed after another grant has started. Lifetimes
of 1 and a clock to 2 put a step before, at, and after every expiry. One failed call covers
each failure by itself; two in one handler (both INSERTs of a pair) leave what each leaves, and
the theorems have no bound on them. The service
client is told apart only in `ClientCredentials`; `web` and `url` differ in where
they are looked up.

The proofs have no bounds.

### Properties

Of the ingest runs:

* `ExclusiveIngest`: at most one upload, queued job or worker is ingesting a document.
* `RetryCannotCollide`: a worker about to insert finds no chunk rows.
* `DoneComplete`: a document shown as done has the rows of one attempt, all
  ordinals, the right `chunk_count`, and exactly their vectors.
* `FileForJob`: a job finds the file under the name in the row.
* `ImplementsLifecycle`: every step is a step of `DocumentLifecycle` or changes
  nothing an owner can see. It allows `done -> failed`, because the reply to the
  update that says `done` can be lost and `ingest_document` then records an error.
* `Settles`, `JobsAreClaimed`: liveness. `Settles` assumes no failed call and no
  restart: both leave documents behind for ever (see the violations).
  `JobsAreClaimed` allows restarts.

Of `search_stores`:

* `VectorsHaveRows`: a document past `pending` has no vector without its row, although
  the purge of a retry is another call than the reset of its rows.
* `ResultsAreOwned`: an answer has only chunks of the caller's documents, although the rows
  are fetched by id alone. What makes it true is that the owner of a document never changes and that
  ids are never used again.
* `DeletedStaysDeleted`: nothing of a document deleted before the search began is in its answer,
  although its points may still be there or be written later.
* `SearchFindsDone`: every chunk of a document that was done when the vectors were searched
  is among the rows that are ranked, if its row is still there. It leaves out two cases in which the
  code does drop a finished document's chunk: the owner has more points than `candidate_k` (points of
  deleted documents, which no call removes, count), or the cut at `candidate_k` after the fusion falls
  on it (ids without a row count).

Of `text_pipeline`:

* `ChunksCoverText`: every word of the document that is not a heading's is in a chunk, and each chunk is a run
  of words as they stood in the document.
* `ChunksOverlap`: of two chunks that follow one another in a section, the second repeats just the overlap, and
  has words of its own; none is longer than the target.
* `ChunksAreLabelled`: the page is that of the first word, the title is the heading that every word stands under.
* `VectorsPaired`: a document that is done has each of its chunks stored, with the vector of its own text; the
  ordinal, which counts through all sections, says which text that is.
* `AgreementWins`: what both searches found is ranked before what one found. True while
  lists are no longer than `_RRF_K + 1`; `candidate_k` is 25.
* `AnswerIsBest`: the reranker judges all that was found, and nothing left out scored
  more than something in the answer.
* `Finishes`: liveness: the document ends as done or error, whatever the gateway does.

Of the door runs:

* `OneResponse`: one start of a response, one end, by the time the exchange is closed; 413 just when
  the limit was passed before the handler began to answer.
* `NothingPastLimit`: no handler behind the limit is handed more than `max_bytes`.
* `CutFormSignsNobodyIn`: a sign-in form that was cut off, by the limit or because its client left (`cut`,
  which both record), is never verified and never logged, to the end of its exchange.
* `PasswordsAreChosen`: the password of an account, and one that was accepted, is one
  an operator chose for that account, however rehash and reset overtake each other.
* `AttackIsReported` (action property): when a failure is logged and counted and
  the failures in the window reach a threshold, a warning of that level or a higher one has been logged within
  the last window and cleanup interval. Two requests that fail together, and the pass that forgets
  alerts, do not swallow it.

Of the OAuth runs:

* `OneCredential`: a grant is its code, or one refresh token, never two credentials.
* `GrantsAreBound`: each credential is of the user who logged in and the client the
  login was for; each row of `oauth_tokens` is of a user who logged in or of the
  account of its service client.
* `AttemptsBounded`: posts that wait together can exceed the rate limit, but by less
  than the number that can wait.
* `MemoryCoversDatabase`: unless a call has failed, every token the gate accepts is in
  memory too: cleanup, load and gate agree on the second of expiry.
* `GrantsAreConserved`: while time stands still, nothing restarts and no call fails, a
  grant that can be used stays usable.
* `CleanupIsInvisible`: a cleanup pass drops no login and no token that is still usable.
* `ImplementsGrants`: every step is a step of `GrantLifecycle`: in particular a grant
  that has ended never comes back, and refresh tokens only get younger.
* `AbandonedIsDropped`: liveness of the sweep. The clock is bounded, so it speaks of
  logins and codes made early enough to expire before it stops.

### Fairness and deadlock

* Ingest: weak fairness of each worker and of each request in progress. The
  event loop resumes every task whose call has returned, so fairness says that the awaited calls
  return. The HTTP clients (embedding, Qdrant) have timeouts and the disk is local; the asyncpg pool
  is made without one (`rag_store.py`), so of its calls the assumption is that Postgres
  answers or closes the connection, and that a connection comes free. Nothing forces a request to arrive.
* Text: weak fairness of each step of the worker's task, and of `Requests`: each request to the
  gateway ends, at the latest when its client times out (10 s to connect, 60 s of silence), and then another has
  its place. A gateway that keeps a reply going for ever, byte by byte, is left out.
* OAuth: weak fairness of `Tick` (time passes) and of `CleanupPass`
  (the loop catches every exception and sleeps again, so it is resumed for ever).
  Nothing forces a request to arrive, a user to log in, or `verify_user` to return.

Deadlock is checked in every run but `text_pipeline`, where the one document is finished and the one search
answered. A system whose bounds are used up still accepts a delete (ingest, search), a
stop or a start (door), a cleanup pass (OAuth).

### What the violations show

1. `ingest_dedup_stuck`: a restart between `create_document` and
   `enqueue_ingest_job` leaves a `pending` row without a job (and one during
   ingestion leaves `processing`). Every later upload of that content is skipped
   as a duplicate; only a delete helps.
2. `ingest_worker_dead`: one database error in `get_document` or in a
   `finish_job` of the loop ends the worker until the process restarts.
3. `oauth_login_twice`: two posts of one login pass the check together, wait
   for `verify_user`, and both make a code; the second does not notice that the login
   is gone. Both posts need the right password, and each code is one grant
   (`OneCredential` holds for both).
4. `door_setup`: `run_setup_wizard` imports `prune_login_alerts as _schema`
   (`main.py:297`), so it makes no tables, and on a new host the lookup of `admin` raises. The README
   (`README.md:170-172`) has it run before the server has ever started.
5. `door_oversize`: `oauth_clients_register` takes any failure to read the body for an empty
   registration (`oauth.py:633-650`). A body that passes the limit while it arrives is
   answered 413, and makes a client all the same.

### What is not claimed

* Documents without text are left out of the safety properties (`HasText`) and
  of the refinement: `ingest_document` sets `error` while it still holds the job,
  and if the reply is lost its `except` sets `error` once more, over whatever a
  re-upload has done in between.
* Nothing is claimed of what a deleted document leaves behind (points and files
  of a delete that raced with the worker or failed half-way), but that searches do
  not answer from it.
* A reply of the embedding gateway is modelled as whole or short, and in the order of the texts. `embed_texts` ignores the
  `index` of a vector (`rag_embed.py:56`), so with a gateway that returns surplus vectors in one batch and too few in another, or
  another order, `VectorsPaired` says nothing.
* The docstring of `rerank` says "Returns None (not raises) on any failure"; it catches four kinds of exception, and the sort of the scores
  in `rag_retrieval.py` is outside the `try`. The model lets the search end without an answer, and no property forbids it.
* A document whose file cannot be read stays `pending` for ever (`rag_worker.py:41` closes the job only).
* `AttackIsReported` counts on a cleanup pass that is on time; a pass that is late lets a warning be older by as much.
* A failed upload repeated under another extension leaves two files of one row, and `format` keeps its first
  value (`rag_store.py:144,165-169`): the model does so too, and no property forbids it.
* Nothing is claimed of revocation beyond what the code does: it deletes access tokens,
  leaves refresh tokens and open codes, and a token issued again in the same second is
  the revoked one.
* `GrantsAreConserved` says nothing of a failed call: a code or refresh token is consumed
  before its successor is saved, so such a grant ends.
* `issue_token` writes memory first and only logs a failed INSERT, where SECURITY.md:42-43
  says the database comes first. `MemoryCoversDatabase` is the direction the code does keep.
* The rehash after a login may overwrite a password that `--adduser` set in the meantime with the older one:
  `PasswordsAreChosen` holds, since an operator chose both.
* Failed logins of the panel (`/rag/login`) are neither logged nor counted. A warning may be as old as window and
  cleanup interval together, because alerts are forgotten by the cleanup only.
* Fusion adds floats. The model's fractions are exact, and for ranks of this size two different sums are further apart than
  rounding; two equal sums of different ranks may round apart, and are then ordered where the model sees a tie.
* A text that ends with headings does not have them indexed; `get_context` answers with neighbours where its
  docstring says None, if the ordinal is just past the end; the tool takes `chunks_before=0` for 2
  (`server.py:139-140`). None of these is stated as a property.
* `guarded_send` lets a response that has begun go on after the limit was passed: no handler of
  this server answers before its body has ended, so no behaviour of the model takes that branch.

## 4. Proofs

`RagIngestProofs` and `RagIndexProofs` prove, from the assumptions named in
`RagStore` and `RagIngest` (`Extract` is a function into the integers, the bounds are naturals,
`Nil` is neither a document nor a format) and for every choice of the other constants:

* `TypeCorrect`: `Spec => []TypeOK`.
* `ClaimsAreExclusive`: no job is held by two workers.
* `IngestIsExclusive`, `RetriesNeverCollide`, `DoneIsComplete`, `NoOrphanVectors`,
  `JobsFindFiles`: the safety invariants of `ingest_safety`, and `VectorsHaveRows` of `search_stores`.

The argument. None of the five is inductive. `Shape` (in `RagIngestProofs`) says what
needs no knowledge of the protocol: types, that job rows from `nextJob` on are unused, that a
claimed row is held by one worker, which is running and whose document it names. `IndexInv`
(in `RagIndexProofs`) adds the protocol, which is a *ticket*: a document
that exists and has text has at most one ticket, held in turn by the upload that created or
reset the row, by the queued job, and by the worker; `error` is only said when the ticket
has been given up. That is what makes the reset in `create_document` safe. On top of
it: while the ticket is not yet past `InsertChunks` the document has no rows;
between `InsertChunks` and the end it has exactly the batch of the
holder's job; a handler that deletes points or files works for a row that is deleted already
(or, when purging, for the ids it has itself removed). Each action is one step of
the proof; the lemmas say what each statement does to a document and what it leaves alone.

`RagIndexProofs` also proves `ImplementsLifecycleHolds`: `Spec => ImplementsLifecycle`. A step changes the row and
the chunks of one document at most, so all others map to themselves (`Same`); for
the one it changes, the ticket of `IndexInv` says which step of `DocumentLifecycle` it is: who
may say `done` holds the ticket, and finds the whole batch; who resets a row finds it in `error`,
without a ticket.

`RagSearchProofs` proves, with the assumption of `RagSearch` in addition (`CandidateK` and `TopK` are naturals):

* `SearchTypeCorrect`, `ResultsAreOwnedHolds`, `DeletedStaysDeletedHolds`. `SearchInv` is `IndexInv`,
  which every step of `RagSearch` preserves because it is a step of `RagIngest` or changes
  the count of failed calls only; `GoneBlank`, no chunk rows of a document that is absent or deleted; and `SearchSound`,
  what a search holds at each await: ids found by its user's filter are of the user's documents, rows are of documents
  that were not deleted when it began.
* `SearchFindsDoneHolds`: what the vector search is due to return is among the rows that are ranked; the cut to `top_k` comes
  after. `FindInv` adds `DueSound`, by `Spent`: the chunks that are due belong to a
  job whose batch has been inserted. Such a chunk can lose its row and never gets it back (`NoRevival`), because
  a retry inserts under a new job. So a due row that is there at the fetch was there all the time.
* `VectorsHaveRowsHolds`, `IngestWithSearches` and `LifecycleWithSearches`: the invariants and the refinement proved of `Spec`
  hold of `SearchSpec` too. A search counts failed calls, so its steps are not stuttering steps of `Spec`; they keep
  `IndexInv` because nothing in it but a type speaks of that count (`ReadingKeeps`).

`FrontDoorProofs` proves, from the assumptions of `BodyLimit`, `Accounts` and `FrontDoor`, for any
number of requests, bodies, commands and failures:

* `OneResponseHolds`, `NothingPastLimitHolds`, `CutFormHolds`, `PasswordsAreChosenHolds`. `FrontDoorInv` is `ExchangeInv`
  (for each exchange, `Sound`: how `pc`, the counters and the wire go together; and
  `VerifiedWhole`: an attempt belongs to an exchange that is being handled, which no body that was cut off gets to; `cut` is set by the limit
  and by a client that leaves) and `AccountInv`: a password
  in a row, in a hash that was read for an attempt, and in an attempt that compared equal, is in `chosen`, which only
  grows. That makes the rehash sound, whenever it comes: it writes a password that was equal to one the operator had
  chosen.

`OAuthProofs` and `OAuthGrantProofs` prove, from the assumptions of `OAuthState`,
`OAuthEndpoints` and `OAuthServer` (lifetimes and the rate limit are positive, bounds are naturals,
the account of a service client exists, finitely many posts wait), for any number of users,
clients, logins, tokens, failures and restarts:

* `OAuthTypeCorrect`: `Spec => []TypeOK`. The bound on codes needs `Room`: `AcceptLogin`
  does not ask, every waiting post has had a code set aside.
* `AttemptsBoundedHolds`: inductive with the types; a refused post turns from waiting into a
  recorded failure, one for one. The set of failures has to be finite to be counted.
* `OneCredentialHolds`, `GrantsAreBoundHolds`: inductive only together, and with three more facts:
  codes have distinct ids (so redeeming one leaves none of its grant), every client in memory has a
  row, and a login or code that carries a `redirect_uri` has a client. The last is why the row that
  `oauth_token` makes for the client of the *request* is of the client of the *login*: the code
  checks `client_id` only `if info.get("client_id")`, and a code without client is never shown.
  A change of credentials is a drop (`GrantsShrink`), an exchange (`GrantExchanged`) or a
  beginning (`GrantBegins`); each action is one of the three.
* `MemoryCoversDatabaseHolds`: inductive with the types. `CleanupIsInvisibleHolds` and
  `GrantsAreConservedHolds`: action properties, from the types, one action after the other.

`OAuthGrantProofs` also proves `ImplementsGrantsHolds`: `Spec => ImplementsGrants`. Refresh tokens are numbered in
the order they are made, and a row is older than the counter (`RowsAreOld`), so the successor of a
token is younger; a grant's credential is unique by `OneCredential`, so the holder the refinement
mapping chooses is the one there is (`HolderIs`). Each action begins a grant, exchanges
its credential, or drops some.

`RagTextProofs` proves, from the assumptions of `Chunking` (a document is a list of lines with so many
words each, and the target is not zero), `Embedding`, `Ranking` and `RagText`, for documents of any length and any
windows, batches and lists of candidates:

* `TextCovered`, `LabelsCorrect`. Parsing, merging and grouping are folds over lists, and what carries
  through all three is the same: a paragraph and a section are both a *view* (a heading, words, the page of each
  word), and each of the three either adds a view to the list or joins one to the last view when their headings agree.
  That keeps `Blocks`: the views hold the words of the text in order, and each stands on lines of its own,
  under its heading. `ParseInv` says it of the paragraphs, `SectionInv` of the sections, together with `Windows`: each
  chunk is the window at a word of a section, each window begins after the one before it, and
  every word before the place the loop has reached is in a window.
* `OverlapKept`: `OverlapWords < TargetWords => (Spec => []ChunksOverlap)`. The hypothesis is true of the
  defaults (40 and 350), and nothing checks what is configured: with a longer overlap the loop steps by one word and the statement is false. Two chunks of one
  section are neighbouring windows of one view, because two views with one heading next to each other would have been
  joined (`Apart`).
* `PairingCorrect`. `EmbedInv`: batch `b` is the `b`-th run of texts, and a reply is a beginning of it.
  When no vector is missing in total none is missing in any batch, and so the flattened replies are the texts in order;
  when one is missing the lengths differ, and the assertion of `insert_chunks` stops it.
* `AnswerBest`, and `AgreementHolds`: `CandidateK <= RrfK + 1 => (Spec => []AgreementWins)`. `SortBestSorts`: with ties broken
  by the place of an entry the order is strict (`PrecedesIsStrict`, where `FractionsOrdered` is the transitivity of
  cross-multiplied fractions), a finite set with a strict order has a sorted list, and that list
  has every entry once. Agreement is then arithmetic: `1/p + 1/q > 1/x` when `p` and `q` are below `2x`, and ranks up
  to `_RRF_K + 1` keep them there. The hypothesis is true of the defaults (25 and 60); with longer lists the statement is false,
  since the last of both lists then weighs no more than the first of one.
* `TypeCorrect`: `Spec => []TypeOK`.

`FrontDoorProofs` also proves `TypeCorrect` and `AttackIsReportedHolds`, an action property: `LogInv` says that
an alert in memory has been logged, is no older than the window at the last pass of the cleanup loop, and is gone when the
server is down; so whatever keeps a threshold from being reported again was reported recently. `Crossed` and
`AlertLevel` take the maximum of a finite set (`MaxOfFinite`), for which the thresholds have to be finitely many:
the code has a tuple of them.

Induction. No theorem with an operator as its parameter can be used here, so `DataFacts` does
induction over sets: `NatSetInduction` says that a set which contains 0, and with a number its successor, contains every
number; it comes from the well-foundedness of `<`, and each use names the set of numbers for which its
statement holds. Folds, `FlattenSeq` and sorted lists are reasoned about in this way, over the length of a list or the size
of a set.

With this, every invariant, action property and refinement the runs check is a theorem. Only model-checked:

* the liveness properties `Settles`, `JobsAreClaimed`, `Finishes` and `AbandonedIsDropped`: liveness
  under fairness is out of this prover's reach;
* the five runs that show a violation: a counterexample is a behaviour, and TLC finds it.

## 5. Not modelled, and next

Not modelled:

* The cache of client metadata documents and the matching of redirect URIs: what a cached document says
  is data fetched from elsewhere. A client of a URL is a client that is known without a row.
* Several client addresses in OAuth: the failures of an address are one list in a dict, and lists of two addresses never meet.
* Two server processes on one SQLite database: SECURITY.md says memory is not shared. Two of them could redeem one
  refresh token (`redeem_refresh_token` selects, then deletes); that hazard has no property.
* `db.py`: one connection per thread, and a rollback of what a failed call left open. The models rest on it, in that a
  failed SQLite call has changed nothing.
* The session cookie of the panel, HTML pages and redirects, terminal prompts: they keep no state in the server.
* `config.py` (constants, read once), the declarations of tools in `server.py`, `list_documents`, and the rows
  `log_tool_call` and successful logins append to audit tables that nothing reads.
* The parsers' libraries, Qdrant's and Postgres' own behaviour, the embedding gateway and the reranker: external, modelled
  by what the code can observe of them.

Next, in this order: two server processes on one database; the cache of client metadata with its expiry.

------------------------------ MODULE FrontDoor ------------------------------
(***************************************************************************)
(* The public forms: the handlers of oauth_login_post, rag_login_post,     *)
(* oauth_clients_register, oauth_token and the redirects of rag_search and *)
(* rag_upload, behind the limit of BodyLimit and in front of the accounts  *)
(* of Accounts.  What oauth_token grants is in OAuthServer.                *)
(*                                                                         *)
(* oauth_login_post verifies a password in a worker thread; rag_login_post *)
(* verifies it on the event loop, where nothing else runs meanwhile.       *)
(***************************************************************************)
EXTENDS BodyLimit, Accounts

CONSTANT MaxRequests   \* bound: requests accepted

ASSUME RouteNames == Routes \subseteq {"login", "panel", "register", "token", "search", "upload"}
ASSUME SlotsAssumption == Attempts = Requests /\ MaxRequests \in Nat

VARIABLE accepted      \* requests accepted

vars == <<exchange, configured, schema, up, users, failed, alerted, attempt, now, swept,
          failures, cli, commands, chosen, warnings, accepted>>

Init == LimitInit /\ AccountsInit /\ accepted = 0

On(r, route) == exchange[r].route = route

Verifying(r) == attempt[r].pc \in {"lookup", "verify", "rehash"}

\* The event loop is free for a step of request r.
LoopFree(r) == up /\ \A q \in Requests \ {r} : ~(On(q, "panel") /\ Verifying(q))

\* What the log and its alert are made of.
logVars == <<failed, alerted, warnings>>

hostVars == <<configured, schema, up, now, swept, cli, commands, chosen>>

-----------------------------------------------------------------------------
(* The middleware's steps.                                                 *)

Open(r) ==
    /\ accepted < MaxRequests /\ accepted' = accepted + 1
    /\ \E t \in Routes : Accept(r, t) \/ RefuseDeclared(r, t)
    /\ UNCHANGED accountVars

Transfer(r) ==
    /\ \/ \E n \in ChunkSizes, more \in BOOLEAN : Receive(r, n, more)
       \/ Disconnect(r)
       \/ (exchange[r].route # "register" /\ HandlerCut(r))
       \/ Answer(r)
    /\ UNCHANGED <<accountVars, accepted>>

-----------------------------------------------------------------------------
(* The handlers.                                                           *)

\* Answers that touch no account: rag_search and rag_upload without a session,
\* or with one; oauth_token; oauth_login_post of an unknown login_id.  The body
\* is not read without a session, or where a form has another content type.
AnswerOnly(r) ==
    /\ exchange[r].pc \in {"receiving", "parsed"}
    /\ exchange[r].route \in {"search", "upload", "token", "login"}
    /\ Advance(r, "answer")
    /\ UNCHANGED <<accountVars, accepted>>

\* verify_user is called with the form's fields.
SignIn(r, n, p) ==
    /\ Reached(r, "parsed") /\ exchange[r].route \in {"login", "panel"}
    /\ exchange' = [exchange EXCEPT ![r].pc = "handling", ![r].served = TRUE]
    /\ StartAttempt(r, n, p)
    /\ UNCHANGED <<hostVars, logVars, users, failures, accepted>>

Check(r) ==
    /\ Reached(r, "handling")
    /\ VerifyUser(r)
    /\ UNCHANGED <<exchange, hostVars, logVars, accepted>>

\* oauth_login_post, over the rate limit (any request may be).
RefuseRate(r, ip, inserted, counted) ==
    /\ Reached(r, "parsed") /\ On(r, "login")
    /\ LogFailure(ip, inserted, counted)
    /\ exchange' = [exchange EXCEPT ![r].pc = "answer", ![r].served = TRUE]
    /\ UNCHANGED <<hostVars, users, attempt, accepted>>

\* oauth_login_post, after a wrong password.
RefusePassword(r, ip, inserted, counted) ==
    /\ Reached(r, "handling") /\ On(r, "login") /\ Attempting(r, "bad")
    /\ LogFailure(ip, inserted, counted)
    /\ Advance(r, "answer")
    /\ attempt' = [attempt EXCEPT ![r] = NoAttempt]
    /\ UNCHANGED <<hostVars, users, accepted>>

\* A login that succeeds, or any of the panel, which keeps no log.  An error
\* of the lookup leaves the handler.
Conclude(r) ==
    /\ Reached(r, "handling")
    /\ attempt[r].pc \in {"good", "error"} \/ (On(r, "panel") /\ Attempting(r, "bad"))
    /\ exchange' = [exchange EXCEPT ![r] =
          IF Attempting(r, "error") THEN Raised(@) ELSE [@ EXCEPT !.pc = "answer"]]
    /\ attempt' = [attempt EXCEPT ![r] = NoAttempt]
    /\ UNCHANGED <<hostVars, logVars, users, failures, accepted>>

\* oauth_clients_register takes any failure to read the body, a cut body
\* included, for an empty registration, and makes a client of it (served).
Register(r, ok) ==
    /\ exchange[r].pc \in {"parsed", "cut"} /\ On(r, "register")
    /\ Charge(Cost(ok))
    /\ exchange' = [exchange EXCEPT ![r].pc = "answer", ![r].served = ok]
    /\ UNCHANGED <<hostVars, logVars, users, attempt, accepted>>

\* data.get of a body that is no JSON object, or json.loads of a token request
\* that is neither a form nor JSON, raises.
UnusableBody(r) ==
    /\ Reached(r, "parsed") /\ exchange[r].route \in {"register", "token"}
    /\ exchange' = [exchange EXCEPT ![r] = Raised(@)]
    /\ UNCHANGED <<accountVars, accepted>>

Handle(r) ==
    \/ AnswerOnly(r) \/ UnusableBody(r) \/ Check(r) \/ Conclude(r)
    \/ \E n \in Names, p \in Passwords : SignIn(r, n, p)
    \/ \E ip \in Ips, inserted, counted \in BOOLEAN :
          RefuseRate(r, ip, inserted, counted) \/ RefusePassword(r, ip, inserted, counted)
    \/ \E ok \in BOOLEAN : Register(r, ok)

-----------------------------------------------------------------------------
\* The server stops: its connections and its memory are gone.
Shutdown ==
    /\ Stop
    /\ exchange' = [r \in Requests |-> Free]
    /\ UNCHANGED accepted

Host == (Tick \/ Cleanup \/ Start \/ Operate) /\ UNCHANGED <<exchange, accepted>>

Serve(r) == LoopFree(r) /\ (Open(r) \/ Transfer(r) \/ Handle(r))

Next == Host \/ Shutdown \/ \E r \in Requests : Serve(r)

Spec == Init /\ [][Next]_vars

-----------------------------------------------------------------------------
(* Correctness.                                                            *)

TypeOK == LimitTypeOK /\ AccountsTypeOK /\ accepted \in 0 .. MaxRequests

\* A client gets at most one response, and all of it once the exchange is
\* closed; it is a refusal for size exactly when the body was over the limit
\* before the handler had begun to answer.
OneResponse ==
    \A r \in Requests : LET x == exchange[r] IN
       /\ x.wire \in {<<>>} \cup {<<h>> : h \in {"response", "413", "500"}}
                     \cup {<<h, "end">> : h \in {"response", "413", "500"}}
       /\ (x.pc = "closed") => Len(x.wire) = 2
       /\ (x.pc = "closed" /\ x.over /\ ~x.started) => x.wire[1] = "413"
       /\ (x.read > 0 /\ ~x.over /\ x.wire # <<>>) => x.wire[1] # "413"

\* No handler behind the limit is given more than max_bytes, however the
\* body was cut into messages.
NothingPastLimit == \A r \in Requests : Limited(exchange[r]) => exchange[r].seen <= MaxBytes

\* A sign-in form that was cut off, by the limit or because its client left,
\* is never verified and never logged, whatever came of its request since.
CutFormSignsNobodyIn ==
    \A r \in Requests : LET x == exchange[r] IN
       x.cut /\ x.route \in {"login", "panel"} => ~x.served /\ attempt[r] = NoAttempt

\* The password of an account, and one that was just accepted, is one that an
\* operator chose for it: the upgrade of old hashes, however it is overtaken
\* by a reset, never stores what a caller made up.
PasswordsAreChosen ==
    /\ \A n \in Names : users[n] # NoAccount => users[n].password \in chosen[n]
    /\ \A r \in Requests : Attempting(r, "good") => attempt[r].password \in chosen[attempt[r].name]

\* When a failed login is logged and counted, and the failures of its address
\* in the window reach a threshold, a warning for that threshold or a higher
\* one has been logged no longer ago than the window and one cleanup pass.
AttackIsReported ==
    [][\A ip \in Ips :
          failed'[ip] # failed[ip] /\ failures' = failures =>
             \A t \in Thresholds :
                Recent(failed', ip) >= t =>
                   \E w \in warnings' : /\ w.ip = ip /\ w.level >= t
                                        /\ now - w.when <= Window + Interval]_vars

\* What tests/test_body_limit.py:5 says: an oversized body is refused without
\* the handler running.
OversizeNeverServed == \A r \in Requests : exchange[r].over => ~exchange[r].served

\* README.md:170 has the operator run the setup wizard first.  It ends.
SetupCompletes == cli.pc # "crashed"
=============================================================================

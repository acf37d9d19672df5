--------------------------- MODULE OAuthEndpoints ---------------------------
(***************************************************************************)
(* app/oauth.py: the handlers of /oauth/clients/register, /authorize,      *)
(* /login and /token.  Everything a handler does between two awaits is one *)
(* step.  Only the login post awaits between a check and the use of it: it *)
(* waits for verify_user in a thread.  The token endpoint reads its form   *)
(* first and then runs to its end without waiting.  A request that is      *)
(* answered with an error and changes nothing is not a step.               *)
(***************************************************************************)
EXTENDS OAuthState

CONSTANT Slots       \* login posts that can wait for verify_user together

ASSUME SlotsAssumption == IsFiniteSet(Slots)

VARIABLE posts       \* posts[s]: the local variables of one login post

dbVars == <<db_tokens, refresh_tokens, db_clients>>
countVars == <<nextLogin, nextCode, nextRefresh, grants>>

NoPending == [id |-> 0, client |-> Nil, redirect |-> FALSE, issued_at |-> 0]

NoPost == [busy |-> FALSE, user |-> Nil, pending |-> NoPending]

Post == [ busy    : BOOLEAN,
          user    : Users \cup {Nil},
          pending : Pending \cup {NoPending} ]

PostsTypeOK == posts \in [Slots -> Post]

PostsInit == posts = [s \in Slots |-> NoPost]

Verifying == {s \in Slots : posts[s].busy}

-----------------------------------------------------------------------------
\* oauth_clients_register: the row first, then memory.
Register(k) ==
    /\ Kind[k] = "registered" /\ k \notin db_clients
    /\ db_clients' = db_clients \cup {k}
    /\ oauth_clients' = oauth_clients \cup {k}
    /\ UNCHANGED <<now, oauth_pending, oauth_codes, oauth_tokens, failed, db_tokens,
                   refresh_tokens, failures, posts>> /\ UNCHANGED countVars

\* Mutant: the columns of the INSERT are swapped.
AddServiceClientSwapped(k) ==
    /\ Kind[k] = "service" /\ k \notin db_clients
    /\ db_clients' = db_clients \cup {ServiceUser[k]}
    /\ UNCHANGED <<now, oauth_pending, oauth_codes, oauth_tokens, oauth_clients, failed,
                   db_tokens, refresh_tokens, failures, posts>> /\ UNCHANGED countVars

\* python main.py --add-service-client: another process, so only the row.
AddServiceClient(k) ==
    /\ Kind[k] = "service" /\ k \notin db_clients
    /\ db_clients' = db_clients \cup {k}
    /\ UNCHANGED <<now, oauth_pending, oauth_codes, oauth_tokens, oauth_clients, failed,
                   db_tokens, refresh_tokens, failures, posts>> /\ UNCHANGED countVars

\* A redirect_uri has to be one of a client this process knows, or one in the
\* metadata document just fetched; service clients have none.
RedirectAllowed(k) ==
    k # Nil /\ (Kind[k] = "document" \/ (Kind[k] = "registered" /\ k \in oauth_clients))

\* oauth_authorize.
Authorize(k, redirect) ==
    /\ nextLogin <= MaxLogins
    /\ redirect => RedirectAllowed(k)
    /\ oauth_pending' = oauth_pending \cup
         {[id |-> nextLogin, client |-> k, redirect |-> redirect, issued_at |-> now]}
    /\ nextLogin' = nextLogin + 1
    /\ UNCHANGED <<now, oauth_codes, oauth_tokens, oauth_clients, failed, nextCode,
                   nextRefresh, grants, failures, posts>> /\ UNCHANGED dbVars

\* _get_pending of an expired login, in oauth_login and in oauth_login_post.
DropExpiredLogin(p) ==
    /\ ~LoginUsable(p)
    /\ oauth_pending' = oauth_pending \ {p}
    /\ UNCHANGED <<now, oauth_codes, oauth_tokens, oauth_clients, failed, failures, posts>>
    /\ UNCHANGED dbVars /\ UNCHANGED countVars

\* Mutant: one attempt more than the limit.
BeginLoginAtLimit(s, p, u) ==
    /\ ~posts[s].busy
    /\ nextCode + Cardinality(Verifying) <= MaxCodes
    /\ LoginUsable(p)
    /\ failed' = RecentFailed
    /\ IF Cardinality(failed') <= RateLimit
       THEN posts' = [posts EXCEPT ![s] = [busy |-> TRUE, user |-> u, pending |-> p]]
       ELSE UNCHANGED posts
    /\ UNCHANGED <<now, oauth_pending, oauth_codes, oauth_tokens, oauth_clients, failures>>
    /\ UNCHANGED dbVars /\ UNCHANGED countVars

\* oauth_login_post up to the await: the login, the cookie of the browser that
\* started it, and the rate limit are checked.  The bound leaves a code for
\* every post that waits.
BeginLogin(s, p, u) ==
    /\ ~posts[s].busy
    /\ nextCode + Cardinality(Verifying) <= MaxCodes
    /\ LoginUsable(p)
    /\ failed' = RecentFailed
    /\ IF Cardinality(failed') < RateLimit
       THEN posts' = [posts EXCEPT ![s] = [busy |-> TRUE, user |-> u, pending |-> p]]
       ELSE UNCHANGED posts
    /\ UNCHANGED <<now, oauth_pending, oauth_codes, oauth_tokens, oauth_clients, failures>>
    /\ UNCHANGED dbVars /\ UNCHANGED countVars

EndPost(s) == posts' = [posts EXCEPT ![s] = NoPost]

\* verify_user said yes: pop the login, if it is still there, and make a code
\* from what was read before the await.
AcceptLogin(s) ==
    /\ posts[s].busy
    /\ LET p == posts[s].pending
       IN  /\ oauth_pending' = {q \in oauth_pending : q.id # p.id}
           /\ oauth_codes' = oauth_codes \cup
                {[id |-> nextCode, user |-> posts[s].user, client |-> p.client,
                  redirect |-> p.redirect, issued_at |-> now]}
           /\ grants' = Append(grants, [login |-> p.id, user |-> posts[s].user,
                                        client |-> p.client])
    /\ nextCode' = nextCode + 1
    /\ EndPost(s)
    /\ UNCHANGED <<now, oauth_tokens, oauth_clients, failed, nextLogin, nextRefresh, failures>>
    /\ UNCHANGED dbVars

\* verify_user said no; the login stays.
RefuseLogin(s) ==
    /\ posts[s].busy
    /\ RecordFailed
    /\ EndPost(s)
    /\ UNCHANGED <<now, oauth_pending, oauth_codes, oauth_tokens, oauth_clients, failures>>
    /\ UNCHANGED dbVars /\ UNCHANGED countVars

\* verify_user raised out of its read of the users table: no failure is recorded.
BreakLogin(s) ==
    /\ posts[s].busy
    /\ Charge(1)
    /\ EndPost(s)
    /\ UNCHANGED <<now, oauth_pending, oauth_codes, oauth_tokens, oauth_clients, failed>>
    /\ UNCHANGED dbVars /\ UNCHANGED countVars

-----------------------------------------------------------------------------
(* The token endpoint.  k is the client_id of the request; proof says that *)
(* its client_secret (if k has one) and its code_verifier are right.       *)

\* Mutant: the client proves who it is, but not that the code is its own.
MayRedeemAnothers(c, k, proof) ==
    /\ proof
    /\ c.client # Nil => Kind[k] = "document" \/ k \in oauth_clients

\* The checks between the look at a code and its use.
MayRedeem(c, k, proof) ==
    /\ proof
    /\ c.client # Nil =>
         /\ k = c.client
         /\ Kind[k] = "document" \/ k \in oauth_clients

\* What issue_token and issue_refresh_token leave; get_user of issue_token may
\* raise (then neither happens), and each of the two writes may fail.
IssuePair(rows, g, u, k, found, saved, kept) ==
    /\ Charge(Cost(found) + Cost(saved) + Cost(kept))
    /\ IF found
       THEN IssueToken(u, Nil, saved) /\ IssueRefreshToken(rows, g, u, k, kept)
       ELSE /\ saved /\ kept
            /\ refresh_tokens' = rows
            /\ UNCHANGED <<oauth_tokens, db_tokens, nextRefresh>>

\* Mutant: the code is consumed before the checks.
RedeemCodeEagerly(c, k, proof, found, saved, kept) ==
    /\ c.redirect /\ nextRefresh <= MaxRefresh
    /\ oauth_codes' = oauth_codes \ {c}
    /\ IF CodeUsable(c) /\ MayRedeem(c, k, proof)
       THEN IssuePair(refresh_tokens, c.id, c.user, k, found, saved, kept)
       ELSE /\ found /\ saved /\ kept
            /\ UNCHANGED <<oauth_tokens, db_tokens, refresh_tokens, nextRefresh, failures>>
    /\ UNCHANGED <<now, oauth_pending, oauth_clients, failed, db_clients, nextLogin, nextCode,
                   grants, posts>>

\* Mutant: the code stays redeemable until it expires.
RedeemCodeKeepingIt(c, k, proof, found, saved, kept) ==
    /\ c.redirect /\ nextRefresh <= MaxRefresh
    /\ CodeUsable(c) /\ MayRedeem(c, k, proof)
    /\ IssuePair(refresh_tokens, c.id, c.user, k, found, saved, kept)
    /\ UNCHANGED <<now, oauth_pending, oauth_codes, oauth_clients, failed, db_clients,
                   nextLogin, nextCode, grants, posts>>

\* grant_type=authorization_code.  The code is known to whoever was redirected
\* with it.  It is dropped when it has expired, kept when a check fails, and
\* popped before the tokens are made.
RedeemCode(c, k, proof, found, saved, kept) ==
    /\ c.redirect /\ nextRefresh <= MaxRefresh
    /\ IF CodeUsable(c) /\ MayRedeem(c, k, proof)
       THEN /\ oauth_codes' = oauth_codes \ {c}
            /\ IssuePair(refresh_tokens, c.id, c.user, k, found, saved, kept)
       ELSE /\ found /\ saved /\ kept
            /\ oauth_codes' = IF CodeUsable(c) THEN oauth_codes ELSE oauth_codes \ {c}
            /\ UNCHANGED <<oauth_tokens, db_tokens, refresh_tokens, nextRefresh, failures>>
    /\ UNCHANGED <<now, oauth_pending, oauth_clients, failed, db_clients, nextLogin, nextCode,
                   grants, posts>>

\* grant_type=refresh_token for a client that has proved to be k.  A failure
\* inside redeem_refresh_token leaves everything as it was.
Refresh(r, k, found, saved, kept) ==
    /\ nextRefresh <= MaxRefresh
    /\ Kind[k] = "document" \/ k \in oauth_clients
    /\ RefreshUsable(r) /\ r.client = k
    /\ IssuePair(AfterRedeem(r), r.grant, r.user, k, found, saved, kept)
    /\ UNCHANGED <<now, oauth_pending, oauth_codes, oauth_clients, failed, db_clients,
                   nextLogin, nextCode, grants, posts>>

\* grant_type=client_credentials: only for a client made at the command line.
ClientCredentials(k, saved) ==
    /\ k \in oauth_clients /\ Kind[k] = "service"
    /\ Charge(Cost(saved))
    /\ IssueToken(ServiceUser[k], k, saved)
    /\ UNCHANGED <<now, oauth_pending, oauth_codes, oauth_clients, failed, refresh_tokens,
                   db_clients, posts>> /\ UNCHANGED countVars
=============================================================================

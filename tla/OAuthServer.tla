----------------------------- MODULE OAuthServer -----------------------------
(***************************************************************************)
(* The authorization server of one process: the endpoints, the clock, the  *)
(* cleanup loop of app/main.py, revocation, the command line on the same   *)
(* database, and restarts.                                                 *)
(***************************************************************************)
EXTENDS OAuthEndpoints

CONSTANT MaxCrashes  \* bound: restarts

ASSUME CrashAssumption == MaxCrashes \in Nat

VARIABLE crashes

vars == <<now, oauth_pending, oauth_codes, oauth_tokens, oauth_clients, failed,
          db_tokens, refresh_tokens, db_clients, nextLogin, nextCode, nextRefresh,
          failures, grants, posts, crashes>>

Init == StateInit /\ PostsInit /\ crashes = 0

Tick ==
    /\ now < MaxTime
    /\ now' = now + 1
    /\ UNCHANGED <<oauth_pending, oauth_codes, oauth_tokens, oauth_clients, failed, failures,
                   posts, crashes>> /\ UNCHANGED dbVars /\ UNCHANGED countVars

\* One pass of _cleanup_loop; nothing is awaited between its two calls.
CleanupPass(saved) ==
    /\ Charge(Cost(saved))
    /\ SweepExpiredState
    /\ CleanupExpiredTokens(saved)
    /\ UNCHANGED <<now, oauth_clients, db_clients, posts, crashes>> /\ UNCHANGED countVars

\* revoke_tokens_for_user, called in the process of the server.
Revoke(u, saved) ==
    /\ Charge(Cost(saved))
    /\ RevokeTokens(u, saved)
    /\ UNCHANGED <<now, oauth_pending, oauth_codes, oauth_clients, failed, refresh_tokens,
                   db_clients, posts, crashes>> /\ UNCHANGED countVars

\* Mutant: lifespan forgets to load the tokens.
RestartWithoutTokens(tokens, clients) ==
    /\ crashes < MaxCrashes
    /\ crashes' = crashes + 1
    /\ Charge(Cost(tokens) + Cost(clients))
    /\ oauth_pending' = {} /\ oauth_codes' = {} /\ failed' = {}
    /\ LoadTokens(FALSE) /\ LoadClients(clients)
    /\ posts' = [s \in Slots |-> NoPost]
    /\ UNCHANGED now /\ UNCHANGED dbVars /\ UNCHANGED countVars

\* The process stops and lifespan starts it again; a load that fails is only
\* logged.
Restart(tokens, clients) ==
    /\ crashes < MaxCrashes
    /\ crashes' = crashes + 1
    /\ Charge(Cost(tokens) + Cost(clients))
    /\ oauth_pending' = {} /\ oauth_codes' = {} /\ failed' = {}
    /\ LoadTokens(tokens) /\ LoadClients(clients)
    /\ posts' = [s \in Slots |-> NoPost]
    /\ UNCHANGED now /\ UNCHANGED dbVars /\ UNCHANGED countVars

LoginStep ==
    \/ \E k \in Clients \cup {Nil}, redirect \in BOOLEAN : Authorize(k, redirect)
    \/ \E p \in oauth_pending :
          DropExpiredLogin(p) \/ \E s \in Slots, u \in Users : BeginLogin(s, p, u)
    \/ \E s \in Slots : AcceptLogin(s) \/ RefuseLogin(s) \/ BreakLogin(s)

TokenStep ==
    \E k \in Clients :
       \/ \E found, saved, kept \in BOOLEAN :
             \/ \E c \in oauth_codes, proof \in BOOLEAN :
                   RedeemCode(c, k, proof, found, saved, kept)
             \/ \E r \in refresh_tokens : Refresh(r, k, found, saved, kept)
       \/ \E saved \in BOOLEAN : ClientCredentials(k, saved)

ClientStep ==
    \E k \in Clients : Register(k) \/ AddServiceClient(k)

Next ==
    \/ LoginStep /\ UNCHANGED crashes
    \/ TokenStep /\ UNCHANGED crashes
    \/ ClientStep /\ UNCHANGED crashes
    \/ Tick
    \/ \E saved \in BOOLEAN : CleanupPass(saved) \/ \E u \in Users : Revoke(u, saved)
    \/ \E tokens, clients \in BOOLEAN : Restart(tokens, clients)

Spec == Init /\ [][Next]_vars

\* Time passes, and the cleanup task of the event loop is resumed when its
\* sleep is over.
FairSpec == Spec /\ WF_vars(Tick) /\ WF_vars(\E saved \in BOOLEAN : CleanupPass(saved))

-----------------------------------------------------------------------------
(* A grant g is what one code stands for: the code, and after it the       *)
(* refresh tokens that descend from it.                                    *)

OpenCode(g) == \E c \in oauth_codes : c.id = g /\ CodeUsable(c)

Rows(g) == {r \in refresh_tokens : r.grant = g}

Live(g) == {r \in Rows(g) : RefreshUsable(r)}

-----------------------------------------------------------------------------
(* Invariants.                                                             *)

\* Types of the variables.
TypeOK ==
    /\ StateTypeOK
    /\ PostsTypeOK
    /\ crashes \in Nat

\* A grant is one credential at a time: its code, or after that a single row of
\* refresh_tokens, through any number of exchanges, failed writes and restarts
\* (codes are popped and rows deleted before their successors are made).
OneCredential ==
    \A g \in Granted :
       /\ \A r, s \in Rows(g) : r = s
       /\ Rows(g) = {} \/ ~\E c \in oauth_codes : c.id = g

CodesAreBound ==
    \A c \in oauth_codes : c.id \in Granted /\ c.user = grants[c.id].user
                                            /\ c.client = grants[c.id].client

RowsAreBound ==
    \A r \in refresh_tokens : r.grant \in Granted /\ r.user = grants[r.grant].user
                                                  /\ r.client = grants[r.grant].client

TokensAreBound ==
    \A t \in db_tokens :
       IF t.svc = Nil THEN \E g \in Granted : grants[g].user = t.user
       ELSE t.svc \in db_clients /\ Kind[t.svc] = "service" /\ t.user = ServiceUser[t.svc]

\* Every credential belongs to the user who logged in and to the client that
\* login was started by, however often it has been exchanged; an access token is
\* of a user who logged in, or of the account of a service client.
GrantsAreBound == CodesAreBound /\ RowsAreBound /\ TokensAreBound

\* The limiter reads the failures before the await and records the next one after
\* it, so posts that wait together can exceed it, but never by more than they are.
AttemptsBounded ==
    Cardinality(RecentFailed) + Cardinality(Verifying) <= RateLimit - 1 + Cardinality(Slots)

\* Unless a database call has failed, every token the gate accepts is also in
\* memory, where revoke_tokens_for_user counts what it revokes: cleanup, load and
\* the gate agree on the second at which a token expires.
MemoryCoversDatabase ==
    failures = 0 => \A t \in db_tokens : Accepted(t) => t \in oauth_tokens

-----------------------------------------------------------------------------
(* Action properties.                                                      *)

\* While time stands still, no restart happens and no call fails, a grant that
\* can be used stays usable: a refused request burns nothing, cleanup takes
\* nothing too early, and consuming a credential makes its successor.
GrantsAreConserved ==
    [][ now' = now /\ crashes' = crashes /\ failures' = failures =>
           \A g \in Granted :
              OpenCode(g) \/ Live(g) # {} => (OpenCode(g) \/ Live(g) # {})' ]_vars

\* A cleanup pass drops no login and no access token a request could still use:
\* the boundaries of sweep_expired_state and cleanup_expired_tokens are those of
\* _get_pending and is_token_active.
CleanupIsInvisible ==
    [][ \/ \E p \in oauth_pending : LoginUsable(p) /\ p \notin oauth_pending'
        \/ \E t \in db_tokens : Accepted(t) /\ t \notin db_tokens'
        => \A saved \in BOOLEAN : ~CleanupPass(saved) ]_vars

-----------------------------------------------------------------------------
(* Refinement of GrantLifecycle.                                           *)

Stage(g) ==
    CASE g \notin Granted -> "none"
      [] g \in Granted /\ Live(g) # {} -> "open"
      [] g \in Granted /\ Live(g) = {} /\ OpenCode(g) -> "code"
      [] OTHER -> "closed"

\* The youngest refresh token of a grant.
Holder(g) ==
    IF Live(g) = {} THEN 0
    ELSE (CHOOSE r \in Live(g) : \A s \in Live(g) : s.id <= r.id).id

Lifecycle == INSTANCE GrantLifecycle WITH
    GrantIds <- CodeIds,
    stage <- [g \in CodeIds |-> Stage(g)],
    holder <- [g \in CodeIds |-> Holder(g)]

\* Every step grants, redeems, rotates or ends grants, or leaves all as they are.
ImplementsGrants == Lifecycle!Spec

-----------------------------------------------------------------------------
(* Liveness, under FairSpec.                                               *)

\* A login that nobody finishes, and a code that nobody redeems, do not stay in
\* memory (if they start early enough for the bounded clock to see them expire).
AbandonedIsDropped ==
    /\ \A l \in LoginIds :
          (\E p \in oauth_pending : p.id = l /\ p.issued_at + LoginTTL < MaxTime)
             ~> ~\E p \in oauth_pending : p.id = l
    /\ \A g \in CodeIds :
          (\E c \in oauth_codes : c.id = g /\ c.issued_at + CodeTTL < MaxTime)
             ~> ~\E c \in oauth_codes : c.id = g

-----------------------------------------------------------------------------
(* Statements of the repository the code does not keep.                    *)

\* SECURITY.md: pending login transactions are "single-use".
LoginIsSingleUse ==
    \A g, h \in Granted : grants[g].login = grants[h].login => g = h
=============================================================================

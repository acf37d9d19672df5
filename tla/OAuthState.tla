----------------------------- MODULE OAuthState -----------------------------
(***************************************************************************)
(* app/oauth.py: the state of the authorization server, part in memory and *)
(* part in SQLite, and the functions that issue, redeem, revoke, load and  *)
(* drop credentials.                                                       *)
(*                                                                         *)
(*   memory   oauth_pending, oauth_codes, oauth_tokens, oauth_clients,     *)
(*            failed (the times in _failed_attempts of one address)        *)
(*   SQLite   db_tokens, refresh_tokens, db_clients                        *)
(*                                                                         *)
(* A dict keyed by fresh random values is a set of records with an id; the *)
(* ids are numbered in the order they are made.  Time is in seconds.       *)
(***************************************************************************)
EXTENDS Integers, Sequences, FiniteSets

CONSTANTS
    Users,        \* rows of the users table; none is ever deleted
    Clients,      \* client ids
    Kind,         \* Kind[k]: "registered" by DCR, "document" for a client named
                  \*   by the URL of its metadata, "service" from the command line
    ServiceUser,  \* ServiceUser[k]: the account of a service client
    Nil,          \* no client
    LoginTTL, CodeTTL, AccessTTL, RefreshTTL,
    RateLimit, RateWindow,
    MaxTime,      \* bound: the clock stops here
    MaxLogins,    \* bound: calls of /oauth/authorize
    MaxCodes,     \* bound: codes ever made
    MaxRefresh,   \* bound: refresh tokens ever made
    MaxFailures   \* bound: failed database calls

ASSUME KindAssumption == Kind \in [Clients -> {"registered", "document", "service"}]
ASSUME ServiceAssumption ==
    \A k \in Clients : Kind[k] = "service" => ServiceUser[k] \in Users
ASSUME LifetimeAssumption ==
    /\ LoginTTL \in Nat \ {0} /\ CodeTTL \in Nat \ {0} /\ AccessTTL \in Nat \ {0}
    /\ RefreshTTL \in Nat \ {0} /\ RateWindow \in Nat \ {0} /\ RateLimit \in Nat \ {0}
ASSUME BoundsAssumption ==
    /\ MaxTime \in Nat /\ MaxLogins \in Nat /\ MaxCodes \in Nat
    /\ MaxRefresh \in Nat /\ MaxFailures \in Nat
ASSUME NilAssumption == Nil \notin Clients

VARIABLES
    now, oauth_pending, oauth_codes, oauth_tokens, oauth_clients, failed,
    db_tokens, refresh_tokens, db_clients,
    nextLogin, nextCode, nextRefresh,
    failures,     \* failed database calls so far
    grants        \* history: what the login behind each code decided

LoginIds   == 1 .. MaxLogins
CodeIds    == 1 .. MaxCodes
RefreshIds == 1 .. MaxRefresh

\* redirect: whether a redirect_uri was given; without one the flow ends on a
\* page of the server and the code is shown to nobody.
Pending == [ id : LoginIds, client : Clients \cup {Nil}, redirect : BOOLEAN, issued_at : Nat ]

Code == [ id : CodeIds, user : Users, client : Clients \cup {Nil}, redirect : BOOLEAN,
          issued_at : Nat ]

\* A JWT is its claims: two of the same account in one second are one token.
AccessToken == [ user : Users, svc : Clients \cup {Nil}, exp : Nat ]

\* grant is history: the code this token descends from.
RefreshToken == [ id : RefreshIds, grant : CodeIds, user : Users,
                  client : Clients \cup {Nil}, expires_at : Nat ]

Grant == [ login : LoginIds, user : Users, client : Clients \cup {Nil} ]

Granted == 1 .. nextCode - 1

StateTypeOK ==
    /\ now \in 0 .. MaxTime
    /\ oauth_pending \in SUBSET Pending
    /\ oauth_codes \in SUBSET Code
    /\ oauth_tokens \in SUBSET AccessToken
    /\ oauth_clients \in SUBSET Clients
    /\ failed \in SUBSET (Nat \X Nat)
    /\ db_tokens \in SUBSET AccessToken
    /\ refresh_tokens \in SUBSET RefreshToken
    /\ db_clients \in SUBSET Clients
    /\ nextLogin \in 1 .. MaxLogins + 1
    /\ nextCode \in 1 .. MaxCodes + 1
    /\ grants \in Seq(Grant) /\ nextCode = Len(grants) + 1
    /\ nextRefresh \in 1 .. MaxRefresh + 1
    /\ failures \in 0 .. MaxFailures

StateInit ==
    /\ now = 0
    /\ oauth_pending = {} /\ oauth_codes = {} /\ oauth_tokens = {} /\ oauth_clients = {}
    /\ failed = {}
    /\ db_tokens = {} /\ refresh_tokens = {} /\ db_clients = {}
    /\ nextLogin = 1 /\ nextCode = 1 /\ nextRefresh = 1
    /\ failures = 0
    /\ grants = <<>>
-----------------------------------------------------------------------------
(* Database calls.  One that raises has done nothing: the next db.connect  *)
(* rolls back what is open.                                                *)

Charge(n) == failures + n <= MaxFailures /\ failures' = failures + n

\* What a call with outcome ok counts for in failures.
Cost(ok) == IF ok THEN 0 ELSE 1

LoginUsable(p) == now - p.issued_at <= LoginTTL

CodeUsable(c) == now - c.issued_at <= CodeTTL

RefreshUsable(r) == ~(r.expires_at < now)

\* verify_token (the exp claim) and is_token_active, the two checks of handle_mcp.
Accepted(t) == t.exp > now /\ t \in db_tokens

RecentFailed == {a \in failed : now - a[1] < RateWindow}

\* _record_failed; the ordinal tells apart the failures of one second.
RecordFailed ==
    failed' = failed \cup {<<now, Cardinality({a \in failed : a[1] = now}) + 1>>}

-----------------------------------------------------------------------------
\* issue_token: memory first, then the row; a failed write is only logged.
IssueToken(u, svc, saved) ==
    LET t == [user |-> u, svc |-> svc, exp |-> now + AccessTTL]
    IN  /\ oauth_tokens' = oauth_tokens \cup {t}
        /\ db_tokens' = IF saved THEN db_tokens \cup {t} ELSE db_tokens

\* issue_refresh_token, over what is left of the table; a failed write is only logged.
IssueRefreshToken(rows, g, u, k, saved) ==
    /\ refresh_tokens' = IF saved
         THEN rows \cup {[id |-> nextRefresh, grant |-> g, user |-> u, client |-> k,
                          expires_at |-> now + RefreshTTL]}
         ELSE rows
    /\ nextRefresh' = nextRefresh + 1

\* Mutant: the row is read and left in place.
AfterRedeemKept(r) == refresh_tokens

\* redeem_refresh_token: the rows left when r has been consumed.
AfterRedeem(r) == refresh_tokens \ {r}

\* load_tokens_from_db and load_clients_from_db, into empty dicts.
LoadTokens(loaded) == oauth_tokens' = IF loaded THEN {t \in db_tokens : t.exp > now} ELSE {}

LoadClients(loaded) == oauth_clients' = IF loaded THEN db_clients ELSE {}

\* revoke_tokens_for_user.
RevokeTokens(u, saved) ==
    /\ oauth_tokens' = {t \in oauth_tokens : t.user # u}
    /\ db_tokens' = IF saved THEN {t \in db_tokens : t.user # u} ELSE db_tokens

\* Mutant: a login is dropped in the last second it can be used.
SweepEarly ==
    /\ oauth_pending' = {p \in oauth_pending : now - p.issued_at < LoginTTL}
    /\ oauth_codes' = {c \in oauth_codes : now - c.issued_at <= CodeTTL}
    /\ failed' = RecentFailed

\* Mutant: only the logins are swept.
SweepLogins ==
    /\ oauth_pending' = {p \in oauth_pending : ~(now - p.issued_at > LoginTTL)}
    /\ failed' = RecentFailed
    /\ UNCHANGED oauth_codes

\* sweep_expired_state.
SweepExpiredState ==
    /\ oauth_pending' = {p \in oauth_pending : ~(now - p.issued_at > LoginTTL)}
    /\ oauth_codes' = {c \in oauth_codes : ~(now - c.issued_at > CodeTTL)}
    /\ failed' = RecentFailed

\* cleanup_expired_tokens; the two DELETEs are one transaction.
CleanupExpiredTokens(saved) ==
    /\ oauth_tokens' = {t \in oauth_tokens : ~(now - (t.exp - AccessTTL) >= AccessTTL)}
    /\ IF saved
       THEN /\ db_tokens' = {t \in db_tokens : ~(t.exp < now)}
            /\ refresh_tokens' = {r \in refresh_tokens : ~(r.expires_at < now)}
       ELSE UNCHANGED <<db_tokens, refresh_tokens>>
=============================================================================

--------------------------- MODULE OAuthGrantProofs ---------------------------
(***************************************************************************)
(* What the authorization server promises about its credentials, proved    *)
(* for every number of users, clients, logins, exchanges, failed calls and *)
(* restarts, on top of the types proved in OAuthProofs.                    *)
(***************************************************************************)
EXTENDS OAuthProofs

(***************************************************************************)
(* OneCredential is inductive together with GrantsAreBound (a fresh code   *)
(* has no rows yet, because every row's grant was made before) and with    *)
(* three facts: two codes never have one id, so that redeeming a code      *)
(* leaves none of its grant; a client known to the process has a row; and  *)
(* a login or code that was given a redirect_uri has a client, so that the *)
(* row made for the code is of the client of its login.                    *)
(***************************************************************************)
CodesAreUnique == \A c, d \in oauth_codes : c.id = d.id => c = d

ClientsAreSaved == oauth_clients \subseteq db_clients

RedirectsHaveClient ==
    /\ \A p \in oauth_pending : p.redirect => p.client # Nil
    /\ \A s \in Verifying : posts[s].pending.redirect => posts[s].pending.client # Nil
    /\ \A c \in oauth_codes : c.redirect => c.client # Nil

GrantInv == CodesAreBound /\ RowsAreBound /\ OneCredential /\ CodesAreUnique

CredentialInv == GrantInv /\ TokensAreBound /\ ClientsAreSaved

LEMMA GrantedLen == ASSUME StateTypeOK PROVE Granted = 1 .. Len(grants)
  BY DEF StateTypeOK, Granted

-----------------------------------------------------------------------------
(* The three ways the credentials of the grants change.                    *)

\* Credentials are only dropped.
LEMMA GrantsShrink ==
  ASSUME GrantInv, oauth_codes' \subseteq oauth_codes, refresh_tokens' \subseteq refresh_tokens,
         grants' = grants, nextCode' = nextCode
  PROVE  GrantInv'
<1>1. Granted' = Granted
  BY DEF Granted
<1>2. CodesAreBound' /\ RowsAreBound' /\ CodesAreUnique'
  BY <1>1 DEF GrantInv, CodesAreBound, RowsAreBound, CodesAreUnique
<1>3. \A g : Rows(g)' \subseteq Rows(g)
  BY DEF Rows
<1>4. OneCredential'
  BY <1>1, <1>3 DEF GrantInv, OneCredential
<1> QED
  BY <1>2, <1>4 DEF GrantInv

\* Every credential of a grant is exchanged for at most one row.
LEMMA GrantExchanged ==
  ASSUME GrantInv, NEW g \in Granted, NEW r, r.grant = g,
         r.user = grants[g].user, r.client = grants[g].client,
         oauth_codes' \subseteq {c \in oauth_codes : c.id # g},
         refresh_tokens' \subseteq {s \in refresh_tokens : s.grant # g} \cup {r},
         grants' = grants, nextCode' = nextCode
  PROVE  GrantInv'
<1>1. Granted' = Granted
  BY DEF Granted
<1>2. CodesAreBound' /\ RowsAreBound' /\ CodesAreUnique'
  BY <1>1 DEF GrantInv, CodesAreBound, RowsAreBound, CodesAreUnique
<1>3. Rows(g)' \subseteq {r} /\ \A h : h # g => Rows(h)' \subseteq Rows(h)
  BY DEF Rows
<1>4. ~\E c \in oauth_codes' : c.id = g
  OBVIOUS
<1>5. OneCredential'
  <2> SUFFICES ASSUME NEW h \in Granted
               PROVE  /\ \A a, b \in Rows(h)' : a = b
                      /\ Rows(h)' = {} \/ ~\E c \in oauth_codes' : c.id = h
    BY <1>1 DEF OneCredential
  <2>1. CASE h = g
    BY <1>3, <1>4, <2>1
  <2>2. CASE h # g
    BY <1>3, <2>2 DEF GrantInv, OneCredential
  <2> QED
    BY <2>1, <2>2
<1> QED
  BY <1>2, <1>5 DEF GrantInv

\* A new grant begins as a code, numbered next.
LEMMA GrantBegins ==
  ASSUME GrantInv, StateTypeOK, NEW c, c.id = nextCode, NEW g, g \in Grant,
         c.user = g.user, c.client = g.client,
         oauth_codes' = oauth_codes \cup {c}, refresh_tokens' = refresh_tokens,
         grants' = Append(grants, g), nextCode' = nextCode + 1
  PROVE  GrantInv'
<1>1. /\ Granted = 1 .. Len(grants) /\ nextCode = Len(grants) + 1 /\ grants \in Seq(Grant)
      /\ nextCode \notin Granted
  BY GrantedLen DEF StateTypeOK
<1>2. /\ Granted' = Granted \cup {nextCode}
      /\ grants'[nextCode] = g /\ \A h \in Granted : grants'[h] = grants[h]
  BY <1>1 DEF Granted
<1>3. CodesAreBound'
  BY <1>1, <1>2 DEF GrantInv, CodesAreBound
<1>4. RowsAreBound'
  BY <1>1, <1>2 DEF GrantInv, RowsAreBound
<1>5. CodesAreUnique'
  BY <1>1 DEF GrantInv, CodesAreBound, CodesAreUnique
<1>6. OneCredential'
  <2>1. (\A h : Rows(h)' = Rows(h)) /\ Rows(nextCode) = {}
    BY <1>1 DEF GrantInv, RowsAreBound, Rows
  <2>2. \A h \in Granted : (\E d \in oauth_codes' : d.id = h) => \E d \in oauth_codes : d.id = h
    BY <1>1
  <2> QED
    BY <1>2, <2>1, <2>2 DEF GrantInv, OneCredential
<1> QED
  BY <1>3, <1>4, <1>5, <1>6 DEF GrantInv

-----------------------------------------------------------------------------
(* The two ways the access tokens in the table change.                     *)

LEMMA TokensShrink ==
  ASSUME TokensAreBound, db_tokens' \subseteq db_tokens, db_clients \subseteq db_clients',
         grants' = grants, nextCode' = nextCode
  PROVE  TokensAreBound'
  BY DEF TokensAreBound, Granted

LEMMA TokenOfGrant ==
  ASSUME TokensAreBound, NEW g \in Granted, NEW saved \in BOOLEAN,
         IssueToken(grants[g].user, Nil, saved),
         db_clients' = db_clients, grants' = grants, nextCode' = nextCode
  PROVE  TokensAreBound'
<1> DEFINE t == [user |-> grants[g].user, svc |-> Nil, exp |-> now + AccessTTL]
<1>1. db_tokens' \subseteq db_tokens \cup {t}
  BY DEF IssueToken
<1>2. t.svc = Nil /\ t.user = grants[g].user
  OBVIOUS
<1> HIDE DEF t
<1> QED
  BY <1>1, <1>2 DEF TokensAreBound, Granted

LEMMA TokenOfService ==
  ASSUME TokensAreBound, NEW k \in Clients, k \in db_clients, Kind[k] = "service",
         NEW saved \in BOOLEAN, IssueToken(ServiceUser[k], k, saved),
         db_clients' = db_clients, grants' = grants, nextCode' = nextCode
  PROVE  TokensAreBound'
<1> DEFINE t == [user |-> ServiceUser[k], svc |-> k, exp |-> now + AccessTTL]
<1>1. db_tokens' \subseteq db_tokens \cup {t}
  BY DEF IssueToken
<1>2. t.svc = k /\ t.user = ServiceUser[k] /\ k # Nil
  BY NilAssumption
<1> HIDE DEF t
<1> QED
  BY <1>1, <1>2 DEF TokensAreBound, Granted

-----------------------------------------------------------------------------
LEMMA RedirectsKeepClient ==
  ASSUME RedirectsHaveClient, PostsTypeOK,
         \/ LoginStep
         \/ /\ oauth_pending' \subseteq oauth_pending /\ oauth_codes' \subseteq oauth_codes
            /\ posts' = posts
         \/ oauth_pending' = {} /\ oauth_codes' = {} /\ posts' = [s \in Slots |-> NoPost]
  PROVE  RedirectsHaveClient'
<1>1. ASSUME NEW k \in Clients \cup {Nil}, NEW redirect \in BOOLEAN, Authorize(k, redirect)
      PROVE  RedirectsHaveClient'
  <2> DEFINE p == [id |-> nextLogin, client |-> k, redirect |-> redirect, issued_at |-> now]
  <2>1. p.redirect => p.client # Nil
    BY <1>1 DEF Authorize, RedirectAllowed
  <2>2. oauth_pending' = oauth_pending \cup {p} /\ UNCHANGED <<oauth_codes, posts>>
    BY <1>1 DEF Authorize
  <2> HIDE DEF p
  <2> QED
    BY <2>1, <2>2 DEF RedirectsHaveClient, Verifying
<1>2. ASSUME NEW p \in oauth_pending, DropExpiredLogin(p)
      PROVE  RedirectsHaveClient'
  BY <1>2 DEF DropExpiredLogin, RedirectsHaveClient, Verifying
<1>3. ASSUME NEW p \in oauth_pending, NEW s \in Slots, NEW u \in Users, BeginLogin(s, p, u)
      PROVE  RedirectsHaveClient'
  <2> DEFINE x == [busy |-> TRUE, user |-> u, pending |-> p]
  <2>1. /\ UNCHANGED <<oauth_pending, oauth_codes>>
        /\ posts' = posts \/ posts' = [posts EXCEPT ![s] = x]
    BY <1>3 DEF BeginLogin
  <2>2. x.pending = p
    OBVIOUS
  <2> HIDE DEF x
  <2> QED
    BY <2>1, <2>2 DEF RedirectsHaveClient, Verifying, PostsTypeOK
<1>4. ASSUME NEW s \in Slots, EndPost(s)
      PROVE  Verifying' \subseteq Verifying /\ \A z \in Verifying' : posts'[z] = posts[z]
  BY <1>4, NoPostType DEF EndPost, Verifying, PostsTypeOK
<1>5. ASSUME NEW s \in Slots, AcceptLogin(s)
      PROVE  RedirectsHaveClient'
  <2> DEFINE p == posts[s].pending
             c == [id |-> nextCode, user |-> posts[s].user, client |-> p.client,
                   redirect |-> p.redirect, issued_at |-> now]
  <2>1. s \in Verifying /\ EndPost(s)
    BY <1>5 DEF AcceptLogin, Verifying
  <2>2. c.redirect => c.client # Nil
    BY <2>1 DEF RedirectsHaveClient
  <2>3. oauth_pending' \subseteq oauth_pending /\ oauth_codes' = oauth_codes \cup {c}
    BY <1>5 DEF AcceptLogin
  <2> HIDE DEF c
  <2> QED
    BY <1>4, <2>1, <2>2, <2>3 DEF RedirectsHaveClient
<1>6. ASSUME NEW s \in Slots, RefuseLogin(s) \/ BreakLogin(s)
      PROVE  RedirectsHaveClient'
  <2>1. EndPost(s) /\ UNCHANGED <<oauth_pending, oauth_codes>>
    BY <1>6 DEF RefuseLogin, BreakLogin
  <2> QED
    BY <1>4, <2>1 DEF RedirectsHaveClient
<1>7. CASE LoginStep
  BY <1>1, <1>2, <1>3, <1>5, <1>6, <1>7 DEF LoginStep
<1>8. ASSUME oauth_pending' \subseteq oauth_pending, oauth_codes' \subseteq oauth_codes,
             posts' = posts
      PROVE  RedirectsHaveClient'
  BY <1>8 DEF RedirectsHaveClient, Verifying
<1>9. ASSUME oauth_pending' = {}, oauth_codes' = {}, posts' = [s \in Slots |-> NoPost]
      PROVE  RedirectsHaveClient'
  BY <1>9, NoPostType DEF RedirectsHaveClient, Verifying
<1> QED
  BY <1>7, <1>8, <1>9

LEMMA LoginCredentials ==
  ASSUME TypeInv, CredentialInv, LoginStep
  PROVE  CredentialInv'
<1> USE DEF CredentialInv
<1>1. ASSUME NEW s \in Slots, AcceptLogin(s)
      PROVE  CredentialInv'
  <2> DEFINE p == posts[s].pending
             c == [id |-> nextCode, user |-> posts[s].user, client |-> p.client,
                   redirect |-> p.redirect, issued_at |-> now]
             g == [login |-> p.id, user |-> posts[s].user, client |-> p.client]
  <2>1. g \in Grant
    BY <1>1 DEF AcceptLogin, TypeInv, PostsReady, Grant, Pending
  <2>2. c.id = nextCode /\ c.user = g.user /\ c.client = g.client
    OBVIOUS
  <2>3. /\ oauth_codes' = oauth_codes \cup {c} /\ grants' = Append(grants, g)
        /\ nextCode' = nextCode + 1 /\ UNCHANGED <<refresh_tokens, db_tokens, db_clients>>
        /\ oauth_clients' = oauth_clients
    BY <1>1 DEF AcceptLogin, dbVars
  <2> HIDE DEF c, g
  <2>4. GrantInv'
    BY <2>1, <2>2, <2>3, GrantBegins DEF TypeInv, TypeOK
  <2>5. TokensAreBound'
    <3>1. Granted \subseteq Granted' /\ \A h \in Granted : grants'[h] = grants[h]
      BY <2>1, <2>3 DEF TypeInv, TypeOK, StateTypeOK, Granted
    <3> QED
      BY <2>3, <3>1 DEF TokensAreBound
  <2> QED
    BY <2>3, <2>4, <2>5 DEF ClientsAreSaved
<1>2. ASSUME UNCHANGED <<oauth_codes, refresh_tokens, db_tokens, db_clients, oauth_clients,
                         grants, nextCode>>
      PROVE  CredentialInv'
  BY <1>2, GrantsShrink, TokensShrink DEF ClientsAreSaved
<1>3. ASSUME NEW k \in Clients \cup {Nil}, NEW redirect \in BOOLEAN, Authorize(k, redirect)
      PROVE  CredentialInv'
  BY <1>2, <1>3 DEF Authorize, dbVars
<1>4. ASSUME NEW p \in oauth_pending, DropExpiredLogin(p)
      PROVE  CredentialInv'
  BY <1>2, <1>4 DEF DropExpiredLogin, dbVars, countVars
<1>5. ASSUME NEW p \in oauth_pending, NEW s \in Slots, NEW u \in Users, BeginLogin(s, p, u)
      PROVE  CredentialInv'
  BY <1>2, <1>5 DEF BeginLogin, dbVars, countVars
<1>6. ASSUME NEW s \in Slots, RefuseLogin(s) \/ BreakLogin(s)
      PROVE  CredentialInv'
  BY <1>2, <1>6 DEF RefuseLogin, BreakLogin, dbVars, countVars
<1> QED
  BY <1>1, <1>3, <1>4, <1>5, <1>6 DEF LoginStep

\* The pair that succeeds a credential of grant g, once that credential is gone.
LEMMA PairCredentials ==
  ASSUME TypeInv, CredentialInv, NEW g \in Granted, NEW k, k = grants[g].client,
         NEW rows, rows \subseteq {s \in refresh_tokens : s.grant # g},
         oauth_codes' \subseteq {c \in oauth_codes : c.id # g},
         NEW found \in BOOLEAN, NEW saved \in BOOLEAN, NEW kept \in BOOLEAN,
         IssuePair(rows, g, grants[g].user, k, found, saved, kept),
         UNCHANGED <<db_clients, oauth_clients, grants, nextCode>>
  PROVE  CredentialInv'
<1> USE DEF CredentialInv
<1> DEFINE r == [id |-> nextRefresh, grant |-> g, user |-> grants[g].user, client |-> k,
                 expires_at |-> now + RefreshTTL]
<1>1. refresh_tokens' \subseteq rows \cup {r}
  BY DEF IssuePair, IssueRefreshToken
<1>2. r.grant = g /\ r.user = grants[g].user /\ r.client = grants[g].client
  OBVIOUS
<1> HIDE DEF r
<1>3. GrantInv'
  BY <1>1, <1>2, GrantExchanged
<1>4. TokensAreBound'
  <2>1. CASE found
    BY <2>1, TokenOfGrant DEF IssuePair
  <2>2. CASE ~found
    BY <2>2, TokensShrink DEF IssuePair
  <2> QED
    BY <2>1, <2>2
<1> QED
  BY <1>3, <1>4 DEF ClientsAreSaved

LEMMA TokenCredentials ==
  ASSUME TypeInv, RedirectsHaveClient, CredentialInv, TokenStep
  PROVE  CredentialInv'
<1> USE DEF CredentialInv
<1>1. ASSUME NEW k \in Clients, NEW found \in BOOLEAN, NEW saved \in BOOLEAN, NEW kept \in BOOLEAN,
             NEW c \in oauth_codes, NEW proof \in BOOLEAN,
             RedeemCode(c, k, proof, found, saved, kept)
      PROVE  CredentialInv'
  <2>1. c.id \in Granted /\ c.user = grants[c.id].user /\ c.client = grants[c.id].client
    BY DEF GrantInv, CodesAreBound
  <2>2. UNCHANGED <<db_clients, oauth_clients, grants, nextCode>>
    BY <1>1 DEF RedeemCode
  <2>3. CASE CodeUsable(c) /\ MayRedeem(c, k, proof)
    <3>1. k = grants[c.id].client
      BY <1>1, <2>1, <2>3 DEF RedeemCode, MayRedeem, RedirectsHaveClient
    <3>2. oauth_codes' \subseteq {d \in oauth_codes : d.id # c.id}
      BY <1>1, <2>3 DEF RedeemCode, GrantInv, CodesAreUnique
    <3>3. refresh_tokens \subseteq {s \in refresh_tokens : s.grant # c.id}
      BY <2>1 DEF GrantInv, OneCredential, Rows
    <3>4. IssuePair(refresh_tokens, c.id, grants[c.id].user, k, found, saved, kept)
      BY <1>1, <2>1, <2>3 DEF RedeemCode
    <3> QED
      BY <2>1, <2>2, <3>1, <3>2, <3>3, <3>4, PairCredentials
  <2>4. CASE ~(CodeUsable(c) /\ MayRedeem(c, k, proof))
    <3>1. oauth_codes' \subseteq oauth_codes /\ UNCHANGED <<db_tokens, refresh_tokens>>
      BY <1>1, <2>4 DEF RedeemCode
    <3> QED
      BY <2>2, <3>1, GrantsShrink, TokensShrink DEF ClientsAreSaved
  <2> QED
    BY <2>3, <2>4
<1>2. ASSUME NEW k \in Clients, NEW found \in BOOLEAN, NEW saved \in BOOLEAN, NEW kept \in BOOLEAN,
             NEW r \in refresh_tokens, Refresh(r, k, found, saved, kept)
      PROVE  CredentialInv'
  <2>1. r.grant \in Granted /\ r.user = grants[r.grant].user /\ r.client = grants[r.grant].client
    BY DEF GrantInv, RowsAreBound
  <2>2. UNCHANGED <<db_clients, oauth_clients, grants, nextCode>> /\ k = grants[r.grant].client
    BY <1>2, <2>1 DEF Refresh
  <2>3. oauth_codes' \subseteq {c \in oauth_codes : c.id # r.grant}
    BY <1>2, <2>1 DEF Refresh, GrantInv, OneCredential, Rows
  <2>4. AfterRedeem(r) \subseteq {s \in refresh_tokens : s.grant # r.grant}
    BY <2>1 DEF GrantInv, OneCredential, Rows, AfterRedeem
  <2>5. IssuePair(AfterRedeem(r), r.grant, grants[r.grant].user, k, found, saved, kept)
    BY <1>2, <2>1 DEF Refresh
  <2> QED
    BY <2>1, <2>2, <2>3, <2>4, <2>5, PairCredentials
<1>3. ASSUME NEW k \in Clients, NEW saved \in BOOLEAN, ClientCredentials(k, saved)
      PROVE  CredentialInv'
  <2>1. k \in db_clients /\ Kind[k] = "service" /\ IssueToken(ServiceUser[k], k, saved)
    BY <1>3 DEF ClientCredentials, ClientsAreSaved
  <2>2. UNCHANGED <<oauth_codes, refresh_tokens, db_clients, oauth_clients, grants, nextCode>>
    BY <1>3 DEF ClientCredentials, countVars
  <2> QED
    BY <2>1, <2>2, GrantsShrink, TokenOfService DEF ClientsAreSaved
<1> QED
  BY <1>1, <1>2, <1>3 DEF TokenStep

\* Every other step only drops credentials, or adds a client and its row.
OnlyDrops ==
    /\ oauth_codes' \subseteq oauth_codes /\ refresh_tokens' \subseteq refresh_tokens
    /\ db_tokens' \subseteq db_tokens /\ db_clients \subseteq db_clients'
    /\ UNCHANGED <<grants, nextCode>>
    /\ ClientsAreSaved'
    /\ \/ oauth_pending' \subseteq oauth_pending /\ posts' = posts
       \/ oauth_pending' = {} /\ oauth_codes' = {} /\ posts' = [s \in Slots |-> NoPost]

OtherStep ==
    \/ ClientStep
    \/ Tick
    \/ \E saved \in BOOLEAN : CleanupPass(saved) \/ \E u \in Users : Revoke(u, saved)
    \/ \E tokens, clients \in BOOLEAN : Restart(tokens, clients)
    \/ UNCHANGED vars

LEMMA OtherStepsDrop ==
  ASSUME ClientsAreSaved, OtherStep
  PROVE  OnlyDrops
<1>1. CASE ClientStep
  BY <1>1 DEF OnlyDrops, ClientStep, Register, AddServiceClient, ClientsAreSaved, countVars
<1>2. CASE Tick \/ UNCHANGED vars
  BY <1>2 DEF OnlyDrops, Tick, vars, ClientsAreSaved, dbVars, countVars
<1>3. ASSUME NEW saved \in BOOLEAN, CleanupPass(saved)
      PROVE  OnlyDrops
  <2>1. /\ oauth_codes' \subseteq oauth_codes /\ oauth_pending' \subseteq oauth_pending
    BY <1>3 DEF CleanupPass, SweepExpiredState
  <2>2. /\ refresh_tokens' \subseteq refresh_tokens /\ db_tokens' \subseteq db_tokens
    BY <1>3 DEF CleanupPass, CleanupExpiredTokens
  <2> QED
    BY <1>3, <2>1, <2>2 DEF OnlyDrops, CleanupPass, ClientsAreSaved, countVars
<1>4. ASSUME NEW saved \in BOOLEAN, NEW u \in Users, Revoke(u, saved)
      PROVE  OnlyDrops
  BY <1>4 DEF OnlyDrops, Revoke, RevokeTokens, ClientsAreSaved, countVars
<1>5. ASSUME NEW tokens \in BOOLEAN, NEW clients \in BOOLEAN, Restart(tokens, clients)
      PROVE  OnlyDrops
  <2>1. ClientsAreSaved'
    BY <1>5 DEF Restart, LoadClients, ClientsAreSaved, dbVars
  <2> QED
    BY <1>5, <2>1 DEF OnlyDrops, Restart, dbVars, countVars
<1> QED
  BY <1>1, <1>2, <1>3, <1>4, <1>5 DEF OtherStep

-----------------------------------------------------------------------------
(* The inductive invariant.                                                *)

OAuthInv == TypeInv /\ RedirectsHaveClient /\ CredentialInv

LEMMA OAuthInvInit == Init => OAuthInv
<1> SUFFICES ASSUME Init PROVE OAuthInv
  OBVIOUS
<1>1. RedirectsHaveClient
  BY NoPostType DEF Init, StateInit, PostsInit, RedirectsHaveClient, Verifying
<1>2. Granted = {}
  BY DEF Init, StateInit, Granted
<1>3. CodesAreBound /\ RowsAreBound /\ OneCredential /\ CodesAreUnique
  BY <1>2 DEF Init, StateInit, CodesAreBound, RowsAreBound, OneCredential, CodesAreUnique
<1>4. TokensAreBound /\ ClientsAreSaved
  BY DEF Init, StateInit, TokensAreBound, ClientsAreSaved
<1> QED
  BY <1>1, <1>3, <1>4, TypeInvInit DEF OAuthInv, CredentialInv, GrantInv

LEMMA OAuthInvNext == OAuthInv /\ [Next]_vars => OAuthInv'
<1> SUFFICES ASSUME OAuthInv, [Next]_vars PROVE OAuthInv'
  OBVIOUS
<1> USE DEF OAuthInv
<1>1. TypeInv'
  BY TypeInvNext
<1>2. PostsTypeOK
  BY DEF TypeInv, TypeOK
<1>3. CASE LoginStep
  BY <1>1, <1>2, <1>3, LoginCredentials, RedirectsKeepClient
<1>4. CASE TokenStep
  <2>1. /\ oauth_pending' \subseteq oauth_pending /\ oauth_codes' \subseteq oauth_codes
        /\ posts' = posts
    BY <1>4 DEF TokenStep, RedeemCode, Refresh, ClientCredentials
  <2> QED
    BY <1>1, <1>2, <1>4, <2>1, TokenCredentials, RedirectsKeepClient
<1>5. CASE OtherStep
  <2>1. OnlyDrops
    BY <1>5, OtherStepsDrop DEF CredentialInv
  <2>2. RedirectsHaveClient'
    BY <1>2, <2>1, RedirectsKeepClient DEF OnlyDrops
  <2>3. CredentialInv'
    BY <2>1, GrantsShrink, TokensShrink DEF OnlyDrops, CredentialInv
  <2> QED
    BY <1>1, <2>2, <2>3
<1> QED
  BY <1>3, <1>4, <1>5 DEF Next, OtherStep

\* Whatever is redeemed, exchanged, failed, lost in a restart or raced, a grant is
\* its code or one row of refresh_tokens, never two credentials.
THEOREM OneCredentialHolds == Spec => []OneCredential
<1>1. OAuthInv => OneCredential
  BY DEF OAuthInv, CredentialInv, GrantInv
<1> QED
  BY <1>1, OAuthInvInit, OAuthInvNext, PTL DEF Spec

\* A credential never changes hands: it is of the user who logged in and of the
\* client that login was for, through every exchange.
THEOREM GrantsAreBoundHolds == Spec => []GrantsAreBound
<1>1. OAuthInv => GrantsAreBound
  BY DEF OAuthInv, CredentialInv, GrantInv, GrantsAreBound
<1> QED
  BY <1>1, OAuthInvInit, OAuthInvNext, PTL DEF Spec

-----------------------------------------------------------------------------
(***************************************************************************)
(* OAuthServer implements GrantLifecycle, for every number of users,       *)
(* clients, grants, exchanges, failed calls and restarts.                  *)
(*                                                                         *)
(* On top of OAuthInv, a step either begins one grant, exchanges the one   *)
(* credential of one grant for a newer one, or drops credentials; what it  *)
(* drops ends their grants for good.                                       *)
(***************************************************************************)

\* Refresh tokens are numbered in the order they are made.
RowsAreOld == \A r \in refresh_tokens : r.id < nextRefresh

RefineInv == OAuthInv /\ RowsAreOld

\* What the proof uses of OAuthInv.
LEMMA InvFacts ==
  ASSUME OAuthInv
  PROVE  /\ TypeInv /\ StateTypeOK /\ OneCredential /\ CodesAreBound /\ RowsAreBound
         /\ now \in Nat /\ nextRefresh \in Nat /\ nextCode \in Nat
         /\ \A r \in refresh_tokens : r.id \in Nat /\ r.expires_at \in Nat
         /\ \A c \in oauth_codes : c.issued_at \in Nat
         /\ CodeTTL \in Nat /\ RefreshTTL \in Nat
<1>1. StateTypeOK
  BY DEF OAuthInv, TypeInv, TypeOK
<1>2. now \in Nat /\ nextRefresh \in Nat /\ nextCode \in Nat
  BY <1>1, BoundsAssumption DEF StateTypeOK
<1>3. \A r \in refresh_tokens : r.id \in Nat /\ r.expires_at \in Nat
  BY <1>1, BoundsAssumption DEF StateTypeOK, RefreshToken, RefreshIds
<1>4. \A c \in oauth_codes : c.issued_at \in Nat
  BY <1>1 DEF StateTypeOK, Code
<1> QED
  BY <1>1, <1>2, <1>3, <1>4, LifetimeAssumption DEF OAuthInv, CredentialInv, GrantInv

-----------------------------------------------------------------------------
(* The stages of a grant.                                                  *)

LEMMA StageIs ==
  ASSUME NEW g
  PROVE  /\ g \notin Granted => Stage(g) = "none"
         /\ g \in Granted /\ Live(g) # {} => Stage(g) = "open"
         /\ g \in Granted /\ Live(g) = {} /\ OpenCode(g) => Stage(g) = "code"
         /\ g \in Granted /\ Live(g) = {} /\ ~OpenCode(g) => Stage(g) = "closed"
         /\ Live(g) = {} => Holder(g) = 0
  BY DEF Stage, Holder

\* There is one refresh token at most, and it is the holder.
LEMMA HolderIs ==
  ASSUME OAuthInv, NEW g, NEW r \in Live(g)
  PROVE  /\ Holder(g) = r.id /\ Live(g) = {r} /\ g \in Granted
         /\ ~OpenCode(g) /\ Stage(g) = "open"
<1>1. r \in Rows(g) /\ r \in refresh_tokens /\ r.grant = g
  BY DEF Live, Rows
<1>2. g \in Granted
  BY <1>1, InvFacts DEF RowsAreBound
<1>3. \A s \in Live(g) : s = r
  BY <1>1, <1>2, InvFacts DEF OneCredential, Live
<1>4. r.id <= r.id
  BY <1>1, InvFacts
<1>5. Holder(g) = r.id
  BY <1>3, <1>4 DEF Holder
<1>6. ~OpenCode(g)
  BY <1>1, <1>2, InvFacts DEF OneCredential, OpenCode
<1> QED
  BY <1>2, <1>3, <1>5, <1>6, StageIs

HolderFact ==
    OAuthInv => \A g, r : r \in refresh_tokens /\ r.grant = g /\ RefreshUsable(r)
                  => Stage(g) = "open" /\ Holder(g) = r.id

LEMMA HolderHolds == HolderFact
  BY HolderIs DEF HolderFact, Live, Rows

\* The same for the next state.
LEMMA HolderHoldsNext == HolderFact'
  BY HolderHolds, PTL

LEMMA NoneBlank ==
  ASSUME OAuthInv, NEW g, g \notin Granted
  PROVE  Stage(g) = "none" /\ Rows(g) = {} /\ ~(\E c \in oauth_codes : c.id = g) /\ Holder(g) = 0
<1>1. Rows(g) = {} /\ ~(\E c \in oauth_codes : c.id = g)
  BY InvFacts DEF RowsAreBound, CodesAreBound, Rows
<1> QED
  BY <1>1, StageIs DEF Live

\* A grant none of whose credentials changes.
LEMMA Untouched ==
  ASSUME NEW g, now' = now, (g \in Granted)' <=> g \in Granted,
         \A c : c.id = g => (c \in oauth_codes' <=> c \in oauth_codes),
         Rows(g)' = Rows(g)
  PROVE  Stage(g)' = Stage(g) /\ Holder(g)' = Holder(g)
<1>1. Live(g)' = Live(g)
  BY DEF Live, RefreshUsable
<1>2. OpenCode(g)' <=> OpenCode(g)
  BY DEF OpenCode, CodeUsable
<1> QED
  BY <1>1, <1>2 DEF Stage, Holder

-----------------------------------------------------------------------------
(* The steps.                                                              *)

LEMMA GrantedAreIds == ASSUME StateTypeOK PROVE Granted \subseteq CodeIds
  BY BoundsAssumption DEF StateTypeOK, Granted, CodeIds

\* Credentials are only dropped, or grow old: some grants end.
LEMMA DropsClose ==
  ASSUME OAuthInv, oauth_codes' \subseteq oauth_codes, refresh_tokens' \subseteq refresh_tokens,
         now' \in Nat, now' >= now, UNCHANGED <<grants, nextCode>>
  PROVE  \E S \in SUBSET CodeIds : Lifecycle!Close(S)
<1> DEFINE S == {g \in CodeIds : Stage(g) \in {"code", "open"} /\ Stage(g)' = "closed"}
<1>1. \A g : Live(g)' \subseteq Live(g)
  BY InvFacts DEF Live, Rows, RefreshUsable
<1>2. \A g : OpenCode(g)' => OpenCode(g)
  BY InvFacts DEF OpenCode, CodeUsable
<1>3. Granted' = Granted
  BY DEF Granted
<1>4. ASSUME NEW g \in CodeIds
      PROVE  /\ Stage(g)' = IF g \in S THEN "closed" ELSE Stage(g)
             /\ Holder(g)' = IF g \in S THEN 0 ELSE Holder(g)
  <2>1. CASE g \notin Granted
    <3>1. Stage(g) = "none" /\ Live(g) = {} /\ Holder(g) = 0
      BY <2>1, NoneBlank DEF Live
    <3>2. Stage(g)' = "none" /\ Holder(g)' = 0
      BY <1>1, <1>3, <2>1, <3>1 DEF Stage, Holder
    <3> QED
      BY <3>1, <3>2
  <2>2. CASE g \in Granted /\ Live(g) = {}
    <3>1. Holder(g) = 0 /\ Holder(g)' = 0 /\ Live(g)' = {}
      BY <1>1, <2>2 DEF Holder
    <3>2. CASE OpenCode(g)'
      <4>1. Stage(g) = "code" /\ Stage(g)' = "code"
        BY <1>2, <1>3, <2>2, <3>1, <3>2 DEF Stage
      <4> QED
        BY <3>1, <4>1
    <3>3. CASE ~OpenCode(g)'
      <4>1. Stage(g) \in {"code", "closed"} /\ Stage(g)' = "closed"
        BY <1>3, <2>2, <3>1, <3>3 DEF Stage
      <4> QED
        BY <3>1, <4>1
    <3> QED
      BY <3>2, <3>3
  <2>3. CASE g \in Granted /\ Live(g) # {}
    <3>1. PICK r : r \in Live(g)
      BY <2>3
    <3>2. Live(g) = {r} /\ ~OpenCode(g) /\ Stage(g) = "open"
      BY <3>1, HolderIs
    <3>3. CASE Live(g)' = {}
      <4>1. Stage(g)' = "closed" /\ Holder(g)' = 0
        BY <1>2, <1>3, <2>3, <3>2, <3>3 DEF Stage, Holder
      <4> QED
        BY <3>2, <4>1
    <3>4. CASE Live(g)' # {}
      <4>1. Live(g)' = Live(g)
        BY <1>1, <3>2, <3>4
      <4>2. Stage(g)' = "open" /\ Holder(g)' = Holder(g)
        BY <1>3, <2>3, <3>4, <4>1 DEF Stage, Holder
      <4> QED
        BY <3>2, <4>2
    <3> QED
      BY <3>3, <3>4
  <2> QED
    BY <2>1, <2>2, <2>3
<1>5. \A g \in S : Stage(g) \in {"code", "open"}
  OBVIOUS
<1>6. S \in SUBSET CodeIds
  OBVIOUS
<1> HIDE DEF S
<1>7. Lifecycle!Close(S)
  BY <1>4, <1>5, <1>6 DEF Lifecycle!Close
<1> QED
  BY <1>6, <1>7

\* A login is accepted: a grant begins as a code.
LEMMA AcceptGrants ==
  ASSUME OAuthInv, OAuthInv', NEW s \in Slots, AcceptLogin(s)
  PROVE  \E g \in CodeIds : Lifecycle!Grant(g)
<1> DEFINE p == posts[s].pending
           c == [id |-> nextCode, user |-> posts[s].user, client |-> p.client,
                 redirect |-> p.redirect, issued_at |-> now]
<1>1. /\ oauth_codes' = oauth_codes \cup {c} /\ refresh_tokens' = refresh_tokens
      /\ nextCode' = nextCode + 1 /\ now' = now
  BY DEF AcceptLogin, dbVars
<1>2. c.id = nextCode /\ c.issued_at = now
  OBVIOUS
<1> HIDE DEF c
<1>3. StateTypeOK /\ StateTypeOK'
  BY DEF OAuthInv, TypeInv, TypeOK
<1>4. nextCode \in CodeIds /\ nextCode \notin Granted /\ Granted' = Granted \cup {nextCode}
  BY <1>1, <1>3, BoundsAssumption DEF StateTypeOK, Granted, CodeIds
<1>5. /\ Stage(nextCode) = "none" /\ Rows(nextCode) = {} /\ Holder(nextCode) = 0
      /\ ~(\E d \in oauth_codes : d.id = nextCode)
  BY <1>4, NoneBlank
<1>6. \E d \in oauth_codes' : d.id = nextCode /\ now' - d.issued_at <= CodeTTL
  <2>1. c \in oauth_codes' /\ now' - c.issued_at <= CodeTTL
    BY <1>1, <1>2, InvFacts
  <2> QED
    BY <1>2, <2>1
<1>8. PICK n : n = nextCode
  OBVIOUS
<1>9. Rows(n)' = {}
  BY <1>1, <1>5, <1>8 DEF Rows
<1>10. Stage(n)' = "code" /\ Holder(n)' = 0
  <2>1. Live(n)' = {}
    BY <1>9 DEF Live
  <2>2. OpenCode(n)'
    BY <1>6, <1>8 DEF OpenCode, CodeUsable
  <2>3. (n \in Granted)'
    BY <1>4, <1>8
  <2> QED
    BY <2>1, <2>2, <2>3 DEF Stage, Holder
<1>11. ASSUME NEW g \in CodeIds, g # n
       PROVE  Stage(g)' = Stage(g) /\ Holder(g)' = Holder(g)
  <2>1. (g \in Granted)' <=> g \in Granted
    BY <1>4, <1>8, <1>11
  <2>2. \A d : d.id = g => (d \in oauth_codes' <=> d \in oauth_codes)
    BY <1>1, <1>2, <1>8, <1>11
  <2>3. Rows(g)' = Rows(g)
    BY <1>1 DEF Rows
  <2> QED
    BY <1>1, <2>1, <2>2, <2>3, Untouched
<1>12. Stage(n) = "none" /\ Holder(n) = 0 /\ n \in CodeIds
  BY <1>4, <1>5, <1>8
<1>13. Lifecycle!Grant(n)
  BY <1>10, <1>11, <1>12 DEF Lifecycle!Grant
<1> QED
  BY <1>12, <1>13

\* One grant gets a new refresh token; no other grant is touched.
LEMMA Exchanged ==
  ASSUME OAuthInv, OAuthInv', NEW g \in Granted, NEW r, r.grant = g,
         r.expires_at = now + RefreshTTL, r \in refresh_tokens',
         \A s : s.grant # g => (s \in refresh_tokens' <=> s \in refresh_tokens),
         \A c : c.id # g => (c \in oauth_codes' <=> c \in oauth_codes),
         now' = now, UNCHANGED <<grants, nextCode>>
  PROVE  /\ Stage(g)' = "open" /\ Holder(g)' = r.id
         /\ \A h \in CodeIds : h # g => Stage(h)' = Stage(h) /\ Holder(h)' = Holder(h)
<1>1. RefreshUsable(r)'
  <2>1. ~(r.expires_at < now')
    BY InvFacts
  <2>2. PICK q : q = r
    OBVIOUS
  <2>3. RefreshUsable(q)'
    BY <2>1, <2>2 DEF RefreshUsable
  <2> QED
    BY <2>2, <2>3
<1>2. Stage(g)' = "open" /\ Holder(g)' = r.id
  <2>1. \A h, q : q \in refresh_tokens' /\ q.grant = h /\ RefreshUsable(q)'
                    => Stage(h)' = "open" /\ Holder(h)' = q.id
    BY HolderHoldsNext DEF HolderFact
  <2> QED
    BY <1>1, <2>1
<1>3. ASSUME NEW h \in CodeIds, h # g
      PROVE  Stage(h)' = Stage(h) /\ Holder(h)' = Holder(h)
  <2>1. Rows(h)' = Rows(h)
    BY <1>3 DEF Rows
  <2>2. (h \in Granted)' <=> h \in Granted
    BY DEF Granted
  <2>3. \A c : c.id = h => (c \in oauth_codes' <=> c \in oauth_codes)
    BY <1>3
  <2> QED
    BY <2>1, <2>2, <2>3, Untouched
<1> QED
  BY <1>2, <1>3

Moves == \E g \in CodeIds, r \in RefreshIds : Lifecycle!Redeem(g, r) \/ Lifecycle!Rotate(g, r)

Closes == \E S \in SUBSET CodeIds : Lifecycle!Close(S)

\* What issue_token and issue_refresh_token leave of the table.
LEMMA PairRows ==
  ASSUME OAuthInv, NEW rows, NEW g, NEW u, NEW k,
         NEW found \in BOOLEAN, NEW saved \in BOOLEAN, NEW kept \in BOOLEAN,
         IssuePair(rows, g, u, k, found, saved, kept)
  PROVE  \/ refresh_tokens' = rows
         \/ \E r : /\ r.id = nextRefresh /\ r.grant = g /\ r.expires_at = now + RefreshTTL
                   /\ refresh_tokens' = rows \cup {r}
<1> DEFINE r == [id |-> nextRefresh, grant |-> g, user |-> u, client |-> k,
                 expires_at |-> now + RefreshTTL]
<1>1. refresh_tokens' = rows \/ refresh_tokens' = rows \cup {r}
  BY DEF IssuePair, IssueRefreshToken
<1>2. r.id = nextRefresh /\ r.grant = g /\ r.expires_at = now + RefreshTTL
  OBVIOUS
<1> HIDE DEF r
<1> QED
  BY <1>1, <1>2

LEMMA RedeemMoves ==
  ASSUME OAuthInv, OAuthInv', NEW k \in Clients, NEW c \in oauth_codes, NEW proof \in BOOLEAN,
         NEW found \in BOOLEAN, NEW saved \in BOOLEAN, NEW kept \in BOOLEAN,
         RedeemCode(c, k, proof, found, saved, kept)
  PROVE  Moves \/ Closes
<1> DEFINE g == c.id
<1>1. /\ now' = now /\ UNCHANGED <<grants, nextCode>> /\ oauth_codes' \subseteq oauth_codes
      /\ nextRefresh \in RefreshIds
  <2>1. now' = now /\ UNCHANGED <<grants, nextCode>> /\ oauth_codes' \subseteq oauth_codes
        /\ nextRefresh <= MaxRefresh
    BY DEF RedeemCode
  <2> QED
    BY <2>1, InvFacts, BoundsAssumption DEF RefreshIds, StateTypeOK
<1>2. CASE refresh_tokens' \subseteq refresh_tokens
  BY <1>1, <1>2, InvFacts, DropsClose DEF Closes
<1>3. CASE CodeUsable(c) /\ MayRedeem(c, k, proof) /\ ~(refresh_tokens' \subseteq refresh_tokens)
  <2>1. oauth_codes' = oauth_codes \ {c}
        /\ IssuePair(refresh_tokens, g, c.user, k, found, saved, kept)
    BY <1>3 DEF RedeemCode
  <2>2. PICK r : /\ r.id = nextRefresh /\ r.grant = g /\ r.expires_at = now + RefreshTTL
                 /\ refresh_tokens' = refresh_tokens \cup {r}
    BY <1>3, <2>1, PairRows
  <2>3. g \in Granted /\ g \in CodeIds
    BY InvFacts, GrantedAreIds DEF CodesAreBound
  <2>4. OpenCode(g) /\ Live(g) = {}
    <3>1. OpenCode(g)
      BY <1>3 DEF OpenCode
    <3>2. Rows(g) = {}
      BY <2>3, InvFacts DEF OneCredential
    <3> QED
      BY <3>1, <3>2 DEF Live
  <2>5. Stage(g) = "code"
    BY <2>3, <2>4, StageIs
  <2>6. \A s : s.grant # g => (s \in refresh_tokens' <=> s \in refresh_tokens)
    BY <2>2
  <2>7. \A d : d.id # g => (d \in oauth_codes' <=> d \in oauth_codes)
    BY <2>1
  <2>8. r \in refresh_tokens'
    BY <2>2
  <2>9. PICK h : h = g
    OBVIOUS
  <2> HIDE DEF g
  <2>10. /\ Stage(h)' = "open" /\ Holder(h)' = r.id
         /\ \A i \in CodeIds : i # h => Stage(i)' = Stage(i) /\ Holder(i)' = Holder(i)
    BY <1>1, <2>2, <2>3, <2>6, <2>7, <2>8, <2>9, Exchanged
  <2>11. Stage(h) = "code" /\ h \in CodeIds
    BY <2>3, <2>5, <2>9
  <2>12. Lifecycle!Redeem(h, r.id)
    BY <2>10, <2>11 DEF Lifecycle!Redeem
  <2> QED
    BY <1>1, <2>2, <2>11, <2>12 DEF Moves
<1>4. CASE ~(CodeUsable(c) /\ MayRedeem(c, k, proof))
  <2>1. refresh_tokens' \subseteq refresh_tokens
    BY <1>4 DEF RedeemCode
  <2> QED
    BY <1>2, <2>1
<1> QED
  BY <1>2, <1>3, <1>4

LEMMA RefreshMoves ==
  ASSUME OAuthInv, OAuthInv', RowsAreOld, NEW k \in Clients, NEW r \in refresh_tokens,
         NEW found \in BOOLEAN, NEW saved \in BOOLEAN, NEW kept \in BOOLEAN,
         Refresh(r, k, found, saved, kept)
  PROVE  Moves \/ Closes
<1>1. /\ now' = now /\ UNCHANGED <<grants, nextCode, oauth_codes>>
      /\ nextRefresh \in RefreshIds /\ RefreshUsable(r)
      /\ IssuePair(refresh_tokens \ {r}, r.grant, r.user, k, found, saved, kept)
  <2>1. /\ now' = now /\ UNCHANGED <<grants, nextCode, oauth_codes>>
        /\ nextRefresh <= MaxRefresh /\ RefreshUsable(r)
        /\ IssuePair(refresh_tokens \ {r}, r.grant, r.user, k, found, saved, kept)
    BY DEF Refresh, AfterRedeem
  <2> QED
    BY <2>1, InvFacts, BoundsAssumption DEF RefreshIds, StateTypeOK
<1>2. CASE refresh_tokens' = refresh_tokens \ {r}
  BY <1>1, <1>2, InvFacts, DropsClose DEF Closes
<1>3. CASE refresh_tokens' # refresh_tokens \ {r}
  <2>1. PICK q : /\ q.id = nextRefresh /\ q.grant = r.grant /\ q.expires_at = now + RefreshTTL
                 /\ refresh_tokens' = (refresh_tokens \ {r}) \cup {q}
    BY <1>1, <1>3, PairRows
  <2>2. PICK h : h = r.grant
    OBVIOUS
  <2>3. r \in Live(h)
    BY <1>1, <2>2 DEF Live, Rows
  <2>4. Stage(h) = "open" /\ Holder(h) = r.id /\ h \in Granted /\ h \in CodeIds
    BY <2>3, HolderIs, InvFacts, GrantedAreIds
  <2>5. q.id > r.id
    BY <2>1, InvFacts DEF RowsAreOld
  <2>6. \A s : s.grant # h => (s \in refresh_tokens' <=> s \in refresh_tokens)
    BY <2>1, <2>2
  <2>7. q \in refresh_tokens'
    BY <2>1
  <2>8. /\ Stage(h)' = "open" /\ Holder(h)' = q.id
        /\ \A i \in CodeIds : i # h => Stage(i)' = Stage(i) /\ Holder(i)' = Holder(i)
    BY <1>1, <2>1, <2>2, <2>4, <2>6, <2>7, Exchanged
  <2>9. Lifecycle!Rotate(h, q.id)
    BY <2>4, <2>5, <2>8 DEF Lifecycle!Rotate
  <2> QED
    BY <1>1, <2>1, <2>4, <2>9 DEF Moves
<1> QED
  BY <1>2, <1>3

LEMMA StepMaps ==
  ASSUME OAuthInv, OAuthInv', RowsAreOld, [Next]_vars
  PROVE  (\E g \in CodeIds : Lifecycle!Grant(g)) \/ Moves \/ Closes
<1>1. now \in Nat
  BY InvFacts
<1>2. ASSUME oauth_codes' \subseteq oauth_codes, refresh_tokens' \subseteq refresh_tokens,
             now' = now, UNCHANGED <<grants, nextCode>>
      PROVE  Closes
  BY <1>1, <1>2, DropsClose DEF Closes
<1>3. CASE LoginStep
  <2>1. ASSUME NEW k \in Clients \cup {Nil}, NEW redirect \in BOOLEAN, Authorize(k, redirect)
        PROVE  Closes
    BY <1>2, <2>1 DEF Authorize, dbVars
  <2>2. ASSUME NEW p \in oauth_pending, DropExpiredLogin(p)
        PROVE  Closes
    BY <1>2, <2>2 DEF DropExpiredLogin, dbVars, countVars
  <2>3. ASSUME NEW p \in oauth_pending, NEW s \in Slots, NEW u \in Users, BeginLogin(s, p, u)
        PROVE  Closes
    BY <1>2, <2>3 DEF BeginLogin, dbVars, countVars
  <2>4. ASSUME NEW s \in Slots, RefuseLogin(s) \/ BreakLogin(s)
        PROVE  Closes
    BY <1>2, <2>4 DEF RefuseLogin, BreakLogin, dbVars, countVars
  <2> QED
    BY <1>3, <2>1, <2>2, <2>3, <2>4, AcceptGrants DEF LoginStep
<1>4. CASE TokenStep
  <2>1. ASSUME NEW k \in Clients, NEW saved \in BOOLEAN, ClientCredentials(k, saved)
        PROVE  Closes
    BY <1>2, <2>1 DEF ClientCredentials, countVars
  <2> QED
    BY <1>4, <2>1, RedeemMoves, RefreshMoves DEF TokenStep
<1>5. CASE OtherStep
  <2>1. OnlyDrops
    BY <1>5, OtherStepsDrop DEF OAuthInv, CredentialInv
  <2>2. now' \in Nat /\ now' >= now
    BY <1>1, <1>5 DEF OtherStep, ClientStep, Register, AddServiceClient, Tick, CleanupPass,
                      Revoke, Restart, vars
  <2> QED
    BY <2>1, <2>2, DropsClose DEF OnlyDrops, Closes
<1> QED
  BY <1>3, <1>4, <1>5 DEF Next, OtherStep

-----------------------------------------------------------------------------
LEMMA PairIsNumbered ==
  ASSUME OAuthInv, RowsAreOld, NEW rows, rows \subseteq refresh_tokens, NEW g, NEW u, NEW k,
         NEW found \in BOOLEAN, NEW saved \in BOOLEAN, NEW kept \in BOOLEAN,
         IssuePair(rows, g, u, k, found, saved, kept)
  PROVE  RowsAreOld'
<1>1. CASE found
  <2>1. nextRefresh' = nextRefresh + 1
    BY <1>1 DEF IssuePair, IssueRefreshToken
  <2>2. \A s \in refresh_tokens : s.id \in Nat /\ s.id < nextRefresh'
    BY <2>1, InvFacts DEF RowsAreOld
  <2>3. CASE refresh_tokens' = rows
    BY <2>2, <2>3 DEF RowsAreOld
  <2>4. ASSUME NEW r, r.id = nextRefresh, refresh_tokens' = rows \cup {r}
        PROVE  RowsAreOld'
    BY <2>1, <2>2, <2>4, InvFacts DEF RowsAreOld
  <2> QED
    BY <2>3, <2>4, PairRows
<1>2. CASE ~found
  BY <1>2 DEF IssuePair, RowsAreOld
<1> QED
  BY <1>1, <1>2

LEMMA RowsAreOldNext ==
  ASSUME OAuthInv, RowsAreOld, [Next]_vars
  PROVE  RowsAreOld'
<1>1. ASSUME refresh_tokens' \subseteq refresh_tokens, nextRefresh' = nextRefresh
      PROVE  RowsAreOld'
  BY <1>1 DEF RowsAreOld
<1>2. CASE LoginStep
  BY <1>1, <1>2 DEF LoginStep, Authorize, DropExpiredLogin, BeginLogin, AcceptLogin, RefuseLogin,
                    BreakLogin, dbVars, countVars
<1>3. ASSUME NEW k \in Clients, NEW c \in oauth_codes, NEW proof \in BOOLEAN,
             NEW found \in BOOLEAN, NEW saved \in BOOLEAN, NEW kept \in BOOLEAN,
             RedeemCode(c, k, proof, found, saved, kept)
      PROVE  RowsAreOld'
  <2>1. \/ IssuePair(refresh_tokens, c.id, c.user, k, found, saved, kept)
        \/ UNCHANGED <<refresh_tokens, nextRefresh>>
    BY <1>3 DEF RedeemCode
  <2> QED
    BY <1>1, <2>1, PairIsNumbered
<1>4. ASSUME NEW k \in Clients, NEW r \in refresh_tokens,
             NEW found \in BOOLEAN, NEW saved \in BOOLEAN, NEW kept \in BOOLEAN,
             Refresh(r, k, found, saved, kept)
      PROVE  RowsAreOld'
  <2>1. IssuePair(refresh_tokens \ {r}, r.grant, r.user, k, found, saved, kept)
    BY <1>4 DEF Refresh, AfterRedeem
  <2> QED
    BY <2>1, PairIsNumbered
<1>5. ASSUME NEW k \in Clients, NEW saved \in BOOLEAN, ClientCredentials(k, saved)
      PROVE  RowsAreOld'
  BY <1>1, <1>5 DEF ClientCredentials, countVars
<1>6. CASE ClientStep
  BY <1>1, <1>6 DEF ClientStep, Register, AddServiceClient, countVars
<1>7. CASE Tick \/ UNCHANGED vars
  BY <1>1, <1>7 DEF Tick, dbVars, countVars, vars
<1>8. ASSUME NEW saved \in BOOLEAN, CleanupPass(saved)
      PROVE  RowsAreOld'
  BY <1>1, <1>8 DEF CleanupPass, CleanupExpiredTokens, countVars
<1>9. ASSUME NEW saved \in BOOLEAN, NEW u \in Users, Revoke(u, saved)
      PROVE  RowsAreOld'
  BY <1>1, <1>9 DEF Revoke, countVars
<1>10. ASSUME NEW tokens \in BOOLEAN, NEW clients \in BOOLEAN, Restart(tokens, clients)
       PROVE  RowsAreOld'
  BY <1>1, <1>10 DEF Restart, dbVars, countVars
<1> QED
  BY <1>2, <1>3, <1>4, <1>5, <1>6, <1>7, <1>8, <1>9, <1>10 DEF Next, TokenStep

\* The authorization server implements GrantLifecycle: each of its steps grants,
\* redeems, rotates or ends grants of the abstract specification, and a grant that
\* has ended never comes back.
THEOREM ImplementsGrantsHolds == Spec => ImplementsGrants
<1>1. Init => RefineInv
  <2> SUFFICES ASSUME Init PROVE RefineInv
    OBVIOUS
  <2>1. RowsAreOld
    BY DEF Init, StateInit, RowsAreOld
  <2> QED
    BY <2>1, OAuthInvInit DEF RefineInv
<1>2. RefineInv /\ [Next]_vars => RefineInv'
  BY OAuthInvNext, RowsAreOldNext DEF RefineInv
<1>3. Init => Lifecycle!Init
  <2> SUFFICES ASSUME Init PROVE Lifecycle!Init
    OBVIOUS
  <2>1. Granted = {} /\ OAuthInv
    BY OAuthInvInit DEF Init, StateInit, Granted
  <2>2. \A g \in CodeIds : Stage(g) = "none" /\ Holder(g) = 0
    BY <2>1, NoneBlank
  <2> QED
    BY <2>2 DEF Lifecycle!Init
<1>4. RefineInv /\ RefineInv' /\ [Next]_vars => [Lifecycle!Next]_(Lifecycle!vars)
  BY StepMaps DEF RefineInv, Moves, Closes, Lifecycle!Next
<1> QED
  BY <1>1, <1>2, <1>3, <1>4, PTL DEF Spec, ImplementsGrants, Lifecycle!Spec
=============================================================================

----------------------------- MODULE OAuthProofs -----------------------------
(***************************************************************************)
(* Proofs about OAuthServer, for any number of users, clients, logins,     *)
(* codes, tokens, concurrent login posts, failed calls and restarts.       *)
(***************************************************************************)
EXTENDS OAuthServer, FiniteSetTheorems, TLAPS

(***************************************************************************)
(* Types.  AcceptLogin makes a code without asking whether there is room   *)
(* for it: every waiting post has had one set aside (Room), and holds a    *)
(* user and a login (PostsReady).  The recorded failures are finitely many *)
(* (FailedFinite), so that they can be counted.                            *)
(***************************************************************************)
Room == nextCode + Cardinality(Verifying) <= MaxCodes + 1

PostsReady ==
    \A s \in Slots : posts[s].busy => posts[s].user \in Users /\ posts[s].pending \in Pending

FailedFinite == IsFiniteSet(failed)

TypeInv == TypeOK /\ Room /\ PostsReady /\ FailedFinite

LEMMA VerifyingFinite ==
  /\ IsFiniteSet(Verifying)
  /\ Cardinality(Verifying) \in Nat
  /\ Cardinality(Verifying) <= Cardinality(Slots)
  /\ Cardinality(Slots) \in Nat
<1>1. Verifying \subseteq Slots
  BY DEF Verifying
<1> QED
  BY <1>1, SlotsAssumption, FS_Subset, FS_CardinalityType

\* One post more, or one less, changes the number of waiting posts by one.
LEMMA PostStarts ==
  ASSUME NEW s \in Slots, PostsTypeOK, ~posts[s].busy,
         NEW x, x.busy, posts' = [posts EXCEPT ![s] = x]
  PROVE  Cardinality(Verifying') = Cardinality(Verifying) + 1
<1>1. Verifying' = Verifying \cup {s} /\ s \notin Verifying
  BY DEF Verifying, PostsTypeOK
<1> QED
  BY <1>1, VerifyingFinite, FS_AddElement

LEMMA PostEnds ==
  ASSUME NEW s \in Slots, PostsTypeOK, posts[s].busy, EndPost(s)
  PROVE  Cardinality(Verifying') = Cardinality(Verifying) - 1
<1>1. Verifying' = Verifying \ {s} /\ s \in Verifying
  BY DEF Verifying, PostsTypeOK, EndPost, NoPost
<1> QED
  BY <1>1, VerifyingFinite, FS_RemoveElement

LEMMA NoPostType == NoPost \in Post /\ ~NoPost.busy
  BY DEF NoPost, Post

LEMMA EndPostType ==
  ASSUME NEW s \in Slots, PostsTypeOK, PostsReady, EndPost(s)
  PROVE  PostsTypeOK' /\ PostsReady'
  BY NoPostType DEF PostsTypeOK, PostsReady, EndPost

LEMMA ChargeType ==
  ASSUME failures \in 0 .. MaxFailures, NEW n \in Nat, Charge(n)
  PROVE  failures' \in 0 .. MaxFailures
  BY BoundsAssumption DEF Charge

LEMMA CostType ==
  ASSUME NEW ok PROVE Cost(ok) \in Nat
  BY DEF Cost

LEMMA RecordFailedType ==
  ASSUME StateTypeOK, FailedFinite, RecordFailed
  PROVE  failed' \in SUBSET (Nat \X Nat) /\ FailedFinite'
<1> DEFINE same == {a \in failed : a[1] = now}
           n == Cardinality(same) + 1
<1>1. n \in Nat
  <2>1. same \subseteq failed
    OBVIOUS
  <2> QED
    BY <2>1, FS_Subset, FS_CardinalityType DEF FailedFinite
<1>2. failed' = failed \cup {<<now, n>>}
  BY DEF RecordFailed
<1> HIDE DEF n
<1>3. now \in Nat
  BY BoundsAssumption DEF StateTypeOK
<1>4. failed' \in SUBSET (Nat \X Nat)
  BY <1>1, <1>2, <1>3 DEF StateTypeOK
<1>5. IsFiniteSet(failed')
  BY <1>2, FS_AddElement DEF FailedFinite
<1> QED
  BY <1>4, <1>5 DEF FailedFinite

LEMMA IssueTokenType ==
  ASSUME StateTypeOK, NEW u \in Users, NEW k \in Clients \cup {Nil}, NEW saved \in BOOLEAN,
         IssueToken(u, k, saved)
  PROVE  oauth_tokens' \in SUBSET AccessToken /\ db_tokens' \in SUBSET AccessToken
<1> DEFINE t == [user |-> u, svc |-> k, exp |-> now + AccessTTL]
<1>1. t \in AccessToken
  BY LifetimeAssumption, BoundsAssumption DEF AccessToken, StateTypeOK
<1>2. oauth_tokens' = oauth_tokens \cup {t} /\ db_tokens' \subseteq db_tokens \cup {t}
  BY DEF IssueToken
<1> HIDE DEF t
<1> QED
  BY <1>1, <1>2 DEF StateTypeOK

LEMMA IssueRefreshTokenType ==
  ASSUME StateTypeOK, NEW rows \in SUBSET RefreshToken, NEW g \in CodeIds, NEW u \in Users,
         NEW k \in Clients \cup {Nil}, NEW kept \in BOOLEAN,
         nextRefresh <= MaxRefresh, IssueRefreshToken(rows, g, u, k, kept)
  PROVE  refresh_tokens' \in SUBSET RefreshToken /\ nextRefresh' \in 1 .. MaxRefresh + 1
<1> DEFINE r == [id |-> nextRefresh, grant |-> g, user |-> u, client |-> k,
                 expires_at |-> now + RefreshTTL]
<1>1. nextRefresh \in RefreshIds /\ now + RefreshTTL \in Nat
  BY LifetimeAssumption, BoundsAssumption DEF StateTypeOK, RefreshIds
<1>2. r \in RefreshToken
  BY <1>1 DEF RefreshToken
<1>3. refresh_tokens' \subseteq rows \cup {r} /\ nextRefresh' = nextRefresh + 1
  BY DEF IssueRefreshToken
<1> HIDE DEF r
<1> QED
  BY <1>2, <1>3, BoundsAssumption DEF StateTypeOK

LEMMA IssuePairType ==
  ASSUME StateTypeOK, NEW rows \in SUBSET RefreshToken, NEW g \in CodeIds, NEW u \in Users,
         NEW k \in Clients, NEW found \in BOOLEAN, NEW saved \in BOOLEAN, NEW kept \in BOOLEAN,
         nextRefresh <= MaxRefresh, IssuePair(rows, g, u, k, found, saved, kept)
  PROVE  /\ oauth_tokens' \in SUBSET AccessToken /\ db_tokens' \in SUBSET AccessToken
         /\ refresh_tokens' \in SUBSET RefreshToken /\ nextRefresh' \in 1 .. MaxRefresh + 1
         /\ failures' \in 0 .. MaxFailures
<1>1. failures' \in 0 .. MaxFailures
  <2>1. failures \in 0 .. MaxFailures
    BY DEF StateTypeOK
  <2> QED
    BY <2>1, CostType, ChargeType DEF IssuePair
<1>2. CASE found
  BY <1>1, <1>2, IssueTokenType, IssueRefreshTokenType DEF IssuePair
<1>3. CASE ~found
  BY <1>1, <1>3 DEF IssuePair, StateTypeOK
<1> QED
  BY <1>2, <1>3

-----------------------------------------------------------------------------
(* One lemma per kind of step.  A step that leaves the posts and nextCode  *)
(* alone keeps Room and PostsReady, and FailedFinite if it records no failure.  *)

LEMMA SamePosts ==
  ASSUME TypeInv, posts' = posts, nextCode' = nextCode, failed' \subseteq failed
  PROVE  PostsTypeOK' /\ Room' /\ PostsReady' /\ FailedFinite'
  BY FS_Subset DEF TypeInv, TypeOK, PostsTypeOK, Room, PostsReady, Verifying, FailedFinite

LEMMA LoginTypes ==
  ASSUME TypeInv, LoginStep, crashes' = crashes
  PROVE  TypeInv'
<1> USE DEF TypeInv, TypeOK
<1>1. ASSUME NEW k \in Clients \cup {Nil}, NEW redirect \in BOOLEAN, Authorize(k, redirect)
      PROVE  TypeInv'
  <2> DEFINE p == [id |-> nextLogin, client |-> k, redirect |-> redirect, issued_at |-> now]
  <2>1. p \in Pending
    BY <1>1, BoundsAssumption DEF Authorize, Pending, StateTypeOK, LoginIds
  <2>2. oauth_pending' = oauth_pending \cup {p}
    BY <1>1 DEF Authorize
  <2> HIDE DEF p
  <2>3. StateTypeOK'
    BY <1>1, <2>1, <2>2, BoundsAssumption DEF Authorize, StateTypeOK, dbVars
  <2> QED
    BY <1>1, <2>3, SamePosts DEF Authorize
<1>2. ASSUME NEW p \in oauth_pending, DropExpiredLogin(p)
      PROVE  TypeInv'
  <2>1. StateTypeOK'
    BY <1>2 DEF DropExpiredLogin, StateTypeOK, dbVars, countVars
  <2> QED
    BY <1>2, <2>1, SamePosts DEF DropExpiredLogin, countVars
<1>3. ASSUME NEW p \in oauth_pending, NEW s \in Slots, NEW u \in Users, BeginLogin(s, p, u)
      PROVE  TypeInv'
  <2>1. StateTypeOK'
    BY <1>3 DEF BeginLogin, StateTypeOK, dbVars, countVars, RecentFailed
  <2>2. CASE posts' = posts
    <3>1. nextCode' = nextCode /\ failed' \subseteq failed /\ crashes' = crashes
      BY <1>3 DEF BeginLogin, countVars, RecentFailed
    <3> QED
      BY <2>1, <2>2, <3>1, SamePosts
  <2>3. CASE posts' # posts
    <3> DEFINE x == [busy |-> TRUE, user |-> u, pending |-> p]
    <3>1. posts' = [posts EXCEPT ![s] = x] /\ ~posts[s].busy /\ x.busy
      BY <1>3, <2>3 DEF BeginLogin
    <3>2. x \in Post /\ x.user \in Users /\ x.pending \in Pending
      BY DEF Post, StateTypeOK
    <3> HIDE DEF x
    <3>3. Cardinality(Verifying') = Cardinality(Verifying) + 1
      BY <3>1, PostStarts
    <3>4. nextCode' = nextCode /\ nextCode + Cardinality(Verifying) <= MaxCodes
      BY <1>3 DEF BeginLogin, countVars
    <3>5. Room'
      BY <3>3, <3>4, VerifyingFinite, BoundsAssumption DEF Room, StateTypeOK
    <3>6. PostsTypeOK' /\ PostsReady'
      BY <3>1, <3>2 DEF PostsTypeOK, PostsReady
    <3>7. FailedFinite'
      <4>1. failed' \subseteq failed
        BY <1>3 DEF BeginLogin, RecentFailed
      <4> QED
        BY <4>1, FS_Subset DEF FailedFinite
    <3> QED
      BY <2>1, <3>5, <3>6, <3>7, <1>3
  <2> QED
    BY <2>2, <2>3
<1>4. ASSUME NEW s \in Slots, AcceptLogin(s)
      PROVE  TypeInv'
  <2> DEFINE p == posts[s].pending
             c == [id |-> nextCode, user |-> posts[s].user, client |-> p.client,
                   redirect |-> p.redirect, issued_at |-> now]
             g == [login |-> p.id, user |-> posts[s].user, client |-> p.client]
  <2>1. p \in Pending /\ posts[s].user \in Users
    BY <1>4 DEF AcceptLogin, PostsReady
  <2>2. s \in Verifying /\ EndPost(s) /\ posts[s].busy
    BY <1>4 DEF AcceptLogin, Verifying
  <2>3. Cardinality(Verifying') = Cardinality(Verifying) - 1 /\ Cardinality(Verifying') \in Nat
    <3>1. Cardinality(Verifying') = Cardinality(Verifying) - 1
      BY <2>2, PostEnds
    <3>2. Verifying' \subseteq Slots
      BY DEF Verifying
    <3> QED
      BY <3>1, <3>2, SlotsAssumption, FS_Subset, FS_CardinalityType
  <2>4. nextCode \in CodeIds /\ nextCode' = nextCode + 1
    <3>1. Cardinality(Verifying) >= 1
      BY <2>3, VerifyingFinite
    <3>2. nextCode \in Nat \ {0} /\ nextCode + Cardinality(Verifying) <= MaxCodes + 1
      BY BoundsAssumption DEF Room, StateTypeOK
    <3>3. nextCode' = nextCode + 1
      BY <1>4 DEF AcceptLogin
    <3> QED
      BY <3>1, <3>2, <3>3, VerifyingFinite, BoundsAssumption DEF CodeIds
  <2>5. c \in Code /\ g \in Grant
    BY <2>1, <2>4, BoundsAssumption DEF Code, Grant, Pending, StateTypeOK
  <2>6. oauth_codes' = oauth_codes \cup {c} /\ grants' = Append(grants, g)
    BY <1>4 DEF AcceptLogin
  <2> HIDE DEF c, g
  <2>7. grants' \in Seq(Grant) /\ nextCode' = Len(grants') + 1
    BY <2>4, <2>5, <2>6 DEF StateTypeOK
  <2>8. StateTypeOK'
    <3>1. nextCode' \in 1 .. MaxCodes + 1
      BY <2>4, BoundsAssumption DEF CodeIds
    <3>2. oauth_pending' \in SUBSET Pending
      BY <1>4 DEF AcceptLogin, StateTypeOK
    <3> QED
      BY <1>4, <2>5, <2>6, <2>7, <3>1, <3>2 DEF AcceptLogin, StateTypeOK, dbVars
  <2>9. Room'
    BY <2>3, <2>4, VerifyingFinite, BoundsAssumption DEF Room, CodeIds
  <2>10. FailedFinite'
    BY <1>4 DEF AcceptLogin, FailedFinite
  <2> QED
    BY <2>2, <2>8, <2>9, <2>10, EndPostType
<1>5. ASSUME NEW s \in Slots, RefuseLogin(s) \/ BreakLogin(s)
      PROVE  TypeInv'
  <2>1. posts[s].busy /\ EndPost(s) /\ nextCode' = nextCode
    BY <1>5 DEF RefuseLogin, BreakLogin, countVars
  <2>2. Room'
    BY <2>1, PostEnds, VerifyingFinite, BoundsAssumption DEF Room, StateTypeOK
  <2>3. failed' \in SUBSET (Nat \X Nat) /\ FailedFinite'
    <3>1. CASE RefuseLogin(s)
      BY <3>1, RecordFailedType DEF RefuseLogin
    <3>2. CASE BreakLogin(s)
      BY <3>2 DEF BreakLogin, StateTypeOK, FailedFinite
    <3> QED
      BY <1>5, <3>1, <3>2
  <2>4. failures' \in 0 .. MaxFailures
    BY <1>5, ChargeType DEF RefuseLogin, BreakLogin, StateTypeOK
  <2>5. StateTypeOK'
    BY <1>5, <2>3, <2>4 DEF RefuseLogin, BreakLogin, StateTypeOK, dbVars, countVars
  <2> QED
    BY <2>1, <2>2, <2>3, <2>5, EndPostType
<1> QED
  BY <1>1, <1>2, <1>3, <1>4, <1>5 DEF LoginStep

LEMMA TokenTypes ==
  ASSUME TypeInv, TokenStep, crashes' = crashes
  PROVE  TypeInv'
<1> USE DEF TypeInv, TypeOK
<1>1. ASSUME NEW k \in Clients, NEW found \in BOOLEAN, NEW saved \in BOOLEAN, NEW kept \in BOOLEAN,
             NEW c \in oauth_codes, NEW proof \in BOOLEAN,
             RedeemCode(c, k, proof, found, saved, kept)
      PROVE  TypeInv'
  <2>1. c.id \in CodeIds /\ c.user \in Users /\ refresh_tokens \in SUBSET RefreshToken
    BY DEF StateTypeOK, Code
  <2>2. CASE CodeUsable(c) /\ MayRedeem(c, k, proof)
    <3>1. IssuePair(refresh_tokens, c.id, c.user, k, found, saved, kept) /\ nextRefresh <= MaxRefresh
      BY <1>1, <2>2 DEF RedeemCode
    <3>2. oauth_codes' \in SUBSET Code
      BY <1>1, <2>2 DEF RedeemCode, StateTypeOK
    <3>3. /\ oauth_tokens' \in SUBSET AccessToken /\ db_tokens' \in SUBSET AccessToken
          /\ refresh_tokens' \in SUBSET RefreshToken /\ nextRefresh' \in 1 .. MaxRefresh + 1
          /\ failures' \in 0 .. MaxFailures
      BY <2>1, <3>1, IssuePairType
    <3>4. StateTypeOK'
      BY <1>1, <3>2, <3>3 DEF RedeemCode, StateTypeOK
    <3> QED
      BY <1>1, <3>4, SamePosts DEF RedeemCode
  <2>3. CASE ~(CodeUsable(c) /\ MayRedeem(c, k, proof))
    <3>1. StateTypeOK'
      BY <1>1, <2>3 DEF RedeemCode, StateTypeOK
    <3> QED
      BY <1>1, <3>1, SamePosts DEF RedeemCode
  <2> QED
    BY <2>2, <2>3
<1>2. ASSUME NEW k \in Clients, NEW found \in BOOLEAN, NEW saved \in BOOLEAN, NEW kept \in BOOLEAN,
             NEW r \in refresh_tokens, Refresh(r, k, found, saved, kept)
      PROVE  TypeInv'
  <2>1. r.grant \in CodeIds /\ r.user \in Users /\ AfterRedeem(r) \in SUBSET RefreshToken
    BY DEF StateTypeOK, RefreshToken, AfterRedeem
  <2>2. IssuePair(AfterRedeem(r), r.grant, r.user, k, found, saved, kept) /\ nextRefresh <= MaxRefresh
    BY <1>2 DEF Refresh
  <2>3. /\ oauth_tokens' \in SUBSET AccessToken /\ db_tokens' \in SUBSET AccessToken
        /\ refresh_tokens' \in SUBSET RefreshToken /\ nextRefresh' \in 1 .. MaxRefresh + 1
        /\ failures' \in 0 .. MaxFailures
    BY <2>1, <2>2, IssuePairType
  <2>4. StateTypeOK'
    BY <1>2, <2>3 DEF Refresh, StateTypeOK
  <2> QED
    BY <1>2, <2>4, SamePosts DEF Refresh
<1>3. ASSUME NEW k \in Clients, NEW saved \in BOOLEAN, ClientCredentials(k, saved)
      PROVE  TypeInv'
  <2>1. ServiceUser[k] \in Users
    BY <1>3, ServiceAssumption DEF ClientCredentials
  <2>2. oauth_tokens' \in SUBSET AccessToken /\ db_tokens' \in SUBSET AccessToken
    BY <1>3, <2>1, IssueTokenType DEF ClientCredentials
  <2>3. failures' \in 0 .. MaxFailures
    BY <1>3, CostType, ChargeType DEF ClientCredentials, StateTypeOK
  <2>4. StateTypeOK'
    BY <1>3, <2>2, <2>3 DEF ClientCredentials, StateTypeOK, countVars
  <2> QED
    BY <1>3, <2>4, SamePosts DEF ClientCredentials, countVars
<1> QED
  BY <1>1, <1>2, <1>3 DEF TokenStep

LEMMA ClientTypes ==
  ASSUME TypeInv, ClientStep, crashes' = crashes
  PROVE  TypeInv'
<1> USE DEF TypeInv, TypeOK
<1>1. StateTypeOK' /\ posts' = posts /\ nextCode' = nextCode /\ failed' = failed
  BY DEF ClientStep, Register, AddServiceClient, StateTypeOK, countVars
<1> QED
  BY <1>1, SamePosts

LEMMA MaintenanceTypes ==
  ASSUME TypeInv,
         \/ Tick
         \/ \E saved \in BOOLEAN : CleanupPass(saved)
         \/ \E saved \in BOOLEAN, u \in Users : Revoke(u, saved)
  PROVE  TypeInv'
<1> USE DEF TypeInv, TypeOK
<1>1. CASE Tick
  <2>1. /\ StateTypeOK' /\ posts' = posts /\ nextCode' = nextCode
        /\ crashes' = crashes /\ failed' = failed
    BY <1>1, BoundsAssumption DEF Tick, StateTypeOK, dbVars, countVars
  <2> QED
    BY <2>1, SamePosts
<1>2. ASSUME NEW saved \in BOOLEAN, CleanupPass(saved)
      PROVE  TypeInv'
  <2>1. failures' \in 0 .. MaxFailures
    BY <1>2, CostType, ChargeType DEF CleanupPass, StateTypeOK
  <2>2. oauth_tokens' \subseteq oauth_tokens /\ db_tokens' \subseteq db_tokens
        /\ refresh_tokens' \subseteq refresh_tokens
    BY <1>2 DEF CleanupPass, CleanupExpiredTokens
  <2>3. oauth_pending' \subseteq oauth_pending /\ oauth_codes' \subseteq oauth_codes
        /\ failed' \subseteq failed
    BY <1>2 DEF CleanupPass, SweepExpiredState, RecentFailed
  <2>4. StateTypeOK' /\ posts' = posts /\ nextCode' = nextCode /\ crashes' = crashes
    BY <1>2, <2>1, <2>2, <2>3 DEF CleanupPass, StateTypeOK, countVars
  <2> QED
    BY <2>3, <2>4, SamePosts
<1>3. ASSUME NEW saved \in BOOLEAN, NEW u \in Users, Revoke(u, saved)
      PROVE  TypeInv'
  <2>1. failures' \in 0 .. MaxFailures
    BY <1>3, CostType, ChargeType DEF Revoke, StateTypeOK
  <2>2. oauth_tokens' \subseteq oauth_tokens /\ db_tokens' \subseteq db_tokens
    BY <1>3 DEF Revoke, RevokeTokens
  <2>3. /\ StateTypeOK' /\ posts' = posts /\ nextCode' = nextCode
        /\ crashes' = crashes /\ failed' = failed
    BY <1>3, <2>1, <2>2 DEF Revoke, StateTypeOK, countVars
  <2> QED
    BY <2>3, SamePosts
<1> QED
  BY <1>1, <1>2, <1>3

LEMMA RestartTypes ==
  ASSUME TypeInv, NEW tokens \in BOOLEAN, NEW clients \in BOOLEAN, Restart(tokens, clients)
  PROVE  TypeInv'
<1> USE DEF TypeInv, TypeOK
<1>1. failures' \in 0 .. MaxFailures
  BY CostType, ChargeType DEF Restart, StateTypeOK
<1>2. oauth_tokens' \subseteq db_tokens /\ oauth_clients' \subseteq db_clients
  BY DEF Restart, LoadTokens, LoadClients
<1>3. StateTypeOK' /\ nextCode' = nextCode
  BY <1>1, <1>2 DEF Restart, StateTypeOK, dbVars, countVars
<1>4. PostsTypeOK' /\ PostsReady' /\ Verifying' = {}
  BY NoPostType DEF Restart, PostsTypeOK, PostsReady, Verifying
<1>5. Room'
  BY <1>3, <1>4, FS_EmptySet, VerifyingFinite, BoundsAssumption DEF Room, StateTypeOK
<1>6. FailedFinite'
  BY FS_EmptySet DEF Restart, FailedFinite
<1> QED
  BY <1>3, <1>4, <1>5, <1>6 DEF Restart

LEMMA TypeInvInit == Init => TypeInv
<1> SUFFICES ASSUME Init PROVE TypeInv
  OBVIOUS
<1>1. StateTypeOK
  BY BoundsAssumption DEF Init, StateInit, StateTypeOK
<1>2. PostsTypeOK /\ PostsReady /\ Verifying = {}
  BY NoPostType DEF Init, PostsInit, PostsTypeOK, PostsReady, Verifying
<1>3. Room
  BY <1>2, FS_EmptySet, BoundsAssumption DEF Init, StateInit, Room
<1>4. FailedFinite
  BY FS_EmptySet DEF Init, StateInit, FailedFinite
<1> QED
  BY <1>1, <1>2, <1>3, <1>4 DEF Init, TypeInv, TypeOK

LEMMA TypeInvNext == TypeInv /\ [Next]_vars => TypeInv'
<1> SUFFICES ASSUME TypeInv, [Next]_vars PROVE TypeInv'
  OBVIOUS
<1>1. CASE Next
  <2>1. CASE LoginStep /\ UNCHANGED crashes
    BY <2>1, LoginTypes
  <2>2. CASE TokenStep /\ UNCHANGED crashes
    BY <2>2, TokenTypes
  <2>3. CASE ClientStep /\ UNCHANGED crashes
    BY <2>3, ClientTypes
  <2>4. CASE Tick \/ \E saved \in BOOLEAN : CleanupPass(saved) \/ \E u \in Users : Revoke(u, saved)
    BY <2>4, MaintenanceTypes
  <2>5. CASE \E tokens, clients \in BOOLEAN : Restart(tokens, clients)
    BY <2>5, RestartTypes
  <2> QED
    BY <1>1, <2>1, <2>2, <2>3, <2>4, <2>5 DEF Next
<1>2. CASE UNCHANGED vars
  BY <1>2 DEF vars, TypeInv, TypeOK, StateTypeOK, PostsTypeOK, Room, PostsReady, Verifying,
                FailedFinite
<1> QED
  BY <1>1, <1>2

\* Every variable of the authorization server keeps its type; in particular no
\* code, login or refresh token is made beyond its bound.
THEOREM OAuthTypeCorrect == Spec => []TypeOK
<1>1. TypeInv => TypeOK
  BY DEF TypeInv
<1> QED
  BY <1>1, TypeInvInit, TypeInvNext, PTL DEF Spec

-----------------------------------------------------------------------------
(* The limiter.  AttemptsBounded is inductive with TypeInv: a waiting post *)
(* that is refused turns into a recorded failure, one for one.             *)

LEMMA RecentFinite ==
  ASSUME FailedFinite
  PROVE  IsFiniteSet(RecentFailed) /\ Cardinality(RecentFailed) \in Nat
<1>1. RecentFailed \subseteq failed
  BY DEF RecentFailed
<1> QED
  BY <1>1, FS_Subset, FS_CardinalityType DEF FailedFinite

\* Nothing is added to the window, and no post begins to wait.
LEMMA AttemptsShrink ==
  ASSUME TypeInv, AttemptsBounded, RecentFailed' \subseteq RecentFailed,
         Verifying' \subseteq Verifying
  PROVE  AttemptsBounded'
<1>1. /\ Cardinality(RecentFailed') <= Cardinality(RecentFailed)
      /\ Cardinality(RecentFailed') \in Nat /\ Cardinality(RecentFailed) \in Nat
  BY RecentFinite, FS_Subset, FS_CardinalityType DEF TypeInv
<1>2. /\ Cardinality(Verifying') <= Cardinality(Verifying)
      /\ Cardinality(Verifying') \in Nat
  BY VerifyingFinite, FS_Subset, FS_CardinalityType
<1>3. Cardinality(Verifying) \in Nat /\ Cardinality(Slots) \in Nat /\ RateLimit \in Nat
  BY VerifyingFinite, LifetimeAssumption
<1> QED
  BY <1>1, <1>2, <1>3 DEF AttemptsBounded

LEMMA AttemptsOfBeginLogin ==
  ASSUME TypeInv, AttemptsBounded, NEW p \in oauth_pending, NEW s \in Slots, NEW u \in Users,
         BeginLogin(s, p, u)
  PROVE  AttemptsBounded'
<1>1. failed' = RecentFailed /\ now' = now
  BY DEF BeginLogin
<1>2. RecentFailed' \subseteq RecentFailed /\ RecentFailed' \subseteq failed'
  BY <1>1 DEF RecentFailed
<1>3. CASE posts' = posts
  BY <1>2, <1>3, AttemptsShrink DEF Verifying
<1>4. CASE Cardinality(failed') < RateLimit
  <2>1. Cardinality(RecentFailed') <= Cardinality(failed') /\ Cardinality(RecentFailed') \in Nat
        /\ Cardinality(failed') \in Nat
    BY <1>1, <1>2, RecentFinite, FS_Subset, FS_CardinalityType DEF TypeInv
  <2>2. Verifying' \subseteq Slots
    BY DEF Verifying
  <2>3. /\ Cardinality(Verifying') <= Cardinality(Slots) /\ Cardinality(Verifying') \in Nat
        /\ Cardinality(Slots) \in Nat
    BY <2>2, SlotsAssumption, FS_Subset, FS_CardinalityType
  <2> QED
    BY <1>4, <2>1, <2>3, LifetimeAssumption DEF AttemptsBounded
<1> QED
  BY <1>3, <1>4 DEF BeginLogin

LEMMA AttemptsOfRefuseLogin ==
  ASSUME TypeInv, AttemptsBounded, NEW s \in Slots, RefuseLogin(s)
  PROVE  AttemptsBounded'
<1> DEFINE a == <<now, Cardinality({b \in failed : b[1] = now}) + 1>>
<1>1. failed' = failed \cup {a} /\ now' = now
  BY DEF RefuseLogin, RecordFailed
<1> HIDE DEF a
<1>2. RecentFailed' \subseteq RecentFailed \cup {a}
  BY <1>1 DEF RecentFailed
<1>3. /\ IsFiniteSet(RecentFailed) /\ Cardinality(RecentFailed) \in Nat
  BY RecentFinite DEF TypeInv
<1>4. /\ IsFiniteSet(RecentFailed \cup {a})
      /\ Cardinality(RecentFailed \cup {a}) <= Cardinality(RecentFailed) + 1
      /\ Cardinality(RecentFailed \cup {a}) \in Nat
  BY <1>3, FS_AddElement, FS_CardinalityType
<1>5. /\ Cardinality(RecentFailed') <= Cardinality(RecentFailed \cup {a})
      /\ Cardinality(RecentFailed') \in Nat
  BY <1>2, <1>4, FS_Subset, FS_CardinalityType
<1>6. Cardinality(Verifying') = Cardinality(Verifying) - 1
  BY PostEnds DEF RefuseLogin, TypeInv, TypeOK
<1> QED
  BY <1>3, <1>4, <1>5, <1>6, VerifyingFinite, LifetimeAssumption DEF AttemptsBounded

LEMMA AttemptsInvNext == TypeInv /\ AttemptsBounded /\ [Next]_vars => AttemptsBounded'
<1> SUFFICES ASSUME TypeInv, AttemptsBounded, [Next]_vars PROVE AttemptsBounded'
  OBVIOUS
<1>1. ASSUME now' = now, failed' \subseteq failed, posts' = posts
      PROVE  AttemptsBounded'
  <2>1. RecentFailed' \subseteq RecentFailed /\ Verifying' = Verifying
    BY <1>1 DEF RecentFailed, Verifying
  <2> QED
    BY <2>1, AttemptsShrink
<1>2. CASE LoginStep
  <2>1. ASSUME NEW k \in Clients \cup {Nil}, NEW redirect \in BOOLEAN, Authorize(k, redirect)
        PROVE  AttemptsBounded'
    BY <1>1, <2>1 DEF Authorize
  <2>2. ASSUME NEW p \in oauth_pending, DropExpiredLogin(p)
        PROVE  AttemptsBounded'
    BY <1>1, <2>2 DEF DropExpiredLogin
  <2>3. ASSUME NEW s \in Slots, AcceptLogin(s) \/ BreakLogin(s)
        PROVE  AttemptsBounded'
    <3>1. now' = now /\ failed' = failed /\ EndPost(s)
      BY <2>3 DEF AcceptLogin, BreakLogin
    <3>2. RecentFailed' \subseteq RecentFailed
      BY <3>1 DEF RecentFailed
    <3>3. Verifying' \subseteq Verifying
      BY <3>1, NoPostType DEF EndPost, Verifying, TypeInv, TypeOK, PostsTypeOK
    <3> QED
      BY <3>2, <3>3, AttemptsShrink
  <2> QED
    BY <1>2, <2>1, <2>2, <2>3, AttemptsOfBeginLogin, AttemptsOfRefuseLogin DEF LoginStep
<1>3. CASE TokenStep
  BY <1>1, <1>3 DEF TokenStep, RedeemCode, Refresh, ClientCredentials
<1>4. CASE ClientStep
  BY <1>1, <1>4 DEF ClientStep, Register, AddServiceClient
<1>5. CASE Tick
  <2>1. RecentFailed' \subseteq RecentFailed /\ Verifying' = Verifying
    <3>1. now \in Nat /\ RateWindow \in Nat /\ now' = now + 1 /\ failed' = failed /\ posts' = posts
      BY <1>5, BoundsAssumption, LifetimeAssumption DEF Tick, TypeInv, TypeOK, StateTypeOK
    <3>2. \A a \in failed : a[1] \in Nat
      BY DEF TypeInv, TypeOK, StateTypeOK
    <3> QED
      BY <3>1, <3>2 DEF RecentFailed, Verifying
  <2> QED
    BY <2>1, AttemptsShrink
<1>6. ASSUME NEW saved \in BOOLEAN, CleanupPass(saved)
      PROVE  AttemptsBounded'
  <2>1. failed' \subseteq failed
    BY <1>6 DEF CleanupPass, SweepExpiredState, RecentFailed
  <2> QED
    BY <1>1, <1>6, <2>1 DEF CleanupPass
<1>7. ASSUME NEW saved \in BOOLEAN, NEW u \in Users, Revoke(u, saved)
      PROVE  AttemptsBounded'
  BY <1>1, <1>7 DEF Revoke
<1>8. ASSUME NEW tokens \in BOOLEAN, NEW clients \in BOOLEAN, Restart(tokens, clients)
      PROVE  AttemptsBounded'
  <2>1. RecentFailed' \subseteq RecentFailed /\ Verifying' \subseteq Verifying
    BY <1>8, NoPostType DEF Restart, RecentFailed, Verifying
  <2> QED
    BY <2>1, AttemptsShrink
<1>9. CASE UNCHANGED vars
  BY <1>1, <1>9 DEF vars
<1> QED
  BY <1>2, <1>3, <1>4, <1>5, <1>6, <1>7, <1>8, <1>9 DEF Next

\* However many login posts wait for the thread together, the failures recorded in
\* one window exceed the limit by fewer than the posts that can wait.
THEOREM AttemptsBoundedHolds == Spec => []AttemptsBounded
<1>1. Init => AttemptsBounded
  <2> SUFFICES ASSUME Init PROVE AttemptsBounded
    OBVIOUS
  <2>1. RecentFailed = {} /\ Verifying = {}
    BY NoPostType DEF Init, StateInit, PostsInit, RecentFailed, Verifying
  <2> QED
    BY <2>1, FS_EmptySet, VerifyingFinite, LifetimeAssumption DEF AttemptsBounded
<1> QED
  BY <1>1, TypeInvInit, TypeInvNext, AttemptsInvNext, PTL DEF Spec

-----------------------------------------------------------------------------
(* Memory and database.  What a step puts into the table it puts into the  *)
(* dict too; what it takes out of the dict is expired, revoked in both, or *)
(* was followed by a failed call.                                          *)

LEMMA ChargeGrows ==
  ASSUME TypeInv, NEW n \in Nat, Charge(n)
  PROVE  failures' \in Nat /\ failures' >= n /\ failures' >= failures
  BY BoundsAssumption DEF Charge, TypeInv, TypeOK, StateTypeOK

LEMMA CoverKept ==
  ASSUME TypeInv, MemoryCoversDatabase, now' \in Nat, now' >= now,
         failures' \in Nat, failures' >= failures,
         \A t \in db_tokens' : t \in db_tokens \/ t \in oauth_tokens',
         \A t \in oauth_tokens : t \in oauth_tokens' \/ t \notin db_tokens' \/ ~(t.exp > now')
  PROVE  MemoryCoversDatabase'
<1> SUFFICES ASSUME failures' = 0, NEW t \in db_tokens', t.exp > now'
             PROVE  t \in oauth_tokens'
  BY DEF MemoryCoversDatabase, Accepted
<1>1. CASE t \in db_tokens
  <2>1. now \in Nat /\ failures \in Nat /\ t.exp \in Nat
    BY <1>1, BoundsAssumption DEF TypeInv, TypeOK, StateTypeOK, AccessToken
  <2>2. failures = 0 /\ t.exp > now
    BY <2>1
  <2>3. t \in oauth_tokens
    BY <1>1, <2>2 DEF MemoryCoversDatabase, Accepted
  <2> QED
    BY <2>3
<1> QED
  BY <1>1

LEMMA IssuedIsCovered ==
  ASSUME TypeInv, MemoryCoversDatabase, now' = now, failures' \in Nat, failures' >= failures,
         NEW u, NEW svc, NEW saved \in BOOLEAN, IssueToken(u, svc, saved)
  PROVE  MemoryCoversDatabase'
<1>1. now \in Nat
  BY BoundsAssumption DEF TypeInv, TypeOK, StateTypeOK
<1>2. /\ oauth_tokens \subseteq oauth_tokens'
      /\ \A t \in db_tokens' : t \in db_tokens \/ t \in oauth_tokens'
  BY DEF IssueToken
<1> QED
  BY <1>1, <1>2, CoverKept

LEMMA PairIsCovered ==
  ASSUME TypeInv, MemoryCoversDatabase, now' = now, NEW rows, NEW g, NEW u, NEW k,
         NEW found \in BOOLEAN, NEW saved \in BOOLEAN, NEW kept \in BOOLEAN,
         IssuePair(rows, g, u, k, found, saved, kept)
  PROVE  MemoryCoversDatabase'
<1>1. failures' \in Nat /\ failures' >= failures
  <2>1. Cost(found) + Cost(saved) + Cost(kept) \in Nat
    BY CostType
  <2> QED
    BY <2>1, ChargeGrows DEF IssuePair
<1>2. CASE found
  BY <1>1, <1>2, IssuedIsCovered DEF IssuePair
<1>3. CASE ~found
  <2>1. oauth_tokens' = oauth_tokens /\ db_tokens' = db_tokens /\ now \in Nat
    BY <1>3, BoundsAssumption DEF IssuePair, TypeInv, TypeOK, StateTypeOK
  <2> QED
    BY <1>1, <2>1, CoverKept
<1> QED
  BY <1>2, <1>3

LEMMA CoverNext == TypeInv /\ MemoryCoversDatabase /\ [Next]_vars => MemoryCoversDatabase'
<1> SUFFICES ASSUME TypeInv, MemoryCoversDatabase, [Next]_vars PROVE MemoryCoversDatabase'
  OBVIOUS
<1>1. now \in Nat /\ failures \in Nat
  BY BoundsAssumption DEF TypeInv, TypeOK, StateTypeOK
<1>2. ASSUME UNCHANGED <<now, oauth_tokens, db_tokens>>, failures' \in Nat, failures' >= failures
      PROVE  MemoryCoversDatabase'
  BY <1>1, <1>2, CoverKept
<1>3. CASE LoginStep
  <2>1. ASSUME NEW s \in Slots, BreakLogin(s)
        PROVE  MemoryCoversDatabase'
    <3>1. failures' \in Nat /\ failures' >= failures
      BY <2>1, ChargeGrows DEF BreakLogin
    <3> QED
      BY <1>2, <2>1, <3>1 DEF BreakLogin, dbVars
  <2>2. CASE UNCHANGED <<now, oauth_tokens, db_tokens, failures>>
    BY <1>1, <1>2, <2>2
  <2>3. ASSUME NEW k \in Clients \cup {Nil}, NEW redirect \in BOOLEAN, Authorize(k, redirect)
        PROVE  MemoryCoversDatabase'
    BY <2>2, <2>3 DEF Authorize, dbVars
  <2>4. ASSUME NEW p \in oauth_pending, DropExpiredLogin(p)
        PROVE  MemoryCoversDatabase'
    BY <2>2, <2>4 DEF DropExpiredLogin, dbVars
  <2>5. ASSUME NEW p \in oauth_pending, NEW s \in Slots, NEW u \in Users, BeginLogin(s, p, u)
        PROVE  MemoryCoversDatabase'
    BY <2>2, <2>5 DEF BeginLogin, dbVars
  <2>6. ASSUME NEW s \in Slots, AcceptLogin(s) \/ RefuseLogin(s)
        PROVE  MemoryCoversDatabase'
    BY <2>2, <2>6 DEF AcceptLogin, RefuseLogin, dbVars
  <2> QED
    BY <1>3, <2>1, <2>3, <2>4, <2>5, <2>6 DEF LoginStep
<1>4. CASE TokenStep
  <2>1. ASSUME NEW k \in Clients, NEW c \in oauth_codes, NEW proof \in BOOLEAN,
               NEW found \in BOOLEAN, NEW saved \in BOOLEAN, NEW kept \in BOOLEAN,
               RedeemCode(c, k, proof, found, saved, kept)
        PROVE  MemoryCoversDatabase'
    <3>1. CASE CodeUsable(c) /\ MayRedeem(c, k, proof)
      <4>1. now' = now /\ IssuePair(refresh_tokens, c.id, c.user, k, found, saved, kept)
        BY <2>1, <3>1 DEF RedeemCode
      <4> QED
        BY <4>1, PairIsCovered
    <3>2. CASE ~(CodeUsable(c) /\ MayRedeem(c, k, proof))
      BY <1>1, <1>2, <2>1, <3>2 DEF RedeemCode
    <3> QED
      BY <3>1, <3>2
  <2>2. ASSUME NEW k \in Clients, NEW r \in refresh_tokens,
               NEW found \in BOOLEAN, NEW saved \in BOOLEAN, NEW kept \in BOOLEAN,
               Refresh(r, k, found, saved, kept)
        PROVE  MemoryCoversDatabase'
    <3>1. now' = now /\ IssuePair(AfterRedeem(r), r.grant, r.user, k, found, saved, kept)
      BY <2>2 DEF Refresh
    <3> QED
      BY <3>1, PairIsCovered
  <2>3. ASSUME NEW k \in Clients, NEW saved \in BOOLEAN, ClientCredentials(k, saved)
        PROVE  MemoryCoversDatabase'
    <3>1. now' = now /\ Charge(Cost(saved)) /\ IssueToken(ServiceUser[k], k, saved)
      BY <2>3 DEF ClientCredentials
    <3>2. failures' \in Nat /\ failures' >= failures
      BY <3>1, CostType, ChargeGrows
    <3> QED
      BY <3>1, <3>2, IssuedIsCovered
  <2> QED
    BY <1>4, <2>1, <2>2, <2>3 DEF TokenStep
<1>5. CASE ClientStep
  BY <1>1, <1>2, <1>5 DEF ClientStep, Register, AddServiceClient
<1>6. CASE Tick
  <2>1. /\ now' = now + 1 /\ oauth_tokens' = oauth_tokens /\ db_tokens' = db_tokens
        /\ failures' = failures
    BY <1>6 DEF Tick, dbVars
  <2> QED
    BY <1>1, <2>1, CoverKept
<1>7. ASSUME NEW saved \in BOOLEAN, CleanupPass(saved)
      PROVE  MemoryCoversDatabase'
  <2>1. failures' \in Nat /\ failures' >= failures /\ now' = now
    BY <1>7, CostType, ChargeGrows DEF CleanupPass
  <2>2. \A t \in db_tokens' : t \in db_tokens
    BY <1>7 DEF CleanupPass, CleanupExpiredTokens
  <2>3. \A t \in oauth_tokens : t \in oauth_tokens' \/ ~(t.exp > now)
    <3> SUFFICES ASSUME NEW t \in oauth_tokens, t.exp > now
                 PROVE  t \in oauth_tokens'
      OBVIOUS
    <3>1. t.exp \in Nat /\ AccessTTL \in Nat
      BY LifetimeAssumption DEF TypeInv, TypeOK, StateTypeOK, AccessToken
    <3>2. ~(now - (t.exp - AccessTTL) >= AccessTTL)
      BY <1>1, <3>1
    <3> QED
      BY <1>7, <3>2 DEF CleanupPass, CleanupExpiredTokens
  <2> QED
    BY <1>1, <2>1, <2>2, <2>3, CoverKept
<1>8. ASSUME NEW saved \in BOOLEAN, NEW u \in Users, Revoke(u, saved)
      PROVE  MemoryCoversDatabase'
  <2>1. failures' \in Nat /\ failures' >= Cost(saved) /\ failures' >= failures /\ now' = now
    BY <1>8, CostType, ChargeGrows DEF Revoke
  <2>2. CASE saved
    <3>1. /\ oauth_tokens' = {t \in oauth_tokens : t.user # u}
          /\ db_tokens' = {t \in db_tokens : t.user # u}
      BY <1>8, <2>2 DEF Revoke, RevokeTokens
    <3> QED
      BY <1>1, <2>1, <3>1, CoverKept
  <2>3. CASE ~saved
    BY <2>1, <2>3 DEF Cost, MemoryCoversDatabase
  <2> QED
    BY <2>2, <2>3
<1>9. ASSUME NEW tokens \in BOOLEAN, NEW clients \in BOOLEAN, Restart(tokens, clients)
      PROVE  MemoryCoversDatabase'
  <2>1. CASE tokens
    <3>1. /\ oauth_tokens' = {t \in db_tokens : t.exp > now} /\ db_tokens' = db_tokens
          /\ now' = now
      BY <1>9, <2>1 DEF Restart, LoadTokens, dbVars
    <3> QED
      BY <3>1 DEF MemoryCoversDatabase, Accepted
  <2>2. CASE ~tokens
    <3>1. Cost(tokens) = 1 /\ Cost(clients) \in Nat
      BY <2>2, CostType DEF Cost
    <3>2. failures' \in Nat /\ failures' >= Cost(tokens) + Cost(clients)
      BY <1>9, <3>1, ChargeGrows DEF Restart
    <3>3. failures' # 0
      BY <3>1, <3>2
    <3> QED
      BY <3>3 DEF MemoryCoversDatabase
  <2> QED
    BY <2>1, <2>2
<1>10. CASE UNCHANGED vars
  BY <1>1, <1>2, <1>10 DEF vars
<1> QED
  BY <1>3, <1>4, <1>5, <1>6, <1>7, <1>8, <1>9, <1>10 DEF Next

\* As long as no call has failed, a token the gate accepts is in memory, where
\* revoke_tokens_for_user counts it: through any exchanges, cleanups and restarts.
THEOREM MemoryCoversDatabaseHolds == Spec => []MemoryCoversDatabase
<1>1. Init => MemoryCoversDatabase
  BY DEF Init, StateInit, MemoryCoversDatabase
<1> QED
  BY <1>1, TypeInvInit, TypeInvNext, CoverNext, PTL DEF Spec

-----------------------------------------------------------------------------
(* The action properties: they follow from the types, one step at a time.  *)

\* A cleanup pass drops no login and no access token a request could still use.
THEOREM CleanupIsInvisibleHolds == Spec => CleanupIsInvisible
<1> DEFINE Dropped == \/ \E p \in oauth_pending : LoginUsable(p) /\ p \notin oauth_pending'
                      \/ \E t \in db_tokens : Accepted(t) /\ t \notin db_tokens'
<1>1. ASSUME TypeInv, Dropped, NEW saved \in BOOLEAN, CleanupPass(saved)
      PROVE  FALSE
  <2>1. CASE \E p \in oauth_pending : LoginUsable(p) /\ p \notin oauth_pending'
    <3>1. PICK p \in oauth_pending : LoginUsable(p) /\ p \notin oauth_pending'
      BY <2>1
    <3>2. now \in Nat /\ p.issued_at \in Nat /\ LoginTTL \in Nat
      BY <1>1, LifetimeAssumption, BoundsAssumption DEF TypeInv, TypeOK, StateTypeOK, Pending
    <3>3. ~(now - p.issued_at > LoginTTL)
      BY <3>1, <3>2 DEF LoginUsable
    <3> QED
      BY <1>1, <3>1, <3>3 DEF CleanupPass, SweepExpiredState
  <2>2. CASE \E t \in db_tokens : Accepted(t) /\ t \notin db_tokens'
    <3>1. PICK t \in db_tokens : t.exp > now /\ t \notin db_tokens'
      BY <2>2 DEF Accepted
    <3>2. now \in Nat /\ t.exp \in Nat
      BY <1>1, BoundsAssumption DEF TypeInv, TypeOK, StateTypeOK, AccessToken
    <3>3. ~(t.exp < now)
      BY <3>1, <3>2
    <3> QED
      BY <1>1, <3>1, <3>3 DEF CleanupPass, CleanupExpiredTokens
  <2> QED
    BY <1>1, <2>1, <2>2
<1>2. TypeInv => [Dropped => \A saved \in BOOLEAN : ~CleanupPass(saved)]_vars
  BY <1>1
<1> QED
  BY <1>2, TypeInvInit, TypeInvNext, PTL DEF Spec, CleanupIsInvisible

Usable(g) == OpenCode(g) \/ Live(g) # {}

LEMMA UsableKept ==
  ASSUME NEW g, Usable(g), now' = now,
         \A c \in oauth_codes : CodeUsable(c) => c \in oauth_codes',
         \A r \in refresh_tokens : RefreshUsable(r) => r \in refresh_tokens'
  PROVE  Usable(g)'
<1>1. CASE OpenCode(g)
  <2>1. PICK c \in oauth_codes : c.id = g /\ CodeUsable(c)
    BY <1>1 DEF OpenCode
  <2>2. c \in oauth_codes' /\ CodeUsable(c)'
    BY <2>1 DEF CodeUsable
  <2> QED
    BY <2>1, <2>2 DEF Usable, OpenCode
<1>2. CASE Live(g) # {}
  <2>1. PICK r \in refresh_tokens : r.grant = g /\ RefreshUsable(r)
    BY <1>2 DEF Live, Rows
  <2>2. r \in refresh_tokens' /\ RefreshUsable(r)'
    BY <2>1 DEF RefreshUsable
  <2> QED
    BY <2>1, <2>2 DEF Usable, Live, Rows
<1> QED
  BY <1>1, <1>2 DEF Usable

\* Without a failed call the successor of a credential is saved, and can be used.
LEMMA PairContinues ==
  ASSUME TypeInv, now' = now, failures' = failures, NEW rows, NEW g, NEW u, NEW k,
         NEW found \in BOOLEAN, NEW saved \in BOOLEAN, NEW kept \in BOOLEAN,
         IssuePair(rows, g, u, k, found, saved, kept)
  PROVE  Usable(g)' /\ rows \subseteq refresh_tokens'
<1> DEFINE r == [id |-> nextRefresh, grant |-> g, user |-> u, client |-> k,
                 expires_at |-> now + RefreshTTL]
<1>1. found /\ kept
  <2>1. Cost(found) + Cost(saved) + Cost(kept) = 0 /\ Cost(saved) \in Nat
    BY CostType, BoundsAssumption DEF IssuePair, Charge, TypeInv, TypeOK, StateTypeOK
  <2> QED
    BY <2>1 DEF Cost
<1>2. refresh_tokens' = rows \cup {r}
  BY <1>1 DEF IssuePair, IssueRefreshToken
<1>3. r.grant = g /\ r.expires_at = now + RefreshTTL
  OBVIOUS
<1> HIDE DEF r
<1>4. now \in Nat /\ RefreshTTL \in Nat
  BY LifetimeAssumption, BoundsAssumption DEF TypeInv, TypeOK, StateTypeOK
<1>5. PICK q : q = r
  OBVIOUS
<1>6. RefreshUsable(q)' /\ q.grant = g /\ q \in refresh_tokens'
  BY <1>2, <1>3, <1>4, <1>5 DEF RefreshUsable
<1> QED
  BY <1>2, <1>6 DEF Usable, Live, Rows

LEMMA GrantsContinue ==
  ASSUME TypeInv, Next, now' = now, crashes' = crashes, failures' = failures,
         NEW g \in Granted, Usable(g)
  PROVE  Usable(g)'
<1>1. CASE LoginStep
  <2>1. refresh_tokens' = refresh_tokens /\ oauth_codes \subseteq oauth_codes'
    BY <1>1 DEF LoginStep, Authorize, DropExpiredLogin, BeginLogin, AcceptLogin, RefuseLogin,
                BreakLogin, dbVars
  <2> QED
    BY <2>1, UsableKept
<1>2. ASSUME NEW k \in Clients, NEW c \in oauth_codes, NEW proof \in BOOLEAN,
             NEW found \in BOOLEAN, NEW saved \in BOOLEAN, NEW kept \in BOOLEAN,
             RedeemCode(c, k, proof, found, saved, kept)
      PROVE  Usable(g)'
  <2>1. CASE CodeUsable(c) /\ MayRedeem(c, k, proof)
    <3>1. /\ oauth_codes' = oauth_codes \ {c}
          /\ IssuePair(refresh_tokens, c.id, c.user, k, found, saved, kept)
      BY <1>2, <2>1 DEF RedeemCode
    <3>2. Usable(c.id)' /\ refresh_tokens \subseteq refresh_tokens'
      BY <3>1, PairContinues
    <3>3. CASE g = c.id
      BY <3>2, <3>3
    <3>4. CASE g # c.id /\ OpenCode(g)
      <4>1. PICK d \in oauth_codes : d.id = g /\ CodeUsable(d)
        BY <3>4 DEF OpenCode
      <4>2. d \in oauth_codes' /\ CodeUsable(d)'
        BY <3>1, <3>4, <4>1 DEF CodeUsable
      <4> QED
        BY <4>1, <4>2 DEF Usable, OpenCode
    <3>5. CASE Live(g) # {}
      <4>1. PICK r \in refresh_tokens : r.grant = g /\ RefreshUsable(r)
        BY <3>5 DEF Live, Rows
      <4>2. r \in refresh_tokens' /\ RefreshUsable(r)'
        BY <3>2, <4>1 DEF RefreshUsable
      <4> QED
        BY <4>1, <4>2 DEF Usable, Live, Rows
    <3> QED
      BY <3>3, <3>4, <3>5 DEF Usable
  <2>2. CASE ~(CodeUsable(c) /\ MayRedeem(c, k, proof))
    <3>1. /\ oauth_codes' = IF CodeUsable(c) THEN oauth_codes ELSE oauth_codes \ {c}
          /\ refresh_tokens' = refresh_tokens
      BY <1>2, <2>2 DEF RedeemCode
    <3>2. \A d \in oauth_codes : CodeUsable(d) => d \in oauth_codes'
      BY <3>1
    <3> QED
      BY <3>1, <3>2, UsableKept
  <2> QED
    BY <2>1, <2>2
<1>3. ASSUME NEW k \in Clients, NEW r \in refresh_tokens,
             NEW found \in BOOLEAN, NEW saved \in BOOLEAN, NEW kept \in BOOLEAN,
             Refresh(r, k, found, saved, kept)
      PROVE  Usable(g)'
  <2>1. oauth_codes' = oauth_codes
    BY <1>3 DEF Refresh
  <2>2. Usable(r.grant)' /\ refresh_tokens \ {r} \subseteq refresh_tokens'
    BY <1>3, PairContinues DEF Refresh, AfterRedeem
  <2>3. CASE g = r.grant
    BY <2>2, <2>3
  <2>4. CASE g # r.grant /\ Live(g) # {}
    <3>1. PICK q \in refresh_tokens : q.grant = g /\ RefreshUsable(q)
      BY <2>4 DEF Live, Rows
    <3>2. q \in refresh_tokens' /\ RefreshUsable(q)'
      BY <2>2, <2>4, <3>1 DEF RefreshUsable
    <3> QED
      BY <3>1, <3>2 DEF Usable, Live, Rows
  <2>5. CASE OpenCode(g)
    <3>1. OpenCode(g)'
      BY <2>1, <2>5 DEF OpenCode, CodeUsable
    <3> QED
      BY <3>1 DEF Usable
  <2> QED
    BY <2>3, <2>4, <2>5 DEF Usable
<1>4. ASSUME NEW k \in Clients, NEW saved \in BOOLEAN, ClientCredentials(k, saved)
      PROVE  Usable(g)'
  BY <1>4, UsableKept DEF ClientCredentials
<1>5. CASE ClientStep
  BY <1>5, UsableKept DEF ClientStep, Register, AddServiceClient
<1>6. ASSUME Tick PROVE FALSE
  BY <1>6, BoundsAssumption DEF Tick, TypeInv, TypeOK, StateTypeOK
<1>7. ASSUME NEW saved \in BOOLEAN, CleanupPass(saved)
      PROVE  Usable(g)'
  <2>1. \A c \in oauth_codes : CodeUsable(c) => c \in oauth_codes'
    <3> SUFFICES ASSUME NEW c \in oauth_codes, CodeUsable(c) PROVE c \in oauth_codes'
      OBVIOUS
    <3>1. now \in Nat /\ c.issued_at \in Nat /\ CodeTTL \in Nat
      BY LifetimeAssumption, BoundsAssumption DEF TypeInv, TypeOK, StateTypeOK, Code
    <3>2. ~(now - c.issued_at > CodeTTL)
      BY <3>1 DEF CodeUsable
    <3> QED
      BY <1>7, <3>2 DEF CleanupPass, SweepExpiredState
  <2>2. \A r \in refresh_tokens : RefreshUsable(r) => r \in refresh_tokens'
    BY <1>7 DEF CleanupPass, CleanupExpiredTokens, RefreshUsable
  <2> QED
    BY <2>1, <2>2, UsableKept
<1>8. ASSUME NEW saved \in BOOLEAN, NEW u \in Users, Revoke(u, saved)
      PROVE  Usable(g)'
  BY <1>8, UsableKept DEF Revoke
<1>9. ASSUME NEW tokens \in BOOLEAN, NEW clients \in BOOLEAN, Restart(tokens, clients)
      PROVE  FALSE
  BY <1>9 DEF Restart, TypeInv, TypeOK
<1> QED
  BY <1>1, <1>2, <1>3, <1>4, <1>5, <1>6, <1>7, <1>8, <1>9 DEF Next, TokenStep

\* In one second, without restarts and failed calls, no step of any request and no
\* cleanup makes a usable grant unusable.
THEOREM GrantsAreConservedHolds == Spec => GrantsAreConserved
<1> DEFINE Conserved ==
      now' = now /\ crashes' = crashes /\ failures' = failures =>
         \A g \in Granted :
            OpenCode(g) \/ Live(g) # {} => (OpenCode(g) \/ Live(g) # {})'
<1>1. TypeInv /\ [Next]_vars => [Conserved]_vars
  BY GrantsContinue DEF Usable
<1> QED
  BY <1>1, TypeInvInit, TypeInvNext, PTL DEF Spec, GrantsAreConserved
=============================================================================

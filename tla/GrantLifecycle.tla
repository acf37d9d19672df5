--------------------------- MODULE GrantLifecycle ---------------------------
(***************************************************************************)
(* What the authorization server promises about a grant, which one login   *)
(* gives to one client: it starts as an authorization code, the code is    *)
(* exchanged once for a refresh token, every refresh token is exchanged    *)
(* once for a newer one, and a grant that has ended never comes back.      *)
(* OAuthServer implements this.                                            *)
(***************************************************************************)
EXTENDS Naturals

CONSTANTS
    GrantIds,
    RefreshIds    \* numbers of refresh tokens, in the order they are made

VARIABLES
    stage,        \* stage[g] \in Stages
    holder        \* holder[g]: the refresh token that keeps g open, or 0

vars == <<stage, holder>>

Stages == {"none", "code", "open", "closed"}

Init ==
    /\ stage = [g \in GrantIds |-> "none"]
    /\ holder = [g \in GrantIds |-> 0]

Grant(g) ==
    /\ stage[g] = "none"
    /\ stage' = [stage EXCEPT ![g] = "code"]
    /\ UNCHANGED holder

Redeem(g, r) ==
    /\ stage[g] = "code"
    /\ stage' = [stage EXCEPT ![g] = "open"]
    /\ holder' = [holder EXCEPT ![g] = r]

Rotate(g, r) ==
    /\ stage[g] = "open"
    /\ r > holder[g]
    /\ holder' = [holder EXCEPT ![g] = r]
    /\ UNCHANGED stage

\* Time, a restart and a failed call can end several grants at once.
Close(S) ==
    /\ \A g \in S : stage[g] \in {"code", "open"}
    /\ stage' = [g \in GrantIds |-> IF g \in S THEN "closed" ELSE stage[g]]
    /\ holder' = [g \in GrantIds |-> IF g \in S THEN 0 ELSE holder[g]]

Next ==
    \/ \E g \in GrantIds :
          Grant(g) \/ \E r \in RefreshIds : Redeem(g, r) \/ Rotate(g, r)
    \/ \E S \in SUBSET GrantIds : Close(S)

Spec == Init /\ [][Next]_vars
=============================================================================

------------------------------- MODULE MCOAuth -------------------------------
(* Instances of OAuthServer for TLC.                                       *)
EXTENDS OAuthServer, TLC

CONSTANTS u1, u2, web, url, svc, s1, s2

\* web registers itself, url is named by its metadata, svc is a machine client of u1.
MCKind == [k \in Clients |-> CASE k = web -> "registered" [] k = url -> "document"
                               [] OTHER -> "service"]

MCServiceUser == [k \in Clients |-> IF k = svc THEN u1 ELSE Nil]

Symmetry == Permutations(Slots)
=============================================================================

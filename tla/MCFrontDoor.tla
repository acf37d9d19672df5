----------------------------- MODULE MCFrontDoor -----------------------------
(* Instances of FrontDoor for TLC.                                         *)
EXTENDS FrontDoor, TLC

CONSTANTS r1, r2, admin, guest, pw1, pw2, ip1, ip2

Symmetry == Permutations(Requests) \cup Permutations(Passwords) \cup Permutations(Ips)
=============================================================================

----------------------------- MODULE MCGitClaims -----------------------------
(* Instances of GitClaims for TLC: two producers with a worker each. *)
EXTENDS GitClaimsProperties

CONSTANTS vm1, vm2

MCHome == [x \in Process |-> IF x = vm2 THEN vm2 ELSE vm1]
MCTrusted == [x \in Producer |-> Producer]
=============================================================================

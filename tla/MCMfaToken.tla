----------------------------- MODULE MCMfaToken -----------------------------
(* Instances of MfaToken for TLC.  A fingerprint is compared as a whole,   *)
(* so two users in one place give the two fingerprints that matter.        *)
EXTENDS MfaToken, TLC

CONSTANTS u1, u2, p1, j1, j2, c1, c2

MCUsers == {u1, u2}
MCPlaces == {p1}
MCJtis == {j1, j2}
MCCalls == {c1, c2}

Symmetric == Permutations(MCUsers) \cup Permutations(MCJtis) \cup Permutations(MCCalls)

=============================================================================

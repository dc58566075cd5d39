-------------------------- MODULE MCMfaEnrollment --------------------------
(* Instances of MfaEnrollment for TLC. *)
EXTENDS MfaEnrollment, TLC

CONSTANTS u1, u2, c1, c2

MCUsers == {u1, u2}
MCCalls == {c1, c2}

Symmetric == Permutations(MCUsers) \cup Permutations(MCCalls)

=============================================================================

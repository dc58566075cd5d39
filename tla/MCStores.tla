------------------------------ MODULE MCStores ------------------------------
(***************************************************************************)
(* The stores a decision rests on, for TLC: revoked tokens, solved proof   *)
(* of work nonces, the Casbin rules and the MFA challenges of a user.      *)
(* They share no variable, so a step of one is a stutter of the others and *)
(* each property speaks of one of them: a behaviour here moves the store   *)
(* `part' names and keeps the others where they start.                     *)
(***************************************************************************)
EXTENDS Integers, FiniteSets, TLC

CONSTANTS Clients, Admins,
          Jtis, Exps, MaxTokenTime,
          Scores, DiffMin, DiffMax, NonceTtl, Capacity,
          MaxPad, MaxLead, MaxIssued, MaxNonceTime, MaxSolved,
          AdminCalls, Rules, MaxCalls,
          Txs, Limit, Window, MaxChallengeTime

VARIABLES part,
          tokenTime, blacklist, outcome, guard, revoked,
          nonceTime, issued, store, solved,
          mem, file, mutex, call, texts, calls, missed, wanted,
          challengeTime, tx, rows, lock, answer

(* The tokens expire one after the other *)
TokenExp == CHOOSE f \in [Jtis -> 3..(Cardinality(Jtis) + 2)] :
                \A i, j \in Jtis : i # j => f[i] # f[j]

Tokens == INSTANCE TokenRevocation
            WITH Users <- Clients \cup Admins, MaxNow <- MaxTokenTime, now <- tokenTime
Nonces == INSTANCE Hashcash
            WITH Users <- Clients, Ttl <- NonceTtl, MaxNow <- MaxNonceTime, now <- nonceTime
Policy == INSTANCE PolicyStore WITH Admins <- AdminCalls
Challenges == INSTANCE MfaRateLimit
            WITH Users <- Clients, MaxNow <- MaxChallengeTime, now <- challengeTime

ASSUME StoresAssumption ==
    /\ Tokens!RevocationAssumption /\ Nonces!HashcashAssumption
    /\ Policy!StoreAssumption /\ Challenges!RateLimitAssumption

tokenVars == <<tokenTime, blacklist, outcome, guard, revoked>>
nonceVars == <<nonceTime, issued, store, solved>>
policyVars == <<mem, file, mutex, call, texts, calls, missed, wanted>>
challengeVars == <<challengeTime, tx, rows, lock, answer>>

vars == <<part, tokenVars, nonceVars, policyVars, challengeVars>>

Init ==
    /\ part \in {"tokens", "nonces", "policy", "challenges"}
    /\ Tokens!Init
    /\ Nonces!Init
    /\ Policy!Init
    /\ part # "policy" => file = {}
    /\ Challenges!Init

Next ==
    /\ UNCHANGED part
    /\ \/ /\ part = "tokens" /\ Tokens!Next
          /\ UNCHANGED <<nonceVars, policyVars, challengeVars>>
       \/ /\ part = "nonces" /\ Nonces!Next
          /\ UNCHANGED <<tokenVars, policyVars, challengeVars>>
       \/ /\ part = "policy" /\ Policy!Next
          /\ UNCHANGED <<tokenVars, nonceVars, challengeVars>>
       \/ /\ part = "challenges" /\ Challenges!Next
          /\ UNCHANGED <<tokenVars, nonceVars, policyVars>>

Spec == Init /\ [][Next]_vars

Symmetric == Permutations(Clients) \cup Permutations(Txs)

-----------------------------------------------------------------------------

(* Types of the four stores; the nonce store stays within its capacity.    *)
TypeOK == Tokens!TypeOK /\ Nonces!TypeOK /\ Policy!TypeOK /\ Challenges!TypeOK

(* A revocation binds until its expiry, and only its author or an admin    *)
(* can loosen it (AuthController.revoke and the revocation stage).         *)
RevocationHolds == Tokens!RevocationHolds

(* A nonce text is accepted twice only after Capacity other solutions, or  *)
(* once more by a call during which it expires (verifySolution and         *)
(* UsedNonceStore).                                                        *)
ReplayNeedsFlood == Nonces!ReplayNeedsFlood

(* Between writers, with no failed save pending, the file holds the rules  *)
(* being enforced, and a change an admin is told of is already in it       *)
(* (addRule, removeRule).                                                  *)
FileFollowsEnforcer == Policy!FileFollowsEnforcer

(* At most Limit challenges of a user by created_at in every window        *)
(* (insertChallengeIfUnderLimit).                                          *)
RateLimitHolds == Challenges!RateLimitHolds

=============================================================================

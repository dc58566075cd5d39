--------------------------- MODULE TokenRevocation ---------------------------
(***************************************************************************)
(* Token revocation: TokenRevocationService                                *)
(* (src/auth/token-revocation.service.ts), written by POST /auth/revoke    *)
(* (src/auth/auth.controller.ts) with the jti and the exp the caller       *)
(* sends, and read by the revocation stage for every token that auth       *)
(* accepted.  Entries are evicted only when they are read.                 *)
(***************************************************************************)
EXTENDS Integers, FiniteSets

CONSTANTS Users, Admins,  \* callers of the endpoint, and those with the admin role
          Jtis,           \* tokens in circulation
          TokenExp,       \* when each of them expires
          Exps,           \* values of dto.exp a caller may send
          MaxNow          \* bound: time

(* What a configuration must satisfy *)
RevocationAssumption ==
    /\ Admins \subseteq Users /\ "none" \notin Users /\ IsFiniteSet(Jtis)
    /\ TokenExp \in [Jtis -> Nat] /\ Exps \subseteq Nat /\ MaxNow \in Nat

NoEntry == [expiresAt |-> 0, userId |-> "none"]

VARIABLES now,
          blacklist,  \* jti -> RevocationEntry, NoEntry when it has none
          outcome,    \* the last answer of the revocation stage since a revocation
          guard,      \* history: the revocation that binds the jti (see Binding)
          revoked     \* history: tokens somebody has revoked

vars == <<now, blacklist, outcome, guard, revoked>>

Init ==
    /\ now = 0
    /\ blacklist = [j \in Jtis |-> NoEntry]
    /\ outcome = [j \in Jtis |-> "none"]
    /\ guard = [j \in Jtis |-> NoEntry]
    /\ revoked = {}

(* isRevoked and getEntry: an expired entry is deleted *)
Evicted(j) ==
    IF now >= blacklist[j].expiresAt THEN [blacklist EXCEPT ![j] = NoEntry] ELSE blacklist

(* Only an admin, or whoever recorded it, may replace an active entry *)
FaultyMayRevoke(u, j) == TRUE

MayRevoke(u, j) == u \in Admins \/ Evicted(j)[j].userId \in {"none", u}

(* The revocation a jti is bound by: the latest one, except that a caller  *)
(* who is neither its author nor an admin cannot replace one still active  *)
Binding(u, j, e) ==
    IF now < guard[j].expiresAt /\ u \notin Admins \cup {guard[j].userId}
    THEN guard[j] ELSE [expiresAt |-> e, userId |-> u]

(* AuthController.revoke *)
Revoke(u, j, e) ==
    /\ MayRevoke(u, j)
    /\ blacklist' = [blacklist EXCEPT ![j] = [expiresAt |-> e, userId |-> u]]
    /\ outcome' = [outcome EXCEPT ![j] = "none"]
    /\ guard' = [guard EXCEPT ![j] = Binding(u, j, e)]
    /\ revoked' = revoked \cup {j}
    /\ UNCHANGED now

(* 403: somebody else's entry; reading it may have evicted *)
RevokeRefused(u, j) ==
    /\ ~MayRevoke(u, j)
    /\ blacklist' = Evicted(j)
    /\ UNCHANGED <<now, outcome, guard, revoked>>

(* A request with a token that auth accepts reaches the revocation stage *)
Use(j) ==
    /\ now < TokenExp[j]
    /\ blacklist' = Evicted(j)
    /\ outcome' = [outcome EXCEPT ![j] = IF blacklist'[j] # NoEntry THEN "rejected" ELSE "passed"]
    /\ UNCHANGED <<now, guard, revoked>>

Tick == now < MaxNow /\ now' = now + 1 /\ UNCHANGED <<blacklist, outcome, guard, revoked>>

Next ==
    \/ \E u \in Users, j \in Jtis : RevokeRefused(u, j) \/ \E e \in Exps : Revoke(u, j, e)
    \/ \E j \in Jtis : Use(j)
    \/ Tick

Spec == Init /\ [][Next]_vars

-----------------------------------------------------------------------------
(* Properties *)

Entries == [expiresAt : Exps \cup {0}, userId : Users \cup {"none"}]

(* Types of the blacklist and the outcomes. *)
TypeOK ==
    /\ now \in 0..MaxNow
    /\ blacklist \in [Jtis -> Entries] /\ guard \in [Jtis -> Entries]
    /\ outcome \in [Jtis -> {"none", "passed", "rejected"}]
    /\ revoked \in SUBSET Jtis

(* A revocation binds until the expiry it was recorded with: no token gets *)
(* past the revocation stage before then, and nobody but its author or an  *)
(* admin can loosen it, through any sequence of revocations, refused       *)
(* revocations and evictions.                                              *)
RevocationHolds ==
    \A j \in Jtis : outcome[j] = "passed" =>
        guard[j] = NoEntry \/ now >= guard[j].expiresAt

(* CONTEXT.md:76: "a revoked JTI is rejected until the token's own         *)
(* expiry".                                                                *)
RejectedUntilOwnExpiry == \A j \in revoked : outcome[j] # "passed"

=============================================================================

------------------------------ MODULE MfaToken ------------------------------
(***************************************************************************)
(* The life of an MFA token: MfaChallenger.verifyTotp, mintDemoMfaToken    *)
(* and validateMfaToken (src/mfa/mfa-challenger.service.ts) over the       *)
(* mfa_challenges, user_secrets and mfa_tokens tables.                     *)
(*                                                                         *)
(* A fingerprint is SHA-256(userId|deviceId|ip), taken as one-to-one on    *)
(* the three parts.  Handlers interleave at every database statement, with *)
(* tokens revoked and enrollments made and reset meanwhile.                *)
(***************************************************************************)
EXTENDS Integers, FiniteSets

CONSTANTS Users,
          Places,    \* device and address a request comes from
          Jtis,      \* values randomUUID can return; few enough to collide
          Calls,     \* slots for concurrently running handlers
          ChallengeTtl, TokenTtl,  \* in ticks
          Second,    \* ticks per second: the JWT's exp is in whole seconds
          MaxNow     \* bound: the clock

ASSUME TokenAssumption ==
    /\ ChallengeTtl \in Nat \ {0} /\ TokenTtl \in Nat \ {0} /\ Second \in Nat \ {0}
    /\ MaxNow \in Nat

Fingerprint(u, p) == <<u, p>>
Fingerprints == Users \X Places
NoOne == "no_one"

VARIABLES challenge,  \* the latest expiry in mfa_challenges, -1 when it is empty
          enrolled,   \* users with a readable row in user_secrets
          table,      \* mfa_tokens: jti -> fingerprint, expiry, revoked
          issued,     \* tokens handed to clients: jti, fingerprint claim, exp
          call,       \* the handlers under way
          now,
          verified,   \* history: fingerprints that passed TOTP or the demo mint
          accepted    \* history: tokens validated, with the presenter's fingerprint and
                      \* whether the token was revoked when the request came

vars == <<challenge, enrolled, table, issued, call, now, verified, accepted>>

Idle == [pc |-> "idle", user |-> NoOne, place |-> NoOne, jti |-> NoOne, exp |-> 0, old |-> FALSE]

Init ==
    /\ challenge = -1
    /\ enrolled = {}
    /\ table = << >>
    /\ issued = {}
    /\ call = [c \in Calls |-> Idle]
    /\ now = 0
    /\ verified = {} /\ accepted = {}

-----------------------------------------------------------------------------
(* verifyTotp and mintDemoMfaToken *)

Finish(c) == call' = [call EXCEPT ![c] = Idle]
Goto(c, pc) == call' = [call EXCEPT ![c].pc = pc]

(* getChallenge: the id names a challenge that has not expired, whoever it *)
(* was made for.                                                           *)
Verify(c, u, p) ==
    /\ call[c].pc = "idle"
    /\ challenge >= now
    /\ call' = [call EXCEPT ![c] = [Idle EXCEPT !.pc = "secret", !.user = u, !.place = p]]
    /\ UNCHANGED <<challenge, enrolled, table, issued, now, verified, accepted>>

FaultyMinted(c, u, p, j) ==
    call' = [call EXCEPT ![c] = [pc |-> "insert", user |-> u, place |-> p, jti |-> j,
                                 exp |-> now - TokenTtl, old |-> FALSE]]

(* Signs the token with a random jti; the row is written next *)
Minted(c, u, p, j) ==
    call' = [call EXCEPT ![c] = [pc |-> "insert", user |-> u, place |-> p, jti |-> j,
                                 exp |-> now + TokenTtl, old |-> FALSE]]

(* getEncryptedSecret, decryption and authenticator.verify succeed *)
CheckCode(c, j) ==
    /\ call[c].pc = "secret" /\ call[c].user \in enrolled
    /\ Minted(c, call[c].user, call[c].place, j)
    /\ verified' = verified \cup {Fingerprint(call[c].user, call[c].place)}
    /\ UNCHANGED <<challenge, enrolled, table, issued, now, accepted>>

(* unknown_user, invalid_code or internal *)
CodeRefused(c) ==
    /\ call[c].pc = "secret"
    /\ Finish(c)
    /\ UNCHANGED <<challenge, enrolled, table, issued, now, verified, accepted>>

MintDemo(c, u, p, j) ==
    /\ call[c].pc = "idle"
    /\ Minted(c, u, p, j)
    /\ verified' = verified \cup {Fingerprint(u, p)}
    /\ UNCHANGED <<challenge, enrolled, table, issued, now, accepted>>

(* insertMfaToken writes a row under a jti that is not there yet ... *)
Stored(j, c) ==
    table' = [k \in DOMAIN table \cup {j} |->
                IF k = j THEN [fp |-> Fingerprint(call[c].user, call[c].place),
                               expiresAt |-> call[c].exp, revoked |-> FALSE]
                ELSE table[k]]

HandOut(c) ==
    issued' = issued \cup {[jti |-> call[c].jti, exp |-> call[c].exp \div Second,
                            fp |-> Fingerprint(call[c].user, call[c].place)]}

InsertToken(c) ==
    /\ call[c].pc = "insert" /\ call[c].jti \notin DOMAIN table
    /\ Stored(call[c].jti, c)
    /\ HandOut(c) /\ Finish(c)
    /\ UNCHANGED <<challenge, enrolled, now, verified, accepted>>

(* ... a taken one is error 23505 ... *)
Collision(c) ==
    /\ call[c].pc = "insert" /\ call[c].jti \in DOMAIN table
    /\ Goto(c, "retry")
    /\ UNCHANGED <<challenge, enrolled, table, issued, now, verified, accepted>>

(* ... answered by one more insert, under a fresh jti; the token that is   *)
(* handed out was signed with the first one.                               *)
RetryToken(c, j) ==
    /\ call[c].pc = "retry" /\ j \notin DOMAIN table
    /\ Stored(j, c)
    /\ HandOut(c) /\ Finish(c)
    /\ UNCHANGED <<challenge, enrolled, now, verified, accepted>>

(* A second collision, or a database error: internal *)
InsertThrows(c) ==
    /\ call[c].pc \in {"insert", "retry"}
    /\ Finish(c)
    /\ UNCHANGED <<challenge, enrolled, table, issued, now, verified, accepted>>

-----------------------------------------------------------------------------
(* validateMfaToken *)

(* jwtVerify accepts the signature of an issued token whose exp is not past *)
Present(c, t, u, p) ==
    /\ call[c].pc = "idle"
    /\ now \div Second < t.exp
    /\ call' = [call EXCEPT ![c] =
                  [pc |-> "lookup", user |-> u, place |-> p, jti |-> t.jti, exp |-> 0,
                   old |-> t.jti \in DOMAIN table /\ table[t.jti].revoked]]
    /\ UNCHANGED <<challenge, enrolled, table, issued, now, verified, accepted>>

(* getMfaTokenWithStatus: row, revoked and expired in one SELECT *)
FaultyRowAccepts(row, fp) == ~row.revoked /\ row.expiresAt > now

RowAccepts(row, fp) == ~row.revoked /\ row.expiresAt > now /\ row.fp = fp

Validate(c) ==
    /\ call[c].pc = "lookup"
    /\ LET j == call[c].jti
           fp == Fingerprint(call[c].user, call[c].place)
       IN  accepted' = IF j \in DOMAIN table /\ RowAccepts(table[j], fp)
                       THEN accepted \cup {[jti |-> j, fp |-> fp, old |-> call[c].old]}
                       ELSE accepted
    /\ Finish(c)
    /\ UNCHANGED <<challenge, enrolled, table, issued, now, verified>>

(* The SELECT throws: refused, reason internal *)
LookupThrows(c) ==
    /\ call[c].pc = "lookup"
    /\ Finish(c)
    /\ UNCHANGED <<challenge, enrolled, table, issued, now, verified, accepted>>

-----------------------------------------------------------------------------
(* The other writers of the tables *)

CreateChallenge ==
    /\ challenge' = now + ChallengeTtl
    /\ UNCHANGED <<enrolled, table, issued, call, now, verified, accepted>>

EnrollOrReset(u) ==
    /\ enrolled' = IF u \in enrolled THEN enrolled \ {u} ELSE enrolled \cup {u}
    /\ UNCHANGED <<challenge, table, issued, call, now, verified, accepted>>

(* revokeMfaToken *)
RevokeToken(j) ==
    /\ j \in DOMAIN table
    /\ table' = [table EXCEPT ![j].revoked = TRUE]
    /\ UNCHANGED <<challenge, enrolled, issued, call, now, verified, accepted>>

Tick ==
    /\ now < MaxNow /\ now' = now + 1
    /\ UNCHANGED <<challenge, enrolled, table, issued, call, verified, accepted>>

Next ==
    \/ \E c \in Calls, u \in Users, p \in Places :
         \/ Verify(c, u, p)
         \/ \E j \in Jtis : MintDemo(c, u, p, j)
         \/ \E t \in issued : Present(c, t, u, p)
    \/ \E c \in Calls, j \in Jtis : CheckCode(c, j) \/ RetryToken(c, j)
    \/ \E c \in Calls : \/ CodeRefused(c) \/ InsertToken(c) \/ Collision(c) \/ InsertThrows(c)
                        \/ Validate(c) \/ LookupThrows(c)
    \/ CreateChallenge
    \/ \E u \in Users : EnrollOrReset(u)
    \/ \E j \in Jtis : RevokeToken(j)
    \/ Tick

Spec == Init /\ [][Next]_vars

-----------------------------------------------------------------------------
(* Properties *)

TokenRows == [fp : Fingerprints, expiresAt : Nat, revoked : BOOLEAN]

(* Types of the tables and the handlers. *)
TypeOK ==
    /\ challenge \in Nat \cup {-1} /\ enrolled \in SUBSET Users
    /\ DOMAIN table \subseteq Jtis /\ \A j \in DOMAIN table : table[j] \in TokenRows
    /\ issued \subseteq [jti : Jtis, exp : Nat, fp : Fingerprints]
    /\ call \in [Calls -> [pc : {"idle", "secret", "insert", "retry", "lookup"},
                           user : Users \cup {NoOne}, place : Places \cup {NoOne},
                           jti : Jtis \cup {NoOne}, exp : Nat, old : BOOLEAN]]
    /\ now \in 0..MaxNow
    /\ verified \in SUBSET Fingerprints
    /\ accepted \subseteq [jti : Jtis, fp : Fingerprints, old : BOOLEAN]

(* ADR-0003: a token promotes only a user on a device and address that     *)
(* passed the second factor there, even when two tokens share a jti.       *)
AcceptedWasVerified == \A a \in accepted : a.fp \in verified

(* WR-01: a token revoked before a request presents it is never accepted   *)
(* by that request.                                                        *)
RevokedNeverAccepted == \A a \in accepted : ~a.old

(* validateMfaToken says ok only of a token of a verified holder that was  *)
(* not revoked when it was presented, under collisions and interleavings.  *)
AcceptedIsGenuine == AcceptedWasVerified /\ RevokedNeverAccepted

(* mfa-challenger.service.ts: "Persist token row for jti revocation        *)
(* check": every token handed out has its row under its own jti.           *)
IssuedTokenHasItsRow ==
    \A t \in issued : t.jti \in DOMAIN table /\ table[t.jti].fp = t.fp

=============================================================================

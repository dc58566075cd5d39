--------------------------- MODULE MfaEnrollment ---------------------------
(***************************************************************************)
(* TOTP enrollment: MfaEnroller (src/mfa/mfa-enroller.service.ts) over the *)
(* in-memory PendingEnrollmentStore (enrollment.store.ts) and the          *)
(* user_secrets table (repositories/user-secrets.repository.ts).           *)
(*                                                                         *)
(* A handler runs without interruption up to its database statement; the   *)
(* statement takes effect at a later step, or fails, or takes effect and   *)
(* loses its acknowledgement; the handler resumes at a still later step.   *)
(* Handlers of different calls interleave at those points.  A restart      *)
(* loses the pending store and keeps the table.                            *)
(***************************************************************************)
EXTENDS Integers, FiniteSets

CONSTANTS Users,
          Calls,        \* slots for concurrently running handlers
          MaxAttempts,  \* ENROLL_MAX_ATTEMPTS
          PendingTtl,   \* MFA_ENROLL_PENDING_TTL_MS, in ticks
          MaxIds,       \* bound: enrollments started
          MaxNow,       \* bound: the clock
          MaxCrashes    \* bound: restarts

ASSUME EnrollmentAssumption ==
    /\ IsFiniteSet(Users) /\ IsFiniteSet(Calls)
    /\ MaxAttempts \in Nat \ {0} /\ PendingTtl \in Nat \ {0}
    /\ MaxIds \in Nat /\ MaxNow \in Nat /\ MaxCrashes \in Nat

(* enrollmentIds in the order they are made; each carries a fresh secret,  *)
(* so an id also names the secret, and 0 is "no secret stored".            *)
Ids == 1..MaxIds
NoOne == "no_one"

VARIABLES pending,    \* PendingEnrollmentStore: id -> expiry and failed attempts
          owner,      \* the user each id was issued to
          made,       \* ids issued so far
          secrets,    \* user_secrets: the stored secret of each user
          call,       \* the handlers under way
          now,
          guesses,    \* history: wrong codes tried against each secret
          proven,     \* history: ids whose owner presented a valid code in time
          limited,    \* ids for which MFA_RATE_LIMITED was emitted
          crashes

vars == <<pending, owner, made, secrets, call, now, guesses, proven, limited, crashes>>

Idle == [pc |-> "idle", user |-> NoOne, id |-> 0, seen |-> 0]

Init ==
    /\ pending = << >>
    /\ owner = [i \in Ids |-> NoOne]
    /\ made = 0
    /\ secrets = [u \in Users |-> 0]
    /\ call = [c \in Calls |-> Idle]
    /\ now = 0
    /\ guesses = [i \in Ids |-> 0]
    /\ proven = {} /\ limited = {}
    /\ crashes = 0

-----------------------------------------------------------------------------
(* PendingEnrollmentStore *)

Expired(i) == now >= pending[i].expiresAt
Live(i) == i \in DOMAIN pending /\ ~Expired(i)
LiveOf(u) == {i \in DOMAIN pending : ~Expired(i) /\ owner[i] = u}
Without(ids) == [i \in DOMAIN pending \ ids |-> pending[i]]

(* hasPendingForUser walks the Map in insertion order, dropping the        *)
(* expired entries it meets before the first live one of the user.         *)
SweptFor(u) == {i \in DOMAIN pending : Expired(i) /\ \A j \in LiveOf(u) : i < j}

-----------------------------------------------------------------------------
(* createEnrollment *)

Finish(c) == call' = [call EXCEPT ![c] = Idle]
Goto(c, pc) == call' = [call EXCEPT ![c].pc = pc]

(* The bound on ids also counts the enrollments that are under way. *)
IdLeft == made + Cardinality({c \in Calls : call[c].pc \in {"enroll_read", "enroll_resume"}}) < MaxIds

Enroll(c, u) ==
    /\ call[c].pc = "idle" /\ IdLeft
    /\ pending' = Without(SweptFor(u))
    /\ IF LiveOf(u) # {} THEN UNCHANGED call          \* already_enrolled
       ELSE call' = [call EXCEPT ![c] = [pc |-> "enroll_read", user |-> u, id |-> 0, seen |-> 0]]
    /\ UNCHANGED <<owner, made, secrets, now, guesses, proven, limited, crashes>>

(* getEncryptedSecret runs in the database ... *)
EnrollRead(c) ==
    /\ call[c].pc = "enroll_read"
    /\ call' = [call EXCEPT ![c].pc = "enroll_resume", ![c].seen = secrets[call[c].user]]
    /\ UNCHANGED <<pending, owner, made, secrets, now, guesses, proven, limited, crashes>>

(* ... or throws: { ok: false, reason: 'internal' } *)
EnrollReadFails(c) ==
    /\ call[c].pc = "enroll_read"
    /\ Finish(c)
    /\ UNCHANGED <<pending, owner, made, secrets, now, guesses, proven, limited, crashes>>

EnrollResume(c) ==
    /\ call[c].pc = "enroll_resume"
    /\ IF call[c].seen # 0 THEN UNCHANGED <<pending, owner, made>>     \* already_enrolled
       ELSE /\ made < MaxIds
            /\ made' = made + 1
            /\ owner' = [owner EXCEPT ![made'] = call[c].user]
            /\ pending' = [i \in DOMAIN pending \cup {made'} |->
                              IF i = made' THEN [expiresAt |-> now + PendingTtl, attempts |-> 0]
                              ELSE pending[i]]
    /\ Finish(c)
    /\ UNCHANGED <<secrets, now, guesses, proven, limited, crashes>>

-----------------------------------------------------------------------------
(* confirmEnrollment *)

(* Missing or expired (and evicted on read), or another user's entry.      *)
ConfirmRefused(c, u, i) ==
    /\ call[c].pc = "idle"
    /\ ~Live(i) \/ owner[i] # u
    /\ pending' = IF i \in DOMAIN pending /\ Expired(i) THEN Without({i}) ELSE pending
    /\ UNCHANGED <<owner, made, secrets, call, now, guesses, proven, limited, crashes>>

FaultyConfirmWrong(c, u, i) ==
    /\ call[c].pc = "idle" /\ Live(i) /\ owner[i] = u
    /\ guesses' = [guesses EXCEPT ![i] = @ + 1]
    /\ pending' = IF pending[i].attempts + 1 > MaxAttempts THEN Without({i})
                  ELSE [pending EXCEPT ![i].attempts = @ + 1]
    /\ limited' = IF pending[i].attempts + 1 > MaxAttempts THEN limited \cup {i} ELSE limited
    /\ UNCHANGED <<owner, made, secrets, call, now, proven, crashes>>

(* A wrong code: MFA_FAILED, one attempt more, and at the cap the entry is *)
(* dropped and MFA_RATE_LIMITED emitted.                                   *)
ConfirmWrong(c, u, i) ==
    /\ call[c].pc = "idle" /\ Live(i) /\ owner[i] = u
    /\ guesses' = [guesses EXCEPT ![i] = @ + 1]
    /\ LET exhausted == pending[i].attempts + 1 >= MaxAttempts
       IN  /\ pending' = IF exhausted THEN Without({i})
                         ELSE [pending EXCEPT ![i].attempts = @ + 1]
           /\ limited' = IF exhausted THEN limited \cup {i} ELSE limited
    /\ UNCHANGED <<owner, made, secrets, call, now, proven, crashes>>

FaultyConfirmRight(c, u, i) ==
    /\ call[c].pc = "idle" /\ Live(i)
    /\ proven' = IF owner[i] = u THEN proven \cup {i} ELSE proven
    /\ call' = [call EXCEPT ![c] = [pc |-> "confirm_save", user |-> u, id |-> i, seen |-> 0]]
    /\ UNCHANGED <<pending, owner, made, secrets, now, guesses, limited, crashes>>

(* A valid code: the secret is encrypted and its save is under way.        *)
ConfirmRight(c, u, i) ==
    /\ call[c].pc = "idle" /\ Live(i) /\ owner[i] = u
    /\ proven' = proven \cup {i}
    /\ call' = [call EXCEPT ![c] = [pc |-> "confirm_save", user |-> u, id |-> i, seen |-> 0]]
    /\ UNCHANGED <<pending, owner, made, secrets, now, guesses, limited, crashes>>

(* The upsert: last write wins *)
Save(c) ==
    /\ call[c].pc = "confirm_save"
    /\ secrets' = [secrets EXCEPT ![call[c].user] = call[c].id]
    /\ \E answer \in {"confirm_saved", "confirm_failed"} : Goto(c, answer)
    /\ UNCHANGED <<pending, owner, made, now, guesses, proven, limited, crashes>>

SaveFails(c) ==
    /\ call[c].pc = "confirm_save"
    /\ Goto(c, "confirm_failed")
    /\ UNCHANGED <<pending, owner, made, secrets, now, guesses, proven, limited, crashes>>

ConfirmResume(c) ==
    /\ call[c].pc \in {"confirm_saved", "confirm_failed"}
    /\ pending' = IF call[c].pc = "confirm_saved" THEN Without({call[c].id}) ELSE pending
    /\ Finish(c)
    /\ UNCHANGED <<owner, made, secrets, now, guesses, proven, limited, crashes>>

-----------------------------------------------------------------------------
(* deleteEnrollment, the admin's reset *)
Reset(c, u) ==
    /\ call[c].pc = "idle"
    /\ call' = [call EXCEPT ![c] = [pc |-> "reset", user |-> u, id |-> 0, seen |-> 0]]
    /\ UNCHANGED <<pending, owner, made, secrets, now, guesses, proven, limited, crashes>>

ResetRuns(c) ==
    /\ call[c].pc = "reset"
    /\ \/ secrets' = [secrets EXCEPT ![call[c].user] = 0]
       \/ UNCHANGED secrets                        \* the statement failed: internal
    /\ Finish(c)
    /\ UNCHANGED <<pending, owner, made, now, guesses, proven, limited, crashes>>

-----------------------------------------------------------------------------
Tick ==
    /\ now < MaxNow /\ now' = now + 1
    /\ UNCHANGED <<pending, owner, made, secrets, call, guesses, proven, limited, crashes>>

Crash ==
    /\ crashes < MaxCrashes /\ crashes' = crashes + 1
    /\ pending' = << >> /\ call' = [c \in Calls |-> Idle]
    /\ UNCHANGED <<owner, made, secrets, now, guesses, proven, limited>>

Handler(c) ==
    \/ EnrollRead(c) \/ EnrollReadFails(c) \/ EnrollResume(c)
    \/ Save(c) \/ SaveFails(c) \/ ConfirmResume(c) \/ ResetRuns(c)

Next ==
    \/ \E c \in Calls, u \in Users : Enroll(c, u) \/ Reset(c, u)
    \/ \E c \in Calls, u \in Users, i \in Ids :
         i <= made /\ (ConfirmRefused(c, u, i) \/ ConfirmWrong(c, u, i) \/ ConfirmRight(c, u, i))
    \/ \E c \in Calls : Handler(c)
    \/ Tick \/ Crash

Spec == Init /\ [][Next]_vars

-----------------------------------------------------------------------------
(* Properties *)

PendingRows == [expiresAt : 0..(MaxNow + PendingTtl), attempts : 0..(MaxAttempts - 1)]

(* Types of the enrollment state. *)
TypeOK ==
    /\ DOMAIN pending \subseteq 1..made /\ \A i \in DOMAIN pending : pending[i] \in PendingRows
    /\ owner \in [Ids -> Users \cup {NoOne}] /\ made \in 0..MaxIds
    /\ secrets \in [Users -> 0..made]
    /\ call \in [Calls -> [pc : {"idle", "enroll_read", "enroll_resume", "confirm_save",
                                 "confirm_saved", "confirm_failed", "reset"},
                           user : Users \cup {NoOne}, id : 0..made, seen : 0..made]]
    /\ now \in 0..MaxNow /\ guesses \in [Ids -> Nat]
    /\ proven \in SUBSET (1..made) /\ limited \in SUBSET (1..made)
    /\ crashes \in 0..MaxCrashes

(* BL-02: at most ENROLL_MAX_ATTEMPTS wrong codes are ever tried against   *)
(* one secret, whatever runs concurrently; the last one is reported as     *)
(* MFA_RATE_LIMITED and leaves the secret unusable for a later confirm.    *)
GuessBudget ==
    \A i \in Ids : /\ guesses[i] <= MaxAttempts
                   /\ guesses[i] = MaxAttempts <=> i \in limited
                   /\ i \in limited => i \notin DOMAIN pending

(* T-11-01: a secret stored for a user was issued to that user, who        *)
(* presented a valid code for it while it was pending; so across restarts, *)
(* failed saves and lost acknowledgements.                                 *)
StoredSecretProven ==
    \A u \in Users : secrets[u] # 0 => owner[secrets[u]] = u /\ secrets[u] \in proven

(* D-06 as the code has it: the pending check runs before the database is  *)
(* read, so enrollments of one user that overlap may all go ahead, but     *)
(* never more of them are pending at once than handlers run at once.       *)
PendingBoundedByConcurrency ==
    \A u \in Users : Cardinality(LiveOf(u)) <= Cardinality(Calls)

(* BL-02, D-06: what an enrollment exposes to guessing is bounded, per     *)
(* secret and by the number of secrets a user can have pending at once.    *)
GuessingBounded == GuessBudget /\ PendingBoundedByConcurrency

(* mfa-enroller.service.ts:78: "D-06: block if already enrolled            *)
(* (confirmed) or pending enrollment exists".                              *)
OnePendingPerUser == \A u \in Users : Cardinality(LiveOf(u)) <= 1

=============================================================================

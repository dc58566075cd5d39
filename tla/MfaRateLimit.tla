---------------------------- MODULE MfaRateLimit ----------------------------
(***************************************************************************)
(* The per-user limit on MFA challenges: MfaChallenger.createChallenge     *)
(* (src/mfa/mfa-challenger.service.ts) over insertChallengeIfUnderLimit    *)
(* (repositories/mfa-challenge.repository.ts), which runs in DbService.tx  *)
(* (src/db/db.service.ts) at Postgres' READ COMMITTED level.               *)
(*                                                                         *)
(* Transactions interleave statement by statement.  A statement sees the   *)
(* rows committed when it starts; NOW() and created_at are the time the    *)
(* transaction began, which may be long before it gets the advisory lock.  *)
(***************************************************************************)
EXTENDS Integers, FiniteSets

CONSTANTS Users,
          Txs,      \* transactions, each used once
          Limit,    \* MFA_RATE_LIMIT_MAX
          Window,   \* MFA_RATE_LIMIT_WINDOW_MS, in ticks
          MaxNow    \* bound: the clock

(* What a configuration must satisfy *)
RateLimitAssumption ==
    /\ IsFiniteSet(Txs) /\ "free" \notin Txs
    /\ Limit \in Nat \ {0} /\ Window \in Nat \ {0} /\ MaxNow \in Nat

NoOne == "no_one"

VARIABLES tx,      \* the transactions: program counter, user, start time
          rows,    \* committed rows of mfa_challenges, by the transaction that wrote them
          lock,    \* holder of pg_advisory_xact_lock(hashtext(user))
          answer,  \* what createChallenge returned
          now

vars == <<tx, rows, lock, answer, now>>

Free == "free"

Init ==
    /\ tx = [t \in Txs |-> [pc |-> "new", user |-> NoOne, start |-> 0, inserted |-> FALSE]]
    /\ rows = {}
    /\ lock = [u \in Users |-> Free]
    /\ answer = [t \in Txs |-> "none"]
    /\ now = 0

-----------------------------------------------------------------------------
(* BEGIN *)
Begin(t, u) ==
    /\ tx[t].pc = "new"
    /\ tx' = [tx EXCEPT ![t] = [pc |-> "lock", user |-> u, start |-> now, inserted |-> FALSE]]
    /\ UNCHANGED <<rows, lock, answer, now>>

(* SELECT pg_advisory_xact_lock(hashtext($1)) waits for the holder *)
FaultyTakeLock(t) ==
    /\ tx[t].pc = "lock"
    /\ tx' = [tx EXCEPT ![t].pc = "insert"]
    /\ UNCHANGED <<rows, lock, answer, now>>

TakeLock(t) ==
    /\ tx[t].pc = "lock"
    /\ lock[tx[t].user] = Free
    /\ lock' = [lock EXCEPT ![tx[t].user] = t]
    /\ tx' = [tx EXCEPT ![t].pc = "insert"]
    /\ UNCHANGED <<rows, answer, now>>

(* COUNT of the user's rows with created_at > NOW() - window *)
Recent(t) ==
    {r \in rows : tx[r].user = tx[t].user /\ tx[r].start > tx[t].start - Window}

UnderLimit(t) == Cardinality(Recent(t)) < Limit

(* INSERT ... SELECT ... WHERE count < max *)
Insert(t) ==
    /\ tx[t].pc = "insert"
    /\ tx' = [tx EXCEPT ![t].pc = "commit", ![t].inserted = UnderLimit(t)]
    /\ UNCHANGED <<rows, lock, answer, now>>

Release(t) == lock' = [u \in Users |-> IF lock[u] = t THEN Free ELSE lock[u]]

(* COMMIT makes the row visible and drops the lock.  Its acknowledgement   *)
(* may be lost: tx throws and createChallenge answers 'internal'.          *)
Commit(t) ==
    /\ tx[t].pc = "commit"
    /\ rows' = IF tx[t].inserted THEN rows \cup {t} ELSE rows
    /\ Release(t)
    /\ tx' = [tx EXCEPT ![t].pc = "done"]
    /\ \E a \in {IF tx[t].inserted THEN "ok" ELSE "rate_limited", "internal"} :
         answer' = [answer EXCEPT ![t] = a]
    /\ UNCHANGED now

(* Any statement may fail: ROLLBACK (or the end of the session) drops the  *)
(* uncommitted row and the lock.                                           *)
Rollback(t) ==
    /\ tx[t].pc \in {"lock", "insert", "commit"}
    /\ Release(t)
    /\ tx' = [tx EXCEPT ![t].pc = "done", ![t].inserted = FALSE]
    /\ answer' = [answer EXCEPT ![t] = "internal"]
    /\ UNCHANGED <<rows, now>>

Tick == now < MaxNow /\ now' = now + 1 /\ UNCHANGED <<tx, rows, lock, answer>>

Step(t) == TakeLock(t) \/ Insert(t) \/ Commit(t) \/ Rollback(t)

Next ==
    \/ \E t \in Txs, u \in Users : Begin(t, u)
    \/ \E t \in Txs : Step(t)
    \/ Tick

Spec == Init /\ [][Next]_vars

-----------------------------------------------------------------------------
(* Properties *)

(* Types of the transactions and the lock. *)
TypeOK ==
    /\ tx \in [Txs -> [pc : {"new", "lock", "insert", "commit", "done"},
                       user : Users \cup {NoOne}, start : 0..MaxNow, inserted : BOOLEAN]]
    /\ rows \in SUBSET Txs
    /\ lock \in [Users -> Txs \cup {Free}]
    /\ answer \in [Txs -> {"none", "ok", "rate_limited", "internal"}]
    /\ now \in 0..MaxNow

(* WR-NEW-02: in every window of Window ticks a user has at most Limit     *)
(* challenges by created_at, although transactions commit in another order *)
(* than they began and each counts only what was committed.                *)
RateLimitHolds ==
    \A u \in Users : \A from \in (-Window)..MaxNow :
        Cardinality({r \in rows : /\ tx[r].user = u
                                  /\ tx[r].start > from
                                  /\ tx[r].start <= from + Window}) <= Limit

=============================================================================

------------------------------ MODULE Hashcash ------------------------------
(***************************************************************************)
(* Proof of work: HashcashService (src/hashcash/hashcash.service.ts), the  *)
(* bounded UsedNonceStore (used-nonce-store.ts), difficultyForScore        *)
(* (hashcash.util.ts) and the stage that calls them                        *)
(* (src/gateway/pipeline/stages/hashcash.stage.ts).                        *)
(*                                                                         *)
(* The nonce is stateless: the server keeps no challenge, only the nonce   *)
(* texts that were solved.  A challenge is its signed payload, so two      *)
(* challenges for the same user and difficulty in the same second are one. *)
(* The header that carries it back is a text: the payload and its MAC are  *)
(* decoded leniently, so several texts stand for one challenge.  Here they *)
(* differ in the padding at their end; the solution that follows may begin *)
(* with padding too, and the digest is taken over the two texts joined.    *)
(* Time is in seconds; scores are in thousandths.                          *)
(***************************************************************************)
EXTENDS Integers, Sequences, FiniteSets, SequencesExt

CONSTANTS Users,      \* user and device, the identity a nonce is bound to
          Scores,     \* trust scores above the trigger threshold
          DiffMin, DiffMax,
          Ttl,        \* challengeTtlMs / 1000
          Capacity,   \* usedNonceCapacity
          MaxPad,     \* bound: padding at the end of a nonce
          MaxLead,    \* bound: padding at the start of a solution
          MaxIssued,  \* bound: challenges signed
          MaxNow,     \* bound: the clock
          MaxSolved   \* bound: solutions accepted since boot

(* What a configuration must satisfy *)
HashcashAssumption ==
    /\ Scores \subseteq 0..1000
    /\ DiffMin \in Nat /\ DiffMax \in Nat /\ DiffMin <= DiffMax
    /\ Ttl \in Nat /\ Capacity \in Nat \ {0}
    /\ MaxPad \in Nat /\ MaxLead \in Nat /\ MaxIssued \in Nat /\ MaxNow \in Nat /\ MaxSolved \in Nat

Clamp(x, lo, hi) == IF x < lo THEN lo ELSE IF x > hi THEN hi ELSE x

(* clamp(round(min + (score - 0.7) * (max - min) / 0.2), min, max); the    *)
(* sum under the clamp is rounded half up.                                 *)
difficultyForScore(score) ==
    Clamp((2 * (200 * DiffMin + (score - 700) * (DiffMax - DiffMin)) + 200) \div 400,
          DiffMin, DiffMax)

VARIABLES issued,    \* challenges the server has signed
          store,     \* UsedNonceStore: solved nonce texts, oldest first
          now,
          solved     \* history since boot: the accepted solutions, in order

vars == <<issued, store, now, solved>>

Init ==
    /\ issued = {}
    /\ store = << >>
    /\ now = 0
    /\ solved = << >>

-----------------------------------------------------------------------------
(* UsedNonceStore.  Its clock is read by itself, at `at'.                  *)

(* The nonce texts whose bytes are those of an issued challenge *)
Headers == [challenge : issued, pad : 0..MaxPad]

Holds(n) == n \in ToSet(store)

Lapsed(n, at) == at >= n.challenge.exp

(* has(): an expired entry is dropped on the way *)
AfterHas(n, at) ==
    IF Holds(n) /\ Lapsed(n, at)
    THEN RemoveAt(store, CHOOSE p \in 1..Len(store) : store[p] = n)
    ELSE store

FaultyAddUnbounded(s, n) == (IF Len(s) > Capacity THEN Tail(s) ELSE s) \o <<n>>

(* add(): at capacity the oldest entry makes room *)
Add(s, n) == (IF Len(s) >= Capacity THEN Tail(s) ELSE s) \o <<n>>

-----------------------------------------------------------------------------
(* HashcashService *)

Challenge(u, score, at) ==
    [sub |-> u, diff |-> difficultyForScore(score), exp |-> at + Ttl]

(* issueChallenge, from a request without a solution *)
Issue(u, score) ==
    /\ issued' = issued \cup {Challenge(u, score, now)}
    /\ Cardinality(issued') <= MaxIssued
    /\ UNCHANGED <<store, now, solved>>

FaultyBeforeReplay(n, u, score) ==
    /\ n.challenge.sub = u
    /\ n.challenge.exp >= now
    /\ n.challenge.diff = difficultyForScore(score)

(* verifySolution, steps 2 to 6: the bytes are signed, the payload is the  *)
(* caller's, not expired, and of the difficulty its score asks for now     *)
BeforeReplay(n, u, score) ==
    /\ n.challenge.sub = u
    /\ n.challenge.exp > now
    /\ n.challenge.diff = difficultyForScore(score)

(* hashSolution: the text under the digest of an accepted solution *)
Hashed(s) == [challenge |-> s.nonce.challenge, pad |-> s.nonce.pad + s.lead]

(* Steps 7 to 9: the text is not in the store or lapsed there; the digest  *)
(* of the joined texts has enough zeros; the nonce text is used up.        *)
Accept(n, lead, u, score, at) ==
    /\ Len(solved) < MaxSolved
    /\ BeforeReplay(n, u, score)
    /\ Holds(n) => Lapsed(n, at)
    /\ store' = Add(AfterHas(n, at), n)
    /\ solved' = Append(solved, [nonce |-> n, lead |-> lead, at |-> at])
    /\ now' = at
    /\ UNCHANGED issued

(* A refused solution: the store is asked only about a nonce that passed   *)
(* the earlier steps; the stage answers with a new challenge.              *)
Refuse(n, u, score, at) ==
    /\ store' = IF BeforeReplay(n, u, score) THEN AfterHas(n, at) ELSE store
    /\ issued' = issued \cup {Challenge(u, score, at)}
    /\ Cardinality(issued') <= MaxIssued
    /\ now' = at
    /\ UNCHANGED solved

Tick == now < MaxNow /\ now' = now + 1 /\ UNCHANGED <<issued, store, solved>>

(* A restart forgets the used nonces but not the signing secret. *)
Restart ==
    /\ solved # << >>
    /\ store' = << >> /\ solved' = << >>
    /\ UNCHANGED <<issued, now>>

Next ==
    \/ \E u \in Users, score \in Scores :
         \/ Issue(u, score)
         \/ \E n \in Headers, at \in now..MaxNow :
              \/ \E lead \in 0..MaxLead : Accept(n, lead, u, score, at)
              \/ Refuse(n, u, score, at)
    \/ Tick \/ Restart

Spec == Init /\ [][Next]_vars

-----------------------------------------------------------------------------
(* Properties *)

Challenges == [sub : Users, diff : DiffMin..DiffMax, exp : 0..(MaxNow + Ttl)]

Texts == [challenge : Challenges, pad : 0..MaxPad]

Solutions == [nonce : Texts, lead : 0..MaxLead, at : 0..MaxNow]

(* Types of the store; it never outgrows its capacity and holds no text    *)
(* twice.                                                                  *)
TypeOK ==
    /\ issued \subseteq Challenges
    /\ store \in Seq(Texts) /\ Len(store) <= Capacity /\ IsInjective(store)
    /\ now \in 0..MaxNow
    /\ solved \in Seq(Solutions) /\ Len(solved) <= MaxSolved

(* A nonce text is used once, but for two gaps: Capacity other solutions   *)
(* accepted in between, which pushed it out of the store, or a call during *)
(* which it expires, after the service's reading of the clock and before   *)
(* the store's.  The second gap opens once: a text accepted in it is never *)
(* accepted again.                                                         *)
ReplayNeedsFlood ==
    \A i, j \in 1..Len(solved) :
        /\ i < j /\ j - i <= Capacity
        /\ solved[i].nonce = solved[j].nonce
        => ~Lapsed(solved[i].nonce, solved[i].at) /\ Lapsed(solved[j].nonce, solved[j].at)

(* What "single-use replay defense" (README.md:22) promises: inside the    *)
(* lifetime of a challenge, and with no flood of other solutions, the work *)
(* done for one digest is accepted once.  The code marks the text of the   *)
(* nonce, not the bytes it decodes to: padding moved from the solution to  *)
(* the nonce leaves the digest as it is and makes a nonce text the store   *)
(* has not seen.                                                           *)
SolutionUsedOnce ==
    \A i, j \in 1..Len(solved) :
        /\ i < j /\ j - i <= Capacity
        /\ ~Lapsed(solved[j].nonce, solved[j].at)
        => Hashed(solved[i]) # Hashed(solved[j])

=============================================================================

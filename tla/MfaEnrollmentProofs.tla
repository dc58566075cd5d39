------------------------- MODULE MfaEnrollmentProofs -------------------------
(* Machine-checked proofs about MfaEnrollment, for any finite number of     *)
(* users and concurrent handlers, any attempt cap and any lifetime.         *)
EXTENDS MfaEnrollment, FiniteSetTheorems, TLAPS

-----------------------------------------------------------------------------
(* The inductive invariant *)

Pcs == {"idle", "enroll_read", "enroll_resume", "confirm_save", "confirm_saved",
        "confirm_failed", "reset"}

CallRecords == [pc : Pcs, user : Users \cup {NoOne}, id : 0..made, seen : 0..made]

(* The attempts counter of a pending entry is the number of wrong codes    *)
(* tried against its secret, and nobody guesses a secret not yet issued.   *)
Ledger ==
    /\ \A i \in DOMAIN pending : guesses[i] = pending[i].attempts
    /\ \A i \in Ids : i > made => guesses[i] = 0

(* What a handler carries across its await: a known user, and before the   *)
(* upsert a secret of that user, proven by a valid code.                   *)
Sound(x) ==
    /\ x.pc # "idle" => x.user \in Users
    /\ x.pc = "confirm_save" => x.id \in proven /\ owner[x.id] = x.user

CallsSound == \A c \in Calls : Sound(call[c])

(* The enrollments of a user that passed the pending check and have not    *)
(* put their entry yet.                                                    *)
Enrolling(u) ==
    {c \in Calls : call[c].pc \in {"enroll_read", "enroll_resume"} /\ call[c].user = u}

(* Each pending entry was paid for by a handler that ran at the same time  *)
(* as those still enrolling.                                               *)
SlotsHold(u) == Cardinality(LiveOf(u)) + Cardinality(Enrolling(u)) <= Cardinality(Calls)

ConcurrencyBound == \A u \in Users : SlotsHold(u)

Inv == /\ TypeOK /\ Ledger /\ GuessBudget /\ CallsSound
       /\ StoredSecretProven /\ ConcurrencyBound

-----------------------------------------------------------------------------
(* Lemmas about the store and the handlers *)

(* A handler that ends carries nothing. *)
LEMMA IdleSound ==
    ASSUME made \in Nat
    PROVE  Idle \in CallRecords /\ Idle.pc = "idle" /\ Sound(Idle)
  BY DEF Idle, CallRecords, Pcs, Sound

(* Dropping entries leaves the others as they were. *)
LEMMA WithoutDrops ==
    ASSUME NEW ids
    PROVE  /\ DOMAIN Without(ids) = DOMAIN pending \ ids
           /\ \A i \in DOMAIN Without(ids) : Without(ids)[i] = pending[i]
  BY DEF Without

(* The sets counted by ConcurrencyBound are finite. *)
LEMMA SlotsFinite ==
    ASSUME TypeOK, NEW u
    PROVE  /\ IsFiniteSet(LiveOf(u)) /\ IsFiniteSet(Enrolling(u))
           /\ Cardinality(LiveOf(u)) \in Nat /\ Cardinality(Enrolling(u)) \in Nat
           /\ Cardinality(Calls) \in Nat /\ Cardinality(Enrolling(u)) <= Cardinality(Calls)
<1>1. LiveOf(u) \subseteq 1..made /\ made \in Nat
  BY DEF TypeOK, LiveOf
<1>2. IsFiniteSet(1..made)
  BY <1>1, FS_Interval
<1>3. IsFiniteSet(LiveOf(u))
  BY <1>1, <1>2, FS_Subset
<1>4. Enrolling(u) \subseteq Calls /\ IsFiniteSet(Calls)
  BY EnrollmentAssumption DEF Enrolling
<1>5. IsFiniteSet(Enrolling(u)) /\ Cardinality(Enrolling(u)) <= Cardinality(Calls)
  BY <1>4, FS_Subset
<1> QED
  BY <1>3, <1>4, <1>5, FS_CardinalityType

(* Entries that go, expire or stay, and handlers that end or stay, never   *)
(* add to what a user has pending.                                         *)
LEMMA SlotsShrink ==
    ASSUME Inv, TypeOK', NEW u \in Users,
           LiveOf(u)' \subseteq LiveOf(u), Enrolling(u)' \subseteq Enrolling(u)
    PROVE  SlotsHold(u)'
<1>0. TypeOK
  BY DEF Inv
<1>1. /\ IsFiniteSet(LiveOf(u)) /\ IsFiniteSet(Enrolling(u))
      /\ Cardinality(LiveOf(u)) \in Nat /\ Cardinality(Enrolling(u)) \in Nat
      /\ Cardinality(Calls) \in Nat
  BY <1>0, SlotsFinite
<1>2. /\ IsFiniteSet(LiveOf(u)') /\ Cardinality(LiveOf(u)') <= Cardinality(LiveOf(u))
      /\ IsFiniteSet(Enrolling(u)') /\ Cardinality(Enrolling(u)') <= Cardinality(Enrolling(u))
  BY <1>1, FS_Subset
<1>3. Cardinality(LiveOf(u)') \in Nat /\ Cardinality(Enrolling(u)') \in Nat
  BY <1>2, FS_CardinalityType
<1>4. SlotsHold(u)
  BY DEF Inv, ConcurrencyBound
<1> QED
  BY <1>1, <1>2, <1>3, <1>4 DEF SlotsHold

(* The store loses entries, or none, and keeps the rest.                   *)
Shrinks ==
    /\ DOMAIN pending' \subseteq DOMAIN pending
    /\ \A i \in DOMAIN pending' : pending'[i] = pending[i]

(* A store that only loses entries keeps its types, the ledger and the     *)
(* guess budget, and no user gains a pending one, also as time passes.     *)
LEMMA StoreShrinks ==
    ASSUME Inv, Shrinks, UNCHANGED <<owner, made, guesses, limited>>,
           now' \in 0..MaxNow, now' >= now
    PROVE  /\ DOMAIN pending' \subseteq 1..made'
           /\ \A i \in DOMAIN pending' : pending'[i] \in PendingRows
           /\ Ledger' /\ GuessBudget'
           /\ \A u : LiveOf(u)' \subseteq LiveOf(u)
<1>1. /\ DOMAIN pending' \subseteq 1..made'
      /\ \A i \in DOMAIN pending' : pending'[i] \in PendingRows
  BY DEF Inv, TypeOK, Shrinks
<1>2. Ledger' /\ GuessBudget'
  BY DEF Inv, Ledger, GuessBudget, Shrinks
<1>3. ASSUME NEW u, NEW i \in LiveOf(u)' PROVE i \in LiveOf(u)
  <2>1. i \in DOMAIN pending' /\ ~(now' >= pending'[i].expiresAt) /\ owner'[i] = u
    BY DEF LiveOf, Expired
  <2>2. i \in DOMAIN pending /\ pending'[i] = pending[i] /\ pending[i].expiresAt \in Int
    BY <2>1, EnrollmentAssumption DEF Shrinks, Inv, TypeOK, PendingRows
  <2>3. ~(now >= pending[i].expiresAt)
    BY <2>1, <2>2, EnrollmentAssumption DEF Inv, TypeOK
  <2> QED
    BY <2>1, <2>2, <2>3 DEF LiveOf, Expired
<1> QED
  BY <1>1, <1>2, <1>3

(* One handler moves on to x. *)
LEMMA CallMoves ==
    ASSUME Inv, NEW c \in Calls, NEW x \in CallRecords, Sound(call[c])',
           call' = [call EXCEPT ![c] = x], made' = made, owner' = owner,
           proven \subseteq proven'
    PROVE  /\ call' \in [Calls -> CallRecords'] /\ CallsSound'
           /\ \A u : Enrolling(u)' \subseteq
                        Enrolling(u) \cup (IF /\ x.pc \in {"enroll_read", "enroll_resume"}
                                              /\ x.user = u
                                           THEN {c} ELSE {})
<1>1. call' \in [Calls -> CallRecords] /\ call'[c] = x /\ CallRecords' = CallRecords
  BY DEF Inv, TypeOK, CallRecords, Pcs
<1>2. \A d \in Calls : d # c => call'[d] = call[d] /\ Sound(call[d])
  BY DEF Inv, TypeOK, CallsSound
<1>3. CallsSound'
  <2> SUFFICES ASSUME NEW d \in Calls PROVE Sound(call[d])'
    BY DEF CallsSound
  <2>1. CASE d = c
    BY <2>1
  <2>2. CASE d # c
    BY <1>2, <2>2 DEF Sound
  <2> QED
    BY <2>1, <2>2
<1>4. ASSUME NEW u
      PROVE  Enrolling(u)' \subseteq
               Enrolling(u) \cup (IF /\ x.pc \in {"enroll_read", "enroll_resume"}
                                     /\ x.user = u
                                  THEN {c} ELSE {})
  BY <1>1, <1>2 DEF Enrolling
<1> QED
  BY <1>1, <1>3, <1>4

LEMMA InitInv == Init => Inv
<1> SUFFICES ASSUME Init PROVE Inv
  OBVIOUS
<1>0. made = 0 /\ DOMAIN pending = {}
  BY DEF Init
<1>1. TypeOK
  BY <1>0, EnrollmentAssumption, IdleSound DEF Init, TypeOK, CallRecords, Pcs
<1>2. Ledger /\ GuessBudget /\ StoredSecretProven
  BY <1>0, EnrollmentAssumption DEF Init, Ledger, GuessBudget, StoredSecretProven, Ids
<1>3. CallsSound /\ \A u : Enrolling(u) = {} /\ LiveOf(u) = {}
  BY <1>0, IdleSound DEF Init, CallsSound, Enrolling, LiveOf
<1>4. ConcurrencyBound
  BY <1>1, <1>3, SlotsFinite, FS_EmptySet DEF ConcurrencyBound, SlotsHold
<1> QED
  BY <1>1, <1>2, <1>3, <1>4 DEF Inv

-----------------------------------------------------------------------------
(* Steps that only lose entries and move handlers *)

LEMMA QuietStep ==
    ASSUME Inv, Shrinks, UNCHANGED <<owner, made, guesses, limited, secrets>>,
           now' \in 0..MaxNow, now' >= now, crashes' \in 0..MaxCrashes,
           proven \subseteq proven', proven' \in SUBSET (1..made),
           call' \in [Calls -> CallRecords'], CallsSound',
           \A u \in Users : Enrolling(u)' \subseteq Enrolling(u)
    PROVE  Inv'
<1>1. /\ DOMAIN pending' \subseteq 1..made'
      /\ \A i \in DOMAIN pending' : pending'[i] \in PendingRows
      /\ Ledger' /\ GuessBudget'
      /\ \A u : LiveOf(u)' \subseteq LiveOf(u)
  BY StoreShrinks
<1>2. TypeOK'
  BY <1>1 DEF Inv, TypeOK, CallRecords, Pcs
<1>3. StoredSecretProven'
  BY DEF Inv, StoredSecretProven
<1>4. ConcurrencyBound'
  BY <1>1, <1>2, SlotsShrink DEF ConcurrencyBound
<1> QED
  BY <1>1, <1>2, <1>3, <1>4 DEF Inv

(* Of those, one handler goes on to x, which enrolls for no user it did    *)
(* not enroll for already.                                                 *)
LEMMA QuietMove ==
    ASSUME Inv, Shrinks, UNCHANGED <<owner, made, guesses, limited, secrets, now, crashes>>,
           proven \subseteq proven', proven' \in SUBSET (1..made),
           NEW c \in Calls, NEW x \in CallRecords, call' = [call EXCEPT ![c] = x],
           Sound(call[c])',
           x.pc \in {"enroll_read", "enroll_resume"} => c \in Enrolling(x.user)
    PROVE  Inv'
<1>1. /\ call' \in [Calls -> CallRecords'] /\ CallsSound'
      /\ \A u : Enrolling(u)' \subseteq
                   Enrolling(u) \cup (IF /\ x.pc \in {"enroll_read", "enroll_resume"}
                                         /\ x.user = u
                                      THEN {c} ELSE {})
  BY CallMoves
<1>2. \A u \in Users : Enrolling(u)' \subseteq Enrolling(u)
  BY <1>1
<1>3. now' \in 0..MaxNow /\ now' >= now /\ crashes' \in 0..MaxCrashes
  BY EnrollmentAssumption DEF Inv, TypeOK
<1> QED
  BY <1>1, <1>2, <1>3, QuietStep

(* The handler ends. *)
LEMMA QuietEnd ==
    ASSUME Inv, Shrinks, NEW c \in Calls, Finish(c),
           UNCHANGED <<owner, made, guesses, limited, secrets, now, crashes, proven>>
    PROVE  Inv'
<1>1. made \in Nat /\ proven' \in SUBSET (1..made)
  BY DEF Inv, TypeOK
<1>2. Idle \in CallRecords /\ Idle.pc = "idle"
  BY <1>1, IdleSound
<1>3. Sound(call[c])'
  BY <1>2 DEF Finish, Sound, Inv, TypeOK
<1> QED
  BY <1>1, <1>2, <1>3, QuietMove DEF Finish

(* No handler moves. *)
LEMMA QuietStay ==
    ASSUME Inv, Shrinks, UNCHANGED <<owner, made, guesses, limited, secrets, call, proven>>,
           now' \in 0..MaxNow, now' >= now, crashes' \in 0..MaxCrashes
    PROVE  Inv'
<1>1. CallsSound' /\ call' \in [Calls -> CallRecords'] /\ proven' \in SUBSET (1..made)
  BY DEF Inv, TypeOK, CallsSound, Sound, CallRecords, Pcs
<1>2. \A u \in Users : Enrolling(u)' \subseteq Enrolling(u)
  BY DEF Enrolling
<1> QED
  BY <1>1, <1>2, QuietStep

(* A store that is not touched. *)
LEMMA SameStore == UNCHANGED pending => Shrinks
  BY DEF Shrinks

(* A store that drops some entries. *)
LEMMA DroppedStore == ASSUME NEW ids, pending' = Without(ids) PROVE Shrinks
  BY WithoutDrops DEF Shrinks

-----------------------------------------------------------------------------
(* One lemma per action *)

(* createEnrollment up to its read of the database: the user has nothing   *)
(* live, so the handlers enrolling are all that counts.                    *)
LEMMA EnrollInv ==
    ASSUME Inv, NEW c \in Calls, NEW u \in Users, Enroll(c, u)
    PROVE  Inv'
<1> DEFINE x == [pc |-> "enroll_read", user |-> u, id |-> 0, seen |-> 0]
<1>1. Shrinks
  BY DroppedStore DEF Enroll
<1>2. now' \in 0..MaxNow /\ now' >= now /\ crashes' \in 0..MaxCrashes /\ made \in Nat
  BY EnrollmentAssumption DEF Enroll, Inv, TypeOK
<1>3. CASE UNCHANGED call
  BY <1>1, <1>2, <1>3, QuietStay DEF Enroll
<1>4. CASE LiveOf(u) = {} /\ call' = [call EXCEPT ![c] = x]
  <2>1. x \in CallRecords /\ x.pc = "enroll_read" /\ x.user = u
    BY <1>2 DEF CallRecords, Pcs
  <2> HIDE DEF x
  <2>0. Sound(call[c])'
    BY <1>4, <2>1 DEF Sound, Inv, TypeOK
  <2>2. /\ call' \in [Calls -> CallRecords'] /\ CallsSound'
        /\ \A v : Enrolling(v)' \subseteq
                     Enrolling(v) \cup (IF /\ x.pc \in {"enroll_read", "enroll_resume"}
                                           /\ x.user = v
                                        THEN {c} ELSE {})
    BY <1>4, <2>0, <2>1, CallMoves DEF Enroll
  <2>3. \A v \in Users : v # u => Enrolling(v)' \subseteq Enrolling(v)
    BY <2>1, <2>2
  <2>4. /\ DOMAIN pending' \subseteq 1..made'
        /\ \A i \in DOMAIN pending' : pending'[i] \in PendingRows
        /\ Ledger' /\ GuessBudget'
        /\ \A v : LiveOf(v)' \subseteq LiveOf(v)
    BY <1>1, <1>2, StoreShrinks DEF Enroll
  <2>5. TypeOK'
    BY <2>2, <2>4 DEF Enroll, Inv, TypeOK, CallRecords, Pcs
  <2>6. SlotsHold(u)'
    <3>1. LiveOf(u)' = {}
      BY <1>4, <2>4
    <3>2. /\ Cardinality(Enrolling(u)') <= Cardinality(Calls)
          /\ Cardinality(Enrolling(u)') \in Nat /\ Cardinality(Calls) \in Nat
      <4>1. Enrolling(u)' \subseteq Calls
        BY DEF Enrolling
      <4> QED
        BY <4>1, EnrollmentAssumption, FS_Subset, FS_CardinalityType
    <3> QED
      BY <3>1, <3>2, FS_EmptySet DEF SlotsHold
  <2>7. ASSUME NEW v \in Users, v # u PROVE SlotsHold(v)'
    BY <2>3, <2>4, <2>5, <2>7, SlotsShrink
  <2>8. ConcurrencyBound'
    BY <2>6, <2>7 DEF ConcurrencyBound
  <2>9. StoredSecretProven'
    BY DEF Enroll, Inv, StoredSecretProven
  <2> QED
    BY <2>2, <2>4, <2>5, <2>8, <2>9 DEF Inv
<1> QED
  BY <1>3, <1>4 DEF Enroll

(* The read of user_secrets. *)
LEMMA EnrollReadInv ==
    ASSUME Inv, NEW c \in Calls, EnrollRead(c)
    PROVE  Inv'
<1> DEFINE x == [call[c] EXCEPT !.pc = "enroll_resume", !.seen = secrets[call[c].user]]
<1>1. call[c] \in CallRecords /\ call[c].user \in Users /\ secrets[call[c].user] \in 0..made
  <2>1. call[c].user \in Users
    BY DEF EnrollRead, Inv, CallsSound, Sound
  <2> QED
    BY <2>1 DEF Inv, TypeOK, CallRecords, Pcs
<1>2. x \in CallRecords /\ x.pc = "enroll_resume" /\ x.user = call[c].user
  BY <1>1 DEF CallRecords, Pcs
<1>3. call' = [call EXCEPT ![c] = x]
  BY <1>1 DEF EnrollRead, Inv, TypeOK
<1> HIDE DEF x
<1>4. Sound(call[c])'
  BY <1>1, <1>2, <1>3 DEF Sound, Inv, TypeOK
<1>5. c \in Enrolling(x.user) /\ proven' \in SUBSET (1..made)
  BY <1>2 DEF Enrolling, EnrollRead, Inv, TypeOK
<1> QED
  BY <1>2, <1>3, <1>4, <1>5, QuietMove, SameStore DEF EnrollRead

(* The enrollment goes ahead: one handler less is enrolling, one entry     *)
(* more is pending, under an id nobody holds yet.                          *)
LEMMA EnrollResumeInv ==
    ASSUME Inv, NEW c \in Calls, EnrollResume(c)
    PROVE  Inv'
<1> DEFINE u == call[c].user
           n == made + 1
<1>1. CASE call[c].seen # 0
  BY <1>1, QuietEnd, SameStore DEF EnrollResume
<1>2. CASE ~(call[c].seen # 0)
  <2>0. /\ made \in Nat /\ now \in 0..MaxNow /\ MaxIds \in Nat /\ MaxNow \in Nat
        /\ PendingTtl \in Nat \ {0} /\ MaxAttempts \in Nat \ {0}
    BY EnrollmentAssumption DEF Inv, TypeOK
  <2>1. /\ made' = n /\ n \in Nat /\ n \in Ids /\ u \in Users /\ made < MaxIds
    BY <1>2, <2>0 DEF EnrollResume, Ids, Inv, CallsSound, Sound
  <2>2. /\ DOMAIN pending' = DOMAIN pending \cup {n} /\ n \notin DOMAIN pending
        /\ pending'[n] = [expiresAt |-> now + PendingTtl, attempts |-> 0]
        /\ \A i \in DOMAIN pending : pending'[i] = pending[i]
    BY <1>2, <2>0, <2>1 DEF EnrollResume, Inv, TypeOK
  <2>3. /\ owner' \in [Ids -> Users \cup {NoOne}] /\ owner'[n] = u
        /\ \A i \in 1..made : owner'[i] = owner[i]
    <3>1. owner' = [owner EXCEPT ![n] = u] /\ owner \in [Ids -> Users \cup {NoOne}]
      BY <1>2, <2>1 DEF EnrollResume, Inv, TypeOK
    <3>2. \A i \in 1..made : i \in Ids /\ i # n
      BY <2>0, <2>1 DEF Ids
    <3> QED
      BY <2>1, <3>1, <3>2
  <2>4. /\ call' = [call EXCEPT ![c] = Idle]
        /\ UNCHANGED <<secrets, now, guesses, proven, limited, crashes>>
    BY DEF EnrollResume, Finish
  <2> HIDE DEF n, u
  <2>5. 0..made \subseteq 0..made' /\ 1..made \subseteq 1..made'
    BY <2>0, <2>1 DEF n
  <2>6. /\ call' \in [Calls -> CallRecords'] /\ call'[c] = Idle
        /\ \A d \in Calls : d # c => call'[d] = call[d]
    <3>1. call' \in [Calls -> CallRecords] /\ call'[c] = Idle
      BY <2>0, <2>4, IdleSound DEF Inv, TypeOK, CallRecords, Pcs
    <3>2. CallRecords \subseteq CallRecords'
      BY <2>5 DEF CallRecords
    <3> QED
      BY <2>4, <3>1, <3>2 DEF Inv, TypeOK
  <2>7. TypeOK'
    <3>1. DOMAIN pending' \subseteq 1..made'
      BY <2>0, <2>1, <2>2, <2>5 DEF Inv, TypeOK, n
    <3>2. \A i \in DOMAIN pending' : pending'[i] \in PendingRows
      <4>1. pending'[n] \in PendingRows
        BY <2>0, <2>2 DEF PendingRows
      <4>2. \A i \in DOMAIN pending : pending[i] \in PendingRows
        BY DEF Inv, TypeOK
      <4> QED
        BY <2>2, <4>1, <4>2
    <3>3. made' \in 0..MaxIds
      BY <2>0, <2>1 DEF n
    <3>4. secrets' \in [Users -> 0..made']
      BY <2>4, <2>5 DEF Inv, TypeOK
    <3>5. proven' \in SUBSET (1..made') /\ limited' \in SUBSET (1..made')
      BY <2>4, <2>5 DEF Inv, TypeOK
    <3>6. now' \in 0..MaxNow /\ guesses' \in [Ids -> Nat] /\ crashes' \in 0..MaxCrashes
      BY <2>4 DEF Inv, TypeOK
    <3> QED
      BY <2>3, <2>6, <3>1, <3>2, <3>3, <3>4, <3>5, <3>6 DEF TypeOK, CallRecords, Pcs
  <2>8. Ledger'
    <3>1. guesses[n] = 0
      BY <2>0, <2>1 DEF Inv, Ledger, n
    <3>2. \A i \in Ids : i > made' => i > made
      BY <2>0, <2>1 DEF Ids, n
    <3> QED
      BY <2>2, <2>4, <3>1, <3>2 DEF Inv, Ledger
  <2>9. GuessBudget'
    <3>1. n \notin limited
      BY <2>0 DEF Inv, TypeOK, n
    <3> QED
      BY <2>2, <2>4, <3>1 DEF Inv, GuessBudget
  <2>10. CallsSound'
    <3> SUFFICES ASSUME NEW d \in Calls PROVE Sound(call[d])'
      BY DEF CallsSound
    <3>1. CASE d = c
      BY <2>0, <2>6, <3>1, IdleSound DEF Sound
    <3>2. CASE d # c
      <4>1. Sound(call[d]) /\ call'[d] = call[d] /\ proven' = proven /\ proven \subseteq 1..made
        BY <2>4, <2>6, <3>2 DEF Inv, CallsSound, TypeOK
      <4> QED
        BY <2>3, <4>1 DEF Sound
    <3> QED
      BY <3>1, <3>2
  <2>11. StoredSecretProven'
    <3>1. proven \subseteq 1..made
      BY DEF Inv, TypeOK
    <3> QED
      BY <2>3, <2>4, <3>1 DEF Inv, StoredSecretProven
  <2>12. ASSUME NEW v \in Users PROVE SlotsHold(v)'
    <3>0. TypeOK /\ SlotsHold(v)
      BY DEF Inv, ConcurrencyBound
    <3>1. LiveOf(v)' \subseteq LiveOf(v) \cup (IF v = u THEN {n} ELSE {})
      <4> SUFFICES ASSUME NEW i \in LiveOf(v)', i # n PROVE i \in LiveOf(v)
        BY <2>3 DEF LiveOf
      <4>1. i \in DOMAIN pending /\ i \in 1..made
        BY <2>2 DEF LiveOf, Inv, TypeOK
      <4> QED
        BY <2>2, <2>3, <2>4, <4>1 DEF LiveOf, Expired
    <3>2. Enrolling(v)' \subseteq Enrolling(v) \ (IF v = u THEN {c} ELSE {})
      <4>1. Idle.pc = "idle"
        BY <2>0, IdleSound
      <4> QED
        BY <2>6, <4>1 DEF Enrolling
    <3>3. CASE v # u
      <4>1. LiveOf(v)' \subseteq LiveOf(v) /\ Enrolling(v)' \subseteq Enrolling(v)
        BY <3>1, <3>2, <3>3
      <4> QED
        BY <2>7, <4>1, SlotsShrink
    <3>4. CASE v = u
      <4>1. c \in Enrolling(v)
        BY <3>4 DEF EnrollResume, Enrolling, u
      <4>2. /\ IsFiniteSet(LiveOf(v)) /\ IsFiniteSet(Enrolling(v))
            /\ Cardinality(LiveOf(v)) \in Nat /\ Cardinality(Enrolling(v)) \in Nat
            /\ Cardinality(Calls) \in Nat
        BY <3>0, SlotsFinite
      <4>3. /\ IsFiniteSet(LiveOf(v) \cup {n})
            /\ Cardinality(LiveOf(v) \cup {n}) <= Cardinality(LiveOf(v)) + 1
        <5>1. Cardinality(LiveOf(v) \cup {n}) =
                IF n \in LiveOf(v) THEN Cardinality(LiveOf(v)) ELSE Cardinality(LiveOf(v)) + 1
          BY <4>2, FS_AddElement
        <5>2. IsFiniteSet(LiveOf(v) \cup {n})
          BY <4>2, FS_AddElement
        <5> QED
          BY <4>2, <5>1, <5>2
      <4>4. /\ IsFiniteSet(Enrolling(v) \ {c})
            /\ Cardinality(Enrolling(v) \ {c}) = Cardinality(Enrolling(v)) - 1
        BY <4>1, <4>2, FS_RemoveElement
      <4>5. LiveOf(v)' \subseteq LiveOf(v) \cup {n} /\ Enrolling(v)' \subseteq Enrolling(v) \ {c}
        BY <3>1, <3>2, <3>4
      <4>6. /\ IsFiniteSet(LiveOf(v)')
            /\ Cardinality(LiveOf(v)') <= Cardinality(LiveOf(v) \cup {n})
            /\ IsFiniteSet(Enrolling(v)')
            /\ Cardinality(Enrolling(v)') <= Cardinality(Enrolling(v) \ {c})
        BY <4>3, <4>4, <4>5, FS_Subset
      <4>7. /\ Cardinality(LiveOf(v)') \in Nat /\ Cardinality(Enrolling(v)') \in Nat
            /\ Cardinality(LiveOf(v) \cup {n}) \in Nat /\ Cardinality(Enrolling(v) \ {c}) \in Nat
        BY <4>3, <4>4, <4>6, FS_CardinalityType
      <4> QED
        BY <3>0, <4>2, <4>3, <4>4, <4>6, <4>7 DEF SlotsHold
    <3> QED
      BY <3>3, <3>4
  <2>13. ConcurrencyBound'
    BY <2>12 DEF ConcurrencyBound
  <2> QED
    BY <2>7, <2>8, <2>9, <2>10, <2>11, <2>13 DEF Inv
<1> QED
  BY <1>1, <1>2

(* A confirm that is refused evicts an expired entry at most. *)
LEMMA ConfirmRefusedInv ==
    ASSUME Inv, NEW c \in Calls, NEW u \in Users, NEW i \in Ids, ConfirmRefused(c, u, i)
    PROVE  Inv'
<1>1. Shrinks
  BY SameStore, DroppedStore DEF ConfirmRefused
<1>2. now' \in 0..MaxNow /\ now' >= now /\ crashes' \in 0..MaxCrashes
  BY EnrollmentAssumption DEF ConfirmRefused, Inv, TypeOK
<1> QED
  BY <1>1, <1>2, QuietStay DEF ConfirmRefused

(* A wrong code: the guess is counted, and at the cap the entry is gone    *)
(* and MFA_RATE_LIMITED emitted in the same step.                          *)
LEMMA ConfirmWrongInv ==
    ASSUME Inv, NEW c \in Calls, NEW u \in Users, NEW i \in Ids, i <= made,
           ConfirmWrong(c, u, i)
    PROVE  Inv'
<1> DEFINE exhausted == pending[i].attempts + 1 >= MaxAttempts
<1>0. /\ made \in Nat /\ MaxAttempts \in Nat \ {0} /\ i \in 1..made
      /\ i \in DOMAIN pending /\ guesses[i] = pending[i].attempts
      /\ pending[i] \in PendingRows /\ pending[i].attempts \in 0..(MaxAttempts - 1)
      /\ guesses \in [Ids -> Nat]
  <2>1. /\ made \in Nat /\ MaxAttempts \in Nat \ {0} /\ i \in 1..made
        /\ guesses \in [Ids -> Nat]
    BY EnrollmentAssumption DEF Ids, Inv, TypeOK
  <2>2. i \in DOMAIN pending
    BY DEF ConfirmWrong, Live
  <2>3. guesses[i] = pending[i].attempts
    BY <2>2 DEF Inv, Ledger
  <2>4. pending[i] \in PendingRows
    BY <2>2 DEF Inv, TypeOK
  <2>5. pending[i].attempts \in 0..(MaxAttempts - 1)
    BY <2>4 DEF PendingRows
  <2> QED
    BY <2>1, <2>2, <2>3, <2>4, <2>5
<1>1. /\ guesses' \in [Ids -> Nat] /\ guesses'[i] = guesses[i] + 1
      /\ \A k \in Ids : k # i => guesses'[k] = guesses[k]
  BY <1>0 DEF ConfirmWrong
<1>2. /\ UNCHANGED <<owner, made, secrets, call, now, proven, crashes>>
      /\ exhausted => pending' = Without({i}) /\ limited' = limited \cup {i}
      /\ ~exhausted => /\ pending' = [pending EXCEPT ![i].attempts = @ + 1]
                       /\ limited' = limited
  BY DEF ConfirmWrong
<1>3. /\ DOMAIN pending' \subseteq DOMAIN pending
      /\ exhausted => i \notin DOMAIN pending'
      /\ \A k \in DOMAIN pending' : k # i => pending'[k] = pending[k]
      /\ ~exhausted => /\ DOMAIN pending' = DOMAIN pending
                       /\ pending'[i] = [pending[i] EXCEPT !.attempts = @ + 1]
  <2> HIDE DEF exhausted
  <2>1. CASE exhausted
    <3>1. /\ pending' = Without({i}) /\ DOMAIN Without({i}) = DOMAIN pending \ {i}
          /\ \A k \in DOMAIN Without({i}) : Without({i})[k] = pending[k]
      BY <1>2, <2>1, WithoutDrops
    <3> QED
      BY <2>1, <3>1
  <2>2. CASE ~exhausted
    <3>1. pending' = [pending EXCEPT ![i].attempts = @ + 1]
      BY <1>2, <2>2
    <3> QED
      BY <1>0, <2>2, <3>1
  <2> QED
    BY <2>1, <2>2
<1>4. i \in DOMAIN pending' => /\ pending'[i] \in PendingRows
                              /\ pending'[i].attempts = pending[i].attempts + 1
                              /\ pending'[i].expiresAt = pending[i].expiresAt
  <2> SUFFICES ASSUME i \in DOMAIN pending'
               PROVE  /\ pending'[i] \in PendingRows
                      /\ pending'[i].attempts = pending[i].attempts + 1
                      /\ pending'[i].expiresAt = pending[i].expiresAt
    OBVIOUS
  <2>1. pending'[i] = [pending[i] EXCEPT !.attempts = @ + 1]
    BY <1>3
  <2>2. pending[i].attempts + 1 \in 0..(MaxAttempts - 1)
    BY <1>0, <1>3
  <2> QED
    BY <1>0, <2>1, <2>2 DEF PendingRows
<1>5. TypeOK'
  <2>1. \A k \in DOMAIN pending' : pending'[k] \in PendingRows
    BY <1>3, <1>4 DEF Inv, TypeOK
  <2>2. limited' \in SUBSET (1..made)
    BY <1>0, <1>2 DEF Inv, TypeOK
  <2> QED
    BY <1>1, <1>2, <1>3, <2>1, <2>2 DEF Inv, TypeOK
<1>6. Ledger'
  <2>1. \A k \in DOMAIN pending' : k \in Ids
    BY <1>0, <1>3, EnrollmentAssumption DEF Inv, TypeOK, Ids
  <2>2. \A k \in DOMAIN pending' : guesses'[k] = pending'[k].attempts
    BY <1>0, <1>1, <1>3, <1>4, <2>1 DEF Inv, Ledger
  <2>3. \A k \in Ids : k > made => guesses'[k] = 0
    BY <1>0, <1>1 DEF Inv, Ledger
  <2> QED
    BY <1>2, <2>2, <2>3 DEF Ledger
<1>7. GuessBudget'
  <2>1. i \notin limited
    BY <1>0 DEF Inv, GuessBudget
  <2>2. /\ guesses'[i] <= MaxAttempts
        /\ guesses'[i] = MaxAttempts <=> i \in limited'
        /\ i \in limited' => i \notin DOMAIN pending'
    BY <1>0, <1>1, <1>2, <1>3, <2>1
  <2>3. ASSUME NEW k \in Ids, k # i
        PROVE  /\ guesses'[k] <= MaxAttempts
               /\ guesses'[k] = MaxAttempts <=> k \in limited'
               /\ k \in limited' => k \notin DOMAIN pending'
    BY <1>1, <1>2, <1>3, <2>3 DEF Inv, GuessBudget
  <2> QED
    BY <2>2, <2>3 DEF GuessBudget
<1>8. CallsSound' /\ StoredSecretProven'
  BY <1>2 DEF Inv, CallsSound, Sound, StoredSecretProven
<1>9. ConcurrencyBound'
  <2> SUFFICES ASSUME NEW v \in Users PROVE SlotsHold(v)'
    BY DEF ConcurrencyBound
  <2>1. LiveOf(v)' \subseteq LiveOf(v)
    BY <1>2, <1>3, <1>4 DEF LiveOf, Expired
  <2>2. Enrolling(v)' \subseteq Enrolling(v)
    BY <1>2 DEF Enrolling
  <2> QED
    BY <1>5, <2>1, <2>2, SlotsShrink
<1> QED
  BY <1>5, <1>6, <1>7, <1>8, <1>9 DEF Inv

(* A valid code: the owner of the entry is the one who will be stored. *)
LEMMA ConfirmRightInv ==
    ASSUME Inv, NEW c \in Calls, NEW u \in Users, NEW i \in Ids, i <= made,
           ConfirmRight(c, u, i)
    PROVE  Inv'
<1> DEFINE x == [pc |-> "confirm_save", user |-> u, id |-> i, seen |-> 0]
<1>0. made \in Nat /\ i \in 1..made /\ proven' \in SUBSET (1..made)
  BY EnrollmentAssumption DEF ConfirmRight, Ids, Inv, TypeOK
<1>1. x \in CallRecords /\ x.pc = "confirm_save" /\ x.user = u /\ x.id = i
  BY <1>0 DEF CallRecords, Pcs
<1>2. call' = [call EXCEPT ![c] = x]
  BY DEF ConfirmRight
<1> HIDE DEF x
<1>3. Sound(call[c])'
  BY <1>1, <1>2 DEF Sound, ConfirmRight, Inv, TypeOK
<1> QED
  BY <1>0, <1>1, <1>2, <1>3, QuietMove, SameStore DEF ConfirmRight

(* A handler goes on to another statement of the same operation; nothing   *)
(* else moves.                                                             *)
LEMMA GotoSound ==
    ASSUME Inv, NEW c \in Calls, NEW pc \in {"confirm_saved", "confirm_failed"}, Goto(c, pc),
           call[c].pc = "confirm_save"
    PROVE  LET x == [call[c] EXCEPT !.pc = pc]
           IN  x \in CallRecords /\ x.pc = pc /\ x.user = call[c].user
               /\ call[c].user \in Users /\ call' = [call EXCEPT ![c] = x]
               /\ call'[c] = x
<1>1. call[c] \in CallRecords /\ call \in [Calls -> CallRecords]
  BY DEF Inv, TypeOK, CallRecords, Pcs
<1>2. call[c].user \in Users
  BY DEF Inv, CallsSound, Sound
<1> QED
  BY <1>1, <1>2 DEF Goto, CallRecords, Pcs

(* The upsert fails. *)
LEMMA SaveFailsInv ==
    ASSUME Inv, NEW c \in Calls, SaveFails(c)
    PROVE  Inv'
<1> DEFINE x == [call[c] EXCEPT !.pc = "confirm_failed"]
<1>1. /\ x \in CallRecords /\ x.pc = "confirm_failed" /\ x.user \in Users
      /\ call' = [call EXCEPT ![c] = x] /\ call'[c] = x
  BY GotoSound DEF SaveFails
<1> HIDE DEF x
<1>2. Sound(call[c])' /\ proven' \in SUBSET (1..made)
  BY <1>1 DEF Sound, SaveFails, Inv, TypeOK
<1> QED
  BY <1>1, <1>2, QuietMove, SameStore DEF SaveFails

(* The upsert takes effect: the stored secret is the one the handler       *)
(* carries, issued to this user and proven.                                *)
LEMMA SaveInv ==
    ASSUME Inv, NEW c \in Calls, Save(c)
    PROVE  Inv'
<1>0. PICK pc \in {"confirm_saved", "confirm_failed"} : Goto(c, pc)
  BY DEF Save
<1> DEFINE x == [call[c] EXCEPT !.pc = pc]
<1>1. /\ x \in CallRecords /\ x.pc = pc /\ x.user \in Users /\ x.user = call[c].user
      /\ call' = [call EXCEPT ![c] = x] /\ call'[c] = x
  BY <1>0, GotoSound DEF Save
<1> HIDE DEF x
<1>2. Sound(call[c])'
  BY <1>0, <1>1 DEF Sound
<1>3. /\ call' \in [Calls -> CallRecords'] /\ CallsSound'
      /\ \A u : Enrolling(u)' \subseteq
                   Enrolling(u) \cup (IF /\ x.pc \in {"enroll_read", "enroll_resume"}
                                         /\ x.user = u
                                      THEN {c} ELSE {})
  BY <1>1, <1>2, CallMoves DEF Save
<1>4. \A u \in Users : Enrolling(u)' \subseteq Enrolling(u)
  BY <1>0, <1>1, <1>3
<1>5. /\ call[c].id \in proven /\ owner[call[c].id] = call[c].user /\ call[c].id \in 0..made
      /\ call[c].user \in Users
  BY DEF Save, Inv, TypeOK, CallsSound, Sound
<1>6. /\ secrets' \in [Users -> 0..made] /\ secrets'[call[c].user] = call[c].id
      /\ \A u \in Users : u # call[c].user => secrets'[u] = secrets[u]
  BY <1>5 DEF Save, Inv, TypeOK
<1>7. StoredSecretProven'
  BY <1>5, <1>6 DEF Save, Inv, StoredSecretProven
<1>8. Shrinks /\ now' >= now /\ now' \in 0..MaxNow
  BY SameStore, EnrollmentAssumption DEF Save, Inv, TypeOK
<1>9. /\ DOMAIN pending' \subseteq 1..made'
      /\ \A i \in DOMAIN pending' : pending'[i] \in PendingRows
      /\ Ledger' /\ GuessBudget'
      /\ \A u : LiveOf(u)' \subseteq LiveOf(u)
  BY <1>8, StoreShrinks DEF Save
<1>10. TypeOK'
  BY <1>3, <1>6, <1>9 DEF Save, Inv, TypeOK, CallRecords, Pcs
<1>11. ConcurrencyBound'
  BY <1>4, <1>9, <1>10, SlotsShrink DEF ConcurrencyBound
<1> QED
  BY <1>3, <1>7, <1>9, <1>10, <1>11 DEF Inv

(* confirmEnrollment deletes the entry of a save that was acknowledged.    *)
LEMMA ConfirmResumeInv ==
    ASSUME Inv, NEW c \in Calls, ConfirmResume(c)
    PROVE  Inv'
<1>1. Shrinks
  BY SameStore, DroppedStore DEF ConfirmResume
<1> QED
  BY <1>1, QuietEnd DEF ConfirmResume

(* The admin's reset begins ... *)
LEMMA ResetInv ==
    ASSUME Inv, NEW c \in Calls, NEW u \in Users, Reset(c, u)
    PROVE  Inv'
<1> DEFINE x == [pc |-> "reset", user |-> u, id |-> 0, seen |-> 0]
<1>0. made \in Nat /\ proven' \in SUBSET (1..made)
  BY DEF Reset, Inv, TypeOK
<1>1. x \in CallRecords /\ x.pc = "reset" /\ x.user = u
  BY <1>0 DEF CallRecords, Pcs
<1>2. call' = [call EXCEPT ![c] = x]
  BY DEF Reset
<1> HIDE DEF x
<1>3. Sound(call[c])'
  BY <1>1, <1>2 DEF Sound, Reset, Inv, TypeOK
<1> QED
  BY <1>0, <1>1, <1>2, <1>3, QuietMove, SameStore DEF Reset

(* ... and its DELETE runs, or fails: a secret that is gone proves nothing *)
(* of anyone.                                                              *)
LEMMA ResetRunsInv ==
    ASSUME Inv, NEW c \in Calls, ResetRuns(c)
    PROVE  Inv'
<1>0. made \in Nat
  BY DEF Inv, TypeOK
<1>1. CASE UNCHANGED secrets
  BY <1>1, QuietEnd, SameStore DEF ResetRuns
<1>2. CASE secrets' = [secrets EXCEPT ![call[c].user] = 0]
  <2>1. Idle \in CallRecords /\ Idle.pc = "idle"
    BY <1>0, IdleSound
  <2>2. Sound(call[c])'
    BY <2>1 DEF ResetRuns, Finish, Sound, Inv, TypeOK
  <2>3. /\ call' \in [Calls -> CallRecords'] /\ CallsSound'
        /\ \A u : Enrolling(u)' \subseteq
                     Enrolling(u) \cup (IF /\ Idle.pc \in {"enroll_read", "enroll_resume"}
                                           /\ Idle.user = u
                                        THEN {c} ELSE {})
    BY <2>1, <2>2, CallMoves DEF ResetRuns, Finish
  <2>4. \A u \in Users : Enrolling(u)' \subseteq Enrolling(u)
    BY <2>1, <2>3
  <2>5. secrets' \in [Users -> 0..made] /\ \A u \in Users : secrets'[u] \in {0, secrets[u]}
    <3>1. secrets \in [Users -> 0..made] /\ 0 \in 0..made
      BY <1>0 DEF Inv, TypeOK
    <3> QED
      BY <1>2, <3>1
  <2>6. StoredSecretProven'
    BY <2>5 DEF ResetRuns, Inv, StoredSecretProven
  <2>7. Shrinks /\ now' >= now /\ now' \in 0..MaxNow
    BY SameStore, EnrollmentAssumption DEF ResetRuns, Inv, TypeOK
  <2>8. /\ DOMAIN pending' \subseteq 1..made'
        /\ \A i \in DOMAIN pending' : pending'[i] \in PendingRows
        /\ Ledger' /\ GuessBudget'
        /\ \A u : LiveOf(u)' \subseteq LiveOf(u)
    BY <2>7, StoreShrinks DEF ResetRuns
  <2>9. TypeOK'
    BY <2>3, <2>5, <2>8 DEF ResetRuns, Inv, TypeOK, CallRecords, Pcs
  <2>10. ConcurrencyBound'
    BY <2>4, <2>8, <2>9, SlotsShrink DEF ConcurrencyBound
  <2> QED
    BY <2>3, <2>6, <2>8, <2>9, <2>10 DEF Inv
<1> QED
  BY <1>1, <1>2 DEF ResetRuns

(* A restart loses the pending store and every handler. *)
LEMMA CrashInv ==
    ASSUME Inv, Crash
    PROVE  Inv'
<1>0. made \in Nat /\ made' = made
  BY DEF Crash, Inv, TypeOK
<1>1. Idle \in CallRecords /\ Idle.pc = "idle" /\ CallRecords' = CallRecords
  BY <1>0, IdleSound DEF CallRecords
<1>2. call' \in [Calls -> CallRecords'] /\ \A c \in Calls : call'[c].pc = "idle"
  BY <1>1 DEF Crash
<1>3. CallsSound' /\ \A u \in Users : Enrolling(u)' \subseteq Enrolling(u)
  BY <1>2 DEF CallsSound, Sound, Enrolling
<1>4. Shrinks
  BY DEF Crash, Shrinks
<1>5. /\ now' \in 0..MaxNow /\ now' >= now /\ crashes' \in 0..MaxCrashes
      /\ proven' \in SUBSET (1..made)
  BY EnrollmentAssumption DEF Crash, Inv, TypeOK
<1> QED
  BY <1>2, <1>3, <1>4, <1>5, QuietStep DEF Crash

(* Every step keeps the invariant. *)
LEMMA NextInv == Inv /\ [Next]_vars => Inv'
<1> SUFFICES ASSUME Inv, [Next]_vars PROVE Inv'
  OBVIOUS
<1>0. now \in 0..MaxNow /\ crashes \in 0..MaxCrashes
  BY DEF Inv, TypeOK
<1>1. ASSUME NEW c \in Calls, NEW u \in Users, Enroll(c, u) \/ Reset(c, u)
      PROVE  Inv'
  BY <1>1, EnrollInv, ResetInv
<1>2. ASSUME NEW c \in Calls, NEW u \in Users, NEW i \in Ids, i <= made,
             ConfirmRefused(c, u, i) \/ ConfirmWrong(c, u, i) \/ ConfirmRight(c, u, i)
      PROVE  Inv'
  BY <1>2, ConfirmRefusedInv, ConfirmWrongInv, ConfirmRightInv
<1>3. ASSUME NEW c \in Calls, Handler(c)
      PROVE  Inv'
  <2>1. CASE EnrollReadFails(c)
    BY <2>1, QuietEnd, SameStore DEF EnrollReadFails
  <2> QED
    BY <1>3, <2>1, EnrollReadInv, EnrollResumeInv, SaveInv, SaveFailsInv, ConfirmResumeInv,
       ResetRunsInv DEF Handler
<1>4. CASE Tick
  BY <1>0, <1>4, EnrollmentAssumption, QuietStay, SameStore DEF Tick
<1>5. CASE Crash
  BY <1>5, CrashInv
<1>6. CASE UNCHANGED vars
  BY <1>0, <1>6, EnrollmentAssumption, QuietStay, SameStore DEF vars
<1> QED
  BY <1>1, <1>2, <1>3, <1>4, <1>5, <1>6 DEF Next

-----------------------------------------------------------------------------
(* The theorems *)

(* The inductive invariant holds in every state of the enrollment service. *)
THEOREM InvHolds == Spec => []Inv
  BY InitInv, NextInv, PTL DEF Spec

(* The pending store, the table and the handlers keep their types.         *)
THEOREM TypeCorrect == Spec => []TypeOK
  BY InvHolds, PTL DEF Inv

(* Guessing is bounded: per secret by ENROLL_MAX_ATTEMPTS, with the last   *)
(* wrong code reported, and per user by the handlers that run at once.     *)
THEOREM GuessingTheorem == Spec => []GuessingBounded
<1>1. Inv => GuessingBounded
  <2> SUFFICES ASSUME Inv, NEW u \in Users
               PROVE  Cardinality(LiveOf(u)) <= Cardinality(Calls)
    BY DEF GuessingBounded, PendingBoundedByConcurrency, Inv
  <2>1. TypeOK /\ SlotsHold(u)
    BY DEF Inv, ConcurrencyBound
  <2> QED
    BY <2>1, SlotsFinite DEF SlotsHold
<1> QED
  BY <1>1, InvHolds, PTL

(* A stored secret was issued to the user it is stored for, who presented  *)
(* a valid code while it was pending, across restarts and lost answers.    *)
THEOREM ProvenTheorem == Spec => []StoredSecretProven
  BY InvHolds, PTL DEF Inv

=============================================================================

---------------------------- MODULE StoresProofs ----------------------------
(* Machine-checked proofs about the stores a decision rests on, for any    *)
(* number of users, tokens, nonces, rules and transactions.  Each store    *)
(* has an inductive invariant of its own, which the steps of the others    *)
(* leave alone.                                                            *)
EXTENDS MCStores, Sequences, SequenceTheorems, FiniteSetTheorems, TLAPS

-----------------------------------------------------------------------------
(* Revoked tokens *)

(* While the binding revocation of a token is active, the blacklist holds  *)
(* it and knows its author.                                                *)
Bound(j) ==
    /\ guard[j] # Tokens!NoEntry => guard[j].userId \in Clients \cup Admins
    /\ tokenTime < guard[j].expiresAt => blacklist[j] = guard[j]

TokenInv == Tokens!TypeOK /\ RevocationHolds /\ \A j \in Jtis : Bound(j)

(* Times are natural numbers.                                              *)
LEMMA TokenTimes ==
    ASSUME Tokens!TypeOK
    PROVE  /\ tokenTime \in Nat /\ MaxTokenTime \in Nat
           /\ \A j \in Jtis : blacklist[j].expiresAt \in Nat /\ guard[j].expiresAt \in Nat
<1>1. Exps \subseteq Nat /\ MaxTokenTime \in Nat
  BY StoresAssumption DEF Tokens!RevocationAssumption
<1>2. Exps \cup {0} \subseteq Nat
  BY <1>1
<1>3. \A e \in Tokens!Entries : e.expiresAt \in Exps \cup {0}
  BY DEF Tokens!Entries
<1>4. \A e \in Tokens!Entries : e.expiresAt \in Nat
  BY <1>2, <1>3
<1> QED
  BY <1>1, <1>4 DEF Tokens!TypeOK

(* No token is revoked when the process starts.                            *)
LEMMA TokenInit == Tokens!Init => TokenInv
<1> SUFFICES ASSUME Tokens!Init PROVE TokenInv
  OBVIOUS
<1>1. Tokens!NoEntry \in Tokens!Entries /\ Tokens!NoEntry.expiresAt = 0
  BY DEF Tokens!NoEntry, Tokens!Entries
<1>2. Tokens!TypeOK
  BY <1>1, StoresAssumption DEF Tokens!Init, Tokens!TypeOK, Tokens!RevocationAssumption
<1> QED
  BY <1>1, <1>2 DEF Tokens!Init, TokenInv, Bound, RevocationHolds, Tokens!RevocationHolds

(* POST /auth/revoke by someone who may: an active revocation somebody     *)
(* else is bound by is not loosened.                                       *)
LEMMA RevokeInv ==
    ASSUME TokenInv, NEW u \in Clients \cup Admins, NEW j \in Jtis, NEW e \in Exps,
           Tokens!Revoke(u, j, e)
    PROVE  TokenInv'
<1> DEFINE entry == [expiresAt |-> e, userId |-> u]
<1>1. /\ Tokens!TypeOK /\ Bound(j) /\ RevocationHolds /\ Tokens!MayRevoke(u, j)
      /\ blacklist' = [blacklist EXCEPT ![j] = entry]
      /\ outcome' = [outcome EXCEPT ![j] = "none"]
      /\ guard' = [guard EXCEPT ![j] = Tokens!Binding(u, j, e)]
      /\ revoked' = revoked \cup {j} /\ tokenTime' = tokenTime
  BY DEF TokenInv, Tokens!Revoke
<1>2. entry \in Tokens!Entries /\ entry.userId = u /\ entry # Tokens!NoEntry
  BY StoresAssumption DEF Tokens!Entries, Tokens!NoEntry, Tokens!RevocationAssumption
<1>3. Tokens!Binding(u, j, e) = entry
  <2> SUFFICES ASSUME tokenTime < guard[j].expiresAt, u \notin Admins \cup {guard[j].userId}
               PROVE  FALSE
    BY DEF Tokens!Binding
  <2>1. blacklist[j] = guard[j] /\ guard[j] # Tokens!NoEntry
    BY <1>1 DEF Bound, Tokens!NoEntry, Tokens!TypeOK
  <2>2. Tokens!Evicted(j)[j] = guard[j]
    BY <1>1, <2>1, StoresAssumption
    DEF Tokens!Evicted, Tokens!TypeOK, Tokens!Entries, Tokens!RevocationAssumption
  <2>3. guard[j].userId \in {"none", u}
    BY <1>1, <2>2 DEF Tokens!MayRevoke
  <2> QED
    BY <1>1, <2>1, <2>3, StoresAssumption DEF Bound, Tokens!RevocationAssumption
<1> HIDE DEF entry
<1>4. Tokens!TypeOK'
  BY <1>1, <1>2, <1>3 DEF Tokens!TypeOK
<1>5. ASSUME NEW k \in Jtis PROVE Bound(k)' /\ (outcome'[k] = "passed" =>
                guard'[k] = Tokens!NoEntry \/ tokenTime' >= guard'[k].expiresAt)
  <2>1. CASE k = j
    BY <1>1, <1>2, <1>3, <2>1 DEF Bound, Tokens!TypeOK
  <2>2. CASE k # j
    BY <1>1, <1>3, <2>2 DEF Bound, Tokens!TypeOK, TokenInv, RevocationHolds, Tokens!RevocationHolds
  <2> QED
    BY <2>1, <2>2
<1> QED
  BY <1>4, <1>5 DEF TokenInv, RevocationHolds, Tokens!RevocationHolds

(* A lookup evicts an entry only once it has expired.                      *)
LEMMA EvictedStep ==
    ASSUME TokenInv, NEW j \in Jtis
    PROVE  /\ Tokens!Evicted(j) \in [Jtis -> Tokens!Entries]
           /\ \A k \in Jtis : tokenTime < guard[k].expiresAt => Tokens!Evicted(j)[k] = guard[k]
           /\ tokenTime < guard[j].expiresAt => Tokens!Evicted(j)[j] # Tokens!NoEntry
<1>1. Tokens!TypeOK /\ \A k \in Jtis : Bound(k)
  BY DEF TokenInv
<1>2. Tokens!NoEntry \in Tokens!Entries /\ Tokens!NoEntry.expiresAt = 0
  BY DEF Tokens!NoEntry, Tokens!Entries
<1>3. tokenTime \in Nat /\ \A k \in Jtis : blacklist[k].expiresAt \in Nat
  BY <1>1, TokenTimes
<1>4. Tokens!Evicted(j) \in [Jtis -> Tokens!Entries]
  BY <1>1, <1>2 DEF Tokens!Evicted, Tokens!TypeOK
<1>5. ASSUME NEW k \in Jtis, tokenTime < guard[k].expiresAt PROVE Tokens!Evicted(j)[k] = guard[k]
  BY <1>1, <1>3, <1>5 DEF Tokens!Evicted, Tokens!TypeOK, Bound
<1>6. ASSUME tokenTime < guard[j].expiresAt PROVE Tokens!Evicted(j)[j] # Tokens!NoEntry
  <2>1. Tokens!Evicted(j)[j] = guard[j]
    BY <1>5, <1>6
  <2>2. guard[j] # Tokens!NoEntry
    BY <1>2, <1>3, <1>6
  <2> QED
    BY <2>1, <2>2
<1> QED
  BY <1>4, <1>5, <1>6

(* The revocation stage rejects what the blacklist holds.                  *)
LEMMA UseInv ==
    ASSUME TokenInv, NEW j \in Jtis,
           \/ Tokens!Use(j)
           \/ \E u \in Clients \cup Admins : Tokens!RevokeRefused(u, j)
    PROVE  TokenInv'
<1>1. /\ Tokens!TypeOK /\ RevocationHolds /\ \A k \in Jtis : Bound(k)
      /\ blacklist' = Tokens!Evicted(j) /\ UNCHANGED <<tokenTime, guard, revoked>>
  BY DEF TokenInv, Tokens!Use, Tokens!RevokeRefused
<1>2. \/ UNCHANGED outcome
      \/ outcome' = [outcome EXCEPT ![j] = IF blacklist'[j] # Tokens!NoEntry THEN "rejected"
                                           ELSE "passed"]
  BY DEF Tokens!Use, Tokens!RevokeRefused
<1>3. Tokens!TypeOK'
  BY <1>1, <1>2, EvictedStep DEF Tokens!TypeOK
<1>4. \A k \in Jtis : Bound(k)'
  BY <1>1, EvictedStep DEF Bound
<1>5. ASSUME NEW k \in Jtis, outcome'[k] = "passed"
      PROVE  guard'[k] = Tokens!NoEntry \/ tokenTime' >= guard'[k].expiresAt
  <2>1. CASE outcome[k] = "passed"
    BY <1>1, <2>1 DEF RevocationHolds, Tokens!RevocationHolds
  <2>2. CASE outcome[k] # "passed"
    <3>1. k = j /\ blacklist'[j] = Tokens!NoEntry
      BY <1>1, <1>2, <1>5, <2>2 DEF Tokens!TypeOK
    <3>2. ~(tokenTime < guard[j].expiresAt)
      BY <1>1, <3>1, EvictedStep
    <3>3. tokenTime \in Nat /\ guard[j].expiresAt \in Nat
      BY <1>1, TokenTimes
    <3>4. tokenTime >= guard[j].expiresAt
      BY <3>2, <3>3
    <3> QED
      BY <1>1, <3>1, <3>4
  <2> QED
    BY <2>1, <2>2
<1> QED
  BY <1>3, <1>4, <1>5 DEF TokenInv, RevocationHolds, Tokens!RevocationHolds

(* Every step of the token store keeps its invariant.                      *)
LEMMA TokenNext == TokenInv /\ [Tokens!Next]_tokenVars => TokenInv'
<1> SUFFICES ASSUME TokenInv, [Tokens!Next]_tokenVars PROVE TokenInv'
  OBVIOUS
<1>1. ASSUME NEW u \in Clients \cup Admins, NEW j \in Jtis,
             Tokens!RevokeRefused(u, j) \/ \E e \in Exps : Tokens!Revoke(u, j, e)
      PROVE  TokenInv'
  BY <1>1, RevokeInv, UseInv
<1>2. ASSUME NEW j \in Jtis, Tokens!Use(j) PROVE TokenInv'
  BY <1>2, UseInv
<1>3. CASE Tokens!Tick
  <2>1. /\ tokenTime' = tokenTime + 1 /\ tokenTime < MaxTokenTime
        /\ UNCHANGED <<blacklist, outcome, guard, revoked>>
    BY <1>3 DEF Tokens!Tick
  <2>2. tokenTime \in Nat /\ MaxTokenTime \in Nat /\ \A j \in Jtis : guard[j].expiresAt \in Nat
    BY TokenTimes DEF TokenInv
  <2>3. Tokens!TypeOK'
    BY <2>1, <2>2 DEF TokenInv, Tokens!TypeOK
  <2>4. \A j \in Jtis : Bound(j)'
    BY <2>1, <2>2 DEF TokenInv, Bound
  <2>5. RevocationHolds'
    BY <2>1, <2>2 DEF TokenInv, RevocationHolds, Tokens!RevocationHolds
  <2> QED
    BY <2>3, <2>4, <2>5 DEF TokenInv
<1>4. CASE UNCHANGED tokenVars
  BY <1>4 DEF tokenVars, TokenInv, Tokens!TypeOK, Bound, RevocationHolds, Tokens!RevocationHolds
<1> QED
  BY <1>1, <1>2, <1>3, <1>4 DEF Tokens!Next
-----------------------------------------------------------------------------
(* The Casbin rules *)

Inside == {"save", "writing", "answer"}

CallStates == [pc : {"idle", "waiting", "save", "writing", "answer"},
               op : {"none", "add", "remove"}, rule : Rules \cup {"none"}, changed : BOOLEAN]

(* The calls inside the mutex are one; what it is about to say, and to     *)
(* save, is what the enforcer holds.                                       *)
CallInv(a) ==
    /\ call[a].pc # "idle" => call[a].op \in {"add", "remove"} /\ call[a].rule \in Rules
    /\ call[a].pc \in Inside <=> mutex = a
    /\ call[a].pc \in Inside => (call[a].rule \in mem <=> call[a].op = "add")
    /\ call[a].pc = "writing" => texts[a] = mem
    /\ call[a].pc = "answer" /\ (call[a].changed \/ ~missed) => file = mem

PolicyInv == Policy!TypeOK /\ Policy!QuietMeansPersisted /\ \A a \in AdminCalls : CallInv(a)

(* The mutex is nobody's when it is free.                                  *)
LEMMA NobodyIsNone == "none" \notin AdminCalls /\ Policy!NoOne = "none" /\ MaxCalls \in Nat
  BY StoresAssumption DEF Policy!StoreAssumption, Policy!NoOne

(* onModuleInit loads the file.                                            *)
LEMMA PolicyInit == Policy!Init => PolicyInv
<1> SUFFICES ASSUME Policy!Init PROVE PolicyInv
  OBVIOUS
<1>1. Policy!Idle \in CallStates /\ Policy!Idle.pc = "idle"
  BY DEF Policy!Idle, CallStates
<1>2. Policy!TypeOK
  <2>1. call \in [AdminCalls -> CallStates]
    BY <1>1 DEF Policy!Init
  <2>2. calls \in 0..MaxCalls
    BY NobodyIsNone DEF Policy!Init
  <2>3. missed \in BOOLEAN
    BY DEF Policy!Init
  <2>4. mem \in SUBSET Rules /\ file \in SUBSET Rules /\ texts \in [AdminCalls -> SUBSET Rules]
    BY DEF Policy!Init
  <2>5. mutex \in AdminCalls \cup {Policy!NoOne} /\ wanted \in [Rules -> {"none", "add", "remove"}]
    BY DEF Policy!Init
  <2> QED
    BY <2>1, <2>2, <2>3, <2>4, <2>5 DEF Policy!TypeOK, CallStates
<1>3. \A a \in AdminCalls : call[a] = Policy!Idle /\ mutex # a
  BY NobodyIsNone DEF Policy!Init
<1> QED
  BY <1>1, <1>2, <1>3
  DEF PolicyInv, CallInv, Inside, Policy!QuietMeansPersisted, Policy!Init

(* A call that moves in the mutex, or towards it, is the only one that     *)
(* needs to be looked at: the others are outside.                          *)
LEMMA CallFrame ==
    ASSUME PolicyInv, NEW a \in AdminCalls, Policy!TypeOK',
           \A b \in AdminCalls \ {a} : call'[b] = call[b] /\ texts'[b] = texts[b],
           \/ UNCHANGED <<mutex, mem, file, missed>>
           \/ /\ mutex \in {Policy!NoOne, a} /\ mutex' \in {Policy!NoOne, a},
           CallInv(a)', Policy!QuietMeansPersisted'
    PROVE  PolicyInv'
<1>1. ASSUME NEW b \in AdminCalls \ {a} PROVE CallInv(b)'
  <2>1. CallInv(b) /\ call'[b] = call[b] /\ texts'[b] = texts[b]
    BY DEF PolicyInv
  <2>2. CASE UNCHANGED <<mutex, mem, file, missed>>
    BY <2>1, <2>2 DEF CallInv
  <2>3. CASE mutex \in {Policy!NoOne, a} /\ mutex' \in {Policy!NoOne, a}
    <3>1. mutex # b /\ mutex' # b
      BY <2>3, NobodyIsNone
    <3>2. call[b].pc \notin Inside
      BY <2>1, <3>1 DEF CallInv
    <3> QED
      BY <2>1, <3>1, <3>2 DEF CallInv, Inside
  <2> QED
    BY <2>2, <2>3
<1> QED
  BY <1>1 DEF PolicyInv

(* An admin request arrives and waits for the mutex.                       *)
LEMMA BeginInv ==
    ASSUME PolicyInv, NEW a \in AdminCalls, NEW op \in {"add", "remove"}, NEW r \in Rules,
           Policy!Begin(a, op, r)
    PROVE  PolicyInv'
<1> DEFINE c == [pc |-> "waiting", op |-> op, rule |-> r, changed |-> FALSE]
<1>1. /\ Policy!TypeOK /\ CallInv(a) /\ Policy!QuietMeansPersisted /\ call[a].pc = "idle"
      /\ call' = [call EXCEPT ![a] = c] /\ calls' = calls + 1 /\ calls < MaxCalls
      /\ UNCHANGED <<mem, file, mutex, texts, missed, wanted>>
  BY DEF PolicyInv, Policy!Begin
<1>2. c \in CallStates /\ c.pc = "waiting" /\ c.op = op /\ c.rule = r
  BY DEF CallStates
<1> HIDE DEF c
<1>3. Policy!TypeOK'
  BY <1>1, <1>2, NobodyIsNone DEF Policy!TypeOK, CallStates
<1>4. call'[a] = c /\ \A b \in AdminCalls \ {a} : call'[b] = call[b]
  BY <1>1 DEF Policy!TypeOK
<1>5. CallInv(a)'
  BY <1>1, <1>2, <1>4 DEF CallInv, Inside
<1> QED
  BY <1>1, <1>3, <1>4, <1>5, CallFrame DEF Policy!QuietMeansPersisted

(* A call enters the mutex and changes the enforcer, or finds nothing to   *)
(* change.                                                                 *)
LEMMA EnterInv ==
    ASSUME PolicyInv, NEW a \in AdminCalls, Policy!Enter(a)
    PROVE  PolicyInv'
<1> DEFINE pc == IF mem' # mem THEN "save" ELSE "answer"
           c == [call[a] EXCEPT !.changed = mem' # mem, !.pc = pc]
<1>1. /\ Policy!TypeOK /\ CallInv(a) /\ Policy!QuietMeansPersisted /\ call[a].pc = "waiting"
      /\ mutex = Policy!NoOne /\ mutex' = a /\ call[a] \in CallStates
      /\ mem' = Policy!Applied(call[a].op, call[a].rule)
      /\ wanted' = [wanted EXCEPT ![call[a].rule] = "none"]
      /\ UNCHANGED <<file, texts, calls, missed>>
  BY DEF PolicyInv, Policy!Enter, Policy!TypeOK, CallStates
<1>2. call' = [call EXCEPT ![a] = c]
  BY <1>1 DEF Policy!Enter, Policy!TypeOK
<1>3. /\ c \in CallStates /\ c.pc = pc /\ c.op = call[a].op /\ c.rule = call[a].rule
      /\ c.changed = (mem' # mem)
  BY <1>1 DEF CallStates
<1> HIDE DEF c
<1>4. call[a].op \in {"add", "remove"} /\ call[a].rule \in Rules
  BY <1>1 DEF CallInv
<1>5. mem' \subseteq Rules /\ (call[a].rule \in mem' <=> call[a].op = "add")
  BY <1>1, <1>4 DEF Policy!Applied, Policy!TypeOK
<1>6. Policy!TypeOK'
  BY <1>1, <1>2, <1>3, <1>4, <1>5 DEF Policy!TypeOK, CallStates
<1>7. call'[a] = c /\ \A b \in AdminCalls \ {a} : call'[b] = call[b]
  BY <1>1, <1>2 DEF Policy!TypeOK
<1>8. pc \in {"save", "answer"} /\ (pc = "answer" => mem' = mem)
  OBVIOUS
<1> HIDE DEF pc
<1>9. CallInv(a)'
  BY <1>1, <1>3, <1>4, <1>5, <1>7, <1>8 DEF CallInv, Inside, Policy!QuietMeansPersisted
<1>10. Policy!QuietMeansPersisted'
  BY <1>1, NobodyIsNone DEF Policy!QuietMeansPersisted
<1> QED
  BY <1>1, <1>6, <1>7, <1>9, <1>10, CallFrame

(* A call in the mutex goes on, or leaves it, without touching the         *)
(* enforcer.                                                               *)
LEMMA MoveInv ==
    ASSUME PolicyInv, NEW a \in AdminCalls, NEW c \in CallStates,
           call[a].pc \in Inside,
           call' = [call EXCEPT ![a] = c],
           texts' \in [AdminCalls -> SUBSET Rules],
           \A b \in AdminCalls \ {a} : texts'[b] = texts[b],
           wanted' \in [Rules -> {"none", "add", "remove"}],
           file' \in SUBSET Rules, missed' \in BOOLEAN, UNCHANGED <<mem, calls>>,
           \/ c = Policy!Idle /\ mutex' = Policy!NoOne
           \/ /\ c.pc \in Inside /\ c.op = call[a].op /\ c.rule = call[a].rule
              /\ mutex' = mutex,
           c.pc = "writing" => texts'[a] = mem,
           c.pc = "answer" => file' = mem,
           mutex' = Policy!NoOne /\ ~missed' => file' = mem
    PROVE  PolicyInv'
<1>1. Policy!TypeOK /\ CallInv(a) /\ mutex = a
  BY DEF PolicyInv, CallInv
<1>2. Policy!NoOne \in AdminCalls \cup {Policy!NoOne} /\ Policy!Idle.pc = "idle"
  BY DEF Policy!Idle
<1>3. Policy!TypeOK'
  BY <1>1, <1>2 DEF Policy!TypeOK, CallStates
<1>4. call'[a] = c /\ \A b \in AdminCalls \ {a} : call'[b] = call[b]
  BY <1>1 DEF Policy!TypeOK
<1>5. CallInv(a)'
  BY <1>1, <1>2, <1>4, NobodyIsNone DEF CallInv, Inside
<1> QED
  BY <1>1, <1>3, <1>4, <1>5, CallFrame DEF Policy!QuietMeansPersisted

(* savePolicy begins, ends well, or fails; the caller is answered.         *)
LEMMA InsideInv ==
    ASSUME PolicyInv, NEW a \in AdminCalls,
           Policy!Save(a) \/ Policy!Saved(a) \/ Policy!SaveFails(a) \/ Policy!Answer(a)
    PROVE  PolicyInv'
<1>1. /\ Policy!TypeOK /\ CallInv(a) /\ call[a] \in CallStates
      /\ mem \in SUBSET Rules /\ file \in SUBSET Rules
  BY DEF PolicyInv, Policy!TypeOK, CallStates
<1>2. Policy!Idle \in CallStates /\ Policy!Idle.pc = "idle"
  BY DEF Policy!Idle, CallStates
<1>3. CASE Policy!Save(a)
  <2> DEFINE c == [call[a] EXCEPT !.pc = "writing"]
  <2>1. c \in CallStates /\ c.pc = "writing" /\ c.op = call[a].op /\ c.rule = call[a].rule
    BY <1>1 DEF CallStates
  <2>2. call' = [call EXCEPT ![a] = c] /\ call[a].pc \in Inside
    BY <1>1, <1>3 DEF Policy!Save, Policy!TypeOK, Inside
  <2>3. /\ texts' \in [AdminCalls -> SUBSET Rules] /\ texts'[a] = mem
        /\ \A b \in AdminCalls \ {a} : texts'[b] = texts[b]
        /\ UNCHANGED <<mem, file, mutex, calls, missed, wanted>>
    BY <1>1, <1>3 DEF Policy!Save, Policy!TypeOK
  <2>4. mutex = a /\ c.pc \in Inside /\ Policy!NoOne # a
    BY <1>1, <2>1, <2>2, NobodyIsNone DEF CallInv, Inside
  <2> HIDE DEF c
  <2> QED
    BY <1>1, <2>1, <2>2, <2>3, <2>4, MoveInv DEF Policy!TypeOK
<1>4. CASE Policy!Saved(a)
  <2> DEFINE c == [call[a] EXCEPT !.pc = "answer"]
  <2>1. c \in CallStates /\ c.pc = "answer" /\ c.op = call[a].op /\ c.rule = call[a].rule
    BY <1>1 DEF CallStates
  <2>2. call' = [call EXCEPT ![a] = c] /\ call[a].pc = "writing"
    BY <1>1, <1>4 DEF Policy!Saved, Policy!TypeOK
  <2>3. file' = mem /\ missed' = FALSE /\ UNCHANGED <<mem, mutex, texts, calls, wanted>>
    BY <1>1, <1>4 DEF Policy!Saved, CallInv
  <2>4. c.pc \in Inside /\ call[a].pc \in Inside
    BY <2>1, <2>2 DEF Inside
  <2> HIDE DEF c
  <2> QED
    BY <1>1, <2>1, <2>2, <2>3, <2>4, MoveInv DEF Policy!TypeOK
<1>5. CASE Policy!SaveFails(a)
  <2>1. /\ call' = [call EXCEPT ![a] = Policy!Idle] /\ call[a].pc \in Inside
        /\ missed' = TRUE /\ mutex' = Policy!NoOne
        /\ UNCHANGED <<mem, file, texts, calls, wanted>>
    BY <1>5 DEF Policy!SaveFails, Inside
  <2> QED
    BY <1>1, <1>2, <2>1, MoveInv DEF Policy!TypeOK
<1>6. CASE Policy!Answer(a)
  <2>1. /\ call' = [call EXCEPT ![a] = Policy!Idle] /\ call[a].pc = "answer"
        /\ mutex' = Policy!NoOne /\ wanted' = [wanted EXCEPT ![call[a].rule] = call[a].op]
        /\ UNCHANGED <<mem, file, texts, calls, missed>>
    BY <1>6 DEF Policy!Answer
  <2>2. ~missed => file = mem
    BY <1>1, <2>1 DEF CallInv
  <2>3. wanted' \in [Rules -> {"none", "add", "remove"}]
    BY <1>1, <2>1 DEF CallStates, Policy!TypeOK
  <2>4. call[a].pc \in Inside
    BY <2>1 DEF Inside
  <2> QED
    BY <1>1, <1>2, <2>1, <2>2, <2>3, <2>4, MoveInv DEF Policy!TypeOK
<1> QED
  BY <1>3, <1>4, <1>5, <1>6

(* Every step of the rule store keeps its invariant.                       *)
LEMMA PolicyNext == PolicyInv /\ [Policy!Next]_policyVars => PolicyInv'
<1> SUFFICES ASSUME PolicyInv, [Policy!Next]_policyVars PROVE PolicyInv'
  OBVIOUS
<1>1. ASSUME NEW a \in AdminCalls, NEW op \in {"add", "remove"}, NEW r \in Rules,
             Policy!Begin(a, op, r)
      PROVE  PolicyInv'
  BY <1>1, BeginInv
<1>2. ASSUME NEW a \in AdminCalls, Policy!Step(a) PROVE PolicyInv'
  BY <1>2, EnterInv, InsideInv DEF Policy!Step
<1>3. CASE Policy!Restart
  <2>1. /\ mem' = file /\ missed' = FALSE /\ mutex' = Policy!NoOne
        /\ call' = [a \in AdminCalls |-> Policy!Idle] /\ UNCHANGED <<file, texts, calls, wanted>>
    BY <1>3 DEF Policy!Restart
  <2>2. Policy!Idle \in CallStates /\ Policy!Idle.pc = "idle"
    BY DEF Policy!Idle, CallStates
  <2>3. Policy!TypeOK'
    BY <2>1, <2>2 DEF PolicyInv, Policy!TypeOK, CallStates
  <2>4. \A a \in AdminCalls : CallInv(a)'
    BY <2>1, <2>2, NobodyIsNone DEF CallInv, Inside
  <2> QED
    BY <2>1, <2>3, <2>4 DEF PolicyInv, Policy!QuietMeansPersisted
<1>4. CASE UNCHANGED policyVars
  BY <1>4 DEF policyVars, PolicyInv, Policy!TypeOK, CallInv, Policy!QuietMeansPersisted
<1> QED
  BY <1>1, <1>2, <1>3, <1>4 DEF Policy!Next

(* What an administrator is told, and what the file holds at rest.         *)
LEMMA PolicyFile == PolicyInv => FileFollowsEnforcer
  BY DEF PolicyInv, CallInv, Inside, FileFollowsEnforcer, Policy!FileFollowsEnforcer,
     Policy!ReportedChangeIsDurable
-----------------------------------------------------------------------------
(* The challenges of a user *)

TxStates == [pc : {"new", "lock", "insert", "commit", "done"},
             user : Clients \cup {Challenges!NoOne}, start : 0..MaxChallengeTime,
             inserted : BOOLEAN]

(* A transaction holds its user's lock from the count to the commit, and   *)
(* a row it is about to commit is still within the limit.                  *)
TxInv(t) ==
    /\ tx[t].pc # "new" => tx[t].user \in Clients
    /\ tx[t].pc \in {"insert", "commit"} => lock[tx[t].user] = t
    /\ t \in rows => tx[t].pc = "done"
    /\ tx[t].pc = "commit" /\ tx[t].inserted => Challenges!UnderLimit(t)

ChallengeInv == Challenges!TypeOK /\ RateLimitHolds /\ \A t \in Txs : TxInv(t)

(* The user's challenges created in (from, from + Window].                 *)
Within(u, from) ==
    {r \in rows : tx[r].user = u /\ tx[r].start > from /\ tx[r].start <= from + Window}

(* What a configuration guarantees.                                        *)
LEMMA LimitAssumed ==
    /\ IsFiniteSet(Txs) /\ Challenges!Free \notin Txs
    /\ Limit \in Nat \ {0} /\ Window \in Nat \ {0} /\ MaxChallengeTime \in Nat
<1>1. Challenges!IsFiniteSet(Txs) <=> IsFiniteSet(Txs)
  BY DEF Challenges!IsFiniteSet, IsFiniteSet
<1> QED
  BY <1>1, StoresAssumption DEF Challenges!RateLimitAssumption, Challenges!Free
(* The repository's COUNT is the cardinality the library's theorems speak  *)
(* of.                                                                     *)
LEMMA SameCardinality == \A S : Challenges!Cardinality(S) = Cardinality(S)
  BY DEF Challenges!Cardinality, Cardinality
(* The limit holds of the rows within every window.                        *)
LEMMA LimitByWindow ==
    RateLimitHolds <=>
      \A u \in Clients : \A from \in (-Window)..MaxChallengeTime : Cardinality(Within(u, from)) <= Limit
  BY SameCardinality DEF RateLimitHolds, Challenges!RateLimitHolds, Within

(* Rows that stand, and the transactions that wrote them, count the same.  *)
LEMMA RowsStand ==
    ASSUME NEW t \in Txs, UNCHANGED rows, \A r \in rows : tx'[r] = tx[r],
           tx'[t].user = tx[t].user, tx'[t].start = tx[t].start
    PROVE  Challenges!UnderLimit(t)' <=> Challenges!UnderLimit(t)
<1>1. Challenges!Recent(t)' = Challenges!Recent(t)
  BY DEF Challenges!Recent
<1> QED
  BY <1>1 DEF Challenges!UnderLimit

(* A transaction that writes no row: only it needs to be looked at, if the *)
(* locks of the others stand.                                              *)
LEMMA TxFrame ==
    ASSUME ChallengeInv, NEW t \in Txs, t \notin rows, UNCHANGED rows, Challenges!TypeOK',
           \A q \in Txs \ {t} : tx'[q] = tx[q],
           \A u \in Clients : lock[u] \in Txs \ {t} => lock'[u] = lock[u],
           TxInv(t)'
    PROVE  ChallengeInv'
<1>1. \A r \in rows : tx'[r] = tx[r]
  BY DEF ChallengeInv, Challenges!TypeOK
<1>2. ASSUME NEW q \in Txs \ {t} PROVE TxInv(q)'
  <2>1. TxInv(q) /\ tx'[q] = tx[q]
    BY DEF ChallengeInv
  <2>2. Challenges!UnderLimit(q)' <=> Challenges!UnderLimit(q)
    BY <1>1, <2>1, RowsStand
  <2>3. tx[q].pc \in {"insert", "commit"} => lock'[tx[q].user] = q
    BY <2>1 DEF TxInv
  <2> QED
    BY <2>1, <2>2, <2>3 DEF TxInv
<1>3. \A u, from : Within(u, from)' = Within(u, from)
  BY <1>1 DEF Within
<1>4. RateLimitHolds'
  <2>1. \A u \in Clients : \A from \in (-Window)..MaxChallengeTime :
          Cardinality(Within(u, from)) <= Limit
    BY LimitByWindow DEF ChallengeInv
  <2>2. \A u \in Clients : \A from \in (-Window)..MaxChallengeTime :
          Cardinality(Within(u, from)') <= Limit
    BY <1>3, <2>1
  <2> QED
    BY <2>2, SameCardinality DEF RateLimitHolds, Challenges!RateLimitHolds, Within
<1> QED
  BY <1>2, <1>4 DEF ChallengeInv

(* BEGIN, the lock, the counted INSERT and ROLLBACK write no row.          *)
LEMMA RowlessInv ==
    ASSUME ChallengeInv, NEW t \in Txs,
           \/ \E u \in Clients : Challenges!Begin(t, u)
           \/ Challenges!TakeLock(t) \/ Challenges!Insert(t) \/ Challenges!Rollback(t)
    PROVE  ChallengeInv'
<1>1. Challenges!TypeOK /\ TxInv(t) /\ tx[t] \in TxStates /\ challengeTime \in 0..MaxChallengeTime
  BY DEF ChallengeInv, Challenges!TypeOK, TxStates
<1>2. UNCHANGED <<rows, challengeTime>> /\ t \notin rows
  BY <1>1 DEF Challenges!Begin, Challenges!TakeLock, Challenges!Insert, Challenges!Rollback, TxInv
<1>3. ASSUME NEW c \in TxStates, tx' = [tx EXCEPT ![t] = c],
             lock' \in [Clients -> Txs \cup {Challenges!Free}],
             answer' \in [Txs -> {"none", "ok", "rate_limited", "internal"}],
             \A u \in Clients : lock[u] \in Txs \ {t} => lock'[u] = lock[u],
             c.pc # "new" => c.user \in Clients,
             c.pc \in {"insert", "commit"} => lock'[c.user] = t,
             c.pc = "commit" /\ c.inserted =>
               /\ c.user = tx[t].user /\ c.start = tx[t].start /\ Challenges!UnderLimit(t)
      PROVE  ChallengeInv'
  <2>1. tx'[t] = c /\ \A q \in Txs \ {t} : tx'[q] = tx[q]
    BY <1>1, <1>3 DEF Challenges!TypeOK
  <2>2. Challenges!TypeOK'
    BY <1>1, <1>2, <1>3 DEF Challenges!TypeOK, TxStates
  <2>3. \A r \in rows : tx'[r] = tx[r]
    BY <1>1, <1>2, <2>1 DEF Challenges!TypeOK
  <2>4. c.pc = "commit" /\ c.inserted => Challenges!UnderLimit(t)'
    BY <1>2, <1>3, <2>1, <2>3, RowsStand
  <2>5. TxInv(t)'
    BY <1>2, <1>3, <2>1, <2>4 DEF TxInv
  <2> QED
    BY <1>2, <1>3, <2>1, <2>2, <2>5, TxFrame
<1>4. ASSUME NEW u \in Clients, Challenges!Begin(t, u) PROVE ChallengeInv'
  <2> DEFINE c == [pc |-> "lock", user |-> u, start |-> challengeTime, inserted |-> FALSE]
  <2>1. c \in TxStates /\ c.pc = "lock" /\ c.user = u
    BY <1>1 DEF TxStates
  <2>2. tx' = [tx EXCEPT ![t] = c] /\ UNCHANGED <<lock, answer>>
    BY <1>4 DEF Challenges!Begin
  <2> HIDE DEF c
  <2> QED
    BY <1>1, <1>3, <2>1, <2>2 DEF Challenges!TypeOK
<1>5. CASE Challenges!TakeLock(t)
  <2> DEFINE c == [tx[t] EXCEPT !.pc = "insert"]
  <2>1. c \in TxStates /\ c.pc = "insert" /\ c.user = tx[t].user
    BY <1>1 DEF TxStates
  <2>2. tx' = [tx EXCEPT ![t] = c]
    BY <1>1, <1>5 DEF Challenges!TakeLock, Challenges!TypeOK
  <2>3. /\ lock' = [lock EXCEPT ![tx[t].user] = t] /\ lock[tx[t].user] = Challenges!Free
        /\ tx[t].user \in Clients /\ UNCHANGED answer
    BY <1>1, <1>5 DEF Challenges!TakeLock, TxInv
  <2>4. \A u \in Clients : lock[u] \in Txs \ {t} => lock'[u] = lock[u]
    BY <1>1, <2>3, LimitAssumed DEF Challenges!TypeOK
  <2>5. lock' \in [Clients -> Txs \cup {Challenges!Free}] /\ lock'[c.user] = t
    BY <1>1, <2>1, <2>3 DEF Challenges!TypeOK
  <2> HIDE DEF c
  <2> QED
    BY <1>1, <1>3, <2>1, <2>2, <2>3, <2>4, <2>5 DEF Challenges!TypeOK
<1>6. CASE Challenges!Insert(t)
  <2> DEFINE c == [tx[t] EXCEPT !.pc = "commit", !.inserted = Challenges!UnderLimit(t)]
  <2>0. Challenges!UnderLimit(t) \in BOOLEAN
    BY DEF Challenges!UnderLimit
  <2>1. /\ c \in TxStates /\ c.pc = "commit" /\ c.user = tx[t].user /\ c.start = tx[t].start
        /\ c.inserted = Challenges!UnderLimit(t)
    BY <1>1, <2>0 DEF TxStates
  <2>2. tx' = [tx EXCEPT ![t] = c] /\ UNCHANGED <<lock, answer>>
    BY <1>1, <1>6 DEF Challenges!Insert, Challenges!TypeOK
  <2>3. lock[tx[t].user] = t /\ tx[t].user \in Clients
    BY <1>1, <1>6 DEF Challenges!Insert, TxInv
  <2> HIDE DEF c
  <2> QED
    BY <1>1, <1>3, <2>1, <2>2, <2>3 DEF Challenges!TypeOK
<1>7. CASE Challenges!Rollback(t)
  <2> DEFINE c == [tx[t] EXCEPT !.pc = "done", !.inserted = FALSE]
  <2>1. c \in TxStates /\ c.pc = "done" /\ c.user = tx[t].user
    BY <1>1 DEF TxStates
  <2>2. tx' = [tx EXCEPT ![t] = c]
    BY <1>1, <1>7 DEF Challenges!Rollback, Challenges!TypeOK
  <2>3. /\ lock' = [u \in Clients |-> IF lock[u] = t THEN Challenges!Free ELSE lock[u]]
        /\ answer' = [answer EXCEPT ![t] = "internal"] /\ tx[t].pc # "new"
    BY <1>7 DEF Challenges!Rollback, Challenges!Release
  <2>4. /\ lock' \in [Clients -> Txs \cup {Challenges!Free}]
        /\ answer' \in [Txs -> {"none", "ok", "rate_limited", "internal"}]
        /\ \A u \in Clients : lock[u] \in Txs \ {t} => lock'[u] = lock[u]
    BY <1>1, <2>3 DEF Challenges!TypeOK
  <2>5. c.user \in Clients
    BY <1>1, <2>1, <2>3 DEF TxInv
  <2> HIDE DEF c
  <2> QED
    BY <1>3, <2>1, <2>2, <2>4, <2>5
<1> QED
  BY <1>4, <1>5, <1>6, <1>7
(* The row a commit makes visible fits into every window it falls into:    *)
(* what the window held was counted under the lock.                        *)
LEMMA CommittedWithin ==
    ASSUME ChallengeInv, NEW t \in Txs, tx[t].pc = "commit", tx[t].inserted,
           rows' = rows \cup {t},
           \A r \in Txs : tx'[r].user = tx[r].user /\ tx'[r].start = tx[r].start,
           NEW u \in Clients, NEW from \in (-Window)..MaxChallengeTime
    PROVE  Cardinality(Within(u, from)') <= Limit
<1>1. /\ Challenges!TypeOK /\ TxInv(t) /\ rows \subseteq Txs /\ IsFiniteSet(Txs)
      /\ \A r \in Txs : tx[r].start \in Nat
      /\ Limit \in Nat /\ Window \in Nat
  BY LimitAssumed DEF ChallengeInv, Challenges!TypeOK
<1>2. /\ IsFiniteSet(Within(u, from)) /\ Cardinality(Within(u, from)) <= Limit
      /\ Cardinality(Within(u, from)) \in Nat
  <2>1. Within(u, from) \in SUBSET Txs
    BY <1>1 DEF Within
  <2> QED
    BY <1>1, <2>1, FS_Subset, FS_CardinalityType, LimitByWindow DEF ChallengeInv
<1>3. CASE ~(tx[t].user = u /\ tx[t].start > from /\ tx[t].start <= from + Window)
  <2>1. Within(u, from)' = Within(u, from)
    BY <1>1, <1>3 DEF Within
  <2> QED
    BY <1>2, <2>1
<1>4. CASE tx[t].user = u /\ tx[t].start > from /\ tx[t].start <= from + Window
  <2>1. Within(u, from)' = Within(u, from) \cup {t}
    BY <1>1, <1>4 DEF Within
  <2>2. Within(u, from) \in SUBSET Challenges!Recent(t)
    <3>1. \A r \in rows : tx[r].start > from => tx[r].start > tx[t].start - Window
      BY <1>1, <1>4
    <3> QED
      BY <1>4, <3>1 DEF Within, Challenges!Recent
  <2>3. Challenges!Recent(t) \in SUBSET Txs
    BY <1>1 DEF Challenges!Recent
  <2>4. Cardinality(Challenges!Recent(t)) < Limit
    BY <1>1, SameCardinality DEF TxInv, Challenges!UnderLimit
  <2>5. IsFiniteSet(Challenges!Recent(t)) /\ Cardinality(Challenges!Recent(t)) \in Nat
    BY <1>1, <2>3, FS_Subset, FS_CardinalityType
  <2>6. Cardinality(Within(u, from)) <= Cardinality(Challenges!Recent(t))
    BY <2>2, <2>5, FS_Subset
  <2>7. \/ Cardinality(Within(u, from) \cup {t}) = Cardinality(Within(u, from))
        \/ Cardinality(Within(u, from) \cup {t}) = Cardinality(Within(u, from)) + 1
    BY <1>2, FS_AddElement
  <2>8. IsFiniteSet(Within(u, from) \cup {t})
    BY <1>2, FS_AddElement
  <2>9. Cardinality(Within(u, from) \cup {t}) \in Nat
    BY <2>8, FS_CardinalityType
  <2> QED
    BY <1>1, <1>2, <2>1, <2>4, <2>5, <2>6, <2>7, <2>9
<1> QED
  BY <1>3, <1>4

(* COMMIT: the others that have counted belong to other users.             *)
LEMMA CommitInv ==
    ASSUME ChallengeInv, NEW t \in Txs, Challenges!Commit(t)
    PROVE  ChallengeInv'
<1> DEFINE c == [tx[t] EXCEPT !.pc = "done"]
<1>1. /\ Challenges!TypeOK /\ TxInv(t) /\ tx[t] \in TxStates /\ tx[t].pc = "commit"
      /\ rows' = IF tx[t].inserted THEN rows \cup {t} ELSE rows
      /\ lock' = [u \in Clients |-> IF lock[u] = t THEN Challenges!Free ELSE lock[u]]
      /\ UNCHANGED challengeTime
  BY DEF ChallengeInv, Challenges!TypeOK, TxStates, Challenges!Commit, Challenges!Release
<1>2. tx' = [tx EXCEPT ![t] = c]
  BY <1>1 DEF Challenges!Commit, Challenges!TypeOK
<1>3. /\ c \in TxStates /\ c.pc = "done" /\ c.user = tx[t].user /\ c.start = tx[t].start
  BY <1>1 DEF TxStates
<1> HIDE DEF c
<1>4. answer' \in [Txs -> {"none", "ok", "rate_limited", "internal"}]
  BY <1>1 DEF Challenges!Commit, Challenges!TypeOK
<1>5. tx'[t] = c /\ \A q \in Txs \ {t} : tx'[q] = tx[q]
  BY <1>1, <1>2 DEF Challenges!TypeOK
<1>6. \A r \in Txs : tx'[r].user = tx[r].user /\ tx'[r].start = tx[r].start
  BY <1>3, <1>5
<1>7. Challenges!TypeOK'
  <2>1. rows' \in SUBSET Txs
    BY <1>1 DEF Challenges!TypeOK
  <2>2. lock' \in [Clients -> Txs \cup {Challenges!Free}]
    BY <1>1 DEF Challenges!TypeOK
  <2>3. tx' \in [Txs -> TxStates]
    BY <1>1, <1>2, <1>3 DEF Challenges!TypeOK, TxStates
  <2> QED
    BY <1>1, <1>4, <2>1, <2>2, <2>3 DEF Challenges!TypeOK, TxStates
<1>8. ASSUME NEW q \in Txs PROVE TxInv(q)'
  <2>1. CASE q = t
    BY <1>1, <1>3, <1>5, <2>1 DEF TxInv
  <2>2. CASE q # t
    <3>1. TxInv(q) /\ tx'[q] = tx[q]
      BY <1>5, <2>2 DEF ChallengeInv
    <3>2. q \in rows' => q \in rows
      BY <1>1, <2>2
    <3>3. tx[q].pc \in {"insert", "commit"} => lock'[tx[q].user] = q /\ tx[q].user # tx[t].user
      BY <1>1, <2>2, <3>1 DEF TxInv
    <3>4. tx[q].pc = "commit" => Challenges!Recent(q)' = Challenges!Recent(q)
      <4> SUFFICES ASSUME tx[q].pc = "commit"
                   PROVE  Challenges!Recent(q)' = Challenges!Recent(q)
        OBVIOUS
      <4>1. rows \subseteq Txs /\ tx[q].user # tx[t].user
        BY <1>1, <3>3 DEF Challenges!TypeOK
      <4>2. /\ Challenges!Recent(q) = {r \in rows : /\ tx[r].user = tx[q].user
                                                    /\ tx[r].start > tx[q].start - Window}
            /\ Challenges!Recent(q)' = {r \in rows' : /\ tx'[r].user = tx[q].user
                                                      /\ tx'[r].start > tx[q].start - Window}
        BY <3>1 DEF Challenges!Recent
      <4>3. rows' = rows \/ rows' = rows \cup {t}
        BY <1>1
      <4> QED
        BY <1>6, <4>1, <4>2, <4>3
    <3>5. tx[q].pc = "commit" => (Challenges!UnderLimit(q)' <=> Challenges!UnderLimit(q))
      BY <3>4 DEF Challenges!UnderLimit
    <3> QED
      BY <3>1, <3>2, <3>3, <3>5 DEF TxInv
  <2> QED
    BY <2>1, <2>2
<1>9. ASSUME NEW u \in Clients, NEW from \in (-Window)..MaxChallengeTime
      PROVE  Cardinality(Within(u, from)') <= Limit
  <2>1. CASE tx[t].inserted
    BY <1>1, <1>6, <2>1, CommittedWithin
  <2>2. CASE ~tx[t].inserted
    <3>1. rows' = rows /\ rows \subseteq Txs
      BY <1>1, <2>2 DEF Challenges!TypeOK
    <3>2. Within(u, from)' = Within(u, from)
      BY <1>6, <3>1 DEF Within
    <3> QED
      BY <3>2, LimitByWindow DEF ChallengeInv
  <2> QED
    BY <2>1, <2>2
<1>10. RateLimitHolds'
  BY <1>9, SameCardinality DEF RateLimitHolds, Challenges!RateLimitHolds, Within
<1> QED
  BY <1>7, <1>8, <1>10 DEF ChallengeInv

(* No transaction has run when the clock starts.                           *)
LEMMA ChallengeInit == Challenges!Init => ChallengeInv
<1> SUFFICES ASSUME Challenges!Init PROVE ChallengeInv
  OBVIOUS
<1> DEFINE c == [pc |-> "new", user |-> Challenges!NoOne, start |-> 0, inserted |-> FALSE]
<1>1. c \in TxStates /\ c.pc = "new"
  BY LimitAssumed DEF TxStates
<1>2. tx = [t \in Txs |-> c] /\ rows = {}
  BY DEF Challenges!Init
<1> HIDE DEF c
<1>3. Challenges!TypeOK
  <2>1. tx \in [Txs -> TxStates]
    BY <1>1, <1>2
  <2> QED
    BY <2>1, LimitAssumed DEF Challenges!Init, Challenges!TypeOK, TxStates
<1>4. \A t \in Txs : TxInv(t)
  BY <1>1, <1>2 DEF TxInv
<1>5. ASSUME NEW u, NEW from PROVE Cardinality(Within(u, from)) <= Limit
  <2>1. Within(u, from) = {}
    BY <1>2 DEF Within
  <2> QED
    BY <2>1, FS_EmptySet, LimitAssumed
<1> QED
  BY <1>3, <1>4, <1>5, LimitByWindow DEF ChallengeInv

(* Every step of the challenge store keeps its invariant.                  *)
LEMMA ChallengeNext == ChallengeInv /\ [Challenges!Next]_challengeVars => ChallengeInv'
<1> SUFFICES ASSUME ChallengeInv, [Challenges!Next]_challengeVars PROVE ChallengeInv'
  OBVIOUS
<1>1. ASSUME NEW t \in Txs, NEW u \in Clients, Challenges!Begin(t, u) PROVE ChallengeInv'
  BY <1>1, RowlessInv
<1>2. ASSUME NEW t \in Txs, Challenges!Step(t) PROVE ChallengeInv'
  BY <1>2, RowlessInv, CommitInv DEF Challenges!Step
<1>3. ASSUME UNCHANGED <<tx, rows, lock, answer>>, challengeTime' \in 0..MaxChallengeTime
      PROVE  ChallengeInv'
  <2>1. Challenges!TypeOK'
    BY <1>3 DEF ChallengeInv, Challenges!TypeOK
  <2>2. RateLimitHolds'
    BY <1>3 DEF ChallengeInv, RateLimitHolds, Challenges!RateLimitHolds
  <2>3. ASSUME NEW t \in Txs PROVE TxInv(t)'
    <3>1. Challenges!UnderLimit(t)' <=> Challenges!UnderLimit(t)
      BY <1>3, RowsStand
    <3> QED
      BY <1>3, <3>1 DEF ChallengeInv, TxInv
  <2> QED
    BY <2>1, <2>2, <2>3 DEF ChallengeInv
<1>4. CASE Challenges!Tick
  BY <1>3, <1>4, LimitAssumed DEF Challenges!Tick, ChallengeInv, Challenges!TypeOK
<1>5. CASE UNCHANGED challengeVars
  BY <1>3, <1>5 DEF challengeVars, ChallengeInv, Challenges!TypeOK
<1> QED
  BY <1>1, <1>2, <1>4, <1>5 DEF Challenges!Next
-----------------------------------------------------------------------------
(* Solved proof of work nonces *)

(* What a configuration guarantees.                                        *)
LEMMA NonceAssumed ==
    /\ Scores \subseteq 0..1000 /\ DiffMin \in Nat /\ DiffMax \in Nat /\ DiffMin <= DiffMax
    /\ NonceTtl \in Nat /\ Capacity \in Nat \ {0} /\ MaxNonceTime \in Nat /\ MaxSolved \in Nat
    /\ MaxPad \in Nat /\ MaxLead \in Nat
  BY StoresAssumption DEF Nonces!HashcashAssumption

(* The text of the i-th solution is expired, or pushed out of the store by *)
(* Capacity later ones, or still in the store, with no more entries behind *)
(* it than there were solutions since.                                     *)
Kept(i) ==
    \/ nonceTime >= solved[i].nonce.challenge.exp
    \/ Len(solved) - i >= Capacity
    \/ \E p \in 1..Len(store) :
         store[p] = solved[i].nonce /\ Len(store) - p <= Len(solved) - i

NonceInv ==
    /\ Nonces!TypeOK /\ ReplayNeedsFlood
    /\ \A i \in 1..Len(solved) : solved[i].at <= nonceTime /\ Kept(i)

(* No nonce is used when the process starts.                               *)
LEMMA NonceInit == Nonces!Init => NonceInv
<1> SUFFICES ASSUME Nonces!Init PROVE NonceInv
  OBVIOUS
<1>1. /\ issued = {} /\ store = << >> /\ nonceTime = 0 /\ solved = << >>
  BY DEF Nonces!Init
<1>2. Nonces!TypeOK
  BY <1>1, NonceAssumed DEF Nonces!TypeOK, Nonces!IsInjective
<1> QED
  BY <1>1, <1>2, NonceAssumed DEF NonceInv, ReplayNeedsFlood, Nonces!ReplayNeedsFlood

(* A difficulty lies between the bounds of the configuration.              *)
LEMMA DifficultyRange ==
    ASSUME NEW score \in Scores
    PROVE  Nonces!difficultyForScore(score) \in DiffMin..DiffMax
<1>1. \A x \in Int : Nonces!Clamp(x, DiffMin, DiffMax) \in DiffMin..DiffMax
  BY NonceAssumed DEF Nonces!Clamp
<1>2. score \in Int
  BY NonceAssumed
<1> DEFINE y == 2 * (200 * DiffMin + (score - 700) * (DiffMax - DiffMin)) + 200
<1>3. y \in Int
  BY <1>2, NonceAssumed
<1> HIDE DEF y
<1>4. (y \div 400) \in Int
  BY <1>3
<1>5. Nonces!difficultyForScore(score) = Nonces!Clamp(y \div 400, DiffMin, DiffMax)
  BY DEF y, Nonces!difficultyForScore
<1> QED
  BY <1>1, <1>4, <1>5

(* A challenge signed by the clock is one of the challenges.               *)
LEMMA ChallengeType ==
    ASSUME NEW u \in Clients, NEW score \in Scores, NEW at \in 0..MaxNonceTime
    PROVE  Nonces!Challenge(u, score, at) \in Nonces!Challenges
<1>1. at + NonceTtl \in 0..(MaxNonceTime + NonceTtl)
  BY NonceAssumed
<1> QED
  BY <1>1, DifficultyRange DEF Nonces!Challenge, Nonces!Challenges

(* What the times and texts of a state are.                                *)
LEMMA NonceTypes ==
    ASSUME Nonces!TypeOK
    PROVE  /\ nonceTime \in Nat /\ Len(store) \in Nat /\ Len(solved) \in Nat
           /\ \A n \in Nonces!Texts : n.challenge.exp \in Nat
           /\ \A k \in 1..Len(store) : store[k] \in Nonces!Texts
           /\ \A i \in 1..Len(solved) :
                 solved[i].nonce \in Nonces!Texts /\ solved[i].at \in Nat
           /\ \A n \in Nonces!Headers : n \in Nonces!Texts
           /\ \A k, l \in 1..Len(store) : store[k] = store[l] => k = l
<1>1. /\ issued \subseteq Nonces!Challenges /\ store \in Seq(Nonces!Texts)
      /\ nonceTime \in 0..MaxNonceTime /\ solved \in Seq(Nonces!Solutions)
      /\ Nonces!IsInjective(store)
  BY DEF Nonces!TypeOK
<1>2. \A c \in Nonces!Challenges : c.exp \in Nat
  BY NonceAssumed DEF Nonces!Challenges
<1>3. \A n \in Nonces!Texts : n.challenge \in Nonces!Challenges
  BY DEF Nonces!Texts
<1>4. \A x \in Nonces!Solutions : x.nonce \in Nonces!Texts /\ x.at \in Nat
  BY NonceAssumed DEF Nonces!Solutions
<1>5. \A n \in Nonces!Headers : n \in Nonces!Texts
  BY <1>1 DEF Nonces!Headers, Nonces!Texts
<1>6. DOMAIN store = 1..Len(store)
  BY <1>1
<1>7. \A k, l \in 1..Len(store) : store[k] = store[l] => k = l
  BY <1>1, <1>6 DEF Nonces!IsInjective
<1> QED
  BY <1>1, <1>2, <1>3, <1>4, <1>5, <1>7, NonceAssumed

(* A sequence without its q-th element.                                    *)
LEMMA WithoutOne ==
    ASSUME NEW T, NEW s \in Seq(T), NEW q \in 1..Len(s)
    PROVE  /\ Nonces!RemoveAt(s, q) \in Seq(T)
           /\ Len(Nonces!RemoveAt(s, q)) = Len(s) - 1
           /\ \A k \in 1..(Len(s) - 1) :
                 Nonces!RemoveAt(s, q)[k] = IF k < q THEN s[k] ELSE s[k + 1]
<1> DEFINE a == SubSeq(s, 1, q - 1)
           b == SubSeq(s, q + 1, Len(s))
<1>1. Len(s) \in Nat /\ q \in Nat /\ q >= 1 /\ q <= Len(s)
  OBVIOUS
<1>2. a \in Seq(T) /\ Len(a) = q - 1 /\ \A k \in 1..(q - 1) : a[k] = s[k]
  BY <1>1, SubSeqProperties
<1>3. b \in Seq(T) /\ Len(b) = Len(s) - q /\ \A k \in 1..(Len(s) - q) : b[k] = s[q + k]
  BY <1>1, SubSeqProperties
<1> HIDE DEF a, b
<1>4. /\ a \o b \in Seq(T) /\ Len(a \o b) = Len(s) - 1
      /\ \A k \in 1..(Len(s) - 1) :
            (a \o b)[k] = IF k <= Len(a) THEN a[k] ELSE b[k - Len(a)]
  <2>1. /\ a \o b \in Seq(T) /\ Len(a \o b) = Len(a) + Len(b)
        /\ \A k \in 1..(Len(a) + Len(b)) :
              (a \o b)[k] = IF k <= Len(a) THEN a[k] ELSE b[k - Len(a)]
    BY <1>2, <1>3, ConcatProperties
  <2>2. Len(a) + Len(b) = Len(s) - 1
    BY <1>1, <1>2, <1>3
  <2> QED
    BY <2>1, <2>2
<1>5. ASSUME NEW k \in 1..(Len(s) - 1)
      PROVE  (a \o b)[k] = IF k < q THEN s[k] ELSE s[k + 1]
  <2>1. CASE k < q
    BY <1>1, <1>2, <1>4, <2>1
  <2>2. CASE ~(k < q)
    <3>1. k - (q - 1) \in 1..(Len(s) - q) /\ q + (k - (q - 1)) = k + 1
      BY <1>1, <2>2
    <3>2. (a \o b)[k] = b[k - (q - 1)]
      BY <1>1, <1>2, <1>4, <2>2
    <3> QED
      BY <1>3, <2>2, <3>1, <3>2
  <2> QED
    BY <2>1, <2>2
<1>6. Nonces!RemoveAt(s, q) = a \o b
  BY DEF a, b, Nonces!RemoveAt
<1> QED
  BY <1>4, <1>5, <1>6

(* has(): what leaves the store is the entry asked for, and only once it   *)
(* has expired; the others keep their order.                               *)
LEMMA HasKeeps ==
    ASSUME Nonces!TypeOK, NEW n \in Nonces!Texts, NEW at \in Nat,
           NEW s, s = Nonces!AfterHas(n, at)
    PROVE  /\ s \in Seq(Nonces!Texts) /\ Len(s) <= Len(store)
           /\ \A k, l \in 1..Len(s) : s[k] = s[l] => k = l
           /\ Nonces!Lapsed(n, at) => \A k \in 1..Len(s) : s[k] # n
           /\ ~Nonces!Holds(n) => s = store
           /\ \A p \in 1..Len(store) :
                 \/ store[p] = n /\ Nonces!Lapsed(n, at)
                 \/ \E r \in 1..Len(s) : s[r] = store[p] /\ Len(s) - r <= Len(store) - p
<1>1. /\ store \in Seq(Nonces!Texts) /\ Len(store) \in Nat
      /\ \A k, l \in 1..Len(store) : store[k] = store[l] => k = l
  BY NonceTypes DEF Nonces!TypeOK
<1>2. CASE Nonces!Holds(n) /\ Nonces!Lapsed(n, at)
  <2>1. \E p \in 1..Len(store) : store[p] = n
    BY <1>1, <1>2 DEF Nonces!Holds, Nonces!ToSet
  <2>2. PICK q \in 1..Len(store) : store[q] = n /\ s = Nonces!RemoveAt(store, q)
    BY <1>2, <2>1 DEF Nonces!AfterHas
  <2>3. PICK m \in Nat : Len(store) = m + 1
    BY <1>1, <2>1
  <2>4. /\ s \in Seq(Nonces!Texts) /\ Len(s) = m
        /\ \A k \in 1..m : s[k] = IF k < q THEN store[k] ELSE store[k + 1]
    <3>1. /\ s \in Seq(Nonces!Texts) /\ Len(s) = Len(store) - 1
          /\ \A k \in 1..(Len(store) - 1) : s[k] = IF k < q THEN store[k] ELSE store[k + 1]
      BY <1>1, <2>2, WithoutOne
    <3>2. Len(store) - 1 = m
      BY <2>3
    <3> QED
      BY <3>1, <3>2
  <2>5. \A k, l \in 1..m : s[k] = s[l] => k = l
    BY <1>1, <2>2, <2>3, <2>4
  <2>6. \A k \in 1..m : s[k] # n
    BY <1>1, <2>2, <2>3, <2>4
  <2>7. ASSUME NEW p \in 1..Len(store)
        PROVE  \/ store[p] = n
               \/ \E r \in 1..Len(s) : s[r] = store[p] /\ Len(s) - r <= Len(store) - p
    <3>1. CASE p < q
      <4>1. p \in 1..m /\ s[p] = store[p] /\ m - p <= m + 1 - p
        BY <2>2, <2>3, <2>4, <3>1
      <4> QED
        BY <2>3, <2>4, <4>1
    <3>2. CASE p > q
      <4>1. p - 1 \in 1..m /\ s[p - 1] = store[p] /\ m - (p - 1) <= m + 1 - p
        BY <2>2, <2>3, <2>4, <3>2
      <4> QED
        BY <2>3, <2>4, <4>1
    <3> QED
      BY <2>2, <3>1, <3>2
  <2> QED
    BY <1>2, <2>3, <2>4, <2>5, <2>6, <2>7
<1>3. CASE ~(Nonces!Holds(n) /\ Nonces!Lapsed(n, at))
  <2>1. s = store
    BY <1>3 DEF Nonces!AfterHas
  <2>2. \A p \in 1..Len(store) : s[p] = store[p] /\ Len(s) - p <= Len(store) - p
    BY <1>1, <2>1
  <2>3. Nonces!Lapsed(n, at) => \A k \in 1..Len(store) : store[k] # n
    BY <1>1, <1>3 DEF Nonces!Holds, Nonces!ToSet
  <2> QED
    BY <1>1, <2>1, <2>2, <2>3
<1> QED
  BY <1>2, <1>3

(* add(): the new text comes last, and the oldest makes room for it.       *)
LEMMA AddKeeps ==
    ASSUME NEW s \in Seq(Nonces!Texts), Len(s) <= Capacity, NEW n \in Nonces!Texts,
           \A k, l \in 1..Len(s) : s[k] = s[l] => k = l,
           \A k \in 1..Len(s) : s[k] # n,
           NEW t, t = Nonces!Add(s, n)
    PROVE  /\ t \in Seq(Nonces!Texts) /\ Len(t) <= Capacity /\ Len(t) \in Nat \ {0}
           /\ Nonces!IsInjective(t) /\ t[Len(t)] = n
           /\ \A p \in 1..Len(s) :
                 \/ p = 1 /\ Len(s) = Capacity
                 \/ \E r \in 1..Len(t) : t[r] = s[p] /\ Len(t) - r = Len(s) - p + 1
<1> DEFINE d == IF Len(s) >= Capacity THEN 1 ELSE 0
           m == Len(s) - d
           h == IF Len(s) >= Capacity THEN Tail(s) ELSE s
<1>1. Len(s) \in Nat /\ Capacity \in Nat \ {0}
  BY NonceAssumed
<1>2. d \in Nat /\ m \in Nat /\ Len(s) = m + d /\ (d = 1 <=> Len(s) = Capacity) /\ d <= 1
      /\ m + 1 <= Capacity
  BY <1>1
<1>3. h \in Seq(Nonces!Texts) /\ Len(h) = m /\ \A k \in 1..m : h[k] = s[k + d]
  <2>1. CASE Len(s) >= Capacity
    <3>1. s # << >> /\ d = 1 /\ h = Tail(s) /\ m = Len(s) - 1
      BY <1>1, <2>1
    <3>2. /\ Tail(s) \in Seq(Nonces!Texts) /\ Len(Tail(s)) = Len(s) - 1
          /\ \A k \in 1..(Len(s) - 1) : Tail(s)[k] = s[k + 1]
      BY <3>1
    <3> QED
      BY <1>1, <3>1, <3>2
  <2>2. CASE ~(Len(s) >= Capacity)
    <3>1. d = 0 /\ m = Len(s) /\ h = s
      BY <1>1, <2>2
    <3> QED
      BY <1>1, <3>1
  <2> QED
    BY <2>1, <2>2
<1>4. t = h \o <<n>>
  BY DEF Nonces!Add
<1> HIDE DEF m, d, h
<1>5. <<n>> \in Seq(Nonces!Texts) /\ Len(<<n>>) = 1 /\ <<n>>[1] = n
  OBVIOUS
<1>6. /\ t \in Seq(Nonces!Texts) /\ Len(t) = m + 1
      /\ \A k \in 1..(m + 1) : t[k] = IF k <= m THEN h[k] ELSE <<n>>[k - m]
  BY <1>2, <1>3, <1>4, <1>5, ConcatProperties
<1>7. t[m + 1] = n /\ \A k \in 1..m : t[k] = s[k + d] /\ k + d \in 1..Len(s)
  BY <1>2, <1>3, <1>5, <1>6
<1>8. Nonces!IsInjective(t)
  <2>1. DOMAIN t = 1..(m + 1)
    BY <1>6
  <2>2. ASSUME NEW k \in 1..m, NEW l \in 1..m, t[k] = t[l] PROVE k = l
    <3>1. k + d = l + d
      BY <1>7, <2>2
    <3> QED
      BY <1>2, <3>1
  <2>3. \A k \in 1..m : t[k] # n
    BY <1>7
  <2>4. \A k \in 1..(m + 1) : k \in 1..m \/ k = m + 1
    BY <1>2
  <2>5. \A k, l \in 1..(m + 1) : t[k] = t[l] => k = l
    BY <1>7, <2>2, <2>3, <2>4
  <2> QED
    BY <2>1, <2>5 DEF Nonces!IsInjective
<1>9. ASSUME NEW p \in 1..Len(s)
      PROVE  \/ p = 1 /\ Len(s) = Capacity
             \/ \E r \in 1..Len(t) : t[r] = s[p] /\ Len(t) - r = Len(s) - p + 1
  <2>1. CASE p - d \in 1..m
    <3>1. p - d \in 1..(m + 1) /\ (p - d) + d = p /\ m + 1 - (p - d) = m + d - p + 1
      BY <1>2, <2>1
    <3>2. t[p - d] = s[p]
      BY <1>7, <2>1, <3>1
    <3> QED
      BY <1>2, <1>6, <3>1, <3>2
  <2>2. CASE ~(p - d \in 1..m)
    BY <1>2, <2>2
  <2> QED
    BY <2>1, <2>2
<1> QED
  BY <1>2, <1>6, <1>7, <1>8, <1>9

(* verifySolution accepts: the text was not among the latest Capacity      *)
(* ones, or it expired while the call ran.                                 *)
LEMMA AcceptInv ==
    ASSUME NonceInv, NEW n \in Nonces!Headers, NEW lead \in 0..MaxLead,
           NEW u \in Clients, NEW score \in Scores, NEW at \in nonceTime..MaxNonceTime,
           Nonces!Accept(n, lead, u, score, at)
    PROVE  NonceInv'
<1> DEFINE s == Nonces!AfterHas(n, at)
           x == [nonce |-> n, lead |-> lead, at |-> at]
<1>1. /\ Nonces!TypeOK /\ store \in Seq(Nonces!Texts) /\ solved \in Seq(Nonces!Solutions)
      /\ issued \subseteq Nonces!Challenges
      /\ Len(store) <= Capacity /\ Capacity \in Nat \ {0} /\ MaxSolved \in Nat
      /\ nonceTime \in 0..MaxNonceTime
  BY NonceAssumed DEF NonceInv, Nonces!TypeOK
<1>2. /\ Len(solved) < MaxSolved /\ n.challenge.exp > nonceTime
      /\ (Nonces!Holds(n) => Nonces!Lapsed(n, at))
      /\ store' = Nonces!Add(s, n) /\ solved' = Append(solved, x)
      /\ nonceTime' = at /\ issued' = issued
  BY DEF Nonces!Accept, Nonces!BeforeReplay
<1>3. n \in Nonces!Texts /\ at \in Nat /\ nonceTime \in Nat /\ at >= nonceTime
      /\ at \in 0..MaxNonceTime /\ n.challenge.exp \in Nat
  BY <1>1, NonceTypes, NonceAssumed
<1>4. /\ s \in Seq(Nonces!Texts) /\ Len(s) <= Len(store)
      /\ \A k, l \in 1..Len(s) : s[k] = s[l] => k = l
      /\ Nonces!Lapsed(n, at) => \A k \in 1..Len(s) : s[k] # n
      /\ ~Nonces!Holds(n) => s = store
      /\ \A p \in 1..Len(store) :
            \/ store[p] = n /\ Nonces!Lapsed(n, at)
            \/ \E r \in 1..Len(s) : s[r] = store[p] /\ Len(s) - r <= Len(store) - p
  BY <1>1, <1>3, HasKeeps
<1> HIDE DEF s
<1>5. \A k \in 1..Len(s) : s[k] # n
  <2>1. ~Nonces!Holds(n) => \A k \in 1..Len(store) : store[k] # n
    BY <1>1 DEF Nonces!Holds, Nonces!ToSet
  <2> QED
    BY <1>2, <1>4, <2>1
<1>6. Len(s) \in Nat /\ Len(s) <= Capacity
  BY <1>1, <1>4
<1>7. /\ store' \in Seq(Nonces!Texts) /\ Len(store') <= Capacity /\ Len(store') \in Nat \ {0}
      /\ Nonces!IsInjective(store') /\ store'[Len(store')] = n
      /\ \A p \in 1..Len(s) :
            \/ p = 1 /\ Len(s) = Capacity
            \/ \E r \in 1..Len(store') :
                 store'[r] = s[p] /\ Len(store') - r = Len(s) - p + 1
  <2> DEFINE t == Nonces!Add(s, n)
  <2>1. /\ t \in Seq(Nonces!Texts) /\ Len(t) <= Capacity /\ Len(t) \in Nat \ {0}
        /\ Nonces!IsInjective(t) /\ t[Len(t)] = n
        /\ \A p \in 1..Len(s) :
              \/ p = 1 /\ Len(s) = Capacity
              \/ \E r \in 1..Len(t) : t[r] = s[p] /\ Len(t) - r = Len(s) - p + 1
    BY <1>3, <1>4, <1>5, <1>6, AddKeeps
  <2>2. store' = t
    BY <1>2
  <2> HIDE DEF t
  <2> QED
    BY <2>1, <2>2
<1>8. x \in Nonces!Solutions /\ x.nonce = n /\ x.at = at
  BY <1>3 DEF Nonces!Solutions
<1> HIDE DEF x
<1>9. PICK l \in Nat : Len(solved) = l
  BY <1>1
<1>10. /\ solved' \in Seq(Nonces!Solutions) /\ Len(solved') = l + 1
       /\ \A k \in 1..l : solved'[k] = solved[k]
       /\ solved'[l + 1] = x
  BY <1>1, <1>2, <1>8, <1>9
<1>11. Nonces!TypeOK'
  BY <1>1, <1>2, <1>3, <1>7, <1>9, <1>10 DEF Nonces!TypeOK
<1>12. ASSUME NEW i \in 1..l PROVE solved'[i].at <= nonceTime' /\ Kept(i)'
  <2>1. /\ solved'[i] = solved[i] /\ solved[i].at <= nonceTime /\ Kept(i)
        /\ solved[i].at \in Nat /\ solved[i].nonce \in Nonces!Texts
        /\ solved[i].nonce.challenge.exp \in Nat
    BY <1>1, <1>9, <1>10, NonceTypes DEF NonceInv
  <2>2. ASSUME nonceTime >= solved[i].nonce.challenge.exp PROVE Kept(i)'
    <3>1. nonceTime' >= solved'[i].nonce.challenge.exp
      BY <1>2, <1>3, <2>1, <2>2
    <3> QED
      BY <3>1 DEF Kept
  <2>3. ASSUME Len(solved) - i >= Capacity PROVE Kept(i)'
    <3>1. Len(solved') - i >= Capacity
      BY <1>1, <1>9, <1>10, <2>3
    <3> QED
      BY <3>1 DEF Kept
  <2>4. ASSUME NEW p \in 1..Len(store),
               store[p] = solved[i].nonce, Len(store) - p <= Len(solved) - i
        PROVE  Kept(i)'
    <3>1. CASE store[p] = n /\ Nonces!Lapsed(n, at)
      <4>1. at >= solved'[i].nonce.challenge.exp
        BY <2>1, <2>4, <3>1 DEF Nonces!Lapsed
      <4> QED
        BY <1>2, <4>1 DEF Kept
    <3>2. ASSUME NEW r \in 1..Len(s), s[r] = store[p], Len(s) - r <= Len(store) - p
          PROVE  Kept(i)'
      <4>1. CASE r = 1 /\ Len(s) = Capacity
        <5>1. Len(solved') - i >= Capacity
          <6>1. Capacity - 1 <= Len(store) - p
            BY <3>2, <4>1
          <6>2. Len(store) - p <= l - i
            BY <1>9, <2>4
          <6>3. Len(store) - p \in Int /\ l - i \in Int
            BY <1>1
          <6>4. Capacity - 1 <= l - i
            BY <6>1, <6>2, <6>3, NonceAssumed
          <6>5. l + 1 - i >= Capacity
            BY <6>4, NonceAssumed
          <6> QED
            BY <1>10, <6>5
        <5> QED
          BY <5>1 DEF Kept
      <4>2. ASSUME NEW q \in 1..Len(store'),
                   store'[q] = s[r], Len(store') - q = Len(s) - r + 1
            PROVE  Kept(i)'
        <5>1. Len(store') - q <= Len(solved') - i
          <6>1. Len(s) - r <= l - i
            BY <1>1, <1>6, <1>9, <2>4, <3>2
          <6>2. Len(s) - r + 1 <= l + 1 - i
            BY <1>6, <6>1
          <6> QED
            BY <1>10, <4>2, <6>2
        <5>2. store'[q] = solved'[i].nonce
          BY <2>1, <2>4, <3>2, <4>2
        <5> QED
          BY <5>1, <5>2 DEF Kept
      <4> QED
        BY <1>7, <3>2, <4>1, <4>2
    <3> QED
      BY <1>4, <2>4, <3>1, <3>2
  <2>5. Kept(i)'
    BY <2>1, <2>2, <2>3, <2>4 DEF Kept
  <2> QED
    BY <1>2, <1>3, <2>1, <2>5
<1>13. solved'[l + 1].at <= nonceTime' /\ Kept(l + 1)'
  <2>1. Len(store') \in 1..Len(store') /\ Len(store') - Len(store') <= Len(solved') - (l + 1)
    BY <1>7, <1>9, <1>10
  <2>2. store'[Len(store')] = solved'[l + 1].nonce
    BY <1>7, <1>8, <1>10
  <2>3. Kept(l + 1)'
    BY <2>1, <2>2 DEF Kept
  <2> QED
    BY <1>2, <1>3, <1>8, <1>10, <2>3
<1>14. ASSUME NEW i \in 1..(l + 1), NEW j \in 1..(l + 1), i < j, j - i <= Capacity,
              solved'[i].nonce = solved'[j].nonce
       PROVE  /\ ~Nonces!Lapsed(solved'[i].nonce, solved'[i].at)
              /\ Nonces!Lapsed(solved'[j].nonce, solved'[j].at)
  <2>1. CASE j \in 1..l
    <3>1. i \in 1..l /\ solved'[i] = solved[i] /\ solved'[j] = solved[j]
      BY <1>10, <1>14, <2>1
    <3> QED
      BY <1>9, <1>14, <2>1, <3>1 DEF NonceInv, ReplayNeedsFlood, Nonces!ReplayNeedsFlood
  <2>2. CASE j = l + 1
    <3>1. i \in 1..l /\ solved'[i] = solved[i] /\ solved'[j] = x /\ solved[i].nonce = n
      BY <1>8, <1>10, <1>14, <2>2
    <3>2. solved[i].at <= nonceTime /\ Kept(i) /\ solved[i].at \in Nat
      BY <1>1, <1>9, <3>1, NonceTypes DEF NonceInv
    <3>3. ~(nonceTime >= n.challenge.exp) /\ ~(Len(solved) - i >= Capacity)
      BY <1>1, <1>2, <1>3, <1>9, <1>14, <2>2, <3>1
    <3>4. Nonces!Holds(n)
      <4>1. \E p \in 1..Len(store) : store[p] = n
        BY <3>1, <3>2, <3>3 DEF Kept
      <4> QED
        BY <1>1, <4>1 DEF Nonces!Holds, Nonces!ToSet
    <3>5. ~(solved[i].at >= n.challenge.exp)
      BY <1>2, <1>3, <3>2
    <3> QED
      BY <1>2, <1>8, <3>1, <3>4, <3>5 DEF Nonces!Lapsed
  <2> QED
    BY <2>1, <2>2
<1>15. ReplayNeedsFlood'
  BY <1>10, <1>14 DEF ReplayNeedsFlood, Nonces!ReplayNeedsFlood, Nonces!Lapsed
<1>16. \A i \in 1..(l + 1) : i \in 1..l \/ i = l + 1
  OBVIOUS
<1> QED
  BY <1>10, <1>11, <1>12, <1>13, <1>15, <1>16 DEF NonceInv

(* A refusal drops nothing but the entry asked for, once it has expired.   *)
LEMMA RefuseInv ==
    ASSUME NonceInv, NEW n \in Nonces!Headers, NEW u \in Clients, NEW score \in Scores,
           NEW at \in nonceTime..MaxNonceTime, Nonces!Refuse(n, u, score, at)
    PROVE  NonceInv'
<1>1. /\ Nonces!TypeOK /\ store \in Seq(Nonces!Texts) /\ Len(store) \in Nat
      /\ Len(store) <= Capacity /\ Capacity \in Nat /\ issued \subseteq Nonces!Challenges
      /\ nonceTime \in Nat /\ n \in Nonces!Texts /\ at \in 0..MaxNonceTime /\ at \in Nat
      /\ at >= nonceTime
  BY NonceTypes, NonceAssumed DEF NonceInv, Nonces!TypeOK
<1>2. /\ issued' = issued \cup {Nonces!Challenge(u, score, at)}
      /\ nonceTime' = at /\ solved' = solved
      /\ store' = store \/ store' = Nonces!AfterHas(n, at)
  BY DEF Nonces!Refuse
<1>3. /\ store' \in Seq(Nonces!Texts) /\ Len(store') <= Capacity /\ Nonces!IsInjective(store')
      /\ \A p \in 1..Len(store) :
            \/ store[p] = n /\ Nonces!Lapsed(n, at)
            \/ \E r \in 1..Len(store') :
                 store'[r] = store[p] /\ Len(store') - r <= Len(store) - p
  <2>1. CASE store' = store
    <3>1. \A p \in 1..Len(store) : store'[p] = store[p] /\ Len(store') - p <= Len(store) - p
      BY <1>1, <2>1
    <3> QED
      BY <1>1, <2>1, <3>1 DEF Nonces!TypeOK
  <2>2. CASE store' = Nonces!AfterHas(n, at)
    <3>1. /\ store' \in Seq(Nonces!Texts) /\ Len(store') <= Len(store)
          /\ \A k, l \in 1..Len(store') : store'[k] = store'[l] => k = l
          /\ \A p \in 1..Len(store) :
                \/ store[p] = n /\ Nonces!Lapsed(n, at)
                \/ \E r \in 1..Len(store') :
                     store'[r] = store[p] /\ Len(store') - r <= Len(store) - p
      <4> DEFINE s == Nonces!AfterHas(n, at)
      <4>1. /\ s \in Seq(Nonces!Texts) /\ Len(s) <= Len(store)
            /\ \A k, l \in 1..Len(s) : s[k] = s[l] => k = l
            /\ \A p \in 1..Len(store) :
                  \/ store[p] = n /\ Nonces!Lapsed(n, at)
                  \/ \E r \in 1..Len(s) : s[r] = store[p] /\ Len(s) - r <= Len(store) - p
        BY <1>1, HasKeeps
      <4> HIDE DEF s
      <4> QED
        BY <2>2, <4>1 DEF s
    <3>2. DOMAIN store' = 1..Len(store') /\ Len(store') \in Nat
      BY <3>1
    <3> QED
      BY <1>1, <3>1, <3>2 DEF Nonces!IsInjective
  <2> QED
    BY <1>2, <2>1, <2>2
<1>4. Nonces!TypeOK'
  BY <1>1, <1>2, <1>3, ChallengeType DEF Nonces!TypeOK
<1>5. ASSUME NEW i \in 1..Len(solved) PROVE solved[i].at <= nonceTime' /\ Kept(i)'
  <2>1. /\ solved[i].at <= nonceTime /\ Kept(i) /\ solved[i].at \in Nat /\ Len(solved) \in Nat
        /\ solved[i].nonce.challenge.exp \in Nat
    BY <1>1, NonceTypes DEF NonceInv
  <2>2. ASSUME nonceTime >= solved[i].nonce.challenge.exp PROVE Kept(i)'
    <3>1. nonceTime' >= solved'[i].nonce.challenge.exp
      BY <1>1, <1>2, <2>1, <2>2
    <3> QED
      BY <3>1 DEF Kept
  <2>3. ASSUME Len(solved) - i >= Capacity PROVE Kept(i)'
    <3>1. Len(solved') - i >= Capacity
      BY <1>2, <2>3
    <3> QED
      BY <3>1 DEF Kept
  <2>4. ASSUME NEW p \in 1..Len(store),
               store[p] = solved[i].nonce, Len(store) - p <= Len(solved) - i
        PROVE  Kept(i)'
    <3>1. CASE store[p] = n /\ Nonces!Lapsed(n, at)
      BY <1>2, <2>4, <3>1 DEF Kept, Nonces!Lapsed
    <3>2. ASSUME NEW r \in 1..Len(store'),
                 store'[r] = store[p], Len(store') - r <= Len(store) - p
          PROVE  Kept(i)'
      <4>1. Len(store') - r <= Len(solved) - i
        BY <1>1, <1>3, <2>1, <2>4, <3>2
      <4> QED
        BY <1>2, <2>4, <3>2, <4>1 DEF Kept
    <3> QED
      BY <1>3, <3>1, <3>2
  <2>5. Kept(i)'
    BY <2>1, <2>2, <2>3, <2>4 DEF Kept
  <2>6. solved[i].at <= nonceTime'
    BY <1>1, <1>2, <2>1
  <2> QED
    BY <2>5, <2>6
<1> QED
  BY <1>2, <1>4, <1>5 DEF NonceInv, ReplayNeedsFlood, Nonces!ReplayNeedsFlood, Nonces!Lapsed

(* Every step of the nonce store keeps its invariant.                      *)
LEMMA NonceNext == NonceInv /\ [Nonces!Next]_nonceVars => NonceInv'
<1> SUFFICES ASSUME NonceInv, [Nonces!Next]_nonceVars PROVE NonceInv'
  OBVIOUS
<1>1. ASSUME UNCHANGED <<store, solved>>, nonceTime' \in nonceTime..MaxNonceTime,
             issued' \subseteq Nonces!Challenges
      PROVE  NonceInv'
  <2>1. Nonces!TypeOK /\ nonceTime \in Nat /\ nonceTime' \in Nat /\ nonceTime' >= nonceTime
        /\ nonceTime' \in 0..MaxNonceTime
    BY <1>1, NonceTypes, NonceAssumed DEF NonceInv
  <2>2. Nonces!TypeOK'
    BY <1>1, <2>1 DEF Nonces!TypeOK
  <2>3. ASSUME NEW i \in 1..Len(solved) PROVE solved[i].at <= nonceTime' /\ Kept(i)'
    <3>1. solved[i].at <= nonceTime /\ Kept(i) /\ solved[i].at \in Nat
          /\ solved[i].nonce.challenge.exp \in Nat
      BY <2>1, NonceTypes DEF NonceInv
    <3> QED
      BY <1>1, <2>1, <3>1 DEF Kept
  <2> QED
    BY <1>1, <2>2, <2>3
    DEF NonceInv, ReplayNeedsFlood, Nonces!ReplayNeedsFlood, Nonces!Lapsed
<1>2. nonceTime \in nonceTime..MaxNonceTime /\ nonceTime \in 0..MaxNonceTime
      /\ issued \subseteq Nonces!Challenges
  BY NonceAssumed DEF NonceInv, Nonces!TypeOK
<1>3. ASSUME NEW u \in Clients, NEW score \in Scores, Nonces!Issue(u, score) PROVE NonceInv'
  BY <1>1, <1>2, <1>3, ChallengeType DEF Nonces!Issue
<1>4. ASSUME NEW u \in Clients, NEW score \in Scores, NEW n \in Nonces!Headers,
             NEW at \in nonceTime..MaxNonceTime,
             \/ \E lead \in 0..MaxLead : Nonces!Accept(n, lead, u, score, at)
             \/ Nonces!Refuse(n, u, score, at)
      PROVE  NonceInv'
  BY <1>4, AcceptInv, RefuseInv
<1>5. CASE Nonces!Tick
  <2>1. nonceTime < MaxNonceTime /\ nonceTime' = nonceTime + 1 /\ UNCHANGED <<issued, store, solved>>
    BY <1>5 DEF Nonces!Tick
  <2> QED
    BY <1>1, <1>2, <2>1, NonceAssumed
<1>6. CASE Nonces!Restart
  <2>1. store' = << >> /\ solved' = << >> /\ UNCHANGED <<issued, nonceTime>>
    BY <1>6 DEF Nonces!Restart
  <2>2. Nonces!TypeOK'
    BY <2>1, NonceAssumed DEF NonceInv, Nonces!TypeOK, Nonces!IsInjective
  <2> QED
    BY <2>1, <2>2, NonceAssumed DEF NonceInv, ReplayNeedsFlood, Nonces!ReplayNeedsFlood
<1>7. CASE UNCHANGED nonceVars
  BY <1>1, <1>2, <1>7 DEF nonceVars
<1> QED
  BY <1>3, <1>4, <1>5, <1>6, <1>7 DEF Nonces!Next

-----------------------------------------------------------------------------
(* The theorems: a step of one store leaves the others alone *)

StoresInv == TokenInv /\ NonceInv /\ PolicyInv /\ ChallengeInv

(* The invariant of the stores holds in every state they can reach.        *)
THEOREM InvHolds == Spec => []StoresInv
<1>1. Init => StoresInv
  BY TokenInit, NonceInit, PolicyInit, ChallengeInit DEF Init, StoresInv
<1>2. StoresInv /\ [Next]_vars => StoresInv'
  <2> SUFFICES ASSUME StoresInv, [Next]_vars PROVE StoresInv'
    OBVIOUS
  <2>1. /\ [Tokens!Next]_tokenVars /\ [Nonces!Next]_nonceVars
        /\ [Policy!Next]_policyVars /\ [Challenges!Next]_challengeVars
    BY DEF Next, vars
  <2> QED
    BY <2>1, TokenNext, NonceNext, PolicyNext, ChallengeNext DEF StoresInv
<1> QED
  BY <1>1, <1>2, PTL DEF Spec

(* The stores keep their types, and the nonce store its capacity.          *)
THEOREM TypeCorrect == Spec => []TypeOK
<1>1. StoresInv => TypeOK
  BY DEF StoresInv, TokenInv, NonceInv, PolicyInv, ChallengeInv, TypeOK
<1> QED
  BY <1>1, InvHolds, PTL

(* auth.controller.ts, token-revocation.service.ts: a revocation binds     *)
(* until its expiry and only its author or an admin can loosen it.         *)
THEOREM RevocationTheorem == Spec => []RevocationHolds
<1>1. StoresInv => RevocationHolds
  BY DEF StoresInv, TokenInv
<1> QED
  BY <1>1, InvHolds, PTL

(* hashcash.service.ts, used-nonce-store.ts: a nonce text is accepted a    *)
(* second time only after Capacity other solutions were accepted, or once, *)
(* by a call during which it expires.                                      *)
THEOREM ReplayTheorem == Spec => []ReplayNeedsFlood
<1>1. StoresInv => ReplayNeedsFlood
  BY DEF StoresInv, NonceInv
<1> QED
  BY <1>1, InvHolds, PTL

(* policy-evaluator.service.ts: between writers the file holds the rules   *)
(* being enforced, and a change an admin is told of is already in it.      *)
THEOREM PersistenceTheorem == Spec => []FileFollowsEnforcer
<1>1. StoresInv => FileFollowsEnforcer
  BY PolicyFile DEF StoresInv
<1> QED
  BY <1>1, InvHolds, PTL

(* mfa-challenge.repository.ts: no window of a user holds more than Limit  *)
(* challenges, in whatever order the transactions begin and commit.        *)
THEOREM RateLimitTheorem == Spec => []RateLimitHolds
<1>1. StoresInv => RateLimitHolds
  BY DEF StoresInv, ChallengeInv
<1> QED
  BY <1>1, InvHolds, PTL

=============================================================================

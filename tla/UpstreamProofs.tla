--------------------------- MODULE UpstreamProofs ---------------------------
(* Machine-checked proofs about the way out of the gateway, for any number *)
(* of requests, retries, files, versions, environments, paths and field    *)
(* policies and bodies of any depth.  Each component has an inductive      *)
(* invariant of its own, which the steps of the others leave alone.        *)
EXTENDS Upstream, FiniteSetTheorems, WellFoundedInduction, TLAPS

-----------------------------------------------------------------------------
(* The breaker and the retry loops *)

(* The requests that reached the breaker or were refused before it, and    *)
(* those sent to the service whose caller was given an error.              *)
Answered == {r \in Forwarded : call[r] # "new"}
Errors == {r \in Forwarded : sent[r] > 0 /\ call[r] \in {"500", "502"}}

(* The loop of a request counts what it sends, and starts when the breaker *)
(* is fired.                                                               *)
LoopInv(r) ==
    /\ call[r] = "new" => loop[r] = "none"
    /\ call[r] = "fired" => loop[r] # "none"
    /\ sent[r] = IF loop[r] = "none" THEN 0 ELSE attempt[r] + 1
    /\ loop[r] = "none" => attempt[r] = 0
    /\ loop[r] = "backoff" => attempt[r] < MaxRetries

ProxyInv ==
    /\ Proxy!TypeOK
    /\ breaker.fires <= Cardinality(Answered)
    /\ breaker.failures <= Cardinality(Errors)
    /\ \A r \in Forwarded : LoopInv(r)

Breakers == [state : {"closed", "open", "halfOpen"}, fires : Nat, failures : Nat, trial : BOOLEAN]

(* What is assumed of the proxy's parameters.                              *)
LEMMA ProxyAssumed ==
    /\ IsFiniteSet(Forwarded) /\ MaxRetries \in Nat
    /\ VolumeThreshold \in Nat /\ ErrorThreshold \in Nat
    /\ \A S : Proxy!Cardinality(S) = Cardinality(S)
<1>1. Proxy!IsFiniteSet(Forwarded) <=> IsFiniteSet(Forwarded)
  BY DEF Proxy!IsFiniteSet, IsFiniteSet
<1>2. \A S : Proxy!Cardinality(S) = Cardinality(S)
  BY DEF Proxy!Cardinality, Cardinality
<1> QED
  BY <1>1, <1>2, UpstreamAssumption DEF Proxy!ProxyAssumption

(* Sets of requests are counted by natural numbers up to their number.     *)
LEMMA Counted ==
    ASSUME NEW T \in SUBSET Forwarded, NEW S \in SUBSET T
    PROVE  /\ Cardinality(S) \in Nat /\ Cardinality(T) \in Nat /\ Cardinality(Forwarded) \in Nat
           /\ Cardinality(S) <= Cardinality(T) /\ Cardinality(T) <= Cardinality(Forwarded)
<1>1. IsFiniteSet(Forwarded) /\ IsFiniteSet(T) /\ IsFiniteSet(S)
  BY ProxyAssumed, FS_Subset
<1> QED
  BY <1>1, FS_Subset, FS_CardinalityType

(* A set with one request more is counted by one more, or more.            *)
LEMMA CountedMore ==
    ASSUME NEW T \in SUBSET Forwarded, NEW S \in SUBSET T, NEW r \in T, r \notin S
    PROVE  Cardinality(S) + 1 <= Cardinality(T)
<1>1. IsFiniteSet(S) /\ S \cup {r} \in SUBSET T
  BY ProxyAssumed, FS_Subset
<1>2. Cardinality(S \cup {r}) = Cardinality(S) + 1
  BY <1>1, FS_AddElement
<1> QED
  BY <1>1, <1>2, Counted

(* The breaker's bookkeeping: a failure adds one failure, a success none,  *)
(* and neither counts a fire.                                              *)
LEMMA Bookkeeping ==
    ASSUME NEW b \in Breakers
    PROVE  /\ Proxy!Failed(b) \in Breakers /\ Proxy!Succeeded(b) \in Breakers
           /\ Proxy!Failed(b).fires = b.fires /\ Proxy!Succeeded(b).fires = b.fires
           /\ Proxy!Failed(b).failures = b.failures + 1
           /\ Proxy!Succeeded(b).failures = b.failures
<1>1. /\ Proxy!Succeeded(b) \in Breakers /\ Proxy!Succeeded(b).fires = b.fires
      /\ Proxy!Succeeded(b).failures = b.failures
  BY DEF Breakers, Proxy!Succeeded
<1> DEFINE f == [b EXCEPT !.failures = @ + 1]
           g == [f EXCEPT !.state = "open", !.trial = FALSE]
<1>2. f \in Breakers /\ f.fires = b.fires /\ f.failures = b.failures + 1
  BY DEF Breakers
<1>3. g \in Breakers /\ g.fires = b.fires /\ g.failures = b.failures + 1
  BY <1>2 DEF Breakers
<1>4. Proxy!Failed(b) \in {f, g}
  BY DEF Proxy!Failed
<1> QED
  BY <1>1, <1>2, <1>3, <1>4

(* A step of one request: what it may do to its own record and to the      *)
(* breaker.  It counts a fire only for a request that was new and now is   *)
(* not, and a failure only for one it gives an error just now.             *)
Moved(r) ==
    /\ call' = [call EXCEPT ![r] = call'[r]] /\ call'[r] \in {"fired"} \cup Proxy!Answers
    /\ loop' = [loop EXCEPT ![r] = loop'[r]] /\ loop'[r] \in {"none", "sending", "backoff", "ended"}
    /\ attempt' = [attempt EXCEPT ![r] = attempt'[r]] /\ attempt'[r] \in 0..MaxRetries
    /\ sent' = [sent EXCEPT ![r] = sent'[r]]
    /\ reply' = [reply EXCEPT ![r] = reply'[r]] /\ reply'[r] \in Proxy!Replies \cup {"none"}
    /\ LoopInv(r)'
    /\ sent'[r] >= sent[r]
    /\ call[r] \notin {"new", "fired"} => call'[r] = call[r]
    /\ breaker' \in Breakers
    /\ breaker'.fires = breaker.fires + (IF call[r] = "new" /\ breaker'.fires # breaker.fires THEN 1 ELSE 0)
    /\ \/ breaker'.failures = breaker.failures
       \/ /\ breaker'.failures = breaker.failures + 1
          /\ call[r] = "fired" /\ call'[r] \in {"500", "502"}

(* Such a step keeps the invariant.                                        *)
LEMMA MovedInv ==
    ASSUME ProxyInv, NEW r \in Forwarded, Moved(r)
    PROVE  ProxyInv'
<1>1. /\ call \in [Forwarded -> {"new", "fired"} \cup Proxy!Answers]
      /\ loop \in [Forwarded -> {"none", "sending", "backoff", "ended"}]
      /\ attempt \in [Forwarded -> 0..MaxRetries] /\ sent \in [Forwarded -> 0..(MaxRetries + 1)]
      /\ reply \in [Forwarded -> Proxy!Replies \cup {"none"}]
      /\ breaker.fires \in Nat /\ breaker.failures \in Nat /\ MaxRetries \in Nat
  BY ProxyAssumed DEF ProxyInv, Proxy!TypeOK
<1>2. sent'[r] \in 0..(MaxRetries + 1)
  BY <1>1 DEF Moved, LoopInv
<1>3. /\ call' \in [Forwarded -> {"new", "fired"} \cup Proxy!Answers]
      /\ loop' \in [Forwarded -> {"none", "sending", "backoff", "ended"}]
      /\ attempt' \in [Forwarded -> 0..MaxRetries] /\ sent' \in [Forwarded -> 0..(MaxRetries + 1)]
      /\ reply' \in [Forwarded -> Proxy!Replies \cup {"none"}]
  BY <1>1, <1>2 DEF Moved
<1>4. ASSUME NEW q \in Forwarded, q # r
      PROVE  /\ call'[q] = call[q] /\ loop'[q] = loop[q] /\ attempt'[q] = attempt[q]
             /\ sent'[q] = sent[q]
  BY <1>1, <1>4 DEF Moved
<1>5. \A q \in Forwarded : LoopInv(q)'
  BY <1>4 DEF Moved, LoopInv, ProxyInv
<1>6. Answered' \in SUBSET Forwarded /\ Answered \in SUBSET Answered' /\ r \in Answered'
  BY <1>1, <1>4 DEF Moved, Answered, Proxy!Answers
<1>7. breaker'.fires <= Cardinality(Answered')
  <2>1. breaker.fires <= Cardinality(Answered) /\ Cardinality(Answered) \in Nat
    BY <1>6, Counted DEF ProxyInv
  <2>2. CASE breaker'.fires = breaker.fires
    <3>1. Cardinality(Answered) <= Cardinality(Answered') /\ Cardinality(Answered') \in Nat
      BY <1>6, Counted
    <3> QED
      BY <1>1, <2>1, <2>2, <3>1
  <2>3. CASE breaker'.fires # breaker.fires
    <3>1. r \notin Answered /\ breaker'.fires = breaker.fires + 1
      BY <1>1, <2>3 DEF Moved, Answered
    <3>2. Cardinality(Answered) + 1 <= Cardinality(Answered')
      BY <1>6, <3>1, CountedMore
    <3>3. Cardinality(Answered') \in Nat
      BY <1>6, Counted
    <3> QED
      BY <1>1, <2>1, <3>1, <3>2, <3>3
  <2> QED
    BY <2>2, <2>3
<1>8. Errors' \in SUBSET Forwarded /\ Errors \in SUBSET Errors'
  <2>1. sent'[r] >= sent[r] /\ (call[r] \notin {"new", "fired"} => call'[r] = call[r])
    BY DEF Moved
  <2>2. sent[r] \in Int /\ sent'[r] \in Int
    BY <1>1, <1>2
  <2>3. r \in Errors => r \in Errors'
    BY <2>1, <2>2 DEF Errors
  <2> QED
    BY <1>4, <2>3 DEF Errors
<1>9. breaker'.failures <= Cardinality(Errors')
  <2>1. breaker.failures <= Cardinality(Errors) /\ Cardinality(Errors) \in Nat
    BY <1>8, Counted DEF ProxyInv
  <2>2. Cardinality(Errors') \in Nat /\ Cardinality(Errors) <= Cardinality(Errors')
    BY <1>8, Counted
  <2>3. CASE breaker'.failures = breaker.failures
    BY <1>1, <2>1, <2>2, <2>3
  <2>4. CASE breaker'.failures = breaker.failures + 1 /\ call[r] = "fired" /\ call'[r] \in {"500", "502"}
    <3>1. r \notin Errors
      BY <2>4 DEF Errors
    <3>2. sent[r] > 0
      BY <1>1, <2>4 DEF ProxyInv, LoopInv
    <3>3. r \in Errors'
      BY <1>1, <1>2, <2>4, <3>2 DEF Errors, Moved
    <3>4. Cardinality(Errors) + 1 <= Cardinality(Errors')
      BY <1>8, <3>1, <3>3, CountedMore
    <3> QED
      BY <1>1, <2>1, <2>2, <2>4, <3>4
  <2> QED
    BY <2>3, <2>4 DEF Moved
<1>10. breaker' \in [state : {"closed", "open", "halfOpen"}, fires : 0..Cardinality(Forwarded),
                     failures : Nat, trial : BOOLEAN]
  <2>1. breaker'.fires \in 0..Cardinality(Forwarded)
    <3>1. breaker'.fires \in Nat
      BY DEF Moved, Breakers
    <3>2. Cardinality(Answered') <= Cardinality(Forwarded)
          /\ Cardinality(Answered') \in Nat /\ Cardinality(Forwarded) \in Nat
      BY <1>6, Counted
    <3> QED
      BY <1>7, <3>1, <3>2
  <2> QED
    BY <2>1 DEF Moved, Breakers
<1>11. Proxy!TypeOK'
  BY <1>3, <1>10, ProxyAssumed DEF Proxy!TypeOK
<1> QED
  BY <1>5, <1>7, <1>9, <1>11 DEF ProxyInv


(* The breaker, with its counters within the natural numbers.              *)
LEMMA BreakerType == ProxyInv => breaker \in Breakers
<1>1. Cardinality(Forwarded) \in Nat
  BY Counted
<1>2. 0..Cardinality(Forwarded) \subseteq Nat
  BY <1>1
<1> QED
  BY <1>2, ProxyAssumed DEF ProxyInv, Proxy!TypeOK, Breakers

(* forward() before and at the breaker, and the breaker's timer.           *)
LEMMA ForwardMoves ==
    ASSUME ProxyInv, NEW r \in Forwarded,
           \/ Proxy!Rejected(r) \/ Proxy!Fire(r) \/ Proxy!ShortCircuit(r)
           \/ Proxy!BreakerTimeout(r)
    PROVE  Moved(r)
<1>1. breaker \in Breakers /\ LoopInv(r) /\ MaxRetries \in Nat
  BY BreakerType, ProxyAssumed DEF ProxyInv
<1>2. /\ call \in [Forwarded -> {"new", "fired"} \cup Proxy!Answers]
      /\ loop \in [Forwarded -> {"none", "sending", "backoff", "ended"}]
      /\ attempt \in [Forwarded -> 0..MaxRetries] /\ sent \in [Forwarded -> 0..(MaxRetries + 1)]
      /\ reply \in [Forwarded -> Proxy!Replies \cup {"none"}]
  BY DEF ProxyInv, Proxy!TypeOK
<1>3. CASE Proxy!Rejected(r)
  BY <1>1, <1>2, <1>3 DEF Proxy!Rejected, Moved, LoopInv, Proxy!Answers, Breakers
<1>4. CASE Proxy!Fire(r)
  <2>1. breaker' \in Breakers /\ breaker'.fires = breaker.fires + 1 /\ breaker'.failures = breaker.failures
    <3> DEFINE counted == [breaker EXCEPT !.fires = @ + 1]
               b == [breaker EXCEPT !.fires = @ + 1, !.trial = FALSE]
    <3>1. counted \in Breakers /\ counted.fires = breaker.fires + 1 /\ counted.failures = breaker.failures
      BY <1>1 DEF Breakers
    <3>2. b = [counted EXCEPT !.trial = FALSE]
      BY <1>1 DEF Breakers
    <3> HIDE DEF counted, b
    <3>3. b \in Breakers /\ b.fires = breaker.fires + 1 /\ b.failures = breaker.failures
      BY <3>1, <3>2 DEF Breakers
    <3> QED
      BY <1>4, <3>3 DEF b, Proxy!Fire
  <2>2. /\ call[r] = "new" /\ call' = [call EXCEPT ![r] = "fired"]
        /\ loop' = [loop EXCEPT ![r] = "sending"] /\ sent' = [sent EXCEPT ![r] = @ + 1]
        /\ UNCHANGED <<attempt, reply>>
    BY <1>4 DEF Proxy!Fire
  <2>3. LoopInv(r)' /\ sent'[r] >= sent[r]
    BY <1>1, <1>2, <2>2 DEF LoopInv
  <2> QED
    BY <1>1, <1>2, <2>1, <2>2, <2>3 DEF Moved, Breakers
<1>5. CASE Proxy!ShortCircuit(r)
  <2>1. breaker' \in Breakers /\ breaker'.fires = breaker.fires + 1 /\ breaker'.failures = breaker.failures
    <3> DEFINE b == [breaker EXCEPT !.fires = @ + 1]
    <3>1. b \in Breakers /\ b.fires = breaker.fires + 1 /\ b.failures = breaker.failures
      BY <1>1 DEF Breakers
    <3> QED
      BY <1>5, <3>1 DEF Proxy!ShortCircuit
  <2> QED
    BY <1>1, <1>2, <1>5, <2>1 DEF Proxy!ShortCircuit, Moved, LoopInv, Breakers, Proxy!Answers
<1>6. CASE Proxy!BreakerTimeout(r)
  <2>1. breaker' \in Breakers /\ breaker'.fires = breaker.fires /\ breaker'.failures = breaker.failures + 1
    BY <1>1, <1>6, Bookkeeping DEF Proxy!BreakerTimeout
  <2> QED
    BY <1>1, <1>2, <1>6, <2>1 DEF Proxy!BreakerTimeout, Moved, LoopInv, Breakers, Proxy!Answers
<1> QED
  BY <1>3, <1>4, <1>5, <1>6

(* The retry loop.                                                         *)
LEMMA LoopMoves ==
    ASSUME ProxyInv, NEW r \in Forwarded, Proxy!Loop(r)
    PROVE  ProxyInv'
<1>1. breaker \in Breakers /\ LoopInv(r) /\ MaxRetries \in Nat
  BY BreakerType, ProxyAssumed DEF ProxyInv
<1>2. /\ call \in [Forwarded -> {"new", "fired"} \cup Proxy!Answers]
      /\ loop \in [Forwarded -> {"none", "sending", "backoff", "ended"}]
      /\ attempt \in [Forwarded -> 0..MaxRetries] /\ sent \in [Forwarded -> 0..(MaxRetries + 1)]
      /\ reply \in [Forwarded -> Proxy!Replies \cup {"none"}]
  BY DEF ProxyInv, Proxy!TypeOK
<1>3. loop[r] # "none" => call[r] \in {"fired"} \cup Proxy!Answers
  BY <1>1, <1>2 DEF LoopInv
<1>4. CASE Proxy!Resend(r)
  <2>1. LoopInv(r)' /\ sent'[r] >= sent[r] /\ attempt'[r] \in 0..MaxRetries
    BY <1>1, <1>2, <1>4 DEF Proxy!Resend, LoopInv
  <2>2. Moved(r)
    BY <1>1, <1>2, <1>3, <1>4, <2>1 DEF Proxy!Resend, Moved, Breakers
  <2> QED
    BY <2>2, MovedInv
<1>5. ASSUME NEW p \in Proxy!Replies, Proxy!BackOff(r, p) PROVE ProxyInv'
  <2>1. LoopInv(r)' /\ sent'[r] >= sent[r]
    BY <1>1, <1>2, <1>5 DEF Proxy!BackOff, Proxy!MayRetry, LoopInv
  <2>2. Moved(r)
    BY <1>1, <1>2, <1>3, <1>5, <2>1 DEF Proxy!BackOff, Moved, Breakers
  <2> QED
    BY <2>2, MovedInv
<1>6. ASSUME NEW p \in Proxy!Replies, Proxy!LoopEnds(r, p) PROVE ProxyInv'
  <2>1. Proxy!AnswerFor(p) \in Proxy!Answers /\ (p \in Proxy!Thrown => Proxy!AnswerFor(p) = "500")
    BY DEF Proxy!AnswerFor, Proxy!Thrown, Proxy!Answers
  <2>2. /\ loop[r] = "sending" /\ loop' = [loop EXCEPT ![r] = "ended"]
        /\ reply' = [reply EXCEPT ![r] = p] /\ UNCHANGED <<attempt, sent>>
    BY <1>6 DEF Proxy!LoopEnds
  <2>3. \/ UNCHANGED <<breaker, call>> /\ call[r] # "fired"
        \/ /\ call[r] = "fired" /\ call' = [call EXCEPT ![r] = Proxy!AnswerFor(p)]
           /\ breaker' = IF p \in Proxy!Thrown THEN Proxy!Failed(breaker) ELSE Proxy!Succeeded(breaker)
    BY <1>6 DEF Proxy!LoopEnds
  <2>4. call'[r] \in Proxy!Answers /\ call' = [call EXCEPT ![r] = call'[r]]
    BY <1>2, <1>3, <2>1, <2>2, <2>3
  <2>5. LoopInv(r)' /\ sent'[r] >= sent[r]
    BY <1>1, <1>2, <2>2, <2>4 DEF LoopInv, Proxy!Answers
  <2>6. /\ breaker' \in Breakers /\ breaker'.fires = breaker.fires
        /\ \/ breaker'.failures = breaker.failures
           \/ /\ breaker'.failures = breaker.failures + 1
              /\ call[r] = "fired" /\ call'[r] \in {"500", "502"}
    <3>1. CASE UNCHANGED <<breaker, call>>
      BY <1>1, <3>1
    <3>2. CASE call[r] = "fired" /\ p \in Proxy!Thrown /\ breaker' = Proxy!Failed(breaker)
               /\ call' = [call EXCEPT ![r] = Proxy!AnswerFor(p)]
      <4>1. call'[r] = "500"
        BY <1>2, <2>1, <3>2
      <4> QED
        BY <1>1, <3>2, <4>1, Bookkeeping
    <3>3. CASE breaker' = Proxy!Succeeded(breaker)
      BY <1>1, <3>3, Bookkeeping
    <3> QED
      BY <2>3, <3>1, <3>2, <3>3
  <2>7. call[r] \notin {"new", "fired"} => call'[r] = call[r]
    BY <2>3
  <2>8. breaker.fires \in Nat
    BY <1>1 DEF Breakers
  <2>9. Moved(r)
    BY <1>2, <2>2, <2>4, <2>5, <2>6, <2>7, <2>8 DEF Moved
  <2> QED
    BY <2>9, MovedInv
<1> QED
  BY <1>4, <1>5, <1>6 DEF Proxy!Loop

(* No request has come when the process starts.                            *)
LEMMA ProxyInit == Proxy!Init => ProxyInv
<1> SUFFICES ASSUME Proxy!Init PROVE ProxyInv
  OBVIOUS
<1>1. /\ Cardinality(Answered) \in Nat /\ Cardinality(Errors) \in Nat
      /\ Cardinality(Forwarded) \in Nat
  <2>1. Answered \in SUBSET Forwarded /\ Errors \in SUBSET Forwarded
    BY DEF Answered, Errors
  <2> QED
    BY <2>1, Counted
<1>2. breaker \in [state : {"closed", "open", "halfOpen"}, fires : 0..Cardinality(Forwarded),
                   failures : Nat, trial : BOOLEAN]
  BY <1>1 DEF Proxy!Init
<1>3. Proxy!TypeOK
  BY <1>2, ProxyAssumed DEF Proxy!Init, Proxy!TypeOK
<1>4. breaker.fires <= Cardinality(Answered) /\ breaker.failures <= Cardinality(Errors)
  BY <1>1 DEF Proxy!Init
<1>5. \A r \in Forwarded : LoopInv(r)
  BY DEF Proxy!Init, LoopInv
<1> QED
  BY <1>3, <1>4, <1>5 DEF ProxyInv

(* Every step of the proxy keeps its invariant.                            *)
LEMMA ProxyNext == ProxyInv /\ [Proxy!Next]_proxyVars => ProxyInv'
<1> SUFFICES ASSUME ProxyInv, [Proxy!Next]_proxyVars PROVE ProxyInv'
  OBVIOUS
<1>1. ASSUME NEW r \in Forwarded,
             \/ Proxy!Rejected(r) \/ Proxy!Fire(r) \/ Proxy!ShortCircuit(r)
             \/ Proxy!BreakerTimeout(r)
      PROVE  ProxyInv'
  BY <1>1, ForwardMoves, MovedInv
<1>2. ASSUME UNCHANGED <<call, loop, attempt, sent, reply>>, breaker' \in Breakers,
             breaker'.fires <= breaker.fires, breaker'.failures <= breaker.failures
      PROVE  ProxyInv'
  <2>1. /\ Cardinality(Answered) \in Nat /\ Cardinality(Errors) \in Nat
        /\ Cardinality(Forwarded) \in Nat
    <3>1. Answered \in SUBSET Forwarded /\ Errors \in SUBSET Forwarded
      BY DEF Answered, Errors
    <3> QED
      BY <3>1, Counted
  <2>2. breaker \in Breakers /\ breaker.fires \in 0..Cardinality(Forwarded)
    BY BreakerType, ProxyAssumed DEF ProxyInv, Proxy!TypeOK
  <2>3. breaker'.fires \in 0..Cardinality(Forwarded)
    BY <1>2, <2>1, <2>2 DEF Breakers
  <2>4. breaker' \in [state : {"closed", "open", "halfOpen"}, fires : 0..Cardinality(Forwarded),
                      failures : Nat, trial : BOOLEAN]
    BY <1>2, <2>3 DEF Breakers
  <2>5. Proxy!TypeOK'
    BY <1>2, <2>4, ProxyAssumed DEF ProxyInv, Proxy!TypeOK
  <2>6. Answered' = Answered /\ Errors' = Errors
    BY <1>2 DEF Answered, Errors
  <2>7. breaker'.fires <= Cardinality(Answered') /\ breaker'.failures <= Cardinality(Errors')
    BY <1>2, <2>1, <2>2, <2>6 DEF ProxyInv, Breakers
  <2> QED
    BY <1>2, <2>5, <2>7 DEF ProxyInv, LoopInv
<1>3. breaker \in Breakers
  BY BreakerType
<1>4. CASE Proxy!WindowRolls
  <2>1. breaker' \in Breakers /\ breaker'.fires = 0 /\ breaker'.failures = 0
    BY <1>3, <1>4 DEF Proxy!WindowRolls, Breakers
  <2>2. breaker'.fires <= breaker.fires /\ breaker'.failures <= breaker.failures
    BY <1>3, <2>1 DEF Breakers
  <2> QED
    BY <1>2, <1>4, <2>1, <2>2 DEF Proxy!WindowRolls
<1>5. CASE Proxy!HalfOpen
  <2>1. /\ breaker' \in Breakers /\ breaker'.fires = breaker.fires
        /\ breaker'.failures = breaker.failures
    BY <1>3, <1>5 DEF Proxy!HalfOpen, Breakers
  <2>2. breaker'.fires <= breaker.fires /\ breaker'.failures <= breaker.failures
    BY <1>3, <2>1 DEF Breakers
  <2> QED
    BY <1>2, <1>5, <2>1, <2>2 DEF Proxy!HalfOpen
<1>6. CASE UNCHANGED proxyVars
  BY <1>2, <1>3, <1>6 DEF proxyVars, Breakers
<1> QED
  BY <1>1, <1>4, <1>5, <1>6, LoopMoves DEF Proxy!Next

(* The count of failures is the property of the proxy.                     *)
LEMMA ProxyCounts == ProxyInv => OneFailurePerFire
  BY ProxyAssumed DEF ProxyInv, Errors, OneFailurePerFire, Proxy!OneFailurePerFire

-----------------------------------------------------------------------------
(* The certificates *)

Held(versions) == \A f \in Files : versions[f] > 0

Loads == [pc : {"idle", "reading", "stating"}, got : Cert!Versions,
          stamp : Cert!Versions, todo : SUBSET Files]
Asks == [pc : {"new", "stating", "waiting", "served", "failed"},
         seen : Cert!Versions, todo : SUBSET Files, agent : Cert!Caches]
Polls == [checking : BOOLEAN, todo : SUBSET Files, changed : BOOLEAN]

(* Every file has a version, and one that is away will have a next one.    *)
DiskOK ==
    /\ disk \in Cert!Versions /\ missing \in SUBSET Files
    /\ \A f \in Files : disk[f] > 0 /\ (f \in missing => disk[f] < MaxVersion)

(* A cache that is not empty holds a version of every file.                *)
CacheOK(c) == c \in Cert!Caches /\ (~c.null => Held(c.agent))

(* A load holds a version of every file it has read, and of all of them    *)
(* once it takes the mtimes.                                               *)
LoadOK(x) ==
    /\ x \in Loads
    /\ x.pc = "reading" => \A f \in Files : f \in x.todo \/ x.got[f] > 0
    /\ x.pc = "stating" => Held(x.got)

(* A request that was served has a whole agent.                            *)
AskOK(x) == x \in Asks /\ (x.pc = "served" => CacheOK(x.agent) /\ ~x.agent.null)

LoadsOK == load = [l \in Cert!Loaders |-> load[l]] /\ \A l \in Cert!Loaders : LoadOK(load[l])
AsksOK == req = [r \in Senders |-> req[r]] /\ \A r \in Senders : AskOK(req[r])
WatchOK == last \in Cert!Versions /\ poll \in Polls /\ up \in BOOLEAN

CertInv == DiskOK /\ CacheOK(cache) /\ LoadsOK /\ AsksOK /\ WatchOK /\ Cert!WaitersHaveALoad

(* The parts give the types and the property.                              *)
LEMMA CertParts == CertInv => Cert!TypeOK /\ AgentsDelivered
<1> SUFFICES ASSUME CertInv PROVE Cert!TypeOK /\ AgentsDelivered
  OBVIOUS
<1>1. load \in [Cert!Loaders -> Loads] /\ req \in [Senders -> Asks]
  BY DEF CertInv, LoadsOK, LoadOK, AsksOK, AskOK
<1>2. Cert!TypeOK
  BY <1>1 DEF CertInv, DiskOK, CacheOK, WatchOK, Loads, Asks, Polls, Cert!TypeOK
<1>3. Cert!AgentIsComplete
  BY DEF CertInv, AsksOK, AskOK, CacheOK, Held, Cert!AgentIsComplete
<1> QED
  BY <1>2, <1>3 DEF CertInv, AgentsDelivered, Cert!AgentsDelivered

(* What the components hold when nothing has happened yet.                 *)
LEMMA Blanks ==
    /\ MaxVersion \in Nat \ {0} /\ Cert!Unseen \in Cert!Versions
    /\ CacheOK(Cert!NoCache) /\ LoadOK(Cert!Idle) /\ LoadOK(Cert!Started)
    /\ Cert!Idle.pc = "idle" /\ Cert!Started.pc = "reading"
    /\ AskOK(Cert!NewRequest) /\ Cert!NewRequest.pc = "new" /\ Cert!NoPoll \in Polls
<1>1. MaxVersion \in Nat \ {0}
  BY UpstreamAssumption DEF Cert!RotationAssumption
<1>2. Cert!Unseen \in Cert!Versions
  BY <1>1 DEF Cert!Unseen, Cert!Versions
<1>3. CacheOK(Cert!NoCache)
  BY <1>2 DEF CacheOK, Cert!NoCache, Cert!Caches
<1>4. LoadOK(Cert!Idle) /\ LoadOK(Cert!Started) /\ Cert!Idle.pc = "idle" /\ Cert!Started.pc = "reading"
  BY <1>2 DEF LoadOK, Loads, Cert!Idle, Cert!Started
<1>5. AskOK(Cert!NewRequest) /\ Cert!NewRequest.pc = "new"
  BY <1>2, <1>3 DEF AskOK, Asks, CacheOK, Cert!NewRequest
<1>6. Cert!NoPoll \in Polls
  BY DEF Cert!NoPoll, Polls
<1> QED
  BY <1>1, <1>2, <1>3, <1>4, <1>5, <1>6

(* One version on the disk, an empty cache, nobody asking.                 *)
LEMMA CertInit == Cert!Init => CertInv
<1> SUFFICES ASSUME Cert!Init PROVE CertInv
  OBVIOUS
<1>1. disk \in Cert!Versions /\ DiskOK
  BY Blanks DEF Cert!Init, Cert!Versions, DiskOK
<1>2. LoadsOK
  BY Blanks DEF Cert!Init, LoadsOK
<1>3. AsksOK /\ \A r \in Senders : req[r].pc = "new"
  BY Blanks DEF Cert!Init, AsksOK
<1>4. Cert!WaitersHaveALoad
  BY <1>3 DEF Cert!WaitersHaveALoad, Cert!Waiting
<1>5. CacheOK(cache) /\ WatchOK
  BY <1>1, Blanks DEF Cert!Init, WatchOK
<1> QED
  BY <1>1, <1>2, <1>3, <1>4, <1>5 DEF CertInv

(* A version is written at one file.                                       *)
LEMMA VersionWritten ==
    ASSUME NEW v \in Cert!Versions, NEW f \in Files, NEW n \in 0..MaxVersion
    PROVE  /\ [v EXCEPT ![f] = n] \in Cert!Versions
           /\ [v EXCEPT ![f] = n][f] = n
           /\ \A g \in Files : g # f => [v EXCEPT ![f] = n][g] = v[g]
  BY DEF Cert!Versions

(* The files move: the gateway's own state does not.                       *)
LEMMA OutsideInv == CertInv /\ Cert!Outside => CertInv'
<1> SUFFICES ASSUME CertInv, NEW f \in Files, Cert!Rotate(f) \/ Cert!Unlink(f) \/ Cert!Create(f)
             PROVE  CertInv'
  BY DEF Cert!Outside
<1>1. UNCHANGED <<cache, load, req, last, poll, up>>
  BY DEF Cert!Rotate, Cert!Unlink, Cert!Create
<1>2. DiskOK'
  <2>1. /\ disk \in Cert!Versions /\ missing \in SUBSET Files /\ MaxVersion \in Nat
        /\ \A g \in Files : disk[g] > 0 /\ (g \in missing => disk[g] < MaxVersion)
        /\ \A g \in Files : disk[g] \in 0..MaxVersion
    BY Blanks DEF CertInv, DiskOK, Cert!Versions
  <2>2. CASE Cert!Unlink(f)
    BY <2>1, <2>2 DEF Cert!Unlink, DiskOK
  <2>3. CASE Cert!Rotate(f) \/ Cert!Create(f)
    <3>1. /\ disk' = [disk EXCEPT ![f] = disk[f] + 1] /\ disk[f] < MaxVersion
          /\ missing' \in SUBSET Files /\ missing' \subseteq missing /\ f \notin missing'
      <4>1. CASE Cert!Rotate(f)
        BY <2>1, <4>1 DEF Cert!Rotate
      <4>2. CASE Cert!Create(f)
        <5>1. f \in missing /\ missing' = missing \ {f} /\ disk' = [disk EXCEPT ![f] = disk[f] + 1]
          BY <4>2 DEF Cert!Create
        <5> QED
          BY <2>1, <5>1
      <4> QED
        BY <2>3, <4>1, <4>2
    <3>2. disk[f] + 1 \in 0..MaxVersion /\ disk[f] + 1 > 0
      BY <2>1, <3>1
    <3>3. disk' \in Cert!Versions /\ disk'[f] = disk[f] + 1 /\ \A g \in Files : g # f => disk'[g] = disk[g]
      <4> DEFINE n == disk[f] + 1
      <4>1. n \in 0..MaxVersion /\ disk' = [disk EXCEPT ![f] = n]
        BY <3>1, <3>2
      <4> HIDE DEF n
      <4>2. disk' \in Cert!Versions /\ disk'[f] = n /\ \A g \in Files : g # f => disk'[g] = disk[g]
        <5>1. disk \in Cert!Versions
          BY <2>1
        <5> QED
          BY <4>1, <5>1 DEF Cert!Versions
      <4> QED
        BY <4>2 DEF n
    <3> QED
      BY <2>1, <3>1, <3>2, <3>3 DEF DiskOK
  <2> QED
    BY <2>2, <2>3
<1> QED
  BY <1>1, <1>2 DEF CertInv, CacheOK, LoadsOK, AsksOK, WatchOK, Cert!WaitersHaveALoad, Cert!Waiting

(* A step of one load that goes on.                                        *)
LEMMA LoadMoves ==
    ASSUME CertInv, NEW l \in Cert!Loaders, NEW x, LoadOK(x), x.pc # "idle",
           load' = [load EXCEPT ![l] = x], UNCHANGED <<disk, missing, cache, req, last, poll, up>>
    PROVE  CertInv'
<1>1. load'[l] = x /\ load' = [k \in Cert!Loaders |-> load'[k]]
      /\ \A k \in Cert!Loaders : k # l => load'[k] = load[k]
  BY DEF CertInv, LoadsOK
<1>2. LoadsOK'
  BY <1>1 DEF CertInv, LoadsOK
<1>3. Cert!WaitersHaveALoad'
  BY <1>1 DEF CertInv, Cert!WaitersHaveALoad, Cert!Waiting, Cert!Loaders
<1> QED
  BY <1>2, <1>3 DEF CertInv, DiskOK, CacheOK, AsksOK, WatchOK

(* loadCertificates reads and stats file by file.                          *)
LEMMA LoadStepInv ==
    ASSUME CertInv, NEW l \in Cert!Loaders, Cert!LoadStep(l)
    PROVE  CertInv'
<1> DEFINE x == load[l]
<1>1. /\ LoadOK(x) /\ x \in Loads /\ load = [k \in Cert!Loaders |-> load[k]]
      /\ disk \in Cert!Versions
      /\ \A f \in Files : disk[f] > 0 /\ disk[f] \in 0..MaxVersion
  BY DEF CertInv, LoadsOK, LoadOK, DiskOK, Cert!Versions
<1>2. CASE Cert!StatAll(l)
  <2> DEFINE y == [x EXCEPT !.pc = "stating", !.todo = Files]
  <2>1. x.pc = "reading" /\ x.todo = {} /\ load' = [load EXCEPT ![l] = y]
    BY <1>1, <1>2 DEF Cert!StatAll, Loads
  <2>2. LoadOK(y) /\ y.pc # "idle"
    BY <1>1, <2>1 DEF LoadOK, Loads, Held
  <2> HIDE DEF y
  <2> QED
    BY <1>2, <2>1, <2>2, LoadMoves DEF Cert!StatAll
<1>3. ASSUME NEW f \in Files, Cert!ReadFile(l, f) PROVE CertInv'
  <2> DEFINE got == [x.got EXCEPT ![f] = disk[f]]
             y == [x EXCEPT !.got = got, !.todo = x.todo \ {f}]
  <2>1. x.pc = "reading" /\ load' = [load EXCEPT ![l] = y]
    BY <1>1, <1>3 DEF Cert!ReadFile, Loads
  <2>2. got \in Cert!Versions /\ got[f] = disk[f] /\ \A g \in Files : g # f => got[g] = x.got[g]
    BY <1>1, VersionWritten DEF Loads
  <2> HIDE DEF got
  <2>3. y \in Loads /\ y.pc = "reading" /\ y.got = got /\ y.todo = x.todo \ {f}
    BY <1>1, <2>1, <2>2 DEF Loads
  <2> HIDE DEF y
  <2>4. \A g \in Files : g \in y.todo \/ y.got[g] > 0
    BY <1>1, <2>1, <2>2, <2>3 DEF LoadOK
  <2>5. LoadOK(y)
    BY <2>3, <2>4 DEF LoadOK
  <2> QED
    BY <1>3, <2>1, <2>3, <2>5, LoadMoves DEF Cert!ReadFile
<1>4. ASSUME NEW f \in Files, Cert!StatFile(l, f) PROVE CertInv'
  <2> DEFINE stamp == [x.stamp EXCEPT ![f] = disk[f]]
             y == [x EXCEPT !.stamp = stamp, !.todo = x.todo \ {f}]
  <2>1. x.pc = "stating" /\ load' = [load EXCEPT ![l] = y]
    BY <1>1, <1>4 DEF Cert!StatFile, Loads
  <2>2. stamp \in Cert!Versions
    BY <1>1, VersionWritten DEF Loads
  <2> HIDE DEF stamp
  <2>3. y \in Loads /\ y.pc = "stating" /\ y.got = x.got
    BY <1>1, <2>1, <2>2 DEF Loads
  <2> HIDE DEF y
  <2>4. LoadOK(y)
    BY <1>1, <2>1, <2>3 DEF LoadOK
  <2> QED
    BY <1>4, <2>1, <2>3, <2>4, LoadMoves DEF Cert!StatFile
<1> QED
  BY <1>2, <1>3, <1>4 DEF Cert!LoadStep

(* A step of one request towards its agent, which leaves the rest alone    *)
(* or has the shared load running.                                         *)
LEMMA AskMoves ==
    ASSUME CertInv, NEW r \in Senders, NEW x, AskOK(x), req' = [req EXCEPT ![r] = x],
           x.pc # "waiting", UNCHANGED <<disk, missing, cache, load, last, poll, up>>
    PROVE  CertInv'
<1>1. /\ req'[r] = x /\ req' = [q \in Senders |-> req'[q]]
      /\ \A q \in Senders : q # r => req'[q] = req[q]
  BY DEF CertInv, AsksOK
<1>2. AsksOK'
  BY <1>1 DEF CertInv, AsksOK
<1>3. Cert!Waiting' \subseteq Cert!Waiting
  BY <1>1 DEF Cert!Waiting
<1>4. Cert!WaitersHaveALoad'
  BY <1>3 DEF CertInv, Cert!WaitersHaveALoad
<1> QED
  BY <1>2, <1>4 DEF CertInv, DiskOK, CacheOK, LoadsOK, WatchOK

(* getHttpsAgent: stat the files, then wait for a load or take the cache.  *)
LEMMA AgentInv ==
    ASSUME CertInv, NEW r \in Senders, Cert!Agent(r)
    PROVE  CertInv'
<1> DEFINE x == req[r]
<1>1. /\ AskOK(x) /\ x \in Asks /\ req = [q \in Senders |-> req[q]] /\ CacheOK(cache)
      /\ disk \in Cert!Versions /\ \A f \in Files : disk[f] \in 0..MaxVersion
  BY DEF CertInv, AsksOK, AskOK, DiskOK, Cert!Versions
<1>2. CASE Cert!AskAgent(r)
  <2> DEFINE y == [x EXCEPT !.pc = "stating", !.todo = Files]
  <2>1. req' = [req EXCEPT ![r] = y]
    BY <1>1, <1>2 DEF Cert!AskAgent, Asks
  <2>2. AskOK(y) /\ y.pc # "waiting"
    BY <1>1 DEF AskOK, Asks
  <2> HIDE DEF y
  <2> QED
    BY <1>2, <2>1, <2>2, AskMoves DEF Cert!AskAgent
<1>3. ASSUME NEW f \in Files, Cert!AgentStat(r, f) PROVE CertInv'
  <2> DEFINE found == [x.seen EXCEPT ![f] = disk[f]]
             y == [x EXCEPT !.seen = found, !.todo = x.todo \ {f}]
  <2>1. x.pc = "stating" /\ req' = [req EXCEPT ![r] = y]
    BY <1>1, <1>3 DEF Cert!AgentStat, Asks
  <2>2. found \in Cert!Versions
    BY <1>1, VersionWritten DEF Asks
  <2> HIDE DEF found
  <2>3. y \in Asks /\ y.pc = "stating"
    BY <1>1, <2>1, <2>2 DEF Asks
  <2>4. AskOK(y) /\ y.pc # "waiting"
    BY <2>3 DEF AskOK
  <2> HIDE DEF y
  <2> QED
    BY <1>3, <2>1, <2>4, AskMoves DEF Cert!AgentStat
<1>4. CASE Cert!AgentStatFails(r)
  <2> DEFINE y == [x EXCEPT !.pc = "failed"]
  <2>1. req' = [req EXCEPT ![r] = y]
    BY <1>1, <1>4 DEF Cert!AgentStatFails, Asks
  <2>2. AskOK(y) /\ y.pc # "waiting"
    BY <1>1 DEF AskOK, Asks
  <2> HIDE DEF y
  <2> QED
    BY <1>4, <2>1, <2>2, AskMoves DEF Cert!AgentStatFails
<1>5. CASE Cert!AgentDecide(r) /\ ~Cert!MtimesChanged(x.seen)
  <2> DEFINE y == [x EXCEPT !.pc = "served", !.agent = cache]
  <2>1. req' = [req EXCEPT ![r] = y] /\ ~cache.null
        /\ UNCHANGED <<disk, missing, cache, load, last, poll, up>>
    BY <1>1, <1>5 DEF Cert!AgentDecide, Cert!MtimesChanged, Asks
  <2>2. y \in Asks /\ y.pc = "served" /\ y.agent = cache
    BY <1>1 DEF Asks, CacheOK
  <2>3. AskOK(y) /\ y.pc # "waiting"
    BY <1>1, <2>1, <2>2 DEF AskOK
  <2> HIDE DEF y
  <2> QED
    BY <2>1, <2>3, AskMoves
<1>6. CASE Cert!AgentDecide(r) /\ Cert!MtimesChanged(x.seen)
  <2> DEFINE y == [x EXCEPT !.pc = "waiting"]
  <2>1. /\ req' = [req EXCEPT ![r] = y]
        /\ load' = IF load["shared"].pc = "idle" THEN [load EXCEPT !["shared"] = Cert!Started] ELSE load
        /\ UNCHANGED <<disk, missing, cache, last, poll, up>>
    BY <1>1, <1>6 DEF Cert!AgentDecide, Asks
  <2>2. AskOK(y)
    BY <1>1 DEF AskOK, Asks
  <2> HIDE DEF y
  <2>3. AsksOK'
    BY <1>1, <2>1, <2>2 DEF CertInv, AsksOK
  <2>4. LoadsOK' /\ load'["shared"].pc # "idle"
    <3>1. CASE load["shared"].pc = "idle"
      <4>1. load' = [load EXCEPT !["shared"] = Cert!Started]
        BY <2>1, <3>1
      <4>2. /\ load'["shared"] = Cert!Started /\ load' = [k \in Cert!Loaders |-> load'[k]]
            /\ \A k \in Cert!Loaders : k # "shared" => load'[k] = load[k]
        BY <4>1 DEF CertInv, LoadsOK, Cert!Loaders
      <4> QED
        BY <4>2, Blanks DEF CertInv, LoadsOK
    <3>2. CASE load["shared"].pc # "idle"
      BY <2>1, <3>2 DEF CertInv, LoadsOK
    <3> QED
      BY <3>1, <3>2
  <2> QED
    BY <2>1, <2>3, <2>4 DEF CertInv, DiskOK, CacheOK, WatchOK, Cert!WaitersHaveALoad
<1> QED
  BY <1>2, <1>3, <1>4, <1>5, <1>6 DEF Cert!Agent

(* A load that took all mtimes gives a whole agent.                        *)
LEMMA LoadedWhole ==
    ASSUME CertInv, NEW l \in Cert!Loaders, Cert!Complete(l)
    PROVE  CacheOK(Cert!Loaded(l)) /\ ~Cert!Loaded(l).null
<1>1. load[l] \in Loads /\ Held(load[l].got)
  BY DEF CertInv, LoadsOK, LoadOK, Cert!Complete
<1> QED
  BY <1>1 DEF Cert!Loaded, CacheOK, Loads, Cert!Caches

(* A load ends, well or not: its loader is idle again.                     *)
LEMMA LoaderIdle ==
    ASSUME CertInv, NEW l \in Cert!Loaders, load' = [load EXCEPT ![l] = Cert!Idle]
    PROVE  LoadsOK' /\ \A k \in Cert!Loaders : k # l => load'[k] = load[k]
<1>1. load'[l] = Cert!Idle /\ load' = [k \in Cert!Loaders |-> load'[k]]
      /\ \A k \in Cert!Loaders : k # l => load'[k] = load[k]
  BY DEF CertInv, LoadsOK
<1> QED
  BY <1>1, Blanks DEF CertInv, LoadsOK

(* The shared load ends: no request waits any more.                        *)
LEMMA SharedInv ==
    ASSUME CertInv, Cert!SharedLoaded \/ Cert!SharedFails
    PROVE  CertInv'
<1>1. load' = [load EXCEPT !["shared"] = Cert!Idle] /\ UNCHANGED <<disk, missing, last, poll, up>>
  BY DEF Cert!SharedLoaded, Cert!SharedFails
<1>2. PICK pc \in {"served", "failed"}, agent \in Cert!Caches :
         /\ req' = Cert!Woken(pc, agent) /\ (pc = "served" => CacheOK(agent) /\ ~agent.null)
         /\ CacheOK(cache')
  <2>1. CASE Cert!SharedLoaded
    <3>1. CacheOK(cache') /\ ~cache'.null /\ cache' \in Cert!Caches /\ req' = Cert!Woken("served", cache')
      BY <2>1, LoadedWhole DEF Cert!SharedLoaded, Cert!Loaders, CacheOK
    <3> QED
      BY <3>1
  <2>2. CASE Cert!SharedFails
    <3>1. req' = Cert!Woken("failed", Cert!NoCache) /\ cache' = cache
      BY <2>2 DEF Cert!SharedFails
    <3>2. CacheOK(cache') /\ Cert!NoCache \in Cert!Caches
      BY <3>1, Blanks DEF CertInv, CacheOK
    <3> QED
      BY <3>1, <3>2
  <2> QED
    BY <2>1, <2>2
<1>3. /\ req' = [r \in Senders |-> req'[r]]
      /\ \A r \in Senders : req'[r] = IF req[r].pc = "waiting"
                                      THEN [req[r] EXCEPT !.pc = pc, !.agent = agent] ELSE req[r]
  BY <1>2 DEF Cert!Woken, Cert!Waiting
<1>4. ASSUME NEW r \in Senders PROVE AskOK(req'[r]) /\ req'[r].pc # "waiting"
  <2>1. AskOK(req[r]) /\ req[r] \in Asks
    BY DEF CertInv, AsksOK, AskOK
  <2>2. CASE req[r].pc = "waiting"
    <3> DEFINE y == [req[r] EXCEPT !.pc = pc, !.agent = agent]
    <3>1. y \in Asks /\ y.pc = pc /\ y.agent = agent
      BY <2>1 DEF Asks
    <3>2. req'[r] = y
      BY <1>3, <2>2
    <3> HIDE DEF y
    <3> QED
      BY <1>2, <3>1, <3>2 DEF AskOK
  <2>3. CASE req[r].pc # "waiting"
    BY <1>3, <2>1, <2>3
  <2> QED
    BY <2>2, <2>3
<1>5. AsksOK' /\ Cert!WaitersHaveALoad'
  BY <1>3, <1>4 DEF AsksOK, Cert!WaitersHaveALoad, Cert!Waiting
<1>6. LoadsOK'
  BY <1>1, LoaderIdle DEF Cert!Loaders
<1> QED
  BY <1>1, <1>2, <1>5, <1>6 DEF CertInv, DiskOK, WatchOK

(* The monitor's own load ends, or ends the process; a restart.            *)
LEMMA MonitorLoadInv ==
    ASSUME CertInv, Cert!MonitorLoaded \/ Cert!MonitorFails \/ Cert!Restart
    PROVE  CertInv'
<1>1. CASE Cert!MonitorLoaded
  <2>1. CacheOK(cache')
    BY <1>1, LoadedWhole DEF Cert!MonitorLoaded, Cert!Loaders
  <2>2. LoadsOK' /\ load'["shared"] = load["shared"]
    BY <1>1, LoaderIdle DEF Cert!MonitorLoaded, Cert!Loaders
  <2>3. WatchOK'
    BY <1>1, Blanks DEF Cert!MonitorLoaded, CertInv, WatchOK
  <2> QED
    BY <1>1, <2>1, <2>2, <2>3
    DEF Cert!MonitorLoaded, CertInv, DiskOK, AsksOK, Cert!WaitersHaveALoad, Cert!Waiting
<1>2. CASE Cert!MonitorFails
  <2>1. /\ cache' = Cert!NoCache /\ load' = [l \in Cert!Loaders |-> Cert!Idle]
        /\ poll' = Cert!NoPoll /\ up' = FALSE /\ UNCHANGED <<disk, missing, last>>
        /\ req' = [r \in Senders |-> IF req[r].pc \in {"new", "served", "failed"} THEN req[r]
                                     ELSE [req[r] EXCEPT !.pc = "failed"]]
    BY <1>2 DEF Cert!MonitorFails
  <2>2. LoadsOK' /\ CacheOK(cache') /\ WatchOK'
    BY <2>1, Blanks DEF LoadsOK, CertInv, WatchOK
  <2>3. ASSUME NEW r \in Senders PROVE AskOK(req'[r]) /\ req'[r].pc # "waiting"
    <3>1. AskOK(req[r]) /\ req[r] \in Asks
      BY DEF CertInv, AsksOK, AskOK
    <3>2. CASE req[r].pc \in {"new", "served", "failed"}
      BY <2>1, <3>1, <3>2
    <3>3. CASE req[r].pc \notin {"new", "served", "failed"}
      <4>1. req'[r] = [req[r] EXCEPT !.pc = "failed"]
        BY <2>1, <3>3
      <4> QED
        BY <3>1, <4>1 DEF AskOK, Asks
    <3> QED
      BY <3>2, <3>3
  <2>4. AsksOK' /\ Cert!WaitersHaveALoad'
    BY <2>1, <2>3 DEF AsksOK, Cert!WaitersHaveALoad, Cert!Waiting
  <2> QED
    BY <2>1, <2>2, <2>4 DEF CertInv, DiskOK
<1>3. CASE Cert!Restart
  <2>1. last' \in Cert!Versions /\ up' = TRUE /\ UNCHANGED <<disk, missing, cache, load, req, poll>>
    BY <1>3, Blanks DEF Cert!Restart, CertInv, DiskOK, Cert!Versions
  <2> QED
    BY <2>1 DEF CertInv, DiskOK, CacheOK, LoadsOK, AsksOK, WatchOK, Cert!WaitersHaveALoad, Cert!Waiting
<1> QED
  BY <1>1, <1>2, <1>3

(* checkFiles.                                                             *)
LEMMA MonitorInv == CertInv /\ Cert!Monitor => CertInv'
<1> SUFFICES ASSUME CertInv, Cert!Monitor PROVE CertInv'
  OBVIOUS
<1>1. ASSUME poll' \in Polls, last' \in Cert!Versions, UNCHANGED <<disk, missing, cache, load, req, up>>
      PROVE  CertInv'
  BY <1>1 DEF CertInv, DiskOK, CacheOK, LoadsOK, AsksOK, WatchOK, Cert!WaitersHaveALoad, Cert!Waiting
<1>2. poll \in Polls /\ last \in Cert!Versions
  BY DEF CertInv, WatchOK
<1>3. CASE Cert!PollBegin
  <2>1. poll' \in Polls
    BY <1>3 DEF Cert!PollBegin, Polls
  <2> QED
    BY <1>1, <1>2, <1>3, <2>1 DEF Cert!PollBegin
<1>4. CASE Cert!PollUnchanged
  BY <1>1, <1>2, <1>4, Blanks DEF Cert!PollUnchanged
<1>5. ASSUME NEW f \in Files, Cert!PollStat(f) PROVE CertInv'
  <2>1. disk[f] \in 0..MaxVersion
    BY DEF CertInv, DiskOK, Cert!Versions
  <2>2. poll' \in Polls
    BY <1>2, <1>5 DEF Cert!PollStat, Polls
  <2>3. last' \in Cert!Versions
    <3>1. last' = last \/ last' = [last EXCEPT ![f] = disk[f]]
      BY <1>5 DEF Cert!PollStat
    <3> QED
      BY <1>2, <2>1, <3>1, VersionWritten
  <2> QED
    BY <1>1, <1>5, <2>2, <2>3 DEF Cert!PollStat
<1>6. CASE Cert!PollReload
  <2>1. /\ cache' = Cert!NoCache /\ load' = [load EXCEPT !["monitor"] = Cert!Started]
        /\ UNCHANGED <<disk, missing, req, last, poll, up>>
    BY <1>6 DEF Cert!PollReload
  <2>2. /\ load'["monitor"] = Cert!Started /\ load' = [k \in Cert!Loaders |-> load'[k]]
        /\ \A k \in Cert!Loaders : k # "monitor" => load'[k] = load[k]
    BY <2>1 DEF CertInv, LoadsOK, Cert!Loaders
  <2>3. LoadsOK' /\ load'["shared"] = load["shared"]
    BY <2>2, Blanks DEF CertInv, LoadsOK, Cert!Loaders
  <2>4. CacheOK(cache')
    BY <2>1, Blanks
  <2> QED
    BY <2>1, <2>3, <2>4 DEF CertInv, DiskOK, AsksOK, WatchOK, Cert!WaitersHaveALoad, Cert!Waiting
<1> QED
  BY <1>3, <1>4, <1>5, <1>6 DEF Cert!Monitor

(* Every step of the certificates keeps their invariant.                   *)
LEMMA CertNext == CertInv /\ [Cert!Next]_certVars => CertInv'
<1> SUFFICES ASSUME CertInv, [Cert!Next]_certVars PROVE CertInv'
  OBVIOUS
<1>1. CASE UNCHANGED certVars
  BY <1>1 DEF certVars, CertInv, DiskOK, CacheOK, LoadsOK, AsksOK, WatchOK, Cert!WaitersHaveALoad, Cert!Waiting
<1> QED
  BY <1>1, OutsideInv, LoadStepInv, SharedInv, MonitorLoadInv, AgentInv, MonitorInv DEF Cert!Next

-----------------------------------------------------------------------------
(* Startup and routing *)

(* The numbers of an environment, with the defaults, are integers.         *)
LEMMA ConfigType ==
    ASSUME NEW e \in Environments
    PROVE  Routing!Config(e) \in [Routing!Numbers -> Int]
<1>1. \A key \in Routing!Numbers : Routing!Defaults[key] \in Int
  BY DEF Routing!Numbers, Routing!Defaults
<1>2. \A key \in DOMAIN e.numbers : e.numbers[key] \in Int
  BY UpstreamAssumption DEF Routing!RoutingAssumption
<1> QED
  BY <1>1, <1>2 DEF Routing!Config

(* Strictly lower thresholds decide no score more leniently and some score *)
(* more strictly, whatever the order of challenge and deny.                *)
LEMMA LowerIsStricter ==
    ASSUME NEW cfg, NEW low, NEW high, NEW c1 \in 0..10, NEW d1 \in 0..10,
           NEW c2 \in 0..10, NEW d2 \in 0..10, c2 < c1, d2 < d1,
           Routing!ThresholdsAt(cfg)[low] = [challenge |-> c1, deny |-> d1],
           Routing!ThresholdsAt(cfg)[high] = [challenge |-> c2, deny |-> d2]
    PROVE  /\ \A score \in 0..10 : Routing!DecisionAt(cfg, low, score) <= Routing!DecisionAt(cfg, high, score)
           /\ \E score \in 0..10 : Routing!DecisionAt(cfg, low, score) < Routing!DecisionAt(cfg, high, score)
<1>1. \A score \in 0..10 :
        /\ Routing!DecisionAt(cfg, low, score) = IF score >= d1 THEN 2 ELSE IF score < c1 THEN 0 ELSE 1
        /\ Routing!DecisionAt(cfg, high, score) = IF score >= d2 THEN 2 ELSE IF score < c2 THEN 0 ELSE 1
  BY DEF Routing!DecisionAt
<1>2. \A score \in 0..10 : Routing!DecisionAt(cfg, low, score) <= Routing!DecisionAt(cfg, high, score)
  BY <1>1
<1>3. Routing!DecisionAt(cfg, low, d2) < Routing!DecisionAt(cfg, high, d2)
  BY <1>1
<1> QED
  BY <1>2, <1>3

(* What the schema accepts makes every level of the ladder stricter than   *)
(* the one below, and its signals positive and in order.                   *)
LEMMA AcceptedTightens ==
    ASSUME NEW e \in Environments, Routing!Accepted(e)
    PROVE  /\ Routing!Required \subseteq e.strings /\ Routing!Tightens(Routing!Config(e))
           /\ \A signal \in {<<Routing!Config(e).THREAT_ELEVATED_DENIES, Routing!Config(e).THREAT_CRITICAL_DENIES>>,
                             <<Routing!Config(e).THREAT_ELEVATED_HONEYPOT, Routing!Config(e).THREAT_CRITICAL_HONEYPOT>>} :
                 0 < signal[1] /\ signal[1] < signal[2]
<1> DEFINE cfg == Routing!Config(e)
<1>1. /\ Routing!Required \subseteq e.strings
      /\ \A key \in Routing!Numbers : cfg[key] >= Routing!AtLeast(key) /\ Routing!WithinMax(key, cfg[key])
      /\ \A pair \in Routing!StrictlyBelow : cfg[pair[1]] < cfg[pair[2]]
  BY DEF Routing!Accepted
<1>2. cfg \in [Routing!Numbers -> Int]
  BY ConfigType
<1> HIDE DEF cfg
<1>3. \A key \in Routing!ScoreThresholds : key \in Routing!Numbers
  BY DEF Routing!ScoreThresholds, Routing!Numbers, Routing!Defaults
<1>4. ASSUME NEW key \in Routing!ScoreThresholds PROVE cfg[key] \in 0..10
  <2>1. Routing!AtLeast(key) = 0
    BY DEF Routing!AtLeast, Routing!ScoreThresholds
  <2>2. Routing!WithinMax(key, cfg[key]) => cfg[key] <= 10
    BY DEF Routing!WithinMax, Routing!ScoreThresholds
  <2>3. cfg[key] \in Int /\ cfg[key] >= 0 /\ cfg[key] <= 10
    BY <1>1, <1>2, <1>3, <2>1, <2>2
  <2> QED
    BY <2>3
<1>5. /\ cfg.POLICY_CHALLENGE_THRESHOLD \in 0..10 /\ cfg.POLICY_DENY_THRESHOLD \in 0..10
      /\ cfg.POLICY_ELEVATED_CHALLENGE_THRESHOLD \in 0..10 /\ cfg.POLICY_ELEVATED_DENY_THRESHOLD \in 0..10
      /\ cfg.POLICY_CRITICAL_CHALLENGE_THRESHOLD \in 0..10 /\ cfg.POLICY_CRITICAL_DENY_THRESHOLD \in 0..10
  BY <1>4 DEF Routing!ScoreThresholds
<1>6. /\ cfg.POLICY_ELEVATED_CHALLENGE_THRESHOLD < cfg.POLICY_CHALLENGE_THRESHOLD
      /\ cfg.POLICY_CRITICAL_CHALLENGE_THRESHOLD < cfg.POLICY_ELEVATED_CHALLENGE_THRESHOLD
      /\ cfg.POLICY_ELEVATED_DENY_THRESHOLD < cfg.POLICY_DENY_THRESHOLD
      /\ cfg.POLICY_CRITICAL_DENY_THRESHOLD < cfg.POLICY_ELEVATED_DENY_THRESHOLD
      /\ cfg.THREAT_ELEVATED_DENIES < cfg.THREAT_CRITICAL_DENIES
      /\ cfg.THREAT_ELEVATED_HONEYPOT < cfg.THREAT_CRITICAL_HONEYPOT
  BY <1>1 DEF Routing!StrictlyBelow
<1>7. 0 < cfg.THREAT_ELEVATED_DENIES /\ 0 < cfg.THREAT_ELEVATED_HONEYPOT
  <2>1. \A key \in {"THREAT_ELEVATED_DENIES", "THREAT_ELEVATED_HONEYPOT"} :
          key \in Routing!Numbers /\ Routing!AtLeast(key) = 1
    BY DEF Routing!Numbers, Routing!Defaults, Routing!AtLeast, Routing!ScoreThresholds
  <2>2. \A key \in {"THREAT_ELEVATED_DENIES", "THREAT_ELEVATED_HONEYPOT"} : cfg[key] \in Int /\ cfg[key] >= 1
    BY <1>1, <1>2, <2>1
  <2> QED
    BY <2>2
<1>8. Routing!Tightens(cfg)
  <2>1. /\ Routing!ThresholdsAt(cfg)["Normal"]
             = [challenge |-> cfg.POLICY_CHALLENGE_THRESHOLD, deny |-> cfg.POLICY_DENY_THRESHOLD]
        /\ Routing!ThresholdsAt(cfg)["Elevated"]
             = [challenge |-> cfg.POLICY_ELEVATED_CHALLENGE_THRESHOLD,
                deny |-> cfg.POLICY_ELEVATED_DENY_THRESHOLD]
        /\ Routing!ThresholdsAt(cfg)["Critical"]
             = [challenge |-> cfg.POLICY_CRITICAL_CHALLENGE_THRESHOLD,
                deny |-> cfg.POLICY_CRITICAL_DENY_THRESHOLD]
    BY DEF Routing!ThresholdsAt
  <2> DEFINE Stricter(low, high) ==
               /\ \A score \in 0..10 : Routing!DecisionAt(cfg, low, score) <= Routing!DecisionAt(cfg, high, score)
               /\ \E score \in 0..10 : Routing!DecisionAt(cfg, low, score) < Routing!DecisionAt(cfg, high, score)
  <2>2. Stricter("Normal", "Elevated")
    BY <1>5, <1>6, <2>1, LowerIsStricter
  <2>3. Stricter("Elevated", "Critical")
    BY <1>5, <1>6, <2>1, LowerIsStricter
  <2> QED
    BY <2>2, <2>3 DEF Routing!Tightens
<1> QED
  BY <1>1, <1>6, <1>7, <1>8 DEF cfg

(* What a process has done up to its phase, and what its database keeps.   *)
BootOK ==
    /\ phase \in {"down", "migrating", "hooks", "listening"}
    /\ migrated \in 0..3 /\ tables \subseteq Routing!Tables
    /\ \A i \in 1..migrated : Routing!Migrations[i] \subseteq tables
    /\ ready \subseteq Routing!Hooks
    /\ breakers = IF "proxy" \in ready THEN DOMAIN registry ELSE {}
    /\ "registry" \in ready => Routing!ValidRegistry
    /\ phase \in {"down", "migrating"} => ready = {}
    /\ phase = "down" => migrated = 0
    /\ phase # "down" => /\ env \in Environments /\ Routing!Accepted(env)
                         /\ registry = env.registry.services
    /\ phase \in {"hooks", "listening"} => migrated = 3
    /\ phase = "listening" => ready = Routing!Hooks

(* There are three migrations, and they make the tables.                   *)
LEMMA ThreeMigrations ==
    /\ Len(Routing!Migrations) = 3
    /\ Routing!Tables = Routing!Migrations[1] \cup Routing!Migrations[2] \cup Routing!Migrations[3]
<1>1. Len(Routing!Migrations) = 3
  BY DEF Routing!Migrations
<1>2. \A t : t \in Routing!Tables <=> \E i \in 1..3 : t \in Routing!Migrations[i]
  BY <1>1 DEF Routing!Tables
<1>3. \A i \in 1..3 : i = 1 \/ i = 2 \/ i = 3
  OBVIOUS
<1>4. 1 \in 1..3 /\ 2 \in 1..3 /\ 3 \in 1..3
  OBVIOUS
<1> QED
  BY <1>1, <1>2, <1>3, <1>4

(* A process that ends keeps nothing but the tables.                       *)
LEMMA ExitOK == BootOK /\ Routing!Exit => BootOK'
<1> SUFFICES ASSUME BootOK, Routing!Exit PROVE BootOK'
  OBVIOUS
<1>1. /\ phase' = "down" /\ migrated' = 0 /\ breakers' = {} /\ ready' = {} /\ tables' = tables
  BY DEF Routing!Exit
<1> QED
  BY <1>1 DEF BootOK

(* bootstrap() and the hooks, and every way they can fail.                 *)
LEMMA BootNext == BootOK /\ Routing!Boot => BootOK'
<1> SUFFICES ASSUME BootOK, Routing!Boot PROVE BootOK'
  OBVIOUS
<1>1. ASSUME NEW e \in Environments, Routing!Create(e) PROVE BootOK'
  <2>1. /\ phase = "down" /\ phase' = "migrating" /\ Routing!Accepted(e) /\ env' = e
        /\ registry' = e.registry.services /\ UNCHANGED <<tables, migrated, breakers, ready>>
    BY <1>1 DEF Routing!Create
  <2> QED
    BY <2>1 DEF BootOK
<1>2. CASE Routing!RunMigration
  <2>1. /\ phase = "migrating" /\ migrated < 3 /\ migrated' = migrated + 1
        /\ tables' = tables \cup Routing!Migrations[migrated + 1]
        /\ UNCHANGED <<phase, env, registry, breakers, ready>>
    BY <1>2, ThreeMigrations DEF Routing!RunMigration
  <2>2. migrated \in 0..3 /\ migrated' \in 0..3 /\ migrated + 1 \in 1..3
    BY <2>1 DEF BootOK
  <2>3. \A i \in 1..3 : Routing!Migrations[i] \subseteq Routing!Tables
    <3>1. \A i \in 1..3 : i = 1 \/ i = 2 \/ i = 3
      OBVIOUS
    <3> QED
      BY <3>1, ThreeMigrations
  <2>4. tables' \subseteq Routing!Tables
    BY <2>1, <2>2, <2>3 DEF BootOK
  <2>5. ASSUME NEW i \in 1..migrated' PROVE Routing!Migrations[i] \subseteq tables'
    <3>1. i \in 1..migrated \/ i = migrated + 1
      BY <2>1, <2>2
    <3> QED
      BY <2>1, <3>1 DEF BootOK
  <2> QED
    BY <2>1, <2>2, <2>4, <2>5 DEF BootOK, Routing!ValidRegistry
<1>3. CASE Routing!MigrationFails \/ Routing!HookFails
  BY <1>3, ExitOK DEF Routing!MigrationFails, Routing!HookFails
<1>4. CASE Routing!MigrationsDone
  <2>1. /\ phase = "migrating" /\ migrated = 3 /\ phase' = "hooks"
        /\ UNCHANGED <<env, tables, migrated, registry, breakers, ready>>
    BY <1>4, ThreeMigrations DEF Routing!MigrationsDone
  <2> QED
    BY <2>1 DEF BootOK, Routing!ValidRegistry
<1>5. ASSUME NEW h \in Routing!Hooks, Routing!Initialise(h),
             h = "registry" => Routing!ValidRegistry,
             breakers' = IF h = "proxy" THEN DOMAIN registry ELSE breakers
      PROVE  BootOK'
  <2>1. /\ phase = "hooks" /\ ready' = ready \cup {h} /\ h \notin ready
        /\ UNCHANGED <<phase, env, tables, migrated, registry>>
    BY <1>5 DEF Routing!Initialise
  <2>2. Routing!ValidRegistry' <=> Routing!ValidRegistry
    BY <2>1 DEF Routing!ValidRegistry
  <2>3. breakers' = IF "proxy" \in ready' THEN DOMAIN registry' ELSE {}
    BY <1>5, <2>1 DEF BootOK
  <2>4. "registry" \in ready' => Routing!ValidRegistry'
    BY <1>5, <2>1, <2>2 DEF BootOK
  <2> QED
    BY <2>1, <2>3, <2>4 DEF BootOK
<1>6. CASE Routing!RegistryHook
  BY <1>5, <1>6 DEF Routing!RegistryHook, Routing!Hooks
<1>7. CASE Routing!ProxyHook
  BY <1>5, <1>7 DEF Routing!ProxyHook, Routing!Hooks
<1>8. CASE Routing!OtherHook
  <2>1. PICK h \in {"bopla", "policy", "shadow", "certMonitor"} : Routing!Initialise(h)
    BY <1>8 DEF Routing!OtherHook
  <2>2. breakers' = breakers /\ h \in Routing!Hooks
    BY <1>8 DEF Routing!OtherHook, Routing!Hooks
  <2> QED
    BY <1>5, <2>1, <2>2
<1>9. CASE Routing!Listen
  <2>1. /\ phase = "hooks" /\ ready = Routing!Hooks /\ phase' = "listening"
        /\ UNCHANGED <<env, tables, migrated, registry, breakers, ready>>
    BY <1>9 DEF Routing!Listen
  <2> QED
    BY <2>1 DEF BootOK, Routing!ValidRegistry
<1> QED
  BY <1>1, <1>2, <1>3, <1>4, <1>6, <1>7, <1>8, <1>9 DEF Routing!Boot

(* A set of naturals that is not empty has a least element.                *)
LEMMA LeastNatural ==
    ASSUME NEW T \in SUBSET Nat, T # {}
    PROVE  \E x \in T : \A y \in T : x <= y
<1> DEFINE R == OpToRel(<, Nat)
<1>1. IsWellFoundedOn(R, Nat)
  BY NatLessThanWellFounded
<1>2. \A x, y \in Nat : x < y => <<x, y>> \in R
  BY DEF OpToRel
<1> HIDE DEF R
<1>3. PICK x \in T : \A y \in T : ~ (<<y, x>> \in R)
  BY <1>1, WFMin
<1>4. ASSUME NEW y \in T PROVE x <= y
  <2>1. x \in Nat /\ y \in Nat
    OBVIOUS
  <2>2. ~ (y < x)
    BY <1>2, <1>3, <2>1
  <2> QED
    BY <2>1, <2>2
<1> QED
  BY <1>4

(* The least element of a set of positions.                                *)
LEMMA LeastPosition ==
    ASSUME NEW S \in SUBSET Nat, S # {}
    PROVE  Routing!Least(S) \in S /\ \A j \in S : Routing!Least(S) <= j
  BY LeastNatural DEF Routing!Least

(* What the URL parser leaves of a path: some of its segments, each where  *)
(* it was, and perhaps an empty one at the end.                            *)
LEMMA PathnameShape ==
    ASSUME NEW path, NEW n \in Nat \ {0}, n = Len(path),
           NEW p, p = Routing!Pathname(path)
    PROVE  /\ DOMAIN p \subseteq 1..(n + 1) /\ DOMAIN p # {}
           /\ \A i \in DOMAIN p : p[i] = IF i > n THEN "" ELSE path[i]
<1> DEFINE kept == {i \in 1..n : Routing!Stays(path, i)}
           D == kept \cup (IF path[n] \in Routing!DotSegments THEN {n + 1} ELSE {})
<1>1. p = [i \in D |-> IF i > n THEN "" ELSE path[i]]
  BY DEF Routing!Pathname
<1>2. D \subseteq 1..(n + 1)
  OBVIOUS
<1>3. n \in 1..n
  OBVIOUS
<1>4. path[n] \notin Routing!DotSegments => Routing!Stays(path, n)
  <2>1. (n + 1)..n = {}
    OBVIOUS
  <2> QED
    BY <2>1 DEF Routing!Stays
<1>5. D # {}
  BY <1>3, <1>4
<1> HIDE DEF D
<1> QED
  BY <1>1, <1>2, <1>5

(* forward() sends to the registered base, or the path names the host, and *)
(* then it has an empty segment.                                           *)
LEMMA TargetNamed ==
    ASSUME NEW path \in Routes, NEW base
    PROVE  \/ Routing!Target(path, base) \in {"", base}
           \/ {"", Routing!Target(path, base)} \subseteq Routing!ToSet(path)
<1> DEFINE t == Routing!Target(path, base)
           n == Len(path)
           p == Routing!Pathname(path)
           q == Routing!StripPrefix(p)
           named == {i \in DOMAIN q : q[i] # ""}
<1>1. n \in Nat \ {0} /\ DOMAIN path = 1..n
  BY UpstreamAssumption DEF Routing!RoutingAssumption
<1>2. /\ DOMAIN p \subseteq 1..(n + 1) /\ DOMAIN p # {}
      /\ \A i \in DOMAIN p : p[i] = IF i > n THEN "" ELSE path[i]
  BY <1>1, PathnameShape
<1>3. t = Routing!TargetHost(q, base)
  BY DEF Routing!Target
<1> HIDE DEF n, p, t
<1>4. DOMAIN p \subseteq Nat
  <2>1. 1..(n + 1) \subseteq Nat
    BY <1>1
  <2> QED
    BY <1>2, <2>1
<1>5. Routing!First(p) \in DOMAIN p
  BY <1>2, <1>4, LeastPosition DEF Routing!First
<1>6. \/ q = Routing!Root
      \/ /\ DOMAIN q \subseteq DOMAIN p /\ DOMAIN q # {}
         /\ \A i \in DOMAIN q : q[i] = p[i]
  <2>1. CASE p[Routing!First(p)] = ""
    BY <1>2, <2>1 DEF Routing!StripPrefix
  <2>2. CASE p[Routing!First(p)] # "" /\ DOMAIN p # {Routing!First(p)}
    <3>1. q = [i \in DOMAIN p \ {Routing!First(p)} |-> p[i]]
      BY <2>2 DEF Routing!StripPrefix
    <3>2. DOMAIN p \ {Routing!First(p)} # {}
      BY <1>5, <2>2
    <3> HIDE DEF q
    <3> QED
      BY <3>1, <3>2
  <2>3. CASE p[Routing!First(p)] # "" /\ DOMAIN p = {Routing!First(p)}
    BY <2>3 DEF Routing!StripPrefix
  <2> QED
    BY <2>1, <2>2, <2>3
<1> HIDE DEF q
<1>7. ASSUME q = Routing!Root PROVE t = base
  <2>1. DOMAIN Routing!Root = {1}
    BY DEF Routing!Root
  <2>2. Routing!First(Routing!Root) = 1
    <3>1. {1} \in SUBSET Nat /\ {1} # {}
      OBVIOUS
    <3> QED
      BY <2>1, <3>1, LeastPosition DEF Routing!First
  <2> QED
    BY <1>3, <1>7, <2>1, <2>2 DEF Routing!TargetHost
<1>8. ASSUME DOMAIN q \subseteq DOMAIN p, DOMAIN q # {}, \A i \in DOMAIN q : q[i] = p[i]
      PROVE  t \in {"", base} \/ {"", t} \subseteq Routing!ToSet(path)
  <2> DEFINE f == Routing!First(q)
  <2>1. f \in DOMAIN q /\ \A j \in DOMAIN q : f <= j
    BY <1>4, <1>8, LeastPosition DEF Routing!First
  <2> HIDE DEF f
  <2>2. CASE q[f] # "" \/ DOMAIN q = {f}
    BY <1>3, <2>2 DEF Routing!TargetHost, f
  <2>3. CASE ~(q[f] # "" \/ DOMAIN q = {f})
    <3>1. t = IF named = {} THEN "" ELSE q[Routing!Least(named)]
      BY <1>3, <2>3 DEF Routing!TargetHost, f
    <3>2. PICK g \in DOMAIN q : g # f
      BY <2>1, <2>3
    <3>3. f \in 1..n
      <4>1. f \in 1..(n + 1) /\ g \in 1..(n + 1)
        BY <1>2, <1>8, <2>1
      <4>2. f <= g
        BY <2>1
      <4> QED
        BY <1>1, <3>2, <4>1, <4>2
    <3>4. path[f] = ""
      <4>1. p[f] = "" /\ f \in DOMAIN p
        BY <1>8, <2>1, <2>3
      <4>2. ~(f > n)
        BY <1>1, <3>3
      <4> QED
        BY <1>2, <4>1, <4>2
    <3>5. "" \in Routing!ToSet(path)
      BY <1>1, <3>3, <3>4 DEF Routing!ToSet
    <3>6. CASE named = {}
      BY <3>1, <3>6
    <3>7. CASE named # {}
      <4> DEFINE i == Routing!Least(named)
      <4>1. named \in SUBSET Nat
        BY <1>4, <1>8
      <4>2. i \in named
        BY <3>7, <4>1, LeastPosition
      <4> HIDE DEF i
      <4>3. i \in DOMAIN p /\ p[i] # "" /\ q[i] = p[i]
        BY <1>8, <4>2
      <4>4. i \in 1..n /\ p[i] = path[i]
        <5>1. i \in 1..(n + 1) /\ p[i] = IF i > n THEN "" ELSE path[i]
          BY <1>2, <4>3
        <5>2. ~(i > n)
          BY <4>3, <5>1
        <5> QED
          BY <1>1, <5>1, <5>2
      <4>5. t = path[i]
        BY <3>1, <3>7, <4>3, <4>4 DEF i
      <4>6. t \in Routing!ToSet(path)
        BY <1>1, <4>4, <4>5 DEF Routing!ToSet
      <4> QED
        BY <3>5, <4>6
    <3> QED
      BY <3>6, <3>7
  <2> QED
    BY <2>2, <2>3
<1>9. t \in {"", base} \/ {"", t} \subseteq Routing!ToSet(path)
  BY <1>6, <1>7, <1>8
<1> QED
  BY <1>9 DEF t

(* A request on its way: under a registered name, to the registered host   *)
(* or the one its path names, with an answer of the name service it could  *)
(* have been given while it waited.                                        *)
CallOK(p, services, names, x, answers) ==
    /\ x = [at |-> x.at, path |-> x.path, service |-> x.service, host |-> x.host]
    /\ x.at \in {"idle", "lookup", "agent", "fired", "403", "404", "500"}
    /\ p # "listening" => x = Routing!Idle
    /\ x.at \in {"lookup", "agent", "fired"} =>
         /\ x.service = x.path[1] /\ x.service \in DOMAIN services
         /\ x.host = services[x.service] \/ {"", x.host} \subseteq Routing!ToSet(x.path)
         /\ x.host \in Routing!Hosts
    /\ x.at = "lookup" => names[x.host] \in answers
    /\ x.at \in {"agent", "fired"} => answers \ Routing!Blocked # {}

RoutingInv ==
    /\ BootOK
    /\ dns = [h \in Routing!Hosts |-> dns[h]]
    /\ routed = [c \in Senders |-> routed[c]] /\ seen = [c \in Senders |-> seen[c]]
    /\ \A c \in Senders : CallOK(phase, registry, dns, routed[c], seen[c])

(* Nobody asks when the process is down.                                   *)
LEMMA IdleOK ==
    /\ Routing!Idle.at = "idle"
    /\ \A p, services, names, answers : CallOK(p, services, names, Routing!Idle, answers)
  BY DEF Routing!Idle, CallOK

(* The first process is down and its database empty.                       *)
LEMMA RoutingInit == Routing!RoutingInit => RoutingInv
<1> SUFFICES ASSUME Routing!RoutingInit PROVE RoutingInv
  OBVIOUS
<1>1. BootOK
  BY DEF Routing!RoutingInit, Routing!BootInit, BootOK
<1> QED
  BY <1>1, IdleOK DEF Routing!RoutingInit, RoutingInv

(* What the invariant says of a gateway that listens.                      *)
LEMMA ReadyWhenListening == RoutingInv => ListeningMeansReady
<1> SUFFICES ASSUME RoutingInv, phase = "listening" PROVE ListeningMeansReady
  BY DEF ListeningMeansReady, Routing!ListeningMeansReady
<1>1. /\ env \in Environments /\ Routing!Accepted(env) /\ registry = env.registry.services
      /\ migrated = 3 /\ ready = Routing!Hooks /\ tables \subseteq Routing!Tables
      /\ \A i \in 1..3 : Routing!Migrations[i] \subseteq tables
      /\ breakers = DOMAIN registry /\ Routing!ValidRegistry
  BY DEF RoutingInv, BootOK, Routing!Hooks
<1>2. tables = Routing!Tables
  <2>1. 1 \in 1..3 /\ 2 \in 1..3 /\ 3 \in 1..3
    OBVIOUS
  <2> QED
    BY <1>1, <2>1, ThreeMigrations
<1>3. breakers = DOMAIN env.registry.services /\ breakers # {}
  BY <1>1 DEF Routing!ValidRegistry
<1> QED
  BY <1>1, <1>2, <1>3, AcceptedTightens DEF ListeningMeansReady, Routing!ListeningMeansReady

(* What it says of a request that is fired.                                *)
LEMMA RoutedWhenFired == RoutingInv => RoutedAsRegistered /\ Routing!RoutingTypeOK
<1> SUFFICES ASSUME RoutingInv PROVE RoutedAsRegistered /\ Routing!RoutingTypeOK
  OBVIOUS
<1>1. \A c \in Senders : CallOK(phase, registry, dns, routed[c], seen[c])
  BY DEF RoutingInv
<1>2. ASSUME NEW c \in Senders, routed[c].at = "fired"
      PROVE  registry = env.registry.services
  <2>1. routed[c] # Routing!Idle
    BY <1>2 DEF Routing!Idle
  <2>2. phase = "listening"
    BY <1>1, <2>1 DEF CallOK
  <2> QED
    BY <2>2 DEF RoutingInv, BootOK
<1>3. RoutedAsRegistered
  BY <1>1, <1>2 DEF CallOK, RoutedAsRegistered, Routing!RoutedAsRegistered
<1>4. migrated \in 0..Len(Routing!Migrations)
  BY ThreeMigrations DEF RoutingInv, BootOK
<1>5. breakers \subseteq DOMAIN registry
  BY DEF RoutingInv, BootOK
<1>6. Routing!RoutingTypeOK
  BY <1>1, <1>4, <1>5 DEF RoutingInv, BootOK, CallOK, Routing!RoutingTypeOK
<1> QED
  BY <1>3, <1>6

(* A step of one request.                                                  *)
LEMMA CallMoves ==
    ASSUME RoutingInv, NEW c \in Senders, NEW x, NEW answers,
           CallOK(phase, registry, dns, x, answers),
           routed' = [routed EXCEPT ![c] = x], seen' = [seen EXCEPT ![c] = answers],
           UNCHANGED <<phase, env, tables, migrated, registry, breakers, ready, dns>>
    PROVE  RoutingInv'
<1>1. /\ routed'[c] = x /\ seen'[c] = answers
      /\ routed' = [d \in Senders |-> routed'[d]] /\ seen' = [d \in Senders |-> seen'[d]]
      /\ \A d \in Senders : d # c => routed'[d] = routed[d] /\ seen'[d] = seen[d]
  BY DEF RoutingInv
<1>2. ASSUME NEW d \in Senders PROVE CallOK(phase', registry', dns', routed'[d], seen'[d])
  BY <1>1 DEF RoutingInv
<1>3. BootOK'
  BY DEF RoutingInv, BootOK, Routing!ValidRegistry
<1> QED
  BY <1>1, <1>2, <1>3 DEF RoutingInv

(* An answer that ends the call.                                           *)
LEMMA AnswerMoves ==
    ASSUME RoutingInv, phase = "listening", NEW c \in Senders, NEW status \in {"403", "404", "500", "idle"},
           routed' = [routed EXCEPT ![c] = [Routing!Idle EXCEPT !.at = status]],
           NEW answers, seen' = [seen EXCEPT ![c] = answers],
           UNCHANGED <<phase, env, tables, migrated, registry, breakers, ready, dns>>
    PROVE  RoutingInv'
<1> DEFINE x == [Routing!Idle EXCEPT !.at = status]
<1>1. x = [at |-> status, path |-> << >>, service |-> "none", host |-> "none"] /\ x.at = status
  BY DEF Routing!Idle
<1>2. CallOK(phase, registry, dns, x, answers)
  <2>1. x = [at |-> x.at, path |-> x.path, service |-> x.service, host |-> x.host]
    BY <1>1
  <2> HIDE DEF x
  <2> QED
    BY <1>1, <2>1 DEF CallOK
<1> HIDE DEF x
<1> QED
  BY <1>2, CallMoves DEF x

(* forward() as far as its lookup.                                         *)
LEMMA ForwardInv ==
    ASSUME RoutingInv, NEW c \in Senders, NEW path \in Routes, Routing!Forward(c, path)
    PROVE  RoutingInv'
<1> DEFINE name == path[1]
           host == Routing!Target(path, registry[name])
<1>1. /\ phase = "listening" /\ UNCHANGED <<phase, env, tables, migrated, registry, breakers, ready, dns>>
      /\ seen = [seen EXCEPT ![c] = seen[c]]
  BY DEF Routing!Forward, Routing!bootVars, RoutingInv
<1>2. CASE \E status \in {"404", "500"} : Routing!Answer(c, status) /\ UNCHANGED seen
  BY <1>1, <1>2, AnswerMoves DEF Routing!Answer
<1>3. CASE /\ name \in DOMAIN registry /\ host \notin Routing!NoHost
           /\ routed' = [routed EXCEPT ![c] =
                           [at |-> "lookup", path |-> path, service |-> name, host |-> host]]
           /\ seen' = [seen EXCEPT ![c] = {dns[host]}]
  <2> DEFINE x == [at |-> "lookup", path |-> path, service |-> name, host |-> host]
             answers == {dns[host]}
  <2>1. host \in Routing!Hosts
    <3>1. env \in Environments /\ registry = env.registry.services
      BY <1>1 DEF RoutingInv, BootOK
    <3> DEFINE UsedBy(e) == {Routing!Target(z[1], e.registry.services[z[2]]) :
                               z \in Routes \X DOMAIN e.registry.services}
               All == UNION {UsedBy(e) : e \in Environments}
               z0 == <<path, name>>
    <3>2. z0 \in Routes \X DOMAIN env.registry.services /\ z0[1] = path /\ z0[2] = name
      BY <1>3, <3>1
    <3>3. host = Routing!Target(z0[1], env.registry.services[z0[2]])
      BY <3>1, <3>2
    <3> HIDE DEF host, z0
    <3>4. host \in UsedBy(env)
      BY <3>2, <3>3
    <3>5. host \in All
      BY <3>1, <3>4
    <3>6. Routing!Hosts = All \ Routing!NoHost
      BY DEF Routing!Hosts
    <3> HIDE DEF UsedBy, All
    <3> QED
      BY <1>3, <3>5, <3>6
  <2>2. host = registry[name] \/ {"", host} \subseteq Routing!ToSet(path)
    <3>1. host # ""
      BY <1>3 DEF Routing!NoHost
    <3> QED
      BY <3>1, TargetNamed
  <2> HIDE DEF host
  <2>3. CallOK(phase, registry, dns, x, answers)
    BY <1>1, <1>3, <2>1, <2>2 DEF CallOK
  <2>4. routed' = [routed EXCEPT ![c] = x] /\ seen' = [seen EXCEPT ![c] = answers]
    BY <1>3
  <2> HIDE DEF x, answers
  <2> QED
    BY <1>1, <2>3, <2>4, CallMoves
<1>4. \/ \E status \in {"404", "500"} : Routing!Answer(c, status) /\ UNCHANGED seen
      \/ /\ name \in DOMAIN registry /\ host \notin Routing!NoHost
         /\ routed' = [routed EXCEPT ![c] =
                         [at |-> "lookup", path |-> path, service |-> name, host |-> host]]
         /\ seen' = [seen EXCEPT ![c] = {dns[host]}]
  BY DEF Routing!Forward, Routing!Known
<1> QED
  BY <1>2, <1>3, <1>4

(* The awaits of forward() come back, or the client has its answer.        *)
LEMMA AwaitInv ==
    ASSUME RoutingInv, NEW c \in Senders,
           Routing!LookedUp(c) \/ Routing!AgentReady(c) \/ Routing!ForwardFails(c) \/ Routing!Done(c)
    PROVE  RoutingInv'
<1> DEFINE y == routed[c]
<1>1. /\ CallOK(phase, registry, dns, y, seen[c]) /\ seen = [seen EXCEPT ![c] = seen[c]]
      /\ UNCHANGED <<phase, env, tables, migrated, registry, breakers, ready, dns>>
  BY DEF RoutingInv, Routing!LookedUp, Routing!AgentReady, Routing!ForwardFails, Routing!Done, Routing!bootVars
<1>2. y.at # "idle"
  BY DEF Routing!LookedUp, Routing!AgentReady, Routing!ForwardFails, Routing!Done
<1>3. phase = "listening" /\ breakers = DOMAIN registry
  <2>1. phase = "listening"
    BY <1>1, <1>2, IdleOK DEF CallOK
  <2> QED
    BY <2>1 DEF RoutingInv, BootOK, Routing!Hooks
<1>4. ASSUME NEW at \in {"agent", "fired"}, y.at \in {"lookup", "agent"},
             seen[c] \ Routing!Blocked # {}, routed' = [routed EXCEPT ![c].at = at], seen' = seen
      PROVE  RoutingInv'
  <2> DEFINE x == [y EXCEPT !.at = at]
  <2>1. /\ y = [at |-> y.at, path |-> y.path, service |-> y.service, host |-> y.host]
        /\ y.service = y.path[1] /\ y.service \in DOMAIN registry /\ y.host \in Routing!Hosts
        /\ y.host = registry[y.service] \/ {"", y.host} \subseteq Routing!ToSet(y.path)
    BY <1>1, <1>4 DEF CallOK
  <2>2. x = [at |-> at, path |-> y.path, service |-> y.service, host |-> y.host]
    <3> HIDE DEF y
    <3>1. PICK a, b, d, e : y = [at |-> a, path |-> b, service |-> d, host |-> e]
      BY <2>1
    <3>2. y.path = b /\ y.service = d /\ y.host = e
      BY <3>1
    <3>3. x = [at |-> at, path |-> b, service |-> d, host |-> e]
      BY <3>1
    <3> QED
      BY <3>2, <3>3
  <2>3. /\ x = [at |-> x.at, path |-> x.path, service |-> x.service, host |-> x.host]
        /\ x.at = at /\ x.path = y.path /\ x.service = y.service /\ x.host = y.host
    BY <2>2
  <2>4. CallOK(phase, registry, dns, x, seen[c])
    <3> HIDE DEF x, y
    <3> QED
      BY <1>3, <1>4, <2>1, <2>3 DEF CallOK
  <2>5. routed' = [routed EXCEPT ![c] = x] /\ seen' = [seen EXCEPT ![c] = seen[c]]
    BY <1>1, <1>4
  <2> HIDE DEF x
  <2> QED
    BY <1>1, <2>4, <2>5, CallMoves
<1>5. CASE Routing!LookedUp(c)
  <2>1. y.at = "lookup" /\ seen' = seen /\ y.service \in breakers /\ dns[y.host] \in seen[c]
    BY <1>1, <1>3, <1>5 DEF Routing!LookedUp, CallOK
  <2>2. \/ Routing!Answer(c, "403")
        \/ dns[y.host] \notin Routing!Blocked /\ routed' = [routed EXCEPT ![c].at = "agent"]
    BY <1>5, <2>1 DEF Routing!LookedUp
  <2>3. CASE Routing!Answer(c, "403")
    BY <1>1, <1>3, <2>1, <2>3, AnswerMoves DEF Routing!Answer
  <2>4. CASE dns[y.host] \notin Routing!Blocked /\ routed' = [routed EXCEPT ![c].at = "agent"]
    BY <1>4, <2>1, <2>4
  <2> QED
    BY <2>2, <2>3, <2>4
<1>6. CASE Routing!AgentReady(c)
  <2>1. y.at = "agent" /\ seen' = seen /\ seen[c] \ Routing!Blocked # {}
    BY <1>1, <1>6 DEF Routing!AgentReady, CallOK
  <2> QED
    BY <1>4, <1>6, <2>1 DEF Routing!AgentReady
<1>7. CASE Routing!ForwardFails(c)
  BY <1>1, <1>3, <1>7, AnswerMoves DEF Routing!ForwardFails, Routing!Answer
<1>8. CASE Routing!Done(c)
  <2>1. routed' = [routed EXCEPT ![c] = Routing!Idle] /\ seen' = [seen EXCEPT ![c] = {}]
    BY <1>8 DEF Routing!Done
  <2>2. CallOK(phase, registry, dns, Routing!Idle, {})
    BY IdleOK
  <2> QED
    BY <1>1, <2>1, <2>2, CallMoves
<1> QED
  BY <1>5, <1>6, <1>7, <1>8

(* The name service changes an answer under the requests that wait.        *)
LEMMA DnsInv ==
    ASSUME RoutingInv, NEW h \in Routing!Hosts, NEW a \in Addresses, Routing!DnsChanges(h, a)
    PROVE  RoutingInv'
<1>1. /\ dns' = [dns EXCEPT ![h] = a] /\ routed' = routed
      /\ seen' = [c \in Senders |-> IF routed[c].host = h /\ routed[c].at = "lookup"
                                    THEN seen[c] \cup {a} ELSE seen[c]]
      /\ UNCHANGED <<phase, env, tables, migrated, registry, breakers, ready>>
  BY DEF Routing!DnsChanges, Routing!bootVars
<1>2. /\ dns' = [k \in Routing!Hosts |-> dns'[k]] /\ dns'[h] = a
      /\ \A k \in Routing!Hosts : k # h => dns'[k] = dns[k]
  BY <1>1 DEF RoutingInv
<1>3. ASSUME NEW c \in Senders PROVE CallOK(phase', registry', dns', routed'[c], seen'[c])
  <2>1. CallOK(phase, registry, dns, routed[c], seen[c])
    BY DEF RoutingInv
  <2>2. seen[c] \subseteq seen'[c] /\ (routed[c].at = "lookup" /\ routed[c].host = h => a \in seen'[c])
    BY <1>1
  <2> QED
    BY <1>1, <1>2, <2>1, <2>2 DEF CallOK
<1>4. BootOK'
  BY <1>1 DEF RoutingInv, BootOK, Routing!ValidRegistry
<1> QED
  BY <1>1, <1>2, <1>3, <1>4 DEF RoutingInv

(* Every step of startup and routing keeps their invariant.                *)
LEMMA RoutingNext == RoutingInv /\ [Routing!RoutingNext]_routingVars => RoutingInv'
<1> SUFFICES ASSUME RoutingInv, [Routing!RoutingNext]_routingVars PROVE RoutingInv'
  OBVIOUS
<1>1. CASE Routing!Boot /\ UNCHANGED <<routed, dns, seen>>
  <2>1. phase # "listening"
    BY <1>1
    DEF Routing!Boot, Routing!Create, Routing!RunMigration, Routing!MigrationFails,
        Routing!MigrationsDone, Routing!RegistryHook, Routing!ProxyHook, Routing!OtherHook,
        Routing!Initialise, Routing!HookFails, Routing!Listen
  <2>2. \A c \in Senders : routed[c] = Routing!Idle
    BY <2>1 DEF RoutingInv, CallOK
  <2> QED
    BY <1>1, <2>2, BootNext, IdleOK DEF RoutingInv
<1>2. CASE Routing!ProcessDies
  <2>1. BootOK'
    BY <1>2, ExitOK DEF RoutingInv, Routing!ProcessDies, Routing!Crash
  <2> QED
    BY <1>2, <2>1, IdleOK DEF RoutingInv, Routing!ProcessDies
<1>3. CASE UNCHANGED routingVars
  <2>1. BootOK'
    BY <1>3 DEF RoutingInv, BootOK, Routing!ValidRegistry, routingVars
  <2> QED
    BY <1>3, <2>1 DEF RoutingInv, routingVars
<1> QED
  <2>1. DOMAIN dns = Routing!Hosts
    BY DEF RoutingInv
  <2> QED
    BY <1>1, <1>2, <1>3, <2>1, ForwardInv, AwaitInv, DnsInv DEF Routing!RoutingNext

-----------------------------------------------------------------------------
(* Response stripping.  The library's induction takes a predicate as a     *)
(* parameter, which the provers cannot instantiate; its least-element      *)
(* principle takes a set (LeastNatural), and induction over sets of levels *)
(* follows.                                                                *)

(* Induction over the levels of nesting.                                   *)
LEMMA LevelInduction ==
    ASSUME NEW m \in Nat, NEW T, 1 \in T, \A n \in 1..(m - 1) : n \in T => n + 1 \in T
    PROVE  \A n \in 1..m : n \in T
<1> DEFINE U == {n \in 1..m : n \notin T}
<1> SUFFICES ASSUME U # {} PROVE FALSE
  OBVIOUS
<1>1. U \in SUBSET Nat
  OBVIOUS
<1> HIDE DEF U
<1>3. PICK x \in U : \A y \in U : x <= y
  BY <1>1, LeastNatural
<1> USE DEF U
<1>2. x - 1 \in 1..(m - 1) /\ x - 1 \notin U
  BY <1>3
<1> QED
  BY <1>2

(* What is assumed of policies, callers and bodies.                        *)
LEMMA StripAssumed ==
    /\ Len(Json) \in Nat /\ Len(Json) > 1 /\ MaxItems \in Nat
    /\ \A v \in Json[1] : v.kind \in {"scalar", "opaque"}
    /\ \A n \in 1..(Len(Json) - 1) : Json[n + 1] = Strip!Over(Json[n])
    /\ \A policy \in FieldPolicies : Len(policy) \in Nat /\ DOMAIN policy = 1..Len(policy)
    /\ \A roles \in Callers : Len(roles) \in Nat /\ DOMAIN roles = 1..Len(roles)
<1>1. Strip!BoplaAssumption
  BY UpstreamAssumption
<1>2. \A n \in 2..Len(Json) : Json[n] = Strip!Over(Json[n - 1])
  BY <1>1 DEF Strip!BoplaAssumption
<1>3. Len(Json) \in Nat
  BY <1>1 DEF Strip!BoplaAssumption, Strip!IsList
<1>4. ASSUME NEW n \in 1..(Len(Json) - 1) PROVE Json[n + 1] = Strip!Over(Json[n])
  <2>1. n + 1 \in 2..Len(Json) /\ (n + 1) - 1 = n
    BY <1>3
  <2> QED
    BY <1>2, <2>1
<1> QED
  BY <1>1, <1>4 DEF Strip!BoplaAssumption, Strip!IsList

(* A value with parts in S: a leaf, an object or an array.                 *)
IsObject(v, S) == \E K \in SUBSET Names : \E f \in [K -> S] : v = Strip!Object(f)
IsArray(v, S) == \E m \in 0..MaxItems : \E a \in [1..m -> S] : v = Strip!Array(a)
Shaped(v, S) == v.kind \in {"scalar", "opaque"} \/ IsObject(v, S) \/ IsArray(v, S)

LEMMA OverShape ==
    ASSUME NEW S
    PROVE  \A v : v \in Strip!Over(S) <=> v \in S \/ IsObject(v, S) \/ IsArray(v, S)
  BY DEF Strip!Over, IsObject, IsArray, Strip!BoundedSeq, Strip!SeqOf

(* The levels grow, and the values of a level are leaves or have their     *)
(* parts in the level below; those of the first are leaves.                *)
LEMMA Levels ==
    /\ \A v \in Json[1] : v.kind \in {"scalar", "opaque"}
    /\ \A n \in 1..(Len(Json) - 1) :
         /\ Json[n] \subseteq Json[n + 1]
         /\ \A v \in Json[n + 1] : Shaped(v, Json[n])
         /\ \A v : IsObject(v, Json[n]) \/ IsArray(v, Json[n]) => v \in Json[n + 1]
<1> DEFINE Q(n) == /\ Json[n] \subseteq Json[n + 1]
                   /\ \A v \in Json[n + 1] : Shaped(v, Json[n])
                   /\ \A v : IsObject(v, Json[n]) \/ IsArray(v, Json[n]) => v \in Json[n + 1]
           T == {n \in Nat : n <= Len(Json) - 1 => Q(n)}
<1>1. \A v \in Json[1] : v.kind \in {"scalar", "opaque"}
  BY StripAssumed
<1>2. ASSUME NEW n \in 1..(Len(Json) - 1)
      PROVE  \A v : v \in Json[n + 1] <=> v \in Json[n] \/ IsObject(v, Json[n]) \/ IsArray(v, Json[n])
  BY OverShape, StripAssumed
<1>3. 1 \in T
  <2>1. SUFFICES ASSUME 1 <= Len(Json) - 1 PROVE Q(1)
    OBVIOUS
  <2>2. \A v : v \in Json[2] <=> v \in Json[1] \/ IsObject(v, Json[1]) \/ IsArray(v, Json[1])
    BY <1>2, StripAssumed
  <2> QED
    BY <1>1, <2>2 DEF Shaped
<1>4. ASSUME NEW n \in 1..((Len(Json) - 1) - 1), n \in T PROVE n + 1 \in T
  <2>1. n \in 1..(Len(Json) - 1) /\ n + 1 \in 1..(Len(Json) - 1) /\ Len(Json) \in Nat
    BY StripAssumed
  <2>2. Q(n)
    BY <1>4, <2>1
  <2>3. ASSUME NEW v \in Json[n] PROVE v \in Json[n + 1]
    BY <2>2, <2>3
  <2>4. ASSUME NEW v, Shaped(v, Json[n]) PROVE Shaped(v, Json[n + 1])
    <3>1. CASE v.kind \in {"scalar", "opaque"}
      BY <3>1 DEF Shaped
    <3>2. CASE IsObject(v, Json[n])
      <4>3. PICK K \in SUBSET Names : \E f \in [K -> Json[n]] : v = Strip!Object(f)
        BY <3>2 DEF IsObject
      <4>1. PICK f \in [K -> Json[n]] : v = Strip!Object(f)
        BY <4>3
      <4>2. f \in [K -> Json[n + 1]]
        BY <2>3
      <4> QED
        BY <4>1, <4>2 DEF Shaped, IsObject
    <3>3. CASE IsArray(v, Json[n])
      <4>3. PICK k \in 0..MaxItems : \E a \in [1..k -> Json[n]] : v = Strip!Array(a)
        BY <3>3 DEF IsArray
      <4>1. PICK a \in [1..k -> Json[n]] : v = Strip!Array(a)
        BY <4>3
      <4>2. a \in [1..k -> Json[n + 1]]
        BY <2>3
      <4> QED
        BY <4>1, <4>2 DEF Shaped, IsArray
    <3> QED
      BY <2>4, <3>1, <3>2, <3>3 DEF Shaped
  <2>5. Q(n + 1)
    <3>1. \A v : v \in Json[(n + 1) + 1] <=> v \in Json[n + 1] \/ IsObject(v, Json[n + 1]) \/ IsArray(v, Json[n + 1])
      BY <1>2, <2>1
    <3> QED
      BY <2>2, <2>4, <3>1 DEF Shaped
  <2> QED
    BY <2>1, <2>5
<1>5. Len(Json) - 1 \in Nat
  BY StripAssumed
<1> HIDE DEF T
<1>6. \A n \in 1..(Len(Json) - 1) : n \in T
  BY <1>3, <1>4, <1>5, LevelInduction
<1> QED
  BY <1>1, <1>6 DEF T

(* Whatever a value of a level is made of is a body too.                   *)
LEMMA LevelsAreBodies ==
    /\ \A n \in 1..Len(Json) : Json[n] \subseteq Strip!Bodies
    /\ Strip!Bodies = Json[Len(Json)]
<1> DEFINE T == {n \in Nat : n \in 1..Len(Json) => Json[Len(Json) + 1 - n] \subseteq Strip!Bodies}
<1>1. 1 \in T
  BY StripAssumed DEF Strip!Bodies
<1>2. ASSUME NEW n \in 1..(Len(Json) - 1), n \in T PROVE n + 1 \in T
  <2>1. Len(Json) - n \in 1..(Len(Json) - 1) /\ (Len(Json) - n) + 1 = Len(Json) + 1 - n
        /\ Len(Json) + 1 - (n + 1) = Len(Json) - n /\ n + 1 \in 1..Len(Json) /\ n \in 1..Len(Json)
    BY StripAssumed
  <2>2. Json[Len(Json) - n] \subseteq Json[Len(Json) + 1 - n]
    BY <2>1, Levels
  <2> QED
    BY <1>2, <2>1, <2>2, SMTT(30)
<1> HIDE DEF T
<1>3. \A n \in 1..Len(Json) : n \in T
  BY <1>1, <1>2, StripAssumed, LevelInduction
<1>4. ASSUME NEW n \in 1..Len(Json) PROVE Json[n] \subseteq Strip!Bodies
  <2>1. Len(Json) + 1 - n \in 1..Len(Json) /\ Len(Json) + 1 - (Len(Json) + 1 - n) = n
    BY StripAssumed
  <2> QED
    BY <1>3, <2>1 DEF T
<1> QED
  BY <1>4 DEF Strip!Bodies

(* The recursion equation of Facts, with g for the function itself.        *)
FactsOf(g, v) ==
    CASE v.kind = "object" ->
           UNION {Strip!Below([keys |-> {k}, at |-> 0], g[v.fields[k]]) : k \in DOMAIN v.fields}
      [] v.kind = "array" ->
           UNION {Strip!Below([keys |-> {}, at |-> i], g[v.items[i]]) : i \in DOMAIN v.items}
      [] OTHER -> {<< << >>, v>>}

(* What it takes of each kind of value.                                    *)
LEMMA FactsByKind ==
    ASSUME NEW g
    PROVE  /\ \A f : FactsOf(g, Strip!Object(f)) =
                UNION {Strip!Below([keys |-> {k}, at |-> 0], g[f[k]]) : k \in DOMAIN f}
           /\ \A a : FactsOf(g, Strip!Array(a)) =
                UNION {Strip!Below([keys |-> {}, at |-> i], g[a[i]]) : i \in DOMAIN a}
           /\ \A v : v.kind \in {"scalar", "opaque"} => FactsOf(g, v) = {<< << >>, v>>}
  BY DEF FactsOf, Strip!Object, Strip!Array

(* It looks at the parts of the value only.                                *)
LEMMA FactsLocal ==
    ASSUME NEW S, NEW v, Shaped(v, S), NEW g, NEW h, \A w \in S : g[w] = h[w]
    PROVE  FactsOf(g, v) = FactsOf(h, v)
<1>1. CASE v.kind \in {"scalar", "opaque"}
  <2>1. FactsOf(g, v) = {<< << >>, v>>}
    BY <1>1 DEF FactsOf
  <2>2. FactsOf(h, v) = {<< << >>, v>>}
    BY <1>1 DEF FactsOf
  <2> QED
    BY <2>1, <2>2
<1>2. CASE IsObject(v, S)
  <2>1. PICK K \in SUBSET Names : \E f \in [K -> S] : v = Strip!Object(f)
    BY <1>2 DEF IsObject
  <2>2. PICK f \in [K -> S] : v = Strip!Object(f)
    BY <2>1
  <2>3. \A k \in DOMAIN f : Strip!Below([keys |-> {k}, at |-> 0], g[f[k]]) =
                                Strip!Below([keys |-> {k}, at |-> 0], h[f[k]])
    <3>1. \A k \in DOMAIN f : g[f[k]] = h[f[k]]
      OBVIOUS
    <3> QED
      BY <3>1
  <2>4. FactsOf(g, v) = UNION {Strip!Below([keys |-> {k}, at |-> 0], g[f[k]]) : k \in DOMAIN f}
    BY <2>2, FactsByKind
  <2>5. FactsOf(h, v) = UNION {Strip!Below([keys |-> {k}, at |-> 0], h[f[k]]) : k \in DOMAIN f}
    BY <2>2, FactsByKind
  <2>6. {Strip!Below([keys |-> {k}, at |-> 0], g[f[k]]) : k \in DOMAIN f} =
        {Strip!Below([keys |-> {k}, at |-> 0], h[f[k]]) : k \in DOMAIN f}
    BY <2>3
  <2> QED
    BY <2>4, <2>5, <2>6
<1>3. CASE IsArray(v, S)
  <2>1. PICK m \in 0..MaxItems : \E a \in [1..m -> S] : v = Strip!Array(a)
    BY <1>3 DEF IsArray
  <2>2. PICK a \in [1..m -> S] : v = Strip!Array(a)
    BY <2>1
  <2>3. \A i \in DOMAIN a : Strip!Below([keys |-> {}, at |-> i], g[a[i]]) =
                                Strip!Below([keys |-> {}, at |-> i], h[a[i]])
    <3>1. \A i \in DOMAIN a : g[a[i]] = h[a[i]]
      OBVIOUS
    <3> QED
      BY <3>1
  <2>4. FactsOf(g, v) = UNION {Strip!Below([keys |-> {}, at |-> i], g[a[i]]) : i \in DOMAIN a}
    BY <2>2, FactsByKind
  <2>5. FactsOf(h, v) = UNION {Strip!Below([keys |-> {}, at |-> i], h[a[i]]) : i \in DOMAIN a}
    BY <2>2, FactsByKind
  <2>6. {Strip!Below([keys |-> {}, at |-> i], g[a[i]]) : i \in DOMAIN a} =
        {Strip!Below([keys |-> {}, at |-> i], h[a[i]]) : i \in DOMAIN a}
    BY <2>3
  <2> QED
    BY <2>4, <2>5, <2>6
<1> QED
  BY <1>1, <1>2, <1>3 DEF Shaped

(* So the recursion has a solution, level by level, and Facts is one.      *)
LEMMA FactsDefined == \A v \in Strip!Bodies : Strip!Facts[v] = FactsOf(Strip!Facts, v)
<1> DEFINE T == {n \in Nat : \E g : g = [v \in Json[n] |-> FactsOf(g, v)]}
<1>1. 1 \in T
  <2> DEFINE g == [v \in Json[1] |-> {<< << >>, v>>}]
  <2>1. \A v \in Json[1] : FactsOf(g, v) = {<< << >>, v>>}
    BY Levels, FactsByKind
  <2>2. g = [v \in Json[1] |-> FactsOf(g, v)]
    BY <2>1
  <2> HIDE DEF g
  <2> QED
    BY <2>2
<1>2. ASSUME NEW n \in 1..(Len(Json) - 1), n \in T PROVE n + 1 \in T
  <2>1. PICK g : g = [v \in Json[n] |-> FactsOf(g, v)]
    BY <1>2
  <2> DEFINE h == [v \in Json[n + 1] |-> FactsOf(g, v)]
  <2>2. \A w \in Json[n] : g[w] = h[w]
    BY <2>1, Levels
  <2> HIDE DEF h
  <2>3. ASSUME NEW v \in Json[n + 1] PROVE FactsOf(g, v) = FactsOf(h, v)
    <3>1. Shaped(v, Json[n])
      BY Levels
    <3> QED
      BY <2>2, <3>1, FactsLocal
  <2>4. h = [v \in Json[n + 1] |-> FactsOf(h, v)]
    BY <2>3 DEF h
  <2>5. n + 1 \in Nat
    BY StripAssumed
  <2> QED
    BY <2>4, <2>5
<1> HIDE DEF T
<1>3. \A n \in 1..Len(Json) : n \in T
  BY <1>1, <1>2, StripAssumed, LevelInduction
<1>4. \E g : g = [v \in Strip!Bodies |-> FactsOf(g, v)]
  BY <1>3, StripAssumed DEF T, Strip!Bodies
<1>5. Strip!Facts = CHOOSE g : g = [v \in Strip!Bodies |-> FactsOf(g, v)]
  BY DEF Strip!Facts, FactsOf
<1>6. Strip!Facts = [v \in Strip!Bodies |-> FactsOf(Strip!Facts, v)]
  BY <1>4, <1>5
<1> QED
  BY <1>6

(* The same for the walk that applies an allow list.                       *)
WalkOf(allowed, g, v) ==
    CASE v.kind = "array" -> Strip!Array([i \in DOMAIN v.items |-> g[v.items[i]]])
      [] v.kind = "object" ->
           Strip!Object([f \in Strip!ToSet(allowed) \cap DOMAIN v.fields |-> g[v.fields[f]]])
      [] OTHER -> v
Walk(allowed) == CHOOSE g : g = [v \in Strip!Bodies |-> WalkOf(allowed, g, v)]

LEMMA WalkByKind ==
    ASSUME NEW allowed, NEW g
    PROVE  /\ \A f : WalkOf(allowed, g, Strip!Object(f)) =
                Strip!Object([k \in Strip!ToSet(allowed) \cap DOMAIN f |-> g[f[k]]])
           /\ \A a : WalkOf(allowed, g, Strip!Array(a)) = Strip!Array([i \in DOMAIN a |-> g[a[i]]])
           /\ \A v : v.kind \in {"scalar", "opaque"} => WalkOf(allowed, g, v) = v
  BY DEF WalkOf, Strip!Object, Strip!Array

LEMMA WalkLocal ==
    ASSUME NEW allowed, NEW S, NEW v, Shaped(v, S), NEW g, NEW h, \A w \in S : g[w] = h[w]
    PROVE  WalkOf(allowed, g, v) = WalkOf(allowed, h, v)
<1>1. CASE v.kind \in {"scalar", "opaque"}
  BY <1>1 DEF WalkOf
<1>2. CASE IsObject(v, S)
  <2>1. PICK K \in SUBSET Names : \E f \in [K -> S] : v = Strip!Object(f)
    BY <1>2 DEF IsObject
  <2>2. PICK f \in [K -> S] : v = Strip!Object(f)
    BY <2>1
  <2>3. [k \in Strip!ToSet(allowed) \cap DOMAIN f |-> g[f[k]]] =
        [k \in Strip!ToSet(allowed) \cap DOMAIN f |-> h[f[k]]]
    OBVIOUS
  <2>4. WalkOf(allowed, g, v) = Strip!Object([k \in Strip!ToSet(allowed) \cap DOMAIN f |-> g[f[k]]])
    BY <2>2 DEF WalkOf, Strip!Object
  <2>5. WalkOf(allowed, h, v) = Strip!Object([k \in Strip!ToSet(allowed) \cap DOMAIN f |-> h[f[k]]])
    BY <2>2 DEF WalkOf, Strip!Object
  <2> QED
    BY <2>3, <2>4, <2>5
<1>3. CASE IsArray(v, S)
  <2>1. PICK m \in 0..MaxItems : \E a \in [1..m -> S] : v = Strip!Array(a)
    BY <1>3 DEF IsArray
  <2>2. PICK a \in [1..m -> S] : v = Strip!Array(a)
    BY <2>1
  <2>3. [i \in DOMAIN a |-> g[a[i]]] = [i \in DOMAIN a |-> h[a[i]]]
    OBVIOUS
  <2>4. WalkOf(allowed, g, v) = Strip!Array([i \in DOMAIN a |-> g[a[i]]])
    BY <2>2 DEF WalkOf, Strip!Array
  <2>5. WalkOf(allowed, h, v) = Strip!Array([i \in DOMAIN a |-> h[a[i]]])
    BY <2>2 DEF WalkOf, Strip!Array
  <2> QED
    BY <2>3, <2>4, <2>5
<1> QED
  BY <1>1, <1>2, <1>3 DEF Shaped

LEMMA WalkDefined ==
    ASSUME NEW allowed
    PROVE  /\ \A v \in Strip!Bodies : Walk(allowed)[v] = WalkOf(allowed, Walk(allowed), v)
           /\ \A v : Strip!ApplyAllowList(v, allowed) = Walk(allowed)[v]
<1> DEFINE T == {n \in Nat : \E g : g = [v \in Json[n] |-> WalkOf(allowed, g, v)]}
<1>1. 1 \in T
  <2> DEFINE g == [v \in Json[1] |-> v]
  <2>1. \A v \in Json[1] : WalkOf(allowed, g, v) = v
    BY Levels DEF WalkOf
  <2>2. g = [v \in Json[1] |-> WalkOf(allowed, g, v)]
    BY <2>1
  <2> HIDE DEF g
  <2> QED
    BY <2>2
<1>2. ASSUME NEW n \in 1..(Len(Json) - 1), n \in T PROVE n + 1 \in T
  <2>1. PICK g : g = [v \in Json[n] |-> WalkOf(allowed, g, v)]
    BY <1>2
  <2>6. PICK h : h = [v \in Json[n + 1] |-> WalkOf(allowed, g, v)]
    OBVIOUS
  <2>2. \A w \in Json[n] : g[w] = h[w]
    BY <2>1, <2>6, Levels
  <2>3. ASSUME NEW v \in Json[n + 1] PROVE WalkOf(allowed, g, v) = WalkOf(allowed, h, v)
    <3>1. Shaped(v, Json[n])
      BY Levels
    <3> QED
      BY <2>2, <3>1, WalkLocal
  <2>4. h = [v \in Json[n + 1] |-> WalkOf(allowed, h, v)]
    BY <2>3, <2>6
  <2>5. n + 1 \in Nat
    BY StripAssumed
  <2> QED
    BY <2>4, <2>5
<1> HIDE DEF T
<1>3. \A n \in 1..Len(Json) : n \in T
  BY <1>1, <1>2, StripAssumed, LevelInduction
<1>4. \E g : g = [v \in Strip!Bodies |-> WalkOf(allowed, g, v)]
  BY <1>3, StripAssumed DEF T, Strip!Bodies
<1>5. Walk(allowed) = [v \in Strip!Bodies |-> WalkOf(allowed, Walk(allowed), v)]
  BY <1>4 DEF Walk
<1>6. ASSUME NEW v PROVE Strip!ApplyAllowList(v, allowed) = Walk(allowed)[v]
  BY DEF Strip!ApplyAllowList, Walk, WalkOf
<1> QED
  BY <1>5, <1>6

(* The steps that lead into a value, and facts reached by them.            *)
Steps == [keys : SUBSET Names, at : Nat]
Reached(facts) == \A f \in facts : f[1] \in Seq(Steps) /\ f = <<f[1], f[2]>>
Within(facts, G) == {f \in facts : Strip!Keys(f) \subseteq G}

(* A step in front of a path adds its key.                                 *)
LEMMA KeysBelow ==
    ASSUME NEW s \in Steps, NEW p \in Seq(Steps), NEW x
    PROVE  /\ <<s>> \o p \in Seq(Steps)
           /\ Strip!Keys(<< <<s>> \o p, x>>) = s.keys \cup Strip!Keys(<<p, x>>)
<1> DEFINE q == <<s>> \o p
<1>1. /\ q \in Seq(Steps) /\ Len(q) = Len(p) + 1 /\ q[1] = s
      /\ \A i \in 1..Len(p) : q[i + 1] = p[i]
  OBVIOUS
<1>2. DOMAIN q = 1..(Len(p) + 1) /\ DOMAIN p = 1..Len(p) /\ Len(p) \in Nat
  BY <1>1
<1> HIDE DEF q
<1>3. ASSUME NEW y \in Strip!ToSet(q) PROVE y \in {s} \cup Strip!ToSet(p)
  <2>1. PICK i \in 1..(Len(p) + 1) : y = q[i]
    BY <1>2 DEF Strip!ToSet
  <2>2. CASE i = 1
    BY <1>1, <2>1, <2>2
  <2>3. CASE i # 1
    <3>1. i - 1 \in 1..Len(p) /\ q[(i - 1) + 1] = p[i - 1] /\ (i - 1) + 1 = i
      BY <1>1, <1>2, <2>3
    <3> QED
      BY <1>2, <2>1, <3>1 DEF Strip!ToSet
  <2> QED
    BY <2>2, <2>3
<1>4. ASSUME NEW y \in {s} \cup Strip!ToSet(p) PROVE y \in Strip!ToSet(q)
  <2>1. CASE y = s
    <3>1. 1 \in DOMAIN q
      BY <1>2
    <3> QED
      BY <1>1, <2>1, <3>1 DEF Strip!ToSet
  <2>2. CASE y # s
    <3>1. PICK i \in 1..Len(p) : y = p[i]
      BY <1>2, <2>2 DEF Strip!ToSet
    <3>2. i + 1 \in DOMAIN q /\ q[i + 1] = y
      BY <1>1, <1>2, <3>1
    <3> QED
      BY <3>2 DEF Strip!ToSet
  <2> QED
    BY <2>1, <2>2
<1>5. Strip!ToSet(q) = {s} \cup Strip!ToSet(p)
  BY <1>3, <1>4
<1>6. Strip!Keys(<<q, x>>) = UNION {t.keys : t \in Strip!ToSet(q)}
  BY DEF Strip!Keys
<1>7. Strip!Keys(<<p, x>>) = UNION {t.keys : t \in Strip!ToSet(p)}
  BY DEF Strip!Keys
<1> QED
  BY <1>1, <1>5, <1>6, <1>7 DEF q

(* What is reached through a step, and which of it lies within the allowed *)
(* keys.                                                                   *)
LEMMA BelowWithin ==
    ASSUME NEW s \in Steps, NEW F, Reached(F), NEW G
    PROVE  /\ Reached(Strip!Below(s, F))
           /\ s.keys \subseteq G => Within(Strip!Below(s, F), G) = Strip!Below(s, Within(F, G))
           /\ ~ (s.keys \subseteq G) => Within(Strip!Below(s, F), G) = {}
<1>1. ASSUME NEW f \in F
      PROVE  /\ f[1] \in Seq(Steps) /\ <<s>> \o f[1] \in Seq(Steps)
             /\ Strip!Keys(<< <<s>> \o f[1], f[2]>>) = s.keys \cup Strip!Keys(f)
  <2>1. f[1] \in Seq(Steps) /\ f = <<f[1], f[2]>>
    BY DEF Reached
  <2> QED
    BY <2>1, KeysBelow
<1>2. \A y : y \in Strip!Below(s, F) <=> \E f \in F : y = << <<s>> \o f[1], f[2]>>
  BY DEF Strip!Below
<1>3. \A y : y \in Strip!Below(s, Within(F, G)) <=>
             \E f \in F : Strip!Keys(f) \subseteq G /\ y = << <<s>> \o f[1], f[2]>>
  BY DEF Strip!Below, Within
<1>4. Reached(Strip!Below(s, F))
  <2> SUFFICES ASSUME NEW y \in Strip!Below(s, F)
               PROVE  y[1] \in Seq(Steps) /\ y = <<y[1], y[2]>>
    BY DEF Reached
  <2>1. PICK f \in F : y = << <<s>> \o f[1], f[2]>>
    BY <1>2
  <2>2. y[1] = <<s>> \o f[1] /\ y[2] = f[2]
    BY <2>1
  <2> QED
    BY <1>1, <2>1, <2>2
<1>5. ASSUME NEW y PROVE y \in Within(Strip!Below(s, F), G) <=>
             s.keys \subseteq G /\ \E f \in F : Strip!Keys(f) \subseteq G /\ y = << <<s>> \o f[1], f[2]>>
  <2>1. y \in Within(Strip!Below(s, F), G) <=> y \in Strip!Below(s, F) /\ Strip!Keys(y) \subseteq G
    BY DEF Within
  <2>2. ASSUME NEW f \in F, y = << <<s>> \o f[1], f[2]>>
        PROVE  Strip!Keys(y) \subseteq G <=> s.keys \subseteq G /\ Strip!Keys(f) \subseteq G
    <3>1. Strip!Keys(y) = s.keys \cup Strip!Keys(f)
      BY <1>1, <2>2
    <3> QED
      BY <3>1
  <2> QED
    BY <1>2, <2>1, <2>2
<1> QED
  BY <1>3, <1>4, <1>5

(* applyAllowList keeps, of a body at any depth, what lies within the      *)
(* allowed keys and only that, in a body of the same level and kind.       *)
LEMMA WalkGrants ==
    ASSUME NEW allowed, NEW v \in Strip!Bodies
    PROVE  /\ Walk(allowed)[v] \in Strip!Bodies
           /\ Reached(Strip!Facts[v])
           /\ Strip!Facts[Walk(allowed)[v]] = Within(Strip!Facts[v], Strip!ToSet(allowed))
<1> DEFINE W == Walk(allowed)
           G == Strip!ToSet(allowed)
           Kept(w, S) == /\ W[w] \in S /\ Reached(Strip!Facts[w])
                         /\ Strip!Facts[W[w]] = Within(Strip!Facts[w], G)
           T == {n \in Nat : n \in 1..Len(Json) => \A w \in Json[n] : Kept(w, Json[n])}
<1>1. ASSUME NEW S \in SUBSET Strip!Bodies, NEW w \in S, w.kind \in {"scalar", "opaque"}
      PROVE  Kept(w, S)
  <2>1. W[w] = w
    BY <1>1, WalkDefined, WalkByKind DEF WalkOf
  <2>2. Strip!Facts[w] = {<< << >>, w>>}
    BY <1>1, FactsDefined DEF FactsOf
  <2>3. Strip!Keys(<< << >>, w>>) = {}
    BY DEF Strip!Keys, Strip!ToSet
  <2>4. << >> \in Seq(Steps)
    OBVIOUS
  <2> QED
    BY <1>1, <2>1, <2>2, <2>3, <2>4 DEF Within, Reached
<1>2. 1 \in T
  <2>1. Json[1] \in SUBSET Strip!Bodies
    BY LevelsAreBodies, StripAssumed
  <2> QED
    BY <1>1, <2>1, Levels
<1>3. ASSUME NEW n \in 1..(Len(Json) - 1), n \in T PROVE n + 1 \in T
  <2>1. /\ Len(Json) \in Nat /\ n \in 1..Len(Json) /\ n + 1 \in 1..Len(Json)
        /\ Json[n] \in SUBSET Strip!Bodies /\ Json[n + 1] \in SUBSET Strip!Bodies
    BY LevelsAreBodies, StripAssumed
  <2>2. \A w \in Json[n] : Kept(w, Json[n])
    BY <1>3, <2>1
  <2>3. SUFFICES ASSUME NEW w \in Json[n + 1] PROVE Kept(w, Json[n + 1])
    BY <2>1
  <2>4. CASE w.kind \in {"scalar", "opaque"}
    BY <1>1, <2>1, <2>4
  <2>5. CASE IsObject(w, Json[n])
    <3>1. PICK K \in SUBSET Names : \E f \in [K -> Json[n]] : w = Strip!Object(f)
      BY <2>5 DEF IsObject
    <3>2. PICK f \in [K -> Json[n]] : w = Strip!Object(f)
      BY <3>1
    <3> DEFINE g == [k \in G \cap K |-> W[f[k]]]
               B(k, F) == Strip!Below([keys |-> {k}, at |-> 0], F)
    <3>3. g \in [G \cap K -> Json[n]]
      BY <2>2
    <3>4. W[w] = Strip!Object(g)
      <4>1. W[w] = WalkOf(allowed, W, w)
        BY <2>1, WalkDefined
      <4>2. WalkOf(allowed, W, w) = Strip!Object([k \in G \cap DOMAIN f |-> W[f[k]]])
        BY <3>2 DEF WalkOf, Strip!Object
      <4>3. DOMAIN f = K
        OBVIOUS
      <4> QED
        BY <4>1, <4>2, <4>3
    <3>5. Strip!Object(g) \in Json[n + 1]
      BY <3>3, Levels DEF IsObject
    <3>6. Strip!Facts[w] = UNION {B(k, Strip!Facts[f[k]]) : k \in K}
      <4>1. Strip!Facts[w] = FactsOf(Strip!Facts, Strip!Object(f)) /\ DOMAIN f = K
        BY <2>1, <3>2, FactsDefined
      <4> QED
        BY <4>1, FactsByKind
    <3>7. Strip!Facts[W[w]] = UNION {B(k, Strip!Facts[g[k]]) : k \in G \cap K}
      <4>1. Strip!Facts[W[w]] = FactsOf(Strip!Facts, Strip!Object(g)) /\ DOMAIN g = G \cap K
        BY <2>1, <3>3, <3>4, <3>5, FactsDefined
      <4> HIDE DEF g
      <4> QED
        BY <4>1, FactsByKind
    <3>8. ASSUME NEW k \in K
          PROVE  /\ Reached(B(k, Strip!Facts[f[k]]))
                 /\ k \in G => Within(B(k, Strip!Facts[f[k]]), G) = B(k, Strip!Facts[g[k]])
                 /\ k \notin G => Within(B(k, Strip!Facts[f[k]]), G) = {}
      <4>1. Kept(f[k], Json[n])
        BY <2>2
      <4>2. PICK s \in Steps : s = [keys |-> {k}, at |-> 0]
        BY DEF Steps
      <4>3. k \in G => g[k] = W[f[k]]
        OBVIOUS
      <4>4. /\ Reached(Strip!Below(s, Strip!Facts[f[k]]))
            /\ s.keys \subseteq G => Within(Strip!Below(s, Strip!Facts[f[k]]), G)
                                     = Strip!Below(s, Within(Strip!Facts[f[k]], G))
            /\ ~ (s.keys \subseteq G) => Within(Strip!Below(s, Strip!Facts[f[k]]), G) = {}
        BY <4>1, BelowWithin
      <4>5. s.keys \subseteq G <=> k \in G
        BY <4>2
      <4> QED
        BY <4>1, <4>2, <4>3, <4>4, <4>5
    <3> HIDE DEF B, g
    <3>9. Reached(Strip!Facts[w])
      BY <3>6, <3>8 DEF Reached
    <3>10. Strip!Facts[W[w]] = Within(Strip!Facts[w], G)
      BY <3>6, <3>7, <3>8 DEF Within
    <3> QED
      BY <3>4, <3>5, <3>9, <3>10
  <2>6. CASE IsArray(w, Json[n])
    <3>1. PICK m \in 0..MaxItems : \E a \in [1..m -> Json[n]] : w = Strip!Array(a)
      BY <2>6 DEF IsArray
    <3>2. PICK a \in [1..m -> Json[n]] : w = Strip!Array(a)
      BY <3>1
    <3> DEFINE b == [i \in 1..m |-> W[a[i]]]
               B(i, F) == Strip!Below([keys |-> {}, at |-> i], F)
    <3>3. b \in [1..m -> Json[n]]
      BY <2>2
    <3>4. W[w] = Strip!Array(b)
      <4>1. W[w] = WalkOf(allowed, W, w)
        BY <2>1, WalkDefined
      <4>2. WalkOf(allowed, W, w) = Strip!Array([i \in DOMAIN a |-> W[a[i]]])
        BY <3>2 DEF WalkOf, Strip!Array
      <4>3. DOMAIN a = 1..m
        OBVIOUS
      <4> QED
        BY <4>1, <4>2, <4>3
    <3>5. Strip!Array(b) \in Json[n + 1]
      BY <3>3, Levels DEF IsArray
    <3>6. Strip!Facts[w] = UNION {B(i, Strip!Facts[a[i]]) : i \in 1..m}
      <4>1. Strip!Facts[w] = FactsOf(Strip!Facts, Strip!Array(a)) /\ DOMAIN a = 1..m
        BY <2>1, <3>2, FactsDefined
      <4> QED
        BY <4>1, FactsByKind
    <3>7. Strip!Facts[W[w]] = UNION {B(i, Strip!Facts[b[i]]) : i \in 1..m}
      <4>1. Strip!Facts[W[w]] = FactsOf(Strip!Facts, Strip!Array(b)) /\ DOMAIN b = 1..m
        BY <2>1, <3>3, <3>4, <3>5, FactsDefined
      <4> HIDE DEF b
      <4> QED
        BY <4>1, FactsByKind
    <3>8. ASSUME NEW i \in 1..m
          PROVE  /\ Reached(B(i, Strip!Facts[a[i]]))
                 /\ Within(B(i, Strip!Facts[a[i]]), G) = B(i, Strip!Facts[b[i]])
      <4>1. Kept(a[i], Json[n])
        BY <2>2
      <4>2. [keys |-> {}, at |-> i] \in Steps
        BY DEF Steps
      <4>3. b[i] = W[a[i]]
        OBVIOUS
      <4> QED
        BY <4>1, <4>2, <4>3, BelowWithin
    <3> HIDE DEF B, b
    <3>9. Reached(Strip!Facts[w])
      BY <3>6, <3>8 DEF Reached
    <3>10. Strip!Facts[W[w]] = Within(Strip!Facts[w], G)
      BY <3>6, <3>7, <3>8, SMTT(30) DEF Within
    <3> QED
      BY <3>4, <3>5, <3>9, <3>10
  <2>7. Shaped(w, Json[n])
    BY Levels
  <2> HIDE DEF Kept
  <2> QED
    BY <2>4, <2>5, <2>6, <2>7 DEF Shaped
<1> HIDE DEF T
<1>4. \A n \in 1..Len(Json) : n \in T
  BY <1>2, <1>3, StripAssumed, LevelInduction
<1>5. Len(Json) \in T /\ Len(Json) \in 1..Len(Json)
  BY <1>4, StripAssumed
<1> QED
  BY <1>5, LevelsAreBodies DEF T

(* The empty object is a body and has no facts.                            *)
LEMMA EmptyBody ==
    /\ Strip!EmptyObject \in Strip!Bodies
    /\ Strip!Facts[Strip!EmptyObject] = {}
<1>1. DOMAIN << >> = {}
  OBVIOUS
<1>2. << >> \in [{} -> Json[1]]
  BY <1>1
<1>3. IsObject(Strip!EmptyObject, Json[1])
  BY <1>2 DEF IsObject, Strip!EmptyObject
<1>4. Strip!EmptyObject \in Json[2] /\ 2 \in 1..Len(Json)
  BY <1>3, Levels, StripAssumed
<1>5. Strip!EmptyObject \in Strip!Bodies
  BY <1>4, LevelsAreBodies
<1>6. Strip!Facts[Strip!EmptyObject] = FactsOf(Strip!Facts, Strip!Object(<< >>))
  BY <1>5, FactsDefined DEF Strip!EmptyObject
<1>7. Strip!Facts[Strip!EmptyObject] =
        UNION {Strip!Below([keys |-> {k}, at |-> 0], Strip!Facts[<< >>[k]]) : k \in DOMAIN << >>}
  BY <1>6, FactsByKind
<1> QED
  BY <1>1, <1>5, <1>7

(* The least index that passes a test is what the policy lookup selects.   *)
First(I) == CHOOSE i \in I : \A j \in I : i <= j
LEMMA FirstIsLeast ==
    ASSUME NEW I \in SUBSET Nat, I # {}
    PROVE  First(I) \in I /\ Strip!Min(I) = First(I)
<1>1. \E i \in I : \A j \in I : i <= j
  BY LeastNatural
<1> QED
  BY <1>1 DEF First, Strip!Min

Matching(path) == {i \in 1..Len(fieldPolicy) : path \in fieldPolicy[i].paths}
Mapped(path, roles) ==
    {n \in 1..Len(roles) : roles[n] \in DOMAIN fieldPolicy[First(Matching(path))].roles}

(* findAllowedFields: the list of the first mapped role in the first       *)
(* matching pattern, or nothing.                                           *)
LEMMA FoundFields ==
    ASSUME NEW path, NEW roles, Len(fieldPolicy) \in Nat, Len(roles) \in Nat
    PROVE  Strip!FindAllowedFields(path, roles) =
             IF Matching(path) = {} \/ Mapped(path, roles) = {} THEN << >>
             ELSE << fieldPolicy[First(Matching(path))].roles[roles[First(Mapped(path, roles))]] >>
<1> DEFINE entry == Strip!SelectInSeq(fieldPolicy, LAMBDA e : path \in e.paths)
           map == fieldPolicy[entry].roles
           role == Strip!SelectInSeq(roles, LAMBDA r : r \in DOMAIN map)
<1>1. Matching(path) \in SUBSET Nat /\ 0 \notin Matching(path)
  BY DEF Matching
<1>2. Mapped(path, roles) \in SUBSET Nat /\ 0 \notin Mapped(path, roles)
  BY DEF Mapped
<1>3. entry = IF Matching(path) # {} THEN Strip!Min(Matching(path)) ELSE 0
  BY DEF Strip!SelectInSeq, Matching
<1>4. role = IF {i \in 1..Len(roles) : roles[i] \in DOMAIN map} # {}
             THEN Strip!Min({i \in 1..Len(roles) : roles[i] \in DOMAIN map}) ELSE 0
  BY DEF Strip!SelectInSeq
<1>5. Strip!FindAllowedFields(path, roles) =
        IF entry = 0 \/ role = 0 THEN << >> ELSE << map[roles[role]] >>
  BY DEF Strip!FindAllowedFields
<1> HIDE DEF entry, role
<1>6. CASE Matching(path) = {}
  BY <1>3, <1>5, <1>6
<1>7. CASE Matching(path) # {}
  <2>1. entry = First(Matching(path)) /\ entry # 0
    BY <1>1, <1>3, <1>7, FirstIsLeast
  <2>2. Mapped(path, roles) = {i \in 1..Len(roles) : roles[i] \in DOMAIN map}
    BY <2>1 DEF Mapped
  <2>3. CASE Mapped(path, roles) = {}
    BY <1>4, <1>5, <2>2, <2>3
  <2>4. CASE Mapped(path, roles) # {}
    <3>1. role = First(Mapped(path, roles)) /\ role # 0
      BY <1>2, <1>4, <2>2, <2>4, FirstIsLeast
    <3> QED
      BY <1>5, <1>7, <2>1, <2>4, <3>1
  <2> QED
    BY <2>3, <2>4
<1> QED
  BY <1>6, <1>7

(* The reference definition grants the same.                               *)
LEMMA GrantedFields ==
    ASSUME DOMAIN fieldPolicy = 1..Len(fieldPolicy), DOMAIN request.roles = 1..Len(request.roles)
    PROVE  Strip!Granted =
             IF Matching(request.path) = {} \/ Mapped(request.path, request.roles) = {} THEN {}
             ELSE {fieldPolicy[First(Matching(request.path))].roles
                     [request.roles[First(Mapped(request.path, request.roles))]]}
  BY DEF Strip!Granted, Matching, Mapped, First

(* The stage: what it answered is what the policy in force strips.         *)
StripInv ==
    /\ fieldPolicy \in FieldPolicies \cup {<< >>} /\ booted \in BOOLEAN
    /\ ~booted => request = Strip!NoRequest
    /\ stripped \in Strip!Bodies
    /\ \/ request = Strip!NoRequest
       \/ /\ request \in [path : ServedPaths, roles : Callers, body : Strip!Bodies]
          /\ stripped = Strip!Strip(request.body, request.path, request.roles)
          /\ removed = Strip!DiffTopLevelKeys(request.body, stripped)

LEMMA StripInit == Strip!Init => StripInv
  BY EmptyBody DEF Strip!Init, StripInv

(* Stripping a body gives a body.                                          *)
LEMMA StrippedBody ==
    ASSUME NEW v \in Strip!Bodies, NEW path, NEW roles
    PROVE  Strip!Strip(v, path, roles) \in Strip!Bodies
<1>1. \A allowed : Strip!ApplyAllowList(v, allowed) \in Strip!Bodies
  BY WalkGrants, WalkDefined
<1> QED
  BY <1>1, EmptyBody DEF Strip!Strip

LEMMA StripNext == StripInv /\ [Strip!Next]_stripVars => StripInv'
<1> SUFFICES ASSUME StripInv, [Strip!Next]_stripVars PROVE StripInv'
  OBVIOUS
<1>1. ASSUME NEW policy \in FieldPolicies, Strip!OnModuleInit(policy) PROVE StripInv'
  BY <1>1 DEF StripInv, Strip!OnModuleInit
<1>2. ASSUME NEW body \in Strip!Bodies, NEW path \in ServedPaths, NEW roles \in Callers,
             Strip!RunStage(body, path, roles)
      PROVE  StripInv'
  <2>1. /\ booted /\ booted' = booted /\ fieldPolicy' = fieldPolicy
        /\ request' = [path |-> path, roles |-> roles, body |-> body]
        /\ stripped' = Strip!Strip(body, path, roles)
        /\ removed' = Strip!DiffTopLevelKeys(body, stripped')
    BY <1>2 DEF Strip!RunStage
  <2>2. stripped' \in Strip!Bodies
    BY <2>1, StrippedBody
  <2>3. /\ request' \in [path : ServedPaths, roles : Callers, body : Strip!Bodies]
        /\ request'.body = body /\ request'.path = path /\ request'.roles = roles
    BY <2>1
  <2>4. Strip!Strip(body, path, roles)' = Strip!Strip(body, path, roles)
    BY <2>1 DEF Strip!Strip, Strip!FindAllowedFields, Strip!SelectInSeq
  <2>5. stripped' = Strip!Strip(request.body, request.path, request.roles)'
    BY <2>1, <2>3, <2>4, ZenonT(60) DEF Strip!Strip, Strip!FindAllowedFields, Strip!SelectInSeq
  <2>6. removed' = Strip!DiffTopLevelKeys(request.body, stripped)'
    BY <2>1, <2>3 DEF Strip!DiffTopLevelKeys
  <2> QED
    BY <2>1, <2>2, <2>3, <2>5, <2>6 DEF StripInv
<1>3. CASE UNCHANGED stripVars
  BY <1>3, ZenonT(60) DEF StripInv, stripVars, Strip!Strip, Strip!FindAllowedFields, Strip!SelectInSeq,
              Strip!DiffTopLevelKeys
<1> QED
  BY <1>1, <1>2, <1>3 DEF Strip!Next

(* What the stage answers is what the policy grants.                       *)
LEMMA StrippedIsGranted == StripInv => Strip!ServedIsGranted /\ Strip!TypeOK
<1> SUFFICES ASSUME StripInv PROVE Strip!ServedIsGranted /\ Strip!TypeOK
  OBVIOUS
<1>1. Strip!TypeOK
  BY DEF StripInv, Strip!TypeOK
<1>2. SUFFICES ASSUME request # Strip!NoRequest PROVE Strip!ServedIsGranted
  BY <1>1 DEF Strip!ServedIsGranted
<1> DEFINE body == request.body
           roles == request.roles
           found == Strip!FindAllowedFields(request.path, roles)
           sees == Strip!ToSet(roles)
<1>3. /\ body \in Strip!Bodies /\ roles \in Callers
      /\ stripped = Strip!Strip(body, request.path, roles)
      /\ removed = Strip!DiffTopLevelKeys(body, stripped)
  BY <1>2 DEF StripInv
<1>4. /\ Len(fieldPolicy) \in Nat /\ DOMAIN fieldPolicy = 1..Len(fieldPolicy)
      /\ Len(roles) \in Nat /\ DOMAIN roles = 1..Len(roles)
  BY <1>3, StripAssumed DEF StripInv
<1>5. \/ found = << >> /\ Strip!Granted = {}
      \/ \E g : found = <<g>> /\ Strip!Granted = {g}
  BY <1>4, FoundFields, GrantedFields
<1> HIDE DEF found
<1>6. stripped = IF "admin" \in sees THEN body
                 ELSE IF found = << >> THEN Strip!EmptyObject
                 ELSE IF found[1] # << >> /\ found[1][1] = "*" THEN body
                 ELSE Strip!ApplyAllowList(body, found[1])
  BY <1>3 DEF Strip!Strip, found
<1> DEFINE all == Strip!Facts[body]
           Served == /\ Strip!Facts[stripped] =
                          IF "admin" \in sees \/ \E g \in Strip!Granted : g # << >> /\ g[1] = "*"
                          THEN all
                          ELSE {f \in all : \E g \in Strip!Granted : Strip!Keys(f) \subseteq Strip!ToSet(g)}
                     /\ body.kind = "object" => stripped.kind = "object" /\ DOMAIN stripped.fields \subseteq DOMAIN body.fields
<1>7. ASSUME "admin" \in sees PROVE Served
  BY <1>6, <1>7
<1>8. ASSUME "admin" \notin sees, found = << >> PROVE Served
  <2>1. Strip!Granted = {} /\ stripped = Strip!EmptyObject
    BY <1>5, <1>6, <1>8
  <2>2. Strip!EmptyObject.kind = "object" /\ DOMAIN Strip!EmptyObject.fields = {}
    BY DEF Strip!EmptyObject, Strip!Object
  <2> QED
    BY <1>8, <2>1, <2>2, EmptyBody
<1>9. ASSUME "admin" \notin sees, found # << >> PROVE Served
  <2>1. PICK g : found = <<g>> /\ Strip!Granted = {g}
    BY <1>5, <1>9
  <2>2. found[1] = g
    BY <2>1
  <2>3. CASE g # << >> /\ g[1] = "*"
    BY <1>6, <1>9, <2>1, <2>2, <2>3
  <2>4. CASE ~ (g # << >> /\ g[1] = "*")
    <3>1. stripped = Walk(g)[body]
      BY <1>6, <1>9, <2>2, <2>4, WalkDefined
    <3>2. Strip!Facts[stripped] = {f \in all : Strip!Keys(f) \subseteq Strip!ToSet(g)}
      BY <1>3, <3>1, WalkGrants DEF Within
    <3>3. stripped = WalkOf(g, Walk(g), body)
      BY <1>3, <3>1, WalkDefined
    <3>4. body.kind = "object" => stripped.kind = "object" /\ DOMAIN stripped.fields \subseteq DOMAIN body.fields
      BY <3>3 DEF WalkOf, Strip!Object
    <3> QED
      BY <1>9, <2>1, <2>4, <3>2, <3>4
  <2> QED
    BY <2>3, <2>4
<1>10. Served
  BY <1>7, <1>8, <1>9
<1>11. body.kind = "object" => DOMAIN body.fields = removed \cup DOMAIN stripped.fields
  BY <1>3, <1>10 DEF Strip!DiffTopLevelKeys
<1> QED
  BY <1>1, <1>10, <1>11 DEF Strip!ServedIsGranted

-----------------------------------------------------------------------------
(* The theorems: a step of one component leaves the others alone *)

UpstreamInv == RoutingInv /\ ProxyInv /\ CertInv /\ StripInv

(* The invariant of the components holds in every state they can reach.    *)
THEOREM InvHolds == Spec => []UpstreamInv
<1>1. Init => UpstreamInv
  BY RoutingInit, ProxyInit, CertInit, StripInit DEF Init, UpstreamInv
<1>2. UpstreamInv /\ [Next]_vars => UpstreamInv'
  <2> SUFFICES ASSUME UpstreamInv, [Next]_vars PROVE UpstreamInv'
    OBVIOUS
  <2>1. /\ [Routing!RoutingNext]_routingVars /\ [Proxy!Next]_proxyVars /\ [Cert!Next]_certVars
        /\ [Strip!Next]_stripVars
    BY DEF Next, RoutingOnly, ProxyOnly, CertOnly, StripOnly, vars
  <2> QED
    BY <2>1, RoutingNext, ProxyNext, CertNext, StripNext DEF UpstreamInv
<1> QED
  BY <1>1, <1>2, PTL DEF Spec

(* The components keep their types; a request is sent at most MaxRetries   *)
(* + 1 times.                                                              *)
THEOREM TypeCorrect == Spec => []TypeOK
<1>1. UpstreamInv => TypeOK
  BY RoutedWhenFired, CertParts, StrippedIsGranted DEF UpstreamInv, ProxyInv, TypeOK
<1> QED
  BY <1>1, InvHolds, PTL

(* main.ts, config.module.ts: the port opens only on a migrated database,  *)
(* with a breaker for every registered service and a ladder of thresholds  *)
(* that tightens, for every environment the schema accepts.                *)
THEOREM ReadyTheorem == Spec => []ListeningMeansReady
<1>1. UpstreamInv => ListeningMeansReady
  BY ReadyWhenListening DEF UpstreamInv
<1> QED
  BY <1>1, InvHolds, PTL

(* proxy.service.ts, dns-rebinding.guard.ts: forward() fires the breaker   *)
(* of the service its path begins with after a lookup of its own gave an   *)
(* allowed address, for the registered host unless the path has an empty   *)
(* segment and names another; a listening gateway misses no breaker.       *)
THEOREM RoutedTheorem == Spec => []RoutedAsRegistered
<1>1. UpstreamInv => RoutedAsRegistered
  BY RoutedWhenFired DEF UpstreamInv
<1> QED
  BY <1>1, InvHolds, PTL

(* proxy.service.ts: a request costs the breaker at most one failure,      *)
(* however many attempts its loop makes and whoever ends first.            *)
THEOREM FailureTheorem == Spec => []OneFailurePerFire
<1>1. UpstreamInv => OneFailurePerFire
  BY ProxyCounts DEF UpstreamInv
<1> QED
  BY <1>1, InvHolds, PTL

(* mtls.service.ts: getHttpsAgent returns an agent with a version of every *)
(* file, and whoever awaits reloadPromise awaits a load that still runs.   *)
THEOREM AgentTheorem == Spec => []AgentsDelivered
<1>1. UpstreamInv => AgentsDelivered
  BY CertParts DEF UpstreamInv
<1> QED
  BY <1>1, InvHolds, PTL

(* bopla.interceptor.ts: the client gets exactly the parts of the upstream *)
(* body that the first matching pattern grants its first mapped role, at   *)
(* every depth, and every top-level key it does not get is reported.       *)
THEOREM GrantTheorem == Spec => []ServedIsGranted
<1>1. UpstreamInv => ServedIsGranted
  BY StrippedIsGranted DEF UpstreamInv, ServedIsGranted
<1> QED
  BY <1>1, InvHolds, PTL

=============================================================================

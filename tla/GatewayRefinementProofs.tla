---------------------- MODULE GatewayRefinementProofs ----------------------
(* Machine-checked proofs that the pipeline implements AuditedGateway, and  *)
(* that its counters tell the truth about lost audit rows, for any number   *)
(* of requests, any thresholds, any retry limit and any number of crashes.  *)
EXTENDS GatewayMetrics, GatewayPipelineProofs, TLAPS

-----------------------------------------------------------------------------
(* The refinement mapping *)

Recorded == {r \in Requests : rows[r]["allow"] > 0}
Accepted == {r \in Requests : ctx[r].upstream = "2xx"}
Outcome == [r \in Requests |-> OutcomeOf(response[r])]
Alarmed == {r \in Requests : "audit.signal" \in signals[r]}

(* A step that changes nothing AuditedGateway speaks of, but perhaps the   *)
(* answers.                                                                *)
Unseen ==
    /\ UNCHANGED <<rows, forwarded, loops, trustRows>>
    /\ \A q \in Requests : /\ ctx'[q].upstream = ctx[q].upstream
                           /\ "audit.signal" \in signals'[q] <=> "audit.signal" \in signals[q]

(* It moves none of the mapped sets.                                       *)
LEMMA UnseenSets ==
    ASSUME Unseen
    PROVE  /\ Recorded' = Recorded /\ Accepted' = Accepted /\ Alarmed' = Alarmed
           /\ forwarded' = forwarded /\ loops' = loops /\ trustRows' = trustRows
  BY DEF Unseen, Recorded, Accepted, Alarmed

(* One answer changes one outcome, and it was open before.                 *)
LEMMA OutcomeStep ==
    ASSUME Inv, NEW r \in Requests, NEW what \in Responses, Respond(r, what),
           stage[r] # "answered"
    PROVE  Outcome' = [Outcome EXCEPT ![r] = OutcomeOf(what)] /\ Outcome[r] = "open"
<1>1. TypeOK /\ response[r] = "none"
  BY DEF Inv, RequestInv, AnswerInv
<1>2. response' = [response EXCEPT ![r] = what] /\ response \in [Requests -> Responses]
  BY <1>1 DEF Respond, TypeOK
<1> QED
  BY <1>1, <1>2 DEF Outcome, OutcomeOf

(* An unanswered request is open.                                          *)
LEMMA OpenOutcome ==
    ASSUME Inv, NEW r \in Requests, stage[r] # "answered"
    PROVE  Outcome[r] = "open"
  BY DEF Inv, RequestInv, AnswerInv, Outcome, OutcomeOf

(* An unseen step with no answer stutters ...                              *)
LEMMA Stutters ==
    ASSUME Unseen, UNCHANGED response PROVE UNCHANGED Audited!avars
  BY UnseenSets DEF Audited!avars, Recorded, Accepted, Alarmed

(* ... one that hands the request to its own handler leaves it there ...   *)
LEMMA Leaves ==
    ASSUME Inv, Unseen, NEW r \in Requests, Respond(r, "bypass"), r \notin forwarded,
           r \notin loops, stage[r] # "answered"
    PROVE  Audited!Next
<1>1. OutcomeOf("bypass") = "local" /\ "bypass" \in Responses
  BY DEF OutcomeOf, Responses
<1>2. Outcome' = [Outcome EXCEPT ![r] = "local"] /\ Outcome[r] = "open"
  BY <1>1, OutcomeStep
<1>3. Audited!LeaveToHandler(r)
  BY <1>2, UnseenSets DEF Audited!LeaveToHandler, Audited!Open, Audited!Answer, Outcome,
     Recorded, Accepted, Alarmed
<1> QED
  BY <1>3 DEF Audited!Next

(* ... and one that refuses it refuses it.                                 *)
LEMMA Refuses ==
    ASSUME Inv, Unseen, NEW r \in Requests, NEW what \in Refusals \ {"audit_unavailable"},
           Respond(r, what), stage[r] # "answered"
    PROVE  Audited!Next
<1>1. OutcomeOf(what) = "refused" /\ what \in Responses
  BY DEF OutcomeOf, Responses, Refusals
<1>2. Outcome' = [Outcome EXCEPT ![r] = "refused"] /\ Outcome[r] = "open"
  BY <1>1, OutcomeStep
<1>3. Audited!Refuse(r)
  BY <1>2, UnseenSets DEF Audited!Refuse, Audited!Open, Audited!Answer, Outcome,
     Recorded, Accepted, Alarmed
<1> QED
  BY <1>3 DEF Audited!Next

(* A context whose upstream field stands, and signals other than the audit *)
(* one, are unseen.                                                        *)
LEMMA UnseenStep ==
    ASSUME Inv, UNCHANGED <<rows, forwarded, loops, trustRows>>,
           NEW r \in Requests,
           \/ UNCHANGED ctx
           \/ \E v : ctx' = [ctx EXCEPT ![r].score = v]
           \/ \E v : ctx' = [ctx EXCEPT ![r].promoted = v]
           \/ \E v, w : ctx' = [ctx EXCEPT ![r].decision = v, ![r].casbin = w],
           UNCHANGED signals \/ \E s \in SignalNames \ {"audit.signal"} : Emit(r, s)
    PROVE  Unseen
<1>1. TypeOK /\ ctx \in [Requests -> Contexts] /\ signals \in [Requests -> SUBSET SignalNames]
  BY DEF Inv, TypeOK, Contexts, SignalNames
<1>2. ASSUME NEW q \in Requests PROVE ctx'[q].upstream = ctx[q].upstream
  <2>0. ctx[r] \in Contexts
    BY <1>1
  <2>1. ASSUME NEW c, ctx' = [ctx EXCEPT ![r] = c], c.upstream = ctx[r].upstream
        PROVE  ctx'[q].upstream = ctx[q].upstream
    BY <1>1, <2>1
  <2>2. \A v : [ctx[r] EXCEPT !.score = v].upstream = ctx[r].upstream
    BY <2>0 DEF Contexts
  <2>3. \A v : [ctx[r] EXCEPT !.promoted = v].upstream = ctx[r].upstream
    BY <2>0 DEF Contexts
  <2>4. \A v, w : [ctx[r] EXCEPT !.decision = v, !.casbin = w].upstream = ctx[r].upstream
    BY <2>0 DEF Contexts
  <2>5. ASSUME NEW v, NEW w, ctx' = [ctx EXCEPT ![r].decision = v, ![r].casbin = w]
        PROVE  ctx' = [ctx EXCEPT ![r] = [ctx[r] EXCEPT !.decision = v, !.casbin = w]]
    BY <1>1, <2>5
  <2>6. ASSUME NEW v, ctx' = [ctx EXCEPT ![r].score = v]
        PROVE  ctx'[q].upstream = ctx[q].upstream
    BY <2>1, <2>2, <2>6
  <2>7. ASSUME NEW v, ctx' = [ctx EXCEPT ![r].promoted = v]
        PROVE  ctx'[q].upstream = ctx[q].upstream
    BY <2>1, <2>3, <2>7
  <2>8. ASSUME NEW v, NEW w, ctx' = [ctx EXCEPT ![r].decision = v, ![r].casbin = w]
        PROVE  ctx'[q].upstream = ctx[q].upstream
    <3> DEFINE c == [ctx[r] EXCEPT !.decision = v, !.casbin = w]
    <3>1. ctx' = [ctx EXCEPT ![r] = c]
      BY <2>5, <2>8
    <3>2. c.upstream = ctx[r].upstream
      BY <2>4
    <3> HIDE DEF c
    <3> QED
      BY <2>1, <3>1, <3>2
  <2> QED
    BY <2>6, <2>7, <2>8
<1>3. ASSUME NEW q \in Requests
      PROVE  "audit.signal" \in signals'[q] <=> "audit.signal" \in signals[q]
  BY <1>1 DEF Emit
<1> QED
  BY <1>2, <1>3 DEF Unseen

-----------------------------------------------------------------------------
(* What each step of the pipeline is to AuditedGateway *)

(* Stages that decide, and the timer, are internal.                        *)
LEMMA InternalStep ==
    ASSUME Inv, NEW r \in Requests,
           \/ Auth(r) \/ Revocation(r) \/ AuthOnly(r) \/ TrustScore(r) \/ Policy(r)
           \/ MfaPromotion(r) \/ AuditAllow(r) \/ AuditAllowed(r) \/ BoplaStrip(r)
           \/ Arrive(r) \/ TimerFires(r)
    PROVE  UNCHANGED Audited!avars
<1> USE DEF durable, downstream
<1>1. UNCHANGED <<rows, forwarded, loops, trustRows, response>>
  BY DEF Auth, Revocation, AuthOnly, TrustScore, Policy, MfaPromotion, AuditAllow, AuditAllowed,
     BoplaStrip, Arrive, TimerFires
<1>2. \/ UNCHANGED ctx
      \/ \E v : ctx' = [ctx EXCEPT ![r].score = v]
      \/ \E v : ctx' = [ctx EXCEPT ![r].promoted = v]
      \/ \E v, w : ctx' = [ctx EXCEPT ![r].decision = v, ![r].casbin = w]
  <2>1. CASE Auth(r) \/ Revocation(r) \/ AuthOnly(r) \/ AuditAllow(r) \/ AuditAllowed(r)
             \/ BoplaStrip(r) \/ Arrive(r) \/ TimerFires(r)
    BY <2>1 DEF Auth, Revocation, AuthOnly, AuditAllow, AuditAllowed, BoplaStrip, Arrive, TimerFires
  <2>2. CASE TrustScore(r)
    BY <2>2 DEF TrustScore
  <2>3. CASE Policy(r)
    BY <2>3 DEF Policy
  <2>4. CASE MfaPromotion(r)
    BY <2>4 DEF MfaPromotion
  <2> QED
    BY <2>1, <2>2, <2>3, <2>4
<1>3. UNCHANGED signals \/ \E s \in SignalNames \ {"audit.signal"} : Emit(r, s)
  <2>1. CASE Policy(r)
    BY <2>1 DEF Policy, Emit, SignalNames
  <2>2. CASE MfaPromotion(r)
    BY <2>2 DEF MfaPromotion, SignalNames
  <2>3. CASE ~Policy(r) /\ ~MfaPromotion(r)
    BY <2>3 DEF Auth, Revocation, AuthOnly, TrustScore, AuditAllow, AuditAllowed, BoplaStrip,
       Arrive, TimerFires
  <2> QED
    BY <2>1, <2>2, <2>3
<1>4. Unseen
  BY <1>1, <1>2, <1>3, UnseenStep
<1> QED
  BY <1>1, <1>4, Stutters

(* Bypasses leave the request to a handler; it was sent nowhere.           *)
LEMMA BypassStep ==
    ASSUME Inv, NEW r \in Requests,
           Preflight(r) \/ PublicBypass(r) \/ HoneypotBypass(r) \/ AuthOnlyBypass(r)
    PROVE  Audited!Next \/ UNCHANGED Audited!avars
<1> USE DEF durable, downstream
<1>1. /\ UNCHANGED <<ctx, rows, forwarded, loops, trustRows, signals>>
      /\ stage[r] \in {"new", "public_bypass", "honeypot_bypass", "auth_only"}
      /\ Respond(r, "bypass") \/ UNCHANGED response
  BY DEF Preflight, PublicBypass, HoneypotBypass, Bypass, AuthOnlyBypass, At
<1>2. Unseen
  BY <1>1, UnseenStep
<1>3. r \notin forwarded /\ r \notin loops /\ stage[r] # "answered"
  BY <1>1 DEF Inv, RequestInv, AuditInv, Released
<1> QED
  BY <1>1, <1>2, <1>3, Leaves, Stutters

(* Refusals refuse.                                                        *)
LEMMA RefusalStep ==
    ASSUME Inv, NEW r \in Requests,
           AuthRefused(r) \/ RevocationRefused(r) \/ Hashcash(r) \/ MfaRefused(r)
    PROVE  Audited!Next \/ UNCHANGED Audited!avars
<1> USE DEF durable, downstream
<1>1. UNCHANGED <<ctx, rows, forwarded, loops, trustRows>> /\ stage[r] # "answered"
  BY DEF AuthRefused, RevocationRefused, Hashcash, MfaRefused, At
<1>2. UNCHANGED signals \/ \E s \in SignalNames \ {"audit.signal"} : Emit(r, s)
  BY DEF AuthRefused, RevocationRefused, Hashcash, MfaRefused, Emit, SignalNames
<1>3. UNCHANGED response \/ \E what \in Refusals \ {"audit_unavailable"} : Respond(r, what)
  BY DEF AuthRefused, RevocationRefused, Hashcash, MfaRefused, Refusals
<1>4. Unseen
  BY <1>1, <1>2, UnseenStep
<1> QED
  BY <1>1, <1>3, <1>4, Refuses, Stutters

(* A stored ALLOW is on record; a late one belongs to a request left to    *)
(* its handler.                                                            *)
LEMMA DatabaseStep ==
    ASSUME Inv, NEW r \in Requests, DatabaseAnswers(r)
    PROVE  Audited!Next \/ UNCHANGED Audited!avars
<1>1. /\ TypeOK /\ RequestInv(r) /\ write[r].phase = "running"
      /\ UNCHANGED <<stage, ctx, response, forwarded, loops, trustRows, signals>>
  BY DEF Inv, DatabaseAnswers, InsertOk, InsertFails, downstream
<1>2. write[r].decision \in Decisions
  BY <1>1 DEF RequestInv, WriteInv
<1>3. PICK n \in {0, 1} : rows' = [rows EXCEPT ![r][write[r].decision] = @ + n]
  BY DEF DatabaseAnswers, InsertOk, InsertFails
<1>4. /\ \A q \in Requests \ {r} : rows'[q] = rows[q]
      /\ \A d \in Decisions : rows'[r][d] = IF d = write[r].decision THEN rows[r][d] + n
                                            ELSE rows[r][d]
      /\ "allow" \in Decisions /\ rows[r]["allow"] \in Nat
  BY <1>1, <1>2, <1>3 DEF TypeOK, Decisions
<1>5. Accepted' = Accepted /\ Alarmed' = Alarmed /\ Outcome' = Outcome
  BY <1>1 DEF Accepted, Alarmed, Outcome
<1>6. CASE rows'[r]["allow"] = rows[r]["allow"] \/ rows[r]["allow"] > 0
  <2>1. Recorded' = Recorded
    BY <1>2, <1>4, <1>6 DEF Recorded
  <2> QED
    BY <1>1, <1>5, <2>1 DEF Audited!avars, Recorded, Accepted, Alarmed, Outcome
<1>7. CASE rows'[r]["allow"] # rows[r]["allow"] /\ ~(rows[r]["allow"] > 0)
  <2>1. write[r].decision = "allow" /\ rows'[r]["allow"] > 0
    BY <1>2, <1>4, <1>7
  <2>2. Recorded' = Recorded \cup {r}
    BY <1>4, <2>1 DEF Recorded
  <2>3. Outcome[r] \in {"open", "local"}
    <3>1. CASE stage[r] = "answered"
      BY <1>1, <2>1, <3>1 DEF RequestInv, AnswerInv, Outcome, OutcomeOf
    <3>2. CASE stage[r] # "answered"
      BY <3>2, OpenOutcome
    <3> QED
      BY <3>1, <3>2
  <2>4. Audited!Record(r)
    BY <1>1, <1>5, <2>2, <2>3 DEF Audited!Record, Recorded, Accepted, Alarmed, Outcome
  <2> QED
    BY <2>4 DEF Audited!Next
<1> QED
  BY <1>6, <1>7

(* An exhausted audit refuses the request unsent and tells.                *)
LEMMA ExhaustedStep ==
    ASSUME Inv, NEW r \in Requests, AuditExhausted(r)
    PROVE  Audited!Next
<1>1. /\ TypeOK /\ RequestInv(r) /\ write[r].phase = "thrown" /\ ~write[r].timedOut
      /\ Emit(r, "audit.signal") /\ Respond(r, "audit_unavailable")
      /\ UNCHANGED <<ctx, rows, forwarded, loops, trustRows>>
  BY DEF Inv, AuditExhausted, durable, downstream
<1>2. stage[r] \in {"auth_only", "audit_allow"} /\ r \notin forwarded /\ r \notin loops
  BY <1>1 DEF RequestInv, WriteInv, AuditInv, Writing, Released
<1>3. OutcomeOf("audit_unavailable") = "unaudited" /\ "audit_unavailable" \in Responses
  BY DEF OutcomeOf, Responses, Refusals
<1>4. Outcome' = [Outcome EXCEPT ![r] = "unaudited"] /\ Outcome[r] = "open"
  BY <1>1, <1>2, <1>3, OutcomeStep
<1>5. Alarmed' = Alarmed \cup {r}
  BY <1>1, EmitStep DEF Alarmed, SignalNames
<1>6. Recorded' = Recorded /\ Accepted' = Accepted
  BY <1>1 DEF Recorded, Accepted
<1>7. Audited!RefuseUnaudited(r)
  BY <1>1, <1>2, <1>4, <1>5, <1>6 DEF Audited!RefuseUnaudited, Audited!Open, Audited!Answer,
     Outcome, Recorded, Accepted, Alarmed
<1> QED
  BY <1>7 DEF Audited!Next

(* A request whose proxy stage runs is on record, open and unaccepted.     *)
LEMMA AtProxy ==
    ASSUME Inv, NEW r \in Requests, stage[r] = "proxy"
    PROVE  /\ r \in Recorded /\ Outcome[r] = "open"
           /\ r \in forwarded => r \in loops
<1>1. TypeOK /\ RequestInv(r)
  BY DEF Inv
<1>2. rows[r]["allow"] \in Nat
  BY <1>1 DEF TypeOK, Decisions
<1> QED
  BY <1>1, <1>2, OpenOutcome DEF RequestInv, AuditInv, Released, Recorded

(* The retry loop is a delivery: it begins with the ALLOW on record and    *)
(* before any answer ...                                                   *)
LEMMA FireStep ==
    ASSUME Inv, NEW r \in Requests, Fire(r)
    PROVE  Audited!Next
<1>1. /\ stage[r] = "proxy" /\ r \notin loops /\ loops' = loops \cup {r}
      /\ UNCHANGED <<ctx, rows, response, forwarded, trustRows, signals>>
  BY DEF Fire, At, durable
<1>2. r \in Recorded /\ Outcome[r] = "open" /\ r \notin forwarded
  BY <1>1, AtProxy
<1>3. Recorded' = Recorded /\ Accepted' = Accepted /\ Alarmed' = Alarmed /\ Outcome' = Outcome
  BY <1>1 DEF Recorded, Accepted, Alarmed, Outcome
<1>4. Audited!Begin(r)
  BY <1>1, <1>2, <1>3 DEF Audited!Begin, Audited!Open, Recorded, Accepted, Alarmed, Outcome
<1> QED
  BY <1>4 DEF Audited!Next

(* ... sends, and may end unnoticed once the client has its answer.        *)
LEMMA LoopRefines ==
    ASSUME Inv, NEW r \in Requests, LoopStep(r)
    PROVE  Audited!Next
<1>1. r \in loops /\ UNCHANGED <<ctx, rows, response, trustRows, signals>>
  BY DEF LoopStep, Attempt, LoopEnds, durable
<1>2. Recorded' = Recorded /\ Accepted' = Accepted /\ Alarmed' = Alarmed /\ Outcome' = Outcome
  BY <1>1 DEF Recorded, Accepted, Alarmed, Outcome
<1>3. CASE Attempt(r)
  <2>1. Audited!Send(r)
    BY <1>1, <1>2, <1>3 DEF Attempt, Audited!Send, Recorded, Accepted, Alarmed, Outcome
  <2> QED
    BY <2>1 DEF Audited!Next
<1>4. CASE LoopEnds(r)
  <2>1. Outcome[r] # "open"
    <3>1. response[r] \in Responses \ {"none"}
      BY <1>4 DEF LoopEnds, Inv, TypeOK, RequestInv, AnswerInv
    <3> QED
      BY <3>1 DEF Outcome, OutcomeOf
  <2>2. loops' = loops \ {r} /\ forwarded' = forwarded
    BY <1>4 DEF LoopEnds
  <2>3. Audited!GiveUp(r)
    BY <1>1, <1>2, <2>1, <2>2 DEF Audited!GiveUp, Audited!Open, Recorded, Accepted, Alarmed, Outcome
  <2> QED
    BY <2>3 DEF Audited!Next
<1> QED
  BY <1>3, <1>4 DEF LoopStep

(* The answer the loop brings back ends the delivery of an open request.   *)
LEMMA DeliveryStep ==
    ASSUME Inv, NEW r \in Requests, ProxyAnswered(r)
    PROVE  Audited!Next
<1>1. /\ TypeOK /\ RequestInv(r) /\ stage[r] = "proxy" /\ r \in loops /\ r \in forwarded
      /\ loops' = loops \ {r}
      /\ UNCHANGED <<rows, response, forwarded, trustRows, signals>>
  BY DEF Inv, ProxyAnswered, At, durable
<1>2. Recorded' = Recorded /\ Alarmed' = Alarmed /\ Outcome' = Outcome
  BY <1>1 DEF Recorded, Alarmed, Outcome
<1>3. PICK u \in {"2xx", "4xx"} : ctx' = [ctx EXCEPT ![r].upstream = u]
  BY DEF ProxyAnswered
<1>4. (\A q \in Requests \ {r} : ctx'[q] = ctx[q]) /\ ctx'[r].upstream = u
  BY <1>1, <1>3 DEF TypeOK
<1>5. r \notin Accepted
  BY <1>1 DEF Accepted, RequestInv, TrustInv
<1>6. Accepted' \in {Accepted, Accepted \cup {r}}
  BY <1>4, <1>5 DEF Accepted
<1>7. Audited!Deliver(r)
  BY <1>1, <1>2, <1>5, <1>6, AtProxy DEF Audited!Deliver, Audited!Open, Recorded, Accepted,
     Alarmed, Outcome
<1> QED
  BY <1>7 DEF Audited!Next

(* A proxy stage that throws gives the delivery up, if there was one; the  *)
(* breaker's timer refuses the client and leaves it running.               *)
LEMMA ProxyThrewStep ==
    ASSUME Inv, NEW r \in Requests, ProxyThrew(r) \/ BreakerTimer(r)
    PROVE  Audited!Next
<1>1. /\ stage[r] = "proxy" /\ UNCHANGED <<ctx, rows, forwarded, trustRows, signals>>
      /\ loops' = loops \/ (r \in loops /\ loops' = loops \ {r})
  BY DEF ProxyThrew, BreakerTimer, At, durable, downstream
<1>2. PICK what \in Refusals \ {"audit_unavailable"} : Respond(r, what)
  BY DEF ProxyThrew, BreakerTimer, Refusals
<1>3. CASE loops' = loops
  <2>1. Unseen
    BY <1>1, <1>3, UnseenStep
  <2> QED
    BY <1>1, <1>2, <2>1, Refuses
<1>4. CASE r \in loops /\ loops' = loops \ {r}
  <2>1. OutcomeOf(what) = "refused" /\ what \in Responses
    BY DEF OutcomeOf, Responses, Refusals
  <2>2. Outcome' = [Outcome EXCEPT ![r] = "refused"] /\ Outcome[r] = "open"
    BY <1>1, <1>2, <2>1, OutcomeStep
  <2>3. Recorded' = Recorded /\ Accepted' = Accepted /\ Alarmed' = Alarmed
    BY <1>1 DEF Recorded, Accepted, Alarmed
  <2>4. Audited!GiveUp(r)
    BY <1>1, <1>4, <2>2, <2>3 DEF Audited!GiveUp, Audited!Open, Audited!Answer, Recorded,
       Accepted, Alarmed, Outcome
  <2> QED
    BY <2>4 DEF Audited!Next
<1> QED
  BY <1>1, <1>3, <1>4

(* The transaction learns, whatever it reports, or changes nothing.        *)
LEMMA RecordTrustStep ==
    ASSUME Inv, NEW r \in Requests, RecordTrustContext(r)
    PROVE  Audited!Next \/ UNCHANGED Audited!avars
<1>1. /\ TypeOK /\ stage[r] = "record_trust_context" /\ ctx[r].upstream = "2xx"
      /\ UNCHANGED <<rows, response, forwarded, loops, signals>>
      /\ trustRows' = trustRows \cup {r} \/ trustRows' = trustRows
  BY DEF Inv, RecordTrustContext, At, downstream
<1>2. PICK told \in {"ok", "failed"} : ctx' = [ctx EXCEPT ![r].trust = told]
  BY DEF RecordTrustContext
<1>3. \A q \in Requests : ctx'[q].upstream = ctx[q].upstream
  <2> DEFINE c == [ctx[r] EXCEPT !.trust = told]
  <2>1. ctx \in [Requests -> Contexts] /\ ctx' = [ctx EXCEPT ![r] = c]
    BY <1>1, <1>2 DEF TypeOK, Contexts
  <2>2. c.upstream = ctx[r].upstream
    BY <2>1 DEF Contexts
  <2> HIDE DEF c
  <2> QED
    BY <2>1, <2>2
<1>4. Recorded' = Recorded /\ Accepted' = Accepted /\ Alarmed' = Alarmed /\ Outcome' = Outcome
  BY <1>1, <1>3 DEF Recorded, Accepted, Alarmed, Outcome
<1>5. Outcome[r] = "open" /\ r \in Accepted
  BY <1>1, OpenOutcome DEF Accepted
<1>6. CASE trustRows' = trustRows \cup {r}
  <2>1. Audited!Learn(r)
    BY <1>1, <1>4, <1>5, <1>6 DEF Audited!Learn, Audited!Open, Recorded, Accepted, Alarmed, Outcome
  <2> QED
    BY <2>1 DEF Audited!Next
<1>7. CASE trustRows' = trustRows
  BY <1>1, <1>4, <1>7 DEF Audited!avars, Recorded, Accepted, Alarmed, Outcome
<1> QED
  BY <1>1, <1>6, <1>7

(* The client is served what was sent, an acceptance only once learned; a  *)
(* transaction that threw refuses.                                         *)
LEMMA ProxiedStep ==
    ASSUME Inv, NEW r \in Requests, Proxied(r)
    PROVE  Audited!Next
<1>1. /\ RequestInv(r) /\ stage[r] = "record_trust_context"
      /\ UNCHANGED <<ctx, rows, forwarded, loops, trustRows, signals>>
  BY DEF Inv, Proxied, At, durable, downstream
<1>2. CASE Respond(r, "internal_error")
  <2>1. Unseen /\ "internal_error" \in Refusals \ {"audit_unavailable"}
    BY <1>1, UnseenStep DEF Refusals
  <2> QED
    BY <1>1, <1>2, <2>1, Refuses
<1>3. CASE Respond(r, "proxied") /\ (ctx[r].upstream # "2xx" \/ ctx[r].trust = "ok")
  <2>1. OutcomeOf("proxied") = "served" /\ "proxied" \in Responses
    BY DEF OutcomeOf, Responses
  <2>2. Outcome' = [Outcome EXCEPT ![r] = "served"] /\ Outcome[r] = "open"
    BY <1>1, <1>3, <2>1, OutcomeStep
  <2>3. r \in forwarded /\ r \notin loops /\ (r \in Accepted => r \in trustRows)
    BY <1>1, <1>3 DEF RequestInv, AuditInv, TrustInv, Accepted
  <2>4. Recorded' = Recorded /\ Accepted' = Accepted /\ Alarmed' = Alarmed
    BY <1>1 DEF Recorded, Accepted, Alarmed
  <2>5. Audited!Serve(r)
    BY <1>1, <2>2, <2>3, <2>4 DEF Audited!Serve, Audited!Open, Audited!Answer, Outcome,
       Recorded, Accepted, Alarmed
  <2> QED
    BY <2>5 DEF Audited!Next
<1> QED
  BY <1>2, <1>3 DEF Proxied

(* A crash loses the connections that were open and ends every delivery.   *)
LEMMA CrashStep ==
    ASSUME Inv, Crash
    PROVE  Audited!Next
<1> DEFINE lost == {r \in Requests : stage[r] \notin {"new", "answered"}}
<1>1. /\ response' = [r \in Requests |-> IF r \in lost THEN "connection_lost" ELSE response[r]]
      /\ loops' = {} /\ UNCHANGED <<ctx, rows, trustRows, forwarded, signals>>
  BY DEF Crash, durable
<1>2. \A r \in lost : Outcome[r] = "open"
  BY OpenOutcome
<1>3. OutcomeOf("connection_lost") = "lost"
  BY DEF OutcomeOf
<1>4. Outcome' = [r \in Requests |-> IF r \in lost THEN "lost" ELSE Outcome[r]]
  BY <1>1, <1>3 DEF Outcome
<1>5. lost \in SUBSET {r \in Requests : Outcome[r] = "open"}
  BY <1>2
<1>6. Recorded' = Recorded /\ Accepted' = Accepted /\ Alarmed' = Alarmed
  BY <1>1 DEF Recorded, Accepted, Alarmed
<1> HIDE DEF lost
<1>7. Audited!Die
  BY <1>1, <1>4, <1>5, <1>6 DEF Audited!Die, Audited!Open, Outcome, Recorded, Accepted, Alarmed
<1> QED
  BY <1>7 DEF Audited!Next

-----------------------------------------------------------------------------
(* The refinement *)

(* The pipeline begins where the audited gateway begins.                   *)
LEMMA InitRefines == Init => Audited!Init
  BY DEF Init, Audited!Init, NoRows, NoContext, OutcomeOf, Decisions

(* Every step of the pipeline is a step of the audited gateway or none.    *)
LEMMA NextRefines == Inv /\ [Next]_vars => [Audited!Next]_(Audited!avars)
<1> SUFFICES ASSUME Inv, [Next]_vars PROVE Audited!Next \/ UNCHANGED Audited!avars
  OBVIOUS
<1>1. ASSUME NEW r \in Requests, RequestStep(r)
      PROVE  Audited!Next \/ UNCHANGED Audited!avars
  BY <1>1, BypassStep, InternalStep, RefusalStep, ExhaustedStep, FireStep, DeliveryStep,
     ProxyThrewStep, RecordTrustStep, ProxiedStep
  DEF RequestStep
<1>2. ASSUME NEW r \in Requests,
             Preflight(r) \/ Arrive(r) \/ LoopStep(r) \/ DatabaseAnswers(r) \/ TimerFires(r)
      PROVE  Audited!Next \/ UNCHANGED Audited!avars
  BY <1>2, BypassStep, InternalStep, LoopRefines, DatabaseStep
<1>3. ASSUME NEW j \in Jtis, Revoke(j) PROVE UNCHANGED Audited!avars
  BY <1>3 DEF Revoke, durable, downstream, Audited!avars
<1>4. CASE Crash
  BY <1>4, CrashStep
<1>5. CASE UNCHANGED vars
  BY <1>5 DEF vars, Audited!avars
<1> QED
  BY <1>1, <1>2, <1>3, <1>4, <1>5 DEF Next

(* ADR-0001 and ADR-0002: every behaviour of the pipeline is one of the    *)
(* audited gateway, whatever the stages, the retries and the timers do and *)
(* whatever the transaction of the trust history reports.                  *)
THEOREM RefinementTheorem == Spec => ImplementsAuditedGateway
  BY InitRefines, NextRefines, InvHolds, PTL DEF Spec, ImplementsAuditedGateway, Audited!Spec

-----------------------------------------------------------------------------
(* The counters *)

Counters == {"allow", "challenge", "deny", "promoted", "rejected", "failures"}

MeterTypes ==
    /\ meter \in [Requests -> [Counters -> Nat]]
    /\ logged \in [Requests -> Decisions \cup {"none"}]

(* What the counters owe to one request.  The first three parts tie the    *)
(* decision it was logged under to its write and its stage; the next two   *)
(* say that a timer that fired was counted, and a write that is over left  *)
(* a row or a count; the last ones that requests_total moves once, with    *)
(* the answer, under that decision.                                        *)
MeterInv(r) ==
    /\ write[r].phase # "idle" => logged[r] = write[r].decision
    /\ stage[r] \in Released => logged[r] = "allow"
    /\ stage[r] = "mfa_promotion" /\ write[r].phase # "idle" =>
         write[r].decision = IF ctx[r].decision = "DENY" THEN "deny" ELSE "challenge"
    /\ write[r].timedOut => meter[r]["failures"] > 0
    /\ logged[r] # "none" /\ WriteOver(r) /\ rows[r][logged[r]] = 0 => meter[r]["failures"] > 0
    /\ stage[r] # "answered" => \A d \in Decisions : meter[r][d] = 0
    /\ meter[r]["allow"] + meter[r]["challenge"] + meter[r]["deny"] <= 1
    /\ \A d \in Decisions : meter[r][d] > 0 => logged[r] = d

Metered == Inv /\ MeterTypes /\ \A r \in Requests : MeterInv(r)

(* A step of the metered pipeline is a step of the pipeline.               *)
LEMMA MeteredStep == [MeteredNext]_mvars => [Next]_vars
<1> SUFFICES ASSUME [MeteredNext]_mvars PROVE [Next]_vars
  OBVIOUS
<1>1. ASSUME NEW r \in Requests, Uncounted(r) PROVE Next
  BY <1>1 DEF Uncounted, Next, RequestStep, LoopStep, DatabaseAnswers
<1>2. ASSUME NEW r \in Requests, Counted(r) PROVE Next
  BY <1>2 DEF Counted, Next, RequestStep, DatabaseAnswers
<1>3. CASE \E j \in Jtis : Revoke(j) /\ UNCHANGED <<meter, logged>>
  BY <1>3 DEF Next
<1>4. CASE Crash /\ Forgotten
  BY <1>4 DEF Next
<1>5. CASE UNCHANGED mvars
  BY <1>5 DEF mvars
<1> QED
  BY <1>1, <1>2, <1>3, <1>4, <1>5 DEF MeteredNext

(* Counting watches the pipeline and does not steer it: what holds of the  *)
(* pipeline holds of it with its counters.                                 *)
THEOREM MeteredIsPipeline == MeteredSpec => Spec
<1>1. MeteredInit => Init
  BY DEF MeteredInit
<1> QED
  BY <1>1, MeteredStep, PTL DEF MeteredSpec, Spec

(* The requests a step is not about keep their stage, context, write and   *)
(* rows.                                                                   *)
OthersStay(r) ==
    \A q \in Requests \ {r} : /\ stage'[q] = stage[q] /\ ctx'[q] = ctx[q]
                              /\ write'[q] = write[q] /\ rows'[q] = rows[q]

(* One counter of one request moves by one.                                *)
LEMMA CountStep ==
    ASSUME MeterTypes, NEW r \in Requests, NEW k \in Counters, Count(r, k)
    PROVE  /\ meter' \in [Requests -> [Counters -> Nat]]
           /\ \A q \in Requests \ {r} : meter'[q] = meter[q]
           /\ \A c \in Counters : meter'[r][c] = IF c = k THEN meter[r][c] + 1 ELSE meter[r][c]
  BY DEF Count, MeterTypes

(* The history of the writes follows the writes.                           *)
LEMMA BegunStep ==
    ASSUME Metered, Begun, Inv'
    PROVE  /\ logged' \in [Requests -> Decisions \cup {"none"}]
           /\ \A q \in Requests : logged'[q] = IF write'[q].phase = "running"
                                               THEN write'[q].decision ELSE logged[q]
           /\ \A q \in Requests : write'[q] = write[q] => logged'[q] = logged[q]
<1>1. \A q \in Requests : logged'[q] = IF write'[q].phase = "running"
                                       THEN write'[q].decision ELSE logged[q]
  BY DEF Begun
<1>2. ASSUME NEW q \in Requests, write'[q].phase = "running"
      PROVE  write'[q].decision \in Decisions
  BY <1>2 DEF Inv, RequestInv, WriteInv
<1>3. \A q \in Requests : write'[q] = write[q] => logged'[q] = logged[q]
  BY <1>1 DEF Metered, MeterInv
<1> QED
  BY <1>1, <1>2, <1>3 DEF Begun, Metered, MeterTypes

(* Only the request that steps needs to be looked at.                      *)
LEMMA MeterFrame ==
    ASSUME Metered, Inv', Begun, NEW r \in Requests, OthersStay(r),
           meter' \in [Requests -> [Counters -> Nat]],
           \A q \in Requests \ {r} : meter'[q] = meter[q],
           MeterInv(r)'
    PROVE  Metered'
<1>1. logged' \in [Requests -> Decisions \cup {"none"}]
  BY BegunStep
<1>2. ASSUME NEW q \in Requests \ {r} PROVE MeterInv(q)'
  <2>1. MeterInv(q) /\ logged'[q] = logged[q]
    BY <1>2, BegunStep DEF Metered, OthersStay
  <2> QED
    BY <1>2, <2>1 DEF MeterInv, WriteOver, OthersStay
<1> QED
  BY <1>1, <1>2 DEF Metered, MeterTypes

(* The counters of audited requests and of failures stand, whatever the    *)
(* MFA counters do.                                                        *)
CountsStand(r) ==
    /\ meter' \in [Requests -> [Counters -> Nat]]
    /\ \A q \in Requests \ {r} : meter'[q] = meter[q]
    /\ \A c \in Decisions \cup {"failures"} : meter'[r][c] = meter[r][c]

(* Untouched counters stand.                                               *)
LEMMA SameCounts ==
    ASSUME Metered, NEW r, UNCHANGED meter PROVE CountsStand(r)
  BY DEF Metered, MeterTypes, CountsStand

(* A request passes a stage, or is answered, with no write about.          *)
LEMMA PassMeter ==
    ASSUME Metered, Inv', Begun, NEW r \in Requests, OthersStay(r), CountsStand(r),
           UNCHANGED <<write, rows>>, write[r].phase = "idle", stage[r] # "answered",
           stage'[r] \in Released => stage[r] \in Released
    PROVE  Metered'
<1>1. MeterInv(r) /\ logged'[r] = logged[r]
  BY BegunStep DEF Metered
<1>2. MeterInv(r)'
  BY <1>1 DEF MeterInv, WriteOver, CountsStand, Decisions
<1> QED
  BY <1>2, MeterFrame DEF CountsStand

(* A stage starts its write: the request is now logged under that          *)
(* decision, and has been counted under none.                              *)
LEMMA StartMeter ==
    ASSUME Metered, Inv', Begun, NEW r \in Requests, OthersStay(r), CountsStand(r),
           NEW d \in Decisions, StartWrite(r, d), UNCHANGED <<stage, ctx, rows>>,
           stage[r] \notin Released \cup {"answered"},
           stage[r] = "mfa_promotion" => d = IF ctx[r].decision = "DENY" THEN "deny" ELSE "challenge"
    PROVE  Metered'
<1>1. MeterInv(r) /\ TypeOK
  BY DEF Metered, Inv
<1>2. /\ write'[r].phase = "running" /\ write'[r].decision = d /\ write'[r].timedOut = FALSE
  BY <1>1, StartWriteStep
<1>3. logged'[r] = d
  BY <1>2, BegunStep
<1>4. \A c \in Decisions : meter'[r][c] = 0
  BY <1>1 DEF MeterInv, CountsStand
<1>5. MeterInv(r)'
  BY <1>1, <1>2, <1>3, <1>4 DEF MeterInv, WriteOver, Decisions
<1> QED
  BY <1>5, MeterFrame DEF CountsStand

(* A returned write is settled; what it left was counted before.           *)
Settled(r) ==
    /\ WriteReturned(r) /\ Settle(r) /\ UNCHANGED <<ctx, rows>>
    /\ stage[r] \notin Released \cup {"answered"}

(* Its history and its failures stay what they were.                       *)
LEMMA SettleMeter ==
    ASSUME Metered, Inv', Begun, NEW r \in Requests, Settled(r),
           meter'[r]["failures"] = meter[r]["failures"]
    PROVE  /\ logged'[r] = logged[r] /\ logged[r] = write[r].decision
           /\ write'[r].phase # "idle" => logged[r] = write'[r].decision
           /\ write'[r].timedOut => meter'[r]["failures"] > 0
           /\ (logged'[r] # "none" /\ WriteOver(r)' /\ rows'[r][logged'[r]] = 0) =>
                meter'[r]["failures"] > 0
<1>1. MeterInv(r) /\ TypeOK /\ WriteInv(r)
  BY DEF Metered, Inv, RequestInv
<1>2. /\ write[r].phase = "running" => write'[r] = write[r]
      /\ write[r].phase # "running" => write'[r] = NoWrite
  BY <1>1, SettleStep DEF Settled
<1>3. write[r].phase # "idle" /\ (write[r].phase = "done" \/ write[r].timedOut)
  BY <1>1 DEF Settled, WriteReturned, WriteInv, NoWrite
<1>4. logged'[r] = logged[r]
  BY <1>1, <1>2, BegunStep DEF MeterInv, NoWrite
<1>5. write[r].phase # "running" => WriteOver(r)
  BY <1>3 DEF WriteOver
<1> QED
  BY <1>1, <1>2, <1>3, <1>4, <1>5 DEF MeterInv, Settled, WriteOver, NoWrite

(* A refusal, or a bypass, that no counter of requests_total counts.       *)
LEMMA SettleUncounted ==
    ASSUME Metered, Inv', Begun, NEW r \in Requests, OthersStay(r), Settled(r),
           UNCHANGED meter, stage'[r] = "answered" \/ (stage'[r] = "proxy" /\ write[r].decision = "allow"),
           stage'[r] = "proxy" => write[r].phase = "done"
    PROVE  Metered'
<1>1. MeterInv(r) /\ TypeOK
  BY DEF Metered, Inv
<1>2. /\ logged'[r] = logged[r] /\ logged[r] = write[r].decision
      /\ write'[r].phase # "idle" => logged[r] = write'[r].decision
      /\ write'[r].timedOut => meter'[r]["failures"] > 0
      /\ (logged'[r] # "none" /\ WriteOver(r)' /\ rows'[r][logged'[r]] = 0) =>
           meter'[r]["failures"] > 0
  BY SettleMeter
<1>3. \A c \in Decisions : meter'[r][c] = 0
  BY <1>1 DEF MeterInv, Settled
<1>4. MeterInv(r)'
  BY <1>2, <1>3 DEF MeterInv, Released, Decisions
<1> QED
  BY <1>4, MeterFrame, SameCounts DEF CountsStand
-----------------------------------------------------------------------------
(* The counters, step by step *)

(* A step of one request is a step of that request only.                   *)
LEMMA OneRequest ==
    ASSUME TypeOK, NEW r \in Requests,
           \/ Preflight(r) \/ Arrive(r) \/ RequestStep(r) \/ LoopStep(r)
           \/ DatabaseAnswers(r) \/ TimerFires(r)
    PROVE  OthersStay(r)
<1> USE DEF durable, At, LoopStep, Attempt, LoopEnds, Fire, BreakerTimer, Proxied
<1>1. ASSUME NEW q \in Requests \ {r} PROVE stage'[q] = stage[q]
  <2>1. \/ UNCHANGED stage \/ Advance(r) \/ \E what : Respond(r, what)
        \/ stage' = [stage EXCEPT ![r] = "public_bypass"]
    BY DEF Preflight, Arrive, RequestStep, DatabaseAnswers, TimerFires, PublicBypass,
       HoneypotBypass, Bypass, Auth, AuthRefused, Revocation, RevocationRefused, AuthOnly,
       AuthOnlyBypass, TrustScore, Hashcash, Policy, MfaPromotion, MfaRefused, AuditAllow,
       AuditAllowed, AuditExhausted, ProxyAnswered, ProxyThrew, BoplaStrip, RecordTrustContext,
       InsertOk, InsertFails
  <2> QED
    BY <1>1, <2>1 DEF TypeOK, Advance, Respond
<1>2. ASSUME NEW q \in Requests \ {r} PROVE ctx'[q] = ctx[q]
  <2>1. \/ UNCHANGED ctx
        \/ TrustScore(r) \/ Policy(r) \/ MfaPromotion(r) \/ ProxyAnswered(r)
        \/ RecordTrustContext(r)
    BY DEF Preflight, Arrive, RequestStep, DatabaseAnswers, TimerFires, PublicBypass,
       HoneypotBypass, Bypass, Auth, AuthRefused, Revocation, RevocationRefused, AuthOnly,
       AuthOnlyBypass, Hashcash, MfaRefused, AuditAllow, AuditAllowed, AuditExhausted,
       ProxyThrew, BoplaStrip, InsertOk, InsertFails
  <2>2. \/ \E c : ctx' = [ctx EXCEPT ![r] = c] \/ UNCHANGED ctx
    <3>1. CASE TrustScore(r)
      BY <3>1 DEF TrustScore, TypeOK
    <3>2. CASE Policy(r)
      <4>1. PICK d, m : ctx' = [ctx EXCEPT ![r].decision = d, ![r].casbin = m]
        BY <3>2 DEF Policy
      <4>2. ctx' = [ctx EXCEPT ![r] = [ctx[r] EXCEPT !.decision = d, !.casbin = m]]
        BY <4>1 DEF TypeOK
      <4> QED
        BY <4>2
    <3>3. CASE MfaPromotion(r)
      BY <3>3 DEF MfaPromotion, TypeOK
    <3>4. CASE ProxyAnswered(r)
      BY <3>4 DEF ProxyAnswered, TypeOK
    <3>5. CASE RecordTrustContext(r)
      BY <3>5 DEF RecordTrustContext, TypeOK
    <3> QED
      BY <2>1, <3>1, <3>2, <3>3, <3>4, <3>5
  <2> QED
    BY <1>2, <2>2 DEF TypeOK
<1>3. ASSUME NEW q \in Requests \ {r} PROVE write'[q] = write[q]
  <2>1. \/ UNCHANGED write \/ \E w : write' = [write EXCEPT ![r] = w]
    <3>1. CASE InsertOk(r) \/ TimerFires(r) \/ InsertFails(r)
      BY <3>1 DEF InsertOk, TimerFires, InsertFails, TypeOK
    <3>2. CASE \/ UNCHANGED write \/ Settle(r) \/ (\E d : StartWrite(r, d)) \/ AuditExhausted(r)
      BY <3>2 DEF Settle, StartWrite, AuditExhausted
    <3>3. CASE Preflight(r) \/ Arrive(r) \/ RequestStep(r) \/ LoopStep(r)
      BY <3>2, <3>3 DEF Preflight, Arrive, RequestStep, PublicBypass,
         HoneypotBypass, Bypass, Auth, AuthRefused, Revocation, RevocationRefused, AuthOnly,
         AuthOnlyBypass, TrustScore, Hashcash, Policy, MfaPromotion, MfaRefused, AuditAllow,
         AuditAllowed, ProxyAnswered, ProxyThrew, BoplaStrip, RecordTrustContext
    <3> QED
      BY <3>1, <3>3 DEF DatabaseAnswers
  <2> QED
    BY <1>3, <2>1 DEF TypeOK
<1>4. ASSUME NEW q \in Requests \ {r} PROVE rows'[q] = rows[q]
  <2>1. UNCHANGED rows \/ InsertOk(r) \/ InsertFails(r)
    BY DEF Preflight, Arrive, RequestStep, DatabaseAnswers, TimerFires, PublicBypass,
       HoneypotBypass, Bypass, Auth, AuthRefused, Revocation, RevocationRefused, AuthOnly,
       AuthOnlyBypass, TrustScore, Hashcash, Policy, MfaPromotion, MfaRefused, AuditAllow,
       AuditAllowed, AuditExhausted, ProxyAnswered, ProxyThrew, BoplaStrip, RecordTrustContext
  <2> QED
    BY <1>4, <2>1 DEF InsertOk, InsertFails, TypeOK
<1> QED
  BY <1>1, <1>2, <1>3, <1>4 DEF OthersStay
(* Stages that write no audit row pass the request on or answer it.        *)
LEMMA PlainMeter ==
    ASSUME Metered, Inv', Begun, NEW r \in Requests, UNCHANGED meter,
           \/ Preflight(r) \/ Arrive(r) \/ PublicBypass(r) \/ HoneypotBypass(r)
           \/ TrustScore(r) \/ Hashcash(r) \/ Policy(r)
           \/ Fire(r) \/ ProxyAnswered(r) \/ ProxyThrew(r) \/ BreakerTimer(r)
           \/ BoplaStrip(r) \/ RecordTrustContext(r)
    PROVE  Metered'
<1> USE DEF durable, At, Fire, BreakerTimer, RecordTrustContext
<1>1. TypeOK /\ WriteInv(r)
  BY DEF Metered, Inv, RequestInv
<1>2. OthersStay(r)
  BY <1>1, OneRequest DEF RequestStep
<1>3. UNCHANGED <<write, rows>> /\ write[r].phase = "idle" /\ stage[r] # "answered"
  BY <1>1 DEF Preflight, Arrive, PublicBypass, HoneypotBypass, Bypass, TrustScore, Hashcash, Policy,
     ProxyAnswered, ProxyThrew, BoplaStrip, WriteInv, Writing, TypeOK
<1>4. stage'[r] \in Released => stage[r] \in Released
  <2>1. \/ stage[r] \in {"proxy", "bopla_strip", "record_trust_context"}
        \/ \E what : Respond(r, what)
        \/ stage' = [stage EXCEPT ![r] = "public_bypass"]
        \/ /\ stage[r] \in {"public_bypass", "honeypot_bypass", "trust_score", "hashcash", "policy"}
           /\ Advance(r)
    BY DEF Preflight, Arrive, PublicBypass, HoneypotBypass, Bypass, TrustScore, Hashcash, Policy,
       ProxyAnswered, ProxyThrew, BoplaStrip
  <2> QED
    BY <1>1, <2>1, StageOrder DEF TypeOK, Respond, Advance, Released
<1> QED
  BY <1>2, <1>3, <1>4, PassMeter, SameCounts

(* A retry loop counts nothing, not even behind an answered request.       *)
LEMMA LoopMeter ==
    ASSUME Metered, Inv', Begun, NEW r \in Requests, UNCHANGED meter, LoopStep(r)
    PROVE  Metered'
<1>1. TypeOK /\ MeterInv(r) /\ UNCHANGED <<stage, ctx, write, rows>>
  BY DEF Metered, Inv, LoopStep, Attempt, LoopEnds, durable
<1>2. OthersStay(r) /\ CountsStand(r) /\ logged'[r] = logged[r]
  BY <1>1, SameCounts, BegunStep DEF OthersStay
<1>3. MeterInv(r)'
  BY <1>1, <1>2 DEF MeterInv, WriteOver
<1> QED
  BY <1>2, <1>3, MeterFrame DEF CountsStand

(* Stages that refuse with an audit row pass the request on, or begin the  *)
(* write.                                                                  *)
LEMMA GuardMeter ==
    ASSUME Metered, Inv', Begun, NEW r \in Requests, UNCHANGED meter,
           Auth(r) \/ Revocation(r) \/ AuthOnly(r) \/ AuditAllow(r)
    PROVE  Metered'
<1> USE DEF durable, At
<1>1. TypeOK
  BY DEF Metered, Inv
<1>2. OthersStay(r) /\ CountsStand(r)
  BY <1>1, OneRequest, SameCounts DEF RequestStep
<1>3. /\ UNCHANGED <<ctx, rows>> /\ write[r].phase = "idle"
      /\ stage[r] \in {"auth", "revocation", "auth_only", "audit_allow"}
      /\ \/ Advance(r) /\ UNCHANGED write /\ stage[r] # "audit_allow"
         \/ \E d \in Decisions : StartWrite(r, d) /\ UNCHANGED stage
  BY DEF Auth, Revocation, AuthOnly, AuditAllow, Decisions
<1>4. CASE Advance(r) /\ UNCHANGED write /\ stage[r] # "audit_allow"
  <2>1. stage'[r] \notin Released
    BY <1>1, <1>3, <1>4, AdvanceStep, StageOrder DEF Released
  <2> QED
    BY <1>2, <1>3, <1>4, <2>1, PassMeter
<1>5. ASSUME NEW d \in Decisions, StartWrite(r, d), UNCHANGED stage PROVE Metered'
  <2>1. stage[r] \notin Released \cup {"answered"} /\ stage[r] # "mfa_promotion"
    BY <1>3 DEF Released
  <2> QED
    BY <1>2, <1>3, <1>5, <2>1, StartMeter
<1> QED
  BY <1>3, <1>4, <1>5

(* An accepted or a refused MFA token moves a counter that no decision     *)
(* shares.                                                                 *)
LEMMA PromotionMeter ==
    ASSUME Metered, Inv', Begun, NEW r \in Requests, MfaPromotion(r),
           CountIf(ctx[r].decision = "CHALLENGE", r,
                   IF ctx'[r].promoted THEN "promoted" ELSE "rejected")
    PROVE  Metered'
<1> USE DEF durable, At
<1>1. TypeOK /\ MeterTypes
  BY DEF Metered, Inv
<1>2. OthersStay(r)
  BY <1>1, OneRequest DEF RequestStep
<1>3. CountsStand(r)
  <2> DEFINE k == IF ctx'[r].promoted THEN "promoted" ELSE "rejected"
  <2>1. k \in Counters \ (Decisions \cup {"failures"})
    BY DEF Counters, Decisions
  <2>2. Count(r, k) \/ UNCHANGED meter
    BY DEF CountIf
  <2>3. Decisions \cup {"failures"} \subseteq Counters
    BY DEF Counters, Decisions
  <2> HIDE DEF k
  <2> QED
    BY <1>1, <2>1, <2>2, <2>3, CountStep, SameCounts DEF CountsStand
<1>4. /\ UNCHANGED rows /\ write[r].phase = "idle" /\ stage[r] = "mfa_promotion"
      /\ \/ Advance(r) /\ UNCHANGED write
         \/ /\ UNCHANGED <<stage, ctx>>
            /\ StartWrite(r, IF ctx[r].decision = "DENY" THEN "deny" ELSE "challenge")
  BY DEF MfaPromotion
<1>5. CASE Advance(r) /\ UNCHANGED write
  <2>1. stage'[r] \notin Released
    BY <1>1, <1>4, <1>5, AdvanceStep, StageOrder DEF Released
  <2> QED
    BY <1>2, <1>3, <1>4, <1>5, <2>1, PassMeter
<1>6. CASE /\ UNCHANGED <<stage, ctx>>
           /\ StartWrite(r, IF ctx[r].decision = "DENY" THEN "deny" ELSE "challenge")
  <2> DEFINE d == IF ctx[r].decision = "DENY" THEN "deny" ELSE "challenge"
  <2>1. d \in Decisions /\ stage[r] \notin Released \cup {"answered"}
    BY <1>4 DEF Decisions, Released
  <2>2. d = IF ctx[r].decision = "DENY" THEN "deny" ELSE "challenge"
    OBVIOUS
  <2>3. StartWrite(r, d)
    BY <1>6
  <2> HIDE DEF d
  <2> QED
    BY <1>2, <1>3, <1>4, <1>6, <2>1, <2>2, <2>3, StartMeter
<1> QED
  BY <1>4, <1>5, <1>6

(* The audited refusals, the audited bypass and the audited allow go on    *)
(* from a write that came back.                                            *)
LEMMA ReturnMeter ==
    ASSUME Metered, Inv', Begun, NEW r \in Requests, UNCHANGED meter,
           AuthRefused(r) \/ RevocationRefused(r) \/ AuthOnlyBypass(r) \/ AuditAllowed(r)
    PROVE  Metered'
<1> USE DEF durable
<1>1. TypeOK /\ WriteInv(r)
  BY DEF Metered, Inv, RequestInv
<1>2. OthersStay(r)
  BY <1>1, OneRequest DEF RequestStep
<1>3. Settled(r)
  BY DEF AuthRefused, RevocationRefused, AuthOnlyBypass, AuditAllowed, Settled, WriteReturned,
     Released
<1>4. \/ stage'[r] = "answered"
      \/ stage'[r] = "proxy" /\ write[r].decision = "allow" /\ write[r].phase = "done"
  BY <1>1, StageOrder DEF AuthRefused, RevocationRefused, AuthOnlyBypass, AuditAllowed, Respond,
     Advance, TypeOK, WriteInv
<1> QED
  BY <1>2, <1>3, <1>4, SettleUncounted

(* A refusal by policy or for want of MFA is counted under the decision    *)
(* its row was written with.                                               *)
LEMMA RefusalMeter ==
    ASSUME Metered, Inv', Begun, NEW r \in Requests, MfaRefused(r),
           Count(r, IF ctx[r].decision = "DENY" THEN "deny" ELSE "challenge")
    PROVE  Metered'
<1> USE DEF durable
<1> DEFINE d == IF ctx[r].decision = "DENY" THEN "deny" ELSE "challenge"
<1>1. TypeOK /\ WriteInv(r) /\ MeterInv(r) /\ MeterTypes /\ d \in Decisions \cap Counters
  BY DEF Metered, Inv, RequestInv, Decisions, Counters
<1>2. OthersStay(r)
  BY <1>1, OneRequest DEF RequestStep
<1>3. Settled(r) /\ stage[r] = "mfa_promotion" /\ stage'[r] = "answered"
  BY <1>1 DEF MfaRefused, Settled, Released, Respond, TypeOK
<1>4. write[r].phase # "idle"
  BY <1>1, <1>3 DEF Settled, WriteReturned, WriteInv, NoWrite
<1>5. write[r].decision = d
  BY <1>1, <1>3, <1>4 DEF MeterInv
<1>6. Count(r, d)
  OBVIOUS
<1>7. d # "failures" /\ Decisions \cup {"failures"} \subseteq Counters
  BY DEF Counters, Decisions
<1> HIDE DEF d
<1>8. /\ meter' \in [Requests -> [Counters -> Nat]]
      /\ \A q \in Requests \ {r} : meter'[q] = meter[q]
      /\ \A c \in Counters : meter'[r][c] = IF c = d THEN meter[r][c] + 1 ELSE meter[r][c]
  BY <1>1, <1>6, CountStep
<1>9. /\ logged'[r] = logged[r] /\ logged[r] = write[r].decision
      /\ write'[r].phase # "idle" => logged[r] = write'[r].decision
      /\ write'[r].timedOut => meter'[r]["failures"] > 0
      /\ (logged'[r] # "none" /\ WriteOver(r)' /\ rows'[r][logged'[r]] = 0) =>
           meter'[r]["failures"] > 0
  BY <1>3, <1>7, <1>8, SettleMeter
<1>10. \A c \in Decisions : meter'[r][c] = IF c = d THEN 1 ELSE 0
  BY <1>1, <1>3, <1>7, <1>8 DEF MeterInv
<1>11. MeterInv(r)'
  BY <1>1, <1>3, <1>5, <1>9, <1>10 DEF MeterInv, Released, Decisions
<1> QED
  BY <1>2, <1>8, <1>11, MeterFrame

(* A served request is counted as allowed; it was logged so before it was  *)
(* released.                                                               *)
LEMMA ServedMeter ==
    ASSUME Metered, Inv', Begun, NEW r \in Requests, Proxied(r),
           CountIf(response'[r] = "proxied", r, "allow")
    PROVE  Metered'
<1> USE DEF durable, At
<1>1. TypeOK /\ MeterInv(r) /\ MeterTypes /\ logged[r] = "allow"
  BY DEF Metered, Inv, Proxied, MeterInv, Released
<1>2. OthersStay(r)
  BY <1>1, OneRequest DEF RequestStep
<1>3. /\ UNCHANGED <<write, ctx, rows>> /\ write[r].phase = "idle"
      /\ stage[r] = "record_trust_context" /\ stage'[r] = "answered"
  BY <1>1 DEF Proxied, Respond, TypeOK
<1>4. CASE UNCHANGED meter
  BY <1>2, <1>3, <1>4, PassMeter, SameCounts DEF Released
<1>5. CASE Count(r, "allow")
  <2>1. /\ meter' \in [Requests -> [Counters -> Nat]]
        /\ \A q \in Requests \ {r} : meter'[q] = meter[q]
        /\ \A c \in Counters : meter'[r][c] = IF c = "allow" THEN meter[r][c] + 1 ELSE meter[r][c]
    BY <1>1, <1>5, CountStep DEF Counters
  <2>2. logged'[r] = logged[r]
    BY <1>3, BegunStep
  <2>3. /\ \A c \in Decisions : meter'[r][c] = IF c = "allow" THEN 1 ELSE 0
        /\ meter'[r]["failures"] = meter[r]["failures"]
    BY <1>1, <1>3, <2>1 DEF MeterInv, Decisions, Counters
  <2>4. MeterInv(r)'
    BY <1>1, <1>3, <2>2, <2>3 DEF MeterInv, WriteOver, Decisions, Released
  <2> QED
    BY <1>2, <2>1, <2>4, MeterFrame
<1> QED
  BY <1>4, <1>5 DEF CountIf
(* The audit writer's steps keep the decision, the stage and the context   *)
(* of a request; a count of failures only grows.                           *)
LEMMA WriterMeter ==
    ASSUME Metered, Inv', Begun, NEW r \in Requests, OthersStay(r),
           UNCHANGED <<stage, ctx>>, write[r].phase = "running",
           write'[r].phase # "idle", write'[r].decision = write[r].decision,
           Count(r, "failures") \/ UNCHANGED meter,
           write'[r].timedOut => meter'[r]["failures"] > 0,
           (WriteOver(r)' /\ rows'[r][write[r].decision] = 0) => meter'[r]["failures"] > 0
    PROVE  Metered'
<1>1. MeterInv(r) /\ MeterTypes /\ logged[r] = write[r].decision
  BY DEF Metered, MeterInv
<1>2. /\ meter' \in [Requests -> [Counters -> Nat]]
      /\ \A q \in Requests \ {r} : meter'[q] = meter[q]
      /\ \A c \in Decisions : meter'[r][c] = meter[r][c]
  <2>1. CASE Count(r, "failures")
    <3>1. "failures" \in Counters /\ "failures" \notin Decisions /\ Decisions \subseteq Counters
      BY DEF Counters, Decisions
    <3> QED
      BY <1>1, <2>1, <3>1, CountStep
  <2> QED
    BY <1>1, <2>1 DEF MeterTypes
<1>3. logged'[r] = logged[r]
  BY <1>1, BegunStep
<1>4. MeterInv(r)'
  BY <1>1, <1>2, <1>3 DEF MeterInv, Decisions
<1> QED
  BY <1>2, <1>4, MeterFrame

(* An insert that succeeds leaves a row, one that fails is tried again,    *)
(* counted, or left to whoever catches it; the timer counts at once.       *)
LEMMA DatabaseMeter ==
    ASSUME Metered, Inv', Begun, NEW r \in Requests,
           \/ InsertOk(r) /\ UNCHANGED meter
           \/ InsertFails(r) /\ RecordFailed(r)
           \/ TimerFires(r) /\ Count(r, "failures")
    PROVE  Metered'
<1>1. TypeOK /\ MeterInv(r) /\ MeterTypes /\ WriteInv(r)
  BY DEF Metered, Inv, RequestInv
<1>2. OthersStay(r)
  BY <1>1, OneRequest DEF DatabaseAnswers
<1>3. UNCHANGED <<stage, ctx>> /\ write[r].phase = "running" /\ write[r] \in WriteStates
  BY <1>1 DEF InsertOk, InsertFails, TimerFires, TypeOK, WriteStates
<1>4. meter[r]["failures"] \in Nat
  BY <1>1 DEF MeterTypes, Counters
<1>5. Count(r, "failures") => meter'[r]["failures"] > 0
  <2>1. "failures" \in Counters
    BY DEF Counters
  <2> QED
    BY <1>1, <1>4, <2>1, CountStep
<1>6. CASE InsertOk(r) /\ UNCHANGED meter
  <2>1. write' = [write EXCEPT ![r] = [write[r] EXCEPT !.phase = "done"]]
    BY <1>1, <1>6 DEF InsertOk, TypeOK
  <2>2. /\ write'[r].phase = "done" /\ write'[r].decision = write[r].decision
        /\ write'[r].timedOut = write[r].timedOut
    BY <1>1, <1>3, <2>1 DEF TypeOK, WriteStates
  <2>3. write[r].decision \in Decisions /\ rows[r] \in [Decisions -> Nat]
    BY <1>1, <1>3 DEF WriteInv, TypeOK
  <2>4. rows'[r][write[r].decision] > 0
    BY <1>1, <1>6, <2>3 DEF InsertOk, TypeOK
  <2> QED
    BY <1>1, <1>2, <1>3, <1>6, <2>2, <2>4, WriterMeter DEF MeterInv
<1>7. CASE InsertFails(r) /\ RecordFailed(r)
  <2> DEFINE w == AfterFailure(write[r])
  <2>1. /\ w.decision = write[r].decision /\ w.timedOut = write[r].timedOut
        /\ w.phase \in {"running", "done", "thrown"}
    BY <1>3 DEF AfterFailure, WriteStates
  <2>2. write'[r] = w
    BY <1>1, <1>7 DEF InsertFails, TypeOK
  <2> HIDE DEF w
  <2>3. \/ Count(r, "failures") /\ w.phase = "done"
        \/ UNCHANGED meter /\ w.phase # "done"
    BY <1>7, <2>2 DEF RecordFailed, CountIf
  <2>4. write'[r].timedOut => meter'[r]["failures"] > 0
    BY <1>1, <1>5, <2>1, <2>2, <2>3 DEF MeterInv
  <2>5. WriteOver(r)' => meter'[r]["failures"] > 0
    BY <1>5, <2>1, <2>2, <2>3, <2>4 DEF WriteOver
  <2> QED
    BY <1>2, <1>3, <2>1, <2>2, <2>3, <2>4, <2>5, WriterMeter
<1>8. CASE TimerFires(r) /\ Count(r, "failures")
  <2>1. write' = [write EXCEPT ![r] = [write[r] EXCEPT !.timedOut = TRUE]]
    BY <1>1, <1>8 DEF TimerFires, TypeOK
  <2>2. write'[r].phase = "running" /\ write'[r].decision = write[r].decision
    BY <1>1, <1>3, <2>1 DEF TypeOK, WriteStates
  <2> QED
    BY <1>2, <1>3, <1>5, <1>8, <2>2, WriterMeter
<1> QED
  BY <1>6, <1>7, <1>8

(* An exhausted allow write is counted as it is answered.                  *)
LEMMA ExhaustedMeter ==
    ASSUME Metered, Inv', Begun, NEW r \in Requests, AuditExhausted(r), Count(r, "failures")
    PROVE  Metered'
<1> USE DEF durable
<1>1. TypeOK /\ MeterInv(r) /\ MeterTypes /\ WriteInv(r)
  BY DEF Metered, Inv, RequestInv
<1>2. OthersStay(r)
  BY <1>1, OneRequest DEF RequestStep
<1>3. stage[r] # "answered" /\ stage'[r] = "answered" /\ write'[r] = NoWrite
  BY <1>1 DEF AuditExhausted, WriteInv, Respond, TypeOK
<1>4. logged'[r] = logged[r]
  BY <1>3, BegunStep DEF NoWrite
<1>5. /\ meter' \in [Requests -> [Counters -> Nat]]
      /\ \A q \in Requests \ {r} : meter'[q] = meter[q]
      /\ meter'[r]["failures"] > 0
      /\ \A c \in Decisions : meter'[r][c] = meter[r][c]
  <2>1. /\ "failures" \in Counters /\ "failures" \notin Decisions /\ Decisions \subseteq Counters
        /\ meter[r]["failures"] \in Nat
    BY <1>1 DEF Counters, Decisions, MeterTypes
  <2> QED
    BY <1>1, <2>1, CountStep
<1>6. MeterInv(r)'
  BY <1>1, <1>3, <1>4, <1>5 DEF MeterInv, NoWrite, Released, Decisions
<1> QED
  BY <1>2, <1>5, <1>6, MeterFrame

(* The process dies and its counters with it.                              *)
LEMMA ForgottenMeter ==
    ASSUME Metered, Inv', Crash, Forgotten PROVE Metered'
<1>1. NoCounts \in [Counters -> Nat] /\ \A d \in Decisions : NoCounts[d] = 0
  BY DEF NoCounts, Counters, Decisions
<1>2. MeterTypes'
  BY <1>1 DEF Forgotten, MeterTypes
<1>3. ASSUME NEW r \in Requests PROVE MeterInv(r)'
  <2>1. /\ write'[r] = NoWrite /\ meter'[r] = NoCounts /\ logged'[r] = "none"
        /\ stage'[r] \in {"new", "answered"}
    BY DEF Crash, Forgotten
  <2> QED
    BY <1>1, <2>1 DEF MeterInv, NoWrite, Released, Decisions
<1> QED
  BY <1>2, <1>3 DEF Metered

(* Metered holds at first ...                                              *)
LEMMA InitMetered == MeteredInit => Metered
<1> SUFFICES ASSUME MeteredInit PROVE Metered
  OBVIOUS
<1>1. Inv
  BY InitInv DEF MeteredInit
<1>2. NoCounts \in [Counters -> Nat] /\ \A d \in Decisions : NoCounts[d] = 0
  BY DEF NoCounts, Counters, Decisions
<1>3. MeterTypes
  BY <1>2 DEF MeteredInit, MeterTypes
<1>4. ASSUME NEW r \in Requests PROVE MeterInv(r)
  <2>1. write[r] = NoWrite /\ meter[r] = NoCounts /\ logged[r] = "none" /\ stage[r] = "new"
    BY DEF MeteredInit, Init
  <2> QED
    BY <1>2, <2>1 DEF MeterInv, NoWrite, Released, Decisions
<1> QED
  BY <1>1, <1>3, <1>4 DEF Metered

(* ... and every step keeps it.                                            *)
LEMMA NextMetered == Metered /\ [MeteredNext]_mvars => Metered'
<1> SUFFICES ASSUME Metered, [MeteredNext]_mvars PROVE Metered'
  OBVIOUS
<1>1. Inv'
  BY MeteredStep, NextInv DEF Metered
<1>2. ASSUME NEW r \in Requests, Uncounted(r), UNCHANGED meter, Begun PROVE Metered'
  BY <1>1, <1>2, PlainMeter, LoopMeter, GuardMeter, ReturnMeter, DatabaseMeter DEF Uncounted
<1>3. ASSUME NEW r \in Requests, Counted(r), Begun PROVE Metered'
  BY <1>1, <1>3, DatabaseMeter, ExhaustedMeter, PromotionMeter, RefusalMeter, ServedMeter
  DEF Counted
<1>4. ASSUME UNCHANGED <<stage, ctx, write, rows, meter, logged>> PROVE Metered'
  <2>1. \A r \in Requests : MeterInv(r)'
    BY <1>4 DEF Metered, MeterInv, WriteOver
  <2> QED
    BY <1>1, <1>4, <2>1 DEF Metered, MeterTypes
<1>5. CASE \E j \in Jtis : Revoke(j) /\ UNCHANGED <<meter, logged>>
  BY <1>4, <1>5 DEF Revoke, durable
<1>6. CASE Crash /\ Forgotten
  BY <1>1, <1>6, ForgottenMeter
<1>7. CASE UNCHANGED mvars
  BY <1>4, <1>7 DEF mvars, vars
<1> QED
  BY <1>2, <1>3, <1>5, <1>6, <1>7 DEF MeteredNext

(* metrics.service.ts and audit.service.ts: a lost audit row always moves  *)
(* audit_failures_total, and requests_total counts a request at most once, *)
(* under the decision it was audited with.                                 *)
THEOREM MeterTheorem == MeteredSpec => []LostRowsAreCounted
<1>1. Metered => LostRowsAreCounted
  <2> SUFFICES ASSUME Metered, NEW r \in Requests
               PROVE  /\ (logged[r] # "none" /\ WriteOver(r) /\ rows[r][logged[r]] = 0)
                           => meter[r].failures > 0
                      /\ meter[r].allow + meter[r].challenge + meter[r].deny <= 1
                      /\ \A d \in Decisions : meter[r][d] > 0 => logged[r] = d
    BY DEF LostRowsAreCounted
  <2>1. MeterInv(r)
    BY DEF Metered
  <2>2. /\ meter[r].failures = meter[r]["failures"] /\ meter[r].allow = meter[r]["allow"]
        /\ meter[r].challenge = meter[r]["challenge"] /\ meter[r].deny = meter[r]["deny"]
    OBVIOUS
  <2> QED
    BY <2>1, <2>2 DEF MeterInv
<1> QED
  BY <1>1, InitMetered, NextMetered, PTL DEF MeteredSpec

=============================================================================

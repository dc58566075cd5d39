----------------------- MODULE GatewayPipelineProofs -----------------------
(* Machine-checked proofs about GatewayPipeline, for any number of          *)
(* requests, any thresholds, any retry limit and any number of crashes.     *)
EXTENDS GatewayPipeline, TLAPS

-----------------------------------------------------------------------------
(* The inductive invariant, one request at a time *)

Released == {"proxy", "bopla_strip", "record_trust_context"}
Granted == {"audit_allow"} \cup Released
Decided == {"mfa_promotion"} \cup Granted
Worked == {"policy"} \cup Decided
Scored == {"trust_score", "hashcash"} \cup Worked
Authenticated == {"revocation", "auth_only"} \cup Scored
Writing == {"auth", "revocation", "auth_only", "mfa_promotion", "audit_allow", "answered"}

(* A write belongs to the stage that started it, or to a request that was  *)
(* answered by the timer; only allow writes throw.                         *)
WriteInv(r) ==
    /\ write[r].phase = "idle" => write[r] = NoWrite
    /\ write[r].phase # "idle" => stage[r] \in Writing /\ write[r].decision \in Decisions
    /\ write[r].phase # "idle" /\ stage[r] = "answered" => write[r].timedOut
    /\ write[r].phase # "idle" /\ stage[r] \in {"auth_only", "audit_allow"} =>
         write[r].decision = "allow"
    /\ write[r].phase # "idle" /\ stage[r] \in {"auth", "revocation", "mfa_promotion"} =>
         write[r].decision # "allow"
    /\ write[r].phase = "thrown" => write[r].decision = "allow"
    /\ stage[r] = "audit_allow" => ~write[r].timedOut

(* The allow row is there before the proxy stage is entered, where the     *)
(* retry loop starts that puts the request on the wire; the stages after   *)
(* it work on a request that was sent and whose loop is over.              *)
AuditInv(r) ==
    /\ stage[r] = "audit_allow" /\ write[r].phase = "done" => rows[r]["allow"] >= 1
    /\ stage[r] \in Released => rows[r]["allow"] >= 1
    /\ r \in forwarded => stage[r] \in Released \cup {"answered"} /\ rows[r]["allow"] >= 1
    /\ r \in loops => stage[r] \in {"proxy", "answered"} /\ rows[r]["allow"] >= 1
    /\ stage[r] = "proxy" /\ r \in forwarded => r \in loops
    /\ stage[r] \in {"bopla_strip", "record_trust_context"} => r \in forwarded

(* Each attempt leaves at most one row, and a request makes one write.     *)
TrailInv(r) ==
    /\ write[r].phase = "idle" /\ stage[r] \notin Released \cup {"answered"} => rows[r] = NoRows
    /\ write[r].phase = "running" =>
         /\ rows[r]["allow"] <= write[r].attempt
         /\ rows[r]["deny"] = 0 /\ rows[r]["challenge"] = 0
         /\ write[r].decision # "allow" => rows[r]["allow"] = 0
    /\ rows[r]["allow"] <= WalMaxRetries
    /\ rows[r]["deny"] + rows[r]["challenge"] <= 1
    /\ rows[r]["allow"] > 0 => rows[r]["deny"] + rows[r]["challenge"] = 0

(* An answer ends the request; only an auth-only endpoint's answer leaves  *)
(* an allow write behind, and only the breaker's timer a retry loop.       *)
AnswerInv(r) ==
    /\ response[r] # "none" <=> stage[r] = "answered"
    /\ stage[r] = "answered" /\ write[r].phase # "idle" /\ write[r].decision = "allow" =>
         response[r] = "bypass"
    /\ response[r] = "audit_unavailable" =>
         r \notin forwarded /\ r \notin loops /\ "audit.signal" \in signals[r]
    /\ stage[r] = "answered" /\ r \in loops => response[r] = "proxy_unavailable"

(* What each stage has established once it is passed.                      *)
CauseInv(r) ==
    /\ stage[r] \in {"public_bypass", "honeypot_bypass", "auth", "revocation", "auth_only"} =>
         req[r].path # "preflight"
    /\ stage[r] = "honeypot_bypass" => req[r].path # "public"
    /\ stage[r] \in {"auth"} \cup Authenticated => req[r].path \notin {"public", "honeypot"}
    /\ stage[r] \in Authenticated => req[r].token
    /\ stage[r] \in Scored => req[r].path = "service"
    /\ stage[r] \in Worked => (ctx[r].score > HashTrigger => req[r].pow)
    /\ stage[r] \in Decided /\ ctx[r].decision # "DENY" =>
         /\ ctx[r].casbin = "match"
         /\ \E l \in Levels :
              /\ ctx[r].score < DenyT[l]
              /\ ctx[r].decision = "ALLOW" => ctx[r].score < ChallengeT[l]
    /\ stage[r] \in Granted =>
         \/ ctx[r].decision = "ALLOW"
         \/ ctx[r].decision = "CHALLENGE" /\ ctx[r].promoted /\ req[r].mfa
    /\ r \in forwarded \/ r \in loops =>
         /\ req[r].path = "service" /\ req[r].token
         /\ ctx[r].score > HashTrigger => req[r].pow
         /\ ctx[r].casbin = "match"
         /\ \E l \in Levels : /\ ctx[r].score < DenyT[l]
                              /\ ctx[r].score < ChallengeT[l] \/ (ctx[r].promoted /\ req[r].mfa)

(* A request that arrived with a revoked token stays short of the stages   *)
(* after revocation; a crash forgets the token but answers the request.    *)
BarredInv(r) ==
    r \in barred =>
        /\ stage[r] \in {"public_bypass", "honeypot_bypass", "auth", "revocation", "answered"}
        /\ stage[r] # "answered" => req[r].jti \in revoked
        /\ r \notin forwarded /\ r \notin loops
        /\ response[r] = "bypass" => req[r].path \in {"public", "honeypot"}

(* Trust history follows the upstream answer, which follows the forward,   *)
(* and a write that reports success has stored its row.                    *)
TrustInv(r) ==
    /\ ctx[r].upstream # "none" =>
         r \in forwarded /\ stage[r] \in {"bopla_strip", "record_trust_context", "answered"}
    /\ r \in trustRows => /\ ctx[r].upstream = "2xx"
                          /\ stage[r] \in {"record_trust_context", "answered"}
    /\ ctx[r].trust = "ok" => r \in trustRows

RequestInv(r) ==
    /\ WriteInv(r) /\ AuditInv(r) /\ TrailInv(r) /\ AnswerInv(r)
    /\ CauseInv(r) /\ BarredInv(r) /\ TrustInv(r)

Inv == TypeOK /\ \A r \in Requests : RequestInv(r)

-----------------------------------------------------------------------------
(* Frame: a step of one request leaves the others as they were *)

Same(q) ==
    /\ stage'[q] = stage[q] /\ req'[q] = req[q] /\ ctx'[q] = ctx[q] /\ write'[q] = write[q]
    /\ rows'[q] = rows[q] /\ response'[q] = response[q] /\ signals'[q] = signals[q]
    /\ q \in forwarded' <=> q \in forwarded
    /\ q \in loops' <=> q \in loops
    /\ q \in trustRows' <=> q \in trustRows
    /\ q \in barred' <=> q \in barred

(* What one request has established does not depend on the others: only    *)
(* the acting request needs to be looked at.                               *)
LEMMA Frame ==
    ASSUME Inv, NEW r \in Requests, TypeOK', revoked' = revoked,
           \A q \in Requests \ {r} : Same(q),
           RequestInv(r)'
    PROVE  Inv'
<1> SUFFICES ASSUME NEW q \in Requests, q # r PROVE RequestInv(q)'
  BY DEF Inv
<1>1. Same(q) /\ RequestInv(q)
  BY DEF Inv
<1>2. WriteInv(q)' /\ AuditInv(q)' /\ TrailInv(q)' /\ AnswerInv(q)'
  BY <1>1 DEF Same, RequestInv, WriteInv, AuditInv, TrailInv, AnswerInv
<1>3. CauseInv(q)' /\ TrustInv(q)'
  BY <1>1 DEF Same, RequestInv, CauseInv, TrustInv
<1>4. BarredInv(q)'
  BY <1>1 DEF Same, RequestInv, BarredInv
<1> QED
  BY <1>2, <1>3, <1>4 DEF RequestInv

(* The order of gateway.module.ts, unfolded.                               *)
LEMMA StageOrder ==
    /\ NextStage["public_bypass"] = "honeypot_bypass" /\ NextStage["honeypot_bypass"] = "auth"
    /\ NextStage["auth"] = "revocation" /\ NextStage["revocation"] = "auth_only"
    /\ NextStage["auth_only"] = "trust_score" /\ NextStage["trust_score"] = "hashcash"
    /\ NextStage["hashcash"] = "policy" /\ NextStage["policy"] = "mfa_promotion"
    /\ NextStage["mfa_promotion"] = "audit_allow" /\ NextStage["audit_allow"] = "proxy"
    /\ NextStage["proxy"] = "bopla_strip" /\ NextStage["bopla_strip"] = "record_trust_context"
    /\ Stages = {"public_bypass", "honeypot_bypass", "auth", "revocation", "auth_only",
                 "trust_score", "hashcash", "policy", "mfa_promotion", "audit_allow", "proxy",
                 "bopla_strip", "record_trust_context"}
  BY DEF NextStage, Stages

StageNames == Stages \cup {"new", "answered"}
WriteStates == [phase : {"idle", "running", "done", "thrown"}, timedOut : BOOLEAN,
                decision : Decisions \cup {"none"}, attempt : 0..(WalMaxRetries - 1)]
Contexts == [score : Int, casbin : {"none", "match", "no_match", "error"},
             decision : {"none", "ALLOW", "CHALLENGE", "DENY"},
             promoted : BOOLEAN, upstream : {"none", "2xx", "4xx"},
             trust : {"none", "ok", "failed"}]
SignalNames == {"auth.invalid_token", "audit.signal", "policy.deny", "mfa.failed",
                "mfa.rate_limited"}

(* The orchestrator's loop moves one request to the next stage.            *)
LEMMA AdvanceStep ==
    ASSUME TypeOK, NEW r \in Requests, Advance(r), stage[r] \in Stages \ {"record_trust_context"}
    PROVE  /\ stage' \in [Requests -> StageNames]
           /\ stage'[r] = NextStage[stage[r]]
           /\ \A q \in Requests \ {r} : stage'[q] = stage[q]
  BY StageOrder DEF TypeOK, Advance, StageNames

(* An answer ends one request and only that one.                           *)
LEMMA RespondStep ==
    ASSUME TypeOK, NEW r \in Requests, NEW what \in Responses, Respond(r, what)
    PROVE  /\ stage' \in [Requests -> StageNames] /\ response' \in [Requests -> Responses]
           /\ stage'[r] = "answered" /\ response'[r] = what
           /\ \A q \in Requests \ {r} : stage'[q] = stage[q] /\ response'[q] = response[q]
  BY DEF TypeOK, Respond, StageNames

(* A write starts at its first attempt.                                    *)
LEMMA StartWriteStep ==
    ASSUME TypeOK, NEW r \in Requests, NEW d \in Decisions, StartWrite(r, d)
    PROVE  /\ write' \in [Requests -> WriteStates]
           /\ write'[r].phase = "running" /\ write'[r].decision = d
           /\ write'[r].attempt = 0 /\ write'[r].timedOut = FALSE
           /\ \A q \in Requests \ {r} : write'[q] = write[q]
  BY PipelineAssumption DEF TypeOK, StartWrite, WriteStates

(* A request that goes on forgets a finished write and leaves a running    *)
(* one behind.                                                             *)
LEMMA SettleStep ==
    ASSUME TypeOK, NEW r \in Requests, Settle(r)
    PROVE  /\ write' \in [Requests -> WriteStates]
           /\ write[r].phase = "running" => write'[r] = write[r]
           /\ write[r].phase # "running" => write'[r] = NoWrite
           /\ \A q \in Requests \ {r} : write'[q] = write[q]
<1>1. NoWrite \in WriteStates
  BY PipelineAssumption DEF NoWrite, WriteStates
<1> QED
  BY <1>1 DEF TypeOK, Settle, WriteStates

(* A threat signal is raised for one request.                              *)
LEMMA EmitStep ==
    ASSUME TypeOK, NEW r \in Requests, NEW s \in SignalNames, Emit(r, s)
    PROVE  /\ signals' \in [Requests -> SUBSET SignalNames]
           /\ signals'[r] = signals[r] \cup {s}
           /\ \A q \in Requests \ {r} : signals'[q] = signals[q]
  BY DEF TypeOK, Emit, SignalNames

-----------------------------------------------------------------------------
(* The shapes a step of a request can take *)

(* signals' raises nothing but signals of request r.                       *)
Raised(r) ==
    /\ signals' \in [Requests -> SUBSET SignalNames]
    /\ signals[r] \subseteq signals'[r]
    /\ \A q \in Requests \ {r} : signals'[q] = signals[q]

(* A stage that must audit starts its write and waits.                     *)
LEMMA WriteStarts ==
    ASSUME Inv, NEW r \in Requests, NEW d \in Decisions,
           stage[r] \in {"auth", "revocation", "auth_only", "mfa_promotion", "audit_allow"},
           d = "allow" <=> stage[r] \in {"auth_only", "audit_allow"},
           write[r].phase = "idle", StartWrite(r, d), Raised(r),
           UNCHANGED <<stage, req, ctx, rows, revoked, response, forwarded, loops, trustRows, barred,
                       crashes>>
    PROVE  Inv'
<1>1. TypeOK /\ RequestInv(r)
  BY DEF Inv
<1>2. /\ write' \in [Requests -> WriteStates] /\ write'[r].phase = "running"
      /\ write'[r].decision = d /\ write'[r].attempt = 0 /\ write'[r].timedOut = FALSE
      /\ \A q \in Requests \ {r} : write'[q] = write[q]
  BY <1>1, StartWriteStep
<1>3. TypeOK' /\ \A q \in Requests \ {r} : Same(q)
  BY <1>1, <1>2 DEF TypeOK, Same, WriteStates, Raised, SignalNames
<1>4. WriteInv(r)' /\ AuditInv(r)'
  BY <1>1, <1>2 DEF RequestInv, WriteInv, AuditInv, Released, Writing
<1>5. TrailInv(r)' /\ AnswerInv(r)'
  BY <1>1, <1>2, PipelineAssumption
  DEF RequestInv, TrailInv, AnswerInv, Released, NoRows, Decisions, Raised
<1>6. CauseInv(r)' /\ BarredInv(r)' /\ TrustInv(r)'
  BY <1>1 DEF RequestInv, CauseInv, BarredInv, TrustInv
<1> QED
  BY <1>3, <1>4, <1>5, <1>6, Frame DEF RequestInv

(* A stage answers the request; the proxy stage may leave its retry loop   *)
(* running, but only with the answer of the breaker's timer.               *)
AnswerStep(r, what) ==
    /\ what \in Responses \ {"none", "audit_unavailable"} /\ Respond(r, what)
    /\ stage[r] \in Stages \cup {"new"}
    /\ \/ write[r].phase = "idle" /\ UNCHANGED write
       \/ WriteReturned(r) /\ Settle(r)
    /\ what = "bypass" /\ r \in barred => req[r].path \in {"public", "honeypot"}
    /\ stage[r] = "auth_only" => what = "bypass"
    /\ \/ UNCHANGED loops /\ (stage[r] = "proxy" => what = "proxy_unavailable")
       \/ stage[r] = "proxy" /\ loops' = loops \ {r}
    /\ Raised(r)
    /\ UNCHANGED <<req, ctx, rows, forwarded, trustRows, revoked, barred, crashes>>

(* Such a step keeps the invariant.                                        *)
LEMMA Answers ==
    ASSUME Inv, NEW r \in Requests, NEW what, AnswerStep(r, what)
    PROVE  Inv'
<1> USE DEF AnswerStep
<1>1. TypeOK /\ RequestInv(r)
  BY DEF Inv
<1>2. /\ stage' \in [Requests -> StageNames] /\ response' \in [Requests -> Responses]
      /\ stage'[r] = "answered" /\ response'[r] = what
      /\ \A q \in Requests \ {r} : stage'[q] = stage[q] /\ response'[q] = response[q]
  BY <1>1, RespondStep
<1>3. /\ write' \in [Requests -> WriteStates]
      /\ \/ write'[r] = NoWrite
         \/ write'[r] = write[r] /\ write[r].phase = "running" /\ write[r].timedOut
      /\ \A q \in Requests \ {r} : write'[q] = write[q]
  BY <1>1, SettleStep DEF TypeOK, WriteStates, WriteReturned, RequestInv, WriteInv
<1>4. TypeOK' /\ \A q \in Requests \ {r} : Same(q)
  BY <1>1, <1>2, <1>3 DEF TypeOK, Same, WriteStates, StageNames, Raised, SignalNames
<1>5. WriteInv(r)'
  BY <1>1, <1>2, <1>3 DEF RequestInv, WriteInv, Writing, NoWrite
<1>6. AuditInv(r)'
  BY <1>1, <1>2 DEF RequestInv, AuditInv, Released
<1>10. AnswerInv(r)'
  <2>1. write'[r].phase # "idle" /\ write'[r].decision = "allow" => stage[r] = "auth_only"
    BY <1>1, <1>3, StageOrder DEF RequestInv, WriteInv, NoWrite, Writing
  <2>2. r \in loops' => what = "proxy_unavailable"
    BY <1>1, StageOrder DEF RequestInv, AuditInv
  <2> QED
    BY <1>2, <2>1, <2>2 DEF AnswerInv
<1>7. TrailInv(r)'
  BY <1>1, <1>2, <1>3 DEF RequestInv, TrailInv, NoWrite
<1>8. CauseInv(r)'
  BY <1>1, <1>2 DEF RequestInv, CauseInv, Authenticated, Scored, Worked, Decided, Granted, Released
<1>9. BarredInv(r)' /\ TrustInv(r)'
  BY <1>1, <1>2, StageOrder DEF RequestInv, BarredInv, TrustInv, AuditInv
<1> QED
  BY <1>4, <1>5, <1>6, <1>7, <1>8, <1>9, <1>10, Frame DEF RequestInv

(* A stage lets the request go on to the next one, having established what *)
(* the next stage may rely on.                                             *)
MoveStep(r) ==
    /\ Advance(r) /\ At(r, stage[r])
    /\ stage[r] \in Stages \ {"audit_allow", "record_trust_context"}
    /\ stage[r] = "proxy" => r \in forwarded
    /\ loops' = IF stage[r] = "proxy" THEN loops \ {r} ELSE loops
    /\ ctx' \in [Requests -> Contexts] /\ \A q \in Requests \ {r} : ctx'[q] = ctx[q]
    /\ Raised(r) /\ CauseInv(r)' /\ BarredInv(r)' /\ TrustInv(r)'
    /\ UNCHANGED <<req, write, rows, revoked, response, forwarded, trustRows, barred, crashes>>

(* Such a step keeps the invariant.                                        *)
LEMMA Moves ==
    ASSUME Inv, NEW r \in Requests, MoveStep(r)
    PROVE  Inv'
<1> USE DEF MoveStep
<1>1. TypeOK /\ RequestInv(r) /\ write[r].phase = "idle"
  BY DEF Inv, At
<1>2. /\ stage' \in [Requests -> StageNames] /\ stage'[r] = NextStage[stage[r]]
      /\ \A q \in Requests \ {r} : stage'[q] = stage[q]
  BY <1>1, AdvanceStep
<1>3. TypeOK' /\ \A q \in Requests \ {r} : Same(q)
  BY <1>1, <1>2 DEF TypeOK, Same, Contexts, StageNames, Raised, SignalNames
<1>4. stage'[r] \notin {"new", "answered", "proxy"}
      /\ (stage'[r] \in Released <=> stage[r] \in {"proxy", "bopla_strip"})
  BY <1>2, StageOrder DEF Released
<1>5. WriteInv(r)'
  BY <1>1, <1>4 DEF RequestInv, WriteInv, NoWrite
<1>6. AuditInv(r)'
  BY <1>1, <1>2, <1>4, StageOrder DEF RequestInv, AuditInv, Released
<1>7. TrailInv(r)' /\ AnswerInv(r)'
  BY <1>1, <1>4, StageOrder DEF RequestInv, TrailInv, AnswerInv, Released, Raised
<1> QED
  BY <1>3, <1>5, <1>6, <1>7, Frame DEF RequestInv

-----------------------------------------------------------------------------
(* The stages *)

(* The unchanged context and signals of most stages.                       *)
LEMMA Quiet ==
    ASSUME TypeOK, NEW r \in Requests
    PROVE  /\ UNCHANGED signals => Raised(r)
           /\ UNCHANGED ctx => /\ ctx' \in [Requests -> Contexts]
                               /\ \A q \in Requests \ {r} : ctx'[q] = ctx[q]
           /\ \A s \in SignalNames : Emit(r, s) => Raised(r)
<1>1. UNCHANGED signals => Raised(r)
  BY DEF TypeOK, Raised, SignalNames
<1>2. UNCHANGED ctx => /\ ctx' \in [Requests -> Contexts]
                       /\ \A q \in Requests \ {r} : ctx'[q] = ctx[q]
  BY DEF TypeOK, Contexts
<1>3. ASSUME NEW s \in SignalNames, Emit(r, s) PROVE Raised(r)
  BY <1>3, EmitStep DEF Raised
<1> QED
  BY <1>1, <1>2, <1>3

(* What the stages before policy add to the cause of a forward: nothing in *)
(* the context, so the next stage's facts follow from this stage's test.   *)
LEMMA PlainMove ==
    ASSUME Inv, NEW r \in Requests, At(r, stage[r]), Advance(r),
           stage[r] \in {"public_bypass", "honeypot_bypass", "auth", "revocation", "auth_only",
                         "hashcash", "bopla_strip"},
           stage[r] = "public_bypass" => req[r].path # "public",
           stage[r] = "honeypot_bypass" => req[r].path # "honeypot",
           stage[r] = "auth" => req[r].token,
           stage[r] = "revocation" => req[r].jti \notin revoked,
           stage[r] = "auth_only" => req[r].path # "auth_only",
           stage[r] = "hashcash" => (ctx[r].score <= HashTrigger \/ req[r].pow),
           UNCHANGED <<req, ctx, write, rows, revoked, response, forwarded, loops, trustRows, signals,
                       barred, crashes>>
    PROVE  Inv'
<1>1. TypeOK /\ RequestInv(r)
  BY DEF Inv
<1>2. stage'[r] = NextStage[stage[r]] /\ stage[r] \in Stages \ {"audit_allow", "record_trust_context"}
  BY <1>1, AdvanceStep, StageOrder
<1>3. ctx[r].score \in Int /\ HashTrigger \in Int /\ req[r].path \in Paths
  BY <1>1, PipelineAssumption DEF TypeOK
<1>4. CauseInv(r)'
  BY <1>1, <1>2, <1>3, StageOrder
  DEF RequestInv, CauseInv, Paths, Authenticated, Scored, Worked, Decided, Granted, Released
<1>5. BarredInv(r)' /\ TrustInv(r)'
  BY <1>1, <1>2, StageOrder DEF RequestInv, BarredInv, TrustInv, AnswerInv
<1>6. /\ Raised(r) /\ ctx' \in [Requests -> Contexts]
      /\ \A q \in Requests \ {r} : ctx'[q] = ctx[q]
  BY <1>1, Quiet
<1>7. MoveStep(r)
  BY <1>2, <1>4, <1>5, <1>6 DEF MoveStep
<1> QED
  BY <1>7, Moves

(* PublicBypassStage and HoneypotBypassStage.                              *)
LEMMA BypassInv ==
    ASSUME Inv, NEW r \in Requests, PublicBypass(r) \/ HoneypotBypass(r) PROVE Inv'
<1> USE DEF durable, downstream, world
<1> DEFINE s == stage[r]
<1>1. TypeOK /\ RequestInv(r) /\ s \in {"public_bypass", "honeypot_bypass"}
  BY DEF Inv, PublicBypass, HoneypotBypass, Bypass, At
<1>2. /\ At(r, s)
      /\ UNCHANGED <<req, ctx, write, rows, trustRows, forwarded, loops, signals, revoked, barred, crashes>>
      /\ \/ Respond(r, "bypass") /\ req[r].path \in {"public", "honeypot"}
         \/ /\ Advance(r) /\ UNCHANGED response
            /\ s = "public_bypass" => req[r].path # "public"
            /\ s = "honeypot_bypass" => req[r].path # "honeypot"
  BY DEF PublicBypass, HoneypotBypass, Bypass, At
<1>3. CASE Advance(r) /\ UNCHANGED response /\ (s = "public_bypass" => req[r].path # "public")
           /\ (s = "honeypot_bypass" => req[r].path # "honeypot")
  BY <1>1, <1>2, <1>3, PlainMove
<1>4. CASE Respond(r, "bypass") /\ req[r].path \in {"public", "honeypot"}
  <2>1. "bypass" \in Responses \ {"none", "audit_unavailable"}
    BY DEF Responses, Refusals
  <2>2. stage[r] \in Stages /\ write[r].phase = "idle" /\ Raised(r)
    BY <1>1, <1>2, Quiet, StageOrder DEF At
  <2>3. AnswerStep(r, "bypass")
    BY <1>1, <1>2, <1>4, <2>1, <2>2 DEF AnswerStep
  <2> QED
    BY <2>3, Answers
<1> QED
  BY <1>2, <1>3, <1>4

(* AuthStage, RevocationStage and AuthOnlyShortCircuitStage: pass or start *)
(* the audit write.                                                        *)
LEMMA GateInv ==
    ASSUME Inv, NEW r \in Requests, Auth(r) \/ Revocation(r) \/ AuthOnly(r) PROVE Inv'
<1> USE DEF durable, downstream, world
<1>1. TypeOK /\ stage[r] \in {"auth", "revocation", "auth_only"}
  BY DEF Inv, Auth, Revocation, AuthOnly, At
<1>2. /\ At(r, stage[r]) /\ write[r].phase = "idle"
      /\ UNCHANGED <<req, ctx, rows, trustRows, response, forwarded, loops, signals, revoked, barred, crashes>>
      /\ \/ /\ Advance(r) /\ UNCHANGED write
            /\ stage[r] = "auth" => req[r].token
            /\ stage[r] = "revocation" => req[r].jti \notin revoked
            /\ stage[r] = "auth_only" => req[r].path # "auth_only"
         \/ \E d \in Decisions : /\ StartWrite(r, d) /\ UNCHANGED stage
                                 /\ d = "allow" <=> stage[r] = "auth_only"
  BY DEF Auth, Revocation, AuthOnly, At, Decisions
<1>3. CASE /\ Advance(r) /\ UNCHANGED write
           /\ stage[r] = "auth" => req[r].token
           /\ stage[r] = "revocation" => req[r].jti \notin revoked
           /\ stage[r] = "auth_only" => req[r].path # "auth_only"
  BY <1>1, <1>2, <1>3, PlainMove
<1>4. ASSUME NEW d \in Decisions, StartWrite(r, d), UNCHANGED stage, d = "allow" <=> stage[r] = "auth_only"
      PROVE  Inv'
  BY <1>1, <1>2, <1>4, WriteStarts, Quiet
<1> QED
  BY <1>2, <1>3, <1>4

(* Their refusals, and the auth-only bypass, once the write returned.      *)
LEMMA RefusalInv ==
    ASSUME Inv, NEW r \in Requests, AuthRefused(r) \/ RevocationRefused(r) \/ AuthOnlyBypass(r)
    PROVE  Inv'
<1> USE DEF durable, downstream, world
<1>1. TypeOK /\ RequestInv(r)
  BY DEF Inv
<1>2. /\ stage[r] \in Stages \ {"proxy"} /\ WriteReturned(r) /\ Settle(r)
      /\ UNCHANGED <<req, ctx, rows, trustRows, forwarded, loops, revoked, barred, crashes>>
  BY StageOrder DEF AuthRefused, RevocationRefused, AuthOnlyBypass
<1>3. \/ Respond(r, "auth_invalid") /\ Emit(r, "auth.invalid_token") /\ stage[r] # "auth_only"
      \/ Respond(r, "token_revoked") /\ UNCHANGED signals /\ stage[r] # "auth_only"
      \/ Respond(r, "bypass") /\ UNCHANGED signals /\ stage[r] = "auth_only"
  BY DEF AuthRefused, RevocationRefused, AuthOnlyBypass
<1>4. Raised(r)
  BY <1>1, <1>3, Quiet DEF SignalNames
<1>5. stage[r] = "auth_only" => r \notin barred
  BY <1>1 DEF RequestInv, BarredInv
<1>6. PICK what \in {"auth_invalid", "token_revoked", "bypass"} :
         /\ Respond(r, what) /\ (what = "bypass" => r \notin barred)
         /\ stage[r] = "auth_only" => what = "bypass"
  BY <1>3, <1>5
<1>7. what \in Responses \ {"none", "audit_unavailable"}
  BY DEF Responses, Refusals
<1>8. AnswerStep(r, what)
  BY <1>2, <1>4, <1>6, <1>7 DEF AnswerStep
<1> QED
  BY <1>8, Answers

(* HashcashStage: pass or issue a puzzle.                                  *)
LEMMA HashcashInv ==
    ASSUME Inv, NEW r \in Requests, Hashcash(r) PROVE Inv'
<1> USE DEF durable, downstream, world
<1>1. TypeOK /\ At(r, stage[r]) /\ write[r].phase = "idle" /\ stage[r] = "hashcash"
  BY DEF Inv, Hashcash, At
<1>2. CASE Advance(r) /\ UNCHANGED response /\ (ctx[r].score <= HashTrigger \/ req[r].pow)
  BY <1>1, <1>2, PlainMove DEF Hashcash
<1>3. CASE Respond(r, "proof_of_work")
  <2>1. "proof_of_work" \in Responses \ {"none", "audit_unavailable"}
    BY DEF Responses, Refusals
  <2>2. /\ stage[r] \in Stages /\ Raised(r)
        /\ UNCHANGED <<req, ctx, rows, revoked, barred, crashes, forwarded, loops, trustRows, write>>
    BY <1>1, Quiet, StageOrder DEF Hashcash
  <2>3. AnswerStep(r, "proof_of_work")
    BY <1>1, <1>3, <2>1, <2>2 DEF AnswerStep
  <2> QED
    BY <2>3, Answers
<1> QED
  BY <1>2, <1>3 DEF Hashcash

(* TrustScoreStage.                                                        *)
LEMMA TrustScoreInv ==
    ASSUME Inv, NEW r \in Requests, TrustScore(r) PROVE Inv'
<1> USE DEF durable, downstream, world
<1>1. TypeOK /\ RequestInv(r) /\ At(r, stage[r]) /\ stage[r] = "trust_score" /\ Advance(r)
  BY DEF Inv, TrustScore, At
<1>2. PICK score \in Scores : ctx' = [ctx EXCEPT ![r].score = score]
  BY DEF TrustScore
<1>3. /\ ctx' \in [Requests -> Contexts] /\ \A q \in Requests \ {r} : ctx'[q] = ctx[q]
      /\ ctx'[r].upstream = ctx[r].upstream
  <2>1. score \in Int /\ ctx \in [Requests -> Contexts]
    BY <1>1, PipelineAssumption DEF TypeOK, Contexts
  <2>2. [ctx[r] EXCEPT !.score = score] \in Contexts
        /\ [ctx[r] EXCEPT !.score = score].upstream = ctx[r].upstream
    BY <2>1 DEF Contexts
  <2> QED
    BY <1>2, <2>1, <2>2
<1>4. stage'[r] = "hashcash"
  BY <1>1, AdvanceStep, StageOrder
<1>5. CauseInv(r)' /\ BarredInv(r)' /\ TrustInv(r)'
  BY <1>1, <1>3, <1>4
  DEF TrustScore, RequestInv, CauseInv, BarredInv, TrustInv, AuditInv, Authenticated, Scored, Worked, Decided, Granted, Released
<1>6. /\ Raised(r) /\ stage[r] \in Stages \ {"audit_allow", "record_trust_context"}
      /\ UNCHANGED <<req, write, rows, revoked, response, forwarded, loops, trustRows, barred, crashes>>
  BY <1>1, Quiet, StageOrder DEF TrustScore
<1>7. MoveStep(r)
  BY <1>1, <1>3, <1>5, <1>6 DEF MoveStep
<1> QED
  BY <1>7, Moves

(* PolicyStage: the decision is justified by the level of the second read, *)
(* for which the challenge threshold is not lower.                         *)
LEMMA PolicyInv ==
    ASSUME Inv, NEW r \in Requests, Policy(r) PROVE Inv'
<1> USE DEF durable, downstream, world
<1>1. TypeOK /\ RequestInv(r) /\ At(r, stage[r]) /\ stage[r] = "policy" /\ Advance(r)
  BY DEF Inv, Policy, At
<1>2. PICK casbin \in {"match", "no_match", "error"}, k, l \in Levels :
        /\ MayCool(k, l)
        /\ ctx' = [ctx EXCEPT ![r].decision = Decide(ctx[r].score, casbin, k, l), ![r].casbin = casbin]
        /\ signals' = IF Decide(ctx[r].score, casbin, k, l) = "DENY"
                      THEN [signals EXCEPT ![r] = @ \cup {"policy.deny"}] ELSE signals
  BY DEF Policy
<1> DEFINE d == Decide(ctx[r].score, casbin, k, l)
<1>3. /\ d \in {"ALLOW", "CHALLENGE", "DENY"}
      /\ d # "DENY" => casbin = "match" /\ ctx[r].score < DenyT[l]
      /\ d = "ALLOW" => ctx[r].score < ChallengeT[l]
  BY <1>1, <1>2, PipelineAssumption DEF Decide, MayCool, TypeOK, Contexts
<1> HIDE DEF d
<1>4. /\ ctx' \in [Requests -> Contexts] /\ \A q \in Requests \ {r} : ctx'[q] = ctx[q]
      /\ ctx'[r].upstream = ctx[r].upstream /\ ctx'[r].score = ctx[r].score
      /\ ctx'[r].decision = d /\ ctx'[r].casbin = casbin
  <2> DEFINE c == [ctx[r] EXCEPT !.decision = d, !.casbin = casbin]
  <2>1. ctx \in [Requests -> Contexts] /\ ctx' = [ctx EXCEPT ![r] = c]
    BY <1>1, <1>2 DEF TypeOK, Contexts, d
  <2>2. /\ c \in Contexts /\ c.upstream = ctx[r].upstream /\ c.score = ctx[r].score
        /\ c.decision = d /\ c.casbin = casbin
    BY <1>3, <2>1 DEF Contexts
  <2> QED
    BY <2>1, <2>2
<1>5. Raised(r)
  BY <1>1, <1>2, Quiet DEF Emit, SignalNames
<1>6. stage'[r] = "mfa_promotion"
  BY <1>1, AdvanceStep, StageOrder
<1>7. CauseInv(r)' /\ BarredInv(r)' /\ TrustInv(r)'
  BY <1>1, <1>3, <1>4, <1>6
  DEF Policy, RequestInv, CauseInv, BarredInv, TrustInv, AuditInv, Authenticated, Scored, Worked, Decided, Granted, Released
<1>8. /\ stage[r] \in Stages \ {"audit_allow", "record_trust_context"}
      /\ UNCHANGED <<req, write, rows, revoked, response, forwarded, loops, trustRows, barred, crashes>>
  BY <1>1, StageOrder DEF Policy
<1>9. MoveStep(r)
  BY <1>1, <1>4, <1>5, <1>7, <1>8 DEF MoveStep
<1> QED
  BY <1>9, Moves

(* MfaPromotionStage: pass, promote, or start the audit write.             *)
LEMMA MfaPromotionInv ==
    ASSUME Inv, NEW r \in Requests, MfaPromotion(r) PROVE Inv'
<1> USE DEF durable, downstream, world
<1>1. /\ TypeOK /\ RequestInv(r) /\ At(r, stage[r]) /\ stage[r] = "mfa_promotion"
      /\ write[r].phase = "idle" /\ stage[r] \in Stages \ {"audit_allow", "record_trust_context"}
      /\ UNCHANGED <<req, rows, trustRows, response, forwarded, loops, revoked, barred, crashes>>
  BY StageOrder DEF Inv, MfaPromotion, At
<1>2. ASSUME Advance(r), UNCHANGED <<write, signals>>, ctx' \in [Requests -> Contexts],
             \A q \in Requests \ {r} : ctx'[q] = ctx[q],
             \/ ctx'[r] = ctx[r] /\ ctx[r].decision = "ALLOW"
             \/ /\ ctx[r].decision = "CHALLENGE" /\ req[r].mfa
                /\ ctx'[r] = [ctx[r] EXCEPT !.promoted = TRUE]
      PROVE  Inv'
  <2>1. stage'[r] = "audit_allow"
    BY <1>1, <1>2, AdvanceStep, StageOrder
  <2>2. ctx[r] \in Contexts
    BY <1>1 DEF TypeOK, Contexts
  <2>3. /\ ctx'[r].score = ctx[r].score /\ ctx'[r].casbin = ctx[r].casbin
        /\ ctx'[r].decision = ctx[r].decision /\ ctx'[r].upstream = ctx[r].upstream
        /\ ctx'[r].trust = ctx[r].trust
        /\ ctx[r].decision = "CHALLENGE" => ctx'[r].promoted
    BY <1>2, <2>2 DEF Contexts
  <2>4. CauseInv(r)'
    BY <1>1, <1>2, <2>1, <2>3
    DEF RequestInv, CauseInv, AuditInv, Authenticated, Scored, Worked, Decided, Granted, Released
  <2>5. BarredInv(r)' /\ TrustInv(r)'
    BY <1>1, <1>2, <2>1, <2>3 DEF RequestInv, BarredInv, TrustInv
  <2>6. MoveStep(r)
    BY <1>1, <1>2, <2>4, <2>5, Quiet DEF MoveStep
  <2> QED
    BY <2>6, Moves
<1>3. CASE ctx[r].decision = "ALLOW" /\ Advance(r) /\ UNCHANGED <<ctx, write, signals>>
  BY <1>1, <1>2, <1>3, Quiet
<1>4. CASE /\ ctx[r].decision = "CHALLENGE" /\ req[r].mfa
           /\ ctx' = [ctx EXCEPT ![r].promoted = TRUE]
           /\ Advance(r) /\ UNCHANGED <<write, signals>>
  <2>1. ctx \in [Requests -> Contexts]
    BY <1>1 DEF TypeOK, Contexts
  <2>2. [ctx[r] EXCEPT !.promoted = TRUE] \in Contexts
    BY <2>1 DEF Contexts
  <2>3. /\ ctx' \in [Requests -> Contexts] /\ \A q \in Requests \ {r} : ctx'[q] = ctx[q]
        /\ ctx'[r] = [ctx[r] EXCEPT !.promoted = TRUE]
    BY <1>4, <2>1, <2>2
  <2> QED
    BY <1>2, <1>4, <2>3
<1>5. CASE /\ \E d \in {"deny", "challenge"} : StartWrite(r, d)
           /\ UNCHANGED <<stage, ctx>> /\ (UNCHANGED signals \/ Emit(r, "mfa.failed"))
  <2>1. PICK d \in {"deny", "challenge"} : StartWrite(r, d)
    BY <1>5
  <2>2. Raised(r)
    BY <1>1, <1>5, Quiet DEF SignalNames
  <2> QED
    BY <1>1, <1>5, <2>1, <2>2, WriteStarts DEF Decisions
<1> QED
  BY <1>3, <1>4, <1>5 DEF MfaPromotion

(* Its refusals, once the write returned.                                  *)
LEMMA MfaRefusedInv ==
    ASSUME Inv, NEW r \in Requests, MfaRefused(r) PROVE Inv'
<1> USE DEF durable, downstream, world
<1>1. /\ TypeOK /\ stage[r] \in Stages \ {"auth_only", "proxy"} /\ WriteReturned(r) /\ Settle(r)
      /\ UNCHANGED <<req, ctx, rows, trustRows, forwarded, loops, revoked, barred, crashes>>
  BY StageOrder DEF Inv, MfaRefused
<1>2. PICK what \in {"policy_denied", "mfa_required", "mfa_rate_limited", "mfa_internal"} :
         Respond(r, what)
  BY DEF MfaRefused
<1>3. Raised(r)
  <2>1. UNCHANGED signals \/ Emit(r, "mfa.rate_limited")
    BY DEF MfaRefused, Emit
  <2> QED
    BY <1>1, <2>1, Quiet DEF SignalNames
<1>4. what \in Responses \ {"none", "audit_unavailable", "bypass"}
  BY DEF Responses, Refusals
<1>5. AnswerStep(r, what)
  BY <1>1, <1>2, <1>3, <1>4 DEF AnswerStep
<1> QED
  BY <1>5, Answers

(* AuditAllowStage starts the fail-closed write.                           *)
LEMMA AuditAllowInv ==
    ASSUME Inv, NEW r \in Requests, AuditAllow(r) PROVE Inv'
<1>1. /\ TypeOK /\ stage[r] = "audit_allow" /\ write[r].phase = "idle" /\ StartWrite(r, "allow")
      /\ UNCHANGED <<stage, req, ctx, rows, trustRows, response, forwarded, loops, signals, revoked, barred, crashes>>
  BY DEF Inv, AuditAllow, At, durable, downstream, world
<1>2. Raised(r) /\ "allow" \in Decisions
  BY <1>1, Quiet DEF Decisions
<1> QED
  BY <1>1, <1>2, WriteStarts

(* ... and lets the request on to the proxy only when log() returned.      *)
LEMMA AuditAllowedInv ==
    ASSUME Inv, NEW r \in Requests, AuditAllowed(r) PROVE Inv'
<1>1. /\ TypeOK /\ RequestInv(r) /\ stage[r] = "audit_allow" /\ write[r].phase = "done"
      /\ Advance(r) /\ Settle(r)
      /\ UNCHANGED <<req, ctx, rows, trustRows, response, forwarded, loops, signals, revoked, barred, crashes>>
  BY DEF Inv, AuditAllowed, durable, downstream, world
<1>2. /\ stage' \in [Requests -> StageNames] /\ stage'[r] = "proxy"
      /\ \A q \in Requests \ {r} : stage'[q] = stage[q]
  BY <1>1, AdvanceStep, StageOrder
<1>3. /\ write' \in [Requests -> WriteStates] /\ write'[r] = NoWrite
      /\ \A q \in Requests \ {r} : write'[q] = write[q]
  BY <1>1, SettleStep
<1>4. TypeOK' /\ \A q \in Requests \ {r} : Same(q)
  BY <1>1, <1>2, <1>3 DEF TypeOK, Same, WriteStates, StageNames
<1>5. WriteInv(r)' /\ AuditInv(r)'
  BY <1>1, <1>2, <1>3 DEF RequestInv, WriteInv, AuditInv, NoWrite, Released
<1>6. TrailInv(r)' /\ AnswerInv(r)'
  BY <1>1, <1>2, <1>3 DEF RequestInv, TrailInv, AnswerInv, NoWrite, Released
<1>7. CauseInv(r)' /\ BarredInv(r)' /\ TrustInv(r)'
  BY <1>1, <1>2
  DEF RequestInv, CauseInv, BarredInv, TrustInv, Authenticated, Scored, Worked, Decided, Granted, Released
<1> QED
  BY <1>1, <1>4, <1>5, <1>6, <1>7, Frame DEF RequestInv

(* handleTerminalError: an exhausted allow write was not forwarded.        *)
LEMMA AuditExhaustedInv ==
    ASSUME Inv, NEW r \in Requests, AuditExhausted(r) PROVE Inv'
<1>1. /\ TypeOK /\ RequestInv(r) /\ write[r].phase = "thrown" /\ ~write[r].timedOut
      /\ Emit(r, "audit.signal") /\ Respond(r, "audit_unavailable")
      /\ write' = [write EXCEPT ![r] = NoWrite]
      /\ UNCHANGED <<req, ctx, rows, trustRows, forwarded, loops, revoked, barred, crashes>>
  BY DEF Inv, AuditExhausted, durable, downstream, world
<1>2. stage[r] \in {"auth_only", "audit_allow"} /\ r \notin forwarded /\ r \notin loops
  BY <1>1 DEF RequestInv, WriteInv, AuditInv, Writing, Released
<1>3. /\ stage' \in [Requests -> StageNames] /\ response' \in [Requests -> Responses]
      /\ stage'[r] = "answered" /\ response'[r] = "audit_unavailable"
      /\ \A q \in Requests \ {r} : stage'[q] = stage[q] /\ response'[q] = response[q]
  BY <1>1, RespondStep DEF Responses, Refusals
<1>4. NoWrite \in WriteStates
  BY PipelineAssumption DEF NoWrite, WriteStates
<1>5. /\ Raised(r) /\ signals'[r] = signals[r] \cup {"audit.signal"}
  BY <1>1, EmitStep DEF Raised, SignalNames
<1>6. /\ write' \in [Requests -> WriteStates] /\ write'[r] = NoWrite
      /\ \A q \in Requests \ {r} : write'[q] = write[q]
  BY <1>1, <1>4 DEF TypeOK, WriteStates
<1>7. TypeOK' /\ \A q \in Requests \ {r} : Same(q)
  BY <1>1, <1>3, <1>5, <1>6 DEF TypeOK, Same, WriteStates, StageNames, Raised, SignalNames
<1>8. WriteInv(r)' /\ AuditInv(r)' /\ AnswerInv(r)'
  BY <1>1, <1>2, <1>3, <1>5, <1>6 DEF RequestInv, WriteInv, AuditInv, AnswerInv, NoWrite, Released
<1>9. TrailInv(r)'
  BY <1>1, <1>3, <1>6 DEF RequestInv, TrailInv, NoWrite
<1>10. CauseInv(r)' /\ BarredInv(r)' /\ TrustInv(r)'
  BY <1>1, <1>2, <1>3
  DEF RequestInv, CauseInv, BarredInv, TrustInv, Authenticated, Scored, Worked, Decided, Granted, Released
<1> QED
  BY <1>1, <1>7, <1>8, <1>9, <1>10, Frame DEF RequestInv

(* breaker.fire starts the retry loop of an audited request.               *)
LEMMA FireInv ==
    ASSUME Inv, NEW r \in Requests, Fire(r) PROVE Inv'
<1>1. /\ TypeOK /\ RequestInv(r) /\ stage[r] = "proxy" /\ loops' = loops \cup {r}
      /\ UNCHANGED <<stage, req, ctx, write, rows, trustRows, response, forwarded, signals, revoked, barred, crashes>>
  BY DEF Inv, Fire, At, durable, world
<1>2. TypeOK' /\ \A q \in Requests \ {r} : Same(q)
  BY <1>1 DEF TypeOK, Same
<1>3. WriteInv(r)' /\ AuditInv(r)' /\ TrailInv(r)' /\ AnswerInv(r)'
  BY <1>1 DEF RequestInv, WriteInv, AuditInv, TrailInv, AnswerInv, Released
<1>4. CauseInv(r)'
  BY <1>1 DEF RequestInv, CauseInv, Authenticated, Scored, Worked, Decided, Granted, Released
<1>5. BarredInv(r)' /\ TrustInv(r)'
  BY <1>1 DEF RequestInv, BarredInv, TrustInv
<1> QED
  BY <1>1, <1>2, <1>3, <1>4, <1>5, Frame DEF RequestInv

(* An attempt of the loop, before or after the answer; and the end of a    *)
(* loop nobody waits for.                                                  *)
LEMMA LoopStepInv ==
    ASSUME Inv, NEW r \in Requests, LoopStep(r) PROVE Inv'
<1>1. /\ TypeOK /\ RequestInv(r) /\ r \in loops
      /\ \/ forwarded' = forwarded \cup {r} /\ loops' = loops
         \/ forwarded' = forwarded /\ loops' = loops \ {r} /\ stage[r] = "answered"
      /\ UNCHANGED <<stage, req, ctx, write, rows, trustRows, response, signals, revoked, barred, crashes>>
  BY DEF Inv, LoopStep, Attempt, LoopEnds, durable, world
<1>2. TypeOK' /\ \A q \in Requests \ {r} : Same(q)
  BY <1>1 DEF TypeOK, Same
<1>3. WriteInv(r)' /\ AuditInv(r)' /\ TrailInv(r)' /\ AnswerInv(r)'
  BY <1>1 DEF RequestInv, WriteInv, AuditInv, TrailInv, AnswerInv, Released
<1>4. CauseInv(r)' /\ BarredInv(r)' /\ TrustInv(r)'
  BY <1>1 DEF RequestInv, CauseInv, BarredInv, TrustInv
<1> QED
  BY <1>1, <1>2, <1>3, <1>4, Frame DEF RequestInv

(* ProxyStage, when the loop returned the service's answer.                *)
LEMMA ProxyAnsweredInv ==
    ASSUME Inv, NEW r \in Requests, ProxyAnswered(r) PROVE Inv'
<1>1. /\ TypeOK /\ RequestInv(r) /\ At(r, stage[r]) /\ stage[r] = "proxy" /\ Advance(r)
      /\ r \in forwarded /\ loops' = loops \ {r}
      /\ UNCHANGED <<req, write, rows, trustRows, response, forwarded, signals, revoked, barred, crashes>>
  BY DEF Inv, ProxyAnswered, At, durable, world
<1>2. PICK u \in {"2xx", "4xx"} : ctx' = [ctx EXCEPT ![r].upstream = u]
  BY DEF ProxyAnswered
<1>3. /\ ctx' \in [Requests -> Contexts] /\ \A q \in Requests \ {r} : ctx'[q] = ctx[q]
      /\ ctx'[r].score = ctx[r].score /\ ctx'[r].casbin = ctx[r].casbin
      /\ ctx'[r].decision = ctx[r].decision /\ ctx'[r].promoted = ctx[r].promoted
      /\ ctx'[r].trust = ctx[r].trust
  <2>1. ctx \in [Requests -> Contexts]
    BY <1>1 DEF TypeOK, Contexts
  <2> DEFINE c == [ctx[r] EXCEPT !.upstream = u]
  <2>2. /\ c \in Contexts /\ c.score = ctx[r].score /\ c.casbin = ctx[r].casbin
        /\ c.decision = ctx[r].decision /\ c.promoted = ctx[r].promoted /\ c.trust = ctx[r].trust
    BY <2>1 DEF Contexts
  <2>3. ctx' = [ctx EXCEPT ![r] = c]
    BY <1>2
  <2> HIDE DEF c
  <2> QED
    BY <2>1, <2>2, <2>3
<1>4. stage'[r] = "bopla_strip"
  BY <1>1, AdvanceStep, StageOrder
<1>5. CauseInv(r)'
  BY <1>1, <1>3, <1>4
  DEF RequestInv, CauseInv, Authenticated, Scored, Worked, Decided, Granted, Released
<1>6. BarredInv(r)' /\ TrustInv(r)'
  BY <1>1, <1>3, <1>4 DEF RequestInv, BarredInv, TrustInv
<1>7. MoveStep(r)
  BY <1>1, <1>3, <1>5, <1>6, Quiet, StageOrder DEF MoveStep
<1> QED
  BY <1>7, Moves

(* ProxyStage, when forward() threw or the breaker's timer fired.          *)
LEMMA ProxyThrewInv ==
    ASSUME Inv, NEW r \in Requests, ProxyThrew(r) \/ BreakerTimer(r) PROVE Inv'
<1>1. /\ TypeOK /\ stage[r] = "proxy" /\ write[r].phase = "idle"
      /\ UNCHANGED <<req, ctx, write, rows, forwarded, trustRows, signals, revoked, barred, crashes>>
  BY DEF Inv, ProxyThrew, BreakerTimer, At, durable, downstream, world
<1>2. PICK what \in {"proxy_unavailable", "bad_gateway", "internal_error", "route_rejected"} :
         /\ Respond(r, what)
         /\ loops' = loops \ {r} \/ (loops' = loops /\ what = "proxy_unavailable")
  BY DEF ProxyThrew, BreakerTimer, downstream
<1>3. what \in Responses \ {"none", "audit_unavailable", "bypass"}
  BY DEF Responses, Refusals
<1>4. Raised(r) /\ stage[r] \in Stages
  BY <1>1, Quiet, StageOrder
<1>5. AnswerStep(r, what)
  BY <1>1, <1>2, <1>3, <1>4 DEF AnswerStep
<1> QED
  BY <1>5, Answers

(* BoplaStripStage.                                                        *)
LEMMA BoplaStripInv ==
    ASSUME Inv, NEW r \in Requests, BoplaStrip(r) PROVE Inv'
  BY PlainMove DEF BoplaStrip, At, durable, downstream, world

(* RecordTrustContextStage's transaction, whatever it stores and reports.  *)
LEMMA RecordTrustContextInv ==
    ASSUME Inv, NEW r \in Requests, RecordTrustContext(r) PROVE Inv'
<1>1. /\ TypeOK /\ RequestInv(r) /\ stage[r] = "record_trust_context" /\ ctx[r].upstream = "2xx"
      /\ UNCHANGED <<stage, req, write, rows, response, forwarded, loops, signals, revoked, barred, crashes>>
  BY DEF Inv, RecordTrustContext, At, downstream, world
<1>2. PICK told \in {"ok", "failed"} :
        /\ ctx' = [ctx EXCEPT ![r].trust = told]
        /\ \/ trustRows' = trustRows \cup {r}
           \/ trustRows' = trustRows /\ told = "failed"
  BY DEF RecordTrustContext
<1>3. /\ ctx' \in [Requests -> Contexts] /\ \A q \in Requests \ {r} : ctx'[q] = ctx[q]
      /\ ctx'[r].score = ctx[r].score /\ ctx'[r].casbin = ctx[r].casbin
      /\ ctx'[r].decision = ctx[r].decision /\ ctx'[r].promoted = ctx[r].promoted
      /\ ctx'[r].upstream = ctx[r].upstream /\ ctx'[r].trust = told
  <2> DEFINE c == [ctx[r] EXCEPT !.trust = told]
  <2>1. ctx \in [Requests -> Contexts] /\ ctx' = [ctx EXCEPT ![r] = c]
    BY <1>1, <1>2 DEF TypeOK, Contexts
  <2>2. /\ c \in Contexts /\ c.score = ctx[r].score /\ c.casbin = ctx[r].casbin
        /\ c.decision = ctx[r].decision /\ c.promoted = ctx[r].promoted
        /\ c.upstream = ctx[r].upstream /\ c.trust = told
    BY <2>1 DEF Contexts
  <2> HIDE DEF c
  <2> QED
    BY <2>1, <2>2
<1>4. TypeOK' /\ \A q \in Requests \ {r} : Same(q)
  BY <1>1, <1>2, <1>3 DEF TypeOK, Same, Contexts
<1>5. WriteInv(r)' /\ AuditInv(r)' /\ TrailInv(r)' /\ AnswerInv(r)'
  BY <1>1 DEF RequestInv, WriteInv, AuditInv, TrailInv, AnswerInv
<1>6. CauseInv(r)' /\ BarredInv(r)'
  BY <1>1, <1>3 DEF RequestInv, CauseInv, BarredInv
<1>7. TrustInv(r)'
  BY <1>1, <1>2, <1>3 DEF RequestInv, TrustInv
<1> QED
  BY <1>1, <1>4, <1>5, <1>6, <1>7, Frame DEF RequestInv

(* ... and its outcome.                                                    *)
LEMMA ProxiedInv ==
    ASSUME Inv, NEW r \in Requests, Proxied(r) PROVE Inv'
<1>1. /\ TypeOK /\ stage[r] = "record_trust_context" /\ write[r].phase = "idle"
      /\ UNCHANGED <<req, ctx, write, rows, trustRows, forwarded, loops, signals, revoked, barred, crashes>>
  BY DEF Inv, Proxied, At, durable, downstream, world
<1>2. PICK what \in {"proxied", "internal_error"} : Respond(r, what)
  BY DEF Proxied
<1>3. what \in Responses \ {"none", "audit_unavailable", "bypass"}
  BY DEF Responses, Refusals
<1>4. Raised(r) /\ stage[r] \in Stages
  BY <1>1, Quiet, StageOrder
<1>5. AnswerStep(r, what)
  BY <1>1, <1>2, <1>3, <1>4 DEF AnswerStep
<1> QED
  BY <1>5, Answers

-----------------------------------------------------------------------------
(* The audit writer and the environment *)

(* A successful insert.                                                    *)
LEMMA InsertOkInv ==
    ASSUME Inv, NEW r \in Requests, InsertOk(r) PROVE Inv'
<1>1. /\ TypeOK /\ RequestInv(r) /\ write[r].phase = "running"
      /\ rows' = [rows EXCEPT ![r][write[r].decision] = @ + 1]
      /\ write' = [write EXCEPT ![r].phase = "done"]
      /\ UNCHANGED <<stage, req, ctx, response, forwarded, loops, trustRows, signals, revoked, barred, crashes>>
  BY DEF Inv, InsertOk, downstream, world
<1>2. write[r] \in WriteStates /\ write[r].decision \in Decisions /\ rows[r] \in [Decisions -> Nat]
  BY <1>1 DEF TypeOK, RequestInv, WriteInv, WriteStates
<1>3. /\ write' \in [Requests -> WriteStates] /\ \A q \in Requests \ {r} : write'[q] = write[q]
      /\ write'[r].phase = "done" /\ write'[r].decision = write[r].decision
      /\ write'[r].timedOut = write[r].timedOut /\ write'[r].attempt = write[r].attempt
  BY <1>1, <1>2 DEF TypeOK, WriteStates
<1>4. /\ rows' \in [Requests -> [Decisions -> Nat]] /\ \A q \in Requests \ {r} : rows'[q] = rows[q]
      /\ \A d \in Decisions : rows'[r][d] = IF d = write[r].decision THEN rows[r][d] + 1 ELSE rows[r][d]
  BY <1>1, <1>2 DEF TypeOK
<1>5. TypeOK' /\ \A q \in Requests \ {r} : Same(q)
  BY <1>1, <1>3, <1>4 DEF TypeOK, Same, WriteStates
<1>6. WriteInv(r)' /\ AnswerInv(r)'
  BY <1>1, <1>3 DEF RequestInv, WriteInv, AnswerInv
<1>7. "allow" \in Decisions /\ "deny" \in Decisions /\ "challenge" \in Decisions
  BY DEF Decisions
<1>8. /\ rows[r]["allow"] \in Nat /\ rows[r]["deny"] \in Nat /\ rows[r]["challenge"] \in Nat
      /\ write[r].attempt \in 0..(WalMaxRetries - 1) /\ WalMaxRetries \in Int
  BY <1>2, <1>7, PipelineAssumption DEF WriteStates
<1>9. AuditInv(r)'
  BY <1>1, <1>3, <1>4, <1>7, <1>8 DEF RequestInv, AuditInv, WriteInv
<1>10. TrailInv(r)'
  BY <1>1, <1>2, <1>3, <1>4, <1>7, <1>8 DEF RequestInv, TrailInv, Decisions
<1>11. CauseInv(r)' /\ BarredInv(r)' /\ TrustInv(r)'
  BY <1>1 DEF RequestInv, CauseInv, BarredInv, TrustInv
<1> QED
  BY <1>1, <1>5, <1>6, <1>9, <1>10, <1>11, Frame DEF RequestInv

(* A failed insert, whether or not the row was stored.                     *)
LEMMA InsertFailsInv ==
    ASSUME Inv, NEW r \in Requests, InsertFails(r) PROVE Inv'
<1>1. /\ TypeOK /\ RequestInv(r) /\ write[r].phase = "running"
      /\ write' = [write EXCEPT ![r] = AfterFailure(write[r])]
      /\ UNCHANGED <<stage, req, ctx, response, forwarded, loops, trustRows, signals, revoked, barred, crashes>>
  BY DEF Inv, InsertFails, downstream, world
<1>2. PICK stored \in {0, 1} : rows' = [rows EXCEPT ![r][write[r].decision] = @ + stored]
  BY DEF InsertFails
<1>3. write[r] \in WriteStates /\ write[r].decision \in Decisions /\ rows[r] \in [Decisions -> Nat]
  BY <1>1 DEF TypeOK, RequestInv, WriteInv, WriteStates
<1>4. "allow" \in Decisions /\ "deny" \in Decisions /\ "challenge" \in Decisions
  BY DEF Decisions
<1>5. /\ rows[r]["allow"] \in Nat /\ rows[r]["deny"] \in Nat /\ rows[r]["challenge"] \in Nat
      /\ write[r].attempt \in 0..(WalMaxRetries - 1) /\ WalMaxRetries \in Int
  BY <1>3, <1>4, PipelineAssumption DEF WriteStates
<1> DEFINE w == AfterFailure(write[r])
<1>6. /\ w \in WriteStates /\ w.decision = write[r].decision /\ w.timedOut = write[r].timedOut
      /\ \/ w.phase = "running" /\ w.attempt = write[r].attempt + 1 /\ w.decision = "allow"
         \/ w.phase = "thrown" /\ w.attempt = write[r].attempt /\ w.decision = "allow"
         \/ w.phase = "done" /\ w.attempt = write[r].attempt /\ w.decision # "allow"
  BY <1>1, <1>3, <1>5 DEF AfterFailure, WriteStates
<1> HIDE DEF w
<1>7. write' \in [Requests -> WriteStates] /\ write'[r] = w /\ \A q \in Requests \ {r} : write'[q] = write[q]
  BY <1>1, <1>6 DEF TypeOK, WriteStates, w
<1>8. /\ rows' \in [Requests -> [Decisions -> Nat]] /\ \A q \in Requests \ {r} : rows'[q] = rows[q]
      /\ \A d \in Decisions : rows'[r][d] = IF d = write[r].decision THEN rows[r][d] + stored ELSE rows[r][d]
  BY <1>1, <1>2, <1>3 DEF TypeOK
<1>9. TypeOK' /\ \A q \in Requests \ {r} : Same(q)
  BY <1>1, <1>7, <1>8 DEF TypeOK, Same, WriteStates
<1>10. WriteInv(r)' /\ AnswerInv(r)'
  BY <1>1, <1>6, <1>7 DEF RequestInv, WriteInv, AnswerInv
<1>11. AuditInv(r)'
  BY <1>1, <1>4, <1>5, <1>6, <1>7, <1>8 DEF RequestInv, AuditInv, WriteInv
<1>12. TrailInv(r)'
  BY <1>1, <1>3, <1>4, <1>5, <1>6, <1>7, <1>8 DEF RequestInv, TrailInv, Decisions
<1>13. CauseInv(r)' /\ BarredInv(r)' /\ TrustInv(r)'
  BY <1>1 DEF RequestInv, CauseInv, BarredInv, TrustInv
<1> QED
  BY <1>1, <1>9, <1>10, <1>11, <1>12, <1>13, Frame DEF RequestInv

(* The 200 ms timer.                                                       *)
LEMMA TimerFiresInv ==
    ASSUME Inv, NEW r \in Requests, TimerFires(r) PROVE Inv'
<1>1. /\ TypeOK /\ RequestInv(r) /\ write[r].phase = "running"
      /\ stage[r] \notin {"audit_allow", "answered"}
      /\ write' = [write EXCEPT ![r].timedOut = TRUE]
      /\ UNCHANGED <<stage, req, ctx, rows, response, forwarded, loops, trustRows, signals, revoked, barred, crashes>>
  BY DEF Inv, TimerFires, downstream, world
<1>2. write[r] \in WriteStates
  BY <1>1 DEF TypeOK, WriteStates
<1>3. /\ write' \in [Requests -> WriteStates] /\ \A q \in Requests \ {r} : write'[q] = write[q]
      /\ write'[r].phase = "running" /\ write'[r].decision = write[r].decision
      /\ write'[r].attempt = write[r].attempt
  BY <1>1, <1>2 DEF TypeOK, WriteStates
<1>4. TypeOK' /\ \A q \in Requests \ {r} : Same(q)
  BY <1>1, <1>3 DEF TypeOK, Same, WriteStates
<1>5. WriteInv(r)' /\ AnswerInv(r)' /\ AuditInv(r)' /\ TrailInv(r)'
  BY <1>1, <1>3 DEF RequestInv, WriteInv, AnswerInv, AuditInv, TrailInv
<1>6. CauseInv(r)' /\ BarredInv(r)' /\ TrustInv(r)'
  BY <1>1 DEF RequestInv, CauseInv, BarredInv, TrustInv
<1> QED
  BY <1>1, <1>4, <1>5, <1>6, Frame DEF RequestInv

(* A CORS preflight.                                                       *)
LEMMA PreflightInv ==
    ASSUME Inv, NEW r \in Requests, Preflight(r) PROVE Inv'
<1>1. /\ TypeOK /\ RequestInv(r) /\ stage[r] = "new" /\ Respond(r, "bypass")
      /\ UNCHANGED <<req, ctx, write, rows, trustRows, forwarded, loops, signals, revoked, barred, crashes>>
  BY DEF Inv, Preflight, durable, downstream, world
<1>2. write[r].phase = "idle" /\ r \notin barred
  BY <1>1 DEF RequestInv, WriteInv, BarredInv, Writing
<1>3. Raised(r) /\ "bypass" \in Responses \ {"none"}
  BY <1>1, Quiet DEF Responses
<1>4. AnswerStep(r, "bypass")
  BY <1>1, <1>2, <1>3 DEF AnswerStep
<1> QED
  BY <1>4, Answers

(* A request arrives, its token revoked already or not.                    *)
LEMMA ArriveInv ==
    ASSUME Inv, NEW r \in Requests, Arrive(r) PROVE Inv'
<1>1. /\ TypeOK /\ RequestInv(r) /\ stage[r] = "new" /\ req[r].path # "preflight"
      /\ stage' = [stage EXCEPT ![r] = "public_bypass"]
      /\ barred' = IF req[r].jti \in revoked THEN barred \cup {r} ELSE barred
      /\ UNCHANGED <<req, ctx, write, rows, trustRows, revoked, response, forwarded, loops, signals, crashes>>
  BY DEF Inv, Arrive, durable, downstream
<1>2. /\ stage' \in [Requests -> StageNames] /\ stage'[r] = "public_bypass"
      /\ \A q \in Requests \ {r} : stage'[q] = stage[q]
  BY <1>1, StageOrder DEF TypeOK, StageNames
<1>3. TypeOK' /\ \A q \in Requests \ {r} : Same(q)
  BY <1>1, <1>2 DEF TypeOK, Same, StageNames
<1>4. WriteInv(r)' /\ AnswerInv(r)' /\ AuditInv(r)' /\ TrailInv(r)'
  BY <1>1, <1>2 DEF RequestInv, WriteInv, AnswerInv, AuditInv, TrailInv, Released, Writing
<1>5. CauseInv(r)'
  BY <1>1, <1>2
  DEF RequestInv, CauseInv, Authenticated, Scored, Worked, Decided, Granted, Released
<1>6. BarredInv(r)' /\ TrustInv(r)'
  BY <1>1, <1>2 DEF RequestInv, BarredInv, TrustInv, AnswerInv, AuditInv, Released
<1> QED
  BY <1>1, <1>3, <1>4, <1>5, <1>6, Frame DEF RequestInv

(* A token is revoked while requests are under way.                        *)
LEMMA RevokeInv ==
    ASSUME Inv, NEW j \in Jtis, Revoke(j) PROVE Inv'
<1>1. /\ TypeOK /\ revoked' = revoked \cup {j}
      /\ UNCHANGED <<stage, req, ctx, write, rows, trustRows, response, forwarded, loops, signals, barred, crashes>>
  BY DEF Inv, Revoke, durable, downstream
<1>2. TypeOK'
  BY <1>1 DEF TypeOK
<1>3. ASSUME NEW r \in Requests PROVE RequestInv(r)'
  <2>1. RequestInv(r)
    BY DEF Inv
  <2> QED
    BY <1>1, <2>1 DEF RequestInv, WriteInv, AnswerInv, AuditInv, TrailInv, CauseInv, BarredInv, TrustInv
<1> QED
  BY <1>2, <1>3 DEF Inv

(* A crash answers what was open and forgets what was in memory.           *)
LEMMA CrashInv ==
    ASSUME Inv, Crash PROVE Inv'
<1>1. /\ TypeOK /\ crashes < MaxCrashes /\ crashes' = crashes + 1
      /\ stage' = [r \in Requests |-> IF stage[r] \notin {"new", "answered"} THEN "answered" ELSE stage[r]]
      /\ response' = [r \in Requests |-> IF stage[r] \notin {"new", "answered"} THEN "connection_lost"
                                         ELSE response[r]]
      /\ write' = [r \in Requests |-> NoWrite] /\ revoked' = {} /\ loops' = {}
      /\ UNCHANGED <<req, ctx, rows, trustRows, forwarded, signals, barred>>
  BY DEF Inv, Crash, durable, downstream
<1>2. NoWrite \in WriteStates
  BY PipelineAssumption DEF NoWrite, WriteStates
<1>3. write' \in [Requests -> WriteStates]
  BY <1>1, <1>2
<1>4. TypeOK'
  BY <1>1, <1>3, PipelineAssumption DEF TypeOK, WriteStates, Responses
<1>5. ASSUME NEW r \in Requests PROVE RequestInv(r)'
  <2>1. RequestInv(r) /\ write'[r] = NoWrite
    BY <1>1 DEF Inv
  <2>2. \/ /\ stage[r] \notin {"new", "answered"} /\ stage'[r] = "answered"
           /\ response'[r] = "connection_lost"
        \/ stage[r] \in {"new", "answered"} /\ stage'[r] = stage[r] /\ response'[r] = response[r]
    BY <1>1
  <2>3. WriteInv(r)' /\ AnswerInv(r)' /\ AuditInv(r)'
    BY <1>1, <2>1, <2>2 DEF RequestInv, WriteInv, AnswerInv, AuditInv, NoWrite, Released
  <2>4. TrailInv(r)'
    BY <1>1, <2>1, <2>2 DEF RequestInv, TrailInv, WriteInv, NoWrite, Writing
  <2>5. CauseInv(r)'
    BY <1>1, <2>1, <2>2
    DEF RequestInv, CauseInv, Authenticated, Scored, Worked, Decided, Granted, Released
  <2>6. BarredInv(r)' /\ TrustInv(r)'
    BY <1>1, <2>1, <2>2 DEF RequestInv, BarredInv, TrustInv
  <2> QED
    BY <2>3, <2>4, <2>5, <2>6 DEF RequestInv
<1> QED
  BY <1>4, <1>5 DEF Inv

-----------------------------------------------------------------------------
(* The theorems *)

LEMMA InitInv == Init => Inv
<1> SUFFICES ASSUME Init PROVE Inv
  OBVIOUS
<1>1. NoWrite \in WriteStates /\ NoContext \in Contexts /\ NoRows \in [Decisions -> Nat]
  BY PipelineAssumption DEF NoWrite, WriteStates, NoContext, Contexts, NoRows
<1>2. TypeOK
  BY <1>1, PipelineAssumption DEF Init, TypeOK, WriteStates, Contexts, Responses
<1>3. ASSUME NEW r \in Requests PROVE RequestInv(r)
  <2>1. /\ stage[r] = "new" /\ write[r] = NoWrite /\ rows[r] = NoRows /\ response[r] = "none"
        /\ ctx[r] = NoContext /\ forwarded = {} /\ loops = {} /\ trustRows = {} /\ barred = {}
    BY DEF Init
  <2>2. WriteInv(r) /\ AuditInv(r) /\ AnswerInv(r)
    BY <2>1 DEF WriteInv, AuditInv, AnswerInv, NoWrite, Released
  <2>3. TrailInv(r)
    BY <2>1, PipelineAssumption DEF TrailInv, NoRows, NoWrite, Decisions
  <2>4. CauseInv(r) /\ BarredInv(r) /\ TrustInv(r)
    BY <2>1 DEF CauseInv, BarredInv, TrustInv, NoContext, Authenticated, Scored, Worked, Decided,
                Granted, Released
  <2> QED
    BY <2>2, <2>3, <2>4 DEF RequestInv
<1> QED
  BY <1>2, <1>3 DEF Inv

LEMMA NextInv == Inv /\ [Next]_vars => Inv'
<1> SUFFICES ASSUME Inv, [Next]_vars PROVE Inv'
  OBVIOUS
<1>1. ASSUME NEW r \in Requests, RequestStep(r) PROVE Inv'
  BY <1>1, BypassInv, GateInv, RefusalInv, TrustScoreInv, HashcashInv, PolicyInv,
     MfaPromotionInv, MfaRefusedInv, AuditAllowInv, AuditAllowedInv, AuditExhaustedInv,
     FireInv, ProxyAnsweredInv, ProxyThrewInv, BoplaStripInv, RecordTrustContextInv, ProxiedInv
  DEF RequestStep
<1>2. ASSUME NEW r \in Requests,
             Preflight(r) \/ Arrive(r) \/ LoopStep(r) \/ DatabaseAnswers(r) \/ TimerFires(r)
      PROVE  Inv'
  BY <1>2, PreflightInv, ArriveInv, LoopStepInv, InsertOkInv, InsertFailsInv, TimerFiresInv DEF DatabaseAnswers
<1>3. ASSUME NEW j \in Jtis, Revoke(j) PROVE Inv'
  BY <1>3, RevokeInv
<1>4. CASE Crash
  BY <1>4, CrashInv
<1>5. CASE UNCHANGED vars
  BY <1>5 DEF vars, Inv, TypeOK, RequestInv, WriteInv, AnswerInv, AuditInv, TrailInv, CauseInv,
              BarredInv, TrustInv
<1> QED
  BY <1>1, <1>2, <1>3, <1>4, <1>5 DEF Next

(* The inductive invariant holds in every reachable state.                 *)
THEOREM InvHolds == Spec => []Inv
  BY InitInv, NextInv, PTL DEF Spec

(* Type correctness of the pipeline's state.                               *)
THEOREM TypeCorrect == Spec => []TypeOK
<1>1. Inv => TypeOK
  BY DEF Inv
<1> QED
  BY <1>1, InvHolds, PTL

(* ADR-0001: whatever the audit store does, no request reaches a service   *)
(* before its allow row exists, and one that is answered 503 never does.   *)
THEOREM AuditTheorem == Spec => [](AuditBeforeForward /\ ExhaustionFailsClosed)
<1>1. Inv => AuditBeforeForward /\ ExhaustionFailsClosed
  BY DEF Inv, TypeOK, RequestInv, AuditInv, AnswerInv, AuditBeforeForward, ExhaustionFailsClosed
<1> QED
  BY <1>1, InvHolds, PTL

(* A forwarded request passed every stage's test.                          *)
THEOREM CauseTheorem == Spec => []ForwardedForCause
<1>1. Inv => ForwardedForCause
  BY DEF Inv, TypeOK, RequestInv, CauseInv, ForwardedForCause
<1> QED
  BY <1>1, InvHolds, PTL

(* A token revoked before the request arrived opens nothing.               *)
THEOREM RevokedTheorem == Spec => []RevokedNeverServed
<1>1. Inv => RevokedNeverServed
  BY DEF Inv, TypeOK, RequestInv, BarredInv, RevokedNeverServed
<1> QED
  BY <1>1, InvHolds, PTL

(* ADR-0002: trust is only learnt from audited, served requests.           *)
THEOREM TrustTheorem == Spec => []TrustOnlyAfterAllow
<1>1. Inv => TrustOnlyAfterAllow
  BY DEF Inv, TypeOK, RequestInv, TrustInv, AuditInv, TrustOnlyAfterAllow
<1> QED
  BY <1>1, InvHolds, PTL

(* Retries, lost acknowledgements and late writes leave one coherent trail. *)
THEOREM TrailTheorem == Spec => []AuditTrailCoherent
<1>1. Inv => AuditTrailCoherent
  BY DEF Inv, RequestInv, TrailInv, AuditTrailCoherent
<1> QED
  BY <1>1, InvHolds, PTL

(* What an answered request may still see change: nothing of its answer.   *)
Final(r) ==
    response[r] # "none" =>
        /\ response'[r] = response[r]
        /\ r \in forwarded' => r \in forwarded \cup loops
        /\ r \in loops' => r \in loops /\ response[r] = "proxy_unavailable"
        /\ r \in trustRows' => r \in trustRows

(* Steps of one request never touch the answer, forward or trust of        *)
(* another, and no stage runs for an answered request.                     *)
LEMMA FinalStep ==
    ASSUME Inv, [Next]_vars, NEW q \in Requests PROVE Final(q)
<1>1. TypeOK /\ RequestInv(q)
  BY DEF Inv
<1>2. /\ response[q] # "none" => stage[q] = "answered"
      /\ stage[q] = "answered" /\ q \in loops => response[q] = "proxy_unavailable"
  BY <1>1 DEF RequestInv, AnswerInv
<1>3. write[q].phase = "thrown" /\ stage[q] = "answered" => write[q].timedOut
  BY <1>1 DEF RequestInv, WriteInv
<1> USE DEF Final
<1>4. ASSUME NEW r \in Requests, RequestStep(r) PROVE Final(q)
  <2>1. CASE PublicBypass(r) \/ HoneypotBypass(r) \/ Auth(r) \/ AuthRefused(r) \/ Revocation(r)
             \/ RevocationRefused(r) \/ AuthOnly(r) \/ AuthOnlyBypass(r)
    BY <1>1, <1>2, <2>1
    DEF TypeOK, PublicBypass, HoneypotBypass, Bypass, Auth, AuthRefused, Revocation,
        RevocationRefused, AuthOnly, AuthOnlyBypass, At, Respond, durable, downstream
  <2>2. CASE TrustScore(r) \/ Hashcash(r) \/ Policy(r) \/ MfaPromotion(r) \/ MfaRefused(r)
    BY <1>1, <1>2, <2>2
    DEF TypeOK, TrustScore, Hashcash, Policy, MfaPromotion, MfaRefused, At, Respond, durable, downstream
  <2>3. CASE AuditAllow(r) \/ AuditAllowed(r) \/ AuditExhausted(r)
    BY <1>1, <1>2, <1>3, <2>3 DEF TypeOK, AuditAllow, AuditAllowed, AuditExhausted, Respond, durable, downstream
  <2>4. CASE Fire(r) \/ ProxyAnswered(r) \/ ProxyThrew(r) \/ BreakerTimer(r)
    BY <1>1, <1>2, <2>4
    DEF TypeOK, Fire, ProxyAnswered, ProxyThrew, BreakerTimer, At, Respond, durable, downstream
  <2>5. CASE BoplaStrip(r) \/ RecordTrustContext(r) \/ Proxied(r)
    BY <1>1, <1>2, <2>5
    DEF TypeOK, BoplaStrip, RecordTrustContext, Proxied, At, Respond, durable, downstream
  <2> QED
    BY <1>4, <2>1, <2>2, <2>3, <2>4, <2>5 DEF RequestStep
<1>5. ASSUME NEW r \in Requests,
             Preflight(r) \/ Arrive(r) \/ LoopStep(r) \/ DatabaseAnswers(r) \/ TimerFires(r)
      PROVE  Final(q)
  BY <1>1, <1>2, <1>5
  DEF TypeOK, Preflight, Respond, Arrive, LoopStep, Attempt, LoopEnds, DatabaseAnswers, InsertOk,
      InsertFails, TimerFires, durable, downstream
<1>6. ASSUME NEW j \in Jtis, Revoke(j) PROVE Final(q)
  BY <1>2, <1>6 DEF Revoke, durable, downstream
<1>7. CASE Crash
  BY <1>2, <1>7 DEF Crash, durable, downstream
<1>8. CASE UNCHANGED vars
  BY <1>2, <1>8 DEF vars
<1> QED
  BY <1>4, <1>5, <1>6, <1>7, <1>8 DEF Next

(* No step changes an answer, and what can still happen for an answered    *)
(* request is a late audit row and the attempts of the retry loop the      *)
(* breaker's timer left running; no loop starts and no trust is recorded.  *)
THEOREM FinalTheorem == Spec => AnswerIsFinal
<1>1. ASSUME Inv, [Next]_vars
      PROVE  [\A r \in Requests : response[r] # "none" =>
                /\ response'[r] = response[r]
                /\ r \in forwarded' => r \in forwarded \cup loops
                /\ r \in loops' => r \in loops /\ response[r] = "proxy_unavailable"
                /\ r \in trustRows' => r \in trustRows]_vars
  BY <1>1, FinalStep DEF Final
<1> QED
  BY <1>1, InvHolds, PTL DEF Spec, AnswerIsFinal

=============================================================================

-------------------------- MODULE GatewayPipeline --------------------------
(***************************************************************************)
(* The request pipeline (src/gateway): thirteen stages run in a fixed      *)
(* order for every request by PipelineOrchestrator.run, around the audit   *)
(* writer (src/audit/audit.service.ts) whose inserts may fail, lose their  *)
(* acknowledgement, be retried or outlive a 200 ms timer, the proxy's      *)
(* retry loop, which may outlive its breaker's 10 s timer, and the         *)
(* transaction of the trust history, whose COMMIT may lose its answer.     *)
(*                                                                         *)
(* Requests interleave at every await.  Scores, MFA answers, upstream      *)
(* answers, database answers and the threat level a decision is taken at   *)
(* (ThreatEscalation.tla) are chosen by the environment; tokens are revoked *)
(* under the requests' feet; the retry loop of an answered request may     *)
(* still run; the process may crash, which loses memory and keeps the      *)
(* database.                                                               *)
(***************************************************************************)
EXTENDS Integers, FiniteSets

CONSTANTS Requests,      \* identities of the requests in the instance
          RequestKinds,  \* the requests clients may send
          Jtis,          \* token identifiers
          Scores,        \* trust scores, scaled to integers
          HashTrigger,   \* hashcash triggerThreshold
          Levels,        \* threat levels
          ChallengeT,    \* challenge threshold of each level
          DenyT,         \* deny threshold of each level
          WalMaxRetries, \* AUDIT_WAL_MAX_RETRIES
          MaxCrashes     \* bound: crashes of the process

Paths == {"preflight", "public", "honeypot", "auth_only", "service"}

ASSUME PipelineAssumption ==
    /\ RequestKinds \subseteq
         [path : Paths, token : BOOLEAN, jti : Jtis, pow : BOOLEAN, mfa : BOOLEAN]
    /\ Scores \subseteq Int /\ HashTrigger \in Int
    /\ ChallengeT \in [Levels -> Int] /\ DenyT \in [Levels -> Int]
    /\ WalMaxRetries \in 1..10
    /\ MaxCrashes \in Nat

(* gateway.module.ts: "Factory order = execution order." *)
NextStage ==
    [public_bypass |-> "honeypot_bypass", honeypot_bypass |-> "auth", auth |-> "revocation",
     revocation |-> "auth_only", auth_only |-> "trust_score", trust_score |-> "hashcash",
     hashcash |-> "policy", policy |-> "mfa_promotion", mfa_promotion |-> "audit_allow",
     audit_allow |-> "proxy", proxy |-> "bopla_strip",
     bopla_strip |-> "record_trust_context"]

Stages == DOMAIN NextStage \cup {"record_trust_context"}

Decisions == {"allow", "deny", "challenge"}

Refusals == {"auth_invalid", "token_revoked", "proof_of_work", "policy_denied", "mfa_required",
             "mfa_rate_limited", "mfa_internal", "audit_unavailable", "proxy_unavailable",
             "bad_gateway", "route_rejected", "internal_error"}
Responses == Refusals \cup {"none", "bypass", "proxied", "connection_lost"}

VARIABLES stage,      \* where each request is: "new", a stage, or "answered"
          req,        \* the request as the client sent it
          ctx,        \* StageContext: score, policy decision, upstream
          write,      \* the audit write the request has in flight
          rows,       \* rows of audit_logs, per request and decision
          revoked,    \* TokenRevocationService's blacklist
          response,   \* what the client was answered
          forwarded,  \* requests put on the wire to a downstream service
          loops,      \* requests whose executeWithRetry is running
          trustRows,  \* requests recorded in the trust history
          signals,    \* threat signals each request raised
          barred,     \* history: the token was revoked when the request arrived
          crashes

vars == <<stage, req, ctx, write, rows, revoked, response, forwarded, loops,
          trustRows, signals, barred, crashes>>
world == <<revoked, barred, crashes>>
durable == <<rows, trustRows>>
downstream == <<forwarded, loops>>

NoWrite == [phase |-> "idle", timedOut |-> FALSE, decision |-> "none", attempt |-> 0]
NoContext == [score |-> 0, casbin |-> "none", decision |-> "none", promoted |-> FALSE,
              upstream |-> "none", trust |-> "none"]
NoRows == [d \in Decisions |-> 0]

Init ==
    /\ stage = [r \in Requests |-> "new"]
    /\ req \in [Requests -> RequestKinds]
    /\ ctx = [r \in Requests |-> NoContext]
    /\ write = [r \in Requests |-> NoWrite]
    /\ rows = [r \in Requests |-> NoRows]
    /\ revoked = {}
    /\ response = [r \in Requests |-> "none"]
    /\ forwarded = {} /\ loops = {} /\ trustRows = {} /\ barred = {}
    /\ signals = [r \in Requests |-> {}]
    /\ crashes = 0

-----------------------------------------------------------------------------
(* Steps shared by the stages *)

At(r, s) == stage[r] = s /\ write[r].phase = "idle"

Advance(r) == stage' = [stage EXCEPT ![r] = NextStage[stage[r]]]

(* writeOutcome and handleTerminalError: one answer, and the pipeline ends *)
Respond(r, what) ==
    /\ response' = [response EXCEPT ![r] = what]
    /\ stage' = [stage EXCEPT ![r] = "answered"]

StartWrite(r, d) ==
    write' = [write EXCEPT ![r] =
                 [phase |-> "running", timedOut |-> FALSE, decision |-> d, attempt |-> 0]]

(* The awaited log() came back, or the 200 ms timer won the race and left  *)
(* the write running behind the request.                                   *)
WriteReturned(r) == write[r].phase = "done" \/ write[r].timedOut

Settle(r) ==
    write' = [write EXCEPT ![r] = IF @.phase = "running" THEN @ ELSE NoWrite]

Emit(r, signal) == signals' = [signals EXCEPT ![r] = @ \cup {signal}]

-----------------------------------------------------------------------------
(* AuditService *)

(* repo.insert succeeds *)
InsertOk(r) ==
    /\ write[r].phase = "running"
    /\ rows' = [rows EXCEPT ![r][write[r].decision] = @ + 1]
    /\ write' = [write EXCEPT ![r].phase = "done"]
    /\ UNCHANGED <<stage, req, ctx, response, downstream, trustRows, signals, world>>

(* What log() does with a failed insert: writeBlocking tries again up to   *)
(* walMaxRetries times and then throws; recordBestEffort swallows it.      *)
FaultyAfterFailure(w) ==
    IF w.decision = "allow" /\ w.attempt + 1 < WalMaxRetries THEN [w EXCEPT !.attempt = @ + 1]
    ELSE [w EXCEPT !.phase = "done"]

FaultyAfterFailureOneMore(w) ==
    IF w.decision = "allow" /\ w.attempt + 1 <= WalMaxRetries THEN [w EXCEPT !.attempt = @ + 1]
    ELSE [w EXCEPT !.phase = IF w.decision = "allow" THEN "thrown" ELSE "done"]

AfterFailure(w) ==
    IF w.decision = "allow" /\ w.attempt + 1 < WalMaxRetries THEN [w EXCEPT !.attempt = @ + 1]
    ELSE [w EXCEPT !.phase = IF w.decision = "allow" THEN "thrown" ELSE "done"]

(* The insert throws.  When only the acknowledgement was lost the row is   *)
(* there all the same.                                                     *)
InsertFails(r) ==
    /\ write[r].phase = "running"
    /\ \E stored \in {0, 1} : rows' = [rows EXCEPT ![r][write[r].decision] = @ + stored]
    /\ write' = [write EXCEPT ![r] = AfterFailure(@)]
    /\ UNCHANGED <<stage, req, ctx, response, downstream, trustRows, signals, world>>

(* recordWithTimeoutBestEffort: only the audit_allow stage waits untimed *)
TimerFires(r) ==
    /\ write[r].phase = "running" /\ stage[r] \notin {"audit_allow", "answered"}
    /\ ~write[r].timedOut
    /\ write' = [write EXCEPT ![r].timedOut = TRUE]
    /\ UNCHANGED <<stage, req, ctx, rows, response, downstream, trustRows, signals, world>>

(* The exception of the other stages is left to nobody *)
FaultyAuditExhausted(r) ==
    /\ stage[r] = "audit_allow"
    /\ write[r].phase = "thrown" /\ ~write[r].timedOut
    /\ Emit(r, "audit.signal")
    /\ Respond(r, "audit_unavailable")
    /\ write' = [write EXCEPT ![r] = NoWrite]
    /\ UNCHANGED <<req, ctx, durable, downstream, world>>

(* handleTerminalError on AuditExhaustedException *)
AuditExhausted(r) ==
    /\ write[r].phase = "thrown" /\ ~write[r].timedOut
    /\ Emit(r, "audit.signal")
    /\ Respond(r, "audit_unavailable")
    /\ write' = [write EXCEPT ![r] = NoWrite]
    /\ UNCHANGED <<req, ctx, durable, downstream, world>>

-----------------------------------------------------------------------------
(* The stages *)

(* GatewayMiddleware.use: CORS preflights go straight to next() ... *)
Preflight(r) ==
    /\ stage[r] = "new" /\ req[r].path = "preflight"
    /\ Respond(r, "bypass")
    /\ UNCHANGED <<req, ctx, write, durable, downstream, signals, world>>

(* ... and everything else gets a context and enters the orchestrator *)
Arrive(r) ==
    /\ stage[r] = "new" /\ req[r].path # "preflight"
    /\ stage' = [stage EXCEPT ![r] = "public_bypass"]
    /\ barred' = IF req[r].jti \in revoked THEN barred \cup {r} ELSE barred
    /\ UNCHANGED <<req, ctx, write, durable, revoked, response, downstream, signals, crashes>>

Bypass(r, s, path) ==
    /\ At(r, s)
    /\ IF req[r].path = path THEN Respond(r, "bypass") ELSE Advance(r) /\ UNCHANGED response
    /\ UNCHANGED <<req, ctx, write, durable, downstream, signals, world>>

PublicBypass(r) == Bypass(r, "public_bypass", "public")
HoneypotBypass(r) == Bypass(r, "honeypot_bypass", "honeypot")

Auth(r) ==
    /\ At(r, "auth")
    /\ IF req[r].token THEN Advance(r) /\ UNCHANGED write ELSE StartWrite(r, "deny") /\ UNCHANGED stage
    /\ UNCHANGED <<req, ctx, durable, response, downstream, signals, world>>

AuthRefused(r) ==
    /\ stage[r] = "auth" /\ WriteReturned(r)
    /\ Emit(r, "auth.invalid_token")
    /\ Respond(r, "auth_invalid")
    /\ Settle(r)
    /\ UNCHANGED <<req, ctx, durable, downstream, world>>

FaultyRevocation(r) ==
    /\ At(r, "revocation")
    /\ IF req[r].jti \notin revoked \/ req[r].path = "auth_only"
       THEN Advance(r) /\ UNCHANGED write
       ELSE StartWrite(r, "deny") /\ UNCHANGED stage
    /\ UNCHANGED <<req, ctx, durable, response, downstream, signals, world>>

Revocation(r) ==
    /\ At(r, "revocation")
    /\ IF req[r].jti \notin revoked
       THEN Advance(r) /\ UNCHANGED write
       ELSE StartWrite(r, "deny") /\ UNCHANGED stage
    /\ UNCHANGED <<req, ctx, durable, response, downstream, signals, world>>

RevocationRefused(r) ==
    /\ stage[r] = "revocation" /\ WriteReturned(r)
    /\ Respond(r, "token_revoked")
    /\ Settle(r)
    /\ UNCHANGED <<req, ctx, durable, downstream, signals, world>>

AuthOnly(r) ==
    /\ At(r, "auth_only")
    /\ IF req[r].path # "auth_only"
       THEN Advance(r) /\ UNCHANGED write
       ELSE StartWrite(r, "allow") /\ UNCHANGED stage
    /\ UNCHANGED <<req, ctx, durable, response, downstream, signals, world>>

AuthOnlyBypass(r) ==
    /\ stage[r] = "auth_only" /\ WriteReturned(r)
    /\ Respond(r, "bypass")
    /\ Settle(r)
    /\ UNCHANGED <<req, ctx, durable, downstream, signals, world>>

TrustScore(r) ==
    /\ At(r, "trust_score")
    /\ \E score \in Scores : ctx' = [ctx EXCEPT ![r].score = score]
    /\ Advance(r)
    /\ UNCHANGED <<req, write, durable, response, downstream, signals, world>>

(* A high score needs a solved proof of work; verifySolution may refuse    *)
(* one all the same (expired, replayed, too easy).                         *)
Hashcash(r) ==
    /\ At(r, "hashcash")
    /\ \/ /\ ctx[r].score <= HashTrigger \/ req[r].pow
          /\ Advance(r) /\ UNCHANGED response
       \/ /\ ctx[r].score > HashTrigger
          /\ Respond(r, "proof_of_work")
    /\ UNCHANGED <<req, ctx, write, durable, downstream, signals, world>>

(* evaluate(): casbin first, then the two thresholds, each of the level    *)
(* its own read finds                                                      *)
FaultyDecide(score, casbin, challengeAt, denyAt) ==
    IF casbin = "no_match" \/ score >= DenyT[denyAt] THEN "DENY"
    ELSE IF score < ChallengeT[challengeAt] THEN "ALLOW"
    ELSE "CHALLENGE"

Decide(score, casbin, challengeAt, denyAt) ==
    IF casbin # "match" \/ score >= DenyT[denyAt] THEN "DENY"
    ELSE IF score < ChallengeT[challengeAt] THEN "ALLOW"
    ELSE "CHALLENGE"

(* The level may cool down between the two reads; nothing raises it there. *)
(* The schema has the thresholds grow from each level to the one below.    *)
MayCool(challengeAt, denyAt) == ChallengeT[challengeAt] <= ChallengeT[denyAt]

Policy(r) ==
    /\ At(r, "policy")
    /\ \E casbin \in {"match", "no_match", "error"}, challengeAt, denyAt \in Levels :
         LET d == Decide(ctx[r].score, casbin, challengeAt, denyAt)
         IN  /\ MayCool(challengeAt, denyAt)
             /\ ctx' = [ctx EXCEPT ![r].decision = d, ![r].casbin = casbin]
             /\ signals' = IF d = "DENY" THEN [signals EXCEPT ![r] = @ \cup {"policy.deny"}]
                           ELSE signals
    /\ Advance(r)
    /\ UNCHANGED <<req, write, durable, response, downstream, world>>

(* ALLOW passes; CHALLENGE passes when validateMfaToken accepts the token, *)
(* and a refused token is a threat signal unless the refusal was a         *)
(* database fault; what does not pass is audited before it is answered.    *)
MfaPromotion(r) ==
    /\ At(r, "mfa_promotion")
    /\ \/ /\ ctx[r].decision = "ALLOW"
          /\ Advance(r) /\ UNCHANGED <<ctx, write, signals>>
       \/ /\ ctx[r].decision = "CHALLENGE" /\ req[r].mfa
          /\ ctx' = [ctx EXCEPT ![r].promoted = TRUE]
          /\ Advance(r) /\ UNCHANGED <<write, signals>>
       \/ /\ ctx[r].decision = "CHALLENGE"
          /\ StartWrite(r, "challenge")
          /\ \/ req[r].mfa /\ Emit(r, "mfa.failed")
             \/ UNCHANGED signals
          /\ UNCHANGED <<stage, ctx>>
       \/ /\ ctx[r].decision = "DENY"
          /\ StartWrite(r, "deny")
          /\ UNCHANGED <<stage, ctx, signals>>
    /\ UNCHANGED <<req, durable, response, downstream, world>>

FaultyMfaRefused(r) ==
    /\ stage[r] = "mfa_promotion" /\ WriteReturned(r)
    /\ \/ /\ ctx[r].decision = "DENY"
          /\ Respond(r, "policy_denied")
       \/ /\ ctx[r].decision # "DENY"
          /\ Advance(r) /\ UNCHANGED response
    /\ Settle(r)
    /\ UNCHANGED <<req, ctx, durable, downstream, signals, world>>

MfaRefused(r) ==
    /\ stage[r] = "mfa_promotion" /\ WriteReturned(r)
    /\ \/ /\ ctx[r].decision = "DENY"
          /\ Respond(r, "policy_denied") /\ UNCHANGED signals
       \/ /\ ctx[r].decision # "DENY"
          /\ \E what \in {"mfa_required", "mfa_rate_limited", "mfa_internal"} :
               /\ Respond(r, what)
               /\ signals' = IF what = "mfa_rate_limited"
                             THEN [signals EXCEPT ![r] = @ \cup {"mfa.rate_limited"}] ELSE signals
    /\ Settle(r)
    /\ UNCHANGED <<req, ctx, durable, downstream, world>>

AuditAllow(r) ==
    /\ At(r, "audit_allow")
    /\ StartWrite(r, "allow")
    /\ UNCHANGED <<stage, req, ctx, durable, response, downstream, signals, world>>

AuditAllowed(r) ==
    /\ stage[r] = "audit_allow" /\ write[r].phase = "done"
    /\ Advance(r)
    /\ Settle(r)
    /\ UNCHANGED <<req, ctx, durable, response, downstream, signals, world>>

(* ProxyService.forward, once the name, the address and the agent are      *)
(* settled and the circuit lets it through: breaker.fire starts            *)
(* executeWithRetry, which runs beside the request from here on.           *)
Fire(r) ==
    /\ At(r, "proxy") /\ r \notin loops
    /\ loops' = loops \cup {r}
    /\ UNCHANGED <<stage, req, ctx, write, durable, response, forwarded, signals, world>>

(* One attempt of the loop gets on the wire.  Nothing stops the attempts   *)
(* of a loop whose request was answered by the breaker's timer.            *)
Attempt(r) ==
    /\ r \in loops
    /\ forwarded' = forwarded \cup {r}
    /\ UNCHANGED <<stage, req, ctx, write, durable, response, loops, signals, world>>

(* The loop returned an answer to pass on *)
ProxyAnswered(r) ==
    /\ At(r, "proxy") /\ r \in loops /\ r \in forwarded
    /\ \E status \in {"2xx", "4xx"} : ctx' = [ctx EXCEPT ![r].upstream = status]
    /\ loops' = loops \ {r}
    /\ Advance(r)
    /\ UNCHANGED <<req, write, durable, response, forwarded, signals, world>>

(* forward threw: before the loop (unknown service, blocked address, no    *)
(* agent, open circuit), with the loop (retries used up, no connection),   *)
(* or at assertValidProxyResponse (a 5xx, a body that is not JSON).        *)
ProxyThrew(r) ==
    /\ At(r, "proxy")
    /\ \E what \in {"internal_error"} \cup
           (IF r \notin loops THEN {"proxy_unavailable", "route_rejected"}
            ELSE IF r \in forwarded THEN {"proxy_unavailable", "bad_gateway"} ELSE {}) :
         Respond(r, what)
    /\ loops' = loops \ {r}
    /\ UNCHANGED <<req, ctx, write, durable, forwarded, signals, world>>

(* The breaker's own timer, opossum's default of 10 s, rejects fire() and  *)
(* leaves the loop running behind the answer                               *)
BreakerTimer(r) ==
    /\ At(r, "proxy") /\ r \in loops
    /\ Respond(r, "proxy_unavailable")
    /\ UNCHANGED <<req, ctx, write, durable, downstream, signals, world>>

(* ... until it returns or throws to nobody *)
LoopEnds(r) ==
    /\ r \in loops /\ stage[r] = "answered"
    /\ loops' = loops \ {r}
    /\ UNCHANGED <<stage, req, ctx, write, durable, response, forwarded, signals, world>>

BoplaStrip(r) ==
    /\ At(r, "bopla_strip")
    /\ Advance(r)
    /\ UNCHANGED <<req, ctx, write, durable, response, downstream, signals, world>>

(* Every answer counts, a refusal of the service included *)
FaultyRecordTrustContext(r) ==
    /\ At(r, "record_trust_context") /\ ctx[r].trust = "none"
    /\ trustRows' = trustRows \cup {r}
    /\ ctx' = [ctx EXCEPT ![r].trust = "ok"]
    /\ UNCHANGED <<stage, req, write, rows, response, downstream, signals, world>>

(* recordTrustContextAfterAllow, a transaction: it commits; it fails and   *)
(* is rolled back; or it commits and the answer to COMMIT is lost, which   *)
(* throws like a failure.                                                  *)
RecordTrustContext(r) ==
    /\ At(r, "record_trust_context") /\ ctx[r].trust = "none" /\ ctx[r].upstream = "2xx"
    /\ \/ /\ trustRows' = trustRows \cup {r}
          /\ \E told \in {"ok", "failed"} : ctx' = [ctx EXCEPT ![r].trust = told]
       \/ /\ ctx' = [ctx EXCEPT ![r].trust = "failed"]
          /\ UNCHANGED trustRows
    /\ UNCHANGED <<stage, req, write, rows, response, downstream, signals, world>>

(* The stage's outcome: an upstream status of 400 or more is not recorded, *)
(* and an exception of the write is the request's.                         *)
Proxied(r) ==
    /\ At(r, "record_trust_context")
    /\ \/ (ctx[r].upstream # "2xx" \/ ctx[r].trust = "ok") /\ Respond(r, "proxied")
       \/ ctx[r].trust = "failed" /\ Respond(r, "internal_error")
    /\ UNCHANGED <<req, ctx, write, durable, downstream, signals, world>>

-----------------------------------------------------------------------------
(* The environment *)

(* POST /auth/revoke by another client *)
Revoke(j) ==
    /\ j \notin revoked
    /\ revoked' = revoked \cup {j}
    /\ UNCHANGED <<stage, req, ctx, write, durable, response, downstream, signals, barred, crashes>>

(* The process dies and restarts: open connections and in-memory state go, *)
(* rows stay.                                                              *)
Crash ==
    /\ crashes < MaxCrashes
    /\ crashes' = crashes + 1
    /\ LET open(r) == stage[r] \notin {"new", "answered"}
       IN  /\ stage' = [r \in Requests |-> IF open(r) THEN "answered" ELSE stage[r]]
           /\ response' = [r \in Requests |-> IF open(r) THEN "connection_lost" ELSE response[r]]
    /\ write' = [r \in Requests |-> NoWrite]
    /\ loops' = {} /\ revoked' = {}
    /\ UNCHANGED <<req, ctx, durable, forwarded, signals, barred>>

RequestStep(r) ==
    \/ PublicBypass(r) \/ HoneypotBypass(r)
    \/ Auth(r) \/ AuthRefused(r)
    \/ Revocation(r) \/ RevocationRefused(r)
    \/ AuthOnly(r) \/ AuthOnlyBypass(r)
    \/ TrustScore(r) \/ Hashcash(r) \/ Policy(r)
    \/ MfaPromotion(r) \/ MfaRefused(r)
    \/ AuditAllow(r) \/ AuditAllowed(r) \/ AuditExhausted(r)
    \/ Fire(r) \/ ProxyAnswered(r) \/ ProxyThrew(r) \/ BreakerTimer(r)
    \/ BoplaStrip(r) \/ RecordTrustContext(r) \/ Proxied(r)

(* What the retry loop does by itself *)
LoopStep(r) == Attempt(r) \/ LoopEnds(r)

DatabaseAnswers(r) == InsertOk(r) \/ InsertFails(r)

Next ==
    \/ \E r \in Requests : Preflight(r) \/ Arrive(r)
    \/ \E r \in Requests : RequestStep(r) \/ LoopStep(r) \/ DatabaseAnswers(r) \/ TimerFires(r)
    \/ \E j \in Jtis : Revoke(j)
    \/ Crash

Spec == Init /\ [][Next]_vars

(* The event loop runs every ready continuation, the database answers      *)
(* every statement one way or the other, and fire() settles, with its loop *)
(* or by the breaker's timer.  A loop left behind owes nobody anything.    *)
Fairness ==
    \A r \in Requests : WF_vars(RequestStep(r)) /\ WF_vars(DatabaseAnswers(r))

FairSpec == Spec /\ Fairness

-----------------------------------------------------------------------------
(* Properties *)

(* Types of the pipeline's state. *)
TypeOK ==
    /\ stage \in [Requests -> Stages \cup {"new", "answered"}]
    /\ req \in [Requests -> RequestKinds]
    /\ ctx \in [Requests -> [score : Int, casbin : {"none", "match", "no_match", "error"},
                            decision : {"none", "ALLOW", "CHALLENGE", "DENY"},
                            promoted : BOOLEAN, upstream : {"none", "2xx", "4xx"},
                            trust : {"none", "ok", "failed"}]]
    /\ write \in [Requests -> [phase : {"idle", "running", "done", "thrown"},
                              timedOut : BOOLEAN, decision : Decisions \cup {"none"},
                              attempt : 0..(WalMaxRetries - 1)]]
    /\ rows \in [Requests -> [Decisions -> Nat]]
    /\ revoked \in SUBSET Jtis
    /\ response \in [Requests -> Responses]
    /\ forwarded \in SUBSET Requests /\ loops \in SUBSET Requests
    /\ trustRows \in SUBSET Requests /\ barred \in SUBSET Requests
    /\ signals \in [Requests -> SUBSET {"auth.invalid_token", "audit.signal", "policy.deny",
                                       "mfa.failed", "mfa.rate_limited"}]
    /\ crashes \in 0..MaxCrashes

(* ADR-0001, audit-before-allow: no downstream service ever receives a     *)
(* request without a durable allow row, whatever inserts fail, lose their  *)
(* acknowledgement or are cut off by a crash.                              *)
AuditBeforeForward == \A r \in forwarded : rows[r]["allow"] >= 1

(* ADR-0001, fail closed: a request answered 503 audit_unavailable was not *)
(* forwarded, and its exhaustion reached the threat aggregator.            *)
ExhaustionFailsClosed ==
    \A r \in Requests : response[r] = "audit_unavailable" =>
        r \notin forwarded \cup loops /\ "audit.signal" \in signals[r]

(* A request leaves the gateway only with a session token, a proof of work *)
(* if its score called for one, a casbin match (ADR-0004: an enforcer      *)
(* error is a DENY), and a score that some level lets through: under its   *)
(* challenge threshold, or under its deny threshold with an accepted MFA   *)
(* token.                                                                  *)
ForwardedForCause ==
    \A r \in forwarded :
        /\ req[r].path = "service" /\ req[r].token
        /\ ctx[r].score > HashTrigger => req[r].pow
        /\ ctx[r].casbin = "match"
        /\ \E l \in Levels : /\ ctx[r].score < DenyT[l]
                             /\ ctx[r].score < ChallengeT[l] \/ (ctx[r].promoted /\ req[r].mfa)

(* A token that was on the revocation list when the request arrived opens  *)
(* neither a downstream service nor an auth-only endpoint.                 *)
RevokedNeverServed ==
    \A r \in barred :
        /\ r \notin forwarded
        /\ response[r] = "bypass" => req[r].path \in {"public", "honeypot"}

(* ADR-0002: trust history is written only for an audited, forwarded       *)
(* request the service answered with success.                              *)
TrustOnlyAfterAllow ==
    \A r \in trustRows :
        r \in forwarded /\ ctx[r].upstream = "2xx" /\ rows[r]["allow"] >= 1

(* The audit trail tells one story per request: rows of one decision only, *)
(* and retries never leave more allow rows than attempts.                  *)
AuditTrailCoherent ==
    \A r \in Requests :
        /\ rows[r]["allow"] <= WalMaxRetries /\ rows[r]["deny"] + rows[r]["challenge"] <= 1
        /\ rows[r]["allow"] > 0 => rows[r]["deny"] + rows[r]["challenge"] = 0

(* An answer is final: it never changes, and nothing is recorded in the    *)
(* trust history afterwards.  The request may still be sent downstream,    *)
(* but only by a retry loop that was running when the breaker's timer      *)
(* answered; none starts afterwards.                                       *)
AnswerIsFinal ==
    [][\A r \in Requests : response[r] # "none" =>
          /\ response'[r] = response[r]
          /\ r \in forwarded' => r \in forwarded \cup loops
          /\ r \in loops' => r \in loops /\ response[r] = "proxy_unavailable"
          /\ r \in trustRows' => r \in trustRows]_vars

(* Every request that arrived is answered: the audit retries are bounded   *)
(* and no stage waits for another request.                                 *)
EveryRequestAnswered ==
    \A r \in Requests : (stage[r] # "new") ~> (response[r] # "none")

(* record-with-timeout.util.ts:11: the best-effort write of the auth-only  *)
(* stage "never throws": no auth-only request is refused because the audit *)
(* store is down.                                                          *)
AuthOnlyAuditNeverThrows ==
    \A r \in Requests : req[r].path = "auth_only" => response[r] # "audit_unavailable"

(* docs/THESIS_PIPELINE.md: a failed trust-history write "does not         *)
(* retroactively un-serve the already-completed request".                  *)
CompletedRequestStaysServed ==
    \A r \in Requests : ctx[r].upstream = "2xx" => response[r] # "internal_error"

=============================================================================

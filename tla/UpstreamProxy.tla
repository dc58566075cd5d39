---------------------------- MODULE UpstreamProxy ----------------------------
(***************************************************************************)
(* ProxyService (src/proxy/proxy.service.ts) towards one downstream        *)
(* service: forward() resolves the target, fires the service's opossum     *)
(* breaker once, and the breaker runs executeWithRetry, the whole retry    *)
(* loop.  The breaker races the loop against its own timer (onModuleInit   *)
(* passes no `timeout`, so opossum's default of 10 s applies, while one    *)
(* axios attempt may take 30 s): a loop that loses the race keeps running  *)
(* after its caller has been answered.                                     *)
(*                                                                         *)
(* The breaker and axios are external: they are modelled from how this     *)
(* code uses them.                                                         *)
(***************************************************************************)
EXTENDS Integers, FiniteSets

CONSTANTS Requests,        \* requests to this service
          MaxRetries,      \* PROXY_MAX_RETRIES
          VolumeThreshold, \* PROXY_CB_VOLUME_THRESHOLD
          ErrorThreshold   \* PROXY_CB_ERROR_THRESHOLD, in percent

(* What a configuration must satisfy *)
ProxyAssumption ==
    /\ IsFiniteSet(Requests)
    /\ MaxRetries \in Nat /\ VolumeThreshold \in Nat \ {0} /\ ErrorThreshold \in 0..100

(* What one axios call comes back with: a valid response, one without      *)
(* JSON, 500 or 501, 502 to 504, a retriable or another network error.     *)
Replies == {"valid", "notJson", "serverError", "gatewayError", "reset", "otherError"}

(* executeWithRetry: what it tries again, and what it throws *)
Retriable == {"gatewayError", "reset"}
Thrown == {"gatewayError", "reset", "otherError"}

VARIABLES breaker,  \* opossum: state, fires and failures of the rolling window,
                    \* and whether a half-open breaker still has its trial to give
          call,     \* forward() of each request: "new", "fired" or its answer
          loop,     \* its retry loop: "none", "sending", "backoff", "ended"
          attempt,  \* the loop's counter
          sent,     \* attempts that reached axios
          reply     \* the last reply the loop saw

vars == <<breaker, call, loop, attempt, sent, reply>>

Init ==
    /\ breaker = [state |-> "closed", fires |-> 0, failures |-> 0, trial |-> FALSE]
    /\ call = [r \in Requests |-> "new"]
    /\ loop = [r \in Requests |-> "none"]
    /\ attempt = [r \in Requests |-> 0]
    /\ sent = [r \in Requests |-> 0]
    /\ reply = [r \in Requests |-> "none"]

-----------------------------------------------------------------------------
(* forward() before the breaker *)

(* No service in the path or the registry: 404.  A blocked address: 403.   *)
(* A failing lookup or certificate load: an error, 500.                    *)
Rejected(r) ==
    /\ call[r] = "new"
    /\ \E answer \in {"404", "403", "500"} : call' = [call EXCEPT ![r] = answer]
    /\ UNCHANGED <<breaker, loop, attempt, sent, reply>>

Admits == breaker.state = "closed" \/ breaker.trial

(* breaker.fire on a closed breaker, or as the trial of a half-open one *)
Fire(r) ==
    /\ call[r] = "new" /\ Admits
    /\ breaker' = [breaker EXCEPT !.fires = @ + 1, !.trial = FALSE]
    /\ call' = [call EXCEPT ![r] = "fired"]
    /\ loop' = [loop EXCEPT ![r] = "sending"]
    /\ sent' = [sent EXCEPT ![r] = @ + 1]
    /\ UNCHANGED <<attempt, reply>>

(* An open breaker rejects: ServiceUnavailableException, 502 *)
ShortCircuit(r) ==
    /\ call[r] = "new" /\ ~Admits
    /\ breaker' = [breaker EXCEPT !.fires = @ + 1]
    /\ call' = [call EXCEPT ![r] = "502"]
    /\ UNCHANGED <<loop, attempt, sent, reply>>

-----------------------------------------------------------------------------
(* The breaker's bookkeeping *)

Failed(b) ==
    LET f == [b EXCEPT !.failures = @ + 1]
        tripped == \/ b.state = "halfOpen"
                   \/ /\ f.fires >= VolumeThreshold
                      /\ 100 * f.failures > ErrorThreshold * f.fires
    IN  IF tripped THEN [f EXCEPT !.state = "open", !.trial = FALSE] ELSE f

Succeeded(b) ==
    IF b.state = "halfOpen" THEN [b EXCEPT !.state = "closed", !.trial = FALSE] ELSE b

(* The rolling statistics window moves on *)
WindowRolls ==
    /\ breaker.fires > 0
    /\ breaker' = [breaker EXCEPT !.fires = 0, !.failures = 0]
    /\ UNCHANGED <<call, loop, attempt, sent, reply>>

(* resetTimeout after it opened the breaker offers one trial *)
HalfOpen ==
    /\ breaker.state = "open"
    /\ breaker' = [breaker EXCEPT !.state = "halfOpen", !.trial = TRUE]
    /\ UNCHANGED <<call, loop, attempt, sent, reply>>

(* The breaker's timer: one failure, and the caller is answered 502 *)
BreakerTimeout(r) ==
    /\ call[r] = "fired"
    /\ breaker' = Failed(breaker)
    /\ call' = [call EXCEPT ![r] = "502"]
    /\ UNCHANGED <<loop, attempt, sent, reply>>

-----------------------------------------------------------------------------
(* executeWithRetry *)

FaultyMayRetry(r, p) == p \in Retriable /\ attempt[r] <= MaxRetries

MayRetry(r, p) == p \in Retriable /\ attempt[r] < MaxRetries

(* The attempt failed in a way worth another one: sleep, then continue *)
FaultyBackOff(r, p) ==
    /\ loop[r] = "sending" /\ MayRetry(r, p)
    /\ loop' = [loop EXCEPT ![r] = "backoff"]
    /\ reply' = [reply EXCEPT ![r] = p]
    /\ breaker' = IF call[r] = "fired" THEN Failed(breaker) ELSE breaker
    /\ UNCHANGED <<call, attempt, sent>>

BackOff(r, p) ==
    /\ loop[r] = "sending" /\ MayRetry(r, p)
    /\ loop' = [loop EXCEPT ![r] = "backoff"]
    /\ reply' = [reply EXCEPT ![r] = p]
    /\ UNCHANGED <<breaker, call, attempt, sent>>

Resend(r) ==
    /\ loop[r] = "backoff"
    /\ attempt' = [attempt EXCEPT ![r] = @ + 1]
    /\ sent' = [sent EXCEPT ![r] = @ + 1]
    /\ loop' = [loop EXCEPT ![r] = "sending"]
    /\ UNCHANGED <<breaker, call, reply>>

(* The end of forward(): assertValidProxyResponse on a response, and the   *)
(* thrown errors, which only the breaker's own turn into 502               *)
AnswerFor(p) == CASE p = "valid" -> "served"
                  [] p \in {"serverError", "notJson"} -> "502"
                  [] OTHER -> "500"

(* The loop returns or throws; a breaker whose timer fired ignores it *)
LoopEnds(r, p) ==
    /\ loop[r] = "sending" /\ ~MayRetry(r, p)
    /\ loop' = [loop EXCEPT ![r] = "ended"]
    /\ reply' = [reply EXCEPT ![r] = p]
    /\ IF call[r] = "fired"
         THEN /\ breaker' = IF p \in Thrown THEN Failed(breaker) ELSE Succeeded(breaker)
              /\ call' = [call EXCEPT ![r] = AnswerFor(p)]
         ELSE UNCHANGED <<breaker, call>>
    /\ UNCHANGED <<attempt, sent>>

Loop(r) == Resend(r) \/ \E p \in Replies : BackOff(r, p) \/ LoopEnds(r, p)

Next ==
    \/ \E r \in Requests : \/ Rejected(r) \/ Fire(r) \/ ShortCircuit(r)
                           \/ BreakerTimeout(r) \/ Loop(r)
    \/ WindowRolls \/ HalfOpen

Spec == Init /\ [][Next]_vars

-----------------------------------------------------------------------------
(* Properties *)

Answers == {"404", "403", "500", "502", "served"}

(* Types of the breaker, the calls and the loops; a request is sent to its *)
(* service at most MaxRetries + 1 times.                                   *)
TypeOK ==
    /\ breaker \in [state : {"closed", "open", "halfOpen"}, fires : 0..Cardinality(Requests),
                    failures : Nat, trial : BOOLEAN]
    /\ call \in [Requests -> {"new", "fired"} \cup Answers]
    /\ loop \in [Requests -> {"none", "sending", "backoff", "ended"}]
    /\ attempt \in [Requests -> 0..MaxRetries]
    /\ sent \in [Requests -> 0..(MaxRetries + 1)]
    /\ reply \in [Requests -> Replies \cup {"none"}]

(* A request costs the breaker at most one failure, however many attempts  *)
(* its loop makes and whether the loop or the breaker's timer ends first,  *)
(* and only once its caller has been given the error.                      *)
OneFailurePerFire ==
    breaker.failures <= Cardinality({r \in Requests : sent[r] > 0 /\ call[r] \in {"500", "502"}})

(* proxy.service.ts:140: "the breaker records ONE failure only after all   *)
(* retries are exhausted".                                                 *)
FailureOnlyAfterRetries ==
    breaker.failures <= Cardinality({r \in Requests : loop[r] = "ended"})

(* THESIS_PIPELINE.md:488: "Breaker open or all retries exhausted -> 502   *)
(* proxy_unavailable".                                                     *)
ExhaustionAnswers502 ==
    \A r \in Requests :
        loop[r] = "ended" /\ reply[r] \in Retriable => call[r] = "502"

=============================================================================

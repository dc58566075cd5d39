--------------------------- MODULE GatewayMetrics ---------------------------
(***************************************************************************)
(* The counters of MetricsService (src/metrics/metrics.service.ts) that    *)
(* the pipeline and the audit writer drive, beside every step of           *)
(* GatewayRefinement's pipeline.  A counter of the process is split here   *)
(* by the request that moved it; the process forgets them when it dies.    *)
(***************************************************************************)
EXTENDS GatewayRefinement

VARIABLES meter,   \* what each request added to the counters
          logged   \* history: the decision whose audit write began in this process

mvars == <<vars, meter, logged>>

(* requests_total by decision, mfa_promotions_total by result and          *)
(* audit_failures_total                                                    *)
NoCounts == [allow |-> 0, challenge |-> 0, deny |-> 0,
             promoted |-> 0, rejected |-> 0, failures |-> 0]

MeteredInit ==
    /\ Init
    /\ meter = [r \in Requests |-> NoCounts]
    /\ logged = [r \in Requests |-> "none"]

Count(r, counter) == meter' = [meter EXCEPT ![r][counter] = @ + 1]

CountIf(cond, r, counter) == IF cond THEN Count(r, counter) ELSE UNCHANGED meter

(* The last insert of an ALLOW is announced, as if it were best effort,    *)
(* and the others are not.                                                 *)
FaultyRecordFailed(r) == CountIf(write'[r].phase = "thrown", r, "failures")

(* recordBestEffort emits audit.record_failed, onAuditRecordFailed counts; *)
(* an exhausted ALLOW is counted by whoever catches its exception.         *)
RecordFailed(r) == CountIf(write'[r].phase = "done", r, "failures")

(* Steps that touch no counter *)
Uncounted(r) ==
    \/ Preflight(r) \/ Arrive(r)
    \/ PublicBypass(r) \/ HoneypotBypass(r)
    \/ Auth(r) \/ AuthRefused(r)
    \/ Revocation(r) \/ RevocationRefused(r)
    \/ AuthOnly(r) \/ AuthOnlyBypass(r)
    \/ TrustScore(r) \/ Hashcash(r) \/ Policy(r)
    \/ AuditAllow(r) \/ AuditAllowed(r)
    \/ Fire(r) \/ LoopStep(r) \/ ProxyAnswered(r) \/ ProxyThrew(r) \/ BreakerTimer(r)
    \/ BoplaStrip(r) \/ RecordTrustContext(r)
    \/ InsertOk(r)

Counted(r) ==
    \/ InsertFails(r) /\ RecordFailed(r)
    \/ (TimerFires(r) \/ AuditExhausted(r)) /\ Count(r, "failures")
    \/ /\ MfaPromotion(r)
       /\ CountIf(ctx[r].decision = "CHALLENGE", r,
                  IF ctx'[r].promoted THEN "promoted" ELSE "rejected")
    \/ MfaRefused(r) /\ Count(r, IF ctx[r].decision = "DENY" THEN "deny" ELSE "challenge")
    \/ Proxied(r) /\ CountIf(response'[r] = "proxied", r, "allow")

Begun ==
    logged' = [r \in Requests |-> IF write'[r].phase = "running" THEN write'[r].decision
                                  ELSE logged[r]]

Forgotten ==
    /\ meter' = [r \in Requests |-> NoCounts]
    /\ logged' = [r \in Requests |-> "none"]

MeteredNext ==
    \/ \E r \in Requests : Uncounted(r) /\ UNCHANGED meter /\ Begun
    \/ \E r \in Requests : Counted(r) /\ Begun
    \/ \E j \in Jtis : Revoke(j) /\ UNCHANGED <<meter, logged>>
    \/ Crash /\ Forgotten

MeteredSpec == MeteredInit /\ [][MeteredNext]_mvars

MeteredFairSpec == MeteredSpec /\ Fairness

-----------------------------------------------------------------------------
(* Properties *)

WriteOver(r) ==
    write[r].phase # "running" /\ (write[r].phase = "thrown" => write[r].timedOut)

(* An audit row is never lost in silence: when a write this process began  *)
(* is over and left no row, audit_failures_total has moved for it, whether *)
(* the insert failed before or after the timer; and a request counted in   *)
(* requests_total is counted once, under the decision it was audited with. *)
LostRowsAreCounted ==
    \A r \in Requests :
        /\ (logged[r] # "none" /\ WriteOver(r) /\ rows[r][logged[r]] = 0)
              => meter[r].failures > 0
        /\ meter[r].allow + meter[r].challenge + meter[r].deny <= 1
        /\ \A d \in Decisions : meter[r][d] > 0 => logged[r] = d

(* metrics.service.ts:117: audit_failures_total counts "Audit write        *)
(* failures (WAL exhaustion + best-effort record() catches)": a request    *)
(* whose row was stored has added nothing to it, and none adds twice.      *)
FailuresAreLostRows ==
    \A r \in Requests : meter[r].failures <= (IF logged[r] = "none" \/ rows[r][logged[r]] > 0
                                              THEN 0 ELSE 1)

=============================================================================

----------------------------- MODULE TrustScore -----------------------------
(***************************************************************************)
(* TrustScoreService.evaluateScore (src/trust-score/): five signals read   *)
(* the trust history in parallel, each one on its own and each one able to *)
(* fail, then Trust Decay reads it once more.  Meanwhile other requests of *)
(* the same user record ALLOW outcomes, so the reads need not agree.       *)
(*                                                                         *)
(* Scores are in thousandths.  The behavioural anomaly and the decay       *)
(* factor k, both real-valued in the code, are drawn from a few values of  *)
(* their ranges ([0, 0.4] and [0, 1]).                                     *)
(***************************************************************************)
EXTENDS Integers, FiniteSets, FiniteSetsExt

CONSTANTS KnownThreshold,     \* TRUST_KNOWN_THRESHOLD
          FrequencyNormalMax, \* TRUST_FREQUENCY_NORMAL_MAX
          AnomalyWarmupN,     \* TRUST_ANOMALY_WARMUP_N
          Anomalies,          \* deltas of the anomaly signal, in thousandths
          DecayFactors,       \* values of k, in percent
          MaxAllows           \* bound: recorded ALLOWs

(* What a configuration must satisfy *)
ScoreAssumption ==
    /\ KnownThreshold \in Nat /\ FrequencyNormalMax \in Nat /\ AnomalyWarmupN \in Nat
    /\ Anomalies \subseteq 0..400 /\ DecayFactors \subseteq 0..100 /\ MaxAllows \in Nat

Rules == {"device", "ip", "frequency"}
Signals == Rules \cup {"drift", "anomaly"}
Decayable == {"device", "ip"}

VARIABLES row,       \* the caller's trust_signals row: allows, drifted, idle factor k
          ipAllows,  \* allows of the user from this ip on other devices
          recent,    \* trust_activity rows within the frequency window
          delta,     \* the adjustments: signal -> thousandths
          would,     \* history: the same, had no read failed
          faulted,   \* tasks that ended in faultAdjustment
          todo,      \* signals still reading
          score      \* -1 until evaluateScore returns

vars == <<row, ipAllows, recent, delta, would, faulted, todo, score>>

Init ==
    /\ row \in [allows : 0..MaxAllows, drifted : BOOLEAN, k : DecayFactors]
    /\ row.allows = 0 => ~row.drifted /\ row.k = 100
    /\ ipAllows \in 0..MaxAllows /\ recent \in 0..MaxAllows
    /\ delta = [s \in Signals |-> 0] /\ would = delta
    /\ faulted = {}
    /\ todo = Signals
    /\ score = -1

-----------------------------------------------------------------------------
(* Signals.  A row exists once it counts an ALLOW. *)

(* SIGNAL_RULES with evaluateRule *)
RuleDelta(s) ==
    CASE s = "device" -> IF row.allows >= KnownThreshold THEN -150 ELSE 150
      [] s = "ip" -> IF row.allows + ipAllows >= KnownThreshold THEN -150 ELSE 150
      [] s = "frequency" -> IF recent > FrequencyNormalMax THEN 200 ELSE -100

(* Ja4hDriftProvider.compute *)
DriftDelta == IF row.allows > 0 /\ row.drifted THEN 300 ELSE -50

(* BehaviorAnomalyProvider.compute: nothing before the warm-up *)
AnomalyDeltas == IF row.allows = 0 \/ row.allows < AnomalyWarmupN THEN {0} ELSE Anomalies

Values(s) == CASE s \in Rules -> {RuleDelta(s)}
               [] s = "drift" -> {DriftDelta}
               [] s = "anomaly" -> AnomalyDeltas

Compute(s) ==
    /\ s \in todo /\ todo' = todo \ {s}
    /\ \E d \in Values(s) : /\ delta' = [delta EXCEPT ![s] = d]
                            /\ would' = [would EXCEPT ![s] = d]
    /\ UNCHANGED <<row, ipAllows, recent, faulted, score>>

(* faultAdjustment: the read threw *)
FaultDelta == 100

Fault(s) ==
    /\ s \in todo /\ todo' = todo \ {s}
    /\ delta' = [delta EXCEPT ![s] = FaultDelta]
    /\ \E d \in Values(s) : would' = [would EXCEPT ![s] = d]
    /\ faulted' = faulted \cup {s}
    /\ UNCHANGED <<row, ipAllows, recent, score>>

-----------------------------------------------------------------------------
(* Trust Decay and the sum *)

Sum(adjustments) ==
    adjustments["device"] + adjustments["ip"] + adjustments["frequency"]
    + adjustments["drift"] + adjustments["anomaly"]

FaultyCorrection(adjustments) ==
    LET each(s) == IF adjustments[s] < 0 THEN (adjustments[s] * row.k) \div 100 ELSE 0
    IN  IF row.allows = 0 THEN 0 ELSE each("device") + each("ip")

(* TrustDecayProvider.attenuate: delta * (k - 1) of every discount of the  *)
(* signals that decay; a faulted signal is no discount                     *)
Correction(adjustments) ==
    LET each(s) == IF adjustments[s] < 0 THEN (adjustments[s] * (row.k - 100)) \div 100 ELSE 0
    IN  IF row.allows = 0 THEN 0 ELSE each("device") + each("ip")

Total(adjustments, correction) ==
    Max({0, Min({1000, 500 + Sum(adjustments) + correction})})

Finish ==
    /\ todo = {} /\ score = -1
    /\ score' = Total(delta, Correction(delta))
    /\ UNCHANGED <<row, ipAllows, recent, delta, would, faulted, todo>>

FinishDecayFault ==
    /\ todo = {} /\ score = -1
    /\ score' = Total(delta, FaultDelta)
    /\ faulted' = faulted \cup {"decay"}
    /\ UNCHANGED <<row, ipAllows, recent, delta, would, todo>>

(* Another request's recordAllowOutcome: from this device, where it also   *)
(* sets the fingerprint and last_seen_at, or from another one              *)
RecordHere ==
    /\ score = -1 /\ row.allows < MaxAllows /\ recent < MaxAllows
    /\ \E d \in BOOLEAN : row' = [allows |-> row.allows + 1, drifted |-> d, k |-> 100]
    /\ recent' = recent + 1
    /\ UNCHANGED <<ipAllows, delta, would, faulted, todo, score>>

RecordElsewhere ==
    /\ score = -1 /\ ipAllows < MaxAllows /\ recent < MaxAllows
    /\ ipAllows' = ipAllows + 1 /\ recent' = recent + 1
    /\ UNCHANGED <<row, delta, would, faulted, todo, score>>

Next ==
    \/ \E s \in Signals : Compute(s) \/ Fault(s)
    \/ Finish \/ FinishDecayFault
    \/ RecordHere \/ RecordElsewhere

Spec == Init /\ [][Next]_vars

-----------------------------------------------------------------------------
(* Properties *)

(* Types; the score is within [0, 1]. *)
TypeOK ==
    /\ row \in [allows : 0..MaxAllows, drifted : BOOLEAN, k : DecayFactors \cup {100}]
    /\ ipAllows \in 0..MaxAllows /\ recent \in 0..MaxAllows
    /\ delta \in [Signals -> -150..400] /\ would \in [Signals -> -150..400]
    /\ faulted \in SUBSET (Signals \cup {"decay"})
    /\ todo \in SUBSET Signals
    /\ score \in -1..1000

(* An outage fails closed: with the trust history unreadable every task    *)
(* faults, and the score is the maximum.                                   *)
OutageScoresMaximum == Signals \subseteq faulted /\ score # -1 => score = 1000

(* Trust Decay only takes discounts back: the score is never below what    *)
(* the five signals alone give, and never above what they would give       *)
(* without the discounts that decay.                                       *)
DecayOnlyCancels ==
    score # -1 /\ "decay" \notin faulted =>
        /\ score >= Total(delta, 0)
        /\ score <= Total([s \in Signals |-> IF s \in Decayable /\ delta[s] < 0 THEN 0
                                             ELSE delta[s]], 0)

(* Failing closed: neither an outage nor decay makes a client look         *)
(* safer than the history that was read.                                   *)
OutageAndDecayFailClosed == OutageScoresMaximum /\ DecayOnlyCancels

(* README.md:21: "Signal faults raise risk, never lower it": the score is  *)
(* at least the one the same reads would have given without faults.        *)
FaultsNeverLower == score # -1 => score >= Total(would, Correction(would))

=============================================================================

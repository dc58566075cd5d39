--------------------------- MODULE AdaptivePolicy ---------------------------
(***************************************************************************)
(* PolicyEvaluatorService.evaluate (src/policy/policy-evaluator.service.ts) *)
(* and ThreatEscalationService joined into the loop they form: a decision  *)
(* reads the thresholds of the level in force, every DENY is itself a      *)
(* threat signal (emitDeny, delivered before evaluate returns), and the    *)
(* signals move the level the next decision is taken at.                   *)
(*                                                                         *)
(* From the last enforce() on, evaluate has no await: no other handler     *)
(* runs between its two threshold reads and its signal, but the clock,     *)
(* read by each of them, may move.                                         *)
(***************************************************************************)
EXTENDS ThreatEscalation

CONSTANTS Asks,        \* requests to decide: a score and what casbin says
          ChallengeT,  \* challenge threshold of each level
          DenyT        \* deny threshold of each level

(* config.module.ts, cross-field checks: tighter at every higher level *)
ASSUME ThresholdAssumption ==
    /\ Asks \subseteq [score : Int, casbin : {"match", "no_match", "error"}]
    /\ ChallengeT \in [Levels -> Int] /\ DenyT \in [Levels -> Int]
    /\ \A l, m \in Levels : Rank[l] < Rank[m] =>
          ChallengeT[m] < ChallengeT[l] /\ DenyT[m] < DenyT[l]

Strictness == [ALLOW |-> 0, CHALLENGE |-> 1, DENY |-> 2]
NoAsk == [score |-> 0, casbin |-> "none"]

VARIABLES asked,    \* the request evaluate() is deciding
          verdict,  \* what it has decided, until its signal is out
          denials   \* history: when the latest DENY verdicts were reached

pvars == <<vars, asked, verdict, denials>>

PolicyInit == Init /\ asked = NoAsk /\ verdict = "none" /\ denials = <<>>

Idle == caller = "idle" /\ verdict # "DENY"

(* Only the latest CriticalAt denials can matter to the history *)
Noted(d) ==
    LET all == Append(denials, now) IN
    IF d # "DENY" THEN denials
    ELSE IF Len(all) > CriticalAt["policy.deny"] THEN Tail(all) ELSE all

(* D-10 mapping, with the levels the two thresholds came from *)
Decide(ask, challengeAt, denyAt) ==
    IF ask.casbin # "match" \/ ask.score >= DenyT[denyAt] THEN "DENY"
    ELSE IF ask.score < ChallengeT[challengeAt] THEN "ALLOW"
    ELSE "CHALLENGE"

(* Once the environment is quiet it sends only what no level denies *)
Sent(ask) == now <= QuietAfter \/ Decide(ask, "Critical", "Critical") # "DENY"

(* enforce() answered: the first threshold is read *)
Ask(ask) ==
    /\ Idle /\ Sent(ask) /\ ask.casbin # "error"
    /\ Evaluate
    /\ asked' = ask /\ verdict' = "none"
    /\ UNCHANGED denials

(* enforce() threw: DENY policy_error, no threshold is read *)
EnforcerThrows(ask) ==
    /\ Idle /\ Sent(ask) /\ ask.casbin = "error"
    /\ verdict' = "DENY"
    /\ denials' = Noted("DENY")
    /\ UNCHANGED <<vars, asked>>

(* The second threshold is read and the decision is made *)
Decided ==
    /\ caller = "evaluate"
    /\ CurrentDenyThreshold
    /\ verdict' = Decide(asked, reply.challenge, reply'.deny)
    /\ denials' = Noted(verdict')
    /\ asked' = NoAsk

FaultyEmitDeny ==
    /\ verdict = "DENY" /\ caller = "idle"
    /\ IF now = lastSignalAt THEN UNCHANGED vars ELSE Record("policy.deny")
    /\ verdict' = "none"
    /\ UNCHANGED <<asked, denials>>

(* emitDeny: the event bus runs onDeny before emit returns *)
EmitDeny ==
    /\ verdict = "DENY"
    /\ Record("policy.deny")
    /\ verdict' = "none"
    /\ UNCHANGED <<asked, denials>>

(* The other handlers of the threat service *)
Elsewhere ==
    /\ Idle
    /\ \/ \E t \in Signals : OnSignal(t)
       \/ Snapshot
       \/ \E l \in Levels : SetManualLevel(l)
       \/ ClearManualLevel
    /\ verdict' = "none"
    /\ UNCHANGED <<asked, denials>>

SnapshotDone ==
    /\ caller = "snapshot"
    /\ CurrentDenyThreshold
    /\ UNCHANGED <<asked, verdict, denials>>

(* The clock; the quiet period begins between two evaluations *)
TimePasses ==
    /\ now = QuietAfter => caller # "evaluate" /\ verdict # "DENY"
    /\ Tick
    /\ UNCHANGED <<asked, verdict, denials>>

PolicyNext ==
    \/ \E ask \in Asks : Ask(ask) \/ EnforcerThrows(ask)
    \/ Decided
    \/ EmitDeny
    \/ Elsewhere
    \/ SnapshotDone
    \/ TimePasses

PolicySpec == PolicyInit /\ [][PolicyNext]_pvars

(* Time passes, requests keep coming and a handler that began ends *)
PolicyFairness ==
    /\ WF_pvars(TimePasses)
    /\ WF_pvars(\E ask \in Asks : Ask(ask))
    /\ WF_pvars(Decided) /\ WF_pvars(EmitDeny) /\ WF_pvars(SnapshotDone)

PolicyFairSpec == PolicySpec /\ PolicyFairness

-----------------------------------------------------------------------------
(* Properties *)

LevelForDenials(n) ==
    CASE n >= CriticalAt["policy.deny"] -> "Critical"
      [] n >= ElevatedAt["policy.deny"] /\ n < CriticalAt["policy.deny"] -> "Elevated"
      [] OTHER -> "Normal"

RecentDenials == Cardinality({i \in 1..Len(denials) : denials[i] >= now - Window})

(* README.md:23, the ladder "tightens thresholds while attack signals      *)
(* accumulate": a decision is never laxer than the denials of the current  *)
(* window call for, while they are fresh, uncapped and not overridden; and *)
(* whatever the level, and whichever two levels its thresholds came from,  *)
(* it lies between what Normal and what Critical would have decided.       *)
DenialsTighten ==
    [][Decided =>
        LET at(l) == Strictness[Decide(asked, l, l)]
        IN  /\ Strictness[verdict'] \in at("Normal")..at("Critical")
            /\ (/\ manualOverride = NoLevel /\ now - lastSignalAt < Cooldown
                /\ Len(events) < MaxEvents)
                 => Strictness[verdict'] >= at(LevelForDenials(RecentDenials))]_pvars

=============================================================================

------------------------- MODULE MCThreatEscalation -------------------------
(* Small instances of the policy loop for TLC: denials, one other signal   *)
(* type with thresholds and one without, a window shorter than two         *)
(* cooldowns, so that eviction, the hard cap and both rungs of the ladder  *)
(* all happen, and scores that the levels tell apart.                      *)
EXTENDS AdaptivePolicy

MCSignals == {"honeypot.trigger", "mfa.failed"}
MCElevatedAt == [t \in Thresholded |-> 1]
MCCriticalAt == [t \in Thresholded |-> 2]
MCChallengeT == [l \in Levels |-> 3 - Rank[l]]
MCDenyT == [l \in Levels |-> 4 - Rank[l]]
MCAsks == [score : {1, 2}, casbin : {"match"}]
            \cup {[score |-> 0, casbin |-> c] : c \in {"no_match", "error"}}

(* The instance of the cooldown's documentation: a burst, no requests *)
MCNoAsks == {}

=============================================================================

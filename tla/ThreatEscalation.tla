-------------------------- MODULE ThreatEscalation --------------------------
(***************************************************************************)
(* ThreatEscalationService (src/policy/threat-escalation.service.ts): a    *)
(* sliding window of threat signals, the level automaton                   *)
(* Normal/Elevated/Critical it drives, the read-driven cooldown and the    *)
(* sticky manual override.                                                 *)
(*                                                                         *)
(* The service is one object on the Node.js event loop: a handler runs to  *)
(* its end before another starts, but Date.now() may move between two      *)
(* clock reads of one handler.  PolicyEvaluatorService.evaluate and        *)
(* snapshot() both read the challenge threshold first and the deny         *)
(* threshold second; `caller' tells which of them is between the two.      *)
(***************************************************************************)
EXTENDS Integers, Sequences, FiniteSets

CONSTANTS Signals,     \* the signal types raised in the instance
          Window,      \* threatWindowMs
          MaxEvents,   \* threatWindowMaxEvents
          Cooldown,    \* threatCooldownMs
          ElevatedAt,  \* per-type count that makes the level Elevated
          CriticalAt,  \* per-type count that makes the level Critical
          MaxTime,     \* bound: the last instant of the clock
          QuietAfter   \* bound: the environment raises no signal after this instant

Thresholded == {"policy.deny", "auth.invalid_token", "honeypot.trigger", "mfa.rate_limited"}
SignalTypes == Thresholded \cup {"mfa.failed", "audit.signal"}

(* config.module.ts: the Joi schema and its cross-field checks *)
ASSUME ConfigAssumption ==
    /\ Signals \subseteq SignalTypes
    /\ Window \in Nat \ {0} /\ MaxEvents \in Nat \ {0} /\ Cooldown \in Nat \ {0}
    /\ ElevatedAt \in [Thresholded -> Nat \ {0}]
    /\ CriticalAt \in [Thresholded -> Nat \ {0}]
    /\ \A t \in Thresholded : ElevatedAt[t] < CriticalAt[t]
    /\ MaxTime \in Nat /\ QuietAfter \in Nat

Levels == {"Normal", "Elevated", "Critical"}
NoLevel == "none"
Rank == [l \in Levels |-> CASE l = "Normal" -> 0 [] l = "Elevated" -> 1 [] l = "Critical" -> 2]

Events == [ts : Nat, type : SignalTypes]

VARIABLES now,              \* the clock
          events,           \* the sliding window, oldest first
          level,            \* the automatic level
          lastTransitionAt,
          lastSignalAt,
          manualOverride,   \* a level, or NoLevel
          gauge,            \* the level whose Prometheus gauge is 1
          hops,             \* <<from, to>> pairs the last call counted
          caller,           \* which reader is between its two threshold reads
          reply             \* the levels a reader has been served

vars == <<now, events, level, lastTransitionAt, lastSignalAt, manualOverride,
          gauge, hops, caller, reply>>
window == <<events, lastSignalAt>>

NoReply == [level |-> NoLevel, challenge |-> NoLevel, deny |-> NoLevel]

Init ==
    /\ now = 0 /\ lastTransitionAt = 0 /\ lastSignalAt = 0
    /\ events = <<>> /\ level = "Normal" /\ manualOverride = NoLevel
    /\ gauge = "Normal" /\ hops = <<>>
    /\ caller = "idle" /\ reply = NoReply

-----------------------------------------------------------------------------
(* The window *)

(* Definitions named Faulty... are seeded faults: each is the definition   *)
(* that follows it with one plausible slip, and some property must fail    *)
(* when it takes the place of the original.                                *)
HardCap(evs) ==
    IF Len(evs) > MaxEvents THEN SubSeq(evs, Len(evs) - MaxEvents + 1, Len(evs)) ELSE evs

Stale(evs, t) == {i \in 1..Len(evs) : \A j \in 1..i : evs[j].ts < t - Window}

Evict(evs, t) == SubSeq(evs, Cardinality(Stale(evs, t)) + 1, Len(evs))

CountByType(evs, type) == Cardinality({i \in 1..Len(evs) : evs[i].type = type})

(* recomputeLevel: the highest level any single type reaches *)
LevelFor(evs) ==
    IF \E t \in Thresholded : CountByType(evs, t) >= CriticalAt[t] THEN "Critical"
    ELSE IF \E t \in Thresholded : CountByType(evs, t) >= ElevatedAt[t] THEN "Elevated"
    ELSE "Normal"

-----------------------------------------------------------------------------
(* The automaton.  A handler may make several transitions; `auto' is the   *)
(* part of the state they change, threaded through the calls.              *)

Automaton == [level |-> level, since |-> lastTransitionAt, gauge |-> gauge, hops |-> <<>>]

TransitionTo(s, next) ==
    [level |-> next, since |-> now, gauge |-> next, hops |-> Append(s.hops, <<s.level, next>>)]

Recompute(s, evs) ==
    IF LevelFor(evs) = s.level THEN s ELSE TransitionTo(s, LevelFor(evs))

FaultyStepDownNoBreak(s) ==
    CASE s.level = "Critical" -> TransitionTo(s, "Elevated")
      [] s.level = "Elevated" -> TransitionTo(s, "Normal")
      [] s.level = "Normal"   -> TransitionTo(s, NoLevel)

FaultyStepDownStuck(s) ==
    IF s.level = "Critical" THEN TransitionTo(s, "Elevated") ELSE s

StepDown(s) ==
    CASE s.level = "Critical" -> TransitionTo(s, "Elevated")
      [] s.level = "Elevated" -> TransitionTo(s, "Normal")
      [] s.level = "Normal"   -> s

FaultyCooledDownNoIdleGate(s, override) ==
    LET stepsElapsed == (now - s.since) \div Cooldown
    IN  IF override # NoLevel \/ stepsElapsed = 0 THEN s
        ELSE IF stepsElapsed = 1 THEN StepDown(s)
        ELSE StepDown(StepDown(s))

FaultyCooledDownOneHop(s, override) ==
    LET stepsElapsed == (now - s.since) \div Cooldown
    IN  IF override # NoLevel \/ now - lastSignalAt < Cooldown \/ stepsElapsed = 0 THEN s
        ELSE IF stepsElapsed = 1 \/ s.level # "Critical" THEN StepDown(s)
        ELSE TransitionTo(s, "Normal")

(* maybeCooldown: two rungs are the whole ladder, so two turns of the loop *)
(* are all it can take.                                                    *)
CooledDown(s, override) ==
    LET stepsElapsed == (now - s.since) \div Cooldown
    IN  IF override # NoLevel \/ now - lastSignalAt < Cooldown \/ stepsElapsed = 0 THEN s
        ELSE IF stepsElapsed = 1 THEN StepDown(s)
        ELSE StepDown(StepDown(s))

SetAuto(s) ==
    /\ level' = s.level
    /\ lastTransitionAt' = s.since
    /\ gauge' = s.gauge
    /\ hops' = s.hops

EffectiveIn(s) == IF manualOverride # NoLevel THEN manualOverride ELSE s.level

EffectiveLevel == EffectiveIn(Automaton)

-----------------------------------------------------------------------------
(* The handlers *)

Record(type) ==
    /\ caller = "idle"
    /\ events' = Evict(HardCap(Append(events, [ts |-> now, type |-> type])), now)
    /\ lastSignalAt' = now
    /\ SetAuto(IF manualOverride # NoLevel THEN Automaton ELSE Recompute(Automaton, events'))
    /\ reply' = NoReply
    /\ UNCHANGED <<now, manualOverride, caller>>

(* The @OnEvent subscribers, for the signals the environment raises *)
OnSignal(type) == now <= QuietAfter /\ Record(type)

(* The first threshold read, by evaluate() or, after it has taken level,   *)
(* by snapshot().                                                          *)
CurrentChallengeThreshold(reader) ==
    /\ caller = "idle"
    /\ LET s == CooledDown(Automaton, manualOverride)
       IN  /\ SetAuto(s)
           /\ reply' = [level |-> IF reader = "snapshot" THEN EffectiveLevel ELSE NoLevel,
                        challenge |-> EffectiveIn(s), deny |-> NoLevel]
    /\ caller' = reader
    /\ UNCHANGED <<now, window, manualOverride>>

FaultyCurrentDenyThreshold ==
    /\ caller # "idle"
    /\ LET s == IF manualOverride # NoLevel THEN Automaton ELSE Recompute(Automaton, events)
       IN  /\ SetAuto(s)
           /\ reply' = [reply EXCEPT !.deny = EffectiveIn(s)]
    /\ caller' = "idle"
    /\ UNCHANGED <<now, window, manualOverride>>

CurrentDenyThreshold ==
    /\ caller # "idle"
    /\ LET s == CooledDown(Automaton, manualOverride)
       IN  /\ SetAuto(s)
           /\ reply' = [reply EXCEPT !.deny = EffectiveIn(s)]
    /\ caller' = "idle"
    /\ UNCHANGED <<now, window, manualOverride>>

FaultySetManualLevel(l) ==
    /\ caller = "idle"
    /\ manualOverride' = l
    /\ SetAuto(Automaton)
    /\ reply' = NoReply
    /\ UNCHANGED <<now, window, caller>>

SetManualLevel(l) ==
    /\ caller = "idle"
    /\ manualOverride' = l
    /\ SetAuto(IF level = l THEN Automaton ELSE TransitionTo(Automaton, l))
    /\ reply' = NoReply
    /\ UNCHANGED <<now, window, caller>>

FaultyClearManualLevel ==
    /\ caller = "idle"
    /\ manualOverride' = NoLevel
    /\ SetAuto(CooledDown(Automaton, NoLevel))
    /\ reply' = NoReply
    /\ UNCHANGED <<now, window, caller>>

ClearManualLevel ==
    /\ caller = "idle"
    /\ manualOverride' = NoLevel
    /\ events' = Evict(events, now)
    /\ SetAuto(Recompute(CooledDown(Automaton, NoLevel), events'))
    /\ reply' = NoReply
    /\ UNCHANGED <<now, lastSignalAt, caller>>

(* Date.now(), read afresh by every handler *)
Tick ==
    /\ now < MaxTime
    /\ now' = now + 1
    /\ hops' = <<>>
    /\ UNCHANGED <<window, level, lastTransitionAt, manualOverride, gauge, caller, reply>>

Evaluate == CurrentChallengeThreshold("evaluate")
Snapshot == CurrentChallengeThreshold("snapshot")

Next ==
    \/ \E t \in Signals : OnSignal(t)
    \/ Evaluate
    \/ Snapshot
    \/ CurrentDenyThreshold
    \/ \E l \in Levels : SetManualLevel(l)
    \/ ClearManualLevel
    \/ Tick

Spec == Init /\ [][Next]_vars

(* Time passes, requests keep being evaluated (cooldown is driven by reads) *)
(* and a synchronous reader always finishes.                                *)
Fairness == WF_vars(Tick) /\ WF_vars(Evaluate) /\ WF_vars(CurrentDenyThreshold)

FairSpec == Spec /\ Fairness

-----------------------------------------------------------------------------
(* Properties *)

(* Types, and no timestamp of the service lies in the future.              *)
TypeOK ==
    /\ now \in Nat
    /\ events \in Seq(Events)
    /\ level \in Levels /\ gauge \in Levels
    /\ lastTransitionAt \in 0..now /\ lastSignalAt \in 0..now
    /\ manualOverride \in Levels \cup {NoLevel}
    /\ hops \in Seq(Levels \X Levels)
    /\ caller \in {"idle", "evaluate", "snapshot"}
    /\ reply \in [level : Levels \cup {NoLevel}, challenge : Levels \cup {NoLevel},
                  deny : Levels \cup {NoLevel}]

(* D-18: the window never holds more than threatWindowMaxEvents signals,   *)
(* is ordered by time, and keeps nothing older than threatWindowMs at the  *)
(* last signal.                                                            *)
WindowSound ==
    /\ Len(events) <= MaxEvents
    /\ \A i \in 1..Len(events) :
          /\ events[i].ts <= lastSignalAt
          /\ events[i].ts >= lastSignalAt - Window
          /\ \A j \in 1..i : events[j].ts <= events[i].ts

(* The exported zt_gateway_threat_level gauge shows the level whose        *)
(* thresholds are served, override included: transitionTo writes it from   *)
(* `level', so an override must always drag `level' along.                 *)
GaugeTruthful == gauge = EffectiveLevel

(* D-19, D-22: without an override the level is never higher than the      *)
(* signals in the window justify, also right after an override was lifted. *)
LevelBacked == manualOverride = NoLevel => Rank[level] <= Rank[LevelFor(events)]

(* D-19, D-20: while the last signal is younger than the cooldown the      *)
(* level is exactly the one the window justifies: no read may have lowered *)
(* it and no signal may have been counted without raising it.              *)
EscalationHolds ==
    (manualOverride = NoLevel /\ now - lastSignalAt < Cooldown) => level = LevelFor(events)

(* evaluate() reads the challenge threshold first; whatever the clock does *)
(* before the second read, the deny threshold never comes from a higher    *)
(* level than the challenge threshold it is used with.                     *)
ServedThresholdsOrdered ==
    reply.deny # NoLevel => Rank[reply.deny] <= Rank[reply.challenge]

(* D-22: while an override stands, no signal, read or tick moves the level. *)
OverrideSticky ==
    [][manualOverride # NoLevel /\ manualOverride' = manualOverride => level' = level]_vars

Linked(path, from, to) ==
    IF path = <<>> THEN from = to
    ELSE /\ path[1][1] = from /\ path[Len(path)][2] = to
         /\ \A i \in 1..Len(path) : path[i][1] # path[i][2]
         /\ \A i \in 1..(Len(path) - 1) : path[i][2] = path[i + 1][1]

(* WR-07: the transitions counted by a call are a path from the old level  *)
(* to the new one, and a read only goes down, rung by rung, at most one    *)
(* rung per elapsed cooldown.                                              *)
LadderRecorded ==
    [][/\ Linked(hops', level, level')
       /\ caller' # caller =>
            /\ \A i \in 1..Len(hops') : Rank[hops'[i][1]] = Rank[hops'[i][2]] + 1
            /\ Len(hops') * Cooldown <= now - lastTransitionAt]_vars

(* Once the window is empty and requests keep coming, a level above Normal *)
(* is left downwards, unless an operator takes over.  The instance's clock *)
(* ends at MaxTime, so a rung counts when its cooldown ends before that.   *)
CoolsDown ==
    \A l \in {"Elevated", "Critical"} :
        (/\ level = l /\ manualOverride = NoLevel /\ now > QuietAfter
         /\ now > lastSignalAt + Window /\ lastTransitionAt + Cooldown <= MaxTime)
            ~> (Rank[level] < Rank[l] \/ manualOverride # NoLevel)

(* policy.config.ts:46: "Cooldown (ms) before threat level can             *)
(* de-escalate": no signal or read lowers an automatic level before the    *)
(* cooldown has passed since that level was reached.                       *)
DeescalatesOnlyAfterCooldown ==
    [][(/\ manualOverride = NoLevel /\ manualOverride' = NoLevel /\ ~ClearManualLevel
        /\ Rank[level'] < Rank[level])
          => now - lastTransitionAt >= Cooldown]_vars

(* README.md:167: GET /policy/admin/escalation answers the "Current threat *)
(* level and counters": the level a snapshot reports is the level in force *)
(* once the same call has read the thresholds it reports beside it.        *)
ReportedLevelIsCurrent ==
    [][(caller = "idle" /\ caller' = "snapshot") => reply'.level = EffectiveLevel']_vars

=============================================================================

----------------------- MODULE ThreatEscalationProofs -----------------------
(* Machine-checked proofs about ThreatEscalation, by itself and in the     *)
(* policy loop of AdaptivePolicy, for every configuration the Joi schema   *)
(* accepts, every set of requests and every bound on the clock.            *)
EXTENDS AdaptivePolicy, FiniteSetTheorems, SequenceTheorems, TLAPS

-----------------------------------------------------------------------------
(* The window operators *)

(* A window as a handler finds it: ordered by time.                        *)
Ordered(evs) == \A i, j \in 1..Len(evs) : i <= j => evs[i].ts <= evs[j].ts

(* Dropping a prefix of a window leaves an ordered window of the same      *)
(* elements: the only thing splice(0, n) does.                             *)
LEMMA DropPrefix ==
    ASSUME NEW evs \in Seq(Events), Ordered(evs), NEW k \in 0..Len(evs)
    PROVE  LET r == SubSeq(evs, k + 1, Len(evs))
           IN  /\ r \in Seq(Events)
               /\ Len(r) = Len(evs) - k
               /\ Ordered(r)
               /\ \A i \in 1..Len(r) : r[i] = evs[k + i]
<1> DEFINE r == SubSeq(evs, k + 1, Len(evs))
<1>1. Len(evs) \in Nat
  BY LenProperties
<1>2. \A i \in (k + 1)..Len(evs) : evs[i] \in Events
  BY <1>1, ElementOfSeq
<1>3. /\ r \in Seq(Events)
      /\ Len(r) = Len(evs) - k
      /\ \A i \in 1..(Len(evs) - (k + 1) + 1) : r[i] = evs[(k + 1) + i - 1]
  BY <1>1, <1>2, SubSeqProperties
<1>4. \A i \in 1..Len(r) : r[i] = evs[k + i]
  BY <1>1, <1>3
<1>5. Ordered(r)
  BY <1>1, <1>3, <1>4 DEF Ordered
<1> QED
  BY <1>3, <1>4, <1>5

(* HardCap keeps the newest threatWindowMaxEvents signals.                 *)
LEMMA HardCapSound ==
    ASSUME NEW evs \in Seq(Events), Ordered(evs)
    PROVE  /\ HardCap(evs) \in Seq(Events)
           /\ Ordered(HardCap(evs))
           /\ Len(HardCap(evs)) <= MaxEvents
           /\ \A i \in 1..Len(HardCap(evs)) : \E j \in 1..Len(evs) : HardCap(evs)[i] = evs[j]
<1>1. Len(evs) \in Nat /\ MaxEvents \in Nat
  BY LenProperties, ConfigAssumption
<1>2. CASE Len(evs) > MaxEvents
  <2> DEFINE k == Len(evs) - MaxEvents
  <2>1. k \in 0..Len(evs) /\ HardCap(evs) = SubSeq(evs, k + 1, Len(evs))
    BY <1>1, <1>2 DEF HardCap
  <2> HIDE DEF k
  <2>2. /\ HardCap(evs) \in Seq(Events) /\ Ordered(HardCap(evs))
        /\ Len(HardCap(evs)) = Len(evs) - k
        /\ \A i \in 1..Len(HardCap(evs)) : HardCap(evs)[i] = evs[k + i]
    BY <2>1, DropPrefix
  <2> QED
    BY <1>1, <2>1, <2>2 DEF k
<1>3. CASE ~(Len(evs) > MaxEvents)
  BY <1>1, <1>3 DEF HardCap
<1> QED
  BY <1>2, <1>3

(* The stale signals are a prefix, so their number is where the live ones  *)
(* start: what evict()'s while loop finds.                                 *)
LEMMA StalePrefix ==
    ASSUME NEW evs \in Seq(Events), NEW t \in Int
    PROVE  /\ Cardinality(Stale(evs, t)) \in 0..Len(evs)
           /\ Cardinality(Stale(evs, t)) + 1 \notin Stale(evs, t)
<1> DEFINE S == Stale(evs, t)
           k == Cardinality(S)
<1>1. Len(evs) \in Nat
  BY LenProperties
<1>2. IsFiniteSet(1..Len(evs)) /\ Cardinality(1..Len(evs)) = Len(evs)
  <2> DEFINE n == Len(evs)
  <2>1. 1 \in Int /\ n \in Int
    BY <1>1
  <2> HIDE DEF n
  <2>2. IsFiniteSet(1..n)
    BY <2>1, FS_Interval
  <2>3. Cardinality(1..n) = IF 1 > n THEN 0 ELSE n - 1 + 1
    BY <2>1, FS_Interval
  <2> QED
    BY <1>1, <2>2, <2>3 DEF n
<1>3. S \in SUBSET (1..Len(evs))
  BY DEF Stale
<1>4. IsFiniteSet(S) /\ k <= Len(evs)
  BY <1>2, <1>3, FS_Subset
<1>5. k \in Nat
  BY <1>4, FS_CardinalityType
<1>6. k + 1 \notin S
  <2> SUFFICES ASSUME k + 1 \in S PROVE FALSE
    OBVIOUS
  <2>1. 1..(k + 1) \in SUBSET S
    <3>1. PICK n \in Nat : n = k + 1
      BY <1>5
    <3>2. n \in 1..Len(evs) /\ \A j \in 1..n : evs[j].ts < t - Window
      BY <3>1 DEF Stale
    <3>3. \A i \in 1..n : i \in 1..Len(evs) /\ \A j \in 1..i : evs[j].ts < t - Window
      BY <1>1, <3>2
    <3>4. \A i \in 1..n : i \in S
      BY <3>3 DEF Stale
    <3> QED
      BY <3>1, <3>4
  <2>2. Cardinality(1..(k + 1)) <= k
    BY <1>4, <2>1, FS_Subset
  <2>3. Cardinality(1..(k + 1)) = k + 1
    BY <1>5, FS_Interval
  <2> QED
    BY <1>5, <2>2, <2>3
<1> QED
  BY <1>1, <1>4, <1>5, <1>6

(* Evict keeps an ordered suffix in which nothing is older than the window. *)
LEMMA EvictSound ==
    ASSUME NEW evs \in Seq(Events), Ordered(evs), NEW t \in Int
    PROVE  /\ Evict(evs, t) \in Seq(Events)
           /\ Ordered(Evict(evs, t))
           /\ Len(Evict(evs, t)) <= Len(evs)
           /\ \A i \in 1..Len(Evict(evs, t)) :
                 /\ Evict(evs, t)[i].ts >= t - Window
                 /\ \E j \in 1..Len(evs) : Evict(evs, t)[i] = evs[j]
<1> DEFINE k == Cardinality(Stale(evs, t))
           r == Evict(evs, t)
<1>1. k \in 0..Len(evs) /\ k + 1 \notin Stale(evs, t) /\ Len(evs) \in Nat
  BY StalePrefix, LenProperties
<1>2. r = SubSeq(evs, k + 1, Len(evs))
  BY DEF Evict
<1> HIDE DEF k, r
<1>3. /\ r \in Seq(Events) /\ Ordered(r) /\ Len(r) = Len(evs) - k
      /\ \A i \in 1..Len(r) : r[i] = evs[k + i]
  BY <1>1, <1>2, DropPrefix
<1>4. ASSUME NEW i \in 1..Len(r) PROVE r[i].ts >= t - Window /\ \E j \in 1..Len(evs) : r[i] = evs[j]
  <2>1. k + i \in 1..Len(evs) /\ k + 1 \in 1..Len(evs)
    BY <1>1, <1>3
  <2>2. PICK j \in 1..(k + 1) : ~(evs[j].ts < t - Window)
    BY <1>1, <2>1 DEF Stale
  <2>3. j \in 1..Len(evs) /\ j <= k + i
    BY <1>1, <2>1, <2>2
  <2>4. evs[j].ts <= evs[k + i].ts
    BY <2>1, <2>3 DEF Ordered
  <2>5. evs[j] \in Events /\ evs[k + i] \in Events
    BY <2>1, <2>3, ElementOfSeq
  <2>6. evs[k + i].ts >= t - Window
    BY <2>2, <2>4, <2>5, ConfigAssumption DEF Events
  <2> QED
    BY <1>3, <2>1, <2>6
<1>5. Len(r) <= Len(evs)
  BY <1>1, <1>3
<1> QED
  BY <1>3, <1>4, <1>5 DEF r

-----------------------------------------------------------------------------
(* The automaton *)

(* The automaton between two handlers: the gauge shows the level.          *)
Settled(s) ==
    /\ s \in [level : Levels, since : 0..now, gauge : Levels, hops : Seq(Levels \X Levels)]
    /\ s.gauge = s.level

(* The window never justifies anything but a level.                        *)
LEMMA LevelForType == \A evs : LevelFor(evs) \in Levels
  BY DEF LevelFor, Levels

(* transitionTo leaves the gauge on the new level.                         *)
LEMMA TransitionSettled ==
    ASSUME NEW s, Settled(s), NEW next \in Levels, now \in Nat
    PROVE  Settled(TransitionTo(s, next)) /\ TransitionTo(s, next).level = next
<1>1. <<s.level, next>> \in Levels \X Levels
  BY DEF Settled
<1>2. Append(s.hops, <<s.level, next>>) \in Seq(Levels \X Levels)
  BY <1>1, AppendProperties DEF Settled
<1> QED
  BY <1>2 DEF Settled, TransitionTo

(* recomputeLevel puts the level where the window says.                    *)
LEMMA RecomputeSettled ==
    ASSUME NEW s, Settled(s), NEW evs, now \in Nat
    PROVE  Settled(Recompute(s, evs)) /\ Recompute(s, evs).level = LevelFor(evs)
  BY TransitionSettled, LevelForType DEF Recompute

(* One rung down, never below Normal.                                      *)
LEMMA StepDownSettled ==
    ASSUME NEW s, Settled(s), now \in Nat
    PROVE  Settled(StepDown(s)) /\ Rank[StepDown(s).level] <= Rank[s.level]
<1>1. s.level \in Levels
  BY DEF Settled
<1>2. CASE s.level = "Critical"
  <2>1. StepDown(s) = TransitionTo(s, "Elevated")
    BY <1>2 DEF StepDown
  <2> QED
    BY <1>2, <2>1, TransitionSettled DEF Rank, Levels
<1>3. CASE s.level = "Elevated"
  <2>1. StepDown(s) = TransitionTo(s, "Normal")
    BY <1>3 DEF StepDown
  <2> QED
    BY <1>3, <2>1, TransitionSettled DEF Rank, Levels
<1>4. CASE s.level = "Normal"
  <2>1. StepDown(s) = s
    BY <1>4 DEF StepDown
  <2> QED
    BY <1>4, <2>1 DEF Rank, Levels
<1> QED
  BY <1>1, <1>2, <1>3, <1>4 DEF Levels

(* maybeCooldown only lowers the level, and not at all under an override   *)
(* or before the idle time has passed.                                     *)
LEMMA CooledDownSettled ==
    ASSUME NEW s, Settled(s), NEW o, now \in Nat
    PROVE  /\ Settled(CooledDown(s, o))
           /\ Rank[CooledDown(s, o).level] <= Rank[s.level]
           /\ (o # NoLevel \/ now - lastSignalAt < Cooldown) => CooledDown(s, o) = s
<1> DEFINE one == StepDown(s)
           two == StepDown(one)
<1>1. Settled(one) /\ Rank[one.level] <= Rank[s.level]
  BY StepDownSettled
<1>2. Settled(two) /\ Rank[two.level] <= Rank[one.level]
  BY <1>1, StepDownSettled
<1>3. s.level \in Levels /\ one.level \in Levels /\ two.level \in Levels
  BY <1>1, <1>2 DEF Settled
<1>4. \A l \in Levels : Rank[l] \in Int
  BY DEF Rank, Levels
<1>5. CooledDown(s, o) \in {s, one, two}
  BY DEF CooledDown
<1>6. (o # NoLevel \/ now - lastSignalAt < Cooldown) => CooledDown(s, o) = s
  BY DEF CooledDown
<1> HIDE DEF one, two
<1>7. Rank[two.level] <= Rank[s.level] /\ Rank[s.level] <= Rank[s.level]
  BY <1>1, <1>2, <1>3, <1>4
<1> QED
  BY <1>1, <1>2, <1>5, <1>6, <1>7

-----------------------------------------------------------------------------
(* The inductive invariant *)

(* An override has pulled the automatic level to itself.                   *)
OverrideInForce == manualOverride # NoLevel => level = manualOverride

(* Between its two reads a reader holds a challenge threshold that is not  *)
(* looser than the level now in force.                                     *)
MidRead ==
    caller # "idle" =>
        /\ reply.challenge \in Levels /\ reply.deny = NoLevel
        /\ Rank[level] <= Rank[reply.challenge]

Inv ==
    /\ TypeOK /\ WindowSound /\ gauge = level /\ OverrideInForce
    /\ LevelBacked /\ EscalationHolds /\ MidRead /\ ServedThresholdsOrdered

(* Inv holds when the constructor returns.                                 *)
LEMMA InitInv == Init => Inv
<1> SUFFICES ASSUME Init PROVE Inv
  OBVIOUS
<1>1. events = <<>> /\ events \in Seq(Events) /\ Len(events) = 0
  BY EmptySeq DEF Init
<1>2. hops \in Seq(Levels \X Levels)
  BY EmptySeq DEF Init
<1>3. TypeOK
  BY <1>1, <1>2 DEF Init, TypeOK, Levels, NoLevel, NoReply
<1>4. WindowSound
  BY <1>1, ConfigAssumption DEF WindowSound
<1>5. \A t \in Thresholded : CountByType(events, t) = 0
  <2>1. {i \in 1..Len(events) : FALSE} = {} /\ 1..Len(events) = {}
    BY <1>1
  <2> QED
    BY <2>1, FS_EmptySet DEF CountByType
<1>6. LevelFor(events) = "Normal"
  BY <1>5, ConfigAssumption DEF LevelFor
<1>7. LevelBacked /\ EscalationHolds
  BY <1>6 DEF Init, LevelBacked, EscalationHolds, Rank, Levels
<1> QED
  BY <1>3, <1>4, <1>7 DEF Init, Inv, OverrideInForce, MidRead, ServedThresholdsOrdered, NoReply, NoLevel

(* The automaton of a good state is settled.                               *)
LEMMA AutoSettled ==
    ASSUME Inv
    PROVE  Settled(Automaton) /\ Automaton.level = level /\ EffectiveLevel = level /\ now \in Nat
<1>1. <<>> \in Seq(Levels \X Levels)
  BY EmptySeq
<1> QED
  BY <1>1 DEF Inv, TypeOK, OverrideInForce, Settled, Automaton, EffectiveLevel, EffectiveIn

(* Storing a settled automaton keeps its part of the invariant.            *)
LEMMA SetAutoSettled ==
    ASSUME NEW s, Settled(s), SetAuto(s), now' = now
    PROVE  /\ level' \in Levels /\ gauge' = level' /\ level' = s.level
           /\ lastTransitionAt' \in 0..now' /\ hops' \in Seq(Levels \X Levels)
  BY DEF Settled, SetAuto

(* A signal of now goes to the end of an ordered window.                   *)
LEMMA AppendedOrdered ==
    ASSUME Inv, NEW type \in SignalTypes
    PROVE  LET a == Append(events, [ts |-> now, type |-> type])
           IN  Ordered(a) /\ \A i \in 1..Len(a) : a[i].ts \in Nat /\ a[i].ts <= now
<1> DEFINE e == [ts |-> now, type |-> type]
           a == Append(events, e)
<1>1. now \in Nat /\ events \in Seq(Events) /\ e \in Events
  BY DEF Inv, TypeOK, Events
<1>2. /\ Len(a) = Len(events) + 1 /\ Len(events) \in Nat /\ e.ts = now
      /\ \A i \in 1..Len(events) : a[i] = events[i]
      /\ a[Len(events) + 1] = e
  BY <1>1, AppendProperties, LenProperties
<1>3. \A i \in 1..Len(events) : events[i] \in Events
  BY <1>1, ElementOfSeq
<1>4. lastSignalAt \in 0..now /\ \A i \in 1..Len(events) : events[i].ts \in Nat /\ events[i].ts <= now
  BY <1>1, <1>3 DEF Inv, TypeOK, WindowSound, Events
<1>5. \A i, j \in 1..Len(events) : i <= j => events[i].ts <= events[j].ts
  BY <1>2 DEF Inv, WindowSound
<1> HIDE DEF e, a
<1>6. \A i \in 1..Len(a) : a[i].ts \in Nat /\ a[i].ts <= now
  BY <1>1, <1>2, <1>4
<1>7. Ordered(a)
  <2> SUFFICES ASSUME NEW i \in 1..Len(a), NEW j \in 1..Len(a), i <= j
               PROVE  a[i].ts <= a[j].ts
    BY DEF Ordered
  <2>1. CASE j = Len(events) + 1
    BY <1>1, <1>2, <1>6, <2>1
  <2>2. CASE j # Len(events) + 1
    BY <1>2, <1>5, <2>2
  <2> QED
    BY <2>1, <2>2
<1> QED
  BY <1>6, <1>7 DEF a, e

(* A window that is appended to, capped and evicted is sound again.        *)
LEMMA RecordedWindow ==
    ASSUME Inv, NEW type \in SignalTypes
    PROVE  LET evs == Evict(HardCap(Append(events, [ts |-> now, type |-> type])), now)
           IN  /\ evs \in Seq(Events) /\ Len(evs) <= MaxEvents /\ Ordered(evs)
               /\ \A i \in 1..Len(evs) : evs[i].ts <= now /\ evs[i].ts >= now - Window
<1> DEFINE e == [ts |-> now, type |-> type]
           a == Append(events, e)
           c == HardCap(a)
           evs == Evict(c, now)
<1>1. now \in Nat /\ events \in Seq(Events) /\ e \in Events
  BY DEF Inv, TypeOK, Events
<1>2. a \in Seq(Events)
  BY <1>1, AppendProperties
<1>3. Ordered(a) /\ \A i \in 1..Len(a) : a[i].ts \in Nat /\ a[i].ts <= now
  BY AppendedOrdered
<1> HIDE DEF e, a
<1>4. /\ c \in Seq(Events) /\ Ordered(c) /\ Len(c) <= MaxEvents
      /\ \A i \in 1..Len(c) : \E j \in 1..Len(a) : c[i] = a[j]
  BY <1>2, <1>3, HardCapSound
<1> HIDE DEF c
<1>5. /\ evs \in Seq(Events) /\ Ordered(evs) /\ Len(evs) <= Len(c)
      /\ \A i \in 1..Len(evs) : evs[i].ts >= now - Window /\ \E j \in 1..Len(c) : evs[i] = c[j]
  <2>1. now \in Int
    BY <1>1
  <2>2. /\ Evict(c, now) \in Seq(Events) /\ Ordered(Evict(c, now)) /\ Len(Evict(c, now)) <= Len(c)
        /\ \A i \in 1..Len(Evict(c, now)) : /\ Evict(c, now)[i].ts >= now - Window
                                             /\ \E j \in 1..Len(c) : Evict(c, now)[i] = c[j]
    BY <1>4, <2>1, EvictSound
  <2> QED
    BY <2>2
<1>6. Len(evs) \in Nat /\ Len(c) \in Nat /\ MaxEvents \in Nat
  BY <1>4, <1>5, LenProperties, ConfigAssumption
<1> HIDE DEF evs
<1>7. Len(evs) <= MaxEvents
  BY <1>4, <1>5, <1>6
<1>8. \A i \in 1..Len(evs) : evs[i].ts <= now
  <2> SUFFICES ASSUME NEW i \in 1..Len(evs) PROVE evs[i].ts <= now
    OBVIOUS
  <2>1. PICK j \in 1..Len(c) : evs[i] = c[j]
    BY <1>5
  <2>2. PICK m \in 1..Len(a) : c[j] = a[m]
    BY <1>4
  <2> QED
    BY <1>3, <2>1, <2>2
<1> QED
  BY <1>5, <1>7, <1>8 DEF evs, c, a, e

-----------------------------------------------------------------------------
(* Every handler preserves the invariant *)

(* record(): the signal re-synchronises level and window, or is only       *)
(* queued under an override.                                               *)
LEMMA RecordInv ==
    ASSUME Inv, NEW type \in SignalTypes, Record(type)
    PROVE  Inv'
<1> DEFINE evs == Evict(HardCap(Append(events, [ts |-> now, type |-> type])), now)
           s == IF manualOverride # NoLevel THEN Automaton ELSE Recompute(Automaton, evs)
<1>1. /\ events' = evs /\ lastSignalAt' = now /\ SetAuto(s) /\ reply' = NoReply
      /\ now' = now /\ manualOverride' = manualOverride /\ caller' = caller /\ caller = "idle"
  BY DEF Record
<1>2. Window \in Nat /\ Cooldown \in Nat
  BY ConfigAssumption
<1>3. /\ evs \in Seq(Events) /\ Len(evs) <= MaxEvents /\ Ordered(evs)
      /\ \A i \in 1..Len(evs) : evs[i].ts <= now /\ evs[i].ts >= now - Window
  BY RecordedWindow
<1> HIDE DEF evs
<1>4. Settled(Automaton) /\ Automaton.level = level /\ now \in Nat
  BY AutoSettled
<1>5. /\ Settled(s)
      /\ manualOverride = NoLevel => s.level = LevelFor(evs)
      /\ manualOverride # NoLevel => s.level = level
  BY <1>4, RecomputeSettled
<1> HIDE DEF s
<1>6. /\ level' \in Levels /\ gauge' = level' /\ level' = s.level
      /\ lastTransitionAt' \in 0..now' /\ hops' \in Seq(Levels \X Levels)
  BY <1>1, <1>5, SetAutoSettled
<1>7. TypeOK'
  BY <1>1, <1>3, <1>4, <1>6 DEF Inv, TypeOK, NoReply
<1>8. WindowSound'
  <2>1. Len(evs) \in Nat
    BY <1>3, LenProperties
  <2>2. \A i \in 1..Len(evs) : \A j \in 1..i : evs[j].ts <= evs[i].ts
    BY <1>3, <2>1 DEF Ordered
  <2> QED
    BY <1>1, <1>3, <2>2 DEF WindowSound
<1>9. OverrideInForce' /\ LevelBacked' /\ EscalationHolds'
  <2>1. LevelFor(evs) \in Levels /\ Rank[LevelFor(evs)] <= Rank[LevelFor(evs)]
    BY LevelForType DEF Rank, Levels
  <2> QED
    BY <1>1, <1>5, <1>6, <2>1 DEF Inv, OverrideInForce, LevelBacked, EscalationHolds
<1>10. MidRead' /\ ServedThresholdsOrdered'
  BY <1>1 DEF MidRead, ServedThresholdsOrdered, NoReply
<1> QED
  BY <1>6, <1>7, <1>8, <1>9, <1>10 DEF Inv

(* Both threshold reads do the same to the automaton: they cool it down.   *)
LEMMA ReadKeeps ==
    ASSUME Inv, SetAuto(CooledDown(Automaton, manualOverride)),
           now' = now, events' = events, lastSignalAt' = lastSignalAt,
           manualOverride' = manualOverride
    PROVE  /\ level' \in Levels /\ gauge' = level'
           /\ lastTransitionAt' \in 0..now' /\ hops' \in Seq(Levels \X Levels)
           /\ Rank[level'] <= Rank[level]
           /\ EffectiveIn(CooledDown(Automaton, manualOverride)) = level'
           /\ WindowSound' /\ OverrideInForce' /\ LevelBacked' /\ EscalationHolds'
<1> DEFINE s == CooledDown(Automaton, manualOverride)
<1>1. Settled(Automaton) /\ Automaton.level = level /\ now \in Nat
  BY AutoSettled
<1>2. /\ Settled(s) /\ Rank[s.level] <= Rank[level]
      /\ (manualOverride # NoLevel \/ now - lastSignalAt < Cooldown) => s = Automaton
  BY <1>1, CooledDownSettled
<1> HIDE DEF s
<1>3. /\ level' \in Levels /\ gauge' = level' /\ level' = s.level
      /\ lastTransitionAt' \in 0..now' /\ hops' \in Seq(Levels \X Levels)
  BY <1>2, SetAutoSettled DEF s
<1>4. WindowSound' /\ OverrideInForce'
  BY <1>1, <1>2, <1>3 DEF Inv, WindowSound, OverrideInForce
<1>5. EffectiveIn(s) = level'
  BY <1>1, <1>2, <1>3 DEF Inv, OverrideInForce, EffectiveIn
<1>6. \A l \in Levels : Rank[l] \in Int
  BY DEF Rank, Levels
<1>7. level \in Levels /\ LevelFor(events) \in Levels /\ LevelFor(events') = LevelFor(events)
  BY LevelForType DEF Inv, TypeOK
<1>8. LevelBacked'
  BY <1>2, <1>3, <1>6, <1>7 DEF Inv, LevelBacked
<1>9. EscalationHolds'
  BY <1>1, <1>2, <1>3, <1>7 DEF Inv, EscalationHolds
<1> QED
  BY <1>2, <1>3, <1>4, <1>5, <1>8, <1>9 DEF s

(* currentChallengeThreshold(), by evaluate() or snapshot().               *)
LEMMA ChallengeReadInv ==
    ASSUME Inv, NEW reader \in {"evaluate", "snapshot"}, CurrentChallengeThreshold(reader)
    PROVE  Inv'
<1> DEFINE s == CooledDown(Automaton, manualOverride)
<1>1. /\ SetAuto(s) /\ now' = now /\ events' = events /\ lastSignalAt' = lastSignalAt
      /\ manualOverride' = manualOverride /\ caller' = reader
      /\ reply' = [level |-> IF reader = "snapshot" THEN EffectiveLevel ELSE NoLevel,
                   challenge |-> EffectiveIn(s), deny |-> NoLevel]
  BY DEF CurrentChallengeThreshold, window
<1>2. /\ level' \in Levels /\ gauge' = level'
      /\ lastTransitionAt' \in 0..now' /\ hops' \in Seq(Levels \X Levels)
      /\ EffectiveIn(s) = level'
      /\ WindowSound' /\ OverrideInForce' /\ LevelBacked' /\ EscalationHolds'
  BY <1>1, ReadKeeps
<1> HIDE DEF s
<1>3. EffectiveLevel \in Levels
  BY AutoSettled DEF Inv, TypeOK
<1>4. TypeOK'
  BY <1>1, <1>2, <1>3 DEF Inv, TypeOK
<1>5. MidRead' /\ ServedThresholdsOrdered'
  BY <1>1, <1>2 DEF MidRead, ServedThresholdsOrdered, Rank, Levels
<1> QED
  BY <1>2, <1>4, <1>5 DEF Inv

(* currentDenyThreshold(): the level has not risen since the first read.   *)
LEMMA DenyReadInv ==
    ASSUME Inv, CurrentDenyThreshold
    PROVE  Inv'
<1> DEFINE s == CooledDown(Automaton, manualOverride)
<1>1. /\ SetAuto(s) /\ now' = now /\ events' = events /\ lastSignalAt' = lastSignalAt
      /\ manualOverride' = manualOverride /\ caller' = "idle" /\ caller # "idle"
      /\ reply' = [reply EXCEPT !.deny = EffectiveIn(s)]
  BY DEF CurrentDenyThreshold, window
<1>2. /\ level' \in Levels /\ gauge' = level' /\ Rank[level'] <= Rank[level]
      /\ lastTransitionAt' \in 0..now' /\ hops' \in Seq(Levels \X Levels)
      /\ EffectiveIn(s) = level'
      /\ WindowSound' /\ OverrideInForce' /\ LevelBacked' /\ EscalationHolds'
  BY <1>1, ReadKeeps
<1> HIDE DEF s
<1>3. reply'.deny = level' /\ reply'.challenge = reply.challenge /\ reply'.level = reply.level
  BY <1>1, <1>2 DEF Inv, TypeOK
<1>4. TypeOK'
  BY <1>1, <1>2 DEF Inv, TypeOK
<1>5. ServedThresholdsOrdered'
  <2>1. level \in Levels /\ reply.challenge \in Levels /\ Rank[level] <= Rank[reply.challenge]
    BY <1>1 DEF Inv, TypeOK, MidRead
  <2>2. \A l \in Levels : Rank[l] \in Int
    BY DEF Rank, Levels
  <2> QED
    BY <1>2, <1>3, <2>1, <2>2 DEF ServedThresholdsOrdered
<1> QED
  BY <1>1, <1>2, <1>4, <1>5 DEF Inv, MidRead

(* setManualLevel(): the automatic level follows the override.             *)
LEMMA SetManualInv ==
    ASSUME Inv, NEW l \in Levels, SetManualLevel(l)
    PROVE  Inv'
<1> DEFINE s == IF level = l THEN Automaton ELSE TransitionTo(Automaton, l)
<1>1. /\ SetAuto(s) /\ now' = now /\ events' = events /\ lastSignalAt' = lastSignalAt
      /\ manualOverride' = l /\ caller' = caller /\ caller = "idle" /\ reply' = NoReply
  BY DEF SetManualLevel, window
<1>2. Settled(Automaton) /\ Automaton.level = level /\ now \in Nat
  BY AutoSettled
<1>3. Settled(s) /\ s.level = l
  BY <1>2, TransitionSettled
<1> HIDE DEF s
<1>4. /\ level' \in Levels /\ gauge' = level' /\ level' = l
      /\ lastTransitionAt' \in 0..now' /\ hops' \in Seq(Levels \X Levels)
  BY <1>1, <1>3, SetAutoSettled
<1>5. TypeOK'
  BY <1>1, <1>4 DEF Inv, TypeOK, NoReply
<1>6. WindowSound' /\ OverrideInForce'
  BY <1>1, <1>4 DEF Inv, WindowSound, OverrideInForce
<1>7. LevelBacked' /\ EscalationHolds'
  BY <1>1 DEF LevelBacked, EscalationHolds, Levels, NoLevel
<1> QED
  BY <1>1, <1>4, <1>5, <1>6, <1>7 DEF Inv, MidRead, ServedThresholdsOrdered, NoReply

(* clearManualLevel(): cool down, then recompute against the queued        *)
(* signals, whatever level the override had left behind.                   *)
LEMMA ClearManualInv ==
    ASSUME Inv, ClearManualLevel
    PROVE  Inv'
<1> DEFINE evs == Evict(events, now)
           c == CooledDown(Automaton, NoLevel)
           s == Recompute(c, evs)
<1>1. /\ SetAuto(s) /\ now' = now /\ events' = evs /\ lastSignalAt' = lastSignalAt
      /\ manualOverride' = NoLevel /\ caller' = caller /\ caller = "idle" /\ reply' = NoReply
  BY DEF ClearManualLevel
<1>2. /\ now \in Nat /\ now \in Int /\ events \in Seq(Events) /\ Len(events) \in Nat
      /\ lastSignalAt \in 0..now /\ MaxEvents \in Nat /\ Window \in Nat
  BY LenProperties, ConfigAssumption DEF Inv, TypeOK
<1>3. Ordered(events)
  BY <1>2 DEF Inv, WindowSound, Ordered
<1>4. /\ evs \in Seq(Events) /\ Ordered(evs) /\ Len(evs) <= Len(events)
      /\ \A i \in 1..Len(evs) : \E j \in 1..Len(events) : evs[i] = events[j]
  BY <1>2, <1>3, EvictSound
<1>5. Settled(s) /\ s.level = LevelFor(evs)
  BY <1>2, AutoSettled, CooledDownSettled, RecomputeSettled
<1> HIDE DEF evs, s
<1>6. /\ level' \in Levels /\ gauge' = level' /\ level' = LevelFor(evs)
      /\ lastTransitionAt' \in 0..now' /\ hops' \in Seq(Levels \X Levels)
  BY <1>1, <1>5, SetAutoSettled
<1>7. TypeOK'
  BY <1>1, <1>2, <1>4, <1>6 DEF Inv, TypeOK, NoReply
<1>8. WindowSound'
  <2>1. Len(evs) \in Nat
    BY <1>4, LenProperties
  <2>2. Len(evs) <= MaxEvents
    BY <1>2, <1>4, <2>1 DEF Inv, WindowSound
  <2>3. \A i \in 1..Len(evs) : evs[i].ts <= lastSignalAt /\ evs[i].ts >= lastSignalAt - Window
    BY <1>4 DEF Inv, WindowSound
  <2>4. \A i \in 1..Len(evs) : \A j \in 1..i : evs[j].ts <= evs[i].ts
    <3>1. Ordered(evs)
      BY <1>4
    <3> QED
      BY <2>1, <3>1 DEF Ordered
  <2> QED
    BY <1>1, <2>2, <2>3, <2>4 DEF WindowSound
<1>9. OverrideInForce' /\ LevelBacked' /\ EscalationHolds'
  BY <1>1, <1>6 DEF OverrideInForce, LevelBacked, EscalationHolds, Rank, Levels
<1> QED
  BY <1>1, <1>6, <1>7, <1>8, <1>9 DEF Inv, MidRead, ServedThresholdsOrdered, NoReply

(* The clock only moves away from the last signal.                         *)
LEMMA TickInv ==
    ASSUME Inv, Tick
    PROVE  Inv'
<1>1. /\ now' = now + 1 /\ hops' = <<>> /\ events' = events /\ lastSignalAt' = lastSignalAt
      /\ level' = level /\ lastTransitionAt' = lastTransitionAt /\ gauge' = gauge
      /\ manualOverride' = manualOverride /\ caller' = caller /\ reply' = reply
  BY DEF Tick, window
<1>2. now \in Nat /\ lastSignalAt \in 0..now /\ lastTransitionAt \in 0..now /\ Cooldown \in Nat
  BY ConfigAssumption DEF Inv, TypeOK
<1>3. hops' \in Seq(Levels \X Levels)
  BY <1>1, EmptySeq
<1>4. TypeOK'
  BY <1>1, <1>2, <1>3 DEF Inv, TypeOK
<1>5. EscalationHolds'
  BY <1>1, <1>2 DEF Inv, EscalationHolds
<1> QED
  BY <1>1, <1>4, <1>5
  DEF Inv, WindowSound, OverrideInForce, LevelBacked, MidRead, ServedThresholdsOrdered

(* What the service does, whoever raises the signals: the environment or a *)
(* decision of the policy loop.                                            *)
ServiceStep ==
    \/ \E t \in SignalTypes : Record(t)
    \/ Evaluate
    \/ Snapshot
    \/ CurrentDenyThreshold
    \/ \E l \in Levels : SetManualLevel(l)
    \/ ClearManualLevel
    \/ Tick

(* The service by itself takes such steps.                                 *)
LEMMA AloneServes == [Next]_vars => [ServiceStep]_vars
<1>1. \A t \in Signals : t \in SignalTypes /\ (OnSignal(t) => Record(t))
  BY ConfigAssumption DEF OnSignal
<1> QED
  BY <1>1 DEF Next, ServiceStep

(* So does the policy loop: evaluate reads both thresholds, a DENY is a    *)
(* signal, an error of the enforcer leaves the service alone.              *)
LEMMA LoopServes == [PolicyNext]_pvars => [ServiceStep]_vars
<1> SUFFICES ASSUME [PolicyNext]_pvars PROVE [ServiceStep]_vars
  OBVIOUS
<1>1. \A t \in Signals : t \in SignalTypes /\ (OnSignal(t) => Record(t))
  BY ConfigAssumption DEF OnSignal
<1>2. ASSUME NEW ask \in Asks, Ask(ask) \/ EnforcerThrows(ask) PROVE [ServiceStep]_vars
  BY <1>2 DEF Ask, EnforcerThrows, ServiceStep
<1>3. CASE Decided \/ SnapshotDone
  BY <1>3 DEF Decided, SnapshotDone, ServiceStep
<1>4. CASE EmitDeny
  BY <1>4 DEF EmitDeny, ServiceStep, SignalTypes, Thresholded
<1>5. CASE Elsewhere
  BY <1>1, <1>5 DEF Elsewhere, ServiceStep
<1>6. CASE TimePasses
  BY <1>6 DEF TimePasses, ServiceStep
<1>7. CASE UNCHANGED pvars
  BY <1>7 DEF pvars
<1> QED
  BY <1>2, <1>3, <1>4, <1>5, <1>6, <1>7 DEF PolicyNext

(* Every step of the service preserves the invariant.                      *)
LEMMA ServiceInv == Inv /\ [ServiceStep]_vars => Inv'
<1> SUFFICES ASSUME Inv, [ServiceStep]_vars PROVE Inv'
  OBVIOUS
<1>1. ASSUME NEW t \in SignalTypes, Record(t) PROVE Inv'
  BY <1>1, RecordInv
<1>2. CASE Evaluate
  BY <1>2, ChallengeReadInv DEF Evaluate
<1>3. CASE Snapshot
  BY <1>3, ChallengeReadInv DEF Snapshot
<1>4. CASE CurrentDenyThreshold
  BY <1>4, DenyReadInv
<1>5. ASSUME NEW l \in Levels, SetManualLevel(l) PROVE Inv'
  BY <1>5, SetManualInv
<1>6. CASE ClearManualLevel
  BY <1>6, ClearManualInv
<1>7. CASE Tick
  BY <1>7, TickInv
<1>8. CASE UNCHANGED vars
  BY <1>8 DEF vars, Inv, TypeOK, WindowSound, OverrideInForce, LevelBacked, EscalationHolds,
              MidRead, ServedThresholdsOrdered
<1> QED
  BY <1>1, <1>2, <1>3, <1>4, <1>5, <1>6, <1>7, <1>8 DEF ServiceStep

-----------------------------------------------------------------------------
(* The transitions a call counts *)

Paths == Seq(Levels \X Levels)

(* Every hop goes one rung down.                                           *)
Descends(path) == \A i \in 1..Len(path) : Rank[path[i][1]] = Rank[path[i][2]] + 1

(* What appending one transition does to a path.                           *)
LEMMA LongerPath ==
    ASSUME NEW path \in Paths, NEW from \in Levels, NEW at \in Levels, NEW next \in Levels
    PROVE  LET longer == Append(path, <<at, next>>)
           IN  /\ longer \in Paths /\ Len(longer) = Len(path) + 1
               /\ Linked(path, from, at) /\ at # next => Linked(longer, from, next)
               /\ Descends(path) /\ Rank[at] = Rank[next] + 1 => Descends(longer)
<1> DEFINE hop == <<at, next>>
           longer == Append(path, hop)
<1>1. /\ longer \in Paths /\ Len(path) \in Nat /\ Len(longer) = Len(path) + 1
      /\ longer[Len(path) + 1] = hop /\ \A i \in 1..Len(path) : longer[i] = path[i]
  BY AppendProperties, LenProperties DEF Paths
<1>2. hop[1] = at /\ hop[2] = next
  OBVIOUS
<1>3. longer # <<>>
  BY <1>1
<1> HIDE DEF longer, hop
<1>4. ASSUME Linked(path, from, at), at # next PROVE Linked(longer, from, next)
  <2>1. CASE path = <<>>
    <3>1. Len(path) = 0 /\ from = at
      BY <1>4, <2>1 DEF Linked
    <3>2. Len(longer) = 1 /\ longer[1] = hop
      BY <1>1, <3>1
    <3> QED
      BY <1>2, <1>3, <1>4, <3>1, <3>2 DEF Linked
  <2>2. CASE path # <<>>
    <3>1. /\ path[1][1] = from /\ path[Len(path)][2] = at
          /\ \A i \in 1..Len(path) : path[i][1] # path[i][2]
          /\ \A i \in 1..(Len(path) - 1) : path[i][2] = path[i + 1][1]
      BY <1>4, <2>2 DEF Linked
    <3>2. Len(path) > 0
      BY <1>1, <2>2, EmptySeq DEF Paths
    <3>3. longer[1][1] = from /\ longer[Len(longer)][2] = next
      BY <1>1, <1>2, <3>1, <3>2
    <3>4. \A i \in 1..Len(longer) : longer[i][1] # longer[i][2]
      BY <1>1, <1>2, <1>4, <3>1
    <3>5. ASSUME NEW i \in 1..(Len(longer) - 1) PROVE longer[i][2] = longer[i + 1][1]
      <4>1. CASE i = Len(path)
        BY <1>1, <1>2, <3>1, <3>2, <4>1
      <4>2. CASE i \in 1..(Len(path) - 1)
        BY <1>1, <3>1, <4>2
      <4> QED
        BY <1>1, <4>1, <4>2
    <3> QED
      BY <1>3, <3>3, <3>4, <3>5 DEF Linked
  <2> QED
    BY <2>1, <2>2
<1>5. ASSUME Descends(path), Rank[at] = Rank[next] + 1 PROVE Descends(longer)
  BY <1>1, <1>2, <1>5 DEF Descends
<1> QED
  BY <1>1, <1>4, <1>5 DEF longer, hop

(* An automaton whose hops lead from one level to its own.                 *)
Traced(s, from) == Settled(s) /\ Linked(s.hops, from, s.level)

(* transitionTo counts where it comes from.                                *)
LEMMA TransitionTraced ==
    ASSUME NEW s, NEW from \in Levels, Traced(s, from), NEW next \in Levels, next # s.level,
           now \in Nat
    PROVE  /\ Traced(TransitionTo(s, next), from)
           /\ Len(TransitionTo(s, next).hops) = Len(s.hops) + 1
           /\ Descends(s.hops) /\ Rank[s.level] = Rank[next] + 1
                => Descends(TransitionTo(s, next).hops)
<1> DEFINE t == TransitionTo(s, next)
<1>1. Settled(t) /\ t.level = next /\ t.hops = Append(s.hops, <<s.level, next>>)
  BY TransitionSettled DEF Traced, TransitionTo
<1>2. s.hops \in Paths /\ s.level \in Levels /\ Linked(s.hops, from, s.level)
  BY DEF Traced, Settled, Paths
<1> HIDE DEF t
<1> QED
  BY <1>1, <1>2, LongerPath DEF Traced, t

(* recomputeLevel counts at most one.                                      *)
LEMMA RecomputeTraced ==
    ASSUME NEW s, NEW from \in Levels, Traced(s, from), NEW evs, now \in Nat
    PROVE  Traced(Recompute(s, evs), from)
  BY TransitionTraced, LevelForType DEF Recompute

(* So does one turn of the cooldown's loop, one rung down.                 *)
LEMMA StepDownTraced ==
    ASSUME NEW s, NEW from \in Levels, Traced(s, from), now \in Nat, Descends(s.hops)
    PROVE  /\ Traced(StepDown(s), from) /\ Descends(StepDown(s).hops)
           /\ Len(StepDown(s).hops) \in Len(s.hops)..(Len(s.hops) + 1)
<1>1. s.level \in Levels /\ Len(s.hops) \in Nat
  BY LenProperties DEF Traced, Settled
<1>2. CASE s.level = "Critical"
  <2>1. StepDown(s) = TransitionTo(s, "Elevated") /\ Rank[s.level] = Rank["Elevated"] + 1
    BY <1>2 DEF StepDown, Rank, Levels
  <2> QED
    BY <1>1, <1>2, <2>1, TransitionTraced DEF Levels
<1>3. CASE s.level = "Elevated"
  <2>1. StepDown(s) = TransitionTo(s, "Normal") /\ Rank[s.level] = Rank["Normal"] + 1
    BY <1>3 DEF StepDown, Rank, Levels
  <2> QED
    BY <1>1, <1>3, <2>1, TransitionTraced DEF Levels
<1>4. CASE s.level = "Normal"
  BY <1>1, <1>4 DEF StepDown
<1> QED
  BY <1>1, <1>2, <1>3, <1>4 DEF Levels

(* Whole cooldowns fit into the time they are counted in.                  *)
LEMMA WholeSteps ==
    ASSUME NEW a \in Nat, NEW d \in Nat \ {0}
    PROVE  /\ a \div d \in Nat
           /\ a \div d # 0 => d <= a
           /\ a \div d # 0 /\ a \div d # 1 => 2 * d <= a
<1> DEFINE q == a \div d
<1>1. q \in Int /\ d * q <= a /\ a < d * q + d
  BY SMT
<1> HIDE DEF q
<1>2. q >= 0
  <2>1. ASSUME q <= -1 PROVE FALSE
    <3>1. d * q <= -d
      BY <1>1, <2>1
    <3> QED
      BY <1>1, <3>1
  <2> QED
    BY <1>1, <2>1
<1>3. q >= 1 => d * q >= d
  BY <1>1
<1>4. q >= 2 => d * q >= 2 * d
  BY <1>1
<1> QED
  BY <1>1, <1>2, <1>3, <1>4 DEF q

(* At most two cooldowns, each known to fit.                               *)
LEMMA FewHops ==
    ASSUME NEW n \in 0..2, NEW d \in Nat, NEW x \in Nat, n = 1 => d <= x, n = 2 => 2 * d <= x
    PROVE  n * d <= x
<1>1. CASE n = 0
  BY <1>1
<1>2. CASE n = 1
  BY <1>2
<1>3. CASE n = 2
  BY <1>3
<1> QED
  BY <1>1, <1>2, <1>3

(* maybeCooldown counts every rung it takes, one per elapsed cooldown.     *)
LEMMA CooledDownTraced ==
    ASSUME Inv, NEW o
    PROVE  LET s == CooledDown(Automaton, o)
           IN  /\ Traced(s, level) /\ Descends(s.hops)
               /\ Len(s.hops) * Cooldown <= now - lastTransitionAt
<1> DEFINE a == Automaton
           one == StepDown(a)
           two == StepDown(one)
           idle == now - lastTransitionAt
           steps == idle \div Cooldown
<1>1. /\ level \in Levels /\ now \in Nat /\ idle \in Nat /\ Cooldown \in Nat \ {0}
      /\ Settled(a) /\ a.level = level /\ a.since = lastTransitionAt /\ a.hops = <<>>
  BY AutoSettled, ConfigAssumption DEF Inv, TypeOK, Automaton
<1>2. Traced(a, level) /\ Descends(a.hops) /\ Len(a.hops) = 0
  BY <1>1 DEF Traced, Linked, Descends
<1> HIDE DEF a
<1>3. Traced(one, level) /\ Descends(one.hops) /\ Len(one.hops) \in 0..1
  <2>1. Traced(one, level) /\ Descends(one.hops) /\ Len(one.hops) \in Len(a.hops)..(Len(a.hops) + 1)
    BY <1>1, <1>2, StepDownTraced
  <2> HIDE DEF one
  <2> QED
    BY <1>2, <2>1
<1> HIDE DEF one
<1>4. Traced(two, level) /\ Descends(two.hops) /\ Len(two.hops) \in Len(one.hops)..(Len(one.hops) + 1)
  BY <1>1, <1>3, StepDownTraced
<1>5. /\ steps # 0 => Cooldown <= idle
      /\ steps # 0 /\ steps # 1 => 2 * Cooldown <= idle
  BY <1>1, WholeSteps
<1>6. \/ CooledDown(a, o) = a
      \/ steps # 0 /\ CooledDown(a, o) = one
      \/ steps # 0 /\ steps # 1 /\ CooledDown(a, o) = two
  BY <1>1 DEF CooledDown, one
<1> HIDE DEF two, steps, idle
<1>7. Len(a.hops) * Cooldown <= idle
  BY <1>1, <1>2
<1>8. steps # 0 => Len(one.hops) * Cooldown <= idle
  <2>1. Len(one.hops) \in 0..2 /\ Len(one.hops) # 2
    BY <1>3
  <2> QED
    BY <1>1, <1>5, <2>1, FewHops
<1>9. steps # 0 /\ steps # 1 => Len(two.hops) * Cooldown <= idle
  <2> SUFFICES ASSUME steps # 0, steps # 1 PROVE Len(two.hops) * Cooldown <= idle
    OBVIOUS
  <2>1. Len(two.hops) \in 0..2
    <3> DEFINE m == Len(one.hops)
               n == Len(two.hops)
    <3>1. m \in 0..1
      BY <1>3
    <3>2. n \in m..(m + 1)
      BY <1>4
    <3> HIDE DEF m, n
    <3>3. n \in 0..2
      BY <3>1, <3>2
    <3> QED
      BY <3>3 DEF n
  <2>2. Cooldown <= idle /\ 2 * Cooldown <= idle /\ Cooldown \in Nat /\ idle \in Nat
    BY <1>1, <1>5
  <2> QED
    BY <2>1, <2>2, FewHops
<1> QED
  BY <1>2, <1>3, <1>4, <1>6, <1>7, <1>8, <1>9 DEF a, idle

(* A step that stores an automaton stores its hops.                        *)
LEMMA StoredTraced ==
    ASSUME NEW s, Traced(s, level), SetAuto(s)
    PROVE  Linked(hops', level, level')
  BY DEF Traced, SetAuto

(* Every call counts the path it takes; a read goes down, rung by rung.    *)
LEMMA LadderStep ==
    ASSUME Inv, ServiceStep
    PROVE  /\ Linked(hops', level, level')
           /\ caller' # caller => /\ Descends(hops')
                                  /\ Len(hops') * Cooldown <= now - lastTransitionAt
<1> DEFINE c(o) == CooledDown(Automaton, o)
<1>1. /\ level \in Levels /\ now \in Nat /\ Automaton.level = level
      /\ Traced(Automaton, level)
  BY AutoSettled DEF Inv, TypeOK, Traced, Linked, Automaton
<1>2. \A o : /\ Traced(c(o), level) /\ Descends(c(o).hops)
             /\ Len(c(o).hops) * Cooldown <= now - lastTransitionAt
  BY CooledDownTraced
<1> HIDE DEF c
<1>3. ASSUME NEW t \in SignalTypes, Record(t) PROVE caller' = caller /\ Linked(hops', level, level')
  <2> DEFINE s == IF manualOverride # NoLevel THEN Automaton ELSE Recompute(Automaton, events')
  <2>1. caller' = caller /\ SetAuto(s)
    BY <1>3 DEF Record
  <2>2. Traced(s, level)
    BY <1>1, RecomputeTraced
  <2> QED
    BY <2>1, <2>2, StoredTraced
<1>4. ASSUME Evaluate \/ Snapshot \/ CurrentDenyThreshold
      PROVE  Linked(hops', level, level') /\ Descends(hops')
             /\ Len(hops') * Cooldown <= now - lastTransitionAt
  <2>1. SetAuto(c(manualOverride))
    BY <1>4 DEF Evaluate, Snapshot, CurrentChallengeThreshold, CurrentDenyThreshold, c
  <2>2. Linked(hops', level, level')
    BY <1>2, <2>1, StoredTraced
  <2> QED
    BY <1>2, <2>1, <2>2 DEF SetAuto
<1>5. ASSUME NEW l \in Levels, SetManualLevel(l) PROVE caller' = caller /\ Linked(hops', level, level')
  <2> DEFINE s == IF level = l THEN Automaton ELSE TransitionTo(Automaton, l)
  <2>1. caller' = caller /\ SetAuto(s)
    BY <1>5 DEF SetManualLevel
  <2>2. Traced(s, level)
    BY <1>1, TransitionTraced
  <2> QED
    BY <2>1, <2>2, StoredTraced
<1>6. ASSUME ClearManualLevel PROVE caller' = caller /\ Linked(hops', level, level')
  <2> DEFINE s == Recompute(c(NoLevel), events')
  <2>1. caller' = caller /\ SetAuto(s)
    BY <1>6 DEF ClearManualLevel, c
  <2>2. Traced(s, level)
    BY <1>1, <1>2, RecomputeTraced
  <2> QED
    BY <2>1, <2>2, StoredTraced
<1>7. ASSUME Tick PROVE caller' = caller /\ Linked(hops', level, level')
  BY <1>7 DEF Tick, Linked
<1> QED
  BY <1>3, <1>4, <1>5, <1>6, <1>7 DEF ServiceStep

-----------------------------------------------------------------------------
(* The policy loop: what a decision knows of the denials before it *)

(* Denials reached at T or later, and the signals of them in a window.     *)
Since(times, T) == {i \in 1..Len(times) : times[i] >= T}
Denied(evs, T) == {i \in 1..Len(evs) : evs[i].type = "policy.deny" /\ evs[i].ts >= T}

(* Nothing of T or later has fallen to the hard cap.                       *)
Complete(evs, T) == Len(evs) < MaxEvents \/ evs[1].ts < T

(* A DENY that has been decided and whose signal is not out yet.           *)
Owed(v) == IF v = "DENY" THEN 1 ELSE 0

(* Every denial still in its window is a signal in the window, or owed.    *)
Signalled(times, evs, owed, t) ==
    \A T \in Int : T >= t - Window /\ Complete(evs, T) =>
        Cardinality(Since(times, T)) <= Cardinality(Denied(evs, T)) + owed

LoopInv ==
    /\ asked \in Asks \cup {NoAsk}
    /\ caller = "evaluate" => verdict = "none" /\ asked \in Asks
    /\ denials \in Seq(Nat) /\ \A i \in 1..Len(denials) : denials[i] <= now
    /\ Signalled(denials, events, Owed(verdict), now)

(* Sets of indices are finite.                                             *)
LEMMA IndicesFinite ==
    ASSUME NEW n \in Nat, NEW S \in SUBSET (1..n)
    PROVE  IsFiniteSet(S) /\ Cardinality(S) \in Nat
<1>1. IsFiniteSet(1..n)
  BY FS_Interval
<1>2. IsFiniteSet(S)
  BY <1>1, FS_Subset
<1> QED
  BY <1>2, FS_CardinalityType

(* Both counts are natural numbers.                                        *)
LEMMA CountsFinite ==
    ASSUME NEW T \in Int
    PROVE  /\ \A times \in Seq(Nat) : IsFiniteSet(Since(times, T)) /\ Cardinality(Since(times, T)) \in Nat
           /\ \A evs \in Seq(Events) : IsFiniteSet(Denied(evs, T)) /\ Cardinality(Denied(evs, T)) \in Nat
<1>1. ASSUME NEW times \in Seq(Nat)
      PROVE  IsFiniteSet(Since(times, T)) /\ Cardinality(Since(times, T)) \in Nat
  <2>1. Len(times) \in Nat /\ Since(times, T) \in SUBSET (1..Len(times))
    BY LenProperties DEF Since
  <2> QED
    BY <2>1, IndicesFinite
<1>2. ASSUME NEW evs \in Seq(Events)
      PROVE  IsFiniteSet(Denied(evs, T)) /\ Cardinality(Denied(evs, T)) \in Nat
  <2>1. Len(evs) \in Nat /\ Denied(evs, T) \in SUBSET (1..Len(evs))
    BY LenProperties DEF Denied
  <2> QED
    BY <2>1, IndicesFinite
<1> QED
  BY <1>1, <1>2

(* Indices that move down by k are as many as before.                      *)
LEMMA ShiftedIndices ==
    ASSUME NEW n \in Nat, NEW k \in 0..n, NEW S \in SUBSET ((k + 1)..n)
    PROVE  Cardinality({i \in 1..(n - k) : i + k \in S}) = Cardinality(S)
<1> DEFINE A == {i \in 1..(n - k) : i + k \in S}
           f == [i \in A |-> i + k]
<1>1. S \in SUBSET (1..n) /\ A \in SUBSET (1..n)
  OBVIOUS
<1>2. IsFiniteSet(A)
  BY <1>1, IndicesFinite
<1>3. f \in Bijection(A, S)
  <2>1. f \in [A -> S]
    OBVIOUS
  <2>2. \A i, j \in A : f[i] = f[j] => i = j
    OBVIOUS
  <2>3. ASSUME NEW j \in S PROVE \E i \in A : f[i] = j
    <3>1. j \in (k + 1)..n
      OBVIOUS
    <3>2. j - k \in 1..(n - k) /\ (j - k) + k = j
      BY <3>1
    <3>3. j - k \in A
      BY <3>2
    <3>4. f[j - k] = j
      BY <3>2, <3>3
    <3> QED
      BY <3>3, <3>4
  <2> QED
    BY <2>1, <2>2, <2>3 DEF Bijection, Injection, Surjection, IsInjective
<1> HIDE DEF A, f
<1>4. Cardinality(A) = Cardinality(S)
  BY <1>2, <1>3, FS_Bijection DEF ExistsBijection
<1> QED
  BY <1>4 DEF A

(* Dropping what is older than T does not change the count.                *)
LEMMA DroppedOld ==
    ASSUME NEW evs \in Seq(Events), NEW k \in 0..Len(evs), NEW T \in Int, Ordered(evs),
           \A i \in 1..k : evs[i].ts < T
    PROVE  Cardinality(Denied(SubSeq(evs, k + 1, Len(evs)), T)) = Cardinality(Denied(evs, T))
<1> DEFINE n == Len(evs)
           r == SubSeq(evs, k + 1, n)
           S == Denied(evs, T)
<1>1. n \in Nat /\ k \in 0..n
  BY LenProperties
<1>2. r \in Seq(Events) /\ Len(r) = n - k /\ \A i \in 1..Len(r) : r[i] = evs[k + i]
  BY DropPrefix
<1>3. S \in SUBSET ((k + 1)..n)
  <2> SUFFICES ASSUME NEW i \in S PROVE i \in (k + 1)..n
    OBVIOUS
  <2>1. i \in 1..n /\ evs[i].ts >= T
    BY DEF Denied
  <2>2. evs[i].ts \in Int
    <3>1. evs[i] \in Events
      BY <2>1, ElementOfSeq
    <3> QED
      BY <3>1 DEF Events
  <2>3. i \notin 1..k
    BY <2>1, <2>2
  <2> QED
    BY <1>1, <2>1, <2>3
<1> HIDE DEF r
<1>4. Denied(r, T) = {i \in 1..(n - k) : i + k \in S}
  <2>1. ASSUME NEW i \in 1..(n - k)
        PROVE  /\ r[i] = evs[i + k] /\ i + k \in 1..n
               /\ i \in 1..Len(r)
    BY <1>1, <1>2
  <2> QED
    BY <1>1, <1>2, <2>1 DEF Denied
<1> HIDE DEF S, n
<1>5. Cardinality(Denied(r, T)) = Cardinality(S)
  <2>1. Cardinality({i \in 1..(n - k) : i + k \in S}) = Cardinality(S)
    BY <1>1, <1>3, ShiftedIndices
  <2> QED
    BY <1>4, <2>1
<1> QED
  BY <1>5 DEF r, S, n

(* A new signal counts if it is a denial and recent.                       *)
LEMMA AppendedSignal ==
    ASSUME NEW evs \in Seq(Events), NEW e \in Events, NEW T \in Int
    PROVE  Cardinality(Denied(Append(evs, e), T)) =
             Cardinality(Denied(evs, T)) + IF e.type = "policy.deny" /\ e.ts >= T THEN 1 ELSE 0
<1> DEFINE n == Len(evs)
           a == Append(evs, e)
<1>1. /\ n \in Nat /\ Len(a) = n + 1 /\ a[n + 1] = e
      /\ \A i \in 1..n : a[i] = evs[i]
  BY AppendProperties, LenProperties
<1>2. IsFiniteSet(Denied(evs, T)) /\ Cardinality(Denied(evs, T)) \in Nat
  BY CountsFinite
<1>3. n + 1 \notin Denied(evs, T)
  BY <1>1 DEF Denied
<1> HIDE DEF a, n
<1>4. CASE e.type = "policy.deny" /\ e.ts >= T
  <2>1. Denied(a, T) = Denied(evs, T) \cup {n + 1}
    BY <1>1, <1>4 DEF Denied, n
  <2> QED
    BY <1>2, <1>3, <1>4, <2>1, FS_AddElement DEF a
<1>5. CASE ~(e.type = "policy.deny" /\ e.ts >= T)
  <2>1. Denied(a, T) = Denied(evs, T)
    BY <1>1, <1>5 DEF Denied, n
  <2> QED
    BY <1>2, <1>5, <2>1 DEF a
<1> QED
  BY <1>4, <1>5

(* The history grows by one, and forgets only its oldest entry.            *)
LEMMA NotedTimes ==
    ASSUME NEW d, denials \in Seq(Nat), now \in Nat, \A i \in 1..Len(denials) : denials[i] <= now
    PROVE  /\ Noted(d) \in Seq(Nat) /\ \A i \in 1..Len(Noted(d)) : Noted(d)[i] <= now
           /\ \A T \in Int : Cardinality(Since(Noted(d), T)) <= Cardinality(Since(denials, T)) + Owed(d)
<1> DEFINE n == Len(denials)
           all == Append(denials, now)
<1>1. /\ n \in Nat /\ all \in Seq(Nat) /\ Len(all) = n + 1 /\ all[n + 1] = now
      /\ \A i \in 1..n : all[i] = denials[i]
  BY AppendProperties, LenProperties
<1>2. all # <<>>
  BY <1>1
<1> HIDE DEF all
<1>3. ASSUME NEW i \in 1..Len(all) PROVE all[i] <= now
  <2>1. CASE i = n + 1
    BY <1>1, <2>1
  <2>2. CASE i \in 1..n
    BY <1>1, <2>2
  <2> QED
    BY <1>1, <2>1, <2>2
<1>4. Tail(all) \in Seq(Nat) /\ Len(Tail(all)) = n /\ \A i \in 1..n : Tail(all)[i] = all[i + 1]
  <2>1. /\ Tail(all) \in Seq(Nat) /\ Len(Tail(all)) = Len(all) - 1
        /\ \A i \in 1..Len(Tail(all)) : Tail(all)[i] = all[i + 1]
    BY <1>1, <1>2, HeadTailProperties
  <2>2. Len(Tail(all)) = n
    BY <1>1, <2>1
  <2> QED
    BY <2>1, <2>2
<1>5. /\ d # "DENY" => Noted(d) = denials
      /\ d = "DENY" => Noted(d) = all \/ Noted(d) = Tail(all)
  BY DEF Noted, all
<1>6. \A i \in 1..Len(Tail(all)) : Tail(all)[i] <= now
  BY <1>1, <1>3, <1>4
<1>7. Noted(d) \in Seq(Nat) /\ \A i \in 1..Len(Noted(d)) : Noted(d)[i] <= now
  BY <1>1, <1>3, <1>4, <1>5, <1>6
<1>8. ASSUME NEW T \in Int
      PROVE  Cardinality(Since(Noted(d), T)) <= Cardinality(Since(denials, T)) + Owed(d)
  <2> DEFINE S == Since(denials, T)
             A == Since(all, T)
             B == Since(Tail(all), T)
             R == {i \in A : i > 1}
  <2>1. IsFiniteSet(S) /\ Cardinality(S) \in Nat /\ IsFiniteSet(A) /\ Cardinality(A) \in Nat
    BY <1>1, CountsFinite
  <2>2. Cardinality(A) <= Cardinality(S) + 1
    <3>1. A \in SUBSET (S \cup {n + 1})
      BY <1>1 DEF Since
    <3>2. n + 1 \notin S
      BY <1>1 DEF Since
    <3> HIDE DEF A, S
    <3>3. IsFiniteSet(S \cup {n + 1}) /\ Cardinality(S \cup {n + 1}) = Cardinality(S) + 1
      BY <2>1, <3>2, FS_AddElement
    <3> QED
      BY <3>1, <3>3, FS_Subset
  <2>3. Cardinality(B) <= Cardinality(A)
    <3>1. R \in SUBSET ((1 + 1)..(n + 1)) /\ R \in SUBSET A
      BY <1>1 DEF Since
    <3>2. B = {i \in 1..((n + 1) - 1) : i + 1 \in R}
      <4>1. ASSUME NEW i \in 1..n PROVE i \in B <=> i + 1 \in R
        <5>1. /\ Tail(all)[i] = all[i + 1] /\ i \in 1..Len(Tail(all))
              /\ i + 1 \in 1..Len(all) /\ i + 1 > 1
          BY <1>1, <1>4
        <5> QED
          BY <5>1 DEF Since
      <4>2. \A i \in B : i \in 1..n
        BY <1>4 DEF Since
      <4> HIDE DEF B, R
      <4> QED
        BY <1>1, <4>1, <4>2
    <3> HIDE DEF A, B, R
    <3>3. n + 1 \in Nat /\ 1 \in 0..(n + 1)
      BY <1>1
    <3>4. Cardinality(B) = Cardinality(R)
      BY <3>1, <3>2, <3>3, ShiftedIndices
    <3>5. Cardinality(R) <= Cardinality(A)
      BY <2>1, <3>1, FS_Subset
    <3> QED
      BY <3>4, <3>5
  <2>4. Cardinality(B) \in Nat
    BY <1>4, CountsFinite
  <2> HIDE DEF A, B, S
  <2>5. CASE d # "DENY"
    <3>1. Since(Noted(d), T) = S
      BY <1>5, <2>5 DEF S
    <3> QED
      BY <2>1, <2>5, <3>1 DEF Owed, S
  <2>6. CASE d = "DENY"
    <3>1. Since(Noted(d), T) = A \/ Since(Noted(d), T) = B
      BY <1>5, <2>6 DEF A, B
    <3>2. Cardinality(Since(Noted(d), T)) <= Cardinality(S) + 1
      BY <2>1, <2>2, <2>3, <2>4, <3>1
    <3> QED
      BY <2>6, <3>2 DEF Owed, S
  <2> QED
    BY <2>5, <2>6
<1> QED
  BY <1>7, <1>8

(* What evict() drops is older than the window.                            *)
LEMMA StaleOld ==
    ASSUME NEW evs \in Seq(Events), NEW t \in Int
    PROVE  \A i \in 1..Cardinality(Stale(evs, t)) : evs[i].ts < t - Window
<1> DEFINE S == Stale(evs, t)
           k == Cardinality(S)
<1>1. Len(evs) \in Nat /\ k \in 0..Len(evs)
  BY StalePrefix, LenProperties
<1>2. S \in SUBSET (1..Len(evs))
  BY DEF Stale
<1>3. \A i \in S : \A j \in 1..i : evs[j].ts < t - Window
  BY DEF Stale
<1>4. \A i \in S : \A j \in 1..i : j \in S
  BY <1>1 DEF Stale
<1> HIDE DEF S
<1>5. ASSUME k # 0 PROVE k \in S
  <2> SUFFICES ASSUME k \notin S PROVE FALSE
    OBVIOUS
  <2>1. k \in Nat /\ k - 1 \in Nat
    BY <1>1, <1>5
  <2>2. S \in SUBSET (1..(k - 1))
    <3> SUFFICES ASSUME NEW i \in S PROVE i \in 1..(k - 1)
      OBVIOUS
    <3>1. i \in 1..Len(evs)
      BY <1>2
    <3>2. k \notin 1..i
      BY <1>4
    <3> HIDE DEF k
    <3> QED
      BY <2>1, <3>1, <3>2, <1>5
  <2>3. IsFiniteSet(1..(k - 1)) /\ Cardinality(1..(k - 1)) = k - 1
    <3> DEFINE n == k - 1
    <3>1. n \in Int /\ 1 \in Int /\ n >= 0
      BY <2>1
    <3> HIDE DEF n
    <3>2. IsFiniteSet(1..n) /\ Cardinality(1..n) = IF 1 > n THEN 0 ELSE n - 1 + 1
      BY <3>1, FS_Interval
    <3>3. Cardinality(1..n) = n
      BY <3>1, <3>2
    <3> QED
      BY <3>2, <3>3 DEF n
  <2>4. Cardinality(S) <= k - 1
    <3> DEFINE I == 1..(k - 1)
    <3> HIDE DEF I
    <3>1. S \in SUBSET I /\ IsFiniteSet(I) /\ Cardinality(I) = k - 1
      BY <2>2, <2>3 DEF I
    <3>2. Cardinality(S) <= Cardinality(I)
      BY <3>1, FS_Subset
    <3> QED
      BY <3>1, <3>2
  <2> QED
    BY <2>1, <2>4
<1> HIDE DEF k
<1>6. ASSUME NEW i \in 1..k PROVE evs[i].ts < t - Window
  <2>1. k # 0
    BY <1>1, <1>6
  <2> QED
    BY <1>3, <1>5, <1>6, <2>1
<1> QED
  BY <1>6 DEF k, S

(* Eviction drops no denial of the window, nor hides a capped one.         *)
LEMMA EvictedDenials ==
    ASSUME NEW evs \in Seq(Events), Ordered(evs), NEW t \in Int, NEW T \in Int, T >= t - Window
    PROVE  /\ Cardinality(Denied(Evict(evs, t), T)) = Cardinality(Denied(evs, T))
           /\ Complete(Evict(evs, t), T) => Complete(evs, T)
<1> DEFINE k == Cardinality(Stale(evs, t))
           r == Evict(evs, t)
<1>1. k \in 0..Len(evs) /\ Len(evs) \in Nat /\ Window \in Nat
  BY StalePrefix, LenProperties, ConfigAssumption
<1>2. r = SubSeq(evs, k + 1, Len(evs))
  BY DEF Evict
<1>3. \A i \in 1..k : evs[i].ts < t - Window
  BY StaleOld
<1> HIDE DEF k, r
<1>4. ASSUME NEW i \in 1..k PROVE evs[i].ts < T
  <2>1. evs[i] \in Events
    BY <1>1, ElementOfSeq
  <2>2. evs[i].ts \in Int
    BY <2>1 DEF Events
  <2> QED
    BY <1>1, <1>3, <2>2
<1>5. Cardinality(Denied(r, T)) = Cardinality(Denied(evs, T))
  BY <1>1, <1>2, <1>4, DroppedOld
<1>6. Complete(r, T) => Complete(evs, T)
  <2>1. CASE k = 0
    <3>1. Len(r) = Len(evs) /\ \A i \in 1..Len(r) : r[i] = evs[k + i]
      BY <1>1, <1>2, <2>1, DropPrefix
    <3>2. Len(evs) < MaxEvents \/ 1 \in 1..Len(r)
      BY <1>1, <3>1, ConfigAssumption
    <3>3. Len(evs) < MaxEvents \/ r[1] = evs[1]
      BY <2>1, <3>1, <3>2
    <3> QED
      BY <3>1, <3>3 DEF Complete
  <2>2. CASE k # 0
    <3>1. evs[1].ts < T
      BY <1>1, <1>4, <2>2
    <3> QED
      BY <3>1 DEF Complete
  <2> QED
    BY <2>1, <2>2
<1> QED
  BY <1>5, <1>6 DEF r

(* record() keeps the denials it should: what the cap drops is only        *)
(* missed by a count that reaches back to it.                              *)
LEMMA RecordedDenials ==
    ASSUME Inv, NEW type \in SignalTypes, NEW T \in Int, T >= now - Window,
           Complete(Evict(HardCap(Append(events, [ts |-> now, type |-> type])), now), T)
    PROVE  /\ Complete(events, T)
           /\ Cardinality(Denied(Evict(HardCap(Append(events, [ts |-> now, type |-> type])), now), T)) =
                Cardinality(Denied(events, T)) + IF type = "policy.deny" /\ now >= T THEN 1 ELSE 0
<1> DEFINE e == [ts |-> now, type |-> type]
           a == Append(events, e)
           c == HardCap(a)
<1>1. /\ now \in Nat /\ now \in Int /\ events \in Seq(Events) /\ e \in Events
      /\ e.ts = now /\ e.type = type
      /\ Len(events) <= MaxEvents /\ MaxEvents \in Nat \ {0} /\ Len(events) \in Nat
  BY ConfigAssumption, LenProperties DEF Inv, TypeOK, Events, WindowSound
<1>2. /\ a \in Seq(Events) /\ Len(a) = Len(events) + 1
      /\ \A i \in 1..Len(events) : a[i] = events[i]
  BY <1>1, AppendProperties
<1>3. Ordered(a)
  BY AppendedOrdered
<1>4. Cardinality(Denied(a, T)) =
        Cardinality(Denied(events, T)) + IF type = "policy.deny" /\ now >= T THEN 1 ELSE 0
  BY <1>1, AppendedSignal
<1>5. c \in Seq(Events) /\ Ordered(c)
  BY <1>2, <1>3, HardCapSound
<1> HIDE DEF a
<1>6. Complete(c, T) /\ Cardinality(Denied(Evict(c, now), T)) = Cardinality(Denied(c, T))
  BY <1>1, <1>5, EvictedDenials DEF a
<1>7. CASE Len(a) <= MaxEvents
  <2>1. c = a
    BY <1>1, <1>2, <1>7 DEF HardCap
  <2>2. Len(events) < MaxEvents
    BY <1>1, <1>2, <1>7
  <2> QED
    BY <1>4, <1>6, <2>1, <2>2 DEF Complete, a
<1>8. CASE Len(a) > MaxEvents
  <2>1. Len(events) = MaxEvents /\ Len(a) - MaxEvents = 1 /\ Len(a) - MaxEvents + 1 = 2
    BY <1>1, <1>2, <1>8
  <2>2. c = SubSeq(a, 1 + 1, Len(a)) /\ 1 \in 0..Len(a)
    <3>1. c = SubSeq(a, Len(a) - MaxEvents + 1, Len(a))
      BY <1>8 DEF HardCap
    <3>2. 1 \in 0..Len(a)
      BY <1>1, <1>2
    <3> QED
      BY <2>1, <3>1, <3>2
  <2>3. Len(c) = MaxEvents /\ c[1] = a[2]
    <3>1. Len(c) = Len(a) - 1 /\ \A i \in 1..Len(c) : c[i] = a[1 + i]
      BY <1>2, <1>3, <2>2, DropPrefix
    <3>2. Len(c) = MaxEvents /\ 1 \in 1..Len(c)
      BY <1>1, <1>2, <2>1, <3>1
    <3>3. c[1] = a[1 + 1]
      BY <3>1, <3>2
    <3> QED
      BY <3>2, <3>3
  <2>4. a[1] = events[1] /\ a[1].ts <= a[2].ts /\ a[1] \in Events /\ a[2] \in Events
    <3>1. 1 \in 1..Len(events) /\ 1 \in 1..Len(a) /\ 2 \in 1..Len(a)
      BY <1>1, <1>2, <2>1
    <3> QED
      BY <1>2, <1>3, <3>1, ElementOfSeq DEF Ordered
  <2>5. a[1].ts < T
    <3>1. c[1].ts < T
      BY <1>1, <1>6, <2>3 DEF Complete
    <3>2. a[1].ts \in Nat /\ a[2].ts \in Nat
      BY <2>4 DEF Events
    <3> QED
      BY <2>3, <2>4, <3>1, <3>2
  <2>6. \A i \in 1..1 : a[i].ts < T
    BY <2>5
  <2>7. Cardinality(Denied(c, T)) = Cardinality(Denied(a, T))
    BY <1>2, <1>3, <2>2, <2>6, DroppedOld
  <2> QED
    BY <1>4, <1>6, <2>4, <2>5, <2>7 DEF Complete, a
<1> QED
  BY <1>1, <1>2, <1>7, <1>8

(* Before the first request there is nothing to signal.                    *)
LEMMA LoopInit == PolicyInit => LoopInv
<1> SUFFICES ASSUME PolicyInit PROVE LoopInv
  OBVIOUS
<1>1. /\ denials = <<>> /\ events = <<>> /\ verdict = "none" /\ now = 0 /\ caller = "idle"
      /\ asked = NoAsk
  BY DEF PolicyInit, Init
<1>2. denials \in Seq(Nat) /\ events \in Seq(Events) /\ Len(denials) = 0
  BY <1>1, EmptySeq
<1>3. \A T \in Int : Cardinality(Since(denials, T)) = 0
  <2>1. \A T \in Int : Since(denials, T) = {}
    BY <1>2 DEF Since
  <2> QED
    BY <2>1, FS_EmptySet
<1>4. Signalled(denials, events, Owed(verdict), now)
  <2>1. Owed(verdict) = 0
    BY <1>1 DEF Owed
  <2>2. \A T \in Int : Cardinality(Denied(events, T)) \in Nat
    BY <1>2, CountsFinite
  <2> QED
    BY <1>3, <2>1, <2>2 DEF Signalled
<1> QED
  BY <1>1, <1>2, <1>4 DEF LoopInv

(* A decision notes its own denial, which it owes a signal.                *)
LEMMA NotedSignalled ==
    ASSUME Inv, LoopInv, verdict # "DENY", NEW d, denials' = Noted(d), events' = events, now' = now
    PROVE  /\ denials' \in Seq(Nat) /\ \A i \in 1..Len(denials') : denials'[i] <= now'
           /\ Signalled(denials', events', Owed(d), now')
<1>1. now \in Nat /\ events \in Seq(Events)
  BY DEF Inv, TypeOK
<1>2. /\ denials \in Seq(Nat) /\ \A i \in 1..Len(denials) : denials[i] <= now
      /\ Signalled(denials, events, Owed(verdict), now) /\ Owed(verdict) = 0 /\ Owed(d) \in Nat
  BY DEF LoopInv, Owed
<1>3. /\ denials' \in Seq(Nat) /\ \A i \in 1..Len(denials') : denials'[i] <= now'
      /\ \A T \in Int : Cardinality(Since(denials', T)) <= Cardinality(Since(denials, T)) + Owed(d)
  BY <1>1, <1>2, NotedTimes
<1>4. ASSUME NEW T \in Int, T >= now - Window, Complete(events, T)
      PROVE  Cardinality(Since(denials', T)) <= Cardinality(Denied(events, T)) + Owed(d)
  <2>1. /\ Cardinality(Since(denials, T)) \in Nat /\ Cardinality(Since(denials', T)) \in Nat
        /\ Cardinality(Denied(events, T)) \in Nat
    BY <1>1, <1>2, <1>3, CountsFinite
  <2>2. Cardinality(Since(denials, T)) <= Cardinality(Denied(events, T)) + 0
    BY <1>2, <1>4 DEF Signalled
  <2> QED
    BY <1>2, <1>3, <2>1, <2>2
<1> QED
  BY <1>3, <1>4 DEF Signalled

(* A signal enters the window; the one that was owed is no longer.         *)
LEMMA RecordSignalled ==
    ASSUME Inv, LoopInv, NEW type \in SignalTypes, Record(type),
           verdict = "DENY" => type = "policy.deny"
    PROVE  Signalled(denials, events', 0, now)
<1> DEFINE v == Evict(HardCap(Append(events, [ts |-> now, type |-> type])), now)
<1>1. events' = v /\ now \in Nat /\ events \in Seq(Events)
  BY DEF Record, Inv, TypeOK
<1>2. /\ denials \in Seq(Nat) /\ \A i \in 1..Len(denials) : denials[i] <= now
      /\ Signalled(denials, events, Owed(verdict), now)
  BY DEF LoopInv
<1>3. ASSUME NEW T \in Int, T >= now - Window, Complete(v, T)
      PROVE  Cardinality(Since(denials, T)) <= Cardinality(Denied(v, T)) + 0
  <2>1. /\ Complete(events, T)
        /\ Cardinality(Denied(v, T)) =
             Cardinality(Denied(events, T)) + IF type = "policy.deny" /\ now >= T THEN 1 ELSE 0
    BY <1>3, RecordedDenials
  <2> HIDE DEF v
  <2>2. Cardinality(Since(denials, T)) \in Nat /\ Cardinality(Denied(events, T)) \in Nat
    BY <1>1, <1>2, CountsFinite
  <2>3. Cardinality(Since(denials, T)) <= Cardinality(Denied(events, T)) + Owed(verdict)
    BY <1>2, <1>3, <2>1 DEF Signalled
  <2>4. CASE now >= T
    BY <2>1, <2>2, <2>3, <2>4 DEF Owed
  <2>5. CASE ~(now >= T)
    <3>1. ASSUME NEW i \in Since(denials, T) PROVE FALSE
      <4>1. i \in 1..Len(denials) /\ denials[i] >= T
        BY <3>1 DEF Since
      <4>2. denials[i] \in Nat /\ denials[i] <= now
        BY <1>2, <4>1, ElementOfSeq
      <4> QED
        BY <1>1, <2>5, <4>1, <4>2
    <3>2. Since(denials, T) = {}
      BY <3>1
    <3>3. Cardinality(Since(denials, T)) = 0
      BY <3>2, FS_EmptySet
    <3> QED
      BY <2>1, <2>2, <3>3
  <2> QED
    BY <2>4, <2>5
<1> QED
  BY <1>1, <1>3 DEF Signalled

(* clearManualLevel() only evicts.                                         *)
LEMMA ClearSignalled ==
    ASSUME Inv, LoopInv, verdict # "DENY", ClearManualLevel
    PROVE  Signalled(denials, events', 0, now)
<1> DEFINE v == Evict(events, now)
<1>1. events' = v /\ now \in Nat /\ now \in Int /\ events \in Seq(Events) /\ Len(events) \in Nat
  BY LenProperties DEF ClearManualLevel, Inv, TypeOK
<1>2. Ordered(events)
  BY <1>1 DEF Inv, WindowSound, Ordered
<1>3. Signalled(denials, events, 0, now)
  BY DEF LoopInv, Owed
<1>4. ASSUME NEW T \in Int, T >= now - Window, Complete(v, T)
      PROVE  Cardinality(Since(denials, T)) <= Cardinality(Denied(v, T)) + 0
  <2>1. Complete(events, T) /\ Cardinality(Denied(v, T)) = Cardinality(Denied(events, T))
    BY <1>1, <1>2, <1>4, EvictedDenials
  <2> QED
    BY <1>3, <1>4, <2>1 DEF Signalled
<1> QED
  BY <1>1, <1>4 DEF Signalled

(* The count starts later as the clock moves.                              *)
LEMMA TickSignalled ==
    ASSUME Inv, LoopInv, Tick
    PROVE  /\ \A i \in 1..Len(denials) : denials[i] <= now'
           /\ Signalled(denials, events', Owed(verdict), now')
<1>1. now' = now + 1 /\ now \in Nat /\ Window \in Nat /\ events' = events
  BY ConfigAssumption DEF Tick, window, Inv, TypeOK
<1>2. \A i \in 1..Len(denials) : denials[i] \in Nat /\ denials[i] <= now
  BY ElementOfSeq DEF LoopInv
<1>3. \A T \in Int : T >= now' - Window => T >= now - Window
  BY <1>1
<1>4. Signalled(denials, events, Owed(verdict), now)
  BY DEF LoopInv
<1>5. Signalled(denials, events', Owed(verdict), now')
  BY <1>1, <1>3, <1>4 DEF Signalled
<1> QED
  BY <1>1, <1>2, <1>5

(* Every step of the loop preserves it.                                    *)
LEMMA LoopNext ==
    ASSUME Inv, LoopInv, [PolicyNext]_pvars
    PROVE  LoopInv'
<1>1. /\ asked \in Asks \cup {NoAsk} /\ denials \in Seq(Nat)
      /\ (caller = "evaluate" => verdict = "none" /\ asked \in Asks)
      /\ \A i \in 1..Len(denials) : denials[i] <= now
      /\ Signalled(denials, events, Owed(verdict), now)
  BY DEF LoopInv
<1>2. verdict # "DENY" => Owed(verdict) = 0
  BY DEF Owed
<1>3. Owed("none") = 0 /\ Owed("DENY") = 1
  BY DEF Owed
<1>4. ASSUME NEW ask \in Asks, Ask(ask) PROVE LoopInv'
  <2>1. /\ verdict # "DENY" /\ asked' = ask /\ verdict' = "none" /\ denials' = denials
        /\ events' = events /\ now' = now
    BY <1>4 DEF Ask, Idle, Evaluate, CurrentChallengeThreshold, window
  <2> QED
    BY <1>1, <1>2, <1>3, <2>1 DEF LoopInv
<1>5. ASSUME NEW ask \in Asks, EnforcerThrows(ask) PROVE LoopInv'
  <2>1. /\ verdict # "DENY" /\ caller = "idle" /\ caller' = caller /\ asked' = asked
        /\ verdict' = "DENY" /\ denials' = Noted("DENY") /\ events' = events /\ now' = now
    BY <1>5 DEF EnforcerThrows, Idle, vars
  <2>2. /\ denials' \in Seq(Nat) /\ \A i \in 1..Len(denials') : denials'[i] <= now'
        /\ Signalled(denials', events', Owed("DENY"), now')
    BY <2>1, NotedSignalled
  <2> QED
    BY <1>1, <2>1, <2>2 DEF LoopInv
<1>6. CASE Decided
  <2>1. /\ caller = "evaluate" /\ caller' = "idle" /\ asked' = NoAsk /\ denials' = Noted(verdict')
        /\ events' = events /\ now' = now
    BY <1>6 DEF Decided, CurrentDenyThreshold, window
  <2>2. verdict # "DENY"
    BY <1>1, <2>1
  <2> DEFINE d == verdict'
  <2>3. denials' = Noted(d)
    BY <2>1
  <2> HIDE DEF d
  <2>4. /\ denials' \in Seq(Nat) /\ \A i \in 1..Len(denials') : denials'[i] <= now'
        /\ Signalled(denials', events', Owed(d), now')
    BY <2>1, <2>2, <2>3, NotedSignalled
  <2> QED
    BY <2>1, <2>4 DEF LoopInv, d
<1>7. CASE EmitDeny
  <2>1. /\ Record("policy.deny") /\ "policy.deny" \in SignalTypes /\ verdict' = "none"
        /\ asked' = asked /\ denials' = denials /\ caller = "idle" /\ caller' = caller /\ now' = now
    BY <1>7 DEF EmitDeny, Record, SignalTypes, Thresholded
  <2>2. Signalled(denials, events', 0, now)
    BY <2>1, RecordSignalled
  <2> QED
    BY <1>1, <1>3, <2>1, <2>2 DEF LoopInv
<1>8. CASE Elsewhere
  <2>1. verdict # "DENY" /\ verdict' = "none" /\ asked' = asked /\ denials' = denials /\ caller = "idle"
    BY <1>8 DEF Elsewhere, Idle
  <2>2. ASSUME NEW t \in Signals, OnSignal(t) PROVE LoopInv'
    <3>1. /\ Record(t) /\ t \in SignalTypes /\ caller' = caller /\ now' = now
      BY <2>2, ConfigAssumption DEF OnSignal, Record
    <3>2. Signalled(denials, events', 0, now)
      BY <2>1, <3>1, RecordSignalled
    <3> QED
      BY <1>1, <1>3, <2>1, <3>1, <3>2 DEF LoopInv
  <2>3. CASE Snapshot \/ \E l \in Levels : SetManualLevel(l)
    <3>1. events' = events /\ now' = now /\ caller' # "evaluate"
      BY <2>1, <2>3 DEF Snapshot, CurrentChallengeThreshold, SetManualLevel, window
    <3> QED
      BY <1>1, <1>2, <1>3, <2>1, <3>1 DEF LoopInv
  <2>4. CASE ClearManualLevel
    <3>1. caller' = caller /\ now' = now
      BY <2>4 DEF ClearManualLevel
    <3>2. Signalled(denials, events', 0, now)
      BY <2>1, <2>4, ClearSignalled
    <3> QED
      BY <1>1, <1>3, <2>1, <3>1, <3>2 DEF LoopInv
  <2> QED
    BY <1>8, <2>2, <2>3, <2>4 DEF Elsewhere
<1>9. CASE SnapshotDone
  <2>1. /\ asked' = asked /\ verdict' = verdict /\ denials' = denials
        /\ events' = events /\ now' = now /\ caller' = "idle"
    BY <1>9 DEF SnapshotDone, CurrentDenyThreshold, window
  <2> QED
    BY <1>1, <2>1 DEF LoopInv
<1>10. CASE TimePasses
  <2>1. Tick /\ asked' = asked /\ verdict' = verdict /\ denials' = denials /\ caller' = caller
    BY <1>10 DEF TimePasses, Tick
  <2>2. /\ \A i \in 1..Len(denials) : denials[i] <= now'
        /\ Signalled(denials, events', Owed(verdict), now')
    BY <2>1, TickSignalled
  <2> QED
    BY <1>1, <2>1, <2>2 DEF LoopInv
<1>11. CASE UNCHANGED pvars
  BY <1>1, <1>11 DEF LoopInv, pvars, vars
<1> QED
  BY <1>4, <1>5, <1>6, <1>7, <1>8, <1>9, <1>10, <1>11 DEF PolicyNext

(* D-10: a decision taken at higher levels is not laxer.                   *)
LEMMA DecisionTightens ==
    ASSUME NEW ask \in Asks, NEW c1 \in Levels, NEW c2 \in Levels, NEW d1 \in Levels, NEW d2 \in Levels,
           Rank[c1] <= Rank[c2], Rank[d1] <= Rank[d2]
    PROVE  /\ Strictness[Decide(ask, c1, d1)] <= Strictness[Decide(ask, c2, d2)]
           /\ Strictness[Decide(ask, c1, d1)] \in Int /\ Strictness[Decide(ask, c2, d2)] \in Int
<1>1. ask.score \in Int /\ \A l \in Levels : ChallengeT[l] \in Int /\ DenyT[l] \in Int /\ Rank[l] \in Int
  BY ThresholdAssumption DEF Rank, Levels
<1>2. \A l, m \in Levels : Rank[l] = Rank[m] => l = m
  BY DEF Rank, Levels
<1>3. ChallengeT[c2] <= ChallengeT[c1] /\ DenyT[d2] <= DenyT[d1]
  BY <1>1, <1>2, ThresholdAssumption
<1>4. Strictness["ALLOW"] = 0 /\ Strictness["CHALLENGE"] = 1 /\ Strictness["DENY"] = 2
  BY DEF Strictness
<1> QED
  BY <1>1, <1>3, <1>4 DEF Decide

(* The denials that are signalled bind the level the window justifies.     *)
LEMMA DenialsCounted ==
    ASSUME Inv, LoopInv, verdict # "DENY", Len(events) < MaxEvents
    PROVE  Rank[LevelForDenials(RecentDenials)] <= Rank[LevelFor(events)]
<1> DEFINE T == now - Window
           n == RecentDenials
           m == CountByType(events, "policy.deny")
           D == {i \in 1..Len(events) : events[i].type = "policy.deny"}
<1>1. T \in Int /\ events \in Seq(Events) /\ denials \in Seq(Nat) /\ Len(events) \in Nat
  BY LenProperties, ConfigAssumption DEF Inv, TypeOK, LoopInv
<1>2. n = Cardinality(Since(denials, T)) /\ m = Cardinality(D)
  BY DEF RecentDenials, Since, CountByType
<1>3. Cardinality(Since(denials, T)) <= Cardinality(Denied(events, T)) + 0
  BY <1>1 DEF LoopInv, Signalled, Complete, Owed
<1>4. IsFiniteSet(D) /\ Cardinality(D) \in Nat
  BY <1>1, IndicesFinite
<1>5. Denied(events, T) \in SUBSET D
  BY DEF Denied
<1> HIDE DEF D, T
<1>6. Cardinality(Denied(events, T)) <= Cardinality(D)
  BY <1>4, <1>5, FS_Subset
<1>7. Cardinality(Denied(events, T)) \in Nat /\ Cardinality(Since(denials, T)) \in Nat
  BY <1>1, CountsFinite
<1> HIDE DEF n, m
<1>8. n \in Nat /\ m \in Nat /\ n <= m
  BY <1>2, <1>3, <1>4, <1>6, <1>7
<1> DEFINE low == ElevatedAt["policy.deny"]
           high == CriticalAt["policy.deny"]
<1>9. low \in Nat /\ high \in Nat /\ low < high /\ "policy.deny" \in Thresholded
  BY ConfigAssumption DEF Thresholded
<1>10. /\ m >= high => LevelFor(events) = "Critical"
       /\ m >= low => LevelFor(events) \in {"Critical", "Elevated"}
  BY <1>9 DEF LevelFor, m
<1>11. \/ n >= high /\ LevelForDenials(n) = "Critical"
       \/ n >= low /\ LevelForDenials(n) = "Elevated"
       \/ LevelForDenials(n) = "Normal"
  BY <1>8, <1>9 DEF LevelForDenials
<1> HIDE DEF low, high
<1>12. LevelFor(events) \in Levels
  BY LevelForType
<1>13. Rank["Normal"] = 0 /\ Rank["Elevated"] = 1 /\ Rank["Critical"] = 2
  BY DEF Rank, Levels
<1>14. Rank[LevelForDenials(n)] <= Rank[LevelFor(events)]
  <2>1. CASE n >= high /\ LevelForDenials(n) = "Critical"
    BY <1>8, <1>9, <1>10, <1>13, <2>1
  <2>2. CASE n >= low /\ LevelForDenials(n) = "Elevated"
    BY <1>8, <1>9, <1>10, <1>13, <2>2
  <2>3. CASE LevelForDenials(n) = "Normal"
    BY <1>12, <1>13, <2>3 DEF Levels
  <2> QED
    BY <1>11, <2>1, <2>2, <2>3
<1> QED
  BY <1>14 DEF n

(* The levels a decision is taken at, whatever the clock did in between.   *)
LEMMA DecidedLevels ==
    ASSUME Inv, LoopInv, Decided
    PROVE  /\ reply.challenge \in Levels /\ reply'.deny \in Levels /\ asked \in Asks
           /\ verdict' = Decide(asked, reply.challenge, reply'.deny)
           /\ (manualOverride = NoLevel /\ now - lastSignalAt < Cooldown) =>
                /\ reply'.deny = LevelFor(events)
                /\ Rank[LevelFor(events)] <= Rank[reply.challenge]
<1> DEFINE s == CooledDown(Automaton, manualOverride)
<1>1. /\ caller = "evaluate" /\ SetAuto(s) /\ now' = now /\ events' = events
      /\ lastSignalAt' = lastSignalAt /\ manualOverride' = manualOverride
      /\ reply' = [reply EXCEPT !.deny = EffectiveIn(s)]
      /\ verdict' = Decide(asked, reply.challenge, reply'.deny)
  BY DEF Decided, CurrentDenyThreshold, window
<1>2. level' \in Levels /\ EffectiveIn(s) = level'
  BY <1>1, ReadKeeps
<1>3. reply'.deny = level'
  BY <1>1, <1>2 DEF Inv, TypeOK
<1>4. reply.challenge \in Levels /\ Rank[level] <= Rank[reply.challenge] /\ asked \in Asks
  BY <1>1 DEF Inv, MidRead, LoopInv
<1>5. ASSUME manualOverride = NoLevel, now - lastSignalAt < Cooldown
      PROVE  level' = level /\ level = LevelFor(events)
  <2>1. s = Automaton
    BY <1>5, AutoSettled, CooledDownSettled
  <2> QED
    BY <1>1, <1>5, <2>1 DEF SetAuto, Automaton, Inv, EscalationHolds
<1> QED
  BY <1>1, <1>2, <1>3, <1>4, <1>5

-----------------------------------------------------------------------------
(* The theorems *)

(* The inductive invariant holds in every state the service can reach.     *)
THEOREM InvHolds == Spec \/ PolicySpec => []Inv
<1>1. Spec => []Inv
  BY InitInv, ServiceInv, AloneServes, PTL DEF Spec
<1>2. PolicyInit => Init
  BY DEF PolicyInit
<1>3. PolicySpec => []Inv
  BY <1>2, InitInv, ServiceInv, LoopServes, PTL DEF PolicySpec
<1> QED
  BY <1>1, <1>3

(* The service's fields keep their types and no timestamp of it lies in    *)
(* the future.                                                             *)
THEOREM TypeCorrect == Spec \/ PolicySpec => []TypeOK
  BY InvHolds, PTL DEF Inv

(* The sliding window stays within threatWindowMaxEvents, ordered, and     *)
(* free of signals older than threatWindowMs at the last record().         *)
THEOREM WindowTheorem == Spec \/ PolicySpec => []WindowSound
  BY InvHolds, PTL DEF Inv

(* The Prometheus gauge always shows the level whose thresholds are served. *)
THEOREM GaugeTheorem == Spec \/ PolicySpec => []GaugeTruthful
<1>1. Inv => GaugeTruthful
  BY AutoSettled DEF Inv, GaugeTruthful
<1> QED
  BY <1>1, InvHolds, PTL

(* Without an override the level is never above what recomputeLevel finds  *)
(* in the window.                                                          *)
THEOREM LevelTheorem == Spec \/ PolicySpec => []LevelBacked
  BY InvHolds, PTL DEF Inv

(* Nor is it below, while the last signal is fresh: the ladder rises with  *)
(* the signals the window holds.                                           *)
THEOREM EscalationTheorem == Spec \/ PolicySpec => []EscalationHolds
  BY InvHolds, PTL DEF Inv

(* evaluate() never pairs a challenge threshold with the deny threshold of *)
(* a higher level, whatever the clock does between the two reads.          *)
THEOREM ThresholdsTheorem == Spec \/ PolicySpec => []ServedThresholdsOrdered
  BY InvHolds, PTL DEF Inv

(* While an override stands, nothing but the admin API moves the level.    *)
THEOREM OverrideTheorem == Spec \/ PolicySpec => OverrideSticky
<1>1. ASSUME Inv, [ServiceStep]_vars, manualOverride # NoLevel, manualOverride' = manualOverride
      PROVE  level' = level
  <2>0. Inv'
    BY <1>1, ServiceInv
  <2> QED
    BY <1>1, <2>0 DEF Inv, OverrideInForce
<1>2. Inv /\ [ServiceStep]_vars =>
        [manualOverride # NoLevel /\ manualOverride' = manualOverride => level' = level]_vars
  BY <1>1
<1> QED
  BY <1>2, InvHolds, AloneServes, LoopServes, PTL DEF Spec, PolicySpec, OverrideSticky

(* WR-07: the transitions a call counts are the path it takes, and a read  *)
(* goes down rung by rung, at most one per elapsed cooldown.               *)
THEOREM LadderTheorem == Spec \/ PolicySpec => LadderRecorded
<1>1. Inv /\ [ServiceStep]_vars =>
        [/\ Linked(hops', level, level')
         /\ caller' # caller =>
              /\ \A i \in 1..Len(hops') : Rank[hops'[i][1]] = Rank[hops'[i][2]] + 1
              /\ Len(hops') * Cooldown <= now - lastTransitionAt]_vars
  BY LadderStep DEF Descends
<1> QED
  BY <1>1, InvHolds, AloneServes, LoopServes, PTL DEF Spec, PolicySpec, LadderRecorded

(* Every denial of the window reaches the window, or its decision is still *)
(* about to signal it.                                                     *)
THEOREM LoopTheorem == PolicySpec => []LoopInv
<1>1. LoopInv /\ Inv /\ [PolicyNext]_pvars => LoopInv'
  BY LoopNext
<1> QED
  BY <1>1, LoopInit, InvHolds, PTL DEF PolicySpec

(* README.md:23: denials tighten the decisions after them, and no decision *)
(* leaves the range between Normal and Critical.                           *)
THEOREM TightenTheorem == PolicySpec => DenialsTighten
<1> DEFINE at(l) == Strictness[Decide(asked, l, l)]
<1>1. ASSUME Inv, LoopInv, Decided
      PROVE  /\ Strictness[verdict'] \in at("Normal")..at("Critical")
             /\ (/\ manualOverride = NoLevel /\ now - lastSignalAt < Cooldown
                 /\ Len(events) < MaxEvents)
                  => Strictness[verdict'] >= at(LevelForDenials(RecentDenials))
  <2> DEFINE c == reply.challenge
             d == reply'.deny
  <2>1. /\ c \in Levels /\ d \in Levels /\ asked \in Asks /\ verdict' = Decide(asked, c, d)
        /\ (manualOverride = NoLevel /\ now - lastSignalAt < Cooldown) =>
             d = LevelFor(events) /\ Rank[LevelFor(events)] <= Rank[c]
    BY <1>1, DecidedLevels
  <2>2. verdict # "DENY"
    BY <1>1 DEF Decided, LoopInv
  <2> HIDE DEF c, d
  <2>3. /\ "Normal" \in Levels /\ "Critical" \in Levels
        /\ \A l \in Levels : Rank["Normal"] <= Rank[l] /\ Rank[l] <= Rank["Critical"]
    BY DEF Rank, Levels
  <2>4. /\ at("Normal") <= Strictness[verdict'] /\ Strictness[verdict'] <= at("Critical")
        /\ at("Normal") \in Int /\ at("Critical") \in Int /\ Strictness[verdict'] \in Int
    BY <2>1, <2>3, DecisionTightens
  <2>5. ASSUME manualOverride = NoLevel, now - lastSignalAt < Cooldown, Len(events) < MaxEvents
        PROVE  Strictness[verdict'] >= at(LevelForDenials(RecentDenials))
    <3> DEFINE l == LevelForDenials(RecentDenials)
    <3>1. l \in Levels
      BY DEF LevelForDenials, Levels
    <3>2. Rank[l] <= Rank[LevelFor(events)]
      BY <1>1, <2>2, <2>5, DenialsCounted
    <3>3. d = LevelFor(events) /\ Rank[LevelFor(events)] <= Rank[c] /\ LevelFor(events) \in Levels
      BY <2>1, <2>5, LevelForType
    <3> HIDE DEF l
    <3>4. \A k \in Levels : Rank[k] \in Int
      BY DEF Rank, Levels
    <3>5. Rank[l] <= Rank[d] /\ Rank[l] <= Rank[c]
      BY <2>1, <3>1, <3>2, <3>3, <3>4
    <3>6. at(l) <= Strictness[verdict'] /\ at(l) \in Int /\ Strictness[verdict'] \in Int
      BY <2>1, <3>1, <3>5, DecisionTightens
    <3> HIDE DEF at
    <3>7. Strictness[verdict'] >= at(l)
      BY <3>6
    <3> QED
      BY <3>7 DEF l
  <2> HIDE DEF at
  <2> QED
    BY <2>4, <2>5
<1>2. Inv /\ LoopInv /\ [PolicyNext]_pvars =>
        [Decided =>
            LET rank(l) == Strictness[Decide(asked, l, l)]
            IN  /\ Strictness[verdict'] \in rank("Normal")..rank("Critical")
                /\ (/\ manualOverride = NoLevel /\ now - lastSignalAt < Cooldown
                    /\ Len(events) < MaxEvents)
                     => Strictness[verdict'] >= rank(LevelForDenials(RecentDenials))]_pvars
  BY <1>1
<1> QED
  BY <1>2, InvHolds, LoopTheorem, PTL DEF PolicySpec, DenialsTighten

=============================================================================

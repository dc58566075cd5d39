--------------------------- MODULE TrustTelemetry ---------------------------
(***************************************************************************)
(* The trust history of one (user, device, ip):                            *)
(* TrustTelemetryRepository.recordAllowOutcome                             *)
(* (src/trust-score/trust-telemetry.repository.ts) run in DbService.tx by  *)
(* concurrent requests, at Postgres' READ COMMITTED level.                 *)
(*                                                                         *)
(* SELECT ... FOR UPDATE locks a committed row until the transaction ends, *)
(* and locks nothing when there is none; INSERT ... ON CONFLICT waits for  *)
(* whoever holds the row or has an uncommitted one.                        *)
(***************************************************************************)
EXTENDS Integers, Sequences, FiniteSets

CONSTANTS Txs,       \* transactions, one per successful ALLOW
          Times,     \* instants the requests may come at
          PerHour,   \* instants in an hour
          PerMinute, \* instants in a minute
          Prints     \* fingerprints, "null" for a request without one

(* What a configuration must satisfy; rates stay integers when every gap   *)
(* between two instants divides a minute                                   *)
TelemetryAssumption ==
    /\ IsFiniteSet(Txs) /\ "free" \notin Txs
    /\ Times \subseteq Nat /\ PerHour \in Nat \ {0} /\ PerMinute \in Nat
    /\ \A a, b \in Times : a > b => PerMinute % (a - b) = 0

HourOf(ts) == ts \div PerHour
Hours == {HourOf(ts) : ts \in Times}

(* Exact fractions stand for the columns of double precision *)
Frac(num, den) == [num |-> num, den |-> den]
Plus(a, b) == Frac(a.num * b.den + b.num * a.den, a.den * b.den)
Less(a, b) == Plus(a, Frac(-b.num, b.den))
Product(a, b) == Frac(a.num * b.num, a.den * b.den)
Over(a, n) == Frac(a.num, a.den * n)
Zero == Frac(0, 1)

NoRow == [count |-> 0, hist |-> [h \in Hours |-> 0], obs |-> 0, mean |-> Zero, var |-> Zero,
          firstSeen |-> 0, lastSeen |-> 0, ja4h |-> "null",
          hours |-> << >>, sum |-> 0, squares |-> 0]
Free == "free"

VARIABLES row,       \* the committed trust_signals row, count 0 when there is none, and
                     \* as a history the hours and rates of the ALLOWs it has been through:
                     \* the hours, the sum of the rates and the sum of their squares
          holder,    \* the transaction that holds the row
          activity,  \* transactions whose trust_activity row is committed
          tx         \* the transactions: program counter, time, fingerprint, the row to be written

vars == <<row, holder, activity, tx>>

Init ==
    /\ row = NoRow
    /\ holder = Free
    /\ activity = {}
    /\ tx = [t \in Txs |-> [pc |-> "new", ts |-> 0, print |-> "null", next |-> NoRow, first |-> FALSE]]

(* BEGIN and the insert into trust_activity *)
Begin(t, ts, print) ==
    /\ tx[t].pc = "new"
    /\ tx' = [tx EXCEPT ![t].pc = "select", ![t].ts = ts, ![t].print = print]
    /\ UNCHANGED <<row, holder, activity>>

FaultyVariance(r, n, rate, mean) ==
    IF n = 1 THEN Zero
    ELSE Over(Plus(Product(Frac(n - 1, 1), r.var), Product(Less(rate, r.mean), Less(rate, mean))), n - 1)

(* Welford's update of the variance, for the n-th observation *)
Variance(r, n, rate, mean) ==
    IF n = 1 THEN Zero
    ELSE Over(Plus(Product(Frac(n - 2, 1), r.var), Product(Less(rate, r.mean), Less(rate, mean))), n - 1)

(* upsertSignalRow: the row this ALLOW leads to.  Two requests out of      *)
(* order count as one instant apart.                                       *)
Incremented(r, ts, print) ==
    LET gap == IF ts > r.lastSeen THEN ts - r.lastSeen ELSE 1
        rate == Frac(PerMinute \div gap, 1)
        n == r.obs + 1
        mean == Plus(r.mean, Over(Less(rate, r.mean), n))
        hist == [r.hist EXCEPT ![HourOf(ts)] = @ + 1]
        hours == Append(r.hours, HourOf(ts))
    IN  IF r.count = 0
        THEN [count |-> 1, hist |-> hist, obs |-> 1, mean |-> Zero, var |-> Zero,
              firstSeen |-> ts, lastSeen |-> ts, ja4h |-> print,
              hours |-> hours, sum |-> 0, squares |-> 0]
        ELSE [count |-> r.count + 1, hist |-> hist, obs |-> n, mean |-> mean,
              var |-> Variance(r, n, rate, mean),
              firstSeen |-> r.firstSeen, lastSeen |-> ts, ja4h |-> print,
              hours |-> hours, sum |-> r.sum + rate.num,
              squares |-> r.squares + rate.num * rate.num]

FaultySelectForUpdate(t) ==
    /\ tx[t].pc = "select"
    /\ tx' = [tx EXCEPT ![t].pc = "upsert", ![t].next = Incremented(row, tx[t].ts, tx[t].print),
                        ![t].first = row.count = 0]
    /\ UNCHANGED <<row, holder, activity>>

SelectForUpdate(t) ==
    /\ tx[t].pc = "select"
    /\ row.count > 0 => holder = Free
    /\ holder' = IF row.count > 0 THEN t ELSE holder
    /\ tx' = [tx EXCEPT ![t].pc = "upsert", ![t].next = Incremented(row, tx[t].ts, tx[t].print),
                        ![t].first = row.count = 0]
    /\ UNCHANGED <<row, activity>>

(* ON CONFLICT DO UPDATE: LEAST, COALESCE, and EXCLUDED for the rest *)
Merged(old, new) ==
    IF old.count = 0 THEN new
    ELSE [new EXCEPT !.firstSeen = IF old.firstSeen < @ THEN old.firstSeen ELSE @,
                     !.ja4h = IF @ = "null" THEN old.ja4h ELSE @]

Upsert(t) ==
    /\ tx[t].pc = "upsert" /\ holder \in {t, Free}
    /\ holder' = t
    /\ tx' = [tx EXCEPT ![t].pc = "commit", ![t].next = Merged(row, @)]
    /\ UNCHANGED <<row, activity>>

(* COMMIT publishes both tables at once *)
Commit(t) ==
    /\ tx[t].pc = "commit"
    /\ row' = tx[t].next
    /\ holder' = Free
    /\ activity' = activity \cup {t}
    /\ tx' = [tx EXCEPT ![t].pc = "done"]

FaultyRollbackCompensates(t) ==
    /\ tx[t].pc \in {"select", "upsert", "commit"}
    /\ row' = [row EXCEPT !.count = @ - 1]
    /\ holder' = IF holder = t THEN Free ELSE holder
    /\ tx' = [tx EXCEPT ![t].pc = "failed"]
    /\ UNCHANGED activity

(* A statement fails: ROLLBACK takes both tables back *)
Rollback(t) ==
    /\ tx[t].pc \in {"select", "upsert", "commit"}
    /\ holder' = IF holder = t THEN Free ELSE holder
    /\ tx' = [tx EXCEPT ![t].pc = "failed"]
    /\ UNCHANGED <<row, activity>>

Step(t) == SelectForUpdate(t) \/ Upsert(t) \/ Commit(t) \/ Rollback(t)

Next ==
    \/ \E t \in Txs, ts \in Times, p \in Prints : Begin(t, ts, p)
    \/ \E t \in Txs : Step(t)

Spec == Init /\ [][Next]_vars

-----------------------------------------------------------------------------
(* Properties *)

IsRow(r) ==
    /\ r.count \in Nat /\ r.obs = r.count
    /\ r.hist \in [Hours -> Nat]
    /\ r.hours \in Seq(Hours) /\ Len(r.hours) = r.count
    /\ \A h \in Hours : r.hist[h] = Cardinality({i \in DOMAIN r.hours : r.hours[i] = h})

(* Types of the row and the transactions; every ALLOW the row counts is an *)
(* observation, and the histogram counts each one under its hour.          *)
TypeOK ==
    /\ IsRow(row)
    /\ holder \in Txs \cup {Free}
    /\ activity \in SUBSET Txs
    /\ \A t \in Txs : /\ tx[t].pc \in {"new", "select", "upsert", "commit", "done", "failed"}
                      /\ IsRow(tx[t].next)

(* Read-modify-write: once a transaction's SELECT ... FOR UPDATE has found *)
(* the row, no other transaction commits to it first, so its own commit    *)
(* adds exactly one to the count that is there.                            *)
LockedUpdatesCount ==
    [][\A t \in Txs :
          activity' = activity \cup {t} /\ t \notin activity
          /\ ~tx[t].first
          => row'.count = row.count + 1]_vars

(* The anomaly signal's baseline: whatever order requests are recorded in, *)
(* concurrently or late, mean and variance in the row are the mean and the *)
(* sample variance of the rates the row has been through, each ALLOW       *)
(* counted once, with a rate of 0 for the first.                           *)
RateStatisticsExact ==
    LET n == row.obs
    IN  /\ n = Len(row.hours)
        /\ row.count > 0 => row.mean.num * n = row.sum * row.mean.den
        /\ row.count > 1 =>
             row.var.num * n * (n - 1) = (n * row.squares - row.sum * row.sum) * row.var.den

(* trust-telemetry.repository.ts:69: allow_count is the "ALLOW count for   *)
(* the (user, device, ip) tuple".                                          *)
AllowCountExact ==
    (\A t \in Txs : tx[t].pc \in {"new", "done", "failed"}) => row.count = Cardinality(activity)

=============================================================================

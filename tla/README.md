# Verification of the zero-trust access gateway

TLA+ models of the gateway under `src/`, the TLC runs that check them and TLAPS
proofs of the safety properties those runs check. Paths below are relative to the repository root.

## 1. The system

Every request passes `GatewayMiddleware`, which hands it to a fixed list of
stages: public bypass, honeypot bypass, auth, revocation, auth-only shortcut,
trust score, proof of work, policy, MFA promotion, audit of the ALLOW, proxy,
response stripping, trust history. One Node.js process runs them; requests
interleave at every `await` (a database statement, an upstream call, a file
operation, a timer). Around the pipeline stand stores, some in memory (lost on a
restart), some in Postgres, one in a file.

| Component | State | Operations | Hard behaviour | What makes it correct | Module |
|---|---|---|---|---|---|
| Threat escalation | window of signals, level, override, gauge | six event handlers, two threshold reads, override, snapshot | eviction and cooldown happen only when somebody looks; two reads make one decision | level backed by signals, ladder recorded, comes down in the end | `ThreatEscalation` |
| Policy loop | the request being decided, its verdict | evaluate, deny signal | every DENY tightens the decisions after it | denials tighten, clean traffic recovers | `AdaptivePolicy` |
| Gateway pipeline and audit writer | each request's stage, context, audit write, retry loop; rows | one per stage, write attempts, sends, timers, crash | retries, lost acknowledgements, late writes and late sends, revocation mid-flight | audit before forward, fail closed, forwarded for cause, always answered | `GatewayPipeline`, `AuditedGateway`, `GatewayRefinement` |
| Metrics | counters of requests, promotions, audit failures | three places count failures | the write ends before or after the timer | no row is lost uncounted | `GatewayMetrics` |
| MFA enrollment | pending map, stored secrets | enroll, confirm, reset | awaits between check and insert, expiry, lost acknowledgements | bounded guesses, only proven secrets stored | `MfaEnrollment` |
| TOTP codes | secret as base32 text, clock | generate, verify | 32-bit shifts, clocks that differ, steps that end in between | one period off is accepted, two are not | `Totp` |
| MFA tokens | challenge, rows, issued tokens | verify, mint, validate, revoke | jti collision, revocation during validation, rounding of exp | accepted only where verified, never once revoked | `MfaToken` |
| MFA rate limit | challenge rows, advisory lock | one transaction | transactions commit in another order than they begin | limit in every window | `MfaRateLimit` |
| Proof of work | used nonce texts, bounded | issue, verify | eviction by capacity and by age, two readings of the clock, several texts for one challenge, restart | a text is used once short of a flood | `Hashcash` |
| Trust telemetry | history row, activity rows | one transaction | no row to lock the first time; requests out of order | locked updates all count, statistics exact | `TrustTelemetry` |
| Trust score | signal deltas | five reads, decay | each read may fail, reads disagree | faults and decay go the safe way | `TrustScore` |
| Fingerprint deny list | list with TTL | trap, arrival, scoring | client caught while inside | caught stays out | `FingerprintBlacklist` |
| Token revocation | blacklist with caller-given expiry | revoke, use | overwrite, eviction on read | a revocation binds until its expiry | `TokenRevocation` |
| Policy rules | rules in memory and in the file, mutex | add, remove | save fails, process dies in between | a reported change is durable | `PolicyStore` |
| Upstream proxy | breaker, retry loops | forward, retry, back off | the breaker's timer races the loop | one failure per request | `UpstreamProxy` |
| Authentication, path tables, guards | claims and brand of a request | two stages, two guards | tables, decorators and guards live in different files; the token names its own algorithm | a handler needs a good token and the role demanded | `AccessControl` |
| Response stripping | field policy | load, strip | recursion, order of patterns and roles | exactly what is granted, at any depth | `Bopla` |
| Configuration, startup | environment, database tables, hooks done | create, migrate, hooks, listen | partial migrations, hooks in any order, restarts | an open port means everything is ready | `GatewayConfig`, `Startup` |
| Service registry, destination guard | registry, breakers, requests waiting for a lookup | find service, look up, check | the path is read twice, before and after the URL parser; answers change while a request waits | host checked on its own lookup, registered unless the path names another | `ServiceRouting` |
| mTLS agent | cached agent and mtimes, shared load, monitor | load, ask, poll | files replaced while being read, two loads at once | complete agent, rotations noticed | `CertRotation` |

Interaction: the pipeline calls the other components in stage order and its
threat signals (denials, bad tokens, rate-limited MFA, exhausted audit) feed the
threat service, whose thresholds the policy stage reads. In `GatewayPipeline` the
verdicts of those components are choices: any level's thresholds, any score, a
valid or an invalid proof, so its results hold whatever they do. Each of them is
then modelled by itself.

Not modelled: cryptography (signatures are not forged, hashes and HMACs are one-to-one, so
two counters never share a six-digit code); log formatting, histograms of durations and
the health endpoint (output only); the demo console beyond the token it mints; the third-party middleware set up in
`main.ts` (helmet, CORS, the global rate limit, the validation pipe); the downstream demo services and scripts. `MfaController` and the other controllers
only translate results into status codes; the calls they make are the actions of the services.

## 2. Modules

State and actions carry the code's names; `PROJECT.json` maps every definition to
its lines. Conventions shared by all modules:

- A handler's code up to its next `await` is one action. A database statement is a
  step of its own that may succeed, fail, or take effect and lose its answer.
- Time is a counter moved by `Tick`. Lazy eviction is part of the read that does it.
- `Crash`/`Restart` empties what is in memory and keeps what is stored.
- Variables marked *history* only record; no guard reads them.
- A definition `Faulty...` before another is a plausible mistake in that code. No
  specification uses it; replacing the original by it must break a property.

`ThreatEscalation`: a signal appends, caps, evicts and recomputes in one step, as
`record()` does. A reader of thresholds (`evaluate`, `snapshot`) takes two steps,
because each `currentXThreshold` reads the clock and may cool the level down; no
other handler runs in between, but time may pass. `hops` records the transitions
one call counted. `AdaptivePolicy` composes it with `PolicyEvaluatorService.evaluate`: `Ask` reads the first threshold,
`Decided` the second and maps the score, `EmitDeny` is the signal a DENY sends before `evaluate`
returns. An enforcer error denies without reading a threshold, and signals too.

`GatewayPipeline`: `stage[r]` is where request `r` is; `write[r]` is its audit
write, which outlives the answer when the timer was first. `NextStage` is the
factory's list. The policy stage reads two thresholds: the second read may find a lower level than the first, never a higher
one (`MayCool`, which is what `ThresholdsTheorem` shows of the service). `barred` remembers that the token was on the blacklist on arrival.
`Fire` starts `executeWithRetry`, which is then a part of its own: `loops` holds the requests whose loop runs, `Attempt` puts one on the wire (`forwarded`),
`ProxyAnswered` and `ProxyThrew` end loop and stage together, and `BreakerTimer` answers the client and leaves the loop to send again until `LoopEnds`. The breaker's
state and the number of attempts are `UpstreamProxy`'s. `RecordTrustContext` is the transaction of the trust history: it commits, is rolled back, or commits with its answer lost;
`Proxied` is the outcome the stage makes of it, and a crash may fall between the two.
`AuditedGateway` is what the gateway promises, without stages, retries or timers: record, begin a delivery, send, deliver or give up,
learn, serve, refuse, refuse unaudited with an alarm, leave to a handler, die. After an answer it allows a late record and the sends of a delivery already under way, and nothing else; a
success is served only once it is learned, while what is learned may still be refused or lost. `GatewayRefinement` maps the pipeline's state onto
it. `GatewayMetrics` puts the counters beside every step of the pipeline; a step that counts names the counter,
the others say they touch none.

`MfaEnrollment`, `MfaToken`: calls are slots with a program counter, one value per
await. `MfaRateLimit`, `TrustTelemetry`: transactions at READ COMMITTED; a statement sees
what was committed when it starts; locks go at the end of the transaction.
The rate statistics of `TrustTelemetry` are exact fractions where the column is a double; `hours`, `sum` and `squares` in the row are a history:
the hour of every ALLOW that is in the row, and the sum and the sum of squares of the rates it was updated with. As in the code, a row's first ALLOW counts as a rate of 0, a request that is not later than the last counts as one instant
after it, and `last_seen_at` may go back.

`Hashcash`: a challenge is its signed payload; what comes back is a text, and all texts that decode to the payload and its MAC pass the HMAC. Of the ways in which base64url is
read leniently one is kept, padding at the end of the nonce, with a solution that may begin with padding, since the digest joins the two. The service and the store
each read the clock. `issueChallenge` after a refusal is part of `Refuse`, as in the stage.

`Totp`: buffers are bit sequences of at most 32, so what JavaScript's shifts drop is dropped; the two loops are recursive functions of the position,
one `DecodeStep` or `EncodeStep` per character or byte. The authenticator decodes the same
text by the definition of base32 and its clock is off by a constant.

`GatewayConfig` is the Joi schema: which keys are required, bounds, defaults, cross-field checks. `Startup` runs it,
then the migrations on tables that survive the process, then the hooks in any order. The schema does not compare a
level's challenge threshold with its deny threshold; `Tightens` holds all the same, because a score at or above the deny
threshold is denied first. `ServiceRouting` extends it. A path is the sequence of its segments, empty and dot
segments included. The service is its first segment; the host comes from what the URL parser leaves of the path (`Pathname`), `StripPrefix` and the parser again, which reads a path
that begins with two slashes as a host and its path (`TargetHost`). The module `MCUpstream` compares `Pathname` with a parser's stack on all paths of up to four segments. A request waits for its lookup while `DnsChanges`
moves the answers and the process may die. The guard checks its own lookup; the HTTP client resolves the name once more when it connects, which is outside
this code.

`UpstreamProxy`: the opossum breaker is external and modelled from the options the code
passes. It is built without `timeout`, so the library's default applies and may fire
while the loop runs. `CertRotation`: a version of a file stands for its content and
its mtime; every read and stat is a step; requests share one load, the monitor has its own.

`AccessControl`: endpoints declared alike share a name. Tables compare the path as sent while Express
matches handlers in any case, so a request says whether it uses the listed spelling. The
token's algorithm, signer, kind, roles claim and flaw are inputs. With the tables as they are `JwtAuthGuard`
never authenticates by itself, since every route that has it is branded by the pipeline first: it is the second
line, and the mutant that moves `/mfa` to the public table shows what it does not cover, the revocation check.
`Bopla`: a role of the caller is looked up in the order of the token, as the loop does. A body is a tagged JSON value and the bodies are given level by level of nesting (`Json`), so that the walk over them is a
recursive function; a glob is the set of paths it matches. The reference definition
compares the leaves of body and answer by the keys and positions that lead to them.

`MCxxx` modules give constants for TLC. `Upstream`, `MCTrust` and `MCStores` compose
components that share no variable: `part` says which of them moves
and the others stay at their initial state. No property relates two of
them, so each sees exactly the behaviours of its own component; a product of the
state spaces would only repeat them.

## 3. Runs

| Run | Instance | Shows |
|---|---|---|
| `threat` | 3 signal types, window 2, 3 events, cooldown 2, clock to 5, nothing but clean requests after 2; scores below and between the thresholds, with and without a rule, and enforcer errors | `GaugeTruthful`, `LevelBacked`, `EscalationHolds`, `ServedThresholdsOrdered`, `LadderRecorded`, `CoolsDown`, `DenialsTighten` |
| `gateway` | 2 requests of 7 kinds, 4 scores, 2 levels, 2 attempts, 1 crash | `AuditBeforeForward`, `ForwardedForCause`, `RevokedNeverServed`, `LostRowsAreCounted`, `AuditTrailCoherent`, `ImplementsAuditedGateway` |
| `gateway_answers` | 1 request, 3 attempts, fairness | `EveryRequestAnswered` |
| `mfa_enrollment` | 2 users, 2 calls, 3 enrollments, 2 attempts, 1 crash | `GuessingBounded`, `StoredSecretProven` |
| `mfa_token` | 2 users, 2 jtis (so they collide), 2 calls | `AcceptedIsGenuine` |
| `upstream` | 3 requests, 1 retry; 2 files rotated once each, 2 requests; bodies of two levels over 2 keys, 3 policies, 6 callers; environments with sound and unsound keys, thresholds and registries, restarts without bound, 2 requests on the way to a breaker, 9 paths with empty and dot segments among them | `OneFailurePerFire`, `ListeningMeansReady`, `RoutedAsRegistered`, `AgentsDelivered`, `ServedIsGranted`, `EveryRotationNoticed` |
| `trust` | 3 transactions at 3 instants; all histories up to 2 allows; 2 clients, TTL 2; 7 kinds of route, 378 tokens, 9 key and claim settings; 9 secrets of constant, rising and falling bytes, clocks up to two periods off either way | `RateStatisticsExact`, `LockedUpdatesCount`, `OutageAndDecayFailClosed`, `CaughtStaysOut`, `HandlersNeedAuthority`, `AuthenticatorAgrees` |
| `stores` | 3 callers and 2 tokens; 3 challenges in 2 spellings, capacity 1, 3 solutions; 2 administrators, 3 calls; 4 transactions, limit 2 | `RevocationHolds`, `ReplayNeedsFlood`, `FileFollowsEnforcer`, `RateLimitHolds` |

Some properties conjoin parts that are stated, and explained, by themselves in their module
(`GuessingBounded`, `AcceptedIsGenuine`, `AgentsDelivered`, `OutageAndDecayFailClosed`, `FileFollowsEnforcer`).
Each passing run also checks the module's `TypeOK`, which holds the numeric bounds
(attempts, capacity, retries, scores within [0, 1]).

Why the bounds are enough. *Threat*: three events overflow the cap, the window is
shorter than the clock so events leave by age, and after the last signal there is time
for both rungs; one instant holds as many decisions as one likes, so a burst of denials crosses both thresholds. *Startup*:
each environment is unsound in one respect; a failure is possible after every migration and hook. *Gateway*: requests interact only through the blacklist and a crash, so
two show every pair; two attempts distinguish a retry from exhaustion, and a second send is the same step as the first. *MFA*: two
handlers overlap at every pair of awaits. A fingerprint is compared as a whole, so two
users in one place suffice. *Stores*: one more transaction than the limit plus one
rolled back; one solution more than the capacity, twice, and a clock that reaches the expiry. *Certificates*: two files
rotated one after the other make a torn pair, and the second rotation may fall into the load the first one caused. *Bodies*: two levels put a key, allowed or not, below an object and below an array;
the proof takes any depth. *Tokens*: one flaw at a time, since every check alone refuses. For the safety
properties what the bounds leave open is closed by the proofs.

Symmetry is used over requests, users, calls, transactions, clients and jtis, which
nothing orders, and never with a liveness property. `CHECK_DEADLOCK FALSE` is set where the instance ends:
all requests answered, or the clock at its bound.

Fairness. *Gateway*: the event loop runs ready continuations and the database answers
each statement with success or failure (`pg` reports a lost connection); the timer
need not fire and clients need not arrive. `fire()` settles, with its loop or by the breaker's timer; a loop left behind owes nobody anything. *Threat*: time passes, requests keep being
evaluated (cooldown is driven by reads), and a synchronous reader finishes. The quiet period in which `CoolsDown` promises Normal is a bound of the instance
(`QuietAfter`): after it no other signal comes and the requests are ones no level denies, since
requests that are denied keep feeding the window by design. It begins between two evaluations.
*Certificates*: the monitor's interval timer keeps firing, its file operations end, a
missing file is eventually there again and a stopped process is restarted; nothing is assumed of the requests.

### Disagreements shown by a run

| Run | Documentation | Code |
|---|---|---|
| `cooldown_doc` | "Cooldown (ms) before threat level can de-escalate" (`src/config/slices/policy.config.ts:46`) | `recomputeLevel` lowers the level at once on any signal once the burst has left the window |
| `stale_agent_doc` | "no restart required on cert rotation" (`src/shared/mtls.service.ts:17`) | `loadCertificates` reads, then stats: the old content may be cached under the new mtimes, for good |
| `hashcash_replay_doc` | "single-use replay defense" (`README.md:22`) | the store marks the text of the nonce, the HMAC is over the bytes it decodes to and the digest over nonce and solution joined: the same work is accepted under another spelling |
| `registry_doc` | "A target absent from the registry is never contacted." (`CONTEXT.md:116`) | the host is taken from `new URL(stripPrefix(path), baseUrl)` (`src/proxy/proxy.service.ts:97-101`): after an empty segment the path names it |

### Disagreements stated but not run

These definitions state what a document says; listing one as an invariant or property
of its component's configuration reproduces the counterexample.

- `ReportedLevelIsCurrent` (README.md:167): `snapshot` takes the level before the threshold reads that cool it down.
- `CompletedRequestStaysServed` (docs/THESIS_PIPELINE.md:516): a failing trust-history write turns a served request into a 500 (`record-trust-context.stage.ts:30`).
- `FailuresAreLostRows` (`src/metrics/metrics.service.ts:117`): `audit_failures_total` also counts a write that was only slow, and counts twice a write that timed out and then failed.
- `AuthOnlyAuditNeverThrows` (`src/gateway/pipeline/record-with-timeout.util.ts:11`, "never throws and never blocks the caller"): the auth-only stage audits with decision `allow`, which retries and throws; the client gets 503.
- `FailureOnlyAfterRetries` (`src/proxy/proxy.service.ts:140`, "the breaker records ONE failure only after all retries are exhausted"): no `timeout` is set, so the breaker's default gives up while the loop still runs.
- `HighestPrivilegeWins` (`src/proxy/bopla.interceptor.ts:62-63,68`, `docs/HARDENING_ARCHITECTURE.md:344`, "Highest-privilege matching role wins"): the first role in the order of the token that the pattern maps wins; roles user and auditor, in this order, get user's fields although the pattern gives auditor `*`. An instance of the `upstream` run.
- `OnePendingPerUser` (`mfa-enroller.service.ts:78`): overlapping enrollments of one user are all accepted.
- `IssuedTokenHasItsRow` (`mfa-challenger.service.ts:211`): after a jti collision the row is stored under a new UUID, the token keeps the old one and is useless.
- `ExhaustionAnswers502` (docs/THESIS_PIPELINE.md:488): exhausted retries answer 500.
- `AnsweredChangeSurvives` (README.md:171): after a failed save the same request answers `added: false` and saves nothing.
- `TerminalNeverRecovers` (CONTEXT.md:86): decoy entries expire with their TTL.
- `RejectedUntilOwnExpiry` (CONTEXT.md:76): the entry's expiry is the caller's `exp`, not the token's.
- `FaultsNeverLower` (README.md:21): a fault counts +0.1, less than the delta it may replace.
- `AllowCountExact` (`trust-telemetry.repository.ts:69`): the first ALLOWs of a tuple lock nothing and overwrite each other.

By design, and so not findings: a restart forgets revocations, pending enrollments, used
nonces and the deny list.

## 4. Proofs

Eight modules of theorems are checked by TLAPS for every value of the constants within the named assumptions. Every invariant
the passing runs check is stated by a theorem, and so are the refinement and the action properties
`LadderRecorded`, `DenialsTighten`, `LockedUpdatesCount` and `CaughtStaysOut`. `InvHolds` of each module is the inductive invariant, `TypeCorrect` its types; the others follow from them.
Each proof has a lemma for the initial states, one per action, and lemmas about the operators the actions use.

| Module | Theorems and the property they state |
|---|---|
| `ThreatEscalationProofs` | `GaugeTheorem` (`GaugeTruthful`), `LevelTheorem` (`LevelBacked`), `EscalationTheorem` (`EscalationHolds`), `ThresholdsTheorem` (`ServedThresholdsOrdered`), `LadderTheorem` (`LadderRecorded`), `LoopTheorem`, `TightenTheorem` (`DenialsTighten`), `WindowTheorem`, action property `OverrideTheorem` |
| `GatewayPipelineProofs` | `AuditTheorem` (`AuditBeforeForward`, `ExhaustionFailsClosed`), `CauseTheorem` (`ForwardedForCause`), `RevokedTheorem` (`RevokedNeverServed`), `TrailTheorem` (`AuditTrailCoherent`), `TrustTheorem` (`TrustOnlyAfterAllow`), action property `FinalTheorem` |
| `GatewayRefinementProofs` | `RefinementTheorem` (`ImplementsAuditedGateway`), `MeteredIsPipeline`, `MeterTheorem` (`LostRowsAreCounted`) |
| `MfaEnrollmentProofs` | `GuessingTheorem` (`GuessingBounded`), `ProvenTheorem` (`StoredSecretProven`) |
| `MfaTokenProofs` | `GenuineTheorem` (`AcceptedIsGenuine`) |
| `StoresProofs` | `RevocationTheorem` (`RevocationHolds`), `ReplayTheorem` (`ReplayNeedsFlood`), `PersistenceTheorem` (`FileFollowsEnforcer`), `RateLimitTheorem` (`RateLimitHolds`) |
| `TrustProofs` | `RateTheorem` (`RateStatisticsExact`), `LockTheorem` (`LockedUpdatesCount`), `FailClosedTheorem` (`OutageAndDecayFailClosed`), `CaughtTheorem` (`CaughtStaysOut`), `AuthorityTheorem` (`HandlersNeedAuthority`), `Base32Carries`, `CodesTheorem` (`AuthenticatorAgrees`) |
| `UpstreamProofs` | `ReadyTheorem` (`ListeningMeansReady`), `RoutedTheorem` (`RoutedAsRegistered`), `FailureTheorem` (`OneFailurePerFire`), `AgentTheorem` (`AgentsDelivered`), `GrantTheorem` (`ServedIsGranted`) |

**Threat.** `Inv` conjoins the types, `WindowSound`, `gauge = level`,
`OverrideInForce` (an override has dragged the level along, without which clearing
it says nothing about the gauge), `LevelBacked`, `EscalationHolds` and `MidRead` (between
the two threshold reads the level is not above the one whose challenge threshold was read,
without which `ServedThresholdsOrdered` is not inductive). Lemmas say what the operators
on the window do (`HardCap` and `Evict` drop a prefix of an ordered sequence) and that the cooldown
never raises a level. The theorems hold of `Spec` and of `PolicySpec`: `ServiceStep` has the actions of the service whoever raises the
signals, and both specifications step by it (`AloneServes`, `LoopServes`). `Traced` follows the hops of an automaton through the calls of one handler.

**Policy loop.** `LoopInv` says that of the denials since any instant `T` of the window all are signals in the window, but for one a decision still owes,
unless the hard cap may have dropped some: the window is full and its oldest signal is not older than `T`. For `T` at the start of the window this is what
`DenialsTighten` needs; it takes every `T`, because a window that was full can fall below the cap again by eviction, and then what the cap had dropped is
older than what was evicted. With `EscalationHolds` the level is at least the one the denials call for, and `DecisionTightens` carries that to the verdict.

**Gateway.** `Inv` is `TypeOK` and, for each request, seven parts: `WriteInv` (a write belongs to
its stage or to a request the timer answered; only ALLOW writes throw), `AuditInv` (the row is there
before the proxy is entered, where the loop starts; later stages work on a request that was sent and whose loop is over), `TrailInv` (each attempt leaves at most one row), `AnswerInv` (only the breaker's timer leaves a loop behind),
`CauseInv` (what each stage established), `BarredInv` and `TrustInv` (a transaction that reports success has stored its row). A frame lemma shows
that a step of one request leaves what holds of the others alone, so each action is
examined for the acting request only.

**Refinement.** The mapping takes requests with an ALLOW row to `recorded`, answers to outcomes, the threat signal to the alarm. Most
actions change nothing of that (`Unseen`) or only one outcome; the rest are matched one by one to a step of `AuditedGateway`. `AuditInv` gives the guard of
`Begin`, `TrustInv` those of `Learn` and `Serve`, `AnswerInv` that an outcome was open; a send behind an answer is a `Send` of a delivery begun before it. `MeteredIsPipeline` projects the counters away, so all theorems
about the pipeline hold under `MeteredSpec`, which the run checks. `MeterInv` adds what a counter owes to a request: a timer that fired was counted,
a write that is over left a row or a count.

**MFA.** Enrollment: the attempts of a pending entry are the guesses made against it (`Ledger`), a handler about to store carries a
secret of its user already proven, and a user's pending entries and the enrollments still under way together never outnumber the handlers
(`ConcurrencyBound`), which is what makes the bound on pending secrets inductive although the check and the insert are an await apart. Tokens:
every row belongs to a verified holder, also the row of the retry after a collision, and a handler that presents a revoked
token finds a row that still says so (`CallSound`).

**Stores.** Revocation: while the binding revocation of a token is active the blacklist holds that very entry. Nonces: of the last `Capacity` accepted
solutions each is still in the store under its text, behind at most as many others as came after it, unless it has lapsed (`Kept`); a text is accepted while the store holds it only if the store's own clock has reached its
expiry, and then the service, which reads its clock first, refuses it ever after. Policy: one call is inside the mutex, what it writes is what the enforcer holds, and an answer of
success means the file equals it. Rate limit: the lock is held from the count to the commit, and the row about to be committed still fits
(`UnderLimit`); the window that a new row could overfill is the one that ends at it, or starts later and then holds no more.

**Trust.** `RateStatisticsExact` is inductive because Welford's update keeps mean and variance equal to the moments of the rates seen, an identity
of fractions proved by a chain of lemmas on integers. `Locked`: who found the row holds it until its commit, so nobody else has moved the count.
For the score, lemmas bound the sum of the five signals and the correction; faults weigh a constant. The deny list keeps the decoy's entry while the client is caught.
Access: what each stage and guard has established of the request. Codes: times at most a period apart lie in steps at most one apart, times two periods apart in
steps at least two apart (`StepsApart`).

**base32.** `Base32Carries` is about all secrets of 20 bytes. After each character or byte the word holds the last 32 bits read, or all of them
if there are fewer, and the output is the bits read so far, cut into pieces of the output's width (`DecodeGoesOn`, `EncodeGoesOn`). That this closed form is what the loop
returns (`DecodeIs`, `EncodeIs`) follows from `SameRun`: two functions that start alike and step alike are equal, because there is no least position at which they
differ. At most four bits wait between two steps of the encoder and seven of the decoder, so the 12 a step needs
are never among those the shift drops. Cutting 160 bits into fives and joining them again loses nothing (`FiveBits`, `EightBits`), and `base32Decode` cuts
the joined bits as the authenticator does (`DecodesAsAuthenticator`).

**Upstream.** Proxy: a loop counts what it sends, and the failures the breaker counts are at most the requests already answered with an error.
Agent: a cache holds a version of every file, a load holds one of each file it has read, and waiters have a load. Startup: `BootOK` says what
is done up to each phase. `AcceptedTightens` shows that an environment the schema accepts gives thresholds that tighten
from level to level, by the schema's bounds and cross-field checks and for every value, where the run tries some. Routing (`CallOK`): a request past its lookup
has a registered name, the host of that name or one that stands in its path with an empty segment, and has seen an allowed answer. Lemmas on the path (`PathnameShape`, `TargetNamed`) say that what the parser leaves and `StripPrefix` keeps is made of
segments of the path, and that another host needs an empty one. A dot segment at the end also ends the path in a slash, but that is at its end, where no host follows.

**Stripping.** `GrantTheorem` is by induction over the depth of nesting. The library's induction schemas take an operator, so `LevelInduction` states the
principle for a set of levels, from the least-element principle of the natural numbers (`LeastNatural`). First the recursive functions are shown to satisfy their
equations (`FactsDefined`, `WalkDefined`): what they say of a value depends only on values one level down. Then `WalkGrants`: the walk keeps, of what the
reference definition sees in a body (each scalar or opaque leaf with the keys and positions that lead to it), exactly what lies within allowed keys. The lookup of
`findAllowedFields`, first matching pattern and first mapped role, is shown equal to the reference's least indices (`FoundFields`, `GrantedFields`).

Assumptions. `ConfigAssumption` is what the Joi schema enforces of the threat parameters, `PipelineAssumption` the types of the parameters and retries
within 1..10. The others say that bounds, windows and lifetimes are natural numbers (positive where the code needs it) and that sets of
requests, callers, users, tokens or files are finite. Besides: the strings that stand for "nobody" (`"none"`, `"free"`) are no user, administrator or transaction;
`TelemetryAssumption` chooses the unit of rates so that each of them is a whole number, which a finite set of instants always allows and which
scales mean and variance alike on both sides; `TotpAssumption` says that a secret is 20 bytes, as `randomBytes(20)` returns, and that the authenticator's clock is
not before the epoch; `BoplaAssumption` that policies and roles are lists, that patterns match paths, and that each level of JSON values is built over
the one before, from scalars and opaque objects; `RoutingAssumption` that the numbers of an environment are integers, as Joi has converted them, and that a path has a segment.

On the instance `TrustOnlyAfterAllow` and `ExhaustionFailsClosed` are part of
`ImplementsAuditedGateway`; `WindowSound`, `OverrideSticky` and `AnswerIsFinal` are stated by theorems only.

Only model-checked: liveness (`CoolsDown`, `EveryRequestAnswered`, `EveryRotationNoticed`), because the prover handles neither fairness nor ENABLED.

Proving `RoutedAsRegistered` found an ambiguity in the model, not in the code: `UNION S \ T` without parentheses is read
differently by SANY and by TLAPS. `Hosts` now has them.

## 5. Plan

Done, in this order: threat escalation, gateway pipeline, their proofs, MFA, the stores, trust, upstream,
authentication and response stripping; then the abstract gateway and its refinement, the policy loop, metrics, configuration,
startup and routing, the rate statistics and TOTP; then the proofs of all of these in the order of the table above, the response stripping and base32 last.

What could follow:
1. action properties of the stores: a revoked row stays revoked, a limited secret stays dropped, a rule file changes only inside the mutex;
2. abstract specifications of the stores (a set of used nonces, a set of rules) and their refinement.

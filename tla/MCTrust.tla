------------------------------- MODULE MCTrust -------------------------------
(***************************************************************************)
(* What the gateway knows of a client, for TLC: who it is by its token and *)
(* what that opens, the codes of its second factor, the trust history that *)
(* ALLOW outcomes are recorded in, the score computed from it, and the     *)
(* deny list of fingerprints.  They share no variable, so a step of one is *)
(* a stutter of the others and each property speaks of one of them: a      *)
(* behaviour here moves the component `part' names and keeps the others    *)
(* where they start.                                                       *)
(***************************************************************************)
EXTENDS Integers, FiniteSets, TLC

CONSTANTS Requests, Times, PerHour, PerMinute, Prints,
          KnownThreshold, FrequencyNormalMax, AnomalyWarmupN, Anomalies, DecayFactors, MaxAllows,
          Fingerprints, Ttl, MaxNow,
          Secrets, Period, Skews, Start, MaxClock

VARIABLES part,
          row, holder, activity, tx,
          profile, ipAllows, recent, delta, would, faulted, todo, score,
          now, list, gauge, req, lastTrap,
          config, call, revoked, user, brand, pc,
          text, clock, shown, verdict

(* one transaction for each request that ended in an ALLOW *)
Telemetry == INSTANCE TrustTelemetry WITH Txs <- Requests
Score == INSTANCE TrustScore WITH row <- profile
Blacklist == INSTANCE FingerprintBlacklist
Access == INSTANCE AccessControl WITH req <- call

Codes == INSTANCE Totp

(* For an instance: clocks up to two periods off, and secrets of constant, *)
(* rising and falling patterns of bits                                     *)
TwoPeriods == (-2 * Period)..(2 * Period)
RandomBytes == {[i \in 1..20 |-> (a * i + b) % 256] : a \in {0, 37, 251}, b \in {0, 129, 255}}

ASSUME TrustAssumption ==
    /\ Telemetry!TelemetryAssumption /\ Score!ScoreAssumption /\ Blacklist!BlacklistAssumption
    /\ Codes!TotpAssumption

telemetryVars == <<row, holder, activity, tx>>
scoreVars == <<profile, ipAllows, recent, delta, would, faulted, todo, score>>
blacklistVars == <<now, list, gauge, req, lastTrap>>
accessVars == <<config, call, revoked, user, brand, pc>>
codeVars == <<text, clock, shown, verdict>>

vars == <<part, telemetryVars, scoreVars, blacklistVars, accessVars, codeVars>>

(* The score has many initial histories and access control several         *)
(* configurations: one stands for them where the component does not move   *)
Init ==
    /\ part \in {"telemetry", "score", "blacklist", "access", "codes"}
    /\ Telemetry!Init
    /\ Score!Init
    /\ part # "score" => profile.allows = 0 /\ ipAllows = 0 /\ recent = 0
    /\ Blacklist!Init
    /\ Access!Init
    /\ Codes!Init
    /\ part # "access" => config = [asymmetricKey |-> "unset", checks |-> {}]

Next ==
    /\ UNCHANGED part
    /\ \/ /\ part = "telemetry" /\ Telemetry!Next
          /\ UNCHANGED <<scoreVars, blacklistVars, accessVars, codeVars>>
       \/ /\ part = "score" /\ Score!Next
          /\ UNCHANGED <<telemetryVars, blacklistVars, accessVars, codeVars>>
       \/ /\ part = "blacklist" /\ Blacklist!Next
          /\ UNCHANGED <<telemetryVars, scoreVars, accessVars, codeVars>>
       \/ /\ part = "access" /\ Access!Next
          /\ UNCHANGED <<telemetryVars, scoreVars, blacklistVars, codeVars>>
       \/ /\ part = "codes" /\ Codes!Next
          /\ UNCHANGED <<telemetryVars, scoreVars, blacklistVars, accessVars>>

Spec == Init /\ [][Next]_vars

Symmetric == Permutations(Fingerprints) \cup Permutations(Requests)

-----------------------------------------------------------------------------

(* Types of the components. *)
TypeOK == Telemetry!TypeOK /\ Score!TypeOK /\ Blacklist!TypeOK /\ Access!TypeOK /\ Codes!TypeOK

(* A transaction whose SELECT ... FOR UPDATE found the row adds exactly    *)
(* one to it when it commits (recordAllowOutcome).                         *)
LockedUpdatesCount == Telemetry!LockedUpdatesCount

(* The row's mean and variance are those of the rates it has been through, *)
(* whatever the order of the transactions (upsertSignalRow).               *)
RateStatisticsExact == Telemetry!RateStatisticsExact

(* With every read of the history failing the score is 1, and Trust Decay  *)
(* takes discounts back and nothing more (evaluateScore, attenuate).       *)
OutageAndDecayFailClosed == Score!OutageAndDecayFailClosed

(* A client caught by a decoy stays out for the TTL, its requests already  *)
(* inside included (Ja4hMiddleware, evaluateScore).                        *)
CaughtStaysOut == Blacklist!CaughtStaysOut

(* A handler that is not @Public, and the proxy, are reached only with a   *)
(* good access token and the role demanded (stages and guards together).   *)
HandlersNeedAuthority == Access!HandlersNeedAuthority

(* The authenticator gets the secret that was generated; a code is         *)
(* accepted within one period of its time and refused two periods off, for *)
(* every secret (totp.generateSecret, totp.verify).                        *)
AuthenticatorAgrees == Codes!AuthenticatorAgrees

=============================================================================

---------------------------- MODULE GatewayConfig ----------------------------
(***************************************************************************)
(* validationSchema (src/config/config.module.ts) and the slices it feeds: *)
(* which environments the gateway starts with.  An environment gives the   *)
(* set of required strings that are well formed (non-empty, long enough,   *)
(* right prefix, 32-byte key) and the numbers it overrides.  Thresholds    *)
(* between 0 and 1 are counted in tenths.                                  *)
(***************************************************************************)
EXTENDS Integers

Required == {"MTLS_CA_CERT_PATH", "MTLS_CLIENT_CERT_PATH", "MTLS_CLIENT_KEY_PATH",
             "MTLS_ALLOWED_SUBJECTS", "JWT_SECRET", "DATABASE_URL", "HASHCASH_HMAC_SECRET",
             "MFA_JWT_SECRET", "MFA_TOTP_ENCRYPTION_KEY", "PROXY_SERVICE_REGISTRY"}

(* .default(...) of the numbers the schema constrains; DB_POOL_MAX has     *)
(* none and DbService falls back to 25                                     *)
Defaults ==
    [DB_POOL_MAX |-> 25,
     POLICY_CHALLENGE_THRESHOLD |-> 5, POLICY_DENY_THRESHOLD |-> 8,
     POLICY_ELEVATED_CHALLENGE_THRESHOLD |-> 3, POLICY_ELEVATED_DENY_THRESHOLD |-> 6,
     POLICY_CRITICAL_CHALLENGE_THRESHOLD |-> 2, POLICY_CRITICAL_DENY_THRESHOLD |-> 4,
     THREAT_WINDOW_MS |-> 300000, THREAT_WINDOW_MAX_EVENTS |-> 10000,
     THREAT_ELEVATED_DENIES |-> 20, THREAT_CRITICAL_DENIES |-> 50,
     THREAT_ELEVATED_INVALID_TOKENS |-> 30, THREAT_CRITICAL_INVALID_TOKENS |-> 80,
     THREAT_ELEVATED_HONEYPOT |-> 5, THREAT_CRITICAL_HONEYPOT |-> 15,
     THREAT_ELEVATED_MFA_RATE_LIMITED |-> 5, THREAT_CRITICAL_MFA_RATE_LIMITED |-> 15,
     THREAT_COOLDOWN_MS |-> 600000,
     MFA_CHALLENGE_TTL_MS |-> 300000, MFA_TOKEN_TTL_MS |-> 600000,
     MFA_RATE_LIMIT_MAX |-> 5, MFA_RATE_LIMIT_WINDOW_MS |-> 60000,
     MFA_ENROLL_PENDING_TTL_MS |-> 600000,
     PROXY_CB_VOLUME_THRESHOLD |-> 5, PROXY_CB_ERROR_THRESHOLD |-> 50,
     PROXY_CB_RESET_TIMEOUT |-> 10000, PROXY_MAX_RETRIES |-> 3,
     AUDIT_WAL_BASE_DELAY_MS |-> 50, AUDIT_WAL_MAX_RETRIES |-> 3]

Numbers == DOMAIN Defaults

ScoreThresholds ==
    {"POLICY_CHALLENGE_THRESHOLD", "POLICY_DENY_THRESHOLD",
     "POLICY_ELEVATED_CHALLENGE_THRESHOLD", "POLICY_ELEVATED_DENY_THRESHOLD",
     "POLICY_CRITICAL_CHALLENGE_THRESHOLD", "POLICY_CRITICAL_DENY_THRESHOLD"}

(* .min(...) and .max(...) *)
AtLeast(key) ==
    CASE key \in ScoreThresholds \cup {"PROXY_MAX_RETRIES"} -> 0
      [] key \in {"THREAT_WINDOW_MS", "THREAT_COOLDOWN_MS", "PROXY_CB_RESET_TIMEOUT"} -> 1000
      [] OTHER -> 1

WithinMax(key, n) ==
    CASE key \in ScoreThresholds \cup {"PROXY_MAX_RETRIES", "AUDIT_WAL_MAX_RETRIES"} -> n <= 10
      [] key = "PROXY_CB_ERROR_THRESHOLD" -> n <= 100
      [] key = "DB_POOL_MAX" -> n <= 200
      [] OTHER -> TRUE

(* The cross-field checks *)
StrictlyBelow ==
    {<<"POLICY_ELEVATED_CHALLENGE_THRESHOLD", "POLICY_CHALLENGE_THRESHOLD">>,
     <<"POLICY_CRITICAL_CHALLENGE_THRESHOLD", "POLICY_ELEVATED_CHALLENGE_THRESHOLD">>,
     <<"POLICY_ELEVATED_DENY_THRESHOLD", "POLICY_DENY_THRESHOLD">>,
     <<"POLICY_CRITICAL_DENY_THRESHOLD", "POLICY_ELEVATED_DENY_THRESHOLD">>,
     <<"THREAT_ELEVATED_DENIES", "THREAT_CRITICAL_DENIES">>,
     <<"THREAT_ELEVATED_INVALID_TOKENS", "THREAT_CRITICAL_INVALID_TOKENS">>,
     <<"THREAT_ELEVATED_HONEYPOT", "THREAT_CRITICAL_HONEYPOT">>,
     <<"THREAT_ELEVATED_MFA_RATE_LIMITED", "THREAT_CRITICAL_MFA_RATE_LIMITED">>,
     <<"MFA_CHALLENGE_TTL_MS", "MFA_TOKEN_TTL_MS">>}

(* What the slices hand to the services *)
Config(env) ==
    [key \in Numbers |-> IF key \in DOMAIN env.numbers THEN env.numbers[key] ELSE Defaults[key]]

Accepted(env) ==
    LET cfg == Config(env)
    IN  /\ Required \subseteq env.strings
        /\ \A key \in Numbers : cfg[key] >= AtLeast(key) /\ WithinMax(key, cfg[key])
        /\ \A pair \in StrictlyBelow : cfg[pair[1]] < cfg[pair[2]]

-----------------------------------------------------------------------------
(* What the services rely on *)

ThresholdsAt(cfg) ==
    [Normal |-> [challenge |-> cfg.POLICY_CHALLENGE_THRESHOLD, deny |-> cfg.POLICY_DENY_THRESHOLD],
     Elevated |-> [challenge |-> cfg.POLICY_ELEVATED_CHALLENGE_THRESHOLD,
                   deny |-> cfg.POLICY_ELEVATED_DENY_THRESHOLD],
     Critical |-> [challenge |-> cfg.POLICY_CRITICAL_CHALLENGE_THRESHOLD,
                   deny |-> cfg.POLICY_CRITICAL_DENY_THRESHOLD]]

(* The decision a score gets at a level, 0 for ALLOW to 2 for DENY *)
DecisionAt(cfg, level, score) ==
    LET at == ThresholdsAt(cfg)[level]
    IN  IF score >= at.deny THEN 2 ELSE IF score < at.challenge THEN 0 ELSE 1

(* No level decides any score more leniently than the level below it, and  *)
(* each one is stricter with some score                                    *)
Tightens(cfg) ==
    \A p \in {<<"Normal", "Elevated">>, <<"Elevated", "Critical">>} :
        /\ \A score \in 0..10 : DecisionAt(cfg, p[1], score) <= DecisionAt(cfg, p[2], score)
        /\ \E score \in 0..10 : DecisionAt(cfg, p[1], score) < DecisionAt(cfg, p[2], score)

=============================================================================

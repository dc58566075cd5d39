----------------------------- MODULE MCUpstream -----------------------------
(***************************************************************************)
(* The way out of the gateway and back for TLC: Upstream with small sets   *)
(* of environments, paths, addresses, bodies and policies.                 *)
(***************************************************************************)
EXTENDS Upstream, SequencesExt

(* JSON values of up to two levels; Upstream's assumption compares them    *)
(* with the module's own definition.                                       *)
Leaves == {[kind |-> "scalar"], [kind |-> "opaque"]}
Nested(values) ==
    values \cup {[kind |-> "object", fields |-> f] : f \in UNION {[K -> values] : K \in SUBSET Names}}
           \cup {[kind |-> "array", items |-> a] : a \in UNION {[1..n -> values] : n \in 0..MaxItems}}
Levels == <<Leaves, Nested(Leaves), Nested(Nested(Leaves))>>

(* A narrow pattern before or after a wide one; lists with '*' first,      *)
(* later, and none; '*' and the names of roles are ordinary strings.       *)
Narrow == [paths |-> {"/orders"}, roles |-> [user |-> <<"id">>, auditor |-> <<"*">>]]
Wide == [paths |-> {"/orders", "/users"}, roles |-> [user |-> <<"card", "*">>, guest |-> << >>]]
MCFieldPolicies == {<<Narrow, Wide>>, <<Wide, Narrow>>, <<Narrow>>}

MCCallers == {<< >>, <<"user">>, <<"guest">>, <<"user", "auditor">>, <<"auditor", "user">>,
              <<"user", "admin">>}

(* Environments: registries that are fine, partly or wholly useless, with  *)
(* the default numbers; and every value of every policy threshold, and     *)
(* each other number at and beyond a boundary, with a registry that routes *)
(* nothing; and a required string that is missing.                         *)
Cfg == INSTANCE GatewayConfig
Text(json, services) == [json |-> json, services |-> services]
Environment(strings, numbers, text) ==
    [strings |-> strings, numbers |-> numbers, registry |-> text]
Texts == {Text(TRUE, [users |-> "hostA", orders |-> "hostB"]),
          Text(TRUE, [users |-> "hostB", orders |-> "", billing |-> "malformed"]),
          Text(TRUE, << >>), Text(FALSE, << >>)}
Overrides ==
    (Cfg!ScoreThresholds \X (0..11))
        \cup {<<"THREAT_ELEVATED_DENIES", 0>>, <<"THREAT_ELEVATED_DENIES", 49>>,
              <<"THREAT_ELEVATED_DENIES", 50>>, <<"THREAT_CRITICAL_HONEYPOT", 5>>,
              <<"MFA_TOKEN_TTL_MS", 300000>>, <<"THREAT_COOLDOWN_MS", 999>>,
              <<"PROXY_MAX_RETRIES", 0>>, <<"AUDIT_WAL_MAX_RETRIES", 11>>}
Varied ==
    {Environment(Cfg!Required, << >>, t) : t \in Texts}
        \cup {Environment(Cfg!Required, [k \in {o[1]} |-> o[2]], Text(TRUE, [users |-> ""])) :
                 o \in Overrides}
        \cup {Environment(Cfg!Required \ {"JWT_SECRET"}, << >>, t) : t \in Texts}

(* TLC keeps the value of a definition, but not of one that replaces a     *)
(* constant.                                                               *)
MCJson == Levels
MCEnvironments == Varied

(* Paths that stay below their service, that go up out of it, and that     *)
(* have empty segments, before the service's name and behind it.           *)
MCRoutes == {<<"">>, <<"users", "profile">>, <<"billing", "7">>, <<"nobody">>,
             <<"orders", "..", "users", "..">>, <<"", "users">>, <<"users", "", "">>,
             <<"orders", "", "elsewhere", "7">>, <<"users", "..", "", "elsewhere">>}
MCAddresses == {"10.0.0.1", "169.254.169.254"}

(* What stays of a path is what a parser's stack holds at its end, on every *)
(* path of up to four segments.                                            *)
Stack(path) ==
    LET read(s, segment) ==
          IF segment = "." THEN s
          ELSE IF segment # ".." THEN Append(s, segment)
          ELSE IF s = << >> THEN s ELSE Front(s)
        stack == FoldLeft(read, << >>, path)
    IN  IF Last(path) \in {".", ".."} THEN Append(stack, "") ELSE stack

InOrder(p) ==
    LET at == SetToSortSeq(DOMAIN p, <) IN [n \in DOMAIN at |-> p[at[n]]]

ASSUME PathnameIsStack ==
    \A path \in UNION {[1..n -> {"", "a", "b", ".", ".."}] : n \in 1..4} :
        InOrder(Routing!Pathname(path)) = Stack(path)

=============================================================================

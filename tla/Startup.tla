------------------------------- MODULE Startup -------------------------------
(***************************************************************************)
(* bootstrap() and runMigrations() (src/main.ts) and the onModuleInit      *)
(* hooks they lead to: the gateway is composed, the database is migrated   *)
(* file by file, the hooks run, and only then does it listen.  Any failure *)
(* ends the process; whoever runs it starts it again, perhaps with another *)
(* environment, on the database the last attempt left behind.              *)
(*                                                                         *)
(* NestJS is external: create() runs the constructors, listen() runs the   *)
(* hooks, in any order, before it binds the port.                          *)
(***************************************************************************)
EXTENDS GatewayConfig, Sequences, FiniteSets

CONSTANTS Envs  \* environments: strings, numbers, and the registry's JSON text

(* The .sql files in sorted order, by the tables they create *)
Migrations == <<{"trust_signals", "trust_activity"},
                {"mfa_challenges", "mfa_tokens", "user_secrets"},
                {"audit_logs"}>>
Tables == UNION {Migrations[i] : i \in 1..Len(Migrations)}

Hooks == {"registry", "proxy", "bopla", "policy", "shadow", "certMonitor"}

VARIABLES phase,     \* "down", "migrating", "hooks" or "listening"
          env,       \* the environment of this process
          tables,    \* the database: survives the process
          migrated,  \* migration files this process has run
          registry,  \* ServiceRegistryService: service name to base URL
          breakers,  \* ProxyService: the services that have a breaker
          ready      \* hooks that have completed

bootVars == <<phase, env, tables, migrated, registry, breakers, ready>>

NoEnv == [strings |-> {}, numbers |-> << >>, registry |-> [json |-> FALSE, services |-> << >>]]

BootInit ==
    /\ phase = "down" /\ env = NoEnv
    /\ tables = {} /\ migrated = 0
    /\ registry = << >> /\ breakers = {} /\ ready = {}

Exit ==
    /\ phase' = "down" /\ env' = NoEnv
    /\ migrated' = 0 /\ registry' = << >> /\ breakers' = {} /\ ready' = {}
    /\ UNCHANGED tables

(* NestFactory.create: the schema, then the constructors; the registry's   *)
(* keeps an empty map when the text is not the JSON of an object           *)
Create(e) ==
    /\ phase = "down" /\ Accepted(e)
    /\ phase' = "migrating" /\ env' = e
    /\ registry' = e.registry.services
    /\ UNCHANGED <<tables, migrated, breakers, ready>>

(* One query per file; every statement says IF NOT EXISTS *)
RunMigration ==
    /\ phase = "migrating" /\ migrated < Len(Migrations)
    /\ migrated' = migrated + 1
    /\ tables' = tables \cup Migrations[migrated']
    /\ UNCHANGED <<phase, env, registry, breakers, ready>>

FaultyMigrationFails ==
    /\ phase = "migrating"
    /\ phase' = "hooks"
    /\ UNCHANGED <<env, tables, migrated, registry, breakers, ready>>

(* connect(), a query or the directory fails: bootstrap rejects *)
MigrationFails == phase = "migrating" /\ Exit

(* client.end(), then app.listen begins *)
MigrationsDone ==
    /\ phase = "migrating" /\ migrated = Len(Migrations)
    /\ phase' = "hooks"
    /\ UNCHANGED <<env, tables, migrated, registry, breakers, ready>>

Initialise(hook) ==
    /\ phase = "hooks" /\ hook \notin ready
    /\ ready' = ready \cup {hook}
    /\ UNCHANGED <<phase, env, tables, migrated, registry>>

(* ServiceRegistryService: the JSON of an object, with at least one service *)
ValidRegistry == env.registry.json /\ DOMAIN env.registry.services # {}

RegistryHook ==
    /\ Initialise("registry")
    /\ ValidRegistry
    /\ UNCHANGED breakers

(* ProxyService: one breaker for every service listed at this moment *)
ProxyHook ==
    /\ Initialise("proxy")
    /\ breakers' = DOMAIN registry

(* The policy files are read and parsed; the decoy paths agree; the        *)
(* certificates' mtimes are taken, 0 for a missing file                    *)
OtherHook ==
    /\ \E h \in {"bopla", "policy", "shadow", "certMonitor"} : Initialise(h)
    /\ UNCHANGED breakers

(* The registry's text is rejected, or a policy file is: listen rejects *)
HookFails ==
    /\ phase = "hooks"
    /\ \/ "registry" \notin ready /\ ~ValidRegistry
       \/ ~({"bopla", "policy"} \subseteq ready)
    /\ Exit

Listen ==
    /\ phase = "hooks" /\ ready = Hooks
    /\ phase' = "listening"
    /\ UNCHANGED <<env, tables, migrated, registry, breakers, ready>>

(* The port is taken, or the process dies *)
Crash == phase # "down" /\ Exit

Boot ==
    \/ \E e \in Envs : Create(e)
    \/ RunMigration \/ MigrationFails \/ MigrationsDone
    \/ RegistryHook \/ ProxyHook \/ OtherHook \/ HookFails
    \/ Listen

-----------------------------------------------------------------------------
(* Properties *)

(* D-03, D-16: once the port is open, whatever failed in this attempt or   *)
(* an earlier one and in whatever order the hooks ran, every table exists, *)
(* every service of the registry has its breaker and there is at least     *)
(* one, the secrets are well formed, every level of the threat ladder is   *)
(* stricter than the one below, and its signals reach the lower rung first.*)
ListeningMeansReady ==
    phase = "listening" =>
        LET cfg == Config(env)
        IN  /\ tables = Tables
            /\ breakers = DOMAIN env.registry.services /\ breakers # {}
            /\ Required \subseteq env.strings
            /\ Tightens(cfg)
            /\ \A signal \in {<<cfg.THREAT_ELEVATED_DENIES, cfg.THREAT_CRITICAL_DENIES>>,
                              <<cfg.THREAT_ELEVATED_HONEYPOT, cfg.THREAT_CRITICAL_HONEYPOT>>} :
                   0 < signal[1] /\ signal[1] < signal[2]

=============================================================================

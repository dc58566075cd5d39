------------------------ MODULE FingerprintBlacklist ------------------------
(***************************************************************************)
(* The deny list of JA4H fingerprints: FingerprintStore                    *)
(* (src/fingerprint/fingerprint.store.ts), read by Ja4hMiddleware when a   *)
(* request arrives and by TrustScoreService when it is scored, written by  *)
(* the honeypot's ShadowController, with requests in flight between the    *)
(* two reads.  Entries are evicted only when they are read.                *)
(***************************************************************************)
EXTENDS Integers, FiniteSets

CONSTANTS Fingerprints, \* JA4H values
          Requests,     \* requests of those clients
          Ttl,          \* BLACKLIST_TTL_MS, in ticks
          MaxNow        \* bound: time

(* What a configuration must satisfy *)
BlacklistAssumption ==
    /\ IsFiniteSet(Fingerprints) /\ IsFiniteSet(Requests)
    /\ Ttl \in Nat \ {0} /\ MaxNow \in Nat

NoEntry == [expiresAt |-> 0, isTerminal |-> FALSE]
Never == -Ttl

VARIABLES now,
          list,      \* fingerprint -> entry, NoEntry when it has none
          gauge,     \* the blacklist-size gauge of MetricsService
          req,       \* the requests: program counter, fingerprint, risk
          lastTrap   \* history: when a decoy last caught the fingerprint

vars == <<now, list, gauge, req, lastTrap>>

NewRequest == [pc |-> "new", fp |-> "none", caughtBefore |-> FALSE]

Init ==
    /\ now = 0
    /\ list = [p \in Fingerprints |-> NoEntry]
    /\ gauge = 0
    /\ req = [r \in Requests |-> NewRequest]
    /\ lastTrap = [p \in Fingerprints |-> Never]

Size(l) == Cardinality({p \in Fingerprints : l[p] # NoEntry})

Expired(p) == list[p] # NoEntry /\ now >= list[p].expiresAt

(* isBlacklisted and isTerminal drop an expired entry and emit the size *)
ReadEntry(p) ==
    /\ list' = IF Expired(p) THEN [list EXCEPT ![p] = NoEntry] ELSE list
    /\ gauge' = IF Expired(p) THEN Size(list') ELSE gauge

(* Ja4hMiddleware: a blacklisted client is held and refused with 403 *)
Arrive(r, p) ==
    /\ req[r].pc = "new"
    /\ ReadEntry(p)
    /\ req' = [req EXCEPT ![r] = [pc |-> IF list'[p] # NoEntry THEN "refused" ELSE "inside",
                                  fp |-> p, caughtBefore |-> lastTrap[p] # Never]]
    /\ UNCHANGED <<now, lastTrap>>

(* The entry of FingerprintStore.add *)
FaultyEntryKept(p) == IF list[p] # NoEntry THEN list[p]
                      ELSE [expiresAt |-> now + Ttl, isTerminal |-> TRUE]

Entry(p) == [expiresAt |-> now + Ttl, isTerminal |-> TRUE]

(* ShadowController.trapAndRespond: the request reached a decoy route *)
Trap(r) ==
    /\ req[r].pc = "inside"
    /\ list' = [list EXCEPT ![req[r].fp] = Entry(req[r].fp)]
    /\ gauge' = Size(list')
    /\ lastTrap' = [lastTrap EXCEPT ![req[r].fp] = now]
    /\ req' = [req EXCEPT ![r].pc = "trapped"]
    /\ UNCHANGED now

(* evaluateScore: a terminal fingerprint scores 1 before any signal *)
Score(r) ==
    LET p == req[r].fp IN
    /\ req[r].pc = "inside"
    /\ ReadEntry(p)
    /\ req' = [req EXCEPT ![r].pc = IF list'[p].isTerminal THEN "terminal" ELSE "scored"]
    /\ UNCHANGED <<now, lastTrap>>

Tick == now < MaxNow /\ now' = now + 1 /\ UNCHANGED <<list, gauge, req, lastTrap>>

Next ==
    \/ \E r \in Requests, p \in Fingerprints : Arrive(r, p)
    \/ \E r \in Requests : Trap(r) \/ Score(r)
    \/ Tick

Spec == Init /\ [][Next]_vars

-----------------------------------------------------------------------------
(* Properties *)

Served(r) == req[r].pc \in {"inside", "scored", "trapped"}

(* Types of the list, the gauge and the requests. *)
TypeOK ==
    /\ now \in 0..MaxNow
    /\ list \in [Fingerprints -> {NoEntry} \cup [expiresAt : Ttl..(MaxNow + Ttl), isTerminal : {TRUE}]]
    /\ gauge \in 0..Cardinality(Fingerprints)
    /\ req \in [Requests -> [pc : {"new", "refused", "inside", "trapped", "terminal", "scored"},
                             fp : Fingerprints \cup {"none"}, caughtBefore : BOOLEAN]]
    /\ lastTrap \in [Fingerprints -> {Never} \cup 0..MaxNow]

Caught(p) == lastTrap[p] # Never /\ now < lastTrap[p] + Ttl

(* A client caught by a decoy stays out for the whole TTL, counted from    *)
(* the last time it was caught: none of its requests gets past             *)
(* Ja4hMiddleware before then, and one that was already inside when the    *)
(* client was caught scores the maximum and nothing less.                  *)
CaughtStaysOut ==
    [][\A r \in Requests :
          \/ req[r].pc = "new" /\ req'[r].pc = "inside"
          \/ req[r].pc = "inside" /\ req'[r].pc = "scored"
          => ~Caught(req'[r].fp)]_vars

(* CONTEXT.md:86: an entry from a decoy hit is "terminal (...never         *)
(* recovers)": no later request of that client is let in.                  *)
TerminalNeverRecovers == \A r \in Requests : Served(r) => ~req[r].caughtBefore

=============================================================================

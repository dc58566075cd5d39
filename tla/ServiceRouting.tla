--------------------------- MODULE ServiceRouting ---------------------------
(***************************************************************************)
(* ProxyService.forward (src/proxy/proxy.service.ts) up to breaker.fire,   *)
(* in a gateway that starts, serves, dies and starts again: the service is *)
(* found by the first path segment (ServiceRegistryService), its host is   *)
(* looked up afresh and checked (DnsRebindingGuard), its breaker and the   *)
(* mTLS agent are fetched.  Lookup and agent are awaited: other requests,  *)
(* a crash and the name service move meanwhile.                            *)
(*                                                                         *)
(* A request path is the sequence of its segments: "/" is <<"">>, and a    *)
(* doubled slash is an empty segment.  The service is read from the path   *)
(* as it came; the rest goes through the URL parser twice, which takes dot *)
(* segments out and reads a path that begins with two slashes as a host    *)
(* and its path.  A segment in that place stands for the host it names.    *)
(***************************************************************************)
EXTENDS Startup, SequencesExt

CONSTANTS Clients,   \* concurrent requests
          Paths,     \* request paths
          Addresses  \* what the name service may answer

(* What an instance must satisfy: numbers are numbers, paths are not empty *)
RoutingAssumption ==
    /\ \A e \in Envs : \A key \in DOMAIN e.numbers : e.numbers[key] \in Int
    /\ \A path \in Paths : Len(path) \in Nat \ {0} /\ DOMAIN path = 1..Len(path)

(* BLOCKED_EXACT and 127.0.0.0/8; private networks are allowed *)
Blocked == {"::1", "169.254.169.254", "127.0.0.0/8"}

(* Registered base URLs that name no host: "", and what new URL rejects *)
NoHost == {"", "malformed"}

-----------------------------------------------------------------------------
(* From the path to the host.  What a URL parser leaves of a path is a     *)
(* function from the positions that stay to their segments.                *)

(* External: a ".." takes back the nearest segment before it that is still *)
(* there; a path that ends in a dot segment ends in a slash.               *)
DotSegments == {".", ".."}

Stays(path, i) ==
    /\ path[i] \notin DotSegments
    /\ \A j \in (i + 1)..Len(path) :
         Cardinality({k \in (i + 1)..j : path[k] = ".."})
           <= Cardinality({k \in (i + 1)..j : path[k] \notin DotSegments})

Pathname(path) ==
    LET n == Len(path)
        kept == {i \in 1..n : Stays(path, i)}
    IN  [i \in kept \cup (IF path[n] \in DotSegments THEN {n + 1} ELSE {}) |->
           IF i > n THEN "" ELSE path[i]]

Least(S) == CHOOSE i \in S : \A j \in S : i <= j
First(p) == Least(DOMAIN p)
Root == [i \in {1} |-> ""]

(* stripPrefix: the first segment goes, unless it is empty *)
StripPrefix(p) ==
    IF p[First(p)] = "" THEN p
    ELSE IF DOMAIN p = {First(p)} THEN Root
    ELSE [i \in DOMAIN p \ {First(p)} |-> p[i]]

(* External: new URL(p, base).hostname.  Behind two slashes the host is    *)
(* the first segment that is not empty, whatever the base.                 *)
TargetHost(p, base) ==
    LET named == {i \in DOMAIN p : p[i] # ""}
    IN  IF p[First(p)] # "" \/ DOMAIN p = {First(p)} THEN base
        ELSE IF named = {} THEN "" ELSE p[Least(named)]

Target(path, base) == TargetHost(StripPrefix(Pathname(path)), base)

-----------------------------------------------------------------------------

VARIABLES call,  \* forward() of each client: where it stands, path, service and host
          dns,   \* host to address, as the name service would answer now
          seen   \* history: the answers it could have given each request

rvars == <<bootVars, call, dns, seen>>

Idle == [at |-> "idle", path |-> << >>, service |-> "none", host |-> "none"]

Hosts ==
    LET targets(e) == {Target(x[1], e.registry.services[x[2]]) :
                         x \in Paths \X DOMAIN e.registry.services}
    IN  (UNION {targets(e) : e \in Envs}) \ NoHost

RoutingInit ==
    /\ BootInit
    /\ call = [c \in Clients |-> Idle]
    /\ dns = [h \in Hosts |-> "10.0.0.1"]
    /\ seen = [c \in Clients |-> {}]

Answer(c, status) == call' = [call EXCEPT ![c] = [Idle EXCEPT !.at = status]]

(* extractServiceName and resolve, of the first segment as it came *)
Known(name) == name # "" /\ name \in DOMAIN registry /\ registry[name] # ""

(* The synchronous start of forward(): 404 without a known service, an     *)
(* error for a base URL or a path that gives no host, else the lookup      *)
(* begins                                                                  *)
Forward(c, path) ==
    LET name == path[1]
        host == Target(path, registry[name])
    IN  /\ phase = "listening" /\ call[c] = Idle
        /\ IF ~Known(name) THEN Answer(c, "404") /\ UNCHANGED seen
           ELSE IF registry[name] \in NoHost \/ host \in NoHost
                THEN Answer(c, "500") /\ UNCHANGED seen
           ELSE /\ call' = [call EXCEPT ![c] =
                              [at |-> "lookup", path |-> path, service |-> name, host |-> host]]
                /\ seen' = [seen EXCEPT ![c] = {dns[host]}]
        /\ UNCHANGED <<bootVars, dns>>

FaultyLookedUp(c) ==
    /\ call[c].at = "lookup"
    /\ IF call[c].service \notin breakers THEN Answer(c, "503")
       ELSE call' = [call EXCEPT ![c].at = "agent"]
    /\ UNCHANGED <<bootVars, dns, seen>>

(* assertSafe comes back and the breaker is fetched *)
LookedUp(c) ==
    /\ call[c].at = "lookup"
    /\ IF dns[call[c].host] \in Blocked THEN Answer(c, "403")
       ELSE IF call[c].service \notin breakers THEN Answer(c, "503")
       ELSE call' = [call EXCEPT ![c].at = "agent"]
    /\ UNCHANGED <<bootVars, dns, seen>>

(* getHttpsAgent comes back: the request goes to the service's breaker *)
AgentReady(c) ==
    /\ call[c].at = "agent"
    /\ call' = [call EXCEPT ![c].at = "fired"]
    /\ UNCHANGED <<bootVars, dns, seen>>

(* The lookup or the certificates fail: the error is not an HttpException *)
ForwardFails(c) ==
    /\ call[c].at \in {"lookup", "agent"}
    /\ Answer(c, "500")
    /\ UNCHANGED <<bootVars, dns, seen>>

(* The client has its answer and may send the next request *)
Done(c) ==
    /\ call[c].at \notin {"idle", "lookup", "agent"}
    /\ call' = [call EXCEPT ![c] = Idle]
    /\ seen' = [seen EXCEPT ![c] = {}]
    /\ UNCHANGED <<bootVars, dns>>

(* External: a host's address changes *)
DnsChanges(h, a) ==
    /\ phase = "listening" /\ a # dns[h]
    /\ dns' = [dns EXCEPT ![h] = a]
    /\ seen' = [c \in Clients |-> IF call[c].host = h /\ call[c].at = "lookup"
                                  THEN seen[c] \cup {a} ELSE seen[c]]
    /\ UNCHANGED <<bootVars, call>>

ProcessDies ==
    /\ Crash
    /\ call' = [c \in Clients |-> Idle] /\ seen' = [c \in Clients |-> {}]
    /\ UNCHANGED dns

RoutingNext ==
    \/ Boot /\ UNCHANGED <<call, dns, seen>>
    \/ ProcessDies
    \/ \E c \in Clients : \/ \E path \in Paths : Forward(c, path)
                          \/ LookedUp(c) \/ AgentReady(c) \/ ForwardFails(c) \/ Done(c)
    \/ \E h \in DOMAIN dns, a \in Addresses : DnsChanges(h, a)

RoutingSpec == RoutingInit /\ [][RoutingNext]_rvars

-----------------------------------------------------------------------------
(* Properties *)

(* Types of the boot and of the calls in flight. *)
RoutingTypeOK ==
    /\ phase \in {"down", "migrating", "hooks", "listening"}
    /\ tables \subseteq Tables /\ migrated \in 0..Len(Migrations)
    /\ ready \subseteq Hooks /\ breakers \subseteq DOMAIN registry
    /\ \A c \in Clients :
          /\ call[c].at \in {"idle", "lookup", "agent", "fired", "403", "404", "500", "503"}
          /\ phase # "listening" => call[c] = Idle

(* PRXY-06, PRXY-08: a request reaches a breaker only after a lookup of    *)
(* its own, made while it waited, gave an address that is not blocked; it  *)
(* is the breaker of the service its path begins with, and the host is the *)
(* one the running configuration registers, unless the path has an empty   *)
(* segment and names another; and the defensive answer of forward(), "No   *)
(* circuit breaker", is never given.                                       *)
RoutedAsRegistered ==
    \A c \in Clients :
        /\ call[c].at # "503"
        /\ call[c].at = "fired" =>
             /\ call[c].service = call[c].path[1]
             /\ call[c].service \in DOMAIN env.registry.services
             /\ \/ call[c].host = env.registry.services[call[c].service]
                \/ {"", call[c].host} \subseteq ToSet(call[c].path)
             /\ seen[c] \ Blocked # {}

(* What CONTEXT.md:116 says of the registry: "A target absent from the     *)
(* registry is never contacted."  The host a request is sent to is the     *)
(* host of a registered base URL, whatever the path.                       *)
OnlyRegisteredContacted ==
    \A c \in Clients : call[c].at = "fired" =>
        \E s \in DOMAIN env.registry.services : call[c].host = env.registry.services[s]

=============================================================================

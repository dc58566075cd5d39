-------------------------------- MODULE Bopla --------------------------------
(***************************************************************************)
(* Response stripping: BoPlaInterceptor (src/proxy/bopla.interceptor.ts)   *)
(* and the pipeline stage that calls it.  A body is a JSON value: a        *)
(* scalar (null included), an opaque object (Buffer, Date), an array or a  *)
(* plain object.                                                           *)
(***************************************************************************)
EXTENDS Naturals, Sequences, FiniteSets, SequencesExt

CONSTANTS Policies,  \* field policies: sequences of [paths, roles], in the file's order
          Names, MaxItems,  \* keys of an object, length of an array
          Json,      \* the values nested up to 0, 1, 2 ... deep
          Paths,     \* request paths; a pattern is the set of paths it matches
          RoleLists, \* the roles claim of a caller, in the token's order
          PassThrough, Admin  \* the names '*' and 'admin'

Object(fields) == [kind |-> "object", fields |-> fields]
Array(items) == [kind |-> "array", items |-> items]
EmptyObject == Object(<< >>)

(* The values whose parts are the given ones, and the bodies an upstream   *)
(* may send: JSON.parse builds trees of some depth.                        *)
Over(values) ==
    values \cup {Object(f) : f \in UNION {[K -> values] : K \in SUBSET Names}}
           \cup {Array(a) : a \in BoundedSeq(values, MaxItems)}
Bodies == Json[Len(Json)]

(* What an instance must satisfy: policies and roles are lists, patterns   *)
(* match paths, and a level of values is built over the one before.        *)
IsList(l) == Len(l) \in Nat /\ DOMAIN l = 1..Len(l)
BoplaAssumption ==
    /\ \A policy \in Policies :
         IsList(policy) /\ \A e \in ToSet(policy) : e.paths \subseteq Paths
    /\ \A roles \in RoleLists : IsList(roles)
    /\ MaxItems \in Nat /\ IsList(Json) /\ Len(Json) > 1
    /\ \A v \in Json[1] : v.kind \in {"scalar", "opaque"}
    /\ \A n \in 2..Len(Json) : Json[n] = Over(Json[n - 1])

VARIABLES fieldPolicy,  \* the policy in force, << >> until it is loaded
          booted,
          request,      \* path, roles and upstream body of the request at the stage
          stripped,     \* ctx.strippedBody
          removed       \* ctx.boplaRemoved

vars == <<fieldPolicy, booted, request, stripped, removed>>

NoRequest == [path |-> "none", roles |-> << >>, body |-> EmptyObject]

Init ==
    /\ fieldPolicy = << >> /\ booted = FALSE
    /\ request = NoRequest
    /\ stripped = EmptyObject /\ removed = {}

(* A file that cannot be read or parsed stops the startup *)
OnModuleInit(policy) ==
    /\ ~booted /\ booted' = TRUE
    /\ fieldPolicy' = policy
    /\ UNCHANGED <<request, stripped, removed>>

-----------------------------------------------------------------------------

(* The first pattern that matches decides; within it, the first role of    *)
(* the caller that it maps.  << >> stands for null: nothing is allowed.    *)
FindAllowedFields(path, roles) ==
    LET entry == SelectInSeq(fieldPolicy, LAMBDA e : path \in e.paths)
        map == fieldPolicy[entry].roles
        role == SelectInSeq(roles, LAMBDA r : r \in DOMAIN map)
    IN  IF entry = 0 \/ role = 0 THEN << >> ELSE <<map[roles[role]]>>

(* Only the top level is filtered *)
FaultyApplyAllowList(data, allowed) ==
    IF data.kind = "object"
    THEN Object([f \in ToSet(allowed) \cap DOMAIN data.fields |-> data.fields[f]])
    ELSE data

(* New objects with the allowed keys, at every depth; array elements one   *)
(* by one; everything else as it is                                        *)
ApplyAllowList(data, allowed) ==
    LET walk[v \in Bodies] ==
          CASE v.kind = "array" -> Array([i \in DOMAIN v.items |-> walk[v.items[i]]])
            [] v.kind = "object" ->
                 Object([f \in ToSet(allowed) \cap DOMAIN v.fields |-> walk[v.fields[f]]])
            [] OTHER -> v
    IN  walk[data]

Strip(data, path, roles) ==
    LET found == FindAllowedFields(path, roles)
    IN  IF Admin \in ToSet(roles) THEN data
        ELSE IF found = << >> THEN EmptyObject
        ELSE IF found[1] # << >> /\ found[1][1] = PassThrough THEN data
        ELSE ApplyAllowList(data, found[1])

DiffTopLevelKeys(before, after) ==
    IF before.kind = "object" /\ after.kind = "object"
    THEN DOMAIN before.fields \ DOMAIN after.fields ELSE {}

(* BoplaStripStage.run *)
RunStage(body, path, roles) ==
    /\ booted
    /\ request' = [path |-> path, roles |-> roles, body |-> body]
    /\ stripped' = Strip(body, path, roles)
    /\ removed' = DiffTopLevelKeys(body, stripped')
    /\ UNCHANGED <<fieldPolicy, booted>>

(* One request per behaviour: the stage keeps nothing between requests *)
Next ==
    \/ \E policy \in Policies : OnModuleInit(policy)
    \/ /\ request = NoRequest
       /\ \E body \in Bodies, path \in Paths, roles \in RoleLists : RunStage(body, path, roles)

Spec == Init /\ [][Next]_vars

-----------------------------------------------------------------------------
(* Properties *)

(* The scalars and opaque objects of a value, each with the keys and array *)
(* positions that lead to it.                                              *)
Below(step, facts) == {<< <<step>> \o f[1], f[2]>> : f \in facts}
Facts[v \in Bodies] ==
    CASE v.kind = "object" ->
           UNION {Below([keys |-> {k}, at |-> 0], Facts[v.fields[k]]) : k \in DOMAIN v.fields}
      [] v.kind = "array" ->
           UNION {Below([keys |-> {}, at |-> i], Facts[v.items[i]]) : i \in DOMAIN v.items}
      [] OTHER -> {<< << >>, v>>}

Keys(fact) == UNION {s.keys : s \in ToSet(fact[1])}

(* The keys the policy grants: those of the caller's first mapped role in  *)
(* the first matching pattern                                              *)
Granted ==
    LET matching == {i \in DOMAIN fieldPolicy : request.path \in fieldPolicy[i].paths}
        first == CHOOSE i \in matching : \A j \in matching : i <= j
        mapped == {n \in DOMAIN request.roles :
                     request.roles[n] \in DOMAIN fieldPolicy[first].roles}
        role == request.roles[CHOOSE n \in mapped : \A m \in mapped : n <= m]
    IN  IF matching = {} \/ mapped = {} THEN {}
        ELSE {fieldPolicy[first].roles[role]}

(* Types of the stage: the answer is a JSON value. *)
TypeOK ==
    /\ fieldPolicy \in Policies \cup {<< >>} /\ booted \in BOOLEAN
    /\ request = NoRequest \/ request \in [path : Paths, roles : RoleLists, body : Bodies]
    /\ stripped \in Bodies

(* The answer holds exactly the parts of the upstream body all of whose    *)
(* keys, from the root down, the policy grants the caller, each where it   *)
(* was: nothing below an allowed key escapes, and nothing allowed is lost. *)
(* The role that decides is the first in the token's order.                *)
(* Without a grant nothing is left, an admin and '*' see everything, and   *)
(* every top-level key that is missing is reported as removed.             *)
ServedIsGranted ==
    request # NoRequest =>
        LET all == Facts[request.body]
            seesAll == \/ Admin \in ToSet(request.roles)
                       \/ \E g \in Granted : g # << >> /\ g[1] = PassThrough
        IN  /\ Facts[stripped] = IF seesAll THEN all
                                 ELSE {f \in all : \E g \in Granted : Keys(f) \subseteq ToSet(g)}
            /\ request.body.kind = "object" =>
                 DOMAIN request.body.fields = removed \cup DOMAIN stripped.fields

(* What findAllowedFields says of a caller with several roles:             *)
(* "Highest-privilege role wins among the caller's roles"                  *)
(* (bopla.interceptor.ts:68).  A role with '*' has every privilege, so if  *)
(* the first matching pattern gives '*' to any role of the caller, the     *)
(* whole body is served.                                                   *)
HighestPrivilegeWins ==
    request # NoRequest =>
        LET matching == {i \in DOMAIN fieldPolicy : request.path \in fieldPolicy[i].paths}
            map == fieldPolicy[CHOOSE i \in matching : \A j \in matching : i <= j].roles
        IN  /\ matching # {}
            /\ \E r \in ToSet(request.roles) \cap DOMAIN map :
                 map[r] # << >> /\ map[r][1] = PassThrough
            => stripped = request.body

=============================================================================

----------------------------- MODULE TrustProofs -----------------------------
(* Machine-checked proofs about what the gateway knows of a client, for    *)
(* any number of requests, fingerprints, signals' values and instants.     *)
(* Each component has an inductive invariant of its own, which the steps   *)
(* of the others leave alone.                                              *)
EXTENDS MCTrust, Sequences, FiniteSetTheorems, SequenceTheorems, WellFoundedInduction, TLAPS

-----------------------------------------------------------------------------
(* Access control *)

(* The pipeline has judged the request's token and found it good           *)
Judged ==
    /\ call.scheme = "Bearer" /\ Access!Genuine(call.token)
    /\ user = Access!ExtractRoles(call.token) /\ brand = TRUE

(* What is known of the request where it stands.  A handler's guards are   *)
(* reached from a public path or as one of AuthOnlyPaths, judged.          *)
AccessInv ==
    /\ Access!TypeOK
    /\ call.token \in Access!Tokens \cup {Access!NoToken} /\ call.barred \in BOOLEAN
    /\ call.barred => revoked
    /\ pc \in {"revocation", "authOnly", "proxied"} => Judged
    /\ pc \in {"authOnly", "proxied"} => ~call.barred
    /\ pc \in {"roles", "jwt", "handler"} =>
         /\ call.exact
         /\ call.route \in Access!PublicHandlers \/ (Judged /\ ~call.barred)
    /\ pc \in {"jwt", "handler"} /\ call.route \in Access!RolesRequired => "admin" \in user

(* Before the first request.                                               *)
LEMMA AccessInit == Access!Init => AccessInv
<1> SUFFICES ASSUME Access!Init PROVE AccessInv
  OBVIOUS
<1>1. /\ config \in Access!Configs /\ call = Access!NoRequest /\ revoked = FALSE
      /\ user = Access!NoUser /\ brand = FALSE /\ pc = "client"
  BY DEF Access!Init
<1>2. call.token = Access!NoToken /\ call.barred = FALSE
  BY <1>1 DEF Access!NoRequest
<1>3. Access!TypeOK
  BY <1>1 DEF Access!TypeOK
<1> QED
  BY <1>1, <1>2, <1>3 DEF AccessInv

(* validateToken accepts nothing but access tokens the keys vouch for:     *)
(* each algorithm is verified with its own key.                            *)
LEMMA ValidatedIsGenuine ==
    ASSUME config \in Access!Configs, NEW t \in Access!Tokens, NEW fetched,
           Access!ValidateToken(t, fetched)
    PROVE  Access!Genuine(t)
<1>1. /\ t.alg \in {"HS256", "RS256", "none"} /\ t.signer \in {"jwtSecret", "privateKey", "stranger"}
      /\ t.typ \in {"access", "mfa"} /\ t.flaw \in Access!Flaws
      /\ config.asymmetricKey \in {"pem", "jwks", "unset"}
  BY DEF Access!Tokens, Access!Configs
<1>2. t.signer = Access!KeyFor(t.alg) /\ t.typ # "mfa" /\ t.flaw # "no deviceId"
      /\ t.flaw \notin {"malformed", "expired", "missing jti or sub"} \cup config.checks
  BY DEF Access!ValidateToken, Access!JwtVerify
<1>3. CASE t.alg = "HS256"
  <2>1. Access!KeyFor(t.alg) = "jwtSecret"
    BY <1>3 DEF Access!KeyFor
  <2> QED
    BY <1>1, <1>2, <1>3, <2>1 DEF Access!Genuine, Access!Flaws
<1>4. CASE t.alg # "HS256"
  <2>1. Access!KeyFor(t.alg) =
          IF t.alg = "RS256" /\ config.asymmetricKey # "unset" THEN "privateKey" ELSE "no key"
    BY <1>4 DEF Access!KeyFor
  <2> QED
    BY <1>1, <1>2, <1>4, <2>1 DEF Access!Genuine, Access!Flaws
<1> QED
  BY <1>3, <1>4

(* A roles claim gives the admin role only as a list that names it.        *)
LEMMA AdminIsListed ==
    ASSUME NEW t \in Access!Tokens \cup {Access!NoToken}
    PROVE  /\ Access!ExtractRoles(t) \in {{"admin"}, {"user"}, {}}
           /\ "admin" \in Access!ExtractRoles(t) => t.roles = "[admin]"
<1>1. t.roles \in {"[admin]", "[user]", "admin"}
  BY DEF Access!Tokens, Access!NoToken
<1>2. CASE t.roles = "[admin]"
  BY <1>2 DEF Access!ExtractRoles
<1>3. CASE t.roles = "[user]"
  BY <1>3 DEF Access!ExtractRoles
<1>4. CASE t.roles = "admin"
  BY <1>4 DEF Access!ExtractRoles
<1> QED
  BY <1>1, <1>2, <1>3, <1>4

(* AuthStage lets a request on only with a genuine token.                  *)
LEMMA AuthStageInv ==
    ASSUME AccessInv, NEW fetched \in BOOLEAN, Access!AuthStage(fetched)
    PROVE  AccessInv'
<1>1. /\ Access!TypeOK /\ call.token \in Access!Tokens \cup {Access!NoToken}
      /\ call.barred \in BOOLEAN /\ (call.barred => revoked)
      /\ UNCHANGED <<config, call, revoked>>
  BY DEF AccessInv, Access!AuthStage
<1>2. CASE Access!Authenticate(fetched)
  <2>1. user' = Access!ExtractRoles(call.token) /\ brand' = TRUE /\ pc' = "revocation"
        /\ call.scheme = "Bearer" /\ Access!ValidateToken(call.token, fetched)
    BY <1>2 DEF Access!AuthStage, Access!Authenticate
  <2>2. call.token \in Access!Tokens
    <3>1. CASE call.token = Access!NoToken
      BY <3>1 DEF Access!NoToken, Access!Tokens, Access!Flaws
    <3> QED
      BY <1>1, <3>1
  <2>3. Access!Genuine(call.token)
    BY <1>1, <2>1, <2>2, ValidatedIsGenuine DEF Access!TypeOK
  <2>4. Access!Genuine(call.token)'
    BY <1>1, <2>3 DEF Access!Genuine
  <2>5. Access!TypeOK'
    BY <1>1, <2>1, AdminIsListed DEF Access!TypeOK
  <2>6. Judged'
    BY <1>1, <2>1, <2>4 DEF Judged, Access!ExtractRoles
  <2> QED
    BY <1>1, <2>1, <2>5, <2>6 DEF AccessInv
<1>3. CASE ~Access!Authenticate(fetched)
  <2>1. pc' = "401" /\ UNCHANGED <<user, brand>>
    BY <1>3 DEF Access!AuthStage
  <2>2. Access!TypeOK'
    BY <1>1, <2>1 DEF Access!TypeOK
  <2> QED
    BY <1>1, <2>1, <2>2 DEF AccessInv
<1> QED
  BY <1>2, <1>3

(* Stages and guards that leave the claims alone.                          *)
LEMMA AnswerInv ==
    ASSUME AccessInv,
           Access!Bypass \/ Access!RevocationStage \/ Access!AuthOnlyStage \/ Access!RolesGuard
    PROVE  AccessInv'
<1>1. /\ Access!TypeOK /\ call.token \in Access!Tokens \cup {Access!NoToken}
      /\ call.barred \in BOOLEAN /\ (call.barred => revoked)
      /\ UNCHANGED <<config, call, revoked, user, brand>>
  BY DEF AccessInv, Access!Bypass, Access!RevocationStage, Access!AuthOnlyStage,
         Access!RolesGuard, Access!Answer
<1>2. Judged' <=> Judged
  BY <1>1 DEF Judged, Access!Genuine, Access!ExtractRoles
<1>3. CASE Access!Bypass
  <2>1. pc' = "roles" /\ call.exact /\ call.route \in Access!PublicHandlers
    BY <1>3 DEF Access!Bypass, Access!Answer, Access!ListedIn, Access!PublicPaths,
                Access!HoneypotPaths, Access!PublicHandlers
  <2>2. Access!TypeOK'
    BY <1>1, <2>1 DEF Access!TypeOK
  <2> QED
    BY <1>1, <2>1, <2>2 DEF AccessInv
<1>4. CASE Access!RevocationStage
  <2>1. Judged /\ pc' = IF revoked THEN "401" ELSE "authOnly"
    BY <1>4 DEF Access!RevocationStage, Access!Answer, AccessInv
  <2>2. Access!TypeOK'
    BY <1>1, <2>1 DEF Access!TypeOK
  <2> QED
    BY <1>1, <1>2, <2>1, <2>2 DEF AccessInv
<1>5. CASE Access!AuthOnlyStage
  <2>1. Judged /\ ~call.barred
        /\ pc' = IF Access!ListedIn(Access!AuthOnlyPaths) THEN "roles" ELSE "proxied"
    BY <1>5 DEF Access!AuthOnlyStage, Access!Answer, AccessInv
  <2>2. Access!TypeOK'
    BY <1>1, <2>1 DEF Access!TypeOK
  <2> QED
    BY <1>1, <1>2, <2>1, <2>2 DEF AccessInv, Access!ListedIn
<1>6. CASE Access!RolesGuard
  <2>1. /\ call.exact /\ (call.route \in Access!PublicHandlers \/ (Judged /\ ~call.barred))
        /\ pc' = IF call.route \in Access!RolesRequired /\ "admin" \notin user THEN "403" ELSE "jwt"
    BY <1>6 DEF Access!RolesGuard, Access!Answer, AccessInv
  <2>2. Access!TypeOK'
    BY <1>1, <2>1 DEF Access!TypeOK
  <2> QED
    BY <1>1, <1>2, <2>1, <2>2 DEF AccessInv
<1> QED
  BY <1>3, <1>4, <1>5, <1>6

(* JwtAuthGuard has nothing to do: what it guards was judged before.       *)
LEMMA JwtGuardInv ==
    ASSUME AccessInv, NEW fetched \in BOOLEAN, Access!JwtAuthGuard(fetched)
    PROVE  AccessInv'
<1>1. /\ Access!TypeOK /\ call.token \in Access!Tokens \cup {Access!NoToken}
      /\ call.barred \in BOOLEAN /\ (call.barred => revoked)
      /\ UNCHANGED <<config, call, revoked>>
  BY DEF AccessInv, Access!JwtAuthGuard
<1>2. /\ call.exact /\ (call.route \in Access!PublicHandlers \/ (Judged /\ ~call.barred))
      /\ call.route \in Access!RolesRequired => "admin" \in user
  BY DEF AccessInv, Access!JwtAuthGuard
<1>3. ~(call.route \in Access!JwtGuarded \ Access!PublicHandlers /\ ~brand)
  BY <1>2 DEF Judged
<1>4. brand \in BOOLEAN
  BY <1>1 DEF Access!TypeOK
<1>5. pc' = "handler" /\ user' = user /\ brand' = (brand \/ FALSE)
  BY <1>3 DEF Access!JwtAuthGuard
<1>6. brand' = brand
  BY <1>4, <1>5
<1>7. Judged' <=> Judged
  BY <1>1, <1>5, <1>6 DEF Judged, Access!Genuine, Access!ExtractRoles
<1>8. Access!TypeOK'
  BY <1>1, <1>5, <1>6 DEF Access!TypeOK
<1> QED
  BY <1>1, <1>2, <1>5, <1>7, <1>8 DEF AccessInv

(* Every step of access control keeps its invariant.                       *)
LEMMA AccessNext == AccessInv /\ [Access!Next]_accessVars => AccessInv'
<1> SUFFICES ASSUME AccessInv, [Access!Next]_accessVars PROVE AccessInv'
  OBVIOUS
<1>1. ASSUME NEW route \in Access!Routes, NEW exact \in BOOLEAN, NEW scheme \in Access!Schemes,
             NEW t \in Access!Tokens \cup {Access!NoToken}, Access!Arrive(route, exact, scheme, t)
      PROVE  AccessInv'
  <2>1. /\ pc' = "pipeline" /\ UNCHANGED <<config, revoked, user, brand>>
        /\ call'.token = t /\ call'.barred = revoked
    BY <1>1 DEF Access!Arrive
  <2>2. Access!TypeOK'
    BY <2>1 DEF AccessInv, Access!TypeOK
  <2>3. call'.barred \in BOOLEAN
    BY <2>1 DEF AccessInv, Access!TypeOK
  <2> QED
    BY <2>1, <2>2, <2>3 DEF AccessInv
<1>2. CASE Access!Revoke
  <2>1. revoked' = TRUE /\ UNCHANGED <<config, call, user, brand, pc>>
    BY <1>2 DEF Access!Revoke
  <2>2. Access!TypeOK'
    BY <2>1 DEF AccessInv, Access!TypeOK
  <2> QED
    BY <2>1, <2>2 DEF AccessInv, Judged, Access!Genuine, Access!ExtractRoles
<1>3. CASE UNCHANGED accessVars
  <2>1. UNCHANGED <<config, call, revoked, user, brand, pc>>
    BY <1>3 DEF accessVars
  <2>2. Access!TypeOK'
    BY <2>1 DEF AccessInv, Access!TypeOK
  <2> QED
    BY <2>1, <2>2 DEF AccessInv, Judged, Access!Genuine, Access!ExtractRoles
<1>4. "Bearer" \in Access!Schemes
  BY DEF Access!Schemes
<1> QED
  BY <1>1, <1>2, <1>3, <1>4, AuthStageInv, AnswerInv, JwtGuardInv DEF Access!Next

(* What the invariant says of a handler.                                   *)
LEMMA AccessMeaning == AccessInv => HandlersNeedAuthority
<1> SUFFICES ASSUME AccessInv PROVE HandlersNeedAuthority
  OBVIOUS
<1>1. pc = "proxied" \/ (pc = "handler" /\ call.route \notin Access!PublicHandlers) =>
        Judged /\ ~call.barred
  BY DEF AccessInv
<1>2. Access!RolesRequired \cap Access!PublicHandlers = {}
  BY DEF Access!RolesRequired, Access!PublicHandlers
<1>3. pc = "handler" /\ call.route \in Access!RolesRequired => call.token.roles = "[admin]"
  BY <1>1, <1>2, AdminIsListed DEF AccessInv, Judged
<1> QED
  BY <1>1, <1>3 DEF AccessInv, HandlersNeedAuthority, Access!HandlersNeedAuthority, Judged
-----------------------------------------------------------------------------
(* The deny list of fingerprints *)

(* What a decoy leaves behind for the TTL                                  *)
Held(p) == list[p] = [expiresAt |-> lastTrap[p] + Ttl, isTerminal |-> TRUE]

BlacklistInv ==
    /\ Blacklist!TypeOK
    /\ \A p \in Fingerprints : Blacklist!Caught(p) => Held(p)
    /\ \A r \in Requests : req[r].pc # "new" => req[r].fp \in Fingerprints

(* What the configuration says of the list.                                *)
LEMMA BlacklistAssumed ==
    /\ IsFiniteSet(Fingerprints) /\ Ttl \in Nat \ {0} /\ MaxNow \in Nat
    /\ Blacklist!Never \in Int /\ Blacklist!Never < 0
<1>1. IsFiniteSet(Fingerprints) /\ Ttl \in Nat \ {0} /\ MaxNow \in Nat
  BY TrustAssumption DEF Blacklist!BlacklistAssumption, Blacklist!IsFiniteSet, IsFiniteSet
<1> QED
  BY <1>1 DEF Blacklist!Never

(* Whatever the list, its size is within the number of fingerprints.       *)
LEMMA SizeInRange ==
    /\ \A l : Blacklist!Size(l) \in 0..Blacklist!Cardinality(Fingerprints)
    /\ Blacklist!Cardinality(Fingerprints) \in Nat
<1>1. \A S : Blacklist!Cardinality(S) = Cardinality(S)
  BY DEF Blacklist!Cardinality, Cardinality
<1>2. ASSUME NEW l PROVE Blacklist!Size(l) \in 0..Cardinality(Fingerprints)
  <2> DEFINE S == {p \in Fingerprints : l[p] # Blacklist!NoEntry}
  <2>1. S \subseteq Fingerprints
    OBVIOUS
  <2>2. /\ Cardinality(S) \in Nat /\ Cardinality(Fingerprints) \in Nat
        /\ Cardinality(S) <= Cardinality(Fingerprints)
    BY <2>1, BlacklistAssumed, FS_Subset, FS_CardinalityType
  <2>3. Blacklist!Size(l) = Cardinality(S)
    BY <1>1 DEF Blacklist!Size
  <2> QED
    BY <2>2, <2>3
<1> QED
  BY <1>1, <1>2, BlacklistAssumed, FS_CardinalityType

(* Nobody has been caught when the process starts.                         *)
LEMMA BlacklistInit == Blacklist!Init => BlacklistInv
<1> SUFFICES ASSUME Blacklist!Init PROVE BlacklistInv
  OBVIOUS
<1>1. /\ now = 0 /\ list = [p \in Fingerprints |-> Blacklist!NoEntry] /\ gauge = 0
      /\ req = [r \in Requests |-> Blacklist!NewRequest]
      /\ lastTrap = [p \in Fingerprints |-> Blacklist!Never]
  BY DEF Blacklist!Init
<1>2. Blacklist!TypeOK
  BY <1>1, BlacklistAssumed, SizeInRange DEF Blacklist!TypeOK, Blacklist!NewRequest
<1> QED
  BY <1>1, <1>2 DEF BlacklistInv, Blacklist!Caught, Blacklist!NewRequest

(* An entry a caught client has is not expired; so a read that evicts does *)
(* not evict it.                                                           *)
LEMMA CaughtNotExpired ==
    ASSUME BlacklistInv, NEW p \in Fingerprints, Blacklist!Caught(p)
    PROVE  /\ Held(p) /\ ~Blacklist!Expired(p)
           /\ list[p] # Blacklist!NoEntry /\ list[p].isTerminal
<1>1. /\ now \in 0..MaxNow /\ lastTrap[p] \in {Blacklist!Never} \cup 0..MaxNow
      /\ lastTrap[p] # Blacklist!Never /\ now < lastTrap[p] + Ttl /\ Held(p)
  BY DEF BlacklistInv, Blacklist!TypeOK, Blacklist!Caught
<1>2. lastTrap[p] \in Nat /\ now \in Nat /\ Ttl \in Nat
  BY <1>1, BlacklistAssumed
<1>3. list[p].expiresAt = lastTrap[p] + Ttl /\ list[p].isTerminal = TRUE
  BY <1>1 DEF Held
<1>4. ~(now >= list[p].expiresAt)
  BY <1>1, <1>2, <1>3
<1> QED
  BY <1>1, <1>3, <1>4 DEF Blacklist!Expired, Blacklist!NoEntry

(* isBlacklisted and isTerminal drop expired entries only.                 *)
LEMMA ReadEntryStep ==
    ASSUME BlacklistInv, NEW p \in Fingerprints, Blacklist!ReadEntry(p),
           UNCHANGED <<now, lastTrap>>
    PROVE  /\ list' \in [Fingerprints -> {Blacklist!NoEntry}
                           \cup [expiresAt : Ttl..(MaxNow + Ttl), isTerminal : {TRUE}]]
           /\ gauge' \in 0..Blacklist!Cardinality(Fingerprints)
           /\ \A q \in Fingerprints : Blacklist!Caught(q)' => Held(q)'
           /\ Blacklist!Caught(p) => list'[p] # Blacklist!NoEntry /\ list'[p].isTerminal
<1>1. /\ list \in [Fingerprints -> {Blacklist!NoEntry}
                     \cup [expiresAt : Ttl..(MaxNow + Ttl), isTerminal : {TRUE}]]
      /\ gauge \in 0..Blacklist!Cardinality(Fingerprints)
  BY DEF BlacklistInv, Blacklist!TypeOK
<1>2. ASSUME NEW q \in Fingerprints, Blacklist!Caught(q) PROVE list'[q] = list[q]
  BY <1>1, <1>2, CaughtNotExpired DEF Blacklist!ReadEntry
<1>3. \A q \in Fingerprints : Blacklist!Caught(q)' => Held(q)'
  <2> SUFFICES ASSUME NEW q \in Fingerprints, Blacklist!Caught(q)' PROVE Held(q)'
    OBVIOUS
  <2>1. Blacklist!Caught(q)
    BY DEF Blacklist!Caught
  <2> QED
    BY <1>2, <2>1, CaughtNotExpired DEF Held
<1>4. list' \in [Fingerprints -> {Blacklist!NoEntry}
                     \cup [expiresAt : Ttl..(MaxNow + Ttl), isTerminal : {TRUE}]]
  BY <1>1 DEF Blacklist!ReadEntry
<1>5. gauge' \in 0..Blacklist!Cardinality(Fingerprints)
  BY <1>1, SizeInRange DEF Blacklist!ReadEntry
<1>6. Blacklist!Caught(p) => list'[p] # Blacklist!NoEntry /\ list'[p].isTerminal
  BY <1>2, CaughtNotExpired
<1> QED
  BY <1>3, <1>4, <1>5, <1>6

(* Ja4hMiddleware refuses a caught client.                                 *)
LEMMA ArriveStep ==
    ASSUME BlacklistInv, NEW r \in Requests, NEW p \in Fingerprints, Blacklist!Arrive(r, p)
    PROVE  /\ BlacklistInv'
           /\ req'[r].fp = p /\ (Blacklist!Caught(p) => req'[r].pc = "refused")
           /\ \A q \in Requests \ {r} : req'[q] = req[q]
<1> DEFINE R == [pc : {"new", "refused", "inside", "trapped", "terminal", "scored"},
                 fp : Fingerprints \cup {"none"}, caughtBefore : BOOLEAN]
           c == [pc |-> IF list'[p] # Blacklist!NoEntry THEN "refused" ELSE "inside",
                 fp |-> p, caughtBefore |-> lastTrap[p] # Blacklist!Never]
<1>1. /\ Blacklist!ReadEntry(p) /\ UNCHANGED <<now, lastTrap>> /\ req' = [req EXCEPT ![r] = c]
      /\ Blacklist!TypeOK /\ req \in [Requests -> R]
  BY DEF BlacklistInv, Blacklist!Arrive, Blacklist!TypeOK
<1>2. c \in R /\ c.pc # "new" /\ c.fp = p
      /\ (list'[p] # Blacklist!NoEntry => c.pc = "refused")
  OBVIOUS
<1> HIDE DEF c
<1>3. req' \in [Requests -> R] /\ req'[r] = c /\ \A q \in Requests \ {r} : req'[q] = req[q]
  BY <1>1, <1>2
<1>4. Blacklist!TypeOK'
  BY <1>1, <1>3, ReadEntryStep DEF Blacklist!TypeOK
<1>5. \A q \in Requests : req'[q].pc # "new" => req'[q].fp \in Fingerprints
  BY <1>2, <1>3 DEF BlacklistInv
<1> QED
  BY <1>1, <1>2, <1>3, <1>4, <1>5, ReadEntryStep DEF BlacklistInv

(* evaluateScore gives a caught client the maximum.                        *)
LEMMA ScoreStep ==
    ASSUME BlacklistInv, NEW r \in Requests, Blacklist!Score(r)
    PROVE  /\ BlacklistInv'
           /\ req'[r].fp = req[r].fp
           /\ Blacklist!Caught(req[r].fp) => req'[r].pc = "terminal"
           /\ \A q \in Requests \ {r} : req'[q] = req[q]
<1> DEFINE R == [pc : {"new", "refused", "inside", "trapped", "terminal", "scored"},
                 fp : Fingerprints \cup {"none"}, caughtBefore : BOOLEAN]
           p == req[r].fp
           c == [req[r] EXCEPT !.pc = IF list'[p].isTerminal THEN "terminal" ELSE "scored"]
<1>1. /\ Blacklist!ReadEntry(p) /\ UNCHANGED <<now, lastTrap>>
      /\ Blacklist!TypeOK /\ req \in [Requests -> R] /\ req[r].pc = "inside"
  BY DEF BlacklistInv, Blacklist!Score, Blacklist!TypeOK
<1>2. req' = [req EXCEPT ![r] = c]
  BY DEF Blacklist!Score
<1>3. p \in Fingerprints
  BY <1>1 DEF BlacklistInv
<1>4. c \in R /\ c.pc # "new" /\ c.fp = p /\ (list'[p].isTerminal => c.pc = "terminal")
  BY <1>1
<1> HIDE DEF c
<1>5. req' \in [Requests -> R] /\ req'[r] = c /\ \A q \in Requests \ {r} : req'[q] = req[q]
  BY <1>1, <1>2, <1>4
<1>6. Blacklist!TypeOK'
  BY <1>1, <1>3, <1>5, ReadEntryStep DEF Blacklist!TypeOK
<1>7. \A q \in Requests : req'[q].pc # "new" => req'[q].fp \in Fingerprints
  BY <1>3, <1>4, <1>5 DEF BlacklistInv
<1> QED
  BY <1>1, <1>3, <1>4, <1>5, <1>6, <1>7, ReadEntryStep DEF BlacklistInv

(* trapAndRespond catches the client anew, from now on.                    *)
LEMMA TrapStep ==
    ASSUME BlacklistInv, NEW r \in Requests, Blacklist!Trap(r)
    PROVE  /\ BlacklistInv' /\ req'[r].pc = "trapped"
           /\ \A q \in Requests \ {r} : req'[q] = req[q]
<1> DEFINE R == [pc : {"new", "refused", "inside", "trapped", "terminal", "scored"},
                 fp : Fingerprints \cup {"none"}, caughtBefore : BOOLEAN]
           p == req[r].fp
           c == [req[r] EXCEPT !.pc = "trapped"]
           e == [expiresAt |-> now + Ttl, isTerminal |-> TRUE]
<1>1. /\ list' = [list EXCEPT ![p] = e] /\ gauge' = Blacklist!Size(list')
      /\ lastTrap' = [lastTrap EXCEPT ![p] = now] /\ now' = now
      /\ req' = [req EXCEPT ![r] = c] /\ req[r].pc = "inside"
  BY DEF Blacklist!Trap, Blacklist!Entry
<1>2. Blacklist!TypeOK /\ req \in [Requests -> R] /\ now \in 0..MaxNow
  BY DEF BlacklistInv, Blacklist!TypeOK
<1>3. p \in Fingerprints
  BY <1>1 DEF BlacklistInv
<1>4. c \in R /\ c.pc = "trapped" /\ c.fp = p
  BY <1>2
<1>5. e \in [expiresAt : Ttl..(MaxNow + Ttl), isTerminal : {TRUE}]
  BY <1>2, BlacklistAssumed
<1> HIDE DEF c, e
<1>6. req' \in [Requests -> R] /\ req'[r] = c /\ \A q \in Requests \ {r} : req'[q] = req[q]
  BY <1>1, <1>2, <1>4
<1>7. /\ list' \in [Fingerprints -> {Blacklist!NoEntry}
                     \cup [expiresAt : Ttl..(MaxNow + Ttl), isTerminal : {TRUE}]]
      /\ lastTrap' \in [Fingerprints -> {Blacklist!Never} \cup 0..MaxNow]
      /\ list'[p] = e /\ lastTrap'[p] = now
      /\ \A q \in Fingerprints \ {p} : list'[q] = list[q] /\ lastTrap'[q] = lastTrap[q]
  BY <1>1, <1>2, <1>3, <1>5 DEF Blacklist!TypeOK
<1>8. Blacklist!TypeOK'
  BY <1>1, <1>2, <1>6, <1>7, SizeInRange DEF Blacklist!TypeOK
<1>9. ASSUME NEW q \in Fingerprints, Blacklist!Caught(q)' PROVE Held(q)'
  <2>1. CASE q = p
    BY <1>7, <2>1 DEF Held, e
  <2>2. CASE q # p
    BY <1>1, <1>7, <1>9, <2>2 DEF BlacklistInv, Held, Blacklist!Caught
  <2> QED
    BY <2>1, <2>2
<1>10. \A q \in Requests : req'[q].pc # "new" => req'[q].fp \in Fingerprints
  BY <1>3, <1>4, <1>6 DEF BlacklistInv
<1> QED
  BY <1>4, <1>6, <1>8, <1>9, <1>10 DEF BlacklistInv

(* Time passes: who is caught later was caught before.                     *)
LEMMA BlacklistTickInv == BlacklistInv /\ Blacklist!Tick => BlacklistInv'
<1> SUFFICES ASSUME BlacklistInv, Blacklist!Tick PROVE BlacklistInv'
  OBVIOUS
<1>1. now < MaxNow /\ now' = now + 1 /\ UNCHANGED <<list, gauge, req, lastTrap>>
      /\ now \in 0..MaxNow /\ lastTrap \in [Fingerprints -> {Blacklist!Never} \cup 0..MaxNow]
  BY DEF Blacklist!Tick, BlacklistInv, Blacklist!TypeOK
<1>2. Blacklist!TypeOK'
  <2>1. now' \in 0..MaxNow
    BY <1>1, BlacklistAssumed
  <2> QED
    BY <1>1, <2>1 DEF BlacklistInv, Blacklist!TypeOK
<1>3. ASSUME NEW q \in Fingerprints, Blacklist!Caught(q)' PROVE Held(q)'
  <2>1. lastTrap[q] \in Int /\ now \in Int /\ Ttl \in Int
    BY <1>1, BlacklistAssumed
  <2>2. Blacklist!Caught(q)
    BY <1>1, <1>3, <2>1 DEF Blacklist!Caught
  <2> QED
    BY <1>1, <2>2 DEF BlacklistInv, Held
<1> QED
  BY <1>1, <1>2, <1>3 DEF BlacklistInv

(* Every step of the deny list keeps its invariant and lets no caught      *)
(* client on.                                                              *)
LEMMA BlacklistNext ==
    ASSUME BlacklistInv, [Blacklist!Next]_blacklistVars
    PROVE  /\ BlacklistInv'
           /\ \A r \in Requests :
                \/ req[r].pc = "new" /\ req'[r].pc = "inside"
                \/ req[r].pc = "inside" /\ req'[r].pc = "scored"
                => ~Blacklist!Caught(req'[r].fp)
<1>1. ASSUME NEW r \in Requests, NEW p \in Fingerprints, Blacklist!Arrive(r, p)
      PROVE  BlacklistInv' /\ \A q \in Requests :
                \/ req[q].pc = "new" /\ req'[q].pc = "inside"
                \/ req[q].pc = "inside" /\ req'[q].pc = "scored"
                => ~Blacklist!Caught(req'[q].fp)
  <2>1. req[r].pc = "new"
    BY <1>1 DEF Blacklist!Arrive
  <2> QED
    BY <1>1, <2>1, ArriveStep
<1>2. ASSUME NEW r \in Requests, Blacklist!Score(r)
      PROVE  BlacklistInv' /\ \A q \in Requests :
                \/ req[q].pc = "new" /\ req'[q].pc = "inside"
                \/ req[q].pc = "inside" /\ req'[q].pc = "scored"
                => ~Blacklist!Caught(req'[q].fp)
  <2>1. req[r].pc = "inside"
    BY <1>2 DEF Blacklist!Score
  <2> QED
    BY <1>2, <2>1, ScoreStep
<1>3. ASSUME NEW r \in Requests, Blacklist!Trap(r)
      PROVE  BlacklistInv' /\ \A q \in Requests :
                \/ req[q].pc = "new" /\ req'[q].pc = "inside"
                \/ req[q].pc = "inside" /\ req'[q].pc = "scored"
                => ~Blacklist!Caught(req'[q].fp)
  BY <1>3, TrapStep
<1>4. CASE Blacklist!Tick
  <2>1. UNCHANGED req
    BY <1>4 DEF Blacklist!Tick
  <2> QED
    BY <1>4, <2>1, BlacklistTickInv
<1>5. CASE UNCHANGED blacklistVars
  <2>1. UNCHANGED <<now, list, gauge, req, lastTrap>>
    BY <1>5 DEF blacklistVars
  <2>2. Blacklist!TypeOK'
    BY <2>1 DEF BlacklistInv, Blacklist!TypeOK
  <2>3. BlacklistInv'
    BY <2>1, <2>2 DEF BlacklistInv, Held, Blacklist!Caught
  <2> QED
    BY <2>1, <2>3
<1> QED
  BY <1>1, <1>2, <1>3, <1>4, <1>5 DEF Blacklist!Next
-----------------------------------------------------------------------------
(* The trust score *)

(* The score is out only when every signal is in; one that faulted is not  *)
(* read again and weighs FaultDelta                                        *)
ScoreInv ==
    /\ Score!TypeOK /\ (todo # {} => score = -1)
    /\ \A s \in Score!Signals : s \in faulted => s \notin todo /\ delta[s] = Score!FaultDelta
    /\ OutageAndDecayFailClosed

(* Sums are clamped to thousandths of [0, 1].                              *)
Clamped(x) == IF x < 0 THEN 0 ELSE IF x > 1000 THEN 1000 ELSE x

(* What evaluateScore returns is its sum, clamped.                         *)
LEMMA TotalClamps ==
    ASSUME NEW a \in [Score!Signals -> Int], NEW c \in Int
    PROVE  /\ Score!Sum(a) \in Int
           /\ Score!Total(a, c) = Clamped(500 + Score!Sum(a) + c)
           /\ Score!Total(a, c) \in 0..1000
<1>1. \A x, y \in Int : Score!Min({x, y}) = IF x <= y THEN x ELSE y
  BY DEF Score!Min
<1>2. \A x, y \in Int : Score!Max({x, y}) = IF x >= y THEN x ELSE y
  BY DEF Score!Max
<1>3. Score!Sum(a) \in Int
  BY DEF Score!Sum, Score!Signals, Score!Rules
<1> DEFINE x == 500 + Score!Sum(a) + c
<1>4. x \in Int
  BY <1>3
<1>5. Score!Total(a, c) = Score!Max({0, Score!Min({1000, x})})
  BY DEF Score!Total
<1> HIDE DEF x
<1>6. Score!Min({1000, x}) = IF 1000 <= x THEN 1000 ELSE x
  BY <1>1, <1>4
<1>7. Score!Min({1000, x}) \in Int
  BY <1>4, <1>6
<1>8. Score!Total(a, c) = IF 0 >= Score!Min({1000, x}) THEN 0 ELSE Score!Min({1000, x})
  BY <1>2, <1>5, <1>7
<1>9. Score!Total(a, c) = Clamped(x) /\ Clamped(x) \in 0..1000
  BY <1>4, <1>6, <1>8 DEF Clamped
<1> QED
  BY <1>3, <1>9 DEF x

(* Decay takes back a share of a discount, never more than all of it.      *)
LEMMA ShareOfDiscount ==
    ASSUME NEW d \in Int, d < 0, NEW k \in 0..100
    PROVE  (d * (k - 100)) \div 100 \in 0..(-d)
<1> DEFINE x == d * (k - 100)
<1>1. x \in Int /\ 0 <= x /\ x <= 100 * (-d)
  BY SMT
<1> HIDE DEF x
<1>2. x \div 100 \in 0..(-d)
  BY <1>1
<1> QED
  BY <1>2 DEF x

(* attenuate corrects the sum upwards, by no more than the discounts that  *)
(* decay.                                                                  *)
LEMMA CorrectionBounds ==
    ASSUME Score!TypeOK, Score!ScoreAssumption
    PROVE  LET without == [s \in Score!Signals |->
                             IF s \in Score!Decayable /\ delta[s] < 0 THEN 0 ELSE delta[s]]
           IN  /\ delta \in [Score!Signals -> Int] /\ without \in [Score!Signals -> Int]
               /\ Score!Correction(delta) \in Nat
               /\ Score!Sum(delta) + Score!Correction(delta) <= Score!Sum(without)
<1> DEFINE without == [s \in Score!Signals |->
                         IF s \in Score!Decayable /\ delta[s] < 0 THEN 0 ELSE delta[s]]
           share(s) == IF delta[s] < 0 THEN (delta[s] * (profile.k - 100)) \div 100 ELSE 0
<1>1. /\ profile.k \in 0..100 /\ delta \in [Score!Signals -> Int]
      /\ "device" \in Score!Signals /\ "ip" \in Score!Signals /\ "frequency" \in Score!Signals
      /\ "drift" \in Score!Signals /\ "anomaly" \in Score!Signals
  <2>1. profile.k \in DecayFactors \cup {100}
    BY DEF Score!TypeOK
  <2>2. DecayFactors \cup {100} \subseteq 0..100
    BY DEF Score!ScoreAssumption
  <2>3. delta \in [Score!Signals -> -150..400]
    BY DEF Score!TypeOK
  <2>4. delta \in [Score!Signals -> Int]
    BY <2>3
  <2>5. /\ "device" \in Score!Signals /\ "ip" \in Score!Signals /\ "frequency" \in Score!Signals
        /\ "drift" \in Score!Signals /\ "anomaly" \in Score!Signals
    BY DEF Score!Signals, Score!Rules
  <2> QED
    BY <2>1, <2>2, <2>4, <2>5
<1>2. without \in [Score!Signals -> Int]
  BY <1>1
<1>3. /\ without["device"] = IF delta["device"] < 0 THEN 0 ELSE delta["device"]
      /\ without["ip"] = IF delta["ip"] < 0 THEN 0 ELSE delta["ip"]
      /\ without["frequency"] = delta["frequency"]
      /\ without["drift"] = delta["drift"] /\ without["anomaly"] = delta["anomaly"]
  BY <1>1 DEF Score!Decayable
<1>4. ASSUME NEW s \in Score!Signals
      PROVE  share(s) \in Nat /\ (delta[s] < 0 => delta[s] + share(s) <= 0)
             /\ (~(delta[s] < 0) => share(s) = 0)
  <2>1. delta[s] \in Int
    BY <1>1
  <2>2. CASE delta[s] < 0
    <3>1. share(s) \in 0..(-delta[s])
      BY <1>1, <2>1, <2>2, ShareOfDiscount
    <3> QED
      BY <2>1, <2>2, <3>1
  <2>3. CASE ~(delta[s] < 0)
    BY <2>3
  <2> QED
    BY <2>2, <2>3
<1>5. Score!Correction(delta) = IF profile.allows = 0 THEN 0 ELSE share("device") + share("ip")
  BY DEF Score!Correction
<1> HIDE DEF share, without
<1>6. share("device") \in Nat /\ share("ip") \in Nat
  BY <1>1, <1>4
<1>7. Score!Correction(delta) \in Nat
  BY <1>5, <1>6
<1>8. /\ delta["device"] \in Int /\ delta["ip"] \in Int /\ delta["frequency"] \in Int
      /\ delta["drift"] \in Int /\ delta["anomaly"] \in Int
  BY <1>1
<1>9. delta["device"] + share("device") <= without["device"]
      /\ delta["ip"] + share("ip") <= without["ip"]
  BY <1>1, <1>3, <1>4, <1>8
<1>10. without["device"] \in Int /\ without["ip"] \in Int
  BY <1>3, <1>8
<1>11. /\ Score!Sum(delta) = delta["device"] + delta["ip"] + delta["frequency"]
                             + delta["drift"] + delta["anomaly"]
       /\ Score!Sum(without) = without["device"] + without["ip"] + without["frequency"]
                             + without["drift"] + without["anomaly"]
  BY DEF Score!Sum
<1>12. Score!Sum(delta) + Score!Correction(delta) <= Score!Sum(without)
  BY <1>3, <1>5, <1>6, <1>8, <1>9, <1>10, <1>11
<1> QED
  BY <1>1, <1>2, <1>7, <1>12 DEF without
(* What the configuration says of the score.                               *)
LEMMA ScoreAssumed == Score!ScoreAssumption
  BY TrustAssumption

(* Nothing is read when evaluateScore begins.                              *)
LEMMA ScoreInit == Score!Init => ScoreInv
<1> SUFFICES ASSUME Score!Init PROVE ScoreInv
  OBVIOUS
<1>1. /\ profile \in [allows : 0..MaxAllows, drifted : BOOLEAN, k : DecayFactors]
      /\ ipAllows \in 0..MaxAllows /\ recent \in 0..MaxAllows
      /\ delta = [s \in Score!Signals |-> 0] /\ would = delta
      /\ faulted = {} /\ todo = Score!Signals /\ score = -1
  BY DEF Score!Init
<1>2. delta \in [Score!Signals -> -150..400]
  BY <1>1
<1>3. profile \in [allows : 0..MaxAllows, drifted : BOOLEAN, k : DecayFactors \cup {100}]
  BY <1>1
<1>4. Score!TypeOK
  BY <1>1, <1>2, <1>3 DEF Score!TypeOK
<1> QED
  BY <1>1, <1>4 DEF ScoreInv, OutageAndDecayFailClosed, Score!OutageAndDecayFailClosed,
                    Score!OutageScoresMaximum, Score!DecayOnlyCancels

(* What a signal may add to the score.                                     *)
LEMMA ValuesInRange ==
    ASSUME NEW s \in Score!Signals
    PROVE  Score!Values(s) \subseteq -150..400
<1>1. Anomalies \subseteq 0..400
  BY ScoreAssumed DEF Score!ScoreAssumption
<1>2. Score!AnomalyDeltas \subseteq -150..400
  BY <1>1 DEF Score!AnomalyDeltas
<1>3. Score!DriftDelta \in -150..400
  BY DEF Score!DriftDelta
<1>4. CASE s = "device"
  <2>1. Score!RuleDelta("device") \in -150..400
    BY DEF Score!RuleDelta
  <2>2. Score!Values("device") = {Score!RuleDelta("device")}
    BY DEF Score!Values, Score!Rules
  <2> QED
    BY <1>4, <2>1, <2>2
<1>5. CASE s = "ip"
  <2>1. Score!RuleDelta("ip") \in -150..400
    BY DEF Score!RuleDelta
  <2>2. Score!Values("ip") = {Score!RuleDelta("ip")}
    BY DEF Score!Values, Score!Rules
  <2> QED
    BY <1>5, <2>1, <2>2
<1>6. CASE s = "frequency"
  <2>1. Score!RuleDelta("frequency") \in -150..400
    BY DEF Score!RuleDelta
  <2>2. Score!Values("frequency") = {Score!RuleDelta("frequency")}
    BY DEF Score!Values, Score!Rules
  <2> QED
    BY <1>6, <2>1, <2>2
<1>7. CASE s = "drift"
  <2>1. Score!Values("drift") = {Score!DriftDelta}
    BY DEF Score!Values, Score!Rules
  <2> QED
    BY <1>3, <1>7, <2>1
<1>8. CASE s = "anomaly"
  <2>1. Score!Values("anomaly") = Score!AnomalyDeltas
    BY DEF Score!Values, Score!Rules
  <2> QED
    BY <1>2, <1>8, <2>1
<1> QED
  BY <1>4, <1>5, <1>6, <1>7, <1>8 DEF Score!Signals, Score!Rules

(* A signal is read, or faults, while the score is not out.                *)
LEMMA SignalInv ==
    ASSUME ScoreInv, NEW s \in Score!Signals, Score!Compute(s) \/ Score!Fault(s)
    PROVE  ScoreInv'
<1>1. PICK d \in Score!Values(s) :
        /\ s \in todo /\ todo' = todo \ {s} /\ UNCHANGED <<profile, ipAllows, recent, score>>
        /\ would' = [would EXCEPT ![s] = d]
        /\ \/ delta' = [delta EXCEPT ![s] = d] /\ faulted' = faulted
           \/ delta' = [delta EXCEPT ![s] = Score!FaultDelta] /\ faulted' = faulted \cup {s}
  BY DEF Score!Compute, Score!Fault
<1>2. Score!TypeOK /\ d \in -150..400 /\ Score!FaultDelta \in -150..400
  BY ValuesInRange DEF ScoreInv, Score!FaultDelta
<1>3. delta \in [Score!Signals -> -150..400] /\ would \in [Score!Signals -> -150..400]
      /\ todo \in SUBSET Score!Signals /\ faulted \in SUBSET (Score!Signals \cup {"decay"})
  BY <1>2 DEF Score!TypeOK
<1>4. delta' \in [Score!Signals -> -150..400] /\ would' \in [Score!Signals -> -150..400]
  BY <1>1, <1>2, <1>3
<1>5. todo' \in SUBSET Score!Signals /\ faulted' \in SUBSET (Score!Signals \cup {"decay"})
  BY <1>1, <1>3
<1>6. Score!TypeOK'
  BY <1>1, <1>2, <1>4, <1>5 DEF Score!TypeOK
<1>7. ASSUME NEW q \in Score!Signals, q \in faulted'
      PROVE  q \notin todo' /\ delta'[q] = Score!FaultDelta
  <2>1. CASE q = s
    <3>1. s \notin faulted
      BY <1>1 DEF ScoreInv
    <3> QED
      BY <1>1, <1>3, <1>7, <2>1, <3>1
  <2>2. CASE q # s
    BY <1>1, <1>3, <1>7, <2>2 DEF ScoreInv
  <2> QED
    BY <2>1, <2>2
<1>8. score = -1
  BY <1>1 DEF ScoreInv
<1> QED
  BY <1>1, <1>6, <1>7, <1>8
  DEF ScoreInv, OutageAndDecayFailClosed, Score!OutageAndDecayFailClosed,
      Score!OutageScoresMaximum, Score!DecayOnlyCancels, Score!FaultDelta
(* Every read failed: the signals alone add up to the maximum.             *)
LEMMA AllFaulted ==
    ASSUME ScoreInv, Score!Signals \subseteq faulted
    PROVE  Score!Sum(delta) = 500
<1>1. \A s \in {"device", "ip", "frequency", "drift", "anomaly"} : delta[s] = 100
  BY DEF ScoreInv, Score!FaultDelta, Score!Signals, Score!Rules
<1> QED
  BY <1>1 DEF Score!Sum

(* evaluateScore returns, with decay applied or its read faulted.          *)
LEMMA FinishInv ==
    ASSUME ScoreInv, Score!Finish \/ Score!FinishDecayFault
    PROVE  ScoreInv'
<1> DEFINE without == [s \in Score!Signals |->
                         IF s \in Score!Decayable /\ delta[s] < 0 THEN 0 ELSE delta[s]]
<1>1. /\ todo = {} /\ UNCHANGED <<profile, ipAllows, recent, delta, would, todo>>
      /\ \/ faulted' = faulted /\ score' = Score!Total(delta, Score!Correction(delta))
         \/ faulted' = faulted \cup {"decay"} /\ score' = Score!Total(delta, Score!FaultDelta)
  BY DEF Score!Finish, Score!FinishDecayFault
<1>2. /\ Score!TypeOK /\ delta \in [Score!Signals -> Int] /\ without \in [Score!Signals -> Int]
      /\ Score!Correction(delta) \in Nat
      /\ Score!Sum(delta) + Score!Correction(delta) <= Score!Sum(without)
  BY CorrectionBounds, ScoreAssumed DEF ScoreInv
<1>3. Score!FaultDelta \in Nat
  BY DEF Score!FaultDelta
<1>4. PICK c \in Nat : score' = Score!Total(delta, c)
                      /\ ("decay" \notin faulted' => c = Score!Correction(delta))
  BY <1>1, <1>2, <1>3
<1> HIDE DEF without
<1>5. /\ Score!Sum(delta) \in Int /\ Score!Sum(without) \in Int
      /\ score' = Clamped(500 + Score!Sum(delta) + c) /\ score' \in 0..1000
      /\ Score!Total(delta, 0) = Clamped(500 + Score!Sum(delta) + 0)
      /\ Score!Total(without, 0) = Clamped(500 + Score!Sum(without) + 0)
  <2> DEFINE Adjustments == [Score!Signals -> Int]
  <2>1. delta \in Adjustments /\ without \in Adjustments
    BY <1>2
  <2>2. \A a \in Adjustments : Score!Sum(a) \in Int
    BY TotalClamps
  <2>3. \A a \in Adjustments, x \in Int : Score!Total(a, x) = Clamped(500 + Score!Sum(a) + x)
    BY TotalClamps
  <2>4. \A a \in Adjustments : Score!Total(a, 0) = Clamped(500 + Score!Sum(a) + 0)
    <3>1. 0 \in Int
      OBVIOUS
    <3> QED
      BY <2>3, <3>1
  <2> HIDE DEF Adjustments
  <2>5. Score!Sum(delta) \in Int /\ Score!Sum(without) \in Int
    BY <2>1, <2>2
  <2>6. c \in Int /\ score' = Score!Total(delta, c)
    BY <1>4
  <2>7. score' = Clamped(500 + Score!Sum(delta) + c)
    BY <2>1, <2>3, <2>6
  <2>8. Score!Total(delta, 0) = Clamped(500 + Score!Sum(delta) + 0)
    BY <2>1, <2>4
  <2>9. Score!Total(without, 0) = Clamped(500 + Score!Sum(without) + 0)
    BY <2>1, <2>4
  <2>10. score' \in 0..1000
    BY <2>5, <2>6, <2>7 DEF Clamped
  <2> QED
    BY <2>5, <2>7, <2>8, <2>9, <2>10
<1>6. Score!Signals \subseteq faulted' => score' = 1000
  <2> SUFFICES ASSUME Score!Signals \subseteq faulted' PROVE score' = 1000
    OBVIOUS
  <2>1. Score!Signals \subseteq faulted
    BY <1>1 DEF Score!Signals, Score!Rules
  <2>2. Score!Sum(delta) = 500
    BY <2>1, AllFaulted
  <2> QED
    BY <1>5, <2>2 DEF Clamped
<1>7. "decay" \notin faulted' => score' >= Score!Total(delta, 0) /\ score' <= Score!Total(without, 0)
  BY <1>2, <1>4, <1>5 DEF Clamped
<1>8. Score!OutageAndDecayFailClosed'
  <2>1. Score!Total(delta, 0)' = Score!Total(delta, 0) /\ Score!Total(without, 0)' = Score!Total(without, 0)
    BY <1>1 DEF without, Score!Total, Score!Sum
  <2> QED
    BY <1>1, <1>6, <1>7, <2>1
    DEF without, Score!OutageAndDecayFailClosed, Score!OutageScoresMaximum, Score!DecayOnlyCancels
<1>9. Score!TypeOK'
  <2>1. faulted' \in SUBSET (Score!Signals \cup {"decay"}) /\ score' \in -1..1000
    BY <1>1, <1>2, <1>5 DEF Score!TypeOK
  <2> QED
    BY <1>1, <1>2, <2>1 DEF Score!TypeOK
<1>10. \A s \in Score!Signals : s \in faulted' => s \notin todo' /\ delta'[s] = Score!FaultDelta
  BY <1>1 DEF ScoreInv, Score!Signals, Score!Rules
<1> QED
  BY <1>1, <1>8, <1>9, <1>10 DEF ScoreInv, OutageAndDecayFailClosed, Score!FaultDelta

(* Every step of the score keeps its invariant.                            *)
LEMMA ScoreNext == ScoreInv /\ [Score!Next]_scoreVars => ScoreInv'
<1> SUFFICES ASSUME ScoreInv, [Score!Next]_scoreVars PROVE ScoreInv'
  OBVIOUS
<1>1. CASE Score!RecordHere \/ Score!RecordElsewhere
  <2>1. score = -1 /\ UNCHANGED <<delta, would, faulted, todo, score>>
    BY <1>1 DEF Score!RecordHere, Score!RecordElsewhere
  <2>2. profile' \in [allows : 0..MaxAllows, drifted : BOOLEAN, k : DecayFactors \cup {100}]
    <3>1. profile \in [allows : 0..MaxAllows, drifted : BOOLEAN, k : DecayFactors \cup {100}]
          /\ MaxAllows \in Nat
      BY ScoreAssumed DEF ScoreInv, Score!TypeOK, Score!ScoreAssumption
    <3>2. CASE Score!RecordHere
      <4>1. PICK d \in BOOLEAN : profile' = [allows |-> profile.allows + 1, drifted |-> d, k |-> 100]
        BY <3>2 DEF Score!RecordHere
      <4>2. profile.allows + 1 \in 0..MaxAllows
        BY <3>1, <3>2 DEF Score!RecordHere
      <4> QED
        BY <4>1, <4>2
    <3>3. CASE Score!RecordElsewhere
      BY <3>1, <3>3 DEF Score!RecordElsewhere
    <3> QED
      BY <1>1, <3>2, <3>3
  <2>3. ipAllows' \in 0..MaxAllows /\ recent' \in 0..MaxAllows
    <3>1. ipAllows \in 0..MaxAllows /\ recent \in 0..MaxAllows /\ MaxAllows \in Nat
      BY ScoreAssumed DEF ScoreInv, Score!TypeOK, Score!ScoreAssumption
    <3> QED
      BY <1>1, <3>1 DEF Score!RecordHere, Score!RecordElsewhere
  <2>4. Score!TypeOK'
    BY <2>1, <2>2, <2>3 DEF ScoreInv, Score!TypeOK
  <2> QED
    BY <2>1, <2>4
    DEF ScoreInv, OutageAndDecayFailClosed, Score!OutageAndDecayFailClosed,
        Score!OutageScoresMaximum, Score!DecayOnlyCancels, Score!FaultDelta
<1>2. CASE UNCHANGED scoreVars
  <2>1. UNCHANGED <<profile, ipAllows, recent, delta, would, faulted, todo, score>>
    BY <1>2 DEF scoreVars
  <2>2. Score!TypeOK'
    BY <2>1 DEF ScoreInv, Score!TypeOK
  <2> QED
    BY <2>1, <2>2
    DEF ScoreInv, OutageAndDecayFailClosed, Score!OutageAndDecayFailClosed,
        Score!OutageScoresMaximum, Score!DecayOnlyCancels, Score!FaultDelta, Score!Total, Score!Sum
<1> QED
  BY <1>1, <1>2, SignalInv, FinishInv DEF Score!Next
-----------------------------------------------------------------------------
(* base32, for every secret.  What the two loops have read is a sequence   *)
(* of bits; after each step the word is the end of it and the output its   *)
(* first pieces, so that both only cut the same bits differently.          *)

(* The five bits of a number, from the top.                                *)
LEMMA Bits5 ==
    ASSUME NEW n \in Nat
    PROVE  /\ Codes!ToBits(n, 5)[1] = (n \div 16) % 2
           /\ Codes!ToBits(n, 5)[2] = (n \div 8) % 2
           /\ Codes!ToBits(n, 5)[3] = (n \div 4) % 2
           /\ Codes!ToBits(n, 5)[4] = (n \div 2) % 2
           /\ Codes!ToBits(n, 5)[5] = n % 2
<1>1. 2^(5-1) = 16 /\ 2^(5-2) = 8 /\ 2^(5-3) = 4 /\ 2^(5-4) = 2 /\ 2^(5-5) = 1
  OBVIOUS
<1>2. n \div 1 = n
  OBVIOUS
<1> QED
  BY <1>1, <1>2 DEF Codes!ToBits

(* The eight bits of a number, from the top.                               *)
LEMMA Bits8 ==
    ASSUME NEW n \in Nat
    PROVE  /\ Codes!ToBits(n, 8)[1] = (n \div 128) % 2
           /\ Codes!ToBits(n, 8)[2] = (n \div 64) % 2
           /\ Codes!ToBits(n, 8)[3] = (n \div 32) % 2
           /\ Codes!ToBits(n, 8)[4] = (n \div 16) % 2
           /\ Codes!ToBits(n, 8)[5] = (n \div 8) % 2
           /\ Codes!ToBits(n, 8)[6] = (n \div 4) % 2
           /\ Codes!ToBits(n, 8)[7] = (n \div 2) % 2
           /\ Codes!ToBits(n, 8)[8] = n % 2
<1>1. /\ 2^(8-1) = 128 /\ 2^(8-2) = 64 /\ 2^(8-3) = 32 /\ 2^(8-4) = 16 
      /\ 2^(8-5) = 8 /\ 2^(8-6) = 4 /\ 2^(8-7) = 2 /\ 2^(8-8) = 1
  OBVIOUS
<1>2. n \div 1 = n
  OBVIOUS
<1> QED
  BY <1>1, <1>2 DEF Codes!ToBits

(* A quotient is twice the next one and a bit.                             *)
LEMMA HalfOf ==
    ASSUME NEW n \in Nat, NEW m \in Nat \ {0}
    PROVE  n \div m = 2 * (n \div (2 * m)) + ((n \div m) % 2)
<1>1. PICK q \in Nat : q = n \div m
  OBVIOUS
<1>2. m * q <= n /\ n < m * q + m
  BY <1>1
<1>3. PICK p \in Nat : p = q \div 2
  OBVIOUS
<1>4. q = 2 * p + (q % 2) /\ (q = 2 * p \/ q = 2 * p + 1)
  BY <1>3
<1>5. (2 * m) * p <= n /\ n < (2 * m) * p + 2 * m
  BY <1>2, <1>4
<1>6. n \div (2 * m) = p
  BY <1>5
<1> QED
  BY <1>1, <1>4, <1>6

(* A byte is the sum of its bits.                                          *)
LEMMA Halves ==
    ASSUME NEW n \in 0..255
    PROVE  n = 128 * ((n \div 128) % 2) + 64 * ((n \div 64) % 2) + 32 * ((n \div 32) % 2)
             + 16 * ((n \div 16) % 2) + 8 * ((n \div 8) % 2) + 4 * ((n \div 4) % 2)
             + 2 * ((n \div 2) % 2) + (n % 2)
<1>1. n \div 1 = n /\ n = 2 * (n \div 2) + (n % 2)
  OBVIOUS
<1>2. n \div 2 = 2 * (n \div 4) + ((n \div 2) % 2)
  BY HalfOf
<1>3. n \div 4 = 2 * (n \div 8) + ((n \div 4) % 2)
  BY HalfOf
<1>4. n \div 8 = 2 * (n \div 16) + ((n \div 8) % 2)
  BY HalfOf
<1>5. n \div 16 = 2 * (n \div 32) + ((n \div 16) % 2)
  BY HalfOf
<1>6. n \div 32 = 2 * (n \div 64) + ((n \div 32) % 2)
  BY HalfOf
<1>7. n \div 64 = 2 * (n \div 128) + ((n \div 64) % 2)
  BY HalfOf
<1>8. n \div 128 = (n \div 128) % 2
  OBVIOUS
<1> QED
  BY <1>1, <1>2, <1>3, <1>4, <1>5, <1>6, <1>7, <1>8

(* A nonempty set of numbers has a least element: natural numbers are      *)
(* well-founded.                                                           *)
LEMMA LeastNatural ==
    ASSUME NEW T \in SUBSET Nat, T # {}
    PROVE  \E x \in T : \A y \in T : x <= y
<1> DEFINE R == OpToRel(<, Nat)
<1>1. IsWellFoundedOn(R, Nat)
  BY NatLessThanWellFounded
<1>2. \A x, y \in Nat : x < y => <<x, y>> \in R
  BY DEF OpToRel
<1> HIDE DEF R
<1>3. PICK x \in T : \A y \in T : ~ (<<y, x>> \in R)
  BY <1>1, WFMin
<1>4. ASSUME NEW y \in T PROVE x <= y
  <2>1. x \in Nat /\ y \in Nat
    OBVIOUS
  <2>2. ~ (y < x)
    BY <1>2, <1>3, <2>1
  <2> QED
    BY <2>1, <2>2
<1> QED
  BY <1>4

(* Two runs from one start, where equal states have equal successors, end  *)
(* alike.                                                                  *)
LEMMA SameRun ==
    ASSUME NEW n \in Nat, NEW u, NEW w, u[0] = w[0],
           \A i \in 1..n : u[i - 1] = w[i - 1] => u[i] = w[i]
    PROVE  u[n] = w[n]
<1> DEFINE T == {i \in 0..n : u[i] # w[i]}
<1>1. T \in SUBSET Nat
  OBVIOUS
<1> SUFFICES ASSUME T # {} PROVE FALSE
  OBVIOUS
<1>2. PICK x \in T : \A y \in T : x <= y
  BY <1>1, LeastNatural
<1>3. x \in 1..n /\ x - 1 \in 0..n /\ x - 1 \notin T
  BY <1>2
<1> QED
  BY <1>3

(* A run of 2 * n + b over the bits ends in their value.                   *)
LEMMA ValueIs ==
    ASSUME NEW b, NEW u, NEW n \in Nat, Len(b) = n, u[0] = 0,
           \A i \in 1..n : u[i] = 2 * u[i - 1] + b[i]
    PROVE  Codes!Value(b) = u[n]
<1> DEFINE Eq(v) == v = [i \in 0..n |-> IF i = 0 THEN 0 ELSE 2 * v[i - 1] + b[i]]
<1>1. Codes!Value(b) = (CHOOSE v : Eq(v))[n]
  BY DEF Codes!Value
<1>2. PICK t : Eq(t)
  <2>1. PICK t : t = [i \in 0..n |-> u[i]]
    OBVIOUS
  <2>2. ASSUME NEW i \in 0..n PROVE t[i] = IF i = 0 THEN 0 ELSE 2 * t[i - 1] + b[i]
    <3>1. CASE i = 0
      BY <2>1, <3>1
    <3>2. CASE i # 0
      <4>1. i \in 1..n /\ i - 1 \in 0..n
        BY <3>2
      <4> QED
        BY <2>1, <3>2, <4>1
    <3> QED
      BY <3>1, <3>2
  <2>3. [i \in 0..n |-> t[i]] = [i \in 0..n |-> IF i = 0 THEN 0 ELSE 2 * t[i - 1] + b[i]]
    BY <2>2, Zenon
  <2>4. t = [i \in 0..n |-> t[i]]
    BY <2>1
  <2> QED
    BY <2>3, <2>4, Zenon
<1>3. PICK w : Eq(w) /\ Codes!Value(b) = w[n]
  <2> HIDE DEF Eq
  <2> QED
    BY <1>1, <1>2
<1>4. w[0] = 0 /\ \A i \in 1..n : w[i] = 2 * w[i - 1] + b[i]
  <2>1. PICK g : g = [i \in 0..n |-> IF i = 0 THEN 0 ELSE 2 * w[i - 1] + b[i]]
    OBVIOUS
  <2>2. g[0] = 0 /\ \A i \in 1..n : g[i] = 2 * w[i - 1] + b[i]
    BY <2>1
  <2>3. w = g
    BY <1>3, <2>1, Zenon
  <2> QED
    BY <2>2, <2>3, Zenon
<1> HIDE DEF Eq
<1>5. u[n] = w[n]
  <2>1. u[0] = w[0] /\ \A i \in 1..n : u[i - 1] = w[i - 1] => u[i] = w[i]
    BY <1>4, Zenon
  <2> QED
    BY <2>1, SameRun
<1> QED
  BY <1>3, <1>5

(* The value of five bits.                                                 *)
LEMMA Value5 ==
    ASSUME NEW b, Len(b) = 5,
           b[1] \in 0..1, b[2] \in 0..1, b[3] \in 0..1, b[4] \in 0..1, b[5] \in 0..1
    PROVE  Codes!Value(b) = 16 * b[1] + 8 * b[2] + 4 * b[3] + 2 * b[4] + b[5]
<1>0. PICK u : u = [i \in 0..5 |->
        CASE i = 0 -> 0 [] i = 1 -> b[1] [] i = 2 -> 2 * b[1] + b[2]
          [] i = 3 -> 4 * b[1] + 2 * b[2] + b[3]
          [] i = 4 -> 8 * b[1] + 4 * b[2] + 2 * b[3] + b[4]
          [] OTHER -> 16 * b[1] + 8 * b[2] + 4 * b[3] + 2 * b[4] + b[5]]
  OBVIOUS
<1>1. u[0] = 0 /\ \A i \in 1..5 : u[i] = 2 * u[i - 1] + b[i]
  BY <1>0
<1>2. u[5] = 16 * b[1] + 8 * b[2] + 4 * b[3] + 2 * b[4] + b[5]
  BY <1>0
<1>3. Codes!Value(b) = u[5]
  <2>1. PICK n \in Nat : n = 5
    OBVIOUS
  <2>2. n \in Nat /\ Len(b) = n /\ \A i \in 1..n : u[i] = 2 * u[i - 1] + b[i]
    BY <1>1, <2>1
  <2>3. Codes!Value(b) = u[n]
    BY ONLY <1>1, <2>2, ValueIs
  <2> QED
    BY <2>1, <2>3
<1> QED
  BY <1>2, <1>3

(* The value of eight bits.                                                *)
LEMMA Value8 ==
    ASSUME NEW b, Len(b) = 8,
           b[1] \in 0..1, b[2] \in 0..1, b[3] \in 0..1, b[4] \in 0..1, b[5] \in 0..1,
           b[6] \in 0..1, b[7] \in 0..1, b[8] \in 0..1
    PROVE  Codes!Value(b) = 128 * b[1] + 64 * b[2] + 32 * b[3] + 16 * b[4]
                              + 8 * b[5] + 4 * b[6] + 2 * b[7] + b[8]
<1>0. PICK u : u = [i \in 0..8 |->
        CASE i = 0 -> 0 [] i = 1 -> b[1] [] i = 2 -> 2 * b[1] + b[2]
          [] i = 3 -> 4 * b[1] + 2 * b[2] + b[3]
          [] i = 4 -> 8 * b[1] + 4 * b[2] + 2 * b[3] + b[4]
          [] i = 5 -> 16 * b[1] + 8 * b[2] + 4 * b[3] + 2 * b[4] + b[5]
          [] i = 6 -> 32 * b[1] + 16 * b[2] + 8 * b[3] + 4 * b[4] + 2 * b[5] + b[6]
          [] i = 7 -> 64 * b[1] + 32 * b[2] + 16 * b[3] + 8 * b[4] + 4 * b[5] + 2 * b[6] + b[7]
          [] OTHER -> 128 * b[1] + 64 * b[2] + 32 * b[3] + 16 * b[4] + 8 * b[5] + 4 * b[6] + 2 * b[7] + b[8]]
  OBVIOUS
<1>1. u[0] = 0 /\ \A i \in 1..8 : u[i] = 2 * u[i - 1] + b[i]
  BY <1>0
<1>2. u[8] = 128 * b[1] + 64 * b[2] + 32 * b[3] + 16 * b[4] + 8 * b[5] + 4 * b[6] + 2 * b[7] + b[8]
  BY <1>0
<1>3. Codes!Value(b) = u[8]
  <2>1. PICK n \in Nat : n = 8
    OBVIOUS
  <2>2. n \in Nat /\ Len(b) = n /\ \A i \in 1..n : u[i] = 2 * u[i - 1] + b[i]
    BY <1>1, <2>1
  <2>3. Codes!Value(b) = u[n]
    BY ONLY <1>1, <2>2, ValueIs
  <2> QED
    BY <2>1, <2>3
<1> QED
  BY <1>2, <1>3

(* A slice of a sequence of bits, counted from the place before it.        *)
LEMMA Slice ==
    ASSUME NEW J \in Seq(0..1), NEW a \in Nat, NEW b \in Nat, a <= b, b <= Len(J)
    PROVE  /\ SubSeq(J, a + 1, b) \in Seq(0..1) /\ Len(SubSeq(J, a + 1, b)) = b - a
           /\ \A k \in 1..(b - a) : SubSeq(J, a + 1, b)[k] = J[a + k]
<1>1. Len(J) \in Nat /\ \A i \in 1..Len(J) : J[i] \in 0..1
  OBVIOUS
<1>2. \A i \in (a + 1)..b : J[i] \in 0..1
  BY <1>1
<1>3. \A k \in 1..(b - a) : (a + 1) + k - 1 = a + k
  OBVIOUS
<1>4. a + 1 \in Int /\ b \in Int /\ b - (a + 1) + 1 = b - a
  OBVIOUS
<1>5. /\ SubSeq(J, a + 1, b) \in Seq(0..1)
      /\ Len(SubSeq(J, a + 1, b)) = IF a + 1 <= b THEN b - (a + 1) + 1 ELSE 0
      /\ \A k \in 1..(b - (a + 1) + 1) : SubSeq(J, a + 1, b)[k] = J[a + 1 + k - 1]
  BY <1>2, <1>4, SubSeqProperties
<1> QED
  BY <1>3, <1>4, <1>5

(* How many of n bits a word of 32 still holds, and the word               *)
Kept(n) == IF n <= 32 THEN n ELSE 32
Word(J, n) == SubSeq(J, n - Kept(n) + 1, n)

(* The word is the end of what was read.                                   *)
LEMMA WordIs ==
    ASSUME NEW J \in Seq(0..1), NEW n \in Nat, n <= Len(J)
    PROVE  /\ Word(J, n) \in Seq(0..1) /\ Len(Word(J, n)) = Kept(n)
           /\ \A k \in 1..Kept(n) : Word(J, n)[k] = J[n - Kept(n) + k]
<1>1. n - Kept(n) \in Nat /\ n - (n - Kept(n)) = Kept(n) /\ n - Kept(n) <= n
  BY DEF Kept
<1>2. PICK a \in Nat : a = n - Kept(n)
  BY <1>1
<1> QED
  BY <1>1, <1>2, Slice DEF Word

(* A function on 1..n is a sequence of length n.                           *)
LEMMA SeqOf ==
    ASSUME NEW S, NEW n \in Nat, NEW f \in [1..n -> S]
    PROVE  f \in Seq(S) /\ Len(f) = n
<1>1. f \in Seq(S)
  BY SeqDef
<1>2. Len(f) \in Nat /\ 1..Len(f) = 1..n
  BY <1>1, LenProperties
<1> QED
  BY <1>1, <1>2

(* (buf << w) | value keeps the last 32 bits read, whether or not some are *)
(* lost.                                                                   *)
LEMMA ShiftInIs ==
    ASSUME NEW J \in Seq(0..1), NEW n \in Nat, NEW w \in {5, 8}, NEW v, n + w <= Len(J),
           \A r \in 1..w : Codes!ToBits(v, w)[r] = J[n + r]
    PROVE  Codes!ShiftIn(Word(J, n), v, w) = Word(J, n + w)
<1>1. Len(J) \in Nat /\ n <= Len(J) /\ n + w \in Nat /\ w \in Nat
  OBVIOUS
<1>2. PICK t : t = Codes!ToBits(v, w)
  OBVIOUS
<1>3. t \in Seq(0..1) /\ Len(t) = w /\ \A r \in 1..w : t[r] = J[n + r]
  <2>1. DOMAIN t = 1..w /\ t = [i \in 1..w |-> t[i]]
    BY <1>2 DEF Codes!ToBits
  <2>2. \A r \in 1..w : n + r \in 1..Len(J)
    BY <1>1
  <2>3. \A r \in 1..w : t[r] = J[n + r] /\ t[r] \in 0..1
    BY <1>1, <1>2, <2>2
  <2>4. t \in [1..w -> 0..1]
    BY <2>1, <2>3
  <2>5. t \in Seq(0..1)
    BY <1>1, <2>4, SeqDef
  <2>6. Len(t) \in Nat /\ 1..Len(t) = 1..w
    BY <2>1, <2>5, LenProperties
  <2> QED
    BY <1>1, <2>3, <2>5, <2>6
<1>4. PICK b : b = Word(J, n)
  OBVIOUS
<1>5. PICK m \in Nat : m = Kept(n)
  BY DEF Kept
<1>6. /\ b \in Seq(0..1) /\ Len(b) = m
      /\ \A k \in 1..m : b[k] = J[n - m + k]
  BY <1>1, <1>4, <1>5, WordIs
<1>7. PICK wide : wide = b \o t
  OBVIOUS
<1>8. /\ wide \in Seq(0..1) /\ Len(wide) = m + w
      /\ \A k \in 1..(m + w) : wide[k] = J[n - m + k]
  <2>1. wide \in Seq(0..1) /\ Len(wide) = m + w
    BY <1>3, <1>6, <1>7
  <2>2. ASSUME NEW k \in 1..(m + w) PROVE wide[k] = J[n - m + k]
    <3>1. CASE k <= m
      BY <1>3, <1>6, <1>7, <3>1
    <3>2. CASE k > m
      <4>1. k - m \in 1..w /\ n + (k - m) = n - m + k
        BY <1>1, <3>2
      <4>2. wide[k] = t[k - m]
        BY ONLY <1>1, <1>3, <1>6, <1>7, <3>2, m \in Nat, k \in 1..(m + w)
      <4> QED
        BY <1>3, <4>1, <4>2
    <3> QED
      BY <3>1, <3>2
  <2> QED
    BY <2>1, <2>2
<1>9. /\ m + w <= 32 => Codes!ShiftIn(b, v, w) = wide
      /\ ~ (m + w <= 32) => Codes!ShiftIn(b, v, w) = SubSeq(wide, (m + w - 32) + 1, m + w)
  <2>1. Len(wide) - 31 = (m + w - 32) + 1
    BY <1>1, <1>8
  <2> QED
    BY <1>2, <1>7, <1>8, <2>1 DEF Codes!ShiftIn
<1>10. PICK z : z = Word(J, n + w)
  OBVIOUS
<1>11. PICK q \in Nat : q = Kept(n + w)
  BY <1>1 DEF Kept
<1>12. /\ z \in Seq(0..1) /\ Len(z) = q
       /\ \A k \in 1..q : z[k] = J[n + w - q + k]
  BY <1>1, <1>10, <1>11, WordIs, SMTT(30)
<1>13. CASE m + w <= 32
  <2>1. q = m + w /\ n + w - q = n - m
    BY <1>1, <1>5, <1>11, <1>13 DEF Kept
  <2>2. \A k \in 1..q : wide[k] = z[k]
    BY <1>8, <1>12, <2>1
  <2>3. wide = z
    BY <1>8, <1>12, <2>1, <2>2, SeqEqual
  <2> QED
    BY <1>4, <1>9, <1>10, <1>13, <2>3
<1>14. CASE m + w > 32
  <2>1. q = 32 /\ m + w - 32 \in Nat /\ (m + w) - (m + w - 32) = 32 /\ m + w \in Nat
    BY <1>1, <1>5, <1>11, <1>14 DEF Kept
  <2>2. PICK a \in Nat : a = m + w - 32
    BY <2>1
  <2>3. PICK c : c = SubSeq(wide, a + 1, m + w)
    OBVIOUS
  <2>4. c \in Seq(0..1) /\ Len(c) = 32 /\ \A k \in 1..32 : c[k] = wide[a + k]
    BY <1>1, <1>8, <2>1, <2>2, <2>3, Slice
  <2>5. ASSUME NEW k \in 1..32 PROVE c[k] = z[k]
    <3>1. a + k \in 1..(m + w) /\ n - m + (a + k) = n + w - q + k /\ k \in 1..q
      BY <1>1, <2>1, <2>2
    <3>2. c[k] = wide[a + k]
      BY <2>4
    <3>3. wide[a + k] = J[n - m + (a + k)]
      BY <1>8, <3>1
    <3>4. z[k] = J[n + w - q + k]
      BY <1>12, <3>1
    <3> QED
      BY <3>1, <3>2, <3>3, <3>4
  <2>6. c = z
    <3>1. c \in Seq(0..1) /\ z \in Seq(0..1) /\ Len(c) = Len(z) /\ \A k \in 1..Len(c) : c[k] = z[k]
      BY <1>12, <2>1, <2>4, <2>5
    <3> QED
      BY <3>1, SeqEqual
  <2>7. ~ (m + w <= 32)
    BY <1>1, <1>14
  <2>8. Codes!ShiftIn(b, v, w) = SubSeq(wide, (m + w - 32) + 1, m + w)
    BY <1>9, <2>7, Zenon
  <2>9. Codes!ShiftIn(b, v, w) = c
    BY <2>2, <2>3, <2>8, Zenon
  <2> QED
    BY <1>4, <1>10, <2>6, <2>9
<1> QED
  BY <1>1, <1>13, <1>14

(* (buf >>> (bits - c)) & mask is the first c of the last bits read: the   *)
(* shifts never reach a lost bit.                                          *)
LEMMA ExtractIs ==
    ASSUME NEW J \in Seq(0..1), NEW n \in Nat, n <= Len(J),
           NEW bits \in Nat, bits <= Kept(n), NEW c \in Nat, c <= bits,
           NEW d \in Nat, d + bits = n
    PROVE  Codes!Extract(Word(J, n), bits, c) = Codes!Value(SubSeq(J, d + 1, d + c))
<1>1. PICK m \in Nat : m = Kept(n)
  BY DEF Kept
<1>2. PICK b : b = Word(J, n)
  OBVIOUS
<1>3. /\ b \in Seq(0..1) /\ Len(b) = m
      /\ \A k \in 1..m : b[k] = J[n - m + k]
  BY <1>1, <1>2, WordIs
<1>4. m <= n
  BY <1>1 DEF Kept
<1>5. PICK a \in Nat : a = m - bits
  BY <1>1
<1>7. PICK x : x = SubSeq(b, a + 1, a + c)
  OBVIOUS
<1>8. PICK y : y = SubSeq(J, d + 1, d + c)
  OBVIOUS
<1>9. a + c \in Nat /\ a + c <= m /\ (a + c) - a = c /\ d + c \in Nat /\ d + c <= Len(J) /\ (d + c) - d = c
  <2>1. Len(J) \in Nat
    OBVIOUS
  <2>2. d + c \in Nat /\ d + c <= n /\ (d + c) - d = c
    OBVIOUS
  <2>3. a + c \in Nat /\ a + c <= m /\ (a + c) - a = c
    <3>1. a + bits = m
      BY <1>1, <1>5
    <3> QED
      BY <3>1
  <2>4. d + c <= Len(J)
    BY <2>1, <2>2
  <2> QED
    BY <2>2, <2>3, <2>4
<1>10. x \in Seq(0..1) /\ Len(x) = c /\ \A k \in 1..c : x[k] = b[a + k]
  <2>1. PICK e \in Nat : e = a + c
    BY <1>9
  <2>2. a <= e /\ e <= Len(b) /\ e - a = c
    BY <1>3, <1>9, <2>1
  <2>5. b \in Seq(0..1) /\ a \in Nat /\ e \in Nat /\ a <= e /\ e <= Len(b)
    BY <1>3, <2>2
  <2>3. /\ SubSeq(b, a + 1, e) \in Seq(0..1) /\ Len(SubSeq(b, a + 1, e)) = e - a
        /\ \A k \in 1..(e - a) : SubSeq(b, a + 1, e)[k] = b[a + k]
    BY ONLY <2>5, Slice
  <2>4. x = SubSeq(b, a + 1, e)
    BY <1>7, <2>1, Zenon
  <2> QED
    BY <2>2, <2>3, <2>4, Zenon
<1>11. y \in Seq(0..1) /\ Len(y) = c /\ \A k \in 1..c : y[k] = J[d + k]
  <2>1. PICK e \in Nat : e = d + c
    BY <1>9
  <2>2. d <= e /\ e <= Len(J) /\ e - d = c
    BY <1>9, <2>1
  <2>5. J \in Seq(0..1) /\ d \in Nat /\ e \in Nat /\ d <= e /\ e <= Len(J)
    BY <2>2
  <2>3. /\ SubSeq(J, d + 1, e) \in Seq(0..1) /\ Len(SubSeq(J, d + 1, e)) = e - d
        /\ \A k \in 1..(e - d) : SubSeq(J, d + 1, e)[k] = J[d + k]
    BY ONLY <2>5, Slice
  <2>4. y = SubSeq(J, d + 1, e)
    BY <1>8, <2>1, Zenon
  <2> QED
    BY <2>2, <2>3, <2>4, Zenon
<1>12. \A k \in 1..c : a + k \in 1..m /\ n - m + (a + k) = d + k
  <2>1. a + bits = m /\ d + bits = n
    BY ONLY <1>5, m \in Nat, d + bits = n, bits \in Nat
  <2> QED
    BY ONLY <2>1, a \in Nat, m \in Nat, n \in Nat, d \in Nat, bits \in Nat, c \in Nat, c <= bits
<1>13. x = y
  <2>1. ASSUME NEW k \in 1..c PROVE x[k] = y[k]
    <3>1. x[k] = b[a + k] /\ y[k] = J[d + k] /\ a + k \in 1..m /\ n - m + (a + k) = d + k
      BY ONLY <1>10, <1>11, <1>12, k \in 1..c, Zenon
    <3>2. b[a + k] = J[n - m + (a + k)]
      BY ONLY <1>3, <3>1, Zenon
    <3> QED
      BY ONLY <3>1, <3>2, Zenon
  <2> QED
    BY <1>10, <1>11, <2>1, SeqEqual
<1>14. Codes!Extract(b, bits, c) = Codes!Value(x)
  BY <1>3, <1>5, <1>7 DEF Codes!Extract
<1> QED
  BY <1>2, <1>8, <1>13, <1>14

(* w bits of every number, one after the other                             *)
Groups(ns, w) == [k \in 1..(w * Len(ns)) |-> Codes!ToBits(ns[((k - 1) \div w) + 1], w)[((k - 1) % w) + 1]]

(* Each number gives w bits, at its place.                                 *)
LEMMA GroupsIs ==
    ASSUME NEW ns \in Seq(Nat), NEW w \in {5, 8}
    PROVE  /\ Groups(ns, w) \in Seq(0..1) /\ Len(Groups(ns, w)) = w * Len(ns)
           /\ \A i \in 1..Len(ns), r \in 1..w : Groups(ns, w)[w * (i - 1) + r] = Codes!ToBits(ns[i], w)[r]
<1>1. PICK m \in Nat : m = w * Len(ns)
  OBVIOUS
<1>2. ASSUME NEW n \in Nat, NEW r \in 1..w PROVE Codes!ToBits(n, w)[r] \in 0..1
  <2>1. /\ 2^0 \in Nat \ {0} /\ 2^1 \in Nat \ {0} /\ 2^2 \in Nat \ {0} /\ 2^3 \in Nat \ {0}
        /\ 2^4 \in Nat \ {0} /\ 2^5 \in Nat \ {0} /\ 2^6 \in Nat \ {0} /\ 2^7 \in Nat \ {0}
    OBVIOUS
  <2>2. PICK e \in {0, 1, 2, 3, 4, 5, 6, 7} : e = w - r
    OBVIOUS
  <2>3. PICK p \in Nat \ {0} : p = 2^(w - r)
    <3>1. 2^e \in Nat \ {0}
      BY <2>1, Zenon
    <3> QED
      BY <2>2, <3>1
  <2>4. PICK q \in Nat : q = n \div p
    OBVIOUS
  <2>5. q % 2 \in 0..1
    OBVIOUS
  <2>6. Codes!ToBits(n, w)[r] = (n \div 2^(w - r)) % 2
    BY DEF Codes!ToBits
  <2> QED
    BY <2>3, <2>4, <2>5, <2>6
<1>3. ASSUME NEW k \in 1..m
      PROVE  ((k - 1) \div w) + 1 \in 1..Len(ns) /\ ((k - 1) % w) + 1 \in 1..w
  <2>1. k - 1 \in Nat /\ k - 1 < w * Len(ns) /\ Len(ns) \in Nat
    BY <1>1
  <2>2. CASE w = 5
    BY <2>1, <2>2
  <2>3. CASE w = 8
    BY <2>1, <2>3
  <2> QED
    BY <2>2, <2>3
<1>4. PICK g : g = Groups(ns, w)
  OBVIOUS
<1>5. DOMAIN g = 1..m /\ \A k \in 1..m : g[k] = Codes!ToBits(ns[((k - 1) \div w) + 1], w)[((k - 1) % w) + 1]
  BY <1>1, <1>4 DEF Groups
<1>6. \A k \in 1..m : g[k] \in 0..1
  <2>1. \A i \in 1..Len(ns) : ns[i] \in Nat
    OBVIOUS
  <2> QED
    BY <1>2, <1>3, <1>5, <2>1
<1>7. g \in Seq(0..1) /\ Len(g) = m
  <2>1. g = [k \in 1..m |-> g[k]]
    BY <1>1, <1>4 DEF Groups
  <2>2. g \in [1..m -> 0..1]
    BY <1>6, <2>1
  <2>3. g \in Seq(0..1)
    BY <2>2, SeqDef
  <2>4. Len(g) \in Nat /\ 1..Len(g) = 1..m
    BY <1>5, <2>3, LenProperties
  <2> QED
    BY <2>3, <2>4
<1>8. ASSUME NEW i \in 1..Len(ns), NEW r \in 1..w PROVE g[w * (i - 1) + r] = Codes!ToBits(ns[i], w)[r]
  <2>1. PICK k \in Int : k = w * (i - 1) + r
    OBVIOUS
  <2>2. k \in 1..m /\ ((k - 1) \div w) + 1 = i /\ ((k - 1) % w) + 1 = r
    <3>1. CASE w = 5
      BY <1>1, <2>1, <3>1
    <3>2. CASE w = 8
      BY <1>1, <2>1, <3>2
    <3> QED
      BY <3>1, <3>2
  <2> QED
    BY <1>5, <2>1, <2>2
<1> QED
  BY <1>1, <1>4, <1>7, <1>8

(* A run of steps of base32Decode() ends in what it returns.               *)
LEMMA DecodeIs ==
    ASSUME NEW b, NEW u, NEW n \in Nat, Len(b) = n, u[0] = Codes!NoBits,
           \A i \in 1..n : u[i] = Codes!DecodeStep(u[i - 1], b[i])
    PROVE  Codes!Base32Decode(b) = u[n].out
<1> DEFINE Eq(v) == v = [i \in 0..n |-> IF i = 0 THEN Codes!NoBits ELSE Codes!DecodeStep(v[i - 1], b[i])]
<1>1. PICK t : Eq(t)
  <2>1. PICK t : t = [i \in 0..n |-> u[i]]
    OBVIOUS
  <2>2. ASSUME NEW i \in 0..n PROVE t[i] = IF i = 0 THEN Codes!NoBits ELSE Codes!DecodeStep(t[i - 1], b[i])
    <3>1. CASE i = 0
      BY <2>1, <3>1
    <3>2. CASE i # 0
      <4>1. i \in 1..n /\ i - 1 \in 0..n
        BY <3>2
      <4> QED
        BY <2>1, <3>2, <4>1
    <3> QED
      BY <3>1, <3>2
  <2>3. [i \in 0..n |-> t[i]]
        = [i \in 0..n |-> IF i = 0 THEN Codes!NoBits ELSE Codes!DecodeStep(t[i - 1], b[i])]
    BY <2>2, Zenon
  <2>4. t = [i \in 0..n |-> t[i]]
    BY <2>1
  <2> QED
    BY <2>3, <2>4, Zenon
<1>2. PICK w : Eq(w) /\ w = (CHOOSE v : Eq(v))
  <2> HIDE DEF Eq
  <2> QED
    BY <1>1
<1>3. w[0] = Codes!NoBits /\ \A i \in 1..n : w[i] = Codes!DecodeStep(w[i - 1], b[i])
  <2>1. PICK g : g = [i \in 0..n |-> IF i = 0 THEN Codes!NoBits ELSE Codes!DecodeStep(w[i - 1], b[i])]
    OBVIOUS
  <2>2. g[0] = Codes!NoBits /\ \A i \in 1..n : g[i] = Codes!DecodeStep(w[i - 1], b[i])
    BY <2>1
  <2>3. w = g
    BY <1>2, <2>1, Zenon
  <2> QED
    BY <2>2, <2>3, Zenon
<1>4. u[n] = w[n]
  <2>1. n \in Nat /\ u[0] = w[0] /\ \A i \in 1..n : u[i - 1] = w[i - 1] => u[i] = w[i]
    BY <1>3, Zenon
  <2> QED
    BY ONLY <2>1, SameRun
<1>5. Codes!Base32Decode(b) = w[n].out
  BY <1>2 DEF Codes!Base32Decode
<1> HIDE DEF Eq
<1> QED
  BY <1>4, <1>5

(* A run of steps of base32Encode() that leaves no bit over ends in what   *)
(* it returns.                                                             *)
LEMMA EncodeIs ==
    ASSUME NEW b, NEW u, NEW n \in Nat, Len(b) = n, u[0] = Codes!NoBits,
           \A i \in 1..n : u[i] = Codes!EncodeStep(u[i - 1], b[i])
    PROVE  u[n].bits = 0 => Codes!Base32Encode(b) = u[n].out
<1> DEFINE Eq(v) == v = [i \in 0..n |-> IF i = 0 THEN Codes!NoBits ELSE Codes!EncodeStep(v[i - 1], b[i])]
<1>1. PICK t : Eq(t)
  <2>1. PICK t : t = [i \in 0..n |-> u[i]]
    OBVIOUS
  <2>2. ASSUME NEW i \in 0..n PROVE t[i] = IF i = 0 THEN Codes!NoBits ELSE Codes!EncodeStep(t[i - 1], b[i])
    <3>1. CASE i = 0
      BY <2>1, <3>1
    <3>2. CASE i # 0
      <4>1. i \in 1..n /\ i - 1 \in 0..n
        BY <3>2
      <4> QED
        BY <2>1, <3>2, <4>1
    <3> QED
      BY <3>1, <3>2
  <2>3. [i \in 0..n |-> t[i]]
        = [i \in 0..n |-> IF i = 0 THEN Codes!NoBits ELSE Codes!EncodeStep(t[i - 1], b[i])]
    BY <2>2, Zenon
  <2>4. t = [i \in 0..n |-> t[i]]
    BY <2>1
  <2> QED
    BY <2>3, <2>4, Zenon
<1>2. PICK w : Eq(w) /\ w = (CHOOSE v : Eq(v))
  <2> HIDE DEF Eq
  <2> QED
    BY <1>1
<1>3. w[0] = Codes!NoBits /\ \A i \in 1..n : w[i] = Codes!EncodeStep(w[i - 1], b[i])
  <2>1. PICK g : g = [i \in 0..n |-> IF i = 0 THEN Codes!NoBits ELSE Codes!EncodeStep(w[i - 1], b[i])]
    OBVIOUS
  <2>2. g[0] = Codes!NoBits /\ \A i \in 1..n : g[i] = Codes!EncodeStep(w[i - 1], b[i])
    BY <2>1
  <2>3. w = g
    BY <1>2, <2>1, Zenon
  <2> QED
    BY <2>2, <2>3, Zenon
<1>4. u[n] = w[n]
  <2>1. n \in Nat /\ u[0] = w[0] /\ \A i \in 1..n : u[i - 1] = w[i - 1] => u[i] = w[i]
    BY <1>3, Zenon
  <2> QED
    BY ONLY <2>1, SameRun
<1>5. w[n].bits = 0 => Codes!Base32Encode(b) = w[n].out
  BY <1>2 DEF Codes!Base32Encode
<1> HIDE DEF Eq
<1> QED
  BY <1>4, <1>5

(* The j-th w bits as a number; the first m of them; and c more            *)
Piece(J, w, j) == Codes!Value(SubSeq(J, w * (j - 1) + 1, w * (j - 1) + w))
Pieces(J, w, m) == [j \in 1..m |-> Piece(J, w, j)]
More(J, w, m, c) == [k \in 1..c |-> Piece(J, w, m + k)]

(* Further pieces are appended in order.                                   *)
LEMMA PiecesGrow ==
    ASSUME NEW J, NEW w \in Nat, NEW m \in Nat, NEW c \in Nat
    PROVE  Pieces(J, w, m) \o More(J, w, m, c) = Pieces(J, w, m + c)
<1>0. PICK x : x = More(J, w, m, c) /\ x = [k \in 1..c |-> Piece(J, w, m + k)]
  BY DEF More
<1>1. PICK F : F = [j \in Nat |-> Piece(J, w, j)]
  OBVIOUS
<1>2. PICK S : S = {F[j] : j \in Nat}
  OBVIOUS
<1>3. ASSUME NEW l \in Nat
      PROVE  /\ Pieces(J, w, l) \in Seq(S) /\ Len(Pieces(J, w, l)) = l
             /\ \A j \in 1..l : Pieces(J, w, l)[j] = F[j]
  <2>1. PICK p : p = Pieces(J, w, l)
    OBVIOUS
  <2>2. DOMAIN p = 1..l /\ p = [j \in 1..l |-> p[j]] /\ \A j \in 1..l : p[j] = F[j]
    BY <1>1, <2>1 DEF Pieces
  <2>3. p \in [1..l -> S]
    BY <1>2, <2>2
  <2> QED
    BY <2>1, <2>2, <2>3, SeqOf
<1>4. x \in Seq(S) /\ Len(x) = c /\ \A k \in 1..c : x[k] = F[m + k]
  <2>1. ASSUME NEW k \in 1..c PROVE m + k \in Nat /\ x[k] = F[m + k]
    <3>1. m + k \in Nat
      OBVIOUS
    <3> QED
      BY <1>0, <1>1, <3>1
  <2>2. x \in [1..c -> S]
    BY <1>0, <1>2, <2>1
  <2> QED
    BY <2>1, <2>2, SeqOf
<1>5. PICK p : p = Pieces(J, w, m)
  OBVIOUS
<1>6. PICK q : q = Pieces(J, w, m + c)
  OBVIOUS
<1>7. m + c \in Nat
  OBVIOUS
<1>8. p \in Seq(S) /\ Len(p) = m /\ \A j \in 1..m : p[j] = F[j]
  BY <1>3, <1>5
<1>9. q \in Seq(S) /\ Len(q) = m + c /\ \A j \in 1..(m + c) : q[j] = F[j]
  BY <1>3, <1>6, <1>7
<1>10. PICK y : y = p \o x
  OBVIOUS
<1>11. /\ y \in Seq(S) /\ Len(y) = m + c
       /\ \A j \in 1..(m + c) : y[j] = IF j <= m THEN p[j] ELSE x[j - m]
  <2>1. /\ p \o x \in Seq(S) /\ Len(p \o x) = Len(p) + Len(x)
        /\ \A j \in 1..(Len(p) + Len(x)) : (p \o x)[j] = IF j <= Len(p) THEN p[j] ELSE x[j - Len(p)]
    BY ONLY <1>4, <1>8, ConcatProperties
  <2>2. Len(p) = m /\ Len(x) = c
    BY <1>4, <1>8
  <2> QED
    BY <1>10, <2>1, <2>2
<1>12. ASSUME NEW j \in 1..(m + c) PROVE y[j] = q[j]
  <2>1. CASE j <= m
    <3>1. j \in 1..m /\ j \in 1..Len(p) /\ j \in 1..(m + c)
      BY <1>8, <2>1
    <3>2. y[j] = p[j]
      BY <1>11, <2>1
    <3> QED
      BY <1>8, <1>9, <3>1, <3>2
  <2>2. CASE j > m
    <3>1. j - m \in 1..c /\ m + (j - m) = j
      BY <2>2
    <3>2. y[j] = x[j - m]
      BY <1>11, <2>2
    <3> QED
      BY <1>4, <1>9, <3>1, <3>2
  <2> QED
    BY <2>1, <2>2
<1>13. y = q
  <2>1. y \in Seq(S) /\ q \in Seq(S) /\ Len(y) = Len(q) /\ \A k \in 1..Len(y) : y[k] = q[k]
    BY <1>9, <1>11, <1>12
  <2> QED
    BY <2>1, SeqEqual
<1> QED
  BY <1>0, <1>5, <1>6, <1>10, <1>13

(* Where a loop of the codec is when n bits of J have gone in              *)
Stage(J, v, n) == [buf |-> Word(J, n), bits |-> n % v, out |-> Pieces(J, v, n \div v)]

(* Nothing is read or written before the first step.                       *)
LEMMA StageZero ==
    ASSUME NEW J, NEW v \in {5, 8}
    PROVE  Stage(J, v, 0) = Codes!NoBits
<1>1. 0 % v = 0 /\ 0 \div v = 0
  OBVIOUS
<1>2. Word(J, 0) = << >>
  BY SubSeqEmpty DEF Word, Kept
<1>3. Pieces(J, v, 0) = << >>
  BY DEF Pieces
<1> QED
  BY <1>1, <1>2, <1>3 DEF Stage, Codes!NoBits

(* A step of base32Decode() that completes a byte.                         *)
LEMMA OneByte ==
    ASSUME NEW s, NEW ch, NEW l \in Nat, s.bits = l, l + 5 >= 8
    PROVE  Codes!DecodeStep(s, ch)
           = [buf |-> Codes!ShiftIn(s.buf, ch, 5), bits |-> l + 5 - 8,
              out |-> Append(s.out, Codes!Extract(Codes!ShiftIn(s.buf, ch, 5), l + 5, 8))]
<1> DEFINE b == Codes!ShiftIn(s.buf, ch, 5)
<1>1. s.bits + 5 >= 8
  OBVIOUS
<1>2. Codes!DecodeStep(s, ch) = IF s.bits + 5 >= 8
        THEN [buf |-> b, bits |-> s.bits + 5 - 8, out |-> Append(s.out, Codes!Extract(b, s.bits + 5, 8))]
        ELSE [buf |-> b, bits |-> s.bits + 5, out |-> s.out]
  BY SMTT(30) DEF Codes!DecodeStep
<1>3. Codes!DecodeStep(s, ch)
      = [buf |-> b, bits |-> s.bits + 5 - 8, out |-> Append(s.out, Codes!Extract(b, s.bits + 5, 8))]
  BY <1>1, <1>2, Zenon
<1> QED
  BY <1>3, Zenon

(* Each character takes base32Decode() from one stage to the next.         *)
LEMMA DecodeGoesOn ==
    ASSUME NEW chars \in Seq(Nat), NEW i \in 1..Len(chars),
           NEW J, J = Groups(chars, 5), NEW n \in Nat, n = 5 * (i - 1)
    PROVE  Codes!DecodeStep(Stage(J, 8, n), chars[i]) = Stage(J, 8, n + 5)
<1>1. /\ J \in Seq(0..1) /\ Len(J) = 5 * Len(chars)
      /\ \A r \in 1..5 : J[n + r] = Codes!ToBits(chars[i], 5)[r]
  BY GroupsIs
<1>2. n + 5 <= Len(J) /\ n + 5 \in Nat
  <2>1. Len(J) = 5 * Len(chars) /\ Len(chars) \in Nat
    BY <1>1
  <2> QED
    BY ONLY <2>1, n = 5 * (i - 1), i \in 1..Len(chars)
<1>3. Codes!ShiftIn(Word(J, n), chars[i], 5) = Word(J, n + 5)
  BY <1>1, <1>2, ShiftInIs
<1>4. PICK m \in Nat : m = n \div 8
  OBVIOUS
<1>5. PICK l \in 0..7 : l = n % 8
  OBVIOUS
<1>6. n = 8 * m + l
  BY ONLY <1>4, <1>5, n \in Nat
<1>7. PICK s : s = Stage(J, 8, n)
  OBVIOUS
<1>8. s.buf = Word(J, n) /\ s.bits = l /\ s.out = Pieces(J, 8, m)
  BY <1>4, <1>5, <1>7 DEF Stage
<1>9. CASE l + 5 >= 8
  <2>1. (n + 5) \div 8 = m + 1 /\ (n + 5) % 8 = l + 5 - 8
    BY <1>6, <1>9
  <2>2. PICK x : x = Codes!Extract(Word(J, n + 5), l + 5, 8)
    OBVIOUS
  <2>3. x = Codes!Value(SubSeq(J, 8 * m + 1, 8 * m + 8))
    <3>1. l + 5 <= Kept(n + 5) /\ 8 <= l + 5 /\ l + 5 \in Nat
      BY <1>6, <1>9 DEF Kept
    <3>2. PICK d \in Nat : d = 8 * m
      OBVIOUS
    <3>3. PICK q \in Nat : q = n + 5
      OBVIOUS
    <3>4. PICK f \in Nat : f = l + 5
      OBVIOUS
    <3>5. PICK e \in Nat : e = 8
      OBVIOUS
    <3>6. /\ J \in Seq(0..1) /\ q \in Nat /\ d \in Nat /\ f \in Nat /\ e \in Nat
          /\ q <= Len(J) /\ f <= Kept(q) /\ e <= f /\ q = d + f
      <4>1. f <= Kept(q) /\ q <= Len(J)
        BY <1>2, <3>1, <3>3, <3>4
      <4> QED
        BY <1>1, <1>6, <1>9, <3>2, <3>3, <3>4, <3>5, <4>1
    <3>7. Codes!Extract(Word(J, q), f, e) = Codes!Value(SubSeq(J, d + 1, d + e))
      BY ONLY <3>6, ExtractIs
    <3> QED
      BY <2>2, <3>2, <3>3, <3>4, <3>5, <3>7
  <2>4. Append(Pieces(J, 8, m), x) = Pieces(J, 8, m + 1)
    <3>1. PICK y : y = <<x>>
      OBVIOUS
    <3>2. PICK e \in Nat : e = 8
      OBVIOUS
    <3>3. PICK c \in Nat : c = 1
      OBVIOUS
    <3>4. Piece(J, e, m + 1) = x
      BY <2>3, <3>2 DEF Piece
    <3>5. y = More(J, e, m, c)
      BY <3>1, <3>3, <3>4 DEF More
    <3>6. Pieces(J, e, m) \o y = Pieces(J, e, m + c)
      <4>1. e \in Nat /\ m \in Nat /\ c \in Nat
        OBVIOUS
      <4>2. Pieces(J, e, m) \o More(J, e, m, c) = Pieces(J, e, m + c)
        BY ONLY <4>1, PiecesGrow
      <4> QED
        BY ONLY <3>5, <4>2
    <3>7. Append(Pieces(J, e, m), x) = Pieces(J, e, m) \o <<x>>
      OBVIOUS
    <3> QED
      BY <3>1, <3>2, <3>3, <3>6, <3>7
  <2>5. Codes!DecodeStep(s, chars[i])
        = [buf |-> Word(J, n + 5), bits |-> l + 5 - 8, out |-> Append(Pieces(J, 8, m), x)]
    <3>1. Codes!DecodeStep(s, chars[i])
          = [buf |-> Codes!ShiftIn(s.buf, chars[i], 5), bits |-> l + 5 - 8,
             out |-> Append(s.out, Codes!Extract(Codes!ShiftIn(s.buf, chars[i], 5), l + 5, 8))]
      <4>1. l \in Nat /\ s.bits = l /\ l + 5 >= 8
        BY <1>8, <1>9
      <4> QED
        BY ONLY <4>1, OneByte, Zenon
    <3> QED
      BY <1>3, <1>8, <2>2, <3>1, Zenon
  <2> QED
    BY <1>7, <2>1, <2>4, <2>5 DEF Stage
<1>10. CASE ~ (l + 5 >= 8)
  <2>1. (n + 5) \div 8 = m /\ (n + 5) % 8 = l + 5
    BY <1>6, <1>10
  <2>2. Codes!DecodeStep(s, chars[i]) = [buf |-> Word(J, n + 5), bits |-> l + 5, out |-> Pieces(J, 8, m)]
    BY <1>3, <1>8, <1>10 DEF Codes!DecodeStep
  <2> QED
    BY <1>7, <2>1, <2>2 DEF Stage
<1> QED
  BY <1>9, <1>10

(* Each byte takes base32Encode() from one stage to the next.              *)
LEMMA EncodeGoesOn ==
    ASSUME NEW bytes \in Seq(Nat), NEW i \in 1..Len(bytes),
           NEW J, J = Groups(bytes, 8), NEW n \in Nat, n = 8 * (i - 1)
    PROVE  Codes!EncodeStep(Stage(J, 5, n), bytes[i]) = Stage(J, 5, n + 8)
<1>1. /\ J \in Seq(0..1) /\ Len(J) = 8 * Len(bytes)
      /\ \A r \in 1..8 : J[n + r] = Codes!ToBits(bytes[i], 8)[r]
  BY GroupsIs
<1>2. n + 8 <= Len(J) /\ n + 8 \in Nat
  <2>1. Len(J) = 8 * Len(bytes) /\ Len(bytes) \in Nat
    BY <1>1
  <2> QED
    BY ONLY <2>1, n = 8 * (i - 1), i \in 1..Len(bytes)
<1>3. Codes!ShiftIn(Word(J, n), bytes[i], 8) = Word(J, n + 8)
  BY <1>1, <1>2, ShiftInIs
<1>4. PICK m \in Nat : m = n \div 5
  OBVIOUS
<1>5. PICK l \in 0..4 : l = n % 5
  OBVIOUS
<1>6. n = 5 * m + l
  BY ONLY <1>4, <1>5, n \in Nat
<1>7. PICK s : s = Stage(J, 5, n)
  OBVIOUS
<1>8. s.buf = Word(J, n) /\ s.bits = l /\ s.out = Pieces(J, 5, m)
  BY <1>4, <1>5, <1>7 DEF Stage
<1>9. PICK c \in 1..2 : c = (l + 8) \div 5
  OBVIOUS
<1>10. (n + 8) \div 5 = m + c /\ (n + 8) % 5 = (l + 8) % 5 /\ 5 * c <= l + 8
  BY <1>6, <1>9
<1>11. PICK x : x = [k \in 1..c |-> Codes!Extract(Word(J, n + 8), (l + 8) - 5 * (k - 1), 5)]
  OBVIOUS
<1>12. ASSUME NEW k \in 1..c
       PROVE  x[k] = Codes!Value(SubSeq(J, 5 * (m + k - 1) + 1, 5 * (m + k - 1) + 5))
  <2>1. PICK b \in Nat : b = (l + 8) - 5 * (k - 1)
    BY <1>10
  <2>2. b <= Kept(n + 8) /\ 5 <= b
    BY <1>6, <1>10, <2>1 DEF Kept
  <2>3. PICK d \in Nat : d = 5 * (m + k - 1)
    OBVIOUS
  <2>4. PICK q \in Nat : q = n + 8
    OBVIOUS
  <2>5. PICK e \in Nat : e = 5
    OBVIOUS
  <2>6. /\ J \in Seq(0..1) /\ q \in Nat /\ d \in Nat /\ b \in Nat /\ e \in Nat
        /\ q <= Len(J) /\ b <= Kept(q) /\ e <= b /\ q = d + b
    <3>1. b <= Kept(q) /\ q <= Len(J)
      BY <1>2, <2>2, <2>4
    <3> QED
      BY <1>1, <1>6, <2>1, <2>2, <2>3, <2>4, <2>5, <3>1
  <2>7. Codes!Extract(Word(J, q), b, e) = Codes!Value(SubSeq(J, d + 1, d + e))
    BY ONLY <2>6, ExtractIs
  <2>8. x[k] = Codes!Extract(Word(J, n + 8), b, 5)
    BY <1>11, <2>1
  <2> QED
    BY <2>3, <2>4, <2>5, <2>7, <2>8
<1>13. Pieces(J, 5, m) \o x = Pieces(J, 5, m + c)
  <2>1. PICK e \in Nat : e = 5
    OBVIOUS
  <2>2. \A k \in 1..c : x[k] = Piece(J, e, m + k)
    BY <1>12, <2>1 DEF Piece
  <2>3. x = More(J, e, m, c)
    BY <1>11, <2>2 DEF More
  <2>4. c \in Nat
    OBVIOUS
  <2>5. Pieces(J, e, m) \o x = Pieces(J, e, m + c)
    <3>1. e \in Nat /\ m \in Nat /\ c \in Nat
      BY <2>4
    <3>2. Pieces(J, e, m) \o More(J, e, m, c) = Pieces(J, e, m + c)
      BY ONLY <3>1, PiecesGrow
    <3> QED
      BY ONLY <2>3, <3>2
  <2> QED
    BY <2>1, <2>5
<1>14. Codes!EncodeStep(s, bytes[i])
       = [buf |-> Word(J, n + 8), bits |-> (l + 8) % 5, out |-> Pieces(J, 5, m) \o x]
  BY <1>3, <1>8, <1>9, <1>11 DEF Codes!EncodeStep
<1> QED
  BY <1>7, <1>10, <1>13, <1>14 DEF Stage

(* What the authenticator joins are groups of five bits.                   *)
LEMMA JoinedIs ==
    ASSUME NEW chars
    PROVE  Codes!Joined(chars) = Groups(chars, 5)
  BY DEF Codes!Joined, Groups

(* The authenticator's key is the joined bits, eight at a time.            *)
LEMMA KeyIs ==
    ASSUME NEW chars, Len(chars) \in Nat
    PROVE  Codes!AuthenticatorKey(chars) = Pieces(Groups(chars, 5), 8, (5 * Len(chars)) \div 8)
<1>1. PICK m \in Nat : m = (5 * Len(chars)) \div 8
  OBVIOUS
<1>2. PICK J : J = Groups(chars, 5)
  OBVIOUS
<1>3. Codes!AuthenticatorKey(chars) = [i \in 1..m |-> Codes!Value(SubSeq(J, 8 * i - 7, 8 * i))]
  BY <1>1, <1>2, JoinedIs DEF Codes!AuthenticatorKey
<1>4. ASSUME NEW i \in 1..m PROVE Codes!Value(SubSeq(J, 8 * i - 7, 8 * i)) = Piece(J, 8, i)
  <2>1. 8 * i - 7 = 8 * (i - 1) + 1 /\ 8 * i = 8 * (i - 1) + 8
    OBVIOUS
  <2> QED
    BY <2>1 DEF Piece
<1> QED
  BY <1>1, <1>2, <1>3, <1>4 DEF Pieces

(* base32Decode() reads every text, of any length, as an authenticator     *)
(* does.                                                                   *)
LEMMA DecodesAsAuthenticator ==
    ASSUME NEW chars \in Seq(Nat)
    PROVE  Codes!Base32Decode(chars) = Codes!AuthenticatorKey(chars)
<1>1. PICK n \in Nat : n = Len(chars)
  OBVIOUS
<1>2. PICK J : J = Groups(chars, 5)
  OBVIOUS
<1>3. PICK u : u = [i \in 0..n |-> Stage(J, 8, 5 * i)]
  OBVIOUS
<1>4. u[0] = Codes!NoBits
  <2>1. u[0] = Stage(J, 8, 0)
    BY <1>3
  <2> QED
    BY <2>1, StageZero
<1>5. ASSUME NEW i \in 1..n PROVE u[i] = Codes!DecodeStep(u[i - 1], chars[i])
  <2>1. PICK k \in Nat : k = 5 * (i - 1)
    OBVIOUS
  <2>2. u[i - 1] = Stage(J, 8, k) /\ u[i] = Stage(J, 8, k + 5)
    BY <1>3, <2>1
  <2>3. Codes!DecodeStep(Stage(J, 8, k), chars[i]) = Stage(J, 8, k + 5)
    BY <1>1, <1>2, <2>1, DecodeGoesOn
  <2> QED
    BY <2>2, <2>3
<1>6. Codes!Base32Decode(chars) = u[n].out
  <2>1. /\ n \in Nat /\ Len(chars) = n /\ u[0] = Codes!NoBits
        /\ \A i \in 1..n : u[i] = Codes!DecodeStep(u[i - 1], chars[i])
    BY <1>1, <1>4, <1>5
  <2> QED
    BY ONLY <2>1, DecodeIs
<1>7. u[n].out = Pieces(J, 8, (5 * n) \div 8)
  BY <1>3 DEF Stage
<1> QED
  BY <1>1, <1>2, <1>6, <1>7, KeyIs

(* A character is below 32 and has the five bits it was made of.           *)
LEMMA FiveBits ==
    ASSUME NEW J \in Seq(0..1), NEW d \in Nat, d + 5 <= Len(J)
    PROVE  /\ Codes!Value(SubSeq(J, d + 1, d + 5)) \in 0..31
           /\ \A r \in 1..5 : Codes!ToBits(Codes!Value(SubSeq(J, d + 1, d + 5)), 5)[r] = J[d + r]
<1>1. PICK b : b = SubSeq(J, d + 1, d + 5)
  OBVIOUS
<1>2. Len(b) = 5 /\ \A k \in 1..5 : b[k] = J[d + k]
  <2>1. PICK e \in Nat : e = d + 5
    OBVIOUS
  <2>2. e - d = 5 /\ d <= e /\ e <= Len(J)
    BY <2>1
  <2> QED
    BY <1>1, <2>1, <2>2, Slice
<1>3. \A k \in 1..5 : J[d + k] \in 0..1
  <2>1. \A k \in 1..5 : d + k \in 1..Len(J)
    OBVIOUS
  <2> QED
    BY <2>1
<1>4. PICK x1 \in 0..1 : x1 = J[d + 1]
  BY <1>3
<1>5. PICK x2 \in 0..1 : x2 = J[d + 2]
  BY <1>3
<1>6. PICK x3 \in 0..1 : x3 = J[d + 3]
  BY <1>3
<1>7. PICK x4 \in 0..1 : x4 = J[d + 4]
  BY <1>3
<1>8. PICK x5 \in 0..1 : x5 = J[d + 5]
  BY <1>3
<1>9. PICK n \in 0..31 : n = 16 * x1 + 8 * x2 + 4 * x3 + 2 * x4 + x5
  OBVIOUS
<1>10. b[1] = x1 /\ b[2] = x2 /\ b[3] = x3 /\ b[4] = x4 /\ b[5] = x5
  BY <1>2, <1>4, <1>5, <1>6, <1>7, <1>8
<1>11. Codes!Value(b) = n
  <2>1. /\ Len(b) = 5
        /\ b[1] \in 0..1 /\ b[2] \in 0..1 /\ b[3] \in 0..1 /\ b[4] \in 0..1 /\ b[5] \in 0..1
    BY <1>2, <1>10
  <2>2. Codes!Value(b) = 16 * b[1] + 8 * b[2] + 4 * b[3] + 2 * b[4] + b[5]
    BY ONLY <2>1, Value5
  <2> QED
    BY ONLY <1>9, <1>10, <2>2
<1>12. (n \div 16) % 2 = x1
  BY <1>9
<1>13. (n \div 8) % 2 = x2
  BY <1>9
<1>14. (n \div 4) % 2 = x3
  BY <1>9
<1>15. (n \div 2) % 2 = x4
  BY <1>9
<1>16. n % 2 = x5
  BY <1>9
<1>17. /\ Codes!ToBits(n, 5)[1] = x1 /\ Codes!ToBits(n, 5)[2] = x2 /\ Codes!ToBits(n, 5)[3] = x3
       /\ Codes!ToBits(n, 5)[4] = x4 /\ Codes!ToBits(n, 5)[5] = x5
  <2>1. n \in Nat
    OBVIOUS
  <2> QED
    BY <2>1, <1>12, <1>13, <1>14, <1>15, <1>16, Bits5
<1>18. ASSUME NEW r \in 1..5 PROVE Codes!ToBits(n, 5)[r] = J[d + r]
  <2>1. r \in {1, 2, 3, 4, 5}
    OBVIOUS
  <2> QED
    BY <2>1, <1>17, <1>4, <1>5, <1>6, <1>7, <1>8
<1> QED
  BY <1>1, <1>11, <1>18

(* Eight bits of a byte, put together, are that byte.                      *)
LEMMA EightBits ==
    ASSUME NEW J \in Seq(0..1), NEW d \in Nat, d + 8 <= Len(J), NEW n \in 0..255,
           \A r \in 1..8 : J[d + r] = Codes!ToBits(n, 8)[r]
    PROVE  Codes!Value(SubSeq(J, d + 1, d + 8)) = n
<1>1. PICK b : b = SubSeq(J, d + 1, d + 8)
  OBVIOUS
<1>2. Len(b) = 8 /\ \A k \in 1..8 : b[k] = Codes!ToBits(n, 8)[k]
  <2>1. PICK e \in Nat : e = d + 8
    OBVIOUS
  <2>2. J \in Seq(0..1) /\ d \in Nat /\ e \in Nat /\ d <= e /\ e <= Len(J)
    BY <2>1
  <2>3. Len(SubSeq(J, d + 1, e)) = e - d /\ \A k \in 1..(e - d) : SubSeq(J, d + 1, e)[k] = J[d + k]
    BY ONLY <2>2, Slice
  <2>4. e - d = 8
    BY <2>1
  <2> QED
    BY <1>1, <2>1, <2>3, <2>4
<1>3. n \in Nat /\ n \in 0..255
  OBVIOUS
<1>4. \A x \in Nat : x % 2 \in 0..1
  BY ONLY TRUE
<1>5. /\ n \div 128 \in Nat /\ n \div 64 \in Nat /\ n \div 32 \in Nat /\ n \div 16 \in Nat
      /\ n \div 8 \in Nat /\ n \div 4 \in Nat /\ n \div 2 \in Nat
  BY ONLY <1>3
<1>6. PICK x1 \in 0..1 : x1 = (n \div 128) % 2
  BY ONLY <1>4, <1>5
<1>7. PICK x2 \in 0..1 : x2 = (n \div 64) % 2
  BY ONLY <1>4, <1>5
<1>8. PICK x3 \in 0..1 : x3 = (n \div 32) % 2
  BY ONLY <1>4, <1>5
<1>9. PICK x4 \in 0..1 : x4 = (n \div 16) % 2
  BY ONLY <1>4, <1>5
<1>10. PICK x5 \in 0..1 : x5 = (n \div 8) % 2
  BY ONLY <1>4, <1>5
<1>11. PICK x6 \in 0..1 : x6 = (n \div 4) % 2
  BY ONLY <1>4, <1>5
<1>12. PICK x7 \in 0..1 : x7 = (n \div 2) % 2
  BY ONLY <1>4, <1>5
<1>13. PICK x8 \in 0..1 : x8 = n % 2
  BY ONLY <1>3, <1>4
<1>14. n = 128 * x1 + 64 * x2 + 32 * x3 + 16 * x4 + 8 * x5 + 4 * x6 + 2 * x7 + x8
  BY ONLY <1>3, <1>6, <1>7, <1>8, <1>9, <1>10, <1>11, <1>12, <1>13, Halves
<1>15. /\ Codes!ToBits(n, 8)[1] = x1 /\ Codes!ToBits(n, 8)[2] = x2
       /\ Codes!ToBits(n, 8)[3] = x3 /\ Codes!ToBits(n, 8)[4] = x4
       /\ Codes!ToBits(n, 8)[5] = x5 /\ Codes!ToBits(n, 8)[6] = x6
       /\ Codes!ToBits(n, 8)[7] = x7 /\ Codes!ToBits(n, 8)[8] = x8
  <2>1. n \in Nat
    BY ONLY <1>3
  <2>2. /\ Codes!ToBits(n, 8)[1] = (n \div 128) % 2
        /\ Codes!ToBits(n, 8)[2] = (n \div 64) % 2
        /\ Codes!ToBits(n, 8)[3] = (n \div 32) % 2
        /\ Codes!ToBits(n, 8)[4] = (n \div 16) % 2
        /\ Codes!ToBits(n, 8)[5] = (n \div 8) % 2
        /\ Codes!ToBits(n, 8)[6] = (n \div 4) % 2
        /\ Codes!ToBits(n, 8)[7] = (n \div 2) % 2
        /\ Codes!ToBits(n, 8)[8] = n % 2
    BY ONLY <2>1, Bits8, Zenon
  <2> QED
    BY ONLY <2>2, <1>6, <1>7, <1>8, <1>9, <1>10, <1>11, <1>12, <1>13, Zenon
<1>16. /\ x1 \in 0..1 /\ x2 \in 0..1 /\ x3 \in 0..1 /\ x4 \in 0..1
       /\ x5 \in 0..1 /\ x6 \in 0..1 /\ x7 \in 0..1 /\ x8 \in 0..1 /\ Len(b) = 8
  BY <1>2
<1>17. /\ b[1] = x1 /\ b[2] = x2 /\ b[3] = x3 /\ b[4] = x4
       /\ b[5] = x5 /\ b[6] = x6 /\ b[7] = x7 /\ b[8] = x8
  <2>1. \A k \in {1, 2, 3, 4, 5, 6, 7, 8} : b[k] = Codes!ToBits(n, 8)[k]
    <3>1. {1, 2, 3, 4, 5, 6, 7, 8} = 1..8
      BY ONLY TRUE
    <3> QED
      BY ONLY <1>2, <3>1, Zenon
  <2> QED
    BY ONLY <2>1, <1>15, Zenon
<1>18. Codes!Value(b) = 128 * x1 + 64 * x2 + 32 * x3 + 16 * x4 + 8 * x5 + 4 * x6 + 2 * x7 + x8
  <2>1. /\ Len(b) = 8
        /\ b[1] \in 0..1 /\ b[2] \in 0..1 /\ b[3] \in 0..1 /\ b[4] \in 0..1
        /\ b[5] \in 0..1 /\ b[6] \in 0..1 /\ b[7] \in 0..1 /\ b[8] \in 0..1
    BY ONLY <1>16, <1>17, Zenon
  <2>2. Codes!Value(b) = 128 * b[1] + 64 * b[2] + 32 * b[3] + 16 * b[4] + 8 * b[5] + 4 * b[6] + 2 * b[7] + b[8]
    BY ONLY <2>1, Value8
  <2> QED
    BY ONLY <1>17, <2>2
<1> QED
  BY ONLY <1>1, <1>14, <1>18

(* base32Encode() writes the 160 bits of a secret five at a time.          *)
LEMMA EncodedAs ==
    ASSUME NEW bytes \in Seq(Nat), Len(bytes) = 20
    PROVE  Codes!Base32Encode(bytes) = Pieces(Groups(bytes, 8), 5, 32)
<1>1. PICK n \in Nat : n = 20
  OBVIOUS
<1>2. PICK J : J = Groups(bytes, 8)
  OBVIOUS
<1>3. PICK u : u = [i \in 0..n |-> Stage(J, 5, 8 * i)]
  OBVIOUS
<1>4. u[0] = Codes!NoBits
  <2>1. u[0] = Stage(J, 5, 0)
    BY <1>3
  <2> QED
    BY <2>1, StageZero
<1>5. ASSUME NEW i \in 1..n PROVE u[i] = Codes!EncodeStep(u[i - 1], bytes[i])
  <2>1. PICK k \in Nat : k = 8 * (i - 1)
    OBVIOUS
  <2>2. u[i - 1] = Stage(J, 5, k) /\ u[i] = Stage(J, 5, k + 8)
    BY <1>3, <2>1
  <2>3. Codes!EncodeStep(Stage(J, 5, k), bytes[i]) = Stage(J, 5, k + 8)
    <3>1. bytes \in Seq(Nat) /\ i \in 1..Len(bytes) /\ J = Groups(bytes, 8) /\ k \in Nat /\ k = 8 * (i - 1)
      BY <1>1, <1>2, <2>1
    <3> QED
      BY ONLY <3>1, EncodeGoesOn
  <2> QED
    BY <2>2, <2>3
<1>6. u[n].bits = 0 => Codes!Base32Encode(bytes) = u[n].out
  <2>1. /\ n \in Nat /\ Len(bytes) = n /\ u[0] = Codes!NoBits
        /\ \A i \in 1..n : u[i] = Codes!EncodeStep(u[i - 1], bytes[i])
    BY <1>1, <1>4, <1>5
  <2> QED
    BY ONLY <2>1, EncodeIs
<1>7. u[n] = Stage(J, 5, 160)
  BY <1>1, <1>3
<1>8. 160 % 5 = 0 /\ 160 \div 5 = 32
  OBVIOUS
<1>9. u[n].bits = 0 /\ u[n].out = Pieces(J, 5, 32)
  BY <1>7, <1>8 DEF Stage
<1> QED
  BY <1>2, <1>6, <1>9

(* base32 carries every secret: randomBytes(20) is written as 32           *)
(* characters, and base32Decode() as well as an authenticator reads those  *)
(* same 20 bytes back, whatever the 32-bit shifts drop on the way.         *)
THEOREM Base32Carries ==
    ASSUME NEW s \in [1..20 -> 0..255]
    PROVE  /\ Codes!Base32Encode(s) \in [1..32 -> 0..31] /\ Codes!Base32Encode(s) # << >>
           /\ Codes!AuthenticatorKey(Codes!Base32Encode(s)) = s
           /\ Codes!Base32Decode(Codes!Base32Encode(s)) = s
<1>1. s \in Seq(Nat) /\ Len(s) = 20
  <2>1. PICK n \in Nat : n = 20
    OBVIOUS
  <2>2. n \in Nat /\ s \in [1..n -> Nat]
    <3>1. 0..255 \in SUBSET Nat
      OBVIOUS
    <3> QED
      BY <2>1, <3>1, Zenon
  <2>3. s \in Seq(Nat) /\ Len(s) = n
    BY ONLY <2>2, SeqOf
  <2> QED
    BY <2>1, <2>3
<1>2. \A i \in 1..20 : s[i] \in 0..255
  OBVIOUS
<1>3. PICK J : J = Groups(s, 8)
  OBVIOUS
<1>4. /\ J \in Seq(0..1) /\ Len(J) = 160
      /\ \A i \in 1..20, r \in 1..8 : J[8 * (i - 1) + r] = Codes!ToBits(s[i], 8)[r]
  <2>1. PICK w \in {5, 8} : w = 8
    OBVIOUS
  <2>2. /\ Groups(s, w) \in Seq(0..1) /\ Len(Groups(s, w)) = w * Len(s)
        /\ \A i \in 1..Len(s), r \in 1..w : Groups(s, w)[w * (i - 1) + r] = Codes!ToBits(s[i], w)[r]
    BY ONLY <1>1, w \in {5, 8}, GroupsIs
  <2>3. w * Len(s) = 160
    BY <1>1, <2>1
  <2>4. Len(s) = 20 /\ w = 8 /\ Groups(s, w) = J
    BY <1>1, <1>3, <2>1
  <2>5. J \in Seq(0..1) /\ Len(J) = 160
    BY ONLY <2>2, <2>3, <2>4, Zenon
  <2>6. \A i \in 1..20, r \in 1..8 : J[8 * (i - 1) + r] = Codes!ToBits(s[i], 8)[r]
    BY ONLY <2>2, <2>4, Zenon
  <2> QED
    BY ONLY <2>5, <2>6
<1>5. PICK e : e = Codes!Base32Encode(s)
  OBVIOUS
<1>6. e = [j \in 1..32 |-> Piece(J, 5, j)]
  BY <1>1, <1>3, <1>5, EncodedAs DEF Pieces
<1>7. ASSUME NEW j \in 1..32
      PROVE  e[j] \in 0..31 /\ \A r \in 1..5 : Codes!ToBits(e[j], 5)[r] = J[5 * (j - 1) + r]
  <2>1. PICK d \in Nat : d = 5 * (j - 1)
    OBVIOUS
  <2>2. e[j] = Codes!Value(SubSeq(J, d + 1, d + 5))
    BY <1>6, <2>1 DEF Piece
  <2>3. d + 5 <= Len(J)
    <3>1. Len(J) = 160
      BY ONLY <1>4
    <3>2. d + 5 <= 160
      BY ONLY <2>1, j \in 1..32
    <3> QED
      BY ONLY <3>1, <3>2, Zenon
  <2>4. J \in Seq(0..1) /\ d \in Nat
    BY <1>4
  <2>5. /\ Codes!Value(SubSeq(J, d + 1, d + 5)) \in 0..31
        /\ \A r \in 1..5 : Codes!ToBits(Codes!Value(SubSeq(J, d + 1, d + 5)), 5)[r] = J[d + r]
    BY ONLY <2>3, <2>4, FiveBits
  <2> QED
    BY <2>1, <2>2, <2>5
<1>8. e \in [1..32 -> 0..31]
  BY <1>6, <1>7
<1>9. e \in Seq(Nat) /\ Len(e) = 32
  <2>1. PICK n \in Nat : n = 32
    OBVIOUS
  <2>2. n \in Nat /\ e \in [1..n -> Nat]
    BY <1>8, <2>1
  <2>3. e \in Seq(Nat) /\ Len(e) = n
    BY ONLY <2>2, SeqOf
  <2> QED
    BY <2>1, <2>3
<1>10. e # << >>
  <2>1. Len(<< >>) = 0
    BY ONLY TRUE
  <2>2. 32 # 0
    BY ONLY TRUE
  <2> QED
    BY ONLY <1>9, <2>1, <2>2, Zenon
<1>11. Groups(e, 5) = J
  <2>1. PICK K : K = Groups(e, 5)
    OBVIOUS
  <2>2. /\ K \in Seq(0..1) /\ Len(K) = 160
        /\ \A i \in 1..32, r \in 1..5 : K[5 * (i - 1) + r] = Codes!ToBits(e[i], 5)[r]
    <3>1. PICK w \in {5, 8} : w = 5
      OBVIOUS
    <3>2. /\ Groups(e, w) \in Seq(0..1) /\ Len(Groups(e, w)) = w * Len(e)
          /\ \A i \in 1..Len(e), r \in 1..w : Groups(e, w)[w * (i - 1) + r] = Codes!ToBits(e[i], w)[r]
      BY ONLY <1>9, w \in {5, 8}, GroupsIs
    <3>3. w * Len(e) = 160
      BY <1>9, <3>1
    <3>4. Len(e) = 32 /\ w = 5 /\ Groups(e, w) = K
      BY <1>9, <2>1, <3>1
    <3>5. K \in Seq(0..1) /\ Len(K) = 160
      BY ONLY <3>2, <3>3, <3>4, Zenon
    <3>6. \A i \in 1..32, r \in 1..5 : K[5 * (i - 1) + r] = Codes!ToBits(e[i], 5)[r]
      BY ONLY <3>2, <3>4, Zenon
    <3> QED
      BY ONLY <3>5, <3>6
  <2>3. ASSUME NEW k \in 1..160 PROVE K[k] = J[k]
    <3>1. PICK n \in 0..159 : n = k - 1
      OBVIOUS
    <3>2. PICK m \in 0..31 : m = n \div 5
      OBVIOUS
    <3>3. PICK l \in 0..4 : l = n % 5
      OBVIOUS
    <3>6. n = 5 * m + l
      BY ONLY n \in 0..159, <3>2, <3>3
    <3>7. PICK i \in 1..32, r \in 1..5 : i = m + 1 /\ r = l + 1
      OBVIOUS
    <3>8. k = 5 * (i - 1) + r
      BY ONLY k \in 1..160, m \in 0..31, l \in 0..4, <3>1, <3>6, <3>7
    <3>4. K[5 * (i - 1) + r] = Codes!ToBits(e[i], 5)[r]
      <4>1. \A a \in 1..32, b \in 1..5 : K[5 * (a - 1) + b] = Codes!ToBits(e[a], 5)[b]
        BY ONLY <2>2
      <4> QED
        BY ONLY <4>1, i \in 1..32, r \in 1..5, Zenon
    <3>5. Codes!ToBits(e[i], 5)[r] = J[5 * (i - 1) + r]
      BY <1>7
    <3> QED
      BY <3>4, <3>5, <3>8, Zenon
  <2>4. K \in Seq(0..1) /\ J \in Seq(0..1) /\ Len(K) = Len(J) /\ \A k \in 1..Len(K) : K[k] = J[k]
    BY <1>4, <2>2, <2>3
  <2>5. K = J
    BY ONLY <2>4, SeqEqual
  <2> QED
    BY <2>1, <2>5
<1>12. Codes!AuthenticatorKey(e) = [j \in 1..20 |-> Piece(J, 8, j)]
  <2>1. (5 * Len(e)) \div 8 = 20
    BY <1>9
  <2>2. Len(e) \in Nat
    BY <1>9
  <2>3. Codes!AuthenticatorKey(e) = Pieces(Groups(e, 5), 8, (5 * Len(e)) \div 8)
    BY ONLY <2>2, KeyIs
  <2> QED
    BY <1>11, <2>1, <2>3 DEF Pieces
<1>13. ASSUME NEW j \in 1..20 PROVE Piece(J, 8, j) = s[j]
  <2>1. PICK d \in Nat : d = 8 * (j - 1)
    OBVIOUS
  <2>2. Piece(J, 8, j) = Codes!Value(SubSeq(J, d + 1, d + 8))
    BY <2>1 DEF Piece
  <2>3. J \in Seq(0..1) /\ d \in Nat /\ d + 8 <= Len(J) /\ s[j] \in 0..255
    <3>1. s[j] \in 0..255
      BY ONLY <1>2, j \in 1..20
    <3>2. Len(J) = 160
      BY <1>4
    <3>3. d + 8 <= 160
      BY ONLY <2>1, j \in 1..20
    <3> QED
      BY <1>4, <3>1, <3>2, <3>3, Zenon
  <2>4. \A r \in 1..8 : J[d + r] = Codes!ToBits(s[j], 8)[r]
    <3>1. \A i \in 1..20, r \in 1..8 : J[8 * (i - 1) + r] = Codes!ToBits(s[i], 8)[r]
      BY ONLY <1>4
    <3> QED
      BY ONLY <2>1, <3>1, j \in 1..20, Zenon
  <2>5. Codes!Value(SubSeq(J, d + 1, d + 8)) = s[j]
    BY ONLY <2>3, <2>4, EightBits
  <2> QED
    BY <2>2, <2>5
<1>14. Codes!AuthenticatorKey(e) = s
  BY <1>12, <1>13
<1>15. Codes!Base32Decode(e) = s
  BY <1>9, <1>14, DecodesAsAuthenticator
<1> QED
  BY <1>5, <1>8, <1>10, <1>14, <1>15

-----------------------------------------------------------------------------
(* TOTP codes *)

(* A code that is shown is the authenticator's for its time; a verdict is  *)
(* about the code that is shown                                            *)
CodesInv ==
    /\ Codes!TypeOK /\ AuthenticatorAgrees
    /\ text = << >> \/ \E s \in Secrets : text = Codes!Base32Encode(s)
    /\ shown # Codes!NoCode =>
         /\ text # << >>
         /\ shown.code = <<Codes!AuthenticatorKey(text), shown.time \div Period>>
    /\ verdict # Codes!NoVerdict => shown # Codes!NoCode

(* What the configuration says of the clocks.                              *)
LEMMA CodesAssumed ==
    /\ Period \in Nat \ {0} /\ Start \in Nat /\ MaxClock \in Nat /\ Start <= MaxClock
    /\ \A k \in Skews : k \in Int /\ Start + k >= 0
    /\ Secrets \subseteq [1..20 -> 0..255]
  BY TrustAssumption DEF Codes!TotpAssumption

(* Two times at most a period apart are at most one step apart; two times  *)
(* at least two periods apart are at least two steps apart.                *)
LEMMA StepsApart ==
    ASSUME NEW p \in Nat \ {0}, NEW a \in Nat, NEW b \in Nat
    PROVE  /\ a \div p \in Int /\ b \div p \in Int
           /\ a - b \in (-p)..p => a \div p - b \div p \in {-1, 0, 1}
           /\ a - b \notin (1 - 2 * p)..(2 * p - 1) => a \div p - b \div p \notin {-1, 0, 1}
<1>1. \A x \in Nat : x \div p \in Int /\ p * (x \div p) <= x /\ x < p * (x \div p) + p
  OBVIOUS
<1>2. PICK q \in Int : q = a \div p
  BY <1>1
<1>3. PICK r \in Int : r = b \div p
  BY <1>1
<1>4. /\ p * q <= a /\ a < p * q + p /\ p * r <= b /\ b < p * r + p
  BY <1>1, <1>2, <1>3
<1>5. PICK m \in Int : m = p * q - p * r
  OBVIOUS
<1>6. m = p * (q - r)
  BY <1>5
<1>7. m - p < a - b /\ a - b < m + p
  BY <1>4, <1>5
<1>8. \A x \in Int : /\ p * x < 2 * p => x < 2
                     /\ -(2 * p) < p * x => -2 < x
  OBVIOUS
<1>9. \A x \in {-1, 0, 1} : -p <= p * x /\ p * x <= p
  OBVIOUS
<1>10. a - b \in (-p)..p => q - r \in {-1, 0, 1}
  BY <1>6, <1>7, <1>8
<1>11. q - r \in {-1, 0, 1} => a - b \in (1 - 2 * p)..(2 * p - 1)
  BY <1>6, <1>7, <1>9
<1> QED
  BY <1>1, <1>2, <1>3, <1>10, <1>11

(* Nothing is generated when the process starts.                           *)
LEMMA CodesInit == Codes!Init => CodesInv
<1> SUFFICES ASSUME Codes!Init PROVE CodesInv
  OBVIOUS
<1>1. text = << >> /\ clock = Start /\ shown = Codes!NoCode /\ verdict = Codes!NoVerdict
  BY DEF Codes!Init
<1>2. Codes!TypeOK
  BY <1>1, CodesAssumed DEF Codes!TypeOK, Codes!NoCode, Codes!NoVerdict
<1> QED
  BY <1>1, <1>2 DEF CodesInv, AuthenticatorAgrees, Codes!AuthenticatorAgrees

(* The user reads a code off, of the authenticator's own time.             *)
LEMMA ShowInv ==
    ASSUME CodesInv, NEW k \in Skews, Codes!Show(k)
    PROVE  CodesInv'
<1>1. /\ text # << >> /\ shown = Codes!NoCode /\ UNCHANGED <<text, clock, verdict>>
      /\ shown' = [code |-> <<Codes!AuthenticatorKey(text), (clock + k) \div Period>>,
                   time |-> clock + k]
  BY DEF Codes!Show, Codes!Hotp, Codes!CurrentCounter
<1>2. Codes!TypeOK /\ clock \in Start..MaxClock
  BY DEF CodesInv, Codes!TypeOK
<1>3. clock + k \in Nat
  BY <1>2, CodesAssumed
<1>4. shown'.time = clock + k /\ shown'.code = <<Codes!AuthenticatorKey(text), (clock + k) \div Period>>
  BY <1>1
<1>5. verdict = Codes!NoVerdict
  BY <1>1 DEF CodesInv
<1>6. Codes!TypeOK'
  BY <1>1, <1>2, <1>3, <1>4 DEF Codes!TypeOK
<1>7. Codes!AuthenticatorKey(text)' = Codes!AuthenticatorKey(text)
  BY <1>1
<1> QED
  BY <1>1, <1>4, <1>5, <1>6, <1>7 DEF CodesInv, AuthenticatorAgrees, Codes!AuthenticatorAgrees

(* verify() compares counters, once both sides have the same key.          *)
LEMMA VerifyInv ==
    ASSUME CodesInv, Codes!Verify
    PROVE  CodesInv'
<1> DEFINE key == Codes!AuthenticatorKey(text)
           steps == clock \div Period
           seen == shown.time \div Period
<1>1. /\ shown # Codes!NoCode /\ verdict = Codes!NoVerdict /\ UNCHANGED <<text, clock, shown>>
      /\ verdict' = [valid |-> \E d \in {-1, 0, 1} :
                                 <<Codes!Base32Decode(text), steps + d>> = shown.code,
                     at |-> clock]
  BY DEF Codes!Verify, Codes!Hotp, Codes!CurrentCounter, Codes!Deltas
<1>2. /\ Codes!TypeOK /\ clock \in Nat /\ shown.time \in Nat /\ text # << >>
      /\ shown.code = <<key, seen>>
  <2>1. Codes!TypeOK /\ text # << >> /\ shown.code = <<key, seen>>
    BY <1>1 DEF CodesInv
  <2>2. clock \in Start..MaxClock /\ shown.time \in Nat
    BY <2>1 DEF Codes!TypeOK
  <2>3. clock \in Nat
    BY <2>2, CodesAssumed
  <2> QED
    BY <2>1, <2>2, <2>3
<1>3. Codes!Base32Decode(text) = key
  <2>1. PICK s \in Secrets : text = Codes!Base32Encode(s)
    BY <1>2 DEF CodesInv
  <2>2. s \in [1..20 -> 0..255]
    BY CodesAssumed
  <2> QED
    BY <2>1, <2>2, Base32Carries
<1>4. verdict'.at = clock
      /\ verdict'.valid = (\E d \in {-1, 0, 1} : <<Codes!Base32Decode(text), steps + d>> = shown.code)
  BY <1>1
<1>5. verdict'.valid <=> \E d \in {-1, 0, 1} : steps + d = seen
  BY <1>2, <1>3, <1>4
<1>6. /\ steps \in Int /\ seen \in Int
      /\ clock - shown.time \in (-Period)..Period => steps - seen \in {-1, 0, 1}
      /\ clock - shown.time \notin (1 - 2 * Period)..(2 * Period - 1) => steps - seen \notin {-1, 0, 1}
  BY <1>2, CodesAssumed, StepsApart
<1> HIDE DEF key, steps, seen
<1>7. (\E d \in {-1, 0, 1} : steps + d = seen) <=> steps - seen \in {-1, 0, 1}
  BY <1>6
<1>8. AuthenticatorAgrees'
  <2>1. text' # << >> => Codes!AuthenticatorKey(text') \in Secrets
    BY <1>1 DEF CodesInv, AuthenticatorAgrees, Codes!AuthenticatorAgrees
  <2> QED
    BY <1>1, <1>4, <1>5, <1>6, <1>7, <2>1 DEF AuthenticatorAgrees, Codes!AuthenticatorAgrees
<1>9. verdict'.valid \in BOOLEAN
  BY <1>4
<1>10. Codes!TypeOK'
  BY <1>1, <1>2, <1>9 DEF Codes!TypeOK
<1> QED
  BY <1>1, <1>8, <1>10 DEF CodesInv

(* Every step of a code keeps the invariant.                               *)
LEMMA CodesNext ==
    ASSUME CodesInv, [Codes!Next]_codeVars
    PROVE  CodesInv'
<1>1. ASSUME NEW s \in Secrets, Codes!GenerateSecret(s) PROVE CodesInv'
  <2>1. text = << >> /\ text' = Codes!Base32Encode(s) /\ UNCHANGED <<clock, shown, verdict>>
    BY <1>1 DEF Codes!GenerateSecret
  <2>2. shown = Codes!NoCode /\ verdict = Codes!NoVerdict
    BY <2>1 DEF CodesInv
  <2>3. s \in [1..20 -> 0..255]
    BY CodesAssumed
  <2>4. text' \in [1..32 -> 0..31] /\ Codes!AuthenticatorKey(text') = s
    BY <2>1, <2>3, Base32Carries
  <2>5. Codes!TypeOK'
    BY <2>1, <2>4 DEF CodesInv, Codes!TypeOK
  <2> QED
    BY <2>1, <2>2, <2>4, <2>5 DEF CodesInv, AuthenticatorAgrees, Codes!AuthenticatorAgrees
<1>2. CASE Codes!NextCode
  <2>1. shown' = Codes!NoCode /\ verdict' = Codes!NoVerdict /\ UNCHANGED <<text, clock>>
    BY <1>2 DEF Codes!NextCode
  <2>2. Codes!TypeOK'
    BY <2>1 DEF CodesInv, Codes!TypeOK, Codes!NoCode, Codes!NoVerdict
  <2> QED
    BY <2>1, <2>2 DEF CodesInv, AuthenticatorAgrees, Codes!AuthenticatorAgrees
<1>3. CASE Codes!Tick
  <2>1. clock' \in Start..MaxClock /\ UNCHANGED <<text, shown, verdict>>
    <3>1. clock \in Start..MaxClock
      BY DEF CodesInv, Codes!TypeOK
    <3> QED
      BY <1>3, <3>1, CodesAssumed DEF Codes!Tick
  <2>2. Codes!TypeOK'
    BY <2>1 DEF CodesInv, Codes!TypeOK
  <2> QED
    BY <2>1, <2>2 DEF CodesInv, AuthenticatorAgrees, Codes!AuthenticatorAgrees
<1>4. CASE UNCHANGED codeVars
  <2>1. UNCHANGED <<text, clock, shown, verdict>>
    BY <1>4 DEF codeVars
  <2>2. Codes!TypeOK'
    BY <2>1 DEF CodesInv, Codes!TypeOK
  <2> QED
    BY <2>1, <2>2 DEF CodesInv, AuthenticatorAgrees, Codes!AuthenticatorAgrees
<1> QED
  BY <1>1, <1>2, <1>3, <1>4, ShowInv, VerifyInv DEF Codes!Next
-----------------------------------------------------------------------------
(* The trust history.  First Welford's recurrence, in integers: a / b is   *)
(* the mean of n rates with sum s and squares t, p / q their variance, and *)
(* x is the next rate.                                                     *)

(* The mean moves by its share of the difference.                          *)
LEMMA MeanAlgebra ==
    ASSUME NEW a \in Int, NEW b \in Int, NEW n \in Int, NEW s \in Int, NEW x \in Int,
           a * n = s * b
    PROVE  a * (b * (n + 1)) + (x * b - a) * b = (b * b) * (s + x)
<1>1. a * (b * (n + 1)) + (x * b - a) * b = b * (a * n) + (b * b) * x
  OBVIOUS
<1>2. b * (s * b) + (b * b) * x = (b * b) * (s + x)
  OBVIOUS
<1> QED
  BY <1>1, <1>2

(* The variance is the old one's share and the product of two differences. *)
LEMMA VarianceAlgebra ==
    ASSUME NEW a \in Int, NEW b \in Int, NEW n \in Int, NEW s \in Int, NEW x \in Int,
           NEW p \in Int, NEW q \in Int, NEW t \in Int,
           a * n = s * b, (p * n) * (n - 1) = (n * t - s * s) * q
    PROVE  LET B == (b * b) * (n + 1)
               Q == x * B - (b * b) * (s + x)
           IN  (((n - 1) * p) * (b * B) + ((x * b - a) * Q) * q) * (n + 1) * n
               = ((n + 1) * (t + x * x) - (s + x) * (s + x)) * ((q * (b * B)) * n)
<1> DEFINE B == (b * b) * (n + 1)
           Q == x * B - (b * b) * (s + x)
<1>1. Q = (b * b) * (x * n - s)
  OBVIOUS
<1>2. (x * b - a) * n = b * (x * n - s)
  <2>1. (x * b - a) * n = b * (x * n) - a * n
    OBVIOUS
  <2>2. b * (x * n) - s * b = b * (x * n - s)
    OBVIOUS
  <2> QED
    BY <2>1, <2>2
<1> HIDE DEF Q
<1>3. Q \in Int
  BY <1>1
<1>4. (((n - 1) * p) * (b * B) + ((x * b - a) * Q) * q) * (n + 1) * n
      = (n + 1) * (((p * n) * (n - 1)) * (b * B) + (((x * b - a) * n) * Q) * q)
  BY <1>3
<1>5. (n + 1) * (((n * t - s * s) * q) * (b * B) + ((b * (x * n - s)) * ((b * b) * (x * n - s))) * q)
      = ((n + 1) * (t + x * x) - (s + x) * (s + x)) * ((q * (b * B)) * n)
  OBVIOUS
<1> QED
  BY <1>1, <1>2, <1>4, <1>5 DEF Q

Fractions == [num : Int, den : Nat \ {0}]
Rows == [count : Nat, hist : [Telemetry!Hours -> Nat], obs : Nat,
         mean : Fractions, var : Fractions, firstSeen : Nat, lastSeen : Nat,
         ja4h : Prints \cup {"null"}, hours : Seq(Telemetry!Hours), sum : Int, squares : Int]

(* Mean and variance are those of the rates behind them                    *)
Exact(r) ==
    /\ r.mean.num * r.obs = r.sum * r.mean.den
    /\ (r.var.num * r.obs) * (r.obs - 1) = (r.obs * r.squares - r.sum * r.sum) * r.var.den

Good(r) == r \in Rows /\ Telemetry!IsRow(r) /\ Exact(r)

(* What the configuration says of the history.                             *)
LEMMA TelemetryAssumed ==
    /\ Times \subseteq Nat /\ PerHour \in Nat \ {0} /\ PerMinute \in Nat
    /\ Telemetry!Free \notin Requests
    /\ \A ts \in Times : Telemetry!HourOf(ts) \in Telemetry!Hours
  BY TrustAssumption DEF Telemetry!TelemetryAssumption, Telemetry!Free, Telemetry!Hours

(* upsertSignalRow: the fractions the code computes are the ones of the    *)
(* two lemmas above.                                                       *)
LEMMA WelfordStep ==
    ASSUME NEW r \in Rows, Exact(r), r.obs > 0, NEW x \in Int
    PROVE  LET rate == Telemetry!Frac(x, 1)
               n == r.obs + 1
               mean == Telemetry!Plus(r.mean, Telemetry!Over(Telemetry!Less(rate, r.mean), n))
               var == Telemetry!Variance(r, n, rate, mean)
           IN  /\ mean \in Fractions /\ var \in Fractions
               /\ mean.num * n = (r.sum + x) * mean.den
               /\ (var.num * n) * (n - 1)
                    = (n * (r.squares + x * x) - (r.sum + x) * (r.sum + x)) * var.den
<1> DEFINE rate == Telemetry!Frac(x, 1)
           n == r.obs + 1
           mean == Telemetry!Plus(r.mean, Telemetry!Over(Telemetry!Less(rate, r.mean), n))
           var == Telemetry!Variance(r, n, rate, mean)
<1>1. r.mean \in Fractions /\ r.var \in Fractions /\ r.obs \in Nat /\ r.sum \in Int /\ r.squares \in Int
  BY DEF Rows
<1>2. PICK a \in Int, b \in Nat \ {0} : r.mean = Telemetry!Frac(a, b)
  BY <1>1 DEF Fractions, Telemetry!Frac
<1>3. PICK p \in Int, q \in Nat \ {0} : r.var = Telemetry!Frac(p, q)
  BY <1>1 DEF Fractions, Telemetry!Frac
<1>4. PICK m \in Nat \ {0}, s \in Int, t \in Int : r.obs = m /\ r.sum = s /\ r.squares = t
  BY <1>1
<1>5. a * m = s * b /\ (p * m) * (m - 1) = (m * t - s * s) * q
  BY <1>2, <1>3, <1>4 DEF Exact, Telemetry!Frac
<1> DEFINE B == (b * b) * (m + 1)
           Q == x * B - (b * b) * (s + x)
<1>6. Telemetry!Less(rate, r.mean) = Telemetry!Frac(x * b - a, b)
  BY <1>2 DEF Telemetry!Less, Telemetry!Plus, Telemetry!Frac
<1>7. mean = Telemetry!Frac((b * b) * (s + x), B)
  <2>1. mean = Telemetry!Frac(a * (b * (m + 1)) + (x * b - a) * b, b * (b * (m + 1)))
    BY <1>2, <1>4, <1>6 DEF Telemetry!Plus, Telemetry!Over, Telemetry!Frac
  <2>2. a * (b * (m + 1)) + (x * b - a) * b = (b * b) * (s + x)
    BY <1>5, MeanAlgebra
  <2>3. b * (b * (m + 1)) = (b * b) * (m + 1)
    OBVIOUS
  <2> QED
    BY <2>1, <2>2, <2>3
<1>8. B \in Nat \ {0} /\ Q \in Int
  <2>1. b * b \in Nat \ {0}
    OBVIOUS
  <2>2. \A y \in Nat \ {0} : y * (m + 1) \in Nat \ {0}
    OBVIOUS
  <2>3. B \in Nat \ {0}
    BY <2>1, <2>2
  <2> QED
    BY <2>3
<1>9. Telemetry!Less(rate, mean) = Telemetry!Frac(Q, B)
  BY <1>7, <1>8 DEF Telemetry!Less, Telemetry!Plus, Telemetry!Frac
<1>10. var = Telemetry!Frac(((m - 1) * p) * (b * B) + ((x * b - a) * Q) * q, (q * (b * B)) * m)
  <2>1. n # 1 /\ n - 1 = m /\ n - 2 = m - 1
    BY <1>4
  <2>2. Telemetry!Product(Telemetry!Frac(n - 2, 1), r.var) = Telemetry!Frac((m - 1) * p, q)
    BY <1>3, <2>1 DEF Telemetry!Product, Telemetry!Frac
  <2>3. Telemetry!Product(Telemetry!Less(rate, r.mean), Telemetry!Less(rate, mean))
          = Telemetry!Frac((x * b - a) * Q, b * B)
    BY <1>6, <1>9 DEF Telemetry!Product, Telemetry!Frac
  <2>4. var = Telemetry!Over(Telemetry!Plus(Telemetry!Frac((m - 1) * p, q),
                                            Telemetry!Frac((x * b - a) * Q, b * B)), m)
    BY <2>1, <2>2, <2>3 DEF Telemetry!Variance
  <2> HIDE DEF B, Q, var
  <2> QED
    BY <2>4 DEF Telemetry!Plus, Telemetry!Over, Telemetry!Frac
<1>11. mean \in Fractions /\ mean.num = (b * b) * (s + x) /\ mean.den = B
  <2>1. (b * b) * (s + x) \in Int
    OBVIOUS
  <2> QED
    BY <1>7, <1>8, <2>1 DEF Fractions, Telemetry!Frac
<1>12. mean.num * n = (r.sum + x) * mean.den
  BY <1>4, <1>11
<1>13. /\ var \in Fractions
       /\ var.num = ((m - 1) * p) * (b * B) + ((x * b - a) * Q) * q
       /\ var.den = (q * (b * B)) * m
  <2> HIDE DEF B, Q, var
  <2>1. ((m - 1) * p) * (b * B) + ((x * b - a) * Q) * q \in Int
    BY <1>8
  <2>2. b * B \in Nat \ {0}
    BY <1>8
  <2>3. \A y \in Nat \ {0} : q * y \in Nat \ {0} /\ y * m \in Nat \ {0}
    OBVIOUS
  <2>4. (q * (b * B)) * m \in Nat \ {0}
    BY <2>2, <2>3
  <2> QED
    BY <1>10, <2>1, <2>4 DEF Fractions, Telemetry!Frac
<1>14. (var.num * n) * (n - 1)
         = (n * (r.squares + x * x) - (r.sum + x) * (r.sum + x)) * var.den
  <2>1. (((m - 1) * p) * (b * B) + ((x * b - a) * Q) * q) * (m + 1) * m
          = ((m + 1) * (t + x * x) - (s + x) * (s + x)) * ((q * (b * B)) * m)
    BY <1>5, VarianceAlgebra
  <2>2. n = m + 1 /\ n - 1 = m
    BY <1>4
  <2> HIDE DEF B, Q, var, n
  <2> QED
    BY <1>4, <1>13, <2>1, <2>2
<1> QED
  BY <1>11, <1>12, <1>13, <1>14
(* The histogram counts an ALLOW under its hour.                           *)
LEMMA HistogramStep ==
    ASSUME NEW r \in Rows, Telemetry!IsRow(r), NEW g \in Telemetry!Hours
    PROVE  LET hist == [r.hist EXCEPT ![g] = @ + 1]
               hours == Append(r.hours, g)
           IN  /\ hist \in [Telemetry!Hours -> Nat]
               /\ hours \in Seq(Telemetry!Hours) /\ Len(hours) = r.count + 1
               /\ \A h \in Telemetry!Hours :
                    hist[h] = Telemetry!Cardinality({i \in DOMAIN hours : hours[i] = h})
<1> DEFINE hist == [r.hist EXCEPT ![g] = @ + 1]
           hours == Append(r.hours, g)
           at(h) == {i \in DOMAIN r.hours : r.hours[i] = h}
<1>1. \A S : Telemetry!Cardinality(S) = Cardinality(S)
  BY DEF Telemetry!Cardinality, Cardinality
<1>2. /\ r.hist \in [Telemetry!Hours -> Nat] /\ r.hours \in Seq(Telemetry!Hours) /\ r.count \in Nat
      /\ Len(r.hours) = r.count
      /\ \A h \in Telemetry!Hours : r.hist[h] = Cardinality(at(h))
  BY <1>1 DEF Rows, Telemetry!IsRow
<1>3. PICK n \in Nat : n = r.count
  BY <1>2
<1>4. DOMAIN r.hours = 1..n
  BY <1>2, <1>3
<1>5. /\ hours \in Seq(Telemetry!Hours) /\ Len(hours) = n + 1 /\ DOMAIN hours = 1..(n + 1)
      /\ hours[n + 1] = g /\ \A i \in 1..n : hours[i] = r.hours[i]
  BY <1>2, <1>3
<1>6. \A h \in Telemetry!Hours : IsFiniteSet(at(h)) /\ n + 1 \notin at(h)
  <2>1. IsFiniteSet(1..n)
    BY FS_Interval
  <2>2. ASSUME NEW h \in Telemetry!Hours PROVE IsFiniteSet(at(h))
    <3>1. at(h) \subseteq 1..n
      BY <1>4
    <3> QED
      BY <2>1, <3>1, FS_Subset
  <2>3. n + 1 \notin 1..n
    OBVIOUS
  <2> QED
    BY <1>4, <2>2, <2>3
<1>7. hist \in [Telemetry!Hours -> Nat] /\ hist[g] = r.hist[g] + 1
      /\ \A h \in Telemetry!Hours \ {g} : hist[h] = r.hist[h]
  BY <1>2
<1> HIDE DEF hist, hours
<1>8. ASSUME NEW h \in Telemetry!Hours
      PROVE  hist[h] = Cardinality({i \in DOMAIN hours : hours[i] = h})
  <2>1. 1..(n + 1) = 1..n \cup {n + 1}
    OBVIOUS
  <2>2. CASE h = g
    <3>1. {i \in DOMAIN hours : hours[i] = h} = at(h) \cup {n + 1}
      BY <1>4, <1>5, <2>1, <2>2
    <3>2. Cardinality(at(h) \cup {n + 1}) = Cardinality(at(h)) + 1
      BY <1>6, FS_AddElement
    <3> QED
      BY <1>2, <1>7, <2>2, <3>1, <3>2
  <2>3. CASE h # g
    <3>1. {i \in DOMAIN hours : hours[i] = h} = at(h)
      BY <1>4, <1>5, <2>1, <2>3
    <3> QED
      BY <1>2, <1>7, <2>3, <3>1
  <2> QED
    BY <2>2, <2>3
<1>9. \A h \in Telemetry!Hours :
        hist[h] = Telemetry!Cardinality({i \in DOMAIN hours : hours[i] = h})
  BY <1>1, <1>8
<1> QED
  BY <1>3, <1>5, <1>7, <1>9 DEF hist, hours

(* upsertSignalRow leads from a good row to a good row with one ALLOW more. *)
LEMMA IncrementedGood ==
    ASSUME NEW r, Good(r), NEW ts \in Times, NEW print \in Prints \cup {"null"}
    PROVE  LET new == Telemetry!Incremented(r, ts, print)
           IN  Good(new) /\ new.count = r.count + 1
<1> DEFINE gap == IF ts > r.lastSeen THEN ts - r.lastSeen ELSE 1
           x == PerMinute \div gap
           rate == Telemetry!Frac(x, 1)
           n == r.obs + 1
           mean == Telemetry!Plus(r.mean, Telemetry!Over(Telemetry!Less(rate, r.mean), n))
           var == Telemetry!Variance(r, n, rate, mean)
           hist == [r.hist EXCEPT ![Telemetry!HourOf(ts)] = @ + 1]
           hours == Append(r.hours, Telemetry!HourOf(ts))
           first == [count |-> 1, hist |-> hist, obs |-> 1, mean |-> Telemetry!Zero,
                     var |-> Telemetry!Zero, firstSeen |-> ts, lastSeen |-> ts, ja4h |-> print,
                     hours |-> hours, sum |-> 0, squares |-> 0]
           later == [count |-> r.count + 1, hist |-> hist, obs |-> n, mean |-> mean, var |-> var,
                     firstSeen |-> r.firstSeen, lastSeen |-> ts, ja4h |-> print,
                     hours |-> hours, sum |-> r.sum + x, squares |-> r.squares + x * x]
<1>1. /\ r \in Rows /\ Exact(r) /\ Telemetry!IsRow(r) /\ r.count \in Nat /\ r.obs = r.count
      /\ r.firstSeen \in Nat /\ r.lastSeen \in Nat /\ r.sum \in Int /\ r.squares \in Int
  BY DEF Good, Rows, Telemetry!IsRow
<1>2. ts \in Nat /\ Telemetry!HourOf(ts) \in Telemetry!Hours
  BY TelemetryAssumed
<1>3. /\ hist \in [Telemetry!Hours -> Nat]
      /\ hours \in Seq(Telemetry!Hours) /\ Len(hours) = r.count + 1
      /\ \A h \in Telemetry!Hours :
           hist[h] = Telemetry!Cardinality({i \in DOMAIN hours : hours[i] = h})
  BY <1>1, <1>2, HistogramStep
<1>4. x \in Int
  <2>1. gap \in Nat \ {0}
    BY <1>1, <1>2
  <2> QED
    BY <2>1, TelemetryAssumed
<1>5. Telemetry!Incremented(r, ts, print) = IF r.count = 0 THEN first ELSE later
  BY DEF Telemetry!Incremented, Telemetry!Frac
<1>6. CASE r.count = 0
  <2> HIDE DEF hist, hours
  <2>1. Telemetry!Zero \in Fractions /\ Telemetry!Zero.num = 0
    BY DEF Telemetry!Zero, Telemetry!Frac, Fractions
  <2>2. first \in Rows
    BY <1>2, <1>3, <2>1 DEF Rows
  <2>3. Exact(first)
    BY <2>1 DEF Exact, Fractions
  <2>4. Telemetry!IsRow(first) /\ first.count = r.count + 1
    BY <1>3, <1>6 DEF Telemetry!IsRow
  <2> QED
    BY <1>5, <1>6, <2>2, <2>3, <2>4 DEF Good
<1>7. CASE r.count # 0
  <2>1. r.obs > 0
    BY <1>1, <1>7
  <2>2. /\ mean \in Fractions /\ var \in Fractions
        /\ mean.num * n = (r.sum + x) * mean.den
        /\ (var.num * n) * (n - 1)
             = (n * (r.squares + x * x) - (r.sum + x) * (r.sum + x)) * var.den
    BY <1>1, <1>4, <2>1, WelfordStep
  <2>3. n \in Nat /\ r.sum + x \in Int /\ r.squares + x * x \in Int
    BY <1>1, <1>4
  <2> HIDE DEF hist, hours, mean, var, x
  <2>4. later \in Rows
    BY <1>1, <1>2, <1>3, <2>2, <2>3 DEF Rows
  <2>5. Exact(later)
    BY <2>2 DEF Exact
  <2>6. Telemetry!IsRow(later) /\ later.count = r.count + 1
    BY <1>1, <1>3 DEF Telemetry!IsRow
  <2> QED
    BY <1>5, <1>7, <2>4, <2>5, <2>6 DEF Good
<1> QED
  BY <1>6, <1>7

(* ON CONFLICT DO UPDATE keeps the new row's counts and statistics.        *)
LEMMA MergedGood ==
    ASSUME NEW old, Good(old), NEW new, Good(new)
    PROVE  Good(Telemetry!Merged(old, new)) /\ Telemetry!Merged(old, new).count = new.count
<1> DEFINE f == IF old.firstSeen < new.firstSeen THEN old.firstSeen ELSE new.firstSeen
           j == IF new.ja4h = "null" THEN old.ja4h ELSE new.ja4h
           m == [new EXCEPT !.firstSeen = f, !.ja4h = j]
<1>1. old \in Rows /\ new \in Rows
  BY DEF Good
<1>2. Telemetry!Merged(old, new) = IF old.count = 0 THEN new ELSE m
  BY <1>1 DEF Telemetry!Merged, Rows
<1>3. f \in Nat /\ j \in Prints \cup {"null"}
  BY <1>1 DEF Rows
<1> HIDE DEF f, j
<1>4. m \in Rows
  BY <1>1, <1>3 DEF Rows
<1>5. /\ m.count = new.count /\ m.hist = new.hist /\ m.obs = new.obs /\ m.mean = new.mean
      /\ m.var = new.var /\ m.hours = new.hours /\ m.sum = new.sum /\ m.squares = new.squares
  BY <1>1 DEF Rows
<1> HIDE DEF m
<1>6. Telemetry!IsRow(m) /\ Exact(m)
  BY <1>5 DEF Good, Telemetry!IsRow, Exact
<1> QED
  BY <1>2, <1>4, <1>5, <1>6 DEF Good
TxStates == [pc : {"new", "select", "upsert", "commit", "done", "failed"}, ts : Times \cup {0},
             print : Prints \cup {"null"}, next : Rows, first : BOOLEAN]

(* Whoever is about to commit holds the row; whoever's SELECT ... FOR      *)
(* UPDATE found it has held it since, and builds on what it read           *)
Locked(t) ==
    /\ tx[t].pc = "commit" => holder = t
    /\ tx[t].pc \in {"upsert", "commit"} /\ ~tx[t].first =>
         holder = t /\ tx[t].next.count = row.count + 1

TxGood(t) ==
    /\ Good(tx[t].next)
    /\ tx[t].pc # "new" => tx[t].ts \in Times
    /\ Locked(t)

TelemetryInv ==
    /\ Good(row) /\ holder \in Requests \cup {Telemetry!Free} /\ activity \in SUBSET Requests
    /\ tx \in [Requests -> TxStates]
    /\ \A t \in Requests : TxGood(t)

(* There is no row at first.                                               *)
LEMMA NoRowGood == Good(Telemetry!NoRow)
<1> DEFINE r == Telemetry!NoRow
<1>1. Telemetry!Zero \in Fractions /\ Telemetry!Zero.num = 0
  BY DEF Telemetry!Zero, Telemetry!Frac, Fractions
<1>2. r \in Rows
  BY <1>1 DEF Telemetry!NoRow, Rows
<1>3. Exact(r)
  BY <1>1 DEF Telemetry!NoRow, Exact, Fractions
<1>4. \A S : Telemetry!Cardinality(S) = Cardinality(S)
  BY DEF Telemetry!Cardinality, Cardinality
<1>5. ASSUME NEW h \in Telemetry!Hours
      PROVE  r.hist[h] = Telemetry!Cardinality({i \in DOMAIN r.hours : r.hours[i] = h})
  <2>1. {i \in DOMAIN r.hours : r.hours[i] = h} = {} /\ r.hist[h] = 0
    BY DEF Telemetry!NoRow
  <2> QED
    BY <1>4, <2>1, FS_EmptySet
<1>6. r.count = 0 /\ r.obs = 0 /\ r.hist \in [Telemetry!Hours -> Nat] /\ r.hours = << >>
  BY DEF Telemetry!NoRow
<1>7. Telemetry!IsRow(r)
  BY <1>5, <1>6 DEF Telemetry!IsRow
<1> QED
  BY <1>2, <1>3, <1>7 DEF Good

(* No transaction has begun.                                               *)
LEMMA TelemetryInit == Telemetry!Init => TelemetryInv
<1> SUFFICES ASSUME Telemetry!Init PROVE TelemetryInv
  OBVIOUS
<1> DEFINE c == [pc |-> "new", ts |-> 0, print |-> "null", next |-> Telemetry!NoRow, first |-> FALSE]
<1>1. row = Telemetry!NoRow /\ holder = Telemetry!Free /\ activity = {} /\ tx = [t \in Requests |-> c]
  BY DEF Telemetry!Init
<1>2. c \in TxStates /\ c.pc = "new" /\ c.next = Telemetry!NoRow
  BY NoRowGood DEF TxStates, Good
<1> QED
  BY <1>1, <1>2, NoRowGood DEF TelemetryInv, TxGood, Locked

(* A transaction that moves does not take the row from another.            *)
LEMMA TxFrame ==
    ASSUME TelemetryInv, NEW t \in Requests, NEW c \in TxStates, tx' = [tx EXCEPT ![t] = c],
           Good(row)', holder' \in Requests \cup {Telemetry!Free}, activity' \in SUBSET Requests,
           \A u \in Requests \ {t} : holder = u => holder' = u /\ row' = row,
           TxGood(t)'
    PROVE  TelemetryInv'
<1>1. tx \in [Requests -> TxStates] /\ \A u \in Requests : TxGood(u)
  BY DEF TelemetryInv
<1>2. tx' \in [Requests -> TxStates] /\ \A u \in Requests \ {t} : tx'[u] = tx[u]
  BY <1>1
<1>3. ASSUME NEW u \in Requests \ {t} PROVE TxGood(u)'
  <2>1. Good(tx[u].next)'
    BY <1>1, <1>2 DEF TxGood
  <2>2. Locked(u)'
    BY <1>1, <1>2 DEF TxGood, Locked
  <2> QED
    BY <1>1, <1>2, <2>1, <2>2 DEF TxGood
<1> QED
  BY <1>2, <1>3 DEF TelemetryInv
(* BEGIN and the SELECT: whoever finds the row locks it.                   *)
LEMMA SelectInv ==
    ASSUME TelemetryInv, NEW t \in Requests, Telemetry!SelectForUpdate(t)
    PROVE  TelemetryInv'
<1> DEFINE new == Telemetry!Incremented(row, tx[t].ts, tx[t].print)
           c == [tx[t] EXCEPT !.pc = "upsert", !.next = new, !.first = (row.count = 0)]
<1>1. /\ tx[t].pc = "select" /\ (row.count > 0 => holder = Telemetry!Free)
      /\ holder' = (IF row.count > 0 THEN t ELSE holder) /\ UNCHANGED <<row, activity>>
      /\ tx' = [tx EXCEPT ![t].pc = "upsert", ![t].next = new, ![t].first = (row.count = 0)]
  BY DEF Telemetry!SelectForUpdate
<1>2. /\ tx \in [Requests -> TxStates] /\ tx[t] \in TxStates /\ Good(row) /\ tx[t].ts \in Times
      /\ holder \in Requests \cup {Telemetry!Free} /\ activity \in SUBSET Requests
  BY <1>1 DEF TelemetryInv, TxGood
<1>3. Good(new) /\ new \in Rows /\ new.count = row.count + 1 /\ row.count \in Nat
  <2>1. tx[t].print \in Prints \cup {"null"}
    BY <1>2 DEF TxStates
  <2>2. Good(new) /\ new.count = row.count + 1
    BY <1>2, <2>1, IncrementedGood
  <2> QED
    BY <1>2, <2>2 DEF Good, Rows
<1>4. tx' = [tx EXCEPT ![t] = c]
  BY <1>1, <1>2 DEF TxStates
<1> HIDE DEF new
<1>5. (row.count = 0) \in BOOLEAN
  OBVIOUS
<1>6. /\ c \in TxStates /\ c.pc = "upsert" /\ c.next = new /\ c.first = (row.count = 0)
      /\ c.ts = tx[t].ts
  BY <1>2, <1>3, <1>5 DEF TxStates
<1> HIDE DEF c
<1>7. tx'[t] = c
  BY <1>2, <1>4
<1>8. ~c.first => holder' = t
  <2>1. row.count # 0 => holder' = t
    BY <1>1, <1>3
  <2>2. ~c.first => row.count # 0
    BY <1>6
  <2> QED
    BY <2>1, <2>2
<1>9. TxGood(t)'
  <2>1. Good(tx[t].next)'
    BY <1>3, <1>6, <1>7
  <2>2. Locked(t)'
    BY <1>1, <1>3, <1>6, <1>7, <1>8 DEF Locked
  <2> QED
    BY <1>2, <1>6, <1>7, <2>1, <2>2 DEF TxGood
<1>10. holder' \in Requests \cup {Telemetry!Free}
       /\ \A u \in Requests \ {t} : holder = u => holder' = u /\ row' = row
  BY <1>1, <1>2, TelemetryAssumed
<1> QED
  BY <1>1, <1>2, <1>4, <1>6, <1>9, <1>10, TxFrame

(* INSERT ... ON CONFLICT waits for the row, then holds it.                *)
LEMMA UpsertInv ==
    ASSUME TelemetryInv, NEW t \in Requests, Telemetry!Upsert(t)
    PROVE  TelemetryInv'
<1> DEFINE new == Telemetry!Merged(row, tx[t].next)
           c == [tx[t] EXCEPT !.pc = "commit", !.next = new]
<1>1. /\ tx[t].pc = "upsert" /\ holder \in {t, Telemetry!Free} /\ holder' = t
      /\ UNCHANGED <<row, activity>>
      /\ tx' = [tx EXCEPT ![t].pc = "commit", ![t].next = Telemetry!Merged(row, @)]
  BY DEF Telemetry!Upsert
<1>2. /\ tx \in [Requests -> TxStates] /\ tx[t] \in TxStates /\ Good(row) /\ tx[t].ts \in Times
      /\ activity \in SUBSET Requests /\ Good(tx[t].next) /\ Locked(t)
  BY <1>1 DEF TelemetryInv, TxGood
<1>3. Good(new) /\ new \in Rows /\ new.count = tx[t].next.count
  BY <1>2, MergedGood DEF Good
<1>4. tx' = [tx EXCEPT ![t] = c]
  BY <1>1, <1>2 DEF TxStates
<1> HIDE DEF new
<1>5. /\ c \in TxStates /\ c.pc = "commit" /\ c.next = new /\ c.first = tx[t].first
      /\ c.ts = tx[t].ts
  BY <1>2, <1>3 DEF TxStates
<1> HIDE DEF c
<1>6. tx'[t] = c
  BY <1>2, <1>4
<1>7. TxGood(t)'
  <2>1. Good(tx[t].next)'
    BY <1>3, <1>5, <1>6
  <2>2. Locked(t)'
    BY <1>1, <1>2, <1>3, <1>5, <1>6 DEF Locked
  <2> QED
    BY <1>2, <1>5, <1>6, <2>1, <2>2 DEF TxGood
<1>8. \A u \in Requests \ {t} : holder = u => holder' = u /\ row' = row
  BY <1>1, TelemetryAssumed
<1> QED
  BY <1>1, <1>2, <1>4, <1>5, <1>7, <1>8, TxFrame

(* COMMIT publishes the row, and counts from what is there when the SELECT *)
(* found it.                                                               *)
LEMMA CommitStep ==
    ASSUME TelemetryInv, NEW t \in Requests, Telemetry!Commit(t)
    PROVE  TelemetryInv' /\ (~tx[t].first => row'.count = row.count + 1)
<1> DEFINE c == [tx[t] EXCEPT !.pc = "done"]
<1>1. /\ tx[t].pc = "commit" /\ row' = tx[t].next /\ holder' = Telemetry!Free
      /\ activity' = activity \cup {t} /\ tx' = [tx EXCEPT ![t] = c]
  BY DEF Telemetry!Commit
<1>2. /\ tx \in [Requests -> TxStates] /\ tx[t] \in TxStates /\ tx[t].ts \in Times
      /\ activity \in SUBSET Requests /\ Good(tx[t].next) /\ Locked(t)
  BY <1>1 DEF TelemetryInv, TxGood
<1>3. c \in TxStates /\ c.pc = "done" /\ c.next = tx[t].next /\ c.ts = tx[t].ts
  BY <1>2 DEF TxStates
<1> HIDE DEF c
<1>4. tx'[t] = c /\ holder = t
  BY <1>1, <1>2 DEF Locked
<1>5. TxGood(t)'
  <2>1. Good(tx[t].next)'
    BY <1>2, <1>3, <1>4
  <2>2. Locked(t)'
    BY <1>3, <1>4 DEF Locked
  <2> QED
    BY <1>2, <1>3, <1>4, <2>1, <2>2 DEF TxGood
<1>6. Good(row)' /\ activity' \in SUBSET Requests
  BY <1>1, <1>2
<1>7. TelemetryInv'
  BY <1>1, <1>3, <1>4, <1>5, <1>6, TxFrame
<1> QED
  BY <1>1, <1>2, <1>7 DEF Locked

(* ROLLBACK releases the row if it was held.                               *)
LEMMA RollbackInv ==
    ASSUME TelemetryInv, NEW t \in Requests, Telemetry!Rollback(t)
    PROVE  TelemetryInv'
<1> DEFINE c == [tx[t] EXCEPT !.pc = "failed"]
<1>1. /\ tx[t].pc \in {"select", "upsert", "commit"} /\ UNCHANGED <<row, activity>>
      /\ holder' = (IF holder = t THEN Telemetry!Free ELSE holder) /\ tx' = [tx EXCEPT ![t] = c]
  BY DEF Telemetry!Rollback
<1>2. /\ tx \in [Requests -> TxStates] /\ tx[t] \in TxStates /\ tx[t].ts \in Times /\ Good(row)
      /\ activity \in SUBSET Requests /\ Good(tx[t].next)
      /\ holder \in Requests \cup {Telemetry!Free}
  BY <1>1 DEF TelemetryInv, TxGood
<1>3. c \in TxStates /\ c.pc = "failed" /\ c.next = tx[t].next /\ c.ts = tx[t].ts
  BY <1>2 DEF TxStates
<1> HIDE DEF c
<1>4. tx'[t] = c
  BY <1>1, <1>2
<1>5. TxGood(t)'
  <2>1. Good(tx[t].next)'
    BY <1>2, <1>3, <1>4
  <2>2. Locked(t)'
    BY <1>3, <1>4 DEF Locked
  <2> QED
    BY <1>2, <1>3, <1>4, <2>1, <2>2 DEF TxGood
<1>6. holder' \in Requests \cup {Telemetry!Free}
      /\ \A u \in Requests \ {t} : holder = u => holder' = u /\ row' = row
  BY <1>1, <1>2
<1> QED
  BY <1>1, <1>2, <1>3, <1>5, <1>6, TxFrame

(* A transaction begins.                                                   *)
LEMMA BeginInv ==
    ASSUME TelemetryInv, NEW t \in Requests, NEW ts \in Times, NEW p \in Prints,
           Telemetry!Begin(t, ts, p)
    PROVE  TelemetryInv'
<1> DEFINE c == [tx[t] EXCEPT !.pc = "select", !.ts = ts, !.print = p]
<1>1. UNCHANGED <<row, holder, activity>>
      /\ tx' = [tx EXCEPT ![t].pc = "select", ![t].ts = ts, ![t].print = p]
  BY DEF Telemetry!Begin
<1>2. /\ tx \in [Requests -> TxStates] /\ tx[t] \in TxStates /\ Good(row)
      /\ activity \in SUBSET Requests /\ Good(tx[t].next)
      /\ holder \in Requests \cup {Telemetry!Free}
  BY DEF TelemetryInv, TxGood
<1>3. tx' = [tx EXCEPT ![t] = c]
  BY <1>1, <1>2 DEF TxStates
<1>4. c \in TxStates /\ c.pc = "select" /\ c.next = tx[t].next /\ c.ts = ts
  BY <1>2 DEF TxStates
<1> HIDE DEF c
<1>5. tx'[t] = c
  BY <1>2, <1>3
<1>6. TxGood(t)'
  <2>1. Good(tx[t].next)'
    BY <1>2, <1>4, <1>5
  <2>2. Locked(t)'
    BY <1>4, <1>5 DEF Locked
  <2> QED
    BY <1>4, <1>5, <2>1, <2>2 DEF TxGood
<1> QED
  BY <1>1, <1>2, <1>3, <1>4, <1>6, TxFrame

(* Every step of a transaction keeps the invariant, and the one that       *)
(* publishes an ALLOW to a row its SELECT found adds exactly one.          *)
LEMMA TelemetryNext ==
    ASSUME TelemetryInv, [Telemetry!Next]_telemetryVars
    PROVE  /\ TelemetryInv'
           /\ \A t \in Requests :
                activity' = activity \cup {t} /\ t \notin activity /\ ~tx[t].first
                => row'.count = row.count + 1
<1>1. ASSUME NEW t \in Requests, Telemetry!Commit(t)
      PROVE  /\ TelemetryInv'
             /\ \A u \in Requests :
                  activity' = activity \cup {u} /\ u \notin activity /\ ~tx[u].first
                  => row'.count = row.count + 1
  <2>1. activity' = activity \cup {t}
    BY <1>1 DEF Telemetry!Commit
  <2> QED
    BY <1>1, <2>1, CommitStep
<1>2. ASSUME NEW t \in Requests,
             Telemetry!SelectForUpdate(t) \/ Telemetry!Upsert(t) \/ Telemetry!Rollback(t)
      PROVE  TelemetryInv' /\ activity' = activity
  BY <1>2, SelectInv, UpsertInv, RollbackInv
  DEF Telemetry!SelectForUpdate, Telemetry!Upsert, Telemetry!Rollback
<1>3. ASSUME NEW t \in Requests, NEW ts \in Times, NEW p \in Prints, Telemetry!Begin(t, ts, p)
      PROVE  TelemetryInv' /\ activity' = activity
  BY <1>3, BeginInv DEF Telemetry!Begin
<1>4. CASE UNCHANGED telemetryVars
  <2>1. UNCHANGED <<row, holder, activity, tx>>
    BY <1>4 DEF telemetryVars
  <2>2. TelemetryInv'
    BY <2>1 DEF TelemetryInv, TxGood, Locked
  <2> QED
    BY <2>1, <2>2
<1> QED
  BY <1>1, <1>2, <1>3, <1>4 DEF Telemetry!Next, Telemetry!Step

(* What the invariant says of the row.                                     *)
LEMMA TelemetryMeaning == TelemetryInv => Telemetry!TypeOK /\ RateStatisticsExact
<1> SUFFICES ASSUME TelemetryInv PROVE Telemetry!TypeOK /\ RateStatisticsExact
  OBVIOUS
<1>1. Good(row) /\ row \in Rows /\ Telemetry!IsRow(row) /\ Exact(row)
  BY DEF TelemetryInv, Good
<1>2. Telemetry!TypeOK
  BY <1>1 DEF TelemetryInv, TxGood, Good, TxStates, Telemetry!TypeOK
<1>3. row.obs \in Nat /\ row.obs = Len(row.hours) /\ row.var.num \in Int
  BY <1>1 DEF Rows, Fractions, Telemetry!IsRow
<1>4. RateStatisticsExact
  BY <1>1, <1>3 DEF Exact, RateStatisticsExact, Telemetry!RateStatisticsExact
<1> QED
  BY <1>2, <1>4

-----------------------------------------------------------------------------
(* The theorems: a step of one component leaves the others alone *)

TrustInv == TelemetryInv /\ ScoreInv /\ BlacklistInv /\ AccessInv /\ CodesInv

(* A step here is a step, or a stutter, of every component.                *)
LEMMA TrustSteps ==
    ASSUME [Next]_vars
    PROVE  /\ [Telemetry!Next]_telemetryVars /\ [Score!Next]_scoreVars
           /\ [Blacklist!Next]_blacklistVars /\ [Access!Next]_accessVars /\ [Codes!Next]_codeVars
  BY DEF Next, vars

(* The invariant of the components holds in every state they can reach.    *)
THEOREM InvHolds == Spec => []TrustInv
<1>1. Init => TrustInv
  BY TelemetryInit, ScoreInit, BlacklistInit, AccessInit, CodesInit DEF Init, TrustInv
<1>2. TrustInv /\ [Next]_vars => TrustInv'
  <2> SUFFICES ASSUME TrustInv, [Next]_vars PROVE TrustInv'
    OBVIOUS
  <2>1. TelemetryInv' /\ ScoreInv'
    BY TrustSteps, TelemetryNext, ScoreNext DEF TrustInv
  <2>2. BlacklistInv' /\ AccessInv' /\ CodesInv'
    BY TrustSteps, BlacklistNext, AccessNext, CodesNext DEF TrustInv
  <2> QED
    BY <2>1, <2>2 DEF TrustInv
<1> QED
  BY <1>1, <1>2, PTL DEF Spec

(* The components keep their types: the histogram of hours counts every    *)
(* ALLOW of the row under its hour, scores stay within [0, 1], the gauge   *)
(* within the number of fingerprints.                                      *)
THEOREM TypeCorrect == Spec => []TypeOK
<1>1. TrustInv => TypeOK
  BY TelemetryMeaning DEF TrustInv, ScoreInv, BlacklistInv, AccessInv, CodesInv, TypeOK
<1> QED
  BY <1>1, InvHolds, PTL

(* trust-telemetry.repository.ts, upsertSignalRow: Welford's running mean  *)
(* and variance are exact for every sequence of rates.                     *)
THEOREM RateTheorem == Spec => []RateStatisticsExact
<1>1. TrustInv => RateStatisticsExact
  BY TelemetryMeaning DEF TrustInv
<1> QED
  BY <1>1, InvHolds, PTL

(* recordAllowOutcome: a transaction that found the row locked it, so it   *)
(* adds exactly one when it commits, whatever else commits.                *)
THEOREM LockTheorem == Spec => LockedUpdatesCount
<1>1. ASSUME TrustInv, [Next]_vars
      PROVE  [\A t \in Requests :
                activity' = activity \cup {t} /\ t \notin activity /\ ~tx[t].first
                => row'.count = row.count + 1]_telemetryVars
  BY <1>1, TrustSteps, TelemetryNext DEF TrustInv
<1>2. TrustInv /\ [Next]_vars =>
        [\A t \in Requests :
           activity' = activity \cup {t} /\ t \notin activity /\ ~tx[t].first
           => row'.count = row.count + 1]_<<row, holder, activity, tx>>
  BY <1>1 DEF telemetryVars
<1> QED
  BY <1>2, InvHolds, PTL DEF Spec, LockedUpdatesCount, Telemetry!LockedUpdatesCount, Telemetry!vars

(* trust-score.service.ts: an outage of the trust history scores the       *)
(* maximum, and decay takes back discounts and no more.                    *)
THEOREM FailClosedTheorem == Spec => []OutageAndDecayFailClosed
<1>1. TrustInv => OutageAndDecayFailClosed
  BY DEF TrustInv, ScoreInv
<1> QED
  BY <1>1, InvHolds, PTL

(* ja4h.middleware.ts, shadow.controller.ts: a client caught by a decoy    *)
(* stays out for the TTL from the last time it was caught.                 *)
THEOREM CaughtTheorem == Spec => CaughtStaysOut
<1>1. ASSUME TrustInv, [Next]_vars
      PROVE  \A r \in Requests :
                \/ req[r].pc = "new" /\ req'[r].pc = "inside"
                \/ req[r].pc = "inside" /\ req'[r].pc = "scored"
                => ~Blacklist!Caught(req'[r].fp)
  BY <1>1, TrustSteps, BlacklistNext DEF TrustInv
<1>2. TrustInv /\ [Next]_vars =>
        [\A r \in Requests :
            \/ req[r].pc = "new" /\ req'[r].pc = "inside"
            \/ req[r].pc = "inside" /\ req'[r].pc = "scored"
            => ~Blacklist!Caught(req'[r].fp)]_<<now, list, gauge, req, lastTrap>>
  BY <1>1
<1> QED
  BY <1>2, InvHolds, PTL DEF Spec, CaughtStaysOut, Blacklist!CaughtStaysOut, Blacklist!vars

(* auth.service.ts, jwt-auth.guard.ts, roles.guard.ts, public-paths.ts:    *)
(* only a good token with the role demanded reaches a handler.             *)
THEOREM AuthorityTheorem == Spec => []HandlersNeedAuthority
<1>1. TrustInv => HandlersNeedAuthority
  BY AccessMeaning DEF TrustInv
<1> QED
  BY <1>1, InvHolds, PTL

(* totp.util.ts: for every period and every pair of clocks a code within   *)
(* one period is accepted and one two periods off refused.                 *)
THEOREM CodesTheorem == Spec => []AuthenticatorAgrees
<1>1. TrustInv => AuthenticatorAgrees
  BY DEF TrustInv, CodesInv
<1> QED
  BY <1>1, InvHolds, PTL

=============================================================================

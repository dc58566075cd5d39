---------------------------- MODULE AccessControl ----------------------------
(***************************************************************************)
(* Who reaches the gateway's own endpoints.  A request meets, in this      *)
(* order: the path tables of the pipeline (src/gateway/public-paths.ts),   *)
(* AuthStage and RevocationStage, then, if the pipeline hands it on with   *)
(* next(), the global RolesGuard, the route's JwtAuthGuard if it has one,  *)
(* and the handler.  Tables and decorators are kept in different files and *)
(* must agree.  The token is judged by AuthService.validateToken.          *)
(*                                                                         *)
(* Signatures are not forged: a token verifies with the key of its signer  *)
(* only.  A preflight OPTIONS matches no handler and is left out; the      *)
(* audit writes and signals of the stages are in GatewayPipeline.          *)
(***************************************************************************)
EXTENDS FiniteSets

-----------------------------------------------------------------------------
(* The endpoints, one name for those that are declared alike *)

(* An endpoint that has its own JwtAuthGuard needs no stage before it *)
FaultyPublicPaths == {"health", "mfa"}

PublicPaths == {"health"}      \* /health, /metrics
HoneypotPaths == {"decoy"}     \* the seven decoys

(* /auth/revoke; /mfa/* and /demo/mfa-token; /mfa/admin/enrollment/:userId; *)
(* /policy/admin/* and /audit/logs                                          *)
AuthOnlyPaths == {"revoke", "mfa", "mfaAdmin", "admin"}

Handlers == {"health", "decoy", "revoke", "mfa", "mfaAdmin", "admin"}
PublicHandlers == {"health", "decoy"}          \* @Public
JwtGuarded == {"revoke", "mfa", "mfaAdmin"}    \* @UseGuards(JwtAuthGuard)
RolesRequired == {"mfaAdmin", "admin"}         \* @Roles('admin')

(* Any other path goes through the whole pipeline and ends at the proxy *)
Routes == Handlers \cup {"service"}

-----------------------------------------------------------------------------

(* AuthConfig: where the key for RS256 and ES256 comes from, and which of  *)
(* issuer and audience is checked (a token has one flaw, so one at a time) *)
Configs == [asymmetricKey : {"pem", "jwks", "unset"}, checks : {{}, {"issuer"}, {"audience"}}]

(* A token: the algorithm its header names, its signer, its kind, the      *)
(* shape of its roles claim and at most one thing wrong with it            *)
Flaws == {"no flaw", "malformed", "expired", "missing jti or sub", "issuer", "audience",
          "no deviceId"}
Tokens == [alg : {"HS256", "RS256", "none"}, signer : {"jwtSecret", "privateKey", "stranger"},
           typ : {"access", "mfa"}, roles : {"[admin]", "[user]", "admin"}, flaw : Flaws]

(* The Authorization header *)
Schemes == {"absent", "other", "Bearer"}

VARIABLES config,
          req,      \* the request: route, whether its path has the table's spelling,
                    \* scheme and token, and whether the token was revoked on arrival
          revoked,  \* its jti is on the blacklist
          user,     \* ctx.claims and req.user: the roles, NoUser without claims
          brand,    \* GATEWAY_VALIDATED
          pc

vars == <<config, req, revoked, user, brand, pc>>

NoUser == {"no user"}

(* A request without a bearer token, as a stand-in for its token *)
NoToken == [alg |-> "none", signer |-> "stranger", typ |-> "access", roles |-> "[user]",
            flaw |-> "malformed"]

NoRequest == [route |-> "none", exact |-> TRUE, scheme |-> "absent", token |-> NoToken,
              barred |-> FALSE]

Init ==
    /\ config \in Configs
    /\ req = NoRequest
    /\ revoked = FALSE
    /\ user = NoUser /\ brand = FALSE
    /\ pc = "client"

(* A request comes in, with or without a bearer token *)
Arrive(route, exact, scheme, t) ==
    /\ pc = "client" /\ pc' = "pipeline"
    /\ req' = [route |-> route, exact |-> exact, scheme |-> scheme, token |-> t,
               barred |-> revoked]
    /\ UNCHANGED <<config, revoked, user, brand>>

-----------------------------------------------------------------------------
(* AuthService *)

(* validateToken routes on the algorithm: HS256 to the secret, RS256 and   *)
(* ES256 to verifyAsymmetric, anything else to nothing                     *)
KeyFor(alg) ==
    CASE alg = "HS256" -> "jwtSecret"
      [] alg = "RS256" /\ config.asymmetricKey # "unset" -> "privateKey"
      [] OTHER -> "no key"

(* jwtVerify, with the issuer and audience options only when configured *)
JwtVerify(t) ==
    /\ t.signer = KeyFor(t.alg)
    /\ t.flaw \notin {"malformed", "expired", "missing jti or sub"} \cup config.checks

(* Every error is a refusal (mapJoseError), a JWKS that cannot be fetched  *)
(* included; MFA tokens and tokens without a deviceId are refused too.     *)
ValidateToken(t, fetched) ==
    /\ JwtVerify(t)
    /\ t.alg = "RS256" /\ config.asymmetricKey = "jwks" => fetched
    /\ t.typ # "mfa"
    /\ t.flaw # "no deviceId"

Authenticate(fetched) == req.scheme = "Bearer" /\ ValidateToken(req.token, fetched)

(* A roles claim that is not an array counts as no roles *)
ExtractRoles(t) ==
    CASE t.roles = "[admin]" -> {"admin"}
      [] t.roles = "[user]" -> {"user"}
      [] OTHER -> {}

-----------------------------------------------------------------------------
(* The pipeline as far as next() *)

Answer(status) == pc' = status /\ UNCHANGED <<config, req, revoked, user, brand>>

(* The tables compare the path as it was sent; Express finds the handler   *)
(* whatever its case                                                       *)
ListedIn(table) == req.exact /\ req.route \in table

(* PublicBypassStage, HoneypotBypassStage *)
Bypass ==
    /\ pc = "pipeline" /\ ListedIn(PublicPaths \cup HoneypotPaths)
    /\ Answer("roles")

(* AuthStage: claims, req.user and the brand, or 401 *)
AuthStage(fetched) ==
    /\ pc = "pipeline" /\ ~ListedIn(PublicPaths \cup HoneypotPaths)
    /\ IF Authenticate(fetched)
         THEN /\ user' = ExtractRoles(req.token) /\ brand' = TRUE
              /\ pc' = "revocation"
         ELSE pc' = "401" /\ UNCHANGED <<user, brand>>
    /\ UNCHANGED <<config, req, revoked>>

RevocationStage ==
    /\ pc = "revocation"
    /\ Answer(IF revoked THEN "401" ELSE "authOnly")

(* AuthOnlyShortCircuitStage hands on; other paths never reach next() *)
AuthOnlyStage ==
    /\ pc = "authOnly"
    /\ Answer(IF ListedIn(AuthOnlyPaths) THEN "roles" ELSE "proxied")

-----------------------------------------------------------------------------
(* The guards: Nest runs global ones first *)

RolesGuard ==
    /\ pc = "roles"
    /\ Answer(IF req.route \in RolesRequired /\ "admin" \notin user THEN "403" ELSE "jwt")

(* A request the pipeline has branded passes; any other authenticates here *)
JwtAuthGuard(fetched) ==
    /\ pc = "jwt"
    /\ LET guarded == req.route \in JwtGuarded \ PublicHandlers /\ ~brand
           ok == Authenticate(fetched)
       IN  /\ pc' = IF guarded /\ ~ok THEN "401" ELSE "handler"
           /\ user' = IF guarded /\ ok THEN ExtractRoles(req.token) ELSE user
           /\ brand' = (brand \/ (guarded /\ ok))
    /\ UNCHANGED <<config, req, revoked>>

(* POST /auth/revoke by another request *)
Revoke == ~revoked /\ revoked' = TRUE /\ UNCHANGED <<config, req, user, brand, pc>>

Next ==
    \/ /\ pc = "client"
       /\ \E route \in Routes, exact \in BOOLEAN :
            \/ \E t \in Tokens : Arrive(route, exact, "Bearer", t)
            \/ \E scheme \in Schemes \ {"Bearer"} : Arrive(route, exact, scheme, NoToken)
    \/ Bypass \/ RevocationStage \/ AuthOnlyStage \/ RolesGuard
    \/ \E fetched \in BOOLEAN : AuthStage(fetched) \/ JwtAuthGuard(fetched)
    \/ Revoke

Spec == Init /\ [][Next]_vars

-----------------------------------------------------------------------------
(* Properties *)

(* Types of the request's state. *)
TypeOK ==
    /\ config \in Configs
    /\ revoked \in BOOLEAN /\ brand \in BOOLEAN
    /\ user \in {NoUser, {"admin"}, {"user"}, {}}
    /\ pc \in {"client", "pipeline", "revocation", "authOnly", "roles", "jwt", "handler", "proxied",
               "401", "403"}

(* An access token the operator's keys vouch for *)
Genuine(t) ==
    /\ t.typ = "access"
    /\ \/ t.alg = "HS256" /\ t.signer = "jwtSecret"
       \/ t.alg = "RS256" /\ t.signer = "privateKey" /\ config.asymmetricKey \in {"pem", "jwks"}
    /\ t.flaw \in {"no flaw"} \cup ({"issuer", "audience"} \ config.checks)

(* Whoever reaches a handler that is not @Public, or the proxy, presented  *)
(* an access token the configured keys vouch for, that was not revoked     *)
(* when the request came, and that names the admin role in a list where    *)
(* the handler demands it; and a handler is reached only under the         *)
(* spelling the tables list, whatever Express would match.                 *)
HandlersNeedAuthority ==
    /\ pc = "proxied" \/ (pc = "handler" /\ req.route \notin PublicHandlers) =>
         req.scheme = "Bearer" /\ Genuine(req.token) /\ ~req.barred
    /\ pc = "handler" => req.exact
    /\ pc = "handler" /\ req.route \in RolesRequired => req.token.roles = "[admin]"

=============================================================================

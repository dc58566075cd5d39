------------------------- MODULE GatewayRefinement -------------------------
(***************************************************************************)
(* The pipeline implements AuditedGateway: the stages, the retries and the *)
(* timer only decide when, and whether, each abstract step happens.        *)
(***************************************************************************)
EXTENDS GatewayPipeline

OutcomeOf(answer) ==
    CASE answer = "none"              -> "open"
      [] answer = "bypass"            -> "local"
      [] answer = "proxied"           -> "served"
      [] answer = "audit_unavailable" -> "unaudited"
      [] answer = "connection_lost"   -> "lost"
      [] OTHER                        -> "refused"

Audited == INSTANCE AuditedGateway WITH
    recorded <- {r \in Requests : rows[r]["allow"] > 0},
    trying   <- loops,
    sent     <- forwarded,
    accepted <- {r \in Requests : ctx[r].upstream = "2xx"},
    outcome  <- [r \in Requests |-> OutcomeOf(response[r])],
    learned  <- trustRows,
    alarmed  <- {r \in Requests : "audit.signal" \in signals[r]}

(* ADR-0001, ADR-0002: every behaviour of the pipeline is one of the       *)
(* audited gateway.  A request is delivered by one retry loop, begun after *)
(* its ALLOW is stored and before it is answered; an exhausted audit       *)
(* refuses it undelivered and raises the alarm; trust is learned only of   *)
(* what the service accepted, before the answer, and always before one     *)
(* that serves it, although a lost COMMIT answer or a crash may leave a    *)
(* refused or lost request learned; and nothing follows an answer but a    *)
(* late ALLOW row and the sends of a loop the breaker's timer outran.      *)
ImplementsAuditedGateway == Audited!Spec

=============================================================================

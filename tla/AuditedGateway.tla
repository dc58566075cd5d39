--------------------------- MODULE AuditedGateway ---------------------------
(***************************************************************************)
(* What the gateway promises about one request, whatever stages, retries   *)
(* and timers lie in between (ADR-0001 audit before allow, ADR-0002 trust  *)
(* is learned from completed requests): a request is decided once; it is   *)
(* sent to a downstream service only after its ALLOW is on record; the     *)
(* client gets one answer, after which the request has no further effect   *)
(* but a late record and the sends of a delivery that was already under    *)
(* way.  GatewayRefinement.tla maps the pipeline onto it.                  *)
(***************************************************************************)
CONSTANT Requests

VARIABLES recorded,  \* requests whose ALLOW is in the audit log
          trying,    \* requests being delivered to a downstream service
          sent,      \* requests that were sent to it
          accepted,  \* requests it answered with a success
          outcome,   \* what became of each request
          learned,   \* requests the trust history counts
          alarmed    \* requests whose failed audit raised the alarm

avars == <<recorded, trying, sent, accepted, outcome, learned, alarmed>>

(* open: no answer yet; local: left to one of the gateway's own handlers;  *)
(* unaudited: refused since the ALLOW could not be recorded; lost: the     *)
(* connection went with the process.                                       *)
Outcomes == {"open", "local", "served", "refused", "unaudited", "lost"}

Init ==
    /\ recorded = {} /\ trying = {} /\ sent = {} /\ accepted = {} /\ learned = {} /\ alarmed = {}
    /\ outcome = [r \in Requests |-> "open"]

Open(r) == outcome[r] = "open"
Answer(r, what) == outcome' = [outcome EXCEPT ![r] = what]

(* A record may also come late, for a request already left to its handler  *)
Record(r) ==
    /\ outcome[r] \in {"open", "local"}
    /\ recorded' = recorded \cup {r}
    /\ UNCHANGED <<trying, sent, accepted, outcome, learned, alarmed>>

(* A delivery begins once, on record and before the answer *)
Begin(r) ==
    /\ Open(r) /\ r \in recorded /\ r \notin trying \cup sent
    /\ trying' = trying \cup {r}
    /\ UNCHANGED <<recorded, sent, accepted, outcome, learned, alarmed>>

(* It sends the request, also when the client was refused meanwhile *)
Send(r) ==
    /\ r \in trying
    /\ sent' = sent \cup {r}
    /\ UNCHANGED <<recorded, trying, accepted, outcome, learned, alarmed>>

(* It ends with the service's answer ... *)
Deliver(r) ==
    /\ Open(r) /\ r \in trying \cap sent
    /\ trying' = trying \ {r}
    /\ accepted' \in {accepted, accepted \cup {r}}
    /\ UNCHANGED <<recorded, sent, outcome, learned, alarmed>>

(* ... or without, and then the client is refused, if it was not before *)
GiveUp(r) ==
    /\ r \in trying
    /\ trying' = trying \ {r}
    /\ IF Open(r) THEN Answer(r, "refused") ELSE UNCHANGED outcome
    /\ UNCHANGED <<recorded, sent, accepted, learned, alarmed>>

(* A success is learned before the client hears of it, if it ever does *)
Learn(r) ==
    /\ Open(r) /\ r \in accepted
    /\ learned' = learned \cup {r}
    /\ UNCHANGED <<recorded, trying, sent, accepted, outcome, alarmed>>

(* The client gets the service's answer, a success only once learned *)
Serve(r) ==
    /\ Open(r) /\ r \in sent \ trying
    /\ r \in accepted => r \in learned
    /\ Answer(r, "served")
    /\ UNCHANGED <<recorded, trying, sent, accepted, learned, alarmed>>

LeaveToHandler(r) ==
    /\ Open(r) /\ r \notin trying \cup sent
    /\ Answer(r, "local")
    /\ UNCHANGED <<recorded, trying, sent, accepted, learned, alarmed>>

Refuse(r) ==
    /\ Open(r)
    /\ Answer(r, "refused")
    /\ UNCHANGED <<recorded, trying, sent, accepted, learned, alarmed>>

(* Fail closed, and tell *)
RefuseUnaudited(r) ==
    /\ Open(r) /\ r \notin trying \cup sent
    /\ Answer(r, "unaudited")
    /\ alarmed' = alarmed \cup {r}
    /\ UNCHANGED <<recorded, trying, sent, accepted, learned>>

(* The process dies with some of the open requests and all deliveries *)
Die ==
    /\ \E lost \in SUBSET {r \in Requests : Open(r)} :
         outcome' = [r \in Requests |-> IF r \in lost THEN "lost" ELSE outcome[r]]
    /\ trying' = {}
    /\ UNCHANGED <<recorded, sent, accepted, learned, alarmed>>

Next ==
    \/ \E r \in Requests :
         \/ Record(r) \/ Begin(r) \/ Send(r) \/ Deliver(r) \/ GiveUp(r)
         \/ Learn(r) \/ Serve(r)
         \/ LeaveToHandler(r) \/ Refuse(r) \/ RefuseUnaudited(r)
    \/ Die

Spec == Init /\ [][Next]_avars

=============================================================================

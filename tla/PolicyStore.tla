----------------------------- MODULE PolicyStore -----------------------------
(***************************************************************************)
(* The Casbin rules: PolicyEvaluatorService.addRule and removeRule         *)
(* (src/policy/policy-evaluator.service.ts), behind a writer mutex, called *)
(* by concurrent admin requests (policy-admin.controller.ts), with the     *)
(* process stopping and starting again (onModuleInit loads the file).      *)
(*                                                                         *)
(* Casbin and its file adapter are external: addPolicy and removePolicy    *)
(* change the rules in memory, savePolicy writes all of them to the file   *)
(* as they were when it was called, or fails.                              *)
(***************************************************************************)
EXTENDS Integers, FiniteSets

CONSTANTS Admins,      \* admin requests that may be open at once
          Rules,       \* the p-rules they may send
          MaxCalls     \* bound: admin calls begun

(* What a configuration must satisfy *)
StoreAssumption ==
    /\ IsFiniteSet(Admins) /\ IsFiniteSet(Rules) /\ MaxCalls \in Nat
    /\ "none" \notin Admins

VARIABLES mem,     \* rules in the enforcer
          file,    \* rules in policy.csv
          mutex,   \* the caller inside writerMutex.runExclusive, or none
          call,    \* the admin calls: program counter, operation, rule, answer
          texts,   \* what each savePolicy in progress is writing
          calls,   \* calls begun
          missed,  \* TRUE: a save failed and none has succeeded since
          wanted   \* history: what the last writer of a rule asked for, when it was
                   \* answered without an error: "add", "remove" or "none"

vars == <<mem, file, mutex, call, texts, calls, missed, wanted>>

NoOne == "none"
Idle == [pc |-> "idle", op |-> "none", rule |-> "none", changed |-> FALSE]

Init ==
    /\ file \in SUBSET Rules /\ mem = file
    /\ mutex = NoOne
    /\ call = [a \in Admins |-> Idle]
    /\ texts = [a \in Admins |-> {}]
    /\ calls = 0
    /\ missed = FALSE
    /\ wanted = [r \in Rules |-> "none"]

(* POST or DELETE /policy/admin/rules *)
Begin(a, op, r) ==
    /\ call[a].pc = "idle" /\ calls < MaxCalls
    /\ call' = [call EXCEPT ![a] = [pc |-> "waiting", op |-> op, rule |-> r, changed |-> FALSE]]
    /\ calls' = calls + 1
    /\ UNCHANGED <<mem, file, mutex, texts, missed, wanted>>

Applied(op, r) == IF op = "add" THEN mem \cup {r} ELSE mem \ {r}

(* runExclusive, then addPolicy or removePolicy, which say whether they    *)
(* changed anything; savePolicy only when they did                         *)
Enter(a) ==
    /\ call[a].pc = "waiting" /\ mutex = NoOne
    /\ mutex' = a
    /\ mem' = Applied(call[a].op, call[a].rule)
    /\ call' = [call EXCEPT ![a].changed = mem' # mem,
                            ![a].pc = IF mem' # mem THEN "save" ELSE "answer"]
    /\ wanted' = [wanted EXCEPT ![call[a].rule] = "none"]
    /\ UNCHANGED <<file, texts, calls, missed>>

Save(a) ==
    /\ call[a].pc = "save"
    /\ texts' = [texts EXCEPT ![a] = mem]
    /\ call' = [call EXCEPT ![a].pc = "writing"]
    /\ UNCHANGED <<mem, file, mutex, calls, missed, wanted>>

FaultySaved(a) ==
    /\ call[a].pc = "writing"
    /\ file' = file \cup texts[a]
    /\ missed' = FALSE
    /\ call' = [call EXCEPT ![a].pc = "answer"]
    /\ UNCHANGED <<mem, mutex, texts, calls, wanted>>

Saved(a) ==
    /\ call[a].pc = "writing"
    /\ file' = texts[a]
    /\ missed' = FALSE
    /\ call' = [call EXCEPT ![a].pc = "answer"]
    /\ UNCHANGED <<mem, mutex, texts, calls, wanted>>

(* savePolicy throws or returns false: the call ends in an error, the      *)
(* mutex is released, and the rules in memory stay as they are             *)
SaveFails(a) ==
    /\ call[a].pc = "writing"
    /\ missed' = TRUE
    /\ mutex' = NoOne
    /\ call' = [call EXCEPT ![a] = Idle]
    /\ UNCHANGED <<mem, file, texts, calls, wanted>>

(* { added } or { removed }: the value addPolicy or removePolicy gave *)
Answer(a) ==
    /\ call[a].pc = "answer"
    /\ mutex' = NoOne
    /\ wanted' = [wanted EXCEPT ![call[a].rule] = call[a].op]
    /\ call' = [call EXCEPT ![a] = Idle]
    /\ UNCHANGED <<mem, file, texts, calls, missed>>

(* The process stops, and starts with the rules of the file *)
Restart ==
    /\ mem' = file /\ missed' = FALSE
    /\ mutex' = NoOne
    /\ call' = [a \in Admins |-> Idle]
    /\ UNCHANGED <<file, texts, calls, wanted>>

Step(a) == Enter(a) \/ Save(a) \/ Saved(a) \/ SaveFails(a) \/ Answer(a)

Next ==
    \/ \E a \in Admins, op \in {"add", "remove"}, r \in Rules : Begin(a, op, r)
    \/ \E a \in Admins : Step(a)
    \/ Restart

Spec == Init /\ [][Next]_vars

-----------------------------------------------------------------------------
(* Properties *)

(* Types of the rules, the mutex and the calls. *)
TypeOK ==
    /\ mem \in SUBSET Rules /\ file \in SUBSET Rules
    /\ mutex \in Admins \cup {NoOne}
    /\ call \in [Admins -> [pc : {"idle", "waiting", "save", "writing", "answer"},
                            op : {"none", "add", "remove"}, rule : Rules \cup {"none"},
                            changed : BOOLEAN]]
    /\ texts \in [Admins -> SUBSET Rules]
    /\ calls \in 0..MaxCalls /\ missed \in BOOLEAN
    /\ wanted \in [Rules -> {"none", "add", "remove"}]

(* Writers are serialised: with no writer inside the mutex and no save     *)
(* that failed, the file holds exactly the rules being enforced, whatever  *)
(* the order in which the admin calls overlapped.                          *)
QuietMeansPersisted == mutex = NoOne /\ ~missed => file = mem

(* A call that reports a change reports one that is already in the file:   *)
(* { added: true } is never sent for a rule a restart would lose.          *)
ReportedChangeIsDurable ==
    \A a \in Admins :
        call[a].pc = "answer" /\ call[a].changed =>
            (call[a].rule \in file <=> call[a].op = "add")

(* The rule file follows the enforcer, at rest and in what an              *)
(* administrator has been told.                                            *)
FileFollowsEnforcer == QuietMeansPersisted /\ ReportedChangeIsDurable

(* README.md:171: "Rule changes are persisted through the Casbin adapter   *)
(* and survive restarts."                                                  *)
AnsweredChangeSurvives ==
    mutex = NoOne => \A r \in Rules : /\ wanted[r] = "add" => r \in file
                                      /\ wanted[r] = "remove" => r \notin file

=============================================================================

---------------------------- MODULE CertRotation ----------------------------
(***************************************************************************)
(* The mTLS agent: MtlsService (src/shared/mtls.service.ts), whose         *)
(* getHttpsAgent serves every proxied request, and CertMonitorService      *)
(* (src/shared/cert-monitor.service.ts), which polls the files and forces  *)
(* a reload, while somebody rotates the certificate files on disk.         *)
(*                                                                         *)
(* Two loads may run at once: the one the requests share (reloadPromise)   *)
(* and the one of the monitor's reload().  A load reads every file, then   *)
(* stats every file, then replaces the cache.  A file's version stands for *)
(* its content and for its mtime; 0 is "never seen".                       *)
(***************************************************************************)
EXTENDS Integers, FiniteSets

CONSTANTS Files,       \* the certificate files
          Requests,    \* requests that need the agent
          MaxVersion   \* bound: versions of a file

(* What a configuration must satisfy *)
RotationAssumption ==
    IsFiniteSet(Files) /\ IsFiniteSet(Requests) /\ MaxVersion \in Nat \ {0}

Loaders == {"shared", "monitor"}
Versions == [Files -> 0..MaxVersion]
Unseen == [f \in Files |-> 0]
NoCache == [agent |-> Unseen, mtimes |-> Unseen, null |-> TRUE]
Idle == [pc |-> "idle", got |-> Unseen, stamp |-> Unseen, todo |-> {}]

VARIABLES disk,     \* version of each file
          missing,  \* files that are away in the middle of a rotation
          cache,    \* certCache: the contents in the agent, their recorded mtimes
          load,     \* loadCertificates of each loader
          req,      \* getHttpsAgent of each request
          last,     \* CertMonitorService.lastMtimes
          poll,     \* checkFiles: `checking`, the files left to stat, `changed`
          up        \* the process is running

vars == <<disk, missing, cache, load, req, last, poll, up>>

NoPoll == [checking |-> FALSE, todo |-> {}, changed |-> FALSE]
NewRequest == [pc |-> "new", seen |-> Unseen, todo |-> {}, agent |-> NoCache]

Init ==
    /\ disk = [f \in Files |-> 1] /\ missing = {}
    /\ cache = NoCache
    /\ load = [l \in Loaders |-> Idle]
    /\ req = [r \in Requests |-> NewRequest]
    /\ last = disk
    /\ poll = NoPoll
    /\ up = TRUE

-----------------------------------------------------------------------------
(* Rotation of the files, from outside: in place, or unlink and create *)

Rotate(f) ==
    /\ f \notin missing /\ disk[f] < MaxVersion
    /\ disk' = [disk EXCEPT ![f] = @ + 1]
    /\ UNCHANGED <<missing, cache, load, req, last, poll, up>>

Unlink(f) ==
    /\ f \notin missing /\ disk[f] < MaxVersion
    /\ missing' = missing \cup {f}
    /\ UNCHANGED <<disk, cache, load, req, last, poll, up>>

Create(f) ==
    /\ f \in missing
    /\ missing' = missing \ {f}
    /\ disk' = [disk EXCEPT ![f] = @ + 1]
    /\ UNCHANGED <<cache, load, req, last, poll, up>>

-----------------------------------------------------------------------------
(* loadCertificates *)

Started == [pc |-> "reading", got |-> Unseen, stamp |-> Unseen, todo |-> Files]

ReadFile(l, f) ==
    /\ load[l].pc = "reading" /\ f \in load[l].todo /\ f \notin missing
    /\ load' = [load EXCEPT ![l].got[f] = disk[f], ![l].todo = @ \ {f}]
    /\ UNCHANGED <<disk, missing, cache, req, last, poll, up>>

StatAll(l) ==
    /\ load[l].pc = "reading" /\ load[l].todo = {}
    /\ load' = [load EXCEPT ![l].pc = "stating", ![l].todo = Files]
    /\ UNCHANGED <<disk, missing, cache, req, last, poll, up>>

StatFile(l, f) ==
    /\ load[l].pc = "stating" /\ f \in load[l].todo /\ f \notin missing
    /\ load' = [load EXCEPT ![l].stamp[f] = disk[f], ![l].todo = @ \ {f}]
    /\ UNCHANGED <<disk, missing, cache, req, last, poll, up>>

Loaded(l) == [agent |-> load[l].got, mtimes |-> load[l].stamp, null |-> FALSE]

Complete(l) == load[l].pc = "stating" /\ load[l].todo = {}

Waiting == {r \in Requests : req[r].pc = "waiting"}

Woken(pc, agent) == [r \in Requests |-> IF r \in Waiting
                                        THEN [req[r] EXCEPT !.pc = pc, !.agent = agent]
                                        ELSE req[r]]

(* reloadPromise resolves: it is cleared, and its waiters get the agent *)
SharedLoaded ==
    /\ Complete("shared")
    /\ cache' = Loaded("shared")
    /\ load' = [load EXCEPT !["shared"] = Idle]
    /\ req' = Woken("served", cache')
    /\ UNCHANGED <<disk, missing, last, poll, up>>

FaultySharedFails ==
    /\ load["shared"].todo \cap missing # {}
    /\ load' = [load EXCEPT !["shared"] = Idle]
    /\ UNCHANGED <<disk, missing, cache, req, last, poll, up>>

(* A file is away: the load rejects, and its waiters with it *)
SharedFails ==
    /\ load["shared"].todo \cap missing # {}
    /\ load' = [load EXCEPT !["shared"] = Idle]
    /\ req' = Woken("failed", NoCache)
    /\ UNCHANGED <<disk, missing, cache, last, poll, up>>

(* reload() returns to checkFiles, which clears `checking` *)
MonitorLoaded ==
    /\ Complete("monitor")
    /\ cache' = Loaded("monitor")
    /\ load' = [load EXCEPT !["monitor"] = Idle]
    /\ poll' = NoPoll
    /\ UNCHANGED <<disk, missing, req, last, up>>

(* reload() rejects inside `void this.checkFiles()`: nothing handles the   *)
(* rejection, and Node ends the process                                    *)
MonitorFails ==
    /\ load["monitor"].todo \cap missing # {}
    /\ up' = FALSE
    /\ cache' = NoCache
    /\ load' = [l \in Loaders |-> Idle]
    /\ poll' = NoPoll
    /\ req' = [r \in Requests |-> IF req[r].pc \in {"new", "served", "failed"} THEN req[r]
                                  ELSE [req[r] EXCEPT !.pc = "failed"]]
    /\ UNCHANGED <<disk, missing, last>>

(* The supervisor starts it again; onModuleInit records the mtimes, 0 for  *)
(* a file that is away                                                     *)
Restart ==
    /\ ~up
    /\ up' = TRUE
    /\ last' = [f \in Files |-> IF f \in missing THEN 0 ELSE disk[f]]
    /\ UNCHANGED <<disk, missing, cache, load, req, poll>>

-----------------------------------------------------------------------------
(* getHttpsAgent *)

AskAgent(r) ==
    /\ up /\ req[r].pc = "new"
    /\ req' = [req EXCEPT ![r].pc = "stating", ![r].todo = Files]
    /\ UNCHANGED <<disk, missing, cache, load, last, poll, up>>

AgentStat(r, f) ==
    /\ req[r].pc = "stating" /\ f \in req[r].todo /\ f \notin missing
    /\ req' = [req EXCEPT ![r].seen[f] = disk[f], ![r].todo = @ \ {f}]
    /\ UNCHANGED <<disk, missing, cache, load, last, poll, up>>

AgentStatFails(r) ==
    /\ req[r].pc = "stating" /\ req[r].todo \cap missing # {}
    /\ req' = [req EXCEPT ![r].pc = "failed"]
    /\ UNCHANGED <<disk, missing, cache, load, last, poll, up>>

MtimesChanged(seen) == cache.null \/ cache.mtimes # seen

(* With the mtimes at hand: join or start the shared load, or take the     *)
(* cached agent                                                            *)
AgentDecide(r) ==
    /\ req[r].pc = "stating" /\ req[r].todo = {}
    /\ IF MtimesChanged(req[r].seen)
         THEN /\ req' = [req EXCEPT ![r].pc = "waiting"]
              /\ load' = IF load["shared"].pc = "idle"
                         THEN [load EXCEPT !["shared"] = Started] ELSE load
         ELSE /\ req' = [req EXCEPT ![r].pc = "served", ![r].agent = cache]
              /\ UNCHANGED load
    /\ UNCHANGED <<disk, missing, cache, last, poll, up>>

-----------------------------------------------------------------------------
(* checkFiles *)

PollBegin ==
    /\ up /\ ~poll.checking
    /\ poll' = [checking |-> TRUE, todo |-> Files, changed |-> FALSE]
    /\ UNCHANGED <<disk, missing, cache, load, req, last, up>>

PollStat(f) ==
    /\ f \in poll.todo
    /\ IF f \in missing
         THEN poll' = [poll EXCEPT !.todo = @ \ {f}] /\ UNCHANGED last
         ELSE /\ last' = [last EXCEPT ![f] = disk[f]]
              /\ poll' = [poll EXCEPT !.todo = @ \ {f}, !.changed = @ \/ disk[f] # last[f]]
    /\ UNCHANGED <<disk, missing, cache, load, req, up>>

FaultyPollUnchanged ==
    /\ poll.checking /\ poll.todo = {} /\ ~poll.changed
    /\ UNCHANGED vars

PollUnchanged ==
    /\ poll.checking /\ poll.todo = {} /\ ~poll.changed
    /\ poll' = NoPoll
    /\ UNCHANGED <<disk, missing, cache, load, req, last, up>>

(* reload(): drop the cache, then load *)
PollReload ==
    /\ poll.checking /\ poll.todo = {} /\ poll.changed /\ load["monitor"].pc = "idle"
    /\ cache' = NoCache
    /\ load' = [load EXCEPT !["monitor"] = Started]
    /\ UNCHANGED <<disk, missing, req, last, poll, up>>

-----------------------------------------------------------------------------

LoadStep(l) == StatAll(l) \/ \E f \in Files : ReadFile(l, f) \/ StatFile(l, f)

Monitor == PollBegin \/ PollUnchanged \/ PollReload \/ \E f \in Files : PollStat(f)

Agent(r) == AskAgent(r) \/ AgentStatFails(r) \/ AgentDecide(r) \/ \E f \in Files : AgentStat(r, f)

Outside == \E f \in Files : Rotate(f) \/ Unlink(f) \/ Create(f)

Next ==
    \/ Outside
    \/ \E l \in Loaders : LoadStep(l)
    \/ SharedLoaded \/ SharedFails \/ MonitorLoaded \/ MonitorFails \/ Restart
    \/ \E r \in Requests : Agent(r)
    \/ Monitor

(* The interval timer keeps firing, file operations return, a rotation     *)
(* that was begun is finished, a stopped process is started again          *)
Fairness ==
    /\ WF_vars(Monitor) /\ WF_vars(LoadStep("monitor"))
    /\ WF_vars(MonitorLoaded \/ MonitorFails) /\ WF_vars(Restart)
    /\ \A f \in Files : WF_vars(Create(f))

Spec == Init /\ [][Next]_vars
FairSpec == Spec /\ Fairness

-----------------------------------------------------------------------------
(* Properties *)

Caches == [agent : Versions, mtimes : Versions, null : BOOLEAN]

(* Types of the cache, the loads, the requests and the monitor. *)
TypeOK ==
    /\ disk \in Versions /\ missing \in SUBSET Files
    /\ cache \in Caches
    /\ load \in [Loaders -> [pc : {"idle", "reading", "stating"}, got : Versions,
                             stamp : Versions, todo : SUBSET Files]]
    /\ req \in [Requests -> [pc : {"new", "stating", "waiting", "served", "failed"},
                             seen : Versions, todo : SUBSET Files, agent : Caches]]
    /\ last \in Versions
    /\ poll \in [checking : BOOLEAN, todo : SUBSET Files, changed : BOOLEAN]
    /\ up \in BOOLEAN

(* getHttpsAgent never returns the agent of an empty cache, although the   *)
(* monitor's reload() empties it under the requests, and what it returns   *)
(* holds a version of every file.                                          *)
AgentIsComplete ==
    \A r \in Requests : req[r].pc = "served" =>
        ~req[r].agent.null /\ \A f \in Files : req[r].agent.agent[f] > 0

(* A waiter is never forgotten: whoever awaits reloadPromise awaits a load *)
(* that is still running.                                                  *)
WaitersHaveALoad == Waiting # {} => load["shared"].pc # "idle"

(* Every request gets a whole agent and none waits for a load that is gone. *)
AgentsDelivered == AgentIsComplete /\ WaitersHaveALoad

(* The monitor notices every rotation, whatever loads fail or crash the    *)
(* process meanwhile: its record of the mtimes catches up with the disk.   *)
EveryRotationNoticed == <>[](last = disk)

Settled ==
    /\ up /\ missing = {} /\ ~poll.checking /\ last = disk
    /\ \A l \in Loaders : load[l].pc = "idle"

(* mtls.service.ts:17: "Caches the agent until file mtimes change - no     *)
(* restart required on cert rotation": once the monitor has seen the disk  *)
(* as it is and no load is running, the cache holds what is on the disk.   *)
RotationPickedUp == Settled /\ ~cache.null /\ cache.mtimes = disk => cache.agent = disk

=============================================================================

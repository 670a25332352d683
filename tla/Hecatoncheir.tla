---------------------------- MODULE Hecatoncheir ----------------------------
(***************************************************************************)
(* Hecatoncheir, the agent of a node (pkg/hecatoncheir/agent.go).  One     *)
(* main loop takes a job from the queue, stages its overlay, attaches its  *)
(* network, resolves its secrets and launches its VM; a goroutine per VM   *)
(* waits for it and cleans up; the watchers of Erinyes and the control     *)
(* loop kill VMs by sandbox ID.  They all share the runtime, the gateway,  *)
(* the overlay pool, the queue and the registry.  A crash may come between *)
(* any two steps.  Each action below is one call that the goroutine makes, *)
(* or an error path with the cleanup calls it makes.                       *)
(***************************************************************************)
EXTENDS Acheron, Hades, ControlPlane, FirecrackerRuntime, Erinyes, Lethe, Styx,
        FiniteSets

CONSTANTS Secrets,     \* the secrets a request refers to, 0 without a provider
          Limited      \* the IDs of the requests that carry a TTL

ASSUME HecatoncheirAssumption == Secrets \in Nat /\ Limited \subseteq SandboxIDs

VARIABLES job,         \* job[n]: the main loop
          waiter,      \* waiter[n][r]: the goroutine that waits for launch r
          awaited,     \* awaited[n][r]: the launch that goroutine's Wait loaded
          killer,      \* killer[n][k]: progress of a Kill by watcher k, or by the
                       \* control loop (k = 0)
          finished     \* history: entries acknowledged at the end of their job

agentVars == <<job, waiter, awaited, killer, finished>>

JobPC == {"idle", "stage", "attach", "secrets", "launch", "report", "arm"}

WaiterPC == {"none", "start", "waiting", "disarm", "report", "detach", "destroy", "ack"}

KillerPC == {"idle", "stop", "delete", "unwatch"}

Killers == Receipts \cup {0}

(* keys: secrets left to resolve; denied: one of them could not be. *)
JobState == [pc : JobPC, r : Receipts \cup {0}, keys : 0..Secrets, denied : BOOLEAN]

AgentTypeOK ==
  /\ job \in [Nodes -> JobState]
  /\ waiter \in [Nodes -> [Receipts -> WaiterPC]]
  /\ awaited \in [Nodes -> [Receipts -> Receipts \cup {0}]]
  /\ killer \in [Nodes -> [Killers -> KillerPC]]
  /\ finished \in [Nodes -> SUBSET Receipts]

Idle == [pc |-> "idle", r |-> 0, keys |-> 0, denied |-> FALSE]

AgentInit ==
  /\ job = [n \in Nodes |-> Idle]
  /\ waiter = [n \in Nodes |-> [r \in Receipts |-> "none"]]
  /\ awaited = [n \in Nodes |-> [r \in Receipts |-> 0]]
  /\ killer = [n \in Nodes |-> [k \in Killers |-> "idle"]]
  /\ finished = [n \in Nodes |-> {}]

(* The sandbox ID of the main loop's job. *)
JobID(n) == Payload(n, job[n].r)

(* The main loop of n is about to make the calls of step pc. *)
At(n, pc) == up[n] /\ job[n].pc = pc

JobGoto(n, pc) == job' = [job EXCEPT ![n].pc = pc]

(* The calls of an error path whose results are ignored: some may fail. *)
NackJob(n, ok) == IF ok THEN Nack(n, job[n].r) ELSE UNCHANGED queueVars

-----------------------------------------------------------------------------
(* The main loop.                                                          *)

Dequeue(n) ==
  /\ At(n, "idle")
  /\ Deliver(n)
  /\ Payload(n, lastDelivered[n] + 1) # Poison
  /\ job' = [job EXCEPT ![n] = [pc |-> "stage", r |-> lastDelivered[n] + 1,
                                keys |-> Secrets, denied |-> FALSE]]
  /\ UNCHANGED <<faults, hadesVars, controlVars, runtimeVars, furyVars, letheVars, attached,
                 waiter, awaited, killer, finished>>

DequeuePoison(n) ==
  /\ At(n, "idle")
  /\ \E ok \in BOOLEAN : DeadLetter(n, ok) /\ Failing(Cost(ok))
  /\ UNCHANGED <<hadesVars, controlVars, runtimeVars, furyVars, letheVars, attached, agentVars>>

(* Nyx.GetSnapshot and Lethe.Create. *)
Stage(n) ==
  /\ At(n, "stage")
  /\ CreateOverlay(n, job[n].r)
  /\ JobGoto(n, "attach")
  /\ UNCHANGED <<faults, queueVars, hadesVars, controlVars, runtimeVars, furyVars, attached,
                 waiter, awaited, killer, finished>>

StageFails(n) ==
  /\ At(n, "stage")
  /\ CreateOverlayFails(n, job[n].r)
  /\ \E nacked \in BOOLEAN : NackJob(n, nacked) /\ Failing(1 + Cost(nacked))
  /\ job' = [job EXCEPT ![n] = Idle]
  /\ UNCHANGED <<hadesVars, controlVars, runtimeVars, furyVars, attached,
                 waiter, awaited, killer, finished>>

AttachNetwork(n) ==
  /\ At(n, "attach")
  /\ Attach(n, JobID(n))
  /\ JobGoto(n, IF job[n].keys = 0 THEN "launch" ELSE "secrets")
  /\ UNCHANGED <<faults, queueVars, hadesVars, controlVars, runtimeVars, furyVars, letheVars,
                 waiter, awaited, killer, finished>>

(* Mutant: the overlay is not destroyed. *)
MutAttachNetworkFails(n) ==
  /\ At(n, "attach")
  /\ AttachFails(n, JobID(n))
  /\ \E nacked \in BOOLEAN : NackJob(n, nacked) /\ Failing(1 + Cost(nacked))
  /\ job' = [job EXCEPT ![n] = Idle]
  /\ UNCHANGED <<hadesVars, controlVars, runtimeVars, furyVars, letheVars,
                 waiter, awaited, killer, finished>>

AttachNetworkFails(n) ==
  /\ At(n, "attach")
  /\ AttachFails(n, JobID(n))
  /\ \E destroyed, nacked \in BOOLEAN :
       /\ DestroyOverlay(n, job[n].r, destroyed)
       /\ NackJob(n, nacked)
       /\ Failing(1 + Cost(destroyed) + Cost(nacked))
  /\ job' = [job EXCEPT ![n] = Idle]
  /\ UNCHANGED <<hadesVars, controlVars, runtimeVars, furyVars,
                 waiter, awaited, killer, finished>>

(* The loop over the secrets goes on to the next key, or ends. *)
NextSecret(n, failed) ==
  job' = [job EXCEPT ![n].keys = @ - 1,
                     ![n].pc = IF job[n].keys = 1 THEN "launch" ELSE @,
                     ![n].denied = @ \/ failed]

ResolveSecret(n) ==
  /\ At(n, "secrets")
  /\ NextSecret(n, FALSE)
  /\ UNCHANGED <<faults, queueVars, hadesVars, controlVars, runtimeVars, furyVars, letheVars,
                 attached, waiter, awaited, killer, finished>>

(* The error path cleans up and hands the job back; its continue statement *)
(* belongs to the loop over the secrets, which goes on to the next key.    *)
ResolveSecretFails(n) ==
  /\ At(n, "secrets")
  /\ \E destroyed, detached, nacked \in BOOLEAN :
       /\ DestroyOverlay(n, job[n].r, destroyed)
       /\ Detach(n, JobID(n), detached)
       /\ NackJob(n, nacked)
       /\ Failing(1 + Cost(destroyed) + Cost(detached) + Cost(nacked))
  /\ NextSecret(n, TRUE)
  /\ UNCHANGED <<hadesVars, controlVars, runtimeVars, furyVars,
                 waiter, awaited, killer, finished>>

(* Mutant: the waiter is started before the run is reported. *)
MutLaunchVM(n) ==
  /\ At(n, "launch")
  /\ Launch(n, JobID(n), job[n].r)
  /\ JobGoto(n, "report")
  /\ waiter' = [waiter EXCEPT ![n][job[n].r] = "start"]
  /\ UNCHANGED <<faults, queueVars, hadesVars, controlVars, furyVars, letheVars, attached,
                 awaited, killer, finished>>

LaunchVM(n) ==
  /\ At(n, "launch")
  /\ Launch(n, JobID(n), job[n].r)
  /\ JobGoto(n, "report")
  /\ UNCHANGED <<faults, queueVars, hadesVars, controlVars, furyVars, letheVars, attached,
                 waiter, awaited, killer, finished>>

(* Mutant: the run is marked FAILED although the job will be retried. *)
MutLaunchVMFails(n) ==
  /\ At(n, "launch")
  /\ Detach(n, JobID(n), TRUE)
  /\ DestroyOverlay(n, job[n].r, TRUE)
  /\ NackJob(n, TRUE)
  /\ UpdateRun(JobID(n), "FAILED", n, TRUE)
  /\ Failing(1)
  /\ job' = [job EXCEPT ![n] = Idle]
  /\ UNCHANGED <<registered, controlVars, runtimeVars, furyVars,
                 waiter, awaited, killer, finished>>

LaunchVMFails(n) ==
  /\ At(n, "launch")
  /\ \E destroyed, detached, nacked \in BOOLEAN :
       /\ Detach(n, JobID(n), detached)
       /\ DestroyOverlay(n, job[n].r, destroyed)
       /\ NackJob(n, nacked)
       /\ Failing(1 + Cost(destroyed) + Cost(detached) + Cost(nacked))
  /\ job' = [job EXCEPT ![n] = Idle]
  /\ UNCHANGED <<hadesVars, controlVars, runtimeVars, furyVars,
                 waiter, awaited, killer, finished>>

(* Mutant: when the write fails the job is handed back. *)
MutReportRunning(n) ==
  /\ At(n, "report")
  /\ \E ok \in BOOLEAN :
       /\ UpdateRun(JobID(n), "RUNNING", RunNodeID(n), ok)
       /\ Failing(Cost(ok))
       /\ NackJob(n, ~ok)
       /\ job' = [job EXCEPT ![n] = IF ok THEN [@ EXCEPT !.pc = "arm"] ELSE Idle]
  /\ UNCHANGED <<registered, controlVars, runtimeVars, furyVars, letheVars, attached,
                 waiter, awaited, killer, finished>>

(* The record that Launch returned is written. *)
ReportRunning(n) ==
  /\ At(n, "report")
  /\ \E ok \in BOOLEAN : /\ UpdateRun(JobID(n), "RUNNING", RunNodeID(n), ok)
                         /\ Failing(Cost(ok))
  /\ JobGoto(n, "arm")
  /\ UNCHANGED <<queueVars, registered, controlVars, runtimeVars, furyVars, letheVars, attached,
                 waiter, awaited, killer, finished>>

(* The watchdog is armed, then the waiter started. *)
ArmAndWait(n) ==
  /\ At(n, "arm")
  /\ Arm(n, JobID(n), job[n].r)
  /\ waiter' = [waiter EXCEPT ![n][job[n].r] = "start"]
  /\ job' = [job EXCEPT ![n] = Idle]
  /\ UNCHANGED <<faults, queueVars, hadesVars, controlVars, runtimeVars, letheVars, attached,
                 awaited, killer, finished>>

-----------------------------------------------------------------------------
(* The goroutine that waits for the VM of entry r.                         *)

WaiterAt(n, r, pc) == up[n] /\ waiter[n][r] = pc

WaiterGoto(n, r, pc) == waiter' = [waiter EXCEPT ![n][r] = pc]

(* Wait looks the sandbox up by its ID: a Kill may have deleted it, and a  *)
(* later launch under the same ID may have replaced it.                    *)
WaiterLoad(n, r) ==
  /\ WaiterAt(n, r, "start")
  /\ WaiterGoto(n, r, IF Known(n, Payload(n, r)) THEN "waiting" ELSE "disarm")
  /\ awaited' = [awaited EXCEPT ![n][r] = vms[n][Payload(n, r)]]
  /\ UNCHANGED <<faults, queueVars, hadesVars, controlVars, runtimeVars, furyVars, letheVars,
                 attached, job, killer, finished>>

(* Mutant: Wait returns at once. *)
MutWaiterWait(n, r) ==
  /\ WaiterAt(n, r, "waiting")
  /\ WaiterGoto(n, r, "disarm")
  /\ UNCHANGED <<faults, queueVars, hadesVars, controlVars, runtimeVars, furyVars, letheVars,
                 attached, job, awaited, killer, finished>>

WaiterWait(n, r) ==
  /\ WaiterAt(n, r, "waiting")
  /\ WaitReturns(n, awaited[n][r])
  /\ WaiterGoto(n, r, "disarm")
  /\ UNCHANGED <<faults, queueVars, hadesVars, controlVars, furyVars, letheVars, attached,
                 job, awaited, killer, finished>>

(* Mutant: the watchdog is not disarmed. *)
MutWaiterDisarm(n, r) ==
  /\ WaiterAt(n, r, "disarm")
  /\ WaiterGoto(n, r, "report")
  /\ UNCHANGED <<faults, queueVars, hadesVars, controlVars, runtimeVars, furyVars, letheVars,
                 attached, job, awaited, killer, finished>>

WaiterDisarm(n, r) ==
  /\ WaiterAt(n, r, "disarm")
  /\ Disarm(n, Payload(n, r))
  /\ WaiterGoto(n, r, "report")
  /\ UNCHANGED <<faults, queueVars, hadesVars, controlVars, runtimeVars, letheVars, attached,
                 job, awaited, killer, finished>>

(* Inspect and UpdateRun; when Inspect does not find the sandbox nothing   *)
(* is written.                                                             *)
WaiterReport(n, r) ==
  LET s == Payload(n, r)
  IN  /\ WaiterAt(n, r, "report")
      /\ IF Known(n, s)
         THEN \E ok \in BOOLEAN : /\ UpdateRun(s, InspectStatus(n, s), RunNodeID(n), ok)
                                  /\ Failing(Cost(ok))
         ELSE UNCHANGED <<faults, runVars>>
      /\ WaiterGoto(n, r, "detach")
      /\ UNCHANGED <<queueVars, registered, controlVars, runtimeVars, furyVars, letheVars,
                     attached, job, awaited, killer, finished>>

WaiterDetach(n, r) ==
  /\ WaiterAt(n, r, "detach")
  /\ \E ok \in BOOLEAN : Detach(n, Payload(n, r), ok) /\ Failing(Cost(ok))
  /\ WaiterGoto(n, r, "destroy")
  /\ UNCHANGED <<queueVars, hadesVars, controlVars, runtimeVars, furyVars, letheVars,
                 job, awaited, killer, finished>>

WaiterDestroy(n, r) ==
  /\ WaiterAt(n, r, "destroy")
  /\ \E ok \in BOOLEAN : DestroyOverlay(n, r, ok) /\ Failing(Cost(ok))
  /\ WaiterGoto(n, r, "ack")
  /\ UNCHANGED <<queueVars, hadesVars, controlVars, runtimeVars, furyVars, attached,
                 job, awaited, killer, finished>>

WaiterAck(n, r) ==
  /\ WaiterAt(n, r, "ack")
  /\ \E ok \in BOOLEAN :
       /\ IF ok THEN Ack(n, r) ELSE UNCHANGED queueVars
       /\ finished' = [finished EXCEPT ![n] = IF ok THEN @ \cup {r} ELSE @]
       /\ Failing(Cost(ok))
  /\ WaiterGoto(n, r, "none")
  /\ awaited' = [awaited EXCEPT ![n][r] = 0]
  /\ UNCHANGED <<hadesVars, controlVars, runtimeVars, furyVars, letheVars, attached,
                 job, killer>>

-----------------------------------------------------------------------------
(* The watchers of Erinyes.                                                *)

KillerGoto(n, k, pc) == killer' = [killer EXCEPT ![n][k] = pc]

(* Mutant: no limit is ever enforced. *)
MutFuryCheck(n, r) ==
  /\ up[n]
  /\ r \in watching[n]
  /\ Known(n, Payload(n, r))
  /\ InspectStatus(n, Payload(n, r)) \in Terminal
  /\ Disarm(n, Payload(n, r))
  /\ UNCHANGED <<faults, queueVars, hadesVars, controlVars, runtimeVars, letheVars, attached,
                 agentVars>>

(* checkAndEnforce: a run that is over is no longer watched; one that      *)
(* exceeded its TTL is killed, the only limit the agent sets.  A sandbox   *)
(* that Inspect does not find is looked at again at the next tick.         *)
FuryCheck(n, r) ==
  LET s == Payload(n, r)
  IN  /\ up[n]
      /\ r \in watching[n]
      /\ killer[n][r] = "idle"
      /\ Known(n, s)
      /\ \/ /\ InspectStatus(n, s) \in Terminal
            /\ Disarm(n, s)
            /\ UNCHANGED killer
         \/ /\ InspectStatus(n, s) \notin Terminal
            /\ s \in Limited
            /\ KillerGoto(n, r, "stop")
            /\ UNCHANGED furyVars
      /\ UNCHANGED <<faults, queueVars, hadesVars, controlVars, runtimeVars, letheVars, attached,
                     job, waiter, awaited, finished>>

(* killForViolation: Runtime.Kill, then stopWatching. *)
FuryStop(n, r) ==
  LET s == Payload(n, r)
  IN  /\ up[n]
      /\ killer[n][r] = "stop"
      /\ \/ /\ \E ok \in BOOLEAN : StopVMM(n, s, ok) /\ Failing(Cost(ok))
            /\ KillerGoto(n, r, "delete")
         \/ /\ ~Known(n, s)
            /\ KillerGoto(n, r, "unwatch")
            /\ UNCHANGED <<faults, runtimeVars>>
      /\ UNCHANGED <<queueVars, hadesVars, controlVars, furyVars, letheVars, attached,
                     job, waiter, awaited, finished>>

FuryDelete(n, r) ==
  /\ up[n]
  /\ killer[n][r] = "delete"
  /\ DeleteVM(n, Payload(n, r))
  /\ KillerGoto(n, r, "unwatch")
  /\ UNCHANGED <<faults, queueVars, hadesVars, controlVars, furyVars, letheVars, attached,
                 job, waiter, awaited, finished>>

FuryUnwatch(n, r) ==
  /\ up[n]
  /\ killer[n][r] = "unwatch"
  /\ Disarm(n, Payload(n, r))
  /\ KillerGoto(n, r, "idle")
  /\ UNCHANGED <<faults, queueVars, hadesVars, controlVars, runtimeVars, letheVars, attached,
                 job, waiter, awaited, finished>>

-----------------------------------------------------------------------------
(* The control loop: one message at a time.                                *)

ControlKill(n) ==
  /\ up[n]
  /\ control[n] # <<>>
  /\ killer[n][0] = "idle"
  /\ LET s == Head(control[n])
     IN  \/ /\ \E ok \in BOOLEAN : StopVMM(n, s, ok) /\ Failing(Cost(ok))
            /\ KillerGoto(n, 0, "delete")
            /\ UNCHANGED control
         \/ /\ ~Known(n, s)
            /\ control' = [control EXCEPT ![n] = Tail(@)]
            /\ UNCHANGED <<faults, runtimeVars, killer>>
  /\ UNCHANGED <<queueVars, hadesVars, up, furyVars, letheVars, attached,
                 job, waiter, awaited, finished>>

ControlDelete(n) ==
  /\ up[n]
  /\ killer[n][0] = "delete"
  /\ DeleteVM(n, Head(control[n]))
  /\ control' = [control EXCEPT ![n] = Tail(@)]
  /\ KillerGoto(n, 0, "idle")
  /\ UNCHANGED <<faults, queueVars, hadesVars, up, furyVars, letheVars, attached,
                 job, waiter, awaited, finished>>

-----------------------------------------------------------------------------
(* The agent process ends.  Its goroutines and maps are gone; the VM       *)
(* processes, the overlay files and the pending entries are not.           *)
AgentCrash(n) ==
  /\ up[n]
  /\ Failing(1)
  /\ up' = [up EXCEPT ![n] = FALSE]
  /\ control' = [control EXCEPT ![n] = <<>>]
  /\ job' = [job EXCEPT ![n] = Idle]
  /\ waiter' = [waiter EXCEPT ![n] = [r \in Receipts |-> "none"]]
  /\ awaited' = [awaited EXCEPT ![n] = [r \in Receipts |-> 0]]
  /\ killer' = [killer EXCEPT ![n] = [k \in Killers |-> "idle"]]
  /\ vms' = [vms EXCEPT ![n] = [s \in SandboxIDs |-> 0]]
  /\ exitCode' = [exitCode EXCEPT ![n] = {}]
  /\ active' = [active EXCEPT ![n] = [s \in SandboxIDs |-> 0]]
  /\ watching' = [watching EXCEPT ![n] = {}]
  /\ attached' = [attached EXCEPT ![n] = {}]
  /\ AbandonOverlays(n)
  /\ UNCHANGED <<queueVars, hadesVars, proc, finished>>

(* Start: Agent.Reconcile kills the firecracker processes whose command    *)
(* line names tartarus, which with the default directory of the sockets    *)
(* none does, unless it gives up or fails to; then the agent subscribes.   *)
AgentRestart(n) ==
  /\ ~up[n]
  /\ \E killed \in SUBSET {r \in Receipts : Runs(n, r) \/ proc[n][r] = "stopping"} :
       proc' = [proc EXCEPT ![n] = [r \in Receipts |->
                                      IF r \in killed THEN "error" ELSE proc[n][r]]]
  /\ up' = [up EXCEPT ![n] = TRUE]
  /\ UNCHANGED <<faults, queueVars, hadesVars, control, vms, exitCode, furyVars, letheVars, attached,
                 agentVars>>
-----------------------------------------------------------------------------
(* The main loop of an agent that has a secret provider, alone with a      *)
(* queue that holds one job.  The deployed agent has none (see             *)
(* TartarusSystem), so this is the only place where secrets are resolved.  *)
aloneVars == <<faults, queueVars, hadesVars, controlVars, runtimeVars, furyVars, letheVars,
               attached, agentVars>>

AloneInit ==
  /\ FaultsInit /\ HadesInit /\ ControlInit /\ RuntimeInit
  /\ FuryInit /\ LetheInit /\ StyxInit /\ AgentInit
  /\ stream \in [Nodes -> {<<s>> : s \in SandboxIDs}]
  /\ lastDelivered = [n \in Nodes |-> 0]
  /\ pel = [n \in Nodes |-> {}]
  /\ dlq = [n \in Nodes |-> {}]

AloneNext ==
  \E n \in Nodes :
    \/ Dequeue(n)
    \/ Stage(n) \/ StageFails(n)
    \/ AttachNetwork(n) \/ AttachNetworkFails(n)
    \/ ResolveSecret(n) \/ ResolveSecretFails(n)
    \/ LaunchVM(n) \/ LaunchVMFails(n)
    \/ ReportRunning(n)
    \/ ArmAndWait(n)

AloneSpec == AloneInit /\ [][AloneNext]_aloneVars

(* agent.go: "Fail the job if secret resolution fails? Yes, security       *)
(* critical."  No VM is launched for a job a secret of which could not be  *)
(* resolved.                                                               *)
SecretFailureFailsJob ==
  \A n \in Nodes : job[n].denied => job[n].pc \notin {"report", "arm"}
=============================================================================

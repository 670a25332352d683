--------------------------- MODULE TartarusSystem ---------------------------
(***************************************************************************)
(* The life of a job through the whole system: clients submit to Olympus,  *)
(* the request travels through Acheron to an agent, the agent runs it in a *)
(* Firecracker VM and reports to Hades, while users kill sandboxes, VMs    *)
(* exit, heartbeats come and go, and Olympus and the agents crash.         *)
(***************************************************************************)
EXTENDS Olympus, Hecatoncheir, TLC

(* cmd/hecatoncheir-agent configures no secret provider. *)
ASSUME DeployedWiring == Secrets = 0

vars == <<faults, queueVars, hadesVars, controlVars, runtimeVars, furyVars, letheVars,
          attached, olympusVars, agentVars>>

TypeOK ==
  /\ FaultsTypeOK /\ QueueTypeOK /\ HadesTypeOK /\ ControlTypeOK /\ RuntimeTypeOK
  /\ FuryTypeOK /\ LetheTypeOK /\ StyxTypeOK /\ OlympusTypeOK /\ AgentTypeOK

Init ==
  /\ FaultsInit /\ QueueInit /\ HadesInit /\ ControlInit /\ RuntimeInit
  /\ FuryInit /\ LetheInit /\ StyxInit /\ OlympusInit /\ AgentInit

-----------------------------------------------------------------------------
agentSide == <<furyVars, letheVars, attached, agentVars>>

SubmitStep(c) ==
  /\ \/ SubmitRejected(c)
     \/ SubmitPersist(c)
     \/ SubmitUnschedulable(c)
     \/ SubmitSchedule(c)
     \/ SubmitEnqueue(c)
     \/ SubmitEnqueueFails(c)
  /\ UNCHANGED agentSide

ReconcileStep ==
  /\ \E n \in Nodes : ReconcileQuery(n)
  /\ UNCHANGED agentSide

OperatorStep ==
  /\ \/ \E s \in SandboxIDs : KillSandbox(s)
     \/ OlympusRestart
  /\ UNCHANGED agentSide

MainLoopStep(n) ==
  /\ \/ Dequeue(n) \/ DequeuePoison(n)
     \/ Stage(n) \/ StageFails(n)
     \/ AttachNetwork(n) \/ AttachNetworkFails(n)
     \/ LaunchVM(n) \/ LaunchVMFails(n)
     \/ ReportRunning(n)
     \/ ArmAndWait(n)
  /\ UNCHANGED olympusVars

WaiterStep(n, r) ==
  /\ \/ WaiterLoad(n, r) \/ WaiterWait(n, r) \/ WaiterDisarm(n, r) \/ WaiterReport(n, r)
     \/ WaiterDetach(n, r) \/ WaiterDestroy(n, r) \/ WaiterAck(n, r)
  /\ UNCHANGED olympusVars

FuryStep(n, r) ==
  /\ FuryCheck(n, r) \/ FuryStop(n, r) \/ FuryDelete(n, r) \/ FuryUnwatch(n, r)
  /\ UNCHANGED olympusVars

ControlStep(n) ==
  /\ ControlKill(n) \/ ControlDelete(n)
  /\ UNCHANGED olympusVars

Crash(n) == AgentCrash(n) /\ UNCHANGED olympusVars
Restart(n) == AgentRestart(n) /\ UNCHANGED olympusVars

GuestExits(n, r) ==
  /\ VMExit(n, r)
  /\ UNCHANGED <<faults, queueVars, hadesVars, controlVars, furyVars, letheVars, attached,
                 olympusVars, agentVars>>

Heartbeat(n) ==
  /\ up[n]
  /\ UpdateHeartbeat(n)
  /\ UNCHANGED <<faults, queueVars, runVars, controlVars, runtimeVars, furyVars, letheVars,
                 attached, olympusVars, agentVars>>

(* The key of a node that is down expires; that of a running agent only    *)
(* when its heartbeats fail for longer than the TTL.                       *)
HeartbeatExpires(n) ==
  /\ ExpireNode(n)
  /\ Failing(Cost(~up[n]))
  /\ UNCHANGED <<queueVars, runVars, controlVars, runtimeVars, furyVars, letheVars,
                 attached, olympusVars, agentVars>>

ForeignEntry(n) ==
  /\ EnqueuePoison(n)
  /\ Failing(1)
  /\ UNCHANGED <<hadesVars, controlVars, runtimeVars, furyVars, letheVars, attached,
                 olympusVars, agentVars>>

Next ==
  \/ \E c \in Clients : SubmitStep(c)
  \/ ReconcileStep
  \/ OperatorStep
  \/ \E n \in Nodes : \/ MainLoopStep(n) \/ ControlStep(n) \/ Crash(n) \/ Restart(n)
                      \/ Heartbeat(n) \/ HeartbeatExpires(n) \/ ForeignEntry(n)
  \/ \E n \in Nodes, r \in Receipts : WaiterStep(n, r) \/ FuryStep(n, r) \/ GuestExits(n, r)

Spec == Init /\ [][Next]_vars

(* What the scheduling of the code gives: a call of Submit that has begun, *)
(* a loop, a goroutine or a ticker goes on; a signalled VMM ends; an agent *)
(* is started again.  A watcher's tick finds the TTL exceeded in the end,  *)
(* if the request has one.  Nothing is assumed of clients, users,          *)
(* failures, or of a guest's own exit.                                     *)
Fairness ==
  /\ \A c \in Clients : WF_vars(calls[c].pc # "ready" /\ SubmitStep(c))
  /\ WF_vars(ReconcileStep)
  /\ \A n \in Nodes : /\ WF_vars(MainLoopStep(n))
                      /\ WF_vars(ControlStep(n))
                      /\ WF_vars(Restart(n))
                      /\ \A r \in Receipts :
                           /\ WF_vars(WaiterStep(n, r))
                           /\ WF_vars(FuryStep(n, r))
                           /\ WF_vars(proc[n][r] = "stopping" /\ GuestExits(n, r))

FairSpec == Spec /\ Fairness
-----------------------------------------------------------------------------
(* Only one client ever carries the ID of entry r. *)
SubmittedOnce(n, r) ==
  /\ r \in Entries(n)
  /\ \A c, d \in Clients :
       calls[c].id = Payload(n, r) /\ calls[d].id = Payload(n, r) => c = d

(* The entries the agent process of n is working on. *)
Handled(n) == {r \in Receipts : job[n].r = r \/ waiter[n][r] # "none"}

(* A job that Olympus accepted is never lost: some entry that carries it   *)
(* waits in the queue of its node, is pending there, or was acknowledged   *)
(* at the end of its job.  Behind it: Nack and the error paths of the main *)
(* loop, Ack as the last call of the waiter.                               *)
AcceptedJobAccounted ==
  \A c \in Clients : calls[c].pc = "accepted" =>
    LET n == calls[c].node
    IN  \E i \in Entries(n) : /\ Payload(n, i) = calls[c].id
                              /\ i \in Waiting(n) \cup pel[n] \cup finished[n]

(* Every entry the agent works on is still pending, and the main loop has  *)
(* handed over an entry before its waiter exists: nothing is acknowledged  *)
(* or handed back while work on it goes on.                                *)
HandledEntryPending ==
  \A n \in Nodes : /\ Handled(n) \subseteq pel[n]
                   /\ \A r \in Receipts : waiter[n][r] # "none" => job[n].r # r

(* Every overlay file belongs to a job in progress, whose cleanup is still *)
(* ahead, unless its removal failed or its agent crashed.                  *)
OverlayHasOwner ==
  \A n \in Nodes : \A r \in overlays[n] \ leaked[n] :
    \/ job[n].r = r /\ job[n].pc # "stage"
    \/ waiter[n][r] \notin {"none", "ack"}

(* A VM that runs and that the runtime knows still has its overlay and its *)
(* network: cleanup never overtakes the VM.                                *)
RunningVMHasResources ==
  \A n \in Nodes, r \in Receipts :
    SubmittedOnce(n, r) /\ Runs(n, r) /\ vms[n][Payload(n, r)] = r =>
      r \in overlays[n] /\ Payload(n, r) \in attached[n]

(* A sandbox that was submitted once runs at most once at any time, over   *)
(* all nodes, retries and restarts.                                        *)
AtMostOneVM ==
  \A n, m \in Nodes : \A q, r \in Receipts :
    /\ Runs(n, q) /\ Runs(m, r)
    /\ SubmittedOnce(n, q) /\ SubmittedOnce(m, r)
    /\ Payload(n, q) = Payload(m, r)
    => n = m /\ q = r

(* A job is acknowledged only when its VM has ended, has been told to, or  *)
(* was given up by a Kill that could not stop it: the waiter takes nothing *)
(* else for the end of the VM, whatever fails or crashes.  A failed        *)
(* StopVMM is the one way for a VM to outlive its job: Kill deletes the    *)
(* entry all the same, and a Wait that comes later finds nothing.          *)
AckedJobNotRunning ==
  \A n \in Nodes : \A r \in finished[n] : SubmittedOnce(n, r) => proc[n][r] # "running"

(* When a job is acknowledged and its sandbox was not killed, the registry *)
(* holds the outcome of its VM: no later write, of Olympus or of the main  *)
(* loop, covers it.                                                        *)
FinalStatusRecorded ==
  \A n \in Nodes : \A r \in finished[n] :
    LET s == Payload(n, r)
    IN  SubmittedOnce(n, r) /\ vms[n][s] = r /\ s \notin disturbed =>
          runs[s].status = IF proc[n][r] = "ok" THEN "SUCCEEDED" ELSE "FAILED"

(* A watcher outlives neither the waiter's Disarm nor the job: no watchdog *)
(* is left to poll, or to kill, a sandbox that is gone.                    *)
WatcherHasJob ==
  \A n \in Nodes : \A r \in watching[n] :
    SubmittedOnce(n, r) => waiter[n][r] \in {"start", "waiting", "disarm"}

(* The status of a sandbox that was submitted once never changes after it  *)
(* is terminal, as long as no write was lost: the writers of a run take    *)
(* their turns in order.                                                   *)
TerminalStatusStable ==
  [][\A s \in SandboxIDs :
       /\ runs[s].status \in Terminal
       /\ s \notin disturbed'
       /\ \A c, d \in Clients : calls[c].id = s /\ calls[d].id = s => c = d
       => runs'[s].status = runs[s].status]_vars

(* "KillSandbox sends a kill command to the node running the sandbox":     *)
(* the agent that runs the VM of s gets a message from every call.         *)
KillReachesHost ==
  [][\A s \in SandboxIDs, n \in Nodes :
       /\ kills' # kills
       /\ KillSandbox(s)
       /\ up[n] /\ Known(n, s) /\ proc[n][vms[n][s]] = "running"
       => Len(control'[n]) = Len(control[n]) + 1]_vars

-----------------------------------------------------------------------------
(* Every call of Submit that has begun is answered, unless Olympus went    *)
(* down.                                                                   *)
SubmitAnswered ==
  \A c \in Clients :
    calls[c].pc \in {"pending", "scheduled"} ~>
      calls[c].pc \in {"accepted", "failed", "aborted"}

(* No job blocks its agent: every entry of a queue is taken in the end.    *)
(* And no job with a TTL hangs: every goroutine that works on it ends,     *)
(* whatever is killed, fails or crashes on the way, unless a Kill could    *)
(* not stop its VM: nobody finds that VM any more, and a Wait that loaded  *)
(* it before lasts as long as its guest.  Behind it: the watchdog, the     *)
(* waiter and the main loop together.                                      *)
EveryEntrySettled ==
  \A n \in Nodes, r \in Receipts :
    r \in Entries(n) /\ SubmittedOnce(n, r) ~>
      /\ r <= lastDelivered[n]
      /\ Payload(n, r) \in Limited => r \notin Handled(n) \/ proc[n][r] = "unstopped"

(* persistence.md: "Pending tasks survive restarts": an entry that is      *)
(* pending while its agent is down is worked on again, or acknowledged.    *)
PendingSurvivesRestart ==
  \A n \in Nodes, r \in Receipts :
    r \in pel[n] /\ ~up[n] ~> r \in Handled(n) \/ r \notin pel[n]
-----------------------------------------------------------------------------
(* For TLC: nodes, sandbox IDs and clients are interchangeable. *)
Symmetry == Permutations(SandboxIDs) \cup Permutations(Clients) \cup Permutations(Nodes)
=============================================================================

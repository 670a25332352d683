------------------------------- MODULE Olympus -------------------------------
(***************************************************************************)
(* Olympus, the control plane (pkg/olympus/manager.go).  Each client makes *)
(* one call of Submit, which writes the run to Hades, chooses a node,      *)
(* writes the run again and enqueues the request, with every other call,   *)
(* agent and crash interleaved between those steps.  Nothing compares the  *)
(* ID of a request with the runs that exist: two clients may carry the     *)
(* same ID.  KillSandbox looks the node up in Hades and publishes to it.   *)
(* After a restart Reconcile asks every node for its sandboxes before the   *)
(* API serves again.                                                       *)
(***************************************************************************)
EXTENDS Acheron, Hades, ControlPlane, FirecrackerRuntime

CONSTANTS Clients,     \* the calls of Submit
          MaxKills     \* bound: calls of KillSandbox

ASSUME OlympusAssumption == MaxKills \in Nat

VARIABLES calls,       \* calls[c]: progress of the Submit call of client c
          kills,       \* calls of KillSandbox so far
          reconcile    \* the nodes Reconcile has still to ask

olympusVars == <<calls, kills, reconcile>>

CallState == {"ready", "pending", "scheduled", "accepted", "failed", "aborted"}

OlympusTypeOK ==
  /\ calls \in [Clients -> [pc : CallState, id : SandboxIDs, node : Nodes \cup {NoNode}]]
  /\ kills \in 0..MaxKills
  /\ reconcile \in SUBSET Nodes

OlympusInit ==
  /\ calls \in [Clients -> [pc : {"ready"}, id : SandboxIDs, node : {NoNode}]]
  /\ kills = 0
  /\ reconcile = {}

Serving == reconcile = {}

(* The call ends or goes on in state pc. *)
Goto(c, pc) == calls' = [calls EXCEPT ![c].pc = pc]

-----------------------------------------------------------------------------
(* Submit, up to the first write: the template, the policy or the judges   *)
(* turn the request down, or the write fails; no state changes.            *)
SubmitRejected(c) ==
  /\ Serving
  /\ calls[c].pc = "ready"
  /\ Goto(c, "failed")
  /\ UNCHANGED <<faults, queueVars, hadesVars, controlVars, runtimeVars, kills, reconcile>>

(* The request is admitted and the run written as PENDING, with no node. *)
SubmitPersist(c) ==
  /\ Serving
  /\ calls[c].pc = "ready"
  /\ UpdateRun(calls[c].id, "PENDING", NoNode, TRUE)
  /\ Goto(c, "pending")
  /\ UNCHANGED <<faults, queueVars, registered, controlVars, runtimeVars, kills, reconcile>>

(* Mutant: an empty node list is waited for instead of reported. *)
MutSubmitUnschedulable(c) ==
  /\ Serving
  /\ calls[c].pc = "pending"
  /\ ListNodes # {}
  /\ Failing(1)
  /\ UpdateRun(calls[c].id, "FAILED", NoNode, TRUE)
  /\ Goto(c, "failed")
  /\ UNCHANGED <<queueVars, registered, controlVars, runtimeVars, kills, reconcile>>

(* ListNodes fails, or ChooseNode finds no node or none that fits: the run *)
(* is marked FAILED, best effort.                                          *)
SubmitUnschedulable(c) ==
  /\ Serving
  /\ calls[c].pc = "pending"
  /\ \E ok \in BOOLEAN : /\ UpdateRun(calls[c].id, "FAILED", NoNode, ok)
                         /\ Failing(Cost(ListNodes = {}) + Cost(ok))
  /\ Goto(c, "failed")
  /\ UNCHANGED <<queueVars, registered, controlVars, runtimeVars, kills, reconcile>>

(* The scheduler picks a listed node, whose agent may be gone already. An  *)
(* error of the SCHEDULED write is logged and the call goes on.            *)
SubmitSchedule(c) ==
  /\ Serving
  /\ calls[c].pc = "pending"
  /\ \E n \in ListNodes, ok \in BOOLEAN :
       /\ calls' = [calls EXCEPT ![c].pc = "scheduled", ![c].node = n]
       /\ UpdateRun(calls[c].id, "SCHEDULED", n, ok)
       /\ Failing(Cost(ok))
  /\ UNCHANGED <<queueVars, registered, controlVars, runtimeVars, kills, reconcile>>

SubmitEnqueue(c) ==
  /\ Serving
  /\ calls[c].pc = "scheduled"
  /\ Enqueue(calls[c].node, calls[c].id)
  /\ Goto(c, "accepted")
  /\ UNCHANGED <<faults, hadesVars, controlVars, runtimeVars, kills, reconcile>>

SubmitEnqueueFails(c) ==
  /\ Serving
  /\ calls[c].pc = "scheduled"
  /\ \E ok \in BOOLEAN : /\ UpdateRun(calls[c].id, "FAILED", calls[c].node, ok)
                         /\ Failing(1 + Cost(ok))
  /\ Goto(c, "failed")
  /\ UNCHANGED <<queueVars, registered, controlVars, runtimeVars, kills, reconcile>>

-----------------------------------------------------------------------------
(* KillSandbox: an ID without a run is an error; otherwise the command     *)
(* goes to the node the run names and the call succeeds.                   *)
KillSandbox(s) ==
  /\ Serving
  /\ kills < MaxKills
  /\ GetRun(s).status # NotFound
  /\ \E ok \in BOOLEAN : PublishKill(GetRun(s).node, s, ok) /\ Failing(Cost(ok))
  /\ kills' = kills + 1
  /\ UNCHANGED <<queueVars, hadesVars, up, runtimeVars, calls, reconcile>>

(* The process ends: calls in progress get no answer.  On start Reconcile  *)
(* lists the nodes; if that fails the API serves without it.               *)
OlympusRestart ==
  /\ Serving
  /\ calls' = [c \in Clients |->
                 IF calls[c].pc \in {"pending", "scheduled"}
                 THEN [calls[c] EXCEPT !.pc = "aborted"] ELSE calls[c]]
  /\ \E ok \in BOOLEAN :
       /\ reconcile' = IF ok THEN ListNodes ELSE {}
       /\ Failing(1 + Cost(ok))
  /\ UNCHANGED <<queueVars, hadesVars, controlVars, runtimeVars, kills>>

(* Control.ListSandboxes: LIST_SANDBOXES carries the ID of the request     *)
(* where every other command carries a sandbox ID, so the listener hands   *)
(* the agent a message without arguments, which it refuses for want of a   *)
(* request ID.  Whether the agent is up or not the request times out after *)
(* 5 s, Reconcile goes on to the next node and writes nothing.             *)
ReconcileQuery(n) ==
  /\ n \in reconcile
  /\ reconcile' = reconcile \ {n}
  /\ UNCHANGED <<faults, queueVars, hadesVars, controlVars, runtimeVars, calls, kills>>
=============================================================================

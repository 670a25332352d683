------------------------------- MODULE Domain -------------------------------
(***************************************************************************)
(* The vocabulary the components share (pkg/domain/types.go) and the       *)
(* budget of faults.  Every call that can return an error in the code may  *)
(* fail in the model; each failure, crash or restart spends one unit of a  *)
(* finite budget, so that behaviours stay finite and the number of entries *)
(* a queue can ever hold is bounded.                                       *)
(***************************************************************************)
EXTENDS Naturals

CONSTANTS Nodes,       \* the worker nodes
          SandboxIDs,  \* the IDs that requests and runs carry
          NoNode,      \* the empty node ID of a record that carries none
          MaxEntries,  \* bound: entries a queue can hold
          MaxFaults    \* bound: failures in one behaviour

ASSUME DomainAssumption == /\ NoNode \notin Nodes
                           /\ MaxEntries \in Nat \ {0}
                           /\ MaxFaults \in Nat

VARIABLE faults        \* failures so far

(* A receipt names an entry of a node's queue, and with it the job, the    *)
(* overlay, the VM and the watcher that entry gives rise to.               *)
Receipts == 1..MaxEntries

RunStatus == {"PENDING", "SCHEDULED", "RUNNING", "SUCCEEDED", "FAILED", "CANCELED"}

Terminal == {"SUCCEEDED", "FAILED", "CANCELED"}

FaultsTypeOK == faults \in 0..MaxFaults

FaultsInit == faults = 0

(* The step makes k calls that fail. *)
Failing(k) ==
  /\ faults + k <= MaxFaults
  /\ faults' = faults + k

(* 1 for a call that failed, 0 for one that did not. *)
Cost(ok) == IF ok THEN 0 ELSE 1
=============================================================================

------------------------- MODULE FirecrackerRuntime -------------------------
(***************************************************************************)
(* The Firecracker runtime of a node (pkg/tartarus/firecracker_runtime.go) *)
(* and the processes it starts.  The runtime keeps an in-memory map from   *)
(* sandbox ID to the state of the VM launched last under that ID; a launch *)
(* is named by the receipt of the job that made it.  The exit code of a VM *)
(* is recorded only when a call of Wait returns.  Kill signals the VMM and *)
(* then deletes the map entry, in two steps that other goroutines can come *)
(* between; the process ends some time after the signal.  When StopVMM     *)
(* fails, Kill only logs that and deletes the entry all the same: the      *)
(* process is then unstopped, it runs on and the map does not have it.     *)
(***************************************************************************)
EXTENDS Domain

VARIABLES vms,       \* vms[n][s]: the launch the map holds for s, 0 if none
          proc,      \* proc[n][r]: the process of launch r
          exitCode   \* exitCode[n]: the launches whose exit code is recorded

runtimeVars == <<vms, proc, exitCode>>

ProcState == {"none", "running", "unstopped", "stopping", "ok", "error"}

RuntimeTypeOK ==
  /\ vms \in [Nodes -> [SandboxIDs -> Receipts \cup {0}]]
  /\ proc \in [Nodes -> [Receipts -> ProcState]]
  /\ exitCode \in [Nodes -> SUBSET Receipts]

RuntimeInit ==
  /\ vms = [n \in Nodes |-> [s \in SandboxIDs |-> 0]]
  /\ proc = [n \in Nodes |-> [r \in Receipts |-> "none"]]
  /\ exitCode = [n \in Nodes |-> {}]

Known(n, s) == vms[n][s] # 0

(* The guest of launch r is at work. *)
Runs(n, r) == proc[n][r] \in {"running", "unstopped"}

-----------------------------------------------------------------------------
(* Launch stores the new state under the sandbox ID, replacing any other.  *)
Launch(n, s, r) ==
  /\ proc' = [proc EXCEPT ![n][r] = "running"]
  /\ vms' = [vms EXCEPT ![n][s] = r]
  /\ UNCHANGED exitCode

(* The guest halts or its process dies.  A VMM that was signalled never    *)
(* exits with code 0.                                                      *)
VMExit(n, r) ==
  /\ \/ /\ Runs(n, r)
        /\ \E code \in {"ok", "error"} : proc' = [proc EXCEPT ![n][r] = code]
     \/ /\ proc[n][r] = "stopping"
        /\ proc' = [proc EXCEPT ![n][r] = "error"]
  /\ UNCHANGED <<vms, exitCode>>

(* Mutant: Wait forgets the exit code. *)
MutWaitReturns(n, r) ==
  /\ proc[n][r] \in {"ok", "error"}
  /\ UNCHANGED runtimeVars

(* Wait returns once the process it loaded has exited; it records the exit *)
(* code on the state it loaded, which the map may no longer hold.          *)
WaitReturns(n, r) ==
  /\ proc[n][r] \in {"ok", "error"}
  /\ exitCode' = [exitCode EXCEPT ![n] = @ \cup {r}]
  /\ UNCHANGED <<vms, proc>>

(* The status Inspect reports of a sandbox the map holds. *)
InspectStatus(n, s) ==
  LET r == vms[n][s]
  IN  IF r \notin exitCode[n] THEN "RUNNING"
      ELSE IF proc[n][r] = "ok" THEN "SUCCEEDED" ELSE "FAILED"

(* Mutant: a node ID the registry does not know, as MockRuntime reports. *)
MutRunNodeID(n) == "mock-node"

(* The node ID in the records that Launch and Inspect return: neither sets *)
(* the field.                                                              *)
RunNodeID(n) == NoNode

(* Kill, first half: load the map entry and signal its VMM, if that works. *)
StopVMM(n, s, ok) ==
  /\ Known(n, s)
  /\ proc' = [proc EXCEPT ![n][vms[n][s]] =
                 IF @ \in {"running", "unstopped"}
                 THEN IF ok THEN "stopping" ELSE "unstopped" ELSE @]
  /\ UNCHANGED <<vms, exitCode>>

(* Kill, second half: delete whatever the map now holds for s. *)
DeleteVM(n, s) ==
  /\ vms' = [vms EXCEPT ![n][s] = 0]
  /\ UNCHANGED <<proc, exitCode>>
=============================================================================

------------------------------- MODULE Erinyes -------------------------------
(***************************************************************************)
(* Erinyes, the watchdog (pkg/erinyes/poll_fury.go).  Arm starts one       *)
(* watcher goroutine per launch and stores its cancel function under the   *)
(* sandbox ID; Disarm and stopWatching look the cancel function up by that *)
(* ID again.  A watcher is named by the receipt of the job that armed it.  *)
(***************************************************************************)
EXTENDS Domain

VARIABLES active,    \* active[n][s]: the watcher whose cancel function is stored
          watching   \* watching[n]: the watchers that have not been cancelled

furyVars == <<active, watching>>

FuryTypeOK ==
  /\ active \in [Nodes -> [SandboxIDs -> Receipts \cup {0}]]
  /\ watching \in [Nodes -> SUBSET Receipts]

FuryInit ==
  /\ active = [n \in Nodes |-> [s \in SandboxIDs |-> 0]]
  /\ watching = [n \in Nodes |-> {}]

(* A watcher that was armed before for the same ID keeps running, with its *)
(* cancel function forgotten.                                              *)
Arm(n, s, r) ==
  /\ active' = [active EXCEPT ![n][s] = r]
  /\ watching' = [watching EXCEPT ![n] = @ \cup {r}]

(* Mutant: the cancel function is dropped and not called. *)
MutDisarm(n, s) ==
  /\ active' = [active EXCEPT ![n][s] = 0]
  /\ UNCHANGED watching

(* Disarm and stopWatching: cancel the watcher stored under s, if any. *)
Disarm(n, s) ==
  /\ active' = [active EXCEPT ![n][s] = 0]
  /\ watching' = [watching EXCEPT ![n] = @ \ {active[n][s]}]
=============================================================================

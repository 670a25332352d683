---------------------------- MODULE VMLifecycle ----------------------------
(***************************************************************************)
(* The VMs of one node as the operations that suspend or end a sandbox see *)
(* them (pkg/tartarus/firecracker_runtime.go: Pause, Resume,               *)
(* CreateSnapshot, Shutdown, Wait, Kill).  The runtime maps a sandbox to   *)
(* its latest launch.  A failed call to the VMM changes nothing, and Kill  *)
(* deletes the map entry even when its StopVMM failed.  Shutdown only asks *)
(* the guest to halt, which a running guest may do at any time anyway.     *)
(***************************************************************************)
EXTENDS Naturals

CONSTANTS Sandboxes,     \* the sandboxes of the node
          MaxLaunches    \* bound: launches, the first one of each sandbox included

ASSUME VMAssumption == MaxLaunches \in Nat

VARIABLES vm,        \* vm[s]: the launch the map holds for s, 0 if none
          proc,      \* proc[l]: the process of launch l
          code,      \* code[l]: the exit code recorded for launch l
          launched,  \* launches so far
          strays     \* history: the launches that left the map while they ran

vmVars == <<vm, proc, code, launched, strays>>

Launches == 1..MaxLaunches

Alive == {"running", "paused", "stopping"}

Exits == {"ok", "error"}

VMTypeOK ==
  /\ vm \in [Sandboxes -> 0..MaxLaunches]
  /\ proc \in [Launches -> {"none"} \cup Alive \cup Exits]
  /\ code \in [Launches -> {"none"} \cup Exits]
  /\ launched \in 0..MaxLaunches
  /\ strays \subseteq Launches

Holds(s) == vm[s] # 0

(* The process of launch l was neither ended nor told to end. *)
Running(l) == l # 0 /\ proc[l] \in {"running", "paused"}

(* The map is about to lose the launch it holds for s. *)
Leaves(s) == strays' = IF Running(vm[s]) THEN strays \cup {vm[s]} ELSE strays

(* A fresh launch replaces the map entry of s. *)
StartVM(s) ==
  /\ launched < MaxLaunches
  /\ launched' = launched + 1
  /\ vm' = [vm EXCEPT ![s] = launched + 1]
  /\ proc' = [proc EXCEPT ![launched + 1] = "running"]
  /\ Leaves(s)
  /\ UNCHANGED code

(* The guest of a running VM halts or fails; a signalled VMM fails. *)
GuestExit(l) ==
  /\ \/ proc[l] = "running" /\ \E c \in Exits : proc' = [proc EXCEPT ![l] = c]
     \/ proc[l] = "stopping" /\ proc' = [proc EXCEPT ![l] = "error"]
  /\ UNCHANGED <<vm, code, launched, strays>>

PauseVM(s) ==
  /\ Running(vm[s])
  /\ proc' = [proc EXCEPT ![vm[s]] = "paused"]
  /\ UNCHANGED <<vm, code, launched, strays>>

ResumeVM(s) ==
  /\ Running(vm[s])
  /\ proc' = [proc EXCEPT ![vm[s]] = "running"]
  /\ UNCHANGED <<vm, code, launched, strays>>

(* The VMM takes a snapshot of a paused VM only. *)
Snapshotable(s) == Holds(s) /\ proc[vm[s]] = "paused"

(* The VMM answers the request to halt. *)
ShutdownAccepted(s) == Holds(s) /\ proc[vm[s]] \in Alive

(* Wait records the exit code; when its context ends before the process    *)
(* does it records the code -1.                                            *)
RecordExit(l) ==
  /\ code' = [code EXCEPT ![l] = IF proc[l] = "ok" THEN "ok" ELSE "error"]
  /\ UNCHANGED <<vm, proc, launched, strays>>

(* Kill, first half: signal the VMM of the launch the map holds, which may *)
(* fail.                                                                   *)
Signal(s) ==
  /\ \/ proc' = [proc EXCEPT ![vm[s]] = IF @ \in Alive THEN "stopping" ELSE @]
     \/ UNCHANGED proc
  /\ UNCHANGED <<vm, code, launched, strays>>

(* Kill, second half: delete the map entry, whatever it now holds. *)
Forget(s) ==
  /\ vm' = [vm EXCEPT ![s] = 0]
  /\ Leaves(s)
  /\ UNCHANGED <<proc, code, launched>>
=============================================================================

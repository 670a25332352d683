--------------------------- MODULE ContainerEngine ---------------------------
(***************************************************************************)
(* The part that the container runtimes share (pkg/kampe,                  *)
(* pkg/tartarus/gvisor_runtime.go, wasm_runtime.go, mock_runtime.go): the  *)
(* engine that runs the containers, which is external, the map from        *)
(* sandbox to container that every adapter keeps in its memory, the exit   *)
(* code recorded in that map and the calls under way.                      *)
(***************************************************************************)
EXTENDS Naturals, FiniteSets

CONSTANTS Sandboxes, Callers, MaxLaunches

Launches == 1..MaxLaunches

Kinds == {"microvm", "docker", "containerd", "gvisor", "runsc", "wasm", "mock"}

(* The exit codes told apart: success, an error of the workload, the end   *)
(* by a signal and the "unknown" code, -1 or 255, of one who does not know *)
(* how it ended.                                                           *)
Exits == {"ok", "error", "killed"}

VARIABLES
  cont,   \* the containers of the engine, in the order they were created
  entry,  \* the map of each runtime: the container of each sandbox, or 0
  code,   \* the exit code recorded for each container
  call    \* what each caller of a runtime is doing

engineVars == <<cont, entry, code, call>>

NoCont == [kind |-> "mock", s |-> "none", status |-> "none", exit |-> "none"]

Alive(l) == cont[l].status \in {"running", "paused"}

-----------------------------------------------------------------------------
(* The engine.  A container has a name, derived from its sandbox, until it *)
(* is removed.                                                             *)

Named(k, s) == {l \in Launches : cont[l].kind = k /\ cont[l].s = s
                                 /\ cont[l].status \notin {"none", "removed"}}

Fresh(l) == cont[l].status = "none" /\ \A m \in Launches : m < l => cont[m].status # "none"

Create(l, k, s, status) ==
  /\ Fresh(l)
  /\ cont' = [cont EXCEPT ![l] = [kind |-> k, s |-> s, status |-> status, exit |-> "none"]]

SetStatus(l, from, to) ==
  /\ cont[l].status \in from
  /\ cont' = [cont EXCEPT ![l].status = to]

(* The process of the container ends with an exit code. *)
Ends(l, e) ==
  IF Alive(l) THEN cont' = [cont EXCEPT ![l].status = "exited", ![l].exit = e]
              ELSE UNCHANGED cont

(* A forced removal; a container that is alive is killed first. *)
Removed(l) ==
  cont' = [cont EXCEPT ![l].status = "removed",
                       ![l].exit = IF Alive(l) THEN "killed" ELSE @]

-----------------------------------------------------------------------------
(* Calls of the runtime interface.                                         *)

NoCall == [op |-> "none", pc |-> "idle", kind |-> "mock", s |-> "none", l |-> 0, ok |-> TRUE,
           seen |-> "none"]

Idle(w) == call[w].pc = "idle"

(* Every operation but Launch begins by loading the entry of the sandbox. *)
Begin(w, k, s, op) ==
  call' = [call EXCEPT ![w] = [NoCall EXCEPT !.op = op, !.kind = k, !.s = s,
                                             !.pc = IF op = "launch" THEN "prepare" ELSE "load"]]

At(w, k, op, pc) == call[w].kind = k /\ call[w].op = op /\ call[w].pc = pc

Goto(w, pc) == call' = [call EXCEPT ![w].pc = pc]

Return(w, ok) == call' = [call EXCEPT ![w].pc = "done", ![w].ok = ok]

Report(w, seen) == call' = [call EXCEPT ![w].pc = "done", ![w].ok = TRUE, ![w].seen = seen]

Loaded(w) == entry[call[w].kind][call[w].s]

(* The entry is found and the operation goes on at pc, or is not.  A map   *)
(* entry is a pointer: what happens to the map later does not change it.   *)
Load(w, k, op, missing) ==
  /\ At(w, k, op, "load")
  /\ IF Loaded(w) = 0 THEN Return(w, missing)
     ELSE call' = [call EXCEPT ![w].pc = "act", ![w].l = Loaded(w)]
  /\ UNCHANGED <<cont, entry, code>>

StoreEntry(w, l) == entry' = [entry EXCEPT ![call[w].kind][call[w].s] = l]

DeleteEntry(w) == entry' = [entry EXCEPT ![call[w].kind][call[w].s] = 0]

(* A call of the engine that either acts or fails; one whose answer is     *)
(* lost after it acted is not considered.                                  *)
EngineCall(w, k, op, effect) ==
  /\ At(w, k, op, "act")
  /\ \/ effect /\ Return(w, TRUE)
     \/ UNCHANGED cont /\ Return(w, FALSE)
  /\ UNCHANGED <<entry, code>>

(* The sandboxes whose resources Allocation adds up: no exit code yet. *)
Allocated(k) == {s \in Sandboxes : entry[k][s] # 0 /\ code[entry[k][s]] = "none"}
=============================================================================

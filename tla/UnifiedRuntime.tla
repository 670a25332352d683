--------------------------- MODULE UnifiedRuntime ---------------------------
(***************************************************************************)
(* The unified runtime (pkg/tartarus/unified_runtime.go) in front of       *)
(* Firecracker, WebAssembly and gVisor: it chooses a runtime for a launch  *)
(* and looks for the one that has a sandbox for everything else.  The      *)
(* Firecracker runtime is here as far as these calls see it.               *)
(***************************************************************************)
EXTENDS ContainerEngine

CONSTANTS Requests

VARIABLES request   \* the request of each sandbox

Backends == {"microvm", "wasm", "gvisor"}

-----------------------------------------------------------------------------
(* Firecracker.                                                            *)

MicroVMLaunch(w) ==
  /\ At(w, "microvm", "launch", "prepare")
  /\ \/ \E l \in Launches : /\ Create(l, "microvm", call[w].s, "running")
                            /\ StoreEntry(w, l)
                            /\ call' = [call EXCEPT ![w].pc = "done", ![w].l = l]
     \/ UNCHANGED <<cont, entry>> /\ Return(w, FALSE)
  /\ UNCHANGED code

(* Only Wait records an exit code: a VM that ended runs for Inspect. *)
MicroVMInspect(w) ==
  /\ At(w, "microvm", "inspect", "act")
  /\ Report(w, IF code[call[w].l] = "none" THEN "running" ELSE code[call[w].l])
  /\ UNCHANGED <<cont, entry, code>>

(* StopVMM may fail; Kill goes on all the same. *)
MicroVMKillSignal(w) ==
  /\ At(w, "microvm", "kill", "act")
  /\ Ends(call[w].l, "killed") \/ UNCHANGED cont
  /\ Goto(w, "delete")
  /\ UNCHANGED <<entry, code>>

MicroVMKillDelete(w) ==
  /\ At(w, "microvm", "kill", "delete")
  /\ DeleteEntry(w)
  /\ Return(w, TRUE)
  /\ UNCHANGED <<cont, code>>

(* A wait that is given up records the code -1. *)
MicroVMWait(w) ==
  /\ At(w, "microvm", "wait", "act")
  /\ code' = [code EXCEPT ![call[w].l] = IF Alive(call[w].l) THEN "unknown" ELSE cont[call[w].l].exit]
  /\ Return(w, cont[call[w].l].exit = "ok")
  /\ UNCHANGED <<cont, entry>>

MicroVMShutdown(w) == EngineCall(w, "microvm", "shutdown", Alive(call[w].l) /\ UNCHANGED cont)

MicroVMPause(w) ==
  EngineCall(w, "microvm", "pause", SetStatus(call[w].l, {"running"}, "paused"))

MicroVMResume(w) ==
  EngineCall(w, "microvm", "resume", SetStatus(call[w].l, {"paused"}, "running"))

MicroVMSnapshot(w) == EngineCall(w, "microvm", "snapshot", Alive(call[w].l) /\ UNCHANGED cont)

MicroVMLogs(w) == EngineCall(w, "microvm", "logs", UNCHANGED cont)

(* There is no agent in the guest to run a command. *)
MicroVMExec(w) ==
  /\ At(w, "microvm", "exec", "load")
  /\ Return(w, FALSE)
  /\ UNCHANGED <<cont, entry, code>>

MicroVM(w) ==
  \/ MicroVMLaunch(w) \/ MicroVMInspect(w) \/ MicroVMKillSignal(w) \/ MicroVMKillDelete(w)
  \/ MicroVMWait(w) \/ MicroVMShutdown(w) \/ MicroVMPause(w) \/ MicroVMResume(w)
  \/ MicroVMSnapshot(w) \/ MicroVMLogs(w) \/ MicroVMExec(w)
  \/ Load(w, "microvm", "kill", TRUE)
  \/ \E op \in {"inspect", "wait", "shutdown", "pause", "resume", "snapshot", "logs"} :
       Load(w, "microvm", op, FALSE)

-----------------------------------------------------------------------------
(* The choice.  CPU is in thousandths, memory in megabytes, the time to    *)
(* live in seconds; "none" stands for a metadata key that is not there.    *)

IsLightweight(req) ==
  /\ req.cpu <= 500 /\ req.mem <= 256 /\ req.gpu = 0
  /\ \/ req.ttl > 0 /\ req.ttl < 300
     \/ req.cpu <= 250 /\ req.mem <= 128

RequiresPrivileged(req) == req.gpu > 0 \/ req.cpu > 2000 \/ req.mem > 4096 \/ req.devices

SelectRuntime(req) ==
  CASE req.preferred \in Backends -> req.preferred
    [] req.preferred \notin Backends /\ IsLightweight(req) -> "wasm"
    [] req.preferred \notin Backends /\ ~IsLightweight(req) /\ RequiresPrivileged(req) -> "microvm"
    [] OTHER -> "microvm"

(* The runtimes that are there, of a set-up. *)
GetRuntimeByType(available, type) ==
  CASE type \in Backends -> IF type \in available THEN type ELSE "none"
    [] type = "auto" -> IF "microvm" \in available THEN "microvm" ELSE "none"
    [] OTHER -> "none"

Selected(available, auto, default, req) ==
  GetRuntimeByType(available, IF req.isolation # "none" THEN req.isolation
                              ELSE IF ~auto THEN default ELSE SelectRuntime(req))

UnifiedLaunch(w, available, auto, default) ==
  /\ call[w].pc = "select"
  /\ LET k == Selected(available, auto, default, request[call[w].s]) IN
       IF k = "none" THEN Return(w, FALSE)
       ELSE call' = [call EXCEPT ![w].kind = k, ![w].pc = "prepare"]
  /\ UNCHANGED <<cont, entry, code>>

(* The runtimes are asked in this order. *)
RouteFrom(k) == IF k = "microvm" THEN "wasm" ELSE IF k = "wasm" THEN "gvisor" ELSE "none"

(* delegateToRuntime: the first runtime that can inspect the sandbox is    *)
(* the one the operation goes to.                                          *)
UnifiedRoute(w, available) ==
  /\ call[w].pc = "route"
  /\ IF call[w].kind \in available /\ Loaded(w) # 0 THEN Goto(w, "load")
     ELSE IF RouteFrom(call[w].kind) = "none" THEN Return(w, FALSE)
     ELSE call' = [call EXCEPT ![w].kind = RouteFrom(call[w].kind)]
  /\ UNCHANGED <<cont, entry, code>>

(* The sandboxes of every runtime: List, and what Allocation adds up. *)
UnifiedList(available) ==
  UNION {{<<k, s>> : s \in {s \in Sandboxes : entry[k][s] # 0}} : k \in available}

UnifiedAllocated(available) == UNION {{<<k, s>> : s \in Allocated(k)} : k \in available}
=============================================================================

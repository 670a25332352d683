---------------------------- MODULE GVisorRuntime ----------------------------
(***************************************************************************)
(* The two runtimes that drive the runsc command: the gVisor runtime of    *)
(* the agent (pkg/tartarus/gvisor_runtime.go), kind "gvisor", and the      *)
(* gVisor adapter of Kampe (pkg/kampe/gvisor_runtime.go), kind "runsc",    *)
(* whose code repeats it but for Shutdown.  The operators of the first     *)
(* part take the kind k; the second part is the adapter.                   *)
(***************************************************************************)
EXTENDS ContainerEngine

VARIABLES
  waiting,  \* the goroutines of Launch that wait for the process
  reaped    \* the containers whose status went to a Shutdown

(* What runsc finds under the name of the sandbox: a command that ends     *)
(* takes its sandbox with it.                                              *)
Target(w) == Named(call[w].kind, call[w].s) \cap {l \in Launches : Alive(l)}

-----------------------------------------------------------------------------
(* The bundle, its configuration and the console file. *)
GVisorPrepare(w, k) ==
  /\ At(w, k, "launch", "prepare")
  /\ Goto(w, "start") \/ Return(w, FALSE)
  /\ UNCHANGED <<cont, entry, code, waiting, reaped>>

(* The command starts, or not; under a name that is taken it starts and    *)
(* ends with an error.                                                     *)
GVisorStart(w, k) ==
  /\ At(w, k, "launch", "start")
  /\ \/ \E l \in Launches :
          /\ Target(w) = {}
          /\ Create(l, k, call[w].s, "running")
          /\ call' = [call EXCEPT ![w].pc = "store", ![w].l = l]
     \/ \E l \in Launches :
          /\ Fresh(l)
          /\ Target(w) # {}
          /\ cont' = [cont EXCEPT ![l] = [kind |-> k, s |-> call[w].s, status |-> "removed",
                                          exit |-> "error"]]
          /\ call' = [call EXCEPT ![w].pc = "store", ![w].l = l]
     \/ UNCHANGED cont /\ Return(w, FALSE)
  /\ UNCHANGED <<entry, code, waiting, reaped>>

GVisorStore(w, k) ==
  /\ At(w, k, "launch", "store")
  /\ StoreEntry(w, call[w].l)
  /\ waiting' = waiting \cup {call[w].l}
  /\ Return(w, TRUE)
  /\ UNCHANGED <<cont, code, reaped>>

(* Mutant: the code of the command is not looked up. *)
MutGVisorExited(l) ==
  /\ l \in waiting
  /\ cont[l].exit # "none"
  /\ code' = [code EXCEPT ![l] = IF l \in reaped THEN "unknown" ELSE "ok"]
  /\ waiting' = waiting \ {l}
  /\ UNCHANGED <<cont, entry, call, reaped>>

(* The goroutine of Launch records the code, or -1 when another wait was   *)
(* served.                                                                 *)
GVisorExited(l) ==
  /\ l \in waiting
  /\ cont[l].exit # "none"
  /\ code' = [code EXCEPT ![l] = IF l \in reaped THEN "unknown" ELSE cont[l].exit]
  /\ waiting' = waiting \ {l}
  /\ UNCHANGED <<cont, entry, call, reaped>>

GVisorInspect(w, k) ==
  /\ At(w, k, "inspect", "act")
  /\ Report(w, IF code[call[w].l] = "none" THEN "running" ELSE code[call[w].l])
  /\ UNCHANGED <<cont, entry, code, waiting, reaped>>

(* runsc kill, by name, or else the end of the process that the entry has. *)
GVisorKillSignal(w, k) ==
  /\ At(w, k, "kill", "act")
  /\ \/ \E l \in Target(w) : Ends(l, "killed")
     \/ Ends(call[w].l, "killed")
  /\ Goto(w, "remove")
  /\ UNCHANGED <<entry, code, waiting, reaped>>

(* runsc delete --force, whatever becomes of it, and the bundle. *)
GVisorKillRemove(w, k) ==
  /\ At(w, k, "kill", "remove")
  /\ \/ \E l \in Target(w) : Removed(l)
     \/ UNCHANGED cont
  /\ Goto(w, "delete")
  /\ UNCHANGED <<entry, code, waiting, reaped>>

GVisorKillDelete(w, k) ==
  /\ At(w, k, "kill", "delete")
  /\ DeleteEntry(w)
  /\ Return(w, TRUE)
  /\ UNCHANGED <<cont, code, waiting, reaped>>

(* SIGTERM. *)
GVisorShutdown(w, k) ==
  /\ At(w, k, "shutdown", "act")
  /\ \/ Target(w) # {} /\ Goto(w, "ending")
     \/ Return(w, FALSE)
  /\ UNCHANGED <<cont, entry, code, waiting, reaped>>

(* The recorded code ends the poll. *)
GVisorPolled(w) ==
  /\ At(w, "gvisor", "shutdown", "ending")
  /\ \/ code[call[w].l] # "none" /\ Return(w, TRUE)
     \/ Return(w, FALSE)
  /\ UNCHANGED <<cont, entry, code, waiting, reaped>>

(* After 30 seconds Shutdown becomes Kill. *)
GVisorForced(w, k) ==
  /\ At(w, k, "shutdown", "ending")
  /\ call' = [call EXCEPT ![w].op = "kill", ![w].pc = "load"]
  /\ UNCHANGED <<cont, entry, code, waiting, reaped>>

(* The recorded code is polled. *)
GVisorWait(w, k) ==
  /\ At(w, k, "wait", "act")
  /\ \/ code[call[w].l] # "none" /\ Return(w, TRUE)
     \/ Return(w, FALSE)
  /\ UNCHANGED <<cont, entry, code, waiting, reaped>>

(* Pause, resume and a checkpoint, which ends the sandbox. *)
GVisorPause(w, k) ==
  EngineCall(w, k, "pause", \E l \in Target(w) : SetStatus(l, {"running"}, "paused"))

GVisorResume(w, k) ==
  EngineCall(w, k, "resume", \E l \in Target(w) : SetStatus(l, {"paused"}, "running"))

GVisorSnapshot(w, k) == EngineCall(w, k, "snapshot", \E l \in Target(w) : Ends(l, "killed"))

(* runsc exec, for Exec and for ExecInteractive. *)
GVisorExec(w, k) ==
  EngineCall(w, k, "exec", (\E l \in Target(w) : cont[l].status = "running") /\ UNCHANGED cont)

(* The console file is in the bundle. *)
GVisorLogs(w, k) == EngineCall(w, k, "logs", UNCHANGED cont)

GVisorCalls(w, k) ==
  \/ GVisorPause(w, k) \/ GVisorResume(w, k) \/ GVisorSnapshot(w, k) \/ GVisorExec(w, k)
  \/ GVisorLogs(w, k)
  \/ Load(w, k, "kill", TRUE)
  \/ \E op \in {"inspect", "shutdown", "wait", "pause", "resume", "snapshot", "exec", "logs"} :
       Load(w, k, op, FALSE)

GVisorSteps(w, k) ==
  \/ GVisorPrepare(w, k) \/ GVisorStart(w, k) \/ GVisorStore(w, k) \/ GVisorInspect(w, k)
  \/ GVisorKillSignal(w, k) \/ GVisorKillRemove(w, k) \/ GVisorKillDelete(w, k)
  \/ GVisorShutdown(w, k) \/ GVisorForced(w, k) \/ GVisorWait(w, k)
  \/ GVisorCalls(w, k) /\ UNCHANGED <<waiting, reaped>>

GVisor(w) == GVisorSteps(w, "gvisor") \/ GVisorPolled(w)

-----------------------------------------------------------------------------
(* The adapter of Kampe.  Its Shutdown waits for the process a second      *)
(* time: only one of two waits gets its status.                            *)
RunscPrepare(w) == GVisorPrepare(w, "runsc")

RunscStart(w) == GVisorStart(w, "runsc")

RunscStore(w) == GVisorStore(w, "runsc")

(* The goroutine of Launch: the same text, the same record. *)
RunscExited(l) == cont[l].kind = "runsc" /\ GVisorExited(l)

RunscInspect(w) == GVisorInspect(w, "runsc")

RunscKillSignal(w) == GVisorKillSignal(w, "runsc")

RunscKillRemove(w) == GVisorKillRemove(w, "runsc")

RunscKillDelete(w) == GVisorKillDelete(w, "runsc")

RunscShutdown(w) == GVisorShutdown(w, "runsc")

(* A second wait for the process, which may be served first. *)
RunscWaited(w) ==
  /\ At(w, "runsc", "shutdown", "ending")
  /\ \/ /\ cont[call[w].l].exit # "none"
        /\ reaped' = reaped \cup ({call[w].l} \cap waiting) \/ UNCHANGED reaped
        /\ Return(w, TRUE)
     \/ Return(w, FALSE) /\ UNCHANGED reaped
  /\ UNCHANGED <<cont, entry, code, waiting>>

RunscForced(w) == GVisorForced(w, "runsc")

RunscWait(w) == GVisorWait(w, "runsc")

RunscPause(w) == GVisorPause(w, "runsc")

RunscResume(w) == GVisorResume(w, "runsc")

RunscSnapshot(w) == GVisorSnapshot(w, "runsc")

RunscExec(w) == GVisorExec(w, "runsc")

RunscLogs(w) == GVisorLogs(w, "runsc")

RunscLoad(w) ==
  \/ Load(w, "runsc", "kill", TRUE)
  \/ \E op \in {"inspect", "shutdown", "wait", "pause", "resume", "snapshot", "exec", "logs"} :
       Load(w, "runsc", op, FALSE)

Runsc(w) ==
  \/ RunscPrepare(w) \/ RunscStart(w) \/ RunscStore(w) \/ RunscInspect(w)
  \/ RunscKillSignal(w) \/ RunscKillRemove(w) \/ RunscKillDelete(w)
  \/ RunscShutdown(w) \/ RunscWaited(w) \/ RunscForced(w) \/ RunscWait(w)
  \/ /\ \/ RunscPause(w) \/ RunscResume(w) \/ RunscSnapshot(w) \/ RunscExec(w)
        \/ RunscLogs(w) \/ RunscLoad(w)
     /\ UNCHANGED <<waiting, reaped>>

(* Migration: every plan is of low risk, whether there is a sandbox or not. *)
RunscRisk == "low"

(* What an export can say: the sandbox is in the map, or the bundle of one *)
(* that is being launched is read.                                         *)
RunscExports(s) ==
  IF entry["runsc"][s] # 0 THEN {TRUE}
  ELSE {FALSE} \cup {TRUE : w \in {w \in Callers : /\ call[w].kind = "runsc" /\ call[w].s = s
                                                   /\ call[w].pc \in {"start", "store"}}}
=============================================================================

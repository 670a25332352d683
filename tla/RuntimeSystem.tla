---------------------------- MODULE RuntimeSystem ----------------------------
(***************************************************************************)
(* The sandbox runtimes behind one interface, under concurrent calls.  The *)
(* setting says how they are used: directly by an agent, through the       *)
(* unified runtime, by a migration or by the parity harness.               *)
(***************************************************************************)
EXTENDS Kampe, LocalRuntimes

CONSTANTS Settings

(* What the calls of a runtime can be. *)
Operations == {"launch", "kill", "shutdown", "wait", "inspect", "pause", "resume", "snapshot",
               "exec", "logs"}

ASSUME SettingsAssumption ==
  /\ MaxLaunches \in Nat /\ Driver \in Callers
  /\ Source \in Sandboxes /\ TargetVM \in Sandboxes \ {Source} /\ "none" \notin Sandboxes
  /\ \A x \in Settings :
       /\ x.kind \in Kinds /\ x.sandboxes \subseteq Sandboxes /\ x.available \subseteq Backends
       /\ \A w \in Callers : x.ops[w] \subseteq Operations
       /\ x.use = "migrate" => x.kind \in {"docker", "containerd", "runsc"}

VARIABLES
  setting,  \* the use that is explored; it never changes
  calls     \* the calls made so far by callers other than the driver

specificVars == <<channel, reader, waiting, reaped, modules, wasi, waiter, halting>>

vars == <<engineVars, specificVars, request, driver, setting, calls>>

Init ==
  /\ setting \in Settings
  /\ cont = [l \in Launches |-> NoCont]
  /\ entry = [k \in Kinds |-> [s \in Sandboxes |-> 0]]
  /\ code = [l \in Launches |-> "none"]
  /\ call = [w \in Callers |-> NoCall]
  /\ channel = [l \in Launches |-> "open"] /\ reader = {}
  /\ waiting = {} /\ reaped = {} /\ modules = {} /\ wasi = FALSE
  /\ waiter = [s \in Sandboxes |-> 0] /\ halting = {}
  /\ \E r \in IF setting.use = "unified" THEN Requests ELSE {CHOOSE r \in Requests : TRUE} :
       request = [s \in Sandboxes |-> r]
  /\ driver = NewDriver(IF setting.use = "parity" THEN "launch" ELSE "idle", setting.kind, 0)
  /\ calls = 0

-----------------------------------------------------------------------------
(* A caller makes a call: of one runtime, or of the unified runtime, which *)
(* first finds the runtime.  The VM of a migration is there to be killed,  *)
(* as soon as it is launched; no one else launches under its ID.           *)
Invoke(w) ==
  /\ Idle(w) /\ calls < setting.calls
  /\ (w = Driver) => setting.use \in {"direct", "unified"}
  /\ \E s \in setting.sandboxes, op \in setting.ops[w] :
       /\ s = TargetVM => op # "launch" /\ entry["microvm"][s] # 0
       /\ IF setting.use = "unified"
          THEN call' = [call EXCEPT ![w] = [NoCall EXCEPT !.op = op, !.kind = "microvm", !.s = s,
                                           !.pc = IF op = "launch" THEN "select" ELSE "route"]]
          ELSE Begin(w, IF s = TargetVM THEN "microvm" ELSE setting.kind, s, op)
  /\ calls' = calls + 1
  /\ UNCHANGED <<cont, entry, code, specificVars, driver>>

Answered(w) ==
  /\ call[w].pc = "done"
  /\ ~(w = Driver /\ driver.calling)
  /\ call' = [call EXCEPT ![w] = NoCall]
  /\ UNCHANGED <<cont, entry, code, specificVars, driver, calls>>

Step(w) ==
  /\ \/ (Docker(w) \/ MicroVM(w)) /\ UNCHANGED specificVars
     \/ Containerd(w) /\ UNCHANGED <<waiting, reaped, modules, wasi, waiter, halting>>
     \/ (GVisor(w) \/ Runsc(w)) /\ UNCHANGED <<channel, reader, modules, wasi, waiter, halting>>
     \/ Wasm(w) /\ UNCHANGED <<channel, reader, waiting, reaped, waiter, halting>>
     \/ Mock(w) /\ UNCHANGED <<channel, reader, waiting, reaped, modules, wasi>>
     \/ /\ \/ UnifiedLaunch(w, setting.available, setting.auto, "microvm")
           \/ UnifiedRoute(w, setting.available)
        /\ UNCHANGED specificVars
  /\ UNCHANGED <<driver, calls>>

(* A workload ends by itself; the mock has none. *)
WorkloadEnds ==
  /\ \E l \in Launches, e \in {"ok", "error"} :
       /\ cont[l].status = "running" /\ cont[l].kind # "mock"
       /\ Ends(l, e)
  /\ UNCHANGED <<entry, code, call, specificVars, driver, calls>>

Background ==
  /\ \/ \E l \in Launches : \/ ContainerdReads(l) /\ UNCHANGED <<waiting, reaped, modules, wasi, waiter, halting>>
                            \/ (RunscExited(l) \/ (cont[l].kind = "gvisor" /\ GVisorExited(l)))
                                 /\ UNCHANGED <<channel, reader, modules, wasi, waiter, halting>>
                            \/ WasmRun(l) /\ UNCHANGED <<channel, reader, waiting, reaped, waiter, halting>>
     \/ \E s \in Sandboxes : (MockHalts(s) \/ MockHaltCancelled(s)) /\ UNCHANGED <<channel, reader, waiting, reaped, modules, wasi>>
  /\ UNCHANGED <<driver, calls>>

(* A migration begins once its source runs. *)
MigrationBegins ==
  /\ setting.use = "migrate" /\ driver.pc = "idle"
  /\ entry[setting.kind][Source] # 0
  /\ driver' = NewDriver("assess", setting.kind, entry[setting.kind][Source])
  /\ UNCHANGED <<engineVars, specificVars, calls>>

Drive ==
  \/ MigrationBegins
  \/ /\ \/ setting.use = "migrate" /\ Migrate(setting.form, setting.config)
        \/ setting.use = "parity" /\ Harness
     /\ UNCHANGED <<specificVars, calls>>

Next ==
  /\ \/ \E w \in Callers : Invoke(w) \/ Answered(w) \/ Step(w)
     \/ WorkloadEnds \/ Background \/ Drive
  /\ UNCHANGED <<request, setting>>

Spec == Init /\ [][Next]_vars

-----------------------------------------------------------------------------
(* Properties.                                                             *)

(* The code that Inspect reports is the code the workload ended with, or   *)
(* none yet, whatever is going on beside it, on Docker, on gVisor, on      *)
(* WebAssembly, on the mock and, until Kampe's Shutdown takes the status   *)
(* of the command, on runsc.  (Nothing is said of containerd, whose status *)
(* may be an error or be read twice, nor of Firecracker, whose Wait        *)
(* records a code when it is given up.)                                    *)
InspectTellsTruth ==
  \A w \in Callers :
    /\ call[w].op = "inspect" /\ call[w].pc = "done" /\ call[w].ok
    /\ \/ call[w].kind \in {"docker", "gvisor", "wasm", "mock"}
       \/ call[w].kind = "runsc" /\ call[w].l \notin reaped
    => call[w].seen \in {"running", cont[call[w].l].exit}

(* Allocation never leaves out a container that runs and is in the map: on *)
(* these runtimes an exit code is recorded only for a workload that ended. *)
(* (Firecracker records one when a Wait is given up, containerd when the   *)
(* status is an error or is read twice.)                                   *)
RunningIsCounted ==
  \A k \in Kinds \ {"microvm", "containerd"}, s \in Sandboxes :
    (entry[k][s] # 0 /\ Alive(entry[k][s])) =>
       /\ s \in Allocated(k)
       /\ (setting.use = "unified" /\ k \in setting.available) =>
            <<k, s>> \in UnifiedAllocated(setting.available) \cap UnifiedList(setting.available)

(* A live container of Docker or containerd loses its entry in the map,    *)
(* and with it Kill, List and Allocation, in one way only: the last step   *)
(* of a Kill that was for an earlier container of the same sandbox.        *)
LiveStaysTracked ==
  [][\A k \in {"docker", "containerd"}, s \in Sandboxes :
       LET l == entry[k][s] IN
         (l # 0 /\ entry'[k][s] # l /\ Alive(l)) =>
            \E w \in Callers : At(w, k, "kill", "delete") /\ call[w].s = s /\ call[w].l # l]_vars

(* No caller but the driver of a migration makes calls of op. *)
Undisturbed(op) == \A w \in Callers \ {Driver} : op \notin setting.ops[w]

(* A migration never lets the container and the VM made from it run at the *)
(* same time, whoever else stops, kills, pauses or launches one meanwhile, *)
(* if no one else resumes one.  A VM counts while it is in the map: Kill   *)
(* forgets one whose StopVMM failed.                                       *)
OneCopyRuns ==
  driver.l # 0 /\ Undisturbed("resume") =>
    \A m \in Launches :
      ~(/\ cont[driver.l].status = "running"
        /\ cont[m].s = TargetVM /\ Alive(m) /\ entry["microvm"][TargetVM] = m)

(* A migration that failed and does not report a failed rollback leaves    *)
(* the source as it was, not paused for ever, if no one else pauses it.    *)
RollbackResumes ==
  /\ setting.use = "migrate" /\ driver.pc = "finished" /\ driver.err
  /\ driver.rollback # "failed" /\ Undisturbed("pause")
  => cont[driver.l].status # "paused"
=============================================================================

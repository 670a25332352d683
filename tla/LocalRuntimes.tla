---------------------------- MODULE LocalRuntimes ----------------------------
(***************************************************************************)
(* The two runtimes that start nothing outside the agent's own process:    *)
(* WebAssembly (pkg/tartarus/wasm_runtime.go), where a module is run by a  *)
(* goroutine, and the runtime that runs nothing (mock_runtime.go), with    *)
(* which the agent starts where there is no Firecracker.  The maps of the  *)
(* latter are under one lock; its graceful shutdown is a goroutine that    *)
(* later marks the run as succeeded.                                       *)
(***************************************************************************)
EXTENDS ContainerEngine

VARIABLES
  modules,  \* the goroutines that run a module
  wasi,     \* the WASI host module is instantiated in the one wazero runtime
  waiter,   \* the channel that the mock's Wait waits on, of each sandbox
  halting   \* the sandboxes with a shutdown of the mock under way

(* The directory, the module and the log file are checked; the entry is    *)
(* stored before the goroutine starts.                                     *)
WasmLaunch(w) ==
  /\ At(w, "wasm", "launch", "prepare")
  /\ \/ \E l \in Launches : /\ Create(l, "wasm", call[w].s, "created")
                            /\ StoreEntry(w, l)
                            /\ modules' = modules \cup {l}
                            /\ call' = [call EXCEPT ![w].pc = "check", ![w].l = l]
     \/ UNCHANGED <<cont, entry, modules>> /\ Return(w, FALSE)
  /\ UNCHANGED <<code, wasi>>

(* The module fails to load, or WASI does: the host module has a name, and *)
(* a second instance of it is refused.                                     *)
WasmFails(l) ==
  /\ l \in modules
  /\ cont[l].status = "created"
  /\ cont' = [cont EXCEPT ![l].status = "exited", ![l].exit = "error"]
  /\ UNCHANGED <<entry, code, call, modules, wasi>>

WasmStarts(l) ==
  /\ l \in modules
  /\ ~wasi
  /\ SetStatus(l, {"created"}, "running")
  /\ wasi' = TRUE
  /\ UNCHANGED <<entry, code, call, modules>>

(* The goroutine records the code of a module that has ended. *)
WasmExited(l) ==
  /\ l \in modules
  /\ cont[l].exit # "none"
  /\ code' = [code EXCEPT ![l] = cont[l].exit]
  /\ modules' = modules \ {l}
  /\ UNCHANGED <<cont, entry, call, wasi>>

(* After 50 milliseconds a failure is reported; the entry stays. *)
WasmCheck(w) ==
  /\ At(w, "wasm", "launch", "check")
  /\ Return(w, code[call[w].l] \in {"none", "ok"})
  /\ UNCHANGED <<cont, entry, code>>

WasmInspect(w) ==
  /\ At(w, "wasm", "inspect", "act")
  /\ Report(w, IF code[call[w].l] = "none" THEN "running" ELSE code[call[w].l])
  /\ UNCHANGED <<cont, entry, code>>

(* Kill, and Shutdown, cancel a context that a running module does not     *)
(* look at, and delete the entry.                                          *)
WasmKill(w) ==
  /\ \E op \in {"kill", "shutdown"} : At(w, "wasm", op, "act")
  /\ DeleteEntry(w)
  /\ Return(w, TRUE)
  /\ UNCHANGED <<cont, code>>

WasmWait(w) ==
  /\ At(w, "wasm", "wait", "act")
  /\ \/ code[call[w].l] # "none" /\ Return(w, TRUE)
     \/ Return(w, FALSE)
  /\ UNCHANGED <<cont, entry, code>>

WasmLogs(w) == EngineCall(w, "wasm", "logs", UNCHANGED cont)

(* Pause, resume, snapshots and commands are not supported. *)
WasmRefuses(w) ==
  /\ \E op \in {"pause", "resume", "snapshot", "exec"} : At(w, "wasm", op, "load")
  /\ Return(w, FALSE)
  /\ UNCHANGED <<cont, entry, code>>

Wasm(w) ==
  \/ WasmLaunch(w)
  \/ /\ \/ WasmCheck(w) \/ WasmInspect(w) \/ WasmKill(w) \/ WasmWait(w) \/ WasmLogs(w)
        \/ WasmRefuses(w)
        \/ \E op \in {"inspect", "kill", "shutdown", "wait", "logs"} : Load(w, "wasm", op, FALSE)
     /\ UNCHANGED <<modules, wasi>>

WasmRun(l) == WasmFails(l) \/ WasmStarts(l) \/ WasmExited(l)

-----------------------------------------------------------------------------
(* After a delay the run is stored; it may be cancelled during the delay. *)
MockLaunch(w) ==
  /\ At(w, "mock", "launch", "prepare")
  /\ \/ \E l \in Launches : /\ Create(l, "mock", call[w].s, "running")
                            /\ StoreEntry(w, l)
                            /\ waiter' = [waiter EXCEPT ![call[w].s] = l]
                            /\ call' = [call EXCEPT ![w].pc = "done", ![w].l = l]
     \/ UNCHANGED <<cont, entry, waiter>> /\ Return(w, FALSE)
  /\ UNCHANGED <<code, halting>>

(* The run, its configuration and its waiter are deleted together. *)
MockKill(w) ==
  /\ At(w, "mock", "kill", "load")
  /\ IF Loaded(w) = 0 THEN UNCHANGED cont ELSE Removed(Loaded(w))
  /\ DeleteEntry(w)
  /\ waiter' = [waiter EXCEPT ![call[w].s] = 0]
  /\ Return(w, TRUE)
  /\ UNCHANGED <<code, halting>>

MockShutdown(w) ==
  /\ At(w, "mock", "shutdown", "load")
  /\ halting' = IF waiter[call[w].s] = 0 THEN halting ELSE halting \cup {call[w].s}
  /\ Return(w, waiter[call[w].s] # 0)
  /\ UNCHANGED <<cont, entry, code, waiter>>

(* The caller gave up before the delay was over. *)
MockHaltCancelled(s) ==
  /\ s \in halting
  /\ halting' = halting \ {s}
  /\ UNCHANGED <<engineVars, waiter>>

(* The goroutine of Shutdown marks whatever run the sandbox then has. *)
MockHalts(s) ==
  /\ s \in halting
  /\ LET l == entry["mock"][s] IN
       IF l = 0 THEN UNCHANGED <<cont, code>>
       ELSE /\ cont' = [cont EXCEPT ![l].status = "exited", ![l].exit = "ok"]
            /\ code' = [code EXCEPT ![l] = "ok"]
  /\ waiter' = [waiter EXCEPT ![s] = 0]
  /\ halting' = halting \ {s}
  /\ UNCHANGED <<entry, call>>

MockInspect(w) ==
  /\ At(w, "mock", "inspect", "act")
  /\ Report(w, IF code[call[w].l] = "none" THEN "running" ELSE code[call[w].l])
  /\ UNCHANGED <<cont, entry, code>>

MockWaitLoad(w) ==
  /\ At(w, "mock", "wait", "load")
  /\ IF waiter[call[w].s] = 0 THEN Return(w, FALSE)
     ELSE call' = [call EXCEPT ![w].pc = "act", ![w].l = waiter[call[w].s]]
  /\ UNCHANGED <<cont, entry, code>>

(* The channel was closed: it is no longer the waiter, and was not simply  *)
(* replaced by a new launch.                                               *)
MockWait(w) ==
  /\ At(w, "mock", "wait", "act")
  /\ \/ ~Alive(call[w].l) /\ Return(w, TRUE)
     \/ Return(w, FALSE)
  /\ UNCHANGED <<cont, entry, code>>

MockPause(w) == EngineCall(w, "mock", "pause", UNCHANGED cont)

MockResume(w) == EngineCall(w, "mock", "resume", UNCHANGED cont)

MockSnapshot(w) == EngineCall(w, "mock", "snapshot", UNCHANGED cont)

MockExec(w) == EngineCall(w, "mock", "exec", UNCHANGED cont)

(* A line is written for any sandbox. *)
MockLogs(w) ==
  /\ At(w, "mock", "logs", "load")
  /\ Return(w, TRUE)
  /\ UNCHANGED <<cont, entry, code>>

Mock(w) ==
  \/ MockLaunch(w) \/ MockKill(w) \/ MockShutdown(w)
  \/ /\ \/ MockInspect(w) \/ MockWaitLoad(w) \/ MockWait(w) \/ MockPause(w) \/ MockResume(w)
        \/ MockSnapshot(w) \/ MockExec(w) \/ MockLogs(w)
        \/ \E op \in {"inspect", "pause", "resume", "snapshot", "exec"} : Load(w, "mock", op, FALSE)
     /\ UNCHANGED <<waiter, halting>>
=============================================================================

-------------------------- MODULE ContainerdAdapter --------------------------
(***************************************************************************)
(* The containerd adapter (pkg/kampe/containerd_runtime.go).  The exit     *)
(* status of a task comes once, over a channel that containerd then        *)
(* closes; three places of the adapter read that channel, and who reads a  *)
(* closed channel gets the zero value, a success, even of a task that      *)
(* runs.  When the connection to containerd or the context of Launch ends  *)
(* before the task does, the status is an error with an unknown code.      *)
(***************************************************************************)
EXTENDS ContainerEngine

VARIABLES
  channel,  \* of each container: is the status still to be read
  reader    \* the goroutines of Launch that wait for the status

(* The codes that a receive may yield; the next one finds the channel      *)
(* closed.                                                                 *)
Received(l) ==
  IF channel[l] = "closed" THEN {"ok"} ELSE {"unknown"} \cup ({cont[l].exit} \ {"none"})

Receive(l, v) == v \in Received(l) /\ channel' = [channel EXCEPT ![l] = "closed"]

-----------------------------------------------------------------------------
ContainerdImage(w) ==
  /\ At(w, "containerd", "launch", "prepare")
  /\ Goto(w, "create") \/ Return(w, FALSE)
  /\ UNCHANGED <<cont, entry, code, channel, reader>>

(* NewContainer refuses an ID that is taken. *)
ContainerdCreate(w) ==
  /\ At(w, "containerd", "launch", "create")
  /\ \/ \E l \in Launches : /\ Named("containerd", call[w].s) = {}
                            /\ Create(l, "containerd", call[w].s, "created")
                            /\ call' = [call EXCEPT ![w].pc = "start", ![w].l = l]
     \/ UNCHANGED cont /\ Return(w, FALSE)
  /\ UNCHANGED <<entry, code, channel, reader>>

(* NewTask, the wait on it and its start: when one of the three fails the  *)
(* container is deleted, if that works.                                    *)
ContainerdStart(w) ==
  /\ At(w, "containerd", "launch", "start")
  /\ \/ SetStatus(call[w].l, {"created"}, "running") /\ Goto(w, "store")
     \/ (Removed(call[w].l) \/ UNCHANGED cont) /\ Return(w, FALSE)
  /\ UNCHANGED <<entry, code, channel, reader>>

ContainerdStore(w) ==
  /\ At(w, "containerd", "launch", "store")
  /\ StoreEntry(w, call[w].l)
  /\ reader' = reader \cup {call[w].l}
  /\ Return(w, TRUE)
  /\ UNCHANGED <<cont, code, channel>>

(* The goroutine of Launch. *)
ContainerdReads(l) ==
  /\ l \in reader
  /\ \E v \in Received(l) : Receive(l, v) /\ code' = [code EXCEPT ![l] = v]
  /\ reader' = reader \ {l}
  /\ UNCHANGED <<cont, entry, call>>

(* A task that stopped has the recorded code, if there is one; a task that *)
(* is gone passes for running.                                             *)
ContainerdInspect(w) ==
  /\ At(w, "containerd", "inspect", "act")
  /\ Report(w, IF cont[call[w].l].status = "exited" /\ code[call[w].l] # "none"
               THEN code[call[w].l] ELSE "running")
  /\ UNCHANGED <<cont, entry, code, channel, reader>>

(* The signal is sent, if that works, and the process ends, if it has done *)
(* so when the task is deleted.                                            *)
ContainerdKillSignal(w) ==
  /\ At(w, "containerd", "kill", "act")
  /\ Ends(call[w].l, "killed") \/ UNCHANGED cont
  /\ Goto(w, "remove")
  /\ UNCHANGED <<entry, code, channel, reader>>

(* The container of a task that still runs cannot be deleted. *)
ContainerdKillRemove(w) ==
  /\ At(w, "containerd", "kill", "remove")
  /\ \/ SetStatus(call[w].l, {"exited"}, "removed") /\ Goto(w, "delete")
     \/ UNCHANGED cont /\ Return(w, FALSE)
  /\ UNCHANGED <<entry, code, channel, reader>>

ContainerdKillDelete(w) ==
  /\ At(w, "containerd", "kill", "delete")
  /\ DeleteEntry(w)
  /\ Return(w, TRUE)
  /\ UNCHANGED <<cont, code, channel, reader>>

(* The task may end on SIGTERM, now or while Shutdown waits. *)
ContainerdShutdown(w) ==
  /\ At(w, "containerd", "shutdown", "act")
  /\ \/ Alive(call[w].l) /\ Goto(w, "ending")
     \/ Return(w, FALSE)
  /\ UNCHANGED <<cont, entry, code, channel, reader>>

(* Shutdown takes the status from the channel and drops it. *)
ContainerdEnded(w) ==
  /\ At(w, "containerd", "shutdown", "ending")
  /\ \E v \in Received(call[w].l) : Receive(call[w].l, v)
  /\ Return(w, TRUE)
  /\ UNCHANGED <<cont, entry, code, reader>>

(* After 30 seconds the task is killed. *)
ContainerdForced(w) ==
  /\ At(w, "containerd", "shutdown", "ending")
  /\ \/ Ends(call[w].l, "killed") /\ Return(w, TRUE)
     \/ UNCHANGED cont /\ Return(w, FALSE)
  /\ UNCHANGED <<entry, code, channel, reader>>

ContainerdWait(w) ==
  /\ At(w, "containerd", "wait", "act")
  /\ \/ /\ \E v \in Received(call[w].l) :
             Receive(call[w].l, v) /\ code' = [code EXCEPT ![call[w].l] = v]
        /\ Return(w, TRUE)
     \/ Return(w, FALSE) /\ UNCHANGED <<code, channel>>
  /\ UNCHANGED <<cont, entry, reader>>

ContainerdPause(w) ==
  EngineCall(w, "containerd", "pause", SetStatus(call[w].l, {"running"}, "paused"))

ContainerdResume(w) ==
  EngineCall(w, "containerd", "resume", SetStatus(call[w].l, {"paused"}, "running"))

ContainerdSnapshot(w) ==
  EngineCall(w, "containerd", "snapshot", Alive(call[w].l) /\ UNCHANGED cont)

(* The process of the command is created, started and waited for, for Exec *)
(* and for ExecInteractive.                                                *)
ContainerdExec(w) ==
  EngineCall(w, "containerd", "exec", cont[call[w].l].status = "running" /\ UNCHANGED cont)

(* There are no logs. *)
ContainerdLogs(w) ==
  /\ At(w, "containerd", "logs", "load")
  /\ Return(w, FALSE)
  /\ UNCHANGED <<cont, entry, code>>

ContainerdCalls(w) ==
  \/ ContainerdPause(w) \/ ContainerdResume(w) \/ ContainerdSnapshot(w) \/ ContainerdExec(w)
  \/ ContainerdLogs(w)
  \/ Load(w, "containerd", "kill", TRUE)
  \/ \E op \in {"inspect", "shutdown", "wait", "pause", "resume", "snapshot", "exec"} :
       Load(w, "containerd", op, FALSE)

Containerd(w) ==
  \/ ContainerdImage(w) \/ ContainerdCreate(w) \/ ContainerdStart(w) \/ ContainerdStore(w)
  \/ ContainerdInspect(w) \/ ContainerdKillSignal(w) \/ ContainerdKillRemove(w)
  \/ ContainerdKillDelete(w) \/ ContainerdShutdown(w) \/ ContainerdEnded(w)
  \/ ContainerdForced(w) \/ ContainerdWait(w)
  \/ ContainerdCalls(w) /\ UNCHANGED <<channel, reader>>

(* Migration: the plan of a container that is there is of low risk.  The   *)
(* container has the ID of its sandbox, and is exported by that ID.        *)
ContainerdRisk == "low"

ContainerdFinds(s) == Named("containerd", s) # {}
=============================================================================

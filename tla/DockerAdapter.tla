---------------------------- MODULE DockerAdapter ----------------------------
(***************************************************************************)
(* The Docker adapter (pkg/kampe/docker_runtime.go).  Docker knows what    *)
(* runs and with which code it ended; the adapter copies the code when it  *)
(* looks.                                                                  *)
(***************************************************************************)
EXTENDS ContainerEngine

(* ensureImage finds the image or pulls it. *)
DockerImage(w) ==
  /\ At(w, "docker", "launch", "prepare")
  /\ Goto(w, "create") \/ Return(w, FALSE)
  /\ UNCHANGED <<cont, entry, code>>

(* A container with the name of the sandbox is refused. *)
DockerCreate(w) ==
  /\ At(w, "docker", "launch", "create")
  /\ \/ \E l \in Launches : /\ Named("docker", call[w].s) = {}
                            /\ Create(l, "docker", call[w].s, "created")
                            /\ call' = [call EXCEPT ![w].pc = "start", ![w].l = l]
     \/ UNCHANGED cont /\ Return(w, FALSE)
  /\ UNCHANGED <<entry, code>>

(* A container that does not start is removed, if that works. *)
DockerStart(w) ==
  /\ At(w, "docker", "launch", "start")
  /\ \/ SetStatus(call[w].l, {"created"}, "running") /\ Goto(w, "store")
     \/ (Removed(call[w].l) \/ UNCHANGED cont) /\ Return(w, FALSE)
  /\ UNCHANGED <<entry, code>>

DockerStore(w) ==
  /\ At(w, "docker", "launch", "store")
  /\ StoreEntry(w, call[w].l)
  /\ Return(w, TRUE)
  /\ UNCHANGED <<cont, code>>

(* A code is copied when the container does not run; a container that is   *)
(* gone cannot be inspected.                                               *)
DockerInspect(w) ==
  /\ At(w, "docker", "inspect", "act")
  /\ \/ /\ cont[call[w].l].status \notin {"none", "removed"}
        /\ IF Alive(call[w].l) THEN Report(w, "running") /\ UNCHANGED code
           ELSE /\ code' = [code EXCEPT ![call[w].l] = cont[call[w].l].exit]
                /\ Report(w, cont[call[w].l].exit)
     \/ Return(w, FALSE) /\ UNCHANGED code
  /\ UNCHANGED <<cont, entry>>

(* ContainerStop with no time, whose failure does not matter. *)
DockerKillStop(w) ==
  /\ At(w, "docker", "kill", "act")
  /\ Ends(call[w].l, "killed") \/ UNCHANGED cont
  /\ Goto(w, "remove")
  /\ UNCHANGED <<entry, code>>

(* Mutant: a failed removal does not matter either. *)
MutDockerKillRemove(w) ==
  /\ At(w, "docker", "kill", "remove")
  /\ Removed(call[w].l) \/ UNCHANGED cont
  /\ Goto(w, "delete")
  /\ UNCHANGED <<entry, code>>

DockerKillRemove(w) ==
  /\ At(w, "docker", "kill", "remove")
  /\ \/ cont[call[w].l].status # "removed" /\ Removed(call[w].l) /\ Goto(w, "delete")
     \/ UNCHANGED cont /\ Return(w, FALSE)
  /\ UNCHANGED <<entry, code>>

DockerKillDelete(w) ==
  /\ At(w, "docker", "kill", "delete")
  /\ DeleteEntry(w)
  /\ Return(w, TRUE)
  /\ UNCHANGED <<cont, code>>

(* ContainerStop waits up to 30 seconds and then kills. *)
DockerShutdown(w) ==
  EngineCall(w, "docker", "shutdown",
             cont[call[w].l].status # "removed" /\ \E e \in Exits : Ends(call[w].l, e))

DockerPause(w) == EngineCall(w, "docker", "pause", SetStatus(call[w].l, {"running"}, "paused"))

DockerResume(w) == EngineCall(w, "docker", "resume", SetStatus(call[w].l, {"paused"}, "running"))

(* A checkpoint leaves the container running. *)
DockerSnapshot(w) == EngineCall(w, "docker", "snapshot", Alive(call[w].l) /\ UNCHANGED cont)

(* ContainerExecCreate and the copy of the output, for Exec and with a     *)
(* terminal for ExecInteractive.                                           *)
DockerExec(w) ==
  EngineCall(w, "docker", "exec", cont[call[w].l].status = "running" /\ UNCHANGED cont)

DockerLogs(w) ==
  EngineCall(w, "docker", "logs", cont[call[w].l].status # "removed" /\ UNCHANGED cont)

(* Mutant: a wait that is given up records a code too. *)
MutDockerWait(w) ==
  /\ At(w, "docker", "wait", "act")
  /\ code' = [code EXCEPT ![call[w].l] = IF Alive(call[w].l) THEN "unknown" ELSE cont[call[w].l].exit]
  /\ Return(w, ~Alive(call[w].l))
  /\ UNCHANGED <<cont, entry>>

(* ContainerWait answers when the container no longer runs; an error of    *)
(* the engine, or the end of the caller's patience, changes nothing.       *)
DockerWait(w) ==
  /\ At(w, "docker", "wait", "act")
  /\ \/ /\ ~Alive(call[w].l)
        /\ code' = [code EXCEPT ![call[w].l] = cont[call[w].l].exit]
        /\ Return(w, TRUE)
     \/ Return(w, FALSE) /\ UNCHANGED code
  /\ UNCHANGED <<cont, entry>>

Docker(w) ==
  \/ DockerImage(w) \/ DockerCreate(w) \/ DockerStart(w) \/ DockerStore(w)
  \/ DockerInspect(w) \/ DockerKillStop(w) \/ DockerKillRemove(w) \/ DockerKillDelete(w)
  \/ DockerShutdown(w) \/ DockerPause(w) \/ DockerResume(w) \/ DockerSnapshot(w)
  \/ DockerExec(w) \/ DockerLogs(w) \/ DockerWait(w)
  \/ Load(w, "docker", "kill", TRUE)
  \/ \E op \in {"inspect", "shutdown", "wait", "pause", "resume", "snapshot", "exec", "logs"} :
       Load(w, "docker", op, FALSE)

-----------------------------------------------------------------------------
(* Migration.  The plan of a container that uses the host's network or     *)
(* devices is of high risk, a later privileged mode makes it medium again. *)
DockerRisk(network, devices, privileged) ==
  IF privileged THEN "medium" ELSE IF network \/ devices THEN "high" ELSE "low"

(* Docker finds a container by its own ID or name, and the name of a       *)
(* container is not the ID of its sandbox: the adapter's map is keyed by   *)
(* the one, ContainerInspect by the other.  What is found is exported.     *)
DockerFinds(s, form) == form = "container" /\ Named("docker", s) # {}
=============================================================================

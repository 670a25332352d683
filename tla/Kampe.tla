-------------------------------- MODULE Kampe --------------------------------
(***************************************************************************)
(* Kampe (pkg/kampe): the move of a container to a microVM (migration.go)  *)
(* and the harness that runs one workload on several runtimes and compares *)
(* what they report (parity_harness.go).  Both are sequences of calls of   *)
(* the runtime interface, made by one caller, the driver.                  *)
(***************************************************************************)
EXTENDS DockerAdapter, ContainerdAdapter, GVisorRuntime, UnifiedRuntime

CONSTANTS Driver, Source, TargetVM

VARIABLES driver   \* where the driver is and what its result says so far

(* l is the container the source was when the migration began. *)
NewDriver(pc, kind, l) == [pc |-> pc, calling |-> FALSE, kind |-> kind, err |-> FALSE, l |-> l,
                           rollback |-> "unset", seen |-> "none"]

(* The driver is at pc and makes a call. *)
DriverCalls(pc, k, s, op) ==
  /\ driver.pc = pc /\ ~driver.calling
  /\ Idle(Driver)
  /\ Begin(Driver, k, s, op)
  /\ driver' = [driver EXCEPT !.calling = TRUE]

(* The call it made at pc has returned. *)
DriverReturned(pc) == driver.pc = pc /\ driver.calling /\ call[Driver].pc = "done"

DriverGoes(pc, err) ==
  /\ driver' = [driver EXCEPT !.pc = pc, !.calling = FALSE, !.err = @ \/ err]
  /\ call' = [call EXCEPT ![Driver] = NoCall]

-----------------------------------------------------------------------------
(* Migrate.                                                                *)

(* The plan of the source runtime. *)
AssessedRisk(config) ==
  CASE driver.kind = "docker" -> DockerRisk(config.network, config.devices, config.privileged)
    [] driver.kind = "containerd" -> ContainerdRisk
    [] OTHER -> RunscRisk

(* form says which ID the caller gave. *)
Findable(form) ==
  CASE driver.kind = "docker" -> DockerFinds(Source, form)
    [] driver.kind = "containerd" -> ContainerdFinds(Source)
    [] OTHER -> TRUE

MigrateAssess(form, config) ==
  /\ driver.pc = "assess"
  /\ \/ /\ Findable(form)
        /\ driver' = [driver EXCEPT !.pc = IF AssessedRisk(config) = "high" THEN "finished"
                                           ELSE "pause",
                                    !.err = AssessedRisk(config) = "high"]
     \/ /\ driver.kind # "runsc"
        /\ driver' = [driver EXCEPT !.pc = "finished", !.err = TRUE]
  /\ UNCHANGED engineVars

(* Pause looks up the ID in the map of the adapter, which has sandboxes. *)
MigratePause(form) ==
  \/ /\ driver.kind = "docker" => form = "sandbox"
     /\ DriverCalls("pause", driver.kind, Source, "pause")
     /\ UNCHANGED <<cont, entry, code>>
  \/ /\ driver.pc = "pause" /\ driver.kind = "docker" /\ form # "sandbox"
     /\ driver' = [driver EXCEPT !.pc = "finished", !.err = TRUE]
     /\ UNCHANGED engineVars

(* Mutant: a pause that fails does not end the migration. *)
MutMigratePaused ==
  /\ DriverReturned("pause")
  /\ DriverGoes("export", FALSE)
  /\ UNCHANGED <<cont, entry, code>>

MigratePaused ==
  /\ DriverReturned("pause")
  /\ DriverGoes(IF call[Driver].ok THEN "export" ELSE "finished", ~call[Driver].ok)
  /\ UNCHANGED <<cont, entry, code>>

(* A runsc sandbox in the map is always exported; the engines may fail. *)
Exports(form) ==
  IF driver.kind = "runsc" THEN RunscExports(Source)
  ELSE {FALSE} \cup {TRUE : f \in {f \in {form} : Findable(f)}}

(* Mutant: the rollback is armed after the export. *)
MutMigrateExport(form) ==
  /\ driver.pc = "export"
  /\ \E ok \in Exports(form) :
       driver' = [driver EXCEPT !.pc = IF ok THEN "launch" ELSE "finished", !.err = ~ok]
  /\ UNCHANGED engineVars

(* The state of the source is exported and translated into a request. *)
MigrateExport(form) ==
  /\ driver.pc = "export"
  /\ \E ok \in Exports(form) :
       driver' = [driver EXCEPT !.pc = IF ok THEN "launch" ELSE "rollback", !.err = ~ok]
  /\ UNCHANGED engineVars

MigrateLaunched ==
  /\ DriverReturned("launch")
  /\ DriverGoes(IF call[Driver].ok THEN "verify" ELSE "rollback", ~call[Driver].ok)
  /\ UNCHANGED <<cont, entry, code>>

MigrateVerified ==
  /\ DriverReturned("verify")
  /\ LET ok == call[Driver].ok /\ call[Driver].seen = "running"
     IN  DriverGoes(IF ok THEN "cutover" ELSE "cleanup", ~ok)
  /\ UNCHANGED <<cont, entry, code>>

(* The old container is killed; when that fails the migration is done all  *)
(* the same.  A VM that is not there is killed and the source goes on.     *)
MigrateEnds ==
  \/ /\ DriverReturned("cutover")
     /\ driver' = [driver EXCEPT !.pc = "finished", !.calling = FALSE, !.rollback = "none"]
     /\ call' = [call EXCEPT ![Driver] = NoCall]
     /\ UNCHANGED <<cont, entry, code>>
  \/ /\ DriverReturned("cleanup")
     /\ DriverGoes("rollback", TRUE)
     /\ UNCHANGED <<cont, entry, code>>

MigrateRolledBack ==
  /\ DriverReturned("rollback")
  /\ driver' = [driver EXCEPT !.pc = "finished", !.calling = FALSE,
                              !.rollback = IF call[Driver].ok THEN "success" ELSE "failed"]
  /\ call' = [call EXCEPT ![Driver] = NoCall]
  /\ UNCHANGED <<cont, entry, code>>

MigrateCalls ==
  /\ \/ DriverCalls("launch", "microvm", TargetVM, "launch")
     \/ DriverCalls("verify", "microvm", TargetVM, "inspect")
     \/ DriverCalls("cleanup", "microvm", TargetVM, "kill")
     \/ DriverCalls("cutover", driver.kind, Source, "kill")
     \/ DriverCalls("rollback", driver.kind, Source, "resume")
  /\ UNCHANGED <<cont, entry, code>>

Migrate(form, config) ==
  \/ MigrateAssess(form, config) \/ MigratePause(form) \/ MigratePaused \/ MigrateExport(form)
  \/ MigrateLaunched \/ MigrateVerified \/ MigrateEnds \/ MigrateRolledBack \/ MigrateCalls

-----------------------------------------------------------------------------
(* runOnRuntime: launch, wait, collect the logs, inspect and clean up.     *)

HarnessNext(pc) ==
  CASE pc = "launch" -> "wait" [] pc = "wait" -> "logs" [] pc = "logs" -> "inspect"
    [] pc = "inspect" -> "kill" [] OTHER -> "finished"

HarnessCalls ==
  /\ \E op \in {"launch", "wait", "logs", "inspect", "kill"} :
       DriverCalls(op, driver.kind, Source, op)
  /\ UNCHANGED <<cont, entry, code>>

(* Only a launch that fails ends the test; a wait that fails is an error   *)
(* of the result, and what Inspect says is its final state.                *)
HarnessReturned ==
  /\ \E op \in {"launch", "wait", "logs", "inspect", "kill"} :
       /\ DriverReturned(op)
       /\ driver' = [driver EXCEPT
            !.pc = IF op = "launch" /\ ~call[Driver].ok THEN "finished" ELSE HarnessNext(op),
            !.calling = FALSE,
            !.err = @ \/ (op \in {"launch", "wait"} /\ ~call[Driver].ok),
            !.seen = IF op = "inspect" /\ call[Driver].ok THEN call[Driver].seen ELSE @]
  /\ call' = [call EXCEPT ![Driver] = NoCall]
  /\ UNCHANGED <<cont, entry, code>>

Harness == HarnessCalls \/ HarnessReturned
=============================================================================

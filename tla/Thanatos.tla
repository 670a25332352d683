------------------------------ MODULE Thanatos ------------------------------
(***************************************************************************)
(* Thanatos, graceful termination: the handler of an agent                 *)
(* (pkg/thanatos/handler.go), the controller with its policies             *)
(* (controller.go, policy.go, exporter.go) and the kill of a sandbox by    *)
(* Runtime.Kill.  A graceful termination asks the guest to halt, waits for *)
(* it during the grace period and then kills it.                           *)
(***************************************************************************)
EXTENDS Hypnos

(* Times are in units of one minute, below the unit a time counts as 1. *)
DefaultGracePeriod == 1

MaxGracePeriod == 5

-----------------------------------------------------------------------------
(* The grace policies.                                                     *)

NoPolicy == [grace |-> 0, max |-> 0, checkpoint |-> FALSE, export |-> FALSE, set |-> FALSE]

DefaultPolicy == [grace |-> DefaultGracePeriod, max |-> MaxGracePeriod, checkpoint |-> FALSE,
                  export |-> FALSE, set |-> TRUE]

(* Reason, then template, then default.  resolver is a record of the three. *)
ResolvePolicy(resolver, template, reason) ==
  IF resolver.reason[reason].set THEN resolver.reason[reason]
  ELSE IF resolver.template[template].set THEN resolver.template[template]
  ELSE resolver.default

(* Mutant: a request is not limited. *)
MutEffectiveGrace(policy, requested) ==
  IF requested > 0 THEN requested ELSE policy.grace

(* A policy with a cap of its own is not subject to MaxGracePeriod. *)
EffectiveGrace(policy, requested) ==
  LET asked   == IF requested > 0 THEN requested ELSE policy.grace
      granted == IF asked > 0 THEN asked ELSE DefaultGracePeriod
  IN  IF policy.max > 0 /\ granted > policy.max THEN policy.max
      ELSE IF granted > MaxGracePeriod THEN MaxGracePeriod ELSE granted

Reasons == {"user_request", "policy_breach", "resource_limit", "time_limit", "system_shutdown",
            "network_violation"}

(* The reason that a request gives (mapStringToTerminationReason). *)
RequestReason(text) ==
  CASE text \in {"policy_breach", "policy"} -> "policy_breach"
    [] text \in {"resource_limit", "resources"} -> "resource_limit"
    [] text \in {"time_limit", "timeout"} -> "time_limit"
    [] text \in {"system_shutdown", "shutdown"} -> "system_shutdown"
    [] OTHER -> "user_request"

(* The reason of a kill by Erinyes (mapToTerminationReason). *)
ViolationReason(text) ==
  CASE text \in {"runtime_exceeded", "time_limit"} -> "time_limit"
    [] text \in {"memory_exceeded", "resource_limit"} -> "resource_limit"
    [] text \in {"network_egress_exceeded", "network_ingress_exceeded",
                 "banned_ip_attempts_exceeded"} -> "network_violation"
    [] OTHER -> "policy_breach"

-----------------------------------------------------------------------------
(* The graceful shutdown that the handler and the controller share.        *)

(* Runtime.Shutdown; without a runtime the call panics (Panics). *)
EndShutdown(w) ==
  /\ Calling(w, "shutdown")
  /\ \/ ShutdownAccepted(call[w].s) /\ Goto(w, "wait")
     \/ Return(w, "failed")
  /\ UNCHANGED <<vmVars, sleeping, stored>>

(* Runtime.Wait loads the map entry and then waits without it. *)
EndWait(w) ==
  /\ Calling(w, "wait")
  /\ IF Holds(call[w].s)
     THEN call' = [call EXCEPT ![w].pc = "waiting", ![w].l = vm[call[w].s]]
     ELSE Return(w, "failed")
  /\ UNCHANGED <<vmVars, sleeping, stored>>

(* Mutant: an expired wait passes for a halt. *)
MutEndWaited(w) ==
  /\ Calling(w, "waiting")
  /\ RecordExit(call[w].l)
  /\ Goto(w, "inspect")
  /\ UNCHANGED <<sleeping, stored>>

(* The guest ended: an error when it did not end well. *)
EndWaited(w) ==
  /\ Calling(w, "waiting")
  /\ proc[call[w].l] \in Exits
  /\ RecordExit(call[w].l)
  /\ IF proc[call[w].l] = "ok" THEN Goto(w, "inspect") ELSE Return(w, "failed")
  /\ UNCHANGED <<sleeping, stored>>

(* Mutant: an expired wait is an error like any other. *)
MutExpiredFails(w) ==
  /\ Calling(w, "waiting")
  /\ RecordExit(call[w].l)
  /\ Return(w, "failed")
  /\ UNCHANGED <<sleeping, stored>>

(* Mutant: the wait has no deadline. *)
MutEndExpired(w) ==
  /\ Calling(w, "waiting")
  /\ proc[call[w].l] \in Exits
  /\ RecordExit(call[w].l)
  /\ Goto(w, "kill")
  /\ UNCHANGED <<sleeping, stored>>

(* The grace period is over; the guest may end at the same time. *)
EndExpired(w) ==
  /\ Calling(w, "waiting")
  /\ RecordExit(call[w].l)
  /\ Goto(w, "kill")
  /\ UNCHANGED <<sleeping, stored>>

(* Mutant: a phase that the result type does not have. *)
MutKillReturns(w) == Return(w, "force_killed")

(* What a Kill reports: the termination that made it was not graceful, a   *)
(* plain Kill is done.                                                     *)
KillReturns(w) == Return(w, IF call[w].via = "kill" THEN "completed" ELSE "killed")

EndKill(w) ==
  /\ Calling(w, "kill")
  /\ IF Holds(call[w].s) THEN Signal(call[w].s) /\ Goto(w, "unmap")
                         ELSE UNCHANGED vmVars /\ KillReturns(w)
  /\ UNCHANGED <<sleeping, stored>>

EndUnmap(w) ==
  /\ Calling(w, "unmap")
  /\ Forget(call[w].s)
  /\ KillReturns(w)
  /\ UNCHANGED <<sleeping, stored>>

(* Inspect, for the exit code of the result. *)
EndInspect(w) ==
  /\ Calling(w, "inspect")
  /\ Return(w, "completed")
  /\ UNCHANGED <<vmVars, sleeping, stored>>

(* The controller exports logs and goes on whether or not that works. *)
EndExport(w) ==
  /\ Calling(w, "export")
  /\ Goto(w, IF call[w].checkpoint THEN "config" ELSE "shutdown")
  /\ UNCHANGED <<vmVars, sleeping, stored>>

End(w) ==
  \/ EndExport(w) \/ EndWait(w) \/ EndWaited(w) \/ EndExpired(w) \/ EndKill(w) \/ EndUnmap(w)
  \/ EndInspect(w)

-----------------------------------------------------------------------------
(* The calls.                                                              *)

(* A call that begins at step pc. *)
NewCall(pc, s, via) ==
  [pc |-> pc, s |-> s, l |-> 0, key |-> NoKey, via |-> via, checkpoint |-> FALSE,
   grace |-> 0, phase |-> "none"]

(* The caller has taken the result. *)
Done(w) == call' = [call EXCEPT ![w].pc = "idle", ![w].key = NoKey]

(* Handler.Terminate: a checkpoint only when Hypnos is enabled. *)
Terminate(w, s, checkpoint, hypnos) ==
  call' = [call EXCEPT ![w] =
             NewCall(IF checkpoint /\ hypnos THEN "config" ELSE "shutdown", s, "handler")]

(* ShutdownController.RequestTermination. *)
RequestTermination(w, s, policy, skipCheckpoint, hypnos, exporter, requested) ==
  LET checkpoint == ~skipCheckpoint /\ policy.checkpoint /\ hypnos
      pc == IF exporter /\ policy.export THEN "export"
            ELSE IF checkpoint THEN "config" ELSE "shutdown"
  IN  call' = [call EXCEPT ![w] = [NewCall(pc, s, "controller") EXCEPT
                 !.checkpoint = checkpoint, !.grace = EffectiveGrace(policy, requested)]]
=============================================================================

------------------------- MODULE DeferredScheduler -------------------------
(***************************************************************************)
(* The scheduler of deferred terminations (pkg/thanatos/scheduler.go) and  *)
(* the HTTP handlers in front of it (pkg/olympus/thanatos_handlers.go).    *)
(* Every termination has a goroutine, executeDeferred, that waits for the  *)
(* delay and then calls the controller; the map of terminations and the    *)
(* index by sandbox are shared under one lock.  The entry of a termination *)
(* never used and of one cleaned up are told apart.                        *)
(***************************************************************************)
EXTENDS Thanatos

CONSTANTS Terminations,    \* termination IDs
          Clients,         \* goroutines of the HTTP server
          Requests         \* bodies of the requests: [reason, grace, checkpoint]

ASSUME SchedulerAssumption == Terminations \cup Clients \subseteq Callers

ASSUME RequestsAssumption ==
  Requests \subseteq [reason : STRING, grace : Nat, checkpoint : BOOLEAN]

VARIABLES termination,   \* termination[t]: the status of t in the map
          request,       \* request[t]: what was asked
          bySandbox,     \* bySandbox[s]: the index, "none" without an entry
          runner,        \* runner[t]: the goroutine of t
          cancelled,     \* the terminations whose context was cancelled
          client         \* client[c]: the termination that handler c is cancelling

schedulerVars == <<termination, request, bySandbox, runner, cancelled, client>>

Statuses == {"unused", "pending", "in_progress", "completed", "failed", "cancelled", "removed"}

NoRequest == [s |-> "none", body |-> [reason |-> "none", grace |-> 0, checkpoint |-> FALSE]]

SchedulerTypeOK ==
  /\ termination \in [Terminations -> Statuses]
  /\ request \in [Terminations -> [s : Sandboxes, body : Requests] \cup {NoRequest}]
  /\ bySandbox \in [Sandboxes -> Terminations \cup {"none"}]
  /\ runner \in [Terminations -> {"none", "start", "delay", "check", "run"}]
  /\ cancelled \subseteq Terminations
  /\ client \in [Clients -> Terminations \cup {"none"}]

SchedulerInit ==
  /\ termination = [t \in Terminations |-> "unused"]
  /\ request = [t \in Terminations |-> NoRequest]
  /\ bySandbox = [s \in Sandboxes |-> "none"]
  /\ runner = [t \in Terminations |-> "none"]
  /\ cancelled = {}
  /\ client = [c \in Clients |-> "none"]

(* The map has an entry for t. *)
Present(t) == termination[t] \notin {"unused", "removed"}

(* Only a pending termination of the sandbox rejects a new one. *)
Schedulable(s) == bySandbox[s] # "none" => termination[bySandbox[s]] # "pending"

(* Schedule, under the lock, and the start of its goroutine. *)
Schedule(t, s, body) ==
  /\ termination[t] = "unused"
  /\ Schedulable(s)
  /\ termination' = [termination EXCEPT ![t] = "pending"]
  /\ request' = [request EXCEPT ![t] = [s |-> s, body |-> body]]
  /\ bySandbox' = [bySandbox EXCEPT ![s] = t]
  /\ runner' = [runner EXCEPT ![t] = "start"]
  /\ UNCHANGED <<cancelled, client>>

RunnerGoto(t, pc) == runner' = [runner EXCEPT ![t] = pc]

(* executeDeferred stores the cancel function, unless the entry is gone. *)
ExecBegin(t) ==
  /\ runner[t] = "start"
  /\ RunnerGoto(t, IF Present(t) THEN "delay" ELSE "none")
  /\ UNCHANGED <<termination, request, bySandbox, cancelled, client>>

(* The delay passes, or the context is cancelled first. *)
ExecElapsed(t) ==
  /\ runner[t] = "delay"
  /\ RunnerGoto(t, "check")
  /\ UNCHANGED <<termination, request, bySandbox, cancelled, client>>

ExecCancelled(t) ==
  /\ runner[t] = "delay"
  /\ t \in cancelled
  /\ RunnerGoto(t, "none")
  /\ UNCHANGED <<termination, request, bySandbox, cancelled, client>>

(* The status is looked at again under the lock. *)
ExecDropped(t) ==
  /\ runner[t] = "check"
  /\ termination[t] # "pending"
  /\ RunnerGoto(t, "none")
  /\ UNCHANGED <<termination, request, bySandbox, cancelled, client>>

(* Mutant: the status is not looked at again. *)
MutExecStart(t) ==
  /\ runner[t] = "check"
  /\ termination' = [termination EXCEPT ![t] = "in_progress"]
  /\ RunnerGoto(t, "run")
  /\ UNCHANGED <<request, bySandbox, cancelled, client>>

ExecStart(t) ==
  /\ runner[t] = "check"
  /\ termination[t] = "pending"
  /\ termination' = [termination EXCEPT ![t] = "in_progress"]
  /\ RunnerGoto(t, "run")
  /\ UNCHANGED <<request, bySandbox, cancelled, client>>

(* The controller has returned: an error is a failure. *)
ExecFinish(t, err) ==
  /\ runner[t] = "run"
  /\ termination' = [termination EXCEPT ![t] =
                       IF ~Present(t) THEN @ ELSE IF err THEN "failed" ELSE "completed"]
  /\ RunnerGoto(t, "none")
  /\ UNCHANGED <<request, bySandbox, cancelled, client>>

-----------------------------------------------------------------------------
(* handleCancelTermination looks the termination up (GetBySandbox) and     *)
(* then cancels it by its ID.                                              *)

CancelLookup(c, s) ==
  /\ client[c] = "none"
  /\ bySandbox[s] # "none"
  /\ client' = [client EXCEPT ![c] = bySandbox[s]]
  /\ UNCHANGED <<termination, request, bySandbox, runner, cancelled>>

(* Cancel: only a pending termination; its context is cancelled when the   *)
(* goroutine has stored the function that does it.                         *)
CancelPending(c) ==
  LET t == client[c]
  IN  /\ t # "none"
      /\ termination[t] = "pending"
      /\ termination' = [termination EXCEPT ![t] = "cancelled"]
      /\ cancelled' = IF runner[t] = "start" THEN cancelled ELSE cancelled \cup {t}
      /\ client' = [client EXCEPT ![c] = "none"]
      /\ UNCHANGED <<request, bySandbox, runner>>

(* The entry is gone, or no longer pending. *)
CancelRefused(c) ==
  /\ client[c] # "none"
  /\ termination[client[c]] # "pending"
  /\ client' = [client EXCEPT ![c] = "none"]
  /\ UNCHANGED <<termination, request, bySandbox, runner, cancelled>>

(* Cleanup of the settled terminations ts that are old enough.  The index  *)
(* of their sandboxes goes too, even when it names another termination.    *)
Cleanup(ts) ==
  /\ ts # {}
  /\ \A t \in ts : termination[t] \in {"completed", "failed", "cancelled"}
  /\ termination' = [t \in Terminations |-> IF t \in ts THEN "removed" ELSE termination[t]]
  /\ bySandbox' = [s \in Sandboxes |->
                     IF \E t \in ts : request[t].s = s THEN "none" ELSE bySandbox[s]]
  /\ UNCHANGED <<request, runner, cancelled, client>>
=============================================================================

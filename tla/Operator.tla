------------------------------ MODULE Operator ------------------------------
(***************************************************************************)
(* The Kubernetes operator (cmd/tartarus-operator, pkg/kubernetes/         *)
(* controllers).  Its three controllers bring a SandboxJob, a              *)
(* SandboxTemplate and a TenantNetworkPolicy (one object of each here)     *)
(* closer to what their specs ask for.  A controller reads objects from a  *)
(* cache that follows the API server with a delay; the server refuses an   *)
(* update of an object that has changed since it was read.  Every change   *)
(* of an object, once the cache has it, puts its key into the work queue,  *)
(* which hands a key to one worker at a time.  A delay of the queue is any *)
(* delay.  The policy refers to a NetworkPolicy of Kubernetes, an object   *)
(* that is read from the cache too, but whose changes put no key into the  *)
(* queue.  Olympus is the peer that the job controller submits to.         *)
(***************************************************************************)
EXTENDS Integers

VARIABLES object,      \* object[k]: the object at the API server
          cache,       \* cache[k]: the operator's copy of it
          fresh,       \* the kinds whose cached copy is the current version
          queue,       \* the keys to reconcile
          worker,      \* worker[k]: the Reconcile in progress
          contract,    \* contractCache: the versions of the specs that the
                       \* contract of the tenant was built from
          run,         \* the run of the job at Olympus
          upsets,      \* failures so far
          edits        \* changes made by users so far

operatorVars == <<object, cache, fresh, queue, worker, contract, run, upsets, edits>>

Kinds == {"job", "template", "policy"}
Objects == Kinds \cup {"netpol"}
RunStates == {"PENDING", "SCHEDULED", "RUNNING", "SUCCEEDED", "FAILED"}
Final == {"SUCCEEDED", "FAILED", "CANCELED"}

(* An object.  spec is 0 for one that cannot be used (no image, a CIDR     *)
(* that is none), and otherwise its version; id says that the job has an   *)
(* ID, or that the policy names its tenant; state is the status.           *)
NewObject(exists, spec, id) == [exists |-> exists, spec |-> spec, id |-> id, state |-> "none"]
NoContract == <<0, 0>>
NoWork == [pc |-> "idle", copy |-> NewObject(FALSE, 0, FALSE), current |-> FALSE, next |-> "none"]

(* The objects of the given kinds have been created, and with a policy     *)
(* perhaps its NetworkPolicy.                                              *)
OperatorInit(kinds) ==
  /\ object \in [Objects -> {NewObject(e, s, i) : e \in BOOLEAN, s \in 0..1, i \in BOOLEAN}]
  /\ \A k \in Kinds : object[k].exists = (k \in kinds)
  /\ \A k \in Objects : /\ object[k].spec # 0 => k \in kinds \ {"job"}
                        /\ object[k].id => k \in kinds \cap {"policy"}
  /\ object["netpol"].exists => "policy" \in kinds
  /\ cache = object
  /\ fresh = Objects
  /\ queue = kinds
  /\ worker = [k \in Kinds |-> NoWork]
  /\ contract = NoContract
  /\ run = [state |-> "none", submits |-> 0]
  /\ upsets = 0
  /\ edits = 0

Upset(n) == upsets' = upsets + n

-----------------------------------------------------------------------------
(* The work queue, the cache and the API server.                           *)

(* Reconcile returns.  An error, RequeueAfter, and a change the cache saw  *)
(* in the meantime bring the key back.                                     *)
Returns(k, again) ==
  /\ worker' = [worker EXCEPT ![k] = NoWork]
  /\ queue' = IF again THEN queue \cup {k} ELSE queue

(* The worker takes the key and reads the object. *)
Begins(k) == k \in queue /\ worker[k].pc = "idle"

Proceeds(k, pc) ==
  /\ worker' = [worker EXCEPT ![k] = [NoWork EXCEPT !.pc = pc, !.copy = cache[k],
                                                    !.current = k \in fresh]]
  /\ queue' = queue \ {k}

(* Status().Update.  next says what Reconcile returns after a success.     *)
(* The server refuses it when the object is gone or is not the version     *)
(* that was read.  An update that changes nothing makes no new version,    *)
(* but the status of a job and that of a policy hold the time of the       *)
(* update.                                                                 *)
UpdateStatus(k) ==
  LET w == worker[k]
      new == [object[k] EXCEPT !.id = w.copy.id, !.state = w.copy.state]
      accepted == w.current /\ object[k].exists
  IN  /\ w.pc = "update"
      /\ \/ /\ accepted
            /\ object' = [object EXCEPT ![k] = new]
            /\ \/ fresh' = fresh \ {k} /\ (k = "template" => new # object[k])
               \/ fresh' = fresh /\ new = object[k]
            /\ Returns(k, w.next = "again")
            /\ UNCHANGED upsets
         \/ /\ Returns(k, TRUE)
            /\ Upset(IF accepted THEN 1 ELSE 0)
            /\ UNCHANGED <<object, fresh>>
      /\ UNCHANGED <<cache, contract, run, edits>>

(* The watch delivers the current version; that of a NetworkPolicy wakes   *)
(* no controller.                                                          *)
CacheSync(k) ==
  /\ k \notin fresh
  /\ cache' = [cache EXCEPT ![k] = object[k]]
  /\ fresh' = fresh \cup {k}
  /\ queue' = queue \cup ({k} \cap Kinds)
  /\ UNCHANGED <<object, worker, contract, run, upsets, edits>>

-----------------------------------------------------------------------------
(* SandboxJobReconciler.Reconcile *)

(* Mutant: a job that has a state is left alone. *)
MutJobGet ==
  /\ Begins("job")
  /\ IF ~cache["job"].exists \/ cache["job"].state # "none"
     THEN queue' = queue \ {"job"} /\ UNCHANGED worker
     ELSE Proceeds("job", IF cache["job"].id THEN "check" ELSE "submit")
  /\ UNCHANGED <<object, cache, fresh, contract, run, upsets, edits>>

(* A job that is gone, succeeded or failed is left alone; one without an   *)
(* ID is submitted, the others are looked up.                              *)
JobGet ==
  /\ Begins("job")
  /\ IF ~cache["job"].exists \/ cache["job"].state \in {"SUCCEEDED", "FAILED"}
     THEN queue' = queue \ {"job"} /\ UNCHANGED worker
     ELSE Proceeds("job", IF cache["job"].id THEN "check" ELSE "submit")
  /\ UNCHANGED <<object, cache, fresh, contract, run, upsets, edits>>

(* The status the worker is going to write. *)
Writes(k, copy, next) ==
  worker' = [worker EXCEPT ![k].pc = "update", ![k].copy = copy, ![k].next = next]

(* submitToOlympus.  The ID is made of the namespace and the name of the   *)
(* job, so a second submission starts the same run again.  An error may    *)
(* also be that the answer to an accepted submission is lost.              *)
SubmitToOlympus(err, MaxSubmits) ==
  \/ /\ run.submits < MaxSubmits
     /\ run' = [state |-> "PENDING", submits |-> run.submits + 1]
     /\ Upset(IF err THEN 1 ELSE 0)
  \/ /\ err
     /\ Upset(IF run.submits < MaxSubmits THEN 1 ELSE 0)
     /\ UNCHANGED run

(* The job is submitted; an error fails it. *)
JobSubmit(MaxSubmits) ==
  LET w == worker["job"].copy
  IN  /\ worker["job"].pc = "submit"
      /\ \E err \in BOOLEAN :
           /\ SubmitToOlympus(err, MaxSubmits)
           /\ Writes("job", IF err THEN [w EXCEPT !.state = "FAILED"]
                            ELSE [w EXCEPT !.id = TRUE, !.state = "PENDING"], "again")
      /\ UNCHANGED <<object, cache, fresh, queue, contract, edits>>

(* checkStatus: the state of the run. *)
CheckStatus(err) == Upset(IF err THEN 1 ELSE 0) /\ UNCHANGED run

(* An error is tried again later, otherwise the state of the run becomes   *)
(* that of the job.                                                        *)
JobCheck ==
  /\ worker["job"].pc = "check"
  /\ \E err \in BOOLEAN :
       /\ CheckStatus(err)
       /\ IF err THEN Returns("job", TRUE)
          ELSE /\ Writes("job", [worker["job"].copy EXCEPT !.state = run.state],
                         IF run.state \in Final THEN "stop" ELSE "again")
               /\ UNCHANGED queue
  /\ UNCHANGED <<object, cache, fresh, contract, edits>>

-----------------------------------------------------------------------------
(* SandboxTemplateReconciler.Reconcile: ready if an image is given. *)
TemplateGet ==
  LET t == cache["template"]
  IN  /\ Begins("template")
      /\ IF ~t.exists THEN queue' = queue \ {"template"} /\ UNCHANGED worker
         ELSE /\ worker' = [worker EXCEPT !["template"] =
                   [pc |-> "update", current |-> "template" \in fresh, next |-> "stop",
                    copy |-> [t EXCEPT !.state = IF t.spec # 0 THEN "ready" ELSE "not_ready"]]]
              /\ queue' = queue \ {"template"}
      /\ UNCHANGED <<object, cache, fresh, contract, run, upsets, edits>>

(* TenantNetworkPolicyReconciler.Reconcile, up to the update.  A policy    *)
(* that is gone drops the contract cached under its namespace; that of a   *)
(* policy that names its tenant stays.  Invalid CIDRs, or a NetworkPolicy  *)
(* that is not there, make it not ready, are tried again, and leave the    *)
(* contract of an earlier spec in place.                                   *)
PolicyGet ==
  LET p == cache["policy"]
      usable == p.spec # 0 /\ cache["netpol"].exists
  IN  /\ Begins("policy")
      /\ queue' = queue \ {"policy"}
      /\ IF ~p.exists
         THEN /\ contract' = IF p.id THEN contract ELSE NoContract
              /\ UNCHANGED worker
         ELSE /\ contract' = IF usable THEN <<p.spec, cache["netpol"].spec>> ELSE contract
              /\ worker' = [worker EXCEPT !["policy"] =
                   [pc |-> "update", current |-> "policy" \in fresh,
                    next |-> IF usable THEN "stop" ELSE "again",
                    copy |-> [p EXCEPT !.state = IF usable THEN "ready" ELSE "not_ready"]]]
      /\ UNCHANGED <<object, cache, fresh, run, upsets, edits>>

-----------------------------------------------------------------------------
(* Olympus, the users and the process itself. *)

(* The run goes through its states: Olympus schedules it or finds no node, *)
(* the agent launches it or fails to, and its waiter reports the end.      *)
RunAdvances ==
  /\ \E s \in RunStates :
       /\ \/ run.state = "PENDING" /\ s \in {"SCHEDULED", "FAILED"}
          \/ run.state = "SCHEDULED" /\ s \in {"RUNNING", "FAILED"}
          \/ run.state = "RUNNING" /\ s \in {"SUCCEEDED", "FAILED"}
       /\ run' = [run EXCEPT !.state = s]
  /\ UNCHANGED <<object, cache, fresh, queue, worker, contract, upsets, edits>>

(* A user deletes an object, changes the spec of one but a job, or creates *)
(* the NetworkPolicy: what a worker has read of the object is outdated.    *)
(* Deleting a job does not end its run.                                    *)
UserEdits(MaxEdits) ==
  /\ edits < MaxEdits
  /\ edits' = edits + 1
  /\ \E k \in Objects :
       /\ k = "netpol" => object["policy"].exists
       /\ \/ object[k].exists /\ object' = [object EXCEPT ![k].exists = FALSE]
          \/ /\ object[k].exists /\ k # "job"
             /\ \E s \in 0..2 : s # object[k].spec /\ object' = [object EXCEPT ![k].spec = s]
          \/ k = "netpol" /\ ~object[k].exists /\ object' = [object EXCEPT ![k].exists = TRUE]
       /\ fresh' = fresh \ {k}
       /\ worker' = [x \in Kinds |-> IF x = k THEN [worker[x] EXCEPT !.current = FALSE] ELSE worker[x]]
  /\ UNCHANGED <<cache, queue, contract, run, upsets>>

(* The operator is started again: it lists every object, and has no        *)
(* contract.                                                               *)
OperatorRestarts ==
  /\ cache' = object
  /\ fresh' = Objects
  /\ queue' = {k \in Kinds : object[k].exists}
  /\ worker' = [k \in Kinds |-> NoWork]
  /\ contract' = NoContract
  /\ Upset(1)
  /\ UNCHANGED <<object, run, edits>>

ControllerStep(k, MaxSubmits) ==
  \/ UpdateStatus(k)
  \/ k = "job" /\ (JobGet \/ JobSubmit(MaxSubmits) \/ JobCheck)
  \/ k = "template" /\ TemplateGet
  \/ k = "policy" /\ PolicyGet

-----------------------------------------------------------------------------
(* The status of each object says what its spec, or its run, asks for.  Of *)
(* a policy whose NetworkPolicy is not there nothing is said: one that was *)
(* ready before is not looked at again.                                    *)
Settled ==
  /\ object["job"].exists /\ object["job"].id => object["job"].state = run.state
  /\ object["job"].exists => object["job"].state # "none"
  /\ object["template"].exists =>
       object["template"].state = IF object["template"].spec # 0 THEN "ready" ELSE "not_ready"
  /\ object["policy"].exists /\ object["policy"].spec = 0 => object["policy"].state = "not_ready"
  /\ object["policy"].exists /\ object["policy"].spec # 0 /\ object["netpol"].exists =>
       object["policy"].state = "ready" /\ contract[1] = object["policy"].spec

(* The controllers converge: once users, failures and the run come to      *)
(* rest, every status comes to say what it should and stays so, whatever   *)
(* stale copies and refused updates were on the way (the three Reconcile   *)
(* functions, their requeues and the conflicts of Status().Update).        *)
OperatorConverges == <>[]Settled
=============================================================================

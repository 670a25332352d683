------------------------- MODULE TerminationSystem -------------------------
(***************************************************************************)
(* The ends of a sandbox, composed: a node whose agent obeys control       *)
(* messages (pkg/hecatoncheir/agent.go) through Thanatos and Hypnos while  *)
(* a goroutine waits for each VM and cleans up after it; and the deferred  *)
(* terminations of the API server, whose controller shares its runtime     *)
(* with the watchdog Erinyes.  A setting chosen at the start says which of *)
(* the two is looked at and how it is configured: the agent with or        *)
(* without Hypnos, the API server as cmd/olympus-api wires it (without a   *)
(* runtime) or as its package is meant to be wired.  It also bounds the    *)
(* case: load is the set of terminations that may be scheduled, requests   *)
(* what they may ask, messages the number of control messages, commands    *)
(* their types, and rival says whether another actor joins in, the         *)
(* shutdown of the agent or the watchdog of the server.                    *)
(***************************************************************************)
EXTENDS DeferredScheduler, Sequences, FiniteSets

CONSTANTS Settings,      \* [side, hypnos, runtime, exporter, resolver, load, requests,
                         \* commands, messages, rival]
          Template       \* the template of every sandbox

ASSUME SystemAssumption == {"loop", "exit", "fury"} \subseteq Callers

(* There is a first launch for every sandbox. *)
ASSUME SandboxesAssumption ==
  IsFiniteSet(Sandboxes) /\ Sandboxes # {} /\ Cardinality(Sandboxes) <= MaxLaunches

Commands == {"KILL", "HIBERNATE", "WAKE", "TERMINATE", "CHECKPOINT"}

(* A cap of 0 is none. *)
Policies ==
  [grace : Nat, max : Nat, checkpoint : BOOLEAN, export : BOOLEAN, set : BOOLEAN]

Resolvers ==
  [default : Policies, template : [{Template} -> Policies], reason : [Reasons -> Policies]]

ASSUME SettingsAssumption ==
  Settings \subseteq
    [side : {"node", "server"}, hypnos : BOOLEAN, runtime : BOOLEAN, exporter : BOOLEAN,
     resolver : Resolvers, load : SUBSET Terminations, requests : SUBSET Requests,
     commands : SUBSET Commands, messages : Nat, rival : BOOLEAN]

VARIABLES setting,
          overlay,       \* the sandboxes whose overlay exists
          attached,      \* the sandboxes whose network is attached
          waiter,        \* waiter[s]: the goroutine that waits for s, started at its launch
          inbox,         \* control messages not yet handled
          sent,          \* control messages published
          up,            \* the process (agent or API server) is running
          draining       \* the agent was told to shut down

nodeVars == <<overlay, attached, waiter, inbox, sent, draining>>

vars == <<vmVars, hypnosVars, schedulerVars, nodeVars, setting, up>>

WaiterState ==
  [pc : {"load", "waiting", "detach", "destroy", "done"}, l : 0..MaxLaunches]

(* Every variable has its type. *)
TypeOK ==
  /\ VMTypeOK /\ HypnosTypeOK /\ SchedulerTypeOK
  /\ setting \in Settings
  /\ overlay \subseteq Sandboxes
  /\ attached \subseteq Sandboxes
  /\ waiter \in [Sandboxes -> WaiterState]
  /\ inbox \in Seq([type : Commands, s : Sandboxes])
  /\ sent \in 0..setting.messages
  /\ up \in BOOLEAN
  /\ draining \in BOOLEAN

(* The first launches: First[s] is that of s. *)
First ==
  CHOOSE first \in [Sandboxes -> 1..Cardinality(Sandboxes)] :
    \A s, t \in Sandboxes : s # t => first[s] # first[t]

(* Every sandbox has been launched and its waiter started. *)
Init ==
  /\ setting \in Settings
  /\ vm = First
  /\ launched = Cardinality(Sandboxes)
  /\ proc = [l \in Launches |-> IF l <= launched THEN "running" ELSE "none"]
  /\ code = [l \in Launches |-> "none"]
  /\ strays = {}
  /\ call = [w \in Callers |-> NewCall("idle", CHOOSE s \in Sandboxes : TRUE, "hypnos")]
  /\ sleeping = [s \in Sandboxes |-> NoKey]
  /\ stored = {}
  /\ SchedulerInit
  /\ overlay = Sandboxes
  /\ attached = Sandboxes
  /\ waiter = [s \in Sandboxes |-> [pc |-> "load", l |-> 0]]
  /\ inbox = <<>>
  /\ sent = 0
  /\ up = TRUE
  /\ draining = FALSE

OnNode == up /\ setting.side = "node"

OnServer == up /\ setting.side = "server"

-----------------------------------------------------------------------------
(* The goroutine that waits for s and cleans up.  It is started when a job *)
(* is launched; a VM that Hypnos wakes gets none.                          *)

WaiterAt(s, pc) == OnNode /\ waiter[s].pc = pc

WaiterGoto(s, pc) == waiter' = [waiter EXCEPT ![s].pc = pc]

WaiterLoad(s) ==
  /\ WaiterAt(s, "load")
  /\ waiter' = [waiter EXCEPT ![s] = [pc |-> IF Holds(s) THEN "waiting" ELSE "detach", l |-> vm[s]]]
  /\ UNCHANGED <<vmVars, hypnosVars, schedulerVars, overlay, attached, inbox, sent, draining,
                 setting, up>>

WaiterWait(s) ==
  /\ WaiterAt(s, "waiting")
  /\ proc[waiter[s].l] \in Exits
  /\ RecordExit(waiter[s].l)
  /\ WaiterGoto(s, "detach")
  /\ UNCHANGED <<hypnosVars, schedulerVars, overlay, attached, inbox, sent, draining,
                 setting, up>>

WaiterDetach(s) ==
  /\ WaiterAt(s, "detach")
  /\ attached' = attached \ {s}
  /\ WaiterGoto(s, "destroy")
  /\ UNCHANGED <<vmVars, hypnosVars, schedulerVars, overlay, inbox, sent, draining,
                 setting, up>>

(* The overlay is destroyed and the job acknowledged. *)
WaiterDestroy(s) ==
  /\ WaiterAt(s, "destroy")
  /\ overlay' = overlay \ {s}
  /\ WaiterGoto(s, "done")
  /\ UNCHANGED <<vmVars, hypnosVars, schedulerVars, attached, inbox, sent, draining,
                 setting, up>>

WaiterStep(s) ==
  WaiterLoad(s) \/ WaiterWait(s) \/ WaiterDetach(s) \/ WaiterDestroy(s)

-----------------------------------------------------------------------------
(* The control loop of the agent takes one message at a time and makes the *)
(* call it asks for.                                                       *)

Publish(type, s) ==
  /\ OnNode
  /\ type \in setting.commands
  /\ sent < setting.messages
  /\ sent' = sent + 1
  /\ inbox' = Append(inbox, [type |-> type, s |-> s])
  /\ UNCHANGED <<vmVars, hypnosVars, schedulerVars, overlay, attached, waiter, draining,
                 setting, up>>

(* The call a message makes; without Hypnos there is no sleep and no wake. *)
Obey(type, s) ==
  CASE type = "KILL"       -> call' = [call EXCEPT !["loop"] = NewCall("kill", s, "kill")]
    [] type = "TERMINATE"  -> Terminate("loop", s, FALSE, setting.hypnos)
    [] type = "CHECKPOINT" -> Terminate("loop", s, TRUE, setting.hypnos)
    [] type = "HIBERNATE" /\ setting.hypnos ->
         call' = [call EXCEPT !["loop"] = NewCall("config", s, "hypnos")]
    [] type = "WAKE" /\ setting.hypnos ->
         call' = [call EXCEPT !["loop"] = NewCall("wake", s, "hypnos")]
    [] OTHER -> UNCHANGED call

ControlMessage ==
  /\ OnNode
  /\ Calling("loop", "idle")
  /\ inbox # <<>>
  /\ Obey(Head(inbox).type, Head(inbox).s)
  /\ inbox' = Tail(inbox)
  /\ UNCHANGED <<vmVars, sleeping, stored, schedulerVars, overlay, attached, waiter, sent,
                 draining, setting, up>>

(* A signal: every sandbox the runtime lists is terminated, with a grace   *)
(* period shorter than the time the process stays.                         *)
Drain(s) ==
  /\ OnNode
  /\ setting.rival
  /\ ~draining
  /\ draining' = TRUE
  /\ IF Holds(s) THEN Terminate("exit", s, FALSE, setting.hypnos) ELSE UNCHANGED call
  /\ UNCHANGED <<vmVars, sleeping, stored, schedulerVars, overlay, attached, waiter, inbox,
                 sent, setting, up>>

AgentExit ==
  /\ OnNode
  /\ draining
  /\ Calling("exit", "idle")
  /\ up' = FALSE
  /\ UNCHANGED <<vmVars, hypnosVars, schedulerVars, nodeVars, setting>>

-----------------------------------------------------------------------------
(* The API server: deferred terminations, cancellation, resumption from a  *)
(* checkpoint, and the watchdog with the controller as its hook.           *)

Policy(reason) == ResolvePolicy(setting.resolver, Template, reason)

ServerSchedule(t, s) ==
  /\ OnServer
  /\ t \in setting.load
  /\ \E body \in setting.requests : Schedule(t, s, body)
  /\ UNCHANGED <<vmVars, hypnosVars, nodeVars, setting, up>>

ServerExec(t) ==
  /\ OnServer
  /\ ExecBegin(t) \/ ExecElapsed(t) \/ ExecCancelled(t) \/ ExecDropped(t)
  /\ UNCHANGED <<vmVars, hypnosVars, nodeVars, setting, up>>

ServerStart(t) ==
  LET req == request[t]
  IN  /\ OnServer
      /\ ExecStart(t)
      /\ RequestTermination(t, req.s, Policy(RequestReason(req.body.reason)), ~req.body.checkpoint,
                            setting.hypnos, setting.exporter, req.body.grace)
      /\ UNCHANGED <<vmVars, sleeping, stored, nodeVars, setting, up>>

ServerFinish(t) ==
  /\ OnServer
  /\ Calling(t, "returned")
  /\ ExecFinish(t, call[t].phase \in {"failed", "killed"})
  /\ Done(t)
  /\ UNCHANGED <<vmVars, sleeping, stored, nodeVars, setting, up>>

ServerCancel(c) ==
  /\ OnServer
  /\ \/ \E s \in Sandboxes : CancelLookup(c, s)
     \/ CancelPending(c) \/ CancelRefused(c)
  /\ UNCHANGED <<vmVars, hypnosVars, nodeVars, setting, up>>

ServerCleanup ==
  /\ OnServer
  /\ \E ts \in SUBSET Terminations : Cleanup(ts)
  /\ UNCHANGED <<vmVars, hypnosVars, nodeVars, setting, up>>

(* Resume finds the sandbox whose record has the requested key and wakes   *)
(* that sandbox.                                                           *)
ServerResume(c, s) ==
  /\ OnServer
  /\ setting.hypnos
  /\ Calling(c, "idle")
  /\ call[c].phase = "none"
  /\ sleeping[s] # NoKey
  /\ call' = [call EXCEPT ![c] = NewCall("wake", s, "hypnos")]
  /\ UNCHANGED <<vmVars, sleeping, stored, schedulerVars, nodeVars, setting, up>>

(* Erinyes found a violation: the hook, and a kill when it returns false.  *)
FuryViolation(s) ==
  /\ OnServer
  /\ setting.rival
  /\ Calling("fury", "idle")
  /\ call["fury"].phase = "none"
  /\ Holds(s)
  /\ code[vm[s]] = "none"
  /\ \E why \in {"runtime_exceeded", "network_egress_exceeded"} :
       RequestTermination("fury", s, Policy(ViolationReason(why)), FALSE, setting.hypnos,
                          setting.exporter, 0)
  /\ UNCHANGED <<vmVars, sleeping, stored, schedulerVars, nodeVars, setting, up>>

FuryHookReturns ==
  /\ OnServer
  /\ Calling("fury", "returned")
  /\ IF call["fury"].via = "controller" /\ call["fury"].phase \notin {"completed", "checkpointed"}
     THEN call' = [call EXCEPT !["fury"] = NewCall("kill", call["fury"].s, "kill")]
     ELSE Done("fury")
  /\ UNCHANGED <<vmVars, sleeping, stored, schedulerVars, nodeVars, setting, up>>

-----------------------------------------------------------------------------
(* Steps of the calls under way.                                           *)

(* A nil runtime: the goroutine panics, and with it the process. *)
Panics(w) ==
  /\ Calling(w, "shutdown")
  /\ ~setting.runtime
  /\ up' = FALSE
  /\ UNCHANGED <<vmVars, hypnosVars, schedulerVars, nodeVars, setting>>

CallStep(w) ==
  /\ up
  /\ \/ /\ Sleep(w) \/ Wake(w) \/ End(w) \/ (setting.runtime /\ EndShutdown(w))
        /\ UNCHANGED <<schedulerVars, nodeVars, setting, up>>
     \/ Panics(w)

(* A caller that does nothing more with the result. *)
CallReturned(w) ==
  /\ up
  /\ w \notin Terminations \cup {"fury"}
  /\ Calling(w, "returned")
  /\ Done(w)
  /\ UNCHANGED <<vmVars, sleeping, stored, schedulerVars, nodeVars, setting, up>>

VMStep(l) ==
  /\ GuestExit(l)
  /\ UNCHANGED <<hypnosVars, schedulerVars, nodeVars, setting, up>>

Next ==
  \/ \E s \in Sandboxes : WaiterStep(s) \/ Drain(s) \/ FuryViolation(s)
  \/ \E s \in Sandboxes, type \in Commands : Publish(type, s)
  \/ ControlMessage \/ AgentExit \/ ServerCleanup \/ FuryHookReturns
  \/ \E t \in Terminations : \/ \E s \in Sandboxes : ServerSchedule(t, s)
                             \/ ServerExec(t) \/ ServerStart(t) \/ ServerFinish(t)
  \/ \E c \in Clients : ServerCancel(c) \/ \E s \in Sandboxes : ServerResume(c, s)
  \/ \E w \in Callers : CallStep(w) \/ CallReturned(w)
  \/ \E l \in Launches : VMStep(l)

Spec == Init /\ [][Next]_vars

(* The goroutines of terminations and the control loop are scheduled,      *)
(* delays and grace periods pass; no guest need halt, and nobody else need *)
(* finish a call.                                                          *)
Fairness ==
  /\ \A w \in {"loop"} \cup Terminations : WF_vars(CallStep(w) \/ CallReturned(w))
  /\ \A t \in Terminations : WF_vars(ServerExec(t) \/ ServerStart(t) \/ ServerFinish(t))
  /\ WF_vars(ControlMessage)

FairSpec == Spec /\ Fairness

-----------------------------------------------------------------------------
(* A sleep record names a snapshot whose memory and disk are both in the   *)
(* store: what Hypnos lists as resumable can be downloaded.                *)
RecordRestorable ==
  \A s \in Sandboxes : sleeping[s] # NoKey =>
    \A part \in {"mem", "disk"} : <<sleeping[s], part>> \in stored

(* What a termination reports is so: a completed one has seen its VM end,  *)
(* and a checkpointed one has stored its snapshot and ended its VM, a      *)
(* woken one too.  The only VMs that may run on are the ones that left the *)
(* map while they ran: their StopVMM failed, which Kill and Sleep ignore,  *)
(* a Kill begun before they were launched deleted their entry, or another  *)
(* Wake replaced it.  In no case does the runtime still offer the VM.      *)
ReportedEndIsReal ==
  \A w \in Callers :
    /\ call[w].via \in {"handler", "controller"} /\ call[w].phase = "completed" =>
         proc[call[w].l] \in Exits
    /\ call[w].phase = "checkpointed" =>
         /\ proc[call[w].l] \in {"stopping"} \cup Exits \/ call[w].l \in strays
         /\ \A part \in {"mem", "disk"} : <<KeyOf(w), part>> \in stored

(* A VM whose exit was recorded when a wait for it ran out of time, though *)
(* it still ran, is being killed by the call that waited: Inspect reports  *)
(* it as failed and the watchdog lets go of it, so nobody else would.      *)
ExpiredVMIsKilled ==
  \A l \in Launches :
    code[l] # "none" /\ proc[l] \in {"running", "paused"} =>
      l \in strays \/ \E w \in Callers : call[w].l = l /\ call[w].pc \in {"kill", "unmap"}

(* The longest grace period under a policy: its own cap, the hard cap when *)
(* it has none.                                                            *)
Limit(policy) == IF policy.max > 0 THEN policy.max ELSE MaxGracePeriod

(* The reasons for which the controller may be at work for w: the one that *)
(* the request gave, any for the watchdog.                                 *)
ReasonsOf(w) == IF w = "fury" THEN Reasons ELSE {RequestReason(request[w].body.reason)}

(* The guest of a termination by the controller is given some time to      *)
(* halt, and never more than the policy that applies to it allows.         *)
GraceWithinPolicy ==
  \A w \in Callers :
    call[w].via = "controller" /\ call[w].pc \in EndPC =>
      \E reason \in ReasonsOf(w) : call[w].grace \in 1..Limit(Policy(reason))

(* Seen from what its goroutine does, every termination has the life cycle *)
(* that the API promises: cancelled before it acts, or carried out once.   *)
Lifecycle == INSTANCE TerminationLifecycle
               WITH stage <- [t \in Terminations |->
                                IF runner[t] = "run" THEN "in_progress" ELSE termination[t]]

ImplementsLifecycle == Lifecycle!Spec

(* A scheduled termination is carried out or cancelled and every control   *)
(* message is handled, unless the process ends first: no call that they    *)
(* make can block for ever, whatever the guest does.                       *)
TerminationSettles ==
  /\ \A t \in Terminations :
       termination[t] \in {"pending", "in_progress"} ~>
         (termination[t] \notin {"pending", "in_progress"} \/ ~up)
  /\ inbox # <<>> ~> (inbox = <<>> \/ ~up)

(* A sandbox that sleeps keeps the overlay and the network that its saved  *)
(* configuration refers to, so that it can be launched again on wake.      *)
SleepingKeepsResources ==
  \A s \in Sandboxes : sleeping[s] # NoKey => s \in overlay /\ s \in attached
=============================================================================

--------------------------- MODULE ServicesSystem ---------------------------
(***************************************************************************)
(* The services around the core: the snapshots of templates (Nyx), the     *)
(* streams between a user and a sandbox (ControlStreams), the network of   *)
(* a node (StyxGateway) and the Kubernetes operator (Operator).  Snapshots *)
(* and streams meet in a snapshot that a user takes of a sandbox: the      *)
(* agent's handler saves it with the manager of the agent, next to the     *)
(* jobs of the agent that look one up; and a process that ends takes its   *)
(* manager, its calls and the map of its gateway with it.  The operator    *)
(* talks to none of them.                                                  *)
(*                                                                         *)
(* A setting says which parts are used and bounds what is counted:         *)
(*   active   the calls of the API, their operations are ops               *)
(*   kinds    the objects of the operator                                  *)
(*   calls    calls of the snapshot managers                               *)
(*   snaps    snapshots                                                    *)
(*   out      chunks of output of a handler                                *)
(*   ids      the jobs that are attached to the network and their IDs      *)
(*   attach   calls of Attach                                              *)
(*   faults   failures                                                     *)
(***************************************************************************)
EXTENDS Nyx, ControlStreams, Operator, StyxGateway

CONSTANTS Settings,    \* the settings
          Buffer,      \* chunks a subscriber holds
          MaxTyped,    \* bound: lines typed into a shell
          MaxSubmits,  \* bound: submissions of the job of the operator
          MaxEdits     \* bound: changes made by users of Kubernetes

VARIABLES setting

servicesVars == <<nyxVars, streamVars, operatorVars, gatewayVars, setting>>

ASSUME SettingsAssumption ==
  \A s \in Settings : /\ s.active \subseteq Requests /\ s.ops \subseteq Ops
                      /\ s.kinds \subseteq Kinds /\ s.attach \in Nat
                      /\ s.ids \in UNION {[jobs -> IDs] : jobs \in SUBSET Jobs}
                      /\ s.calls \in Nat /\ s.snaps \in Nat /\ s.out \in Nat /\ s.faults \in Nat
ASSUME BoundsAssumption ==
  /\ Buffer \in Nat \ {0} /\ MaxTyped \in Nat
  /\ MaxSubmits \in Nat /\ MaxEdits \in Nat
ASSUME ManagersAssumption == Managers = {"olympus", "agent"} /\ NoCaller \notin Callers

Snaps == 1..setting.snaps

Init ==
  /\ setting \in Settings
  /\ NyxInit(Snaps)
  /\ StreamsInit(setting.ops, setting.active)
  /\ OperatorInit(setting.kinds)
  /\ GatewayInit(setting.ids)

-----------------------------------------------------------------------------
(* Calls of the managers.  The jobs of the agent look up a snapshot, users *)
(* of Olympus delete one.  Prepare and Invalidate have no caller in the    *)
(* repository: they are called on either manager.                          *)
JobLooksUp == \E c \in Callers : NyxBegin(c, "agent", "get", 0)
UserDeletes == \E c \in Callers, i \in 1..made : NyxBegin(c, "olympus", "delete", i)
AdminPrepares == \E c \in Callers, m \in Managers : NyxBegin(c, m, "prepare", 0)
AdminInvalidates == \E c \in Callers, m \in Managers : NyxBegin(c, m, "invalidate", 0)

SnapshotCalls ==
  /\ JobLooksUp \/ UserDeletes \/ AdminPrepares \/ AdminInvalidates
  /\ UNCHANGED <<streamVars, operatorVars, gatewayVars>>

SnapshotSteps == /\ \E c \in Callers : NyxStep(c, Snaps)
                 /\ UNCHANGED <<streamVars, operatorVars, gatewayVars>>

(* handleSnapshot hands the files to SaveSnapshot. *)
SnapshotSaved == /\ \E r \in Requests, c \in Callers :
                      SnapshotCreated(r) /\ NyxBegin(c, "agent", "save", 0)
                 /\ UNCHANGED <<operatorVars, gatewayVars>>

(* The main loop of the agent attaches a job, its waiter detaches it.      *)
NetworkSteps ==
  /\ agentUp
  /\ \E j \in DOMAIN setting.ids : GatewayAttach(j) \/ GatewayDetach(j)
  /\ UNCHANGED <<nyxVars, streamVars, operatorVars>>

(* The processes end, the agent perhaps by a panic of Attach. *)
AgentEnds == /\ setting.kinds = {}
             /\ AgentStops /\ NyxRestart("agent")
             /\ GatewayRestarts \/ \E j \in DOMAIN setting.ids : AttachPanics(j)
             /\ UNCHANGED operatorVars
OlympusEnds == /\ setting.kinds = {} /\ setting.attach = 0
               /\ ApiRestarts /\ NyxRestart("olympus")
               /\ UNCHANGED <<operatorVars, gatewayVars>>

StreamSteps ==
  /\ \/ \E r \in Requests : \/ ApiStep(r, MaxTyped) \/ HandlerStep(r, setting.out, Buffer)
                            \/ SnapshotFails(r)
     \/ Receive \/ AgentStarts
     \/ setting.attach = 0 /\ SandboxStep
  /\ UNCHANGED <<nyxVars, operatorVars, gatewayVars>>

ControllerSteps(k) == /\ ControllerStep(k, MaxSubmits)
                      /\ UNCHANGED <<nyxVars, streamVars, gatewayVars>>

Synced(k) == CacheSync(k) /\ UNCHANGED <<nyxVars, streamVars, gatewayVars>>

ClusterSteps ==
  /\ setting.kinds # {}
  /\ RunAdvances \/ UserEdits(MaxEdits) \/ OperatorRestarts
  /\ UNCHANGED <<nyxVars, streamVars, gatewayVars>>

(* What is counted stays within its bound. *)
Bounded ==
  /\ setting' = setting
  /\ spent'.calls <= setting.calls /\ attempts' <= setting.attach
  /\ spent'.faults + mishaps' + upsets' <= setting.faults

Next ==
  /\ \/ SnapshotCalls \/ SnapshotSteps \/ SnapshotSaved
     \/ NetworkSteps
     \/ AgentEnds \/ OlympusEnds
     \/ StreamSteps
     \/ (\E k \in Kinds : ControllerSteps(k)) \/ (\E k \in Objects : Synced(k))
     \/ ClusterSteps
  /\ Bounded

(* The worker of a controller and the watch of the cache go on: the Go     *)
(* scheduler runs their goroutines, and the work queue keeps a key until   *)
(* it has been handed out.                                                 *)
Fairness == /\ \A k \in Kinds : WF_servicesVars(ControllerSteps(k) /\ Bounded)
            /\ \A k \in Objects : WF_servicesVars(Synced(k) /\ Bounded)

Spec == Init /\ [][Next]_servicesVars /\ Fairness

-----------------------------------------------------------------------------
(* Type correctness of the services, with the exclusion of the mutex of a  *)
(* manager: of the calls past its entry only the read-through of           *)
(* GetSnapshot goes on without it, and there is one of these.              *)
TypeOK ==
  /\ store \subseteq Snaps \X Part
  /\ latest \in 0..made /\ made \in 0..setting.snaps
  /\ files \in [Managers -> [Snaps -> [Part -> {"none", "torn", "whole"}]]]
  /\ lock \in [Managers -> Callers \cup {NoCaller}]
  /\ \A c \in Callers : nyxCall[c].op \in {"prepare", "save", "delete", "invalidate"}
                        /\ nyxCall[c].todo # <<>> /\ Head(nyxCall[c].todo).act # "enter"
                          => lock[nyxCall[c].m] = c
  /\ \A m \in Managers : \A c, d \in Flight(m) : c = d
  /\ record \in {"none", "node", "no_node"} /\ sandbox \in {"none", "running", "gone"}
  /\ \A r \in Requests : /\ req[r].pc \in {"ready", "request", "waiting", "stuck", "done"}
                         /\ handler[r].pc \in {"none", "start", "run", "ended"}
                         /\ Len(inbox[r]) <= Buffer
  /\ \A k \in Kinds : /\ object[k].state \in RunStates \cup {"none", "ready", "not_ready"}
                      /\ worker[k].pc \in {"idle", "submit", "check", "update"}
  /\ queue \subseteq Kinds /\ fresh \subseteq Objects
=============================================================================

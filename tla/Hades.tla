-------------------------------- MODULE Hades --------------------------------
(***************************************************************************)
(* Hades, the registry (pkg/hades/redis_registry.go): one Redis key per    *)
(* run and one per node.  Every write replaces the whole record and no     *)
(* write checks what it replaces.  Of a run the model keeps the status and *)
(* the node, the two fields that other components act on; of a node,       *)
(* whether its key is present.  A run's 24 hour TTL is longer than any     *)
(* behaviour modelled here.                                                *)
(***************************************************************************)
EXTENDS Domain

VARIABLES runs,        \* runs[s]: the record of sandbox s
          registered,  \* registered[n]: n's heartbeat key has not expired
          disturbed    \* history: IDs a write was lost for

runVars == <<runs, disturbed>>
hadesVars == <<runs, registered, disturbed>>

(* The status of an ID the registry holds no record of. *)
NotFound == "NOT_FOUND"

RunRecord == [status : RunStatus \cup {NotFound}, node : Nodes \cup {NoNode}]

HadesTypeOK ==
  /\ runs \in [SandboxIDs -> RunRecord]
  /\ registered \in [Nodes -> BOOLEAN]
  /\ disturbed \in SUBSET SandboxIDs

HadesInit ==
  /\ runs = [s \in SandboxIDs |-> [status |-> NotFound, node |-> NoNode]]
  /\ registered = [n \in Nodes |-> TRUE]
  /\ disturbed = {}

(* UpdateRun: a blind SET of the run's key, or an error and no effect. *)
UpdateRun(s, status, node, ok) ==
  IF ok THEN /\ runs' = [runs EXCEPT ![s] = [status |-> status, node |-> node]]
             /\ UNCHANGED disturbed
        ELSE /\ disturbed' = disturbed \cup {s}
             /\ UNCHANGED runs

GetRun(s) == runs[s]

UpdateHeartbeat(n) == registered' = [registered EXCEPT ![n] = TRUE]

(* The heartbeat key reaches its TTL. *)
ExpireNode(n) == registered' = [registered EXCEPT ![n] = FALSE]

ListNodes == {n \in Nodes : registered[n]}
=============================================================================

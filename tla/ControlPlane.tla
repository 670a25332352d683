---------------------------- MODULE ControlPlane ----------------------------
(***************************************************************************)
(* The control topics between Olympus and the agents                       *)
(* (pkg/olympus/redis_control.go, pkg/hecatoncheir/control.go).  There is  *)
(* one Redis pub/sub topic per node ID.  A message published while nobody  *)
(* is subscribed is dropped, and Publish reports no error for it.  Of the  *)
(* commands the model carries KILL; a request for the list of sandboxes    *)
(* gets no answer (ReconcileQuery).                                        *)
(***************************************************************************)
EXTENDS Domain, Sequences

VARIABLES up,          \* up[n]: the agent of n runs and is subscribed
          control      \* control[n]: kill messages the agent has not handled

controlVars == <<up, control>>

ControlTypeOK ==
  /\ up \in [Nodes -> BOOLEAN]
  /\ control \in [Nodes -> Seq(SandboxIDs)]

ControlInit ==
  /\ up = [n \in Nodes |-> TRUE]
  /\ control = [n \in Nodes |-> <<>>]

(* Kill publishes on the topic of the node it is given, which has no       *)
(* subscriber when that node ID is empty or its agent is down.  A message  *)
(* is lost as well when Publish fails, when the subscription is just being *)
(* renewed, and when the agent could not subscribe at its start.           *)
PublishKill(node, s, ok) ==
  control' = [n \in Nodes |->
                IF n = node /\ up[n] /\ ok THEN Append(control[n], s) ELSE control[n]]
=============================================================================

------------------------ MODULE TerminationLifecycle ------------------------
(***************************************************************************)
(* What the deferred termination API promises of each termination: it is   *)
(* scheduled once, and it is either cancelled before it starts or runs     *)
(* once, to completion or failure; only then may it be forgotten.          *)
(***************************************************************************)
CONSTANT Terminations

VARIABLE stage    \* stage[t]: where termination t stands

Stages == {"unused", "pending", "in_progress", "completed", "failed", "cancelled", "removed"}

Settled == {"completed", "failed", "cancelled"}

Init == stage = [t \in Terminations |-> "unused"]

Move(t, from, to) == stage[t] = from /\ stage' = [stage EXCEPT ![t] = to]

Schedule(t) == Move(t, "unused", "pending")

Start(t) == Move(t, "pending", "in_progress")

Finish(t) == Move(t, "in_progress", "completed") \/ Move(t, "in_progress", "failed")

Cancel(t) == Move(t, "pending", "cancelled")

Remove(ts) ==
  /\ \A t \in ts : stage[t] \in Settled
  /\ stage' = [t \in Terminations |-> IF t \in ts THEN "removed" ELSE stage[t]]

Next ==
  \/ \E t \in Terminations : Schedule(t) \/ Start(t) \/ Finish(t) \/ Cancel(t)
  \/ \E ts \in SUBSET Terminations : Remove(ts)

Spec == Init /\ [][Next]_stage
=============================================================================

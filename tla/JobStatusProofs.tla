-------------------------- MODULE JobStatusProofs --------------------------
(***************************************************************************)
(* What TartarusSystem guarantees about the resources, the watcher and the *)
(* recorded status of a job, for every value of the constants.  Each       *)
(* invariant is about the one live entry of a sandbox that was submitted   *)
(* once, and is inductive relative to those of JobProofs.                  *)
(***************************************************************************)
EXTENDS JobProofs

USE DEF queueVars, hadesVars, runVars, controlVars, runtimeVars, furyVars, letheVars,
        olympusVars, agentVars, agentSide

-----------------------------------------------------------------------------
(* The overlay and the network of the one live entry.                      *)

(* The main loop cleans up after a failed attach or launch. *)
LetsGo(n) == job[n].pc \in {"attach", "launch"} /\ job'[n] = Idle

(* What a step that is not a crash of n does to the overlays and the       *)
(* allocations there: it removes them only for the goroutine that lets go. *)
Keeps(n) ==
  /\ \A r \in Receipts :
       /\ r \in overlays[n] => \/ r \in overlays'[n]
                               \/ job[n].r = r /\ LetsGo(n)
                               \/ waiter[n][r] = "destroy"
       /\ r \in overlays'[n] /\ r \notin leaked'[n] =>
            \/ /\ r \in overlays[n] /\ r \notin leaked[n]
               /\ \/ job[n].r # r \/ job'[n].r = r \/ job[n].pc \in {"stage", "arm"}
               /\ waiter[n][r] = "destroy" => waiter'[n][r] = "destroy"
            \/ job'[n].r = r /\ job'[n].pc = "attach"
  /\ \A s \in SandboxIDs :
       s \in attached[n] =>
         \/ s \in attached'[n]
         \/ JobID(n) = s /\ LetsGo(n)
         \/ \E r \in Receipts : waiter[n][r] = "detach" /\ Payload(n, r) = s

LEMMA KeepsUnchanged ==
  ASSUME UNCHANGED <<letheVars, attached>>, NEW n \in Nodes,
         \/ job'[n] = job[n]
         \/ \A r \in Receipts : job[n].r # r \/ job'[n].r = r \/ job[n].pc \in {"stage", "arm"},
         \A r \in Receipts : waiter[n][r] = "destroy" => waiter'[n][r] = "destroy"
  PROVE  Keeps(n)
  BY Zenon DEF Keeps

(* DestroyOverlay removes the file, or records that it is left. *)
LEMMA DestroyEffect ==
  ASSUME WorkTypes, NEW n \in Nodes, NEW r \in Receipts, NEW ok \in BOOLEAN,
         DestroyOverlay(n, r, ok)
  PROVE  /\ \A m \in Nodes : m # n => overlays'[m] = overlays[m] /\ leaked'[m] = leaked[m]
         /\ \A q \in Receipts : q # r => (q \in overlays'[n] <=> q \in overlays[n])
                                         /\ (q \in leaked'[n] <=> q \in leaked[n])
         /\ r \in overlays'[n] => r \in leaked'[n]
<1>1. CASE ok
  BY <1>1 DEF DestroyOverlay, WorkTypes
<1>2. CASE ~ok
  BY <1>2 DEF DestroyOverlay, WorkTypes
<1>. QED BY <1>1, <1>2, Zenon

(* Attach and Detach touch one allocation. *)
LEMMA DetachEffect ==
  ASSUME WorkTypes, NEW n \in Nodes, NEW s \in SandboxIDs,
         (\E ok \in BOOLEAN : Detach(n, s, ok)) \/ AttachFails(n, s) \/ Attach(n, s)
  PROVE  /\ \A m \in Nodes : m # n => attached'[m] = attached[m]
         /\ \A t \in SandboxIDs : t # s => (t \in attached'[n] <=> t \in attached[n])
<1>1. CASE Attach(n, s) \/ AttachFails(n, s)
  BY <1>1 DEF Attach, AttachFails, WorkTypes
<1>2. ASSUME NEW ok \in BOOLEAN, Detach(n, s, ok)
      PROVE  /\ \A m \in Nodes : m # n => attached'[m] = attached[m]
             /\ \A t \in SandboxIDs : t # s => (t \in attached'[n] <=> t \in attached[n])
  <2>1. CASE ok
    BY <1>2, <2>1 DEF Detach, WorkTypes
  <2>2. CASE ~ok
    BY <1>2, <2>2 DEF Detach, WorkTypes
  <2>. QED BY <2>1, <2>2, Zenon
<1>. QED BY <1>1, <1>2, Zenon

(* A main loop keeps what it does not let go. *)
LEMMA MainLoopKeeps ==
  ASSUME IInv, NEW n \in Nodes, MainLoopStep(n), NEW m \in Nodes
  PROVE  Keeps(m)
<1>0. WorkTypes /\ AgentTypes
  BY WorkTyped, AgentTyped
<1>1. \A r \in Receipts : waiter[m][r] = "destroy" => waiter'[m][r] = "destroy"
  <2>2. CASE ArmAndWait(n)
    <3>1. WaiterGoto(n, job[n].r, "start") /\ job[n].r \in Receipts /\ job[n].pc = "arm"
      BY <2>2, BusyJob DEF ArmAndWait, At, WaiterGoto
    <3>2. waiter[n][job[n].r] = "none"
      BY <3>1, Zenon DEF IInv, HandledEntryPending
    <3>. QED BY <1>0, <3>1, <3>2, ToWait, SMTT(30) DEF WaitsAt
  <2>3. CASE ~ArmAndWait(n)
    <3>1. waiter' = waiter
      BY <2>3, Zenon DEF MainLoopStep, Dequeue, DequeuePoison, Stage, StageFails, AttachNetwork,
         AttachNetworkFails, LaunchVM, LaunchVMFails, ReportRunning
    <3>. QED BY <3>1, Zenon
  <2>. QED BY <2>2, <2>3
<1>2. job'[m] = job[m] \/ m = n
  <2>1. CASE DequeuePoison(n)
    BY <2>1 DEF DequeuePoison
  <2>2. CASE Dequeue(n)
    BY <1>0, <2>2 DEF Dequeue, AgentTypes
  <2>3. CASE StageFails(n) \/ AttachNetworkFails(n) \/ LaunchVMFails(n) \/ ArmAndWait(n)
    BY <1>0, <2>3, ToIdle, Zenon DEF StageFails, AttachNetworkFails, LaunchVMFails, ArmAndWait
  <2>4. CASE Stage(n) \/ AttachNetwork(n) \/ LaunchVM(n) \/ ReportRunning(n)
    <3>1. PICK pc : JobGoto(n, pc)
      BY <2>4, Zenon DEF Stage, AttachNetwork, LaunchVM, ReportRunning
    <3>. QED BY <1>0, <3>1 DEF JobGoto, AgentTypes
  <2>. QED BY <2>1, <2>2, <2>3, <2>4, Zenon DEF MainLoopStep
<1>3. CASE Dequeue(n) \/ DequeuePoison(n) \/ LaunchVM(n) \/ ReportRunning(n) \/ ArmAndWait(n)
  <2>1. UNCHANGED <<letheVars, attached>>
    BY <1>3, Zenon DEF Dequeue, DequeuePoison, LaunchVM, ReportRunning, ArmAndWait
  <2>2. \/ job'[n] = job[n]
        \/ \A r \in Receipts : job[n].r # r \/ job'[n].r = r \/ job[n].pc \in {"stage", "arm"}
    <3>1. CASE Dequeue(n)
      <4>1. job[n].r = 0
        BY <3>1, Zenon DEF Dequeue, At, IInv, HoldersOK
      <4>. QED BY <4>1, ReceiptFact, Zenon
    <3>2. CASE DequeuePoison(n)
      BY <3>2, Zenon DEF DequeuePoison
    <3>3. CASE LaunchVM(n) \/ ReportRunning(n)
      BY <1>0, <3>3, ToStep, Zenon DEF LaunchVM, ReportRunning
    <3>4. CASE ArmAndWait(n)
      BY <3>4 DEF ArmAndWait, At
    <3>. QED BY <1>3, <3>1, <3>2, <3>3, <3>4, Zenon
  <2>. QED BY <1>1, <1>2, <2>1, <2>2, KeepsUnchanged, Zenon
<1>4. ASSUME UNCHANGED <<overlays[m], leaked[m], attached[m]>>, m # n PROVE Keeps(m)
  BY <1>1, <1>2, <1>4, Zenon DEF Keeps
<1>5. CASE Stage(n)
  <2>1. UNCHANGED <<attached, leaked>> /\ JobGoto(n, "attach") /\ job[n].pc = "stage"
        /\ overlays' = [overlays EXCEPT ![n] = @ \cup {job[n].r}]
    BY <1>5, Zenon DEF Stage, CreateOverlay, At
  <2>2. \A k \in Nodes : overlays'[k] = IF k = n THEN overlays[k] \cup {job[n].r} ELSE overlays[k]
    BY <1>0, <2>1, Zenon DEF WorkTypes
  <2>3. job'[n].r = job[n].r /\ job'[n].pc = "attach"
    BY <1>0, <2>1, ToStep, Zenon
  <2>4. CASE m # n
    BY <1>4, <2>1, <2>2, <2>4, Zenon
  <2>5. CASE m = n
    BY <1>1, <2>1, <2>2, <2>3, <2>5, SMTT(30) DEF Keeps
  <2>. QED BY <2>4, <2>5
<1>6. CASE StageFails(n)
  <2>1. UNCHANGED attached /\ CreateOverlayFails(n, job[n].r) /\ job[n].pc = "stage"
    BY <1>6 DEF StageFails, At
  <2>2. /\ \A k \in Nodes : k # n => overlays'[k] = overlays[k] /\ leaked'[k] = leaked[k]
        /\ overlays[n] \subseteq overlays'[n]
        /\ \A r \in Receipts : r \in overlays'[n] /\ r \notin leaked'[n] =>
             r \in overlays[n] /\ r \notin leaked[n]
    BY <1>0, <2>1, Zenon DEF CreateOverlayFails, WorkTypes
  <2>3. CASE m # n
    BY <1>4, <2>1, <2>2, <2>3
  <2>4. CASE m = n
    BY <1>1, <2>1, <2>2, <2>4, Zenon DEF Keeps
  <2>. QED BY <2>3, <2>4
<1>7. CASE AttachNetwork(n)
  <2>1. UNCHANGED letheVars /\ attached' = [attached EXCEPT ![n] = @ \cup {JobID(n)}]
        /\ \E pc : JobGoto(n, pc)
    BY <1>7, Zenon DEF AttachNetwork, Attach
  <2>2. \A k \in Nodes : attached'[k] = IF k = n THEN attached[k] \cup {JobID(n)} ELSE attached[k]
    BY <1>0, <2>1, Zenon DEF WorkTypes
  <2>3. job'[n].r = job[n].r
    BY <1>0, <2>1, ToStep, Zenon
  <2>4. CASE m # n
    BY <1>4, <2>1, <2>2, <2>4, Zenon
  <2>5. CASE m = n
    BY <1>1, <2>1, <2>2, <2>3, <2>5, SMTT(30) DEF Keeps
  <2>. QED BY <2>4, <2>5
<1>8. CASE AttachNetworkFails(n) \/ LaunchVMFails(n)
  <2>1. job[n].pc \in {"attach", "launch"} /\ job[n].r \in Receipts /\ JobID(n) \in SandboxIDs
    BY <1>8, BusyJob, Zenon DEF AttachNetworkFails, LaunchVMFails, At, JobID
  <2>2. job'[n] = Idle
    BY <1>0, <1>8, ToIdle, Zenon DEF AttachNetworkFails, LaunchVMFails
  <2>3. (\E ok \in BOOLEAN : Detach(n, JobID(n), ok)) \/ AttachFails(n, JobID(n))
    BY <1>8, Zenon DEF AttachNetworkFails, LaunchVMFails
  <2>4. PICK destroyed \in BOOLEAN : DestroyOverlay(n, job[n].r, destroyed)
    BY <1>8, Zenon DEF AttachNetworkFails, LaunchVMFails
  <2>5. /\ \A k \in Nodes : k # n => attached'[k] = attached[k]
        /\ \A t \in SandboxIDs : t # JobID(n) => (t \in attached'[n] <=> t \in attached[n])
    BY <1>0, <2>1, <2>3, DetachEffect, Zenon
  <2>6. /\ \A k \in Nodes : k # n => overlays'[k] = overlays[k] /\ leaked'[k] = leaked[k]
        /\ \A q \in Receipts : q # job[n].r => (q \in overlays'[n] <=> q \in overlays[n])
                                               /\ (q \in leaked'[n] <=> q \in leaked[n])
        /\ job[n].r \in overlays'[n] => job[n].r \in leaked'[n]
    BY <1>0, <2>1, <2>4, DestroyEffect, Zenon
  <2>7. CASE m # n
    BY <1>4, <2>5, <2>6, <2>7, Zenon
  <2>8. CASE m = n
    BY <1>1, <2>1, <2>2, <2>5, <2>6, <2>8, Zenon DEF Keeps, LetsGo
  <2>. QED BY <2>7, <2>8
<1>. QED BY <1>3, <1>5, <1>6, <1>7, <1>8, Zenon DEF MainLoopStep

(* A waiter keeps what it does not clean up. *)
LEMMA WaiterKeeps ==
  ASSUME IInv, NEW n \in Nodes, NEW r \in Receipts, WaiterStep(n, r), NEW m \in Nodes
  PROVE  Keeps(m)
<1>0. WorkTypes /\ AgentTypes
  BY WorkTyped, AgentTyped
<1>1. job' = job
  BY Zenon DEF WaiterStep, WaiterLoad, WaiterWait, WaiterDisarm, WaiterReport, WaiterDetach,
     WaiterDestroy, WaiterAck
<1>2. ~WaiterDestroy(n, r) => \A q \in Receipts : waiter[m][q] = "destroy" => waiter'[m][q] = "destroy"
  <2>. SUFFICES ASSUME ~WaiterDestroy(n, r), NEW q \in Receipts, waiter[m][q] = "destroy"
                PROVE  waiter'[m][q] = "destroy"
    OBVIOUS
  <2>1. PICK pc : WaiterGoto(n, r, pc)
    BY Zenon DEF WaiterStep, WaiterLoad, WaiterWait, WaiterDisarm, WaiterReport, WaiterDetach,
       WaiterAck
  <2>2. waiter[n][r] # "destroy"
    BY Zenon DEF WaiterStep, WaiterLoad, WaiterWait, WaiterDisarm, WaiterReport, WaiterDetach,
       WaiterAck, WaiterAt
  <2>3. waiter'[m][q] = IF m = n /\ q = r THEN pc ELSE waiter[m][q]
    BY <1>0, <2>1, ToWait DEF WaitsAt
  <2>. QED BY <2>2, <2>3, Zenon
<1>3. CASE WaiterDetach(n, r)
  <2>1. waiter[n][r] = "detach" /\ UNCHANGED letheVars
        /\ \E ok \in BOOLEAN : Detach(n, Payload(n, r), ok)
    BY <1>3, Zenon DEF WaiterDetach, WaiterAt
  <2>2. r \in Jobs(n) /\ Payload(n, r) \in SandboxIDs
    BY <2>1, HolderPayload, Zenon DEF IInv, HoldersOK
  <2>3. /\ \A k \in Nodes : k # n => attached'[k] = attached[k]
        /\ \A t \in SandboxIDs : t # Payload(n, r) => (t \in attached'[n] <=> t \in attached[n])
    BY <1>0, <2>1, <2>2, DetachEffect, Zenon
  <2>4. ~WaiterDestroy(n, r)
    BY <2>1, Zenon DEF WaiterDestroy, WaiterAt
  <2>5. CASE m # n
    BY <1>1, <1>2, <2>1, <2>3, <2>4, <2>5, Zenon DEF Keeps
  <2>6. CASE m = n
    BY <1>1, <1>2, <2>1, <2>3, <2>4, <2>6, Zenon DEF Keeps
  <2>. QED BY <2>5, <2>6
<1>4. CASE WaiterDestroy(n, r)
  <2>1. waiter[n][r] = "destroy" /\ UNCHANGED attached /\ WaiterGoto(n, r, "ack")
    BY <1>4, Zenon DEF WaiterDestroy, WaiterAt
  <2>2. PICK ok \in BOOLEAN : DestroyOverlay(n, r, ok)
    BY <1>4, Zenon DEF WaiterDestroy
  <2>3. /\ \A k \in Nodes : k # n => overlays'[k] = overlays[k] /\ leaked'[k] = leaked[k]
        /\ \A q \in Receipts : q # r => (q \in overlays'[n] <=> q \in overlays[n])
                                        /\ (q \in leaked'[n] <=> q \in leaked[n])
        /\ r \in overlays'[n] => r \in leaked'[n]
    BY <1>0, <2>2, DestroyEffect, Zenon
  <2>4. \A k \in Nodes, q \in Receipts :
          waiter'[k][q] = IF k = n /\ q = r THEN "ack" ELSE waiter[k][q]
    BY <1>0, <2>1, ToWait, SMTT(30) DEF WaitsAt
  <2>5. CASE m # n
    BY <1>1, <2>1, <2>3, <2>4, <2>5, Zenon DEF Keeps
  <2>6. CASE m = n
    BY <1>1, <2>1, <2>3, <2>4, <2>6, Zenon DEF Keeps
  <2>. QED BY <2>5, <2>6
<1>5. CASE ~WaiterDetach(n, r) /\ ~WaiterDestroy(n, r)
  <2>1. UNCHANGED <<letheVars, attached>>
    BY <1>5, Zenon DEF WaiterStep, WaiterLoad, WaiterWait, WaiterDisarm, WaiterReport, WaiterAck
  <2>. QED BY <1>1, <1>2, <1>5, <2>1, KeepsUnchanged, Zenon
<1>. QED BY <1>3, <1>4, <1>5

(* Every step that is not a crash of n keeps things there this way. *)
LEMMA KeepsSteps ==
  ASSUME IInv, [Next]_vars, NEW n \in Nodes
  PROVE  Keeps(n) \/ Crash(n)
<1>0. WorkTypes
  BY WorkTyped
<1>a. ASSUME UNCHANGED <<letheVars, attached, job, waiter>> PROVE Keeps(n)
  BY <1>a, KeepsUnchanged
<1>1. ASSUME NEW c \in Clients, SubmitStep(c) PROVE Keeps(n)
  BY <1>1, <1>a, Zenon DEF SubmitStep
<1>2. ASSUME ReconcileStep \/ OperatorStep PROVE Keeps(n)
  BY <1>2, <1>a, Zenon DEF ReconcileStep, OperatorStep
<1>3. ASSUME NEW m \in Nodes, MainLoopStep(m) PROVE Keeps(n)
  BY <1>3, MainLoopKeeps
<1>4. ASSUME NEW m \in Nodes, NEW r \in Receipts, WaiterStep(m, r) PROVE Keeps(n)
  BY <1>4, WaiterKeeps
<1>5. ASSUME NEW m \in Nodes, Crash(m) PROVE Keeps(n) \/ Crash(n)
  <2>1. CASE m = n
    BY <1>5, <2>1
  <2>2. CASE m # n
    <3>1. /\ job'[n] = job[n] /\ waiter'[n] = waiter[n] /\ attached'[n] = attached[n]
          /\ overlays'[n] = overlays[n] /\ leaked'[n] = leaked[n]
      BY <1>0, <1>5, <2>2, Zenon DEF Crash, AgentCrash, AbandonOverlays, WorkTypes, AgentTypes
    <3>. QED BY <3>1, Zenon DEF Keeps
  <2>. QED BY <2>1, <2>2
<1>6. ASSUME NEW m \in Nodes, NEW r \in Receipts,
             \/ FuryStep(m, r) \/ GuestExits(m, r) \/ ControlStep(m) \/ Restart(m)
             \/ Heartbeat(m) \/ HeartbeatExpires(m) \/ ForeignEntry(m)
      PROVE  Keeps(n)
  BY <1>6, <1>a, Zenon DEF FuryStep, FuryCheck, FuryStop, FuryDelete, FuryUnwatch,
     GuestExits, ControlStep, ControlKill, ControlDelete, Restart, AgentRestart, Heartbeat,
     HeartbeatExpires, ForeignEntry
<1>7. CASE UNCHANGED vars
  BY <1>7, <1>a DEF vars
<1>8. 1 \in Receipts
  BY DomainAssumption DEF Receipts
<1>. QED BY <1>1, <1>2, <1>3, <1>4, <1>5, <1>6, <1>7, <1>8 DEF Next

(* The overlay exists from the stage step, and the network from the attach *)
(* step, until the waiter has stopped waiting.                             *)
ResourcesOK(n, r) ==
  /\ job[n].r = r /\ job[n].pc # "stage" => r \in overlays[n]
  /\ job[n].r = r /\ job[n].pc \in {"secrets", "launch", "report", "arm"} =>
       Payload(n, r) \in attached[n]
  /\ waiter[n][r] \in {"start", "waiting"} => r \in overlays[n] /\ Payload(n, r) \in attached[n]

ResourcesInv == \A n \in Nodes, r \in Receipts : Lone(n, r) => ResourcesOK(n, r)

(* Every step keeps ResourcesInv. *)
LEMMA ResourcesKept ==
  ASSUME Before, ResourcesInv, [Next]_vars, Before'
  PROVE  ResourcesInv'
<1>. SUFFICES ASSUME NEW n \in Nodes, NEW r \in Receipts, Lone(n, r)'
              PROVE  ResourcesOK(n, r)'
  BY DEF ResourcesInv
<1>0. IInv
  BY DEF Before
<1>1. CASE r \notin Entries(n)
  <2>1. job'[n].r # r /\ waiter'[n][r] = "none"
    BY <1>1, LoneBefore, Zenon DEF Lone, Live
  <2>. QED BY <2>1, Zenon DEF ResourcesOK
<1>2. CASE r \in Entries(n)
  <2>1. PICK s \in SandboxIDs : s = Payload(n, r) /\ Payload(n, r)' = s
    BY <1>2, LoneBefore, Zenon DEF Lone, Sole
  <2>2. Lone(n, r) /\ ResourcesOK(n, r)
    BY <1>2, LoneBefore, Zenon DEF ResourcesInv
  <2>3. waiter[n][r] # "none" => job[n].r # r
    BY <1>0 DEF IInv, HandledEntryPending
  <2>4. CASE Crash(n)
    <3>1. job'[n].r # r /\ waiter'[n][r] = "none"
      BY <1>0, <2>4, CrashEffect, IdleFact, ReceiptFact, SMTT(30)
    <3>. QED BY <3>1 DEF ResourcesOK
  <2>5. CASE Work(n) /\ Keeps(n)
    <3>1. JobMoves(n) /\ WaiterMoves(n, r)
      BY <2>5 DEF Work
    <3>2. r \in overlays[n] => r \in overlays'[n] \/ (job[n].r = r /\ LetsGo(n))
                               \/ waiter[n][r] = "destroy"
      BY <2>5, Zenon DEF Keeps
    <3>3. s \in attached[n] => s \in attached'[n] \/ (job[n].r = r /\ LetsGo(n))
                               \/ waiter[n][r] = "detach"
      <4>1. ASSUME JobID(n) = s, job[n].pc # "idle" PROVE job[n].r = r
        <5>1. PICK h \in Receipts : h = job[n].r /\ Payload(n, h) = s
          BY <1>0, <4>1, BusyJob, Zenon DEF JobID
        <5>. QED BY <2>1, <2>2, <5>1, HoldersLive, OnlyOne, SMTT(30)
      <4>2. ASSUME NEW h \in Receipts, waiter[n][h] = "detach", Payload(n, h) = s PROVE h = r
        BY <2>1, <2>2, <4>2, HoldersLive, OnlyOne, Zenon
      <4>. QED BY <2>5, <4>1, <4>2, Zenon DEF Keeps, LetsGo
    <3>4. Idle.r # r /\ (r > lastDelivered[n] => job[n].r # r)
      BY <1>0, IdleFact, ReceiptFact, HoldersLive, Zenon
    <3>5. job'[n].r = r => job[n].r = r \/ job'[n].pc = "stage"
      BY <3>1, <3>4, Zenon DEF JobMoves
    <3>a. job'[n].r = r /\ job'[n].pc # "stage" => r \in overlays'[n]
      BY <2>2, <2>3, <3>1, <3>2, <3>4, <3>5, ReceiptFact, Zenon DEF JobMoves, ResourcesOK, LetsGo
    <3>b. job'[n].r = r /\ job'[n].pc \in {"secrets", "launch", "report", "arm"} => s \in attached'[n]
      BY <2>1, <2>2, <2>3, <3>1, <3>3, <3>4, <3>5, ReceiptFact, Zenon DEF JobMoves, ResourcesOK, JobID, LetsGo
    <3>c. waiter'[n][r] \in {"start", "waiting"} => r \in overlays'[n] /\ s \in attached'[n]
      <4>1. \/ waiter'[n][r] = waiter[n][r] \/ waiter[n][r] = "start"
            \/ job[n].r = r /\ job[n].pc = "arm"
            \/ waiter'[n][r] \notin {"start", "waiting"}
        BY <3>1, Zenon DEF WaiterMoves
      <4>2. CASE job[n].r = r /\ job[n].pc = "arm"
        BY <2>1, <2>2, <2>3, <3>2, <3>3, <4>2, Zenon DEF ResourcesOK, LetsGo
      <4>3. CASE waiter[n][r] \in {"start", "waiting"}
        BY <2>1, <2>2, <2>3, <3>2, <3>3, <4>3, Zenon DEF ResourcesOK
      <4>. QED BY <4>1, <4>2, <4>3, Zenon
    <3>. QED BY <2>1, <3>a, <3>b, <3>c, Zenon DEF ResourcesOK
  <2>. QED BY <1>0, <2>4, <2>5, WorkSteps, KeepsSteps
<1>. QED BY <1>1, <1>2

(* ResourcesInv is an invariant, inductive relative to the ones before it. *)
LEMMA ResourcesInvariant == Spec => [](Before /\ VMInv /\ ResourcesInv)
<1>1. Init => ResourcesInv
  BY NoneLone DEF ResourcesInv, Lone
<1>2. Before /\ ResourcesInv /\ [Next]_vars /\ Before' => ResourcesInv'
  BY ResourcesKept
<1>. QED BY <1>1, <1>2, VMInvariant, PTL DEF Spec

(* A VM that runs and that the runtime knows still has its overlay and its *)
(* network: neither the error paths of the main loop nor the cleanup of a  *)
(* waiter takes them from under it.                                        *)
THEOREM RunningHasResources == Spec => []RunningVMHasResources
<1>1. Before /\ VMInv /\ ResourcesInv => RunningVMHasResources
  <2>. SUFFICES ASSUME Before, VMInv, ResourcesInv, NEW n \in Nodes, NEW r \in Receipts,
                       SubmittedOnce(n, r), Runs(n, r), vms[n][Payload(n, r)] = r
                PROVE  r \in overlays[n] /\ Payload(n, r) \in attached[n]
    BY Zenon DEF RunningVMHasResources
  <2>1. Launched(n, r)
    BY DEF Launched, Runs
  <2>2. VMOK(n, r) /\ ResourcesOK(n, r)
    BY <2>1, FinishedLone, Zenon DEF VMInv, ResourcesInv
  <2>3. job[n].r = r => job[n].pc \in {"report", "arm"}
    BY <2>1, Zenon DEF Before, LaunchInv, LaunchOK, HoldsLaunch
  <2>. QED BY <2>2, <2>3, Zenon DEF VMOK, ResourcesOK
<1>. QED BY <1>1, ResourcesInvariant, PTL

(* Every step keeps the owner of every overlay. *)
LEMMA OwnerKept ==
  ASSUME IInv, OverlayHasOwner, [Next]_vars
  PROVE  OverlayHasOwner'
<1>. SUFFICES ASSUME NEW n \in Nodes, NEW r \in Receipts, r \in overlays'[n], r \notin leaked'[n]
              PROVE  \/ job'[n].r = r /\ job'[n].pc # "stage"
                     \/ waiter'[n][r] \notin {"none", "ack"}
  <2>1. \A n \in Nodes : overlays'[n] \subseteq Receipts
    <3>1. IInv'
      BY NextPreserves, StutterPreserves
    <3>. QED BY <3>1, Zenon DEF IInv, TypeOK, LetheTypeOK
  <2>. QED BY <2>1 DEF OverlayHasOwner
<1>1. CASE Crash(n)
  BY <1>1, CrashEffect
<1>2. CASE Work(n) /\ Keeps(n)
  <2>1. JobMoves(n) /\ WaiterMoves(n, r)
    BY <1>2 DEF Work
  <2>2. CASE job'[n].r = r /\ job'[n].pc = "attach"
    BY <2>2
  <2>3. CASE /\ r \in overlays[n] /\ r \notin leaked[n]
             /\ \/ job[n].r # r \/ job'[n].r = r \/ job[n].pc \in {"stage", "arm"}
             /\ waiter[n][r] = "destroy" => waiter'[n][r] = "destroy"
    <3>1. CASE job[n].r = r /\ job[n].pc # "stage"
      BY <2>1, <2>3, <3>1, IdleFact, ReceiptFact, Zenon DEF JobMoves
    <3>2. CASE waiter[n][r] \notin {"none", "ack"}
      BY <2>1, <2>3, <3>2, Zenon DEF WaiterMoves
    <3>. QED BY <2>3, <3>1, <3>2, Zenon DEF OverlayHasOwner
  <2>. QED BY <1>2, <2>2, <2>3, Zenon DEF Keeps
<1>. QED BY <1>1, <1>2, WorkSteps, KeepsSteps, Zenon

(* Every overlay file belongs to a job in progress whose cleanup is ahead, *)
(* unless its removal failed or its agent crashed: the failure branches of *)
(* the main loop and the waiter's DestroyOverlay miss none.                *)
THEOREM OverlaysOwned == Spec => []OverlayHasOwner
<1>1. Init => OverlayHasOwner
  BY DEF Init, LetheInit, OverlayHasOwner
<1>2. IInv /\ OverlayHasOwner /\ [Next]_vars => OverlayHasOwner'
  BY OwnerKept
<1>. QED BY <1>1, <1>2, Inductive, PTL DEF Spec

-----------------------------------------------------------------------------
(* The watcher of the one live entry.                                      *)

(* What a step that is not a crash of n does to the watchers there. *)
Watches(n) ==
  /\ \A s \in SandboxIDs :
       \/ active'[n][s] = active[n][s]
       \/ active[n][s] \notin watching'[n]
       \/ job[n].pc = "arm" /\ JobID(n) = s /\ active'[n][s] = job[n].r
  /\ \A r \in Receipts :
       /\ r \in watching'[n] =>
            \/ r \in watching[n]
            \/ /\ job[n].r = r /\ job[n].pc = "arm" /\ waiter'[n][r] = "start"
               /\ active'[n][JobID(n)] = r
       /\ waiter[n][r] = "disarm" /\ waiter'[n][r] # "disarm" =>
            active[n][Payload(n, r)] \notin watching'[n]

LEMMA WatchTypes ==
  ASSUME IInv
  PROVE  /\ active \in [Nodes -> [SandboxIDs -> Receipts \cup {0}]]
         /\ watching \in [Nodes -> SUBSET Receipts]
  BY DEF IInv, TypeOK, FuryTypeOK

(* Where the watchers and the waiters that are about to disarm stay. *)
LEMMA WatchesUnchanged ==
  ASSUME NEW n \in Nodes, active'[n] = active[n], watching'[n] = watching[n],
         \A r \in Receipts : waiter[n][r] = "disarm" => waiter'[n][r] = "disarm"
  PROVE  Watches(n)
  BY Zenon DEF Watches

(* Disarm, whoever calls it. *)
LEMMA DisarmWatches ==
  ASSUME IInv, NEW n \in Nodes, NEW s \in SandboxIDs, Disarm(n, s), NEW m \in Nodes,
         \A r \in Receipts :
           waiter[m][r] = "disarm" /\ waiter'[m][r] # "disarm" => m = n /\ Payload(m, r) = s
  PROVE  Watches(m)
<1>1. /\ \A k \in Nodes, t \in SandboxIDs :
           active'[k][t] = IF k = n /\ t = s THEN 0 ELSE active[k][t]
      /\ \A k \in Nodes : watching'[k] = IF k = n THEN watching[k] \ {active[n][s]} ELSE watching[k]
  BY WatchTypes, Zenon DEF Disarm
<1>2. CASE m # n
  BY <1>1, <1>2, Zenon DEF Watches
<1>3. CASE m = n
  BY <1>1, <1>3, Zenon DEF Watches
<1>. QED BY <1>2, <1>3, Zenon

(* Every step that is not a crash of n watches there this way. *)
LEMMA WatchSteps ==
  ASSUME IInv, [Next]_vars, NEW n \in Nodes
  PROVE  Watches(n) \/ Crash(n)
<1>0. WorkTypes /\ AgentTypes
  BY WorkTyped, AgentTyped
<1>a. ASSUME UNCHANGED <<furyVars, waiter>> PROVE Watches(n)
  BY <1>a, WatchesUnchanged
<1>1. ASSUME NEW c \in Clients, SubmitStep(c) PROVE Watches(n)
  BY <1>1, <1>a, Zenon DEF SubmitStep
<1>2. ASSUME ReconcileStep \/ OperatorStep PROVE Watches(n)
  BY <1>2, <1>a, Zenon DEF ReconcileStep, OperatorStep
<1>3. ASSUME NEW m \in Nodes, MainLoopStep(m) PROVE Watches(n)
  <2>1. CASE ArmAndWait(m)
    <3>1. /\ job[m].r \in Receipts /\ job[m].pc = "arm" /\ JobID(m) \in SandboxIDs
          /\ WaiterGoto(m, job[m].r, "start") /\ Arm(m, JobID(m), job[m].r)
      BY <2>1, BusyJob, Zenon DEF ArmAndWait, At, JobID, WaiterGoto
    <3>2. \A k \in Nodes, q \in Receipts :
            waiter'[k][q] = IF k = m /\ q = job[m].r THEN "start" ELSE waiter[k][q]
      BY <1>0, <3>1, ToWait, SMTT(30) DEF WaitsAt
    <3>3. /\ \A k \in Nodes, t \in SandboxIDs :
               active'[k][t] = IF k = m /\ t = JobID(m) THEN job[m].r ELSE active[k][t]
          /\ \A k \in Nodes : watching'[k] = IF k = m THEN watching[k] \cup {job[m].r} ELSE watching[k]
      BY <3>1, WatchTypes, Zenon DEF Arm
    <3>4. waiter[m][job[m].r] = "none"
      BY <3>1, Zenon DEF IInv, HandledEntryPending
    <3>5. CASE n # m
      BY <3>2, <3>3, <3>5, Zenon DEF Watches
    <3>6. CASE n = m
      <4>1. \A s \in SandboxIDs : \/ active'[n][s] = active[n][s]
                                  \/ JobID(n) = s /\ active'[n][s] = job[n].r
        BY <3>3, <3>6, Zenon
      <4>2. active'[n][JobID(n)] = job[n].r /\ waiter'[n][job[n].r] = "start"
        <5>1. active'[m][JobID(m)] = job[m].r
          BY <3>1, <3>3, Zenon
        <5>2. waiter'[m][job[m].r] = "start"
          BY <3>1, <3>2
        <5>. QED BY <3>6, <5>1, <5>2
      <4>3. \A r \in Receipts : r \in watching'[n] => r \in watching[n] \/ job[n].r = r
        BY <3>3, <3>6, Zenon
      <4>4. \A r \in Receipts : waiter[n][r] = "disarm" => waiter'[n][r] = "disarm"
        BY <3>2, <3>4, <3>6
      <4>. QED BY <3>1, <3>6, <4>1, <4>2, <4>3, <4>4, Zenon DEF Watches
    <3>. QED BY <3>5, <3>6
  <2>2. CASE ~ArmAndWait(m)
    BY <1>3, <1>a, <2>2, Zenon DEF MainLoopStep, Dequeue, DequeuePoison, Stage, StageFails,
       AttachNetwork, AttachNetworkFails, LaunchVM, LaunchVMFails, ReportRunning
  <2>. QED BY <2>1, <2>2
<1>4. ASSUME NEW m \in Nodes, NEW r \in Receipts, WaiterStep(m, r) PROVE Watches(n)
  <2>1. PICK pc : WaiterGoto(m, r, pc)
    BY <1>4, Zenon DEF WaiterStep, WaiterLoad, WaiterWait, WaiterDisarm, WaiterReport,
       WaiterDetach, WaiterDestroy, WaiterAck
  <2>2. \A k \in Nodes, q \in Receipts :
          waiter'[k][q] = IF k = m /\ q = r THEN pc ELSE waiter[k][q]
    BY <1>0, <2>1, ToWait DEF WaitsAt
  <2>3. CASE WaiterDisarm(m, r)
    <3>1. waiter[m][r] = "disarm" /\ Disarm(m, Payload(m, r))
      BY <2>3, Zenon DEF WaiterDisarm, WaiterAt
    <3>2. Payload(m, r) \in SandboxIDs
      BY <3>1, HolderPayload, Zenon DEF IInv, HoldersOK
    <3>3. \A q \in Receipts : waiter[n][q] = "disarm" /\ waiter'[n][q] # "disarm" => n = m /\ q = r
      BY <2>2
    <3>. QED BY <3>1, <3>2, <3>3, DisarmWatches, Zenon
  <2>4. CASE ~WaiterDisarm(m, r)
    <3>1. UNCHANGED furyVars /\ waiter[m][r] # "disarm"
      BY <1>4, <2>4, Zenon DEF WaiterStep, WaiterLoad, WaiterWait, WaiterReport, WaiterDetach,
         WaiterDestroy, WaiterAck, WaiterAt
    <3>2. \A q \in Receipts : waiter[n][q] = "disarm" => waiter'[n][q] = "disarm"
      BY <2>2, <3>1
    <3>. QED BY <3>1, <3>2, WatchesUnchanged, Zenon
  <2>. QED BY <2>3, <2>4
<1>5. ASSUME NEW m \in Nodes, NEW r \in Receipts, FuryStep(m, r) PROVE Watches(n)
  <2>1. r \in watching[m] \/ killer[m][r] # "idle"
    BY <1>5, Zenon DEF FuryStep, FuryCheck, FuryStop, FuryDelete, FuryUnwatch
  <2>2. r \in Jobs(m) /\ Payload(m, r) \in SandboxIDs
    BY <2>1, HolderPayload, Zenon DEF IInv, HoldersOK
  <2>3. waiter' = waiter /\ (UNCHANGED furyVars \/ Disarm(m, Payload(m, r)))
    BY <1>5, Zenon DEF FuryStep, FuryCheck, FuryStop, FuryDelete, FuryUnwatch
  <2>. QED BY <1>a, <2>2, <2>3, DisarmWatches, Zenon
<1>6. ASSUME NEW m \in Nodes, Crash(m) PROVE Watches(n) \/ Crash(n)
  <2>1. CASE m = n
    BY <1>6, <2>1
  <2>2. CASE m # n
    <3>1. active'[n] = active[n] /\ watching'[n] = watching[n] /\ waiter'[n] = waiter[n]
      BY <1>0, <1>6, <2>2, WatchTypes, Zenon DEF Crash, AgentCrash, AgentTypes
    <3>. QED BY <3>1, WatchesUnchanged, Zenon
  <2>. QED BY <2>1, <2>2
<1>7. ASSUME NEW m \in Nodes, NEW r \in Receipts,
             \/ GuestExits(m, r) \/ ControlStep(m) \/ Restart(m)
             \/ Heartbeat(m) \/ HeartbeatExpires(m) \/ ForeignEntry(m)
      PROVE  Watches(n)
  BY <1>7, <1>a, Zenon DEF GuestExits, ControlStep, ControlKill, ControlDelete, Restart,
     AgentRestart, Heartbeat, HeartbeatExpires, ForeignEntry
<1>8. CASE UNCHANGED vars
  BY <1>8, <1>a DEF vars
<1>9. 1 \in Receipts
  BY DomainAssumption DEF Receipts
<1>. QED BY <1>1, <1>2, <1>3, <1>4, <1>5, <1>6, <1>7, <1>8, <1>9 DEF Next

(* The cancel function that is stored for a sandbox is that of its watcher. *)
WatchOK(n, r) ==
  r \in watching[n] =>
    active[n][Payload(n, r)] = r /\ waiter[n][r] \in {"start", "waiting", "disarm"}

WatchInv == \A n \in Nodes, r \in Receipts : Lone(n, r) => WatchOK(n, r)

(* Every step keeps WatchInv. *)
LEMMA WatchKept ==
  ASSUME Before, WatchInv, [Next]_vars, Before'
  PROVE  WatchInv'
<1>. SUFFICES ASSUME NEW n \in Nodes, NEW r \in Receipts, Lone(n, r)', r \in watching'[n]
              PROVE  WatchOK(n, r)'
  BY Zenon DEF WatchInv, WatchOK
<1>0. IInv
  BY Zenon DEF Before
<1>1. Lone(n, r) /\ Payload(n, r)' = Payload(n, r)
  BY LoneBefore, Zenon
<1>2. PICK s \in SandboxIDs : s = Payload(n, r) /\ Payload(n, r)' = s
  BY <1>1, Zenon DEF Lone, Sole
<1>3. WatchOK(n, r)
  BY <1>1, Zenon DEF WatchInv
<1>4. ~Crash(n)
  BY <1>0, CrashEffect, Zenon
<1>5. Work(n) /\ Watches(n)
  BY <1>0, <1>4, WorkSteps, WatchSteps
<1>6. CASE r \notin watching[n]
  BY <1>2, <1>5, <1>6, Zenon DEF Watches, WatchOK, JobID
<1>7. CASE r \in watching[n]
  <2>1. active[n][s] = r /\ waiter[n][r] \in {"start", "waiting", "disarm"}
    BY <1>2, <1>3, <1>7, Zenon DEF WatchOK
  <2>2. job[n].r # r
    BY <1>0, <2>1 DEF IInv, HandledEntryPending
  <2>3. ASSUME job[n].pc = "arm", JobID(n) = s PROVE FALSE
    <3>1. PICK h \in Receipts : h = job[n].r /\ Payload(n, h) = s
      BY <1>0, <2>3, BusyJob, Zenon DEF JobID
    <3>. QED BY <1>1, <1>2, <2>2, <3>1, HoldersLive, OnlyOne, SMTT(30)
  <2>4. active'[n][s] = r
    BY <1>5, <2>1, <2>3, Zenon DEF Watches
  <2>5. waiter[n][r] = "disarm" => waiter'[n][r] = "disarm"
    BY <1>2, <1>5, <2>1, Zenon DEF Watches
  <2>6. waiter'[n][r] \in {"start", "waiting", "disarm"}
    BY <1>5, <2>1, <2>2, <2>5, Zenon DEF Work, WaiterMoves
  <2>. QED BY <1>2, <2>4, <2>6, Zenon DEF WatchOK
<1>. QED BY <1>6, <1>7

(* WatchInv is an invariant, inductive relative to the ones before it. *)
LEMMA WatchInvariant == Spec => [](Before /\ WatchInv)
<1>1. Init => WatchInv
  BY NoneLone DEF WatchInv, Lone
<1>2. Before /\ WatchInv /\ [Next]_vars /\ Before' => WatchInv'
  BY WatchKept
<1>. QED BY <1>1, <1>2, VMInvariant, PTL DEF Spec

(* A watcher outlives neither the waiter's Disarm nor the job: the cancel  *)
(* function in the map of PollFury is that of the watcher of the job.      *)
THEOREM WatcherHasItsJob == Spec => []WatcherHasJob
<1>1. Before /\ WatchInv => WatcherHasJob
  <2>. SUFFICES ASSUME Before, WatchInv, NEW n \in Nodes, NEW r \in watching[n],
                       SubmittedOnce(n, r)
                PROVE  waiter[n][r] \in {"start", "waiting", "disarm"}
    BY Zenon DEF WatcherHasJob
  <2>1. r \in Receipts
    BY WatchTypes DEF Before
  <2>. QED BY <2>1, FinishedLone, Zenon DEF WatchInv, WatchOK
<1>. QED BY <1>1, WatchInvariant, PTL

-----------------------------------------------------------------------------
(* The status of a sandbox.                                                *)

(* Who writes the record of s in a step, and what. *)
WrittenByClient(s) ==
  \E c \in Clients : /\ calls[c].pc \in Early /\ calls[c].id = s
                     /\ calls'[c].pc \in Early => runs'[s].status \notin Terminal

WrittenByLoop(s) ==
  \E n \in Nodes : job[n].pc = "report" /\ JobID(n) = s /\ runs'[s].status = "RUNNING"

WrittenByWaiter(s) ==
  \E n \in Nodes, r \in Receipts :
    /\ waiter[n][r] = "report" /\ Payload(n, r) = s /\ vms[n][s] # 0
    /\ waiter'[n][r] = "detach" /\ UNCHANGED <<runtimeVars, finished>>
    /\ runs'[s].status = InspectStatus(n, s)

(* A waiter that reports has written the outcome, or the write was lost. *)
Reported(n, r) ==
  waiter[n][r] = "report" /\ waiter'[n][r] # "report" /\ waiter'[n][r] # "none" =>
    LET s == Payload(n, r)
    IN  vms[n][s] # 0 => runs'[s].status = InspectStatus(n, s) \/ s \in disturbed'

RunSteps(s) ==
  \/ runs'[s] = runs[s]
  \/ WrittenByClient(s)
  \/ WrittenByLoop(s)
  \/ WrittenByWaiter(s)

LEMMA RunTypes ==
  ASSUME IInv
  PROVE  runs \in [SandboxIDs -> RunRecord] /\ disturbed \in SUBSET SandboxIDs
  BY DEF IInv, TypeOK, HadesTypeOK

(* UpdateRun writes one record, or loses the write. *)
LEMMA UpdateEffect ==
  ASSUME IInv, NEW s, NEW status, NEW node, NEW ok \in BOOLEAN, UpdateRun(s, status, node, ok)
  PROVE  /\ disturbed \subseteq disturbed'
         /\ \A t \in SandboxIDs : runs'[t] = runs[t] \/ (t = s /\ runs'[t].status = status)
         /\ s \in SandboxIDs => runs'[s].status = status \/ s \in disturbed'
<1>1. CASE ok
  BY <1>1, RunTypes DEF UpdateRun
<1>2. CASE ~ok
  BY <1>2 DEF UpdateRun
<1>. QED BY <1>1, <1>2, Zenon

(* A step of Submit writes the record of its own sandbox. *)
LEMMA SubmitWrites ==
  ASSUME IInv, NEW c \in Clients, SubmitStep(c)
  PROVE  disturbed \subseteq disturbed' /\ \A s \in SandboxIDs : RunSteps(s)
<1>0. calls \in [Clients -> [pc : CallState, id : SandboxIDs, node : Nodes \cup {NoNode}]]
  BY DEF IInv, TypeOK, OlympusTypeOK
<1>1. CASE SubmitRejected(c) \/ SubmitEnqueue(c)
  <2>1. UNCHANGED <<runs, disturbed>>
    BY <1>1, Zenon DEF SubmitRejected, SubmitEnqueue
  <2>. QED BY <2>1, Zenon DEF RunSteps
<1>2. ASSUME NEW status, NEW node, NEW ok \in BOOLEAN, UpdateRun(calls[c].id, status, node, ok),
             calls[c].pc \in Early, calls'[c].pc \in Early => status \notin Terminal
      PROVE  disturbed \subseteq disturbed' /\ \A s \in SandboxIDs : RunSteps(s)
  <2>1. /\ disturbed \subseteq disturbed'
        /\ \A t \in SandboxIDs : runs'[t] = runs[t] \/ (t = calls[c].id /\ runs'[t].status = status)
    BY <1>2, UpdateEffect, Zenon
  <2>. QED BY <1>2, <2>1, Zenon DEF RunSteps, WrittenByClient
<1>3. CASE SubmitPersist(c)
  BY <1>2, <1>3, Zenon DEF SubmitPersist, Early, Terminal
<1>4. CASE SubmitSchedule(c)
  <2>1. PICK n \in ListNodes, ok \in BOOLEAN : UpdateRun(calls[c].id, "SCHEDULED", n, ok)
    BY <1>4, Zenon DEF SubmitSchedule
  <2>. QED BY <1>2, <1>4, <2>1 DEF SubmitSchedule, Early, Terminal
<1>5. CASE SubmitUnschedulable(c) \/ SubmitEnqueueFails(c)
  <2>1. calls[c].pc \in Early /\ Goto(c, "failed")
    BY <1>5, Zenon DEF SubmitUnschedulable, SubmitEnqueueFails, Early
  <2>2. calls'[c].pc = "failed"
    BY <1>0, <2>1 DEF Goto
  <2>3. PICK node \in {NoNode, calls[c].node}, ok \in BOOLEAN :
          UpdateRun(calls[c].id, "FAILED", node, ok)
    BY <1>5, Zenon DEF SubmitUnschedulable, SubmitEnqueueFails
  <2>. QED BY <1>2, <2>1, <2>2, <2>3, Zenon DEF Early
<1>. QED BY <1>1, <1>3, <1>4, <1>5, Zenon DEF SubmitStep

(* What WaiterReport writes. *)
LEMMA WaiterReports ==
  ASSUME IInv, NEW n \in Nodes, NEW r \in Receipts, WaiterReport(n, r)
  PROVE  /\ disturbed \subseteq disturbed' /\ Reported(n, r)
         /\ \A s \in SandboxIDs : RunSteps(s)
<1>1. waiter[n][r] = "report" /\ WaiterGoto(n, r, "detach") /\ UNCHANGED <<runtimeVars, finished>>
  BY Zenon DEF WaiterReport, WaiterAt
<1>2. waiter'[n][r] = "detach"
  BY <1>1, AgentTyped, ToWait, SMTT(30) DEF WaitsAt
<1>3. PICK s \in SandboxIDs : s = Payload(n, r)
  BY <1>1, HolderPayload, Zenon DEF IInv, HoldersOK
<1>4. CASE vms[n][s] # 0
  <2>1. PICK ok \in BOOLEAN : UpdateRun(s, InspectStatus(n, s), RunNodeID(n), ok)
    BY <1>3, <1>4, Zenon DEF WaiterReport, Known
  <2>2. /\ disturbed \subseteq disturbed'
        /\ \A t \in SandboxIDs : runs'[t] = runs[t] \/ (t = s /\ runs'[t].status = InspectStatus(n, s))
        /\ runs'[s].status = InspectStatus(n, s) \/ s \in disturbed'
    BY <2>1, UpdateEffect, Zenon
  <2>3. Reported(n, r)
    BY <1>3, <2>2, Zenon DEF Reported
  <2>4. ASSUME NEW t \in SandboxIDs, runs'[t] # runs[t] PROVE WrittenByWaiter(t)
    <3>1. t = s /\ runs'[s].status = InspectStatus(n, s)
      BY <2>2, <2>4, Zenon
    <3>. QED BY <1>1, <1>2, <1>3, <1>4, <3>1, Zenon DEF WrittenByWaiter
  <2>. QED BY <2>2, <2>3, <2>4, Zenon DEF RunSteps
<1>5. CASE vms[n][s] = 0
  <2>1. UNCHANGED <<runs, disturbed>>
    BY <1>3, <1>5, Zenon DEF WaiterReport, Known
  <2>2. Reported(n, r)
    BY <1>3, <1>5, Zenon DEF Reported
  <2>. QED BY <2>1, <2>2, Zenon DEF RunSteps
<1>. QED BY <1>4, <1>5, Zenon

(* Every write of a step is one of these. *)
LEMMA Writes ==
  ASSUME IInv, [Next]_vars
  PROVE  disturbed \subseteq disturbed' /\ \A s \in SandboxIDs : RunSteps(s)
<1>. DEFINE G == disturbed \subseteq disturbed' /\ \A s \in SandboxIDs : RunSteps(s)
<1>a. ASSUME UNCHANGED <<runs, disturbed>> PROVE G
  BY <1>a, Zenon DEF RunSteps
<1>1. ASSUME NEW c \in Clients, SubmitStep(c) PROVE G
  BY <1>1, SubmitWrites
<1>2. ASSUME ReconcileStep \/ OperatorStep PROVE G
  BY <1>2, <1>a, Zenon DEF ReconcileStep, ReconcileQuery, OperatorStep, KillSandbox, OlympusRestart
<1>3. ASSUME NEW n \in Nodes, MainLoopStep(n) PROVE G
  <2>1. CASE ReportRunning(n)
    <3>1. PICK ok \in BOOLEAN : UpdateRun(JobID(n), "RUNNING", RunNodeID(n), ok)
      BY <2>1, Zenon DEF ReportRunning
    <3>2. job[n].pc = "report"
      BY <2>1, Zenon DEF ReportRunning, At
    <3>3. /\ disturbed \subseteq disturbed'
          /\ \A t \in SandboxIDs : runs'[t] = runs[t] \/ (t = JobID(n) /\ runs'[t].status = "RUNNING")
      BY <3>1, UpdateEffect, Zenon
    <3>. QED BY <3>2, <3>3, Zenon DEF RunSteps, WrittenByLoop
  <2>2. CASE ~ReportRunning(n)
    BY <1>3, <1>a, <2>2, Zenon DEF MainLoopStep, Dequeue, DequeuePoison, Stage, StageFails,
       AttachNetwork, AttachNetworkFails, LaunchVM, LaunchVMFails, ArmAndWait
  <2>. QED BY <2>1, <2>2
<1>4. ASSUME NEW n \in Nodes, NEW r \in Receipts, WaiterStep(n, r) PROVE G
  <2>1. CASE WaiterReport(n, r)
    BY <2>1, WaiterReports
  <2>2. CASE ~WaiterReport(n, r)
    BY <1>4, <1>a, <2>2, Zenon DEF WaiterStep, WaiterLoad, WaiterWait, WaiterDisarm,
       WaiterDetach, WaiterDestroy, WaiterAck
  <2>. QED BY <2>1, <2>2
<1>5. ASSUME NEW n \in Nodes, NEW r \in Receipts,
             \/ FuryStep(n, r) \/ GuestExits(n, r) \/ ControlStep(n) \/ Crash(n)
             \/ Restart(n) \/ Heartbeat(n) \/ HeartbeatExpires(n) \/ ForeignEntry(n)
      PROVE  G
  BY <1>5, <1>a, Zenon DEF FuryStep, FuryCheck, FuryStop, FuryDelete, FuryUnwatch,
     GuestExits, ControlStep, ControlKill, ControlDelete, Crash, AgentCrash, Restart,
     AgentRestart, Heartbeat, HeartbeatExpires, ForeignEntry
<1>6. CASE UNCHANGED vars
  BY <1>6, <1>a, Zenon DEF vars
<1>7. 1 \in Receipts
  BY DomainAssumption DEF Receipts
<1>. QED BY <1>1, <1>2, <1>3, <1>4, <1>5, <1>6, <1>7 DEF Next

(* No waiter passes its report without one. *)
LEMMA AllReported ==
  ASSUME IInv, [Next]_vars, NEW n \in Nodes, NEW r \in Receipts
  PROVE  Reported(n, r)
<1>. SUFFICES ASSUME waiter[n][r] = "report", waiter'[n][r] # "report", waiter'[n][r] # "none"
              PROVE  Reported(n, r)
  BY Zenon DEF Reported
<1>0. AgentTypes
  BY AgentTyped
<1>1. ASSUME NEW c \in Clients, SubmitStep(c) PROVE FALSE
  BY <1>1, Zenon DEF SubmitStep
<1>2. ASSUME ReconcileStep \/ OperatorStep PROVE FALSE
  BY <1>2, Zenon DEF ReconcileStep, OperatorStep
<1>3. ASSUME NEW m \in Nodes, MainLoopStep(m) PROVE FALSE
  <2>1. CASE ArmAndWait(m)
    <3>1. WaiterGoto(m, job[m].r, "start") /\ job[m].r \in Receipts
      BY <2>1, BusyJob, Zenon DEF ArmAndWait, At, WaiterGoto
    <3>2. waiter[m][job[m].r] = "none"
      BY <3>1, Zenon DEF IInv, HandledEntryPending
    <3>3. waiter'[n][r] = IF n = m /\ r = job[m].r THEN "start" ELSE waiter[n][r]
      BY <1>0, <3>1, ToWait, SMTT(30) DEF WaitsAt
    <3>. QED BY <3>2, <3>3, Zenon
  <2>2. CASE ~ArmAndWait(m)
    BY <1>3, <2>2, Zenon DEF MainLoopStep, Dequeue, DequeuePoison, Stage, StageFails,
       AttachNetwork, AttachNetworkFails, LaunchVM, LaunchVMFails, ReportRunning
  <2>. QED BY <2>1, <2>2
<1>4. ASSUME NEW m \in Nodes, NEW q \in Receipts, WaiterStep(m, q) PROVE Reported(n, r)
  <2>1. PICK pc : WaiterGoto(m, q, pc)
    BY <1>4, Zenon DEF WaiterStep, WaiterLoad, WaiterWait, WaiterDisarm, WaiterReport,
       WaiterDetach, WaiterDestroy, WaiterAck
  <2>2. waiter'[n][r] = IF n = m /\ r = q THEN pc ELSE waiter[n][r]
    BY <1>0, <2>1, ToWait, SMTT(30) DEF WaitsAt
  <2>3. n = m /\ r = q
    BY <2>2
  <2>4. WaiterReport(n, r)
    BY <1>4, <2>3, Zenon DEF WaiterStep, WaiterLoad, WaiterWait, WaiterDisarm,
       WaiterDetach, WaiterDestroy, WaiterAck, WaiterAt
  <2>. QED BY <2>4, WaiterReports, Zenon
<1>5. ASSUME NEW m \in Nodes, Crash(m) PROVE FALSE
  BY <1>0, <1>5, Zenon DEF Crash, AgentCrash, AgentTypes
<1>6. ASSUME NEW m \in Nodes, NEW q \in Receipts,
             \/ FuryStep(m, q) \/ GuestExits(m, q) \/ ControlStep(m)
             \/ Restart(m) \/ Heartbeat(m) \/ HeartbeatExpires(m) \/ ForeignEntry(m)
      PROVE  FALSE
  BY <1>6, Zenon DEF FuryStep, FuryCheck, FuryStop, FuryDelete, FuryUnwatch,
     GuestExits, ControlStep, ControlKill, ControlDelete, Restart,
     AgentRestart, Heartbeat, HeartbeatExpires, ForeignEntry
<1>7. CASE UNCHANGED vars
  BY <1>7, Zenon DEF vars
<1>8. 1 \in Receipts
  BY DomainAssumption DEF Receipts
<1>. QED BY <1>1, <1>2, <1>3, <1>4, <1>5, <1>6, <1>7, <1>8, Zenon DEF Next

(* An entry becomes pending when it is delivered. *)
LEMMA PelSteps ==
  ASSUME IInv, [Next]_vars, NEW n \in Nodes, NEW r \in Receipts, r \in pel'[n]
  PROVE  r \in pel[n] \/ r > lastDelivered[n]
<1>0. WorkTypes /\ AgentTypes
  BY WorkTyped, AgentTyped
<1>1. ASSUME NEW c \in Clients, SubmitStep(c) PROVE pel' = pel
  BY <1>1, Zenon DEF SubmitStep, SubmitRejected, SubmitPersist, SubmitUnschedulable,
     SubmitSchedule, SubmitEnqueue, SubmitEnqueueFails, Enqueue
<1>2. ASSUME ReconcileStep \/ OperatorStep PROVE pel' = pel
  BY <1>2, Zenon DEF ReconcileStep, ReconcileQuery, OperatorStep, KillSandbox, OlympusRestart
<1>a. ASSUME NEW m \in Nodes, NEW i, Nack(m, i) \/ Ack(m, i) PROVE r \in pel[n]
  BY <1>0, <1>a, Zenon DEF Nack, Ack, WorkTypes
<1>3. ASSUME NEW m \in Nodes, MainLoopStep(m) PROVE r \in pel[n] \/ r > lastDelivered[n]
  <2>1. CASE Dequeue(m)
    <3>1. pel' = [pel EXCEPT ![m] = pel[m] \cup {lastDelivered[m] + 1}]
      BY <2>1, Zenon DEF Dequeue, Deliver
    <3>2. pel \in [Nodes -> SUBSET Receipts] /\ lastDelivered \in [Nodes -> Nat]
      BY <1>0, Zenon DEF WorkTypes, AgentTypes
    <3>. QED BY <3>1, <3>2
  <2>2. CASE DequeuePoison(m)
    <3>1. PICK ok \in BOOLEAN : DeadLetter(m, ok)
      BY <2>2, Zenon DEF DequeuePoison
    <3>2. CASE ok
      BY <1>0, <3>1, <3>2 DEF DeadLetter, WorkTypes
    <3>3. CASE ~ok
      BY <1>0, <3>1, <3>3, SMTT(30) DEF DeadLetter, WorkTypes, AgentTypes
    <3>. QED BY <3>2, <3>3, Zenon
  <2>3. CASE StageFails(m) \/ AttachNetworkFails(m) \/ LaunchVMFails(m)
    <3>1. Nack(m, job[m].r) \/ pel' = pel
      BY <2>3, Zenon DEF StageFails, AttachNetworkFails, LaunchVMFails, NackJob
    <3>. QED BY <1>a, <3>1
  <2>4. CASE Stage(m) \/ AttachNetwork(m) \/ LaunchVM(m) \/ ReportRunning(m) \/ ArmAndWait(m)
    BY <2>4, Zenon DEF Stage, AttachNetwork, LaunchVM, ReportRunning, ArmAndWait
  <2>. QED BY <1>3, <2>1, <2>2, <2>3, <2>4, Zenon DEF MainLoopStep
<1>4. ASSUME NEW m \in Nodes, NEW q \in Receipts, WaiterStep(m, q) PROVE r \in pel[n]
  <2>1. Ack(m, q) \/ pel' = pel
    BY <1>4, Zenon DEF WaiterStep, WaiterLoad, WaiterWait, WaiterDisarm,
       WaiterReport, WaiterDetach, WaiterDestroy, WaiterAck
  <2>. QED BY <1>a, <2>1
<1>5. ASSUME NEW m \in Nodes, NEW q \in Receipts,
             \/ FuryStep(m, q) \/ GuestExits(m, q) \/ ControlStep(m) \/ Crash(m)
             \/ Restart(m) \/ Heartbeat(m) \/ HeartbeatExpires(m) \/ ForeignEntry(m)
      PROVE  pel' = pel
  BY <1>5, Zenon DEF FuryStep, FuryCheck, FuryStop, FuryDelete, FuryUnwatch,
     GuestExits, ControlStep, ControlKill, ControlDelete, Crash, AgentCrash, Restart,
     AgentRestart, Heartbeat, HeartbeatExpires, ForeignEntry, EnqueuePoison, Enqueue
<1>6. 1 \in Receipts
  BY DomainAssumption DEF Receipts
<1>. QED BY <1>1, <1>2, <1>3, <1>4, <1>5, <1>6, Zenon DEF Next, vars

(* An acknowledged entry is not pending. *)
AckedOK == \A n \in Nodes : \A r \in finished[n] : r \notin pel[n]

(* The record of a sandbox that a call of Submit has not queued yet. *)
FreshOK ==
  \A c \in Clients, s \in SandboxIDs :
    calls[c].pc \in Early /\ calls[c].id = s /\ Once(s) /\ s \notin disturbed =>
      runs[s].status \notin Terminal

(* The report of entry r is ahead, or behind. *)
Ahead(n, r) ==
  \/ r > lastDelivered[n] \/ job[n].r = r
  \/ waiter[n][r] \in {"start", "waiting", "disarm", "report"}

Past(n, r) == waiter[n][r] \in {"detach", "destroy", "ack"} \/ r \in finished[n]

Outcome(n, r) == IF proc[n][r] = "ok" THEN "SUCCEEDED" ELSE "FAILED"

StatusOK(n, r) ==
  LET s == Payload(n, r)
  IN  s \notin disturbed =>
        /\ Ahead(n, r) => runs[s].status \notin Terminal
        /\ Past(n, r) /\ vms[n][s] = r => runs[s].status = Outcome(n, r)

StatusInv ==
  AckedOK /\ FreshOK /\ \A n \in Nodes, r \in Receipts : Lone(n, r) => StatusOK(n, r)

(* Who may write the record of a sandbox that was submitted once: its one  *)
(* caller before there is an entry, or a goroutine of the one live entry.  *)
LEMMA WriterOf ==
  ASSUME Before, [Next]_vars, NEW s \in SandboxIDs, Once(s), runs'[s] # runs[s]
  PROVE  \/ /\ WrittenByClient(s)
            /\ \A n \in Nodes : \A r \in Entries(n) : Payload(n, r) # s
         \/ \E n \in Nodes, r \in Receipts :
              /\ Lone(n, r) /\ Payload(n, r) = s
              /\ \/ job[n].r = r /\ runs'[s].status = "RUNNING"
                 \/ waiter[n][r] = "report" /\ waiter'[n][r] = "detach"
<1>0. IInv /\ RunSteps(s)
  BY Writes DEF Before
<1>1. CASE WrittenByClient(s)
  BY <1>1, Zenon DEF WrittenByClient, Before, LineageInv, Origin
<1>2. CASE WrittenByLoop(s)
  <2>1. PICK n \in Nodes : job[n].pc = "report" /\ JobID(n) = s /\ runs'[s].status = "RUNNING"
    BY <1>2, Zenon DEF WrittenByLoop
  <2>2. PICK r \in Receipts : r = job[n].r /\ Payload(n, r) = s
    BY <1>0, <2>1, BusyJob, Zenon DEF JobID
  <2>3. Live(n, r)
    BY <2>2, HoldersLive, Zenon
  <2>4. Lone(n, r)
    BY <2>2, <2>3, Zenon DEF Lone, Sole, Live
  <2>. QED BY <2>1, <2>2, <2>4, Zenon
<1>3. CASE WrittenByWaiter(s)
  <2>1. PICK n \in Nodes, r \in Receipts :
          waiter[n][r] = "report" /\ Payload(n, r) = s /\ waiter'[n][r] = "detach"
    BY <1>3, Zenon DEF WrittenByWaiter
  <2>2. Live(n, r)
    BY <2>1, HoldersLive, Zenon
  <2>3. Lone(n, r)
    BY <2>1, <2>2, Zenon DEF Lone, Sole, Live
  <2>. QED BY <2>1, <2>3, Zenon
<1>. QED BY <1>0, <1>1, <1>2, <1>3, Zenon DEF RunSteps

(* The writer of a record finds it not terminal. *)
LEMMA WritersTurn ==
  ASSUME Before, StatusInv, [Next]_vars, NEW s \in SandboxIDs, Once(s), runs'[s] # runs[s],
         s \notin disturbed
  PROVE  runs[s].status \notin Terminal
<1>1. CASE WrittenByClient(s)
  BY <1>1, Zenon DEF WrittenByClient, StatusInv, FreshOK
<1>2. ASSUME NEW n \in Nodes, NEW r \in Receipts, Lone(n, r), Payload(n, r) = s,
             job[n].r = r \/ waiter[n][r] = "report"
      PROVE  runs[s].status \notin Terminal
  BY <1>2, Zenon DEF StatusInv, StatusOK, Ahead
<1>. QED BY <1>1, <1>2, WriterOf, Zenon

LEMMA AckedKept ==
  ASSUME Before, AckedOK, [Next]_vars
  PROVE  AckedOK'
<1>0. IInv /\ WorkTypes /\ AgentTypes
  BY WorkTyped, AgentTyped DEF Before
<1>. SUFFICES ASSUME NEW n \in Nodes, NEW r \in finished'[n], r \in pel'[n] PROVE FALSE
  BY Zenon DEF AckedOK
<1>1. r \in finished[n]
  <2>1. CASE Crash(n)
    BY <1>0, <2>1, CrashEffect, Zenon
  <2>2. CASE Work(n)
    BY <2>2 DEF Work
  <2>. QED BY <1>0, <2>1, <2>2, WorkSteps
<1>2. r \in Receipts /\ r \notin pel[n]
  BY <1>0, <1>1, Zenon DEF AckedOK, AgentTypes
<1>3. r > lastDelivered[n]
  BY <1>0, <1>2, PelSteps
<1>. QED BY <1>1, <1>2, <1>3, HoldersLive, Zenon

LEMMA FreshKept ==
  ASSUME Before, StatusInv, [Next]_vars
  PROVE  FreshOK'
<1>0. IInv
  BY DEF Before
<1>. SUFFICES ASSUME NEW c \in Clients, NEW s \in SandboxIDs,
                     calls'[c].pc \in Early, calls'[c].id = s, Once(s)', s \notin disturbed'
              PROVE  runs'[s].status \notin Terminal
  BY DEF FreshOK
<1>1. /\ calls[c].pc \in Early /\ calls[c].id = s /\ Once(s) /\ s \notin disturbed
      /\ calls \in [Clients -> [pc : CallState, id : SandboxIDs, node : Nodes \cup {NoNode}]]
  BY <1>0, CallsForward, OnceKept, RequestKept, Writes, Zenon DEF IdsKept, IInv, TypeOK, OlympusTypeOK
<1>2. \A n \in Nodes : \A r \in Entries(n) : Payload(n, r) # s
  BY <1>1 DEF Before, LineageInv, Origin
<1>3. CASE runs'[s] = runs[s]
  BY <1>1, <1>3, Zenon DEF StatusInv, FreshOK
<1>4. CASE runs'[s] # runs[s]
  <2>0. \A n \in Nodes, r \in Receipts : Lone(n, r) => Payload(n, r) # s
    BY <1>2, Zenon DEF Lone, Live
  <2>1. WrittenByClient(s)
    BY <1>1, <1>4, <2>0, WriterOf, Zenon
  <2>. QED BY <1>1, <2>1, Zenon DEF WrittenByClient, Once
<1>. QED BY <1>3, <1>4

(* A new entry carries a request whose outcome is still ahead. *)
LEMMA NewEntryStatus ==
  ASSUME Before, StatusInv, [Next]_vars, NEW n \in Nodes, NEW r \in Receipts,
         NEW s \in SandboxIDs, r \notin Entries(n), r \in Entries(n)', Payload(n, r)' = s,
         Once(s), s \notin disturbed
  PROVE  runs'[s].status \notin Terminal
<1>0. IInv
  BY DEF Before
<1>1. stream' # stream
  BY DEF Entries
<1>2. ASSUME NEW c \in Clients, SubmitEnqueue(c) PROVE runs'[s].status \notin Terminal
  <2>1. calls[c].node \in Nodes /\ calls[c].pc \in Early
    BY <1>0, <1>2, Zenon DEF SubmitEnqueue, IInv, CallsOK, Early
  <2>2. stream' = [stream EXCEPT ![calls[c].node] = Append(@, calls[c].id)] /\ runs' = runs
    BY <1>2, Zenon DEF SubmitEnqueue, Enqueue, hadesVars
  <2>3. calls[c].id = s
    BY <1>0, <2>1, <2>2, AddedEntry, Zenon
  <2>. QED BY <2>1, <2>2, <2>3, Zenon DEF StatusInv, FreshOK
<1>3. ASSUME NEW m \in Nodes, EnqueuePoison(m) PROVE FALSE
  <2>1. stream' = [stream EXCEPT ![m] = Append(@, Poison)]
    BY <1>3, Zenon DEF EnqueuePoison, Enqueue
  <2>. QED BY <1>0, <2>1, AddedEntry, AcheronAssumption, Zenon
<1>4. ASSUME NEW k \in Nodes, HandsBack(k) PROVE runs'[s].status \notin Terminal
  <2>1. PICK h \in Receipts, e \in SandboxIDs :
          h = job[k].r /\ e = Payload(k, h) /\ h \in Jobs(k)
    BY <1>0, <1>4, BusyJob, Zenon DEF HandsBack, JobID
  <2>2. stream' = [stream EXCEPT ![k] = Append(@, e)] /\ runs' = runs
    BY <1>4, <2>1, Zenon DEF HandsBack, Nack, Payload, hadesVars
  <2>3. e = s
    BY <1>0, <2>2, AddedEntry, Zenon
  <2>4. Live(k, h)
    BY <2>1, HoldersLive, Zenon
  <2>5. Lone(k, h)
    BY <2>1, <2>3, <2>4 DEF Lone, Sole, Live
  <2>. QED BY <2>1, <2>2, <2>3, <2>5, Zenon DEF StatusInv, StatusOK, Ahead
<1>. QED BY <1>0, <1>1, <1>2, <1>3, <1>4, StreamSteps

(* An entry whose report is behind is held by no main loop, and by no      *)
(* waiter that has yet to report.                                          *)
LEMMA PastFact ==
  ASSUME Before, AckedOK, NEW n \in Nodes, NEW r \in Receipts, Past(n, r)
  PROVE  job[n].r # r /\ waiter[n][r] # "report"
<1>1. job[n].r = r \/ waiter[n][r] # "none" => r \in pel[n]
  BY DEF Before, IInv, HandledEntryPending, Handled
<1>2. waiter[n][r] # "none" => job[n].r # r
  BY DEF Before, IInv, HandledEntryPending
<1>. QED BY <1>1, <1>2, Zenon DEF Past, AckedOK

(* What is still ahead was ahead before. *)
LEMMA AheadBefore ==
  ASSUME Before, [Next]_vars, NEW n \in Nodes, NEW r \in Receipts, Ahead(n, r)'
  PROVE  Ahead(n, r) /\ ~(waiter[n][r] = "report" /\ waiter'[n][r] = "detach")
<1>0. IInv
  BY DEF Before
<1>1. r > lastDelivered'[n] => r > lastDelivered[n]
  BY <1>0, CursorForward, ReceiptFact
<1>2. job'[n].r = r => job[n].r = r \/ r > lastDelivered[n]
  <2>1. CASE Crash(n)
    BY <1>0, <2>1, CrashEffect, IdleFact, ReceiptFact, Zenon
  <2>2. CASE Work(n)
    BY <2>2, IdleFact, ReceiptFact, Zenon DEF Work, JobMoves
  <2>. QED BY <1>0, <2>1, <2>2, WorkSteps, Zenon
<1>3. waiter'[n][r] \in {"start", "waiting", "disarm", "report"} =>
        job[n].r = r \/ waiter[n][r] \in {"start", "waiting", "disarm", "report"}
  <2>1. CASE Crash(n)
    BY <1>0, <2>1, CrashEffect, Zenon
  <2>2. CASE Work(n)
    BY <2>2, Zenon DEF Work, WaiterMoves
  <2>. QED BY <1>0, <2>1, <2>2, WorkSteps, Zenon
<1>4. waiter[n][r] = "report" => job[n].r # r /\ ~(r > lastDelivered[n])
  BY HoldersLive, Zenon DEF Before, IInv, HandledEntryPending
<1>. QED BY <1>1, <1>2, <1>3, <1>4, Zenon DEF Ahead

(* Every step keeps the status of the one live entry. *)
LEMMA StatusKept ==
  ASSUME Before, VMInv, StatusInv, [Next]_vars, Before'
  PROVE  \A n \in Nodes, r \in Receipts : Lone(n, r)' => StatusOK(n, r)'
<1>. SUFFICES ASSUME NEW n \in Nodes, NEW r \in Receipts, Lone(n, r)'
              PROVE  StatusOK(n, r)'
  OBVIOUS
<1>0. IInv /\ disturbed \subseteq disturbed'
  BY Writes DEF Before
<1>1. PICK s \in SandboxIDs : s = Payload(n, r)' /\ Once(s)
  <2>1. PICK s \in SandboxIDs : s = Payload(n, r)'
    BY DEF Lone, Sole
  <2>2. Once(s)'
    BY <2>1 DEF Lone, Sole
  <2>. QED BY <1>0, <2>1, <2>2, OnceKept
<1>2. CASE s \in disturbed'
  BY <1>1, <1>2, Zenon DEF StatusOK
<1>3. CASE s \notin disturbed' /\ r \notin Entries(n)
  <2>1. r \in Entries(n)'
    BY DEF Lone, Live
  <2>2. runs'[s].status \notin Terminal
    BY <1>0, <1>1, <1>3, <2>1, NewEntryStatus
  <2>3. waiter'[n][r] = "none" /\ r \notin finished'[n]
    BY <1>3, LoneBefore, Zenon DEF Lone, Live
  <2>. QED BY <1>1, <2>2, <2>3, Zenon DEF StatusOK, Past
<1>4. CASE s \notin disturbed' /\ r \in Entries(n)
  <2>1. Lone(n, r) /\ s = Payload(n, r)
    BY <1>1, <1>4, LoneBefore, Zenon
  <2>2. s \notin disturbed /\ VMOK(n, r) /\ StatusOK(n, r)
    BY <1>0, <1>4, <2>1 DEF VMInv, StatusInv
  <2>3. \/ runs'[s] = runs[s]
        \/ job[n].r = r /\ runs'[s].status = "RUNNING"
        \/ waiter[n][r] = "report" /\ waiter'[n][r] = "detach"
    <3>. SUFFICES ASSUME runs'[s] # runs[s]
                  PROVE  \/ job[n].r = r /\ runs'[s].status = "RUNNING"
                         \/ waiter[n][r] = "report" /\ waiter'[n][r] = "detach"
      OBVIOUS
    <3>1. PICK m \in Nodes, q \in Receipts :
            /\ Lone(m, q) /\ Payload(m, q) = s
            /\ \/ job[m].r = q /\ runs'[s].status = "RUNNING"
               \/ waiter[m][q] = "report" /\ waiter'[m][q] = "detach"
      BY <1>1, <1>4, <2>1, WriterOf, Zenon
    <3>2. m = n /\ q = r
      BY <2>1, <3>1, OnlyOne, Zenon DEF Lone
    <3>. QED BY <3>1, <3>2, Zenon
  <2>4. ASSUME Ahead(n, r)' PROVE runs'[s].status \notin Terminal
    <3>1. Ahead(n, r) /\ ~(waiter[n][r] = "report" /\ waiter'[n][r] = "detach")
      BY <2>4, AheadBefore, Zenon
    <3>2. runs[s].status \notin Terminal
      BY <2>1, <2>2, <3>1, Zenon DEF StatusOK
    <3>. QED BY <2>3, <3>1, <3>2, Zenon DEF Terminal
  <2>5. ASSUME Past(n, r)', vms'[n][s] = r PROVE runs'[s].status = Outcome(n, r)'
    <3>1. ~(LaunchVM(n) /\ job[n].r = r)
      <4>. SUFFICES ASSUME LaunchVM(n), job[n].r = r PROVE FALSE
        OBVIOUS
      <4>1. job[n].pc = "launch" /\ waiter' = waiter /\ finished' = finished
        BY <1>0, LaunchEffect, Zenon
      <4>2. Past(n, r)
        BY <2>5, <4>1, Zenon DEF Past
      <4>. QED BY <4>2, PastFact, Zenon DEF StatusInv
    <3>2. ~Crash(n)
      BY <1>0, <2>5, CrashEffect, ReceiptFact, Zenon
    <3>3. vms[n][s] = r
      BY <2>1, <2>5, <3>1, <3>2, LoneVM, ReceiptFact, Zenon
    <3>4. Work(n)
      BY <1>0, <3>2, WorkSteps
    <3>5. Past(n, r) \/ (waiter[n][r] = "report" /\ waiter'[n][r] = "detach")
      BY <2>5, <3>4, Zenon DEF Past, Work, WaiterMoves
    <3>6. r \in exitCode[n] /\ proc[n][r] \in {"ok", "error"}
      BY <2>1, <2>2, <3>3, <3>5, Zenon DEF VMOK, Past, Closing
    <3>7. proc'[n][r] = proc[n][r]
      <4>1. \/ proc'[n][r] = proc[n][r]
            \/ Runs(n, r) /\ proc'[n][r] \in {"unstopped", "stopping", "ok", "error"}
            \/ proc[n][r] = "stopping" /\ proc'[n][r] = "error"
        BY <2>1, <3>1, LoneVM, Zenon
      <4>. QED BY <3>6, <4>1, Zenon DEF Runs
    <3>8. CASE waiter[n][r] = "report" /\ waiter'[n][r] = "detach"
      <4>1. runs'[s].status = InspectStatus(n, s)
        BY <1>0, <1>4, <2>1, <3>3, <3>8, AllReported, ReceiptFact, Zenon DEF Reported
      <4>. QED BY <3>3, <3>6, <3>7, <4>1 DEF InspectStatus, Outcome
    <3>9. CASE Past(n, r)
      <4>1. runs'[s] = runs[s]
        BY <2>3, <3>9, PastFact, Zenon DEF StatusInv
      <4>2. runs[s].status = Outcome(n, r)
        BY <2>1, <2>2, <3>3, <3>9, Zenon DEF StatusOK
      <4>. QED BY <3>7, <4>1, <4>2, Zenon DEF Outcome
    <3>. QED BY <3>5, <3>8, <3>9, Zenon
  <2>. QED BY <1>1, <2>4, <2>5, Zenon DEF StatusOK
<1>. QED BY <1>2, <1>3, <1>4

(* StatusInv is an invariant, inductive relative to the ones before it. *)
LEMMA StatusInvariant == Spec => [](Before /\ StatusInv)
<1>1. Init => StatusInv
  <2>. SUFFICES ASSUME Init PROVE StatusInv
    OBVIOUS
  <2>1. AckedOK
    BY DEF Init, AgentInit, AckedOK
  <2>2. FreshOK
    BY DEF Init, HadesInit, FreshOK, Terminal, NotFound
  <2>. QED BY <2>1, <2>2, NoneLone DEF StatusInv, Lone
<1>2. Before /\ VMInv /\ StatusInv /\ [Next]_vars /\ Before' => StatusInv'
  <2>. SUFFICES ASSUME Before, VMInv, StatusInv, [Next]_vars, Before' PROVE StatusInv'
    OBVIOUS
  <2>1. AckedOK' /\ FreshOK'
    BY AckedKept, FreshKept DEF StatusInv
  <2>. QED BY <2>1, StatusKept DEF StatusInv
<1>. QED BY <1>1, <1>2, VMInvariant, PTL DEF Spec

(* When a job is acknowledged and its sandbox was not killed, the registry *)
(* holds the outcome of its VM: Ack comes after the waiter's UpdateRun,    *)
(* and no UpdateRun of Olympus or of the main loop comes after that.       *)
THEOREM OutcomeRecorded == Spec => []FinalStatusRecorded
<1>1. Before /\ StatusInv => FinalStatusRecorded
  <2>. SUFFICES ASSUME Before, StatusInv, NEW n \in Nodes, NEW r \in finished[n],
                       SubmittedOnce(n, r), vms[n][Payload(n, r)] = r,
                       Payload(n, r) \notin disturbed
                PROVE  runs[Payload(n, r)].status =
                         IF proc[n][r] = "ok" THEN "SUCCEEDED" ELSE "FAILED"
    BY Zenon DEF FinalStatusRecorded
  <2>1. r \in Receipts
    BY AgentTyped, Zenon DEF Before, AgentTypes
  <2>2. Lone(n, r)
    BY <2>1, FinishedLone, Zenon
  <2>. QED BY <2>1, <2>2, Zenon DEF StatusInv, StatusOK, Past, Outcome
<1>. QED BY <1>1, StatusInvariant, PTL

(* No step changes a terminal status of a sandbox that was submitted once, *)
(* as long as no write was lost: UpdateRun is a blind write, and its three *)
(* callers take their turns in order.                                      *)
THEOREM TerminalStatusKept == Spec => TerminalStatusStable
<1>1. Before /\ StatusInv /\ [Next]_vars =>
        [\A s \in SandboxIDs :
           /\ runs[s].status \in Terminal
           /\ s \notin disturbed'
           /\ \A c, d \in Clients : calls[c].id = s /\ calls[d].id = s => c = d
           => runs'[s].status = runs[s].status]_vars
  <2>. SUFFICES ASSUME Before, StatusInv, [Next]_vars, NEW s \in SandboxIDs,
                       runs[s].status \in Terminal, s \notin disturbed', Once(s)
                PROVE  runs'[s].status = runs[s].status
    BY DEF Once
  <2>1. s \notin disturbed
    BY Writes DEF Before
  <2>. QED BY <2>1, WritersTurn
<1>. QED BY <1>1, StatusInvariant, PTL DEF Spec, TerminalStatusStable

=============================================================================

----------------------------- MODULE JobProofs -----------------------------
(***************************************************************************)
(* What TartarusSystem guarantees about a job and its VM, for every set of *)
(* nodes, sandbox IDs and clients and every bound.  The first part proves  *)
(* the types, that an entry in work is pending and that no accepted job is *)
(* lost; its inductive invariant IInv adds what the queue guarantees about *)
(* its cursor and what is known of the entries that goroutines hold.  The  *)
(* other parts stack further invariants on it: what a launch leaves        *)
(* behind, then that a sandbox submitted once has one live entry at a      *)
(* time, then the VM of that entry; each is inductive relative to the ones *)
(* before it.                                                              *)
(***************************************************************************)
EXTENDS TartarusSystem, TLAPS

(* Most leaves are first-order: Zenon proves them.  The others cite SMT.    *)
USE ZenonT(60)

(* The cursor is inside the stream and what is pending was delivered.      *)
CursorOK ==
  \A n \in Nodes : /\ lastDelivered[n] <= Len(stream[n])
                   /\ Len(stream[n]) <= MaxEntries
                   /\ \A i \in pel[n] : i <= lastDelivered[n]

(* The delivered entries of n that carry a request. *)
Jobs(n) == {i \in Receipts : i <= lastDelivered[n] /\ stream[n][i] \in SandboxIDs}

(* Whatever goroutine holds a receipt, it is that of a delivered request. *)
HoldersOK ==
  \A n \in Nodes :
    /\ job[n].r # 0 => job[n].r \in Jobs(n)
    /\ job[n].r = 0 <=> job[n].pc = "idle"
    /\ \A r \in Receipts : /\ waiter[n][r] # "none" => r \in Jobs(n)
                           /\ waiter[n][r] = "waiting" => awaited[n][r] \in Receipts
                           /\ r \in watching[n] => r \in Jobs(n)
                           /\ killer[n][r] # "idle" => r \in Jobs(n)

(* A Kill of the control loop works on the message at the head. *)
ControlOK == \A n \in Nodes : killer[n][0] # "idle" => control[n] # <<>>

(* A call that chose a node names a node. *)
CallsOK ==
  \A c \in Clients : calls[c].pc \in {"scheduled", "accepted"} => calls[c].node \in Nodes

IInv ==
  /\ TypeOK /\ CursorOK /\ HoldersOK /\ ControlOK /\ CallsOK
  /\ HandledEntryPending /\ AcceptedJobAccounted

USE DEF queueVars, hadesVars, runVars, controlVars, runtimeVars, furyVars, letheVars,
        olympusVars, agentVars, agentSide

QueueOK == QueueTypeOK /\ CursorOK

-----------------------------------------------------------------------------
(* What the operations of Acheron do to the queue: the types and the       *)
(* cursor stay right, delivered requests stay delivered, and no entry      *)
(* changes its payload.                                                    *)

QueueGrows ==
  \A n \in Nodes : /\ Jobs(n) \subseteq Jobs(n)'
                   /\ \A i \in Entries(n) : i \in Entries(n)' /\ stream'[n][i] = stream[n][i]

(* Enqueue appends the request as an entry that waits. *)
LEMMA EnqueueLemma ==
  ASSUME QueueOK, NEW n \in Nodes, NEW e \in SandboxIDs \cup {Poison}, Enqueue(n, e)
  PROVE  /\ QueueOK' /\ QueueGrows
         /\ Len(stream[n]) + 1 \in Entries(n)' \cap Waiting(n)'
         /\ stream'[n][Len(stream[n]) + 1] = e
  BY DomainAssumption, SMTT(30) DEF QueueOK, QueueTypeOK, CursorOK, QueueGrows, Enqueue, HasRoom,
     Jobs, Entries, Waiting, Receipts

(* Dequeue moves the cursor by one entry, which becomes pending. *)
LEMMA DeliverLemma ==
  ASSUME QueueOK, NEW n \in Nodes, Deliver(n)
  PROVE  /\ QueueOK' /\ QueueGrows
         /\ lastDelivered[n] + 1 \in Receipts \cap Entries(n)
         /\ lastDelivered'[n] = lastDelivered[n] + 1
         /\ pel'[n] = pel[n] \cup {lastDelivered[n] + 1}
  BY DomainAssumption, SMTT(30) DEF QueueOK, QueueTypeOK, CursorOK, QueueGrows, Deliver,
     Jobs, Entries, Waiting, Receipts

(* Dead-lettering an entry keeps the queue right. *)
LEMMA DeadLetterLemma ==
  ASSUME QueueOK, NEW n \in Nodes, NEW ok \in BOOLEAN, DeadLetter(n, ok)
  PROVE  QueueOK' /\ QueueGrows
  BY DomainAssumption, SMTT(30) DEF QueueOK, QueueTypeOK, CursorOK, QueueGrows, DeadLetter,
     Jobs, Entries, Waiting, Receipts

(* Ack keeps the queue right. *)
LEMMA AckLemma ==
  ASSUME QueueOK, NEW n \in Nodes, NEW i \in Receipts, Ack(n, i)
  PROVE  QueueOK' /\ QueueGrows
  BY DomainAssumption DEF QueueOK, QueueTypeOK, CursorOK, QueueGrows, Ack,
     Jobs, Entries, Receipts

(* Nack takes one entry off the pending list and appends a copy of it. *)
LEMMA NackLemma ==
  ASSUME QueueOK, NEW n \in Nodes, NEW i \in Jobs(n), Nack(n, i)
  PROVE  /\ QueueOK' /\ QueueGrows
         /\ Len(stream[n]) + 1 \in Entries(n)' \cap Waiting(n)'
         /\ stream'[n][Len(stream[n]) + 1] = stream[n][i]
         /\ pel'[n] = pel[n] \ {i}
  BY DomainAssumption, SMTT(30) DEF QueueOK, QueueTypeOK, CursorOK, QueueGrows, Nack, HasRoom,
     Jobs, Entries, Waiting, Receipts

-----------------------------------------------------------------------------
(* The accounting of accepted jobs.                                        *)

Accounted(n, s) ==
  \E i \in Entries(n) : stream[n][i] = s /\ i \in Waiting(n) \cup pel[n] \cup finished[n]

KeepsAccounts == \A n \in Nodes, s \in SandboxIDs : Accounted(n, s) => Accounted(n, s)'

(* A step that leaves the queue and the finished jobs alone loses no job. *)
LEMMA AccountsUnchanged ==
  ASSUME UNCHANGED <<stream, lastDelivered, pel, finished>>
  PROVE  KeepsAccounts
  BY DEF KeepsAccounts, Accounted, Entries, Waiting

(* Enqueue loses no job that was accounted for. *)
LEMMA EnqueueAccounts ==
  ASSUME QueueOK, NEW n \in Nodes, NEW e \in SandboxIDs \cup {Poison}, Enqueue(n, e),
         UNCHANGED finished
  PROVE  KeepsAccounts
<1>. SUFFICES ASSUME NEW m \in Nodes, NEW s \in SandboxIDs,
                     NEW i \in Entries(m), stream[m][i] = s,
                     i \in Waiting(m) \cup pel[m] \cup finished[m]
              PROVE  i \in Entries(m)' /\ stream'[m][i] = s
                     /\ i \in Waiting(m)' \cup pel'[m] \cup finished'[m]
  BY DEF KeepsAccounts, Accounted
<1>. QED BY SMTT(30) DEF QueueOK, QueueTypeOK, CursorOK, Enqueue, Entries, Waiting

(* Dequeue loses no job: what no longer waits is pending. *)
LEMMA DeliverAccounts ==
  ASSUME QueueOK, NEW n \in Nodes, Deliver(n), UNCHANGED finished
  PROVE  KeepsAccounts
  BY SMTT(30) DEF QueueOK, QueueTypeOK, CursorOK, Deliver, KeepsAccounts, Accounted, Entries, Waiting

(* Dead-lettering loses no job: the entry it drops carries none. *)
LEMMA DeadLetterAccounts ==
  ASSUME QueueOK, NEW n \in Nodes, NEW ok \in BOOLEAN, DeadLetter(n, ok), UNCHANGED finished
  PROVE  KeepsAccounts
<1>. SUFFICES ASSUME NEW m \in Nodes, NEW s \in SandboxIDs,
                     NEW i \in Entries(m), stream[m][i] = s,
                     i \in Waiting(m) \cup pel[m] \cup finished[m]
              PROVE  i \in Entries(m)' /\ stream'[m][i] = s
                     /\ i \in Waiting(m)' \cup pel'[m] \cup finished'[m]
  BY DEF KeepsAccounts, Accounted
<1>1. CASE m # n
  BY <1>1 DEF QueueOK, QueueTypeOK, DeadLetter, Entries, Waiting
<1>2. CASE m = n
  <2>1. i # lastDelivered[n] + 1
    BY <1>2, AcheronAssumption DEF DeadLetter, Payload
  <2>. QED BY <1>2, <2>1, SMTT(30) DEF QueueOK, QueueTypeOK, CursorOK, DeadLetter, Entries, Waiting
<1>. QED BY <1>1, <1>2

(* Ack at the end of a job loses no job: the entry is finished. *)
LEMMA AckAccounts ==
  ASSUME QueueOK, finished \in [Nodes -> SUBSET Receipts],
         NEW n \in Nodes, NEW r \in Receipts, Ack(n, r),
         finished' = [finished EXCEPT ![n] = @ \cup {r}]
  PROVE  KeepsAccounts
  BY DEF QueueOK, QueueTypeOK, CursorOK, Ack, KeepsAccounts, Accounted, Entries, Waiting

(* Nack loses no job: the copy waits in place of the original. *)
LEMMA NackAccounts ==
  ASSUME QueueOK, NEW n \in Nodes, NEW r \in Jobs(n), Nack(n, r), UNCHANGED finished
  PROVE  KeepsAccounts
<1>. SUFFICES ASSUME NEW m \in Nodes, NEW s \in SandboxIDs,
                     NEW i \in Entries(m), stream[m][i] = s,
                     i \in Waiting(m) \cup pel[m] \cup finished[m]
              PROVE  Accounted(m, s)'
  BY DEF KeepsAccounts, Accounted
<1>1. CASE m = n /\ i = r
  <2>1. Len(stream[n]) + 1 \in Entries(n)' /\ Len(stream[n]) + 1 \in Waiting(n)'
    BY NackLemma
  <2>2. stream'[n][Len(stream[n]) + 1] = s
    BY <1>1, NackLemma
  <2>. QED BY <1>1, <2>1, <2>2 DEF Accounted
<1>2. CASE ~(m = n /\ i = r)
  <2>1. i \in Entries(m)' /\ stream'[m][i] = s
        /\ i \in Waiting(m)' \cup pel'[m] \cup finished'[m]
    BY <1>2, SMTT(30) DEF QueueOK, QueueTypeOK, Nack, Entries, Waiting
  <2>. QED BY <2>1 DEF Accounted
<1>. QED BY <1>1, <1>2

(* A step that keeps the accounts and accepts no call keeps the property.  *)
LEMMA AccountsSuffice ==
  ASSUME IInv, KeepsAccounts,
         \A c \in Clients : calls'[c].pc = "accepted" => calls'[c] = calls[c]
  PROVE  AcceptedJobAccounted'
<1>. SUFFICES ASSUME NEW c \in Clients, calls'[c].pc = "accepted"
              PROVE  Accounted(calls[c].node, calls[c].id)'
  BY DEF AcceptedJobAccounted, Accounted, Payload
<1>1. Accounted(calls[c].node, calls[c].id)
  BY DEF IInv, AcceptedJobAccounted, Accounted, Payload
<1>2. calls[c].node \in Nodes /\ calls[c].id \in SandboxIDs
  BY DEF IInv, TypeOK, OlympusTypeOK, CallsOK
<1>. QED BY <1>1, <1>2 DEF KeepsAccounts

(* Steps that touch neither the queues nor Olympus. *)
LEMMA QuietStep ==
  ASSUME IInv, UNCHANGED <<queueVars, olympusVars, finished>>
  PROVE  /\ QueueOK' /\ OlympusTypeOK' /\ CallsOK' /\ AcceptedJobAccounted'
         /\ \A n \in Nodes : Jobs(n)' = Jobs(n)
<1>1. AcceptedJobAccounted'
  BY AccountsUnchanged, AccountsSuffice
<1>2. QueueOK' /\ \A n \in Nodes : Jobs(n)' = Jobs(n)
  BY DEF IInv, TypeOK, QueueOK, QueueTypeOK, CursorOK, Jobs
<1>3. OlympusTypeOK' /\ CallsOK'
  BY DEF IInv, TypeOK, OlympusTypeOK, CallsOK
<1>. QED BY <1>1, <1>2, <1>3

(* Steps of Olympus leave the agents alone. *)
LEMMA AgentsUntouched ==
  ASSUME IInv, QueueGrows, UNCHANGED <<pel, agentSide>>
  PROVE  /\ FuryTypeOK' /\ LetheTypeOK' /\ StyxTypeOK' /\ AgentTypeOK'
         /\ HoldersOK' /\ HandledEntryPending'
<1>1. FuryTypeOK' /\ LetheTypeOK' /\ StyxTypeOK' /\ AgentTypeOK'
  BY DEF IInv, TypeOK, FuryTypeOK, LetheTypeOK, StyxTypeOK, AgentTypeOK
<1>2. HoldersOK'
  BY DEF IInv, HoldersOK, QueueGrows
<1>3. HandledEntryPending'
  BY DEF IInv, HandledEntryPending, Handled
<1>. QED BY <1>1, <1>2, <1>3

(* A queue left alone keeps its entries. *)
LEMMA QueueUnchangedGrows ==
  ASSUME UNCHANGED queueVars
  PROVE  QueueGrows
  BY DEF QueueGrows, Jobs, Entries

-----------------------------------------------------------------------------
(* Typing of the registry, the faults and the control topics.              *)

(* UpdateRun with a run record keeps the registry well typed. *)
LEMMA UpdateRunType ==
  ASSUME HadesTypeOK, NEW s, NEW status \in RunStatus, NEW node \in Nodes \cup {NoNode},
         NEW ok \in BOOLEAN, s \in SandboxIDs, UpdateRun(s, status, node, ok),
         UNCHANGED registered
  PROVE  HadesTypeOK'
  BY SMTT(30) DEF HadesTypeOK, UpdateRun, RunRecord

(* Counting a failure keeps the failure counter well typed. *)
LEMMA FailingType ==
  ASSUME FaultsTypeOK, NEW k \in Nat, Failing(k)
  PROVE  FaultsTypeOK'
  BY DomainAssumption, SMTT(30) DEF FaultsTypeOK, Failing

(* The cost of a step is a natural number. *)
LEMMA CostNat == \A ok : Cost(ok) \in Nat
  BY DEF Cost

-----------------------------------------------------------------------------
(* Steps of Olympus.                                                       *)

(* Every step of Manager.Submit preserves the inductive invariant. *)
LEMMA SubmitPreserves ==
  ASSUME IInv, NEW c \in Clients, SubmitStep(c)
  PROVE  IInv'
<1>. USE DEF Goto
<1>. DEFINE Steady == \A d \in Clients : calls'[d].pc = "accepted" => calls'[d] = calls[d]
<1>0. TypeOK /\ QueueOK /\ CallsOK /\ ControlOK
  BY DEF IInv, TypeOK, QueueOK
<1>a. /\ calls[c].id \in SandboxIDs /\ calls[c].node \in Nodes \cup {NoNode}
      /\ calls \in [Clients -> [pc : CallState, id : SandboxIDs, node : Nodes \cup {NoNode}]]
  BY <1>0 DEF TypeOK, OlympusTypeOK
<1>b. UNCHANGED <<controlVars, runtimeVars, registered, kills, reconcile, agentSide>>
  BY DEF SubmitStep, SubmitRejected, SubmitPersist, SubmitUnschedulable,
     SubmitSchedule, SubmitEnqueue, SubmitEnqueueFails
<1>c. ControlTypeOK' /\ RuntimeTypeOK' /\ ControlOK'
  BY <1>0, <1>b DEF TypeOK, ControlTypeOK, RuntimeTypeOK, ControlOK
<1>d. ASSUME UNCHANGED queueVars, Steady, FaultsTypeOK', HadesTypeOK', OlympusTypeOK', CallsOK'
      PROVE  IInv'
  <2>1. QueueOK' /\ QueueGrows
    BY <1>0, <1>d, QueueUnchangedGrows DEF QueueOK, QueueTypeOK, CursorOK
  <2>2. AcceptedJobAccounted'
    BY <1>b, <1>d, AccountsUnchanged, AccountsSuffice
  <2>3. /\ FuryTypeOK' /\ LetheTypeOK' /\ StyxTypeOK' /\ AgentTypeOK'
        /\ HoldersOK' /\ HandledEntryPending'
    BY <1>b, <1>d, <2>1, AgentsUntouched
  <2>. QED BY <1>c, <1>d, <2>1, <2>2, <2>3 DEF IInv, TypeOK, QueueOK
<1>1. CASE SubmitRejected(c)
  <2>1. UNCHANGED queueVars /\ FaultsTypeOK' /\ HadesTypeOK'
    BY <1>0, <1>1 DEF SubmitRejected, TypeOK, FaultsTypeOK, HadesTypeOK
  <2>2. OlympusTypeOK' /\ CallsOK' /\ Steady
    BY <1>0, <1>1 DEF SubmitRejected, TypeOK, OlympusTypeOK, CallsOK, CallState
  <2>. QED BY <1>d, <2>1, <2>2
<1>2. CASE SubmitPersist(c)
  <2>1. UNCHANGED queueVars /\ FaultsTypeOK' /\ HadesTypeOK'
    BY <1>0, <1>2, <1>a, <1>b, UpdateRunType DEF SubmitPersist, TypeOK,
       FaultsTypeOK, RunStatus
  <2>2. OlympusTypeOK' /\ CallsOK' /\ Steady
    BY <1>0, <1>2 DEF SubmitPersist, TypeOK, OlympusTypeOK, CallsOK, CallState
  <2>. QED BY <1>d, <2>1, <2>2
<1>3. CASE SubmitUnschedulable(c)
  <2>1. PICK ok \in BOOLEAN : /\ UpdateRun(calls[c].id, "FAILED", NoNode, ok)
                              /\ Failing(Cost(ListNodes = {}) + Cost(ok))
    BY <1>3 DEF SubmitUnschedulable
  <2>2. UNCHANGED queueVars /\ FaultsTypeOK'
    BY <1>0, <1>3, <2>1, FailingType, CostNat, SMTT(30) DEF SubmitUnschedulable, TypeOK
  <2>3. HadesTypeOK'
    BY <1>0, <1>a, <1>b, <2>1, UpdateRunType DEF TypeOK, RunStatus
  <2>4. OlympusTypeOK' /\ CallsOK' /\ Steady
    BY <1>0, <1>3 DEF SubmitUnschedulable, TypeOK, OlympusTypeOK, CallsOK, CallState
  <2>. QED BY <1>d, <2>2, <2>3, <2>4
<1>4. CASE SubmitSchedule(c)
  <2>1. PICK n \in ListNodes, ok \in BOOLEAN :
          /\ calls' = [calls EXCEPT ![c].pc = "scheduled", ![c].node = n]
          /\ UpdateRun(calls[c].id, "SCHEDULED", n, ok)
          /\ Failing(Cost(ok))
    BY <1>4 DEF SubmitSchedule
  <2>2. UNCHANGED queueVars /\ FaultsTypeOK' /\ n \in Nodes
    BY <1>0, <1>4, <2>1, FailingType, CostNat DEF SubmitSchedule, TypeOK, ListNodes
  <2>3. HadesTypeOK'
    BY <1>0, <1>a, <1>b, <2>1, <2>2, UpdateRunType DEF TypeOK, RunStatus
  <2>4. OlympusTypeOK' /\ CallsOK' /\ Steady
    BY <1>0, <1>b, <2>1, <2>2 DEF TypeOK, OlympusTypeOK, CallsOK, CallState
  <2>. QED BY <1>d, <2>2, <2>3, <2>4
<1>5. CASE SubmitEnqueue(c)
  <2>0. PICK n \in Nodes, e \in SandboxIDs : n = calls[c].node /\ e = calls[c].id
    BY <1>0, <1>5, <1>a DEF SubmitEnqueue, CallsOK
  <2>1. /\ Enqueue(n, e)
        /\ UNCHANGED <<pel, finished, faults, hadesVars>>
        /\ calls' = [calls EXCEPT ![c].pc = "accepted"]
    BY <1>5, <1>b, <2>0 DEF SubmitEnqueue, Enqueue
  <2>2. QueueOK' /\ QueueGrows /\ Accounted(n, e)'
    <3>1. /\ QueueOK' /\ QueueGrows
          /\ Len(stream[n]) + 1 \in Entries(n)' /\ Len(stream[n]) + 1 \in Waiting(n)'
          /\ stream'[n][Len(stream[n]) + 1] = e
      BY <1>0, <2>1, EnqueueLemma
    <3>. QED BY <3>1 DEF Accounted
  <2>3. KeepsAccounts
    BY <1>0, <2>1, EnqueueAccounts
  <2>4. FaultsTypeOK' /\ HadesTypeOK' /\ OlympusTypeOK' /\ CallsOK'
    <3>1. FaultsTypeOK' /\ HadesTypeOK'
      BY <1>0, <2>1 DEF TypeOK, FaultsTypeOK, HadesTypeOK
    <3>2. OlympusTypeOK' /\ CallsOK'
      BY <1>0, <1>b, <2>0, <2>1, SMTT(30) DEF TypeOK, OlympusTypeOK, CallsOK, CallState
    <3>. QED BY <3>1, <3>2
  <2>5. AcceptedJobAccounted'
    <3>. SUFFICES ASSUME NEW d \in Clients, calls'[d].pc = "accepted"
                  PROVE  Accounted(calls[d].node, calls[d].id)'
      BY DEF AcceptedJobAccounted, Accounted, Payload
    <3>1. CASE d = c
      <4>1. calls'[d].node = n /\ calls'[d].id = e
        BY <1>a, <2>0, <2>1, <3>1
      <4>. QED BY <2>2, <4>1
    <3>2. CASE d # c
      <4>1. calls'[d] = calls[d]
        BY <1>a, <2>1, <3>2
      <4>2. calls[d].node \in Nodes /\ calls[d].id \in SandboxIDs
        BY <1>0, <1>a, <4>1 DEF CallsOK
      <4>3. Accounted(calls[d].node, calls[d].id)
        BY <4>1 DEF IInv, AcceptedJobAccounted, Accounted, Payload
      <4>. QED BY <2>3, <4>1, <4>2, <4>3 DEF KeepsAccounts
    <3>. QED BY <3>1, <3>2
  <2>6. /\ FuryTypeOK' /\ LetheTypeOK' /\ StyxTypeOK' /\ AgentTypeOK'
        /\ HoldersOK' /\ HandledEntryPending'
    BY <1>b, <2>1, <2>2, AgentsUntouched
  <2>. QED BY <1>c, <2>2, <2>4, <2>5, <2>6 DEF IInv, TypeOK, QueueOK
<1>6. CASE SubmitEnqueueFails(c)
  <2>1. PICK ok \in BOOLEAN : /\ UpdateRun(calls[c].id, "FAILED", calls[c].node, ok)
                              /\ Failing(1 + Cost(ok))
    BY <1>6 DEF SubmitEnqueueFails
  <2>2. UNCHANGED queueVars /\ FaultsTypeOK'
    BY <1>0, <1>6, <2>1, FailingType, CostNat, SMTT(30) DEF SubmitEnqueueFails, TypeOK
  <2>3. HadesTypeOK'
    BY <1>0, <1>a, <1>b, <2>1, UpdateRunType DEF TypeOK, RunStatus
  <2>4. OlympusTypeOK' /\ CallsOK' /\ Steady
    BY <1>0, <1>6 DEF SubmitEnqueueFails, TypeOK, OlympusTypeOK, CallsOK, CallState
  <2>. QED BY <1>d, <2>2, <2>3, <2>4
<1>. QED BY <1>1, <1>2, <1>3, <1>4, <1>5, <1>6 DEF SubmitStep

(* Every step of Manager.Reconcile preserves the inductive invariant. *)
LEMMA ReconcilePreserves ==
  ASSUME IInv, ReconcileStep
  PROVE  IInv'
<1>0. TypeOK /\ QueueOK /\ ControlOK /\ CallsOK
  BY DEF IInv, TypeOK, QueueOK
<1>1. UNCHANGED <<queueVars, registered, controlVars, runtimeVars, calls, kills, agentSide>>
  BY DEF ReconcileStep, ReconcileQuery
<1>2. QueueOK' /\ QueueGrows
  BY <1>0, <1>1, QueueUnchangedGrows DEF QueueOK, QueueTypeOK, CursorOK
<1>3. AcceptedJobAccounted'
  BY <1>1, AccountsUnchanged, AccountsSuffice
<1>4. /\ FuryTypeOK' /\ LetheTypeOK' /\ StyxTypeOK' /\ AgentTypeOK'
      /\ HoldersOK' /\ HandledEntryPending'
  BY <1>1, <1>2, AgentsUntouched
<1>5. ControlTypeOK' /\ RuntimeTypeOK' /\ ControlOK' /\ CallsOK'
  BY <1>0, <1>1 DEF TypeOK, ControlTypeOK, RuntimeTypeOK, ControlOK, CallsOK
<1>6. FaultsTypeOK' /\ HadesTypeOK' /\ OlympusTypeOK'
  <2>1. PICK n \in Nodes : ReconcileQuery(n)
    BY DEF ReconcileStep
  <2>. QED BY <1>0, <2>1 DEF ReconcileQuery, TypeOK, FaultsTypeOK, HadesTypeOK, OlympusTypeOK
<1>. QED BY <1>2, <1>3, <1>4, <1>5, <1>6 DEF IInv, TypeOK, QueueOK

(* KillSandbox and a restart of Olympus preserve the inductive invariant. *)
LEMMA OperatorPreserves ==
  ASSUME IInv, OperatorStep
  PROVE  IInv'
<1>0. TypeOK /\ QueueOK /\ ControlOK /\ CallsOK
  BY DEF IInv, TypeOK, QueueOK
<1>1. UNCHANGED <<queueVars, hadesVars, up, runtimeVars, agentSide>>
  BY DEF OperatorStep, KillSandbox, OlympusRestart
<1>2. QueueOK' /\ QueueGrows
  BY <1>0, <1>1, QueueUnchangedGrows DEF QueueOK, QueueTypeOK, CursorOK
<1>3. /\ FuryTypeOK' /\ LetheTypeOK' /\ StyxTypeOK' /\ AgentTypeOK'
      /\ HoldersOK' /\ HandledEntryPending'
  BY <1>1, <1>2, AgentsUntouched
<1>4. HadesTypeOK' /\ RuntimeTypeOK'
  BY <1>0, <1>1 DEF TypeOK, HadesTypeOK, RuntimeTypeOK
<1>5. ASSUME NEW s \in SandboxIDs, KillSandbox(s)
      PROVE  IInv'
  <2>1. AcceptedJobAccounted'
    BY <1>1, <1>5, AccountsUnchanged, AccountsSuffice DEF KillSandbox
  <2>2. FaultsTypeOK' /\ OlympusTypeOK' /\ CallsOK'
    <3>1. FaultsTypeOK'
      BY <1>0, <1>5, FailingType, CostNat DEF KillSandbox, TypeOK
    <3>2. OlympusTypeOK' /\ CallsOK'
      BY <1>0, <1>5, OlympusAssumption, SMTT(30) DEF KillSandbox, TypeOK, OlympusTypeOK, CallsOK
    <3>. QED BY <3>1, <3>2
  <2>3. ControlTypeOK'
    BY <1>0, <1>5, SMTT(30) DEF KillSandbox, PublishKill, TypeOK, ControlTypeOK
  <2>4. ControlOK'
    <3>. SUFFICES ASSUME NEW n \in Nodes, killer'[n][0] # "idle"
                  PROVE  control'[n] # <<>>
      BY DEF ControlOK
    <3>1. control[n] # <<>> /\ control[n] \in Seq(SandboxIDs)
      BY <1>0, <1>1 DEF ControlOK, TypeOK, ControlTypeOK
    <3>2. control'[n] = control[n] \/ control'[n] = Append(control[n], s)
      BY <1>5 DEF KillSandbox, PublishKill
    <3>. QED BY <3>1, <3>2, SMTT(30)
  <2>. QED BY <1>2, <1>3, <1>4, <2>1, <2>2, <2>3, <2>4 DEF IInv, TypeOK, QueueOK
<1>6. ASSUME OlympusRestart
      PROVE  IInv'
  <2>1. PICK ok \in BOOLEAN :
          /\ reconcile' = IF ok THEN ListNodes ELSE {}
          /\ Failing(1 + Cost(ok))
    BY <1>6 DEF OlympusRestart
  <2>2. \A c \in Clients : calls'[c].pc = "accepted" => calls'[c] = calls[c]
    BY <1>0, <1>6 DEF OlympusRestart, TypeOK, OlympusTypeOK
  <2>3. AcceptedJobAccounted'
    BY <1>1, <2>2, AccountsUnchanged, AccountsSuffice
  <2>4. FaultsTypeOK'
    BY <1>0, <2>1, FailingType, CostNat, SMTT(30) DEF TypeOK
  <2>5. OlympusTypeOK' /\ CallsOK'
    BY <1>0, <1>6, <2>1, SMTT(30) DEF OlympusRestart, TypeOK, OlympusTypeOK, CallsOK, ListNodes, CallState
  <2>6. ControlTypeOK' /\ ControlOK'
    BY <1>0, <1>1, <1>6 DEF OlympusRestart, TypeOK, ControlTypeOK, ControlOK
  <2>. QED BY <1>2, <1>3, <1>4, <2>3, <2>4, <2>5, <2>6 DEF IInv, TypeOK, QueueOK
<1>. QED BY <1>5, <1>6 DEF OperatorStep

-----------------------------------------------------------------------------
(* Steps of the agents.                                                    *)

(* Whatever an agent does, Olympus stays as it is. *)
LEMMA OlympusUntouched ==
  ASSUME IInv, KeepsAccounts, UNCHANGED olympusVars
  PROVE  OlympusTypeOK' /\ CallsOK' /\ AcceptedJobAccounted'
<1>1. AcceptedJobAccounted'
  BY AccountsSuffice
<1>2. OlympusTypeOK' /\ CallsOK'
  BY DEF IInv, TypeOK, OlympusTypeOK, CallsOK
<1>. QED BY <1>1, <1>2

(* A main loop that is not idle works on a delivered request. *)
LEMMA BusyJob ==
  ASSUME IInv, NEW n \in Nodes, job[n].pc # "idle"
  PROVE  /\ job[n].r \in Receipts /\ job[n].r \in Jobs(n) /\ job[n].r # 0
         /\ JobID(n) \in SandboxIDs /\ stream[n][job[n].r] = JobID(n)
  BY DEF IInv, HoldersOK, Jobs, JobID, Payload

(* The record of a main loop that waits for work. *)
LEMMA IdleFact == Idle \in JobState /\ Idle.r = 0 /\ Idle.pc = "idle"
  BY HecatoncheirAssumption, SMTT(30) DEF Idle, JobState, JobPC

(* The record of a main loop that has just taken entry r. *)
LEMMA StagedFact ==
  ASSUME NEW r \in Receipts
  PROVE  [pc |-> "stage", r |-> r, keys |-> Secrets, denied |-> FALSE] \in JobState
  BY HecatoncheirAssumption, SMTT(30) DEF JobState, JobPC

(* An entry that a goroutine holds carries a sandbox ID. *)
LEMMA HolderPayload ==
  ASSUME NEW n \in Nodes, NEW r \in Jobs(n)
  PROVE  r \in Receipts /\ Payload(n, r) \in SandboxIDs
  BY DEF Jobs, Payload

(* An error path of the main loop: the job is handed back, or stays        *)
(* pending, and the loop goes on.                                          *)
LEMMA AbandonLemma ==
  ASSUME IInv, NEW n \in Nodes, job[n].pc # "idle", NEW ok \in BOOLEAN, NackJob(n, ok),
         job' = [job EXCEPT ![n] = Idle],
         UNCHANGED <<waiter, awaited, killer, watching, finished>>
  PROVE  QueueOK' /\ KeepsAccounts /\ HoldersOK' /\ HandledEntryPending' /\ AgentTypeOK'
<1>0. QueueOK /\ TypeOK /\ HoldersOK /\ HandledEntryPending
  BY DEF IInv, TypeOK, QueueOK
<1>1. job[n].r \in Jobs(n) /\ job[n].r \in Receipts
  BY BusyJob
<1>2. QueueOK' /\ QueueGrows /\ KeepsAccounts
  <2>1. CASE ok
    BY <1>0, <1>1, <2>1, NackLemma, NackAccounts DEF NackJob
  <2>2. CASE ~ok
    <3>1. UNCHANGED queueVars
      BY <2>2 DEF NackJob
    <3>. QED BY <1>0, <3>1, QueueUnchangedGrows, AccountsUnchanged
            DEF QueueOK, QueueTypeOK, CursorOK
  <2>. QED BY <2>1, <2>2
<1>3. pel' = pel \/ pel' = [pel EXCEPT ![n] = @ \ {job[n].r}]
  BY DEF NackJob, Nack
<1>4. AgentTypeOK'
  BY <1>0, HecatoncheirAssumption, SMTT(30) DEF TypeOK, AgentTypeOK, Idle, JobState, JobPC
<1>5. HoldersOK'
  BY <1>0, <1>2 DEF TypeOK, AgentTypeOK, HoldersOK, QueueGrows, Idle
<1>6. HandledEntryPending'
  <2>. SUFFICES ASSUME NEW m \in Nodes, NEW q \in Receipts
                PROVE  /\ job'[m].r = q \/ waiter'[m][q] # "none" => q \in pel'[m]
                       /\ waiter'[m][q] # "none" => job'[m].r # q
    BY DEF HandledEntryPending, Handled
  <2>1. /\ job[m].r = q \/ waiter[m][q] # "none" => q \in pel[m]
        /\ waiter[m][q] # "none" => job[m].r # q
    BY <1>0 DEF HandledEntryPending, Handled
  <2>2. job'[m] = (IF m = n THEN Idle ELSE job[m]) /\ Idle.r = 0 /\ q # 0
    BY <1>0, SMTT(30) DEF TypeOK, AgentTypeOK, Idle, Receipts
  <2>3. q \in pel[m] => q \in pel'[m] \/ (m = n /\ q = job[n].r)
    BY <1>0, <1>3 DEF TypeOK, QueueTypeOK
  <2>. QED BY <2>1, <2>2, <2>3
<1>. QED BY <1>2, <1>4, <1>5, <1>6

(* The main loop goes on with the same job. *)
LEMMA GoOnLemma ==
  ASSUME IInv, NEW n \in Nodes, job[n].pc # "idle", NEW pc \in JobPC \ {"idle"}, JobGoto(n, pc),
         UNCHANGED <<queueVars, waiter, awaited, killer, watching, finished>>
  PROVE  QueueOK' /\ KeepsAccounts /\ HoldersOK' /\ HandledEntryPending' /\ AgentTypeOK'
<1>0. QueueOK /\ TypeOK /\ HoldersOK /\ HandledEntryPending
  BY DEF IInv, TypeOK, QueueOK
<1>1. QueueOK' /\ KeepsAccounts
  BY <1>0, AccountsUnchanged DEF QueueOK, QueueTypeOK, CursorOK
<1>2. AgentTypeOK'
  BY <1>0 DEF TypeOK, AgentTypeOK, JobGoto, JobState
<1>3. \A m \in Nodes : /\ job'[m].r = job[m].r /\ Jobs(m)' = Jobs(m)
                       /\ (job'[m].pc = "idle" <=> job[m].pc = "idle")
  BY <1>0 DEF TypeOK, AgentTypeOK, JobGoto, JobState, Jobs
<1>4. HoldersOK'
  BY <1>0, <1>3 DEF HoldersOK
<1>5. HandledEntryPending'
  BY <1>0, <1>3 DEF HandledEntryPending, Handled
<1>. QED BY <1>1, <1>2, <1>4, <1>5

(* Every step of the agent's main loop preserves the inductive invariant. *)
LEMMA MainLoopPreserves ==
  ASSUME IInv, NEW n \in Nodes, MainLoopStep(n)
  PROVE  IInv'
<1>0. TypeOK /\ QueueOK /\ HoldersOK /\ ControlOK /\ HandledEntryPending
  BY DEF IInv, TypeOK, QueueOK
<1>a. UNCHANGED <<registered, controlVars, exitCode, killer, awaited, finished, olympusVars>>
  BY DEF MainLoopStep, Dequeue, DequeuePoison, Stage, StageFails, AttachNetwork,
     AttachNetworkFails, LaunchVM, LaunchVMFails, ReportRunning, ArmAndWait, Launch
<1>b. ControlTypeOK' /\ ControlOK'
  BY <1>0, <1>a DEF TypeOK, ControlTypeOK, ControlOK
<1>c. ASSUME QueueOK', KeepsAccounts, HoldersOK', HandledEntryPending', AgentTypeOK',
             FaultsTypeOK', HadesTypeOK', RuntimeTypeOK', FuryTypeOK', LetheTypeOK', StyxTypeOK'
      PROVE  IInv'
  BY <1>a, <1>b, <1>c, OlympusUntouched DEF IInv, TypeOK, QueueOK
<1>d. ASSUME UNCHANGED <<runVars>> PROVE HadesTypeOK'
  BY <1>0, <1>a, <1>d DEF TypeOK, HadesTypeOK
<1>e. ASSUME UNCHANGED <<vms, proc>> PROVE RuntimeTypeOK'
  BY <1>0, <1>a, <1>e DEF TypeOK, RuntimeTypeOK
<1>f. ASSUME UNCHANGED furyVars PROVE FuryTypeOK'
  BY <1>0, <1>f DEF TypeOK, FuryTypeOK
<1>g. ASSUME UNCHANGED letheVars PROVE LetheTypeOK'
  BY <1>0, <1>g DEF TypeOK, LetheTypeOK
<1>h. ASSUME UNCHANGED attached PROVE StyxTypeOK'
  BY <1>0, <1>h DEF TypeOK, StyxTypeOK
<1>i. ASSUME UNCHANGED faults PROVE FaultsTypeOK'
  BY <1>0, <1>i DEF TypeOK, FaultsTypeOK
<1>3. CASE Stage(n)
  <2>1. job[n].r \in Receipts /\ job[n].pc # "idle"
    BY <1>3, BusyJob DEF Stage, At
  <2>2. LetheTypeOK'
    BY <1>0, <1>3, <2>1 DEF Stage, CreateOverlay, TypeOK, LetheTypeOK
  <2>3. QueueOK' /\ KeepsAccounts /\ HoldersOK' /\ HandledEntryPending' /\ AgentTypeOK'
    BY <1>3, <2>1, GoOnLemma DEF Stage, JobPC
  <2>. QED BY <1>3, <1>c, <1>d, <1>e, <1>f, <1>h, <1>i, <2>2, <2>3 DEF Stage
<1>4. CASE StageFails(n)
  <2>1. job[n].r \in Receipts /\ job[n].pc # "idle"
    BY <1>4, BusyJob DEF StageFails, At
  <2>2. PICK ok \in BOOLEAN : NackJob(n, ok) /\ Failing(1 + Cost(ok))
    BY <1>4 DEF StageFails
  <2>3. FaultsTypeOK'
    BY <1>0, <2>2, FailingType, CostNat, SMTT(30) DEF TypeOK
  <2>4. LetheTypeOK'
    <3>1. CreateOverlayFails(n, job[n].r)
      BY <1>4 DEF StageFails
    <3>2. CASE UNCHANGED letheVars
      BY <1>g, <3>2
    <3>3. CASE /\ overlays' = [overlays EXCEPT ![n] = @ \cup {job[n].r}]
               /\ leaked' = [leaked EXCEPT ![n] = @ \cup {job[n].r}]
      BY ONLY <1>0, <2>1, <3>3 DEF TypeOK, LetheTypeOK
    <3>. QED BY <3>1, <3>2, <3>3 DEF CreateOverlayFails
  <2>5. QueueOK' /\ KeepsAccounts /\ HoldersOK' /\ HandledEntryPending' /\ AgentTypeOK'
    BY <1>4, <2>1, <2>2, AbandonLemma DEF StageFails
  <2>. QED BY <1>4, <1>c, <1>d, <1>e, <1>f, <1>h, <2>3, <2>4, <2>5 DEF StageFails
<1>5. CASE AttachNetwork(n)
  <2>1. JobID(n) \in SandboxIDs /\ job[n].pc # "idle"
    BY <1>5, BusyJob DEF AttachNetwork, At
  <2>2. StyxTypeOK'
    BY <1>0, <1>5, <2>1 DEF AttachNetwork, Attach, TypeOK, StyxTypeOK
  <2>3. QueueOK' /\ KeepsAccounts /\ HoldersOK' /\ HandledEntryPending' /\ AgentTypeOK'
    BY <1>5, <2>1, GoOnLemma DEF AttachNetwork, JobPC
  <2>. QED BY <1>5, <1>c, <1>d, <1>e, <1>f, <1>g, <1>i, <2>2, <2>3 DEF AttachNetwork
<1>6. CASE AttachNetworkFails(n)
  <2>1. JobID(n) \in SandboxIDs /\ job[n].r \in Receipts /\ job[n].pc # "idle"
    BY <1>6, BusyJob DEF AttachNetworkFails, At
  <2>2. PICK destroyed \in BOOLEAN, ok \in BOOLEAN :
          /\ DestroyOverlay(n, job[n].r, destroyed)
          /\ NackJob(n, ok)
          /\ Failing(1 + Cost(destroyed) + Cost(ok))
    BY <1>6 DEF AttachNetworkFails
  <2>3. FaultsTypeOK'
    BY <1>0, <2>2, FailingType, CostNat, SMTT(30) DEF TypeOK
  <2>4. LetheTypeOK'
    BY <1>0, <2>1, <2>2 DEF DestroyOverlay, TypeOK, LetheTypeOK
  <2>5. StyxTypeOK'
    BY <1>0, <1>6, <2>1 DEF AttachNetworkFails, AttachFails, Attach, TypeOK, StyxTypeOK
  <2>6. QueueOK' /\ KeepsAccounts /\ HoldersOK' /\ HandledEntryPending' /\ AgentTypeOK'
    BY <1>6, <2>1, <2>2, AbandonLemma DEF AttachNetworkFails
  <2>. QED BY <1>6, <1>c, <1>d, <1>e, <1>f, <2>3, <2>4, <2>5, <2>6 DEF AttachNetworkFails
<1>7. CASE LaunchVM(n)
  <2>1. JobID(n) \in SandboxIDs /\ job[n].r \in Receipts /\ job[n].pc # "idle"
    BY <1>7, BusyJob DEF LaunchVM, At
  <2>2. RuntimeTypeOK'
    BY <1>0, <1>7, <2>1 DEF LaunchVM, Launch, TypeOK, RuntimeTypeOK, ProcState
  <2>3. QueueOK' /\ KeepsAccounts /\ HoldersOK' /\ HandledEntryPending' /\ AgentTypeOK'
    BY <1>7, <2>1, GoOnLemma DEF LaunchVM, JobPC
  <2>. QED BY <1>7, <1>c, <1>d, <1>f, <1>g, <1>h, <1>i, <2>2, <2>3 DEF LaunchVM
<1>8. CASE LaunchVMFails(n)
  <2>1. JobID(n) \in SandboxIDs /\ job[n].r \in Receipts /\ job[n].pc # "idle"
    BY <1>8, BusyJob DEF LaunchVMFails, At
  <2>2. PICK destroyed \in BOOLEAN, detached \in BOOLEAN, ok \in BOOLEAN :
          /\ Detach(n, JobID(n), detached)
          /\ DestroyOverlay(n, job[n].r, destroyed)
          /\ NackJob(n, ok)
          /\ Failing(1 + Cost(destroyed) + Cost(detached) + Cost(ok))
    BY <1>8 DEF LaunchVMFails
  <2>3. FaultsTypeOK'
    BY <1>0, <2>2, FailingType, CostNat, SMTT(30) DEF TypeOK
  <2>4. LetheTypeOK'
    BY <1>0, <2>1, <2>2 DEF DestroyOverlay, TypeOK, LetheTypeOK
  <2>5. StyxTypeOK'
    BY <1>0, <2>2 DEF Detach, TypeOK, StyxTypeOK
  <2>6. QueueOK' /\ KeepsAccounts /\ HoldersOK' /\ HandledEntryPending' /\ AgentTypeOK'
    BY <1>8, <2>1, <2>2, AbandonLemma DEF LaunchVMFails
  <2>. QED BY <1>8, <1>c, <1>d, <1>e, <1>f, <2>3, <2>4, <2>5, <2>6 DEF LaunchVMFails
<1>9. CASE ReportRunning(n)
  <2>1. JobID(n) \in SandboxIDs /\ job[n].pc # "idle"
    BY <1>9, BusyJob DEF ReportRunning, At
  <2>2. PICK ok \in BOOLEAN : /\ UpdateRun(JobID(n), "RUNNING", RunNodeID(n), ok)
                              /\ Failing(Cost(ok))
    BY <1>9 DEF ReportRunning
  <2>3. FaultsTypeOK'
    BY <1>0, <2>2, FailingType, CostNat DEF TypeOK
  <2>4. HadesTypeOK'
    BY <1>0, <1>a, <2>1, <2>2, UpdateRunType DEF TypeOK, RunStatus, RunNodeID
  <2>5. QueueOK' /\ KeepsAccounts /\ HoldersOK' /\ HandledEntryPending' /\ AgentTypeOK'
    BY <1>9, <2>1, GoOnLemma DEF ReportRunning, JobPC
  <2>. QED BY <1>9, <1>c, <1>e, <1>f, <1>g, <1>h, <2>3, <2>4, <2>5 DEF ReportRunning
<1>1. CASE Dequeue(n)
  <2>1. PICK r \in Receipts :
          /\ r = lastDelivered[n] + 1 /\ r \in Entries(n)
          /\ lastDelivered'[n] = r /\ pel' = [pel EXCEPT ![n] = @ \cup {r}]
          /\ QueueOK' /\ QueueGrows
          /\ job' = [job EXCEPT ![n] = [pc |-> "stage", r |-> r, keys |-> Secrets, denied |-> FALSE]]
    BY <1>0, <1>1, DeliverLemma DEF Dequeue, Deliver
  <2>2. r \in Jobs(n)' /\ r \notin Jobs(n) /\ r # 0
    <3>1. stream[n][r] \in SandboxIDs
      <4>1. stream[n][r] # Poison
        BY <1>1, <2>1 DEF Dequeue, Payload
      <4>2. stream[n] \in Seq(SandboxIDs \cup {Poison}) /\ r \in 1..Len(stream[n])
        BY <1>0, <2>1 DEF QueueOK, QueueTypeOK, Entries
      <4>. QED BY ONLY <4>1, <4>2, SMTT(30)
    <3>2. r \notin Jobs(n) /\ r # 0
      BY <1>0, <2>1, SMTT(30) DEF Jobs, QueueOK, QueueTypeOK, Receipts
    <3>3. stream' = stream
      BY <1>1 DEF Dequeue, Deliver
    <3>4. r \in Receipts /\ r <= lastDelivered'[n]
      <4>1. r \in Nat
        BY ONLY r \in Receipts, DomainAssumption, SMTT(30) DEF Receipts
      <4>2. lastDelivered'[n] = r
        BY <2>1
      <4>. QED BY ONLY <4>1, <4>2, r \in Receipts, SMTT(30)
    <3>. QED BY <3>1, <3>2, <3>3, <3>4 DEF Jobs
  <2>3. KeepsAccounts
    BY <1>0, <1>1, DeliverAccounts DEF Dequeue
  <2>i. PICK j : j = [pc |-> "stage", r |-> r, keys |-> Secrets, denied |-> FALSE]
    OBVIOUS
  <2>j. j \in JobState /\ job' = [job EXCEPT ![n] = j] /\ j.r = r /\ j.pc = "stage"
    BY <2>1, <2>i, StagedFact
  <2>k. UNCHANGED <<waiter, awaited, killer, finished, watching>>
    BY <1>1 DEF Dequeue
  <2>4. AgentTypeOK'
    BY <1>0, <2>j, <2>k DEF TypeOK, AgentTypeOK
  <2>5. HoldersOK'
    <3>. SUFFICES ASSUME NEW m \in Nodes
                  PROVE  /\ job'[m].r # 0 => job'[m].r \in Jobs(m)'
                         /\ job'[m].r = 0 <=> job'[m].pc = "idle"
                         /\ \A q \in Receipts :
                              /\ waiter'[m][q] # "none" => q \in Jobs(m)'
                              /\ waiter'[m][q] = "waiting" => awaited'[m][q] \in Receipts
                              /\ q \in watching'[m] => q \in Jobs(m)'
                              /\ killer'[m][q] # "idle" => q \in Jobs(m)'
      BY DEF HoldersOK
    <3>1. Jobs(m) \subseteq Jobs(m)'
      BY <2>1 DEF QueueGrows
    <3>2. job'[m] = IF m = n THEN j ELSE job[m]
      BY <1>0, <2>j DEF TypeOK, AgentTypeOK
    <3>3. /\ job'[m].r # 0 => job'[m].r \in Jobs(m)'
          /\ job'[m].r = 0 <=> job'[m].pc = "idle"
      BY <1>0, <2>2, <2>j, <3>1, <3>2 DEF HoldersOK
    <3>. QED BY <1>0, <2>k, <3>1, <3>3 DEF HoldersOK
  <2>6. HandledEntryPending'
    <3>. SUFFICES ASSUME NEW m \in Nodes, NEW q \in Receipts
                  PROVE  /\ job'[m].r = q \/ waiter'[m][q] # "none" => q \in pel'[m]
                         /\ waiter'[m][q] # "none" => job'[m].r # q
      BY DEF HandledEntryPending, Handled
    <3>1. /\ job[m].r = q \/ waiter[m][q] # "none" => q \in pel[m]
          /\ waiter[m][q] # "none" => job[m].r # q
      BY <1>0 DEF HandledEntryPending, Handled
    <3>2. waiter' = waiter /\ (waiter[m][q] # "none" => q \in Jobs(m))
      BY <1>0, <1>1 DEF Dequeue, HoldersOK
    <3>3. q \in pel'[m] <=> q \in pel[m] \/ (m = n /\ q = r)
      BY <1>0, <2>1 DEF TypeOK, QueueTypeOK
    <3>4. job'[m].r = IF m = n THEN r ELSE job[m].r
      BY <1>0, <2>1 DEF TypeOK, AgentTypeOK
    <3>. QED BY <2>2, <3>1, <3>2, <3>3, <3>4
  <2>. QED BY <1>1, <1>c, <1>d, <1>e, <1>f, <1>g, <1>h, <1>i, <2>1, <2>3, <2>4, <2>5, <2>6,
           Zenon DEF Dequeue
<1>2. CASE DequeuePoison(n)
  <2>1. PICK ok \in BOOLEAN : DeadLetter(n, ok) /\ Failing(Cost(ok))
    BY <1>2 DEF DequeuePoison
  <2>2. QueueOK' /\ QueueGrows
    BY <1>0, <2>1, DeadLetterLemma
  <2>3. KeepsAccounts
    BY <1>0, <1>2, <2>1, DeadLetterAccounts DEF DequeuePoison
  <2>4. FaultsTypeOK'
    BY <1>0, <2>1, FailingType, CostNat DEF TypeOK
  <2>5. AgentTypeOK'
    BY <1>0, <1>2 DEF DequeuePoison, TypeOK, AgentTypeOK
  <2>6. HoldersOK'
    BY <1>0, <1>2, <2>2 DEF DequeuePoison, HoldersOK, QueueGrows
  <2>7. HandledEntryPending'
    <3>1. \A m \in Nodes : pel[m] \subseteq pel'[m] /\ Handled(m)' = Handled(m)
      BY <1>0, <1>2, <2>1 DEF DequeuePoison, DeadLetter, TypeOK, QueueTypeOK,
         Handled
    <3>. QED BY <1>0, <1>2, <3>1 DEF DequeuePoison, HandledEntryPending
  <2>. QED BY <1>2, <1>c, <1>d, <1>e, <1>f, <1>g, <1>h, <2>2, <2>3, <2>4, <2>5, <2>6, <2>7
           DEF DequeuePoison
<1>10. CASE ArmAndWait(n)
  <2>1. /\ JobID(n) \in SandboxIDs /\ job[n].pc # "idle"
        /\ job[n].r \in Receipts /\ job[n].r \in Jobs(n)
    BY <1>10, BusyJob DEF ArmAndWait, At
  <2>2. FuryTypeOK'
    BY <1>0, <1>10, <2>1 DEF ArmAndWait, Arm, TypeOK, FuryTypeOK
  <2>3. QueueOK' /\ KeepsAccounts /\ \A m \in Nodes : Jobs(m)' = Jobs(m)
    BY <1>0, <1>10, AccountsUnchanged DEF ArmAndWait, QueueOK, QueueTypeOK, CursorOK, Jobs
  <2>4. AgentTypeOK'
    BY <1>0, <1>10, <2>1, IdleFact DEF ArmAndWait, TypeOK, AgentTypeOK, WaiterPC
  <2>5. HoldersOK'
    BY <1>0, <1>10, <2>1, <2>3, IdleFact, SMTT(30) DEF ArmAndWait, Arm, TypeOK, AgentTypeOK,
       FuryTypeOK, HoldersOK
  <2>6. HandledEntryPending'
    <3>. SUFFICES ASSUME NEW m \in Nodes, NEW q \in Receipts
                  PROVE  /\ job'[m].r = q \/ waiter'[m][q] # "none" => q \in pel'[m]
                         /\ waiter'[m][q] # "none" => job'[m].r # q
      BY DEF HandledEntryPending, Handled
    <3>1. /\ job[m].r = q \/ waiter[m][q] # "none" => q \in pel[m]
          /\ waiter[m][q] # "none" => job[m].r # q
      BY <1>0 DEF HandledEntryPending, Handled
    <3>2. pel' = pel
      BY <1>10 DEF ArmAndWait
    <3>3. job'[m] = IF m = n THEN Idle ELSE job[m]
      BY <1>0, <1>10 DEF ArmAndWait, TypeOK, AgentTypeOK
    <3>4. waiter'[m][q] = IF m = n /\ q = job[n].r THEN "start" ELSE waiter[m][q]
      BY <1>0, <1>10, <2>1 DEF ArmAndWait, TypeOK, AgentTypeOK
    <3>5. q # 0
      BY SMTT(30) DEF Receipts
    <3>. QED BY <3>1, <3>2, <3>3, <3>4, <3>5, IdleFact
  <2>. QED BY <1>10, <1>c, <1>d, <1>e, <1>g, <1>h, <1>i, <2>2, <2>3, <2>4, <2>5, <2>6
           DEF ArmAndWait
<1>. QED BY <1>1, <1>2, <1>3, <1>4, <1>5, <1>6, <1>7, <1>8, <1>9, <1>10 DEF MainLoopStep

(* A waiter goes on; watchers may have been cancelled. *)
LEMMA WaiterGoesOn ==
  ASSUME IInv, NEW n \in Nodes, NEW r \in Receipts, waiter[n][r] # "none",
         NEW pc \in WaiterPC, WaiterGoto(n, r, pc),
         NEW a \in Receipts \cup {0}, awaited' = [awaited EXCEPT ![n][r] = a],
         pc = "waiting" => a \in Receipts,
         \A m \in Nodes : watching'[m] \subseteq watching[m],
         UNCHANGED <<queueVars, job, killer, finished>>
  PROVE  QueueOK' /\ KeepsAccounts /\ HoldersOK' /\ HandledEntryPending' /\ AgentTypeOK'
<1>0. QueueOK /\ TypeOK /\ HoldersOK /\ HandledEntryPending
  BY DEF IInv, TypeOK, QueueOK
<1>1. QueueOK' /\ KeepsAccounts
  BY <1>0, AccountsUnchanged DEF QueueOK, QueueTypeOK, CursorOK
<1>2. AgentTypeOK'
  BY <1>0 DEF TypeOK, AgentTypeOK, WaiterGoto
<1>3. \A m \in Nodes, q \in Receipts :
        /\ Jobs(m)' = Jobs(m)
        /\ waiter'[m][q] # "none" => waiter[m][q] # "none"
        /\ waiter'[m][q] = "waiting" => awaited'[m][q] \in Receipts
  BY <1>0 DEF TypeOK, AgentTypeOK, WaiterGoto, Jobs, HoldersOK
<1>4. HoldersOK'
  BY <1>0, <1>3 DEF HoldersOK
<1>5. HandledEntryPending'
  BY <1>0, <1>3 DEF HandledEntryPending, Handled
<1>. QED BY <1>1, <1>2, <1>4, <1>5

(* Disarm keeps the watchers well typed. *)
LEMMA DisarmLemma ==
  ASSUME FuryTypeOK, NEW n \in Nodes, NEW s \in SandboxIDs, Disarm(n, s)
  PROVE  FuryTypeOK' /\ \A m \in Nodes : watching'[m] \subseteq watching[m]
  BY DEF FuryTypeOK, Disarm

(* Every step of the agent's waiter preserves the inductive invariant. *)
LEMMA WaiterPreserves ==
  ASSUME IInv, NEW n \in Nodes, NEW r \in Receipts, WaiterStep(n, r)
  PROVE  IInv'
<1>0. TypeOK /\ QueueOK /\ HoldersOK /\ ControlOK /\ HandledEntryPending
  BY DEF IInv, TypeOK, QueueOK
<1>a. UNCHANGED <<registered, controlVars, vms, proc, killer, job, olympusVars>>
  BY DEF WaiterStep, WaiterLoad, WaiterWait, WaitReturns, WaiterDisarm, WaiterReport,
     WaiterDetach, WaiterDestroy, WaiterAck
<1>b. ControlTypeOK' /\ ControlOK'
  BY <1>0, <1>a DEF TypeOK, ControlTypeOK, ControlOK
<1>c. ASSUME QueueOK', KeepsAccounts, HoldersOK', HandledEntryPending', AgentTypeOK',
             FaultsTypeOK', HadesTypeOK', RuntimeTypeOK', FuryTypeOK', LetheTypeOK', StyxTypeOK'
      PROVE  IInv'
  BY <1>a, <1>b, <1>c, OlympusUntouched DEF IInv, TypeOK, QueueOK
<1>d. ASSUME UNCHANGED runVars PROVE HadesTypeOK'
  BY <1>0, <1>a, <1>d DEF TypeOK, HadesTypeOK
<1>e. ASSUME UNCHANGED exitCode PROVE RuntimeTypeOK'
  BY <1>0, <1>a, <1>e DEF TypeOK, RuntimeTypeOK
<1>f. ASSUME UNCHANGED furyVars PROVE FuryTypeOK'
  BY <1>0, <1>f DEF TypeOK, FuryTypeOK
<1>g. ASSUME UNCHANGED letheVars PROVE LetheTypeOK'
  BY <1>0, <1>g DEF TypeOK, LetheTypeOK
<1>h. ASSUME UNCHANGED attached PROVE StyxTypeOK'
  BY <1>0, <1>h DEF TypeOK, StyxTypeOK
<1>i. ASSUME UNCHANGED faults PROVE FaultsTypeOK'
  BY <1>0, <1>i DEF TypeOK, FaultsTypeOK
<1>j. /\ waiter[n][r] # "none" /\ r \in Jobs(n) /\ Payload(n, r) \in SandboxIDs
      /\ awaited[n][r] \in Receipts \cup {0} /\ awaited = [awaited EXCEPT ![n][r] = awaited[n][r]]
      /\ vms[n][Payload(n, r)] \in Receipts \cup {0}
  <2>1. waiter[n][r] # "none"
    BY DEF WaiterStep, WaiterLoad, WaiterWait, WaiterDisarm, WaiterReport,
       WaiterDetach, WaiterDestroy, WaiterAck, WaiterAt
  <2>2. r \in Jobs(n) /\ Payload(n, r) \in SandboxIDs
    BY <1>0, <2>1, HolderPayload DEF HoldersOK
  <2>. QED BY <1>0, <2>1, <2>2, SMTT(30) DEF TypeOK, AgentTypeOK, RuntimeTypeOK
<1>k. ASSUME NEW pc \in WaiterPC \ {"waiting"}, WaiterGoto(n, r, pc), UNCHANGED awaited,
             \A m \in Nodes : watching'[m] \subseteq watching[m],
             UNCHANGED <<queueVars, finished>>
      PROVE  QueueOK' /\ KeepsAccounts /\ HoldersOK' /\ HandledEntryPending' /\ AgentTypeOK'
  BY <1>a, <1>j, <1>k, WaiterGoesOn
<1>1. CASE WaiterLoad(n, r)
  <2>1. QueueOK' /\ KeepsAccounts /\ HoldersOK' /\ HandledEntryPending' /\ AgentTypeOK'
    <3>1. CASE Known(n, Payload(n, r))
      BY <1>1, <1>j, <3>1, WaiterGoesOn DEF WaiterLoad, Known, WaiterPC
    <3>2. CASE ~Known(n, Payload(n, r))
      BY <1>1, <1>j, <3>2, WaiterGoesOn DEF WaiterLoad, WaiterPC
    <3>. QED BY <3>1, <3>2
  <2>. QED BY <1>1, <1>c, <1>d, <1>e, <1>f, <1>g, <1>h, <1>i, <2>1 DEF WaiterLoad
<1>2. CASE WaiterWait(n, r)
  <2>1. awaited[n][r] \in Receipts
    BY <1>0, <1>2 DEF WaiterWait, WaiterAt, HoldersOK
  <2>2. RuntimeTypeOK'
    BY <1>0, <1>2, <2>1 DEF WaiterWait, WaitReturns, TypeOK, RuntimeTypeOK
  <2>3. QueueOK' /\ KeepsAccounts /\ HoldersOK' /\ HandledEntryPending' /\ AgentTypeOK'
    BY <1>2, <1>k DEF WaiterWait, WaiterPC
  <2>. QED BY <1>2, <1>c, <1>d, <1>f, <1>g, <1>h, <1>i, <2>2, <2>3 DEF WaiterWait
<1>3. CASE WaiterDisarm(n, r)
  <2>1. FuryTypeOK' /\ \A m \in Nodes : watching'[m] \subseteq watching[m]
    BY <1>0, <1>3, <1>j, DisarmLemma DEF WaiterDisarm, TypeOK
  <2>2. QueueOK' /\ KeepsAccounts /\ HoldersOK' /\ HandledEntryPending' /\ AgentTypeOK'
    BY <1>3, <1>k, <2>1 DEF WaiterDisarm, WaiterPC
  <2>. QED BY <1>3, <1>c, <1>d, <1>e, <1>g, <1>h, <1>i, <2>1, <2>2 DEF WaiterDisarm
<1>4. CASE WaiterReport(n, r)
  <2>1. FaultsTypeOK' /\ HadesTypeOK'
    <3>1. CASE Known(n, Payload(n, r))
      <4>1. PICK ok \in BOOLEAN :
              /\ UpdateRun(Payload(n, r), InspectStatus(n, Payload(n, r)), RunNodeID(n), ok)
              /\ Failing(Cost(ok))
        BY <1>4, <3>1 DEF WaiterReport
      <4>2. InspectStatus(n, Payload(n, r)) \in RunStatus /\ RunNodeID(n) \in Nodes \cup {NoNode}
        BY DEF InspectStatus, RunStatus, RunNodeID
      <4>3. FaultsTypeOK'
        BY ONLY <1>0, <4>1, FailingType, CostNat DEF TypeOK
      <4>4. HadesTypeOK'
        BY <1>0, <1>a, <1>j, <4>1, <4>2, UpdateRunType, SMTT(30) DEF TypeOK
      <4>. QED BY <4>3, <4>4
    <3>2. CASE ~Known(n, Payload(n, r))
      BY <1>4, <1>d, <1>i, <3>2 DEF WaiterReport
    <3>. QED BY <3>1, <3>2
  <2>2. QueueOK' /\ KeepsAccounts /\ HoldersOK' /\ HandledEntryPending' /\ AgentTypeOK'
    BY <1>4, <1>k DEF WaiterReport, WaiterPC
  <2>. QED BY <1>4, <1>c, <1>e, <1>f, <1>g, <1>h, <2>1, <2>2 DEF WaiterReport
<1>5. CASE WaiterDetach(n, r)
  <2>1. PICK ok \in BOOLEAN : Detach(n, Payload(n, r), ok) /\ Failing(Cost(ok))
    BY <1>5 DEF WaiterDetach
  <2>2. FaultsTypeOK' /\ StyxTypeOK'
    BY <1>0, <2>1, FailingType, CostNat DEF TypeOK, Detach, StyxTypeOK
  <2>3. QueueOK' /\ KeepsAccounts /\ HoldersOK' /\ HandledEntryPending' /\ AgentTypeOK'
    BY <1>5, <1>k DEF WaiterDetach, WaiterPC
  <2>. QED BY <1>5, <1>c, <1>d, <1>e, <1>f, <1>g, <2>2, <2>3 DEF WaiterDetach
<1>6. CASE WaiterDestroy(n, r)
  <2>1. PICK ok \in BOOLEAN : DestroyOverlay(n, r, ok) /\ Failing(Cost(ok))
    BY <1>6 DEF WaiterDestroy
  <2>2. FaultsTypeOK'
    BY <1>0, <2>1, FailingType, CostNat DEF TypeOK
  <2>3. LetheTypeOK'
    BY <1>0, <2>1 DEF TypeOK, DestroyOverlay, LetheTypeOK
  <2>4. QueueOK' /\ KeepsAccounts /\ HoldersOK' /\ HandledEntryPending' /\ AgentTypeOK'
    BY <1>6, <1>k DEF WaiterDestroy, WaiterPC
  <2>. QED BY <1>6, <1>c, <1>d, <1>e, <1>f, <1>h, <2>2, <2>3, <2>4 DEF WaiterDestroy
<1>7. CASE WaiterAck(n, r)
  <2>1. PICK ok \in BOOLEAN :
          /\ IF ok THEN Ack(n, r) ELSE UNCHANGED queueVars
          /\ finished' = [finished EXCEPT ![n] = IF ok THEN @ \cup {r} ELSE @]
          /\ Failing(Cost(ok))
    BY <1>7 DEF WaiterAck
  <2>2. FaultsTypeOK'
    BY <1>0, <2>1, FailingType, CostNat DEF TypeOK
  <2>3. QueueOK' /\ QueueGrows /\ KeepsAccounts
    <3>1. CASE ok
      BY <1>0, <2>1, <3>1, AckLemma, AckAccounts DEF TypeOK, AgentTypeOK
    <3>2. CASE ~ok
      <4>1. UNCHANGED <<queueVars, finished>>
        BY <1>0, <2>1, <3>2 DEF TypeOK, AgentTypeOK
      <4>. QED BY <1>0, <4>1, QueueUnchangedGrows, AccountsUnchanged
              DEF QueueOK, QueueTypeOK, CursorOK
    <3>. QED BY <3>1, <3>2
  <2>4. AgentTypeOK'
    BY <1>0, <1>7, <2>1 DEF WaiterAck, WaiterGoto, TypeOK, AgentTypeOK, WaiterPC
  <2>5. \A m \in Nodes, q \in Receipts :
          /\ waiter'[m][q] # "none" => waiter[m][q] # "none" /\ ~(m = n /\ q = r)
          /\ waiter'[m][q] = "waiting" => awaited'[m][q] = awaited[m][q] /\ waiter[m][q] = "waiting"
    BY <1>0, <1>7 DEF WaiterAck, WaiterGoto, TypeOK, AgentTypeOK
  <2>6. HoldersOK'
    <3>1. /\ job' = job /\ killer' = killer /\ watching' = watching
          /\ \A m \in Nodes : Jobs(m) \subseteq Jobs(m)'
      BY <1>7, <2>3 DEF WaiterAck, QueueGrows
    <3>. SUFFICES ASSUME NEW m \in Nodes
                  PROVE  /\ job'[m].r # 0 => job'[m].r \in Jobs(m)'
                         /\ job'[m].r = 0 <=> job'[m].pc = "idle"
                         /\ \A q \in Receipts :
                              /\ waiter'[m][q] # "none" => q \in Jobs(m)'
                              /\ waiter'[m][q] = "waiting" => awaited'[m][q] \in Receipts
                              /\ q \in watching'[m] => q \in Jobs(m)'
                              /\ killer'[m][q] # "idle" => q \in Jobs(m)'
      BY DEF HoldersOK
    <3>. QED BY ONLY <1>0, <2>5, <3>1, m \in Nodes, SMTT(30) DEF HoldersOK
  <2>7. HandledEntryPending'
    <3>1. pel' = pel \/ pel' = [pel EXCEPT ![n] = @ \ {r}]
      BY <2>1 DEF Ack
    <3>. SUFFICES ASSUME NEW m \in Nodes, NEW q \in Receipts
                  PROVE  /\ job'[m].r = q \/ waiter'[m][q] # "none" => q \in pel'[m]
                         /\ waiter'[m][q] # "none" => job'[m].r # q
      BY DEF HandledEntryPending, Handled
    <3>2. /\ job[m].r = q \/ waiter[m][q] # "none" => q \in pel[m]
          /\ waiter[m][q] # "none" => job[m].r # q
      BY <1>0 DEF HandledEntryPending, Handled
    <3>3. q \in pel[m] => q \in pel'[m] \/ (m = n /\ q = r)
      BY <1>0, <3>1 DEF TypeOK, QueueTypeOK
    <3>. QED BY <1>a, <1>j, <2>5, <3>2, <3>3
  <2>. QED BY <1>7, <1>c, <1>d, <1>e, <1>f, <1>g, <1>h, <2>2, <2>3, <2>4, <2>6, <2>7
           DEF WaiterAck
<1>. QED BY <1>1, <1>2, <1>3, <1>4, <1>5, <1>6, <1>7 DEF WaiterStep

(* Steps of the watchers and of the control loop. *)
LEMMA KillerStep ==
  ASSUME IInv, UNCHANGED <<queueVars, hadesVars, letheVars, attached, olympusVars,
                           job, waiter, awaited, finished>>,
         FaultsTypeOK', ControlTypeOK', ControlOK', RuntimeTypeOK', FuryTypeOK',
         \A m \in Nodes : watching'[m] \subseteq watching[m],
         killer' \in [Nodes -> [Killers -> KillerPC]],
         \A m \in Nodes, q \in Receipts : killer'[m][q] # "idle" => q \in Jobs(m)
  PROVE  IInv'
<1>0. TypeOK /\ HoldersOK /\ HandledEntryPending
  BY DEF IInv
<1>1. /\ QueueOK' /\ OlympusTypeOK' /\ CallsOK' /\ AcceptedJobAccounted'
      /\ \A m \in Nodes : Jobs(m)' = Jobs(m)
  BY QuietStep
<1>2. HadesTypeOK' /\ LetheTypeOK' /\ StyxTypeOK'
  BY <1>0 DEF TypeOK, HadesTypeOK, LetheTypeOK, StyxTypeOK
<1>3. AgentTypeOK'
  BY <1>0 DEF TypeOK, AgentTypeOK
<1>4. HoldersOK'
  BY <1>0, <1>1 DEF HoldersOK
<1>5. HandledEntryPending'
  BY <1>0 DEF HandledEntryPending, Handled
<1>. QED BY <1>1, <1>2, <1>3, <1>4, <1>5 DEF IInv, TypeOK, QueueOK

(* The first half of a Kill: StopVMM, which may fail. *)
Stops(n, s) == \E ok \in BOOLEAN : StopVMM(n, s, ok)

(* Signalling a VMM keeps the runtime well typed. *)
LEMMA StopVMMType ==
  ASSUME RuntimeTypeOK, NEW n \in Nodes, NEW s \in SandboxIDs, Stops(n, s)
  PROVE  RuntimeTypeOK'
<1>1. vms[n][s] \in Receipts
  BY SMTT(30) DEF RuntimeTypeOK, Stops, StopVMM, Known
<1>2. PICK q \in Receipts : q = vms[n][s]
  BY <1>1
<1>3. PICK ok \in BOOLEAN : StopVMM(n, s, ok)
  BY DEF Stops
<1>4. proc[n][q] \in ProcState
  BY DEF RuntimeTypeOK
<1>5. PICK x \in ProcState :
        x = IF proc[n][q] \in {"running", "unstopped"}
            THEN IF ok THEN "stopping" ELSE "unstopped" ELSE proc[n][q]
  BY <1>4 DEF ProcState
<1>6. proc' = [proc EXCEPT ![n][q] = x] /\ UNCHANGED <<vms, exitCode>>
  BY <1>2, <1>3, <1>5 DEF StopVMM, RuntimeTypeOK
<1>. QED BY <1>6 DEF RuntimeTypeOK

(* A Kill is charged for a StopVMM that fails. *)
LEMMA KillFaults ==
  ASSUME FaultsTypeOK, UNCHANGED faults \/ \E ok \in BOOLEAN : Failing(Cost(ok))
  PROVE  FaultsTypeOK'
<1>1. CASE UNCHANGED faults
  BY <1>1 DEF FaultsTypeOK
<1>2. ASSUME NEW ok \in BOOLEAN, Failing(Cost(ok)) PROVE FaultsTypeOK'
  BY <1>2, FailingType, CostNat
<1>. QED BY <1>1, <1>2

(* Deleting the map entry of a VM keeps the runtime well typed. *)
LEMMA DeleteVMType ==
  ASSUME RuntimeTypeOK, NEW n \in Nodes, NEW s \in SandboxIDs, DeleteVM(n, s)
  PROVE  RuntimeTypeOK'
  BY DEF RuntimeTypeOK, DeleteVM

(* The control loop is a killer, and so is the watcher of every entry. *)
LEMMA KillersFact == 0 \in Killers /\ \A r \in Receipts : r \in Killers /\ r # 0
  BY SMTT(30) DEF Killers, Receipts

(* Moving one killer to its next step keeps the killers well typed. *)
LEMMA KillerGotoLemma ==
  ASSUME killer \in [Nodes -> [Killers -> KillerPC]],
         NEW n \in Nodes, NEW k \in Killers, NEW pc \in KillerPC, KillerGoto(n, k, pc)
  PROVE  /\ killer' \in [Nodes -> [Killers -> KillerPC]]
         /\ \A m \in Nodes, q \in Killers :
              killer'[m][q] = IF m = n /\ q = k THEN pc ELSE killer[m][q]
  BY DEF KillerGoto

(* Every step of a watcher preserves the inductive invariant. *)
LEMMA FuryPreserves ==
  ASSUME IInv, NEW n \in Nodes, NEW r \in Receipts, FuryStep(n, r)
  PROVE  IInv'
<1>0. TypeOK /\ HoldersOK /\ ControlOK
  BY DEF IInv
<1>1. UNCHANGED <<queueVars, hadesVars, controlVars, letheVars, attached, olympusVars,
                  job, waiter, awaited, finished>>
  BY DEF FuryStep, FuryCheck, FuryStop, FuryDelete, FuryUnwatch
<1>2. r \in Jobs(n) /\ Payload(n, r) \in SandboxIDs
  <2>1. r \in watching[n] \/ killer[n][r] # "idle"
    BY DEF FuryStep, FuryCheck, FuryStop, FuryDelete, FuryUnwatch
  <2>. QED BY <1>0, <2>1, HolderPayload DEF HoldersOK
<1>3. \/ UNCHANGED killer
      \/ \E pc \in KillerPC : KillerGoto(n, r, pc)
  BY DEF FuryStep, FuryCheck, FuryStop, FuryDelete, FuryUnwatch, KillerPC
<1>4. /\ killer' \in [Nodes -> [Killers -> KillerPC]]
      /\ \A m \in Nodes : killer'[m][0] = killer[m][0]
      /\ \A m \in Nodes, q \in Receipts : killer'[m][q] # "idle" => q \in Jobs(m)
  <2>1. ASSUME NEW pc \in KillerPC, KillerGoto(n, r, pc)
        PROVE  /\ killer' \in [Nodes -> [Killers -> KillerPC]]
               /\ \A m \in Nodes, q \in Killers :
                    killer'[m][q] = IF m = n /\ q = r THEN pc ELSE killer[m][q]
    <3>1. killer \in [Nodes -> [Killers -> KillerPC]] /\ r \in Killers
      BY <1>0, KillersFact DEF TypeOK, AgentTypeOK
    <3>. QED BY <2>1, <3>1, KillerGotoLemma, SMTT(30)
  <2>2. CASE UNCHANGED killer
    BY <1>0, <2>2 DEF TypeOK, AgentTypeOK, HoldersOK
  <2>3. CASE \E pc \in KillerPC : KillerGoto(n, r, pc)
    <3>1. PICK pc \in KillerPC : KillerGoto(n, r, pc)
      BY <2>3
    <3>2. /\ killer' \in [Nodes -> [Killers -> KillerPC]]
          /\ \A m \in Nodes, q \in Killers :
               killer'[m][q] = IF m = n /\ q = r THEN pc ELSE killer[m][q]
      BY <2>1, <3>1
    <3>. QED BY ONLY <1>0, <1>2, <3>2, KillersFact DEF HoldersOK
  <2>. QED BY <1>3, <2>2, <2>3
<1>5. ControlTypeOK' /\ ControlOK'
  BY <1>0, <1>1, <1>4 DEF TypeOK, ControlTypeOK, ControlOK
<1>6. RuntimeTypeOK'
  <2>1. UNCHANGED runtimeVars \/ Stops(n, Payload(n, r)) \/ DeleteVM(n, Payload(n, r))
    BY DEF FuryStep, FuryCheck, FuryStop, FuryDelete, FuryUnwatch, Stops
  <2>2. ASSUME UNCHANGED runtimeVars PROVE RuntimeTypeOK'
    BY <1>0, <2>2 DEF TypeOK, RuntimeTypeOK
  <2>. QED BY <1>0, <1>2, <2>1, <2>2, StopVMMType, DeleteVMType DEF TypeOK
<1>7. FuryTypeOK' /\ \A m \in Nodes : watching'[m] \subseteq watching[m]
  <2>1. UNCHANGED furyVars \/ Disarm(n, Payload(n, r))
    BY DEF FuryStep, FuryCheck, FuryStop, FuryDelete, FuryUnwatch
  <2>2. ASSUME UNCHANGED furyVars
        PROVE  FuryTypeOK' /\ \A m \in Nodes : watching'[m] \subseteq watching[m]
    BY <1>0, <2>2 DEF TypeOK, FuryTypeOK
  <2>. QED BY <1>0, <1>2, <2>1, <2>2, DisarmLemma DEF TypeOK
<1>8. FaultsTypeOK'
  <2>1. UNCHANGED faults \/ \E ok \in BOOLEAN : Failing(Cost(ok))
    BY DEF FuryStep, FuryCheck, FuryStop, FuryDelete, FuryUnwatch
  <2>. QED BY <1>0, <2>1, KillFaults DEF TypeOK
<1>. QED BY <1>1, <1>4, <1>5, <1>6, <1>7, <1>8, KillerStep

(* Every step of the control loop preserves the inductive invariant. *)
LEMMA ControlPreserves ==
  ASSUME IInv, NEW n \in Nodes, ControlStep(n)
  PROVE  IInv'
<1>0. TypeOK /\ HoldersOK /\ ControlOK
  BY DEF IInv
<1>1. UNCHANGED <<queueVars, hadesVars, up, letheVars, attached, olympusVars, furyVars,
                  job, waiter, awaited, finished>>
  BY DEF ControlStep, ControlKill, ControlDelete
<1>2. control[n] # <<>> /\ control[n] \in Seq(SandboxIDs)
  BY <1>0 DEF ControlStep, ControlKill, ControlDelete, ControlOK, TypeOK,
     ControlTypeOK
<1>3. Head(control[n]) \in SandboxIDs /\ Tail(control[n]) \in Seq(SandboxIDs)
  BY <1>2, SMTT(30)
<1>4. \/ UNCHANGED control /\ KillerGoto(n, 0, "delete")
      \/ control' = [control EXCEPT ![n] = Tail(@)] /\ killer[n][0] = "idle" /\ UNCHANGED killer
      \/ control' = [control EXCEPT ![n] = Tail(@)] /\ KillerGoto(n, 0, "idle")
  BY DEF ControlStep, ControlKill, ControlDelete
<1>5. ControlTypeOK'
  BY <1>0, <1>1, <1>3, <1>4 DEF TypeOK, ControlTypeOK
<1>6. /\ killer' \in [Nodes -> [Killers -> KillerPC]]
      /\ \A m \in Nodes, q \in Receipts : killer'[m][q] = killer[m][q]
      /\ \A m \in Nodes : m # n => killer'[m][0] = killer[m][0]
  <2>1. ASSUME NEW pc \in KillerPC, KillerGoto(n, 0, pc)
        PROVE  /\ killer' \in [Nodes -> [Killers -> KillerPC]]
               /\ \A m \in Nodes, q \in Killers :
                    killer'[m][q] = IF m = n /\ q = 0 THEN pc ELSE killer[m][q]
    BY <1>0, <2>1, KillersFact, KillerGotoLemma, SMTT(30) DEF TypeOK, AgentTypeOK
  <2>2. CASE UNCHANGED killer
    BY <1>0, <2>2 DEF TypeOK, AgentTypeOK
  <2>3. CASE \E pc \in {"idle", "delete"} : KillerGoto(n, 0, pc)
    BY <2>1, <2>3, KillersFact DEF KillerPC
  <2>. QED BY <1>4, <2>2, <2>3
<1>7. ControlOK'
  <2>. SUFFICES ASSUME NEW m \in Nodes, killer'[m][0] # "idle"
                PROVE  control'[m] # <<>>
    BY DEF ControlOK
  <2>1. CASE m # n
    BY <1>0, <1>4, <1>6, <2>1 DEF ControlOK, TypeOK, ControlTypeOK
  <2>2. CASE m = n
    <3>1. ASSUME KillerGoto(n, 0, "idle") PROVE killer'[n][0] = "idle"
      BY <1>0, <3>1, KillersFact, KillerGotoLemma DEF TypeOK, AgentTypeOK, KillerPC
    <3>. QED BY <1>2, <1>4, <2>2, <3>1
  <2>. QED BY <2>1, <2>2
<1>8. RuntimeTypeOK'
  <2>1. \/ UNCHANGED runtimeVars
        \/ Stops(n, Head(control[n]))
        \/ DeleteVM(n, Head(control[n]))
    BY DEF ControlStep, ControlKill, ControlDelete, Stops
  <2>2. ASSUME UNCHANGED runtimeVars PROVE RuntimeTypeOK'
    BY <1>0, <2>2 DEF TypeOK, RuntimeTypeOK
  <2>. QED BY <1>0, <1>3, <2>1, <2>2, StopVMMType, DeleteVMType DEF TypeOK
<1>9. FuryTypeOK' /\ \A m \in Nodes : watching'[m] \subseteq watching[m]
  BY <1>0, <1>1 DEF TypeOK, FuryTypeOK
<1>10. \A m \in Nodes, q \in Receipts : killer'[m][q] # "idle" => q \in Jobs(m)
  BY <1>0, <1>6 DEF HoldersOK
<1>11. FaultsTypeOK'
  <2>1. UNCHANGED faults \/ \E ok \in BOOLEAN : Failing(Cost(ok))
    BY DEF ControlStep, ControlKill, ControlDelete
  <2>. QED BY <1>0, <2>1, KillFaults DEF TypeOK
<1>. QED BY <1>1, <1>5, <1>6, <1>7, <1>8, <1>9, <1>10, <1>11, KillerStep

(* A crash takes the goroutines and what they hold, and leaves the queue. *)
LEMMA CrashPreserves ==
  ASSUME IInv, NEW n \in Nodes, Crash(n)
  PROVE  IInv'
<1>0. TypeOK /\ HoldersOK /\ ControlOK /\ HandledEntryPending
  BY DEF IInv
<1>e. up' = [up EXCEPT ![n] = FALSE] /\ control' = [control EXCEPT ![n] = <<>>]
  BY DEF Crash, AgentCrash
<1>f. job' = [job EXCEPT ![n] = Idle]
  BY DEF Crash, AgentCrash
<1>g. /\ waiter' = [waiter EXCEPT ![n] = [r \in Receipts |-> "none"]]
      /\ awaited' = [awaited EXCEPT ![n] = [r \in Receipts |-> 0]]
  BY DEF Crash, AgentCrash
<1>h. killer' = [killer EXCEPT ![n] = [k \in Killers |-> "idle"]]
  BY DEF Crash, AgentCrash
<1>i. /\ vms' = [vms EXCEPT ![n] = [s \in SandboxIDs |-> 0]]
      /\ exitCode' = [exitCode EXCEPT ![n] = {}]
  BY DEF Crash, AgentCrash
<1>j. /\ active' = [active EXCEPT ![n] = [s \in SandboxIDs |-> 0]]
      /\ watching' = [watching EXCEPT ![n] = {}]
  BY DEF Crash, AgentCrash
<1>k. attached' = [attached EXCEPT ![n] = {}] /\ AbandonOverlays(n) /\ Failing(1)
  BY DEF Crash, AgentCrash
<1>l. UNCHANGED <<queueVars, hadesVars, proc, finished, olympusVars>>
  BY DEF Crash, AgentCrash
<1>1. /\ QueueOK' /\ OlympusTypeOK' /\ CallsOK' /\ AcceptedJobAccounted'
      /\ \A m \in Nodes : Jobs(m)' = Jobs(m)
  BY <1>l, QuietStep
<1>2. FaultsTypeOK' /\ HadesTypeOK' /\ StyxTypeOK'
  BY <1>0, <1>k, <1>l, FailingType DEF TypeOK, HadesTypeOK, StyxTypeOK
<1>3. ControlTypeOK' /\ LetheTypeOK'
  <2>1. ControlTypeOK'
    BY ONLY <1>0, <1>e, SMTT(30) DEF TypeOK, ControlTypeOK
  <2>2. LetheTypeOK'
    BY ONLY <1>0, <1>k, n \in Nodes DEF TypeOK, LetheTypeOK, AbandonOverlays
  <2>. QED BY <2>1, <2>2
<1>4. RuntimeTypeOK' /\ FuryTypeOK'
  <2>1. RuntimeTypeOK'
    BY ONLY <1>0, <1>i, <1>l DEF TypeOK, RuntimeTypeOK
  <2>2. FuryTypeOK'
    BY ONLY <1>0, <1>j DEF TypeOK, FuryTypeOK
  <2>. QED BY <2>1, <2>2
<1>a. \A m \in Nodes : job'[m] = IF m = n THEN Idle ELSE job[m]
  BY ONLY <1>0, <1>f DEF TypeOK, AgentTypeOK
<1>b. \A m \in Nodes, r \in Receipts :
        /\ waiter'[m][r] = IF m = n THEN "none" ELSE waiter[m][r]
        /\ awaited'[m][r] = IF m = n THEN 0 ELSE awaited[m][r]
  BY ONLY <1>0, <1>g DEF TypeOK, AgentTypeOK
<1>c. \A m \in Nodes, k \in Killers : killer'[m][k] = IF m = n THEN "idle" ELSE killer[m][k]
  BY ONLY <1>0, <1>h DEF TypeOK, AgentTypeOK
<1>d. \A m \in Nodes : watching'[m] = IF m = n THEN {} ELSE watching[m]
  BY ONLY <1>0, <1>j DEF TypeOK, FuryTypeOK
<1>5. AgentTypeOK'
  <2>1. job' \in [Nodes -> JobState]
    BY ONLY <1>0, <1>f, IdleFact DEF TypeOK, AgentTypeOK
  <2>2. /\ waiter' \in [Nodes -> [Receipts -> WaiterPC]]
        /\ awaited' \in [Nodes -> [Receipts -> Receipts \cup {0}]]
    BY ONLY <1>0, <1>g DEF TypeOK, AgentTypeOK, WaiterPC
  <2>3. killer' \in [Nodes -> [Killers -> KillerPC]]
    BY ONLY <1>0, <1>h DEF TypeOK, AgentTypeOK, KillerPC
  <2>4. finished' \in [Nodes -> SUBSET Receipts]
    BY ONLY <1>0, <1>l DEF TypeOK, AgentTypeOK
  <2>. QED BY <2>1, <2>2, <2>3, <2>4 DEF AgentTypeOK
<1>6. ControlOK'
  <2>1. \A m \in Nodes : m # n => control'[m] = control[m]
    BY ONLY <1>0, <1>e DEF TypeOK, ControlTypeOK
  <2>2. \A m \in Nodes : killer'[m][0] = IF m = n THEN "idle" ELSE killer[m][0]
    BY ONLY <1>c, KillersFact
  <2>. QED BY ONLY <1>0, <2>1, <2>2 DEF ControlOK
<1>7. HoldersOK'
  <2>1. \A m \in Nodes, r \in Receipts : killer'[m][r] = IF m = n THEN "idle" ELSE killer[m][r]
    BY ONLY <1>c, KillersFact
  <2>. SUFFICES ASSUME NEW m \in Nodes
                PROVE  /\ job'[m].r # 0 => job'[m].r \in Jobs(m)'
                       /\ job'[m].r = 0 <=> job'[m].pc = "idle"
                       /\ \A r \in Receipts :
                            /\ waiter'[m][r] # "none" => r \in Jobs(m)'
                            /\ waiter'[m][r] = "waiting" => awaited'[m][r] \in Receipts
                            /\ r \in watching'[m] => r \in Jobs(m)'
                            /\ killer'[m][r] # "idle" => r \in Jobs(m)'
    BY DEF HoldersOK
  <2>2. CASE m = n
    BY ONLY <1>a, <1>b, <1>d, <2>1, <2>2, IdleFact, m \in Nodes
  <2>3. CASE m # n
    <3>1. /\ job'[m] = job[m] /\ watching'[m] = watching[m] /\ Jobs(m)' = Jobs(m)
          /\ \A r \in Receipts : /\ waiter'[m][r] = waiter[m][r]
                                 /\ awaited'[m][r] = awaited[m][r]
                                 /\ killer'[m][r] = killer[m][r]
      BY ONLY <1>1, <1>a, <1>b, <1>d, <2>1, <2>3, m \in Nodes
    <3>. QED BY ONLY <1>0, <3>1, m \in Nodes DEF HoldersOK
  <2>. QED BY <2>2, <2>3
<1>8. HandledEntryPending'
  <2>1. pel' = pel /\ \A r \in Receipts : r # 0
    BY <1>l, SMTT(30) DEF Receipts
  <2>. SUFFICES ASSUME NEW m \in Nodes, NEW r \in Receipts
                PROVE  /\ job'[m].r = r \/ waiter'[m][r] # "none" => r \in pel'[m]
                       /\ waiter'[m][r] # "none" => job'[m].r # r
    BY DEF HandledEntryPending, Handled
  <2>2. /\ job[m].r = r \/ waiter[m][r] # "none" => r \in pel[m]
        /\ waiter[m][r] # "none" => job[m].r # r
    BY <1>0 DEF HandledEntryPending, Handled
  <2>. QED BY ONLY <1>a, <1>b, <2>1, <2>2, IdleFact, m \in Nodes, r \in Receipts
<1>. QED BY <1>1, <1>2, <1>3, <1>4, <1>5, <1>6, <1>7, <1>8 DEF IInv, TypeOK, QueueOK

(* Steps that change neither the queues nor what a goroutine holds. *)
LEMMA OutsideStep ==
  ASSUME IInv, UNCHANGED <<queueVars, olympusVars, agentSide, control>>,
         FaultsTypeOK', HadesTypeOK', up' \in [Nodes -> BOOLEAN], RuntimeTypeOK'
  PROVE  IInv'
<1>1. /\ QueueOK' /\ OlympusTypeOK' /\ CallsOK' /\ AcceptedJobAccounted'
  BY QuietStep
<1>2. /\ FuryTypeOK' /\ LetheTypeOK' /\ StyxTypeOK' /\ AgentTypeOK'
      /\ HoldersOK' /\ HandledEntryPending'
  BY AgentsUntouched, QueueUnchangedGrows
<1>3. ControlTypeOK' /\ ControlOK'
  BY DEF IInv, TypeOK, ControlTypeOK, ControlOK
<1>. QED BY <1>1, <1>2, <1>3 DEF IInv, TypeOK, QueueOK

(* A restart of an agent preserves the inductive invariant. *)
LEMMA RestartPreserves ==
  ASSUME IInv, NEW n \in Nodes, Restart(n)
  PROVE  IInv'
<1>. USE DEF Restart, AgentRestart
<1>1. PICK killed \in SUBSET {r \in Receipts : Runs(n, r) \/ proc[n][r] = "stopping"} :
        proc' = [proc EXCEPT ![n] = [r \in Receipts |->
                                       IF r \in killed THEN "error" ELSE proc[n][r]]]
  OBVIOUS
<1>2. FaultsTypeOK' /\ HadesTypeOK'
  BY DEF IInv, TypeOK, FaultsTypeOK, HadesTypeOK
<1>3. RuntimeTypeOK'
  BY <1>1 DEF IInv, TypeOK, RuntimeTypeOK, ProcState
<1>4. up' \in [Nodes -> BOOLEAN]
  BY DEF IInv, TypeOK, ControlTypeOK
<1>. QED BY <1>2, <1>3, <1>4, OutsideStep

(* Exits of guests and heartbeats preserve the inductive invariant. *)
LEMMA EnvironmentPreserves ==
  ASSUME IInv, NEW n \in Nodes, NEW r \in Receipts,
         GuestExits(n, r) \/ Heartbeat(n) \/ HeartbeatExpires(n)
  PROVE  IInv'
<1>1. CASE GuestExits(n, r)
  <2>1. RuntimeTypeOK'
    <3>1. PICK code \in ProcState : proc' = [proc EXCEPT ![n][r] = code]
      BY <1>1 DEF GuestExits, VMExit, ProcState
    <3>. QED BY <1>1, <3>1 DEF GuestExits, VMExit, IInv, TypeOK, RuntimeTypeOK
  <2>2. FaultsTypeOK' /\ HadesTypeOK' /\ up' \in [Nodes -> BOOLEAN]
    BY <1>1 DEF GuestExits, IInv, TypeOK, FaultsTypeOK, HadesTypeOK, ControlTypeOK
  <2>. QED BY <1>1, <2>1, <2>2, OutsideStep DEF GuestExits
<1>2. CASE Heartbeat(n)
  <2>1. FaultsTypeOK' /\ HadesTypeOK' /\ up' \in [Nodes -> BOOLEAN]
    BY <1>2 DEF Heartbeat, UpdateHeartbeat, IInv, TypeOK, FaultsTypeOK, HadesTypeOK,
       ControlTypeOK
  <2>2. RuntimeTypeOK'
    BY <1>2 DEF Heartbeat, IInv, TypeOK, RuntimeTypeOK
  <2>. QED BY <1>2, <2>1, <2>2, OutsideStep DEF Heartbeat
<1>3. CASE HeartbeatExpires(n)
  <2>1. FaultsTypeOK'
    BY <1>3, FailingType, CostNat DEF HeartbeatExpires, IInv, TypeOK
  <2>2. HadesTypeOK' /\ up' \in [Nodes -> BOOLEAN]
    BY <1>3 DEF HeartbeatExpires, ExpireNode, IInv, TypeOK, HadesTypeOK,
       ControlTypeOK
  <2>3. RuntimeTypeOK'
    BY <1>3 DEF HeartbeatExpires, IInv, TypeOK, RuntimeTypeOK
  <2>. QED BY <1>3, <2>1, <2>2, <2>3, OutsideStep DEF HeartbeatExpires
<1>. QED BY <1>1, <1>2, <1>3

(* An entry of a foreign writer preserves the inductive invariant. *)
LEMMA ForeignEntryPreserves ==
  ASSUME IInv, NEW n \in Nodes, ForeignEntry(n)
  PROVE  IInv'
<1>. USE DEF ForeignEntry, EnqueuePoison
<1>0. TypeOK /\ QueueOK /\ ControlOK
  BY DEF IInv, TypeOK, QueueOK
<1>1. QueueOK' /\ QueueGrows
  BY <1>0, EnqueueLemma
<1>2. KeepsAccounts
  BY <1>0, EnqueueAccounts
<1>3. OlympusTypeOK' /\ CallsOK' /\ AcceptedJobAccounted'
  BY <1>2, OlympusUntouched
<1>4. /\ FuryTypeOK' /\ LetheTypeOK' /\ StyxTypeOK' /\ AgentTypeOK'
      /\ HoldersOK' /\ HandledEntryPending'
  BY <1>1, AgentsUntouched DEF Enqueue
<1>5. FaultsTypeOK' /\ HadesTypeOK'
  BY <1>0, FailingType DEF TypeOK, HadesTypeOK
<1>6. ControlTypeOK' /\ ControlOK' /\ RuntimeTypeOK'
  BY <1>0 DEF TypeOK, ControlTypeOK, ControlOK, RuntimeTypeOK
<1>. QED BY <1>1, <1>3, <1>4, <1>5, <1>6 DEF IInv, TypeOK, QueueOK

-----------------------------------------------------------------------------
(* The initial states satisfy the inductive invariant. *)
LEMMA InitEstablishes == Init => IInv
<1>. SUFFICES ASSUME Init PROVE IInv
  OBVIOUS
<1>1. FaultsTypeOK /\ QueueTypeOK /\ HadesTypeOK /\ ControlTypeOK
  <2>1. FaultsTypeOK
    BY DomainAssumption, SMTT(30) DEF Init, FaultsInit, FaultsTypeOK
  <2>2. QueueTypeOK
    BY DomainAssumption, SMTT(30) DEF Init, QueueInit, QueueTypeOK
  <2>3. HadesTypeOK
    BY DEF Init, HadesInit, HadesTypeOK, RunRecord
  <2>4. ControlTypeOK
    BY SMTT(30) DEF Init, ControlInit, ControlTypeOK
  <2>. QED BY <2>1, <2>2, <2>3, <2>4
<1>2. RuntimeTypeOK /\ FuryTypeOK /\ LetheTypeOK /\ StyxTypeOK
  BY DEF Init, RuntimeInit, RuntimeTypeOK, ProcState, FuryInit, FuryTypeOK, LetheInit,
     LetheTypeOK, StyxInit, StyxTypeOK
<1>3. OlympusTypeOK /\ CallsOK /\ AcceptedJobAccounted
  <2>1. OlympusTypeOK
    <3>1. calls \in [Clients -> [pc : CallState, id : SandboxIDs, node : Nodes \cup {NoNode}]]
      BY DEF Init, OlympusInit, CallState
    <3>2. kills \in 0..MaxKills
      BY OlympusAssumption, SMTT(30) DEF Init, OlympusInit
    <3>3. reconcile \in SUBSET Nodes
      BY DEF Init, OlympusInit
    <3>. QED BY <3>1, <3>2, <3>3 DEF OlympusTypeOK
  <2>2. CallsOK /\ AcceptedJobAccounted
    BY DEF Init, OlympusInit, CallsOK, AcceptedJobAccounted
  <2>. QED BY <2>1, <2>2
<1>4. AgentTypeOK
  BY IdleFact DEF Init, AgentInit, AgentTypeOK, WaiterPC, KillerPC
<1>5. CursorOK /\ ControlOK
  <2>1. CursorOK
    <3>1. \A n \in Nodes : Len(stream[n]) = 0 /\ lastDelivered[n] = 0 /\ pel[n] = {}
      BY DEF Init, QueueInit
    <3>2. 0 <= 0 /\ 0 <= MaxEntries
      BY DomainAssumption, SMTT(30)
    <3>. QED BY ONLY <3>1, <3>2 DEF CursorOK
  <2>2. ControlOK
    BY KillersFact DEF Init, AgentInit, ControlOK
  <2>. QED BY <2>1, <2>2
<1>6. HoldersOK /\ HandledEntryPending
  <2>1. \A r \in Receipts : r # 0
    BY SMTT(30) DEF Receipts
  <2>2. HoldersOK
    BY IdleFact, KillersFact DEF Init, FuryInit, AgentInit, HoldersOK
  <2>3. HandledEntryPending
    BY <2>1, IdleFact DEF Init, AgentInit, HandledEntryPending, Handled
  <2>. QED BY <2>2, <2>3
<1>. QED BY <1>1, <1>2, <1>3, <1>4, <1>5, <1>6 DEF IInv, TypeOK

(* Stuttering preserves the inductive invariant. *)
LEMMA StutterPreserves == IInv /\ UNCHANGED vars => IInv'
<1>. SUFFICES ASSUME IInv, UNCHANGED vars PROVE IInv'
  OBVIOUS
<1>1. FaultsTypeOK' /\ HadesTypeOK' /\ up' \in [Nodes -> BOOLEAN] /\ RuntimeTypeOK'
  BY DEF vars, IInv, TypeOK, FaultsTypeOK, HadesTypeOK, ControlTypeOK, RuntimeTypeOK
<1>. QED BY <1>1, OutsideStep DEF vars

(* Every step of the system preserves the inductive invariant. *)
LEMMA NextPreserves == IInv /\ Next => IInv'
<1>. SUFFICES ASSUME IInv, Next PROVE IInv'
  OBVIOUS
<1>1. 1 \in Receipts
  BY DomainAssumption, SMTT(30) DEF Receipts
<1>. QED BY <1>1, SubmitPreserves, ReconcilePreserves, OperatorPreserves,
         MainLoopPreserves, WaiterPreserves, FuryPreserves, ControlPreserves,
         CrashPreserves, RestartPreserves, EnvironmentPreserves, ForeignEntryPreserves,
         Zenon DEF Next

(* The inductive invariant holds in every reachable state. *)
THEOREM Inductive == Spec => []IInv
<1>1. Init => IInv
  BY InitEstablishes
<1>2. IInv /\ [Next]_vars => IInv'
  BY NextPreserves, StutterPreserves
<1>. QED BY <1>1, <1>2, PTL DEF Spec

(* Every variable keeps its type: no handler of Olympus or of an agent     *)
(* writes a record, a receipt or a program counter outside its domain.     *)
THEOREM TypeCorrect == Spec => []TypeOK
<1>1. IInv => TypeOK
  BY DEF IInv
<1>. QED BY <1>1, Inductive, PTL

(* An entry is neither acknowledged nor handed back while a main loop or a *)
(* waiter still works on it: the error paths of agent.go end their job     *)
(* after Nack, and Ack is the last call of the waiter.                     *)
THEOREM HandledPending == Spec => []HandledEntryPending
<1>1. IInv => HandledEntryPending
  BY DEF IInv
<1>. QED BY <1>1, Inductive, PTL

(* No accepted job is lost: through every retry, crash and restart some    *)
(* entry with its ID waits, is pending or was acknowledged by its waiter.  *)
THEOREM AcceptedAccounted == Spec => []AcceptedJobAccounted
<1>1. IInv => AcceptedJobAccounted
  BY DEF IInv
<1>. QED BY <1>1, Inductive, PTL

-----------------------------------------------------------------------------
(* What no step ever undoes.                                               *)

(* No client changes the ID of its request. *)
IdsKept == \A c \in Clients : calls'[c].id = calls[c].id

(* No entry is removed from a stream, and no cursor goes back. *)
LEMMA StreamKept ==
  ASSUME IInv, [Next]_vars
  PROVE  QueueGrows
<1>0. QueueOK /\ TypeOK
  BY DEF IInv, TypeOK, QueueOK
<1>a. ASSUME UNCHANGED queueVars PROVE QueueGrows
  BY <1>a, QueueUnchangedGrows
<1>1. ASSUME NEW c \in Clients, SubmitStep(c) PROVE QueueGrows
  <2>1. CASE SubmitEnqueue(c)
    <3>1. calls[c].node \in Nodes /\ calls[c].id \in SandboxIDs
      BY <1>0, <2>1 DEF SubmitEnqueue, IInv, CallsOK, TypeOK, OlympusTypeOK
    <3>2. Enqueue(calls[c].node, calls[c].id)
      BY <2>1 DEF SubmitEnqueue
    <3>. QED BY <1>0, <3>1, <3>2, EnqueueLemma
  <2>2. CASE ~SubmitEnqueue(c)
    BY <1>1, <1>a, <2>2 DEF SubmitStep, SubmitRejected, SubmitPersist,
       SubmitUnschedulable, SubmitSchedule, SubmitEnqueueFails
  <2>. QED BY <2>1, <2>2
<1>2. ASSUME ReconcileStep \/ OperatorStep PROVE QueueGrows
  BY <1>2, <1>a DEF ReconcileStep, ReconcileQuery, OperatorStep, KillSandbox, OlympusRestart
<1>3. ASSUME NEW n \in Nodes, MainLoopStep(n) PROVE QueueGrows
  <2>1. CASE Dequeue(n)
    BY <1>0, <2>1, DeliverLemma DEF Dequeue
  <2>2. CASE DequeuePoison(n)
    BY <1>0, <2>2, DeadLetterLemma DEF DequeuePoison
  <2>3. ASSUME job[n].pc # "idle", NEW ok \in BOOLEAN, NackJob(n, ok) PROVE QueueGrows
    BY <1>0, <1>a, <2>3, BusyJob, NackLemma DEF NackJob
  <2>4. CASE StageFails(n) \/ AttachNetworkFails(n) \/ LaunchVMFails(n)
    BY <2>3, <2>4 DEF StageFails, AttachNetworkFails, LaunchVMFails, At
  <2>5. CASE Stage(n) \/ AttachNetwork(n) \/ LaunchVM(n) \/ ReportRunning(n) \/ ArmAndWait(n)
    BY <1>a, <2>5 DEF Stage, AttachNetwork, LaunchVM, ReportRunning, ArmAndWait
  <2>. QED BY <1>3, <2>1, <2>2, <2>4, <2>5 DEF MainLoopStep
<1>4. ASSUME NEW n \in Nodes, NEW r \in Receipts, WaiterStep(n, r) PROVE QueueGrows
  <2>1. CASE WaiterAck(n, r)
    BY <1>0, <1>a, <2>1, AckLemma DEF WaiterAck
  <2>2. CASE ~WaiterAck(n, r)
    BY <1>4, <1>a, <2>2 DEF WaiterStep, WaiterLoad, WaiterWait, WaiterDisarm,
       WaiterReport, WaiterDetach, WaiterDestroy
  <2>. QED BY <2>1, <2>2
<1>5. ASSUME NEW n \in Nodes, NEW r \in Receipts,
             \/ FuryStep(n, r) \/ GuestExits(n, r) \/ ControlStep(n) \/ Crash(n)
             \/ Restart(n) \/ Heartbeat(n) \/ HeartbeatExpires(n)
      PROVE  QueueGrows
  BY <1>a, <1>5 DEF FuryStep, FuryCheck, FuryStop, FuryDelete, FuryUnwatch,
     GuestExits, ControlStep, ControlKill, ControlDelete, Crash, AgentCrash, Restart,
     AgentRestart, Heartbeat, HeartbeatExpires
<1>6. ASSUME NEW n \in Nodes, ForeignEntry(n) PROVE QueueGrows
  BY <1>0, <1>6, EnqueueLemma DEF ForeignEntry, EnqueuePoison
<1>7. CASE UNCHANGED vars
  BY <1>7, <1>a DEF vars
<1>8. 1 \in Receipts
  BY DomainAssumption, SMTT(30) DEF Receipts
<1>. QED BY <1>1, <1>2, <1>3, <1>4, <1>5, <1>6, <1>7, <1>8 DEF Next

(* The ID of a request stays what it is. *)
LEMMA RequestKept ==
  ASSUME IInv, [Next]_vars
  PROVE  IdsKept
<1>0. calls \in [Clients -> [pc : CallState, id : SandboxIDs, node : Nodes \cup {NoNode}]]
  BY DEF IInv, TypeOK, OlympusTypeOK
<1>a. ASSUME UNCHANGED calls PROVE IdsKept
  BY <1>a DEF IdsKept
<1>1. ASSUME NEW c \in Clients, SubmitStep(c) PROVE IdsKept
  <2>1. CASE SubmitSchedule(c)
    <3>1. PICK n \in ListNodes : calls' = [calls EXCEPT ![c].pc = "scheduled", ![c].node = n]
      BY <2>1 DEF SubmitSchedule
    <3>. QED BY <1>0, <3>1 DEF IdsKept
  <2>2. CASE ~SubmitSchedule(c)
    <3>1. PICK pc : calls' = [calls EXCEPT ![c].pc = pc]
      BY <1>1, <2>2 DEF SubmitStep, SubmitRejected, SubmitPersist,
         SubmitUnschedulable, SubmitEnqueue, SubmitEnqueueFails, Goto
    <3>. QED BY <1>0, <3>1 DEF IdsKept
  <2>. QED BY <2>1, <2>2
<1>2. ASSUME OlympusRestart PROVE IdsKept
  BY <1>0, <1>2 DEF IdsKept, OlympusRestart
<1>3. ASSUME ReconcileStep \/ \E s \in SandboxIDs : KillSandbox(s) PROVE IdsKept
  BY <1>3, <1>a DEF ReconcileStep, ReconcileQuery, KillSandbox
<1>4. ASSUME NEW n \in Nodes, NEW r \in Receipts,
             \/ MainLoopStep(n) \/ ControlStep(n) \/ Crash(n) \/ Restart(n)
             \/ Heartbeat(n) \/ HeartbeatExpires(n) \/ ForeignEntry(n)
             \/ WaiterStep(n, r) \/ FuryStep(n, r) \/ GuestExits(n, r)
      PROVE  IdsKept
  BY <1>4, <1>a DEF MainLoopStep, ControlStep, Crash, Restart, Heartbeat,
     HeartbeatExpires, ForeignEntry, WaiterStep, FuryStep, GuestExits
<1>5. CASE UNCHANGED vars
  BY <1>5, <1>a DEF vars
<1>6. 1 \in Receipts
  BY DomainAssumption, SMTT(30) DEF Receipts
<1>. QED BY <1>1, <1>2, <1>3, <1>4, <1>5, <1>6 DEF Next, OperatorStep

(* What a launch has become can only go forward. *)
ProcForward ==
  \A n \in Nodes, r \in Receipts :
    \/ proc'[n][r] = proc[n][r]
    \/ Runs(n, r) /\ proc'[n][r] \in {"unstopped", "stopping", "ok", "error"}
    \/ proc[n][r] = "stopping" /\ proc'[n][r] = "error"

(* Only LaunchVM starts a process; the others leave processes or end them. *)
LEMMA ProcSteps ==
  ASSUME IInv, [Next]_vars
  PROVE  ProcForward \/ \E n \in Nodes : LaunchVM(n)
<1>0. /\ proc \in [Nodes -> [Receipts -> ProcState]]
      /\ vms \in [Nodes -> [SandboxIDs -> Receipts \cup {0}]]
  BY DEF IInv, TypeOK, RuntimeTypeOK
<1>a. ASSUME UNCHANGED proc PROVE ProcForward
  BY <1>a DEF ProcForward
<1>b. ASSUME NEW n \in Nodes, NEW s, Stops(n, s) PROVE ProcForward
  <2>1. PICK ok \in BOOLEAN :
          proc' = [proc EXCEPT ![n][vms[n][s]] = IF @ \in {"running", "unstopped"}
                                                 THEN IF ok THEN "stopping" ELSE "unstopped"
                                                 ELSE @]
    BY <1>b DEF Stops, StopVMM
  <2>. QED BY <1>0, <2>1, SMTT(30) DEF ProcForward, Runs
<1>1. ASSUME NEW c \in Clients, SubmitStep(c) PROVE ProcForward
  BY <1>1, <1>a DEF SubmitStep, SubmitRejected, SubmitPersist, SubmitUnschedulable,
     SubmitSchedule, SubmitEnqueue, SubmitEnqueueFails
<1>2. ASSUME ReconcileStep \/ OperatorStep PROVE ProcForward
  BY <1>2, <1>a DEF ReconcileStep, ReconcileQuery, OperatorStep, KillSandbox, OlympusRestart
<1>3. ASSUME NEW n \in Nodes, MainLoopStep(n) PROVE ProcForward \/ LaunchVM(n)
  BY <1>3, <1>a DEF MainLoopStep, Dequeue, DequeuePoison, Stage, StageFails,
     AttachNetwork, AttachNetworkFails, LaunchVMFails, ReportRunning, ArmAndWait
<1>4. ASSUME NEW n \in Nodes, NEW r \in Receipts, WaiterStep(n, r) PROVE ProcForward
  BY <1>4, <1>a DEF WaiterStep, WaiterLoad, WaiterWait, WaitReturns, WaiterDisarm,
     WaiterReport, WaiterDetach, WaiterDestroy, WaiterAck
<1>5. ASSUME NEW n \in Nodes, NEW r \in Receipts, FuryStep(n, r) \/ ControlStep(n)
      PROVE  ProcForward
  <2>1. UNCHANGED proc \/ \E s : Stops(n, s)
    BY <1>5 DEF FuryStep, FuryCheck, FuryStop, FuryDelete, FuryUnwatch,
       ControlStep, ControlKill, ControlDelete, DeleteVM, Stops
  <2>. QED BY <1>a, <1>b, <2>1
<1>6. ASSUME NEW n \in Nodes, NEW r \in Receipts, GuestExits(n, r) PROVE ProcForward
  <2>1. PICK x \in {"ok", "error"} :
          /\ proc' = [proc EXCEPT ![n][r] = x]
          /\ Runs(n, r) \/ (proc[n][r] = "stopping" /\ x = "error")
    BY <1>6 DEF GuestExits, VMExit
  <2>2. \A m \in Nodes, q \in Receipts :
          proc'[m][q] = IF m = n /\ q = r THEN x ELSE proc[m][q]
    BY <1>0, <2>1, SMTT(30)
  <2>. SUFFICES ASSUME NEW m \in Nodes, NEW q \in Receipts, proc'[m][q] # proc[m][q]
                PROVE  \/ Runs(m, q) /\ proc'[m][q] \in {"unstopped", "stopping", "ok", "error"}
                       \/ proc[m][q] = "stopping" /\ proc'[m][q] = "error"
    BY DEF ProcForward
  <2>3. m = n /\ q = r /\ proc'[m][q] = x
    BY <2>2
  <2>. QED BY <2>1, <2>3
<1>7. ASSUME NEW n \in Nodes, Restart(n) PROVE ProcForward
  <2>1. PICK killed \in SUBSET {r \in Receipts : Runs(n, r) \/ proc[n][r] = "stopping"} :
          proc' = [proc EXCEPT ![n] = [r \in Receipts |->
                                         IF r \in killed THEN "error" ELSE proc[n][r]]]
    BY <1>7 DEF Restart, AgentRestart
  <2>. QED BY <1>0, <2>1 DEF ProcForward
<1>8. ASSUME NEW n \in Nodes, \/ Crash(n) \/ Heartbeat(n) \/ HeartbeatExpires(n)
                              \/ ForeignEntry(n)
      PROVE  ProcForward
  BY <1>8, <1>a DEF Crash, AgentCrash, Heartbeat, HeartbeatExpires, ForeignEntry
<1>9. CASE UNCHANGED vars
  BY <1>9, <1>a DEF vars
<1>10. 1 \in Receipts
  BY DomainAssumption, SMTT(30) DEF Receipts
<1>. QED BY <1>1, <1>2, <1>3, <1>4, <1>5, <1>6, <1>7, <1>8, <1>9, <1>10 DEF Next

-----------------------------------------------------------------------------
(* How the goroutines of an agent come to hold an entry.                   *)

HoldsLaunch(n, r) == job[n].r = r /\ job[n].pc \in {"report", "arm"}

(* The main loop takes an undelivered entry to stage it, and passes a      *)
(* launch on to a waiter and a watcher; only a waiter finishes an entry.   *)
HandedOn ==
  \A n \in Nodes, r \in Receipts :
    /\ job'[n].r = r =>
         \/ job[n].r = r /\ (HoldsLaunch(n, r) <=> job'[n].pc \in {"report", "arm"})
         \/ r > lastDelivered[n] /\ job'[n].pc = "stage"
    /\ waiter'[n][r] # "none" => waiter[n][r] # "none" \/ HoldsLaunch(n, r)
    /\ r \in finished'[n] => r \in finished[n] \/ waiter[n][r] # "none"
    /\ r \in watching'[n] => r \in watching[n] \/ HoldsLaunch(n, r)

AgentTypes ==
  /\ job \in [Nodes -> JobState]
  /\ waiter \in [Nodes -> [Receipts -> WaiterPC]]
  /\ finished \in [Nodes -> SUBSET Receipts]
  /\ watching \in [Nodes -> SUBSET Receipts]
  /\ lastDelivered \in [Nodes -> Nat]

LEMMA AgentTyped == ASSUME IInv PROVE AgentTypes
  BY DEF IInv, TypeOK, AgentTypeOK, FuryTypeOK, QueueTypeOK, AgentTypes

(* A main loop that becomes idle. *)
LEMMA ToIdle ==
  ASSUME AgentTypes, NEW n \in Nodes, job' = [job EXCEPT ![n] = Idle]
  PROVE  \A m \in Nodes : job'[m] = IF m = n THEN Idle ELSE job[m]
  BY DEF AgentTypes

(* A main loop that goes on. *)
LEMMA ToStep ==
  ASSUME AgentTypes, NEW n \in Nodes, NEW pc, JobGoto(n, pc)
  PROVE  \A m \in Nodes : /\ job'[m].r = job[m].r
                          /\ job'[m].pc = IF m = n THEN pc ELSE job[m].pc
  BY DEF AgentTypes, JobGoto, JobState

(* A waiter that goes on. *)
WaitsAt(n, r, pc) ==
  \A m \in Nodes, q \in Receipts : waiter'[m][q] = IF m = n /\ q = r THEN pc ELSE waiter[m][q]

LEMMA ToWait ==
  ASSUME AgentTypes, NEW n \in Nodes, NEW r \in Receipts, NEW pc, WaiterGoto(n, r, pc)
  PROVE  WaitsAt(n, r, pc)
  BY DEF AgentTypes, WaiterGoto, WaitsAt

LEMMA WaitsThere ==
  ASSUME NEW n \in Nodes, NEW r \in Receipts, NEW pc, WaitsAt(n, r, pc)
  PROVE  waiter'[n][r] = pc
  BY DEF WaitsAt

(* No receipt is 0. *)
LEMMA ReceiptFact == \A r \in Receipts : r \in Nat /\ r # 0
  BY DomainAssumption, SMTT(30) DEF Receipts

(* Every step but LaunchVM hands entries on this way. *)
LEMMA HandedOnSteps ==
  ASSUME IInv, [Next]_vars
  PROVE  HandedOn \/ \E n \in Nodes : LaunchVM(n)
<1>0. AgentTypes
  BY AgentTyped
<1>a. ASSUME UNCHANGED <<job, waiter, finished>>,
             \A n \in Nodes : watching'[n] \subseteq watching[n]
      PROVE  HandedOn
  BY <1>a DEF HandedOn, HoldsLaunch
<1>b. ASSUME NEW n \in Nodes, NEW s \in SandboxIDs, Disarm(n, s)
      PROVE  \A m \in Nodes : watching'[m] \subseteq watching[m]
  BY <1>b, DisarmLemma DEF IInv, TypeOK
<1>c. UNCHANGED watching => \A m \in Nodes : watching'[m] \subseteq watching[m]
  OBVIOUS
<1>1. ASSUME NEW c \in Clients, SubmitStep(c) PROVE HandedOn
  BY <1>1, <1>a, <1>c DEF SubmitStep
<1>2. ASSUME ReconcileStep \/ OperatorStep PROVE HandedOn
  BY <1>2, <1>a, <1>c DEF ReconcileStep, OperatorStep
<1>3. ASSUME NEW n \in Nodes, MainLoopStep(n) PROVE HandedOn \/ LaunchVM(n)
  <2>1. CASE Dequeue(n)
    <3>1. \A m \in Nodes : \/ job'[m] = job[m]
                           \/ job'[m].r = lastDelivered[m] + 1 /\ job'[m].pc = "stage"
      BY <1>0, <2>1 DEF Dequeue, AgentTypes
    <3>2. \A m \in Nodes : lastDelivered[m] + 1 > lastDelivered[m]
      BY <1>0, SMTT(30) DEF AgentTypes
    <3>3. UNCHANGED <<waiter, finished, watching>>
      BY <2>1 DEF Dequeue
    <3>. QED BY <3>1, <3>2, <3>3 DEF HandedOn, HoldsLaunch
  <2>2. CASE DequeuePoison(n)
    BY <1>a, <1>c, <2>2 DEF DequeuePoison
  <2>3. CASE Stage(n) \/ AttachNetwork(n)
    <3>1. PICK pc \in {"attach", "secrets", "launch"} :
            JobGoto(n, pc) /\ job[n].pc \in {"stage", "attach"}
      BY <2>3 DEF Stage, AttachNetwork, At
    <3>2. UNCHANGED <<waiter, finished, watching>>
      BY <2>3 DEF Stage, AttachNetwork
    <3>3. \A m \in Nodes : /\ job'[m].r = job[m].r
                           /\ job'[m].pc = IF m = n THEN pc ELSE job[m].pc
      BY <1>0, <3>1, ToStep
    <3>. QED BY <3>1, <3>2, <3>3 DEF HandedOn, HoldsLaunch
  <2>4. CASE StageFails(n) \/ AttachNetworkFails(n) \/ LaunchVMFails(n)
    <3>1. \A m \in Nodes : job'[m] = IF m = n THEN Idle ELSE job[m]
      BY <1>0, <2>4, ToIdle DEF StageFails, AttachNetworkFails, LaunchVMFails
    <3>2. UNCHANGED <<waiter, finished, watching>>
      BY <2>4 DEF StageFails, AttachNetworkFails, LaunchVMFails
    <3>. QED BY <3>1, <3>2, IdleFact, ReceiptFact DEF HandedOn, HoldsLaunch
  <2>5. CASE ReportRunning(n)
    <3>1. \A m \in Nodes : /\ job'[m].r = job[m].r
                           /\ job'[m].pc = IF m = n THEN "arm" ELSE job[m].pc
      BY <1>0, <2>5, ToStep DEF ReportRunning
    <3>2. UNCHANGED <<waiter, finished, watching>> /\ job[n].pc = "report"
      BY <2>5 DEF ReportRunning, At
    <3>. QED BY <3>1, <3>2 DEF HandedOn, HoldsLaunch
  <2>6. CASE ArmAndWait(n)
    <3>1. job[n].pc = "arm" /\ job[n].r \in Receipts
      BY <2>6, BusyJob DEF ArmAndWait, At
    <3>2. \A m \in Nodes : job'[m] = IF m = n THEN Idle ELSE job[m]
      BY <1>0, <2>6, ToIdle DEF ArmAndWait
    <3>3. \A m \in Nodes, q \in Receipts :
            waiter'[m][q] = IF m = n /\ q = job[n].r THEN "start" ELSE waiter[m][q]
      <4>1. WaiterGoto(n, job[n].r, "start")
        BY <2>6 DEF ArmAndWait, WaiterGoto
      <4>2. WaitsAt(n, job[n].r, "start")
        BY <1>0, <3>1, <4>1, ToWait
      <4>. QED BY <4>2 DEF WaitsAt
    <3>4. \A m \in Nodes : watching'[m] = IF m = n THEN watching[m] \cup {job[n].r} ELSE watching[m]
      BY <1>0, <2>6, <3>1 DEF ArmAndWait, Arm, AgentTypes
    <3>5. UNCHANGED finished
      BY <2>6 DEF ArmAndWait
    <3>. SUFFICES ASSUME NEW m \in Nodes, NEW q \in Receipts
                  PROVE  /\ job'[m].r = q => job'[m] = job[m]
                         /\ waiter'[m][q] # "none" => waiter[m][q] # "none" \/ HoldsLaunch(m, q)
                         /\ q \in watching'[m] => q \in watching[m] \/ HoldsLaunch(m, q)
      BY <3>5 DEF HandedOn, HoldsLaunch
    <3>6. CASE m # n
      BY <3>2, <3>3, <3>4, <3>6
    <3>7. CASE m = n
      <4>1. job'[m].r # q
        BY <3>2, <3>7, IdleFact, ReceiptFact
      <4>2. q = job[n].r => HoldsLaunch(m, q)
        BY <3>1, <3>7 DEF HoldsLaunch
      <4>3. q # job[n].r => waiter'[m][q] = waiter[m][q]
        BY <3>3
      <4>4. q \in watching'[m] => q \in watching[m] \/ q = job[n].r
        BY <3>4, <3>7
      <4>. QED BY <4>1, <4>2, <4>3, <4>4
    <3>. QED BY <3>6, <3>7
  <2>. QED BY <1>3, <2>1, <2>2, <2>3, <2>4, <2>5, <2>6 DEF MainLoopStep
<1>4. ASSUME NEW n \in Nodes, NEW r \in Receipts, WaiterStep(n, r) PROVE HandedOn
  <2>1. waiter[n][r] # "none" /\ UNCHANGED job /\ \E pc : WaiterGoto(n, r, pc)
    BY <1>4 DEF WaiterStep, WaiterLoad, WaiterWait, WaiterDisarm, WaiterReport,
       WaiterDetach, WaiterDestroy, WaiterAck, WaiterAt
  <2>2. \A m \in Nodes, q \in Receipts : waiter'[m][q] # "none" => waiter[m][q] # "none"
    <3>1. PICK pc : WaiterGoto(n, r, pc)
      BY <2>1
    <3>2. \A m \in Nodes, q \in Receipts :
            waiter'[m][q] = IF m = n /\ q = r THEN pc ELSE waiter[m][q]
      <4>1. WaitsAt(n, r, pc)
        BY <1>0, <3>1, ToWait
      <4>. QED BY <4>1 DEF WaitsAt
    <3>. QED BY <2>1, <3>2
  <2>3. r \in Jobs(n) /\ Payload(n, r) \in SandboxIDs
    BY <2>1, HolderPayload DEF IInv, HoldersOK
  <2>4. \A m \in Nodes : watching'[m] \subseteq watching[m]
    BY <1>4, <1>b, <1>c, <2>3 DEF WaiterStep, WaiterLoad, WaiterWait, WaiterDisarm,
       WaiterReport, WaiterDetach, WaiterDestroy, WaiterAck
  <2>5. \A m \in Nodes : finished'[m] \subseteq finished[m] \cup (IF m = n THEN {r} ELSE {})
    <3>1. CASE WaiterAck(n, r)
      BY <1>0, <3>1 DEF WaiterAck, AgentTypes
    <3>2. CASE ~WaiterAck(n, r)
      <4>1. UNCHANGED finished
        BY <1>4, <3>2 DEF WaiterStep, WaiterLoad, WaiterWait, WaiterDisarm,
           WaiterReport, WaiterDetach, WaiterDestroy
      <4>. QED BY <4>1
    <3>. QED BY <3>1, <3>2
  <2>6. \A m \in Nodes, q \in Receipts : q \in finished'[m] => q \in finished[m] \/ (m = n /\ q = r)
    BY <2>5
  <2>. QED BY <2>1, <2>2, <2>4, <2>6 DEF HandedOn, HoldsLaunch
<1>5. ASSUME NEW n \in Nodes, NEW r \in Receipts, FuryStep(n, r) PROVE HandedOn
  <2>1. r \in watching[n] \/ killer[n][r] # "idle"
    BY <1>5 DEF FuryStep, FuryCheck, FuryStop, FuryDelete, FuryUnwatch
  <2>2. r \in Jobs(n) /\ Payload(n, r) \in SandboxIDs
    BY <2>1, HolderPayload DEF IInv, HoldersOK
  <2>3. UNCHANGED <<job, waiter, finished>> /\ (UNCHANGED watching \/ Disarm(n, Payload(n, r)))
    BY <1>5 DEF FuryStep, FuryCheck, FuryStop, FuryDelete, FuryUnwatch
  <2>. QED BY <1>a, <1>b, <1>c, <2>2, <2>3
<1>6. ASSUME NEW n \in Nodes, Crash(n) PROVE HandedOn
  <2>1. \A m \in Nodes : job'[m] = IF m = n THEN Idle ELSE job[m]
    BY <1>0, <1>6, ToIdle DEF Crash, AgentCrash
  <2>2. \A m \in Nodes, q \in Receipts : waiter'[m][q] = IF m = n THEN "none" ELSE waiter[m][q]
    BY <1>0, <1>6 DEF Crash, AgentCrash, AgentTypes
  <2>3. \A m \in Nodes : watching'[m] = IF m = n THEN {} ELSE watching[m]
    BY <1>0, <1>6 DEF Crash, AgentCrash, AgentTypes
  <2>4. UNCHANGED finished
    BY <1>6 DEF Crash, AgentCrash
  <2>. QED BY <2>1, <2>2, <2>3, <2>4, IdleFact, ReceiptFact DEF HandedOn, HoldsLaunch
<1>7. ASSUME NEW n \in Nodes, NEW r \in Receipts,
             \/ ControlStep(n) \/ Restart(n) \/ Heartbeat(n) \/ HeartbeatExpires(n)
             \/ ForeignEntry(n) \/ GuestExits(n, r)
      PROVE  HandedOn
  BY <1>7, <1>a, <1>c DEF ControlStep, ControlKill, ControlDelete, Restart,
     AgentRestart, Heartbeat, HeartbeatExpires, ForeignEntry, GuestExits
<1>8. CASE UNCHANGED vars
  BY <1>8, <1>a, <1>c DEF vars
<1>9. 1 \in Receipts
  BY DomainAssumption, SMTT(30) DEF Receipts
<1>. QED BY <1>1, <1>2, <1>3, <1>4, <1>5, <1>6, <1>7, <1>8, <1>9 DEF Next

-----------------------------------------------------------------------------
(* The launch, and what it leaves behind.                                  *)

Launched(n, r) == proc[n][r] # "none"

(* A Kill has tried to stop the launch, or it has ended. *)
Touched(n, r) == proc[n][r] \notin {"none", "running"}

(* Only entries that carry a request are launched, by the main loop at its *)
(* launch step; a waiter, a watcher or an acknowledgement comes after it.  *)
LaunchOK ==
  \A n \in Nodes, r \in Receipts :
    /\ Launched(n, r) => r \in Jobs(n) /\ (job[n].r = r => HoldsLaunch(n, r))
    /\ \/ HoldsLaunch(n, r) \/ waiter[n][r] # "none"
       \/ r \in finished[n] \/ r \in watching[n]
       => Launched(n, r)

(* The map of the runtime holds launches of the ID they are filed under. *)
MapOK ==
  \A n \in Nodes, s \in SandboxIDs :
    vms[n][s] # 0 => Launched(n, vms[n][s]) /\ Payload(n, vms[n][s]) = s

(* The sandbox that killer k works on. *)
Target(n, k) == IF k = 0 THEN Head(control[n]) ELSE Payload(n, k)

(* A Kill that is about to delete an ID has signalled a launch of it. *)
KillOK ==
  \A n \in Nodes, k \in Killers :
    killer[n][k] = "delete" => \E q \in Jobs(n) : Touched(n, q) /\ Payload(n, q) = Target(n, k)

LaunchInv == LaunchOK /\ MapOK /\ KillOK

(* What LaunchVM does, entry by entry. *)
LEMMA LaunchEffect ==
  ASSUME IInv, NEW n \in Nodes, LaunchVM(n)
  PROVE  /\ job[n].r \in Receipts /\ job[n].r \in Jobs(n) /\ JobID(n) \in SandboxIDs
         /\ Payload(n, job[n].r) = JobID(n) /\ job[n].pc = "launch" /\ up[n]
         /\ \A m \in Nodes, q \in Receipts :
              proc'[m][q] = IF m = n /\ q = job[n].r THEN "running" ELSE proc[m][q]
         /\ \A m \in Nodes, s \in SandboxIDs :
              vms'[m][s] = IF m = n /\ s = JobID(n) THEN job[n].r ELSE vms[m][s]
         /\ \A m \in Nodes : /\ job'[m].r = job[m].r
                             /\ job'[m].pc = IF m = n THEN "report" ELSE job[m].pc
         /\ UNCHANGED <<faults, queueVars, hadesVars, controlVars, exitCode, furyVars,
                        letheVars, attached, waiter, awaited, killer, finished>>
<1>1. job[n].pc = "launch" /\ up[n] /\ Launch(n, JobID(n), job[n].r) /\ JobGoto(n, "report")
  BY DEF LaunchVM, At
<1>2. /\ job[n].r \in Receipts /\ job[n].r \in Jobs(n) /\ JobID(n) \in SandboxIDs
      /\ Payload(n, job[n].r) = JobID(n)
  BY <1>1, BusyJob DEF JobID
<1>3. \A m \in Nodes, q \in Receipts :
        proc'[m][q] = IF m = n /\ q = job[n].r THEN "running" ELSE proc[m][q]
  BY <1>1, <1>2 DEF Launch, IInv, TypeOK, RuntimeTypeOK
<1>4. \A m \in Nodes, s \in SandboxIDs :
        vms'[m][s] = IF m = n /\ s = JobID(n) THEN job[n].r ELSE vms[m][s]
  BY <1>1, <1>2 DEF Launch, IInv, TypeOK, RuntimeTypeOK
<1>5. \A m \in Nodes : /\ job'[m].r = job[m].r
                       /\ job'[m].pc = IF m = n THEN "report" ELSE job[m].pc
  BY <1>1, AgentTyped, ToStep
<1>6. UNCHANGED <<faults, queueVars, hadesVars, controlVars, exitCode, furyVars,
                  letheVars, attached, waiter, awaited, killer, finished>>
  BY DEF LaunchVM, Launch
<1>. QED BY <1>1, <1>2, <1>3, <1>4, <1>5, <1>6

(* The same for one process, one place in the map, and the job itself. *)
LEMMA LaunchProc ==
  ASSUME IInv, NEW m \in Nodes, LaunchVM(m), NEW n \in Nodes, NEW r \in Receipts
  PROVE  /\ proc'[n][r] = IF n = m /\ r = job[m].r THEN "running" ELSE proc[n][r]
         /\ job'[n].r = job[n].r
  BY LaunchEffect, SMTT(30)

LEMMA LaunchOnly ==
  ASSUME IInv, NEW m \in Nodes, LaunchVM(m), NEW n \in Nodes, NEW r \in Receipts
  PROVE  /\ job'[n].r = job[n].r
         /\ proc'[n][r] # "none" => proc[n][r] # "none" \/ job[n].r = r
<1>1. /\ proc'[n][r] = IF n = m /\ r = job[m].r THEN "running" ELSE proc[n][r]
      /\ job'[n].r = job[n].r
  BY LaunchProc
<1>. QED BY <1>1

LEMMA LaunchMap ==
  ASSUME IInv, NEW m \in Nodes, LaunchVM(m), NEW n \in Nodes, NEW s \in SandboxIDs
  PROVE  vms'[n][s] = IF n = m /\ s = JobID(m) THEN job[m].r ELSE vms[n][s]
  BY LaunchEffect, SMTT(30)

LEMMA LaunchOwn ==
  ASSUME IInv, NEW n \in Nodes, LaunchVM(n)
  PROVE  /\ job[n].r \in Receipts /\ Payload(n, job[n].r) = JobID(n) /\ job[n].pc = "launch"
         /\ waiter' = waiter /\ finished' = finished
  BY LaunchEffect, SMTT(30)

(* Where no process is started, the same entries are launched. *)
LEMMA SameLaunched ==
  ASSUME IInv, ProcForward, NEW n \in Nodes, NEW r \in Receipts
  PROVE  /\ Launched(n, r)' <=> Launched(n, r)
         /\ Touched(n, r) => Touched(n, r)'
         /\ proc'[n][r] = "running" => proc[n][r] = "running"
         /\ proc[n][r] \in {"ok", "error"} => proc'[n][r] = proc[n][r]
  BY DEF ProcForward, Launched, Touched, Runs

(* A delivered request is not waiting. *)
LEMMA JobsDelivered ==
  ASSUME IInv, NEW n \in Nodes, NEW r \in Jobs(n)
  PROVE  ~(r > lastDelivered[n]) /\ r \in Entries(n)
  BY ReceiptFact, SMTT(30) DEF IInv, TypeOK, QueueTypeOK, CursorOK, Jobs, Entries, Receipts

(* Every step keeps LaunchOK. *)
LEMMA LaunchOKKept ==
  ASSUME IInv, LaunchOK, [Next]_vars
  PROVE  LaunchOK'
<1>0. QueueGrows
  BY StreamKept
<1>1. CASE ProcForward /\ HandedOn
  <2>. SUFFICES ASSUME NEW n \in Nodes, NEW r \in Receipts
                PROVE  /\ Launched(n, r)' => r \in Jobs(n)' /\ (job'[n].r = r => HoldsLaunch(n, r)')
                       /\ \/ HoldsLaunch(n, r)' \/ waiter'[n][r] # "none"
                          \/ r \in finished'[n] \/ r \in watching'[n]
                          => Launched(n, r)'
    BY DEF LaunchOK
  <2>1. Launched(n, r)' <=> Launched(n, r)
    BY <1>1, SameLaunched
  <2>2. Jobs(n) \subseteq Jobs(n)'
    BY <1>0 DEF QueueGrows
  <2>3. /\ Launched(n, r) => r \in Jobs(n) /\ (job[n].r = r => HoldsLaunch(n, r))
        /\ \/ HoldsLaunch(n, r) \/ waiter[n][r] # "none"
           \/ r \in finished[n] \/ r \in watching[n]
           => Launched(n, r)
    BY DEF LaunchOK
  <2>4. /\ job'[n].r = r =>
             \/ job[n].r = r /\ (HoldsLaunch(n, r) <=> job'[n].pc \in {"report", "arm"})
             \/ r > lastDelivered[n] /\ job'[n].pc = "stage"
        /\ waiter'[n][r] # "none" => waiter[n][r] # "none" \/ HoldsLaunch(n, r)
        /\ r \in finished'[n] => r \in finished[n] \/ waiter[n][r] # "none"
        /\ r \in watching'[n] => r \in watching[n] \/ HoldsLaunch(n, r)
    BY <1>1 DEF HandedOn
  <2>5. Launched(n, r) => ~(r > lastDelivered[n])
    BY <2>3, JobsDelivered
  <2>6. HoldsLaunch(n, r)' <=> job'[n].r = r /\ job'[n].pc \in {"report", "arm"}
    BY DEF HoldsLaunch
  <2>7. Launched(n, r) => r \in Jobs(n)' /\ (job'[n].r = r => HoldsLaunch(n, r)')
    BY <2>2, <2>3, <2>4, <2>5, <2>6
  <2>8. HoldsLaunch(n, r)' => Launched(n, r)
    BY <2>3, <2>4, <2>6
  <2>. QED BY <2>1, <2>3, <2>4, <2>7, <2>8
<1>2. ASSUME NEW n \in Nodes, LaunchVM(n) PROVE LaunchOK'
  <2>. SUFFICES ASSUME NEW m \in Nodes, NEW q \in Receipts
                PROVE  /\ Launched(m, q)' => q \in Jobs(m)' /\ (job'[m].r = q => HoldsLaunch(m, q)')
                       /\ \/ HoldsLaunch(m, q)' \/ waiter'[m][q] # "none"
                          \/ q \in finished'[m] \/ q \in watching'[m]
                          => Launched(m, q)'
    BY DEF LaunchOK
  <2>1. /\ job[n].r \in Jobs(n) /\ job[n].pc = "launch"
        /\ proc'[m][q] = IF m = n /\ q = job[n].r THEN "running" ELSE proc[m][q]
        /\ job'[m].r = job[m].r /\ job'[m].pc = IF m = n THEN "report" ELSE job[m].pc
        /\ waiter' = waiter /\ finished' = finished /\ watching' = watching
    BY <1>2, LaunchEffect, SMTT(30)
  <2>2. Jobs(m) \subseteq Jobs(m)'
    BY <1>0 DEF QueueGrows
  <2>3. /\ Launched(m, q) => q \in Jobs(m) /\ (job[m].r = q => HoldsLaunch(m, q))
        /\ \/ HoldsLaunch(m, q) \/ waiter[m][q] # "none"
           \/ q \in finished[m] \/ q \in watching[m]
           => Launched(m, q)
    BY DEF LaunchOK
  <2>4. CASE m = n /\ q = job[n].r
    BY <2>1, <2>2, <2>4 DEF Launched, HoldsLaunch
  <2>5. CASE ~(m = n /\ q = job[n].r)
    BY <2>1, <2>2, <2>3, <2>5 DEF Launched, HoldsLaunch
  <2>. QED BY <2>4, <2>5
<1>. QED BY <1>1, <1>2, ProcSteps, HandedOnSteps

(* How the map of the runtime changes outside LaunchVM: entries go. *)
MapShrinks ==
  \A n \in Nodes, s \in SandboxIDs : vms'[n][s] = vms[n][s] \/ vms'[n][s] = 0

LEMMA MapSteps ==
  ASSUME IInv, [Next]_vars
  PROVE  MapShrinks \/ \E n \in Nodes : LaunchVM(n)
<1>0. vms \in [Nodes -> [SandboxIDs -> Receipts \cup {0}]]
  BY DEF IInv, TypeOK, RuntimeTypeOK
<1>a. ASSUME UNCHANGED vms PROVE MapShrinks
  BY <1>a DEF MapShrinks
<1>b. ASSUME NEW n \in Nodes, NEW s, DeleteVM(n, s) PROVE MapShrinks
  BY <1>0, <1>b DEF MapShrinks, DeleteVM
<1>1. ASSUME NEW c \in Clients, SubmitStep(c) PROVE MapShrinks
  BY <1>1, <1>a DEF SubmitStep, SubmitRejected, SubmitPersist, SubmitUnschedulable,
     SubmitSchedule, SubmitEnqueue, SubmitEnqueueFails
<1>2. ASSUME ReconcileStep \/ OperatorStep PROVE MapShrinks
  BY <1>2, <1>a DEF ReconcileStep, ReconcileQuery, OperatorStep, KillSandbox, OlympusRestart
<1>3. ASSUME NEW n \in Nodes, MainLoopStep(n) PROVE MapShrinks \/ LaunchVM(n)
  BY <1>3, <1>a DEF MainLoopStep, Dequeue, DequeuePoison, Stage, StageFails,
     AttachNetwork, AttachNetworkFails, LaunchVMFails, ReportRunning, ArmAndWait
<1>4. ASSUME NEW n \in Nodes, NEW r \in Receipts, WaiterStep(n, r) PROVE MapShrinks
  BY <1>4, <1>a DEF WaiterStep, WaiterLoad, WaiterWait, WaitReturns, WaiterDisarm,
     WaiterReport, WaiterDetach, WaiterDestroy, WaiterAck
<1>5. ASSUME NEW n \in Nodes, NEW r \in Receipts, FuryStep(n, r) \/ ControlStep(n)
      PROVE  MapShrinks
  BY <1>5, <1>a, <1>b DEF FuryStep, FuryCheck, FuryStop, FuryDelete, FuryUnwatch,
     ControlStep, ControlKill, ControlDelete, StopVMM
<1>6. ASSUME NEW n \in Nodes, NEW r \in Receipts, GuestExits(n, r) PROVE MapShrinks
  BY <1>a, <1>6 DEF GuestExits, VMExit
<1>7. ASSUME NEW n \in Nodes, Crash(n) PROVE MapShrinks
  BY <1>0, <1>7 DEF Crash, AgentCrash, MapShrinks
<1>8. ASSUME NEW n \in Nodes, \/ Restart(n) \/ Heartbeat(n) \/ HeartbeatExpires(n)
                              \/ ForeignEntry(n)
      PROVE  MapShrinks
  BY <1>8, <1>a DEF Restart, AgentRestart, Heartbeat, HeartbeatExpires, ForeignEntry
<1>9. CASE UNCHANGED vars
  BY <1>9, <1>a DEF vars
<1>10. 1 \in Receipts
  BY DomainAssumption, SMTT(30) DEF Receipts
<1>. QED BY <1>1, <1>2, <1>3, <1>4, <1>5, <1>6, <1>7, <1>8, <1>9, <1>10 DEF Next

(* Every step keeps MapOK. *)
LEMMA MapOKKept ==
  ASSUME IInv, LaunchOK, MapOK, [Next]_vars
  PROVE  MapOK'
<1>0. QueueGrows
  BY StreamKept
<1>a. ASSUME NEW n \in Nodes, NEW r \in Receipts, Launched(n, r)
      PROVE  Payload(n, r)' = Payload(n, r)
  BY <1>0, <1>a, JobsDelivered DEF LaunchOK, QueueGrows, Payload
<1>b. \A n \in Nodes, s \in SandboxIDs : vms[n][s] # 0 => vms[n][s] \in Receipts
  BY SMTT(30) DEF IInv, TypeOK, RuntimeTypeOK
<1>1. CASE ProcForward /\ MapShrinks
  <2>. SUFFICES ASSUME NEW n \in Nodes, NEW s \in SandboxIDs, vms'[n][s] # 0
                PROVE  Launched(n, vms[n][s])' /\ Payload(n, vms[n][s])' = s
                       /\ vms'[n][s] = vms[n][s]
    BY DEF MapOK, Launched, Payload
  <2>1. vms'[n][s] = vms[n][s] /\ vms[n][s] \in Receipts
    BY <1>1, <1>b DEF MapShrinks
  <2>2. Launched(n, vms[n][s]) /\ Payload(n, vms[n][s]) = s
    BY <2>1 DEF MapOK
  <2>3. Launched(n, vms[n][s])'
    BY <1>1, <2>1, <2>2, SMTT(30) DEF ProcForward, Launched
  <2>. QED BY <1>a, <2>1, <2>2, <2>3 DEF Payload
<1>2. ASSUME NEW n \in Nodes, LaunchVM(n) PROVE MapOK'
  <2>. SUFFICES ASSUME NEW m \in Nodes, NEW s \in SandboxIDs, vms'[m][s] # 0
                PROVE  proc'[m][vms'[m][s]] # "none" /\ stream'[m][vms'[m][s]] = s
    BY DEF MapOK, Launched, Payload
  <2>1. /\ vms'[m][s] = IF m = n /\ s = JobID(n) THEN job[n].r ELSE vms[m][s]
        /\ \A q \in Receipts :
             proc'[m][q] = IF m = n /\ q = job[n].r THEN "running" ELSE proc[m][q]
        /\ job[n].r \in Receipts /\ stream[n][job[n].r] = JobID(n) /\ stream' = stream
    <3>1. job[n].r \in Receipts /\ Payload(n, job[n].r) = JobID(n) /\ UNCHANGED queueVars
      BY <1>2, LaunchEffect
    <3>2. \A k \in Nodes, t \in SandboxIDs :
            vms'[k][t] = IF k = n /\ t = JobID(n) THEN job[n].r ELSE vms[k][t]
      BY <1>2, LaunchEffect
    <3>3. \A q \in Receipts : proc'[m][q] = IF m = n /\ q = job[n].r THEN "running" ELSE proc[m][q]
      BY <1>2, LaunchEffect
    <3>. QED BY <3>1, <3>2, <3>3 DEF Payload
  <2>2. vms[m][s] # 0 => proc[m][vms[m][s]] # "none" /\ stream[m][vms[m][s]] = s
    BY DEF MapOK, Launched, Payload
  <2>. QED BY <1>b, <2>1, <2>2
<1>. QED BY <1>1, <1>2, ProcSteps, MapSteps

(* What has ended stays ended, under the same ID. *)
LEMMA TouchedKept ==
  ASSUME IInv, LaunchOK, [Next]_vars, NEW n \in Nodes, NEW q \in Jobs(n), Touched(n, q)
  PROVE  q \in Jobs(n)' /\ Touched(n, q)' /\ Payload(n, q)' = Payload(n, q)
<1>0. QueueGrows
  BY StreamKept
<1>1. q \in Jobs(n)' /\ Payload(n, q)' = Payload(n, q)
  BY <1>0, JobsDelivered DEF QueueGrows, Payload
<1>2. q \in Receipts
  BY DEF Jobs
<1>3. CASE ProcForward
  BY <1>1, <1>2, <1>3, SameLaunched
<1>4. ASSUME NEW m \in Nodes, LaunchVM(m) PROVE Touched(n, q)'
  <2>1. /\ proc'[n][q] = IF n = m /\ q = job[m].r THEN "running" ELSE proc[n][q]
        /\ job[m].r \in Receipts /\ job[m].pc = "launch"
    BY <1>2, <1>4, LaunchProc, LaunchOwn, SMTT(30)
  <2>2. ~Launched(m, job[m].r)
    BY <2>1 DEF LaunchOK, HoldsLaunch
  <2>. QED BY <2>1, <2>2 DEF Touched, Launched
<1>. QED BY <1>1, <1>3, <1>4, ProcSteps

(* The kill messages that are not being handled. *)
LEMMA HeadKept ==
  ASSUME IInv, NEW s \in SandboxIDs, KillSandbox(s), NEW n \in Nodes, control[n] # <<>>
  PROVE  Head(control'[n]) = Head(control[n])
<1>1. control[n] \in Seq(SandboxIDs)
  BY DEF IInv, TypeOK, ControlTypeOK
<1>2. control'[n] = control[n] \/ control'[n] = Append(control[n], s)
  BY DEF KillSandbox, PublishKill
<1>. QED BY <1>1, <1>2, SMTT(30)

(* A Kill that is past StopVMM has tried to stop a launch of that ID. *)
LEMMA StopTouches ==
  ASSUME IInv, LaunchOK, MapOK, NEW n \in Nodes, NEW s \in SandboxIDs, Stops(n, s)
  PROVE  \E q \in Jobs(n) : Touched(n, q)' /\ Payload(n, q) = s
<1>1. vms[n][s] \in Receipts /\ vms[n][s] # 0
  BY ReceiptFact, SMTT(30) DEF Stops, StopVMM, Known, IInv, TypeOK, RuntimeTypeOK
<1>2. Launched(n, vms[n][s]) /\ Payload(n, vms[n][s]) = s
  BY <1>1 DEF MapOK
<1>3. vms[n][s] \in Jobs(n)
  BY <1>1, <1>2 DEF LaunchOK
<1>4. proc'[n][vms[n][s]] \in {"stopping", "unstopped"} \/
        (proc'[n][vms[n][s]] = proc[n][vms[n][s]] /\ proc[n][vms[n][s]] # "running")
  <2>1. PICK q \in Receipts : q = vms[n][s]
    BY <1>1
  <2>2. PICK ok \in BOOLEAN :
          proc' = [proc EXCEPT ![n][q] = IF proc[n][q] \in {"running", "unstopped"}
                                         THEN IF ok THEN "stopping" ELSE "unstopped"
                                         ELSE proc[n][q]]
    BY <2>1 DEF Stops, StopVMM, IInv, TypeOK, RuntimeTypeOK
  <2>3. proc'[n][q] = IF proc[n][q] \in {"running", "unstopped"}
                      THEN IF ok THEN "stopping" ELSE "unstopped" ELSE proc[n][q]
    BY <2>2 DEF IInv, TypeOK, RuntimeTypeOK
  <2>. QED BY <2>1, <2>3
<1>5. Touched(n, vms[n][s])'
  <2>1. vms' = vms
    BY DEF Stops, StopVMM
  <2>. QED BY <1>2, <1>4, <2>1 DEF Touched, Launched
<1>6. vms' = vms
  BY DEF Stops, StopVMM
<1>. QED BY <1>2, <1>3, <1>5, <1>6 DEF Touched

(* Every step keeps KillOK. *)
LEMMA KillOKKept ==
  ASSUME IInv, LaunchOK, MapOK, KillOK, [Next]_vars
  PROVE  KillOK'
<1>. DEFINE Hit(n, k) == \E q \in Jobs(n) : Touched(n, q) /\ Payload(n, q) = Target(n, k)
<1>0. TypeOK /\ HoldersOK /\ ControlOK /\ QueueGrows
  BY StreamKept DEF IInv
<1>t. killer \in [Nodes -> [Killers -> KillerPC]] /\ control \in [Nodes -> Seq(SandboxIDs)]
  BY <1>0 DEF TypeOK, AgentTypeOK, ControlTypeOK
<1>k. \A k \in Killers : k # 0 => k \in Receipts
  BY DEF Killers
<1>a. ASSUME NEW n \in Nodes, NEW k \in Killers, killer[n][k] = "delete",
             k = 0 => Head(control'[n]) = Head(control[n])
      PROVE  Hit(n, k)'
  <2>1. PICK q \in Jobs(n) : Touched(n, q) /\ Payload(n, q) = Target(n, k)
    BY <1>a DEF KillOK
  <2>2. q \in Jobs(n)' /\ Touched(n, q)' /\ Payload(n, q)' = Payload(n, q)
    BY <2>1, TouchedKept
  <2>3. Target(n, k)' = Target(n, k)
    <3>1. CASE k = 0
      BY <1>a, <3>1 DEF Target
    <3>2. CASE k # 0
      <4>1. k \in Jobs(n)
        BY <1>0, <1>a, <1>k, <3>2 DEF HoldersOK
      <4>. QED BY <1>0, <3>2, <4>1, JobsDelivered DEF Target, QueueGrows, Payload
    <3>. QED BY <3>1, <3>2
  <2>. QED BY <2>1, <2>2, <2>3
<1>b. ASSUME UNCHANGED <<killer, control>> PROVE KillOK'
  BY <1>a, <1>b DEF KillOK
<1>1. ASSUME NEW s \in SandboxIDs, KillSandbox(s), UNCHANGED killer PROVE KillOK'
  <2>. SUFFICES ASSUME NEW n \in Nodes, NEW k \in Killers, killer[n][k] = "delete"
                PROVE  Hit(n, k)'
    BY <1>1 DEF KillOK
  <2>1. k = 0 => control[n] # <<>>
    BY <1>0 DEF ControlOK
  <2>. QED BY <1>1, <1>a, <2>1, HeadKept
<1>2. ASSUME NEW n \in Nodes, NEW r \in Receipts, FuryStep(n, r) PROVE KillOK'
  <2>1. control' = control
    BY <1>2 DEF FuryStep, FuryCheck, FuryStop, FuryDelete, FuryUnwatch
  <2>2. r \in watching[n] \/ killer[n][r] # "idle"
    BY <1>2 DEF FuryStep, FuryCheck, FuryStop, FuryDelete, FuryUnwatch
  <2>3. r \in Jobs(n) /\ Payload(n, r) \in SandboxIDs /\ r \in Killers /\ r # 0
    BY <1>0, <2>2, HolderPayload, KillersFact DEF HoldersOK
  <2>4. \/ UNCHANGED killer
        \/ \E pc \in {"stop", "unwatch", "idle"} : KillerGoto(n, r, pc)
        \/ KillerGoto(n, r, "delete") /\ Stops(n, Payload(n, r))
    BY <1>2 DEF FuryStep, FuryCheck, FuryStop, FuryDelete, FuryUnwatch, Stops
  <2>. SUFFICES ASSUME NEW m \in Nodes, NEW k \in Killers, killer'[m][k] = "delete"
                PROVE  Hit(m, k)'
    BY DEF KillOK
  <2>5. CASE killer[m][k] = "delete"
    BY <1>a, <2>1, <2>5
  <2>6. CASE killer[m][k] # "delete"
    <3>1. m = n /\ k = r /\ Stops(n, Payload(n, r))
      BY <1>t, <2>3, <2>4, <2>6, SMTT(30) DEF KillerGoto
    <3>2. PICK q \in Jobs(n) : Touched(n, q)' /\ Payload(n, q) = Payload(n, r)
      BY <2>3, <3>1, StopTouches
    <3>3. q \in Jobs(n)' /\ Payload(n, q)' = Payload(n, q) /\ Payload(n, r)' = Payload(n, r)
      BY <1>0, <2>3, <3>2, JobsDelivered DEF QueueGrows, Payload
    <3>4. Target(n, r)' = Payload(n, r)'
      BY <2>3 DEF Target
    <3>. QED BY <3>1, <3>2, <3>3, <3>4
  <2>. QED BY <2>5, <2>6
<1>3. ASSUME NEW n \in Nodes, ControlStep(n) PROVE KillOK'
  <2>1. \/ /\ KillerGoto(n, 0, "delete") /\ Stops(n, Head(control[n])) /\ UNCHANGED control
        \/ /\ control' = [control EXCEPT ![n] = Tail(@)]
           /\ killer[n][0] = "idle" /\ UNCHANGED killer
        \/ /\ control' = [control EXCEPT ![n] = Tail(@)]
           /\ KillerGoto(n, 0, "idle")
    BY <1>3 DEF ControlStep, ControlKill, ControlDelete, Stops
  <2>2. control[n] # <<>> /\ stream' = stream /\ 0 \in Killers
    BY <1>0, <1>3, KillersFact DEF ControlStep, ControlKill, ControlDelete, ControlOK
  <2>. SUFFICES ASSUME NEW m \in Nodes, NEW k \in Killers, killer'[m][k] = "delete"
                PROVE  Hit(m, k)'
    BY DEF KillOK
  <2>3. CASE m = n /\ k = 0
    <3>1. Stops(n, Head(control[n])) /\ UNCHANGED control
      BY <1>t, <2>1, <2>2, <2>3, SMTT(30) DEF KillerGoto
    <3>2. Head(control[n]) \in SandboxIDs
      BY <1>t, <2>2, SMTT(30)
    <3>3. PICK q \in Jobs(n) : Touched(n, q)' /\ Payload(n, q) = Head(control[n])
      BY <3>1, <3>2, StopTouches
    <3>4. q \in Jobs(n)'
      BY <1>0 DEF QueueGrows
    <3>. QED BY <2>2, <2>3, <3>1, <3>3, <3>4 DEF Target, Payload
  <2>4. CASE ~(m = n /\ k = 0)
    <3>1. killer[m][k] = "delete"
      BY <1>t, <2>1, <2>2, <2>4, SMTT(30) DEF KillerGoto
    <3>2. k = 0 => control'[m] = control[m]
      BY <1>t, <2>1, <2>4
    <3>. QED BY <1>a, <3>1, <3>2
  <2>. QED BY <2>3, <2>4
<1>4. ASSUME NEW n \in Nodes, Crash(n) PROVE KillOK'
  <2>1. \A m \in Nodes, k \in Killers : killer'[m][k] = IF m = n THEN "idle" ELSE killer[m][k]
    BY <1>t, <1>4 DEF Crash, AgentCrash
  <2>2. \A m \in Nodes : m # n => control'[m] = control[m]
    BY <1>t, <1>4 DEF Crash, AgentCrash
  <2>3. ASSUME NEW m \in Nodes, NEW k \in Killers, killer'[m][k] = "delete"
        PROVE  Hit(m, k)'
    BY <1>a, <2>1, <2>2, <2>3
  <2>. QED BY <2>3 DEF KillOK
<1>5. ASSUME NEW c \in Clients, SubmitStep(c) PROVE KillOK'
  BY <1>5, <1>b DEF SubmitStep, SubmitRejected, SubmitPersist, SubmitUnschedulable,
     SubmitSchedule, SubmitEnqueue, SubmitEnqueueFails
<1>6. ASSUME ReconcileStep \/ OperatorStep PROVE KillOK'
  BY <1>6, <1>b, <1>1 DEF ReconcileStep, ReconcileQuery, OperatorStep, OlympusRestart
<1>7. ASSUME NEW n \in Nodes, MainLoopStep(n) PROVE KillOK'
  BY <1>7, <1>b DEF MainLoopStep, Dequeue, DequeuePoison, Stage, StageFails,
     AttachNetwork, AttachNetworkFails, LaunchVM, LaunchVMFails, ReportRunning, ArmAndWait
<1>8. ASSUME NEW n \in Nodes, NEW r \in Receipts, WaiterStep(n, r) PROVE KillOK'
  BY <1>8, <1>b DEF WaiterStep, WaiterLoad, WaiterWait, WaiterDisarm,
     WaiterReport, WaiterDetach, WaiterDestroy, WaiterAck
<1>9. ASSUME NEW n \in Nodes, NEW r \in Receipts,
             \/ Restart(n) \/ Heartbeat(n) \/ HeartbeatExpires(n)
             \/ ForeignEntry(n) \/ GuestExits(n, r)
      PROVE  KillOK'
  BY <1>9, <1>b DEF Restart, AgentRestart, Heartbeat, HeartbeatExpires,
     ForeignEntry, GuestExits
<1>10. CASE UNCHANGED vars
  BY <1>10, <1>b DEF vars
<1>11. 1 \in Receipts
  BY DomainAssumption, SMTT(30) DEF Receipts
<1>. QED BY <1>2, <1>3, <1>4, <1>5, <1>6, <1>7, <1>8, <1>9, <1>10, <1>11 DEF Next

(* At first nothing is launched. *)
LEMMA LaunchInit == ASSUME Init PROVE LaunchInv
  BY ReceiptFact DEF Init, RuntimeInit, AgentInit, FuryInit, QueueInit, LaunchInv, LaunchOK,
     MapOK, KillOK, Launched, HoldsLaunch, Idle

(* LaunchInv is an invariant, inductive relative to IInv. *)
LEMMA LaunchInvariant == Spec => [](IInv /\ LaunchInv)
<1>1. IInv /\ LaunchInv /\ [Next]_vars => LaunchInv'
  BY LaunchOKKept, MapOKKept, KillOKKept DEF LaunchInv
<1>. QED BY <1>1, LaunchInit, Inductive, PTL DEF Spec

-----------------------------------------------------------------------------
(* The lineage of a sandbox that was submitted once.                       *)

(* At most one client carries the ID s. *)
Once(s) == \A c, d \in Clients : calls[c].id = s /\ calls[d].id = s => c = d

(* Entry r may still lead to a VM, or has led to one. *)
Held(n, r) ==
  r > lastDelivered[n] \/ job[n].r = r \/ waiter[n][r] # "none" \/ Launched(n, r)

Live(n, r) == r \in Entries(n) /\ Held(n, r)

(* An entry of a request whose ID no other client carries. *)
Sole(n, r) == r \in Entries(n) /\ Payload(n, r) \in SandboxIDs /\ Once(Payload(n, r))

(* The steps of a call of Submit before its request is in a queue. *)
Early == {"ready", "pending", "scheduled"}

(* A call that has not been accepted has no entry yet. *)
Origin ==
  \A c \in Clients, s \in SandboxIDs :
    calls[c].pc \in Early /\ calls[c].id = s /\ Once(s) =>
      \A n \in Nodes : \A i \in Entries(n) : Payload(n, i) # s

(* Of all entries of a sandbox submitted once, over all nodes, one is live. *)
OneLive ==
  \A n, m \in Nodes : \A q, r \in Receipts :
    /\ Live(n, q) /\ Live(m, r) /\ Sole(n, q) /\ Payload(n, q) = Payload(m, r)
    => n = m /\ q = r

LineageInv == Origin /\ OneLive

(* No step makes an ID more or less unique. *)
LEMMA OnceKept ==
  ASSUME IInv, [Next]_vars
  PROVE  \A s : Once(s)' <=> Once(s)
  BY RequestKept DEF IdsKept, Once

(* Cursors only go forward. *)
LEMMA CursorForward ==
  ASSUME IInv, [Next]_vars, NEW n \in Nodes
  PROVE  /\ lastDelivered[n] \in Nat /\ lastDelivered'[n] \in Nat
         /\ lastDelivered[n] <= lastDelivered'[n]
<1>0. lastDelivered \in [Nodes -> Nat]
  BY DEF IInv, TypeOK, QueueTypeOK
<1>1. lastDelivered' = lastDelivered
      \/ \E m \in Nodes : lastDelivered' = [lastDelivered EXCEPT ![m] = @ + 1]
  <2>1. ASSUME NEW c \in Clients, SubmitStep(c) PROVE lastDelivered' = lastDelivered
    BY <2>1 DEF SubmitStep, SubmitRejected, SubmitPersist, SubmitUnschedulable,
       SubmitSchedule, SubmitEnqueue, SubmitEnqueueFails, Enqueue
  <2>2. ASSUME ReconcileStep \/ OperatorStep PROVE lastDelivered' = lastDelivered
    BY <2>2 DEF ReconcileStep, ReconcileQuery, OperatorStep, KillSandbox, OlympusRestart
  <2>3. ASSUME NEW m \in Nodes, MainLoopStep(m)
        PROVE  lastDelivered' = lastDelivered
               \/ lastDelivered' = [lastDelivered EXCEPT ![m] = @ + 1]
    <3>1. CASE DequeuePoison(m) \/ Dequeue(m)
      BY <1>0, <3>1 DEF DequeuePoison, DeadLetter, Dequeue, Deliver
    <3>2. CASE ~(DequeuePoison(m) \/ Dequeue(m))
      BY <2>3, <3>2 DEF MainLoopStep, Stage, StageFails, AttachNetwork,
         AttachNetworkFails, LaunchVM, LaunchVMFails, ReportRunning, ArmAndWait, NackJob, Nack
    <3>. QED BY <3>1, <3>2
  <2>4. ASSUME NEW m \in Nodes, NEW r \in Receipts, WaiterStep(m, r)
        PROVE  lastDelivered' = lastDelivered
    BY <2>4 DEF WaiterStep, WaiterLoad, WaiterWait, WaiterDisarm,
       WaiterReport, WaiterDetach, WaiterDestroy, WaiterAck, Ack
  <2>5. ASSUME NEW m \in Nodes, NEW r \in Receipts,
               \/ FuryStep(m, r) \/ GuestExits(m, r) \/ ControlStep(m) \/ Crash(m)
               \/ Restart(m) \/ Heartbeat(m) \/ HeartbeatExpires(m) \/ ForeignEntry(m)
        PROVE  lastDelivered' = lastDelivered
    BY <2>5 DEF FuryStep, FuryCheck, FuryStop, FuryDelete, FuryUnwatch,
       GuestExits, ControlStep, ControlKill, ControlDelete, Crash, AgentCrash, Restart,
       AgentRestart, Heartbeat, HeartbeatExpires, ForeignEntry, EnqueuePoison, Enqueue
  <2>6. 1 \in Receipts
    BY DomainAssumption, SMTT(30) DEF Receipts
  <2>. QED BY <2>1, <2>2, <2>3, <2>4, <2>5, <2>6 DEF Next, vars
<1>. QED BY <1>0, <1>1, SMTT(30)

(* An entry that was let go is never held again. *)
LEMMA HeldShrinks ==
  ASSUME IInv, [Next]_vars, NEW n \in Nodes, NEW r \in Receipts, Held(n, r)'
  PROVE  Held(n, r)
<1>1. r > lastDelivered'[n] => r > lastDelivered[n]
  BY CursorForward, ReceiptFact, SMTT(30)
<1>2. CASE ProcForward /\ HandedOn
  <2>1. Launched(n, r)' <=> Launched(n, r)
    BY <1>2, SameLaunched
  <2>2. job'[n].r = r => job[n].r = r \/ r > lastDelivered[n]
    BY <1>2 DEF HandedOn
  <2>3. waiter'[n][r] # "none" => waiter[n][r] # "none" \/ job[n].r = r
    BY <1>2 DEF HandedOn, HoldsLaunch
  <2>. QED BY <1>1, <2>1, <2>2, <2>3 DEF Held
<1>3. ASSUME NEW m \in Nodes, LaunchVM(m) PROVE Held(n, r)
  <2>1. /\ job'[n].r = job[n].r
        /\ proc'[n][r] # "none" => proc[n][r] # "none" \/ job[n].r = r
    BY <1>3, LaunchOnly
  <2>2. waiter'[n][r] = waiter[n][r]
    BY <1>3, LaunchOwn
  <2>. QED BY <1>1, <2>1, <2>2 DEF Held, Launched
<1>. QED BY <1>2, <1>3, ProcSteps, HandedOnSteps

(* An entry of n is handed back: its copy is added, and its goroutine has  *)
(* let go of it before anything was launched.                              *)
HandsBack(n) ==
  /\ job[n].pc \in {"stage", "attach", "launch"}
  /\ Nack(n, job[n].r)
  /\ job' = [job EXCEPT ![n] = Idle]
  /\ UNCHANGED <<waiter, proc, olympusVars, hadesVars>>

(* The steps that add an entry. *)
LEMMA StreamSteps ==
  ASSUME IInv, [Next]_vars
  PROVE  \/ stream' = stream
         \/ \E c \in Clients : SubmitEnqueue(c)
         \/ \E n \in Nodes : EnqueuePoison(n) /\ UNCHANGED calls
         \/ \E n \in Nodes : HandsBack(n)
<1>1. ASSUME NEW c \in Clients, SubmitStep(c) PROVE stream' = stream \/ SubmitEnqueue(c)
  BY <1>1 DEF SubmitStep, SubmitRejected, SubmitPersist, SubmitUnschedulable,
     SubmitSchedule, SubmitEnqueueFails
<1>2. ASSUME ReconcileStep \/ OperatorStep PROVE stream' = stream
  BY <1>2 DEF ReconcileStep, ReconcileQuery, OperatorStep, KillSandbox, OlympusRestart
<1>3. ASSUME NEW n \in Nodes, MainLoopStep(n) PROVE stream' = stream \/ HandsBack(n)
  <2>0. UNCHANGED olympusVars
    BY <1>3 DEF MainLoopStep
  <2>1. ASSUME NEW ok \in BOOLEAN, NackJob(n, ok), job[n].pc \in {"stage", "attach", "launch"},
               job' = [job EXCEPT ![n] = Idle], UNCHANGED <<waiter, proc, hadesVars>>
        PROVE  stream' = stream \/ HandsBack(n)
    BY <2>0, <2>1 DEF NackJob, HandsBack
  <2>2. CASE StageFails(n)
    BY <2>1, <2>2 DEF StageFails, At
  <2>3. CASE AttachNetworkFails(n)
    BY <2>1, <2>3 DEF AttachNetworkFails, At
  <2>4. CASE LaunchVMFails(n)
    BY <2>1, <2>4 DEF LaunchVMFails, At
  <2>5. CASE ~(StageFails(n) \/ AttachNetworkFails(n) \/ LaunchVMFails(n))
    BY <1>3, <2>5 DEF MainLoopStep, Dequeue, Deliver, DequeuePoison, DeadLetter, Stage,
       AttachNetwork, LaunchVM, ReportRunning, ArmAndWait
  <2>. QED BY <2>2, <2>3, <2>4, <2>5
<1>4. ASSUME NEW n \in Nodes, NEW r \in Receipts, WaiterStep(n, r) PROVE stream' = stream
  BY <1>4 DEF WaiterStep, WaiterLoad, WaiterWait, WaiterDisarm,
     WaiterReport, WaiterDetach, WaiterDestroy, WaiterAck, Ack
<1>5. ASSUME NEW n \in Nodes, NEW r \in Receipts,
             \/ FuryStep(n, r) \/ GuestExits(n, r) \/ ControlStep(n) \/ Crash(n)
             \/ Restart(n) \/ Heartbeat(n) \/ HeartbeatExpires(n)
      PROVE  stream' = stream
  BY <1>5 DEF FuryStep, FuryCheck, FuryStop, FuryDelete, FuryUnwatch,
     GuestExits, ControlStep, ControlKill, ControlDelete, Crash, AgentCrash, Restart,
     AgentRestart, Heartbeat, HeartbeatExpires
<1>6. ASSUME NEW n \in Nodes, ForeignEntry(n) PROVE EnqueuePoison(n) /\ UNCHANGED calls
  BY <1>6 DEF ForeignEntry
<1>7. 1 \in Receipts
  BY DomainAssumption, SMTT(30) DEF Receipts
<1>. QED BY <1>1, <1>2, <1>3, <1>4, <1>5, <1>6, <1>7 DEF Next, vars

(* Calls of Submit only go forward. *)
LEMMA CallsForward ==
  ASSUME IInv, [Next]_vars, NEW c \in Clients, calls'[c].pc \in Early
  PROVE  calls[c].pc \in Early
<1>0. calls \in [Clients -> [pc : CallState, id : SandboxIDs, node : Nodes \cup {NoNode}]]
  BY DEF IInv, TypeOK, OlympusTypeOK
<1>a. ASSUME UNCHANGED calls PROVE calls[c].pc \in Early
  BY <1>a
<1>1. ASSUME NEW d \in Clients, SubmitStep(d) PROVE calls[c].pc \in Early
  <2>1. calls[d].pc \in Early
    BY <1>1 DEF SubmitStep, SubmitRejected, SubmitPersist, SubmitUnschedulable,
       SubmitSchedule, SubmitEnqueue, SubmitEnqueueFails, Early
  <2>2. c = d \/ calls'[c] = calls[c]
    <3>1. CASE SubmitSchedule(d)
      <4>1. PICK n \in ListNodes : calls' = [calls EXCEPT ![d].pc = "scheduled", ![d].node = n]
        BY <3>1 DEF SubmitSchedule
      <4>. QED BY <1>0, <4>1
    <3>2. CASE ~SubmitSchedule(d)
      <4>1. PICK pc : calls' = [calls EXCEPT ![d].pc = pc]
        BY <1>1, <3>2 DEF SubmitStep, SubmitRejected, SubmitPersist,
           SubmitUnschedulable, SubmitEnqueue, SubmitEnqueueFails, Goto
      <4>. QED BY <1>0, <4>1
    <3>. QED BY <3>1, <3>2
  <2>. QED BY <2>1, <2>2
<1>2. ASSUME OlympusRestart PROVE calls[c].pc \in Early
  <2>1. calls'[c] = IF calls[c].pc \in {"pending", "scheduled"}
                    THEN [calls[c] EXCEPT !.pc = "aborted"] ELSE calls[c]
    BY <1>2 DEF OlympusRestart
  <2>. QED BY <1>0, <2>1 DEF Early
<1>3. ASSUME ReconcileStep \/ \E s \in SandboxIDs : KillSandbox(s) PROVE calls[c].pc \in Early
  BY <1>3, <1>a DEF ReconcileStep, ReconcileQuery, KillSandbox
<1>4. ASSUME NEW n \in Nodes, NEW r \in Receipts,
             \/ MainLoopStep(n) \/ ControlStep(n) \/ Crash(n) \/ Restart(n)
             \/ Heartbeat(n) \/ HeartbeatExpires(n) \/ ForeignEntry(n)
             \/ WaiterStep(n, r) \/ FuryStep(n, r) \/ GuestExits(n, r)
      PROVE  calls[c].pc \in Early
  BY <1>4, <1>a DEF MainLoopStep, ControlStep, Crash, Restart, Heartbeat,
     HeartbeatExpires, ForeignEntry, WaiterStep, FuryStep, GuestExits
<1>5. CASE UNCHANGED vars
  BY <1>5, <1>a DEF vars
<1>6. 1 \in Receipts
  BY DomainAssumption, SMTT(30) DEF Receipts
<1>. QED BY <1>1, <1>2, <1>3, <1>4, <1>5, <1>6 DEF Next, OperatorStep

(* The entry that a step adds, and the ones that were there. *)
LEMMA AddedEntry ==
  ASSUME IInv, NEW n \in Nodes, NEW e, stream' = [stream EXCEPT ![n] = Append(@, e)]
  PROVE  \A m \in Nodes : \A i \in Entries(m)' :
           \/ i \in Entries(m) /\ Payload(m, i)' = Payload(m, i)
           \/ m = n /\ i = Len(stream[n]) + 1 /\ Payload(m, i)' = e
<1>1. stream \in [Nodes -> Seq(SandboxIDs \cup {Poison})]
  BY DEF IInv, TypeOK, QueueTypeOK
<1>. SUFFICES ASSUME NEW m \in Nodes, NEW i \in Entries(m)'
              PROVE  \/ i \in Entries(m) /\ Payload(m, i)' = Payload(m, i)
                     \/ m = n /\ i = Len(stream[n]) + 1 /\ Payload(m, i)' = e
  OBVIOUS
<1>2. CASE m # n
  BY <1>1, <1>2 DEF Entries, Payload
<1>3. CASE m = n
  <2>1. stream'[n] = Append(stream[n], e)
    BY <1>1
  <2>2. Len(stream[n]) \in Nat /\ Len(stream'[n]) = Len(stream[n]) + 1
    BY <1>1, <2>1, SMTT(30)
  <2>3. i \in 1..(Len(stream[n]) + 1)
    BY <1>3, <2>2 DEF Entries
  <2>. QED BY <1>1, <1>3, <2>1, <2>2, <2>3, SMTT(30) DEF Entries, Payload
<1>. QED BY <1>2, <1>3

(* Every step keeps the origin of entries. *)
LEMMA OriginKept ==
  ASSUME IInv, Origin, [Next]_vars
  PROVE  Origin'
<1>. SUFFICES ASSUME NEW c \in Clients, NEW s \in SandboxIDs,
                     calls'[c].pc \in Early, calls'[c].id = s, Once(s)',
                     NEW n \in Nodes, NEW i \in Entries(n)'
              PROVE  Payload(n, i)' # s
  BY DEF Origin
<1>1. calls[c].id = s /\ Once(s) /\ calls[c].pc \in Early
  BY RequestKept, OnceKept, CallsForward DEF IdsKept
<1>2. \A m \in Nodes : \A j \in Entries(m) : Payload(m, j) # s
  BY <1>1 DEF Origin
<1>3. CASE stream' = stream
  BY <1>1, <1>2, <1>3 DEF Entries, Payload
<1>4. ASSUME NEW d \in Clients, SubmitEnqueue(d) PROVE Payload(n, i)' # s
  <2>1. /\ calls[d].node \in Nodes
        /\ calls \in [Clients -> [pc : CallState, id : SandboxIDs, node : Nodes \cup {NoNode}]]
    BY <1>4 DEF SubmitEnqueue, IInv, CallsOK, TypeOK, OlympusTypeOK
  <2>2. stream' = [stream EXCEPT ![calls[d].node] = Append(@, calls[d].id)]
    BY <1>4 DEF SubmitEnqueue, Enqueue
  <2>3. calls'[d].pc = "accepted"
    BY <1>4, <2>1 DEF SubmitEnqueue, Goto
  <2>4. c # d
    BY <2>3 DEF Early
  <2>5. calls[d].id # calls[c].id
    BY <1>1, <2>4 DEF Once
  <2>6. (i \in Entries(n) /\ Payload(n, i)' = Payload(n, i)) \/ Payload(n, i)' = calls[d].id
    BY <2>1, <2>2, AddedEntry
  <2>. QED BY <1>1, <1>2, <2>5, <2>6
<1>5. ASSUME NEW m \in Nodes, EnqueuePoison(m) PROVE Payload(n, i)' # s
  <2>1. stream' = [stream EXCEPT ![m] = Append(@, Poison)]
    BY <1>5 DEF EnqueuePoison, Enqueue
  <2>2. (i \in Entries(n) /\ Payload(n, i)' = Payload(n, i)) \/ Payload(n, i)' = Poison
    BY <2>1, AddedEntry
  <2>. QED BY <1>2, <2>2, AcheronAssumption
<1>6. ASSUME NEW m \in Nodes, HandsBack(m) PROVE Payload(n, i)' # s
  <2>1. stream' = [stream EXCEPT ![m] = Append(@, Payload(m, job[m].r))]
    BY <1>6 DEF HandsBack, Nack, Payload
  <2>2. PICK e : e = Payload(m, job[m].r)
    OBVIOUS
  <2>4. (i \in Entries(n) /\ Payload(n, i)' = Payload(n, i)) \/ Payload(n, i)' = e
    BY <2>1, <2>2, AddedEntry
  <2>3. job[m].r \in Jobs(m)
    BY <1>6, BusyJob DEF HandsBack
  <2>. QED BY <1>2, <2>2, <2>3, <2>4, JobsDelivered
<1>. QED BY <1>1, <1>3, <1>4, <1>5, <1>6, StreamSteps

(* Every step keeps one live entry. *)
LEMMA OneLiveKept ==
  ASSUME IInv, LaunchOK, Origin, OneLive, [Next]_vars
  PROVE  OneLive'
<1>. DEFINE Old(n, i) == i \in Entries(n) /\ Payload(n, i)' = Payload(n, i)
<1>a. ASSUME NEW n \in Nodes, NEW m \in Nodes, NEW q \in Receipts, NEW r \in Receipts,
             Live(n, q)', Live(m, r)', Sole(n, q)', Payload(n, q)' = Payload(m, r)',
             Old(n, q), Old(m, r)
      PROVE  n = m /\ q = r
  <2>1. Live(n, q) /\ Live(m, r)
    BY <1>a, HeldShrinks DEF Live
  <2>2. Sole(n, q) /\ Payload(n, q) = Payload(m, r)
    BY <1>a, OnceKept DEF Sole
  <2>. QED BY <2>1, <2>2 DEF OneLive
<1>. SUFFICES ASSUME NEW n \in Nodes, NEW m \in Nodes, NEW q \in Receipts, NEW r \in Receipts,
                     Live(n, q)', Live(m, r)', Sole(n, q)', Payload(n, q)' = Payload(m, r)'
              PROVE  n = m /\ q = r
  BY DEF OneLive
<1>0. q \in Entries(n)' /\ r \in Entries(m)'
  BY DEF Live
<1>1. CASE stream' = stream
  BY <1>0, <1>1, <1>a DEF Entries, Payload
<1>2. ASSUME NEW k \in Nodes, NEW e, stream' = [stream EXCEPT ![k] = Append(@, e)],
             Payload(n, q)' = e =>
               \A j \in Nodes : \A i \in Receipts :
                 i \in Entries(j) /\ Payload(j, i) = e => ~Live(j, i)'
      PROVE  n = m /\ q = r
  <2>1. Old(n, q) \/ (n = k /\ q = Len(stream[k]) + 1 /\ Payload(n, q)' = e)
    BY <1>0, <1>2, AddedEntry
  <2>2. Old(m, r) \/ (m = k /\ r = Len(stream[k]) + 1 /\ Payload(m, r)' = e)
    BY <1>0, <1>2, AddedEntry
  <2>3. CASE Old(n, q) /\ Old(m, r)
    BY <1>a, <2>3
  <2>4. CASE ~Old(n, q) /\ Old(m, r)
    BY <1>2, <2>1, <2>4
  <2>5. CASE Old(n, q) /\ ~Old(m, r)
    BY <1>2, <2>2, <2>5
  <2>6. CASE ~Old(n, q) /\ ~Old(m, r)
    BY <2>1, <2>2, <2>6
  <2>. QED BY <2>3, <2>4, <2>5, <2>6
<1>3. ASSUME NEW c \in Clients, SubmitEnqueue(c) PROVE n = m /\ q = r
  <2>1. calls[c].node \in Nodes /\ calls[c].pc \in Early
    BY <1>3 DEF SubmitEnqueue, IInv, CallsOK, Early
  <2>2. stream' = [stream EXCEPT ![calls[c].node] = Append(@, calls[c].id)]
    BY <1>3 DEF SubmitEnqueue, Enqueue
  <2>3. PICK s \in SandboxIDs : s = calls[c].id
    BY DEF IInv, TypeOK, OlympusTypeOK
  <2>4. Payload(n, q)' = s => Once(s)
    BY OnceKept DEF Sole
  <2>5. Payload(n, q)' = s => \A j \in Nodes : \A i \in Entries(j) : Payload(j, i) # s
    BY <2>1, <2>3, <2>4 DEF Origin
  <2>. QED BY <1>2, <2>1, <2>2, <2>3, <2>5
<1>4. ASSUME NEW k \in Nodes, EnqueuePoison(k) PROVE n = m /\ q = r
  <2>1. stream' = [stream EXCEPT ![k] = Append(@, Poison)]
    BY <1>4 DEF EnqueuePoison, Enqueue
  <2>2. Payload(n, q)' # Poison
    BY AcheronAssumption DEF Sole
  <2>. QED BY <1>2, <2>1, <2>2
<1>5. ASSUME NEW k \in Nodes, HandsBack(k) PROVE n = m /\ q = r
  <2>1. PICK h \in Receipts, e \in SandboxIDs :
          h = job[k].r /\ e = Payload(k, h) /\ h \in Jobs(k)
    BY <1>5, BusyJob DEF HandsBack, JobID
  <2>2. stream' = [stream EXCEPT ![k] = Append(@, e)]
    BY <1>5, <2>1 DEF HandsBack, Nack, Payload
  <2>3. Live(k, h)
    BY <2>1, JobsDelivered DEF Live, Held
  <2>4. ~Held(k, h)'
    <3>1. ~(h > lastDelivered'[k])
      BY <1>5, <2>1, JobsDelivered DEF HandsBack, Nack
    <3>2. job'[k].r # h
      <4>1. job'[k] = Idle
        BY <1>5, AgentTyped, ToIdle DEF HandsBack
      <4>. QED BY <4>1, IdleFact, ReceiptFact
    <3>3. waiter'[k][h] = "none"
      BY <1>5, <2>1 DEF HandsBack, IInv, HandledEntryPending
    <3>4. ~Launched(k, h) /\ proc' = proc
      BY <1>5, <2>1 DEF HandsBack, LaunchOK, HoldsLaunch
    <3>. QED BY <3>1, <3>2, <3>3, <3>4 DEF Held, Launched
  <2>5. ASSUME Payload(n, q)' = e, NEW j \in Nodes, NEW i \in Receipts,
               i \in Entries(j), Payload(j, i) = e, Live(j, i)'
        PROVE  FALSE
    <3>1. Live(j, i)
      BY <2>5, HeldShrinks DEF Live
    <3>2. Once(e)
      BY <2>5, OnceKept DEF Sole
    <3>3. Sole(k, h)
      BY <2>1, <2>3, <3>2 DEF Sole, Live
    <3>4. j = k /\ i = h
      BY <2>1, <2>3, <2>5, <3>1, <3>3 DEF OneLive
    <3>. QED BY <2>4, <2>5, <3>4 DEF Live
  <2>. QED BY <1>2, <2>2, <2>5
<1>. QED BY <1>1, <1>3, <1>4, <1>5, StreamSteps

(* At first there are no entries. *)
LEMMA LineageInit == ASSUME Init PROVE LineageInv
<1>1. ASSUME NEW n \in Nodes, NEW i \in Entries(n) PROVE FALSE
  <2>1. Len(stream[n]) = 0
    BY DEF Init, QueueInit
  <2>. QED BY <2>1, SMTT(30) DEF Entries
<1>. QED BY <1>1 DEF LineageInv, Origin, OneLive, Live

(* LineageInv is an invariant, inductive relative to the ones before it. *)
LEMMA LineageInvariant == Spec => [](IInv /\ LaunchInv /\ LineageInv)
<1>1. IInv /\ LaunchInv /\ LineageInv /\ [Next]_vars => LineageInv'
  BY OriginKept, OneLiveKept DEF LineageInv, LaunchInv
<1>. QED BY <1>1, LineageInit, LaunchInvariant, PTL DEF Spec

(* A sandbox that was submitted once runs at most once at any time, over   *)
(* all nodes: a job handed back by Nack, or left pending by a crash, is    *)
(* never launched beside another launch of it.                             *)
THEOREM OneVMPerSandbox == Spec => []AtMostOneVM
<1>1. IInv /\ LaunchInv /\ LineageInv => AtMostOneVM
  <2>. SUFFICES ASSUME IInv, LaunchInv, LineageInv,
                       NEW n \in Nodes, NEW m \in Nodes, NEW q \in Receipts, NEW r \in Receipts,
                       Runs(n, q), Runs(m, r),
                       SubmittedOnce(n, q), SubmittedOnce(m, r), Payload(n, q) = Payload(m, r)
                PROVE  n = m /\ q = r
    BY DEF AtMostOneVM
  <2>1. Launched(n, q) /\ Launched(m, r)
    BY DEF Launched, Runs
  <2>2. q \in Jobs(n) /\ q \in Entries(n) /\ r \in Entries(m)
    BY <2>1 DEF LaunchInv, LaunchOK, SubmittedOnce
  <2>3. Payload(n, q) \in SandboxIDs
    BY <2>2 DEF Jobs, Payload
  <2>. QED BY <2>1, <2>2, <2>3 DEF LineageInv, OneLive, Live, Held, Sole, Once, SubmittedOnce
<1>. QED BY <1>1, LineageInvariant, PTL

-----------------------------------------------------------------------------
(* How a step moves the goroutines that work on an entry.                  *)

(* An entry that only one request ever leads to. *)
Lone(n, r) == Live(n, r) /\ Sole(n, r)

(* The step of a waiter: from where, to where, and what it has seen. *)
WaiterMoves(n, r) ==
  \/ waiter'[n][r] = waiter[n][r] /\ awaited'[n][r] = awaited[n][r]
  \/ job[n].r = r /\ job[n].pc = "arm" /\ waiter'[n][r] = "start"
  \/ /\ waiter[n][r] = "start"
     /\ awaited'[n][r] = vms[n][Payload(n, r)]
     /\ waiter'[n][r] = IF vms[n][Payload(n, r)] # 0 THEN "waiting" ELSE "disarm"
  \/ /\ waiter[n][r] = "waiting" /\ waiter'[n][r] = "disarm"
     /\ proc[n][awaited[n][r]] \in {"ok", "error"} /\ awaited[n][r] \in exitCode'[n]
  \/ <<waiter[n][r], waiter'[n][r]>> \in
        {<<"disarm", "report">>, <<"report", "detach">>, <<"detach", "destroy">>,
         <<"destroy", "ack">>, <<"ack", "none">>}

(* The step of the main loop; with a failure it becomes idle. *)
JobMoves(n) ==
  \/ job'[n] = job[n]
  \/ job[n].r = 0 /\ job'[n].r > lastDelivered[n] /\ job'[n].pc = "stage"
  \/ job'[n] = Idle /\ job[n].pc \in {"stage", "attach", "launch"}
  \/ job'[n] = Idle /\ job[n].pc = "arm" /\ waiter'[n][job[n].r] = "start"
  \/ /\ job'[n].r = job[n].r
     /\ \/ <<job[n].pc, job'[n].pc>> \in {<<"launch", "report">>, <<"report", "arm">>}
        \/ job[n].pc = "stage" /\ job'[n].pc = "attach" /\ job[n].r \in overlays'[n]
        \/ /\ job[n].pc = "attach" /\ job'[n].pc \in {"secrets", "launch"}
           /\ JobID(n) \in attached'[n]

(* What a step that is not a crash of n does there. *)
Work(n) ==
  /\ JobMoves(n)
  /\ \A r \in Receipts : WaiterMoves(n, r)
  /\ exitCode[n] \subseteq exitCode'[n]
  /\ finished'[n] \subseteq finished[n] \cup {r \in Receipts : waiter[n][r] = "ack" /\ r \notin pel'[n]}

WorkTypes ==
  /\ AgentTypes
  /\ awaited \in [Nodes -> [Receipts -> Receipts \cup {0}]]
  /\ exitCode \in [Nodes -> SUBSET Receipts]
  /\ overlays \in [Nodes -> SUBSET Receipts]
  /\ leaked \in [Nodes -> SUBSET Receipts]
  /\ attached \in [Nodes -> SUBSET SandboxIDs]
  /\ pel \in [Nodes -> SUBSET Receipts]

LEMMA WorkTyped == ASSUME IInv PROVE WorkTypes
  BY AgentTyped DEF IInv, TypeOK, AgentTypeOK, RuntimeTypeOK, LetheTypeOK, StyxTypeOK,
     QueueTypeOK, WorkTypes

(* Where nothing of the agent moves. *)
LEMMA WorkUnchanged ==
  ASSUME UNCHANGED <<job, waiter, awaited, finished, exitCode>>
  PROVE  \A n \in Nodes : Work(n)
  BY DEF Work, JobMoves, WaiterMoves

(* A step of the main loop of n. *)
LEMMA MainLoopWorks ==
  ASSUME IInv, NEW n \in Nodes, MainLoopStep(n)
  PROVE  \A m \in Nodes : Work(m)
<1>0. WorkTypes /\ AgentTypes
  BY WorkTyped, AgentTyped
<1>1. UNCHANGED <<awaited, finished, exitCode>>
  BY DEF MainLoopStep, Dequeue, DequeuePoison, Stage, StageFails, AttachNetwork,
     AttachNetworkFails, LaunchVM, LaunchVMFails, ReportRunning, ArmAndWait, Launch
<1>2. ASSUME JobMoves(n), \A m \in Nodes : m # n => job'[m] = job[m],
             \A m \in Nodes, q \in Receipts :
               waiter'[m][q] = waiter[m][q] \/
               (m = n /\ job[m].r = q /\ job[m].pc = "arm" /\ waiter'[m][q] = "start")
      PROVE  \A m \in Nodes : Work(m)
  <2>. SUFFICES ASSUME NEW m \in Nodes PROVE JobMoves(m) /\ \A q \in Receipts : WaiterMoves(m, q)
    BY <1>1 DEF Work
  <2>1. JobMoves(m)
    BY <1>2 DEF JobMoves
  <2>2. ASSUME NEW q \in Receipts PROVE WaiterMoves(m, q)
    <3>1. \/ waiter'[m][q] = waiter[m][q]
          \/ job[m].r = q /\ job[m].pc = "arm" /\ waiter'[m][q] = "start"
      BY <1>2
    <3>2. awaited'[m][q] = awaited[m][q]
      BY <1>1
    <3>. QED BY <3>1, <3>2 DEF WaiterMoves
  <2>. QED BY <2>1, <2>2
<1>3. CASE Dequeue(n)
  <2>1. waiter' = waiter /\ job[n].r = 0
    BY <1>3 DEF Dequeue, At, IInv, HoldersOK
  <2>2. /\ \A m \in Nodes : m # n => job'[m] = job[m]
        /\ job'[n].r = lastDelivered[n] + 1 /\ job'[n].pc = "stage"
    BY <1>0, <1>3 DEF Dequeue, AgentTypes
  <2>3. lastDelivered[n] + 1 > lastDelivered[n]
    BY <1>0, SMTT(30) DEF AgentTypes
  <2>4. JobMoves(n)
    BY <2>1, <2>2, <2>3 DEF JobMoves
  <2>. QED BY <1>2, <2>1, <2>2, <2>4
<1>4. CASE DequeuePoison(n)
  BY <1>1, <1>4, WorkUnchanged DEF DequeuePoison
<1>5. CASE StageFails(n) \/ AttachNetworkFails(n) \/ LaunchVMFails(n)
  <2>1. waiter' = waiter /\ job[n].pc \in {"stage", "attach", "launch"}
    BY <1>5 DEF StageFails, AttachNetworkFails, LaunchVMFails, At
  <2>2. \A m \in Nodes : job'[m] = IF m = n THEN Idle ELSE job[m]
    BY <1>0, <1>5, ToIdle DEF StageFails, AttachNetworkFails, LaunchVMFails
  <2>3. JobMoves(n)
    BY <2>1, <2>2 DEF JobMoves
  <2>. QED BY <1>2, <2>1, <2>2, <2>3
<1>6. ASSUME NEW pc, JobGoto(n, pc), waiter' = waiter,
             \/ <<job[n].pc, pc>> \in {<<"launch", "report">>, <<"report", "arm">>}
             \/ job[n].pc = "stage" /\ pc = "attach" /\ job[n].r \in overlays'[n]
             \/ /\ job[n].pc = "attach" /\ pc \in {"secrets", "launch"}
                /\ JobID(n) \in attached'[n]
      PROVE  \A m \in Nodes : Work(m)
  <2>1. \A m \in Nodes : m # n => job'[m] = job[m]
    BY <1>0, <1>6 DEF JobGoto, AgentTypes
  <2>2. job'[n].r = job[n].r /\ job'[n].pc = pc
    BY <1>0, <1>6, ToStep
  <2>3. JobMoves(n)
    BY <1>6, <2>2 DEF JobMoves
  <2>. QED BY <1>2, <1>6, <2>1, <2>3
<1>7. CASE Stage(n)
  <2>1. job[n].r \in overlays'[n] /\ job[n].pc = "stage"
    BY <1>0, <1>7 DEF Stage, At, CreateOverlay, WorkTypes
  <2>. QED BY <1>6, <1>7, <2>1 DEF Stage
<1>8. CASE AttachNetwork(n)
  <2>1. JobID(n) \in attached'[n] /\ job[n].pc = "attach"
    BY <1>0, <1>8 DEF AttachNetwork, At, Attach, WorkTypes
  <2>2. PICK pc \in {"secrets", "launch"} : JobGoto(n, pc)
    BY <1>8 DEF AttachNetwork
  <2>. QED BY <1>6, <1>8, <2>1, <2>2 DEF AttachNetwork
<1>9. CASE LaunchVM(n)
  BY <1>6, <1>9 DEF LaunchVM, At
<1>10. CASE ReportRunning(n)
  BY <1>6, <1>10 DEF ReportRunning, At
<1>11. CASE ArmAndWait(n)
  <2>1. job[n].pc = "arm" /\ job[n].r \in Receipts
    BY <1>11, BusyJob DEF ArmAndWait, At
  <2>2. \A m \in Nodes : job'[m] = IF m = n THEN Idle ELSE job[m]
    BY <1>0, <1>11, ToIdle DEF ArmAndWait
  <2>3. \A m \in Nodes, q \in Receipts :
          waiter'[m][q] = IF m = n /\ q = job[n].r THEN "start" ELSE waiter[m][q]
    <3>1. WaiterGoto(n, job[n].r, "start")
      BY <1>11 DEF ArmAndWait, WaiterGoto
    <3>2. WaitsAt(n, job[n].r, "start")
      BY <1>0, <2>1, <3>1, ToWait
    <3>. QED BY <3>2 DEF WaitsAt
  <2>4. JobMoves(n)
    BY <2>1, <2>2, <2>3 DEF JobMoves
  <2>5. \A m \in Nodes, q \in Receipts :
          waiter'[m][q] = waiter[m][q] \/
          (m = n /\ job[m].r = q /\ job[m].pc = "arm" /\ waiter'[m][q] = "start")
    BY <2>1, <2>3
  <2>. QED BY <1>2, <2>2, <2>4, <2>5
<1>. QED BY <1>3, <1>4, <1>5, <1>7, <1>8, <1>9, <1>10, <1>11 DEF MainLoopStep

(* A step of the waiter of entry r of n. *)
LEMMA WaiterWorks ==
  ASSUME IInv, NEW n \in Nodes, NEW r \in Receipts, WaiterStep(n, r)
  PROVE  \A m \in Nodes : Work(m)
<1>0. WorkTypes /\ AgentTypes
  BY WorkTyped, AgentTyped
<1>1. UNCHANGED job
  BY DEF WaiterStep, WaiterLoad, WaiterWait, WaiterDisarm, WaiterReport, WaiterDetach,
     WaiterDestroy, WaiterAck
<1>2. ASSUME NEW pc, WaiterGoto(n, r, pc),
             \A m \in Nodes, q \in Receipts : ~(m = n /\ q = r) => awaited'[m][q] = awaited[m][q],
             WaiterMoves(n, r),
             \A m \in Nodes : exitCode[m] \subseteq exitCode'[m],
             \A m \in Nodes : finished'[m] \subseteq
               finished[m] \cup {q \in Receipts : waiter[m][q] = "ack" /\ q \notin pel'[m]}
      PROVE  \A m \in Nodes : Work(m)
  <2>. SUFFICES ASSUME NEW m \in Nodes, NEW q \in Receipts PROVE WaiterMoves(m, q)
    BY <1>1, <1>2 DEF Work, JobMoves
  <2>1. waiter'[m][q] = IF m = n /\ q = r THEN pc ELSE waiter[m][q]
    <3>1. WaiterGoto(n, r, pc)
      BY <1>2
    <3>2. WaitsAt(n, r, pc)
      BY <1>0, <3>1, ToWait
    <3>. QED BY <3>2 DEF WaitsAt
  <2>2. CASE m = n /\ q = r
    BY <1>2, <2>2
  <2>3. CASE ~(m = n /\ q = r)
    <3>1. waiter'[m][q] = waiter[m][q] /\ awaited'[m][q] = awaited[m][q]
      BY <1>2, <2>1, <2>3
    <3>. QED BY <3>1 DEF WaiterMoves
  <2>. QED BY <2>2, <2>3
<1>a. UNCHANGED finished => \A m \in Nodes : finished'[m] \subseteq
        finished[m] \cup {q \in Receipts : waiter[m][q] = "ack" /\ q \notin pel'[m]}
  OBVIOUS
<1>b. UNCHANGED exitCode => \A m \in Nodes : exitCode[m] \subseteq exitCode'[m]
  OBVIOUS
<1>c. ASSUME NEW pc, WaiterGoto(n, r, pc) PROVE waiter'[n][r] = pc
  BY <1>0, <1>c, ToWait, WaitsThere
<1>3. CASE WaiterLoad(n, r)
  <2>1. PICK pc : pc = (IF Known(n, Payload(n, r)) THEN "waiting" ELSE "disarm")
                  /\ WaiterGoto(n, r, pc)
    BY <1>3 DEF WaiterLoad
  <2>2. /\ waiter[n][r] = "start" /\ UNCHANGED <<finished, exitCode>>
        /\ \A m \in Nodes, q \in Receipts :
             awaited'[m][q] = IF m = n /\ q = r THEN vms[n][Payload(n, r)] ELSE awaited[m][q]
    BY <1>0, <1>3 DEF WaiterLoad, WaiterAt, WorkTypes
  <2>3. waiter'[n][r] = IF vms[n][Payload(n, r)] # 0 THEN "waiting" ELSE "disarm"
    BY <1>c, <2>1 DEF Known
  <2>4. awaited'[n][r] = vms[n][Payload(n, r)]
    BY <2>2
  <2>5. WaiterMoves(n, r)
    BY <2>2, <2>3, <2>4 DEF WaiterMoves
  <2>6. \A m \in Nodes, q \in Receipts : ~(m = n /\ q = r) => awaited'[m][q] = awaited[m][q]
    BY <2>2
  <2>. QED BY <1>2, <1>a, <1>b, <2>1, <2>2, <2>5, <2>6
<1>4. CASE WaiterWait(n, r)
  <2>1. /\ waiter[n][r] = "waiting" /\ UNCHANGED <<finished, awaited>>
        /\ WaiterGoto(n, r, "disarm") /\ WaitReturns(n, awaited[n][r])
    BY <1>4 DEF WaiterWait, WaiterAt
  <2>2. /\ proc[n][awaited[n][r]] \in {"ok", "error"} /\ awaited[n][r] \in exitCode'[n]
        /\ \A m \in Nodes : exitCode[m] \subseteq exitCode'[m]
    BY <1>0, <2>1 DEF WaitReturns, WorkTypes
  <2>3. WaiterMoves(n, r)
    BY <1>c, <2>1, <2>2 DEF WaiterMoves
  <2>. QED BY <1>2, <1>a, <2>1, <2>2, <2>3
<1>5. CASE WaiterDisarm(n, r) \/ WaiterReport(n, r) \/ WaiterDetach(n, r) \/ WaiterDestroy(n, r)
  <2>1. UNCHANGED <<finished, awaited, exitCode>>
    BY <1>5 DEF WaiterDisarm, WaiterReport, WaiterDetach, WaiterDestroy
  <2>2. PICK pc : WaiterGoto(n, r, pc) /\ <<waiter[n][r], pc>> \in
          {<<"disarm", "report">>, <<"report", "detach">>, <<"detach", "destroy">>,
           <<"destroy", "ack">>}
    BY <1>5 DEF WaiterDisarm, WaiterReport, WaiterDetach, WaiterDestroy, WaiterAt
  <2>3. WaiterMoves(n, r)
    BY <1>c, <2>2 DEF WaiterMoves
  <2>. QED BY <1>2, <1>a, <1>b, <2>1, <2>2, <2>3
<1>6. CASE WaiterAck(n, r)
  <2>1. /\ waiter[n][r] = "ack" /\ UNCHANGED exitCode /\ WaiterGoto(n, r, "none")
        /\ awaited' = [awaited EXCEPT ![n][r] = 0]
    BY <1>6 DEF WaiterAck, WaiterAt
  <2>2. \A m \in Nodes, q \in Receipts : ~(m = n /\ q = r) => awaited'[m][q] = awaited[m][q]
    BY <1>0, <2>1 DEF WorkTypes
  <2>3. WaiterMoves(n, r)
    BY <1>c, <2>1 DEF WaiterMoves
  <2>4. PICK ok \in BOOLEAN : /\ IF ok THEN Ack(n, r) ELSE UNCHANGED queueVars
                              /\ finished' = [finished EXCEPT ![n] = IF ok THEN @ \cup {r} ELSE @]
    BY <1>6 DEF WaiterAck
  <2>5. \A m \in Nodes : finished'[m] \subseteq
          finished[m] \cup {q \in Receipts : waiter[m][q] = "ack" /\ q \notin pel'[m]}
    <3>1. CASE ok
      <4>1. r \notin pel'[n]
        BY <1>0, <2>4, <3>1 DEF Ack, WorkTypes
      <4>2. \A m \in Nodes : finished'[m] = IF m = n THEN finished[m] \cup {r} ELSE finished[m]
        BY <1>0, <2>4, <3>1 DEF AgentTypes
      <4>. QED BY <2>1, <4>1, <4>2
    <3>2. CASE ~ok
      <4>1. \A m \in Nodes : finished'[m] = finished[m]
        BY <1>0, <2>4, <3>2 DEF AgentTypes
      <4>. QED BY <4>1
    <3>. QED BY <3>1, <3>2
  <2>. QED BY <1>2, <1>b, <2>1, <2>2, <2>3, <2>5
<1>. QED BY <1>3, <1>4, <1>5, <1>6 DEF WaiterStep

(* Every step that is not a crash of n works there this way. *)
LEMMA WorkSteps ==
  ASSUME IInv, [Next]_vars, NEW n \in Nodes
  PROVE  Work(n) \/ Crash(n)
<1>0. WorkTypes
  BY WorkTyped
<1>1. ASSUME NEW c \in Clients, SubmitStep(c) PROVE Work(n)
  BY <1>1, WorkUnchanged DEF SubmitStep, SubmitRejected, SubmitPersist,
     SubmitUnschedulable, SubmitSchedule, SubmitEnqueue, SubmitEnqueueFails
<1>2. ASSUME ReconcileStep \/ OperatorStep PROVE Work(n)
  BY <1>2, WorkUnchanged DEF ReconcileStep, ReconcileQuery, OperatorStep, KillSandbox,
     OlympusRestart
<1>3. ASSUME NEW m \in Nodes, MainLoopStep(m) PROVE Work(n)
  BY <1>3, MainLoopWorks
<1>4. ASSUME NEW m \in Nodes, NEW r \in Receipts, WaiterStep(m, r) PROVE Work(n)
  BY <1>4, WaiterWorks
<1>5. ASSUME NEW m \in Nodes, Crash(m) PROVE Work(n) \/ Crash(n)
  <2>1. CASE m = n
    BY <1>5, <2>1
  <2>2. CASE m # n
    <3>1. /\ job'[n] = job[n] /\ finished'[n] = finished[n] /\ exitCode'[n] = exitCode[n]
          /\ waiter'[n] = waiter[n] /\ awaited'[n] = awaited[n]
      BY <1>0, <1>5, <2>2 DEF Crash, AgentCrash, WorkTypes, AgentTypes
    <3>. QED BY <3>1 DEF Work, JobMoves, WaiterMoves
  <2>. QED BY <2>1, <2>2
<1>6. ASSUME NEW m \in Nodes, NEW r \in Receipts,
             \/ FuryStep(m, r) \/ GuestExits(m, r) \/ ControlStep(m) \/ Restart(m)
             \/ Heartbeat(m) \/ HeartbeatExpires(m) \/ ForeignEntry(m)
      PROVE  Work(n)
  BY <1>6, WorkUnchanged DEF FuryStep, FuryCheck, FuryStop, FuryDelete, FuryUnwatch,
     GuestExits, VMExit, ControlStep, ControlKill, ControlDelete, StopVMM, DeleteVM, Restart,
     AgentRestart, Heartbeat, HeartbeatExpires, ForeignEntry
<1>7. CASE UNCHANGED vars
  BY <1>7, WorkUnchanged DEF vars
<1>8. 1 \in Receipts
  BY DomainAssumption, SMTT(30) DEF Receipts
<1>. QED BY <1>1, <1>2, <1>3, <1>4, <1>5, <1>6, <1>7, <1>8 DEF Next

(* What is left of an agent that crashed. *)
LEMMA CrashEffect ==
  ASSUME IInv, NEW n \in Nodes, Crash(n)
  PROVE  /\ job'[n] = Idle /\ \A r \in Receipts : waiter'[n][r] = "none"
         /\ \A s \in SandboxIDs : vms'[n][s] = 0
         /\ watching'[n] = {} /\ overlays'[n] = overlays[n]
         /\ leaked'[n] = leaked[n] \cup overlays[n]
         /\ UNCHANGED <<queueVars, hadesVars, proc, finished>>
<1>0. WorkTypes /\ AgentTypes
  BY WorkTyped, AgentTyped
<1>1. vms \in [Nodes -> [SandboxIDs -> Receipts \cup {0}]]
  BY DEF IInv, TypeOK, RuntimeTypeOK
<1>2. job'[n] = Idle
  BY <1>0, ToIdle DEF Crash, AgentCrash
<1>3. \A r \in Receipts : waiter'[n][r] = "none"
  BY <1>0 DEF Crash, AgentCrash, AgentTypes
<1>4. \A s \in SandboxIDs : vms'[n][s] = 0
  BY <1>1 DEF Crash, AgentCrash
<1>5. watching'[n] = {}
  BY <1>0 DEF Crash, AgentCrash, AgentTypes
<1>6. overlays'[n] = overlays[n] /\ leaked'[n] = leaked[n] \cup overlays[n]
  BY <1>0 DEF Crash, AgentCrash, AbandonOverlays, WorkTypes
<1>7. UNCHANGED <<queueVars, hadesVars, proc, finished>>
  BY DEF Crash, AgentCrash
<1>. QED BY <1>2, <1>3, <1>4, <1>5, <1>6, <1>7

LEMMA CrashClears ==
  ASSUME IInv, NEW n \in Nodes, Crash(n), NEW r \in Receipts
  PROVE  job'[n].r # r /\ waiter'[n][r] = "none"
<1>1. job'[n] = Idle /\ waiter'[n][r] = "none"
  BY CrashEffect
<1>. QED BY <1>1, IdleFact, ReceiptFact

LEMMA CrashMap ==
  ASSUME IInv, NEW n \in Nodes, Crash(n), NEW s \in SandboxIDs
  PROVE  vms'[n][s] = 0 /\ proc' = proc /\ finished' = finished
  BY CrashEffect, SMTT(30)

(* The runtime forgets a VM when its agent crashes or a Kill deletes it. *)
LEMMA MapDrops ==
  ASSUME IInv, [Next]_vars, NEW n \in Nodes, NEW s \in SandboxIDs,
         vms[n][s] # 0, vms'[n][s] # vms[n][s]
  PROVE  \/ Crash(n)
         \/ \E k \in Killers : killer[n][k] = "delete" /\ Target(n, k) = s
         \/ LaunchVM(n)
<1>0. vms \in [Nodes -> [SandboxIDs -> Receipts \cup {0}]]
  BY DEF IInv, TypeOK, RuntimeTypeOK
<1>1. ASSUME NEW c \in Clients, SubmitStep(c) PROVE vms' = vms
  BY <1>1 DEF SubmitStep, SubmitRejected, SubmitPersist, SubmitUnschedulable,
     SubmitSchedule, SubmitEnqueue, SubmitEnqueueFails
<1>2. ASSUME ReconcileStep \/ OperatorStep PROVE vms' = vms
  BY <1>2 DEF ReconcileStep, ReconcileQuery, OperatorStep, KillSandbox, OlympusRestart
<1>3. ASSUME NEW m \in Nodes, MainLoopStep(m) PROVE vms' = vms \/ LaunchVM(n)
  <2>1. vms' = vms \/ LaunchVM(m)
    BY <1>3 DEF MainLoopStep, Dequeue, DequeuePoison, Stage, StageFails,
       AttachNetwork, AttachNetworkFails, LaunchVMFails, ReportRunning, ArmAndWait
  <2>2. m # n /\ LaunchVM(m) => vms'[n][s] = vms[n][s]
    BY LaunchMap
  <2>. QED BY <2>1, <2>2
<1>4. ASSUME NEW m \in Nodes, NEW r \in Receipts, WaiterStep(m, r) PROVE vms' = vms
  BY <1>4 DEF WaiterStep, WaiterLoad, WaiterWait, WaitReturns, WaiterDisarm,
     WaiterReport, WaiterDetach, WaiterDestroy, WaiterAck
<1>a. ASSUME NEW m \in Nodes, NEW t, DeleteVM(m, t) PROVE n = m /\ s = t
  BY <1>0, <1>a DEF DeleteVM
<1>5. ASSUME NEW m \in Nodes, NEW r \in Receipts, FuryStep(m, r)
      PROVE  vms' = vms \/ (killer[n][r] = "delete" /\ Target(n, r) = s /\ r \in Killers)
  <2>1. vms' = vms \/ (killer[m][r] = "delete" /\ DeleteVM(m, Payload(m, r)))
    BY <1>5 DEF FuryStep, FuryCheck, FuryStop, FuryDelete, FuryUnwatch, StopVMM
  <2>. QED BY <1>a, <2>1, KillersFact, SMTT(30) DEF Target
<1>6. ASSUME NEW m \in Nodes, ControlStep(m)
      PROVE  vms' = vms \/ (killer[n][0] = "delete" /\ Target(n, 0) = s /\ 0 \in Killers)
  <2>1. vms' = vms \/ (killer[m][0] = "delete" /\ DeleteVM(m, Head(control[m])))
    BY <1>6 DEF ControlStep, ControlKill, ControlDelete, StopVMM
  <2>. QED BY <1>a, <2>1, KillersFact, SMTT(30) DEF Target
<1>7. ASSUME NEW m \in Nodes, Crash(m) PROVE vms'[n][s] = vms[n][s] \/ Crash(n)
  BY <1>0, <1>7 DEF Crash, AgentCrash
<1>8. ASSUME NEW m \in Nodes, NEW r \in Receipts,
             \/ GuestExits(m, r) \/ Restart(m) \/ Heartbeat(m) \/ HeartbeatExpires(m)
             \/ ForeignEntry(m)
      PROVE  vms' = vms
  BY <1>8 DEF GuestExits, VMExit, Restart, AgentRestart, Heartbeat, HeartbeatExpires,
     ForeignEntry
<1>9. 1 \in Receipts
  BY DomainAssumption, SMTT(30) DEF Receipts
<1>. QED BY <1>1, <1>2, <1>3, <1>4, <1>5, <1>6, <1>7, <1>8, <1>9 DEF Next, vars

-----------------------------------------------------------------------------
(* The one live entry of a sandbox.                                        *)

Before == IInv /\ LaunchInv /\ LineageInv

(* Entries of the same sandbox that are live are the same entry. *)
LEMMA OnlyOne ==
  ASSUME Before, NEW n \in Nodes, NEW m \in Nodes, NEW q \in Receipts, NEW r \in Receipts,
         Lone(n, q), Live(m, r), Payload(m, r) = Payload(n, q)
  PROVE  m = n /\ r = q
  BY DEF Before, LineageInv, OneLive, Lone

(* What was launched, or is held by a goroutine, is live. *)
LEMMA HoldersLive ==
  ASSUME Before, NEW n \in Nodes, NEW r \in Receipts,
         Launched(n, r) \/ job[n].r = r \/ waiter[n][r] # "none" \/ r \in finished[n]
           \/ r \in watching[n]
  PROVE  Live(n, r) /\ r \in Jobs(n) /\ ~(r > lastDelivered[n])
<1>1. r \in Jobs(n) /\ (Launched(n, r) \/ job[n].r = r \/ waiter[n][r] # "none")
  BY ReceiptFact DEF Before, IInv, LaunchInv, LaunchOK, HoldersOK
<1>2. IInv
  BY DEF Before
<1>. QED BY <1>1, <1>2, JobsDelivered DEF Live, Held

Holding ==
  \A n \in Nodes, r \in Receipts :
    Launched(n, r) \/ job[n].r = r \/ waiter[n][r] # "none" \/ r \in finished[n]
      \/ r \in watching[n]
    => Live(n, r) /\ r \in Jobs(n) /\ ~(r > lastDelivered[n])

LEMMA HoldingAlways == Before => Holding
  BY HoldersLive DEF Holding

(* The map of the runtime holds the one live entry of a sandbox, or none. *)
LEMMA SoleMap ==
  ASSUME Before, NEW n \in Nodes, NEW r \in Receipts, Lone(n, r)
  PROVE  Payload(n, r) \in SandboxIDs /\ vms[n][Payload(n, r)] \in {0, r}
<1>. DEFINE s == Payload(n, r)
<1>1. s \in SandboxIDs
  BY DEF Lone, Sole
<1>2. ASSUME vms[n][s] # 0 PROVE vms[n][s] = r
  <2>1. PICK v \in Receipts : v = vms[n][s]
    BY <1>1, <1>2, SMTT(30) DEF Before, IInv, TypeOK, RuntimeTypeOK
  <2>2. Launched(n, v) /\ Payload(n, v) = s
    BY <1>1, <1>2, <2>1 DEF Before, LaunchInv, MapOK
  <2>3. Live(n, v)
    BY <2>2, HoldersLive
  <2>. QED BY <2>1, <2>2, <2>3, OnlyOne
<1>. QED BY <1>1, <1>2

(* A Kill deletes only a launch that has ended or that it tried to stop. *)
LEMMA DeletedTouched ==
  ASSUME Before, NEW n \in Nodes, NEW r \in Receipts, Lone(n, r), NEW k \in Killers,
         killer[n][k] = "delete", Target(n, k) = Payload(n, r)
  PROVE  proc[n][r] # "running"
<1>1. PICK q \in Jobs(n) : Touched(n, q) /\ Payload(n, q) = Payload(n, r)
  BY DEF Before, LaunchInv, KillOK
<1>2. q \in Receipts /\ Launched(n, q)
  BY <1>1 DEF Jobs, Touched, Launched
<1>3. q = r
  BY <1>1, <1>2, HoldersLive, OnlyOne
<1>. QED BY <1>1, <1>3 DEF Touched

(* An entry that is alone after a step was so before, or has just been     *)
(* added and is in nobody's hands.                                         *)
LEMMA LoneBefore ==
  ASSUME Before, [Next]_vars, Before', NEW n \in Nodes, NEW r \in Receipts, Lone(n, r)'
  PROVE  \/ Lone(n, r) /\ Payload(n, r)' = Payload(n, r)
         \/ /\ r \notin Entries(n) /\ ~Launched(n, r)' /\ job'[n].r # r
            /\ waiter'[n][r] = "none" /\ r \notin finished'[n] /\ r \notin watching'[n]
<1>0. IInv /\ QueueGrows
  BY StreamKept DEF Before
<1>1. CASE r \in Entries(n)
  <2>1. Payload(n, r)' = Payload(n, r)
    BY <1>0, <1>1 DEF QueueGrows, Payload
  <2>2. Live(n, r)
    BY <1>0, <1>1, HeldShrinks DEF Lone, Live
  <2>3. Sole(n, r)
    BY <1>0, <1>1, <2>1, OnceKept DEF Lone, Sole
  <2>. QED BY <2>1, <2>2, <2>3 DEF Lone
<1>2. CASE r \notin Entries(n)
  <2>1. r > lastDelivered'[n]
    <3>1. r \in Entries(n)'
      BY DEF Lone, Live
    <3>2. lastDelivered' = lastDelivered
      <4>1. stream' # stream
        BY <1>2, <3>1 DEF Entries
      <4>2. CASE \E c \in Clients : SubmitEnqueue(c)
        BY <4>2 DEF SubmitEnqueue, Enqueue
      <4>3. CASE \E m \in Nodes : EnqueuePoison(m)
        BY <4>3 DEF EnqueuePoison, Enqueue
      <4>4. CASE \E m \in Nodes : HandsBack(m)
        BY <4>4 DEF HandsBack, Nack
      <4>. QED BY <1>0, <4>1, <4>2, <4>3, <4>4, StreamSteps
    <3>3. lastDelivered[n] <= Len(stream[n]) /\ lastDelivered[n] \in Nat /\ Len(stream[n]) \in Nat
      BY <1>0, SMTT(30) DEF IInv, CursorOK, TypeOK, QueueTypeOK
    <3>. QED BY <1>2, <3>2, <3>3, ReceiptFact, SMTT(30) DEF Entries
  <2>2. ~(Live(n, r) /\ r \in Jobs(n) /\ ~(r > lastDelivered[n]))'
    BY <2>1
  <2>3. ~(Launched(n, r) \/ job[n].r = r \/ waiter[n][r] # "none" \/ r \in finished[n]
            \/ r \in watching[n])'
    <3>1. Holding'
      BY HoldingAlways, PTL
    <3>. QED BY <2>2, <3>1 DEF Holding
  <2>. QED BY <1>2, <2>3
<1>. QED BY <1>1, <1>2

-----------------------------------------------------------------------------
(* The VM of the one live entry.                                           *)

Closing == {"disarm", "report", "detach", "destroy", "ack"}

(* Until its waiter waits for it, a VM that no Kill has touched is in the  *)
(* map; the waiter waits for that launch; it goes on when that launch has  *)
(* ended, with its exit code recorded, or when a Kill has taken it from    *)
(* the map.                                                                *)
VMOK(n, r) ==
  /\ (job[n].r = r \/ waiter[n][r] = "start") /\ proc[n][r] = "running" =>
       vms[n][Payload(n, r)] = r
  /\ waiter[n][r] = "waiting" => awaited[n][r] = r
  /\ waiter[n][r] \in Closing \/ r \in finished[n] =>
       /\ proc[n][r] # "running"
       /\ vms[n][Payload(n, r)] = r => r \in exitCode[n] /\ proc[n][r] \in {"ok", "error"}
  /\ Runs(n, r) /\ vms[n][Payload(n, r)] = r =>
       job[n].r = r \/ waiter[n][r] \in {"start", "waiting"}

VMInv == \A n \in Nodes, r \in Receipts : Lone(n, r) => VMOK(n, r)

(* The process and the place in the map of a lone entry that is not being  *)
(* launched by this step.                                                  *)
LEMMA LoneVM ==
  ASSUME Before, [Next]_vars, NEW n \in Nodes, NEW r \in Receipts, Lone(n, r),
         NEW s \in SandboxIDs, s = Payload(n, r), ~(LaunchVM(n) /\ job[n].r = r)
  PROVE  /\ \/ proc'[n][r] = proc[n][r]
            \/ Runs(n, r) /\ proc'[n][r] \in {"unstopped", "stopping", "ok", "error"}
            \/ proc[n][r] = "stopping" /\ proc'[n][r] = "error"
         /\ \/ vms'[n][s] = vms[n][s]
            \/ vms'[n][s] = 0 /\ (Crash(n) \/ proc[n][r] # "running")
<1>0. IInv
  BY DEF Before
<1>1. \/ proc'[n][r] = proc[n][r]
      \/ Runs(n, r) /\ proc'[n][r] \in {"unstopped", "stopping", "ok", "error"}
      \/ proc[n][r] = "stopping" /\ proc'[n][r] = "error"
  <2>1. CASE ProcForward
    BY <2>1 DEF ProcForward
  <2>2. ASSUME NEW m \in Nodes, LaunchVM(m) PROVE proc'[n][r] = proc[n][r]
    <3>1. proc'[n][r] = IF n = m /\ r = job[m].r THEN "running" ELSE proc[n][r]
      BY <1>0, <2>2, LaunchProc, SMTT(30)
    <3>. QED BY <2>2, <3>1
  <2>. QED BY <1>0, <2>1, <2>2, ProcSteps
<1>2. ASSUME NEW m \in Nodes, LaunchVM(m) PROVE vms'[n][s] = vms[n][s]
  <2>1. /\ vms'[n][s] = IF n = m /\ s = JobID(m) THEN job[m].r ELSE vms[n][s]
        /\ job[m].r \in Receipts /\ Payload(m, job[m].r) = JobID(m)
    BY <1>0, <1>2, LaunchMap, LaunchOwn, SMTT(30)
  <2>2. PICK h \in Receipts : h = job[m].r
    BY <2>1
  <2>3. Live(m, h)
    BY <2>2, HoldersLive
  <2>4. ~(n = m /\ s = JobID(m))
    <3>. SUFFICES ASSUME n = m, s = JobID(m) PROVE FALSE
      OBVIOUS
    <3>1. Live(n, h) /\ Payload(n, h) = Payload(n, r)
      BY <2>1, <2>2, <2>3
    <3>2. h = r
      BY <3>1, OnlyOne
    <3>. QED BY <1>2, <2>2, <3>2
  <2>. QED BY <2>1, <2>4
<1>3. ASSUME vms'[n][s] # vms[n][s], ~Crash(n) PROVE vms'[n][s] = 0 /\ proc[n][r] # "running"
  <2>1. ~LaunchVM(n) /\ MapShrinks
    BY <1>0, <1>2, <1>3, MapSteps
  <2>2. vms'[n][s] = 0 /\ vms[n][s] # 0
    BY <1>3, <2>1 DEF MapShrinks
  <2>3. PICK k \in Killers : killer[n][k] = "delete" /\ Target(n, k) = s
    BY <1>0, <1>3, <2>1, <2>2, MapDrops
  <2>. QED BY <2>2, <2>3, DeletedTouched
<1>4. Crash(n) => vms'[n][s] = 0
  BY <1>0, CrashEffect
<1>. QED BY <1>1, <1>3, <1>4

(* Every step keeps VMInv. *)
LEMMA VMInvKept ==
  ASSUME Before, VMInv, [Next]_vars, Before'
  PROVE  VMInv'
<1>. SUFFICES ASSUME NEW n \in Nodes, NEW r \in Receipts, Lone(n, r)'
              PROVE  VMOK(n, r)'
  BY DEF VMInv
<1>0. IInv
  BY DEF Before
<1>1. CASE r \notin Entries(n)
  <2>1. /\ ~Launched(n, r)' /\ job'[n].r # r
        /\ waiter'[n][r] = "none" /\ r \notin finished'[n]
    BY <1>1, LoneBefore DEF Lone, Live
  <2>. QED BY <2>1 DEF VMOK, Launched, Closing, Runs
<1>2. CASE r \in Entries(n)
  <2>1. PICK s \in SandboxIDs : s = Payload(n, r) /\ Payload(n, r)' = s
    BY <1>2, LoneBefore DEF Lone, Sole
  <2>2. Lone(n, r) /\ VMOK(n, r)
    BY <1>2, LoneBefore DEF VMInv
  <2>3. vms[n][s] \in {0, r}
    BY <2>1, <2>2, SoleMap
  <2>4. waiter[n][r] # "none" => job[n].r # r
    BY <1>0 DEF IInv, HandledEntryPending
  <2>5. CASE LaunchVM(n) /\ job[n].r = r
    <3>1. /\ vms'[n][s] = r /\ job'[n].r = r /\ waiter' = waiter /\ finished' = finished
          /\ job[n].pc = "launch"
      <4>1. vms'[n][s] = IF n = n /\ s = JobID(n) THEN job[n].r ELSE vms[n][s]
        BY <1>0, <2>5, LaunchMap
      <4>2. job'[n].r = job[n].r
        BY <1>0, <2>5, LaunchProc
      <4>3. /\ Payload(n, job[n].r) = JobID(n) /\ job[n].pc = "launch"
            /\ waiter' = waiter /\ finished' = finished
        BY <1>0, <2>5, LaunchOwn
      <4>. QED BY <2>1, <2>5, <4>1, <4>2, <4>3
    <3>2. waiter[n][r] = "none" /\ r \notin finished[n]
      BY <2>4, <2>5, <3>1 DEF Before, LaunchInv, LaunchOK, HoldsLaunch
    <3>. QED BY <2>1, <3>1, <3>2 DEF VMOK, Closing
  <2>6. CASE ~(LaunchVM(n) /\ job[n].r = r)
    <3>1. /\ \/ proc'[n][r] = proc[n][r]
             \/ Runs(n, r) /\ proc'[n][r] \in {"unstopped", "stopping", "ok", "error"}
             \/ proc[n][r] = "stopping" /\ proc'[n][r] = "error"
          /\ \/ vms'[n][s] = vms[n][s]
             \/ vms'[n][s] = 0 /\ (Crash(n) \/ proc[n][r] # "running")
      BY <2>1, <2>2, <2>6, LoneVM
    <3>2. CASE Crash(n)
      <4>1. /\ job'[n].r # r /\ waiter'[n][r] = "none" /\ vms'[n][s] = 0
            /\ proc' = proc /\ finished' = finished
        BY <1>0, <3>2, CrashClears, CrashMap
      <4>. QED BY <2>1, <2>2, <4>1, ReceiptFact DEF VMOK, Closing
    <3>3. CASE Work(n) /\ ~Crash(n)
      <4>1. JobMoves(n) /\ WaiterMoves(n, r)
        BY <3>3 DEF Work
      <4>2. /\ r \in exitCode[n] => r \in exitCode'[n]
            /\ r \in finished'[n] => r \in finished[n] \/ waiter[n][r] = "ack"
        BY <3>3 DEF Work
      <4>3. vms'[n][s] = vms[n][s] \/ (vms'[n][s] = 0 /\ proc[n][r] # "running")
        BY <3>1, <3>3
      <4>4. Runs(n, r) /\ job[n].r = r => job[n].pc \in {"report", "arm"}
        BY DEF Before, LaunchInv, LaunchOK, HoldsLaunch, Launched, Runs
      <4>5. job'[n].r = r => job[n].r = r \/ proc[n][r] = "none"
        BY <1>0, <4>1, IdleFact, ReceiptFact, JobsDelivered
           DEF JobMoves, Before, LaunchInv, LaunchOK, Launched
      <4>6. job[n].r = r => job'[n].r = r \/ waiter'[n][r] = "start"
                            \/ job[n].pc \in {"stage", "attach", "launch"}
        BY <4>1, ReceiptFact DEF JobMoves
      <4>7. proc'[n][r] = "running" => proc[n][r] = "running" /\ vms'[n][s] = vms[n][s]
        BY <3>1, <4>3 DEF Runs
      <4>8. Runs(n, r)' => Runs(n, r)
        BY <3>1 DEF Runs
      <4>9. proc[n][r] \in {"ok", "error"} => proc'[n][r] = proc[n][r]
        BY <3>1 DEF Runs
      <4>a. (job'[n].r = r \/ waiter'[n][r] = "start") /\ proc'[n][r] = "running" =>
              vms'[n][s] = r
        <5>1. waiter'[n][r] = "start" => waiter[n][r] = "start" \/ job[n].r = r
          BY <4>1 DEF WaiterMoves
        <5>. QED BY <2>1, <2>2, <4>5, <4>7, <5>1 DEF VMOK
      <4>b. waiter'[n][r] = "waiting" => awaited'[n][r] = r
        BY <2>1, <2>2, <2>3, <4>1 DEF VMOK, WaiterMoves
      <4>c. waiter'[n][r] \in Closing \/ r \in finished'[n] =>
              /\ proc'[n][r] # "running"
              /\ vms'[n][s] = r => r \in exitCode'[n] /\ proc'[n][r] \in {"ok", "error"}
        <5>1. CASE waiter[n][r] \in Closing \/ r \in finished[n]
          BY <2>1, <2>2, <4>2, <4>3, <4>7, <4>9, <5>1, ReceiptFact DEF VMOK
        <5>2. CASE waiter[n][r] \notin Closing /\ r \notin finished[n]
          <6>. SUFFICES ASSUME waiter'[n][r] \in Closing
                        PROVE  /\ proc'[n][r] # "running"
                               /\ vms'[n][s] = r => r \in exitCode'[n] /\ proc'[n][r] \in {"ok", "error"}
            BY <4>2, <5>2 DEF Closing
          <6>1. CASE waiter[n][r] = "start" /\ vms[n][s] = 0
            BY <2>1, <2>2, <4>3, <4>7, <6>1, ReceiptFact DEF VMOK
          <6>2. CASE /\ waiter[n][r] = "waiting" /\ proc[n][awaited[n][r]] \in {"ok", "error"}
                     /\ awaited[n][r] \in exitCode'[n]
            BY <2>2, <4>9, <6>2 DEF VMOK
          <6>3. \/ waiter[n][r] = "start" /\ vms[n][s] = 0
                \/ /\ waiter[n][r] = "waiting" /\ proc[n][awaited[n][r]] \in {"ok", "error"}
                   /\ awaited[n][r] \in exitCode'[n]
            BY <2>1, <4>1, <5>2 DEF WaiterMoves, Closing
          <6>. QED BY <6>1, <6>2, <6>3
        <5>. QED BY <5>1, <5>2
      <4>d. Runs(n, r)' /\ vms'[n][s] = r =>
              job'[n].r = r \/ waiter'[n][r] \in {"start", "waiting"}
        <5>. SUFFICES ASSUME Runs(n, r)', vms'[n][s] = r
                      PROVE  job'[n].r = r \/ waiter'[n][r] \in {"start", "waiting"}
          OBVIOUS
        <5>1. Runs(n, r) /\ vms[n][s] = r /\ proc[n][r] \notin {"ok", "error"}
          BY <4>3, <4>8, ReceiptFact DEF Runs
        <5>2. job[n].r = r \/ waiter[n][r] \in {"start", "waiting"}
          BY <2>1, <2>2, <5>1 DEF VMOK
        <5>3. CASE job[n].r = r
          BY <4>4, <4>6, <5>1, <5>3
        <5>4. CASE waiter[n][r] = "start"
          BY <2>1, <4>1, <5>1, <5>4, ReceiptFact DEF WaiterMoves
        <5>5. CASE waiter[n][r] = "waiting"
          BY <2>2, <4>1, <5>1, <5>5 DEF WaiterMoves, VMOK, Runs
        <5>. QED BY <5>2, <5>3, <5>4, <5>5
      <4>. QED BY <2>1, <4>a, <4>b, <4>c, <4>d DEF VMOK
    <3>. QED BY <1>0, <3>2, <3>3, WorkSteps
  <2>. QED BY <2>5, <2>6
<1>. QED BY <1>1, <1>2

(* At first nothing is live. *)
LEMMA NoneLone == ASSUME Init PROVE \A n \in Nodes, r \in Receipts : ~Live(n, r)
<1>1. \A n \in Nodes : Len(stream[n]) = 0
  BY DEF Init, QueueInit
<1>. QED BY <1>1, ReceiptFact, SMTT(30) DEF Live, Entries

(* VMInv is an invariant, inductive relative to the ones before it. *)
LEMMA VMInvariant == Spec => [](Before /\ VMInv)
<1>1. Init => VMInv
  BY NoneLone DEF VMInv, Lone
<1>2. Before /\ VMInv /\ [Next]_vars /\ Before' => VMInv'
  BY VMInvKept
<1>3. Before <=> IInv /\ LaunchInv /\ LineageInv
  BY DEF Before
<1>. QED BY <1>1, <1>2, <1>3, LineageInvariant, PTL DEF Spec

(* A job that was acknowledged is alone and was launched. *)
LEMMA FinishedLone ==
  ASSUME Before, NEW n \in Nodes, NEW r \in Receipts, SubmittedOnce(n, r),
         r \in finished[n] \/ r \in watching[n] \/ Launched(n, r)
  PROVE  Lone(n, r)
<1>1. Live(n, r) /\ r \in Jobs(n)
  BY HoldersLive
<1>. QED BY <1>1 DEF Lone, Sole, Once, SubmittedOnce, Jobs, Payload

(* A job is acknowledged only when its VM has ended or a Kill has tried to *)
(* stop it: Ack is the waiter's last call, and its Wait has watched this   *)
(* launch, or found it deleted by a Kill, which deletes a VM whether or    *)
(* not its StopVMM succeeded.                                              *)
THEOREM AckedNotRunning == Spec => []AckedJobNotRunning
<1>1. Before /\ VMInv => AckedJobNotRunning
  <2>. SUFFICES ASSUME Before, VMInv, NEW n \in Nodes, NEW r \in finished[n], SubmittedOnce(n, r)
                PROVE  proc[n][r] # "running"
    BY DEF AckedJobNotRunning
  <2>1. r \in Receipts
    BY DEF Before, IInv, TypeOK, AgentTypeOK
  <2>. QED BY <2>1, FinishedLone DEF VMInv, VMOK
<1>. QED BY <1>1, VMInvariant, PTL
=============================================================================

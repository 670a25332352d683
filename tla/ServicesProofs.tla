--------------------------- MODULE ServicesProofs ---------------------------
(***************************************************************************)
(* What is proved of the services, for any settings, calls, jobs, IDs,     *)
(* snapshots and any size of the subnet: the promises of the network       *)
(* gateway and of the snapshot managers.  The first part shows that the    *)
(* steps of the gateway keep its inductive invariant; NyxProofs does so    *)
(* for the managers.  The second part applies both to the system: no other *)
(* part touches their state, and what the agent and Olympus do to it are   *)
(* steps of them.                                                          *)
(***************************************************************************)
EXTENDS ServicesSystem, NyxProofs, WellFoundedInduction

(* Any step of the gateway. *)
GatewayNext ==
  \/ \E j \in DOMAIN held : GatewayAttach(j) \/ GatewayDetach(j) \/ AttachPanics(j)
  \/ GatewayRestarts

(* The steps of the gateway but for the attachment that succeeds. *)
OtherAttach(j) ==
  \/ BridgeFails(j) \/ PoolExhausted(j) \/ TapFails(j) \/ SharedRulesFail(j)
  \/ ContractFails(j)

(* What the gateway keeps is of its type. *)
GatewayTypeOK ==
  /\ idOf \in [DOMAIN held -> IDs]
  /\ allocations \in [IDs -> Addresses \cup {NoAddress}]
  /\ held \in [DOMAIN held -> Addresses \cup {NoAddress}]

(* The strengthening of AddressExclusive: no address is allocated twice,   *)
(* and a job with an ID of its own that this agent process has attached    *)
(* holds the address allocated to its ID.                                  *)
AddressInv ==
  /\ GatewayTypeOK
  /\ \A s, r \in IDs : s # r /\ allocations[s] # NoAddress => allocations[s] # allocations[r]
  /\ \A j \in DOMAIN held : Attached(j) /\ SoleID(j) => held[j] = allocations[idOf[j]]

-----------------------------------------------------------------------------
(* A set of natural numbers has a least element. *)
LEMMA LeastElement ==
  ASSUME NEW S \in SUBSET Nat, S # {}
  PROVE  \E a \in S : \A b \in S : a <= b
<1>1. PICK a \in S : \A b \in S : ~(<<b, a>> \in OpToRel(<, Nat))
  BY NatLessThanWellFounded, WFMin, Zenon
<1>2. ASSUME NEW b \in S, b < a
      PROVE  FALSE
  <2>1. <<b, a>> \in Nat \X Nat /\ <<b, a>>[1] < <<b, a>>[2]
    BY <1>2
  <2>2. <<b, a>> \in OpToRel(<, Nat)
    BY <2>1, Zenon DEF OpToRel
  <2> QED
    BY <1>1, <1>2, <2>2, Zenon
<1>3. \A b \in S : a <= b
  BY <1>2
<1> QED
  BY <1>3, Zenon

(* allocateIP returns an address no ID has, when there is one. *)
LEMMA AllocatedFree ==
  ASSUME GatewayTypeOK, Free # {}
  PROVE  /\ Allocated \in Addresses /\ Allocated # NoAddress
         /\ \A s \in IDs : allocations[s] # Allocated
<1>1. Free \in SUBSET Nat /\ Free # {}
  BY GatewayAssumption DEF Free, Addresses
<1>2. \E a \in Free : \A b \in Free : a <= b
  BY <1>1, LeastElement, Zenon
<1>3. Allocated \in Free
  BY <1>2, Zenon DEF Allocated
<1> QED
  BY <1>3, GatewayAssumption DEF Free, Addresses, NoAddress

(* A call of Attach that fails takes no address away from a job with an ID *)
(* of its own, and gives out at most a free one.                           *)
LEMMA OtherAttachKeeps ==
  ASSUME AddressInv, NEW j \in DOMAIN held, OtherAttach(j)
  PROVE  AddressInv'
<1> USE DEF Attached
<1>1. idOf' = idOf /\ held' = held /\ survivors' = survivors /\ ~Attached(j)
  BY DEF OtherAttach, BridgeFails, PoolExhausted, TapFails, SharedRulesFail, ContractFails, DeviceNamed, AttachBegins
<1>2. \/ allocations' = allocations
      \/ allocations' = [allocations EXCEPT ![idOf[j]] = NoAddress]
      \/ Free # {} /\ allocations' = [allocations EXCEPT ![idOf[j]] = Allocated]
  BY DEF OtherAttach, BridgeFails, PoolExhausted, TapFails, SharedRulesFail, ContractFails, DeviceNamed
<1>3. GatewayTypeOK'
  BY <1>1, <1>2, AllocatedFree DEF AddressInv, GatewayTypeOK
<1>4. (\A s, r \in IDs : s # r /\ allocations[s] # NoAddress => allocations[s] # allocations[r])'
  BY <1>2, AllocatedFree DEF AddressInv, GatewayTypeOK
<1>5. ASSUME NEW i \in DOMAIN held, Attached(i), SoleID(i)
      PROVE  held[i] = allocations'[idOf[i]]
  <2>1. i # j /\ idOf[i] # idOf[j]
    BY <1>1, <1>5 DEF SoleID, AddressInv, GatewayTypeOK
  <2> QED
    BY <1>2, <1>5, <2>1 DEF AddressInv, GatewayTypeOK
<1> QED
  BY <1>1, <1>3, <1>4, <1>5 DEF AddressInv, SoleID

(* An attachment that succeeds gives the VM an address no ID has. *)
LEMMA AttachKeeps ==
  ASSUME AddressInv, NEW j \in DOMAIN held, AttachSucceeds(j)
  PROVE  AddressInv'
<1> USE DEF Attached
<1>1. /\ idOf' = idOf /\ Free # {}
      /\ allocations' = [allocations EXCEPT ![idOf[j]] = Allocated]
      /\ held' = [held EXCEPT ![j] = Allocated]
      /\ survivors' = survivors \ {j}
  BY DEF AttachSucceeds, DeviceNamed, AttachBegins
<1>2. /\ Allocated \in Addresses /\ Allocated # NoAddress
      /\ \A s \in IDs : allocations[s] # Allocated
  BY <1>1, AllocatedFree DEF AddressInv
<1>3. GatewayTypeOK'
  BY <1>1, <1>2 DEF AddressInv, GatewayTypeOK
<1>4. (\A s, r \in IDs : s # r /\ allocations[s] # NoAddress => allocations[s] # allocations[r])'
  BY <1>1, <1>2 DEF AddressInv, GatewayTypeOK
<1>5. ASSUME NEW i \in DOMAIN held, held'[i] # NoAddress, i \notin survivors', SoleID(i)
      PROVE  held'[i] = allocations'[idOf[i]]
  <2>1. CASE i = j
    BY <1>1, <2>1 DEF AddressInv, GatewayTypeOK
  <2>2. CASE i # j
    <3>1. idOf[i] # idOf[j] /\ held'[i] = held[i]
      BY <1>1, <1>5, <2>2 DEF SoleID, AddressInv, GatewayTypeOK
    <3> QED
      BY <1>1, <1>5, <3>1 DEF AddressInv, GatewayTypeOK
  <2> QED
    BY <2>1, <2>2
<1> QED
  BY <1>1, <1>3, <1>4, <1>5, Zenon DEF AddressInv, SoleID, GatewayTypeOK

(* Detach gives back the address of its job only. *)
LEMMA DetachKeeps ==
  ASSUME AddressInv, NEW j \in DOMAIN held, GatewayDetach(j)
  PROVE  AddressInv'
<1> USE DEF Attached
<1>1. /\ idOf' = idOf
      /\ held' = [held EXCEPT ![j] = NoAddress]
      /\ survivors' = survivors
      /\ \/ allocations' = allocations
         \/ allocations' = [allocations EXCEPT ![idOf[j]] = NoAddress]
  BY DEF GatewayDetach
<1>2. GatewayTypeOK'
  BY <1>1 DEF AddressInv, GatewayTypeOK
<1>3. (\A s, r \in IDs : s # r /\ allocations[s] # NoAddress => allocations[s] # allocations[r])'
  BY <1>1 DEF AddressInv, GatewayTypeOK
<1>4. ASSUME NEW i \in DOMAIN held, held'[i] # NoAddress, i \notin survivors', SoleID(i)
      PROVE  held'[i] = allocations'[idOf[i]]
  <2>1. i # j
    BY <1>1, <1>4 DEF AddressInv, GatewayTypeOK
  <2>2. idOf[i] # idOf[j] /\ held'[i] = held[i]
    BY <1>1, <1>4, <2>1 DEF SoleID, AddressInv, GatewayTypeOK
  <2> QED
    BY <1>1, <1>4, <2>2 DEF AddressInv, GatewayTypeOK
<1> QED
  BY <1>1, <1>2, <1>3, <1>4 DEF AddressInv, SoleID, GatewayTypeOK

(* When the agent ends, every VM that stays is one of an earlier process.  *)
LEMMA EndKeeps ==
  ASSUME AddressInv, ProcessEnds, idOf' = idOf
  PROVE  AddressInv' /\ DOMAIN held' = DOMAIN held
<1>1. /\ allocations' = [s \in IDs |-> NoAddress]
      /\ held' = [j \in DOMAIN held |-> IF j \in survivors' THEN held[j] ELSE NoAddress]
  BY DEF ProcessEnds
<1>2. \A j \in DOMAIN held' : ~Attached(j)'
  BY <1>1 DEF Attached
<1>3. GatewayTypeOK' /\ DOMAIN held' = DOMAIN held
  BY <1>1 DEF AddressInv, GatewayTypeOK
<1> QED
  BY <1>1, <1>2, <1>3 DEF AddressInv

-----------------------------------------------------------------------------
(* With no job attached the invariants hold. *)
LEMMA GatewayStarts ==
  ASSUME NEW jobs \in SUBSET Jobs, NEW ids \in [jobs -> IDs], GatewayInit(ids)
  PROVE  AddressInv /\ DOMAIN held = DOMAIN ids
<1>1. /\ idOf = ids
      /\ allocations = [s \in IDs |-> NoAddress]
      /\ held = [j \in DOMAIN ids |-> NoAddress]
  BY DEF GatewayInit
<1>2. \A j \in DOMAIN held : ~Attached(j)
  BY <1>1 DEF Attached
<1> QED
  BY <1>1, <1>2 DEF AddressInv, GatewayTypeOK

(* Every step of the gateway keeps AddressInv. *)
LEMMA AddressStep ==
  ASSUME AddressInv, [GatewayNext]_gatewayVars
  PROVE  AddressInv' /\ DOMAIN held' = DOMAIN held
<1>1. CASE UNCHANGED gatewayVars
  BY <1>1 DEF AddressInv, GatewayTypeOK, Attached, SoleID, gatewayVars
<1>2. CASE GatewayRestarts \/ \E j \in DOMAIN held : AttachPanics(j)
  BY <1>2, EndKeeps DEF GatewayRestarts, AttachPanics, AttachBegins
<1>3. ASSUME NEW j \in DOMAIN held, GatewayAttach(j) \/ GatewayDetach(j)
      PROVE  AddressInv' /\ DOMAIN held' = DOMAIN held
  <2>1. AddressInv'
    BY <1>3, OtherAttachKeeps, AttachKeeps, DetachKeeps DEF GatewayAttach, OtherAttach
  <2>2. CASE OtherAttach(j)
    BY <2>1, <2>2 DEF OtherAttach, BridgeFails, PoolExhausted, TapFails, SharedRulesFail, ContractFails
  <2>3. CASE AttachSucceeds(j)
    BY <2>1, <2>3, Zenon DEF AttachSucceeds, AddressInv, GatewayTypeOK
  <2>4. CASE GatewayDetach(j)
    BY <2>1, <2>4 DEF GatewayDetach, AddressInv, GatewayTypeOK
  <2> QED
    BY <1>3, <2>1, <2>2, <2>3, <2>4 DEF GatewayAttach, OtherAttach
<1> QED
  BY <1>1, <1>2, <1>3 DEF GatewayNext

(* AddressInv is strong enough. *)
LEMMA AddressesApart ==
  ASSUME AddressInv
  PROVE  AddressExclusive
<1> SUFFICES ASSUME NEW i \in DOMAIN held, NEW j \in DOMAIN held,
                    i # j, Attached(i), Attached(j), SoleID(i), SoleID(j)
             PROVE  held[i] \in Addresses /\ held[i] # held[j]
  BY DEF AddressExclusive
<1>1. idOf[i] \in IDs /\ idOf[j] \in IDs /\ idOf[i] # idOf[j]
  BY DEF SoleID, AddressInv, GatewayTypeOK
<1>2. held[i] = allocations[idOf[i]] /\ held[j] = allocations[idOf[j]] /\ held[i] # NoAddress
  BY DEF AddressInv, Attached
<1>3. allocations[idOf[i]] \in Addresses \cup {NoAddress}
  BY <1>1 DEF AddressInv, GatewayTypeOK
<1> QED
  BY <1>1, <1>2, <1>3 DEF AddressInv

-----------------------------------------------------------------------------
(* The gateway in the system.                                              *)

(* The gateway serves the jobs of the setting. *)
JobsInv == DOMAIN setting.ids = DOMAIN held

(* The parts of the services other than the gateway leave it alone, and    *)
(* what the agent does to it is a step of it.                              *)
LEMMA GatewaySteps ==
  ASSUME JobsInv, [Next]_servicesVars
  PROVE  [GatewayNext]_gatewayVars /\ setting' = setting
<1>1. CASE UNCHANGED servicesVars
  BY <1>1 DEF servicesVars
<1>2. CASE Next
  <2>0. setting' = setting
    BY <1>2 DEF Next, Bounded
  <2>1. CASE NetworkSteps
    BY <2>0, <2>1 DEF NetworkSteps, GatewayNext, JobsInv
  <2>2. CASE AgentEnds
    BY <2>0, <2>2 DEF AgentEnds, GatewayNext, JobsInv
  <2>3. CASE SnapshotCalls \/ SnapshotSteps \/ SnapshotSaved \/ OlympusEnds \/ StreamSteps \/ ClusterSteps
    BY <2>0, <2>3 DEF SnapshotCalls, SnapshotSteps, SnapshotSaved, OlympusEnds, StreamSteps, ClusterSteps
  <2>4. CASE (\E k \in Kinds : ControllerSteps(k)) \/ (\E k \in Objects : Synced(k))
    BY <2>0, <2>4 DEF ControllerSteps, Synced
  <2> QED
    BY <1>2, <2>1, <2>2, <2>3, <2>4 DEF Next
<1> QED
  BY <1>1, <1>2

(* The invariant holds at the start and every step keeps it. *)
THEOREM GatewayInductive == Spec => [](JobsInv /\ AddressInv)
<1> DEFINE Inv == JobsInv /\ AddressInv
<1>1. Init => Inv
  <2> SUFFICES ASSUME Init
               PROVE  Inv
    OBVIOUS
  <2>1. PICK jobs \in SUBSET Jobs : setting.ids \in [jobs -> IDs]
    BY SettingsAssumption DEF Init
  <2>2. GatewayInit(setting.ids)
    BY DEF Init
  <2> QED
    BY <2>1, <2>2, GatewayStarts DEF JobsInv
<1>2. Inv /\ [Next]_servicesVars => Inv'
  BY GatewaySteps, AddressStep DEF JobsInv
<1> QED
  BY <1>1, <1>2, PTL DEF Spec

(* Of the VMs that an agent process has attached, under IDs of their own,  *)
(* no two have the same address, nor one that of the bridge or the         *)
(* network, in a subnet of any size, with any number of jobs and whatever  *)
(* attachments failed or were left behind by earlier processes             *)
(* (allocateIP, the rollbacks of Attach, Detach).                          *)
THEOREM AddressesExclusive == Spec => []AddressExclusive
  BY GatewayInductive, AddressesApart, PTL

-----------------------------------------------------------------------------
(* Snapshots.  The snapshots of a setting have positive numbers, and the   *)
(* other parts leave the managers alone.                                   *)

SnapshotInv == NyxInv(Snaps) /\ Snaps \subseteq Nat /\ 0 \notin Snaps

LEMMA SnapshotsStep ==
  ASSUME [Next]_servicesVars, NEW S, S = Snaps, made \in Nat
  PROVE  (NyxNext(S) \/ UNCHANGED nyxVars) /\ setting' = setting
<1>1. CASE UNCHANGED servicesVars
  BY <1>1 DEF servicesVars
<1>2. CASE Next
  <2>0. setting' = setting
    BY <1>2 DEF Next, Bounded
  <2>1. "agent" \in Managers /\ "olympus" \in Managers
    BY ManagersAssumption
  <2>2. {"get", "delete", "prepare", "invalidate", "save"} = NyxOps /\ 0 \in Nat /\ 1..made \subseteq Nat
    BY DEF NyxOps
  <2>3. CASE SnapshotCalls
    BY <2>0, <2>1, <2>2, <2>3, Zenon DEF SnapshotCalls, JobLooksUp, UserDeletes, AdminPrepares, AdminInvalidates, NyxNext
  <2>4. CASE SnapshotSaved
    BY <2>0, <2>1, <2>2, <2>4, Zenon DEF SnapshotSaved, NyxNext
  <2>5. CASE SnapshotSteps
    BY <2>0, <2>5 DEF SnapshotSteps, NyxNext
  <2>6. CASE AgentEnds \/ OlympusEnds
    BY <2>0, <2>1, <2>6, Zenon DEF AgentEnds, OlympusEnds, NyxNext
  <2>7. CASE NetworkSteps \/ StreamSteps \/ ClusterSteps
    BY <2>0, <2>7, Zenon DEF NetworkSteps, StreamSteps, ClusterSteps
  <2>8. CASE (\E k \in Kinds : ControllerSteps(k)) \/ (\E k \in Objects : Synced(k))
    BY <2>0, <2>8, Zenon DEF ControllerSteps, Synced
  <2> QED
    BY <1>2, <2>0, <2>3, <2>4, <2>5, <2>6, <2>7, <2>8, Zenon DEF Next
<1> QED
  BY <1>1, <1>2

LEMMA SnapshotsStart == Init => SnapshotInv
<1> SUFFICES ASSUME Init
             PROVE  SnapshotInv
  OBVIOUS
<1>1. PICK S : S = Snaps
  OBVIOUS
<1>2. setting.snaps \in Nat
  BY SettingsAssumption DEF Init
<1>3. S \subseteq Nat /\ 0 \notin S
  BY <1>1, <1>2 DEF Snaps
<1>4. NyxInit(S)
  BY <1>1, Zenon DEF Init
<1>5. NyxInv(S)
  BY <1>4, NyxStarts, Zenon
<1> QED
  BY <1>1, <1>3, <1>5, Zenon DEF SnapshotInv

LEMMA SnapshotsKept ==
  ASSUME SnapshotInv, [Next]_servicesVars
  PROVE  SnapshotInv' /\ ServedWhole
<1>1. PICK S : S = Snaps
  OBVIOUS
<1>2. NyxInv(S) /\ S \subseteq Nat /\ 0 \notin S /\ made \in Nat
  BY <1>1, Zenon DEF SnapshotInv, NyxInv, Data
<1>3. (NyxNext(S) \/ UNCHANGED nyxVars) /\ setting' = setting
  BY <1>1, <1>2, SnapshotsStep, Zenon
<1>4. NyxInv(S)' /\ ServedWhole
  BY <1>2, <1>3, NyxKeeps, NyxStutters, Zenon
<1>5. Snaps' = S
  BY <1>1, <1>3 DEF Snaps
<1> QED
  BY <1>2, <1>4, <1>5 DEF SnapshotInv

(* The invariant of the snapshot managers holds from the start on. *)
THEOREM SnapshotsInductive == Spec => []SnapshotInv
<1>1. SnapshotInv /\ [Next]_servicesVars => SnapshotInv'
  BY SnapshotsKept
<1> QED
  BY <1>1, SnapshotsStart, PTL DEF Spec

(* What the pointer "latest" names is in the store with all its parts, for *)
(* any number of managers' calls, snapshots and failures and wherever      *)
(* Olympus or the agent ends, unless the snapshot is being deleted         *)
(* (Prepare, SaveSnapshot, DeleteSnapshot, Invalidate).                    *)
THEOREM SnapshotsPublished == Spec => []PublishedComplete
<1>1. SnapshotInv => PublishedComplete
  BY DEF SnapshotInv, NyxInv, Data, PointerOK, Stored, PublishedComplete
<1> QED
  BY <1>1, SnapshotsInductive, PTL

(* A snapshot that GetSnapshot answers with has whole files, for any       *)
(* number of callers that share a download and wherever a step fails or a  *)
(* process ends, unless the snapshot is being deleted or a failed copy is  *)
(* known to have left it half written (GetSnapshot, downloadFile).         *)
THEOREM SnapshotsServed == Spec => ServedComplete
<1> DEFINE Act == \A c \in Callers : Served(c) =>
                    LET m == nyxCall[c].m
                        i == nyxCall'[c].id
                    IN  \/ i \in deleted' \/ <<m, i>> \in torn'
                        \/ \A p \in {"mem", "disk"} : files'[m][i][p] = "whole"
<1>1. ASSUME SnapshotInv, [Next]_servicesVars
      PROVE  Act
  <2>1. ServedWhole
    BY <1>1, SnapshotsKept, Zenon
  <2>2. ASSUME NEW c \in Callers, Served(c), NEW m, m = nyxCall[c].m, NEW i, i = nyxCall'[c].id,
               NEW p \in {"mem", "disk"}
        PROVE  files'[m][i][p] = "whole" \/ <<m, i>> \in torn' \/ i \in deleted'
    BY <2>1, <2>2, Zenon DEF ServedWhole, Whole
  <2> QED
    BY <2>2, Zenon
<1>2. SnapshotInv /\ [Next]_servicesVars => [Act]_nyxVars
  BY <1>1
<1> HIDE DEF Act
<1>3. Spec => [][Act]_nyxVars
  BY <1>2, SnapshotsInductive, PTL DEF Spec
<1> QED
  BY <1>3, Zenon DEF ServedComplete, Act
=============================================================================

---------------------------- MODULE StyxGateway ----------------------------
(***************************************************************************)
(* The network gateway of a node in detail (pkg/styx/host_gateway.go):     *)
(* addresses, TAP devices, the bridge and the rules common to all VMs.     *)
(* Styx is the same gateway as the agent sees it.  Attach and Detach hold  *)
(* the mutex, so each is one step, with the failures it meets on the way;  *)
(* what the kernel keeps outlives the agent.  An Attach that panics is the *)
(* end of the agent.  The rules of a contract are left out: that one of    *)
(* them fails is not.                                                      *)
(*                                                                         *)
(* Addresses are numbers: 0 is the network, 1 the bridge, and LastAddress *)
(* the highest of the subnet.                                              *)
(***************************************************************************)
EXTENDS Integers, Sequences, FiniteSets

CONSTANTS Jobs,        \* the jobs of the agent
          IDs,         \* their sandbox IDs: the first 8 characters and the rest,
                       \* or a single part for one that is shorter
          LastAddress  \* the last address of the subnet

ASSUME GatewayAssumption ==
  /\ LastAddress \in Nat
  /\ {"none", "stray"} \cap Jobs = {}

NoAddress == 0
Addresses == 2..LastAddress

(* The name of the device of a sandbox, made of the first 8 characters of  *)
(* its ID.                                                                 *)
Short(s) == Len(s) = 1
TapName(s) == s[1]

VARIABLES idOf,        \* idOf[j]: the sandbox ID of job j
          allocations, \* allocations[s]: the address of ID s
          bridge,      \* none, bare (without its address) or ready
          taps,        \* taps[t]: the job the device was made for, none or stray
          shared,      \* how many of the three rules common to all are there
          held,        \* held[j]: the address the VM of j was given
          survivors,   \* the jobs whose VM an earlier agent process attached
          attempts     \* calls of Attach so far

gatewayVars == <<idOf, allocations, bridge, taps, shared, held, survivors, attempts>>

-----------------------------------------------------------------------------
Free == {a \in Addresses : \A s \in IDs : allocations[s] # a}

(* Mutant: the address that follows those in use. *)
MutAllocated == 2 + Cardinality({s \in IDs : allocations[s] # NoAddress})

(* allocateIP: the lowest free address.  An earlier one of the same ID is  *)
(* replaced, but counts as taken.                                          *)
Allocated == CHOOSE a \in Free : \A b \in Free : a <= b

(* NewHostGateway, and jobs with the given IDs. *)
GatewayInit(ids) ==
  /\ idOf = ids
  /\ allocations = [s \in IDs |-> NoAddress]
  /\ bridge = "none"
  /\ taps = [t \in {TapName(s) : s \in IDs} |-> "none"]
  /\ shared = 0
  /\ held = [j \in DOMAIN ids |-> NoAddress]
  /\ survivors = {}
  /\ attempts = 0

(* This agent process has attached the VM of j. *)
Attached(j) == held[j] # NoAddress /\ j \notin survivors

(* Attach begins for a job that has no VM of this process. *)
AttachBegins(j) ==
  /\ ~Attached(j)
  /\ attempts' = attempts + 1
  /\ UNCHANGED idOf

(* Attach has the bridge and a free address, and names the device. *)
DeviceNamed(j) ==
  /\ AttachBegins(j)
  /\ Free # {}
  /\ ~Short(idOf[j])
  /\ bridge' = "ready"

(* ensureBridge makes the bridge, sets it up and gives it its address; it  *)
(* fails with or without the bridge made.                                  *)
BridgeFails(j) ==
  /\ AttachBegins(j)
  /\ bridge' \in IF bridge = "none" THEN {"none", "bare"} ELSE {bridge}
  /\ UNCHANGED <<allocations, taps, shared, held, survivors>>

PoolExhausted(j) ==
  /\ AttachBegins(j)
  /\ Free = {}
  /\ bridge' = "ready"
  /\ UNCHANGED <<allocations, taps, shared, held, survivors>>

(* createTAP deletes a device of that name first, whoever uses it.  When   *)
(* it fails, or the device cannot join the bridge, the address is given    *)
(* back; the device of another job may be gone by then, and the deletion   *)
(* of the new one may fail.                                                *)
TapFails(j) ==
  LET s == idOf[j] t == TapName(idOf[j]) IN
  /\ DeviceNamed(j)
  /\ allocations' = [allocations EXCEPT ![s] = NoAddress]
  /\ \E left \in {taps[t], "none", "stray"} : taps' = [taps EXCEPT ![t] = left]
  /\ UNCHANGED <<shared, held, survivors>>

(* ensureIptablesRules fails after some of its rules; nothing is undone.   *)
SharedRulesFail(j) ==
  LET s == idOf[j] t == TapName(idOf[j]) IN
  /\ DeviceNamed(j)
  /\ allocations' = [allocations EXCEPT ![s] = Allocated]
  /\ taps' = [taps EXCEPT ![t] = "stray"]
  /\ shared' \in {shared} \cup shared..2
  /\ UNCHANGED <<held, survivors>>

(* A rule of the contract fails; the device may not be deleted. *)
ContractFails(j) ==
  LET s == idOf[j] t == TapName(idOf[j]) IN
  /\ DeviceNamed(j)
  /\ allocations' = [allocations EXCEPT ![s] = NoAddress]
  /\ \E left \in {"none", "stray"} : taps' = [taps EXCEPT ![t] = left]
  /\ shared' = 3
  /\ UNCHANGED <<held, survivors>>

AttachSucceeds(j) ==
  LET s == idOf[j] t == TapName(idOf[j]) IN
  /\ DeviceNamed(j)
  /\ allocations' = [allocations EXCEPT ![s] = Allocated]
  /\ taps' = [taps EXCEPT ![t] = j]
  /\ shared' = 3
  /\ held' = [held EXCEPT ![j] = Allocated]
  /\ survivors' = survivors \ {j}

GatewayAttach(j) ==
  \/ BridgeFails(j) \/ PoolExhausted(j) \/ TapFails(j) \/ SharedRulesFail(j)
  \/ ContractFails(j) \/ AttachSucceeds(j)

(* Detach, for a job whose VM has ended or was not started: nothing to do  *)
(* without an allocation; a device that cannot be deleted keeps it; a      *)
(* device that is not found does not.                                      *)
GatewayDetach(j) ==
  LET s == idOf[j] t == TapName(idOf[j]) IN
  /\ Attached(j)
  /\ held' = [held EXCEPT ![j] = NoAddress]
  /\ \/ /\ allocations[s] = NoAddress
        /\ UNCHANGED <<allocations, taps>>
     \/ /\ allocations[s] # NoAddress
        /\ \/ /\ taps[t] # "none"
              /\ UNCHANGED <<allocations, taps>>
           \/ /\ allocations' = [allocations EXCEPT ![s] = NoAddress]
              /\ taps' \in {taps, [taps EXCEPT ![t] = "none"]}
  /\ UNCHANGED <<idOf, bridge, shared, survivors, attempts>>

(* The agent ends and is started again: its map is gone, the kernel's      *)
(* state is not.  Reconcile kills the VMs it recognises at the start, if   *)
(* the kill succeeds; the others stay on the bridge with the address they  *)
(* have, until the device of their job is made anew.                       *)
ProcessEnds ==
  /\ allocations' = [s \in IDs |-> NoAddress]
  /\ survivors' \in SUBSET {j \in DOMAIN held : held[j] # NoAddress}
  /\ held' = [j \in DOMAIN held |-> IF j \in survivors' THEN held[j] ELSE NoAddress]

GatewayRestarts == ProcessEnds /\ UNCHANGED <<idOf, bridge, taps, shared, attempts>>

(* An ID of fewer than 8 characters has no first 8: Attach panics when it  *)
(* names the device, and the agent ends.                                   *)
AttachPanics(j) ==
  /\ AttachBegins(j)
  /\ Free # {}
  /\ Short(idOf[j])
  /\ bridge' = "ready"
  /\ ProcessEnds
  /\ UNCHANGED <<taps, shared>>

-----------------------------------------------------------------------------
(* No other job has the sandbox ID of j. *)
SoleID(j) == \A i \in DOMAIN idOf \ {j} : idOf[i] # idOf[j]

(* Of the VMs that an agent process has attached no two have the same     *)
(* address, nor one that of the bridge or the network, whatever            *)
(* attachments failed, were undone or were left behind (allocateIP, the    *)
(* rollbacks of Attach, Detach).  This is so for jobs with IDs of their    *)
(* own: a second Attach under one ID forgets the address of the first.  A  *)
(* VM that outlived its agent is in no map: its address is given again.    *)
AddressExclusive ==
  \A i, j \in DOMAIN held :
    i # j /\ Attached(i) /\ Attached(j) /\ SoleID(i) /\ SoleID(j) =>
      held[i] \in Addresses /\ held[i] # held[j]

=============================================================================

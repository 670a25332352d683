-------------------------------- MODULE Styx --------------------------------
(***************************************************************************)
(* Styx, the network gateway of a node (pkg/styx/host_gateway.go), as far  *)
(* as the agent depends on it: the set of sandbox IDs that hold an address *)
(* and a TAP device.  The set is an in-memory map keyed by the sandbox ID, *)
(* so two jobs with the same ID share one attachment.                      *)
(***************************************************************************)
EXTENDS Domain

VARIABLES attached     \* attached[n]: the IDs in the gateway's allocation map

StyxTypeOK == attached \in [Nodes -> SUBSET SandboxIDs]

StyxInit == attached = [n \in Nodes |-> {}]

Attach(n, s) == attached' = [attached EXCEPT ![n] = @ \cup {s}]

(* Attach fails and gives the address back, or fails to allocate one, or   *)
(* fails in ensureIptablesRules, which rolls nothing back.  A rollback     *)
(* removes the attachment of an earlier job with the same ID as well.      *)
AttachFails(n, s) ==
  \/ attached' = [attached EXCEPT ![n] = @ \ {s}]
  \/ UNCHANGED attached
  \/ Attach(n, s)

(* Mutant: all attachments are torn down. *)
MutDetach(n, s, ok) == attached' = [attached EXCEPT ![n] = {}]

(* Detach of an ID that is not attached is no error; when the TAP cannot   *)
(* be deleted the address stays allocated.                                 *)
Detach(n, s, ok) == attached' = [attached EXCEPT ![n] = IF ok THEN @ \ {s} ELSE @]
=============================================================================

-------------------------------- MODULE Lethe --------------------------------
(***************************************************************************)
(* Lethe, the overlay pool (pkg/lethe/file_overlay.go).  An overlay is a   *)
(* file under the node's base directory: it outlives the agent process and *)
(* nothing lists the directory again.  Every job creates at most one, so   *)
(* an overlay is named by the job's receipt.                               *)
(***************************************************************************)
EXTENDS Domain

VARIABLES overlays,    \* overlays[n]: the overlay files on n's disk
          leaked       \* history: files left by a failed copy or removal, or a crash

letheVars == <<overlays, leaked>>

LetheTypeOK ==
  /\ overlays \in [Nodes -> SUBSET Receipts]
  /\ leaked \in [Nodes -> SUBSET Receipts]

LetheInit ==
  /\ overlays = [n \in Nodes |-> {}]
  /\ leaked = [n \in Nodes |-> {}]

CreateOverlay(n, r) ==
  /\ overlays' = [overlays EXCEPT ![n] = @ \cup {r}]
  /\ UNCHANGED leaked

(* Create fails before copyFile created the file, or after: a partial copy *)
(* is not removed.                                                         *)
CreateOverlayFails(n, r) ==
  \/ UNCHANGED letheVars
  \/ /\ overlays' = [overlays EXCEPT ![n] = @ \cup {r}]
     /\ leaked' = [leaked EXCEPT ![n] = @ \cup {r}]

(* Destroy removes the file; a file that is missing already is no error.   *)
DestroyOverlay(n, r, ok) ==
  /\ overlays' = [overlays EXCEPT ![n] = IF ok THEN @ \ {r} ELSE @]
  /\ leaked' = [leaked EXCEPT ![n] = IF ok THEN @ ELSE @ \cup ({r} \cap overlays[n])]

(* The agent process ends: what is on the disk has no owner any more. *)
AbandonOverlays(n) ==
  /\ leaked' = [leaked EXCEPT ![n] = @ \cup overlays[n]]
  /\ UNCHANGED overlays
=============================================================================

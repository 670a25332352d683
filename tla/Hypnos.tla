------------------------------- MODULE Hypnos -------------------------------
(***************************************************************************)
(* Hypnos, hibernation (pkg/hypnos/manager.go).  Sleep pauses a VM,        *)
(* snapshots it, kills it, uploads the snapshot and records it; Wake       *)
(* downloads the snapshot, launches a VM from it and forgets the record.   *)
(* Callers are goroutines; each has at most one call of Sleep, Wake or of  *)
(* a termination under way, and each action is one step of that call.  Any *)
(* call of Hypnos to the VMM, the file system or the store may fail.       *)
(***************************************************************************)
EXTENDS VMLifecycle

CONSTANT Callers    \* the goroutines that suspend, wake or end sandboxes

VARIABLES call,       \* call[w]: the call that goroutine w is making
          sleeping,   \* sleeping[s]: the key of the sleep record of s
          stored      \* the snapshot files in the store: <<key, part>>

hypnosVars == <<call, sleeping, stored>>

(* A key names the launch and the goroutine that put it to sleep (the code *)
(* takes the time).                                                        *)
Keys == Launches \X Callers

NoKey == <<0, "none">>

SleepPC == {"config", "pause", "snapshot", "resume", "stop", "delete", "mem", "disk", "record"}

WakePC == {"wake", "download", "relaunch", "forget"}

EndPC == {"export", "shutdown", "wait", "waiting", "kill", "unmap", "inspect"}

Phases == {"none", "checkpointed", "killed", "completed", "failed"}

(* s: the sandbox; l: the launch at work; key: the snapshot read by Wake;  *)
(* via: the function that made the call; checkpoint and grace: what the    *)
(* controller decided; phase: the outcome it reports.                      *)
CallState ==
  [pc : {"idle", "returned"} \cup SleepPC \cup WakePC \cup EndPC, s : Sandboxes,
   l : 0..MaxLaunches, key : Keys \cup {NoKey},
   via : {"hypnos", "handler", "controller", "kill"}, checkpoint : BOOLEAN,
   grace : Nat, phase : Phases]

HypnosTypeOK ==
  /\ call \in [Callers -> CallState]
  /\ sleeping \in [Sandboxes -> Keys \cup {NoKey}]
  /\ stored \subseteq Keys \X {"mem", "disk"}

Calling(w, pc) == call[w].pc = pc

Goto(w, pc) == call' = [call EXCEPT ![w].pc = pc]

(* The call of w returns to its caller. *)
Return(w, phase) == call' = [call EXCEPT ![w].pc = "returned", ![w].phase = phase]

(* The result of Sleep: the handler of Thanatos gives up when it fails, the *)
(* controller goes on to a shutdown.                                       *)
SleepReturns(w, ok) ==
  IF ~ok /\ call[w].via = "controller" THEN Goto(w, "shutdown")
  ELSE Return(w, IF ok THEN "checkpointed" ELSE "failed")

-----------------------------------------------------------------------------
(* Sleep.                                                                  *)

(* GetConfig and the staging directory. *)
SleepConfig(w) ==
  /\ Calling(w, "config")
  /\ \/ Holds(call[w].s) /\ call' = [call EXCEPT ![w].pc = "pause", ![w].l = vm[call[w].s]]
     \/ SleepReturns(w, FALSE)
  /\ UNCHANGED <<vmVars, sleeping, stored>>

SleepPause(w) ==
  /\ Calling(w, "pause")
  /\ \/ PauseVM(call[w].s) /\ Goto(w, "snapshot")
     \/ SleepReturns(w, FALSE) /\ UNCHANGED vmVars
  /\ UNCHANGED <<sleeping, stored>>

SleepSnapshot(w) ==
  /\ Calling(w, "snapshot")
  /\ \/ Snapshotable(call[w].s) /\ call' = [call EXCEPT ![w].pc = "stop", ![w].l = vm[call[w].s]]
     \/ Goto(w, "resume")
  /\ UNCHANGED <<vmVars, sleeping, stored>>

(* Best-effort resume after a failed snapshot. *)
SleepResume(w) ==
  /\ Calling(w, "resume")
  /\ ResumeVM(call[w].s) \/ UNCHANGED vmVars
  /\ SleepReturns(w, FALSE)
  /\ UNCHANGED <<sleeping, stored>>

(* Shutdown, whose result is ignored, and the first half of Kill. *)
SleepStop(w) ==
  /\ Calling(w, "stop")
  /\ IF Holds(call[w].s) THEN Signal(call[w].s) /\ Goto(w, "delete")
                         ELSE UNCHANGED vmVars /\ Goto(w, "mem")
  /\ UNCHANGED <<sleeping, stored>>

SleepDelete(w) ==
  /\ Calling(w, "delete")
  /\ Forget(call[w].s)
  /\ Goto(w, "mem")
  /\ UNCHANGED <<sleeping, stored>>

KeyOf(w) == <<call[w].l, w>>

(* compressFile and copyToStore of one part of the snapshot. *)
SleepUpload(w, part, next) ==
  /\ Calling(w, part)
  /\ \/ stored' = stored \cup {<<KeyOf(w), part>>} /\ Goto(w, next)
     \/ SleepReturns(w, FALSE) /\ UNCHANGED stored
  /\ UNCHANGED <<vmVars, sleeping>>

(* Mutant: a failed upload of the disk is overlooked. *)
MutSleepUploadDisk(w) ==
  /\ Calling(w, "disk")
  /\ \/ stored' = stored \cup {<<KeyOf(w), "disk">>}
     \/ UNCHANGED stored
  /\ Goto(w, "record")
  /\ UNCHANGED <<vmVars, sleeping>>

SleepUploadDisk(w) == SleepUpload(w, "disk", "record")

SleepUploadMem(w) == SleepUpload(w, "mem", "disk")

SleepRecord(w) ==
  /\ Calling(w, "record")
  /\ sleeping' = [sleeping EXCEPT ![call[w].s] = KeyOf(w)]
  /\ SleepReturns(w, TRUE)
  /\ UNCHANGED <<vmVars, stored>>

Sleep(w) ==
  \/ SleepConfig(w) \/ SleepPause(w) \/ SleepSnapshot(w) \/ SleepResume(w) \/ SleepStop(w)
  \/ SleepDelete(w) \/ SleepUploadMem(w) \/ SleepUploadDisk(w) \/ SleepRecord(w)

-----------------------------------------------------------------------------
(* Wake.                                                                   *)

(* getRecord, under the lock. *)
WakeRecord(w) ==
  /\ Calling(w, "wake")
  /\ IF sleeping[call[w].s] = NoKey THEN Return(w, "failed")
     ELSE call' = [call EXCEPT ![w].pc = "download", ![w].key = sleeping[call[w].s]]
  /\ UNCHANGED <<vmVars, sleeping, stored>>

(* copyFromStore finds a part. *)
Fetched(w, part) == <<call[w].key, part>> \in stored

(* The parts are copied and decompressed. *)
WakeDownload(w) ==
  /\ Calling(w, "download")
  /\ \/ Fetched(w, "mem") /\ Fetched(w, "disk") /\ Goto(w, "relaunch")
     \/ Return(w, "failed")
  /\ UNCHANGED <<vmVars, sleeping, stored>>

WakeLaunch(w) ==
  /\ Calling(w, "relaunch")
  /\ \/ StartVM(call[w].s) /\ Goto(w, "forget")
     \/ Return(w, "failed") /\ UNCHANGED vmVars
  /\ UNCHANGED <<sleeping, stored>>

(* The record of the sandbox is deleted, whatever it now holds. *)
WakeForget(w) ==
  /\ Calling(w, "forget")
  /\ sleeping' = [sleeping EXCEPT ![call[w].s] = NoKey]
  /\ Return(w, "completed")
  /\ UNCHANGED <<vmVars, stored>>

Wake(w) == WakeRecord(w) \/ WakeDownload(w) \/ WakeLaunch(w) \/ WakeForget(w)
=============================================================================

------------------------- MODULE RuntimeStepProofs -------------------------
(***************************************************************************)
(* The steps of the sandbox runtimes' operations.  The invariant that      *)
(* RuntimeProofs proves is stated here, with what a step of an operation   *)
(* may do (StepOK): every step of Docker, containerd, gVisor, runsc, the   *)
(* microVMs, WASM, the mock and the unified runtime does no more.          *)
(***************************************************************************)
EXTENDS RuntimeSystem, TLAPS

(* Most leaves are first-order: Zenon proves them.  The others cite SMT.    *)
USE ZenonT(60)

Statuses == {"none", "created", "running", "paused", "exited", "removed"}

Points == {"idle", "select", "route", "prepare", "load", "create", "start", "store", "check", "act",
           "remove", "delete", "ending", "done"}

CallPoints == {"pause", "launch", "verify", "cleanup", "cutover", "rollback"}

DriverPoints == {"idle", "assess", "export", "wait", "logs", "inspect", "kill", "finished"} \cup CallPoints

Codes == Exits \cup {"none", "unknown"}

Container == [kind : Kinds, s : Sandboxes \cup {"none"}, status : Statuses, exit : Exits \cup {"none"}]

CallRecord == [op : Operations \cup {"none"}, pc : Points, kind : Kinds, s : Sandboxes \cup {"none"},
               l : Launches \cup {0}, ok : BOOLEAN, seen : Codes \cup {"running"}]

DriverRecord == [pc : DriverPoints, calling : BOOLEAN, kind : Kinds, err : BOOLEAN,
                 l : Launches \cup {0}, rollback : {"unset", "none", "success", "failed"},
                 seen : Codes \cup {"running"}]

Types ==
  /\ cont \in [Launches -> Container] /\ code \in [Launches -> Codes]
  /\ entry \in [Kinds -> [Sandboxes -> Launches \cup {0}]]
  /\ call \in [Callers -> CallRecord]
  /\ channel \in [Launches -> {"open", "closed"}]
  /\ waiter \in [Sandboxes -> Launches \cup {0}]
  /\ reader \subseteq Launches /\ reaped \subseteq Launches /\ modules \subseteq Launches
  /\ driver \in DriverRecord /\ driver.kind = setting.kind

(* A container has an exit code once it has ended. *)
ContOK(l) ==
  /\ cont[l].status \in {"none", "created", "running", "paused"} => cont[l].exit = "none"
  /\ cont[l].status = "exited" => cont[l].exit # "none"
  /\ cont[l].status = "none" => cont[l] = NoCont
  /\ cont[l].status = "created" => cont[l].kind \in {"docker", "containerd", "wasm"}

(* The code v is that of container l, one that runsc or Firecracker could  *)
(* not find out, or any one of containerd.                                 *)
TrueCode(l, v) ==
  \/ v = cont[l].exit /\ v # "none"
  \/ cont[l].kind = "containerd"
  \/ cont[l].kind = "runsc" /\ l \in reaped /\ v = "unknown" /\ cont[l].exit # "none"
  \/ cont[l].kind = "microvm" /\ v = "unknown"

CodeOK(l) ==
  /\ code[l] # "none" => TrueCode(l, code[l])
  /\ l \in reaped => cont[l].kind = "runsc" /\ cont[l].exit # "none"
  /\ l \in reader => cont[l].kind = "containerd" /\ cont[l].status # "none"
  /\ l \in modules => cont[l].kind = "wasm" /\ cont[l].status # "none"

(* Container l is of runtime k and sandbox s. *)
Is(l, k, s) == cont[l].kind = k /\ cont[l].s = s /\ cont[l].status # "none"

EntryOK(k, s) ==
  entry[k][s] # 0 =>
    /\ Is(entry[k][s], k, s)
    /\ k # "wasm" => cont[entry[k][s]].status # "created"
    /\ k = "mock" => cont[entry[k][s]].exit \in {"none", "ok"} /\ cont[entry[k][s]].status # "removed"

WaiterOK(s) == waiter[s] # 0 => Is(waiter[s], "mock", s) /\ cont[waiter[s]].status # "created"

(* What a call refers to, where it is. *)
CallOK(w) ==
  /\ call[w].pc # "idle" => call[w].s \in Sandboxes
  /\ call[w].pc \in {"idle", "select", "route", "prepare", "create"} => call[w].l = 0
  /\ call[w].pc \in {"select", "prepare"} => call[w].ok
  /\ call[w].pc = "select" => call[w].op = "launch"
  /\ \/ call[w].pc \in {"act", "store", "check", "remove", "delete", "ending"}
     \/ call[w].pc = "start" /\ call[w].kind \in {"docker", "containerd"}
     => call[w].l # 0
  /\ call[w].l # 0 =>
       /\ Is(call[w].l, call[w].kind, call[w].s)
       /\ call[w].op # "launch" /\ call[w].kind # "wasm" => cont[call[w].l].status # "created"
  /\ call[w].op = "inspect" /\ call[w].pc = "done" /\ call[w].ok =>
       call[w].l # 0 /\ (call[w].seen = "running" \/ TrueCode(call[w].l, call[w].seen))

RefsInv ==
  /\ setting \in Settings /\ Types
  /\ \A l \in Launches : ContOK(l) /\ CodeOK(l)
  /\ \A k \in Kinds, s \in Sandboxes : EntryOK(k, s)
  /\ \A s \in Sandboxes : WaiterOK(s)
  /\ \A w \in Callers : CallOK(w)

-----------------------------------------------------------------------------
(* Docker and containerd have one container of a name; of those that runsc *)
(* has one is alive.                                                       *)
Engines == {"docker", "containerd"}

NamesOK(l, m) ==
  l # m /\ cont[l].kind = cont[m].kind /\ cont[l].s = cont[m].s =>
    /\ cont[l].kind \in Engines => cont[l].status \in {"none", "removed"} \/ cont[m].status \in {"none", "removed"}
    /\ cont[l].kind \in {"gvisor", "runsc"} => ~Alive(l) \/ ~Alive(m)

(* A container that is being launched is known to its launch only. *)
PrivateOK(w) ==
  call[w].op = "launch" /\ call[w].pc \in {"start", "store"} /\ call[w].kind \in Engines =>
    /\ call[w].pc = "start" => cont[call[w].l].status = "created"
    /\ call[w].pc = "store" => cont[call[w].l].status \notin {"none", "created", "removed"}
    /\ entry[call[w].kind][call[w].s] # call[w].l
    /\ \A d \in Callers : d # w => call[d].l # call[w].l

(* An engine's Kill deletes an entry after its container is gone. *)
KilledOK(w) ==
  call[w].op = "kill" /\ call[w].pc = "delete" /\ call[w].kind \in Engines =>
    cont[call[w].l].status = "removed"

NamesInv ==
  /\ \A l, m \in Launches : NamesOK(l, m)
  /\ \A w \in Callers : PrivateOK(w) /\ KilledOK(w)

-----------------------------------------------------------------------------
(* Migration.                                                              *)

(* The VM of the migration is not there; it is dead or out of the map. *)
NoVM == \A m \in Launches : cont[m].s # TargetVM
VMGone == \A m \in Launches : cont[m].s = TargetVM => ~Alive(m) \/ entry["microvm"][TargetVM] # m

(* What becomes of the source, unless others meddle. *)
SourceHeld == Undisturbed("resume") => cont[driver.l].status # "running"
SourceResumed == Undisturbed("pause") => cont[driver.l].status # "paused"

(* The call that the driver makes at a point of the migration. *)
DriverCall ==
  CASE driver.pc = "pause" -> <<driver.kind, Source, "pause">>
    [] driver.pc = "launch" -> <<"microvm", TargetVM, "launch">>
    [] driver.pc = "verify" -> <<"microvm", TargetVM, "inspect">>
    [] driver.pc = "cleanup" -> <<"microvm", TargetVM, "kill">>
    [] driver.pc = "cutover" -> <<driver.kind, Source, "kill">>
    [] driver.pc = "rollback" -> <<driver.kind, Source, "resume">>
    [] OTHER -> <<"none", "none", "none">>

Succeeded == driver.calling /\ call[Driver].pc = "done" /\ call[Driver].ok

DriverOK ==
  /\ driver.pc \in {"idle", "assess", "export", "finished"} \cup CallPoints
  /\ driver.calling => driver.pc \in CallPoints
  /\ driver.calling => <<call[Driver].kind, call[Driver].s, call[Driver].op>> = DriverCall
  /\ driver.calling /\ driver.pc = "pause" /\ driver.kind = "docker" => setting.form = "sandbox"
  /\ ~driver.calling => call[Driver].pc = "idle"
  /\ driver.pc = "idle" <=> driver.l = 0
  /\ driver.l # 0 => Is(driver.l, setting.kind, Source) /\ cont[driver.l].status # "created"

(* Others pause and resume where the setting says so, and launch no VM of  *)
(* the name that the migration uses.                                       *)
OtherOK(w) ==
  /\ call[w].pc \notin {"select", "route"}
  /\ w # Driver =>
    /\ call[w].op \in {"pause", "resume"} => ~Undisturbed(call[w].op)
    /\ call[w].pc # "idle" /\ call[w].s = TargetVM => call[w].kind = "microvm" /\ call[w].op # "launch"

(* There is one VM. *)
VMOK ==
  \A m \in Launches : cont[m].s = TargetVM =>
    /\ cont[m].kind = "microvm"
    /\ \A n \in Launches : cont[n].s = TargetVM => n = m

PhaseOK ==
  /\ driver.pc \in {"idle", "assess"} /\ Undisturbed("pause") =>
       \A m \in Launches : cont[m].status # "paused"
  /\ driver.pc \in {"idle", "assess", "pause", "export"} => NoVM
  /\ driver.pc \in {"pause", "export", "launch", "verify", "cutover"} => ~driver.err
  /\ driver.pc # "finished" => driver.rollback = "unset"
  /\ driver.pc = "pause" => IF Succeeded THEN SourceHeld ELSE SourceResumed
  /\ driver.pc \in {"export", "launch", "verify", "cutover", "cleanup"} => SourceHeld
  /\ driver.pc = "launch" /\ ~Succeeded => NoVM
  /\ driver.pc = "cleanup" /\ driver.calling /\ call[Driver].pc = "done" => VMGone
  /\ driver.pc = "rollback" => VMGone /\ (Succeeded => SourceResumed)
  /\ driver.pc = "finished" /\ driver.rollback = "none" => SourceHeld
  /\ driver.pc = "finished" /\ driver.rollback # "none" => VMGone
  /\ driver.pc = "finished" /\ driver.err /\ driver.rollback # "failed" => SourceResumed

MigrationInv ==
  IF setting.use = "migrate"
  THEN DriverOK /\ (\A w \in Callers : OtherOK(w)) /\ VMOK /\ PhaseOK
  ELSE driver.l = 0


Inv == RefsInv /\ NamesInv

-----------------------------------------------------------------------------
(* What a step does.  Every step of a caller satisfies StepOK, and every   *)
(* StepOK keeps the invariant.                                             *)

(* A container that is there stays the one it is and does not come back. *)
EvolvesAt(m) ==
  cont[m].status # "none" =>
    /\ cont'[m].kind = cont[m].kind /\ cont'[m].s = cont[m].s /\ cont'[m].status # "none"
    /\ cont[m].exit # "none" => cont'[m].exit = cont[m].exit
    /\ cont[m].status # "created" => cont'[m].status # "created"
    /\ cont[m].status = "removed" => cont'[m].status = "removed"
    /\ Alive(m)' => Alive(m) \/ cont[m].status = "created"

(* A step of an operation op may change the containers of L, those that    *)
(* are not of an engine and those that end.                                *)
ContPart(L, op) ==
  /\ cont' \in [Launches -> Container]
  /\ \A m \in Launches :
       /\ ContOK(m)' /\ EvolvesAt(m)
       /\ \/ cont'[m] = cont[m] \/ m \in L \/ cont[m].kind \notin Engines
          \/ cont[m].status = "none"
          \/ cont[m].status # "created" /\ cont'[m].status = "exited"
       /\ cont'[m].status = "running" => cont[m].status \in {"none", "created", "running"} \/ op = "resume"
       /\ cont'[m].status = "paused" => cont[m].status = "paused" \/ op = "pause"

(* No container is created. *)
NoneNew == \A m \in Launches : cont[m].status = "none" => cont'[m] = cont[m]

(* A new container has a name that is free. *)
NewPart(w) ==
  \A m \in Launches : cont[m].status = "none" /\ cont'[m] # cont[m] =>
    /\ call[w].op = "launch"
    /\ cont'[m].kind = call[w].kind /\ cont'[m].s = call[w].s
    /\ call[w].kind \in Engines => Named(call[w].kind, call[w].s) = {}
    /\ call[w].kind \in {"gvisor", "runsc"} /\ Alive(m)' =>
         \A n \in Launches : Is(n, call[w].kind, call[w].s) => ~Alive(n)
    /\ \A n \in Launches : n # m => cont'[n] = cont[n]
    /\ call[w].kind = "microvm" =>
         entry'["microvm"][call[w].s] = m /\ call'[w].pc = "done" /\ call'[w].ok

CodePart ==
  /\ code' \in [Launches -> Codes]
  /\ \A l \in Launches : code'[l] \in {"none", code[l]} \/ TrueCode(l, code[l])'

(* What the runtimes keep beside the maps. *)
SpecPart ==
  /\ channel' \in [Launches -> {"open", "closed"}]
  /\ \A l \in Launches : channel[l] = "closed" => channel'[l] = "closed"
  /\ reader' \subseteq Launches /\ reaped' \subseteq Launches /\ modules' \subseteq Launches
  /\ reaped \subseteq reaped'
  /\ \A l \in reaped' \ reaped : cont'[l].kind = "runsc" /\ cont'[l].exit # "none"
  /\ \A l \in reader' \ reader : cont'[l].kind = "containerd" /\ cont'[l].status # "none"
  /\ \A l \in modules' \ modules : cont'[l].kind = "wasm" /\ cont'[l].status # "none"
  /\ waiter' \in [Sandboxes -> Launches \cup {0}]
  /\ \A s \in Sandboxes : waiter'[s] = waiter[s] \/ WaiterOK(s)'

EntryPart(L) ==
  /\ entry' \in [Kinds -> [Sandboxes -> Launches \cup {0}]]
  /\ \A k \in Kinds, s \in Sandboxes :
       /\ \/ EntryOK(k, s)'
          \/ /\ entry'[k][s] = entry[k][s]
             /\ k = "mock" /\ entry[k][s] # 0 => cont'[entry[k][s]] = cont[entry[k][s]]
       /\ \/ entry'[k][s] \in {0, entry[k][s]} \/ entry'[k][s] \in L
          \/ cont[entry'[k][s]].status = "none"

(* The caller is the only one that moves; what it comes to refer to is its *)
(* entry, a container that is no engine's, or a new one.                   *)
CallPart(w) ==
  /\ call[w].pc \notin {"idle", "done"}
  /\ call' \in [Callers -> CallRecord]
  /\ \A d \in Callers : d # w => call'[d] = call[d]
  /\ CallOK(w)'
  /\ \/ call'[w].l \in {0, call[w].l, entry[call[w].kind][call[w].s]}
     \/ cont[call'[w].l].kind \notin Engines
     \/ cont[call'[w].l].status = "none"

(* A live container of an engine is left only by the Kill of another one. *)
TrackPart(w) ==
  \A k \in Engines, s \in Sandboxes :
    entry[k][s] # 0 /\ entry'[k][s] # entry[k][s] /\ Alive(entry[k][s]) =>
      At(w, k, "kill", "delete") /\ call[w].s = s /\ call[w].l # entry[k][s]

(* What a migration relies on: a pause and a resume do what they say or    *)
(* nothing, and a VM is in the map until Kill takes it out.                *)
Answers(w) == call'[w].pc = "done" /\ call'[w].ok

MovePart(w) ==
  /\ call'[w].s = call[w].s /\ call'[w].pc # "idle"
  /\ call[w].pc \notin {"select", "route"} =>
       /\ call'[w].kind = call[w].kind /\ call'[w].pc \notin {"select", "route"}
       /\ call'[w].op = call[w].op \/ (call[w].op = "shutdown" /\ call'[w].op = "kill")
  /\ call[w].op \in {"pause", "resume"} /\ ~Answers(w) => cont' = cont
  /\ call[w].kind \in Engines \cup {"runsc"} /\ call[w].op = "pause" /\ Answers(w) =>
       \A m \in Launches : Is(m, call[w].kind, call[w].s) => cont'[m].status # "running"
  /\ call[w].kind \in Engines \cup {"runsc"} /\ call[w].op = "resume" /\ Answers(w) =>
       \A m \in Launches : Is(m, call[w].kind, call[w].s) => cont'[m].status # "paused"
  /\ \A s \in Sandboxes : entry'["microvm"][s] # entry["microvm"][s] =>
       \/ entry'["microvm"][s] = 0
       \/ entry'["microvm"][s] \in Launches /\ cont[entry'["microvm"][s]].status = "none"
  /\ call[w].kind = "microvm" /\ call[w].op = "kill" /\ call'[w].pc = "done" =>
       entry'["microvm"][call[w].s] = 0

StepOK(w) ==
  /\ ContPart({call[w].l}, call[w].op) /\ NewPart(w)
  /\ CodePart /\ SpecPart /\ EntryPart({call[w].l}) /\ CallPart(w)
  /\ PrivateOK(w)' /\ KilledOK(w)' /\ TrackPart(w) /\ MovePart(w)

-----------------------------------------------------------------------------
(* What the engine does to a container.                                    *)

LEMMA ContSame ==
  ASSUME RefsInv, cont' = cont, NEW L, NEW op
  PROVE  ContPart(L, op) /\ NoneNew
  BY DEF RefsInv, Types, ContPart, NoneNew, ContOK, EvolvesAt, Alive

LEMMA ContEnds ==
  ASSUME RefsInv, NEW l \in Launches, NEW e \in Exits, Ends(l, e), NEW L, NEW op
  PROVE  ContPart(L, op) /\ NoneNew /\ ~Alive(l)' /\ \A m \in Launches : m # l => cont'[m] = cont[m]
  BY SMTT(30) DEF RefsInv, Types, ContPart, NoneNew, ContOK, EvolvesAt, Alive, Ends, Container, Exits, Statuses, NoCont

LEMMA ContRemoved ==
  ASSUME RefsInv, NEW l \in Launches, cont[l].status # "none", Removed(l), NEW L, NEW op,
         l \in L \/ cont[l].kind \notin Engines
  PROVE  /\ ContPart(L, op) /\ NoneNew /\ cont'[l].status = "removed"
         /\ \A m \in Launches : m # l => cont'[m] = cont[m]
<1>1. cont \in [Launches -> Container] /\ \A m \in Launches : ContOK(m)
  BY DEF RefsInv, Types
<1>2. PICK e : e = IF Alive(l) THEN "killed" ELSE cont[l].exit
  OBVIOUS
<1>3. e \in Exits \cup {"none"} /\ (cont[l].exit # "none" => e = cont[l].exit)
  BY <1>1, <1>2 DEF Container, Exits, ContOK, Alive
<1>4. /\ cont' \in [Launches -> Container] /\ \A m \in Launches : m # l => cont'[m] = cont[m]
      /\ cont'[l].status = "removed" /\ cont'[l].exit = e
      /\ cont'[l].kind = cont[l].kind /\ cont'[l].s = cont[l].s
  BY <1>1, <1>2, <1>3 DEF Removed, Container, Statuses
<1>. QED
  BY <1>1, <1>3, <1>4 DEF ContPart, NoneNew, ContOK, EvolvesAt, Alive

LEMMA ContDeleted ==
  ASSUME RefsInv, NEW l \in Launches, SetStatus(l, {"exited"}, "removed"), NEW L, NEW op, l \in L
  PROVE  /\ ContPart(L, op) /\ NoneNew /\ cont'[l].status = "removed"
         /\ \A m \in Launches : m # l => cont'[m] = cont[m]
<1>1. /\ cont \in [Launches -> Container] /\ cont[l].status = "exited" /\ \A m \in Launches : ContOK(m)
      /\ cont' = [cont EXCEPT ![l].status = "removed"]
  BY DEF RefsInv, Types, SetStatus
<1>2. PICK c \in Container : c = cont[l]
  BY <1>1
<1>3. PICK r : r = [c EXCEPT !.status = "removed"]
  OBVIOUS
<1>4. r \in Container /\ r.kind = c.kind /\ r.s = c.s /\ r.exit = c.exit /\ r.status = "removed"
  BY ONLY <1>3, SMTT(30) DEF Container, Statuses
<1>5. cont' \in [Launches -> Container] /\ cont'[l] = r /\ \A m \in Launches : m # l => cont'[m] = cont[m]
  BY <1>1, <1>2, <1>3, <1>4
<1>. QED
  BY <1>1, <1>2, <1>4, <1>5 DEF ContPart, NoneNew, ContOK, EvolvesAt, Alive

Moved(l, from, to) == cont[l].status = from /\ cont' = [cont EXCEPT ![l].status = to]

LEMMA ContMoves ==
  ASSUME RefsInv, NEW l \in Launches, NEW from, NEW to, Moved(l, from, to), NEW L, NEW op,
         l \in L \/ cont[l].kind \notin Engines,
         \/ from = "created" /\ to = "running"
         \/ from = "running" /\ to = "paused" /\ op = "pause"
         \/ from = "paused" /\ to = "running" /\ op = "resume"
  PROVE  /\ ContPart(L, op) /\ NoneNew /\ cont'[l].status = to
         /\ \A m \in Launches : m # l => cont'[m] = cont[m]
  BY SMTT(30) DEF RefsInv, Types, ContPart, NoneNew, ContOK, EvolvesAt, Alive, Moved, Container, Exits, Statuses, NoCont

LEMMA ContCreated ==
  ASSUME RefsInv, NEW l \in Launches, NEW k \in Kinds, NEW s \in Sandboxes, NEW st,
         Create(l, k, s, st), NEW L, NEW op,
         st = "running" \/ (st = "created" /\ k \in {"docker", "containerd", "wasm"})
  PROVE  /\ ContPart(L, op) /\ cont[l].status = "none" /\ cont'[l].status = st /\ cont'[l].exit = "none"
         /\ cont'[l].kind = k /\ cont'[l].s = s
         /\ \A m \in Launches : m # l => cont'[m] = cont[m]
  BY DEF RefsInv, Types, ContPart, ContOK, EvolvesAt, Alive, Create, Fresh, Container, Exits, Statuses, NoCont

Refused(l, k, s) ==
  /\ Fresh(l)
  /\ cont' = [cont EXCEPT ![l] = [kind |-> k, s |-> s, status |-> "removed", exit |-> "error"]]

LEMMA ContRefused ==
  ASSUME RefsInv, NEW l \in Launches, NEW k \in Kinds, NEW s \in Sandboxes, Refused(l, k, s),
         NEW L, NEW op
  PROVE  /\ ContPart(L, op) /\ cont[l].status = "none" /\ cont'[l].status = "removed"
         /\ cont'[l].kind = k /\ cont'[l].s = s
         /\ \A m \in Launches : m # l => cont'[m] = cont[m]
  BY DEF RefsInv, Types, ContPart, ContOK, EvolvesAt, Alive, Refused, Fresh, Container, Exits, Statuses, NoCont

-----------------------------------------------------------------------------
(* What a call does next.                                                  *)

MovesTo(w, pc, l, ok, seen) ==
  /\ call' \in [Callers -> CallRecord] /\ \A d \in Callers : d # w => call'[d] = call[d]
  /\ call'[w].op = call[w].op /\ call'[w].kind = call[w].kind /\ call'[w].s = call[w].s
  /\ call'[w].pc = pc /\ call'[w].l = l /\ call'[w].ok = ok /\ call'[w].seen = seen

LEMMA SetsPc ==
  ASSUME NEW q \in CallRecord, NEW v \in Points, NEW r, r = [q EXCEPT !.pc = v]
  PROVE  /\ r \in CallRecord /\ r.pc = v
         /\ r.op = q.op /\ r.kind = q.kind /\ r.s = q.s /\ r.l = q.l /\ r.ok = q.ok /\ r.seen = q.seen
  BY DEF CallRecord

LEMMA SetsOp ==
  ASSUME NEW q \in CallRecord, NEW v \in Operations, NEW r, r = [q EXCEPT !.op = v]
  PROVE  /\ r \in CallRecord /\ r.op = v
         /\ r.pc = q.pc /\ r.kind = q.kind /\ r.s = q.s /\ r.l = q.l /\ r.ok = q.ok /\ r.seen = q.seen
  BY DEF CallRecord

LEMMA SetsKind ==
  ASSUME NEW q \in CallRecord, NEW v \in Kinds, NEW r, r = [q EXCEPT !.kind = v]
  PROVE  /\ r \in CallRecord /\ r.kind = v
         /\ r.op = q.op /\ r.pc = q.pc /\ r.s = q.s /\ r.l = q.l /\ r.ok = q.ok /\ r.seen = q.seen
  BY DEF CallRecord

LEMMA SetsL ==
  ASSUME NEW q \in CallRecord, NEW v \in Launches, NEW r, r = [q EXCEPT !.l = v]
  PROVE  /\ r \in CallRecord /\ r.l = v
         /\ r.op = q.op /\ r.pc = q.pc /\ r.kind = q.kind /\ r.s = q.s /\ r.ok = q.ok /\ r.seen = q.seen
  BY DEF CallRecord

LEMMA SetsOk ==
  ASSUME NEW q \in CallRecord, NEW v \in BOOLEAN, NEW r, r = [q EXCEPT !.ok = v]
  PROVE  /\ r \in CallRecord /\ r.ok = v
         /\ r.op = q.op /\ r.pc = q.pc /\ r.kind = q.kind /\ r.s = q.s /\ r.l = q.l /\ r.seen = q.seen
  BY DEF CallRecord

LEMMA SetsSeen ==
  ASSUME NEW q \in CallRecord, NEW v \in Codes \cup {"running"}, NEW r, r = [q EXCEPT !.seen = v]
  PROVE  /\ r \in CallRecord /\ r.seen = v
         /\ r.op = q.op /\ r.pc = q.pc /\ r.kind = q.kind /\ r.s = q.s /\ r.l = q.l /\ r.ok = q.ok
  BY DEF CallRecord

(* The one record of a call that changes. *)
LEMMA Moves ==
  ASSUME RefsInv, NEW w \in Callers, NEW r \in CallRecord, call' = [call EXCEPT ![w] = r],
         r.op = call[w].op, r.kind = call[w].kind, r.s = call[w].s
  PROVE  MovesTo(w, r.pc, r.l, r.ok, r.seen)
  BY DEF RefsInv, Types, MovesTo

LEMMA Goes ==
  ASSUME RefsInv, NEW w \in Callers, NEW pc \in Points, Goto(w, pc)
  PROVE  MovesTo(w, pc, call[w].l, call[w].ok, call[w].seen)
<1>1. PICK r : r = [call[w] EXCEPT !.pc = pc]
  OBVIOUS
<1>2. call[w] \in CallRecord /\ call' = [call EXCEPT ![w] = r]
  BY <1>1 DEF RefsInv, Types, Goto
<1>3. /\ r \in CallRecord /\ r.op = call[w].op /\ r.kind = call[w].kind /\ r.s = call[w].s
      /\ r.pc = pc /\ r.l = call[w].l /\ r.ok = call[w].ok /\ r.seen = call[w].seen
  BY <1>1, <1>2, SetsPc, SMTT(30)
<1>4. MovesTo(w, r.pc, r.l, r.ok, r.seen)
  BY <1>2, <1>3, Moves
<1>. QED
  BY <1>3, <1>4

LEMMA Returns ==
  ASSUME RefsInv, NEW w \in Callers, NEW ok \in BOOLEAN, Return(w, ok)
  PROVE  MovesTo(w, "done", call[w].l, ok, call[w].seen)
<1>0. PICK q : q = [call[w] EXCEPT !.pc = "done"]
  OBVIOUS
<1>1. PICK r : r = [q EXCEPT !.ok = ok]
  OBVIOUS
<1>2. call[w] \in CallRecord /\ call' = [call EXCEPT ![w] = r] /\ "done" \in Points
  BY <1>0, <1>1 DEF RefsInv, Types, Return, Points
<1>3. /\ q \in CallRecord /\ q.op = call[w].op /\ q.kind = call[w].kind /\ q.s = call[w].s
      /\ q.pc = "done" /\ q.l = call[w].l /\ q.ok = call[w].ok /\ q.seen = call[w].seen
  BY <1>0, <1>2, SetsPc, SMTT(30)
<1>4. /\ r \in CallRecord /\ r.op = call[w].op /\ r.kind = call[w].kind /\ r.s = call[w].s
      /\ r.pc = "done" /\ r.l = call[w].l /\ r.ok = ok /\ r.seen = call[w].seen
  BY <1>1, <1>3, SetsOk, SMTT(30)
<1>5. MovesTo(w, r.pc, r.l, r.ok, r.seen)
  BY <1>2, <1>4, Moves
<1>. QED
  BY <1>4, <1>5

LEMMA Reports ==
  ASSUME RefsInv, NEW w \in Callers, NEW seen \in Codes \cup {"running"}, Report(w, seen)
  PROVE  MovesTo(w, "done", call[w].l, TRUE, seen)
<1>a. PICK p : p = [call[w] EXCEPT !.pc = "done"]
  OBVIOUS
<1>b. PICK ok \in BOOLEAN : ok = TRUE
  OBVIOUS
<1>0. PICK q : q = [p EXCEPT !.ok = ok]
  OBVIOUS
<1>1. PICK r : r = [q EXCEPT !.seen = seen]
  OBVIOUS
<1>2. /\ call[w] \in CallRecord /\ call' = [call EXCEPT ![w] = r]
      /\ "done" \in Points
  BY <1>a, <1>b, <1>0, <1>1 DEF RefsInv, Types, Report, Points
<1>3. /\ p \in CallRecord /\ p.op = call[w].op /\ p.kind = call[w].kind /\ p.s = call[w].s
      /\ p.pc = "done" /\ p.l = call[w].l /\ p.ok = call[w].ok /\ p.seen = call[w].seen
  BY <1>a, <1>2, SetsPc, SMTT(30)
<1>4. /\ q \in CallRecord /\ q.op = call[w].op /\ q.kind = call[w].kind /\ q.s = call[w].s
      /\ q.pc = "done" /\ q.l = call[w].l /\ q.ok = ok /\ q.seen = call[w].seen
  BY <1>0, <1>3, SetsOk, SMTT(30)
<1>5. /\ r \in CallRecord /\ r.op = call[w].op /\ r.kind = call[w].kind /\ r.s = call[w].s
      /\ r.pc = "done" /\ r.l = call[w].l /\ r.ok = ok /\ r.seen = seen
  BY <1>1, <1>4, SetsSeen, SMTT(30)
<1>6. MovesTo(w, r.pc, r.l, r.ok, r.seen)
  BY <1>2, <1>5, Moves
<1>. QED
  BY <1>b, <1>5, <1>6

LEMMA Takes ==
  ASSUME RefsInv, NEW w \in Callers, NEW pc \in Points, NEW l \in Launches,
         call' = [call EXCEPT ![w].pc = pc, ![w].l = l]
  PROVE  MovesTo(w, pc, l, call[w].ok, call[w].seen)
<1>0. PICK q : q = [call[w] EXCEPT !.pc = pc]
  OBVIOUS
<1>1. PICK r : r = [q EXCEPT !.l = l]
  OBVIOUS
<1>2. call[w] \in CallRecord /\ call' = [call EXCEPT ![w] = r]
  BY <1>0, <1>1 DEF RefsInv, Types
<1>3. /\ q \in CallRecord /\ q.op = call[w].op /\ q.kind = call[w].kind /\ q.s = call[w].s
      /\ q.pc = pc /\ q.l = call[w].l /\ q.ok = call[w].ok /\ q.seen = call[w].seen
  BY <1>0, <1>2, SetsPc, SMTT(30)
<1>4. /\ r \in CallRecord /\ r.op = call[w].op /\ r.kind = call[w].kind /\ r.s = call[w].s
      /\ r.pc = pc /\ r.l = l /\ r.ok = call[w].ok /\ r.seen = call[w].seen
  BY <1>1, <1>3, SetsL, SMTT(30)
<1>5. MovesTo(w, r.pc, r.l, r.ok, r.seen)
  BY <1>2, <1>4, Moves
<1>. QED
  BY <1>4, <1>5

(* A code that is true stays true. *)
LEMMA CodeStays ==
  ASSUME RefsInv, NEW L, NEW op, ContPart(L, op), SpecPart, NEW l \in Launches, NEW v, TrueCode(l, v)
  PROVE  TrueCode(l, v)'
  BY SMTT(30) DEF RefsInv, ContPart, SpecPart, TrueCode, ContOK, EvolvesAt, NoCont, CodeOK

(* Where a call may be, given what it refers to. *)
PointOK(w, pc, l) ==
  /\ pc \notin {"idle", "select", "route", "prepare"}
  /\ pc = "create" => l = 0
  /\ \/ pc \in {"act", "store", "check", "remove", "delete", "ending"}
     \/ pc = "start" /\ call[w].kind \in Engines
     => l # 0

LEMMA CallMoves ==
  ASSUME RefsInv, NEW L, NEW op, ContPart(L, op), SpecPart, NEW w \in Callers, call[w].pc # "idle",
         NEW pc, NEW l, NEW ok, NEW seen, MovesTo(w, pc, l, ok, seen), PointOK(w, pc, l),
         l # call[w].l =>
           /\ l \in Launches /\ Is(l, call[w].kind, call[w].s)'
           /\ call[w].op # "launch" /\ call[w].kind # "wasm" => cont'[l].status # "created",
         call[w].op = "inspect" /\ pc = "done" /\ ok => l # 0 /\ (seen = "running" \/ TrueCode(l, seen)')
  PROVE  CallOK(w)'
<1>1. call[w].l # 0 => /\ call[w].l \in Launches /\ Is(call[w].l, call[w].kind, call[w].s)
                       /\ call[w].op # "launch" /\ call[w].kind # "wasm" => cont[call[w].l].status # "created"
  BY DEF RefsInv, Types, CallRecord, CallOK
<1>2. call[w].s \in Sandboxes
  BY DEF RefsInv, CallOK
<1>3. l # 0 => /\ Is(l, call[w].kind, call[w].s)'
               /\ call[w].op # "launch" /\ call[w].kind # "wasm" => cont'[l].status # "created"
  BY <1>1, SMTT(30) DEF ContPart, EvolvesAt, Is, MovesTo
<1>. QED
  BY <1>2, <1>3 DEF CallOK, MovesTo, PointOK, Is, Engines

-----------------------------------------------------------------------------
(* The shapes of the steps of a call.  An act leaves the maps and makes no *)
(* container.                                                              *)

(* What a call comes to refer to: the entry of its sandbox, or a container *)
(* that is no engine's.                                                    *)
RefOK(w, l) ==
  l # call[w].l =>
    /\ l \in Launches /\ Is(l, call[w].kind, call[w].s)'
    /\ call[w].op # "launch" /\ call[w].kind # "wasm" => cont'[l].status # "created"
    /\ l = entry[call[w].kind][call[w].s] \/ cont[l].kind \notin Engines

(* The answer of an operation that a migration relies on. *)
AnswerOK(w, pc, ok) ==
  /\ call[w].op \in {"pause", "resume"} /\ cont' # cont => pc = "done" /\ ok
  /\ call[w].kind \in Engines \cup {"runsc"} /\ pc = "done" /\ ok =>
       \A m \in Launches : Is(m, call[w].kind, call[w].s) =>
         /\ call[w].op = "pause" => cont'[m].status # "running"
         /\ call[w].op = "resume" => cont'[m].status # "paused"
  /\ call[w].kind = "microvm" /\ call[w].op = "kill" /\ pc = "done" => entry["microvm"][call[w].s] = 0

Tells(w, pc, l, ok, seen) ==
  call[w].op = "inspect" /\ pc = "done" /\ ok => l # 0 /\ (seen = "running" \/ TrueCode(l, seen)')

LEMMA Acts ==
  ASSUME Inv, NEW w \in Callers, call[w].pc \notin {"idle", "select", "route", "done"},
         ContPart({call[w].l}, call[w].op), NoneNew, CodePart, SpecPart, entry' = entry,
         \A m \in Launches : cont[m].kind = "mock" => cont'[m] = cont[m],
         NEW pc, NEW l, NEW ok, NEW seen, MovesTo(w, pc, l, ok, seen), PointOK(w, pc, l),
         RefOK(w, l), Tells(w, pc, l, ok, seen), AnswerOK(w, pc, ok), PrivateOK(w)', KilledOK(w)'
  PROVE  StepOK(w)
<1>1. RefsInv
  BY DEF Inv
<1>2. CallOK(w)'
  BY <1>1, CallMoves DEF RefOK, Tells
<1>3. CallPart(w)
  BY <1>2 DEF CallPart, MovesTo, RefOK
<1>4. NewPart(w) /\ TrackPart(w)
  BY DEF NewPart, NoneNew, TrackPart
<1>5. EntryPart({call[w].l})
  <2>1. entry \in [Kinds -> [Sandboxes -> Launches \cup {0}]]
    BY <1>1 DEF RefsInv, Types
  <2>2. ASSUME NEW k \in Kinds, NEW s \in Sandboxes, k = "mock", entry[k][s] # 0
        PROVE  cont'[entry[k][s]] = cont[entry[k][s]]
    BY <1>1, <2>1, <2>2, SMTT(30) DEF RefsInv, EntryOK, Is
  <2>. QED
    BY <2>1, <2>2 DEF EntryPart
<1>6. MovePart(w)
  BY DEF MovesTo, MovePart, PointOK, Answers, AnswerOK
<1>. QED
  BY <1>3, <1>4, <1>5, <1>6 DEF StepOK

LEMMA Still ==
  ASSUME RefsInv
  PROVE  /\ code' = code => CodePart
         /\ UNCHANGED <<channel, reader, reaped, modules, waiter>> => SpecPart
         /\ UNCHANGED specificVars => SpecPart
<1>1. code \in [Launches -> Codes]
  BY DEF RefsInv, Types
<1>2. /\ channel \in [Launches -> {"open", "closed"}] /\ waiter \in [Sandboxes -> Launches \cup {0}]
      /\ reader \subseteq Launches /\ reaped \subseteq Launches /\ modules \subseteq Launches
  BY DEF RefsInv, Types
<1>3. code' = code => CodePart
  BY <1>1 DEF CodePart
<1>4. UNCHANGED <<channel, reader, reaped, modules, waiter>> => SpecPart
  BY <1>2 DEF SpecPart
<1>. QED
  BY <1>3, <1>4 DEF specificVars

(* A quiet step leaves the containers too. *)
LEMMA Quiet ==
  ASSUME Inv, NEW w \in Callers, call[w].pc \notin {"idle", "select", "route", "done"},
         cont' = cont, entry' = entry, CodePart, SpecPart,
         NEW pc, NEW l, NEW ok, NEW seen, MovesTo(w, pc, l, ok, seen), PointOK(w, pc, l),
         RefOK(w, l), Tells(w, pc, l, ok, seen),
         call[w].op \in {"pause", "resume"} /\ pc = "done" /\ ok => call[w].kind \notin Engines \cup {"runsc"},
         call[w].kind = "microvm" /\ call[w].op = "kill" /\ pc = "done" => entry["microvm"][call[w].s] = 0,
         pc # "delete", pc \in {"start", "store"} => call[w].kind \notin Engines
  PROVE  StepOK(w)
<1>1. RefsInv
  BY DEF Inv
<1>2. ContPart({call[w].l}, call[w].op) /\ NoneNew
  BY <1>1, ContSame
<1>3. AnswerOK(w, pc, ok)
  BY DEF AnswerOK, Engines
<1>4. PrivateOK(w)' /\ KilledOK(w)'
  BY DEF PrivateOK, KilledOK, MovesTo
<1>. QED
  BY <1>2, <1>3, <1>4, Acts

LEMMA StepReturns ==
  ASSUME Inv, NEW w \in Callers, call[w].pc \notin {"idle", "select", "route", "done"},
         cont' = cont, entry' = entry, CodePart, SpecPart, NEW ok \in BOOLEAN, Return(w, ok),
         call[w].op = "inspect" => ~ok,
         call[w].op \in {"pause", "resume"} => call[w].kind \notin Engines \cup {"runsc"} \/ ~ok,
         call[w].kind = "microvm" /\ call[w].op = "kill" => entry["microvm"][call[w].s] = 0
  PROVE  StepOK(w)
<1>1. MovesTo(w, "done", call[w].l, ok, call[w].seen)
  BY Returns DEF Inv
<1>2. PointOK(w, "done", call[w].l) /\ RefOK(w, call[w].l)
  BY DEF PointOK, RefOK
<1>3. Tells(w, "done", call[w].l, ok, call[w].seen)
  BY DEF Tells
<1>. QED
  BY <1>1, <1>2, <1>3, Quiet

LEMMA StepGoes ==
  ASSUME Inv, NEW w \in Callers, call[w].pc \notin {"idle", "select", "route", "done"},
         cont' = cont, entry' = entry, CodePart, SpecPart, NEW pc, Goto(w, pc),
         \/ pc = "create" /\ call[w].pc = "prepare"
         \/ pc = "start" /\ call[w].kind \notin Engines
         \/ pc = "ending" /\ call[w].pc = "act"
  PROVE  StepOK(w)
<1>1. MovesTo(w, pc, call[w].l, call[w].ok, call[w].seen)
  BY Goes DEF Inv, Points
<1>2. PointOK(w, pc, call[w].l) /\ RefOK(w, call[w].l)
  BY DEF PointOK, RefOK, Inv, RefsInv, CallOK
<1>3. Tells(w, pc, call[w].l, call[w].ok, call[w].seen)
  BY DEF Tells
<1>. QED
  BY <1>1, <1>2, <1>3, Quiet

LEMMA StepReports ==
  ASSUME Inv, NEW w \in Callers, call[w].pc = "act", call[w].op = "inspect",
         cont' = cont, entry' = entry, CodePart, SpecPart, NEW seen \in Codes \cup {"running"},
         Report(w, seen), seen = "running" \/ TrueCode(call[w].l, seen)'
  PROVE  StepOK(w)
<1>1. MovesTo(w, "done", call[w].l, TRUE, seen)
  BY Reports DEF Inv
<1>2. PointOK(w, "done", call[w].l) /\ RefOK(w, call[w].l)
  BY DEF PointOK, RefOK
<1>3. Tells(w, "done", call[w].l, TRUE, seen)
  BY DEF Tells, Inv, RefsInv, CallOK
<1>. QED
  BY <1>1, <1>2, <1>3, Quiet

(* What a map has for a call. *)
LEMMA LoadedOK ==
  ASSUME Inv, NEW w \in Callers, call[w].pc # "idle"
  PROVE  /\ call[w].kind \in Kinds /\ call[w].s \in Sandboxes /\ Loaded(w) \in Launches \cup {0}
         /\ Loaded(w) # 0 => /\ Is(Loaded(w), call[w].kind, call[w].s)
                             /\ call[w].kind # "wasm" => cont[Loaded(w)].status # "created"
<1>1. call[w].kind \in Kinds /\ call[w].s \in Sandboxes
  BY DEF Inv, RefsInv, Types, CallRecord, CallOK
<1>2. Loaded(w) \in Launches \cup {0}
  BY <1>1, SMTT(30) DEF Inv, RefsInv, Types, Loaded
<1>. QED
  BY <1>1, <1>2 DEF Inv, RefsInv, EntryOK, Loaded

LEMMA StepLoads ==
  ASSUME Inv, NEW w \in Callers, NEW k, NEW op, NEW missing \in BOOLEAN, Load(w, k, op, missing), SpecPart,
         missing => op = "kill"
  PROVE  StepOK(w)
<1>1. /\ call[w].pc = "load" /\ call[w].op = op /\ cont' = cont /\ entry' = entry /\ code' = code
      /\ CodePart /\ RefsInv
  BY Still DEF Load, At, Inv
<1>2. CASE Loaded(w) = 0
  <2>1. Return(w, missing)
    BY <1>2 DEF Load
  <2>. QED
    BY <1>1, <1>2, <2>1, StepReturns DEF Loaded
<1>3. CASE Loaded(w) # 0
  <2>1. call' = [call EXCEPT ![w].pc = "act", ![w].l = Loaded(w)]
    BY <1>3 DEF Load
  <2>2. /\ Loaded(w) \in Launches /\ Is(Loaded(w), call[w].kind, call[w].s)
        /\ call[w].kind # "wasm" => cont[Loaded(w)].status # "created"
    BY <1>1, <1>3, LoadedOK
  <2>3. PICK l \in Launches : l = Loaded(w)
    BY <2>2
  <2>4. MovesTo(w, "act", l, call[w].ok, call[w].seen)
    BY <1>1, <2>1, <2>3, Takes DEF Points
  <2>5. PointOK(w, "act", l)
    BY SMTT(30) DEF PointOK, Launches
  <2>6. RefOK(w, l) /\ Tells(w, "act", l, call[w].ok, call[w].seen)
    BY <1>1, <2>2, <2>3, <2>4 DEF RefOK, Tells, Is, Loaded, MovesTo
  <2>. QED
    BY <1>1, <2>4, <2>5, <2>6, Quiet
<1>. QED
  BY <1>2, <1>3

(* A step that changes the container of the call, or one of runsc, and     *)
(* goes on or returns.                                                     *)
LEMMA StepGoesOn ==
  ASSUME Inv, NEW w \in Callers, call[w].pc \notin {"idle", "select", "route", "done"}, call[w].l # 0,
         ContPart({call[w].l}, call[w].op), NoneNew,
         \A m \in Launches : cont[m].kind = "mock" => cont'[m] = cont[m],
         entry' = entry, CodePart, SpecPart, call[w].op \notin {"pause", "resume"},
         NEW pc \in {"store", "remove", "delete"}, Goto(w, pc),
         call[w].op = "launch" => PrivateOK(w)',
         pc = "store" => call[w].op = "launch", pc = "delete" => KilledOK(w)'
  PROVE  StepOK(w)
<1>1. MovesTo(w, pc, call[w].l, call[w].ok, call[w].seen)
  BY Goes DEF Inv, Points
<1>2. PointOK(w, pc, call[w].l) /\ RefOK(w, call[w].l)
  BY DEF PointOK, RefOK
<1>3. Tells(w, pc, call[w].l, call[w].ok, call[w].seen) /\ AnswerOK(w, pc, call[w].ok)
  BY DEF Tells, AnswerOK
<1>4. PrivateOK(w)' /\ KilledOK(w)'
  BY <1>1 DEF PrivateOK, KilledOK, MovesTo
<1>. QED
  BY <1>1, <1>2, <1>3, <1>4, Acts

LEMMA StepEnds ==
  ASSUME Inv, NEW w \in Callers, call[w].pc \notin {"idle", "select", "route", "done"},
         ContPart({call[w].l}, call[w].op), NoneNew,
         \A m \in Launches : cont[m].kind = "mock" => cont'[m] = cont[m],
         entry' = entry, CodePart, SpecPart, NEW ok \in BOOLEAN, Return(w, ok),
         call[w].op \notin {"inspect", "kill"}, AnswerOK(w, "done", ok)
  PROVE  StepOK(w)
<1>1. MovesTo(w, "done", call[w].l, ok, call[w].seen)
  BY Returns DEF Inv
<1>2. PointOK(w, "done", call[w].l) /\ RefOK(w, call[w].l)
  BY DEF PointOK, RefOK
<1>3. Tells(w, "done", call[w].l, ok, call[w].seen)
  BY DEF Tells
<1>4. PrivateOK(w)' /\ KilledOK(w)'
  BY <1>1 DEF PrivateOK, KilledOK, MovesTo
<1>. QED
  BY <1>1, <1>2, <1>3, <1>4, Acts

-----------------------------------------------------------------------------
(* The steps that change the map: the entry of the call is all that does.  *)

EntryMoves(w, e) ==
  /\ entry' \in [Kinds -> [Sandboxes -> Launches \cup {0}]]
  /\ entry'[call[w].kind][call[w].s] = e
  /\ \A k \in Kinds, s \in Sandboxes : k # call[w].kind \/ s # call[w].s => entry'[k][s] = entry[k][s]

LEMMA EntrySet ==
  ASSUME Inv, NEW w \in Callers, call[w].pc # "idle", NEW e \in Launches \cup {0},
         entry' = [entry EXCEPT ![call[w].kind][call[w].s] = e]
  PROVE  EntryMoves(w, e)
<1>1. call[w].kind \in Kinds /\ call[w].s \in Sandboxes
  BY LoadedOK
<1>2. entry \in [Kinds -> [Sandboxes -> Launches \cup {0}]]
  BY DEF Inv, RefsInv, Types
<1>. QED
  BY <1>1, <1>2 DEF EntryMoves

LEMMA EntryKept ==
  ASSUME Inv, entry' = entry, NEW w \in Callers
  PROVE  EntryMoves(w, Loaded(w))
  BY DEF Inv, RefsInv, Types, EntryMoves, Loaded

(* A container that is there is not the one that is made. *)
LEMMA NotNew ==
  ASSUME Inv, NEW l \in Launches, cont[l].status = "none"
  PROVE  /\ \A k \in Kinds, s \in Sandboxes : entry[k][s] # l
         /\ \A d \in Callers : call[d].l # l
<1>1. l # 0
  BY SettingsAssumption, SMTT(30) DEF Launches
<1>2. ASSUME NEW k \in Kinds, NEW s \in Sandboxes PROVE entry[k][s] # l
  BY <1>1, SMTT(30) DEF Inv, RefsInv, EntryOK, Is
<1>3. ASSUME NEW d \in Callers PROVE call[d].l # l
  BY <1>1 DEF Inv, RefsInv, CallOK, Is
<1>. QED
  BY <1>2, <1>3

(* A launch makes a container, and may store it at once. *)
LEMMA StepCreates ==
  ASSUME Inv, NEW w \in Callers, call[w].pc \notin {"idle", "select", "route", "done"}, call[w].op = "launch",
         NEW l \in Launches, cont[l].status = "none", ContPart({call[w].l}, "launch"),
         cont'[l].kind = call[w].kind, cont'[l].s = call[w].s, cont'[l].status # "none",
         \A m \in Launches : m # l => cont'[m] = cont[m],
         cont'[l].status = "created" => call[w].kind \in Engines \cup {"wasm"},
         call[w].kind = "mock" => cont'[l].exit = "none" /\ cont'[l].status # "removed",
         CodePart, SpecPart, NEW e \in {l, Loaded(w)}, EntryMoves(w, e),
         e = l => call[w].kind \in {"microvm", "wasm", "mock"},
         NEW pc, MovesTo(w, pc, l, call[w].ok, call[w].seen), PointOK(w, pc, l), pc # "store" \/ call[w].kind \notin Engines,
         call[w].kind \in Engines => Named(call[w].kind, call[w].s) = {} /\ cont'[l].status = "created",
         call[w].kind \in {"gvisor", "runsc"} /\ Alive(l)' =>
           \A n \in Launches : Is(n, call[w].kind, call[w].s) => ~Alive(n),
         call[w].kind = "microvm" => e = l /\ pc = "done" /\ call[w].ok
  PROVE  StepOK(w)
<1>1. RefsInv /\ call[w].kind \in Kinds /\ call[w].s \in Sandboxes
  BY LoadedOK DEF Inv
<1>2. /\ \A k \in Kinds, s \in Sandboxes : entry[k][s] # l
      /\ \A d \in Callers : call[d].l # l
  BY NotNew
<1>3. Is(l, call[w].kind, call[w].s)' /\ call'[w].l = l /\ call'[w].pc = pc /\ call'[w].ok = call[w].ok
  BY DEF Is, MovesTo
<1>4. CallPart(w)
  <2>1. CallOK(w)'
    BY <1>1, <1>3, CallMoves
  <2>. QED
    BY <1>3, <2>1 DEF CallPart, MovesTo
<1>5. NewPart(w)
  BY <1>1, <1>3, SMTT(30) DEF NewPart, EntryMoves
<1>6. EntryPart({call[w].l})
  <2>1. ASSUME NEW k \in Kinds, NEW s \in Sandboxes, entry'[k][s] = entry[k][s]
        PROVE  k = "mock" /\ entry[k][s] # 0 => cont'[entry[k][s]] = cont[entry[k][s]]
    <3>1. entry[k][s] \in Launches \cup {0}
      BY <1>1, SMTT(30) DEF RefsInv, Types
    <3>2. entry[k][s] # l
      BY <1>2
    <3>. QED
      BY <3>1, <3>2
  <2>2. ASSUME e = l, NEW k \in Kinds, NEW s \in Sandboxes, k = call[w].kind, s = call[w].s
        PROVE  EntryOK(k, s)'
    <3>1. entry'[k][s] = l
      BY <2>2 DEF EntryMoves
    <3>2. cont'[l].kind = k /\ cont'[l].s = s /\ (k # "wasm" => cont'[l].status # "created")
      BY <2>2 DEF Engines
    <3>3. k = "mock" => cont'[l].exit = "none" /\ cont'[l].status # "removed"
      BY <2>2
    <3>. QED
      BY <3>1, <3>2, <3>3 DEF EntryOK, Is
  <2>3. ASSUME NEW k \in Kinds, NEW s \in Sandboxes, entry'[k][s] # entry[k][s]
        PROVE  k = call[w].kind /\ s = call[w].s /\ e = l /\ entry'[k][s] = l
    BY <1>1, <2>3 DEF EntryMoves, Loaded
  <2>4. ASSUME NEW k \in Kinds, NEW s \in Sandboxes, entry'[k][s] # entry[k][s]
        PROVE  EntryOK(k, s)'
    BY <2>2, <2>3, <2>4
  <2>. QED
    BY <2>1, <2>3, <2>4, SMTT(30) DEF EntryPart, EntryMoves
<1>7. PrivateOK(w)' /\ KilledOK(w)'
  BY <1>1, <1>2, <1>3, SMTT(30) DEF PrivateOK, KilledOK, MovesTo, Engines, EntryMoves, Loaded
<1>8. TrackPart(w)
  BY <1>1, SMTT(30) DEF TrackPart, EntryMoves, Engines, Loaded, Kinds
<1>9. MovePart(w)
  <2>1. ASSUME NEW s \in Sandboxes, entry'["microvm"][s] # entry["microvm"][s]
        PROVE  call[w].kind = "microvm" /\ call[w].s = s /\ entry'["microvm"][s] = l
    BY <1>1, <2>1 DEF EntryMoves, Loaded, Kinds
  <2>2. /\ call'[w].s = call[w].s /\ call'[w].kind = call[w].kind /\ call'[w].op = call[w].op
        /\ call'[w].pc \notin {"idle", "select", "route"}
    BY <1>3 DEF MovesTo, PointOK
  <2>. QED
    BY <2>1, <2>2 DEF MovePart
<1>. QED
  BY <1>4, <1>5, <1>6, <1>7, <1>8, <1>9 DEF StepOK

(* A launch stores its container, a kill deletes an entry. *)
LEMMA StepStores ==
  ASSUME Inv, NEW w \in Callers, call[w].op = "launch", call[w].pc = "store",
         call[w].kind \in Engines \cup {"gvisor", "runsc"},
         cont' = cont, StoreEntry(w, call[w].l), CodePart, SpecPart, Return(w, TRUE)
  PROVE  StepOK(w)
<1>1. RefsInv /\ call[w].kind \in Kinds /\ call[w].s \in Sandboxes
  BY LoadedOK DEF Inv
<1>2. PICK l \in Launches : l = call[w].l
  BY <1>1 DEF RefsInv, Types, CallRecord, CallOK
<1>3. Is(l, call[w].kind, call[w].s) /\ cont[l].status # "created"
  BY <1>1, <1>2 DEF Inv, RefsInv, CallOK, NamesInv, PrivateOK, ContOK, Is, Engines
<1>4. EntryMoves(w, l)
  BY <1>2, EntrySet DEF StoreEntry
<1>5. MovesTo(w, "done", l, TRUE, call[w].seen)
  BY <1>1, <1>2, Returns
<1>6. ContPart({call[w].l}, call[w].op) /\ NewPart(w)
  BY <1>1, ContSame DEF NewPart
<1>7. CallPart(w)
  <2>1. PointOK(w, "done", l)
    BY DEF PointOK
  <2>2. CallOK(w)'
    BY <1>1, <1>2, <1>5, <1>6, <2>1, CallMoves
  <2>. QED
    BY <1>2, <1>5, <2>2 DEF CallPart, MovesTo
<1>8. EntryPart({call[w].l})
  <2>1. ASSUME NEW k \in Kinds, NEW s \in Sandboxes, k = call[w].kind, s = call[w].s
        PROVE  EntryOK(k, s)' /\ entry'[k][s] = call[w].l
    BY <1>2, <1>3, <1>4, <2>1 DEF EntryMoves, EntryOK, Is, Engines
  <2>. QED
    BY <1>4, <2>1 DEF EntryPart, EntryMoves
<1>9. PrivateOK(w)' /\ KilledOK(w)'
  BY <1>5 DEF PrivateOK, KilledOK, MovesTo
<1>10. TrackPart(w)
  <2>1. SUFFICES ASSUME NEW k \in Engines, NEW s \in Sandboxes, entry[k][s] # 0,
                        entry'[k][s] # entry[k][s], Alive(entry[k][s])
                 PROVE  FALSE
    BY DEF TrackPart
  <2>2. k \in Kinds /\ k = call[w].kind /\ s = call[w].s
    BY <1>4, <2>1, SMTT(30) DEF EntryMoves, Engines, Kinds
  <2>3. PICK m \in Launches : m = entry[k][s]
    BY <1>1, <2>1, <2>2, SMTT(30) DEF RefsInv, Types
  <2>4. Is(m, k, s) /\ m # l /\ cont[m].status \notin {"none", "removed"}
    BY <1>1, <1>4, <2>1, <2>2, <2>3 DEF RefsInv, EntryOK, EntryMoves, Alive
  <2>5. cont[l].status \notin {"none", "removed"}
    BY <1>2, <2>2 DEF Inv, NamesInv, PrivateOK
  <2>. QED
    BY <1>3, <2>2, <2>4, <2>5 DEF Inv, NamesInv, NamesOK, Is
<1>11. MovePart(w)
  BY <1>1, <1>4, <1>5 DEF MovePart, MovesTo, Answers, EntryMoves, Engines, Kinds
<1>. QED
  BY <1>6, <1>7, <1>8, <1>9, <1>10, <1>11 DEF StepOK

LEMMA StepDeletes ==
  ASSUME Inv, NEW w \in Callers, call[w].op # "inspect", cont' = cont, DeleteEntry(w),
         CodePart, SpecPart, Return(w, TRUE),
         \/ call[w].op = "kill" /\ call[w].pc = "delete"
         \/ call[w].kind = "wasm" /\ call[w].pc = "act" /\ call[w].op \in {"kill", "shutdown"}
  PROVE  StepOK(w)
<1>1. RefsInv /\ call[w].kind \in Kinds /\ call[w].s \in Sandboxes
  BY LoadedOK DEF Inv
<1>2. EntryMoves(w, 0)
  BY EntrySet DEF DeleteEntry
<1>3. MovesTo(w, "done", call[w].l, TRUE, call[w].seen)
  BY <1>1, Returns
<1>4. ContPart({call[w].l}, call[w].op) /\ NewPart(w)
  BY <1>1, ContSame DEF NewPart
<1>5. CallPart(w)
  <2>1. PointOK(w, "done", call[w].l)
    BY DEF PointOK
  <2>2. CallOK(w)'
    BY <1>1, <1>3, <1>4, <2>1, CallMoves
  <2>. QED
    BY <1>3, <2>2 DEF CallPart, MovesTo
<1>6. EntryPart({call[w].l})
  <2>1. ASSUME NEW k \in Kinds, NEW s \in Sandboxes, k = call[w].kind, s = call[w].s
        PROVE  EntryOK(k, s)' /\ entry'[k][s] = 0
    BY <1>2, <2>1 DEF EntryMoves, EntryOK
  <2>. QED
    BY <1>2, <2>1 DEF EntryPart, EntryMoves
<1>7. PrivateOK(w)' /\ KilledOK(w)'
  BY <1>3 DEF PrivateOK, KilledOK, MovesTo
<1>8. TrackPart(w)
  <2>1. SUFFICES ASSUME NEW k \in Engines, NEW s \in Sandboxes, entry[k][s] # 0,
                        entry'[k][s] # entry[k][s], Alive(entry[k][s])
                 PROVE  At(w, k, "kill", "delete") /\ call[w].s = s /\ call[w].l # entry[k][s]
    BY DEF TrackPart
  <2>2. k \in Kinds /\ k = call[w].kind /\ s = call[w].s
    BY <1>2, <2>1, SMTT(30) DEF EntryMoves, Engines, Kinds
  <2>3. call[w].op = "kill" /\ call[w].pc = "delete" /\ cont[call[w].l].status = "removed"
    BY <2>2 DEF Inv, NamesInv, KilledOK, Engines
  <2>. QED
    BY <2>1, <2>2, <2>3 DEF At, Alive
<1>9. MovePart(w)
  BY <1>1, <1>2, <1>3, SMTT(30) DEF MovePart, MovesTo, Answers, EntryMoves, Kinds
<1>. QED
  BY <1>4, <1>5, <1>6, <1>7, <1>8, <1>9 DEF StepOK

-----------------------------------------------------------------------------
(* Docker and containerd.                                                  *)

LEMMA CallRefs ==
  ASSUME Inv, NEW w \in Callers, call[w].l # 0
  PROVE  /\ call[w].l \in Launches /\ Is(call[w].l, call[w].kind, call[w].s)
         /\ call[w].op # "launch" /\ call[w].kind # "wasm" => cont[call[w].l].status # "created"
  BY DEF Inv, RefsInv, Types, CallRecord, CallOK

LEMMA EngineImage ==
  ASSUME Inv, NEW w \in Callers, NEW k \in Engines, At(w, k, "launch", "prepare"),
         Goto(w, "create") \/ Return(w, FALSE), cont' = cont, entry' = entry, CodePart, SpecPart
  PROVE  StepOK(w)
<1>1. call[w].op = "launch" /\ call[w].pc = "prepare"
  BY DEF At
<1>2. CASE Goto(w, "create")
  BY <1>1, <1>2, StepGoes
<1>3. CASE Return(w, FALSE)
  BY <1>1, <1>3, StepReturns
<1>. QED
  BY <1>2, <1>3

LEMMA EngineCreate ==
  ASSUME Inv, NEW w \in Callers, NEW k \in Engines, At(w, k, "launch", "create"),
         \/ \E l \in Launches : /\ Named(k, call[w].s) = {} /\ Create(l, k, call[w].s, "created")
                                /\ call' = [call EXCEPT ![w].pc = "start", ![w].l = l]
         \/ UNCHANGED cont /\ Return(w, FALSE),
         entry' = entry, CodePart, SpecPart
  PROVE  StepOK(w)
<1>1. /\ call[w].kind = k /\ call[w].op = "launch" /\ call[w].pc = "create" /\ RefsInv
      /\ k \in Kinds /\ call[w].s \in Sandboxes
  BY LoadedOK DEF At, Inv
<1>2. CASE UNCHANGED cont /\ Return(w, FALSE)
  BY <1>1, <1>2, StepReturns
<1>3. ASSUME NEW l \in Launches, Named(k, call[w].s) = {}, Create(l, k, call[w].s, "created"),
             call' = [call EXCEPT ![w].pc = "start", ![w].l = l]
      PROVE  StepOK(w)
  <2>1. /\ ContPart({call[w].l}, "launch") /\ cont[l].status = "none" /\ cont'[l].status = "created"
        /\ cont'[l].kind = k /\ cont'[l].s = call[w].s
        /\ \A m \in Launches : m # l => cont'[m] = cont[m]
    BY <1>1, <1>3, ContCreated, SMTT(30) DEF Engines
  <2>2. MovesTo(w, "start", l, call[w].ok, call[w].seen)
    BY <1>1, <1>3, Takes DEF Points
  <2>3. PointOK(w, "start", l) /\ Loaded(w) # l
    BY <1>1, <2>1, NotNew, SettingsAssumption, SMTT(30) DEF PointOK, Launches, Loaded
  <2>4. EntryMoves(w, Loaded(w))
    BY EntryKept
  <2>. QED
    BY <1>1, <1>3, <2>1, <2>2, <2>3, <2>4, StepCreates DEF Engines
<1>. QED
  BY <1>2, <1>3

LEMMA EngineStart ==
  ASSUME Inv, NEW w \in Callers, NEW k \in Engines, At(w, k, "launch", "start"),
         \/ SetStatus(call[w].l, {"created"}, "running") /\ Goto(w, "store")
         \/ (Removed(call[w].l) \/ UNCHANGED cont) /\ Return(w, FALSE),
         entry' = entry, CodePart, SpecPart
  PROVE  StepOK(w)
<1>1. call[w].kind = k /\ call[w].op = "launch" /\ call[w].pc = "start" /\ RefsInv
  BY DEF At, Inv
<1>2. call[w].l # 0
  BY <1>1 DEF RefsInv, CallOK, Engines
<1>3. PICK l \in Launches : l = call[w].l /\ Is(l, k, call[w].s) /\ cont[l].kind # "mock"
  BY <1>1, <1>2, CallRefs DEF Is, Engines
<1>4. CASE SetStatus(call[w].l, {"created"}, "running") /\ Goto(w, "store")
  <2>1. /\ ContPart({call[w].l}, call[w].op) /\ NoneNew /\ cont'[l].status = "running"
        /\ \A m \in Launches : m # l => cont'[m] = cont[m]
    <3>1. Moved(l, "created", "running")
      BY <1>3, <1>4 DEF SetStatus, Moved
    <3>. QED
      BY <1>1, <1>3, <3>1, ContMoves, SMTT(30)
  <2>2. MovesTo(w, "store", l, call[w].ok, call[w].seen)
    BY <1>1, <1>3, <1>4, Goes DEF Points
  <2>3. entry[k][call[w].s] # l /\ \A d \in Callers : d # w => call[d].l # l
    BY <1>1, <1>3 DEF Inv, NamesInv, PrivateOK
  <2>4. PrivateOK(w)'
    BY <1>1, <2>1, <2>2, <2>3 DEF PrivateOK, MovesTo
  <2>. QED
    BY <1>1, <1>2, <1>3, <1>4, <2>1, <2>4, StepGoesOn
<1>5. CASE (Removed(call[w].l) \/ UNCHANGED cont) /\ Return(w, FALSE)
  <2>1. /\ ContPart({call[w].l}, call[w].op) /\ NoneNew
        /\ \A m \in Launches : m # l => cont'[m] = cont[m]
    BY <1>1, <1>3, <1>5, ContRemoved, ContSame DEF Is
  <2>2. AnswerOK(w, "done", FALSE)
    BY <1>1 DEF AnswerOK
  <2>. QED
    BY <1>1, <1>3, <1>5, <2>1, <2>2, StepEnds
<1>. QED
  BY <1>4, <1>5

LEMMA EngineSignal ==
  ASSUME Inv, NEW w \in Callers, NEW k \in Engines, At(w, k, "kill", "act"),
         Ends(call[w].l, "killed") \/ UNCHANGED cont, Goto(w, "remove"),
         entry' = entry, CodePart, SpecPart
  PROVE  StepOK(w)
<1>1. call[w].kind = k /\ call[w].op = "kill" /\ call[w].pc = "act" /\ RefsInv
  BY DEF At, Inv
<1>2. call[w].l # 0
  BY <1>1 DEF RefsInv, CallOK
<1>3. PICK l \in Launches : l = call[w].l /\ Is(l, k, call[w].s) /\ cont[l].kind # "mock"
  BY <1>1, <1>2, CallRefs DEF Is, Engines
<1>4. /\ ContPart({call[w].l}, call[w].op) /\ NoneNew
      /\ \A m \in Launches : m # l => cont'[m] = cont[m]
  BY <1>1, <1>3, ContEnds, ContSame DEF Exits
<1>. QED
  BY <1>1, <1>2, <1>3, <1>4, StepGoesOn

(* The container is the only one of its name, so that a pause or a resume  *)
(* that worked is one of the sandbox.                                      *)
LEMMA EnginePause ==
  ASSUME Inv, NEW w \in Callers, NEW k \in Engines,
         \/ EngineCall(w, k, "pause", SetStatus(call[w].l, {"running"}, "paused"))
         \/ EngineCall(w, k, "resume", SetStatus(call[w].l, {"paused"}, "running")),
         SpecPart
  PROVE  StepOK(w)
<1>1. /\ call[w].kind = k /\ call[w].op \in {"pause", "resume"} /\ call[w].pc = "act" /\ RefsInv
      /\ entry' = entry /\ CodePart
  BY Still DEF At, Inv, EngineCall
<1>2. call[w].l # 0
  BY <1>1 DEF RefsInv, CallOK
<1>3. PICK l \in Launches : l = call[w].l /\ Is(l, k, call[w].s) /\ cont[l].kind # "mock"
  BY <1>1, <1>2, CallRefs DEF Is, Engines
<1>4. CASE UNCHANGED cont /\ Return(w, FALSE)
  BY <1>1, <1>4, StepReturns
<1>5. ASSUME NEW from, NEW to, Moved(l, from, to), Return(w, TRUE),
             \/ from = "running" /\ to = "paused" /\ call[w].op = "pause"
             \/ from = "paused" /\ to = "running" /\ call[w].op = "resume"
      PROVE  StepOK(w)
  <2>1. /\ ContPart({call[w].l}, call[w].op) /\ NoneNew /\ cont'[l].status = to
        /\ \A m \in Launches : m # l => cont'[m] = cont[m]
    BY <1>1, <1>3, <1>5, ContMoves, SMTT(30)
  <2>2. ASSUME NEW m \in Launches, Is(m, k, call[w].s), m # l PROVE cont'[m].status \in {"none", "removed"}
    BY <1>3, <1>5, <2>1, <2>2 DEF Inv, NamesInv, NamesOK, Is, Moved
  <2>3. AnswerOK(w, "done", TRUE)
    BY <1>1, <1>5, <2>1, <2>2 DEF AnswerOK, Engines
  <2>. QED
    BY <1>1, <1>3, <1>5, <2>1, <2>3, StepEnds
<1>. QED
  BY <1>1, <1>3, <1>4, <1>5 DEF EngineCall, At, SetStatus, Moved

(* A call of the engine that changes no container. *)
LEMMA StepAsks ==
  ASSUME Inv, NEW w \in Callers, call[w].pc = "act", cont' = cont, entry' = entry, code' = code, SpecPart,
         Return(w, TRUE) \/ Return(w, FALSE),
         call[w].op \in {"shutdown", "snapshot", "exec", "logs"}
  PROVE  StepOK(w)
<1>1. CodePart
  BY Still DEF Inv
<1>. QED
  BY <1>1, StepReturns

LEMMA EngineRemoves ==
  ASSUME Inv, NEW w \in Callers, NEW k \in Engines, At(w, k, "kill", "remove"),
         Removed(call[w].l) \/ SetStatus(call[w].l, {"exited"}, "removed"), Goto(w, "delete"),
         entry' = entry, CodePart, SpecPart
  PROVE  StepOK(w)
<1>1. call[w].kind = k /\ call[w].op = "kill" /\ call[w].pc = "remove" /\ RefsInv
  BY DEF At, Inv
<1>2. call[w].l # 0
  BY <1>1 DEF RefsInv, CallOK
<1>3. PICK l \in Launches : l = call[w].l /\ Is(l, k, call[w].s) /\ cont[l].kind # "mock"
  BY <1>1, <1>2, CallRefs DEF Is, Engines
<1>4. /\ ContPart({call[w].l}, call[w].op) /\ NoneNew /\ cont'[l].status = "removed"
      /\ \A m \in Launches : m # l => cont'[m] = cont[m]
  <2>1. CASE Removed(l)
    BY <1>1, <1>3, <2>1, ContRemoved DEF Is
  <2>2. CASE SetStatus(l, {"exited"}, "removed")
    BY <1>1, <1>3, <2>2, ContDeleted, SMTT(30)
  <2>. QED
    BY <1>3, <2>1, <2>2
<1>5. MovesTo(w, "delete", l, call[w].ok, call[w].seen)
  BY <1>1, <1>3, Goes DEF Points
<1>6. KilledOK(w)'
  BY <1>1, <1>4, <1>5 DEF KilledOK, MovesTo, Engines
<1>. QED
  BY <1>1, <1>2, <1>3, <1>4, <1>6, StepGoesOn

LEMMA CodeSet ==
  ASSUME RefsInv, NEW l \in Launches, NEW v \in Codes, code' = [code EXCEPT ![l] = v],
         v = "none" \/ TrueCode(l, v)'
  PROVE  CodePart
<1>1. code' \in [Launches -> Codes] /\ code'[l] = v /\ \A m \in Launches : m # l => code'[m] = code[m]
  BY DEF RefsInv, Types
<1>2. ASSUME NEW m \in Launches PROVE code'[m] \in {"none", code[m]} \/ TrueCode(m, code[m])'
  BY <1>1 DEF TrueCode
<1>. QED
  BY <1>1, <1>2 DEF CodePart

(* The code that is copied is that of the container. *)
LEMMA DockerCopies ==
  ASSUME Inv, NEW w \in Callers, UNCHANGED specificVars, DockerInspect(w) \/ DockerWait(w)
  PROVE  StepOK(w)
<1>1. /\ call[w].pc = "act" /\ call[w].op \in {"inspect", "wait"} /\ RefsInv /\ SpecPart /\ cont' = cont
      /\ entry' = entry /\ call[w].l # 0
  BY Still DEF At, Inv, DockerInspect, DockerWait, RefsInv, CallOK
<1>2. PICK l \in Launches : l = call[w].l /\ cont[l].status # "created"
  BY <1>1, CallRefs DEF Is, DockerInspect, DockerWait, At
<1>3. PICK v : v = cont[l].exit
  OBVIOUS
<1>4. v \in Codes /\ (v # "none" => TrueCode(l, v)')
  BY <1>1, <1>2, <1>3 DEF RefsInv, Types, Container, Codes, TrueCode
<1>5. CodePart
  <2>1. code' = code \/ code' = [code EXCEPT ![l] = v]
    BY <1>2, <1>3 DEF DockerInspect, DockerWait
  <2>. QED
    BY <1>1, <1>4, <2>1, CodeSet, Still
<1>6. \/ Return(w, FALSE)
      \/ Return(w, TRUE) /\ call[w].op = "wait"
      \/ Report(w, "running") /\ call[w].op = "inspect"
      \/ Report(w, v) /\ call[w].op = "inspect" /\ v # "none"
  <2>1. CASE DockerInspect(w)
    <3>1. /\ \/ Return(w, FALSE)
             \/ /\ cont[l].status \notin {"none", "removed"}
                /\ IF Alive(l) THEN Report(w, "running") ELSE Report(w, v)
          /\ call[w].op = "inspect"
      BY <1>2, <1>3, <2>1 DEF DockerInspect, At
    <3>2. cont[l].status \in Statuses /\ ContOK(l)
      BY <1>1 DEF RefsInv, Types, Container
    <3>3. cont[l].status \notin {"none", "removed"} /\ ~Alive(l) => v # "none"
      BY <1>2, <1>3, <3>2 DEF Alive, ContOK, Statuses
    <3>. QED
      BY <3>1, <3>3
  <2>2. CASE DockerWait(w)
    BY <2>2 DEF DockerWait, At
  <2>. QED
    BY <2>1, <2>2
<1>7. CASE Return(w, FALSE)
  BY <1>1, <1>5, <1>7, StepReturns
<1>8. CASE Return(w, TRUE) /\ call[w].op = "wait"
  BY <1>1, <1>5, <1>8, StepReturns
<1>9. CASE Report(w, "running") /\ call[w].op = "inspect"
  BY <1>1, <1>5, <1>9, StepReports
<1>10. CASE Report(w, v) /\ call[w].op = "inspect" /\ v # "none"
  <2>1. call'[w].l = l
    BY <1>1, <1>2, <1>4, <1>10, Reports DEF MovesTo
  <2>2. TrueCode(call[w].l, v)'
    BY <1>2, <1>4, <1>10, <2>1
  <2>. QED
    BY <1>1, <1>4, <1>5, <1>10, <2>2, StepReports
<1>. QED
  BY <1>6, <1>7, <1>8, <1>9, <1>10

(* Shutdown ends the container of the call, with some code. *)
LEMMA StepStops ==
  ASSUME Inv, NEW w \in Callers, call[w].kind \in Engines, call[w].op = "shutdown",
         call[w].pc \in {"act", "ending"}, NEW e \in Exits, Ends(call[w].l, e), Return(w, TRUE),
         entry' = entry, CodePart, SpecPart
  PROVE  StepOK(w)
<1>1. RefsInv /\ call[w].l # 0
  BY DEF Inv, RefsInv, CallOK
<1>2. call[w].l \in Launches /\ cont[call[w].l].kind # "mock"
  BY <1>1, CallRefs DEF Is, Engines
<1>3. /\ ContPart({call[w].l}, call[w].op) /\ NoneNew
      /\ \A m \in Launches : m # call[w].l => cont'[m] = cont[m]
  BY <1>1, <1>2, ContEnds
<1>4. AnswerOK(w, "done", TRUE)
  BY DEF AnswerOK
<1>. QED
  BY <1>1, <1>2, <1>3, <1>4, StepEnds

LEMMA DockerSteps ==
  ASSUME Inv, NEW w \in Callers, Docker(w), UNCHANGED specificVars
  PROVE  StepOK(w)
<1>1. /\ RefsInv /\ SpecPart /\ (code' = code => CodePart) /\ "docker" \in Engines
      /\ "killed" \in Exits
  BY Still DEF Inv, Engines, Exits
<1>2. CASE DockerImage(w)
  BY <1>1, <1>2, EngineImage DEF DockerImage
<1>3. CASE DockerCreate(w)
  BY <1>1, <1>3, EngineCreate DEF DockerCreate
<1>4. CASE DockerStart(w)
  BY <1>1, <1>4, EngineStart DEF DockerStart
<1>5. CASE DockerStore(w)
  BY <1>1, <1>5, StepStores DEF DockerStore, At
<1>6. CASE DockerInspect(w) \/ DockerWait(w)
  BY <1>6, DockerCopies
<1>7. CASE DockerKillStop(w)
  BY <1>1, <1>7, EngineSignal DEF DockerKillStop
<1>8. CASE DockerKillRemove(w)
  <2>1. CASE Removed(call[w].l) /\ Goto(w, "delete")
    BY <1>1, <1>8, <2>1, EngineRemoves DEF DockerKillRemove
  <2>2. CASE UNCHANGED cont /\ Return(w, FALSE)
    BY <1>1, <1>8, <2>2, StepReturns DEF DockerKillRemove, At
  <2>. QED
    BY <1>8, <2>1, <2>2 DEF DockerKillRemove
<1>9. CASE DockerKillDelete(w)
  BY <1>1, <1>9, StepDeletes DEF DockerKillDelete, At
<1>10. CASE DockerShutdown(w)
  <2>1. At(w, "docker", "shutdown", "act") /\ code' = code /\ entry' = entry
    BY <1>10 DEF DockerShutdown, EngineCall
  <2>2. call[w].kind = "docker" /\ call[w].op = "shutdown" /\ call[w].pc = "act"
    BY <2>1 DEF At
  <2>3. CASE UNCHANGED cont /\ Return(w, FALSE)
    BY <1>1, <2>1, <2>2, <2>3, StepAsks
  <2>4. ASSUME NEW e \in Exits, Ends(call[w].l, e), Return(w, TRUE) PROVE StepOK(w)
    BY <1>1, <2>1, <2>2, <2>4, StepStops
  <2>. QED
    BY <1>10, <2>3, <2>4 DEF DockerShutdown, EngineCall
<1>11. CASE DockerPause(w) \/ DockerResume(w)
  BY <1>1, <1>11, EnginePause DEF DockerPause, DockerResume
<1>12. CASE DockerSnapshot(w) \/ DockerExec(w) \/ DockerLogs(w)
  BY <1>1, <1>12, StepAsks DEF DockerSnapshot, DockerExec, DockerLogs, EngineCall, At
<1>13. CASE Load(w, "docker", "kill", TRUE)
  BY <1>1, <1>13, StepLoads
<1>14. ASSUME NEW op, Load(w, "docker", op, FALSE) PROVE StepOK(w)
  BY <1>1, <1>14, StepLoads
<1>. QED
  BY <1>2, <1>3, <1>4, <1>5, <1>6, <1>7, <1>8, <1>9, <1>10, <1>11, <1>12, <1>13, <1>14 DEF Docker

LEMMA ReceivedTrue ==
  ASSUME RefsInv, NEW l \in Launches, NEW v \in Received(l), Receive(l, v), cont' = cont,
         reader' \subseteq reader, UNCHANGED <<reaped, modules, waiter>>, cont[l].kind = "containerd"
  PROVE  SpecPart /\ v \in Codes /\ TrueCode(l, v)'
<1>1. /\ channel \in [Launches -> {"open", "closed"}] /\ waiter \in [Sandboxes -> Launches \cup {0}]
      /\ reader \subseteq Launches /\ reaped \subseteq Launches /\ modules \subseteq Launches
  BY DEF RefsInv, Types
<1>2. /\ channel' \in [Launches -> {"open", "closed"}] /\ channel'[l] = "closed"
      /\ \A m \in Launches : channel[m] = "closed" => channel'[m] = "closed"
  BY <1>1 DEF Receive
<1>3. SpecPart
  BY <1>1, <1>2 DEF SpecPart
<1>4. v \in Codes
  BY DEF RefsInv, Types, Container, Received, Codes, Exits
<1>. QED
  BY <1>3, <1>4 DEF TrueCode

LEMMA ContainerdReceives ==
  ASSUME Inv, NEW w \in Callers, UNCHANGED <<waiting, reaped, modules, wasi, waiter, halting>>,
         ContainerdEnded(w) \/ ContainerdWait(w)
  PROVE  StepOK(w)
<1>1. /\ call[w].kind = "containerd" /\ call[w].op \in {"shutdown", "wait"}
      /\ call[w].pc \in {"act", "ending"} /\ RefsInv /\ cont' = cont /\ entry' = entry
      /\ reader' = reader /\ call[w].l # 0
  BY DEF At, Inv, ContainerdEnded, ContainerdWait, RefsInv, CallOK
<1>2. PICK l \in Launches : l = call[w].l /\ cont[l].kind = "containerd"
  BY <1>1, CallRefs DEF Is
<1>3. CASE Return(w, FALSE) /\ UNCHANGED <<code, channel>>
  <2>1. CodePart /\ SpecPart
    BY <1>1, <1>3, Still DEF specificVars
  <2>. QED
    BY <1>1, <1>3, <2>1, StepReturns
<1>4. ASSUME NEW v \in Received(l), Receive(l, v), Return(w, TRUE),
             code' = code \/ code' = [code EXCEPT ![l] = v]
      PROVE  StepOK(w)
  <2>1. SpecPart /\ v \in Codes /\ TrueCode(l, v)'
    BY <1>1, <1>2, <1>4, ReceivedTrue
  <2>2. CodePart
    BY <1>1, <1>4, <2>1, CodeSet, Still
  <2>. QED
    BY <1>1, <1>4, <2>1, <2>2, StepReturns
<1>. QED
  BY <1>2, <1>3, <1>4 DEF ContainerdEnded, ContainerdWait

(* What is told is recorded. *)
LEMMA CodeTold ==
  ASSUME Inv, NEW w \in Callers, call[w].pc = "act", call[w].op = "inspect",
         cont' = cont, entry' = entry, code' = code, SpecPart, NEW v,
         v = "running" \/ (v = code[call[w].l] /\ v # "none"), Report(w, v)
  PROVE  StepOK(w)
<1>1. RefsInv /\ CodePart /\ call[w].l # 0 /\ ContPart({call[w].l}, call[w].op)
  BY Still, ContSame DEF Inv, RefsInv, CallOK
<1>2. PICK l \in Launches : l = call[w].l
  BY <1>1, CallRefs
<1>3. v \in Codes \cup {"running"}
  BY <1>1, <1>2, SMTT(30) DEF RefsInv, Types
<1>4. v = "running" \/ TrueCode(l, v)
  BY <1>1, <1>2 DEF RefsInv, CodeOK
<1>5. v = "running" \/ TrueCode(l, v)'
  BY <1>1, <1>4, CodeStays
<1>6. call'[w].l = l
  BY <1>1, <1>2, <1>3, Reports DEF MovesTo
<1>7. v = "running" \/ TrueCode(call[w].l, v)'
  BY <1>5, <1>6
<1>. QED
  BY <1>1, <1>3, <1>7, StepReports

LEMMA ContainerdSteps ==
  ASSUME Inv, NEW w \in Callers, Containerd(w), UNCHANGED <<waiting, reaped, modules, wasi, waiter, halting>>
  PROVE  StepOK(w)
<1>1. /\ RefsInv /\ (UNCHANGED <<channel, reader>> => SpecPart) /\ (code' = code => CodePart)
      /\ "containerd" \in Engines /\ "killed" \in Exits
  BY Still DEF Inv, Engines, Exits, specificVars
<1>2. CASE ContainerdImage(w)
  BY <1>1, <1>2, EngineImage DEF ContainerdImage
<1>3. CASE ContainerdCreate(w)
  BY <1>1, <1>3, EngineCreate DEF ContainerdCreate
<1>4. CASE ContainerdStart(w)
  BY <1>1, <1>4, EngineStart DEF ContainerdStart
<1>5. CASE ContainerdStore(w)
  <2>1. /\ At(w, "containerd", "launch", "store") /\ cont' = cont /\ code' = code /\ channel' = channel
        /\ reader' = reader \cup {call[w].l}
    BY <1>5 DEF ContainerdStore
  <2>2. call[w].l \in Launches /\ Is(call[w].l, "containerd", call[w].s)
    BY <1>1, <2>1, CallRefs DEF At, RefsInv, CallOK
  <2>3. SpecPart
    BY <1>1, <2>1, <2>2 DEF SpecPart, RefsInv, Types, Is
  <2>. QED
    BY <1>1, <1>5, <2>1, <2>3, StepStores DEF ContainerdStore, At
<1>6. CASE ContainerdInspect(w)
  <2>1. PICK v : v = IF cont[call[w].l].status = "exited" /\ code[call[w].l] # "none"
                     THEN code[call[w].l] ELSE "running"
    OBVIOUS
  <2>2. Report(w, v) /\ (v = "running" \/ (v = code[call[w].l] /\ v # "none"))
    BY <1>6, <2>1 DEF ContainerdInspect
  <2>. QED
    BY <1>1, <1>6, <2>2, CodeTold DEF ContainerdInspect, At
<1>7. CASE ContainerdEnded(w) \/ ContainerdWait(w)
  BY <1>7, ContainerdReceives
<1>8. CASE ContainerdKillSignal(w)
  BY <1>1, <1>8, EngineSignal DEF ContainerdKillSignal
<1>9. CASE ContainerdKillRemove(w)
  <2>1. CASE SetStatus(call[w].l, {"exited"}, "removed") /\ Goto(w, "delete")
    BY <1>1, <1>9, <2>1, EngineRemoves DEF ContainerdKillRemove
  <2>2. CASE UNCHANGED cont /\ Return(w, FALSE)
    BY <1>1, <1>9, <2>2, StepReturns DEF ContainerdKillRemove, At
  <2>. QED
    BY <1>9, <2>1, <2>2 DEF ContainerdKillRemove
<1>10. CASE ContainerdKillDelete(w)
  BY <1>1, <1>10, StepDeletes DEF ContainerdKillDelete, At
<1>11. CASE ContainerdShutdown(w)
  <2>1. CASE Goto(w, "ending")
    BY <1>1, <1>11, <2>1, StepGoes DEF ContainerdShutdown, At
  <2>2. CASE Return(w, FALSE)
    BY <1>1, <1>11, <2>2, StepReturns DEF ContainerdShutdown, At
  <2>. QED
    BY <1>11, <2>1, <2>2 DEF ContainerdShutdown
<1>12. CASE ContainerdForced(w)
  <2>1. /\ At(w, "containerd", "shutdown", "ending") /\ code' = code /\ entry' = entry
        /\ UNCHANGED <<channel, reader>>
    BY <1>12 DEF ContainerdForced
  <2>2. /\ call[w].kind = "containerd" /\ call[w].op = "shutdown" /\ call[w].pc = "ending"
        /\ call[w].l # 0
    BY <1>1, <2>1 DEF At, RefsInv, CallOK
  <2>3. CASE UNCHANGED cont /\ Return(w, FALSE)
    BY <1>1, <2>1, <2>2, <2>3, StepReturns
  <2>4. CASE Ends(call[w].l, "killed") /\ Return(w, TRUE)
    BY <1>1, <2>1, <2>2, <2>4, StepStops
  <2>. QED
    BY <1>12, <2>3, <2>4 DEF ContainerdForced
<1>13. CASE UNCHANGED <<channel, reader>> /\ (ContainerdPause(w) \/ ContainerdResume(w))
  BY <1>1, <1>13, EnginePause DEF ContainerdPause, ContainerdResume
<1>14. CASE UNCHANGED <<channel, reader>> /\ (ContainerdSnapshot(w) \/ ContainerdExec(w))
  BY <1>1, <1>14, StepAsks DEF ContainerdSnapshot, ContainerdExec, EngineCall, At
<1>15. CASE UNCHANGED <<channel, reader>> /\ ContainerdLogs(w)
  BY <1>1, <1>15, StepReturns DEF ContainerdLogs, At
<1>16. CASE UNCHANGED <<channel, reader>> /\ Load(w, "containerd", "kill", TRUE)
  BY <1>1, <1>16, StepLoads
<1>17. ASSUME NEW op, Load(w, "containerd", op, FALSE), UNCHANGED <<channel, reader>> PROVE StepOK(w)
  BY <1>1, <1>17, StepLoads
<1>. QED
  BY <1>2, <1>3, <1>4, <1>5, <1>6, <1>7, <1>8, <1>9, <1>10, <1>11, <1>12, <1>13, <1>14, <1>15, <1>16, <1>17
     DEF Containerd, ContainerdCalls

-----------------------------------------------------------------------------
(* The runtimes of runsc.                                                  *)

Runscs == {"gvisor", "runsc"}

LEMMA Targets ==
  ASSUME Inv, NEW w \in Callers, call[w].kind \in Runscs
  PROVE  /\ \A l \in Target(w) : l \in Launches /\ Alive(l) /\ Is(l, call[w].kind, call[w].s)
         /\ \A n \in Launches : Is(n, call[w].kind, call[w].s) /\ Alive(n) => n \in Target(w)
         /\ \A l, n \in Target(w) : l = n
  BY DEF Target, Named, Is, Alive, Inv, NamesInv, NamesOK, Runscs

LEMMA GVisorStarts ==
  ASSUME Inv, NEW w \in Callers, NEW k \in Runscs, GVisorStart(w, k),
         UNCHANGED <<channel, reader, modules, wasi, waiter, halting>>
  PROVE  StepOK(w)
<1>1. /\ call[w].kind = k /\ call[w].op = "launch" /\ call[w].pc = "start" /\ RefsInv
      /\ k \in Kinds /\ call[w].s \in Sandboxes /\ k \notin Engines
  BY LoadedOK DEF At, Inv, GVisorStart, Runscs, Engines
<1>2. CodePart /\ SpecPart /\ entry' = entry
  BY <1>1, Still DEF GVisorStart
<1>3. CASE UNCHANGED cont /\ Return(w, FALSE)
  BY <1>1, <1>2, <1>3, StepReturns
<1>4. ASSUME NEW l \in Launches, call' = [call EXCEPT ![w].pc = "store", ![w].l = l],
             cont[l].status = "none", ContPart({call[w].l}, "launch"),
             cont'[l].status \in {"running", "removed"}, cont'[l].kind = k, cont'[l].s = call[w].s,
             \A m \in Launches : m # l => cont'[m] = cont[m],
             cont'[l].status = "running" => Target(w) = {}
      PROVE  StepOK(w)
  <2>1. MovesTo(w, "store", l, call[w].ok, call[w].seen)
    BY <1>1, <1>4, Takes DEF Points
  <2>2. PointOK(w, "store", l) /\ Loaded(w) # l
    BY <1>1, <1>4, NotNew, SettingsAssumption, SMTT(30) DEF PointOK, Launches, Loaded
  <2>3. EntryMoves(w, Loaded(w))
    BY <1>2, EntryKept
  <2>4. Alive(l)' => \A n \in Launches : Is(n, call[w].kind, call[w].s) => ~Alive(n)
    BY <1>1, <1>4, Targets, SMTT(30) DEF Alive
  <2>. QED
    BY <1>1, <1>2, <1>4, <2>1, <2>2, <2>3, <2>4, StepCreates DEF Runscs
<1>5. ASSUME NEW l \in Launches, Target(w) = {}, Create(l, k, call[w].s, "running"),
             call' = [call EXCEPT ![w].pc = "store", ![w].l = l]
      PROVE  StepOK(w)
  <2>1. /\ ContPart({call[w].l}, "launch") /\ cont[l].status = "none" /\ cont'[l].status = "running"
        /\ cont'[l].kind = k /\ cont'[l].s = call[w].s
        /\ \A m \in Launches : m # l => cont'[m] = cont[m]
    BY <1>1, <1>5, ContCreated, SMTT(30)
  <2>. QED
    BY <1>4, <1>5, <2>1
<1>6. ASSUME NEW l \in Launches, Refused(l, k, call[w].s),
             call' = [call EXCEPT ![w].pc = "store", ![w].l = l]
      PROVE  StepOK(w)
  <2>1. /\ ContPart({call[w].l}, "launch") /\ cont[l].status = "none" /\ cont'[l].status = "removed"
        /\ cont'[l].kind = k /\ cont'[l].s = call[w].s
        /\ \A m \in Launches : m # l => cont'[m] = cont[m]
    BY <1>1, <1>6, ContRefused
  <2>. QED
    BY <1>4, <1>6, <2>1
<1>. QED
  BY <1>3, <1>5, <1>6 DEF GVisorStart, Refused

(* A kill or a snapshot ends or removes what has the name. *)
LEMMA GVisorEnds ==
  ASSUME Inv, NEW w \in Callers, NEW k \in Runscs, UNCHANGED <<channel, reader, modules, wasi, waiter, halting>>,
         \/ GVisorKillSignal(w, k) \/ GVisorKillRemove(w, k)
         \/ GVisorSnapshot(w, k) /\ reaped' = reaped
  PROVE  StepOK(w)
<1>1. /\ call[w].kind = k /\ call[w].op \in {"kill", "snapshot"} /\ call[w].pc \in {"act", "remove"}
      /\ RefsInv /\ entry' = entry /\ code' = code /\ reaped' = reaped /\ k \notin Engines
  BY DEF At, Inv, GVisorKillSignal, GVisorKillRemove, GVisorSnapshot, EngineCall, Engines, Runscs
<1>2. CodePart /\ SpecPart /\ "killed" \in Exits /\ call[w].l # 0
  BY <1>1, Still DEF Exits, RefsInv, CallOK
<1>3. /\ \A l \in Target(w) : l \in Launches /\ Is(l, k, call[w].s)
      /\ call[w].l \in Launches /\ Is(call[w].l, k, call[w].s)
  BY <1>1, <1>2, Targets, CallRefs
<1>4. /\ ContPart({call[w].l}, call[w].op) /\ NoneNew
      /\ \A m \in Launches : cont[m].kind = "mock" => cont'[m] = cont[m]
  <2>1. CASE cont' = cont
    BY <1>1, <2>1, ContSame
  <2>2. ASSUME NEW l \in Launches, Is(l, k, call[w].s), Ends(l, "killed") \/ Removed(l)
        PROVE  <1>4!:
    <3>1. cont[l].kind = k /\ cont[l].status # "none" /\ k # "mock"
      BY <2>2 DEF Is, Runscs
    <3>2. CASE Ends(l, "killed")
      BY <1>1, <1>2, <3>1, <3>2, ContEnds
    <3>3. CASE Removed(l)
      BY <1>1, <3>1, <3>3, ContRemoved
    <3>. QED
      BY <2>2, <3>2, <3>3
  <2>. QED
    BY <1>3, <2>1, <2>2 DEF GVisorKillSignal, GVisorKillRemove, GVisorSnapshot, EngineCall
<1>5. CASE GVisorKillSignal(w, k)
  <2>1. Goto(w, "remove") /\ call[w].op = "kill"
    BY <1>5 DEF GVisorKillSignal, At
  <2>. QED
    BY <1>1, <1>2, <1>4, <2>1, StepGoesOn
<1>6. CASE GVisorKillRemove(w, k)
  <2>1. Goto(w, "delete") /\ call[w].op = "kill"
    BY <1>6 DEF GVisorKillRemove, At
  <2>2. KilledOK(w)'
    <3>1. call'[w].kind = k
      BY <1>1, <2>1, Goes DEF MovesTo, Points
    <3>. QED
      BY <3>1 DEF KilledOK, Runscs, Engines
  <2>. QED
    BY <1>1, <1>2, <1>4, <2>1, <2>2, StepGoesOn
<1>7. CASE GVisorSnapshot(w, k)
  <2>1. call[w].op = "snapshot" /\ (Return(w, TRUE) \/ Return(w, FALSE))
    BY <1>7 DEF GVisorSnapshot, EngineCall, At
  <2>2. AnswerOK(w, "done", TRUE) /\ AnswerOK(w, "done", FALSE)
    BY <2>1 DEF AnswerOK
  <2>. QED
    BY <1>1, <1>2, <1>4, <2>1, <2>2, StepEnds
<1>. QED
  BY <1>5, <1>6, <1>7

(* One container of a name is alive, so that a pause or a resume that      *)
(* worked is one of the sandbox.                                           *)
LEMMA GVisorPauses ==
  ASSUME Inv, NEW w \in Callers, NEW k \in Runscs, UNCHANGED <<channel, reader, reaped, modules, waiter>>,
         GVisorPause(w, k) \/ GVisorResume(w, k)
  PROVE  StepOK(w)
<1>1. /\ call[w].kind = k /\ call[w].op \in {"pause", "resume"} /\ call[w].pc = "act" /\ RefsInv
      /\ entry' = entry /\ CodePart /\ SpecPart /\ k \notin Engines \cup {"mock"}
  BY Still DEF At, Inv, EngineCall, GVisorPause, GVisorResume, Engines, Runscs
<1>2. CASE UNCHANGED cont /\ Return(w, FALSE)
  BY <1>1, <1>2, StepReturns
<1>3. ASSUME NEW l \in Target(w), NEW from, NEW to, Moved(l, from, to), Return(w, TRUE),
             \/ from = "running" /\ to = "paused" /\ call[w].op = "pause"
             \/ from = "paused" /\ to = "running" /\ call[w].op = "resume"
      PROVE  StepOK(w)
  <2>1. l \in Launches /\ cont[l].kind = k
    BY <1>1, <1>3, Targets DEF Is
  <2>2. /\ ContPart({call[w].l}, call[w].op) /\ NoneNew /\ cont'[l].status = to
        /\ \A m \in Launches : m # l => cont'[m] = cont[m]
    BY <1>1, <1>3, <2>1, ContMoves, SMTT(30)
  <2>3. ASSUME NEW m \in Launches, Is(m, k, call[w].s), m # l
        PROVE  cont'[m].status \notin {"running", "paused"}
    BY <1>1, <1>3, <2>2, <2>3, Targets, SMTT(30) DEF Alive
  <2>4. AnswerOK(w, "done", TRUE)
    BY <1>1, <1>3, <2>2, <2>3 DEF AnswerOK
  <2>. QED
    BY <1>1, <1>3, <2>1, <2>2, <2>4, StepEnds
<1>. QED
  BY <1>1, <1>2, <1>3 DEF EngineCall, GVisorPause, GVisorResume, At, SetStatus, Moved

(* A call that turns to another operation or runtime. *)
LEMMA StepTurns ==
  ASSUME Inv, NEW w \in Callers, call[w].pc \notin {"idle", "done"}, cont' = cont, entry' = entry, code' = code, SpecPart,
         NEW r \in CallRecord, call' = [call EXCEPT ![w] = r],
         r.s = call[w].s, r.l = call[w].l, r.pc \in {"load", "prepare", "route", "done"},
         call[w].pc \notin {"select", "route"} =>
           /\ r.kind = call[w].kind /\ r.pc = "load" /\ r.op # "launch"
           /\ call[w].op = "shutdown" /\ r.op = "kill" /\ r.kind # "wasm",
         call[w].pc \in {"select", "route"} => r.op = call[w].op,
         r.pc = "done" => ~r.ok /\ ~(call[w].kind = "microvm" /\ call[w].op = "kill"),
         r.pc \in {"prepare", "route"} => call[w].pc \in {"select", "route"},
         r.pc = "prepare" => r.ok
  PROVE  StepOK(w)
<1>1. RefsInv /\ CodePart /\ ContPart({call[w].l}, call[w].op) /\ NoneNew
  BY Still, ContSame DEF Inv
<1>2. /\ call' \in [Callers -> CallRecord] /\ call'[w] = r
      /\ \A d \in Callers : d # w => call'[d] = call[d]
  BY <1>1 DEF RefsInv, Types
<1>3. CallOK(w)
  BY <1>1 DEF RefsInv
<1>4. call[w].pc \in {"select", "route"} => r.l = 0
  BY <1>3 DEF CallOK
<1>5. r.s \in Sandboxes /\ (r.l # 0 => r.l \in Launches /\ Is(r.l, r.kind, r.s)' /\ cont'[r.l].status # "created")
  BY <1>3, <1>4, CallRefs DEF CallOK, Is
<1>6. CallOK(w)'
  BY <1>2, <1>4, <1>5 DEF CallOK, Is
<1>7. CallPart(w)
  BY <1>2, <1>6 DEF CallPart
<1>8. NewPart(w) /\ TrackPart(w) /\ EntryPart({call[w].l})
  BY <1>1 DEF NewPart, TrackPart, EntryPart, RefsInv, Types
<1>9. PrivateOK(w)' /\ KilledOK(w)'
  BY <1>2 DEF PrivateOK, KilledOK
<1>10. MovePart(w)
  BY <1>2 DEF MovePart, Answers
<1>. QED
  BY <1>1, <1>7, <1>8, <1>9, <1>10 DEF StepOK

LEMMA GVisorForces ==
  ASSUME Inv, NEW w \in Callers, NEW k \in Runscs, GVisorForced(w, k),
         UNCHANGED <<channel, reader, modules, wasi, waiter, halting>>
  PROVE  StepOK(w)
<1>1. /\ call[w].kind = k /\ call[w].op = "shutdown" /\ call[w].pc = "ending" /\ k # "wasm" /\ RefsInv
      /\ cont' = cont /\ entry' = entry /\ code' = code /\ SpecPart
  BY Still DEF At, Inv, GVisorForced, Runscs
<1>2. PICK q : q = [call[w] EXCEPT !.op = "kill"]
  OBVIOUS
<1>3. PICK r : r = [q EXCEPT !.pc = "load"]
  OBVIOUS
<1>4. /\ call[w] \in CallRecord /\ call' = [call EXCEPT ![w] = r]
      /\ "kill" \in Operations /\ "load" \in Points
  BY <1>1, <1>2, <1>3 DEF RefsInv, Types, GVisorForced, Operations, Points
<1>5. q \in CallRecord /\ q.op = "kill" /\ q.kind = call[w].kind /\ q.s = call[w].s /\ q.l = call[w].l
  BY <1>2, <1>4, SetsOp, SMTT(30)
<1>6. /\ r \in CallRecord /\ r.op = "kill" /\ r.kind = call[w].kind /\ r.s = call[w].s /\ r.l = call[w].l
      /\ r.pc = "load"
  BY <1>3, <1>4, <1>5, SetsPc, SMTT(30)
<1>. QED
  BY <1>1, <1>4, <1>6, StepTurns

LEMMA GVisorStepsOK ==
  ASSUME Inv, NEW w \in Callers, NEW k \in Runscs, GVisorSteps(w, k),
         UNCHANGED <<channel, reader, modules, wasi, waiter, halting>>
  PROVE  StepOK(w)
<1>1. /\ RefsInv /\ (reaped' = reaped => SpecPart) /\ (code' = code => CodePart)
      /\ k \notin Engines /\ k # "microvm"
  BY Still DEF Inv, Engines, Runscs
<1>2. CASE GVisorPrepare(w, k)
  <2>1. CASE Goto(w, "start")
    BY <1>1, <1>2, <2>1, StepGoes DEF GVisorPrepare, At
  <2>2. CASE Return(w, FALSE)
    BY <1>1, <1>2, <2>2, StepReturns DEF GVisorPrepare, At
  <2>. QED
    BY <1>2, <2>1, <2>2 DEF GVisorPrepare
<1>3. CASE GVisorStart(w, k)
  BY <1>3, GVisorStarts
<1>4. CASE GVisorStore(w, k)
  BY <1>1, <1>4, StepStores DEF GVisorStore, At, Runscs
<1>5. CASE GVisorInspect(w, k)
  <2>1. PICK v : v = IF code[call[w].l] = "none" THEN "running" ELSE code[call[w].l]
    OBVIOUS
  <2>2. Report(w, v) /\ (v = "running" \/ (v = code[call[w].l] /\ v # "none"))
    BY <1>5, <2>1 DEF GVisorInspect
  <2>. QED
    BY <1>1, <1>5, <2>2, CodeTold DEF GVisorInspect, At
<1>6. CASE GVisorKillSignal(w, k) \/ GVisorKillRemove(w, k)
  BY <1>6, GVisorEnds
<1>7. CASE GVisorKillDelete(w, k)
  BY <1>1, <1>7, StepDeletes DEF GVisorKillDelete, At
<1>8. CASE GVisorShutdown(w, k)
  <2>1. CASE Goto(w, "ending")
    BY <1>1, <1>8, <2>1, StepGoes DEF GVisorShutdown, At
  <2>2. CASE Return(w, FALSE)
    BY <1>1, <1>8, <2>2, StepReturns DEF GVisorShutdown, At
  <2>. QED
    BY <1>8, <2>1, <2>2 DEF GVisorShutdown
<1>9. CASE GVisorForced(w, k)
  BY <1>9, GVisorForces
<1>10. CASE GVisorWait(w, k)
  <2>1. Return(w, TRUE) \/ Return(w, FALSE)
    BY <1>10 DEF GVisorWait
  <2>. QED
    BY <1>1, <1>10, <2>1, StepReturns DEF GVisorWait, At
<1>11. CASE GVisorCalls(w, k) /\ UNCHANGED <<waiting, reaped>>
  <2>1. CASE GVisorPause(w, k) \/ GVisorResume(w, k)
    BY <1>11, <2>1, GVisorPauses
  <2>2. CASE GVisorSnapshot(w, k)
    BY <1>11, <2>2, GVisorEnds
  <2>3. CASE GVisorExec(w, k) \/ GVisorLogs(w, k)
    BY <1>1, <1>11, <2>3, StepAsks DEF GVisorExec, GVisorLogs, EngineCall, At
  <2>4. CASE Load(w, k, "kill", TRUE)
    BY <1>1, <1>11, <2>4, StepLoads
  <2>5. ASSUME NEW op, Load(w, k, op, FALSE) PROVE StepOK(w)
    BY <1>1, <1>11, <2>5, StepLoads
  <2>. QED
    BY <1>11, <2>1, <2>2, <2>3, <2>4, <2>5 DEF GVisorCalls
<1>. QED
  BY <1>2, <1>3, <1>4, <1>5, <1>6, <1>7, <1>8, <1>9, <1>10, <1>11 DEF GVisorSteps

(* The adapter's Shutdown may take the status of a process that has ended. *)
LEMMA RunscWaits ==
  ASSUME Inv, NEW w \in Callers, RunscWaited(w), UNCHANGED <<channel, reader, modules, wasi, waiter, halting>>
  PROVE  StepOK(w)
<1>1. /\ call[w].kind = "runsc" /\ call[w].op = "shutdown" /\ call[w].pc = "ending" /\ RefsInv
      /\ cont' = cont /\ entry' = entry /\ CodePart /\ call[w].l # 0
  BY Still DEF At, Inv, RunscWaited, RefsInv, CallOK
<1>2. call[w].l \in Launches /\ Is(call[w].l, "runsc", call[w].s)
  BY <1>1, CallRefs
<1>3. SpecPart
  <2>1. CASE reaped' = reaped
    BY <1>1, <2>1, Still
  <2>2. CASE cont[call[w].l].exit # "none" /\ reaped' = reaped \cup ({call[w].l} \cap waiting)
    BY <1>1, <1>2, <2>2 DEF SpecPart, RefsInv, Types, Is
  <2>. QED
    BY <2>1, <2>2 DEF RunscWaited
<1>4. Return(w, TRUE) \/ Return(w, FALSE)
  BY DEF RunscWaited
<1>. QED
  BY <1>1, <1>3, <1>4, StepReturns

LEMMA RunscSteps ==
  ASSUME Inv, NEW w \in Callers, GVisor(w) \/ Runsc(w),
         UNCHANGED <<channel, reader, modules, wasi, waiter, halting>>
  PROVE  StepOK(w)
<1>1. "gvisor" \in Runscs /\ "runsc" \in Runscs
  BY DEF Runscs
<1>2. CASE GVisorSteps(w, "gvisor") \/ GVisorSteps(w, "runsc")
  BY <1>1, <1>2, GVisorStepsOK
<1>3. CASE GVisorPolled(w)
  <2>1. /\ call[w].pc = "ending" /\ call[w].op = "shutdown" /\ cont' = cont /\ entry' = entry
        /\ CodePart /\ SpecPart /\ (Return(w, TRUE) \/ Return(w, FALSE))
    BY <1>3, Still DEF GVisorPolled, At, Inv
  <2>. QED
    BY <2>1, StepReturns
<1>4. CASE RunscWaited(w)
  BY <1>4, RunscWaits
<1>5. Runsc(w) => GVisorSteps(w, "runsc") \/ RunscWaited(w)
  BY DEF Runsc, RunscPrepare, RunscStart, RunscStore, RunscInspect, RunscKillSignal, RunscKillRemove,
         RunscKillDelete, RunscShutdown, RunscForced, RunscWait, RunscPause, RunscResume, RunscSnapshot,
         RunscExec, RunscLogs, RunscLoad, GVisorSteps, GVisorCalls
<1>. QED
  BY <1>2, <1>3, <1>4, <1>5 DEF GVisor

-----------------------------------------------------------------------------
(* Firecracker, WebAssembly and the mock, whose launches store at once.    *)

LEMMA StepLaunches ==
  ASSUME Inv, NEW w \in Callers, NEW k \in {"microvm", "wasm", "mock"}, At(w, k, "launch", "prepare"),
         NEW l \in Launches, NEW st, Create(l, k, call[w].s, st), StoreEntry(w, l),
         st = "running" \/ (st = "created" /\ k = "wasm"), NEW pc \in {"done", "check"},
         call' = [call EXCEPT ![w].pc = pc, ![w].l = l], k = "microvm" => pc = "done",
         code' = code, SpecPart
  PROVE  StepOK(w)
<1>1. /\ call[w].kind = k /\ call[w].op = "launch" /\ call[w].pc = "prepare" /\ RefsInv
      /\ k \in Kinds /\ call[w].s \in Sandboxes /\ k \notin Engines /\ CodePart
  BY LoadedOK, Still DEF At, Inv, Engines
<1>2. call[w].ok
  BY <1>1 DEF RefsInv, CallOK
<1>3. /\ ContPart({call[w].l}, "launch") /\ cont[l].status = "none" /\ cont'[l].status = st
      /\ cont'[l].exit = "none" /\ cont'[l].kind = k /\ cont'[l].s = call[w].s
      /\ \A m \in Launches : m # l => cont'[m] = cont[m]
  BY <1>1, ContCreated, SMTT(30)
<1>4. MovesTo(w, pc, l, call[w].ok, call[w].seen)
  BY <1>1, Takes DEF Points
<1>5. PointOK(w, pc, l)
  BY SettingsAssumption, SMTT(30) DEF PointOK, Launches
<1>6. EntryMoves(w, l)
  BY <1>1, EntrySet DEF StoreEntry
<1>7. /\ k \notin {"gvisor", "runsc"} /\ pc # "store" /\ st \notin {"none", "removed"}
      /\ st = "created" => k \in Engines \cup {"wasm"}
  OBVIOUS
<1>. QED
  BY <1>1, <1>2, <1>3, <1>4, <1>5, <1>6, <1>7, StepCreates

LEMMA MicroVMSteps ==
  ASSUME Inv, NEW w \in Callers, MicroVM(w), UNCHANGED specificVars
  PROVE  StepOK(w)
<1>1. RefsInv /\ SpecPart /\ (code' = code => CodePart) /\ "killed" \in Exits
  BY Still DEF Inv, Exits
<1>2. ASSUME call[w].pc \in {"act", "delete"}
      PROVE  call[w].l # 0 /\ call[w].l \in Launches /\ Is(call[w].l, call[w].kind, call[w].s)
  BY <1>1, <1>2, CallRefs DEF RefsInv, CallOK
<1>3. CASE MicroVMLaunch(w)
  <2>1. CASE UNCHANGED <<cont, entry>> /\ Return(w, FALSE)
    BY <1>1, <1>3, <2>1, StepReturns DEF MicroVMLaunch, At
  <2>2. ASSUME NEW l \in Launches, Create(l, "microvm", call[w].s, "running"), StoreEntry(w, l),
               call' = [call EXCEPT ![w].pc = "done", ![w].l = l]
        PROVE  StepOK(w)
    BY <1>1, <1>3, <2>2, StepLaunches DEF MicroVMLaunch
  <2>. QED
    BY <1>3, <2>1, <2>2 DEF MicroVMLaunch
<1>4. CASE MicroVMInspect(w)
  <2>1. PICK v : v = IF code[call[w].l] = "none" THEN "running" ELSE code[call[w].l]
    OBVIOUS
  <2>2. Report(w, v) /\ (v = "running" \/ (v = code[call[w].l] /\ v # "none"))
    BY <1>4, <2>1 DEF MicroVMInspect
  <2>. QED
    BY <1>1, <1>4, <2>2, CodeTold DEF MicroVMInspect, At
<1>5. CASE MicroVMKillSignal(w)
  <2>1. /\ call[w].kind = "microvm" /\ call[w].op = "kill" /\ call[w].pc = "act" /\ entry' = entry
        /\ CodePart /\ (Ends(call[w].l, "killed") \/ cont' = cont) /\ Goto(w, "delete")
    BY <1>1, <1>5 DEF MicroVMKillSignal, At
  <2>2. PICK l \in Launches : l = call[w].l /\ l # 0 /\ cont[l].kind = "microvm"
    BY <1>2, <2>1 DEF Is
  <2>3. /\ ContPart({call[w].l}, call[w].op) /\ NoneNew
        /\ \A m \in Launches : m # l => cont'[m] = cont[m]
    BY <1>1, <2>1, <2>2, ContEnds, ContSame
  <2>4. MovesTo(w, "delete", l, call[w].ok, call[w].seen)
    BY <1>1, <2>1, <2>2, Goes DEF Points
  <2>5. KilledOK(w)'
    BY <2>1, <2>4 DEF KilledOK, MovesTo, Engines
  <2>. QED
    BY <1>1, <2>1, <2>2, <2>3, <2>5, StepGoesOn
<1>6. CASE MicroVMKillDelete(w)
  BY <1>1, <1>6, StepDeletes DEF MicroVMKillDelete, At
<1>7. CASE MicroVMWait(w)
  <2>1. /\ call[w].kind = "microvm" /\ call[w].op = "wait" /\ call[w].pc = "act" /\ entry' = entry
        /\ cont' = cont /\ Return(w, cont[call[w].l].exit = "ok")
    BY <1>7 DEF MicroVMWait, At
  <2>2. PICK l \in Launches : l = call[w].l /\ cont[l].kind = "microvm"
    BY <1>2, <2>1 DEF Is
  <2>3. PICK v : v = IF Alive(call[w].l) THEN "unknown" ELSE cont[call[w].l].exit
    OBVIOUS
  <2>4. v \in Codes /\ (v = "none" \/ TrueCode(l, v)') /\ code' = [code EXCEPT ![l] = v]
    BY <1>1, <1>7, <2>1, <2>2, <2>3 DEF MicroVMWait, RefsInv, Types, Container, Codes, TrueCode
  <2>5. CodePart
    BY <1>1, <2>2, <2>4, CodeSet
  <2>6. PICK ok \in BOOLEAN : Return(w, ok)
    BY <2>1
  <2>. QED
    BY <1>1, <2>1, <2>5, <2>6, StepReturns
<1>8. CASE MicroVMPause(w) \/ MicroVMResume(w)
  <2>1. /\ call[w].kind = "microvm" /\ call[w].op \in {"pause", "resume"} /\ call[w].pc = "act"
        /\ entry' = entry /\ CodePart
    BY <1>1, <1>8 DEF MicroVMPause, MicroVMResume, EngineCall, At
  <2>2. PICK l \in Launches : l = call[w].l /\ cont[l].kind = "microvm"
    BY <1>2, <2>1 DEF Is
  <2>3. CASE UNCHANGED cont /\ Return(w, FALSE)
    BY <1>1, <2>1, <2>3, StepReturns
  <2>4. ASSUME NEW from, NEW to, Moved(l, from, to), Return(w, TRUE),
               \/ from = "running" /\ to = "paused" /\ call[w].op = "pause"
               \/ from = "paused" /\ to = "running" /\ call[w].op = "resume"
        PROVE  StepOK(w)
    <3>1. /\ ContPart({call[w].l}, call[w].op) /\ NoneNew
          /\ \A m \in Launches : m # l => cont'[m] = cont[m]
      BY <1>1, <2>2, <2>4, ContMoves, SMTT(30) DEF Engines
    <3>2. AnswerOK(w, "done", TRUE)
      BY <2>1 DEF AnswerOK, Engines
    <3>. QED
      BY <1>1, <2>1, <2>2, <2>4, <3>1, <3>2, StepEnds
  <2>. QED
    BY <1>8, <2>1, <2>2, <2>3, <2>4 DEF MicroVMPause, MicroVMResume, EngineCall, At, SetStatus, Moved
<1>9. CASE MicroVMShutdown(w) \/ MicroVMSnapshot(w) \/ MicroVMLogs(w)
  BY <1>1, <1>9, StepAsks DEF MicroVMShutdown, MicroVMSnapshot, MicroVMLogs, EngineCall, At
<1>10. CASE MicroVMExec(w)
  BY <1>1, <1>10, StepReturns DEF MicroVMExec, At
<1>11. CASE Load(w, "microvm", "kill", TRUE)
  BY <1>1, <1>11, StepLoads
<1>12. ASSUME NEW op, Load(w, "microvm", op, FALSE) PROVE StepOK(w)
  BY <1>1, <1>12, StepLoads
<1>. QED
  BY <1>3, <1>4, <1>5, <1>6, <1>7, <1>8, <1>9, <1>10, <1>11, <1>12 DEF MicroVM

LEMMA WasmSteps ==
  ASSUME Inv, NEW w \in Callers, Wasm(w), UNCHANGED <<channel, reader, waiting, reaped, waiter, halting>>
  PROVE  StepOK(w)
<1>1. RefsInv /\ (modules' = modules => SpecPart) /\ (code' = code => CodePart)
  BY Still DEF Inv
<1>2. CASE WasmLaunch(w)
  <2>1. CASE UNCHANGED <<cont, entry, modules>> /\ Return(w, FALSE)
    BY <1>1, <1>2, <2>1, StepReturns DEF WasmLaunch, At
  <2>2. ASSUME NEW l \in Launches, Create(l, "wasm", call[w].s, "created"), StoreEntry(w, l),
               modules' = modules \cup {l}, call' = [call EXCEPT ![w].pc = "check", ![w].l = l]
        PROVE  StepOK(w)
    <3>1. call[w].s \in Sandboxes
      BY <1>2, LoadedOK DEF WasmLaunch, At
    <3>2. cont'[l].kind = "wasm" /\ cont'[l].status = "created"
      BY <1>1, <2>2, <3>1, ContCreated DEF Kinds
    <3>3. SpecPart
      BY <1>1, <2>2, <3>2 DEF SpecPart, RefsInv, Types
    <3>. QED
      BY <1>1, <1>2, <2>2, <3>3, StepLaunches DEF WasmLaunch
  <2>. QED
    BY <1>2, <2>1, <2>2 DEF WasmLaunch
<1>3. CASE modules' = modules /\ WasmCheck(w)
  <2>1. PICK ok : ok = (code[call[w].l] \in {"none", "ok"})
    OBVIOUS
  <2>2. ok \in BOOLEAN /\ Return(w, ok)
    BY <1>3, <2>1, SMTT(30) DEF WasmCheck
  <2>. QED
    BY <1>1, <1>3, <2>2, StepReturns DEF WasmCheck, At
<1>4. CASE modules' = modules /\ WasmInspect(w)
  <2>1. PICK v : v = IF code[call[w].l] = "none" THEN "running" ELSE code[call[w].l]
    OBVIOUS
  <2>2. Report(w, v) /\ (v = "running" \/ (v = code[call[w].l] /\ v # "none"))
    BY <1>4, <2>1 DEF WasmInspect
  <2>. QED
    BY <1>1, <1>4, <2>2, CodeTold DEF WasmInspect, At
<1>5. CASE modules' = modules /\ WasmKill(w)
  BY <1>1, <1>5, StepDeletes DEF WasmKill, At
<1>6. CASE modules' = modules /\ WasmWait(w)
  <2>1. Return(w, TRUE) \/ Return(w, FALSE)
    BY <1>6 DEF WasmWait
  <2>. QED
    BY <1>1, <1>6, <2>1, StepReturns DEF WasmWait, At
<1>7. CASE modules' = modules /\ WasmLogs(w)
  BY <1>1, <1>7, StepAsks DEF WasmLogs, EngineCall, At
<1>8. CASE modules' = modules /\ WasmRefuses(w)
  BY <1>1, <1>8, StepReturns DEF WasmRefuses, At
<1>9. ASSUME NEW op, Load(w, "wasm", op, FALSE), modules' = modules PROVE StepOK(w)
  BY <1>1, <1>9, StepLoads
<1>. QED
  BY <1>2, <1>3, <1>4, <1>5, <1>6, <1>7, <1>8, <1>9 DEF Wasm

(* The mock's Kill deletes the run, and ends it. *)
LEMMA MockKills ==
  ASSUME Inv, NEW w \in Callers, MockKill(w), UNCHANGED <<channel, reader, waiting, reaped, modules, wasi>>
  PROVE  StepOK(w)
<1>1. /\ call[w].kind = "mock" /\ call[w].op = "kill" /\ call[w].pc = "load" /\ RefsInv /\ CodePart
      /\ call[w].s \in Sandboxes
  BY Still, LoadedOK DEF MockKill, At, Inv
<1>2. EntryMoves(w, 0)
  BY <1>1, EntrySet DEF MockKill, DeleteEntry
<1>3. MovesTo(w, "done", call[w].l, TRUE, call[w].seen)
  BY <1>1, Returns DEF MockKill
<1>4. /\ ContPart({call[w].l}, call[w].op) /\ NoneNew
      /\ \A m \in Launches : m # Loaded(w) => cont'[m] = cont[m]
  <2>1. CASE Loaded(w) = 0
    BY <1>1, <2>1, ContSame DEF MockKill
  <2>2. CASE Loaded(w) # 0
    <3>1. Loaded(w) \in Launches /\ Is(Loaded(w), "mock", call[w].s)
      BY <1>1, <2>2, LoadedOK
    <3>2. Removed(Loaded(w)) /\ cont[Loaded(w)].kind \notin Engines /\ cont[Loaded(w)].status # "none"
      BY <2>2, <3>1 DEF MockKill, Is, Engines
    <3>. QED
      BY <1>1, <3>1, <3>2, ContRemoved
  <2>. QED
    BY <2>1, <2>2
<1>5. SpecPart
  <2>1. waiter' = [waiter EXCEPT ![call[w].s] = 0]
    BY DEF MockKill
  <2>2. /\ waiter' \in [Sandboxes -> Launches \cup {0}]
        /\ \A s \in Sandboxes : waiter'[s] = waiter[s] \/ waiter'[s] = 0
    BY <1>1, <2>1 DEF RefsInv, Types
  <2>. QED
    BY <1>1, <2>2 DEF SpecPart, WaiterOK, RefsInv, Types
<1>6. NewPart(w)
  BY <1>4 DEF NewPart, NoneNew
<1>7. EntryPart({call[w].l})
  <2>1. ASSUME NEW k \in Kinds, NEW s \in Sandboxes, k = "mock", s = call[w].s
        PROVE  EntryOK(k, s)' /\ entry'[k][s] = 0
    BY <1>1, <1>2, <2>1 DEF EntryMoves, EntryOK
  <2>2. ASSUME NEW k \in Kinds, NEW s \in Sandboxes, k # "mock" \/ s # call[w].s
        PROVE  /\ entry'[k][s] = entry[k][s]
               /\ k = "mock" /\ entry[k][s] # 0 => cont'[entry[k][s]] = cont[entry[k][s]]
    <3>1. entry'[k][s] = entry[k][s]
      BY <1>1, <1>2, <2>2 DEF EntryMoves
    <3>2. CASE k = "mock" /\ entry[k][s] # 0
      <4>1. entry[k][s] \in Launches /\ cont[entry[k][s]].s = s
        BY <1>1, <3>2, SMTT(30) DEF RefsInv, Types, EntryOK, Is
      <4>2. Loaded(w) # 0 => cont[Loaded(w)].s = call[w].s
        BY <1>1, LoadedOK DEF Is
      <4>3. entry[k][s] # Loaded(w)
        BY <2>2, <3>2, <4>1, <4>2
      <4>. QED
        BY <1>4, <3>1, <4>1, <4>3
    <3>. QED
      BY <3>1, <3>2
  <2>. QED
    BY <1>2, <2>1, <2>2, SMTT(30) DEF EntryPart, EntryMoves
<1>8. CallPart(w)
  <2>1. PointOK(w, "done", call[w].l)
    BY DEF PointOK
  <2>2. CallOK(w)'
    BY <1>1, <1>3, <1>4, <1>5, <2>1, CallMoves
  <2>. QED
    BY <1>1, <1>3, <2>2 DEF CallPart, MovesTo
<1>9. PrivateOK(w)' /\ KilledOK(w)'
  BY <1>3 DEF PrivateOK, KilledOK, MovesTo
<1>10. TrackPart(w)
  BY <1>1, <1>2, SMTT(30) DEF TrackPart, EntryMoves, Engines, Kinds
<1>11. MovePart(w)
  BY <1>1, <1>2, <1>3 DEF MovePart, MovesTo, Answers, EntryMoves, Engines, Kinds
<1>. QED
  BY <1>1, <1>4, <1>5, <1>6, <1>7, <1>8, <1>9, <1>10, <1>11 DEF StepOK

LEMMA MockSteps ==
  ASSUME Inv, NEW w \in Callers, Mock(w), UNCHANGED <<channel, reader, waiting, reaped, modules, wasi>>
  PROVE  StepOK(w)
<1>1. RefsInv /\ (waiter' = waiter => SpecPart) /\ (code' = code => CodePart)
  BY Still DEF Inv
<1>2. CASE MockLaunch(w)
  <2>1. CASE UNCHANGED <<cont, entry, waiter>> /\ Return(w, FALSE)
    BY <1>1, <1>2, <2>1, StepReturns DEF MockLaunch, At
  <2>2. ASSUME NEW l \in Launches, Create(l, "mock", call[w].s, "running"), StoreEntry(w, l),
               waiter' = [waiter EXCEPT ![call[w].s] = l], call' = [call EXCEPT ![w].pc = "done", ![w].l = l]
        PROVE  StepOK(w)
    <3>1. call[w].s \in Sandboxes
      BY <1>2, LoadedOK DEF MockLaunch, At
    <3>2. cont'[l].status = "running" /\ cont'[l].kind = "mock" /\ cont'[l].s = call[w].s
      <4>1. "mock" \in Kinds
        BY DEF Kinds
      <4>2. PICK st : st = "running"
        OBVIOUS
      <4>3. ContPart({}, "none") /\ cont'[l].status = st /\ cont'[l].kind = "mock" /\ cont'[l].s = call[w].s
        BY <1>1, <2>2, <3>1, <4>1, <4>2, ContCreated, SMTT(30)
      <4>. QED
        BY <4>2, <4>3
    <3>3. /\ waiter' \in [Sandboxes -> Launches \cup {0}] /\ waiter'[call[w].s] = l
          /\ \A s \in Sandboxes : s # call[w].s => waiter'[s] = waiter[s]
      BY <1>1, <2>2, <3>1 DEF RefsInv, Types
    <3>4. ASSUME NEW s \in Sandboxes, s = call[w].s PROVE WaiterOK(s)'
      BY <3>2, <3>3, <3>4 DEF WaiterOK, Is
    <3>5. SpecPart
      BY <1>1, <3>3, <3>4 DEF SpecPart, RefsInv, Types
    <3>. QED
      BY <1>1, <1>2, <2>2, <3>5, StepLaunches DEF MockLaunch
  <2>. QED
    BY <1>2, <2>1, <2>2 DEF MockLaunch
<1>3. CASE MockKill(w)
  BY <1>3, MockKills
<1>4. CASE MockShutdown(w)
  <2>1. PICK ok : ok = (waiter[call[w].s] # 0)
    OBVIOUS
  <2>2. ok \in BOOLEAN /\ Return(w, ok)
    BY <1>4, <2>1 DEF MockShutdown
  <2>. QED
    BY <1>1, <1>4, <2>2, StepReturns DEF MockShutdown, At
<1>5. CASE waiter' = waiter /\ MockInspect(w)
  <2>1. PICK v : v = IF code[call[w].l] = "none" THEN "running" ELSE code[call[w].l]
    OBVIOUS
  <2>2. Report(w, v) /\ (v = "running" \/ (v = code[call[w].l] /\ v # "none"))
    BY <1>5, <2>1 DEF MockInspect
  <2>. QED
    BY <1>1, <1>5, <2>2, CodeTold DEF MockInspect, At
<1>6. CASE waiter' = waiter /\ MockWaitLoad(w)
  <2>1. /\ call[w].kind = "mock" /\ call[w].op = "wait" /\ call[w].pc = "load" /\ CodePart /\ SpecPart
        /\ cont' = cont /\ entry' = entry /\ call[w].s \in Sandboxes
    BY <1>1, <1>6, LoadedOK DEF MockWaitLoad, At
  <2>2. CASE waiter[call[w].s] = 0
    BY <1>6, <2>1, <2>2, StepReturns DEF MockWaitLoad
  <2>3. CASE waiter[call[w].s] # 0
    <3>1. PICK l \in Launches : l = waiter[call[w].s] /\ l # 0
      BY <1>1, <2>1, <2>3 DEF RefsInv, Types
    <3>2. Is(l, "mock", call[w].s) /\ cont[l].status # "created"
      BY <1>1, <2>1, <3>1 DEF RefsInv, WaiterOK
    <3>3. call' = [call EXCEPT ![w].pc = "act", ![w].l = l]
      BY <1>6, <3>1 DEF MockWaitLoad
    <3>4. MovesTo(w, "act", l, call[w].ok, call[w].seen)
      BY <1>1, <3>3, Takes DEF Points
    <3>5. PointOK(w, "act", l) /\ RefOK(w, l) /\ Tells(w, "act", l, call[w].ok, call[w].seen)
      BY <2>1, <3>1, <3>2, <3>4 DEF PointOK, RefOK, Tells, Is, MovesTo, Engines
    <3>. QED
      BY <2>1, <3>4, <3>5, Quiet
  <2>. QED
    BY <2>2, <2>3
<1>7. CASE waiter' = waiter /\ MockWait(w)
  <2>1. Return(w, TRUE) \/ Return(w, FALSE)
    BY <1>7 DEF MockWait
  <2>. QED
    BY <1>1, <1>7, <2>1, StepReturns DEF MockWait, At
<1>8. CASE waiter' = waiter /\ (MockPause(w) \/ MockResume(w))
  <2>1. /\ call[w].kind = "mock" /\ call[w].op \in {"pause", "resume"} /\ call[w].pc = "act" /\ cont' = cont
        /\ entry' = entry /\ code' = code /\ (Return(w, TRUE) \/ Return(w, FALSE))
    BY <1>8 DEF MockPause, MockResume, EngineCall, At
  <2>. QED
    BY <1>1, <1>8, <2>1, StepReturns DEF Engines
<1>9. CASE waiter' = waiter /\ (MockSnapshot(w) \/ MockExec(w))
  BY <1>1, <1>9, StepAsks DEF MockSnapshot, MockExec, EngineCall, At
<1>10. CASE waiter' = waiter /\ MockLogs(w)
  BY <1>1, <1>10, StepReturns DEF MockLogs, At
<1>11. ASSUME NEW op, Load(w, "mock", op, FALSE), waiter' = waiter PROVE StepOK(w)
  BY <1>1, <1>11, StepLoads
<1>. QED
  BY <1>2, <1>3, <1>4, <1>5, <1>6, <1>7, <1>8, <1>9, <1>10, <1>11 DEF Mock

-----------------------------------------------------------------------------
(* The unified runtime.                                                    *)

LEMMA UnifiedSteps ==
  ASSUME Inv, NEW w \in Callers, UNCHANGED specificVars, NEW available \in SUBSET Backends,
         (\E auto : UnifiedLaunch(w, available, auto, "microvm")) \/ UnifiedRoute(w, available)
  PROVE  StepOK(w)
<1>1. /\ RefsInv /\ SpecPart /\ call[w].pc \in {"select", "route"} /\ call[w] \in CallRecord
      /\ cont' = cont /\ entry' = entry /\ code' = code
  BY Still DEF Inv, RefsInv, Types, UnifiedLaunch, UnifiedRoute
<1>2. CallOK(w)
  BY <1>1 DEF RefsInv
<1>3. CASE Return(w, FALSE) /\ ~(call[w].kind = "microvm" /\ call[w].op = "kill")
  <2>1. /\ call' = [call EXCEPT ![w] = call'[w]] /\ call'[w] \in CallRecord /\ call'[w].s = call[w].s
        /\ call'[w].l = call[w].l /\ call'[w].pc = "done" /\ call'[w].op = call[w].op /\ call'[w].ok = FALSE
    <3>1. MovesTo(w, "done", call[w].l, FALSE, call[w].seen)
      BY <1>1, <1>3, Returns
    <3>2. /\ call \in [Callers -> CallRecord] /\ call' \in [Callers -> CallRecord]
          /\ \A d \in Callers : d # w => call'[d] = call[d]
      BY <1>1, <3>1 DEF MovesTo, RefsInv, Types
    <3>3. call' = [call EXCEPT ![w] = call'[w]] /\ call'[w] \in CallRecord
      BY <3>2, SMTT(30)
    <3>. QED
      BY <3>1, <3>3 DEF MovesTo
  <2>2. PICK r : r = call'[w]
    OBVIOUS
  <2>. QED
    BY <1>1, <1>3, <2>1, <2>2, StepTurns
<1>4. CASE Goto(w, "load") /\ call[w].pc = "route"
  <2>1. /\ call' = [call EXCEPT ![w] = call'[w]] /\ call'[w] \in CallRecord /\ call'[w].s = call[w].s
        /\ call'[w].l = call[w].l /\ call'[w].pc = "load" /\ call'[w].op = call[w].op
    <3>1. "load" \in Points
      BY DEF Points
    <3>2. MovesTo(w, "load", call[w].l, call[w].ok, call[w].seen)
      BY <1>1, <1>4, <3>1, Goes
    <3>3. /\ call \in [Callers -> CallRecord] /\ call' \in [Callers -> CallRecord]
          /\ \A d \in Callers : d # w => call'[d] = call[d]
      BY <1>1, <3>2 DEF MovesTo, RefsInv, Types
    <3>4. call' = [call EXCEPT ![w] = call'[w]] /\ call'[w] \in CallRecord
      BY <3>3, SMTT(30)
    <3>. QED
      BY <3>2, <3>4 DEF MovesTo
  <2>2. PICK r : r = call'[w]
    OBVIOUS
  <2>. QED
    BY <1>1, <1>4, <2>1, <2>2, StepTurns
<1>5. ASSUME NEW k \in Kinds, call[w].pc = "select", call' = [call EXCEPT ![w].kind = k, ![w].pc = "prepare"]
      PROVE  StepOK(w)
  <2>1. PICK q : q = [call[w] EXCEPT !.kind = k]
    OBVIOUS
  <2>2. PICK r : r = [q EXCEPT !.pc = "prepare"]
    OBVIOUS
  <2>3. call' = [call EXCEPT ![w] = r] /\ "prepare" \in Points
    BY <1>1, <1>5, <2>1, <2>2 DEF RefsInv, Types, Points
  <2>4. q \in CallRecord /\ q.op = call[w].op /\ q.s = call[w].s /\ q.l = call[w].l /\ q.ok = call[w].ok
    BY <1>1, <2>1, SetsKind, SMTT(30)
  <2>5. /\ r \in CallRecord /\ r.op = call[w].op /\ r.s = call[w].s /\ r.l = call[w].l /\ r.ok = call[w].ok
        /\ r.pc = "prepare"
    BY <2>2, <2>3, <2>4, SetsPc, SMTT(30)
  <2>. QED
    BY <1>1, <1>2, <1>5, <2>3, <2>5, StepTurns DEF CallOK
<1>6. ASSUME NEW k \in Kinds, call[w].pc = "route", call' = [call EXCEPT ![w].kind = k]
      PROVE  StepOK(w)
  <2>1. PICK r : r = [call[w] EXCEPT !.kind = k]
    OBVIOUS
  <2>2. call' = [call EXCEPT ![w] = r]
    BY <1>1, <1>6, <2>1 DEF RefsInv, Types
  <2>3. /\ r \in CallRecord /\ r.op = call[w].op /\ r.s = call[w].s /\ r.l = call[w].l /\ r.pc = "route"
    BY <1>1, <1>6, <2>1, SetsKind, SMTT(30)
  <2>. QED
    BY <1>1, <1>6, <2>2, <2>3, StepTurns
<1>7. ASSUME NEW auto, UnifiedLaunch(w, available, auto, "microvm") PROVE StepOK(w)
  <2>1. PICK k : k = Selected(available, auto, "microvm", request[call[w].s])
    OBVIOUS
  <2>2. k \in Kinds \cup {"none"}
    BY <2>1 DEF Selected, GetRuntimeByType, Backends, Kinds
  <2>3. call[w].pc = "select" /\ IF k = "none" THEN Return(w, FALSE)
                                 ELSE call' = [call EXCEPT ![w].kind = k, ![w].pc = "prepare"]
    BY <1>7, <2>1 DEF UnifiedLaunch
  <2>. QED
    BY <1>2, <1>3, <1>5, <2>2, <2>3 DEF CallOK
<1>8. CASE UnifiedRoute(w, available)
  <2>1. RouteFrom(call[w].kind) # "none" => RouteFrom(call[w].kind) \in Kinds
    BY DEF RouteFrom, Kinds
  <2>2. RouteFrom(call[w].kind) = "none" => call[w].kind # "microvm"
    BY DEF RouteFrom
  <2>. QED
    BY <1>3, <1>4, <1>6, <1>8, <2>1, <2>2 DEF UnifiedRoute
<1>. QED
  BY <1>7, <1>8

(* Every step of a call is one of the steps above. *)
LEMMA StepsOK ==
  ASSUME Inv, NEW w \in Callers, Step(w)
  PROVE  StepOK(w)
<1>1. setting.available \in SUBSET Backends
  BY SettingsAssumption DEF Inv, RefsInv
<1>2. CASE Docker(w) /\ UNCHANGED specificVars
  BY <1>2, DockerSteps
<1>3. CASE MicroVM(w) /\ UNCHANGED specificVars
  BY <1>3, MicroVMSteps
<1>4. CASE Containerd(w) /\ UNCHANGED <<waiting, reaped, modules, wasi, waiter, halting>>
  BY <1>4, ContainerdSteps
<1>5. CASE (GVisor(w) \/ Runsc(w)) /\ UNCHANGED <<channel, reader, modules, wasi, waiter, halting>>
  BY <1>5, RunscSteps
<1>6. CASE Wasm(w) /\ UNCHANGED <<channel, reader, waiting, reaped, waiter, halting>>
  BY <1>6, WasmSteps
<1>7. CASE Mock(w) /\ UNCHANGED <<channel, reader, waiting, reaped, modules, wasi>>
  BY <1>7, MockSteps
<1>8. CASE /\ \/ UnifiedLaunch(w, setting.available, setting.auto, "microvm")
              \/ UnifiedRoute(w, setting.available)
           /\ UNCHANGED specificVars
  BY <1>1, <1>8, UnifiedSteps
<1>. QED
  BY <1>2, <1>3, <1>4, <1>5, <1>6, <1>7, <1>8 DEF Step
=============================================================================

------------------------- MODULE TerminationProofs -------------------------
(***************************************************************************)
(* Theorems about TerminationSystem for every set of sandboxes, callers,   *)
(* terminations and clients, every configuration and every bound.  The     *)
(* inductive invariant follows what each call knows: which launch it works *)
(* on, that the map holds this launch until it ends or becomes a stray,    *)
(* which files it has stored and which policy its grace period obeys.      *)
(***************************************************************************)
EXTENDS TerminationSystem, FiniteSetTheorems, SequenceTheorems, TLAPS

USE DEF vmVars, hypnosVars, schedulerVars, nodeVars

Ended == {"stopping"} \cup Exits

(* The number of first launches. *)
Firsts == Cardinality(Sandboxes)

(* There has been a launch l. *)
Known(l) == l \in Launches /\ l <= launched

(* Launch l was ended, or it left the map while it ran. *)
Gone(l) == proc[l] \in Ended \/ l \in strays

(* Launch l of sandbox s is in the map unless it is gone. *)
Tracked(s, l) == vm[s] = l \/ Gone(l)

(* The same after the step, of a launch and a sandbox named before it. *)
GoneAfter(l) == proc'[l] \in Ended \/ l \in strays'
TrackedAfter(s, l) == vm'[s] = l \/ GoneAfter(l)

(* The map holds launches, and only launches have a process. *)
VMInv ==
  /\ VMTypeOK
  /\ \A l \in Launches : launched < l <=> proc[l] = "none"
  /\ \A s \in Sandboxes : vm[s] = 0 \/ Known(vm[s])

(* Launches only move towards their end, there are only more of them, and  *)
(* what leaves the map is gone.                                            *)
VMAdvances ==
  /\ launched <= launched'
  /\ \A l \in Launches : /\ proc[l] \in Exits => proc'[l] \in Exits
                         /\ Gone(l) => GoneAfter(l)
  /\ \A s \in Sandboxes, l \in Launches : vm[s] = l => TrackedAfter(s, l)

(* The grace period g of the call of w is positive and obeys the policy    *)
(* that applies.                                                           *)
GraceOK(w, g) ==
  /\ w = "fury" \/ (w \in Terminations /\ termination[w] # "unused")
  /\ \E reason \in ReasonsOf(w) : g \in 1..Limit(Policy(reason))

(* Neither the configuration nor a request changes meanwhile. *)
GraceKept == \A w \in Callers, g \in Nat : GraceOK(w, g) => GraceOK(w, g)'

-----------------------------------------------------------------------------
(* There are as many numbers of first launches as sandboxes. *)
LEMMA FirstLaunches ==
  /\ Cardinality(Sandboxes) \in Nat
  /\ First \in [Sandboxes -> 1..Cardinality(Sandboxes)]
  <1> DEFINE n == Cardinality(Sandboxes)
  <1>1. n \in Nat /\ ExistsBijection(1..n, Sandboxes)
    BY FS_CardinalityType, SandboxesAssumption
  <1>2. PICK g \in [1..n -> Sandboxes] : \A s \in Sandboxes : \E i \in 1..n : g[i] = s
    BY <1>1 DEF ExistsBijection, Bijection, Surjection
  <1> DEFINE f == [s \in Sandboxes |-> CHOOSE i \in 1..n : g[i] = s]
  <1>3. f \in [Sandboxes -> 1..n] /\ \A s \in Sandboxes : g[f[s]] = s
    BY <1>2, Zenon
  <1>4. \A s, t \in Sandboxes : s # t => f[s] # f[t]
    BY <1>3, Zenon
  <1> QED
    BY <1>1, <1>3, <1>4, Zenon DEF First

(* Strays are launches. *)
LEMMA LeavesLemma ==
  ASSUME VMTypeOK, NEW s \in Sandboxes, Leaves(s)
  PROVE  strays' \subseteq Launches
  <1>1. vm[s] # 0 => vm[s] \in Launches
    BY VMAssumption DEF VMTypeOK, Launches
  <1>2. strays' = strays \/ (vm[s] # 0 /\ strays' = strays \cup {vm[s]})
    BY DEF Leaves, Running
  <1> QED
    BY <1>1, <1>2 DEF VMTypeOK

(* What the operations on VMs do: the map stays right and launches only    *)
(* advance.                                                                *)
LEMMA StartLemma ==
  ASSUME VMInv, NEW s \in Sandboxes, StartVM(s)
  PROVE  VMInv' /\ VMAdvances
  <1>1. /\ VMTypeOK' /\ launched + 1 \in Launches /\ launched' = launched + 1 /\ launched \in Nat
        /\ proc' = [proc EXCEPT ![launched + 1] = "running"] /\ proc[launched + 1] = "none"
        /\ vm' = [vm EXCEPT ![s] = launched + 1]
    <2>1. /\ launched' = launched + 1 /\ code' = code
          /\ proc' = [proc EXCEPT ![launched + 1] = "running"]
          /\ vm' = [vm EXCEPT ![s] = launched + 1]
      BY DEF StartVM
    <2>2. launched \in Nat /\ launched + 1 \in Launches /\ launched' \in 0..MaxLaunches
      BY <2>1, VMAssumption DEF VMInv, VMTypeOK, StartVM, Launches
    <2>3. strays' \subseteq Launches
      BY LeavesLemma DEF VMInv, StartVM
    <2>4. vm' \in [Sandboxes -> 0..MaxLaunches] /\ proc' \in [Launches -> {"none"} \cup Alive \cup Exits]
      BY <2>1, <2>2 DEF VMInv, VMTypeOK, Alive
    <2>5. proc[launched + 1] = "none"
      BY <2>2 DEF VMInv
    <2> QED
      BY <2>1, <2>2, <2>3, <2>4, <2>5 DEF VMInv, VMTypeOK
  <1>2. VMInv'
    BY <1>1, VMAssumption DEF VMInv, VMTypeOK, Known, Launches
  <1>3. \A l \in Launches : l <= launched => proc'[l] = proc[l] /\ l # launched + 1
    BY <1>1 DEF VMInv, VMTypeOK, Launches
  <1>4. strays \subseteq strays' /\ (Running(vm[s]) => vm[s] \in strays')
    BY DEF StartVM, Leaves
  <1>5. ASSUME NEW l \in Launches
        PROVE  /\ proc[l] \in Exits => proc'[l] \in Exits
               /\ Gone(l) => GoneAfter(l)
    BY <1>1, <1>4 DEF VMInv, VMTypeOK, Gone, GoneAfter, Ended, Exits
  <1>6. ASSUME NEW r \in Sandboxes, NEW l \in Launches, vm[r] = l
        PROVE  TrackedAfter(r, l)
    <2>1. CASE r # s
      BY <1>1, <1>6, <2>1 DEF VMInv, VMTypeOK, Tracked, TrackedAfter
    <2>2. CASE r = s
      <3>1. l # 0 /\ l <= launched /\ proc[l] \in Alive \cup Exits /\ proc'[l] = proc[l]
        BY <1>3, <1>6, <2>2, VMAssumption DEF VMInv, VMTypeOK, Known, Launches
      <3> QED
        BY <1>4, <1>6, <2>2, <3>1 DEF Tracked, TrackedAfter, Gone, GoneAfter, Running, Ended, Alive
    <2> QED
      BY <2>1, <2>2
  <1> QED
    BY <1>1, <1>2, <1>5, <1>6 DEF VMAdvances

(* A process that moves on while the map stays as it is. *)
LEMMA ProcLemma ==
  ASSUME VMInv, NEW l \in Launches, NEW p \in Alive \cup Exits, l <= launched,
         proc' = [proc EXCEPT ![l] = p], UNCHANGED <<vm, code, launched, strays>>,
         proc[l] \in Exits => p = proc[l], proc[l] = "stopping" => p \in Ended
  PROVE  VMInv' /\ VMAdvances
  <1>1. VMTypeOK'
    BY DEF VMInv, VMTypeOK
  <1>2. \A k \in Launches : launched < k <=> proc'[k] = "none"
    BY VMAssumption DEF VMInv, VMTypeOK, Launches, Alive, Exits
  <1>3. \A k \in Launches : /\ proc[k] \in Exits => proc'[k] \in Exits
                            /\ Gone(k) => GoneAfter(k)
    BY DEF VMInv, VMTypeOK, Gone, GoneAfter, Ended, Exits
  <1> QED
    BY <1>1, <1>2, <1>3, VMAssumption DEF VMInv, VMTypeOK, VMAdvances, Known, Tracked, TrackedAfter, Launches

LEMMA GuestLemma ==
  ASSUME VMInv, NEW l \in Launches, GuestExit(l)
  PROVE  VMInv' /\ VMAdvances
  <1>1. PICK p \in Exits : proc' = [proc EXCEPT ![l] = p]
    BY DEF GuestExit, Exits
  <1>2. l <= launched /\ proc[l] \notin Exits /\ UNCHANGED <<vm, code, launched, strays>>
    BY VMAssumption DEF GuestExit, VMInv, VMTypeOK, Launches, Exits
  <1> QED
    BY <1>1, <1>2, ProcLemma, Zenon DEF Ended

(* The map entry of a running VM. *)
LEMMA HeldLemma ==
  ASSUME VMInv, NEW s \in Sandboxes, Holds(s)
  PROVE  vm[s] \in Launches /\ vm[s] <= launched /\ proc[vm[s]] \in Alive \cup Exits
  BY VMAssumption DEF VMInv, VMTypeOK, Holds, Known, Launches

LEMMA PauseLemma ==
  ASSUME VMInv, NEW s \in Sandboxes, PauseVM(s) \/ ResumeVM(s)
  PROVE  VMInv' /\ VMAdvances
  <1>1. PICK p \in {"paused", "running"} : proc' = [proc EXCEPT ![vm[s]] = p]
    BY DEF PauseVM, ResumeVM
  <1>2. /\ Holds(s) /\ proc[vm[s]] \in {"running", "paused"}
        /\ UNCHANGED <<vm, code, launched, strays>>
    BY DEF PauseVM, ResumeVM, Holds, Running
  <1>3. PICK l \in Launches : l = vm[s] /\ l <= launched
    BY <1>2, HeldLemma
  <1> QED
    BY <1>1, <1>2, <1>3, ProcLemma, Zenon DEF Alive, Exits

LEMMA RecordLemma ==
  ASSUME VMInv, NEW l, RecordExit(l)
  PROVE  VMInv' /\ VMAdvances
  <1>1. VMTypeOK' /\ UNCHANGED <<vm, proc, launched, strays>>
    BY Zenon DEF VMInv, VMTypeOK, RecordExit, Exits
  <1> QED
    BY <1>1, VMAssumption DEF VMInv, VMTypeOK, VMAdvances, Known, Gone, GoneAfter, Tracked, TrackedAfter

LEMMA StillLemma ==
  ASSUME VMInv, UNCHANGED vmVars
  PROVE  VMInv' /\ VMAdvances
  BY VMAssumption DEF VMInv, VMTypeOK, VMAdvances, Known, Gone, GoneAfter, Tracked, TrackedAfter

LEMMA SignalLemma ==
  ASSUME VMInv, NEW s \in Sandboxes, Holds(s), Signal(s)
  PROVE  VMInv' /\ VMAdvances /\ vm' = vm
  <1>1. UNCHANGED <<vm, code, launched, strays>>
    BY DEF Signal
  <1>2. CASE UNCHANGED proc
    BY <1>1, <1>2, StillLemma
  <1>3. CASE proc' = [proc EXCEPT ![vm[s]] = IF @ \in Alive THEN "stopping" ELSE @]
    <2>1. PICK l \in Launches : l = vm[s] /\ l <= launched /\ proc[l] \in Alive \cup Exits
      BY HeldLemma
    <2>2. PICK p \in Alive \cup Exits :
            /\ p = IF proc[l] \in Alive THEN "stopping" ELSE proc[l]
            /\ proc' = [proc EXCEPT ![l] = p]
      BY <1>3, <2>1, Zenon DEF VMInv, VMTypeOK, Alive
    <2> QED
      BY <1>1, <2>1, <2>2, ProcLemma, Zenon DEF Alive, Exits, Ended
  <1> QED
    BY <1>2, <1>3 DEF Signal

LEMMA ForgetLemma ==
  ASSUME VMInv, NEW s \in Sandboxes, Forget(s)
  PROVE  VMInv' /\ VMAdvances /\ vm'[s] = 0
  <1>1. /\ vm' = [vm EXCEPT ![s] = 0] /\ UNCHANGED <<proc, code, launched>>
        /\ strays \subseteq strays' /\ (Running(vm[s]) => vm[s] \in strays')
    BY DEF Forget, Leaves
  <1>2. VMTypeOK' /\ vm'[s] = 0
    <2>1. strays' \subseteq Launches
      BY LeavesLemma DEF VMInv, Forget
    <2>2. vm' \in [Sandboxes -> 0..MaxLaunches] /\ vm'[s] = 0
      BY <1>1, VMAssumption DEF VMInv, VMTypeOK
    <2> QED
      BY <1>1, <2>1, <2>2 DEF VMInv, VMTypeOK
  <1>3. \A l \in Launches : Gone(l) => GoneAfter(l)
    BY <1>1 DEF Gone, GoneAfter
  <1>4. ASSUME NEW r \in Sandboxes, NEW l \in Launches, vm[r] = l
        PROVE  TrackedAfter(r, l)
    <2>1. CASE r # s
      BY <1>1, <1>4, <2>1 DEF VMInv, VMTypeOK, Tracked, TrackedAfter
    <2>2. CASE r = s
      <3>1. l # 0 /\ proc[l] \in Alive \cup Exits
        BY <1>4, <2>2, HeldLemma DEF Holds, Launches
      <3> QED
        BY <1>1, <1>4, <2>2, <3>1 DEF Tracked, TrackedAfter, Gone, GoneAfter, Running, Ended, Alive
    <2> QED
      BY <2>1, <2>2
  <1> QED
    BY <1>1, <1>2, <1>3, <1>4, VMAssumption DEF VMInv, VMTypeOK, VMAdvances, Known

-----------------------------------------------------------------------------
(* What a call knows at each of its steps.                                 *)

(* Steps at which l is the launch that the call works on. *)
AtWork == {"pause", "snapshot", "resume", "stop", "delete", "mem", "disk", "record", "waiting",
           "inspect"}

(* Steps of Sleep at which l has been snapshotted, and those at which it   *)
(* is gone.                                                                *)
Saved == {"stop", "delete"}

AfterEnd == {"mem", "disk", "record"}

BothStored(key) == <<key, "mem">> \in stored /\ <<key, "disk">> \in stored

CallOK(w) ==
  /\ call[w].pc \in AtWork => Known(call[w].l)
  /\ call[w].pc \in Saved => Tracked(call[w].s, call[w].l)
  /\ call[w].pc \in AfterEnd => Gone(call[w].l)
  /\ call[w].pc = "inspect" => proc[call[w].l] \in Exits
  /\ call[w].pc \in {"disk", "record"} => <<KeyOf(w), "mem">> \in stored
  /\ call[w].pc = "record" => <<KeyOf(w), "disk">> \in stored
  /\ call[w].pc \in WakePC => call[w].via = "hypnos"
  /\ call[w].pc \notin {"idle", "returned"} => call[w].phase = "none"
  /\ call[w].via = "controller" => GraceOK(w, call[w].grace)
  /\ call[w].via \in {"handler", "controller"} /\ call[w].phase = "completed" =>
       call[w].l \in Launches /\ proc[call[w].l] \in Exits
  /\ call[w].phase = "checkpointed" => /\ Known(call[w].l)
                                       /\ Gone(call[w].l)
                                       /\ BothStored(KeyOf(w))

SleepOK ==
  \A s \in Sandboxes : sleeping[s] # NoKey => BothStored(sleeping[s])

CallsInv ==
  VMInv /\ HypnosTypeOK /\ SleepOK /\ \A w \in Callers : CallOK(w)

(* Nothing a call relies on is taken back. *)
Advances == VMInv' /\ VMAdvances /\ stored \subseteq stored' /\ GraceKept

(* Only the call of w changes, to one with these fields. *)
CallBecomes(w, pc, s, l, via, phase) ==
  /\ call' \in [Callers -> CallState]
  /\ \A v \in Callers : v # w => call'[v] = call[v]
  /\ call'[w].pc = pc /\ call'[w].s = s /\ call'[w].l = l
  /\ call'[w].via = via /\ call'[w].phase = phase

PCs == {"idle", "returned"} \cup SleepPC \cup WakePC \cup EndPC

LEMMA GotoFact ==
  ASSUME HypnosTypeOK, NEW w \in Callers, NEW pc \in PCs, Goto(w, pc)
  PROVE  /\ CallBecomes(w, pc, call[w].s, call[w].l, call[w].via, call[w].phase)
         /\ call'[w].grace = call[w].grace
  <1> DEFINE c == [call[w] EXCEPT !.pc = pc]
  <1>1. call[w] \in CallState
    BY DEF HypnosTypeOK
  <1>2. c \in CallState
    BY <1>1 DEF CallState, PCs
  <1>3. call' = [call EXCEPT ![w] = c]
    BY DEF HypnosTypeOK, Goto
  <1>4. /\ call' \in [Callers -> CallState] /\ call'[w] = c
        /\ \A v \in Callers : v # w => call'[v] = call[v]
    BY <1>2, <1>3 DEF HypnosTypeOK
  <1> QED
    BY <1>1, <1>4 DEF CallBecomes, CallState

LEMMA ReturnFact ==
  ASSUME HypnosTypeOK, NEW w \in Callers, NEW phase \in Phases, Return(w, phase)
  PROVE  /\ CallBecomes(w, "returned", call[w].s, call[w].l, call[w].via, phase)
         /\ call'[w].grace = call[w].grace
  <1> DEFINE c == [call[w] EXCEPT !.pc = "returned", !.phase = phase]
  <1>1. call[w] \in CallState
    BY DEF HypnosTypeOK
  <1>2. c \in CallState
    BY <1>1, Zenon DEF CallState, PCs
  <1>3. call' = [call EXCEPT ![w] = c]
    BY Zenon DEF HypnosTypeOK, Return
  <1>4. /\ call' \in [Callers -> CallState] /\ call'[w] = c
        /\ \A v \in Callers : v # w => call'[v] = call[v]
    BY <1>2, <1>3 DEF HypnosTypeOK
  <1> QED
    BY <1>1, <1>4 DEF CallBecomes, CallState

LEMMA LoadFact ==
  ASSUME HypnosTypeOK, NEW w \in Callers, NEW pc \in PCs, NEW l \in 0..MaxLaunches,
         call' = [call EXCEPT ![w].pc = pc, ![w].l = l]
  PROVE  /\ CallBecomes(w, pc, call[w].s, l, call[w].via, call[w].phase)
         /\ call'[w].grace = call[w].grace
  <1> DEFINE c == [call[w] EXCEPT !.pc = pc, !.l = l]
  <1>1. call[w] \in CallState
    BY DEF HypnosTypeOK
  <1>2. c \in CallState
    BY <1>1, Zenon DEF CallState, PCs
  <1>3. call' = [call EXCEPT ![w] = c]
    BY Zenon DEF HypnosTypeOK
  <1>4. /\ call' \in [Callers -> CallState] /\ call'[w] = c
        /\ \A v \in Callers : v # w => call'[v] = call[v]
    BY <1>2, <1>3 DEF HypnosTypeOK
  <1> QED
    BY <1>1, <1>4 DEF CallBecomes, CallState

LEMMA KeyedFact ==
  ASSUME HypnosTypeOK, NEW w \in Callers, NEW key \in Keys \cup {NoKey},
         call' = [call EXCEPT ![w].pc = "download", ![w].key = key]
  PROVE  /\ CallBecomes(w, "download", call[w].s, call[w].l, call[w].via, call[w].phase)
         /\ call'[w].grace = call[w].grace
  <1> DEFINE c == [call[w] EXCEPT !.pc = "download", !.key = key]
  <1>1. call[w] \in CallState
    BY DEF HypnosTypeOK
  <1>2. c \in CallState
    BY <1>1, Zenon DEF CallState, WakePC
  <1>3. call' = [call EXCEPT ![w] = c]
    BY Zenon DEF HypnosTypeOK
  <1>4. /\ call' \in [Callers -> CallState] /\ call'[w] = c
        /\ \A v \in Callers : v # w => call'[v] = call[v]
    BY <1>2, <1>3 DEF HypnosTypeOK
  <1> QED
    BY <1>1, <1>4 DEF CallBecomes, CallState

(* The calls that do not move keep what they know. *)
LEMMA OthersLemma ==
  ASSUME CallsInv, Advances, NEW w \in Callers, call'[w] = call[w]
  PROVE  CallOK(w)'
  <1>1. CallOK(w) /\ call[w].s \in Sandboxes
    BY DEF CallsInv, HypnosTypeOK, CallState
  <1>2. KeyOf(w)' = KeyOf(w) /\ \A k : BothStored(k) => BothStored(k)'
    BY DEF Advances, KeyOf, BothStored
  <1>3. /\ \A l : Known(l) => l \in Launches /\ Known(l)'
        /\ \A l \in Launches : /\ proc[l] \in Exits => proc'[l] \in Exits
                               /\ Gone(l) => GoneAfter(l)
                               /\ Tracked(call[w].s, l) => TrackedAfter(call[w].s, l)
    BY <1>1, VMAssumption
       DEF Advances, VMAdvances, Known, Tracked, TrackedAfter, CallsInv, VMInv, VMTypeOK, Launches
  <1>4. "inspect" \in AtWork /\ Saved \subseteq AtWork /\ AfterEnd \subseteq AtWork
    BY DEF AtWork, Saved, AfterEnd
  <1>5. call[w].via = "controller" => GraceOK(w, call[w].grace)'
    <2>1. call[w].grace \in Nat
      BY DEF CallsInv, HypnosTypeOK, CallState
    <2>2. \A g \in Nat : GraceOK(w, g) => GraceOK(w, g)'
      BY DEF Advances, GraceKept
    <2> QED
      BY <1>1, <2>1, <2>2, Zenon DEF CallOK
  <1> QED
    BY <1>1, <1>2, <1>3, <1>4, <1>5, Zenon
       DEF CallOK, Advances, Gone, GoneAfter, Tracked, TrackedAfter

(* The call of w goes on at pc, with launch l and outcome phase. *)
Moves(w, pc, l, phase) ==
  /\ CallBecomes(w, pc, call[w].s, l, call[w].via, phase)
  /\ call'[w].grace = call[w].grace

(* What it must know to be there. *)
MayBe(w, pc, l, phase) ==
  /\ pc \in AtWork => Known(l)
  /\ pc \in Saved => TrackedAfter(call[w].s, l)
  /\ pc \in AfterEnd => GoneAfter(l)
  /\ pc = "inspect" => proc'[l] \in Exits
  /\ pc \in {"disk", "record"} => <<<<l, w>>, "mem">> \in stored'
  /\ pc = "record" => <<<<l, w>>, "disk">> \in stored'
  /\ pc \in WakePC => call[w].via = "hypnos"
  /\ pc \notin {"idle", "returned"} => phase = "none"
  /\ call[w].via \in {"handler", "controller"} /\ phase = "completed" =>
       l \in Launches /\ proc'[l] \in Exits
  /\ phase = "checkpointed" => /\ Known(l)
                               /\ GoneAfter(l)
                               /\ <<<<l, w>>, "mem">> \in stored'
                               /\ <<<<l, w>>, "disk">> \in stored'

StoreOK == /\ sleeping \in [Sandboxes -> Keys \cup {NoKey}]
           /\ stored \subseteq Keys \X {"mem", "disk"}
           /\ SleepOK

(* Records and files that are left alone stay right. *)
LEMMA StoreLemma ==
  ASSUME CallsInv, Advances, UNCHANGED sleeping, stored' \subseteq Keys \X {"mem", "disk"}
  PROVE  StoreOK'
  <1>1. \A k : BothStored(k) => BothStored(k)'
    BY DEF Advances, BothStored
  <1> QED
    BY <1>1 DEF CallsInv, StoreOK, SleepOK, HypnosTypeOK

LEMMA MoveLemma ==
  ASSUME CallsInv, Advances, StoreOK', NEW w \in Callers,
         NEW pc, NEW l, NEW phase, Moves(w, pc, l, phase), MayBe(w, pc, l, phase)
  PROVE  CallsInv'
  <1>0. PICK g \in Nat : g = call[w].grace
    BY DEF CallsInv, HypnosTypeOK, CallState
  <1>1. /\ call[w].s \in Sandboxes
        /\ call[w].via = "controller" => GraceOK(w, g)'
    <2>1. call[w].s \in Sandboxes
      BY DEF CallsInv, HypnosTypeOK, CallState
    <2>2. GraceOK(w, g) => GraceOK(w, g)'
      BY DEF Advances, GraceKept
    <2>3. call[w].via = "controller" => GraceOK(w, g)
      BY <1>0, Zenon DEF CallsInv, CallOK
    <2> QED
      BY <2>1, <2>2, <2>3
  <1>2. Known(l) => Known(l)'
    BY VMAssumption DEF Advances, VMAdvances, Known, CallsInv, VMInv, VMTypeOK, Launches
  <1>3. CallOK(w)'
    <2>1. /\ call'[w].grace = g /\ call'[w].s = call[w].s /\ call'[w].via = call[w].via
          /\ call'[w].pc = pc /\ call'[w].l = l /\ call'[w].phase = phase
      BY <1>0, Zenon DEF Moves, CallBecomes
    <2>2. /\ pc \in AtWork => Known(l)'
          /\ pc \in Saved => Tracked(call[w].s, l)'
          /\ pc \in AfterEnd => Gone(l)'
      BY <1>2, <2>1, Zenon DEF MayBe, Gone, GoneAfter, Tracked, TrackedAfter
    <2>3. phase = "checkpointed" => Known(l)' /\ Gone(l)' /\ BothStored(KeyOf(w))'
      BY <1>2, <2>1, Zenon DEF MayBe, Gone, GoneAfter, BothStored, KeyOf
    <2>4. /\ pc \in {"disk", "record"} => <<KeyOf(w), "mem">>' \in stored'
          /\ pc = "record" => <<KeyOf(w), "disk">>' \in stored'
      BY <2>1, Zenon DEF MayBe, KeyOf
    <2>5. /\ (call[w].pc \in AtWork => Known(call[w].l))'
          /\ (call[w].pc \in Saved => Tracked(call[w].s, call[w].l))'
          /\ (call[w].pc \in AfterEnd => Gone(call[w].l))'
          /\ (call[w].phase = "checkpointed" => Known(call[w].l) /\ Gone(call[w].l) /\ BothStored(KeyOf(w)))'
      BY <2>1, <2>2, <2>3, Zenon DEF Known, Tracked, Gone
    <2> QED
      BY <1>1, <2>1, <2>4, <2>5, Zenon DEF CallOK, MayBe
  <1>4. \A v \in Callers : v # w => CallOK(v)'
    BY OthersLemma DEF Moves, CallBecomes
  <1> QED
    BY <1>3, <1>4 DEF CallsInv, Advances, StoreOK, HypnosTypeOK, Moves, CallBecomes

(* A call that returns without success. *)
LEMMA FailLemma ==
  ASSUME CallsInv, Advances, UNCHANGED <<sleeping, stored>>, NEW w \in Callers,
         NEW phase \in {"failed", "killed"}, Return(w, phase)
  PROVE  CallsInv'
  <1>1. StoreOK'
    BY StoreLemma DEF CallsInv, HypnosTypeOK
  <1>2. Moves(w, "returned", call[w].l, phase)
    BY ReturnFact DEF CallsInv, Moves, Phases
  <1>3. MayBe(w, "returned", call[w].l, phase)
    BY DEF MayBe, AtWork, Saved, AfterEnd, WakePC
  <1> QED
    BY <1>1, <1>2, <1>3, MoveLemma

(* A step to one where nothing need be known. *)
Free == {"config", "export", "shutdown", "wait", "kill"}

LEMMA FreeLemma ==
  ASSUME CallsInv, Advances, UNCHANGED <<sleeping, stored>>, NEW w \in Callers,
         call[w].pc \notin {"idle", "returned"}, NEW pc \in Free, Goto(w, pc)
  PROVE  CallsInv'
  <1>1. StoreOK'
    BY StoreLemma DEF CallsInv, HypnosTypeOK
  <1>2. Moves(w, pc, call[w].l, call[w].phase)
    BY GotoFact DEF CallsInv, Moves, Free, PCs, SleepPC, EndPC
  <1>3. call[w].phase = "none"
    BY Zenon DEF CallsInv, CallOK
  <1>4. MayBe(w, pc, call[w].l, call[w].phase)
    BY <1>3 DEF MayBe, AtWork, Saved, AfterEnd, WakePC, Free
  <1> QED
    BY <1>1, <1>2, <1>4, MoveLemma

(* A failed Sleep. *)
LEMMA SleepFailsLemma ==
  ASSUME CallsInv, Advances, UNCHANGED <<sleeping, stored>>, NEW w \in Callers,
         call[w].pc \notin {"idle", "returned"}, SleepReturns(w, FALSE)
  PROVE  CallsInv'
  BY FreeLemma, FailLemma DEF SleepReturns, Free

-----------------------------------------------------------------------------
(* Every step of Sleep, Wake and of the end of a sandbox keeps CallsInv.   *)

(* What is known of the sandbox of a call under way. *)
LEMMA CallFact ==
  ASSUME CallsInv, NEW w \in Callers
  PROVE  /\ call[w] \in CallState /\ call[w].s \in Sandboxes /\ call[w].l \in 0..MaxLaunches
         /\ HypnosTypeOK /\ VMInv /\ CallOK(w)
         /\ vm[call[w].s] \in 0..MaxLaunches
         /\ Holds(call[w].s) => Known(vm[call[w].s])
  <1>1. call[w] \in CallState /\ HypnosTypeOK /\ VMInv /\ CallOK(w)
    BY DEF CallsInv, HypnosTypeOK
  <1>2. call[w].s \in Sandboxes /\ call[w].l \in 0..MaxLaunches
    BY <1>1 DEF CallState
  <1> QED
    BY <1>1, <1>2 DEF VMInv, VMTypeOK, Holds

(* A step that changes no VM, record or file. *)
LEMMA QuietFact ==
  ASSUME CallsInv, GraceKept, UNCHANGED <<vmVars, sleeping, stored>>
  PROVE  Advances /\ StoreOK'
  <1>1. Advances
    BY StillLemma DEF CallsInv, Advances
  <1> QED
    BY <1>1, StoreLemma DEF CallsInv, HypnosTypeOK

LEMMA SleepConfigLemma ==
  ASSUME CallsInv, GraceKept, NEW w \in Callers, SleepConfig(w)
  PROVE  CallsInv'
  <1>1. call[w].pc = "config" /\ Advances /\ StoreOK' /\ UNCHANGED <<sleeping, stored>>
    BY QuietFact DEF SleepConfig, Calling
  <1>2. CASE SleepReturns(w, FALSE)
    BY <1>1, <1>2, SleepFailsLemma, Zenon
  <1>3. CASE /\ Holds(call[w].s)
             /\ call' = [call EXCEPT ![w].pc = "pause", ![w].l = vm[call[w].s]]
    <2>1. Moves(w, "pause", vm[call[w].s], call[w].phase)
      BY <1>3, CallFact, LoadFact, Zenon DEF Moves, PCs, SleepPC
    <2>2. MayBe(w, "pause", vm[call[w].s], call[w].phase)
      BY <1>1, <1>3, CallFact, Zenon DEF MayBe, CallOK, AtWork, Saved, AfterEnd, WakePC
    <2> QED
      BY <1>1, <2>1, <2>2, MoveLemma
  <1> QED
    BY <1>2, <1>3, Zenon DEF SleepConfig

LEMMA SleepPauseLemma ==
  ASSUME CallsInv, GraceKept, NEW w \in Callers, SleepPause(w)
  PROVE  CallsInv'
  <1>1. call[w].pc = "pause" /\ UNCHANGED <<sleeping, stored>>
    BY DEF SleepPause, Calling
  <1>2. CASE SleepReturns(w, FALSE) /\ UNCHANGED vmVars
    BY <1>1, <1>2, QuietFact, SleepFailsLemma, Zenon
  <1>3. CASE PauseVM(call[w].s) /\ Goto(w, "snapshot")
    <2>1. Advances /\ StoreOK'
      BY <1>1, <1>3, CallFact, PauseLemma, StoreLemma DEF Advances, HypnosTypeOK
    <2>2. Moves(w, "snapshot", call[w].l, call[w].phase)
      BY <1>3, CallFact, GotoFact DEF Moves, PCs, SleepPC
    <2>3. MayBe(w, "snapshot", call[w].l, call[w].phase)
      BY <1>1, CallFact, Zenon DEF MayBe, CallOK, AtWork, Saved, AfterEnd, WakePC
    <2> QED
      BY <2>1, <2>2, <2>3, MoveLemma
  <1> QED
    BY <1>2, <1>3, Zenon DEF SleepPause

LEMMA SleepSnapshotLemma ==
  ASSUME CallsInv, GraceKept, NEW w \in Callers, SleepSnapshot(w)
  PROVE  CallsInv'
  <1>1. call[w].pc = "snapshot" /\ Advances /\ StoreOK' /\ UNCHANGED <<sleeping, stored>>
    BY QuietFact DEF SleepSnapshot, Calling
  <1>2. CASE /\ Snapshotable(call[w].s)
             /\ call' = [call EXCEPT ![w].pc = "stop", ![w].l = vm[call[w].s]]
    <2>1. Moves(w, "stop", vm[call[w].s], call[w].phase)
      BY <1>2, CallFact, LoadFact, Zenon DEF Moves, PCs, SleepPC
    <2>2. TrackedAfter(call[w].s, vm[call[w].s])
      BY DEF SleepSnapshot, Tracked, TrackedAfter
    <2>3. MayBe(w, "stop", vm[call[w].s], call[w].phase)
      BY <1>1, <2>2, <1>2, CallFact, Zenon DEF MayBe, CallOK, AtWork, Saved, AfterEnd, WakePC, Snapshotable
    <2> QED
      BY <1>1, <2>1, <2>3, MoveLemma
  <1>3. CASE Goto(w, "resume")
    <2>1. Moves(w, "resume", call[w].l, call[w].phase)
      BY <1>3, CallFact, GotoFact DEF Moves, PCs, SleepPC
    <2>2. MayBe(w, "resume", call[w].l, call[w].phase)
      BY <1>1, CallFact, Zenon DEF MayBe, CallOK, AtWork, Saved, AfterEnd, WakePC
    <2> QED
      BY <1>1, <2>1, <2>2, MoveLemma
  <1> QED
    BY <1>2, <1>3 DEF SleepSnapshot

LEMMA SleepResumeLemma ==
  ASSUME CallsInv, GraceKept, NEW w \in Callers, SleepResume(w)
  PROVE  CallsInv'
  <1>1. call[w].pc = "resume" /\ UNCHANGED <<sleeping, stored>> /\ SleepReturns(w, FALSE)
    BY Zenon DEF SleepResume, Calling
  <1>2. Advances
    BY <1>1, CallFact, PauseLemma, StillLemma DEF Advances, SleepResume
  <1> QED
    BY <1>1, <1>2, SleepFailsLemma, Zenon

LEMMA SleepStopLemma ==
  ASSUME CallsInv, GraceKept, NEW w \in Callers, SleepStop(w)
  PROVE  CallsInv'
  <1>1. call[w].pc = "stop" /\ UNCHANGED <<sleeping, stored>>
    BY DEF SleepStop, Calling
  <1>2. CASE Holds(call[w].s)
    <2>1. Signal(call[w].s) /\ Goto(w, "delete")
      BY <1>2 DEF SleepStop
    <2>2. Advances /\ StoreOK' /\ TrackedAfter(call[w].s, call[w].l)
      <3>1. Advances /\ StoreOK'
        BY <1>1, <1>2, <2>1, CallFact, SignalLemma, StoreLemma DEF Advances, HypnosTypeOK
      <3>2. Tracked(call[w].s, call[w].l) /\ call[w].l \in Launches
        BY <1>1, CallFact, Zenon DEF CallOK, Saved, AtWork, Known
      <3> QED
        BY <3>1, <3>2, CallFact DEF Advances, VMAdvances, Tracked, TrackedAfter
    <2>3. Moves(w, "delete", call[w].l, call[w].phase)
      BY <2>1, CallFact, GotoFact, Zenon DEF Moves, PCs, SleepPC, WakePC, EndPC
    <2>4. MayBe(w, "delete", call[w].l, call[w].phase)
      BY <1>1, <2>2, CallFact, Zenon DEF MayBe, CallOK, AtWork, Saved, AfterEnd, WakePC
    <2> QED
      BY <2>2, <2>3, <2>4, MoveLemma
  <1>3. CASE ~Holds(call[w].s)
    <2>1. UNCHANGED vmVars /\ Goto(w, "mem")
      BY <1>3 DEF SleepStop
    <2>2. Advances /\ StoreOK' /\ GoneAfter(call[w].l)
      <3>1. Advances /\ StoreOK'
        BY <1>1, <2>1, QuietFact
      <3>2. Tracked(call[w].s, call[w].l) /\ call[w].l \in Launches
        BY <1>1, CallFact, Zenon DEF CallOK, Saved, AtWork, Known
      <3>3. vm[call[w].s] # call[w].l
        BY <1>3, <3>2 DEF Holds, Launches
      <3> QED
        BY <3>1, <3>2, <3>3 DEF Advances, VMAdvances, Tracked, TrackedAfter
    <2>3. Moves(w, "mem", call[w].l, call[w].phase)
      BY <2>1, CallFact, GotoFact, Zenon DEF Moves, PCs, SleepPC, WakePC, EndPC
    <2>4. MayBe(w, "mem", call[w].l, call[w].phase)
      BY <1>1, <2>2, CallFact, Zenon DEF MayBe, CallOK, AtWork, Saved, AfterEnd, WakePC
    <2> QED
      BY <2>2, <2>3, <2>4, MoveLemma
  <1> QED
    BY <1>2, <1>3

LEMMA SleepDeleteLemma ==
  ASSUME CallsInv, GraceKept, NEW w \in Callers, SleepDelete(w)
  PROVE  CallsInv'
  <1>1. /\ call[w].pc = "delete" /\ UNCHANGED <<sleeping, stored>>
        /\ Forget(call[w].s) /\ Goto(w, "mem")
    BY DEF SleepDelete, Calling
  <1>2. Tracked(call[w].s, call[w].l) /\ call[w].l \in Launches /\ call[w].l # 0
    <2>1. Tracked(call[w].s, call[w].l) /\ call[w].l \in Launches
      BY <1>1, CallFact, Zenon DEF CallOK, Saved, AtWork, Known
    <2> QED
      BY <2>1 DEF Launches
  <1>3. Advances /\ StoreOK' /\ vm'[call[w].s] = 0
    BY <1>1, CallFact, ForgetLemma, StoreLemma DEF Advances, HypnosTypeOK
  <1>6. GoneAfter(call[w].l)
    BY <1>2, <1>3, CallFact, Zenon DEF Advances, VMAdvances, Tracked, TrackedAfter
  <1>4. Moves(w, "mem", call[w].l, call[w].phase)
    BY <1>1, CallFact, GotoFact, Zenon DEF Moves, PCs, SleepPC, WakePC, EndPC
  <1>5. MayBe(w, "mem", call[w].l, call[w].phase)
    BY <1>1, <1>6, CallFact, Zenon DEF MayBe, CallOK, AtWork, Saved, AfterEnd, WakePC
  <1> QED
    BY <1>3, <1>4, <1>5, MoveLemma

(* A key of a call at work is a key, and not the one for none. *)
LEMMA KeyFact ==
  ASSUME CallsInv, NEW w \in Callers, call[w].pc \in AtWork
  PROVE  KeyOf(w) \in Keys /\ KeyOf(w) = <<call[w].l, w>> /\ KeyOf(w) # NoKey
  <1>1. call[w].l \in Launches
    BY CallFact, Zenon DEF CallOK, Known
  <1>2. call[w].l # 0
    BY <1>1 DEF Launches
  <1> QED
    BY <1>1, <1>2 DEF KeyOf, Keys, NoKey

LEMMA SleepUploadLemma ==
  ASSUME CallsInv, GraceKept, NEW w \in Callers, SleepUploadMem(w) \/ SleepUploadDisk(w)
  PROVE  CallsInv'
  <1>1. PICK part \in {"mem", "disk"}, next \in {"disk", "record"} :
          /\ SleepUpload(w, part, next)
          /\ part = "mem" <=> next = "disk"
    BY DEF SleepUploadMem, SleepUploadDisk
  <1>2. call[w].pc = part /\ UNCHANGED <<vmVars, sleeping>>
    BY <1>1 DEF SleepUpload, Calling
  <1>3. CASE SleepReturns(w, FALSE) /\ UNCHANGED stored
    BY <1>2, <1>3, QuietFact, SleepFailsLemma, Zenon
  <1>4. CASE stored' = stored \cup {<<KeyOf(w), part>>} /\ Goto(w, next)
    <2>1. KeyOf(w) \in Keys /\ KeyOf(w) = <<call[w].l, w>>
      BY <1>2, KeyFact DEF AtWork
    <2>2. Advances /\ StoreOK'
      <3>1. Advances
        BY <1>2, <1>4, CallFact, StillLemma DEF Advances
      <3>2. stored' \subseteq Keys \X {"mem", "disk"}
        BY <1>4, <2>1, CallFact DEF HypnosTypeOK
      <3> QED
        BY <1>2, <3>1, <3>2, StoreLemma
    <2>3. Moves(w, next, call[w].l, call[w].phase)
      BY <1>4, CallFact, GotoFact, Zenon DEF Moves, PCs, SleepPC, WakePC, EndPC
    <2>4. MayBe(w, next, call[w].l, call[w].phase)
      <3>1. <<<<call[w].l, w>>, "mem">> \in stored'
        BY <1>1, <1>2, <1>4, <2>1, CallFact, Zenon DEF CallOK
      <3>2. next = "record" => <<<<call[w].l, w>>, "disk">> \in stored'
        BY <1>1, <1>4, <2>1
      <3>3. GoneAfter(call[w].l)
        BY <1>2, CallFact, Zenon DEF CallOK, AfterEnd, Gone, GoneAfter
      <3> QED
        BY <1>1, <1>2, <3>1, <3>2, <3>3, CallFact, Zenon DEF MayBe, CallOK, AtWork, Saved, AfterEnd, WakePC
    <2> QED
      BY <2>2, <2>3, <2>4, MoveLemma
  <1> QED
    BY <1>1, <1>3, <1>4, Zenon DEF SleepUpload

LEMMA SleepRecordLemma ==
  ASSUME CallsInv, GraceKept, NEW w \in Callers, SleepRecord(w)
  PROVE  CallsInv'
  <1>1. /\ call[w].pc = "record" /\ UNCHANGED <<vmVars, stored>>
        /\ sleeping' = [sleeping EXCEPT ![call[w].s] = KeyOf(w)]
        /\ Return(w, "checkpointed")
    BY DEF SleepRecord, Calling, SleepReturns
  <1>2. /\ Known(call[w].l) /\ Gone(call[w].l)
        /\ BothStored(KeyOf(w)) /\ KeyOf(w) \in Keys /\ KeyOf(w) = <<call[w].l, w>>
    BY <1>1, CallFact, KeyFact, Zenon DEF CallOK, AtWork, Saved, AfterEnd, BothStored
  <1>3. Advances
    BY <1>1, CallFact, StillLemma, Zenon DEF Advances
  <1>4. StoreOK'
    BY <1>1, <1>2, CallFact, Zenon DEF StoreOK, SleepOK, CallsInv, HypnosTypeOK, BothStored
  <1>5. Moves(w, "returned", call[w].l, "checkpointed")
    BY <1>1, CallFact, ReturnFact, Zenon DEF Moves, Phases
  <1>6. MayBe(w, "returned", call[w].l, "checkpointed")
    BY <1>1, <1>2, Zenon DEF MayBe, AtWork, Saved, AfterEnd, WakePC, BothStored, Gone, GoneAfter
  <1> QED
    BY <1>3, <1>4, <1>5, <1>6, MoveLemma

(* Sleep keeps what calls know. *)
LEMMA SleepLemma ==
  ASSUME CallsInv, GraceKept, NEW w \in Callers, Sleep(w)
  PROVE  CallsInv'
  BY SleepConfigLemma, SleepPauseLemma, SleepSnapshotLemma, SleepResumeLemma, SleepStopLemma,
     SleepDeleteLemma, SleepUploadLemma, SleepRecordLemma DEF Sleep

(* Wake keeps what calls know: a VM that it takes from the map is a stray. *)
LEMMA WakeLemma ==
  ASSUME CallsInv, GraceKept, NEW w \in Callers, Wake(w)
  PROVE  CallsInv'
  <1>1. CASE WakeRecord(w)
    <2>1. /\ call[w].pc = "wake" /\ Advances /\ StoreOK'
          /\ UNCHANGED <<vmVars, sleeping, stored>>
      BY <1>1, QuietFact DEF WakeRecord, Calling
    <2>2. CASE Return(w, "failed")
      BY <2>1, <2>2, FailLemma
    <2>3. CASE /\ sleeping[call[w].s] # NoKey
               /\ call' = [call EXCEPT ![w].pc = "download", ![w].key = sleeping[call[w].s]]
      <3>1. sleeping[call[w].s] \in Keys \cup {NoKey}
        BY CallFact, Zenon DEF HypnosTypeOK
      <3>2. Moves(w, "download", call[w].l, call[w].phase)
        BY <2>3, <3>1, CallFact, KeyedFact, Zenon DEF Moves
      <3>4. MayBe(w, "download", call[w].l, call[w].phase)
        BY <2>1, CallFact, Zenon DEF MayBe, CallOK, AtWork, Saved, AfterEnd, WakePC
      <3> QED
        BY <2>1, <3>2, <3>4, MoveLemma
    <2> QED
      BY <1>1, <2>2, <2>3 DEF WakeRecord
  <1>2. CASE WakeDownload(w)
    <2>1. /\ call[w].pc = "download" /\ Advances /\ StoreOK'
          /\ UNCHANGED <<vmVars, sleeping, stored>>
      BY <1>2, QuietFact DEF WakeDownload, Calling
    <2>2. CASE Return(w, "failed")
      BY <2>1, <2>2, FailLemma
    <2>3. CASE Goto(w, "relaunch")
      <3>1. Moves(w, "relaunch", call[w].l, call[w].phase)
        BY <2>3, CallFact, GotoFact, Zenon DEF Moves, PCs, SleepPC, WakePC, EndPC
      <3>2. MayBe(w, "relaunch", call[w].l, call[w].phase)
        BY <2>1, CallFact, Zenon DEF MayBe, CallOK, AtWork, Saved, AfterEnd, WakePC
      <3> QED
        BY <2>1, <3>1, <3>2, MoveLemma
    <2> QED
      BY <1>2, <2>2, <2>3 DEF WakeDownload
  <1>3. CASE WakeLaunch(w)
    <2>1. call[w].pc = "relaunch" /\ UNCHANGED <<sleeping, stored>>
      BY <1>3 DEF WakeLaunch, Calling
    <2>2. CASE Return(w, "failed") /\ UNCHANGED vmVars
      BY <2>1, <2>2, QuietFact, FailLemma
    <2>3. CASE StartVM(call[w].s) /\ Goto(w, "forget")
      <3>2. Advances /\ StoreOK'
        BY <2>1, <2>3, CallFact, StartLemma, StoreLemma, Zenon DEF Advances, HypnosTypeOK
      <3>4. Moves(w, "forget", call[w].l, call[w].phase)
        BY <2>3, CallFact, GotoFact, Zenon DEF Moves, PCs, SleepPC, WakePC, EndPC
      <3>5. MayBe(w, "forget", call[w].l, call[w].phase)
        BY <2>1, CallFact, Zenon DEF MayBe, CallOK, AtWork, Saved, AfterEnd, WakePC
      <3> QED
        BY <3>2, <3>4, <3>5, MoveLemma
    <2> QED
      BY <1>3, <2>2, <2>3 DEF WakeLaunch
  <1>4. CASE WakeForget(w)
    <2>1. /\ call[w].pc = "forget" /\ UNCHANGED <<vmVars, stored>>
          /\ sleeping' = [sleeping EXCEPT ![call[w].s] = NoKey]
          /\ Return(w, "completed")
      BY <1>4 DEF WakeForget, Calling
    <2>2. Advances
      BY <2>1, CallFact, StillLemma, Zenon DEF Advances
    <2>3. StoreOK'
      BY <2>1, CallFact, Zenon DEF StoreOK, SleepOK, CallsInv, HypnosTypeOK, BothStored
    <2>4. Moves(w, "returned", call[w].l, "completed")
      BY <2>1, CallFact, ReturnFact, Zenon DEF Moves, Phases
    <2>5. MayBe(w, "returned", call[w].l, "completed")
      BY <2>1, CallFact, Zenon DEF MayBe, CallOK, AtWork, Saved, AfterEnd, WakePC
    <2> QED
      BY <2>2, <2>3, <2>4, <2>5, MoveLemma
  <1> QED
    BY <1>1, <1>2, <1>3, <1>4 DEF Wake

(* What a Kill reports. *)
LEMMA KillReturnsLemma ==
  ASSUME CallsInv, Advances, UNCHANGED <<sleeping, stored>>, NEW w \in Callers, KillReturns(w)
  PROVE  CallsInv'
  <1>1. CASE call[w].via = "kill"
    <2>1. Return(w, "completed") /\ StoreOK'
      BY <1>1, StoreLemma, CallFact DEF KillReturns, HypnosTypeOK
    <2>2. Moves(w, "returned", call[w].l, "completed")
      BY <2>1, CallFact, ReturnFact, Zenon DEF Moves, Phases
    <2>3. MayBe(w, "returned", call[w].l, "completed")
      BY <1>1 DEF MayBe, AtWork, Saved, AfterEnd, WakePC
    <2> QED
      BY <2>1, <2>2, <2>3, MoveLemma
  <1>2. CASE call[w].via # "kill"
    BY <1>2, FailLemma DEF KillReturns
  <1> QED
    BY <1>1, <1>2

LEMMA EndWaitLemma ==
  ASSUME CallsInv, GraceKept, NEW w \in Callers, EndWait(w)
  PROVE  CallsInv'
  <1>1. call[w].pc = "wait" /\ Advances /\ StoreOK' /\ UNCHANGED <<sleeping, stored>>
    BY QuietFact DEF EndWait, Calling
  <1>2. CASE Return(w, "failed")
    BY <1>1, <1>2, FailLemma
  <1>3. CASE /\ Holds(call[w].s)
             /\ call' = [call EXCEPT ![w].pc = "waiting", ![w].l = vm[call[w].s]]
    <2>1. Moves(w, "waiting", vm[call[w].s], call[w].phase)
      BY <1>3, CallFact, LoadFact, Zenon DEF Moves, PCs, SleepPC, WakePC, EndPC
    <2>2. MayBe(w, "waiting", vm[call[w].s], call[w].phase)
      BY <1>1, <1>3, CallFact, Zenon DEF MayBe, CallOK, AtWork, Saved, AfterEnd, WakePC
    <2> QED
      BY <1>1, <2>1, <2>2, MoveLemma
  <1> QED
    BY <1>2, <1>3 DEF EndWait

LEMMA EndWaitedLemma ==
  ASSUME CallsInv, GraceKept, NEW w \in Callers, EndWaited(w)
  PROVE  CallsInv'
  <1>1. /\ call[w].pc = "waiting" /\ UNCHANGED <<sleeping, stored>>
        /\ proc[call[w].l] \in Exits /\ RecordExit(call[w].l)
    BY Zenon DEF EndWaited, Calling
  <1>2. Advances /\ StoreOK' /\ proc'[call[w].l] \in Exits
    BY <1>1, CallFact, RecordLemma, StoreLemma, Zenon DEF Advances, HypnosTypeOK, RecordExit
  <1>3. CASE Return(w, "failed")
    BY <1>1, <1>2, <1>3, FailLemma, Zenon
  <1>4. CASE Goto(w, "inspect")
    <2>1. Moves(w, "inspect", call[w].l, call[w].phase)
      BY <1>4, CallFact, GotoFact, Zenon DEF Moves, PCs, SleepPC, WakePC, EndPC
    <2>2. MayBe(w, "inspect", call[w].l, call[w].phase)
      BY <1>1, <1>2, CallFact, Zenon DEF MayBe, CallOK, AtWork, Saved, AfterEnd, WakePC
    <2> QED
      BY <1>2, <2>1, <2>2, MoveLemma, Zenon
  <1> QED
    BY <1>3, <1>4 DEF EndWaited

LEMMA EndKillLemma ==
  ASSUME CallsInv, GraceKept, NEW w \in Callers, EndKill(w)
  PROVE  CallsInv'
  <1>1. call[w].pc = "kill" /\ UNCHANGED <<sleeping, stored>>
    BY DEF EndKill, Calling
  <1>2. CASE Holds(call[w].s)
    <2>1. Signal(call[w].s) /\ Goto(w, "unmap")
      BY <1>2 DEF EndKill
    <2>2. Advances /\ StoreOK'
      BY <1>1, <1>2, <2>1, CallFact, SignalLemma, StoreLemma, Zenon DEF Advances, HypnosTypeOK
    <2>3. Moves(w, "unmap", call[w].l, call[w].phase)
      BY <2>1, CallFact, GotoFact, Zenon DEF Moves, PCs, SleepPC, WakePC, EndPC
    <2>4. MayBe(w, "unmap", call[w].l, call[w].phase)
      BY <1>1, <2>2, CallFact, Zenon DEF MayBe, CallOK, AtWork, Saved, AfterEnd, WakePC
    <2> QED
      BY <2>2, <2>3, <2>4, MoveLemma
  <1>3. CASE ~Holds(call[w].s)
    BY <1>1, <1>3, QuietFact, KillReturnsLemma, Zenon DEF EndKill
  <1> QED
    BY <1>2, <1>3

LEMMA EndUnmapLemma ==
  ASSUME CallsInv, GraceKept, NEW w \in Callers, EndUnmap(w)
  PROVE  CallsInv'
  <1>1. /\ call[w].pc = "unmap" /\ UNCHANGED <<sleeping, stored>>
        /\ Forget(call[w].s) /\ KillReturns(w)
    BY DEF EndUnmap, Calling
  <1>3. Advances
    BY <1>1, CallFact, ForgetLemma, Zenon DEF Advances
  <1> QED
    BY <1>1, <1>3, KillReturnsLemma

LEMMA EndInspectLemma ==
  ASSUME CallsInv, GraceKept, NEW w \in Callers, EndInspect(w)
  PROVE  CallsInv'
  <1>1. /\ call[w].pc = "inspect" /\ Advances /\ StoreOK' /\ Return(w, "completed")
        /\ UNCHANGED vmVars
    BY QuietFact, Zenon DEF EndInspect, Calling
  <1>2. Moves(w, "returned", call[w].l, "completed")
    BY <1>1, CallFact, ReturnFact, Zenon DEF Moves, Phases
  <1>3. call[w].l \in Launches /\ proc'[call[w].l] \in Exits
    BY <1>1, CallFact, Zenon DEF CallOK, AtWork, Known
  <1>4. MayBe(w, "returned", call[w].l, "completed")
    BY <1>3, Zenon DEF MayBe, AtWork, Saved, AfterEnd, WakePC
  <1> QED
    BY <1>1, <1>2, <1>4, MoveLemma, Zenon

(* The end of a sandbox keeps what calls know. *)
LEMMA EndLemma ==
  ASSUME CallsInv, GraceKept, NEW w \in Callers, End(w) \/ EndShutdown(w)
  PROVE  CallsInv'
  <1>1. CASE EndExport(w)
    BY <1>1, QuietFact, FreeLemma DEF EndExport, Calling, Free
  <1>2. CASE EndExpired(w)
    <2>1. /\ call[w].pc = "waiting" /\ UNCHANGED <<sleeping, stored>>
          /\ RecordExit(call[w].l) /\ Goto(w, "kill")
      BY <1>2 DEF EndExpired, Calling
    <2>2. Advances
      BY <2>1, CallFact, RecordLemma DEF Advances
    <2> QED
      BY <2>1, <2>2, FreeLemma DEF Free
  <1>3. CASE EndShutdown(w)
    BY <1>3, QuietFact, FreeLemma, FailLemma, Zenon DEF EndShutdown, Calling, Free
  <1> QED
    BY <1>1, <1>2, <1>3, EndWaitLemma, EndWaitedLemma, EndKillLemma, EndUnmapLemma,
       EndInspectLemma DEF End

-----------------------------------------------------------------------------
(* Calls that begin and calls whose result is taken.                       *)

Vias == {"hypnos", "handler", "controller", "kill"}

LEMMA NewCallFact ==
  ASSUME NEW pc \in PCs, NEW s \in Sandboxes, NEW via \in Vias
  PROVE  /\ NewCall(pc, s, via) \in CallState
         /\ NewCall(pc, s, via).pc = pc /\ NewCall(pc, s, via).s = s
         /\ NewCall(pc, s, via).via = via /\ NewCall(pc, s, via).phase = "none"
  BY VMAssumption DEF NewCall, CallState, PCs, Vias, Phases

(* A call may begin where nothing need be known, or as a Wake. *)
LEMMA BeginLemma ==
  ASSUME CallsInv, GraceKept, UNCHANGED <<vmVars, sleeping, stored>>, NEW w \in Callers,
         NEW c \in CallState, call' = [call EXCEPT ![w] = c],
         c.phase = "none", c.pc \in Free \cup {"wake"}, c.pc = "wake" => c.via = "hypnos",
         c.via = "controller" => GraceOK(w, c.grace)'
  PROVE  CallsInv'
  <1>1. Advances /\ StoreOK'
    BY QuietFact
  <1>2. /\ call' \in [Callers -> CallState] /\ call'[w] = c
        /\ \A v \in Callers : v # w => call'[v] = call[v]
    BY DEF CallsInv, HypnosTypeOK
  <1>3. CallOK(w)'
    BY <1>2, Zenon DEF CallOK, AtWork, Saved, AfterEnd, WakePC, Free
  <1>4. \A v \in Callers : v # w => CallOK(v)'
    BY <1>1, <1>2, OthersLemma
  <1> QED
    BY <1>1, <1>2, <1>3, <1>4 DEF CallsInv, Advances, StoreOK, HypnosTypeOK

(* A plain kill, a Sleep or a Wake by Hypnos, a termination by the handler. *)
LEMMA NewCallLemma ==
  ASSUME CallsInv, GraceKept, UNCHANGED <<vmVars, sleeping, stored>>, NEW w \in Callers,
         NEW s \in Sandboxes, NEW pc \in Free \cup {"wake"}, NEW via \in Vias,
         pc = "wake" => via = "hypnos", via # "controller",
         call' = [call EXCEPT ![w] = NewCall(pc, s, via)]
  PROVE  CallsInv'
  <1> DEFINE c == NewCall(pc, s, via)
  <1>1. pc \in PCs
    BY DEF Free, PCs, SleepPC, WakePC, EndPC
  <1>2. c \in CallState /\ c.pc = pc /\ c.via = via /\ c.phase = "none"
    BY <1>1, NewCallFact
  <1>3. call' = [call EXCEPT ![w] = c]
    OBVIOUS
  <1> HIDE DEF c
  <1> QED
    BY <1>2, <1>3, BeginLemma, Zenon

LEMMA TerminateLemma ==
  ASSUME CallsInv, GraceKept, UNCHANGED <<vmVars, sleeping, stored>>, NEW w \in Callers,
         NEW s \in Sandboxes, NEW checkpoint, NEW hypnos, Terminate(w, s, checkpoint, hypnos)
  PROVE  CallsInv'
  <1> DEFINE pc == IF checkpoint /\ hypnos THEN "config" ELSE "shutdown"
  <1>1. pc \in Free \cup {"wake"} /\ pc # "wake" /\ "handler" \in Vias
    BY DEF Free, Vias
  <1>2. call' = [call EXCEPT ![w] = NewCall(pc, s, "handler")]
    BY DEF Terminate
  <1> HIDE DEF pc
  <1> QED
    BY <1>1, <1>2, NewCallLemma, Zenon

(* The grace period of the controller is positive and within the limit. *)
LEMMA GraceFact ==
  ASSUME NEW policy \in Policies, NEW requested \in Nat
  PROVE  /\ EffectiveGrace(policy, requested) \in 1..Limit(policy)
         /\ EffectiveGrace(policy, requested) \in Nat
  BY DEF EffectiveGrace, Policies, Limit, MaxGracePeriod, DefaultGracePeriod

LEMMA RequestLemma ==
  ASSUME CallsInv, GraceKept, UNCHANGED <<vmVars, sleeping, stored>>, NEW w \in Callers,
         NEW s \in Sandboxes, NEW policy \in Policies, NEW skip, NEW hypnos, NEW exporter,
         NEW requested \in Nat,
         \A g \in 1..Limit(policy) : GraceOK(w, g)',
         RequestTermination(w, s, policy, skip, hypnos, exporter, requested)
  PROVE  CallsInv'
  <1> DEFINE checkpoint == ~skip /\ policy.checkpoint /\ hypnos
             pc == IF exporter /\ policy.export THEN "export"
                   ELSE IF checkpoint THEN "config" ELSE "shutdown"
             new == NewCall(pc, s, "controller")
             grace == EffectiveGrace(policy, requested)
             c == [new EXCEPT !.checkpoint = checkpoint, !.grace = grace]
  <1>1. call' = [call EXCEPT ![w] = c]
    BY DEF RequestTermination
  <1>2. GraceOK(w, grace)' /\ grace \in Nat
    BY GraceFact
  <1>3. checkpoint \in BOOLEAN
    OBVIOUS
  <1>4. pc \in Free /\ pc \in PCs /\ "controller" \in Vias
    BY DEF Free, PCs, SleepPC, EndPC, Vias
  <1> HIDE DEF pc, checkpoint, grace
  <1>5. new \in CallState /\ new.pc = pc /\ new.via = "controller" /\ new.phase = "none"
    BY <1>4, NewCallFact
  <1> HIDE DEF new
  <1>6. /\ c \in CallState /\ c.pc = pc /\ c.phase = "none" /\ c.grace = grace
        /\ c.via = "controller"
    BY <1>2, <1>3, <1>5, Zenon DEF CallState
  <1>7. pc # "wake"
    BY <1>4 DEF Free
  <1> HIDE DEF c
  <1> QED
    BY <1>1, <1>2, <1>4, <1>6, <1>7, BeginLemma, Zenon

(* The caller takes the result. *)
LEMMA DoneLemma ==
  ASSUME CallsInv, GraceKept, UNCHANGED <<vmVars, sleeping, stored>>, NEW w \in Callers,
         call[w].pc = "returned", Done(w)
  PROVE  CallsInv'
  <1> DEFINE c == [call[w] EXCEPT !.pc = "idle", !.key = NoKey]
  <1>1. call[w] \in CallState /\ CallOK(w) /\ call \in [Callers -> CallState]
    BY CallFact, Zenon DEF HypnosTypeOK
  <1>2. c \in CallState
    BY <1>1, Zenon DEF CallState
  <1>3. call' = [call EXCEPT ![w] = c]
    BY <1>1, Zenon DEF Done
  <1>4. /\ call' \in [Callers -> CallState] /\ call'[w] = c
        /\ \A v \in Callers : v # w => call'[v] = call[v]
    BY <1>1, <1>2, <1>3
  <1>5. Moves(w, "idle", call[w].l, call[w].phase)
    BY <1>1, <1>4 DEF Moves, CallBecomes, CallState
  <1>6. MayBe(w, "idle", call[w].l, call[w].phase)
    BY <1>1, Zenon
       DEF MayBe, CallOK, AtWork, Saved, AfterEnd, WakePC, KeyOf, BothStored, Gone, GoneAfter
  <1> QED
    BY <1>5, <1>6, QuietFact, MoveLemma

(* A step of a VM or of nothing. *)
LEMMA VMOnlyLemma ==
  ASSUME CallsInv, GraceKept, VMInv', VMAdvances, UNCHANGED hypnosVars
  PROVE  CallsInv'
  <1>1. Advances
    BY DEF Advances
  <1>2. StoreOK'
    BY <1>1, StoreLemma DEF CallsInv, HypnosTypeOK
  <1>3. \A w \in Callers : CallOK(w)'
    BY <1>1, OthersLemma
  <1> QED
    BY <1>2, <1>3 DEF CallsInv, StoreOK, HypnosTypeOK

-----------------------------------------------------------------------------
(* The scheduler and the rest of the system.                               *)

(* What was asked is known of every termination that was scheduled, and    *)
(* its goroutine runs just while it is in progress.                        *)
SchedulerInv ==
  /\ SchedulerTypeOK
  /\ \A t \in Terminations :
       /\ termination[t] # "unused" => request[t] \in [s : Sandboxes, body : Requests]
       /\ runner[t] = "run" <=> termination[t] = "in_progress"

SystemTypeOK ==
  /\ setting \in Settings
  /\ overlay \subseteq Sandboxes
  /\ attached \subseteq Sandboxes
  /\ waiter \in [Sandboxes -> WaiterState]
  /\ inbox \in Seq([type : Commands, s : Sandboxes])
  /\ sent \in 0..setting.messages
  /\ up \in BOOLEAN
  /\ draining \in BOOLEAN

IInv == CallsInv /\ SchedulerInv /\ SystemTypeOK

LEMMA InitInv ==
  ASSUME Init
  PROVE  IInv
  <1>1. VMInv
    <2>1. /\ vm = First /\ launched = Firsts
          /\ proc = [l \in Launches |-> IF l <= launched THEN "running" ELSE "none"]
          /\ code = [l \in Launches |-> "none"] /\ strays = {}
      BY Zenon DEF Init, Firsts
    <2>2. Firsts \in 0..MaxLaunches /\ First \in [Sandboxes -> 1..Firsts]
      BY FirstLaunches, SandboxesAssumption, VMAssumption DEF Firsts
    <2>3. VMTypeOK
      BY <2>1, <2>2, VMAssumption DEF VMTypeOK, Launches, Alive
    <2>4. \A l \in Launches : launched < l <=> proc[l] = "none"
      BY <2>1, <2>2, VMAssumption DEF Launches
    <2> QED
      BY <2>1, <2>2, <2>3, <2>4, VMAssumption DEF VMInv, Known, Launches
  <1>2. PICK s \in Sandboxes : s = CHOOSE x \in Sandboxes : TRUE
    BY SandboxesAssumption
  <1> DEFINE c == NewCall("idle", s, "hypnos")
  <1>3. call = [w \in Callers |-> c]
    BY <1>2, Zenon DEF Init
  <1>4. c \in CallState /\ c.pc = "idle" /\ c.via = "hypnos" /\ c.phase = "none"
    BY NewCallFact DEF PCs, Vias
  <1> HIDE DEF c
  <1>5. HypnosTypeOK
    BY <1>3, <1>4, Zenon DEF Init, HypnosTypeOK
  <1>6. SleepOK
    BY Zenon DEF Init, SleepOK
  <1>7. \A w \in Callers : CallOK(w)
    BY <1>3, <1>4, Zenon DEF CallOK, AtWork, Saved, AfterEnd, WakePC
  <1>8. SchedulerInv
    BY Zenon DEF Init, SchedulerInit, SchedulerInv, SchedulerTypeOK, Statuses
  <1>9. SystemTypeOK
    <2>1. /\ setting \in Settings /\ overlay = Sandboxes /\ attached = Sandboxes
          /\ waiter = [x \in Sandboxes |-> [pc |-> "load", l |-> 0]]
          /\ inbox = <<>> /\ sent = 0 /\ up = TRUE /\ draining = FALSE
      BY Zenon DEF Init
    <2>2. setting.messages \in Nat
      BY <2>1, SettingsAssumption
    <2>3. waiter \in [Sandboxes -> WaiterState]
      BY <2>1, VMAssumption DEF WaiterState
    <2>4. inbox \in Seq([type : Commands, s : Sandboxes])
      BY <2>1
    <2>5. sent \in 0..setting.messages
      BY <2>1, <2>2
    <2>6. up \in BOOLEAN /\ draining \in BOOLEAN
      BY <2>1, Zenon
    <2> QED
      BY <2>1, <2>3, <2>4, <2>5, <2>6, Zenon DEF SystemTypeOK
  <1> QED
    BY <1>1, <1>5, <1>6, <1>7, <1>8, <1>9 DEF IInv, CallsInv

(* The policy of a reason is one of the configured ones. *)
LEMMA PolicyFact ==
  ASSUME setting \in Settings, NEW reason \in Reasons
  PROVE  Policy(reason) \in Policies
  <1>1. setting.resolver \in Resolvers
    BY SettingsAssumption
  <1> QED
    BY <1>1 DEF Policy, ResolvePolicy, Resolvers

LEMMA ReasonFact ==
  \A text : RequestReason(text) \in Reasons /\ ViolationReason(text) \in Reasons
  BY DEF RequestReason, ViolationReason, Reasons

LEMMA WaiterCalls ==
  ASSUME IInv, GraceKept, NEW s \in Sandboxes, WaiterStep(s)
  PROVE  CallsInv'
  <1>1. CASE WaiterWait(s)
    BY <1>1, RecordLemma, VMOnlyLemma, Zenon DEF WaiterWait, IInv, CallsInv
  <1>2. CASE WaiterLoad(s) \/ WaiterDetach(s) \/ WaiterDestroy(s)
    <2>1. UNCHANGED <<vmVars, hypnosVars>>
      BY <1>2, Zenon DEF WaiterLoad, WaiterDetach, WaiterDestroy
    <2> QED
      BY <2>1, StillLemma, VMOnlyLemma DEF IInv, CallsInv
  <1> QED
    BY <1>1, <1>2 DEF WaiterStep

LEMMA MessageCalls ==
  ASSUME IInv, GraceKept, ControlMessage
  PROVE  CallsInv'
  <1> DEFINE m == Head(inbox)
  <1>1. m.type \in Commands /\ m.s \in Sandboxes /\ "loop" \in Callers
    <2>1. inbox \in Seq([type : Commands, s : Sandboxes]) /\ inbox # <<>>
      BY Zenon DEF IInv, SystemTypeOK, ControlMessage
    <2>2. m \in [type : Commands, s : Sandboxes]
      BY <2>1, HeadTailProperties, Zenon
    <2> QED
      BY <2>2, SystemAssumption
  <1>2. Obey(m.type, m.s) /\ UNCHANGED <<vmVars, sleeping, stored>> /\ CallsInv
    BY Zenon DEF ControlMessage, IInv
  <1> HIDE DEF m
  <1>3. CASE m.type \in {"TERMINATE", "CHECKPOINT"}
    BY <1>1, <1>2, <1>3, TerminateLemma, Zenon DEF Obey
  <1>4. CASE m.type = "KILL"
    BY <1>1, <1>2, <1>4, NewCallLemma DEF Obey, Free, Vias
  <1>5. CASE m.type \in {"HIBERNATE", "WAKE"} /\ setting.hypnos
    <2>1. PICK pc \in {"config", "wake"} :
            call' = [call EXCEPT !["loop"] = NewCall(pc, m.s, "hypnos")]
      BY <1>2, <1>5, Zenon DEF Obey
    <2> QED
      BY <1>1, <1>2, <2>1, NewCallLemma, Zenon DEF Free, Vias
  <1>6. CASE m.type \in {"HIBERNATE", "WAKE"} /\ ~setting.hypnos
    <2>1. UNCHANGED <<vmVars, hypnosVars>>
      BY <1>2, <1>6, Zenon DEF Obey
    <2> QED
      BY <1>2, <2>1, StillLemma, VMOnlyLemma DEF CallsInv
  <1> QED
    BY <1>1, <1>3, <1>4, <1>5, <1>6 DEF Commands

LEMMA DrainCalls ==
  ASSUME IInv, GraceKept, NEW s \in Sandboxes, Drain(s)
  PROVE  CallsInv'
  <1>1. UNCHANGED <<vmVars, sleeping, stored>> /\ CallsInv /\ "exit" \in Callers
    BY SystemAssumption DEF Drain, IInv
  <1>2. CASE UNCHANGED call
    BY <1>1, <1>2, StillLemma, VMOnlyLemma DEF CallsInv
  <1>3. CASE Terminate("exit", s, FALSE, setting.hypnos)
    BY <1>1, <1>3, TerminateLemma, Zenon
  <1> QED
    BY <1>2, <1>3, Zenon DEF Drain

LEMMA ServerCalls ==
  ASSUME IInv, GraceKept, NEW t \in Terminations, ServerStart(t) \/ ServerFinish(t)
  PROVE  CallsInv'
  <1>1. UNCHANGED <<vmVars, sleeping, stored>> /\ CallsInv /\ t \in Callers
    BY SchedulerAssumption, Zenon DEF ServerStart, ServerFinish, IInv
  <1>2. CASE ServerFinish(t)
    BY <1>1, <1>2, DoneLemma, Zenon DEF ServerFinish, Calling
  <1>3. CASE ServerStart(t)
    <2>1. request[t] \in [s : Sandboxes, body : Requests]
      BY <1>3, Zenon DEF IInv, SchedulerInv, ServerStart, ExecStart
    <2>2. request[t].s \in Sandboxes /\ request[t].body.grace \in Nat
      BY <2>1, RequestsAssumption
    <2> DEFINE policy == Policy(RequestReason(request[t].body.reason))
               skip == ~request[t].body.checkpoint
               grace == request[t].body.grace
    <2>3. policy \in Policies
      BY PolicyFact, ReasonFact DEF IInv, SystemTypeOK
    <2>4. RequestTermination(t, request[t].s, policy, skip, setting.hypnos, setting.exporter, grace)
      BY <1>3, Zenon DEF ServerStart
    <2>5. \A g \in 1..Limit(policy) : GraceOK(t, g)'
      <3>1. termination'[t] # "unused" /\ UNCHANGED <<request, setting>>
        BY <1>3, Zenon DEF ServerStart, ExecStart, IInv, SchedulerInv, SchedulerTypeOK
      <3>2. RequestReason(request[t].body.reason) \in ReasonsOf(t)
        BY ReasonFact, Zenon DEF ReasonsOf
      <3> QED
        BY <3>1, <3>2 DEF GraceOK, ReasonsOf, Policy
    <2> HIDE DEF policy, skip
    <2> QED
      BY <1>1, <2>2, <2>3, <2>4, <2>5, RequestLemma, Zenon
  <1> QED
    BY <1>2, <1>3

LEMMA ResumeCalls ==
  ASSUME IInv, GraceKept, NEW c \in Clients, NEW s \in Sandboxes, ServerResume(c, s)
  PROVE  CallsInv'
  <1>1. /\ UNCHANGED <<vmVars, sleeping, stored>> /\ CallsInv /\ c \in Callers
        /\ call' = [call EXCEPT ![c] = NewCall("wake", s, "hypnos")]
    BY SchedulerAssumption DEF ServerResume, IInv
  <1> QED
    BY <1>1, NewCallLemma, Zenon DEF Vias

LEMMA FuryCalls ==
  ASSUME IInv, GraceKept, NEW s \in Sandboxes, FuryViolation(s) \/ FuryHookReturns
  PROVE  CallsInv'
  <1>1. UNCHANGED <<vmVars, sleeping, stored>> /\ CallsInv /\ "fury" \in Callers
    BY SystemAssumption, Zenon DEF FuryViolation, FuryHookReturns, IInv
  <1>2. CASE FuryViolation(s)
    <2>1. PICK why \in {"runtime_exceeded", "network_egress_exceeded"} :
            RequestTermination("fury", s, Policy(ViolationReason(why)), FALSE, setting.hypnos,
                               setting.exporter, 0)
      BY <1>2, Zenon DEF FuryViolation
    <2>2. Policy(ViolationReason(why)) \in Policies
      BY PolicyFact, ReasonFact DEF IInv, SystemTypeOK
    <2>3. \A g \in 1..Limit(Policy(ViolationReason(why))) : GraceOK("fury", g)'
      <3>1. ViolationReason(why) \in ReasonsOf("fury") /\ setting' = setting
        BY <1>2, ReasonFact, Zenon DEF ReasonsOf, FuryViolation
      <3> QED
        BY <3>1 DEF GraceOK, ReasonsOf, Policy
    <2> QED
      BY <1>1, <2>1, <2>2, <2>3, RequestLemma, Zenon
  <1>3. CASE FuryHookReturns
    <2>1. CASE Done("fury")
      BY <1>1, <1>3, <2>1, DoneLemma DEF FuryHookReturns, Calling
    <2>2. CASE call' = [call EXCEPT !["fury"] = NewCall("kill", call["fury"].s, "kill")]
      <3>1. PICK x \in Sandboxes : x = call["fury"].s
        BY <1>1, CallFact, Zenon
      <3>2. call' = [call EXCEPT !["fury"] = NewCall("kill", x, "kill")]
        BY <2>2, <3>1
      <3>3. "kill" \in Free \cup {"wake"} /\ "kill" \in Vias
        BY DEF Free, Vias
      <3> QED
        BY <1>1, <3>2, <3>3, NewCallLemma, Zenon
    <2> QED
      BY <1>3, <2>1, <2>2 DEF FuryHookReturns
  <1> QED
    BY <1>2, <1>3

LEMMA StepCalls ==
  ASSUME IInv, GraceKept, NEW w \in Callers, CallStep(w) \/ CallReturned(w)
  PROVE  CallsInv'
  <1>1. CallsInv
    BY DEF IInv
  <1>2. CASE Sleep(w) \/ Wake(w) \/ End(w) \/ EndShutdown(w)
    BY <1>1, <1>2, SleepLemma, WakeLemma, EndLemma
  <1>3. CASE Panics(w)
    BY <1>1, <1>3, StillLemma, VMOnlyLemma, Zenon DEF Panics, CallsInv
  <1>4. CASE CallReturned(w)
    BY <1>1, <1>4, DoneLemma, Zenon DEF CallReturned, Calling
  <1> QED
    BY <1>2, <1>3, <1>4 DEF CallStep

(* The actions that leave VMs, calls, records and files alone. *)
Elsewhere ==
  \/ \E s \in Sandboxes, type \in Commands : Publish(type, s)
  \/ AgentExit \/ ServerCleanup
  \/ \E t \in Terminations : \/ \E s \in Sandboxes : ServerSchedule(t, s)
                             \/ ServerExec(t)
  \/ \E c \in Clients : ServerCancel(c)

(* What calls know is kept by every step. *)
LEMMA CallsNext ==
  ASSUME IInv, GraceKept, Next
  PROVE  CallsInv'
  <1>1. ASSUME NEW s \in Sandboxes, WaiterStep(s) \/ Drain(s) \/ FuryViolation(s)
        PROVE  CallsInv'
    BY <1>1, WaiterCalls, DrainCalls, FuryCalls
  <1>2. CASE Elsewhere
    <2>1. UNCHANGED <<vmVars, hypnosVars>>
      BY <1>2, Zenon DEF Elsewhere, Publish, AgentExit, ServerCleanup, ServerSchedule, ServerExec,
                  ServerCancel
    <2> QED
      BY <2>1, StillLemma, VMOnlyLemma DEF IInv, CallsInv
  <1>3. CASE FuryHookReturns
    BY <1>3, FuryCalls, SandboxesAssumption
  <1>4. ASSUME NEW t \in Terminations, ServerStart(t) \/ ServerFinish(t)
        PROVE  CallsInv'
    BY <1>4, ServerCalls
  <1>5. ASSUME NEW c \in Clients, NEW s \in Sandboxes, ServerResume(c, s)
        PROVE  CallsInv'
    BY <1>5, ResumeCalls
  <1>6. ASSUME NEW w \in Callers, CallStep(w) \/ CallReturned(w)
        PROVE  CallsInv'
    BY <1>6, StepCalls
  <1>7. ASSUME NEW l \in Launches, VMStep(l)
        PROVE  CallsInv'
    BY <1>7, GuestLemma, VMOnlyLemma DEF VMStep, IInv, CallsInv
  <1> QED
    BY <1>1, <1>2, <1>3, <1>4, <1>5, <1>6, <1>7, MessageCalls DEF Next, Elsewhere

-----------------------------------------------------------------------------
(* The scheduler.  Each of its steps keeps its invariant and is a step of  *)
(* the life cycle, seen through the status, or none.                       *)

LifeMove(t, from, to) ==
  termination[t] = from /\ termination' = [termination EXCEPT ![t] = to]

LifeStep ==
  \/ \E t \in Terminations :
       \/ LifeMove(t, "unused", "pending") \/ LifeMove(t, "pending", "in_progress")
       \/ LifeMove(t, "in_progress", "completed") \/ LifeMove(t, "in_progress", "failed")
       \/ LifeMove(t, "pending", "cancelled")
  \/ \E ts \in SUBSET Terminations :
       /\ \A t \in ts : termination[t] \in {"completed", "failed", "cancelled"}
       /\ termination' = [t \in Terminations |-> IF t \in ts THEN "removed" ELSE termination[t]]
  \/ UNCHANGED termination

USE DEF SchedulerInv, SchedulerTypeOK, Statuses

LEMMA ScheduleLemma ==
  ASSUME SchedulerInv, NEW t \in Terminations, NEW s \in Sandboxes, NEW body \in Requests,
         Schedule(t, s, body)
  PROVE  SchedulerInv' /\ LifeStep
  <1>1. SchedulerTypeOK'
    BY DEF Schedule
  <1>2. LifeStep
    BY Zenon DEF Schedule, LifeStep, LifeMove
  <1>3. /\ request'[t] = [s |-> s, body |-> body] /\ runner[t] # "run" /\ runner'[t] = "start"
        /\ termination'[t] = "pending"
    BY SMT DEF Schedule
  <1>4. \A u \in Terminations : u # t =>
          request'[u] = request[u] /\ runner'[u] = runner[u] /\ termination'[u] = termination[u]
    BY Zenon DEF Schedule
  <1>5. [s |-> s, body |-> body] \in [s : Sandboxes, body : Requests]
    BY Zenon
  <1>6. ASSUME NEW u \in Terminations
        PROVE  /\ termination'[u] # "unused" => request'[u] \in [s : Sandboxes, body : Requests]
               /\ runner'[u] = "run" <=> termination'[u] = "in_progress"
    <2>1. CASE u = t
      BY <1>3, <1>5, <2>1, SMT
    <2>2. CASE u # t
      BY <1>4, <2>2, Zenon
    <2> QED
      BY <2>1, <2>2
  <1> QED
    BY <1>1, <1>2, <1>6, Zenon

LEMMA ExecLemma ==
  ASSUME SchedulerInv, NEW t \in Terminations,
         ExecBegin(t) \/ ExecElapsed(t) \/ ExecCancelled(t) \/ ExecDropped(t)
  PROVE  SchedulerInv' /\ LifeStep
  <1>1. PICK pc \in {"none", "delay", "check"} :
          /\ runner' = [runner EXCEPT ![t] = pc] /\ runner[t] # "run"
          /\ UNCHANGED <<termination, request, bySandbox, cancelled, client>>
    BY Zenon DEF ExecBegin, ExecElapsed, ExecCancelled, ExecDropped, RunnerGoto
  <1> QED
    BY <1>1, Zenon DEF LifeStep

LEMMA StartFinishLemma ==
  ASSUME SchedulerInv, NEW t \in Terminations, NEW err, ExecStart(t) \/ ExecFinish(t, err)
  PROVE  SchedulerInv' /\ LifeStep
  <1>1. CASE ExecStart(t)
    BY <1>1, Zenon DEF ExecStart, RunnerGoto, LifeStep, LifeMove
  <1>2. CASE ExecFinish(t, err)
    <2>1. /\ termination[t] = "in_progress" /\ runner' = [runner EXCEPT ![t] = "none"]
          /\ UNCHANGED <<request, bySandbox, cancelled, client>>
      BY <1>2, Zenon DEF ExecFinish, RunnerGoto
    <2>2. PICK end \in {"completed", "failed"} : termination' = [termination EXCEPT ![t] = end]
      BY <1>2, <2>1, Zenon DEF ExecFinish, Present
    <2> QED
      BY <2>1, <2>2, Zenon DEF LifeStep, LifeMove
  <1> QED
    BY <1>1, <1>2, Zenon

LEMMA CancelLemma ==
  ASSUME SchedulerInv, NEW c \in Clients,
         (\E s \in Sandboxes : CancelLookup(c, s)) \/ CancelPending(c) \/ CancelRefused(c)
  PROVE  SchedulerInv' /\ LifeStep
  <1>1. ASSUME NEW s \in Sandboxes, CancelLookup(c, s)
        PROVE  SchedulerInv' /\ LifeStep
    BY <1>1, Zenon DEF CancelLookup, LifeStep
  <1>2. CASE CancelPending(c)
    <2>1. client[c] \in Terminations /\ cancelled \subseteq Terminations
      BY <1>2 DEF CancelPending
    <2>2. PICK t \in Terminations : t = client[c]
      BY <2>1
    <2>3. /\ termination[t] = "pending"
          /\ termination' = [termination EXCEPT ![t] = "cancelled"]
          /\ cancelled' \subseteq Terminations
          /\ client' = [client EXCEPT ![c] = "none"]
          /\ UNCHANGED <<request, bySandbox, runner>>
      BY <1>2, <2>1, <2>2, Zenon DEF CancelPending
    <2>4. LifeStep
      BY <2>3, Zenon DEF LifeStep, LifeMove
    <2> QED
      BY <2>3, <2>4
  <1>3. CASE CancelRefused(c)
    BY <1>3, Zenon DEF CancelRefused, LifeStep
  <1> QED
    BY <1>1, <1>2, <1>3, Zenon

LEMMA CleanupLemma ==
  ASSUME SchedulerInv, NEW ts \in SUBSET Terminations, Cleanup(ts)
  PROVE  SchedulerInv' /\ LifeStep
  <1>1. SchedulerTypeOK'
    BY DEF Cleanup
  <1>2. LifeStep
    BY Zenon DEF Cleanup, LifeStep
  <1> QED
    BY <1>1, <1>2, Zenon DEF Cleanup

LEMMA SchedulerStill ==
  ASSUME SchedulerInv, UNCHANGED schedulerVars
  PROVE  SchedulerInv' /\ LifeStep
  BY DEF LifeStep

(* The actions that leave the scheduler alone. *)
Outside ==
  \/ \E s \in Sandboxes : WaiterStep(s) \/ Drain(s) \/ FuryViolation(s)
  \/ \E s \in Sandboxes, type \in Commands : Publish(type, s)
  \/ ControlMessage \/ AgentExit \/ FuryHookReturns
  \/ \E c \in Clients, s \in Sandboxes : ServerResume(c, s)
  \/ \E w \in Callers : CallStep(w) \/ CallReturned(w)
  \/ \E l \in Launches : VMStep(l)

LEMMA OutsideLemma ==
  ASSUME Outside
  PROVE  UNCHANGED schedulerVars
  BY Zenon DEF Outside, WaiterStep, WaiterLoad, WaiterWait, WaiterDetach, WaiterDestroy, Drain,
     FuryViolation, Publish, ControlMessage, AgentExit, FuryHookReturns, ServerResume, CallStep,
     Panics, CallReturned, VMStep

(* The scheduler's invariant is kept by every step. *)
LEMMA SchedulerNext ==
  ASSUME IInv, Next
  PROVE  SchedulerInv' /\ LifeStep
  <1> USE DEF IInv
  <1> HIDE DEF SchedulerInv, SchedulerTypeOK, Statuses
  <1>1. CASE Outside
    BY <1>1, OutsideLemma, SchedulerStill
  <1>2. CASE ServerCleanup
    BY <1>2, CleanupLemma DEF ServerCleanup
  <1>3. ASSUME NEW t \in Terminations, NEW s \in Sandboxes, ServerSchedule(t, s)
        PROVE  SchedulerInv' /\ LifeStep
    <2>1. setting.requests \subseteq Requests
      BY SettingsAssumption DEF SystemTypeOK
    <2> QED
      BY <1>3, <2>1, ScheduleLemma, Zenon DEF ServerSchedule
  <1>4. ASSUME NEW t \in Terminations, ServerExec(t) \/ ServerStart(t) \/ ServerFinish(t)
        PROVE  SchedulerInv' /\ LifeStep
    BY <1>4, ExecLemma, StartFinishLemma, Zenon DEF ServerExec, ServerStart, ServerFinish
  <1>5. ASSUME NEW c \in Clients, ServerCancel(c)
        PROVE  SchedulerInv' /\ LifeStep
    BY <1>5, CancelLemma DEF ServerCancel
  <1> QED
    BY <1>1, <1>2, <1>3, <1>4, <1>5 DEF Next, Outside

(* A request, once made, is not altered. *)
RequestsKept ==
  \A t \in Terminations :
    termination[t] # "unused" => termination'[t] # "unused" /\ request'[t] = request[t]

LEMMA RequestsNext ==
  ASSUME IInv, Next
  PROVE  RequestsKept
  <1>1. SchedulerTypeOK
    BY DEF IInv, SchedulerInv
  <1>2. \A t \in Terminations : termination[t] # "unused" => termination'[t] # "unused"
    <2>1. LifeStep
      BY SchedulerNext
    <2> QED
      BY <1>1, <2>1 DEF LifeStep, LifeMove
  <1>3. CASE UNCHANGED request
    BY <1>2, <1>3 DEF RequestsKept
  <1>4. ASSUME NEW t \in Terminations, NEW s \in Sandboxes, ServerSchedule(t, s)
        PROVE  RequestsKept
    <2>1. PICK r : request' = [request EXCEPT ![t] = r] /\ termination[t] = "unused"
      BY <1>4, Zenon DEF ServerSchedule, Schedule
    <2> QED
      BY <1>1, <1>2, <2>1 DEF RequestsKept
  <1>5. CASE Outside
    BY <1>3, <1>5, OutsideLemma
  <1>6. ASSUME NEW t \in Terminations, ServerExec(t) \/ ServerStart(t) \/ ServerFinish(t)
        PROVE  UNCHANGED request
    BY <1>6, Zenon DEF ServerExec, ServerStart, ServerFinish, ExecBegin, ExecElapsed,
       ExecCancelled, ExecDropped, ExecStart, ExecFinish
  <1>7. ASSUME ServerCleanup \/ \E c \in Clients : ServerCancel(c)
        PROVE  UNCHANGED request
    BY <1>7, Zenon DEF ServerCleanup, Cleanup, ServerCancel, CancelLookup, CancelPending,
       CancelRefused
  <1> QED
    BY <1>3, <1>4, <1>5, <1>6, <1>7 DEF Next, Outside

(* What a grace period obeys stays so. *)
LEMMA GraceLemma ==
  ASSUME RequestsKept, UNCHANGED setting
  PROVE  GraceKept
  <1> SUFFICES ASSUME NEW w \in Callers, NEW g \in Nat, GraceOK(w, g)
               PROVE  GraceOK(w, g)'
    BY Zenon DEF GraceKept
  <1>1. w = "fury" \/ (w \in Terminations /\ termination'[w] # "unused")
    BY Zenon DEF GraceOK, RequestsKept
  <1>2. ReasonsOf(w)' = ReasonsOf(w)
    BY Zenon DEF GraceOK, RequestsKept, ReasonsOf
  <1> QED
    BY <1>1, <1>2, Zenon DEF GraceOK, Policy

LEMMA GraceNext ==
  ASSUME IInv, Next
  PROVE  GraceKept
  <1>1. CASE Outside \/ Elsewhere
    <2>1. UNCHANGED setting
      BY <1>1, Zenon DEF Outside, WaiterStep, WaiterLoad, WaiterWait, WaiterDetach, WaiterDestroy,
         Drain, FuryViolation, Publish, ControlMessage, AgentExit, FuryHookReturns, ServerResume,
         CallStep, Panics, CallReturned, VMStep, Elsewhere, ServerCleanup, ServerSchedule,
         ServerExec, ServerCancel
    <2> QED
      BY <2>1, RequestsNext, GraceLemma
  <1>2. ASSUME NEW t \in Terminations, ServerStart(t) \/ ServerFinish(t)
        PROVE  GraceKept
    BY <1>2, RequestsNext, GraceLemma, Zenon DEF ServerStart, ServerFinish
  <1> QED
    BY <1>1, <1>2 DEF Next, Outside, Elsewhere

-----------------------------------------------------------------------------
(* The types of the rest.                                                  *)

LEMMA WaiterTypes ==
  ASSUME IInv, NEW s \in Sandboxes, WaiterStep(s)
  PROVE  SystemTypeOK'
  <1>1. /\ waiter \in [Sandboxes -> WaiterState] /\ vm[s] \in 0..MaxLaunches
        /\ SystemTypeOK
    BY DEF IInv, SystemTypeOK, CallsInv, VMInv, VMTypeOK
  <1>2. waiter' \in [Sandboxes -> WaiterState]
    <2>1. CASE WaiterLoad(s)
      BY <1>1, <2>1 DEF WaiterLoad, WaiterState
    <2>2. CASE WaiterWait(s) \/ WaiterDetach(s) \/ WaiterDestroy(s)
      <3>1. PICK pc \in {"detach", "destroy", "done"} : waiter' = [waiter EXCEPT ![s].pc = pc]
        BY <2>2 DEF WaiterWait, WaiterDetach, WaiterDestroy, WaiterGoto
      <3> QED
        BY <1>1, <3>1 DEF WaiterState
    <2> QED
      BY <2>1, <2>2 DEF WaiterStep
  <1>3. /\ overlay' \subseteq Sandboxes /\ attached' \subseteq Sandboxes
        /\ UNCHANGED <<inbox, sent, draining, setting, up>>
    BY <1>1, Zenon DEF SystemTypeOK, WaiterStep, WaiterLoad, WaiterWait, WaiterDetach, WaiterDestroy
  <1> QED
    BY <1>1, <1>2, <1>3, Zenon DEF SystemTypeOK

LEMMA MessageTypes ==
  ASSUME IInv,
         ControlMessage \/ \E s \in Sandboxes, type \in Commands : Publish(type, s)
  PROVE  SystemTypeOK'
  <1> DEFINE Messages == [type : Commands, s : Sandboxes]
  <1>1. /\ SystemTypeOK /\ UNCHANGED <<overlay, attached, waiter, draining, setting, up>>
        /\ inbox \in Seq(Messages) /\ setting.messages \in Nat /\ sent \in 0..setting.messages
    BY SettingsAssumption, Zenon DEF IInv, SystemTypeOK, ControlMessage, Publish
  <1>2. inbox' \in Seq(Messages) /\ sent' \in 0..setting.messages
    <2>1. CASE ControlMessage
      BY <1>1, <2>1, HeadTailProperties, Zenon DEF ControlMessage
    <2>2. ASSUME NEW s \in Sandboxes, NEW type \in Commands, Publish(type, s)
          PROVE  inbox' \in Seq(Messages) /\ sent' \in 0..setting.messages
      <3>1. /\ inbox' = Append(inbox, [type |-> type, s |-> s])
            /\ [type |-> type, s |-> s] \in Messages
        BY <2>2, Zenon DEF Publish
      <3>2. sent < setting.messages /\ sent' = sent + 1
        BY <2>2, Zenon DEF Publish
      <3>3. setting.messages \in Nat /\ sent \in 0..setting.messages
        BY <1>1, Zenon
      <3>4. sent' \in 0..setting.messages
        BY <3>2, <3>3
      <3> HIDE DEF Messages
      <3> QED
        BY <1>1, <3>1, <3>4, AppendProperties, Zenon
    <2> QED
      BY <2>1, <2>2, Zenon
  <1> QED
    BY <1>1, <1>2 DEF SystemTypeOK

(* The other actions change at most whether the process runs or drains. *)
LEMMA RestTypes ==
  ASSUME IInv,
         UNCHANGED <<overlay, attached, waiter, inbox, sent, setting>>,
         up' \in BOOLEAN, draining' \in BOOLEAN
  PROVE  SystemTypeOK'
  BY Zenon DEF IInv, SystemTypeOK

LEMMA SystemNext ==
  ASSUME IInv, Next
  PROVE  SystemTypeOK'
  <1>1. up \in BOOLEAN /\ draining \in BOOLEAN
    BY DEF IInv, SystemTypeOK
  <1>2. ASSUME NEW s \in Sandboxes, Drain(s) \/ FuryViolation(s)
        PROVE  SystemTypeOK'
    BY <1>1, <1>2, RestTypes, Zenon DEF Drain, FuryViolation
  <1>3. CASE AgentExit \/ ServerCleanup \/ FuryHookReturns
    BY <1>1, <1>3, RestTypes, Zenon DEF AgentExit, ServerCleanup, FuryHookReturns
  <1>4. ASSUME NEW t \in Terminations,
               \/ \E s \in Sandboxes : ServerSchedule(t, s)
               \/ ServerExec(t) \/ ServerStart(t) \/ ServerFinish(t)
        PROVE  SystemTypeOK'
    BY <1>1, <1>4, RestTypes, Zenon DEF ServerSchedule, ServerExec, ServerStart, ServerFinish
  <1>5. ASSUME NEW c \in Clients, ServerCancel(c) \/ \E s \in Sandboxes : ServerResume(c, s)
        PROVE  SystemTypeOK'
    BY <1>1, <1>5, RestTypes DEF ServerCancel, ServerResume
  <1>6. ASSUME NEW w \in Callers, CallStep(w) \/ CallReturned(w)
        PROVE  SystemTypeOK'
    BY <1>1, <1>6, RestTypes, Zenon DEF CallStep, Panics, CallReturned
  <1>7. ASSUME NEW l \in Launches, VMStep(l)
        PROVE  SystemTypeOK'
    BY <1>1, <1>7, RestTypes DEF VMStep
  <1> QED
    BY <1>2, <1>3, <1>4, <1>5, <1>6, <1>7, WaiterTypes, MessageTypes DEF Next

-----------------------------------------------------------------------------
(* The theorems.                                                           *)

LEMMA StutterInv ==
  ASSUME IInv, UNCHANGED vars
  PROVE  IInv'
  <1>1. CallsInv'
    <2>1. GraceKept
      BY GraceLemma, Zenon DEF vars, RequestsKept
    <2> QED
      BY <2>1, StillLemma, VMOnlyLemma DEF vars, IInv, CallsInv
  <1>2. SchedulerInv'
    BY SchedulerStill DEF vars, IInv
  <1>3. SystemTypeOK'
    BY RestTypes, Zenon DEF vars, IInv, SystemTypeOK
  <1> QED
    BY <1>1, <1>2, <1>3 DEF IInv

(* The invariant above holds in every reachable state: it is inductive. *)
THEOREM Inductive == Spec => []IInv
  <1>1. Init => IInv
    BY InitInv
  <1>2. IInv /\ [Next]_vars => IInv'
    <2> SUFFICES ASSUME IInv, [Next]_vars PROVE IInv'
      OBVIOUS
    <2>1. CASE Next
      BY <2>1, GraceNext, CallsNext, SchedulerNext, SystemNext, Zenon DEF IInv
    <2> QED
      BY <2>1, StutterInv
  <1> QED
    BY <1>1, <1>2, PTL DEF Spec

(* Every variable keeps its type, whatever the agent, the API server and   *)
(* the watchdog do.                                                        *)
THEOREM TypeCorrect == Spec => []TypeOK
  <1>1. IInv => TypeOK
    BY Zenon DEF IInv, CallsInv, VMInv, SystemTypeOK, TypeOK
  <1> QED
    BY <1>1, Inductive, PTL

(* Whatever Sleep, Wake, kills and failures of the store interleave, a     *)
(* record of Hypnos names a snapshot of which both files were uploaded.    *)
THEOREM Restorable == Spec => []RecordRestorable
  <1>1. IInv => RecordRestorable
    BY Zenon DEF IInv, CallsInv, SleepOK, BothStored, RecordRestorable
  <1> QED
    BY <1>1, Inductive, PTL

(* What Thanatos reports of a termination is so for any number of          *)
(* sandboxes and callers: a completed one has seen its VM end, and the VM  *)
(* of a checkpointed one was ended or left the map while it ran, after     *)
(* both files of its snapshot were stored.                                 *)
THEOREM Reported == Spec => []ReportedEndIsReal
  <1>1. IInv => ReportedEndIsReal
    BY Zenon DEF IInv, CallsInv, CallOK, BothStored, Gone, GoneAfter, Ended, ReportedEndIsReal
  <1> QED
    BY <1>1, Inductive, PTL

(* Whatever the request asks and the policies say, the controller gives    *)
(* the guest a positive grace period within the cap of the policy that     *)
(* applies, the hard cap if that policy has none.                          *)
THEOREM GraceBounded == Spec => []GraceWithinPolicy
  <1>1. IInv => GraceWithinPolicy
    BY Zenon DEF IInv, CallsInv, CallOK, GraceOK, GraceWithinPolicy
  <1> QED
    BY <1>1, Inductive, PTL

(* The scheduler, its goroutines, the handlers that cancel and the cleanup *)
(* implement the life cycle: no interleaving starts a termination twice,   *)
(* or one that was cancelled, or forgets one under way.                    *)
THEOREM Refinement == Spec => ImplementsLifecycle
  <1> DEFINE S == [t \in Terminations |->
                     IF runner[t] = "run" THEN "in_progress" ELSE termination[t]]
  <1>1. Init => Lifecycle!Init
    BY Zenon DEF Init, SchedulerInit, Lifecycle!Init
  <1>2. (IInv => S = termination) /\ (IInv' => S' = termination')
    BY DEF IInv
  <1>3. LifeStep /\ S = termination /\ S' = termination' => [Lifecycle!Next]_S
    <2> SUFFICES ASSUME LifeStep, S = termination, S' = termination'
                 PROVE  Lifecycle!Next \/ S' = S
      OBVIOUS
    <2> QED
      BY Zenon DEF LifeStep, LifeMove, Lifecycle!Next, Lifecycle!Schedule, Lifecycle!Start,
         Lifecycle!Finish, Lifecycle!Cancel, Lifecycle!Remove, Lifecycle!Move, Lifecycle!Settled
  <1>4. IInv /\ IInv' /\ [Next]_vars => [Lifecycle!Next]_S
    <2> SUFFICES ASSUME IInv, IInv', [Next]_vars PROVE [Lifecycle!Next]_S
      OBVIOUS
    <2>1. LifeStep
      <3>1. CASE Next
        BY <3>1, SchedulerNext
      <3>2. CASE UNCHANGED vars
        BY <3>2 DEF vars, LifeStep
      <3> QED
        BY <3>1, <3>2
    <2> QED
      BY <1>2, <1>3, <2>1
  <1> QED
    BY <1>1, <1>4, Inductive, PTL DEF Spec, ImplementsLifecycle, Lifecycle!Spec
=============================================================================

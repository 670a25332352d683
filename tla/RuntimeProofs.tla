--------------------------- MODULE RuntimeProofs ---------------------------
(***************************************************************************)
(* What is proved of the sandbox runtimes, for any callers, sandboxes,     *)
(* number of launches and settings: what Inspect and Allocation tell, what *)
(* the maps of Docker and containerd keep, and that a migration neither    *)
(* runs two copies nor leaves its source paused.  The argument is one      *)
(* invariant in three parts: what an entry of a map or a call under way    *)
(* refers to (RefsInv), that a name is taken once (NamesInv), and where    *)
(* the source and the VM of a migration are (MigrationInv).                *)
(***************************************************************************)
EXTENDS RuntimeStepProofs

(* Most leaves are first-order: Zenon proves them.  The others cite SMT.    *)
USE ZenonT(60)

(* What a step keeps.                                                      *)

LEMMA IsStays ==
  ASSUME NEW L, NEW op, ContPart(L, op), NEW l \in Launches, NEW k, NEW s, Is(l, k, s)
  PROVE  Is(l, k, s)' /\ (cont[l].status # "created" => cont'[l].status # "created")
  BY DEF ContPart, EvolvesAt, Is

LEMMA RefsKept ==
  ASSUME RefsInv, NEW L, NEW op, ContPart(L, op), CodePart, SpecPart, NEW M, EntryPart(M),
         call' \in [Callers -> CallRecord], \A d \in Callers : call'[d] = call[d] \/ CallOK(d)',
         setting' = setting, driver' \in DriverRecord, driver'.kind = setting.kind
  PROVE  RefsInv'
<1>1. setting' \in Settings /\ Types'
  BY DEF RefsInv, Types, ContPart, CodePart, SpecPart, EntryPart
<1>2. ASSUME NEW l \in Launches PROVE ContOK(l)' /\ CodeOK(l)'
  <2>1. ContOK(l) /\ CodeOK(l) /\ ContOK(l)'
    BY DEF RefsInv, ContPart
  <2>2. code'[l] # "none" => TrueCode(l, code[l])'
    <3>1. CASE TrueCode(l, code[l])'
      BY <3>1
    <3>2. CASE code'[l] = code[l] /\ code'[l] # "none"
      <4>1. PICK v : v = code[l]
        OBVIOUS
      <4>2. TrueCode(l, v)'
        BY <2>1, <3>2, <4>1, CodeStays DEF CodeOK
      <4>. QED
        BY <3>2, <4>1, <4>2
    <3>. QED
      BY <3>1, <3>2 DEF CodePart
  <2>3. cont[l].exit # "none" => cont[l].status # "none"
    BY <2>1 DEF ContOK, NoCont
  <2>4. l \in reaped' => cont'[l].kind = "runsc" /\ cont'[l].exit # "none"
    BY <2>1, <2>3 DEF SpecPart, ContPart, EvolvesAt, CodeOK
  <2>5. l \in reader' => cont'[l].kind = "containerd" /\ cont'[l].status # "none"
    BY <2>1 DEF SpecPart, ContPart, EvolvesAt, CodeOK
  <2>6. l \in modules' => cont'[l].kind = "wasm" /\ cont'[l].status # "none"
    BY <2>1 DEF SpecPart, ContPart, EvolvesAt, CodeOK
  <2>. QED
    BY <2>1, <2>2, <2>4, <2>5, <2>6 DEF CodeOK
<1>3. ASSUME NEW k \in Kinds, NEW s \in Sandboxes PROVE EntryOK(k, s)'
  <2>1. CASE EntryOK(k, s)'
    BY <2>1
  <2>2. CASE /\ entry'[k][s] = entry[k][s]
             /\ k = "mock" /\ entry[k][s] # 0 => cont'[entry[k][s]] = cont[entry[k][s]]
    <3>1. PICK l : l = entry[k][s]
      OBVIOUS
    <3>2. CASE l # 0
      <4>1. /\ l \in Launches /\ Is(l, k, s) /\ (k # "wasm" => cont[l].status # "created")
            /\ (k = "mock" => cont[l].exit \in {"none", "ok"} /\ cont[l].status # "removed")
        BY <3>1, <3>2, SMTT(30) DEF RefsInv, Types, EntryOK
      <4>2. Is(l, k, s)' /\ (cont[l].status # "created" => cont'[l].status # "created")
        BY <4>1, IsStays
      <4>. QED
        BY <2>2, <3>1, <4>1, <4>2 DEF EntryOK
    <3>. QED
      BY <2>2, <3>1, <3>2 DEF EntryOK
  <2>. QED
    BY <2>1, <2>2 DEF EntryPart
<1>4. ASSUME NEW s \in Sandboxes PROVE WaiterOK(s)'
  <2>1. PICK l : l = waiter[s]
    OBVIOUS
  <2>2. CASE waiter'[s] = l /\ l # 0
    <3>1. l \in Launches /\ Is(l, "mock", s) /\ cont[l].status # "created"
      BY <2>1, <2>2 DEF RefsInv, Types, WaiterOK
    <3>2. Is(l, "mock", s)' /\ cont'[l].status # "created"
      BY <3>1, IsStays
    <3>. QED
      BY <2>2, <3>2 DEF WaiterOK
  <2>. QED
    BY <2>1, <2>2 DEF SpecPart, WaiterOK
<1>5. ASSUME NEW d \in Callers, call'[d] = call[d] PROVE CallOK(d)'
  <2>1. CallOK(d)
    BY DEF RefsInv
  <2>2. PICK l, v : l = call[d].l /\ v = call[d].seen
    OBVIOUS
  <2>3. l # 0 => l \in Launches
    BY <2>2 DEF RefsInv, Types, CallRecord
  <2>4. l # 0 => /\ Is(l, call[d].kind, call[d].s)'
                 /\ call[d].op # "launch" /\ call[d].kind # "wasm" => cont'[l].status # "created"
    BY <1>5, <2>1, <2>2, <2>3, IsStays, SMTT(30) DEF CallOK, Is
  <2>5. l # 0 /\ TrueCode(l, v) => TrueCode(l, v)'
    BY <2>3, CodeStays
  <2>6. /\ call[d].op = "inspect" /\ call[d].pc = "done" /\ call[d].ok => l # 0 /\ (v = "running" \/ TrueCode(l, v))
    BY <2>1, <2>2 DEF CallOK
  <2>7. call[d].op = "inspect" /\ call[d].pc = "done" /\ call[d].ok =>
          l # 0 /\ (v = "running" \/ TrueCode(call[d].l, call[d].seen)')
    BY <1>5, <2>2, <2>5, <2>6
  <2>. QED
    BY <1>5, <2>1, <2>2, <2>4, <2>7 DEF CallOK
<1>. QED
  BY <1>1, <1>2, <1>3, <1>4, <1>5 DEF RefsInv

(* What a call may come to refer to. *)
Links(d) ==
  \/ call'[d].l \in {0, call[d].l}
  \/ call[d].pc # "idle" /\ call'[d].l = entry[call[d].kind][call[d].s]
  \/ cont[call'[d].l].kind \notin Engines
  \/ cont[call'[d].l].status = "none"

LEMMA PrivateKept ==
  ASSUME Inv, NEW d \in Callers, call'[d] = call[d], NEW L, NEW op, ContPart(L, op), EntryPart(L),
         call[d].op = "launch" /\ call[d].pc \in {"start", "store"} /\ call[d].kind \in Engines => call[d].l \notin L,
         \A e \in Callers : e # d => Links(e)
  PROVE  PrivateOK(d)'
<1>1. SUFFICES ASSUME call[d].op = "launch", call[d].pc \in {"start", "store"}, call[d].kind \in Engines
               PROVE  /\ call[d].pc = "start" => cont'[call[d].l].status = "created"
                      /\ call[d].pc = "store" => cont'[call[d].l].status \notin {"none", "created", "removed"}
                      /\ entry'[call[d].kind][call[d].s] # call[d].l
                      /\ \A e \in Callers : e # d => call'[e].l # call[d].l
  BY DEF PrivateOK
<1>2. PICK l, k, s : l = call[d].l /\ k = call[d].kind /\ s = call[d].s
  OBVIOUS
<1>3. l # 0 /\ l \in Launches /\ Is(l, k, s) /\ k \in Kinds /\ s \in Sandboxes /\ k \in Engines /\ l \notin L
  <2>1. call[d].l # 0
    BY <1>1 DEF Inv, RefsInv, CallOK, Engines
  <2>2. k \in Kinds /\ s \in Sandboxes
    BY <1>1, <1>2, LoadedOK
  <2>. QED
    BY <1>1, <1>2, <2>1, <2>2, CallRefs
<1>4. /\ call[d].pc = "start" => cont[l].status = "created"
      /\ call[d].pc = "store" => cont[l].status \notin {"none", "created", "removed"}
      /\ entry[k][s] # l /\ \A e \in Callers : e # d => call[e].l # l
  BY <1>1, <1>2 DEF Inv, NamesInv, PrivateOK
<1>5. cont'[l] = cont[l] \/ (cont[l].status # "created" /\ cont'[l].status = "exited")
  BY <1>3 DEF ContPart, Is
<1>6. entry'[k][s] # l
  BY <1>3, <1>4, SMTT(30) DEF EntryPart, Is
<1>7. ASSUME NEW e \in Callers, e # d PROVE call'[e].l # l
  <2>1. SUFFICES ASSUME call'[e].l = l PROVE FALSE
    OBVIOUS
  <2>2. call[e].pc # "idle" /\ l = entry[call[e].kind][call[e].s]
    BY <1>3, <1>4, <1>7, <2>1 DEF Links, Is
  <2>3. Is(l, call[e].kind, call[e].s)
    BY <1>3, <2>2, LoadedOK DEF Loaded
  <2>. QED
    BY <1>3, <1>4, <2>2, <2>3 DEF Is
<1>. QED
  BY <1>2, <1>4, <1>5, <1>6, <1>7

LEMMA KilledKept ==
  ASSUME Inv, NEW d \in Callers, call'[d] = call[d], NEW L, NEW op, ContPart(L, op)
  PROVE  KilledOK(d)'
<1>1. SUFFICES ASSUME call[d].op = "kill", call[d].pc = "delete", call[d].kind \in Engines
               PROVE  cont'[call[d].l].status = "removed"
  BY DEF KilledOK
<1>2. PICK l : l = call[d].l /\ l \in Launches /\ Is(l, call[d].kind, call[d].s)
  BY <1>1, CallRefs DEF Inv, RefsInv, CallOK
<1>3. cont[l].status = "removed"
  BY <1>1, <1>2 DEF Inv, NamesInv, KilledOK
<1>4. ContOK(l) /\ EvolvesAt(l)
  BY <1>2 DEF Inv, RefsInv, ContPart
<1>. QED
  BY <1>2, <1>3, <1>4 DEF EvolvesAt

(* Names stay unique. *)
LEMMA NamesKept ==
  ASSUME Inv, NEW L, NEW op, ContPart(L, op), NEW l \in Launches, NEW m \in Launches,
         \/ NoneNew
         \/ \E w \in Callers : NewPart(w)
  PROVE  NamesOK(l, m)'
<1>1. \A n \in Launches : ContOK(n) /\ EvolvesAt(n) /\ ContOK(n)'
  BY DEF Inv, RefsInv, ContPart
<1>2. SUFFICES ASSUME l # m, cont'[l].kind = cont'[m].kind, cont'[l].s = cont'[m].s
               PROVE  /\ cont'[l].kind \in Engines =>
                           cont'[l].status \in {"none", "removed"} \/ cont'[m].status \in {"none", "removed"}
                      /\ cont'[l].kind \in {"gvisor", "runsc"} => ~Alive(l)' \/ ~Alive(m)'
  BY DEF NamesOK
<1>3. CASE cont[l].status # "none" /\ cont[m].status # "none"
  <2>1. NamesOK(l, m)
    BY DEF Inv, NamesInv
  <2>2. \A n \in Launches : cont'[n].kind \in {"gvisor", "runsc"} /\ cont[n].status # "none" /\ Alive(n)' => Alive(n)
    BY <1>1 DEF EvolvesAt, ContOK
  <2>. QED
    BY <1>1, <1>2, <1>3, <2>1, <2>2 DEF EvolvesAt, NamesOK
<1>4. CASE \E n \in {l, m} : cont[n].status = "none" /\ cont'[n] = cont[n]
  BY <1>4 DEF Alive
<1>5. ASSUME NEW x \in Launches, NEW y \in Launches, x # y, cont'[x].kind = cont'[y].kind,
             cont'[x].s = cont'[y].s, cont[x].status = "none", cont'[x] # cont[x]
      PROVE  /\ cont'[x].kind \in Engines => cont'[y].status \in {"none", "removed"}
             /\ cont'[x].kind \in {"gvisor", "runsc"} => ~Alive(x)' \/ ~Alive(y)'
  <2>1. PICK w \in Callers : NewPart(w)
    BY <1>5 DEF NoneNew
  <2>2. /\ cont'[x].kind = call[w].kind /\ cont'[x].s = call[w].s /\ cont'[y] = cont[y]
        /\ call[w].kind \in Engines => Named(call[w].kind, call[w].s) = {}
        /\ call[w].kind \in {"gvisor", "runsc"} /\ Alive(x)' =>
             \A n \in Launches : Is(n, call[w].kind, call[w].s) => ~Alive(n)
    BY <1>5, <2>1, SMTT(30) DEF NewPart
  <2>3. call[w].kind \in Engines => cont[y].status \in {"none", "removed"}
    BY <1>5, <2>2 DEF Named
  <2>4. call[w].kind \in {"gvisor", "runsc"} /\ Alive(x)' => ~Alive(y)
    BY <1>5, <2>2 DEF Is, Alive
  <2>. QED
    BY <2>2, <2>3, <2>4 DEF Alive
<1>. QED
  BY <1>2, <1>3, <1>4, <1>5

(* A step of a call keeps the invariant. *)
LEMMA StepKeeps ==
  ASSUME Inv, NEW w \in Callers, StepOK(w), setting' = setting, driver' = driver
  PROVE  Inv'
<1>1. /\ ContPart({call[w].l}, call[w].op) /\ NewPart(w) /\ CodePart /\ SpecPart /\ EntryPart({call[w].l})
      /\ CallPart(w) /\ PrivateOK(w)' /\ KilledOK(w)'
  BY DEF StepOK
<1>2. RefsInv'
  <2>1. RefsInv /\ driver' \in DriverRecord /\ driver'.kind = setting.kind
    BY DEF Inv, RefsInv, Types
  <2>2. call' \in [Callers -> CallRecord] /\ \A d \in Callers : call'[d] = call[d] \/ CallOK(d)'
    BY <1>1 DEF CallPart
  <2>. QED
    BY <1>1, <2>1, <2>2, RefsKept
<1>3. \A l, m \in Launches : NamesOK(l, m)'
  BY <1>1, NamesKept
<1>4. ASSUME NEW d \in Callers, d # w PROVE PrivateOK(d)' /\ KilledOK(d)'
  <2>1. call'[d] = call[d]
    BY <1>1, <1>4 DEF CallPart
  <2>2. \A e \in Callers : e # d => Links(e)
    <3>1. ASSUME NEW e \in Callers, e # w PROVE Links(e)
      BY <1>1, <3>1 DEF CallPart, Links
    <3>2. Links(w)
      BY <1>1 DEF CallPart, Links
    <3>. QED
      BY <3>1, <3>2
  <2>3. call[d].op = "launch" /\ call[d].pc \in {"start", "store"} /\ call[d].kind \in Engines =>
          call[d].l \notin {call[w].l}
    BY <1>4 DEF Inv, NamesInv, PrivateOK
  <2>. QED
    BY <1>1, <2>1, <2>2, <2>3, PrivateKept, KilledKept
<1>. QED
  BY <1>1, <1>2, <1>3, <1>4 DEF Inv, NamesInv

-----------------------------------------------------------------------------
(* What happens beside the steps of the calls: calls begin and end, and    *)
(* containers and goroutines go on by themselves.                          *)

Begins(d) ==
  /\ call'[d].l = 0 /\ call'[d].pc \in {"idle", "select", "route", "prepare", "load"}
  /\ call'[d].pc # "idle" => call'[d].s \in Sandboxes
  /\ call'[d].ok /\ (call'[d].pc = "select" => call'[d].op = "launch")

LEMMA EnvKeeps ==
  ASSUME Inv, NEW op, ContPart({}, op), NoneNew, CodePart, SpecPart, entry' = entry,
         \A m \in Launches : cont[m].kind = "mock" /\ cont'[m] # cont[m] => \A s \in Sandboxes : EntryOK("mock", s)',
         call' \in [Callers -> CallRecord], \A d \in Callers : call'[d] = call[d] \/ Begins(d),
         setting' = setting, driver' \in DriverRecord, driver'.kind = setting.kind
  PROVE  Inv'
<1>1. EntryPart({})
  <2>1. entry \in [Kinds -> [Sandboxes -> Launches \cup {0}]]
    BY DEF Inv, RefsInv, Types
  <2>2. ASSUME NEW k \in Kinds, NEW s \in Sandboxes, k = "mock", entry[k][s] # 0
        PROVE  EntryOK(k, s)' \/ cont'[entry[k][s]] = cont[entry[k][s]]
    BY <2>1, <2>2, SMTT(30) DEF Inv, RefsInv, EntryOK, Is
  <2>. QED
    BY <2>1, <2>2 DEF EntryPart
<1>2. ASSUME NEW d \in Callers, Begins(d) PROVE CallOK(d)' /\ PrivateOK(d)' /\ KilledOK(d)'
  BY <1>2 DEF Begins, CallOK, PrivateOK, KilledOK
<1>3. RefsInv'
  BY <1>1, <1>2, RefsKept DEF Inv
<1>4. \A l, m \in Launches : NamesOK(l, m)'
  BY NamesKept
<1>5. ASSUME NEW d \in Callers, call'[d] = call[d] PROVE PrivateOK(d)' /\ KilledOK(d)'
  <2>1. \A e \in Callers : e # d => Links(e)
    BY DEF Links, Begins
  <2>. QED
    BY <1>1, <1>5, <2>1, PrivateKept, KilledKept
<1>. QED
  BY <1>2, <1>3, <1>4, <1>5 DEF Inv, NamesInv

LEMMA WorkloadKeeps ==
  ASSUME Inv, WorkloadEnds, setting' = setting
  PROVE  Inv' /\ ContPart({}, "none") /\ NoneNew
<1>1. PICK l \in Launches, e \in Exits : cont[l].kind # "mock" /\ Ends(l, e)
  BY DEF WorkloadEnds, Exits
<1>2. ContPart({}, "none") /\ NoneNew /\ \A m \in Launches : m # l => cont'[m] = cont[m]
  BY <1>1, ContEnds DEF Inv
<1>3. /\ CodePart /\ SpecPart /\ entry' = entry /\ call' \in [Callers -> CallRecord] /\ call' = call
      /\ driver' \in DriverRecord /\ driver'.kind = setting.kind
  BY Still DEF WorkloadEnds, Inv, RefsInv, Types
<1>. QED
  BY <1>1, <1>2, <1>3, EnvKeeps

(* A goroutine records the code of the container it has waited for. *)
LEMMA GoroutineKeeps ==
  ASSUME Inv, setting' = setting, driver' = driver, NEW l \in Launches,
         \/ ContainerdReads(l) /\ UNCHANGED <<waiting, reaped, modules, wasi, waiter, halting>>
         \/ /\ RunscExited(l) \/ (cont[l].kind = "gvisor" /\ GVisorExited(l))
            /\ UNCHANGED <<channel, reader, modules, wasi, waiter, halting>>
         \/ WasmExited(l) /\ UNCHANGED <<channel, reader, waiting, reaped, waiter, halting>>
  PROVE  Inv' /\ cont' = cont
<1>1. /\ cont' = cont /\ entry' = entry /\ call' = call /\ call' \in [Callers -> CallRecord] /\ RefsInv
      /\ driver' \in DriverRecord /\ driver'.kind = setting.kind
  BY DEF ContainerdReads, RunscExited, GVisorExited, WasmExited, Inv, RefsInv, Types
<1>2. ContPart({}, "none") /\ NoneNew
  BY <1>1, ContSame
<1>3. ContOK(l) /\ CodeOK(l) /\ cont[l].exit \in Codes
  BY <1>1 DEF RefsInv, Types, Container, Codes
<1>4. SpecPart /\ CodePart
  <2>1. CASE ContainerdReads(l) /\ UNCHANGED <<waiting, reaped, modules, wasi, waiter, halting>>
    <3>1. cont[l].kind = "containerd"
      BY <1>3, <2>1 DEF ContainerdReads, CodeOK
    <3>2. PICK v \in Received(l) : Receive(l, v) /\ code' = [code EXCEPT ![l] = v]
      BY <2>1 DEF ContainerdReads
    <3>3. reader' \subseteq reader
      BY <2>1 DEF ContainerdReads
    <3>4. SpecPart /\ v \in Codes /\ TrueCode(l, v)'
      BY <1>1, <2>1, <3>1, <3>2, <3>3, ReceivedTrue
    <3>. QED
      BY <1>1, <3>2, <3>4, CodeSet
  <2>2. CASE GVisorExited(l) /\ cont[l].kind \in Runscs /\ UNCHANGED <<channel, reader, modules, wasi, waiter, halting>>
    <3>1. PICK v : v = IF l \in reaped THEN "unknown" ELSE cont[l].exit
      OBVIOUS
    <3>2. v \in Codes /\ TrueCode(l, v)'
      BY <1>1, <1>3, <2>2, <3>1 DEF GVisorExited, TrueCode, CodeOK, Codes
    <3>3. SpecPart
      BY <1>1, <2>2, Still DEF GVisorExited
    <3>. QED
      BY <1>1, <2>2, <3>1, <3>2, <3>3, CodeSet DEF GVisorExited
  <2>3. CASE WasmExited(l) /\ UNCHANGED <<channel, reader, waiting, reaped, waiter, halting>>
    <3>1. PICK v \in Codes : v = cont[l].exit
      BY <1>3
    <3>2. TrueCode(l, v)'
      BY <1>1, <2>3, <3>1 DEF WasmExited, TrueCode
    <3>3. SpecPart
      BY <1>1, <2>3 DEF SpecPart, RefsInv, Types, WasmExited
    <3>. QED
      BY <1>1, <2>3, <3>1, <3>2, <3>3, CodeSet DEF WasmExited
  <2>. QED
    BY <2>1, <2>2, <2>3 DEF RunscExited, Runscs
<1>. QED
  BY <1>1, <1>2, <1>4, EnvKeeps

(* A module of WebAssembly fails to load or is run. *)
LEMMA ModuleKeeps ==
  ASSUME Inv, setting' = setting, driver' = driver, NEW l \in Launches, WasmFails(l) \/ WasmStarts(l),
         UNCHANGED <<channel, reader, waiting, reaped, waiter, halting>>
  PROVE  Inv' /\ ContPart({}, "none") /\ NoneNew
<1>1. /\ entry' = entry /\ call' = call /\ call' \in [Callers -> CallRecord] /\ RefsInv
      /\ driver' \in DriverRecord /\ driver'.kind = setting.kind /\ cont \in [Launches -> Container]
      /\ CodePart /\ SpecPart
  BY Still DEF WasmFails, WasmStarts, Inv, RefsInv, Types
<1>2. cont[l].kind = "wasm" /\ cont[l].status = "created" /\ ContOK(l)
  BY <1>1 DEF RefsInv, CodeOK, WasmFails, WasmStarts, SetStatus
<1>3. PICK st \in Statuses, e \in Exits \cup {"none"} :
        /\ (st = "exited" /\ e = "error") \/ (st = "running" /\ e = "none")
        /\ cont' \in [Launches -> Container]
        /\ cont'[l].kind = "wasm" /\ cont'[l].s = cont[l].s /\ cont'[l].status = st /\ cont'[l].exit = e
        /\ \A m \in Launches : m # l => cont'[m] = cont[m]
  <2>1. CASE WasmFails(l)
    <3>1. cont' = [cont EXCEPT ![l].status = "exited", ![l].exit = "error"]
      BY <2>1 DEF WasmFails
    <3>2. /\ cont' \in [Launches -> Container]
          /\ cont'[l].kind = "wasm" /\ cont'[l].s = cont[l].s
          /\ cont'[l].status = "exited" /\ cont'[l].exit = "error"
          /\ \A m \in Launches : m # l => cont'[m] = cont[m]
      <4>0. PICK c \in Container : c = cont[l]
        BY <1>1
      <4>1. PICK q : q = [c EXCEPT !.status = "exited"]
        OBVIOUS
      <4>2. PICK r : r = [q EXCEPT !.exit = "error"]
        OBVIOUS
      <4>3. q \in Container /\ q.kind = c.kind /\ q.s = c.s /\ q.status = "exited"
        BY ONLY <4>1, SMTT(30) DEF Container, Statuses
      <4>4. r \in Container /\ r.kind = c.kind /\ r.s = c.s /\ r.status = "exited" /\ r.exit = "error"
        BY ONLY <4>2, <4>3, SMTT(30) DEF Container, Exits
      <4>5. cont' = [cont EXCEPT ![l] = r]
        BY <3>1, <4>0, <4>1, <4>2
      <4>. QED
        BY <1>1, <1>2, <4>0, <4>4, <4>5
    <3>. QED
      BY <3>2 DEF Statuses, Exits
  <2>2. CASE WasmStarts(l)
    BY <1>1, <1>2, <2>2, SMTT(30) DEF WasmStarts, SetStatus, Container, Statuses, Exits, ContOK
  <2>. QED
    BY <2>1, <2>2
<1>4. ContPart({}, "none") /\ NoneNew
  <2>1. \A m \in Launches : ContOK(m)
    BY <1>1 DEF RefsInv
  <2>. QED
    BY <1>2, <1>3, <2>1, SMTT(30) DEF ContPart, NoneNew, ContOK, EvolvesAt, Alive, Engines
<1>5. \A m \in Launches : cont[m].kind = "mock" => cont'[m] = cont[m]
  BY <1>2, <1>3
<1>. QED
  BY <1>1, <1>4, <1>5, EnvKeeps

(* The goroutine of Shutdown ends the run that the mock has in the map. *)
LEMMA HaltKeeps ==
  ASSUME Inv, setting' = setting, driver' = driver, NEW s \in Sandboxes, MockHalts(s) \/ MockHaltCancelled(s),
         UNCHANGED <<channel, reader, waiting, reaped, modules, wasi>>
  PROVE  Inv' /\ ContPart({}, "none") /\ NoneNew
<1>1. /\ entry' = entry /\ call' = call /\ call' \in [Callers -> CallRecord] /\ RefsInv
      /\ driver' \in DriverRecord /\ driver'.kind = setting.kind
      /\ \A d \in Callers : call'[d] = call[d] \/ Begins(d)
  BY DEF MockHalts, MockHaltCancelled, engineVars, Inv, RefsInv, Types
<1>2. SpecPart
  BY <1>1 DEF SpecPart, RefsInv, Types, WaiterOK, MockHalts, MockHaltCancelled
<1>3. CASE cont' = cont /\ code' = code
  <2>1. ContPart({}, "none") /\ NoneNew
    BY <1>1, <1>3, ContSame
  <2>2. CodePart
    BY <1>1, <1>3, Still
  <2>. QED
    BY <1>1, <1>2, <1>3, <2>1, <2>2, EnvKeeps
<1>4. CASE MockHalts(s) /\ entry["mock"][s] # 0
  <2>1. PICK l \in Launches : l = entry["mock"][s]
    BY <1>1, <1>4 DEF RefsInv, Types, Kinds
  <2>2. /\ cont[l].kind = "mock" /\ cont[l].status \notin {"none", "created", "removed"}
        /\ cont[l].exit \in {"none", "ok"} /\ ContOK(l) /\ cont \in [Launches -> Container]
    BY <1>1, <1>4, <2>1, SMTT(30) DEF RefsInv, EntryOK, Is, Kinds, Types
  <2>3. /\ cont' = [cont EXCEPT ![l].status = "exited", ![l].exit = "ok"]
        /\ code' = [code EXCEPT ![l] = "ok"]
    BY <1>4, <2>1 DEF MockHalts
  <2>4. /\ cont' \in [Launches -> Container]
        /\ cont'[l].kind = "mock" /\ cont'[l].s = cont[l].s /\ cont'[l].status = "exited" /\ cont'[l].exit = "ok"
        /\ \A m \in Launches : m # l => cont'[m] = cont[m]
    BY <2>2, <2>3 DEF Container, Statuses, Exits
  <2>5. ContPart({}, "none") /\ NoneNew
    <3>1. \A m \in Launches : ContOK(m)
      BY <1>1 DEF RefsInv
    <3>. QED
      BY <2>2, <2>4, <3>1, SMTT(30) DEF ContPart, NoneNew, ContOK, EvolvesAt, Alive, Engines
  <2>6. PICK v \in Codes : v = "ok"
    BY DEF Codes, Exits
  <2>7. TrueCode(l, v)' /\ code' = [code EXCEPT ![l] = v]
    BY <2>3, <2>4, <2>6 DEF TrueCode
  <2>8. CodePart
    BY <1>1, <2>5, <1>2, <2>7, CodeSet
  <2>9. \A r \in Sandboxes : EntryOK("mock", r)'
    <3>1. ASSUME NEW r \in Sandboxes PROVE EntryOK("mock", r) /\ entry["mock"][r] \in Launches \cup {0}
      BY <1>1, <3>1, SMTT(30) DEF RefsInv, Types, Kinds
    <3>. QED
      BY <1>1, <2>2, <2>4, <3>1, SMTT(30) DEF EntryOK, Is
  <2>. QED
    BY <1>1, <1>2, <2>5, <2>8, <2>9, EnvKeeps
<1>. QED
  BY <1>3, <1>4 DEF MockHalts, MockHaltCancelled, engineVars

LEMMA BackgroundKeeps ==
  ASSUME Inv, Background, setting' = setting
  PROVE  Inv' /\ ContPart({}, "none") /\ NoneNew /\ entry' = entry /\ call' = call
<1>1. driver' = driver /\ RefsInv
  BY DEF Background, Inv
<1>2. ASSUME NEW l \in Launches,
             \/ ContainerdReads(l) /\ UNCHANGED <<waiting, reaped, modules, wasi, waiter, halting>>
             \/ /\ RunscExited(l) \/ (cont[l].kind = "gvisor" /\ GVisorExited(l))
                /\ UNCHANGED <<channel, reader, modules, wasi, waiter, halting>>
             \/ WasmExited(l) /\ UNCHANGED <<channel, reader, waiting, reaped, waiter, halting>>
      PROVE  Inv' /\ ContPart({}, "none") /\ NoneNew /\ entry' = entry /\ call' = call
  <2>1. Inv' /\ cont' = cont
    BY <1>1, <1>2, GoroutineKeeps
  <2>2. entry' = entry /\ call' = call
    BY <1>2 DEF ContainerdReads, RunscExited, GVisorExited, WasmExited
  <2>. QED
    BY <1>1, <2>1, <2>2, ContSame
<1>3. ASSUME NEW l \in Launches, WasmFails(l) \/ WasmStarts(l),
             UNCHANGED <<channel, reader, waiting, reaped, waiter, halting>>
      PROVE  Inv' /\ ContPart({}, "none") /\ NoneNew /\ entry' = entry /\ call' = call
  <2>1. entry' = entry /\ call' = call
    BY <1>3 DEF WasmFails, WasmStarts
  <2>. QED
    BY <1>1, <1>3, <2>1, ModuleKeeps
<1>4. ASSUME NEW s \in Sandboxes, MockHalts(s) \/ MockHaltCancelled(s),
             UNCHANGED <<channel, reader, waiting, reaped, modules, wasi>>
      PROVE  Inv' /\ ContPart({}, "none") /\ NoneNew /\ entry' = entry /\ call' = call
  <2>1. entry' = entry /\ call' = call
    BY <1>4 DEF MockHalts, MockHaltCancelled, engineVars
  <2>. QED
    BY <1>1, <1>4, <2>1, HaltKeeps
<1>. QED
  BY <1>2, <1>3, <1>4 DEF Background, WasmRun

(* A call begins or is answered and the rest stays. *)
LEMMA CallsKeep ==
  ASSUME Inv, UNCHANGED <<cont, entry, code, specificVars>>, setting' = setting,
         call' \in [Callers -> CallRecord], \A d \in Callers : call'[d] = call[d] \/ Begins(d),
         driver' \in DriverRecord, driver'.kind = setting.kind
  PROVE  Inv'
<1>1. RefsInv /\ cont' = cont /\ entry' = entry /\ code' = code /\ UNCHANGED specificVars
  BY DEF Inv
<1>2. ContPart({}, "none") /\ NoneNew /\ CodePart /\ SpecPart
  BY <1>1, ContSame, Still DEF specificVars
<1>. QED
  BY <1>1, <1>2, EnvKeeps

BeginsAt(w, k, s, op, pc) ==
  call' = [call EXCEPT ![w] = [NoCall EXCEPT !.op = op, !.kind = k, !.s = s, !.pc = pc]]

LEMMA CallBegins ==
  ASSUME Inv, NEW w \in Callers, NEW k \in Kinds, NEW s \in Sandboxes, NEW op \in Operations, NEW pc \in Points,
         pc \in {"select", "route", "prepare", "load"}, pc = "select" => op = "launch",
         BeginsAt(w, k, s, op, pc)
  PROVE  /\ call' \in [Callers -> CallRecord] /\ Begins(w) /\ \A d \in Callers : d # w => call'[d] = call[d]
         /\ call'[w].op = op /\ call'[w].kind = k /\ call'[w].s = s /\ call'[w].pc = pc
<1>1. PICK c : c = [NoCall EXCEPT !.op = op, !.kind = k, !.s = s, !.pc = pc]
  OBVIOUS
<1>2. PICK ok \in BOOLEAN : ok = TRUE
  OBVIOUS
<1>3. c = [op |-> op, pc |-> pc, kind |-> k, s |-> s, l |-> 0, ok |-> ok, seen |-> "none"]
  BY <1>1, <1>2 DEF NoCall
<1>4. c \in CallRecord /\ c.op = op /\ c.kind = k /\ c.s = s /\ c.pc = pc /\ c.l = 0 /\ c.ok = ok
  BY <1>3 DEF CallRecord, Codes
<1>5. call' = [call EXCEPT ![w] = c] /\ call \in [Callers -> CallRecord]
  BY <1>1 DEF Inv, RefsInv, Types, BeginsAt
<1>6. call' \in [Callers -> CallRecord] /\ call'[w] = c /\ \A d \in Callers : d # w => call'[d] = call[d]
  BY <1>4, <1>5
<1>7. call'[w].ok
  BY <1>2, <1>4, <1>6
<1>. QED
  BY <1>4, <1>6, <1>7 DEF Begins

LEMMA BeginOK ==
  ASSUME Inv, NEW w \in Callers, NEW k \in Kinds, NEW s \in Sandboxes, NEW op \in Operations, Begin(w, k, s, op)
  PROVE  /\ call' \in [Callers -> CallRecord] /\ Begins(w) /\ \A d \in Callers : d # w => call'[d] = call[d]
         /\ call'[w].op = op /\ call'[w].kind = k /\ call'[w].s = s /\ call'[w].pc \in {"prepare", "load"}
<1>1. PICK pc \in {"prepare", "load"} : pc = IF op = "launch" THEN "prepare" ELSE "load"
  OBVIOUS
<1>2. BeginsAt(w, k, s, op, pc) /\ pc \in Points /\ pc \in {"select", "route", "prepare", "load"} /\ pc # "select"
  BY <1>1 DEF Begin, BeginsAt, Points
<1>. QED
  BY <1>1, <1>2, CallBegins, SMTT(30)

LEMMA CallOver ==
  ASSUME Inv, NEW w \in Callers, call' = [call EXCEPT ![w] = NoCall]
  PROVE  /\ call' \in [Callers -> CallRecord] /\ Begins(w) /\ \A d \in Callers : d # w => call'[d] = call[d]
         /\ call'[w].pc = "idle" /\ call'[w].op = "none"
<1>1. NoCall \in CallRecord
  BY DEF NoCall, CallRecord, Points, Kinds, Codes
<1>2. call \in [Callers -> CallRecord]
  BY DEF Inv, RefsInv, Types
<1>3. call' \in [Callers -> CallRecord] /\ call'[w] = NoCall /\ \A d \in Callers : d # w => call'[d] = call[d]
  BY <1>1, <1>2
<1>. QED
  BY <1>3 DEF Begins, NoCall

LEMMA InvokeKeeps ==
  ASSUME Inv, NEW w \in Callers, Invoke(w), setting' = setting
  PROVE  Inv' /\ \A d \in Callers : d # w => call'[d] = call[d]
<1>1. /\ UNCHANGED <<cont, entry, code, specificVars>> /\ driver' = driver
      /\ driver \in DriverRecord /\ driver.kind = setting.kind /\ setting \in Settings
  BY DEF Invoke, Inv, RefsInv, Types
<1>2. PICK s \in setting.sandboxes, op \in setting.ops[w] :
        IF setting.use = "unified"
        THEN call' = [call EXCEPT ![w] = [NoCall EXCEPT !.op = op, !.kind = "microvm", !.s = s,
                                         !.pc = IF op = "launch" THEN "select" ELSE "route"]]
        ELSE Begin(w, IF s = TargetVM THEN "microvm" ELSE setting.kind, s, op)
  BY DEF Invoke
<1>3. s \in Sandboxes /\ op \in Operations /\ setting.kind \in Kinds
  BY <1>1, SettingsAssumption
<1>4. call' \in [Callers -> CallRecord] /\ Begins(w) /\ \A d \in Callers : d # w => call'[d] = call[d]
  <2>1. CASE setting.use = "unified"
    <3>1. PICK pc \in {"select", "route"} : pc = IF op = "launch" THEN "select" ELSE "route"
      OBVIOUS
    <3>2. /\ BeginsAt(w, "microvm", s, op, pc)
          /\ "microvm" \in Kinds /\ pc \in Points /\ (pc = "select" => op = "launch")
      BY <1>2, <2>1, <3>1 DEF BeginsAt, Kinds, Points
    <3>. QED
      BY <1>3, <3>1, <3>2, CallBegins
  <2>2. CASE setting.use # "unified"
    <3>1. PICK k \in Kinds : k = IF s = TargetVM THEN "microvm" ELSE setting.kind
      BY <1>3 DEF Kinds
    <3>2. Begin(w, k, s, op)
      BY <1>2, <2>2, <3>1
    <3>. QED
      BY <1>3, <3>2, BeginOK
  <2>. QED
    BY <2>1, <2>2
<1>. QED
  BY <1>1, <1>4, CallsKeep

LEMMA AnsweredKeeps ==
  ASSUME Inv, NEW w \in Callers, Answered(w), setting' = setting
  PROVE  Inv'
<1>1. /\ UNCHANGED <<cont, entry, code, specificVars>> /\ driver' = driver
      /\ driver \in DriverRecord /\ driver.kind = setting.kind
  BY DEF Answered, Inv, RefsInv, Types
<1>2. call' \in [Callers -> CallRecord] /\ Begins(w) /\ \A d \in Callers : d # w => call'[d] = call[d]
  BY CallOver DEF Answered
<1>. QED
  BY <1>1, <1>2, CallsKeep

-----------------------------------------------------------------------------
(* The steps of the driver.                                                *)

Rollbacks == {"unset", "none", "success", "failed"}

DriverStays == driver' \in DriverRecord /\ driver'.kind = driver.kind /\ driver'.l = driver.l

LEMMA DriverBegins ==
  ASSUME Inv, NEW p, NEW k \in Kinds, NEW s \in Sandboxes, NEW op \in Operations, DriverCalls(p, k, s, op)
  PROVE  /\ DriverStays /\ driver.pc = p /\ ~driver.calling /\ driver'.pc = p /\ driver'.calling
         /\ driver'.err = driver.err /\ driver'.rollback = driver.rollback
         /\ call' \in [Callers -> CallRecord] /\ Begins(Driver)
         /\ \A d \in Callers : d # Driver => call'[d] = call[d]
         /\ call'[Driver].op = op /\ call'[Driver].kind = k /\ call'[Driver].s = s
         /\ call'[Driver].pc \in {"prepare", "load"}
<1>1. driver \in DriverRecord /\ driver.pc = p /\ ~driver.calling /\ Begin(Driver, k, s, op) /\ Driver \in Callers
  BY SettingsAssumption DEF DriverCalls, Inv, RefsInv, Types
<1>2. PICK c \in BOOLEAN : c = TRUE
  OBVIOUS
<1>3. driver' = [driver EXCEPT !.calling = c]
  BY <1>2 DEF DriverCalls
<1>4. DriverStays /\ driver'.pc = p /\ driver'.calling = c /\ driver'.err = driver.err /\ driver'.rollback = driver.rollback
  BY <1>1, <1>3 DEF DriverStays, DriverRecord
<1>. QED
  BY <1>1, <1>2, <1>4, BeginOK

(* The driver is at p with error e when its call has returned. *)
LEMMA DriverTurns ==
  ASSUME Inv, NEW p \in DriverPoints, NEW e \in BOOLEAN, DriverGoes(p, e)
  PROVE  /\ DriverStays /\ driver'.pc = p /\ ~driver'.calling
         /\ (driver'.err <=> driver.err \/ e) /\ driver'.rollback = driver.rollback
         /\ call' \in [Callers -> CallRecord] /\ Begins(Driver) /\ call'[Driver].pc = "idle"
         /\ call'[Driver].op = "none" /\ \A d \in Callers : d # Driver => call'[d] = call[d]
<1>1. driver \in DriverRecord /\ Driver \in Callers
  BY SettingsAssumption DEF Inv, RefsInv, Types
<1>2. PICK c, f \in BOOLEAN : c = FALSE /\ f = (driver.err \/ e)
  OBVIOUS
<1>3. driver' = [driver EXCEPT !.pc = p, !.calling = c, !.err = f]
  BY <1>2 DEF DriverGoes
<1>4. DriverStays /\ driver'.pc = p /\ driver'.calling = c /\ driver'.err = f /\ driver'.rollback = driver.rollback
  BY <1>1, <1>3 DEF DriverStays, DriverRecord
<1>5. call' = [call EXCEPT ![Driver] = NoCall]
  BY DEF DriverGoes
<1>. QED
  BY <1>1, <1>2, <1>4, <1>5, CallOver

(* The driver is at p with error e, without a call. *)
DriverAt(p, e) == driver' = [driver EXCEPT !.pc = p, !.err = e]

LEMMA DriverJumps ==
  ASSUME Inv, NEW p \in DriverPoints, NEW e \in BOOLEAN, DriverAt(p, e)
  PROVE  /\ DriverStays /\ driver'.pc = p /\ driver'.calling = driver.calling
         /\ driver'.err = e /\ driver'.rollback = driver.rollback
<1>1. driver \in DriverRecord
  BY DEF Inv, RefsInv, Types
<1>. QED
  BY <1>1 DEF DriverAt, DriverStays, DriverRecord

(* The migration ends with a result of the rollback. *)
DriverEnds(r) ==
  /\ driver' = [driver EXCEPT !.pc = "finished", !.calling = FALSE, !.rollback = r]
  /\ call' = [call EXCEPT ![Driver] = NoCall]

LEMMA DriverFinishes ==
  ASSUME Inv, NEW r \in Rollbacks, DriverEnds(r)
  PROVE  /\ DriverStays /\ driver'.pc = "finished" /\ ~driver'.calling
         /\ driver'.err = driver.err /\ driver'.rollback = r
         /\ call' \in [Callers -> CallRecord] /\ Begins(Driver) /\ call'[Driver].pc = "idle"
         /\ call'[Driver].op = "none" /\ \A d \in Callers : d # Driver => call'[d] = call[d]
<1>1. driver \in DriverRecord /\ Driver \in Callers
  BY SettingsAssumption DEF Inv, RefsInv, Types
<1>2. PICK c \in BOOLEAN : c = FALSE
  OBVIOUS
<1>3. driver' = [driver EXCEPT !.pc = "finished", !.calling = c, !.rollback = r]
  BY <1>2 DEF DriverEnds
<1>4. DriverStays /\ driver'.pc = "finished" /\ driver'.calling = c /\ driver'.err = driver.err /\ driver'.rollback = r
  BY <1>1, <1>3 DEF DriverStays, DriverRecord, DriverPoints, Rollbacks
<1>5. call' = [call EXCEPT ![Driver] = NoCall]
  BY DEF DriverEnds
<1>. QED
  BY <1>1, <1>2, <1>4, <1>5, CallOver

LEMMA HarnessStays ==
  ASSUME Inv, Harness
  PROVE  /\ DriverStays /\ UNCHANGED <<cont, entry, code>>
         /\ call' \in [Callers -> CallRecord] /\ Begins(Driver) /\ \A d \in Callers : d # Driver => call'[d] = call[d]
<1>1. driver \in DriverRecord /\ Driver \in Callers /\ driver.kind \in Kinds /\ Source \in Sandboxes
  BY SettingsAssumption DEF Inv, RefsInv, Types, DriverRecord
<1>2. CASE HarnessCalls
  <2>1. PICK op \in {"launch", "wait", "logs", "inspect", "kill"} : DriverCalls(op, driver.kind, Source, op)
    BY <1>2 DEF HarnessCalls
  <2>2. op \in Operations
    BY DEF Operations
  <2>3. PICK k \in Kinds : k = driver.kind
    BY <1>1
  <2>4. DriverCalls(op, k, Source, op)
    BY <2>1, <2>3
  <2>. QED
    BY <1>1, <1>2, <2>2, <2>4, DriverBegins DEF HarnessCalls
<1>3. CASE HarnessReturned
  <2>1. PICK op \in {"launch", "wait", "logs", "inspect", "kill"} :
          driver' = [driver EXCEPT
            !.pc = IF op = "launch" /\ ~call[Driver].ok THEN "finished" ELSE HarnessNext(op),
            !.calling = FALSE,
            !.err = @ \/ (op \in {"launch", "wait"} /\ ~call[Driver].ok),
            !.seen = IF op = "inspect" /\ call[Driver].ok THEN call[Driver].seen ELSE @]
    BY <1>3 DEF HarnessReturned
  <2>2. PICK p \in DriverPoints : p = IF op = "launch" /\ ~call[Driver].ok THEN "finished" ELSE HarnessNext(op)
    BY DEF HarnessNext, DriverPoints, CallPoints
  <2>3. PICK c, e \in BOOLEAN : c = FALSE /\ e = (driver.err \/ (op \in {"launch", "wait"} /\ ~call[Driver].ok))
    OBVIOUS
  <2>4. call[Driver].seen \in Codes \cup {"running"} /\ driver.seen \in Codes \cup {"running"}
    BY <1>1 DEF Inv, RefsInv, Types, CallRecord, DriverRecord
  <2>5. PICK v \in Codes \cup {"running"} : v = IF op = "inspect" /\ call[Driver].ok THEN call[Driver].seen ELSE driver.seen
    BY <2>4
  <2>6. driver' = [driver EXCEPT !.pc = p, !.calling = c, !.err = e, !.seen = v]
    BY <2>1, <2>2, <2>3, <2>5
  <2>7. DriverStays
    BY <1>1, <2>6 DEF DriverStays, DriverRecord
  <2>8. call' = [call EXCEPT ![Driver] = NoCall]
    BY <1>3 DEF HarnessReturned
  <2>. QED
    BY <1>1, <1>3, <2>7, <2>8, CallOver DEF HarnessReturned
<1>. QED
  BY <1>2, <1>3 DEF Harness

(* The driver moves, the containers and the maps do not. *)
DriverMoves ==
  /\ UNCHANGED <<cont, entry, code>> /\ DriverStays /\ call' \in [Callers -> CallRecord]
  /\ call'[Driver] = call[Driver] \/ Begins(Driver)
  /\ \A d \in Callers : d # Driver => call'[d] = call[d]

(* Its next point and its next call belong together. *)
CallMatches ==
  /\ driver'.pc \in {"assess", "export", "finished"} \cup CallPoints
  /\ driver'.calling =>
       /\ driver'.pc \in CallPoints
       /\ (<<call[Driver].kind, call[Driver].s, call[Driver].op>> = DriverCall)'
       /\ driver'.pc = "pause" /\ driver'.kind = "docker" => setting.form = "sandbox"
       /\ call'[Driver].pc \in {"prepare", "load"}
  /\ ~driver'.calling => call'[Driver].pc = "idle"

LEMMA UndisturbedSame ==
  ASSUME setting' = setting
  PROVE  (Undisturbed("pause")' <=> Undisturbed("pause")) /\ (Undisturbed("resume")' <=> Undisturbed("resume"))
  BY DEF Undisturbed

LEMMA DriverFrame ==
  ASSUME Inv, MigrationInv, setting.use = "migrate", setting' = setting, driver.pc # "idle", DriverMoves, CallMatches
  PROVE  /\ DriverOK' /\ (\A w \in Callers : OtherOK(w)') /\ VMOK' /\ ~Succeeded'
         /\ (SourceHeld' <=> SourceHeld) /\ (SourceResumed' <=> SourceResumed)
         /\ (NoVM' <=> NoVM) /\ (VMGone' <=> VMGone)
<1>1. /\ cont' = cont /\ entry' = entry /\ driver'.l = driver.l /\ Driver \in Callers
      /\ DriverOK /\ (\A w \in Callers : OtherOK(w)) /\ VMOK
  BY SettingsAssumption DEF DriverMoves, DriverStays, MigrationInv
<1>2. DriverOK'
  <2>1. driver.l # 0 /\ Is(driver.l, setting.kind, Source) /\ cont[driver.l].status # "created"
    BY <1>1 DEF DriverOK
  <2>2. driver'.pc \in {"idle", "assess", "export", "finished"} \cup CallPoints /\ driver'.pc # "idle"
    BY DEF CallMatches, CallPoints
  <2>3. Is(driver.l, setting.kind, Source)' /\ cont'[driver'.l].status # "created" /\ driver'.l # 0
    BY <1>1, <2>1 DEF Is
  <2>. QED
    BY <2>2, <2>3 DEF DriverOK, CallMatches
<1>3. ASSUME NEW w \in Callers PROVE OtherOK(w)'
  <2>1. CASE w = Driver
    BY <2>1 DEF OtherOK, CallMatches
  <2>2. CASE w # Driver
    BY <1>1, <2>2 DEF OtherOK, DriverMoves, Undisturbed
  <2>. QED
    BY <2>1, <2>2
<1>4. VMOK'
  BY <1>1 DEF VMOK
<1>5. (SourceHeld' <=> SourceHeld) /\ (SourceResumed' <=> SourceResumed)
  BY <1>1, UndisturbedSame DEF SourceHeld, SourceResumed
<1>. QED
  BY <1>1, <1>2, <1>3, <1>4, <1>5 DEF Succeeded, CallMatches, NoVM, VMGone, Alive

(* The driver makes the call of its point. *)
LEMMA MigrationCalls ==
  ASSUME Inv, MigrationInv, setting.use = "migrate", setting' = setting, UNCHANGED <<cont, entry, code>>,
         NEW p \in CallPoints, NEW k \in Kinds, NEW s \in Sandboxes, NEW op \in Operations, DriverCalls(p, k, s, op),
         <<k, s, op>> = DriverCall, p = "pause" /\ k = "docker" => setting.form = "sandbox"
  PROVE  DriverMoves /\ MigrationInv'
<1>1. /\ DriverStays /\ driver.pc = p /\ ~driver.calling /\ driver'.pc = p /\ driver'.calling
      /\ driver'.err = driver.err /\ driver'.rollback = driver.rollback
      /\ call' \in [Callers -> CallRecord] /\ Begins(Driver)
      /\ \A d \in Callers : d # Driver => call'[d] = call[d]
      /\ call'[Driver].op = op /\ call'[Driver].kind = k /\ call'[Driver].s = s
      /\ call'[Driver].pc \in {"prepare", "load"}
  BY DriverBegins
<1>2. DriverMoves
  BY <1>1 DEF DriverMoves
<1>3. DriverCall' = DriverCall
  BY <1>1 DEF DriverCall, DriverStays
<1>4. CallMatches
  BY <1>1, <1>3 DEF CallMatches, DriverStays, DriverCall, CallPoints
<1>5. driver.pc # "idle" /\ PhaseOK /\ ~Succeeded
  BY <1>1 DEF CallPoints, MigrationInv, Succeeded
<1>6. /\ DriverOK' /\ (\A w \in Callers : OtherOK(w)') /\ VMOK' /\ ~Succeeded'
      /\ (SourceHeld' <=> SourceHeld) /\ (SourceResumed' <=> SourceResumed)
      /\ (NoVM' <=> NoVM) /\ (VMGone' <=> VMGone)
  BY <1>2, <1>4, <1>5, DriverFrame
<1>7. PhaseOK'
  BY <1>1, <1>5, <1>6 DEF PhaseOK, CallPoints
<1>. QED
  BY <1>2, <1>6, <1>7 DEF MigrationInv

(* The driver goes on to another point without a call. *)
LEMMA MigrationGoes ==
  ASSUME Inv, MigrationInv, setting.use = "migrate", setting' = setting, driver.pc # "idle", DriverMoves,
         driver'.pc \in {"export", "finished"} \cup CallPoints, ~driver'.calling, call'[Driver].pc = "idle",
         driver'.pc \in {"pause", "export", "launch", "verify", "cutover"} => ~driver'.err,
         driver'.pc # "finished" => driver'.rollback = "unset",
         driver'.pc = "pause" => SourceResumed,
         driver'.pc \in {"pause", "export", "launch"} => NoVM,
         driver'.pc \in {"export", "launch", "verify", "cutover", "cleanup"} => SourceHeld,
         driver'.pc = "rollback" => VMGone,
         driver'.pc = "finished" => IF driver'.rollback = "none" THEN SourceHeld ELSE VMGone,
         driver'.pc = "finished" /\ driver'.err /\ driver'.rollback # "failed" => SourceResumed
  PROVE  MigrationInv'
<1>1. CallMatches
  BY DEF CallMatches
<1>2. /\ DriverOK' /\ (\A w \in Callers : OtherOK(w)') /\ VMOK' /\ ~Succeeded'
      /\ (SourceHeld' <=> SourceHeld) /\ (SourceResumed' <=> SourceResumed)
      /\ (NoVM' <=> NoVM) /\ (VMGone' <=> VMGone)
  BY <1>1, DriverFrame
<1>3. PhaseOK'
  BY <1>2 DEF PhaseOK, CallPoints
<1>. QED
  BY <1>2, <1>3 DEF MigrationInv

LEMMA AssessKeeps ==
  ASSUME Inv, MigrationInv, setting.use = "migrate", setting' = setting, MigrateAssess(setting.form, setting.config)
  PROVE  DriverMoves /\ MigrationInv'
<1>1. /\ driver.pc = "assess" /\ UNCHANGED <<cont, entry, code, call>> /\ call \in [Callers -> CallRecord]
      /\ PhaseOK /\ DriverOK
  BY DEF MigrateAssess, MigrationInv, Inv, RefsInv, Types, engineVars
<1>2. PICK p \in {"finished", "pause"}, e \in BOOLEAN : DriverAt(p, e) /\ (e <=> p = "finished")
  <2>1. CASE driver' = [driver EXCEPT !.pc = "finished", !.err = TRUE]
    BY <2>1 DEF DriverAt
  <2>2. CASE driver' = [driver EXCEPT !.pc = IF AssessedRisk(setting.config) = "high" THEN "finished" ELSE "pause",
                                      !.err = AssessedRisk(setting.config) = "high"]
    <3>1. PICK p \in {"finished", "pause"} : p = IF AssessedRisk(setting.config) = "high" THEN "finished" ELSE "pause"
      OBVIOUS
    <3>2. PICK e \in BOOLEAN : e = (AssessedRisk(setting.config) = "high")
      OBVIOUS
    <3>3. DriverAt(p, e)
      BY <2>2, <3>1, <3>2 DEF DriverAt
    <3>. QED
      BY <3>1, <3>2, <3>3
  <2>. QED
    BY <2>1, <2>2 DEF MigrateAssess
<1>3. /\ DriverStays /\ driver'.pc = p /\ driver'.calling = driver.calling
      /\ driver'.err = e /\ driver'.rollback = driver.rollback
  <2>1. p \in DriverPoints
    BY DEF DriverPoints, CallPoints
  <2>. QED
    BY <1>2, <2>1, DriverJumps
<1>4. DriverMoves
  BY <1>1, <1>3 DEF DriverMoves
<1>5. ~driver'.calling /\ call'[Driver].pc = "idle"
  BY <1>1, <1>3 DEF DriverOK, CallPoints
<1>6. SourceResumed /\ NoVM /\ VMGone /\ driver'.rollback = "unset"
  <2>1. driver.l \in Launches
    BY <1>1 DEF DriverOK, Inv, RefsInv, Types, DriverRecord
  <2>. QED
    BY <1>1, <1>3, <2>1 DEF PhaseOK, SourceResumed, NoVM, VMGone
<1>. QED
  BY <1>1, <1>2, <1>3, <1>4, <1>5, <1>6, MigrationGoes DEF CallPoints

LEMMA PauseKeeps ==
  ASSUME Inv, MigrationInv, setting.use = "migrate", setting' = setting, MigratePause(setting.form)
  PROVE  DriverMoves /\ MigrationInv'
<1>1. /\ Source \in Sandboxes /\ driver.kind \in Kinds /\ call \in [Callers -> CallRecord] /\ PhaseOK /\ DriverOK
      /\ "pause" \in Operations /\ "pause" \in CallPoints
  BY SettingsAssumption DEF MigrationInv, Inv, RefsInv, Types, DriverRecord, Operations, CallPoints
<1>2. CASE /\ driver.kind = "docker" => setting.form = "sandbox"
           /\ DriverCalls("pause", driver.kind, Source, "pause")
           /\ UNCHANGED <<cont, entry, code>>
  <2>1. PICK k \in Kinds : k = driver.kind
    BY <1>1
  <2>2. DriverCalls("pause", k, Source, "pause") /\ driver.pc = "pause"
    BY <1>2, <2>1 DEF DriverCalls
  <2>3. <<k, Source, "pause">> = DriverCall
    BY <2>1, <2>2 DEF DriverCall
  <2>. QED
    BY <1>1, <1>2, <2>1, <2>2, <2>3, MigrationCalls
<1>3. CASE /\ driver.pc = "pause" /\ driver.kind = "docker" /\ setting.form # "sandbox"
           /\ driver' = [driver EXCEPT !.pc = "finished", !.err = TRUE]
           /\ UNCHANGED engineVars
  <2>1. PICK e \in BOOLEAN : e = TRUE
    OBVIOUS
  <2>2. DriverAt("finished", e) /\ "finished" \in DriverPoints
    BY <1>3, <2>1 DEF DriverAt, DriverPoints
  <2>3. /\ DriverStays /\ driver'.pc = "finished" /\ driver'.calling = driver.calling
        /\ driver'.err = e /\ driver'.rollback = driver.rollback
    BY <2>2, DriverJumps
  <2>4. DriverMoves
    BY <1>1, <1>3, <2>3 DEF DriverMoves, engineVars
  <2>5. ~driver.calling
    BY <1>1, <1>3 DEF DriverOK
  <2>6. ~driver'.calling /\ call'[Driver].pc = "idle"
    BY <1>1, <1>3, <2>3, <2>5 DEF DriverOK, engineVars
  <2>7. SourceResumed /\ VMGone /\ driver'.rollback = "unset" /\ driver.pc # "idle"
    BY <1>1, <1>3, <2>3, <2>5 DEF PhaseOK, Succeeded, NoVM, VMGone
  <2>. QED
    BY <2>3, <2>4, <2>6, <2>7, MigrationGoes
<1>. QED
  BY <1>2, <1>3 DEF MigratePause

LEMMA ExportKeeps ==
  ASSUME Inv, MigrationInv, setting.use = "migrate", setting' = setting, MigrateExport(setting.form)
  PROVE  DriverMoves /\ MigrationInv'
<1>1. /\ driver.pc = "export" /\ UNCHANGED <<cont, entry, code, call>> /\ call \in [Callers -> CallRecord]
      /\ PhaseOK /\ DriverOK
  BY DEF MigrateExport, MigrationInv, Inv, RefsInv, Types, engineVars
<1>2. PICK p \in {"launch", "rollback"}, e \in BOOLEAN : DriverAt(p, e) /\ (e <=> p = "rollback")
  <2>1. PICK ok \in Exports(setting.form) :
          driver' = [driver EXCEPT !.pc = IF ok THEN "launch" ELSE "rollback", !.err = ~ok]
    BY DEF MigrateExport
  <2>2. PICK p \in {"launch", "rollback"} : p = IF ok THEN "launch" ELSE "rollback"
    OBVIOUS
  <2>3. PICK e \in BOOLEAN : e = ~ok
    OBVIOUS
  <2>4. DriverAt(p, e)
    BY <2>1, <2>2, <2>3 DEF DriverAt
  <2>. QED
    BY <2>2, <2>3, <2>4
<1>3. /\ DriverStays /\ driver'.pc = p /\ driver'.calling = driver.calling
      /\ driver'.err = e /\ driver'.rollback = driver.rollback
  <2>1. p \in DriverPoints
    BY DEF DriverPoints, CallPoints
  <2>. QED
    BY <1>2, <2>1, DriverJumps
<1>4. DriverMoves
  BY <1>1, <1>3 DEF DriverMoves
<1>5. ~driver'.calling /\ call'[Driver].pc = "idle"
  BY <1>1, <1>3 DEF DriverOK, CallPoints
<1>6. SourceHeld /\ NoVM /\ VMGone /\ driver'.rollback = "unset"
  BY <1>1, <1>3 DEF PhaseOK, NoVM, VMGone
<1>. QED
  BY <1>1, <1>2, <1>3, <1>4, <1>5, <1>6, MigrationGoes DEF CallPoints

(* The call of the driver has returned and it goes on to p, with error e. *)
LEMMA ReturnKeeps ==
  ASSUME Inv, MigrationInv, setting.use = "migrate", setting' = setting, UNCHANGED <<cont, entry, code>>,
         MigratePaused \/ MigrateLaunched \/ MigrateVerified \/ (DriverReturned("cleanup") /\ DriverGoes("rollback", TRUE))
  PROVE  DriverMoves /\ MigrationInv'
<1>1. PhaseOK /\ driver.calling /\ call[Driver].pc = "done"
  BY DEF MigratePaused, MigrateLaunched, MigrateVerified, DriverReturned, MigrationInv
<1>2. ASSUME NEW p \in CallPoints \cup {"export", "finished"}, NEW e \in BOOLEAN, DriverGoes(p, e),
             driver.pc \in {"pause", "launch", "verify", "cleanup"},
             p \in {"export", "verify", "cutover"} => ~driver.err /\ ~e, p \notin {"pause", "launch"},
             p = "finished" => SourceResumed,
             p = "export" => NoVM,
             p \in {"export", "verify", "cutover", "cleanup"} => SourceHeld,
             p \in {"rollback", "finished"} => VMGone
      PROVE  DriverMoves /\ MigrationInv'
  <2>1. p \in DriverPoints
    BY DEF DriverPoints
  <2>2. /\ DriverStays /\ driver'.pc = p /\ ~driver'.calling
        /\ (driver'.err <=> driver.err \/ e) /\ driver'.rollback = driver.rollback
        /\ call' \in [Callers -> CallRecord] /\ Begins(Driver) /\ call'[Driver].pc = "idle"
        /\ \A d \in Callers : d # Driver => call'[d] = call[d]
    BY <1>2, <2>1, DriverTurns
  <2>3. DriverMoves
    BY <2>2 DEF DriverMoves
  <2>4. driver.pc # "idle" /\ driver'.rollback = "unset"
    BY <1>1, <1>2, <2>2 DEF PhaseOK
  <2>. QED
    BY <1>2, <2>2, <2>3, <2>4, MigrationGoes
<1>3. CASE MigratePaused
  <2>1. driver.pc = "pause" /\ ~driver.err /\ NoVM /\ VMGone /\ (IF call[Driver].ok THEN SourceHeld ELSE SourceResumed)
    BY <1>1, <1>3 DEF MigratePaused, DriverReturned, PhaseOK, NoVM, VMGone, Succeeded
  <2>2. PICK p \in CallPoints \cup {"export", "finished"} : p = IF call[Driver].ok THEN "export" ELSE "finished"
    OBVIOUS
  <2>3. PICK e \in BOOLEAN : e = ~call[Driver].ok
    OBVIOUS
  <2>4. DriverGoes(p, e)
    BY <1>3, <2>2, <2>3 DEF MigratePaused
  <2>. QED
    BY <1>2, <2>1, <2>2, <2>3, <2>4 DEF CallPoints
<1>4. CASE MigrateLaunched
  <2>1. driver.pc = "launch" /\ ~driver.err /\ (~call[Driver].ok => VMGone) /\ SourceHeld
    BY <1>1, <1>4 DEF MigrateLaunched, DriverReturned, PhaseOK, NoVM, VMGone, Succeeded
  <2>2. PICK p \in CallPoints \cup {"export", "finished"} : p = IF call[Driver].ok THEN "verify" ELSE "rollback"
    BY DEF CallPoints
  <2>3. PICK e \in BOOLEAN : e = ~call[Driver].ok
    OBVIOUS
  <2>4. DriverGoes(p, e)
    BY <1>4, <2>2, <2>3 DEF MigrateLaunched
  <2>. QED
    BY <1>2, <2>1, <2>2, <2>3, <2>4 DEF CallPoints
<1>5. CASE MigrateVerified
  <2>1. driver.pc = "verify" /\ ~driver.err /\ SourceHeld
    BY <1>1, <1>5 DEF MigrateVerified, DriverReturned, PhaseOK
  <2>2. PICK ok \in BOOLEAN : ok = (call[Driver].ok /\ call[Driver].seen = "running")
    OBVIOUS
  <2>3. PICK p \in CallPoints \cup {"export", "finished"} : p = IF ok THEN "cutover" ELSE "cleanup"
    BY DEF CallPoints
  <2>4. PICK e \in BOOLEAN : e = ~ok
    OBVIOUS
  <2>5. DriverGoes(p, e)
    BY <1>5, <2>2, <2>3, <2>4 DEF MigrateVerified
  <2>. QED
    BY <1>2, <2>1, <2>2, <2>3, <2>4, <2>5 DEF CallPoints
<1>6. CASE DriverReturned("cleanup") /\ DriverGoes("rollback", TRUE)
  <2>1. driver.pc = "cleanup" /\ VMGone
    BY <1>1, <1>6 DEF DriverReturned, PhaseOK
  <2>2. PICK e \in BOOLEAN : e = TRUE
    OBVIOUS
  <2>3. DriverGoes("rollback", e) /\ "rollback" \in CallPoints
    BY <1>6, <2>2 DEF CallPoints
  <2>. QED
    BY <1>2, <2>1, <2>3
<1>. QED
  BY <1>3, <1>4, <1>5, <1>6

(* The migration ends. *)
LEMMA EndKeeps ==
  ASSUME Inv, MigrationInv, setting.use = "migrate", setting' = setting, UNCHANGED <<cont, entry, code>>,
         NEW r \in Rollbacks, DriverEnds(r), driver.calling, call[Driver].pc = "done",
         \/ driver.pc = "cutover" /\ r = "none"
         \/ driver.pc = "rollback" /\ r = (IF call[Driver].ok THEN "success" ELSE "failed")
  PROVE  DriverMoves /\ MigrationInv'
<1>1. PhaseOK
  BY DEF MigrationInv
<1>2. /\ DriverStays /\ driver'.pc = "finished" /\ ~driver'.calling
      /\ driver'.err = driver.err /\ driver'.rollback = r
      /\ call' \in [Callers -> CallRecord] /\ Begins(Driver) /\ call'[Driver].pc = "idle"
      /\ \A d \in Callers : d # Driver => call'[d] = call[d]
  BY DriverFinishes
<1>3. DriverMoves
  BY <1>2 DEF DriverMoves
<1>4. CASE driver.pc = "cutover" /\ r = "none"
  <2>1. SourceHeld /\ ~driver.err
    BY <1>1, <1>4 DEF PhaseOK
  <2>. QED
    BY <1>2, <1>3, <1>4, <2>1, MigrationGoes
<1>5. CASE driver.pc = "rollback" /\ r = (IF call[Driver].ok THEN "success" ELSE "failed")
  <2>1. VMGone /\ (call[Driver].ok => SourceResumed)
    BY <1>1, <1>5 DEF PhaseOK, Succeeded
  <2>. QED
    BY <1>2, <1>3, <1>5, <2>1, MigrationGoes
<1>. QED
  BY <1>4, <1>5

LEMMA MigrateKeeps ==
  ASSUME Inv, MigrationInv, setting.use = "migrate", setting' = setting, Migrate(setting.form, setting.config)
  PROVE  DriverMoves /\ MigrationInv'
<1>1. CASE MigrateCalls
  <2>1. /\ Source \in Sandboxes /\ TargetVM \in Sandboxes /\ driver.kind \in Kinds /\ "microvm" \in Kinds
        /\ UNCHANGED <<cont, entry, code>>
        /\ {"launch", "inspect", "kill", "resume"} \subseteq Operations
    BY <1>1, SettingsAssumption DEF Inv, RefsInv, Types, DriverRecord, Kinds, Operations, MigrateCalls
  <2>2. PICK p \in {"launch", "verify", "cleanup", "cutover", "rollback"},
             k \in {"microvm", driver.kind}, s \in {Source, TargetVM}, op \in {"launch", "inspect", "kill", "resume"} :
          /\ DriverCalls(p, k, s, op)
          /\ \/ p = "launch" /\ k = "microvm" /\ s = TargetVM /\ op = "launch"
             \/ p = "verify" /\ k = "microvm" /\ s = TargetVM /\ op = "inspect"
             \/ p = "cleanup" /\ k = "microvm" /\ s = TargetVM /\ op = "kill"
             \/ p = "cutover" /\ k = driver.kind /\ s = Source /\ op = "kill"
             \/ p = "rollback" /\ k = driver.kind /\ s = Source /\ op = "resume"
    BY <1>1 DEF MigrateCalls
  <2>3. driver.pc = p
    BY <2>2 DEF DriverCalls
  <2>4. <<k, s, op>> = DriverCall /\ p \in CallPoints /\ p # "pause"
    BY <2>2, <2>3 DEF DriverCall, CallPoints
  <2>. QED
    BY <2>1, <2>2, <2>4, MigrationCalls
<1>2. CASE MigrateEnds \/ MigrateRolledBack
  <2>1. UNCHANGED <<cont, entry, code>>
    BY <1>2 DEF MigrateEnds, MigrateRolledBack
  <2>2. CASE DriverReturned("cleanup") /\ DriverGoes("rollback", TRUE)
    BY <2>1, <2>2, ReturnKeeps
  <2>3. CASE DriverReturned("cutover") /\ DriverEnds("none")
    BY <2>1, <2>3, EndKeeps DEF DriverReturned, Rollbacks
  <2>4. CASE MigrateRolledBack
    <3>1. PICK r \in Rollbacks : r = IF call[Driver].ok THEN "success" ELSE "failed"
      BY DEF Rollbacks
    <3>2. DriverEnds(r)
      BY <2>4, <3>1 DEF MigrateRolledBack, DriverEnds
    <3>. QED
      BY <2>1, <2>4, <3>1, <3>2, EndKeeps DEF MigrateRolledBack, DriverReturned
  <2>. QED
    BY <1>2, <2>2, <2>3, <2>4 DEF MigrateEnds, DriverEnds
<1>3. CASE MigratePaused \/ MigrateLaunched \/ MigrateVerified
  <2>1. UNCHANGED <<cont, entry, code>>
    BY <1>3 DEF MigratePaused, MigrateLaunched, MigrateVerified
  <2>. QED
    BY <1>3, <2>1, ReturnKeeps
<1>. QED
  BY <1>1, <1>2, <1>3, AssessKeeps, PauseKeeps, ExportKeeps DEF Migrate

(* A migration begins: nothing is paused and there is no VM. *)
LEMMA BeginningKeeps ==
  ASSUME Inv, MigrationInv, setting' = setting, MigrationBegins
  PROVE  /\ MigrationInv' /\ UNCHANGED <<cont, entry, code, call>>
         /\ driver' \in DriverRecord /\ driver'.kind = setting.kind
<1>1. /\ setting.use = "migrate" /\ setting \in Settings /\ driver.pc = "idle" /\ UNCHANGED <<cont, entry, code, call>>
      /\ DriverOK /\ (\A w \in Callers : OtherOK(w)) /\ VMOK /\ PhaseOK /\ Source \in Sandboxes
  BY SettingsAssumption DEF MigrationBegins, MigrationInv, engineVars, Inv, RefsInv
<1>2. PICK k \in Kinds : k = setting.kind /\ k \in {"docker", "containerd", "runsc"}
  BY <1>1, SettingsAssumption
<1>3. PICK l \in Launches : l = entry[k][Source]
  BY <1>1, <1>2, SMTT(30) DEF MigrationBegins, Inv, RefsInv, Types
<1>4. EntryOK(k, Source)
  BY <1>1 DEF Inv, RefsInv
<1>5. Is(l, k, Source) /\ cont[l].status # "created" /\ l # 0
  BY <1>1, <1>2, <1>3, <1>4 DEF EntryOK, MigrationBegins
<1>6. PICK f \in BOOLEAN : f = FALSE
  OBVIOUS
<1>7. driver' = [pc |-> "assess", calling |-> f, kind |-> k, err |-> f, l |-> l, rollback |-> "unset", seen |-> "none"]
  BY <1>2, <1>3, <1>6 DEF MigrationBegins, NewDriver
<1>8. /\ driver' \in DriverRecord /\ driver'.pc = "assess" /\ driver'.calling = f /\ driver'.kind = k
      /\ driver'.err = f /\ driver'.l = l /\ driver'.rollback = "unset"
  BY <1>7 DEF DriverRecord, DriverPoints, Codes
<1>9. ~driver.calling /\ call[Driver].pc = "idle"
  BY <1>1 DEF DriverOK, CallPoints
<1>10. DriverOK'
  BY <1>1, <1>2, <1>5, <1>6, <1>8, <1>9 DEF DriverOK, Is
<1>11. (\A w \in Callers : OtherOK(w)') /\ VMOK'
  BY <1>1 DEF OtherOK, VMOK, Undisturbed
<1>12. PhaseOK'
  BY <1>1, <1>8, UndisturbedSame DEF PhaseOK, NoVM
<1>. QED
  BY <1>1, <1>2, <1>8, <1>10, <1>11, <1>12 DEF MigrationInv

LEMMA DriveKeeps ==
  ASSUME Inv, MigrationInv, Drive, setting' = setting
  PROVE  Inv' /\ MigrationInv' /\ entry' = entry
<1>1. UNCHANGED specificVars
  BY DEF Drive, MigrationBegins
<1>2. call \in [Callers -> CallRecord] /\ driver.kind = setting.kind
  BY DEF Inv, RefsInv, Types
<1>3. CASE MigrationBegins
  <2>1. /\ MigrationInv' /\ UNCHANGED <<cont, entry, code, call>>
        /\ driver' \in DriverRecord /\ driver'.kind = setting.kind
    BY <1>3, BeginningKeeps
  <2>. QED
    BY <1>1, <1>2, <2>1, CallsKeep
<1>4. ASSUME DriverMoves PROVE Inv'
  <2>1. /\ UNCHANGED <<cont, entry, code, specificVars>> /\ call' \in [Callers -> CallRecord]
        /\ driver' \in DriverRecord /\ driver'.kind = setting.kind
        /\ \A d \in Callers : call'[d] = call[d] \/ Begins(d)
    BY <1>1, <1>2, <1>4 DEF DriverMoves, DriverStays
  <2>. QED
    BY <2>1, CallsKeep
<1>5. CASE setting.use = "migrate" /\ Migrate(setting.form, setting.config)
  BY <1>4, <1>5, MigrateKeeps DEF DriverMoves
<1>6. CASE setting.use = "parity" /\ Harness
  <2>1. DriverMoves
    BY <1>6, HarnessStays DEF DriverMoves
  <2>2. MigrationInv'
    BY <1>6, <2>1 DEF MigrationInv, DriverMoves, DriverStays
  <2>. QED
    BY <1>4, <2>1, <2>2 DEF DriverMoves
<1>. QED
  BY <1>3, <1>5, <1>6 DEF Drive

(* Nothing but the driver moves it; others begin calls that are theirs. *)
LEMMA CallersKeep ==
  ASSUME Inv, MigrationInv, setting' = setting, driver' = driver, UNCHANGED <<cont, entry>>, NEW w \in Callers,
         \A d \in Callers : d # w => call'[d] = call[d],
         setting.use = "migrate" => w # Driver /\ OtherOK(w)'
  PROVE  MigrationInv'
<1>1. CASE setting.use # "migrate"
  BY <1>1 DEF MigrationInv
<1>2. CASE setting.use = "migrate"
  <2>1. /\ DriverOK /\ (\A d \in Callers : OtherOK(d)) /\ VMOK /\ PhaseOK /\ Driver \in Callers
        /\ w # Driver /\ OtherOK(w)'
    BY <1>2, SettingsAssumption DEF MigrationInv
  <2>2. call'[Driver] = call[Driver]
    BY <2>1
  <2>3. DriverOK'
    BY <2>1, <2>2 DEF DriverOK, DriverCall, Is
  <2>4. ASSUME NEW d \in Callers PROVE OtherOK(d)'
    BY <2>1 DEF OtherOK, Undisturbed
  <2>5. VMOK'
    BY <2>1 DEF VMOK
  <2>6. /\ (SourceHeld' <=> SourceHeld) /\ (SourceResumed' <=> SourceResumed) /\ (NoVM' <=> NoVM)
        /\ (VMGone' <=> VMGone) /\ (Succeeded' <=> Succeeded)
    BY <2>2, UndisturbedSame DEF SourceHeld, SourceResumed, NoVM, VMGone, Succeeded, Alive
  <2>7. PhaseOK'
    BY <2>1, <2>2, <2>6, UndisturbedSame DEF PhaseOK
  <2>. QED
    BY <1>2, <2>3, <2>4, <2>5, <2>7 DEF MigrationInv
<1>. QED
  BY <1>1, <1>2

LEMMA InvokeMigration ==
  ASSUME Inv, MigrationInv, NEW w \in Callers, Invoke(w), setting' = setting
  PROVE  MigrationInv'
<1>1. driver' = driver /\ UNCHANGED <<cont, entry>> /\ \A d \in Callers : d # w => call'[d] = call[d]
  BY InvokeKeeps DEF Invoke
<1>2. ASSUME setting.use = "migrate" PROVE w # Driver /\ OtherOK(w)'
  <2>1. PICK s \in setting.sandboxes, op \in setting.ops[w] :
          /\ s = TargetVM => op # "launch"
          /\ Begin(w, IF s = TargetVM THEN "microvm" ELSE setting.kind, s, op)
    BY <1>2 DEF Invoke
  <2>2. w # Driver /\ setting \in Settings
    BY <1>2 DEF Invoke, Inv, RefsInv
  <2>3. s \in Sandboxes /\ op \in Operations /\ setting.kind \in Kinds
    BY <1>2, <2>1, <2>2, SettingsAssumption
  <2>4. PICK k \in Kinds : k = IF s = TargetVM THEN "microvm" ELSE setting.kind
    BY <2>3 DEF Kinds
  <2>5. Begin(w, k, s, op)
    BY <2>1, <2>4
  <2>6. call'[w].op = op /\ call'[w].kind = k /\ call'[w].s = s /\ call'[w].pc \in {"prepare", "load"}
    BY <2>3, <2>5, BeginOK, SMTT(30)
  <2>7. ~Undisturbed(op)'
    BY <2>1, <2>2 DEF Undisturbed
  <2>. QED
    BY <2>1, <2>2, <2>3, <2>4, <2>6, <2>7 DEF OtherOK
<1>. QED
  BY <1>1, <1>2, CallersKeep

LEMMA AnsweredMigration ==
  ASSUME Inv, MigrationInv, NEW w \in Callers, Answered(w), setting' = setting
  PROVE  MigrationInv'
<1>1. /\ driver' = driver /\ UNCHANGED <<cont, entry>> /\ (\A d \in Callers : d # w => call'[d] = call[d])
      /\ call'[w].pc = "idle" /\ call'[w].op = "none" /\ ~(w = Driver /\ driver.calling) /\ call[w].pc = "done"
  BY CallOver DEF Answered
<1>2. ASSUME setting.use = "migrate" PROVE w # Driver /\ OtherOK(w)'
  BY <1>1, <1>2 DEF MigrationInv, DriverOK, OtherOK
<1>. QED
  BY <1>1, <1>2, CallersKeep

-----------------------------------------------------------------------------
(* What a step leaves of the source and of the VM.                         *)

NoNewVM == \A m \in Launches : cont[m].status = "none" /\ cont'[m] # cont[m] => cont'[m].s # TargetVM

LEMMA SourceKept ==
  ASSUME Inv, MigrationInv, setting.use = "migrate", setting' = setting, driver' = driver, driver.l # 0,
         NEW L, NEW op, ContPart(L, op)
  PROVE  /\ Is(driver.l, setting.kind, Source)' /\ cont'[driver.l].status # "created" /\ driver.l \in Launches
         /\ (op = "resume" => ~Undisturbed("resume")) /\ SourceHeld => SourceHeld'
         /\ (op = "pause" => ~Undisturbed("pause")) /\ SourceResumed => SourceResumed'
<1>1. driver.l \in Launches /\ Is(driver.l, setting.kind, Source) /\ cont[driver.l].status # "created"
  BY DEF MigrationInv, DriverOK, Inv, RefsInv, Types, DriverRecord
<1>2. /\ EvolvesAt(driver.l)
      /\ cont'[driver.l].status = "running" => cont[driver.l].status \in {"none", "created", "running"} \/ op = "resume"
      /\ cont'[driver.l].status = "paused" => cont[driver.l].status = "paused" \/ op = "pause"
  BY <1>1 DEF ContPart
<1>. QED
  BY <1>1, <1>2, UndisturbedSame DEF EvolvesAt, Is, SourceHeld, SourceResumed

LEMMA VMKept ==
  ASSUME Inv, MigrationInv, setting.use = "migrate", NEW L, NEW op, ContPart(L, op),
         NEW m \in Launches, cont[m].status # "none" \/ cont'[m] = cont[m], cont'[m].s = TargetVM
  PROVE  cont[m].s = TargetVM /\ cont'[m].kind = "microvm" /\ (Alive(m)' => Alive(m))
<1>1. ContOK(m) /\ EvolvesAt(m) /\ VMOK
  BY DEF Inv, RefsInv, ContPart, MigrationInv
<1>2. cont[m].s = TargetVM
  BY <1>1 DEF EvolvesAt
<1>3. cont[m].kind = "microvm"
  BY <1>1, <1>2 DEF VMOK
<1>. QED
  BY <1>1, <1>2, <1>3 DEF EvolvesAt, ContOK, Alive

LEMMA VMsKept ==
  ASSUME Inv, MigrationInv, setting.use = "migrate", NEW L, NEW op, ContPart(L, op), NoNewVM,
         entry'["microvm"][TargetVM] \in {0, entry["microvm"][TargetVM]}
  PROVE  /\ \A m \in Launches : cont'[m].s = TargetVM =>
              cont[m].s = TargetVM /\ cont'[m].kind = "microvm" /\ (Alive(m)' => Alive(m))
         /\ NoVM => NoVM'
         /\ VMGone => VMGone'
<1>1. ASSUME NEW m \in Launches, cont'[m].s = TargetVM
      PROVE  cont[m].s = TargetVM /\ cont'[m].kind = "microvm" /\ (Alive(m)' => Alive(m))
  <2>1. cont[m].status # "none" \/ cont'[m] = cont[m]
    BY <1>1 DEF NoNewVM
  <2>. QED
    BY <1>1, <2>1, VMKept
<1>2. \A m \in Launches : m # 0
  BY SettingsAssumption, SMTT(30) DEF Launches
<1>. QED
  BY <1>1, <1>2 DEF NoVM, VMGone

(* The containers go on, the calls and the maps do not. *)
LEMMA EnvMigration ==
  ASSUME Inv, MigrationInv, setting' = setting, driver' = driver, call' = call, entry' = entry,
         ContPart({}, "none"), NoneNew
  PROVE  MigrationInv'
<1>1. CASE setting.use # "migrate"
  BY <1>1 DEF MigrationInv
<1>2. CASE setting.use = "migrate"
  <2>1. DriverOK /\ (\A d \in Callers : OtherOK(d)) /\ VMOK /\ PhaseOK
    BY <1>2 DEF MigrationInv
  <2>2. NoNewVM
    BY DEF NoNewVM, NoneNew
  <2>3. /\ driver.l # 0 => /\ Is(driver.l, setting.kind, Source)' /\ cont'[driver.l].status # "created"
                           /\ (SourceHeld => SourceHeld') /\ (SourceResumed => SourceResumed')
        /\ \A m \in Launches : cont'[m].s = TargetVM =>
              cont[m].s = TargetVM /\ cont'[m].kind = "microvm" /\ (Alive(m)' => Alive(m))
        /\ NoVM => NoVM'
        /\ VMGone => VMGone'
    BY <1>2, <2>2, SourceKept, VMsKept, SMTT(30)
  <2>4. DriverOK'
    <3>1. DriverCall' = DriverCall
      BY DEF DriverCall
    <3>. QED
      BY <2>1, <2>3, <3>1 DEF DriverOK
  <2>5. (\A d \in Callers : OtherOK(d)')
    BY <2>1 DEF OtherOK, Undisturbed
  <2>6. VMOK'
    BY <2>1, <2>3 DEF VMOK
  <2>7. (\A m \in Launches : cont[m].status # "paused") => \A m \in Launches : cont'[m].status # "paused"
    BY DEF ContPart
  <2>8. Succeeded' <=> Succeeded
    BY DEF Succeeded
  <2>9. driver.pc # "idle" => driver.l # 0
    BY <2>1 DEF DriverOK
  <2>10. PhaseOK'
    BY <2>1, <2>3, <2>7, <2>8, <2>9, UndisturbedSame DEF PhaseOK
  <2>. QED
    BY <1>2, <2>4, <2>5, <2>6, <2>10 DEF MigrationInv
<1>. QED
  BY <1>1, <1>2

(* A call of a migration: the driver makes it, or one that pauses and      *)
(* resumes where the setting says so and does not launch the VM.           *)
LEMMA StepOf ==
  ASSUME Inv, MigrationInv, setting.use = "migrate", NEW w \in Callers, StepOK(w)
  PROVE  /\ call[w].pc \notin {"idle", "done", "select", "route"} /\ call'[w].s = call[w].s /\ call'[w].kind = call[w].kind
         /\ call'[w].pc \notin {"idle", "select", "route"}
         /\ call'[w].op = call[w].op \/ (call[w].op = "shutdown" /\ call'[w].op = "kill")
         /\ w = Driver => /\ driver.calling /\ driver.pc \in CallPoints /\ call'[w].op = call[w].op
                          /\ <<call[w].kind, call[w].s, call[w].op>> = DriverCall
         /\ call[w].op = "pause" => (w = Driver /\ driver.pc = "pause") \/ ~Undisturbed("pause")
         /\ call[w].op = "resume" => (w = Driver /\ driver.pc = "rollback") \/ ~Undisturbed("resume")
<1>1. OtherOK(w) /\ DriverOK /\ CallPart(w) /\ MovePart(w)
  BY DEF MigrationInv, StepOK
<1>2. /\ call[w].pc \notin {"idle", "done", "select", "route"} /\ call'[w].s = call[w].s /\ call'[w].kind = call[w].kind
      /\ call'[w].pc \notin {"idle", "select", "route"}
      /\ call'[w].op = call[w].op \/ (call[w].op = "shutdown" /\ call'[w].op = "kill")
  BY <1>1 DEF OtherOK, CallPart, MovePart
<1>3. CASE w = Driver
  <2>1. driver.calling /\ driver.pc \in CallPoints /\ <<call[w].kind, call[w].s, call[w].op>> = DriverCall
    BY <1>1, <1>2, <1>3 DEF DriverOK
  <2>2. call[w].op # "shutdown" /\ (call[w].op = "pause" => driver.pc = "pause")
        /\ (call[w].op = "resume" => driver.pc = "rollback")
    BY <2>1 DEF DriverCall, CallPoints
  <2>. QED
    BY <1>2, <1>3, <2>1, <2>2
<1>4. CASE w # Driver
  BY <1>1, <1>2, <1>4 DEF OtherOK
<1>. QED
  BY <1>3, <1>4

(* A VM is made by the launch of the migration only, which then succeeds. *)
LEMMA NewVM ==
  ASSUME Inv, MigrationInv, setting.use = "migrate", driver' = driver, NEW w \in Callers, StepOK(w),
         NEW m \in Launches, cont[m].status = "none", cont'[m] # cont[m], cont'[m].s = TargetVM
  PROVE  /\ driver.pc = "launch" /\ NoVM /\ Succeeded' /\ cont'[m].kind = "microvm" /\ entry'["microvm"][TargetVM] = m
         /\ \A n \in Launches : n # m => cont'[n] = cont[n]
<1>1. /\ call[w].op = "launch" /\ cont'[m].kind = call[w].kind /\ call[w].s = TargetVM
      /\ \A n \in Launches : n # m => cont'[n] = cont[n]
      /\ call[w].kind = "microvm" =>
           entry'["microvm"][call[w].s] = m /\ call'[w].pc = "done" /\ call'[w].ok
  BY DEF StepOK, NewPart
<1>2. w = Driver
  BY <1>1, StepOf DEF MigrationInv, OtherOK
<1>3. driver.calling /\ <<call[w].kind, call[w].s, call[w].op>> = DriverCall /\ call[w].pc # "done"
  BY <1>2, StepOf
<1>4. driver.pc = "launch" /\ call[w].kind = "microvm"
  BY <1>1, <1>3 DEF DriverCall
<1>5. ~Succeeded
  BY <1>2, <1>3 DEF Succeeded
<1>6. NoVM
  BY <1>4, <1>5 DEF MigrationInv, PhaseOK
<1>. QED
  BY <1>1, <1>2, <1>3, <1>4, <1>6 DEF Succeeded

(* The VM leaves the map, if it does, for none. *)
LEMMA EntryOfVM ==
  ASSUME Inv, MigrationInv, setting.use = "migrate", NEW w \in Callers, StepOK(w), RefsInv', NoNewVM
  PROVE  entry'["microvm"][TargetVM] \in {0, entry["microvm"][TargetVM]}
<1>1. TargetVM \in Sandboxes /\ MovePart(w) /\ "microvm" \in Kinds /\ EntryOK("microvm", TargetVM)'
  BY SettingsAssumption DEF StepOK, RefsInv, Kinds
<1>2. SUFFICES ASSUME entry'["microvm"][TargetVM] \in Launches, cont[entry'["microvm"][TargetVM]].status = "none"
               PROVE  FALSE
  BY <1>1 DEF MovePart
<1>3. PICK n \in Launches : n = entry'["microvm"][TargetVM] /\ cont[n].status = "none" /\ n # 0
  BY <1>2, SettingsAssumption, SMTT(30) DEF Launches
<1>4. cont'[n].s = TargetVM /\ cont'[n].status # "none"
  BY <1>1, <1>3 DEF EntryOK, Is
<1>. QED
  BY <1>3, <1>4 DEF NoNewVM

LEMMA StepVM ==
  ASSUME Inv, MigrationInv, setting.use = "migrate", driver' = driver, NEW w \in Callers, StepOK(w), RefsInv'
  PROVE  VMOK'
<1>1. CASE NoNewVM
  <2>1. \A m \in Launches : cont'[m].s = TargetVM => cont[m].s = TargetVM /\ cont'[m].kind = "microvm"
    BY <1>1, EntryOfVM, VMsKept DEF StepOK
  <2>2. VMOK
    BY DEF MigrationInv
  <2>. QED
    BY <2>1, <2>2 DEF VMOK
<1>2. CASE ~NoNewVM
  <2>1. PICK m \in Launches : cont[m].status = "none" /\ cont'[m] # cont[m] /\ cont'[m].s = TargetVM
    BY <1>2 DEF NoNewVM
  <2>2. NoVM /\ cont'[m].kind = "microvm" /\ \A n \in Launches : n # m => cont'[n] = cont[n]
    BY <2>1, NewVM
  <2>3. \A n \in Launches : cont'[n].s = TargetVM => n = m
    BY <2>2 DEF NoVM
  <2>. QED
    BY <2>2, <2>3 DEF VMOK
<1>. QED
  BY <1>1, <1>2

(* The Kill that cleans up after a migration has taken the VM out of the   *)
(* map when it returns.                                                    *)
LEMMA CleanupStep ==
  ASSUME Inv, MigrationInv, setting.use = "migrate", driver' = driver, StepOK(Driver),
         driver.pc = "cleanup", call'[Driver].pc = "done"
  PROVE  VMGone'
<1>1. Driver \in Callers /\ MovePart(Driver)
  BY SettingsAssumption DEF StepOK
<1>2. call[Driver].kind = "microvm" /\ call[Driver].s = TargetVM /\ call[Driver].op = "kill"
  BY <1>1, StepOf DEF DriverCall
<1>3. entry'["microvm"][TargetVM] = 0
  BY <1>1, <1>2 DEF MovePart
<1>4. \A m \in Launches : m # 0
  BY SettingsAssumption, SMTT(30) DEF Launches
<1>. QED
  BY <1>3, <1>4 DEF VMGone

(* The answer to the pause or to the resume of the migration. *)
LEMMA AnswerStep ==
  ASSUME Inv, MigrationInv, setting.use = "migrate", setting' = setting, driver' = driver, StepOK(Driver)
  PROVE  /\ driver.pc = "pause" => IF Succeeded' THEN SourceHeld' ELSE SourceResumed'
         /\ driver.pc = "rollback" /\ Succeeded' => SourceResumed'
<1>1. /\ Driver \in Callers /\ PhaseOK /\ MovePart(Driver) /\ setting \in Settings /\ driver.kind = setting.kind
      /\ DriverOK /\ ContPart({call[Driver].l}, call[Driver].op)
  BY SettingsAssumption DEF MigrationInv, StepOK, Inv, RefsInv, Types
<1>2. driver.calling /\ <<call[Driver].kind, call[Driver].s, call[Driver].op>> = DriverCall /\ call[Driver].pc # "done"
  BY <1>1, StepOf
<1>3. (Succeeded' <=> Answers(Driver)) /\ ~Succeeded
  BY <1>2 DEF Succeeded, Answers
<1>4. driver.kind \in Engines \cup {"runsc"}
  BY <1>1, SettingsAssumption DEF Engines
<1>5. driver.pc # "idle" => driver.l \in Launches /\ Is(driver.l, driver.kind, Source)
  BY <1>1 DEF DriverOK, Inv, RefsInv, Types, DriverRecord
<1>6. ASSUME driver.pc = "pause" PROVE IF Succeeded' THEN SourceHeld' ELSE SourceResumed'
  <2>1. call[Driver].kind = driver.kind /\ call[Driver].s = Source /\ call[Driver].op = "pause"
    BY <1>2, <1>6 DEF DriverCall
  <2>2. CASE Answers(Driver)
    <3>1. \A m \in Launches : Is(m, driver.kind, Source) => cont'[m].status # "running"
      BY <1>1, <1>4, <2>1, <2>2 DEF MovePart
    <3>. QED
      BY <1>3, <1>5, <1>6, <2>2, <3>1 DEF SourceHeld
  <2>3. CASE ~Answers(Driver)
    <3>1. cont' = cont
      BY <1>1, <2>1, <2>3 DEF MovePart
    <3>. QED
      BY <1>1, <1>3, <1>6, <2>3, <3>1, UndisturbedSame DEF PhaseOK, SourceResumed
  <2>. QED
    BY <2>2, <2>3
<1>7. ASSUME driver.pc = "rollback", Succeeded' PROVE SourceResumed'
  <2>1. call[Driver].kind = driver.kind /\ call[Driver].s = Source /\ call[Driver].op = "resume"
    BY <1>2, <1>7 DEF DriverCall
  <2>2. \A m \in Launches : Is(m, driver.kind, Source) => cont'[m].status # "paused"
    BY <1>1, <1>3, <1>4, <1>7, <2>1 DEF MovePart
  <2>. QED
    BY <1>5, <1>7, <2>2 DEF SourceResumed
<1>. QED
  BY <1>6, <1>7

LEMMA StepMigration ==
  ASSUME Inv, MigrationInv, setting' = setting, driver' = driver, NEW w \in Callers, StepOK(w), RefsInv'
  PROVE  MigrationInv'
<1>1. CASE setting.use # "migrate"
  BY <1>1 DEF MigrationInv
<1>2. CASE setting.use = "migrate"
  <2>1. /\ DriverOK /\ (\A d \in Callers : OtherOK(d)) /\ VMOK /\ PhaseOK /\ Driver \in Callers
        /\ ContPart({call[w].l}, call[w].op) /\ (\A d \in Callers : d # w => call'[d] = call[d])
    BY <1>2, SettingsAssumption DEF MigrationInv, StepOK, CallPart
  <2>2. /\ call[w].pc \notin {"idle", "done", "select", "route"} /\ call'[w].s = call[w].s /\ call'[w].kind = call[w].kind
        /\ call'[w].pc \notin {"idle", "select", "route"}
        /\ call'[w].op = call[w].op \/ (call[w].op = "shutdown" /\ call'[w].op = "kill")
        /\ w = Driver => /\ driver.calling /\ driver.pc \in CallPoints /\ call'[w].op = call[w].op
                         /\ <<call[w].kind, call[w].s, call[w].op>> = DriverCall
        /\ call[w].op = "pause" => (w = Driver /\ driver.pc = "pause") \/ ~Undisturbed("pause")
        /\ call[w].op = "resume" => (w = Driver /\ driver.pc = "rollback") \/ ~Undisturbed("resume")
    BY <1>2, StepOf
  <2>3. driver.l # 0 => /\ Is(driver.l, setting.kind, Source)' /\ cont'[driver.l].status # "created"
                        /\ (call[w].op = "resume" => ~Undisturbed("resume")) /\ SourceHeld => SourceHeld'
                        /\ (call[w].op = "pause" => ~Undisturbed("pause")) /\ SourceResumed => SourceResumed'
    BY <1>2, <2>1, SourceKept
  <2>4. DriverOK'
    <3>1. DriverCall' = DriverCall
      BY DEF DriverCall
    <3>2. /\ driver.calling => <<call'[Driver].kind, call'[Driver].s, call'[Driver].op>> = DriverCall
          /\ ~driver.calling => call'[Driver].pc = "idle"
      BY <2>1, <2>2 DEF DriverOK
    <3>. QED
      BY <2>1, <2>3, <3>1, <3>2 DEF DriverOK
  <2>5. ASSUME NEW d \in Callers PROVE OtherOK(d)'
    BY <2>1, <2>2 DEF OtherOK, Undisturbed
  <2>6. VMOK'
    BY <1>2, StepVM
  <2>7. driver.pc # "idle" => driver.l # 0
    BY <2>1 DEF DriverOK
  <2>8. PhaseOK'
    <3>1. CASE ~NoNewVM
      <4>1. driver.pc = "launch" /\ Succeeded'
        BY <1>2, <3>1, NewVM DEF NoNewVM
      <4>. QED
        BY <2>1, <2>2, <2>3, <2>7, <4>1 DEF PhaseOK
    <3>2. CASE NoNewVM
      <4>1. (NoVM => NoVM') /\ (VMGone => VMGone')
        BY <1>2, <2>1, <3>2, EntryOfVM, VMsKept
      <4>2. driver.pc \in {"idle", "assess"} /\ Undisturbed("pause") /\ (\A m \in Launches : cont[m].status # "paused")
              => \A m \in Launches : cont'[m].status # "paused"
        BY <2>1, <2>2 DEF ContPart
      <4>3. w # Driver => (Succeeded' <=> Succeeded) /\ call'[Driver] = call[Driver]
        BY <2>1 DEF Succeeded
      <4>4. ~Succeeded' => ~Succeeded
        BY <2>2, <4>3 DEF Succeeded
      <4>5. /\ driver.pc = "pause" => IF Succeeded' THEN SourceHeld' ELSE SourceResumed'
            /\ driver.pc = "rollback" /\ Succeeded' => SourceResumed'
        <5>1. CASE w = Driver
          BY <1>2, <5>1, AnswerStep
        <5>2. CASE w # Driver
          BY <2>1, <2>2, <2>3, <2>7, <4>3, <5>2 DEF PhaseOK
        <5>. QED
          BY <5>1, <5>2
      <4>6. driver.pc = "cleanup" /\ driver.calling /\ call'[Driver].pc = "done" => VMGone'
        <5>1. CASE w = Driver
          BY <1>2, <5>1, CleanupStep
        <5>2. CASE w # Driver
          BY <2>1, <4>1, <4>3, <5>2 DEF PhaseOK
        <5>. QED
          BY <5>1, <5>2
      <4>7. driver.pc \in {"export", "launch", "verify", "cutover", "cleanup"} => SourceHeld'
        BY <2>1, <2>2, <2>3, <2>7 DEF PhaseOK
      <4>8. driver.pc = "finished" => (SourceHeld => SourceHeld') /\ (SourceResumed => SourceResumed')
        BY <2>2, <2>3, <2>7
      <4>. QED
        BY <2>1, <4>1, <4>2, <4>4, <4>5, <4>6, <4>7, <4>8, UndisturbedSame DEF PhaseOK
    <3>. QED
      BY <3>1, <3>2
  <2>. QED
    BY <1>2, <2>4, <2>5, <2>6, <2>8 DEF MigrationInv
<1>. QED
  BY <1>1, <1>2

-----------------------------------------------------------------------------
(* The theorems.                                                           *)

LEMMA InitOK ==
  ASSUME Init
  PROVE  Inv /\ MigrationInv
<1>1. /\ setting \in Settings /\ setting.kind \in Kinds /\ Driver \in Callers /\ TargetVM # "none"
      /\ setting.use = "migrate" => setting.kind \in {"docker", "containerd", "runsc"}
  BY SettingsAssumption DEF Init
<1>2. cont = [l \in Launches |-> NoCont] /\ NoCont \in Container /\ \A l \in Launches : cont[l] = NoCont
  BY DEF Init, NoCont, Container, Kinds, Statuses
<1>3. call = [w \in Callers |-> NoCall] /\ \A w \in Callers : call[w] = NoCall
  BY DEF Init
<1>4. NoCall \in CallRecord
  BY DEF NoCall, CallRecord, Points, Kinds, Codes
<1>5. /\ driver \in DriverRecord /\ driver.kind = setting.kind /\ driver.l = 0
      /\ setting.use = "migrate" => /\ driver.pc = "idle" /\ ~driver.calling /\ ~driver.err
                                    /\ driver.rollback = "unset"
  <2>1. PICK p \in DriverPoints : p = IF setting.use = "parity" THEN "launch" ELSE "idle"
    BY DEF DriverPoints, CallPoints
  <2>2. PICK f \in BOOLEAN : f = FALSE
    OBVIOUS
  <2>3. driver = [pc |-> p, calling |-> f, kind |-> setting.kind, err |-> f, l |-> 0, rollback |-> "unset", seen |-> "none"]
    BY <2>1, <2>2 DEF Init, NewDriver
  <2>4. driver \in DriverRecord /\ driver.pc = p /\ driver.calling = f /\ driver.kind = setting.kind /\ driver.err = f
        /\ driver.l = 0 /\ driver.rollback = "unset"
    BY <1>1, <2>3 DEF DriverRecord, Codes
  <2>. QED
    BY <2>1, <2>2, <2>4
<1>6. Types
  BY <1>1, <1>2, <1>3, <1>4, <1>5 DEF Types, Init, Codes
<1>7. \A l \in Launches : ContOK(l) /\ CodeOK(l)
  BY <1>2, SMTT(30) DEF ContOK, CodeOK, NoCont, Init
<1>8. (\A k \in Kinds, s \in Sandboxes : EntryOK(k, s)) /\ \A s \in Sandboxes : WaiterOK(s)
  BY DEF EntryOK, WaiterOK, Init
<1>9. \A w \in Callers : CallOK(w) /\ PrivateOK(w) /\ KilledOK(w)
  BY <1>3 DEF CallOK, PrivateOK, KilledOK, NoCall
<1>10. \A l, m \in Launches : NamesOK(l, m)
  BY <1>2 DEF NamesOK, NoCont, Engines
<1>11. ASSUME setting.use = "migrate" PROVE DriverOK /\ (\A w \in Callers : OtherOK(w)) /\ VMOK /\ PhaseOK
  <2>1. DriverOK
    BY <1>1, <1>3, <1>5, <1>11 DEF DriverOK, NoCall
  <2>2. \A w \in Callers : OtherOK(w)
    BY <1>3 DEF OtherOK, NoCall
  <2>3. \A m \in Launches : cont[m].s # TargetVM /\ cont[m].status # "paused"
    BY <1>1, <1>2 DEF NoCont
  <2>. QED
    BY <1>5, <1>11, <2>1, <2>2, <2>3 DEF VMOK, PhaseOK, NoVM
<1>. QED
  BY <1>1, <1>5, <1>6, <1>7, <1>8, <1>9, <1>10, <1>11 DEF Inv, RefsInv, NamesInv, MigrationInv

LEMMA NextKeeps ==
  ASSUME Inv, MigrationInv, Next
  PROVE  Inv' /\ MigrationInv'
<1>1. setting' = setting
  BY DEF Next
<1>2. ASSUME NEW w \in Callers, Invoke(w) PROVE Inv' /\ MigrationInv'
  BY <1>1, <1>2, InvokeKeeps, InvokeMigration
<1>3. ASSUME NEW w \in Callers, Answered(w) PROVE Inv' /\ MigrationInv'
  BY <1>1, <1>3, AnsweredKeeps, AnsweredMigration
<1>4. ASSUME NEW w \in Callers, Step(w) PROVE Inv' /\ MigrationInv'
  <2>1. StepOK(w) /\ driver' = driver
    BY <1>4, StepsOK DEF Step
  <2>2. Inv'
    BY <1>1, <2>1, StepKeeps
  <2>. QED
    BY <1>1, <2>1, <2>2, StepMigration DEF Inv
<1>5. CASE WorkloadEnds
  <2>1. entry' = entry /\ call' = call /\ driver' = driver
    BY <1>5 DEF WorkloadEnds
  <2>. QED
    BY <1>1, <1>5, <2>1, WorkloadKeeps, EnvMigration
<1>6. CASE Background
  <2>1. driver' = driver
    BY <1>6 DEF Background
  <2>. QED
    BY <1>1, <1>6, <2>1, BackgroundKeeps, EnvMigration
<1>7. CASE Drive
  BY <1>1, <1>7, DriveKeeps
<1>. QED
  BY <1>2, <1>3, <1>4, <1>5, <1>6, <1>7 DEF Next

LEMMA StutterKeeps ==
  ASSUME Inv, MigrationInv, UNCHANGED vars
  PROVE  Inv' /\ MigrationInv'
<1>1. /\ UNCHANGED <<cont, entry, code, call, specificVars>> /\ driver' = driver /\ setting' = setting
  BY DEF vars, engineVars
<1>2. RefsInv /\ call \in [Callers -> CallRecord] /\ driver \in DriverRecord /\ driver.kind = setting.kind
  BY DEF Inv, RefsInv, Types
<1>3. Inv'
  BY <1>1, <1>2, CallsKeep
<1>4. ContPart({}, "none") /\ NoneNew
  BY <1>1, <1>2, ContSame
<1>. QED
  BY <1>1, <1>3, <1>4, EnvMigration

(* The invariant holds in every state the runtimes reach. *)
THEOREM Invariant == Spec => [](Inv /\ MigrationInv)
<1>1. Init => Inv /\ MigrationInv
  BY InitOK
<1>2. Inv /\ MigrationInv /\ [Next]_vars => (Inv /\ MigrationInv)'
  BY NextKeeps, StutterKeeps
<1>. QED
  BY <1>1, <1>2, PTL DEF Spec

(* For any callers, sandboxes and number of launches, and whatever is      *)
(* going on beside it, the code that Inspect of Docker, gVisor,            *)
(* WebAssembly, the mock and, until Shutdown takes the status, runsc       *)
(* reports is the one the workload ended with.                             *)
THEOREM InspectIsTrue == Spec => []InspectTellsTruth
<1>1. Inv => InspectTellsTruth
  <2>1. SUFFICES ASSUME Inv, NEW w \in Callers, call[w].op = "inspect", call[w].pc = "done", call[w].ok,
                        \/ call[w].kind \in {"docker", "gvisor", "wasm", "mock"}
                        \/ call[w].kind = "runsc" /\ call[w].l \notin reaped,
                        NEW l, l = call[w].l
                 PROVE  call[w].seen \in {"running", cont[l].exit}
    BY DEF InspectTellsTruth
  <2>2. CallOK(w)
    BY <2>1 DEF Inv, RefsInv
  <2>3. l # 0 /\ cont[l].kind = call[w].kind /\ (call[w].seen = "running" \/ TrueCode(l, call[w].seen))
    BY <2>1, <2>2 DEF CallOK, Is
  <2>. QED
    BY <2>1, <2>3 DEF TrueCode
<1>. QED
  BY <1>1, Invariant, PTL

(* For any callers, sandboxes and number of launches, Allocation, of a     *)
(* runtime other than Firecracker and containerd and of the unified        *)
(* runtime over them, counts every container that runs and is in a map: no *)
(* exit code is recorded before the workload ends.                         *)
THEOREM AllocationCounts == Spec => []RunningIsCounted
<1>1. Inv => RunningIsCounted
  <2>1. SUFFICES ASSUME Inv, NEW k \in Kinds \ {"microvm", "containerd"}, NEW s \in Sandboxes, entry[k][s] # 0, Alive(entry[k][s])
                 PROVE  /\ s \in Allocated(k)
                        /\ (setting.use = "unified" /\ k \in setting.available) =>
                             <<k, s>> \in UnifiedAllocated(setting.available) \cap UnifiedList(setting.available)
    BY DEF RunningIsCounted
  <2>2. PICK l \in Launches : l = entry[k][s]
    BY <2>1, SMTT(30) DEF Inv, RefsInv, Types
  <2>3. ContOK(l) /\ CodeOK(l) /\ EntryOK(k, s) /\ Alive(l)
    BY <2>1, <2>2 DEF Inv, RefsInv
  <2>4. cont[l].kind = k /\ cont[l].exit = "none"
    BY <2>1, <2>2, <2>3 DEF EntryOK, Is, ContOK, Alive
  <2>5. code[l] = "none"
    BY <2>3, <2>4 DEF CodeOK, TrueCode
  <2>6. s \in Allocated(k)
    BY <2>1, <2>2, <2>5 DEF Allocated
  <2>. QED
    BY <2>1, <2>6, SMTT(30) DEF UnifiedAllocated, UnifiedList
<1>. QED
  BY <1>1, Invariant, PTL

(* For any callers, sandboxes and number of launches, a live container of  *)
(* Docker or containerd leaves the map only by the last step of a Kill     *)
(* that was for an earlier container of its sandbox.                       *)
THEOREM LiveIsTracked == Spec => LiveStaysTracked
<1>1. Inv /\ MigrationInv /\ [Next]_vars =>
        [\A k \in {"docker", "containerd"}, s \in Sandboxes :
           LET l == entry[k][s] IN
             (l # 0 /\ entry'[k][s] # l /\ Alive(l)) =>
                \E w \in Callers : At(w, k, "kill", "delete") /\ call[w].s = s /\ call[w].l # l]_vars
  <2>1. SUFFICES ASSUME Inv, MigrationInv, Next
                 PROVE  \A k \in Engines, s \in Sandboxes :
                          entry[k][s] # 0 /\ entry'[k][s] # entry[k][s] /\ Alive(entry[k][s]) =>
                            \E w \in Callers : At(w, k, "kill", "delete") /\ call[w].s = s /\ call[w].l # entry[k][s]
    BY DEF Engines
  <2>2. CASE \E w \in Callers : Step(w)
    BY <2>1, <2>2, StepsOK DEF StepOK, TrackPart
  <2>3. CASE entry' = entry
    BY <2>3
  <2>4. Drive => entry' = entry
    BY <2>1, DriveKeeps DEF Next
  <2>5. Background => entry' = entry
    BY <2>1, BackgroundKeeps DEF Next
  <2>. QED
    BY <2>1, <2>2, <2>3, <2>4, <2>5 DEF Next, Invoke, Answered, WorkloadEnds
<1>. QED
  BY <1>1, Invariant, PTL DEF Spec, LiveStaysTracked

(* For any callers, sandboxes and number of launches, the container that a *)
(* migration started from and the VM it made, while that is in the map,    *)
(* never run at the same time, whatever step of the migration failed and   *)
(* whoever else stopped, killed, paused or launched a container meanwhile, *)
(* if no one else resumes one.                                             *)
THEOREM MigrationRunsOneCopy == Spec => []OneCopyRuns
<1>1. Inv /\ MigrationInv => OneCopyRuns
  <2>1. SUFFICES ASSUME Inv, MigrationInv, driver.l # 0, Undisturbed("resume"), NEW m \in Launches,
                        cont[driver.l].status = "running", cont[m].s = TargetVM, Alive(m),
                        entry["microvm"][TargetVM] = m
                 PROVE  FALSE
    BY DEF OneCopyRuns
  <2>2. DriverOK /\ PhaseOK
    BY <2>1 DEF MigrationInv
  <2>3. ~SourceHeld /\ ~VMGone /\ ~NoVM
    BY <2>1 DEF SourceHeld, VMGone, NoVM
  <2>. QED
    BY <2>1, <2>2, <2>3 DEF DriverOK, PhaseOK, CallPoints
<1>. QED
  BY <1>1, Invariant, PTL

(* For any callers, sandboxes and number of launches, a migration that     *)
(* failed, and did not report that its rollback failed, has not left its   *)
(* source paused, if no one else pauses containers.                        *)
THEOREM FailedMigrationResumes == Spec => []RollbackResumes
<1>1. MigrationInv => RollbackResumes
  BY DEF MigrationInv, PhaseOK, RollbackResumes, SourceResumed
<1>. QED
  BY <1>1, Invariant, PTL

=============================================================================

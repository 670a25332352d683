# Tartarus in TLA+

Tartarus runs untrusted jobs in Firecracker microVMs. This directory models the parts of it
in which state, failures and concurrency meet, checks them with TLC on small instances, and
proves the most important safety properties with TLAPS for every instance. `PROJECT.json`
maps every definition to the lines it models and lists components, hazards and findings.

## 1. The system

```
          shores                    snapshots (Nyx, object store)
client --> Charon --> Olympus --Enqueue--> Acheron (a Redis stream per node)
                       |  ^ |                 |  Dequeue / Ack / Nack
Kubernetes operator ---+  | | control topics  v
                          | +---------->  Hecatoncheir agent (one per node)
             Hades -------+ <--UpdateRun--  main loop, a waiter per VM, control loop
          (registry)                         |      |        |          |        |
                                           Lethe   Styx   runtimes   Erinyes  Thanatos,
                                          overlay network (Firecracker) TTL   Hypnos
```

Five groups of modules follow this picture. Each is one specification, checked and, where
marked (P), proved on its own; the groups meet in the interface named in the last column.

| system | what it composes | meets the others in |
|---|---|---|
| `TartarusSystem` (P) | the life of a job from Submit to its final status | the agent's steps |
| `TerminationSystem` (P) | the ends of a sandbox: kill, hibernate, wake, terminate, shutdown | the control messages and the VMs of one node |
| `RuntimeSystem` (P) | the sandbox runtimes behind one interface, and migration | the calls an agent makes |
| `ServicesSystem` (P: snapshots, gateway) | template snapshots, log and exec streams, the node's network, the operator | control topics; Submit; Attach |
| `Ferry` (P) | the load balancer in front of Olympus | requests |

They are checked apart because their product is far out of reach and because a group only
calls the next through an interface that the callee's model covers: the core, for example,
sees of the gateway only which IDs are attached (`Styx`), and `StyxGateway` has its addresses
and devices.

## 2. Modules

**Job core.**

| module | models | state |
|---|---|---|
| `Domain` | statuses (`pkg/domain`), the budget of faults | `faults` |
| `Acheron` | `pkg/acheron/redis_queue.go` | streams, delivery cursor, pending list |
| `Hades` | `pkg/hades/redis_registry.go` | run records, live nodes, `disturbed` (history) |
| `ControlPlane` | `pkg/olympus/redis_control.go`, `pkg/hecatoncheir/control.go` | messages per node; which agents are up |
| `FirecrackerRuntime` | `pkg/tartarus/firecracker_runtime.go` | map from ID to VM; VM processes |
| `Erinyes`, `Lethe`, `Styx` | `poll_fury.go`, `file_overlay.go`, `host_gateway.go` | watchers; overlay files; attached IDs |
| `Olympus` | `pkg/olympus/manager.go` | a Submit per client, Reconcile, kills |
| `Hecatoncheir` | `pkg/hecatoncheir/agent.go`; at its end, one agent alone with a secret provider | program counters, `finished` (history) |
| `TartarusSystem` | the composition; the symmetry for TLC | |

**Ends of a sandbox.** `VMLifecycle` has the VMs of a node and the runtime's Pause, Resume,
CreateSnapshot, Shutdown, Wait and Kill, each split where the code drops its lock. On it
stand `Hypnos` (Sleep and Wake), `Thanatos` (handler, controller, grace policies) and
`DeferredScheduler` (timers, cancel, cleanup, HTTP handlers). A *caller* is one goroutine with
one call in progress, `call[w]`. `TerminationLifecycle` is the abstract promise of the API.
A *setting* says how the parts are wired: an agent with or without Hypnos, or the API server
with or without a runtime, because the code wires them differently in the two processes.

**Runtimes.** `ContainerEngine` is what the adapters share (container, map entry, recorded
code, a caller's program counter); `DockerAdapter`, `ContainerdAdapter`, `GVisorRuntime` (the
agent's runtime and Kampe's adapter, which repeats it), `LocalRuntimes` (WebAssembly, and
the mock that runs nothing) have each call step by step with the goroutines it starts. `UnifiedRuntime` selects among
backends; `Kampe` has migration with rollback, and the parity harness as a driver.

**Services.** `Nyx` (two `LocalManager`s, each with memory, files and a mutex, over one
store), `ControlStreams` (API call, topics, agent handler, subscriptions), `StyxGateway`
(allocations, TAP devices, bridge and common rules; what outlives an agent) and `Operator` (three
reconcilers with informer cache and work queue, and the users' edits).

**Load balancer.** `HashRing`, `RateLimiter` and `ShoreHealth` (with the circuit breaker) are state
and operators; `Ferry` has Cross with retries and the changes of shores.

`MC*` give the constants their values. `*Proofs` hold the theorems.

An action is one call a goroutine makes on shared state, or an error path with all the
cleanup it does; a step that calls Redis is one Redis command or script. Choices to know:

* *Receipts are indices.* In the core, entry `r` of node `n` also names the overlay, VM,
  waiter and watcher it gives rise to. What the code keys by sandbox ID stays keyed by ID,
  so that repeated IDs collide as they do in the code.
* *Faults have a budget.* In the core and the services any call that can return an error
  may fail, a process may crash between two steps and a message may be lost, at the cost of
  one unit. In the termination and runtime models any call may fail, without a budget. StopVMM
  is among them: Kill only warns when it fails, and forgets a VM that runs on (`unstopped` in the
  core, `strays` in the termination model). A call of a container engine takes effect or fails; one
  that takes effect and then reports an error is not modelled.
* *Scheduling and judging.* Any listed node may be chosen and a request may be refused: this
  covers every strategy of Moirai and every judge.
* *LIST_SANDBOXES is never answered.* The request ID is sent where the parser expects a sandbox ID,
  the handler finds no argument (`agent.go:484`) and returns, so Reconcile times out on every
  node and writes nothing.
* *History variables* (`disturbed`, `leaked`, `finished`, `strays`, `sent`, `probesOK`, `budget`) are
  read by properties, and by no guard that models code.
* *Time* is order: a timeout may fire whenever it is armed. Grace periods are small numbers,
  for `EffectiveGrace` computes with them.

## 3. What the runs show

| run | instance | distinct states, depth | result |
|---|---|---|---|
| `job_faults` | 2 nodes, 1 job, 3 entries per queue, 2 faults, 1 kill | 124,333, 28 | passes |
| `jobs_concurrent` | 1 node, 2 clients, same ID or different, 1 kill | 576,664, 45 | passes |
| `job_progress` | 1 node, 1 job with or without TTL, 1 fault, 1 kill, fairness | 10,390, 26 | passes |
| `termination` | 1 sandbox, 2 launches, 2 terminations, 1 client, 7 settings, fairness | 158,877, 41 | passes |
| `runtimes` | 2 callers, 3 launches, every runtime in every use | 338,409, 43 | passes |
| `services` | 2 managers, 2 API calls, 2 jobs on a subnet of 2 addresses, 15 settings, fairness | 204,580, 32 | passes |
| `ferry` | 2 shores, 2 requests at a time and up to 4 in all, 1 retry, every strategy, fairness | 215,149, 28 | passes |
| `kill_routing` | 2 nodes, no faults | | `KillReachesHost` violated |
| `pending_restart` | 1 crash, fairness | | `PendingSurvivesRestart` violated |
| `secret_failure` | one agent, 2 secrets | | `SecretFailureFailsJob` violated |
| `ferry_probes` | as `ferry` | | `RefusesWhileTesting` violated |
| `hibernate` | the node settings of `termination` | | `SleepingKeepsResources` violated |

**job_faults** asks what failures can do to one job: it is never lost
(`AcceptedJobAccounted`), acknowledged or handed back during work (`HandledEntryPending`),
run twice at once (`AtMostOneVM`), or acknowledged while its VM runs (`AckedJobNotRunning`);
overlays and watchers do not outlive it (`OverlayHasOwner`, `WatcherHasJob`); a running VM
keeps its overlay and network (`RunningVMHasResources`); the registry ends with the outcome
and keeps it (`FinalStatusRecorded`, `TerminalStatusStable`).

**jobs_concurrent** lets two jobs meet on one agent and repeats three of these properties,
because other bugs break them here: one job's Detach, Disarm or RUNNING write reaching the
other. **job_progress** shows that every Submit is answered, every entry taken, and
that no job with a TTL hangs.

**termination** interleaves hibernation, wake-up, graceful termination, agent shutdown and
deferred terminations. A sleep record can be restored (`RecordRestorable`), a termination that
reports an end has ended its VM, or the VM left the map while it ran (`ReportedEndIsReal`); a VM
whose exit was recorded too early, by a wait that ran out of time, is being killed
(`ExpiredVMIsKilled`); the controller's grace is positive and within what the policy allows
(`GraceWithinPolicy`), and nothing waits for ever (`TerminationSettles`).
`ImplementsLifecycle` is a refinement: the scheduler, mapped by what its goroutines really
do and not only by its status field, implements `TerminationLifecycle`, so a termination
that was cancelled never acts and none acts twice.

**runtimes**: the exit code that Inspect reports is the workload's (`InspectTellsTruth`, on Docker,
gVisor, Wasm, the mock and, until Shutdown has taken the status of the command, runsc; containerd
and Firecracker may record a code for a workload that runs), Allocation counts every tracked
container that runs (`RunningIsCounted`, without those two), a live container loses its entry only
to a Kill of its predecessor (`LiveStaysTracked`), a migration never lets both copies run if no
one else resumes one (`OneCopyRuns`; a VM counts while it is in the map) and a failed one resumes
the source unless it reports that it could not or someone else pauses it (`RollbackResumes`).

**services**: what the store publishes as latest is complete and what a manager serves is
whole (`PublishedComplete`, `ServedComplete`), a lone stream gets exactly the output of its
command (`OutputExact`), no two VMs that one agent process attached under IDs of their own hold one
address (`AddressExclusive`), and the controllers converge (`OperatorConverges`).

**ferry**: connection counters match the requests in flight, retries never return to a
shore, breakers close only after enough probes of this half-open period, sessions stick to
the shore that owns their hash (against a definition by nearest virtual node), first requests
of a key share one bucket, and every request is answered.

*Exclusions.* A property says in its comment which cases it leaves out and why. They are
needed: without them TLC finds the behaviours of section 5.

*Bounds.* Three entries hold a job and the copies two Nacks make; two faults allow a failure
during the recovery from another; two nodes are needed for a kill sent to the wrong place.
Two launches of one sandbox are the VM before and after a wake; a second termination meets
the cancel and cleanup of the first; three launches are a container, its successor of the same
name and a target VM. A subnet with two addresses is exhausted by a third attachment. Two
requests with one retry fill the half-open slots of a breaker. Two of each are the pairs
that the code's mutexes are there for; more repeat the pairs.

*Fairness.* Weak, of goroutines that nothing else can block for ever. Core: a Submit that has
begun, Reconcile, main loop, waiters, watchers, control loop, restarts, the end of a
signalled VMM, and a watcher's tick that finds a TTL exceeded. Termination: the
control loop and the goroutines of terminations with their timers and calls, whose waits have
deadlines; not the calls of others. Services: the worker and
the cache watch of each controller. Ferry: a request that the server accepted (its wait
has a timeout). Nothing is assumed of clients, users, faults or a guest's own exit.

*Deadlock* is checked in the core and in `ferry`. In the other systems a behaviour ends when
the calls of its setting have been made.

## 4. What is proved

| module | theorem | statement |
|---|---|---|
| `JobProofs` | `TypeCorrect` | `Spec => []TypeOK` |
| | `HandledPending` | `Spec => []HandledEntryPending` |
| | `AcceptedAccounted` | `Spec => []AcceptedJobAccounted` |
| | `OneVMPerSandbox` | `Spec => []AtMostOneVM` |
| | `AckedNotRunning` | `Spec => []AckedJobNotRunning` |
| `JobStatusProofs` | `RunningHasResources` | `Spec => []RunningVMHasResources` |
| | `OverlaysOwned` | `Spec => []OverlayHasOwner` |
| | `WatcherHasItsJob` | `Spec => []WatcherHasJob` |
| | `OutcomeRecorded` | `Spec => []FinalStatusRecorded` |
| | `TerminalStatusKept` | `Spec => TerminalStatusStable` |
| `TerminationProofs` | `TypeCorrect` | `Spec => []TypeOK` |
| | `Restorable` | `Spec => []RecordRestorable` |
| | `Reported` | `Spec => []ReportedEndIsReal` |
| | `GraceBounded` | `Spec => []GraceWithinPolicy` |
| | `Refinement` | `Spec => ImplementsLifecycle` |
| `RuntimeProofs` | `InspectIsTrue` | `Spec => []InspectTellsTruth` |
| | `AllocationCounts` | `Spec => []RunningIsCounted` |
| | `LiveIsTracked` | `Spec => LiveStaysTracked` |
| | `MigrationRunsOneCopy` | `Spec => []OneCopyRuns` |
| | `FailedMigrationResumes` | `Spec => []RollbackResumes` |
| `ServicesProofs` | `SnapshotsPublished` | `Spec => []PublishedComplete` |
| | `SnapshotsServed` | `Spec => ServedComplete` |
| | `AddressesExclusive` | `Spec => []AddressExclusive` |
| `FerryProofs` | `ConnectionsCounted` | `Spec => []ConnsMatch` |
| | `RetriesElsewhere` | `Spec => NeverSentTwice` |
| | `BreakerClosesAfterProbes` | `Spec => ClosesAfterProbes` |
| | `KeysWithinBudget` | `Spec => []WithinBudget` |

Each holds for all values of the constants under the named assumptions of the modules. The runs
check the same definitions.

**JobProofs** (any nodes, IDs, clients, bounds; `NoNode` is no node; no secret provider, as
deployed). `IInv` adds to the three properties: the cursor lies inside the stream and pending
entries were delivered (`CursorOK`), else a new entry could already be pending; a receipt held by
a goroutine is that of a delivered request (`HoldersOK`), else Nack could copy nothing; a Kill in
progress works on a message that is there (`ControlOK`); calls and reconciliations name nodes
(`CallsOK`, `ReconcileOK`). Lemmas say what Enqueue, Deliver, Ack, Nack and DeadLetter do to the
queue; then there is one lemma per goroutine with one step per action.

Its later parts stack three invariants on that `IInv`, each inductive relative to the ones below.
`LaunchInv`: only entries that carry a request are launched, and a waiter, a watcher or an
acknowledgement comes after the launch; the runtime's map files a launch under its own ID; a kill
about to delete an ID has signalled a launch of it. `LineageInv` is the heart. An entry is *live*
if it may still lead to a VM or has led to one: it waits in a stream, a goroutine holds it, or it
was launched. Of all entries of a sandbox that one client submitted, over all nodes, one is live
(a Nack copies an entry only when the old one will never be launched), and there is none before
the client's enqueue. Hence one VM. `VMInv` then says of the live entry that its waiter waits for
this launch and goes on only when it has ended, or was given up by a Kill whose StopVMM failed:
hence no acknowledged VM that the runtime knows runs.

**JobStatusProofs** argues about the same live entry: `ResourcesInv` (until which step overlay and
network are there; only the goroutine that lets go removes them), `WatchInv` (a watcher has this
entry's waiter) and `StatusInv`. The last rests on the list of writers of a run (`RunSteps`: the
client before there is an entry, main loop and waiter of the live entry): they take turns, so that
the status is not terminal while the report is ahead, and is the outcome of the VM when it is
behind.

**TerminationProofs** (any sandboxes, callers, terminations, clients, settings; finitely many
sandboxes and a first launch for each; `SettingsAssumption` only gives the settings their types: any
policies, with caps above the hard cap of the controller too). `IInv` is `CallsInv` (what each
program counter of a call knows: which parts are stored, that the VM it killed is gone, which is
to say has ended or left the map, that its grace period is one the policy allows; and that sleep
records stand on both parts of a snapshot), `SchedulerInv` (a goroutine runs exactly
while its termination is in progress, and a scheduled termination has its request) and the types.
The point of the argument is that what a call knows is *stable*: VMs only advance, what is gone and
what is stored stays so, so `OthersLemma` carries every other call through any step, and each action is left with its
own call only. `Refinement` follows from `SchedulerInv` with one case per action of the scheduler.

**RuntimeProofs**, on the steps proved in **RuntimeStepProofs** (any callers, sandboxes, number of
launches and settings; `SettingsAssumption`: a setting names runtimes and operations that exist, and a
migration starts from Docker, containerd or runsc). One invariant in three parts serves all five theorems. `RefsInv`: what a map entry or a call
in progress refers to is a container of that runtime and sandbox, and a recorded code is that of
the container unless the runtime is one that may get it wrong (`TrueCode`). `NamesInv`: an engine has one
container of a name, a container being launched is known to its launch alone, and a Kill deletes
an entry after its container is gone; without it, a launch could overwrite the entry of a live
container. `MigrationInv`: for each point of the migration, whether the source is held and a VM
in the map is there, as far as no one else pauses or resumes. There are about
eighty kinds of step and each would disturb most conjuncts. The proof is therefore split by a
*contract*, `StepOK`: a container stays what it is and does not come back, a new one has a free
name, codes are true, entries and calls refer to what they may. RuntimeStepProofs shows, one lemma
per runtime, that every step of a call meets the contract; RuntimeProofs that what meets it keeps
the invariant, and then treats the environment, the background goroutines and the driver.

**ServicesProofs**, snapshots, on the steps proved in **NyxProofs** (any managers, callers, calls
and failures; snapshots have positive numbers). A call carries the list of what it has still to
do, and `NyxInv` says of each item what the call may rely on when it comes to it: the pointer
`latest` is written after the parts it names, which are in the store *or to be put by an earlier
item*, and an entry of the cache after its files likewise. Items are only popped from the front,
so the clause carries over; `Preserves` (a stored part and a whole file stay so unless their
snapshot is being deleted or the copy was torn) carries every other call through any step.

**ServicesProofs**, network gateway (any jobs, IDs and size of the subnet). `AddressInv`: no address
is allocated twice, and a job with an ID of its own that this agent process attached holds the
address allocated to that ID; the second half is what links the map to the VMs. A VM that outlives
its agent is no longer attached, so the end of a process, which empties the map, keeps the
invariant (`EndKeeps`) though the address of the VM is free again.

**FerryProofs** (any shores, finitely many requests, any keys, thresholds and retries;
`FerryAssumption`). `IInv` is a conjunction: the shape of a call and, per theorem, what its
induction needs. `ConnsOK`: no request is in flight before the server starts, so registration may
set a counter to 0, and each step moves one request into or out of one set in flight. `SentOK`:
where a request was sent it was tried, and the shore it is about to ask is tried and not yet sent
to. `BreakersOK`: the counters of a breaker in each state; in the half-open one its successes are
those of this period. `BudgetOK` counts: the tokens of every bucket a key can still draw on, the
one in the map and those that calls have already looked up, plus a full bucket if the map has
none, are within the budget. A creation spends that reserve and a cleanup restores it, and the
second look under the write lock is what keeps two creations from spending it twice. A step
changes one call (`Turn`), so each invariant has one lemma per kind of turn.

*Only model-checked.* In the load balancer, `TypeOK` and `StickySession`: the ring is filtered
with `SelectSeq` and searched, which needs induction over data. In the services, `OutputExact` of
the streams and `TypeOK`, which spans all four parts; the types that the theorems need are in
their own invariants. Of the ends of a sandbox, `ExpiredVMIsKilled`. Every liveness property (`SubmitAnswered`, `EveryEntrySettled`,
`TerminationSettles`, `EveryRequestAnswered`, `OperatorConverges`): fairness and ENABLED are out
of the prover's reach.

## 5. Disagreements and behaviours met

Where the code differs from what the repository says of it (each has a run):

1. **A kill of a running sandbox reaches nobody.** Launch and Inspect return records without
   a node, the agent writes them over the one Olympus wrote, and KillSandbox then publishes
   to the empty node ID and returns nil (`manager.go:262`; comment at `:254`).
2. **Pending jobs do not survive a restart.** Dequeue reads only entries never delivered and
   nothing claims pending ones (`redis_queue.go:193`; `docs/site/concepts/persistence.md:46`).
3. **A job with a failed secret is launched.** `continue` at `agent.go:139` belongs to the
   inner loop: the job is handed back and also launched (comment at `:134`).
4. **A breaker can refuse for ever.** A retry asks the breaker of its fallback twice
   (`load_balancer.go:590` and `:310`), so the half-open slots run out with no test under way
   (`circuit_breaker.go:92`).
5. **A sleeping sandbox loses its overlay and network.** The waiter takes the kill inside
   Sleep for the end of the job (`hypnos/manager.go:144`, `agent.go:215`).

Behaviours the models have because the code has them. Three more differ from what the repository
says, and have no run of their own: SaveSnapshot makes a manual snapshot the one served from the
cache (comment at `local_manager.go:431`), a policy with a cap above `MaxGracePeriod` gets its own
cap (`policy.go:52`; "the hard cap on any grace window" at `:13`), and containerd's exit code may be
another reader's or an error's (`parity_harness.go:236-251` expects the workload's). The others are
denied by no text that was found:

* *Core*: a repeated ID leaves a watcher behind, detaches the other VM's network or
  runs twice; a partial overlay copy stays on disk; a VM whose StopVMM failed runs on, unknown to
  the runtime, and its job is acknowledged.
* *Ends*: Sleep kills before it uploads, so a failed upload loses the sandbox; two Wakes at
  once launch two VMs; a Kill begun before a wake deletes the woken VM's map entry; a woken
  VM has no waiter; Cleanup of a settled termination removes the index entry of a newer one of
  the same sandbox; olympus-api wires Thanatos without a runtime; a VM launched after
  the List of an agent's shutdown is not terminated; stored blobs are never deleted.
* *Runtimes*: the containerd exit channel has three readers and only the first gets
  the code, and an error of Wait is recorded as code 255; Kampe's gVisor Shutdown waits for the process a second time and may take its status;
  Kill deletes a map entry whoever owns it; Firecracker's Wait records -1 when it is given up; a migration
  from Docker looks up a name as an ID and never succeeds; killing a Wasm sandbox does not stop
  its module.
* *Snapshots*: a copy that fails half-way leaves a torn file that a later GetSnapshot takes for
  whole; deleting the latest snapshot leaves `latest` dangling.
* *Streams*: two log streams of one sandbox get each other's output; input typed
  before the agent subscribes is lost; the exec handler of the API does not return when its
  client leaves; commands for a RUNNING sandbox go to the empty topic, as kills do.
* *Network*: a second Attach of one ID forgets the first address; IDs that share eight
  characters share a device; a failure in the last steps of Attach leaves address and device;
  Detach removes no rules; a VM that survives an agent (Reconcile kills only processes with
  `tartarus` in their command line, `agent.go:306`) has its address issued again; Attach panics
  on an ID of fewer than eight characters (the core assumes longer ones).
* *Operator*: a stale copy leads to a second submission with the same ID; a lost answer marks
  a running job failed; deleting a policy or a job leaves its contract or its run, and a change of the
  NetworkPolicy that a policy refers to is not followed (only policies are watched).

## 6. Not modelled

* *Pure choices*: Moirai, the judges, Phlegethon and the policies of Themis.
  Nothing the models follow depends on their state, several score in floating point, and Olympus accepts, refuses
  and chooses freely in the model, which covers every answer they can give.
* *Scaler, warm pool, Persephone*: forecasts and capacities are floating point; the scaler
  counts RUNNING records by template, and those that agents write carry none; Persephone's
  hibernation controller needs an interface that no type of the repository has.
* *Typhon's quarantine, the Hermes audit chain, MarkDraining*: no caller in `cmd/`, one
  in-memory map or chain, nothing concurrent.
* *In-memory queue and registry*: used in tests and single-process setups.
* *Input and output*: S3 client, OCI unpacking, building root filesystems, VMM and OCI
  configuration, JSON handlers, the CLI, metrics, logs, plugins, generated Kubernetes types.
  Where they fail, the step that calls them fails.
* *Credentials and cryptography* (Cerberus): a secret resolves or fails.
* *Rules of contracts*: which packets an iptables rule meets is decided by the kernel and its
  bridge. The model has the steps of Attach that add rules and may fail, and of the rules only
  the three common to all VMs.
* *Erinyes' other limits* (CPU, memory, network): the agent sets only the TTL.

`PROJECT.json` gives each component its status and reason.

------------------------------ MODULE MCRuntimes ------------------------------
(* Small instances of RuntimeSystem. *)
EXTENDS RuntimeSystem

CONSTANTS Uses   \* the uses that a run explores

Plain == [network |-> FALSE, devices |-> FALSE, privileged |-> FALSE]

Direct(k, n) ==
  [use |-> "direct", kind |-> k, sandboxes |-> {"s1"}, calls |-> n,
   ops |-> [w \in Callers |-> IF w = Driver THEN Operations
                              ELSE {"launch", "kill", "shutdown", "wait", "inspect"}],
   available |-> {}, auto |-> FALSE, form |-> "sandbox", config |-> Plain]

Unified(available, auto, ops, n) ==
  [Direct("microvm", n) EXCEPT !.use = "unified", !.available = available, !.auto = auto,
                               !.ops = [w \in Callers |-> ops]]

Migration(k, form, config, n, others) ==
  [Direct(k, n) EXCEPT !.use = "migrate", !.form = form, !.config = config,
                       !.sandboxes = {Source, TargetVM},
                       !.ops = [w \in Callers |-> {"launch"} \cup others]]

Parity(k) == [Direct(k, 0) EXCEPT !.use = "parity"]

MCRequest(isolation, preferred, cpu, mem, gpu, ttl, devices) ==
  [isolation |-> isolation, preferred |-> preferred, cpu |-> cpu, mem |-> mem, gpu |-> gpu,
   ttl |-> ttl, devices |-> devices]

MCRequests ==
  {MCRequest("none", "none", 250, 128, 0, 0, FALSE),
   MCRequest("none", "none", 1000, 512, 0, 0, TRUE),
   MCRequest("none", "gvisor", 1000, 512, 0, 600, FALSE),
   MCRequest("gvisor", "none", 1000, 512, 0, 600, FALSE),
   MCRequest("other", "none", 1000, 512, 0, 600, FALSE)}

MCSettings ==
  {x \in UNION {
      {Direct(k, 3) : k \in Kinds \ {"microvm"}},
      {Unified(Backends, TRUE, Operations, 2), Unified(Backends, TRUE, {"launch", "kill"}, 3),
       Unified({"wasm", "gvisor"}, TRUE, {"launch", "kill"}, 2),
       Unified(Backends, FALSE, {"launch", "wait", "inspect"}, 3)},
      {Migration("docker", "sandbox", Plain, 2, {"kill"}),
       Migration("containerd", "sandbox", Plain, 3, {"kill", "shutdown"})},
      {Migration("containerd", "sandbox", Plain, 2, {op}) : op \in {"pause", "resume"}},
      {Migration("runsc", "sandbox", Plain, 2, {"kill", "shutdown", op}) :
          op \in {"kill", "pause", "resume"}},
      {Migration("docker", "container", c, 2, {"kill"}) :
          c \in {Plain, [Plain EXCEPT !.network = TRUE],
                 [network |-> TRUE, devices |-> TRUE, privileged |-> TRUE]}},
      {Parity(k) : k \in {"docker", "containerd", "runsc"}}} : x.use \in Uses}
=============================================================================

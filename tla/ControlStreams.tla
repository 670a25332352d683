--------------------------- MODULE ControlStreams ---------------------------
(***************************************************************************)
(* What a user gets to see of a sandbox: log streams, commands run in it   *)
(* and snapshots of it.  The API asks the agent over the control topic of  *)
(* its node and reads the answer from a topic of its own                   *)
(* (pkg/olympus/redis_control.go, pkg/hecatoncheir/control.go, the         *)
(* handlers of pkg/hecatoncheir/agent.go).  Redis keeps nothing: what is   *)
(* published while nobody is subscribed is gone, and the client library    *)
(* drops what finds its buffer full.  Here there is one sandbox on one     *)
(* node.                                                                   *)
(***************************************************************************)
EXTENDS Integers, Sequences

CONSTANTS Requests     \* the calls of the API

VARIABLES record,      \* the run in Hades: none, with the node, or without it
          sandbox,     \* the sandbox at the agent
          agentUp,     \* the agent runs and is subscribed
          req,         \* req[r]: the call of the API
          subscribed,  \* the calls whose subscription is in place
          inbox,       \* inbox[r]: output delivered to the call, not yet read
          topic,       \* commands published to the agent, not yet received
          handler,     \* handler[r]: the goroutine of the agent for r
          lost,        \* history: calls an output was lost for
          mishaps      \* failures so far

streamVars == <<record, sandbox, agentUp, req, subscribed, inbox, topic, handler, lost, mishaps>>

(* Streams the user keeps reading, and commands answered at once. *)
Streams == {"logs", "exec", "shell"}
Ops == Streams \cup {"list", "snapshot"}

NoHandler == [pc |-> "none", out |-> 0, stdin |-> 0]

(* A call: cmd says that it carries a command; conn that the user is still *)
(* there; typed counts the input of a shell.  Only those of active are     *)
(* made.                                                                   *)
StreamsInit(ops, active) ==
  /\ record \in IF active = {} THEN {"none"} ELSE {"none", "no_node", "node"}
  /\ sandbox = "none"
  /\ agentUp = TRUE
  /\ req \in [Requests -> [op : ops, cmd : BOOLEAN, pc : {"ready", "done"}, node : {FALSE},
                           got : {<<>>}, conn : {TRUE}, typed : {0}, res : {"none"}]]
  /\ \A r \in Requests : ~req[r].cmd => req[r].op \in {"exec", "shell"}
  /\ \A r \in Requests : req[r].pc = IF r \in active THEN "ready" ELSE "done"
  /\ subscribed = {}
  /\ inbox = [r \in Requests |-> <<>>]
  /\ topic = <<>>
  /\ handler = [r \in Requests |-> NoHandler]
  /\ lost = {}
  /\ mishaps = 0

Mishap(k) == mishaps' = mishaps + k

-----------------------------------------------------------------------------
(* The API. *)

(* A call returns and closes its subscription. *)
Finish(r, res) ==
  /\ req' = [req EXCEPT ![r].pc = "done", ![r].res = res]
  /\ subscribed' = subscribed \ {r}
  /\ inbox' = [inbox EXCEPT ![r] = <<>>]

(* Mutant: the confirmation of the subscription is not awaited, so that    *)
(* the request may overtake it.                                            *)
MutApiSubscribe(r) ==
  /\ req[r].pc = "ready"
  /\ record # "none" \/ req[r].op = "list"
  /\ req' = [req EXCEPT ![r].pc = "request", ![r].node = req[r].op = "list" \/ record = "node"]
  /\ subscribed' \in {subscribed, subscribed \cup {r}}
  /\ UNCHANGED <<record, sandbox, agentUp, inbox, topic, handler, lost, mishaps>>

(* The run is looked up and the call subscribes to the topic of its answer *)
(* before it asks for one: logs come on the topic of the sandbox, the      *)
(* others on one of the request.  A snapshot has no answer.                *)
ApiSubscribe(r) ==
  /\ req[r].pc = "ready"
  /\ record # "none" \/ req[r].op = "list"
  /\ \/ /\ req' = [req EXCEPT ![r].pc = "request",
                              ![r].node = req[r].op = "list" \/ record = "node"]
        /\ subscribed' = IF req[r].op = "snapshot" THEN subscribed ELSE subscribed \cup {r}
        /\ UNCHANGED <<inbox, mishaps>>
     \/ req[r].op # "snapshot" /\ Finish(r, "error") /\ Mishap(1)
  /\ UNCHANGED <<record, sandbox, agentUp, topic, handler, lost>>

(* No run: the call is answered at once. *)
ApiUnknown(r) ==
  /\ req[r].pc = "ready"
  /\ record = "none" /\ req[r].op # "list"
  /\ Finish(r, "not_found")
  /\ UNCHANGED <<record, sandbox, agentUp, topic, handler, lost, mishaps>>

(* The command is published to the node the run named.  It reaches nobody  *)
(* when the run names none, or when the agent is down.                     *)
Send(r) == topic' = IF req[r].node /\ agentUp THEN Append(topic, r) ELSE topic

(* CreateSnapshot only sends the command. *)
ApiSnapshot(r) ==
  /\ req[r].pc = "request" /\ req[r].op = "snapshot"
  /\ \/ Send(r) /\ Finish(r, "ok") /\ UNCHANGED mishaps
     \/ Finish(r, "error") /\ Mishap(1) /\ UNCHANGED topic
  /\ UNCHANGED <<record, sandbox, agentUp, handler, lost>>

(* The others wait for an answer. *)
ApiRequest(r) ==
  /\ req[r].pc = "request" /\ req[r].op # "snapshot"
  /\ \/ /\ Send(r)
        /\ req' = [req EXCEPT ![r].pc = "waiting"]
        /\ UNCHANGED <<subscribed, inbox, mishaps>>
     \/ Finish(r, "error") /\ Mishap(1) /\ UNCHANGED topic
  /\ UNCHANGED <<record, sandbox, agentUp, handler, lost>>

(* A chunk is passed on; the output of a command over HTTP is discarded.   *)
(* A log stream whose user is gone ends; the handler of a shell stops      *)
(* passing on, and waits for a call whose next write nobody reads.         *)
ApiRead(r) ==
  /\ req[r].pc = "waiting"
  /\ inbox[r] # <<>>
  /\ IF ~req[r].conn /\ req[r].op = "logs" THEN Finish(r, "error")
     ELSE /\ req' = IF req[r].conn \/ req[r].op = "exec" THEN [req EXCEPT ![r].got = Append(@, Head(inbox[r]))]
                    ELSE [req EXCEPT ![r].pc = "stuck"]
          /\ inbox' = [inbox EXCEPT ![r] = Tail(@)]
          /\ UNCHANGED subscribed
  /\ UNCHANGED <<record, sandbox, agentUp, topic, handler, lost, mishaps>>

(* The user goes away.  The context of a call over HTTP is cancelled then, *)
(* that of an upgraded connection is not.                                  *)
ApiDisconnect(r) ==
  /\ req[r].op \in Streams
  /\ req[r].conn
  /\ req[r].pc \in {"request", "waiting"}
  /\ req' = [req EXCEPT ![r].conn = FALSE]
  /\ UNCHANGED <<record, sandbox, agentUp, subscribed, inbox, topic, handler, lost, mishaps>>

ApiCancelled(r) ==
  /\ req[r].op \in {"logs", "exec"}
  /\ ~req[r].conn
  /\ req[r].pc = "waiting"
  /\ Finish(r, "cancelled")
  /\ UNCHANGED <<record, sandbox, agentUp, topic, handler, lost, mishaps>>

(* Logs are streamed for 5 minutes, a list is awaited for 5 seconds; a     *)
(* command run in the sandbox has no limit.                                *)
ApiTimeout(r) ==
  /\ req[r].op \in {"logs", "list"}
  /\ req[r].pc = "waiting"
  /\ Finish(r, "timeout")
  /\ UNCHANGED <<record, sandbox, agentUp, topic, handler, lost, mishaps>>

(* What the user types is published on the topic of the request: it is     *)
(* lost until the agent has subscribed, and when the handler has ended.    *)
ApiStdin(r, MaxTyped) ==
  /\ req[r].op = "shell"
  /\ req[r].pc = "waiting"
  /\ req[r].conn
  /\ req[r].typed < MaxTyped
  /\ req' = [req EXCEPT ![r].typed = @ + 1]
  /\ handler' = [handler EXCEPT ![r].stdin = IF handler[r].pc = "run" THEN req[r].typed + 1 ELSE @]
  /\ UNCHANGED <<record, sandbox, agentUp, subscribed, inbox, topic, lost, mishaps>>

(* Olympus is started again: every call of it ends. *)
ApiRestarts ==
  /\ req' = [r \in Requests |-> IF req[r].pc \in {"ready", "done"} THEN req[r]
                                ELSE [req[r] EXCEPT !.pc = "done", !.res = "error"]]
  /\ subscribed' = {}
  /\ inbox' = [r \in Requests |-> <<>>]
  /\ Mishap(1)
  /\ UNCHANGED <<record, sandbox, agentUp, topic, handler, lost>>

-----------------------------------------------------------------------------
(* The agent. *)

(* The calls that listen where the output of handler h goes: a log chunk   *)
(* is sent to every log stream of the sandbox.                             *)
Listening(h) ==
  {r \in subscribed : r = h \/ (req[h].op = "logs" /\ req[r].op = "logs")}

(* Redis hands a chunk to every subscriber with room in its buffer.        *)
Publish(h, n, ok, Buffer) ==
  LET reached == {r \in Listening(h) : ok /\ Len(inbox[r]) < Buffer}
  IN  /\ inbox' = [r \in Requests |->
                     IF r \in reached THEN Append(inbox[r], [by |-> h, n |-> n]) ELSE inbox[r]]
      /\ lost' = lost \cup (Listening(h) \ reached)
      /\ Mishap(IF ok THEN 0 ELSE 1)

(* Listen and controlLoop: the next command is parsed and handed to a      *)
(* goroutine of its own.  LIST_SANDBOXES has the request ID in the place   *)
(* of the sandbox ID and no argument, so its handler refuses it, as that   *)
(* of a command without words does.                                        *)
Receive ==
  /\ agentUp
  /\ topic # <<>>
  /\ LET r == Head(topic)
         refused == req[r].op = "list" \/ ~req[r].cmd
     IN  handler' = [handler EXCEPT ![r].pc = IF refused THEN "ended" ELSE "start"]
  /\ topic' = Tail(topic)
  /\ UNCHANGED <<record, sandbox, agentUp, req, subscribed, inbox, lost, mishaps>>

(* streamLogs, handleExec and handleExecInteractive begin; the last has to *)
(* subscribe to the input first.                                           *)
HandlerStarts(r) ==
  /\ handler[r].pc = "start"
  /\ req[r].op \in Streams
  /\ \/ handler' = [handler EXCEPT ![r].pc = "run"] /\ UNCHANGED mishaps
     \/ /\ req[r].op = "shell"
        /\ handler' = [handler EXCEPT ![r].pc = "ended"]
        /\ Mishap(1)
  /\ UNCHANGED <<record, sandbox, agentUp, req, subscribed, inbox, topic, lost>>

(* The runtime writes output, which is read from the pipe and published; a *)
(* failed publication is logged.                                           *)
HandlerOutput(r, MaxOut, Buffer) ==
  /\ handler[r].pc = "run"
  /\ sandbox = "running"
  /\ handler[r].out < MaxOut
  /\ \E ok \in BOOLEAN : Publish(r, handler[r].out + 1, ok, Buffer)
  /\ handler' = [handler EXCEPT ![r].out = @ + 1]
  /\ UNCHANGED <<record, sandbox, agentUp, req, subscribed, topic>>

(* The runtime returns.  An error of a command, as for a sandbox it does   *)
(* not know, is published as its last output; one of a log stream is not.  *)
(* The end itself is published to nobody.                                  *)
HandlerEnds(r, Buffer) ==
  /\ handler[r].pc = "run"
  /\ \/ /\ sandbox = "running" \/ req[r].op = "logs"
        /\ handler' = [handler EXCEPT ![r].pc = "ended"]
        /\ UNCHANGED <<inbox, lost, mishaps>>
     \/ /\ req[r].op # "logs"
        /\ \E ok \in BOOLEAN : Publish(r, handler[r].out + 1, ok, Buffer)
        /\ handler' = [handler EXCEPT ![r].pc = "ended", ![r].out = @ + 1]
  /\ UNCHANGED <<record, sandbox, agentUp, req, subscribed, topic>>

(* handleSnapshot: the configuration of an unknown sandbox, the directory  *)
(* or the snapshot itself may fail; then it is saved with Nyx.             *)
SnapshotFails(r) ==
  /\ handler[r].pc = "start"
  /\ req[r].op = "snapshot"
  /\ Mishap(IF sandbox = "running" THEN 1 ELSE 0)
  /\ handler' = [handler EXCEPT ![r].pc = "ended"]
  /\ UNCHANGED <<record, sandbox, agentUp, req, subscribed, inbox, topic, lost>>

SnapshotCreated(r) ==
  /\ handler[r].pc = "start"
  /\ req[r].op = "snapshot"
  /\ sandbox = "running"
  /\ handler' = [handler EXCEPT ![r].pc = "ended"]
  /\ UNCHANGED <<record, sandbox, agentUp, req, subscribed, inbox, topic, lost, mishaps>>

-----------------------------------------------------------------------------
(* The life of the sandbox. *)

(* Launch puts the sandbox into the map of the runtime. *)
SandboxLaunched ==
  /\ record = "node" /\ sandbox = "none" /\ agentUp
  /\ sandbox' = "running"
  /\ UNCHANGED <<record, agentUp, req, subscribed, inbox, topic, handler, lost, mishaps>>

(* The record of the runtime replaces the one that names the node, unless  *)
(* the write fails.                                                        *)
RunningReported ==
  /\ record = "node" /\ sandbox = "running"
  /\ record' = "no_node"
  /\ UNCHANGED <<sandbox, agentUp, req, subscribed, inbox, topic, handler, lost, mishaps>>

(* A Kill takes the sandbox out of the map. *)
SandboxKilled ==
  /\ sandbox = "running"
  /\ sandbox' = "gone"
  /\ UNCHANGED <<record, agentUp, req, subscribed, inbox, topic, handler, lost, mishaps>>

(* The agent is killed, with its goroutines, and started again; a job it   *)
(* had begun is not taken up again.                                        *)
AgentStops ==
  /\ agentUp
  /\ agentUp' = FALSE
  /\ sandbox' = IF sandbox = "none" THEN sandbox ELSE "gone"
  /\ topic' = <<>>
  /\ handler' = [r \in Requests |-> IF handler[r].pc = "none" THEN handler[r]
                                    ELSE [handler[r] EXCEPT !.pc = "ended"]]
  /\ Mishap(1)
  /\ UNCHANGED <<record, req, subscribed, inbox, lost>>

AgentStarts ==
  /\ ~agentUp
  /\ agentUp' = TRUE
  /\ UNCHANGED <<record, sandbox, req, subscribed, inbox, topic, handler, lost, mishaps>>

ApiStep(r, MaxTyped) ==
  \/ ApiSubscribe(r) \/ ApiUnknown(r) \/ ApiSnapshot(r) \/ ApiRequest(r) \/ ApiRead(r) \/ ApiDisconnect(r)
  \/ ApiCancelled(r) \/ ApiTimeout(r) \/ ApiStdin(r, MaxTyped)

HandlerStep(r, MaxOut, Buffer) ==
  HandlerStarts(r) \/ HandlerOutput(r, MaxOut, Buffer) \/ HandlerEnds(r, Buffer)

SandboxStep ==
  SandboxLaunched \/ RunningReported \/ SandboxKilled

-----------------------------------------------------------------------------
(* Nothing of what the agent publishes for a call escapes it, whenever it  *)
(* is asked: unless a publication failed or a buffer was full, a call that *)
(* waits has got, or will read, every chunk of its handler in order, and a *)
(* command gets no other output than its own.                              *)
OutputExact ==
  \A r \in Requests \ lost :
    LET all == req[r].got \o inbox[r]
        Own(k) == k.by = r
        own == SelectSeq(all, Own)
    IN  req[r].pc = "waiting" /\ req[r].conn =>
          /\ [k \in 1..Len(own) |-> own[k].n] = [k \in 1..handler[r].out |-> k]
          /\ req[r].op # "logs" => own = all
=============================================================================

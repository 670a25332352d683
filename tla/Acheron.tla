------------------------------- MODULE Acheron -------------------------------
(***************************************************************************)
(* Acheron, the work queue (pkg/acheron/redis_queue.go).  Olympus appends  *)
(* a request to the Redis stream of the node it was scheduled to; the      *)
(* agent of that node reads the stream through the consumer group          *)
(* "acheron-workers".  A stream entry is identified by its position, which *)
(* stands for the monotonic ID Redis gives it and is the receipt that      *)
(* Dequeue returns.  Entries are never trimmed or deleted: XACK only       *)
(* removes an entry from the pending entry list.                           *)
(***************************************************************************)
EXTENDS Domain, Sequences

CONSTANT Poison        \* a payload that Dequeue cannot decode

ASSUME AcheronAssumption == Poison \notin SandboxIDs

VARIABLES stream,        \* stream[n]: the entries ever added, oldest first
          lastDelivered, \* lastDelivered[n]: the cursor of the consumer group
          pel,           \* pel[n]: delivered, not acknowledged (the PEL)
          dlq            \* dlq[n]: entries copied to the dead letter stream

queueVars == <<stream, lastDelivered, pel, dlq>>

QueueTypeOK ==
  /\ stream \in [Nodes -> Seq(SandboxIDs \cup {Poison})]
  /\ lastDelivered \in [Nodes -> Nat]
  /\ pel \in [Nodes -> SUBSET Receipts]
  /\ dlq \in [Nodes -> SUBSET Receipts]

QueueInit ==
  /\ stream = [n \in Nodes |-> <<>>]
  /\ lastDelivered = [n \in Nodes |-> 0]
  /\ pel = [n \in Nodes |-> {}]
  /\ dlq = [n \in Nodes |-> {}]

(* The payload an entry carries. *)
Payload(n, i) == stream[n][i]

(* Entries of n's stream, and those no agent has seen yet. *)
Entries(n) == 1..Len(stream[n])
Waiting(n) == {i \in Entries(n) : i > lastDelivered[n]}

HasRoom(n) == Len(stream[n]) < MaxEntries

-----------------------------------------------------------------------------
(* XADD, the effect of a successful Enqueue: the stream of the node the    *)
(* request was routed to grows by one entry.                               *)
Enqueue(n, e) ==
  /\ HasRoom(n)
  /\ stream' = [stream EXCEPT ![n] = Append(@, e)]
  /\ UNCHANGED <<lastDelivered, pel, dlq>>

(* Mutant: read with NOACK, so that the entry does not become pending. *)
MutDeliver(n) ==
  /\ Waiting(n) # {}
  /\ lastDelivered' = [lastDelivered EXCEPT ![n] = @ + 1]
  /\ UNCHANGED <<stream, pel, dlq>>

(* XREADGROUP with ">" and COUNT 1: the next entry that was never          *)
(* delivered becomes pending.  Entries that are already pending are never  *)
(* read again.                                                             *)
Deliver(n) ==
  /\ Waiting(n) # {}
  /\ lastDelivered' = [lastDelivered EXCEPT ![n] = @ + 1]
  /\ pel' = [pel EXCEPT ![n] = @ \cup {lastDelivered[n] + 1}]
  /\ UNCHANGED <<stream, dlq>>

Ack(n, i) ==
  /\ pel' = [pel EXCEPT ![n] = @ \ {i}]
  /\ UNCHANGED <<stream, lastDelivered, dlq>>

(* Mutant: acknowledge without adding the copy. *)
MutNack(n, i) == Ack(n, i)

(* nackScript: XRANGE finds the entry whatever its state, a copy is added  *)
(* at the tail and the old entry acknowledged, all in one script.          *)
Nack(n, i) ==
  /\ HasRoom(n)
  /\ stream' = [stream EXCEPT ![n] = Append(@, stream[n][i])]
  /\ pel' = [pel EXCEPT ![n] = @ \ {i}]
  /\ UNCHANGED <<lastDelivered, dlq>>

(* Dequeue of an undecodable entry: it is delivered and deadLetterScript   *)
(* copies it to the dead letter stream and acknowledges it, or the script  *)
(* fails and the entry stays pending.  Either way Dequeue goes on reading. *)
DeadLetter(n, ok) ==
  LET i == lastDelivered[n] + 1
  IN  /\ Waiting(n) # {}
      /\ Payload(n, i) = Poison
      /\ lastDelivered' = [lastDelivered EXCEPT ![n] = i]
      /\ dlq' = [dlq EXCEPT ![n] = IF ok THEN @ \cup {i} ELSE @]
      /\ pel' = [pel EXCEPT ![n] = IF ok THEN @ ELSE @ \cup {i}]
      /\ UNCHANGED stream

(* A writer other than Olympus leaves an undecodable entry on a stream. *)
EnqueuePoison(n) == Enqueue(n, Poison)
=============================================================================

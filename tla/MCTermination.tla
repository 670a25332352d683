--------------------------- MODULE MCTermination ---------------------------
(* The instances of TerminationSystem that TLC checks. *)
EXTENDS TerminationSystem

MCCallers == {"loop", "exit", "fury"} \cup Terminations \cup Clients

(* A checkpointing policy for terminations on account of time, one with a  *)
(* cap above MaxGracePeriod for the network, the default otherwise.        *)
MCResolver ==
  [default  |-> DefaultPolicy,
   template |-> [t \in {"tpl"} |-> NoPolicy],
   reason   |-> [r \in Reasons |->
                   IF r = "time_limit"
                   THEN [grace |-> 0, max |-> 2, checkpoint |-> TRUE, export |-> TRUE, set |-> TRUE]
                   ELSE IF r = "network_violation"
                   THEN [grace |-> 9, max |-> 7, checkpoint |-> FALSE, export |-> FALSE, set |-> TRUE]
                   ELSE NoPolicy]]

(* A policy without a cap for the template. *)
StrictResolver ==
  [MCResolver EXCEPT !.template = [t \in {"tpl"} |-> [NoPolicy EXCEPT !.set = TRUE]]]

NodeSetting(hypnos, commands, messages, rival) ==
  [side |-> "node", hypnos |-> hypnos, runtime |-> TRUE, exporter |-> FALSE,
   resolver |-> MCResolver, load |-> {}, requests |-> {}, commands |-> commands,
   messages |-> messages, rival |-> rival]

ServerSetting(hypnos, runtime, resolver, load, requests, rival) ==
  [side |-> "server", hypnos |-> hypnos, runtime |-> runtime, exporter |-> hypnos,
   resolver |-> resolver, load |-> load, requests |-> requests, commands |-> {},
   messages |-> 0, rival |-> rival]

Plain == [reason |-> "user", grace |-> 9, checkpoint |-> FALSE]

Saving == [reason |-> "timeout", grace |-> 0, checkpoint |-> TRUE]

MCRequests == {Plain, Saving}

NodeSettings ==
  {NodeSetting(TRUE, {"HIBERNATE", "WAKE", "TERMINATE"}, 3, FALSE),
   NodeSetting(TRUE, {"CHECKPOINT", "HIBERNATE"}, 1, TRUE),
   NodeSetting(FALSE, Commands, 1, TRUE)}

(* As olympus-api wires it; two terminations; one termination and Erinyes. *)
ServerSettings ==
  {ServerSetting(FALSE, FALSE, MCResolver, {"t1"}, {Plain}, FALSE),
   ServerSetting(FALSE, TRUE, MCResolver, Terminations, {Plain}, FALSE),
   ServerSetting(TRUE, TRUE, MCResolver, {"t1"}, {Saving}, TRUE),
   ServerSetting(FALSE, TRUE, StrictResolver, {"t1"}, MCRequests, TRUE)}

MCSettings == NodeSettings \cup ServerSettings
=============================================================================

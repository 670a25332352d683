---------------------------- MODULE ShoreHealth -----------------------------
(* The two views the balancer has of a shore: what the health checks found   *)
(* (pkg/charon/health.go) and what became of the requests sent to it         *)
(* (pkg/charon/circuit_breaker.go).  The goroutines of the checks are those  *)
(* of the shores there were when run started, which takes its list once.     *)
EXTENDS Naturals

CONSTANTS
  Shores,       \* the backends
  HealthyAfter,     \* HealthCheck.Healthy: consecutive successes
  UnhealthyAfter,   \* HealthCheck.Unhealthy: consecutive failures
  Threshold,        \* CircuitBreakerConfig.Threshold
  HalfOpenRequests  \* CircuitBreakerConfig.HalfOpenRequests

ASSUME BreakerAssumption == Threshold \in Nat \ {0} /\ HalfOpenRequests \in Nat \ {0}

VARIABLES
  health,       \* HealthChecker.shores: a record for every monitored shore
  checked       \* the shores whose check goroutine runs

healthVars == <<health, checked>>

(* Counters saturate at their threshold: beyond it the code only compares. *)
HealthRecord == [status : {"healthy", "unhealthy"}, success : 0..HealthyAfter, failure : 0..UnhealthyAfter]

HealthTypeOK ==
  /\ DOMAIN health \subseteq Shores
  /\ \A s \in DOMAIN health : health[s] \in HealthRecord
  /\ checked \subseteq Shores

HealthInit == health = <<>> /\ checked = {}

AddShore(s) ==
  health' = [t \in DOMAIN health \cup {s} |->
               IF t = s THEN [status |-> "healthy", success |-> 0, failure |-> 0] ELSE health[t]]

RemoveShore(s) == health' = [t \in DOMAIN health \ {s} |-> health[t]]

IsHealthy(s) == s \in DOMAIN health /\ health[s].status = "healthy"

StartChecks == checked' = DOMAIN health /\ UNCHANGED health

StopChecks == checked' = {} /\ UNCHANGED health

(* recordSuccess and recordFailure of the state the goroutine holds.  The    *)
(* goroutine of a removed shore keeps counting on a record nobody reads.     *)
Bump(n, cap) == IF n < cap THEN n + 1 ELSE cap

CheckSucceeds(s) ==
  /\ s \in checked
  /\ health' = [t \in DOMAIN health |->
       IF t # s THEN health[t]
       ELSE LET n == Bump(health[t].success, HealthyAfter)
            IN  [status |-> IF n >= HealthyAfter THEN "healthy" ELSE health[t].status,
                 success |-> n, failure |-> 0]]
  /\ UNCHANGED checked

CheckFails(s) ==
  /\ s \in checked
  /\ health' = [t \in DOMAIN health |->
       IF t # s THEN health[t]
       ELSE LET n == Bump(health[t].failure, UnhealthyAfter)
            IN  [status |-> IF n >= UnhealthyAfter THEN "unhealthy" ELSE health[t].status,
                 success |-> 0, failure |-> n]]
  /\ UNCHANGED checked

-----------------------------------------------------------------------------
(* A breaker is a record, its methods are operators on the record.  Each     *)
(* method holds cb.mu from its first line to its last, so a call is one      *)
(* step.  "elapsed" stands for time.Since(lastFailureTime) >= timeout.       *)

BreakerState == {"closed", "open", "half-open"}

Breaker == [state : BreakerState, failures : 0..Threshold, successes : 0..HalfOpenRequests,
            attempts : 0..HalfOpenRequests, elapsed : BOOLEAN]

NewCircuitBreaker ==
  [state |-> "closed", failures |-> 0, successes |-> 0, attempts |-> 0, elapsed |-> TRUE]

MutAllowed(cb) ==
  \/ cb.state = "closed"
  \/ cb.state = "open" /\ cb.elapsed
  \/ cb.state = "half-open" /\ cb.attempts <= HalfOpenRequests

(* The value Allow returns ... *)
Allowed(cb) ==
  \/ cb.state = "closed"
  \/ cb.state = "open" /\ cb.elapsed
  \/ cb.state = "half-open" /\ cb.attempts < HalfOpenRequests

(* ... and the breaker it leaves behind. *)
Allow(cb) ==
  CASE cb.state = "open" /\ cb.elapsed -> [cb EXCEPT !.state = "half-open", !.attempts = 1]
    [] cb.state = "half-open" /\ Allowed(cb) -> [cb EXCEPT !.attempts = @ + 1]
    [] OTHER -> cb

RecordSuccess(cb) ==
  CASE cb.state = "closed" -> [cb EXCEPT !.failures = 0]
    [] cb.state = "half-open" /\ cb.successes + 1 < HalfOpenRequests ->
         [cb EXCEPT !.successes = @ + 1]
    [] cb.state = "half-open" /\ cb.successes + 1 >= HalfOpenRequests ->
         [NewCircuitBreaker EXCEPT !.elapsed = cb.elapsed]
    [] OTHER -> cb

MutRecordFailure(cb) ==
  CASE cb.state = "closed" ->
         [cb EXCEPT !.failures = @ + 1, !.elapsed = FALSE,
                    !.state = IF cb.failures + 1 >= Threshold THEN "open" ELSE "closed"]
    [] OTHER -> [cb EXCEPT !.elapsed = FALSE, !.state = "open"]

RecordFailure(cb) ==
  CASE cb.state = "closed" ->
         [cb EXCEPT !.failures = @ + 1, !.elapsed = FALSE,
                    !.state = IF cb.failures + 1 >= Threshold THEN "open" ELSE "closed"]
    [] cb.state = "half-open" ->
         [cb EXCEPT !.elapsed = FALSE, !.state = "open", !.successes = 0, !.attempts = 0]
    [] OTHER -> [cb EXCEPT !.elapsed = FALSE]

(* The clock reaches lastFailureTime + timeout. *)
Elapse(cb) == [cb EXCEPT !.elapsed = TRUE]
=============================================================================

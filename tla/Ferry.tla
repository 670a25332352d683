------------------------------- MODULE Ferry --------------------------------
(* pkg/charon/load_balancer.go (BoatFerry) as cmd/charon-proxy/main.go runs  *)
(* it: shores are registered at start, then requests cross concurrently with *)
(* the health checks, the limiter's cleanup and the removal of shores.  A    *)
(* request takes one step for each stretch of Cross between two points where *)
(* another goroutine can be seen.                                            *)
EXTENDS Integers, Sequences, FiniteSets, HashRing, RateLimiter, ShoreHealth

CONSTANTS
  Configs,          \* the configurations to consider
  MaxRetries,       \* RetryConfig.MaxRetries
  NoShore,
  Absent,           \* a header, cookie or context value that is not there
  Affinity,         \* FerryConfig.SessionAffinityKey
  KeyFuncName,      \* RateLimitConfig.KeyFunc
  Attr(_),          \* the request's headers, cookie, address and context values
  IPHash(_),        \* the hash selectIPHash takes of an address
  Weight(_),        \* Shore.Weight
  MaxDeregistrations, \* bound: removals of shores
  RRModulus         \* a multiple of every number of shores: rrCounter is kept modulo it

VARIABLES
  config,           \* Config: shores, strategy, limited (RateLimiting.Enabled); the bound load
  phase,            \* "config", "serving", "closed": where main is
  shores,           \* BoatFerry.shores, and the keys of its maps
  breakers,         \* [Shores -> Breaker]
  conns,            \* [Shores -> Int]  activeConns
  ring,             \* hashRing
  rrCounter,        \* rrCounter
  arrived,          \* requests that have arrived, at most config.load
  call,             \* [Requests -> the local state of its Cross]
  sent,             \* [Requests -> SUBSET Shores]  where the request was sent (history)
  probesOK,         \* [Shores -> Nat]  successes since the breaker was half-open (history)
  budget            \* [RateKeys -> Int]  requests the key may still make (history)

ferryVars == <<config, phase, shores, breakers, conns, ring, rrCounter, arrived, call, sent, probesOK, budget>>
vars == <<ferryVars, limitVars, healthVars>>

CallPC == {"new", "create", "touch", "take", "select", "check", "inflight", "backoff", "done"}
Answers == {"none", "backend", "429", "503", "500", "aborted"}

NewCall == [pc |-> "new", bucket |-> NoBucket, shore |-> NoShore, tried |-> {}, attempt |-> 0,
            answer |-> "none"]

Members(seq) == {seq[i] : i \in DOMAIN seq}
Without(seq, i) == [j \in 1..(Len(seq) - 1) |-> IF j < i THEN seq[j] ELSE seq[j + 1]]

Registered == Members(shores)

Or(v, default) == IF v = Absent THEN default ELSE v

(* GetKeyFunc's functions of the context Cross gets. *)
RateKeyOf(r) ==
  CASE KeyFuncName = "tenant" -> <<"tenant", Or(Attr(r).ctxTenant, "unknown")>>
    [] KeyFuncName = "ip" -> <<"ip", Or(Attr(r).ctxIP, "unknown")>>
    [] KeyFuncName = "identity" -> <<"identity", Or(Attr(r).ctxIdentity, "unknown")>>
    [] OTHER -> <<"default">>

(* Every key that keyFunc returns is accounted for. *)
ASSUME FerryAssumption ==
  /\ IsFiniteSet(Requests) /\ NoBucket \notin Requests /\ Burst \in Nat
  /\ \A r \in Requests : RateKeyOf(r) \in RateKeys
  /\ \A c \in Configs : c.shores \in Seq(Shores)

ClientIP(r) == Or(Attr(r).forwardedFor, Attr(r).remoteAddr)

(* extractSessionKey: the configured attribute, or the address. *)
SessionKey(r) ==
  LET tenant == Or(Attr(r).ctxTenant, Attr(r).tenantHeader)
      session == Or(Attr(r).sessionCookie, Attr(r).sessionHeader)
  IN  CASE Affinity = "tenant" /\ tenant # Absent -> <<"tenant", tenant>>
        [] Affinity = "session" /\ session # Absent -> <<"session", session>>
        [] Affinity = "custom" /\ Attr(r).affinityHeader # Absent -> <<Attr(r).affinityHeader>>
        [] OTHER -> <<"ip", ClientIP(r)>>

TypeOK ==
  /\ LimiterTypeOK /\ HealthTypeOK
  /\ config \in Configs /\ phase \in {"config", "serving", "closed"}
  /\ shores \in Seq(Shores) /\ breakers \in [Shores -> Breaker] /\ conns \in [Shores -> Int]
  /\ rrCounter \in 0..(RRModulus - 1) /\ arrived \in 0..config.load
  /\ call \in [Requests -> [pc : CallPC, bucket : Requests \cup {NoBucket},
                            shore : Shores \cup {NoShore}, tried : SUBSET Shores,
                            attempt : 0..MaxRetries, answer : Answers]]

Init ==
  /\ LimiterInit /\ HealthInit
  /\ config \in Configs
  /\ phase = "config"
  /\ shores = <<>> /\ ring = EmptyRing
  /\ breakers = [s \in Shores |-> NewCircuitBreaker]
  /\ conns = [s \in Shores |-> 0]
  /\ rrCounter = 0 /\ arrived = 0
  /\ call = [r \in Requests |-> NewCall]
  /\ sent = [r \in Requests |-> {}]
  /\ probesOK = [s \in Shores |-> 0]
  /\ budget = [k \in RateKeys |-> Burst]

-----------------------------------------------------------------------------
(* Configuration, as main drives it. *)

RegisterShore(s) ==
  /\ phase = "config" /\ Len(shores) < Len(config.shores) /\ s = config.shores[Len(shores) + 1]
  /\ shores' = Append(shores, s)
  /\ breakers' = [breakers EXCEPT ![s] = NewCircuitBreaker]
  /\ conns' = [conns EXCEPT ![s] = 0]
  /\ AddShore(s)
  /\ ring' = RingAdd(ring, s)
  /\ UNCHANGED <<config, phase, rrCounter, arrived, call, sent, probesOK, budget, limitVars, checked>>

(* Start takes the list of shores to check; the server listens. *)
Start ==
  /\ phase = "config" /\ Len(shores) = Len(config.shores)
  /\ phase' = "serving"
  /\ StartChecks
  /\ UNCHANGED <<config, shores, breakers, conns, ring, rrCounter, arrived, call, sent, probesOK, budget, limitVars>>

DeregisterShore(s) ==
  /\ phase = "serving" /\ s \in Registered
  /\ Len(config.shores) - Len(shores) < MaxDeregistrations
  /\ RemoveShore(s)
  /\ ring' = RingRemove(ring, s)
  /\ \E i \in 1..Len(shores) : /\ shores[i] = s /\ \A j \in 1..(i - 1) : shores[j] # s
                              /\ shores' = Without(shores, i)
  /\ UNCHANGED <<config, phase, breakers, conns, rrCounter, arrived, call, sent, probesOK, budget, limitVars, checked>>

(* server.Shutdown has waited for the requests; Close stops the loops. *)
Close ==
  /\ phase = "serving"
  /\ \A r \in Requests : call[r].pc \in {"new", "done"}
  /\ phase' = "closed"
  /\ StopChecks
  /\ UNCHANGED <<config, shores, breakers, conns, ring, rrCounter, arrived, call, sent, probesOK, budget, limitVars>>

-----------------------------------------------------------------------------
(* Time and the loops it drives. *)

BreakerTimeout(s) ==
  /\ breakers[s].state = "open" /\ ~breakers[s].elapsed
  /\ breakers' = [breakers EXCEPT ![s] = Elapse(@)]
  /\ UNCHANGED <<config, phase, shores, conns, ring, rrCounter, arrived, call, sent, probesOK, budget, limitVars, healthVars>>

HealthCheck(s) ==
  /\ phase = "serving"
  /\ CheckSucceeds(s) \/ CheckFails(s)
  /\ UNCHANGED <<ferryVars, limitVars>>

(* Tokens come back with time. *)
Refill(k) ==
  /\ phase = "serving" /\ limiters[k] # NoBucket /\ tokens[limiters[k]] < Burst
  /\ tokens' = [tokens EXCEPT ![limiters[k]] = @ + 1]
  /\ budget' = [budget EXCEPT ![k] = @ + 1]
  /\ UNCHANGED <<config, phase, shores, breakers, conns, ring, rrCounter, arrived, call, sent, probesOK,
                 limiters, idle, healthVars>>

(* A request stalled between getLimiter and Allow may keep a bucket that the *)
(* ticks dropped: its tokens are accounted to the budget of its key.         *)
Orphans(k) ==
  {call[r].bucket : r \in {r \in Requests : call[r].pc \in {"touch", "take"} /\ RateKeyOf(r) = k}}
    \ {limiters'[k]}

Cleanup ==
  /\ phase = "serving" /\ config.limited
  /\ CleanupLimiters
  /\ budget' = [k \in RateKeys |-> Burst * (1 + Cardinality(Orphans(k)))]
  /\ UNCHANGED <<config, phase, shores, breakers, conns, ring, rrCounter, arrived, call, sent, probesOK, healthVars>>

-----------------------------------------------------------------------------
(* Cross.                                                                    *)

ToHTTPError(err) ==
  CASE err = "no healthy shores" -> "503"
    [] err = "rate limit exceeded" -> "429"
    [] OTHER -> "500"

Finish(r, answer) == call' = [call EXCEPT ![r] = [NewCall EXCEPT !.pc = "done", !.answer = answer]]

(* getLimiter's lookup under the read lock.  Without rate limiting           *)
(* NoOpLimiter lets every request pass.                                      *)
CrossLimit(r) ==
  LET k == RateKeyOf(r)
  IN  /\ phase = "serving" /\ call[r].pc = "new" /\ arrived < config.load
      /\ arrived' = arrived + 1
      /\ \/ /\ ~config.limited
            /\ call' = [call EXCEPT ![r].pc = "select"]
            /\ UNCHANGED limitVars
         \/ /\ config.limited /\ LookupLimiter(k) = NoBucket
            /\ call' = [call EXCEPT ![r].pc = "create"]
            /\ UNCHANGED limitVars
         \/ /\ config.limited /\ LookupLimiter(k) # NoBucket
            /\ call' = [call EXCEPT ![r] = [@ EXCEPT !.pc = "touch", !.bucket = LookupLimiter(k)]]
            /\ UNCHANGED limitVars
      /\ UNCHANGED <<config, phase, shores, breakers, conns, ring, rrCounter, sent, probesOK, budget, healthVars>>

CrossTouchLimiter(r) ==
  /\ call[r].pc = "touch"
  /\ TouchLimiter(RateKeyOf(r), call[r].bucket)
  /\ call' = [call EXCEPT ![r].pc = "take"]
  /\ UNCHANGED <<config, phase, shores, breakers, conns, ring, rrCounter, arrived, sent, probesOK, budget, healthVars>>

CrossCreateLimiter(r) ==
  /\ call[r].pc = "create"
  /\ CreateLimiter(RateKeyOf(r), r)
  /\ call' = [call EXCEPT ![r] = [@ EXCEPT !.pc = "take", !.bucket = limiters'[RateKeyOf(r)]]]
  /\ UNCHANGED <<config, phase, shores, breakers, conns, ring, rrCounter, arrived, sent, probesOK, budget, healthVars>>

CrossTake(r) ==
  /\ call[r].pc = "take"
  /\ \/ /\ TakeToken(call[r].bucket)
        /\ call' = [call EXCEPT ![r].pc = "select"]
        /\ budget' = [budget EXCEPT ![RateKeyOf(r)] = @ - 1]
     \/ /\ NoToken(call[r].bucket)
        /\ Finish(r, ToHTTPError("rate limit exceeded"))
        /\ UNCHANGED budget
  /\ UNCHANGED <<config, phase, shores, breakers, conns, ring, rrCounter, arrived, sent, probesOK, healthVars>>

HealthyShores == SelectSeq(shores, IsHealthy)

(* The strategies: each is the set of shores it may return for request r.   *)
SelectRoundRobin(up) == {up[((rrCounter + 1) % Len(up)) + 1]}

SelectLeastConn(up) ==
  {up[i] : i \in {i \in 1..Len(up) :
     \A j \in 1..Len(up) : conns[up[i]] < conns[up[j]] \/ (conns[up[i]] = conns[up[j]] /\ i <= j)}}

WeightUpTo(up, i) ==
  LET sum[j \in 0..Len(up)] == IF j = 0 THEN 0 ELSE sum[j - 1] + Weight(up[j])
  IN  sum[i]

SelectWeighted(up) ==
  {up[i] : i \in {i \in 1..Len(up) :
     \E n \in 0..(WeightUpTo(up, Len(up)) - 1) : WeightUpTo(up, i - 1) <= n /\ n < WeightUpTo(up, i)}}

SelectIPHash(up, r) == {up[(IPHash(ClientIP(r)) % Len(up)) + 1]}

(* The primary of the key if it is healthy, else the first healthy one of   *)
(* the three shores that follow the key, else the first healthy shore.      *)
SelectConsistentHash(up, r) ==
  LET fallbacks == SelectSeq(RingGetN(ring, SessionKey(r), 3), LAMBDA s : s \in Members(up))
  IN  CASE ring.hashes = <<>> -> Members(up)
        [] ring.hashes # <<>> /\ RingGet(ring, SessionKey(r)) \in Members(up) -> {RingGet(ring, SessionKey(r))}
        [] ring.hashes # <<>> /\ RingGet(ring, SessionKey(r)) \notin Members(up) ->
             {IF fallbacks # <<>> THEN Head(fallbacks) ELSE up[1]}

Selected(up, r) ==
  CASE config.strategy = "round_robin" -> SelectRoundRobin(up)
    [] config.strategy = "least_conn" -> SelectLeastConn(up)
    [] config.strategy = "weighted" -> SelectWeighted(up)
    [] config.strategy = "ip_hash" -> SelectIPHash(up, r)
    [] config.strategy = "consistent_hash" -> SelectConsistentHash(up, r)
    [] OTHER -> Members(up)

CrossSelect(r) ==
  /\ call[r].pc = "select"
  /\ \/ /\ HealthyShores = <<>>
        /\ Finish(r, ToHTTPError("no healthy shores"))
        /\ UNCHANGED rrCounter
     \/ /\ HealthyShores # <<>>
        /\ \E s \in Selected(HealthyShores, r) :
             call' = [call EXCEPT ![r] = [@ EXCEPT !.pc = "check", !.shore = s, !.tried = {s}]]
        /\ rrCounter' = IF config.strategy = "round_robin" THEN (rrCounter + 1) % RRModulus ELSE rrCounter
  /\ UNCHANGED <<config, phase, shores, breakers, conns, ring, arrived, sent, probesOK, budget, limitVars, healthVars>>

MutNextAttempt(r) == call' = [call EXCEPT ![r].pc = "check"]

(* After a failed attempt: the next one, or the end of the loop. *)
NextAttempt(r) ==
  IF call[r].attempt < MaxRetries
    THEN call' = [call EXCEPT ![r] = [@ EXCEPT !.pc = "backoff", !.attempt = call[r].attempt + 1]]
    ELSE Finish(r, ToHTTPError("last error"))

(* Allow as a step of shore s's breaker; probesOK starts with a half-open   *)
(* period.                                                                   *)
BreakerAllow(s) ==
  /\ breakers' = [breakers EXCEPT ![s] = Allow(@)]
  /\ probesOK' = IF breakers[s].state = "open" /\ breakers[s].elapsed
                   THEN [probesOK EXCEPT ![s] = 0] ELSE probesOK

(* The top of the loop: the breaker, then the start of forwardRequest.  The *)
(* maps are read without the lock: a shore that was removed has no breaker   *)
(* and the handler panics.                                                   *)
CrossAttempt(r) ==
  LET s == call[r].shore
  IN  /\ call[r].pc = "check"
      /\ \/ /\ s \notin Registered
            /\ Finish(r, "aborted")
            /\ UNCHANGED <<breakers, conns, sent, probesOK>>
         \/ /\ s \in Registered /\ ~Allowed(breakers[s])
            /\ NextAttempt(r)
            /\ UNCHANGED <<breakers, conns, sent, probesOK>>
         \/ /\ s \in Registered /\ Allowed(breakers[s])
            /\ BreakerAllow(s)
            /\ conns' = [conns EXCEPT ![s] = @ + 1]
            /\ sent' = [sent EXCEPT ![r] = @ \cup {s}]
            /\ call' = [call EXCEPT ![r].pc = "inflight"]
      /\ UNCHANGED <<config, phase, shores, ring, rrCounter, arrived, budget, limitVars, healthVars>>

(* The backend answered: the deferred decrement of forwardRequest, then the  *)
(* outcome goes to the breaker and the health checker's request counters.    *)
CrossReply(r) ==
  LET s == call[r].shore
  IN  /\ call[r].pc = "inflight"
      /\ s \in Registered
      /\ conns' = [conns EXCEPT ![s] = @ - 1]
      /\ \/ /\ breakers' = [breakers EXCEPT ![s] = RecordSuccess(@)]
            /\ probesOK' = [probesOK EXCEPT ![s] = IF @ < HalfOpenRequests THEN @ + 1 ELSE @]
            /\ Finish(r, "backend")
         \/ /\ breakers' = [breakers EXCEPT ![s] = RecordFailure(@)]
            /\ NextAttempt(r)
            /\ UNCHANGED probesOK
      /\ UNCHANGED <<config, phase, shores, ring, rrCounter, arrived, sent, budget, limitVars, healthVars>>

MutCrossAborted(r) ==
  /\ call[r].pc = "inflight"
  /\ Finish(r, "aborted")
  /\ UNCHANGED <<config, phase, shores, breakers, conns, ring, rrCounter, arrived, sent, probesOK, budget, limitVars, healthVars>>

(* The backend's body broke off: the reverse proxy panics, the deferred      *)
(* decrement runs and nothing is recorded.  The decrement of a removed       *)
(* shore's counter panics too.                                               *)
CrossAborted(r) ==
  LET s == call[r].shore
  IN  /\ call[r].pc = "inflight"
      /\ conns' = IF s \in Registered THEN [conns EXCEPT ![s] = @ - 1] ELSE conns
      /\ Finish(r, "aborted")
      /\ UNCHANGED <<config, phase, shores, breakers, ring, rrCounter, arrived, sent, probesOK, budget, limitVars, healthVars>>

MutFallbacks(r) == {i \in 1..Len(shores) : IsHealthy(shores[i]) /\ Allowed(breakers[shores[i]])}

(* retryWithFallback: the places in shores of those not tried yet, healthy,  *)
(* whose breaker allows it; the first one is taken.                          *)
Fallbacks(r) ==
  {i \in 1..Len(shores) : /\ shores[i] \notin call[r].tried
                          /\ IsHealthy(shores[i]) /\ Allowed(breakers[shores[i]])}

CrossRetry(r) ==
  /\ call[r].pc = "backoff"
  /\ \/ \E i \in Fallbacks(r) :
          LET s == shores[i]
          IN  /\ \A j \in Fallbacks(r) : i <= j
              /\ BreakerAllow(s)
              /\ call' = [call EXCEPT ![r] = [@ EXCEPT !.pc = "check", !.shore = s,
                                                        !.tried = call[r].tried \cup {s}]]
     \/ /\ Fallbacks(r) = {}
        /\ Finish(r, ToHTTPError("last error"))
        /\ UNCHANGED <<breakers, probesOK>>
  /\ UNCHANGED <<config, phase, shores, conns, ring, rrCounter, arrived, sent, budget, limitVars, healthVars>>

(* CrossingTimeout, or the client's departure, during the backoff. *)
CrossCancelled(r) ==
  /\ call[r].pc = "backoff"
  /\ Finish(r, ToHTTPError("context done"))
  /\ UNCHANGED <<config, phase, shores, breakers, conns, ring, rrCounter, arrived, sent, probesOK, budget, limitVars, healthVars>>

(* The same client goroutine sends its next request, once nobody holds the   *)
(* bucket named after it.                                                    *)
NextRequest(r) ==
  /\ call[r].pc = "done"
  /\ \A q \in Requests \ {r} : call[q].bucket # r
  /\ call' = [call EXCEPT ![r] = NewCall]
  /\ sent' = [sent EXCEPT ![r] = {}]
  /\ UNCHANGED <<config, phase, shores, breakers, conns, ring, rrCounter, arrived, probesOK, budget, limitVars, healthVars>>

-----------------------------------------------------------------------------
CrossStep(r) ==
  \/ CrossTouchLimiter(r) \/ CrossCreateLimiter(r) \/ CrossTake(r) \/ CrossSelect(r)
  \/ CrossAttempt(r) \/ CrossReply(r) \/ CrossAborted(r) \/ CrossRetry(r) \/ CrossCancelled(r)

Stopped == phase = "closed" /\ UNCHANGED vars

Next ==
  \/ \E s \in Shores : RegisterShore(s) \/ DeregisterShore(s) \/ BreakerTimeout(s) \/ HealthCheck(s)
  \/ Start \/ Close \/ Stopped
  \/ \E k \in RateKeys : Refill(k)
  \/ Cleanup
  \/ \E r \in Requests : CrossLimit(r) \/ CrossStep(r) \/ NextRequest(r)

(* The server runs a goroutine per request; CrossingTimeout bounds the wait  *)
(* for a backend.                                                            *)
Spec == Init /\ [][Next]_vars /\ \A r \in Requests : WF_vars(CrossStep(r))

-----------------------------------------------------------------------------
(* A shore's connection counter is the number of requests in flight to it,   *)
(* whatever way they end (forwardRequest's deferred decrement).              *)
ConnsMatch ==
  \A s \in Registered :
    conns[s] = Cardinality({r \in Requests : call[r].pc = "inflight" /\ call[r].shore = s})

(* A breaker that went half-open closes only after HalfOpenRequests          *)
(* successes of this half-open period (RecordSuccess, RecordFailure).        *)
ClosesAfterProbes ==
  [][\A s \in Shores :
       breakers[s].state = "half-open" /\ breakers'[s].state = "closed"
         => probesOK'[s] = HalfOpenRequests]_vars

(* A request is never sent to a shore it was sent to before: a retry goes    *)
(* to another backend (triedShores).                                         *)
NeverSentTwice ==
  [][\A r \in Requests :
       call[r].pc = "check" /\ call'[r].pc = "inflight" => call[r].shore \notin sent[r]]_vars

(* Concurrent first requests of a key share its bucket: the key never makes  *)
(* more requests than its tokens allow (getLimiter's second look).           *)
WithinBudget == \A k \in RateKeys : budget[k] >= 0

(* Session affinity: with consistent hashing a request goes to the healthy   *)
(* shore that owns the first virtual node clockwise of its key, so requests  *)
(* of one session meet one shore while health and membership do not change   *)
(* (at most three shores).                                                   *)
Sooner(h, g, key) ==
  IF (h >= KeyHash(key)) = (g >= KeyHash(key)) THEN h <= g ELSE h >= KeyHash(key)

StickySession ==
  config.strategy = "consistent_hash" /\ HealthyShores # <<>> =>
    \A r \in Requests :
      LET up == {h \in DOMAIN ring.nodes : IsHealthy(ring.nodes[h])}
          nearest == CHOOSE h \in up : \A g \in up : Sooner(h, g, SessionKey(r))
      IN  SelectConsistentHash(HealthyShores, r) = {ring.nodes[nearest]}

(* Every request that the server accepted is answered. *)
EveryRequestAnswered == \A r \in Requests : call[r].pc # "new" ~> call[r].pc = "done"

(* A half-open breaker that refuses further requests has a test under way:   *)
(* "Already testing, reject additional requests" (Allow).                    *)
RefusesWhileTesting ==
  \A s \in Registered :
    breakers[s].state = "half-open" /\ ~Allowed(breakers[s]) =>
      \E r \in Requests : call[r].pc \in {"check", "inflight"} /\ call[r].shore = s
=============================================================================

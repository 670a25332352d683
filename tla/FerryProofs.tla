---------------------------- MODULE FerryProofs -----------------------------
(***************************************************************************)
(* What Ferry guarantees about counters, breakers, retries and budgets,    *)
(* for every set of shores, requests and keys, every threshold and every   *)
(* number of retries.                                                      *)
(***************************************************************************)
EXTENDS Ferry, FiniteSetTheorems, TLAPS

(* The local state of every Cross is a record with these fields. *)
IsCall(c) ==
  c = [pc |-> c.pc, bucket |-> c.bucket, shore |-> c.shore, tried |-> c.tried,
       attempt |-> c.attempt, answer |-> c.answer]

Shape == call = [r \in Requests |-> call[r]] /\ \A r \in Requests : IsCall(call[r])

(* The requests in flight to s. *)
Inflight(s) == {r \in Requests : call[r].pc = "inflight" /\ call[r].shore = s}

(* Before main has started the server no request has arrived. *)
ConnsOK ==
  /\ shores \in Seq(Shores) /\ conns \in [Shores -> Int] /\ config.shores \in Seq(Shores)
  /\ phase = "config" => \A r \in Requests : call[r].pc = "new"
  /\ ConnsMatch

(* Where a request was sent it was tried, and what it tries next is new. *)
SentOK ==
  /\ sent \in [Requests -> SUBSET Shores]
  /\ \A r \in Requests :
       /\ call[r].pc \in {"new", "create", "touch", "take", "select"} => sent[r] = {}
       /\ call[r].pc \in {"check", "inflight", "backoff"} => sent[r] \subseteq call[r].tried
       /\ call[r].pc = "check" => call[r].shore \in call[r].tried \ sent[r]

(* The counters of a breaker in each of its states. *)
BreakerOK(cb) ==
  /\ cb \in Breaker
  /\ cb.state = "closed" => cb.failures < Threshold
  /\ cb.state = "half-open" => cb.successes < HalfOpenRequests
  /\ cb.state # "half-open" => cb.successes = 0

BreakersOK ==
  /\ breakers = [s \in Shores |-> breakers[s]] /\ probesOK \in [Shores -> Nat]
  /\ \A s \in Shores : /\ BreakerOK(breakers[s])
                       /\ breakers[s].state = "half-open" => breakers[s].successes = probesOK[s]
                       /\ phase = "config" => breakers[s].state = "closed"

(* The buckets a key may still draw on, and their tokens one by one. *)
Drawing(k) == {r \in Requests : call[r].pc \in {"touch", "take"} /\ RateKeyOf(r) = k}

Buckets(k) == ({limiters[k]} \cup {call[r].bucket : r \in Drawing(k)}) \ {NoBucket}

Tokens(k) == {p \in Requests \X (1..Burst) : p[1] \in Buckets(k) /\ p[2] <= tokens[p[1]]}

Reserve(k) == IF limiters[k] = NoBucket THEN Burst ELSE 0

(* A bucket belongs to the key of the request it is named after. *)
Owned ==
  /\ limiters \in [RateKeys -> Requests \cup {NoBucket}] /\ tokens \in [Requests -> 0..Burst]
  /\ \A k \in RateKeys : limiters[k] # NoBucket => RateKeyOf(limiters[k]) = k
  /\ \A r \in Requests : call[r].pc \in {"touch", "take"} =>
       call[r].bucket \in Requests /\ RateKeyOf(call[r].bucket) = RateKeyOf(r)

(* The tokens that can still be taken are within the key's budget. *)
Enough(k) == Cardinality(Tokens(k)) + Reserve(k) <= budget[k]

BudgetOK == Owned /\ budget \in [RateKeys -> Int] /\ \A k \in RateKeys : Enough(k)

IInv == Shape /\ ConnsOK /\ SentOK /\ BreakersOK /\ BudgetOK

-----------------------------------------------------------------------------
(* The breaker.                                                            *)

LEMMA NewBreakerOK == BreakerOK(NewCircuitBreaker) /\ NewCircuitBreaker.state = "closed"
  BY BreakerAssumption DEF BreakerOK, Breaker, BreakerState, NewCircuitBreaker

(* Every method keeps the counters within the bounds of the state. *)
LEMMA AllowOK ==
  ASSUME NEW cb, BreakerOK(cb)
  PROVE  /\ BreakerOK(Allow(cb))
         /\ Allow(cb).state = "closed" <=> cb.state = "closed"
         /\ Allow(cb).successes = cb.successes
         /\ Allow(cb).state = "half-open" =>
              cb.state = "half-open" \/ (cb.state = "open" /\ cb.elapsed)
<1>0. /\ cb \in Breaker
      /\ Threshold \in Nat \ {0} /\ HalfOpenRequests \in Nat \ {0}
  BY BreakerAssumption DEF BreakerOK
<1>1. CASE cb.state = "open" /\ cb.elapsed
  <2>1. Allow(cb) = [cb EXCEPT !.state = "half-open", !.attempts = 1]
    BY <1>1 DEF Allow
  <2>2. Allow(cb) = [state |-> "half-open", failures |-> cb.failures, successes |-> cb.successes,
                  attempts |-> 1, elapsed |-> cb.elapsed]
    BY <1>0, <2>1, Zenon DEF Breaker
  <2>. QED BY <1>0, <1>1, <2>2 DEF BreakerOK, Breaker, BreakerState
<1>2. CASE cb.state = "half-open" /\ Allowed(cb)
  <2>1. Allow(cb) = [cb EXCEPT !.attempts = cb.attempts + 1]
    BY <1>2 DEF Allow
  <2>2. cb.attempts + 1 \in 0..HalfOpenRequests
    BY <1>0, <1>2 DEF Allowed, Breaker
  <2>. QED BY <1>0, <1>2, <2>1, <2>2 DEF BreakerOK, Breaker, BreakerState
<1>3. CASE ~(cb.state = "open" /\ cb.elapsed) /\ ~(cb.state = "half-open" /\ Allowed(cb))
  BY <1>3 DEF Allow
<1>. QED BY <1>1, <1>2, <1>3

LEMMA RecordSuccessOK ==
  ASSUME NEW cb, BreakerOK(cb)
  PROVE  /\ BreakerOK(RecordSuccess(cb))
         /\ RecordSuccess(cb).state = "half-open" =>
              cb.state = "half-open" /\ RecordSuccess(cb).successes = cb.successes + 1
         /\ cb.state = "half-open" /\ RecordSuccess(cb).state = "closed" =>
              cb.successes + 1 = HalfOpenRequests
  BY BreakerAssumption DEF BreakerOK, Breaker, BreakerState, RecordSuccess, NewCircuitBreaker

LEMMA RecordFailureOK ==
  ASSUME NEW cb, BreakerOK(cb)
  PROVE  /\ BreakerOK(RecordFailure(cb))
         /\ RecordFailure(cb).state # "half-open"
         /\ RecordFailure(cb).state = "closed" => cb.state = "closed"
<1>0. /\ cb \in Breaker
      /\ Threshold \in Nat \ {0} /\ HalfOpenRequests \in Nat \ {0}
  BY BreakerAssumption DEF BreakerOK
<1>1. CASE cb.state = "closed"
  <2>1. RecordFailure(cb) =
          [cb EXCEPT !.failures = cb.failures + 1, !.elapsed = FALSE,
                     !.state = IF cb.failures + 1 >= Threshold THEN "open" ELSE "closed"]
    BY <1>1 DEF RecordFailure
  <2>2. cb.failures + 1 \in 0..Threshold
    BY <1>0, <1>1 DEF BreakerOK, Breaker
  <2>3. RecordFailure(cb) = [state |-> IF cb.failures + 1 >= Threshold THEN "open" ELSE "closed",
                             failures |-> cb.failures + 1, successes |-> cb.successes,
                             attempts |-> cb.attempts, elapsed |-> FALSE]
    BY <1>0, <2>1, Zenon DEF Breaker
  <2>. QED BY <1>0, <1>1, <2>2, <2>3 DEF BreakerOK, Breaker, BreakerState
<1>2. CASE cb.state = "half-open"
  <2>1. RecordFailure(cb) =
          [cb EXCEPT !.elapsed = FALSE, !.state = "open", !.successes = 0, !.attempts = 0]
    BY <1>2 DEF RecordFailure
  <2>2. RecordFailure(cb) = [state |-> "open", failures |-> cb.failures, successes |-> 0,
                             attempts |-> 0, elapsed |-> FALSE]
    BY <1>0, <2>1, Zenon DEF Breaker
  <2>. QED BY <1>0, <1>2, <2>2 DEF BreakerOK, Breaker, BreakerState
<1>3. CASE cb.state = "open"
  <2>1. RecordFailure(cb) = [cb EXCEPT !.elapsed = FALSE]
    BY <1>3 DEF RecordFailure
  <2>. QED BY <1>0, <1>3, <2>1, Zenon DEF BreakerOK, Breaker, BreakerState
<1>. QED BY <1>0, <1>1, <1>2, <1>3 DEF Breaker, BreakerState

LEMMA ElapseOK ==
  ASSUME NEW cb, BreakerOK(cb)
  PROVE  BreakerOK(Elapse(cb)) /\ Elapse(cb).state = cb.state
  BY Zenon DEF BreakerOK, Breaker, Elapse

-----------------------------------------------------------------------------
(* One request moves.                                                      *)

Only(r) == Shape' /\ \A q \in Requests : q # r => call'[q] = call[q]

(* Everything of a call but its place in Cross stays. *)
Same(r) ==
  /\ call'[r].bucket = call[r].bucket /\ call'[r].shore = call[r].shore
  /\ call'[r].tried = call[r].tried

LEMMA CallGets ==
  ASSUME Shape, NEW r \in Requests, NEW c, IsCall(c), call' = [call EXCEPT ![r] = c]
  PROVE  Only(r) /\ call'[r] = c
<1>1. call = [q \in Requests |-> call[q]]
  BY DEF Shape
<1>2. call' = [q \in Requests |-> IF q = r THEN c ELSE call[q]]
  BY <1>1
<1>3. \A q \in Requests : call'[q] = IF q = r THEN c ELSE call[q]
  BY <1>2
<1>4. \A q \in Requests : IsCall(call'[q])
  BY <1>3 DEF Shape
<1>5. call' = [q \in Requests |-> call'[q]]
  BY <1>2, Zenon
<1>. QED BY <1>3, <1>4, <1>5 DEF Only, Shape

(* Assigning one field of a call keeps the others. *)
LEMMA SetPC ==
  ASSUME NEW c, IsCall(c), NEW x, NEW d, d = [c EXCEPT !.pc = x]
  PROVE  /\ IsCall(d)
         /\ d.pc = x /\ d.bucket = c.bucket /\ d.shore = c.shore
         /\ d.tried = c.tried /\ d.attempt = c.attempt /\ d.answer = c.answer
  BY DEF IsCall

LEMMA SetBucket ==
  ASSUME NEW c, IsCall(c), NEW x, NEW d, d = [c EXCEPT !.bucket = x]
  PROVE  /\ IsCall(d)
         /\ d.pc = c.pc /\ d.bucket = x /\ d.shore = c.shore
         /\ d.tried = c.tried /\ d.attempt = c.attempt /\ d.answer = c.answer
  BY DEF IsCall

LEMMA SetShore ==
  ASSUME NEW c, IsCall(c), NEW x, NEW d, d = [c EXCEPT !.shore = x]
  PROVE  /\ IsCall(d)
         /\ d.pc = c.pc /\ d.bucket = c.bucket /\ d.shore = x
         /\ d.tried = c.tried /\ d.attempt = c.attempt /\ d.answer = c.answer
  BY DEF IsCall

LEMMA SetTried ==
  ASSUME NEW c, IsCall(c), NEW x, NEW d, d = [c EXCEPT !.tried = x]
  PROVE  /\ IsCall(d)
         /\ d.pc = c.pc /\ d.bucket = c.bucket /\ d.shore = c.shore
         /\ d.tried = x /\ d.attempt = c.attempt /\ d.answer = c.answer
  BY DEF IsCall

LEMMA SetAttempt ==
  ASSUME NEW c, IsCall(c), NEW x, NEW d, d = [c EXCEPT !.attempt = x]
  PROVE  /\ IsCall(d)
         /\ d.pc = c.pc /\ d.bucket = c.bucket /\ d.shore = c.shore
         /\ d.tried = c.tried /\ d.attempt = x /\ d.answer = c.answer
  BY DEF IsCall

LEMMA SetAnswer ==
  ASSUME NEW c, IsCall(c), NEW x, NEW d, d = [c EXCEPT !.answer = x]
  PROVE  /\ IsCall(d)
         /\ d.pc = c.pc /\ d.bucket = c.bucket /\ d.shore = c.shore
         /\ d.tried = c.tried /\ d.attempt = c.attempt /\ d.answer = x
  BY DEF IsCall

LEMMA FinishEffect ==
  ASSUME Shape, NEW r \in Requests, NEW answer, Finish(r, answer)
  PROVE  Only(r) /\ call'[r].pc = "done"
<1>. DEFINE c == [NewCall EXCEPT !.pc = "done", !.answer = answer]
<1>1. IsCall(c) /\ c.pc = "done"
  <2>. DEFINE d == [NewCall EXCEPT !.pc = "done"]
  <2>1. IsCall(d) /\ d.pc = "done"
    BY DEF NewCall, IsCall
  <2>. HIDE DEF d
  <2>2. c = [d EXCEPT !.answer = answer]
    BY DEF d
  <2>. QED BY <2>1, <2>2, SetAnswer
<1>2. call' = [call EXCEPT ![r] = c]
  BY DEF Finish
<1>. HIDE DEF c
<1>. QED BY <1>1, <1>2, CallGets, Zenon

LEMMA GotoEffect ==
  ASSUME Shape, NEW r \in Requests, NEW pc, call' = [call EXCEPT ![r].pc = pc]
  PROVE  Only(r) /\ call'[r].pc = pc /\ Same(r)
<1>. DEFINE c == [call[r] EXCEPT !.pc = pc]
<1>1. /\ IsCall(c) /\ c.pc = pc /\ c.bucket = call[r].bucket
      /\ c.shore = call[r].shore /\ c.tried = call[r].tried
  BY DEF IsCall, Shape
<1>2. call' = [call EXCEPT ![r] = c]
  OBVIOUS
<1>. HIDE DEF c
<1>. QED BY <1>1, <1>2, CallGets, Zenon DEF Same

LEMMA BucketEffect ==
  ASSUME Shape, NEW r \in Requests, NEW pc, NEW b,
         call' = [call EXCEPT ![r] = [@ EXCEPT !.pc = pc, !.bucket = b]]
  PROVE  Only(r) /\ call'[r].pc = pc /\ call'[r].bucket = b
<1>1. PICK d : d = [call[r] EXCEPT !.pc = pc]
  BY Zenon
<1>2. PICK c : c = [d EXCEPT !.bucket = b]
  BY Zenon
<1>3. call' = [call EXCEPT ![r] = c]
  BY <1>1, <1>2, Zenon
<1>4. IsCall(d) /\ d.pc = pc
  BY <1>1, SetPC DEF Shape
<1>5. IsCall(c) /\ c.pc = pc /\ c.bucket = b
  BY <1>2, <1>4, SetBucket
<1>. QED BY <1>3, <1>5, CallGets, Zenon

LEMMA ShoreEffect ==
  ASSUME Shape, NEW r \in Requests, NEW pc, NEW s, NEW T,
         call' = [call EXCEPT ![r] = [@ EXCEPT !.pc = pc, !.shore = s, !.tried = T]]
  PROVE  Only(r) /\ call'[r].pc = pc /\ call'[r].shore = s /\ call'[r].tried = T
<1>1. PICK d : d = [call[r] EXCEPT !.pc = pc]
  BY Zenon
<1>2. PICK e : e = [d EXCEPT !.shore = s]
  BY Zenon
<1>3. PICK c : c = [e EXCEPT !.tried = T]
  BY Zenon
<1>4. call' = [call EXCEPT ![r] = c]
  BY <1>1, <1>2, <1>3, Zenon
<1>5. IsCall(d) /\ d.pc = pc
  BY <1>1, SetPC DEF Shape
<1>6. IsCall(e) /\ e.pc = pc /\ e.shore = s
  BY <1>2, <1>5, SetShore
<1>7. IsCall(c) /\ c.pc = pc /\ c.shore = s /\ c.tried = T
  BY <1>3, <1>6, SetTried
<1>. QED BY <1>4, <1>7, CallGets, Zenon

LEMMA NextAttemptEffect ==
  ASSUME Shape, NEW r \in Requests, NextAttempt(r)
  PROVE  /\ Only(r) /\ call'[r].pc \in {"done", "backoff"}
         /\ call'[r].pc = "backoff" => Same(r)
<1>1. CASE call[r].attempt < MaxRetries
  <2>1. PICK d : d = [call[r] EXCEPT !.pc = "backoff"]
    BY Zenon
  <2>2. PICK c : c = [d EXCEPT !.attempt = call[r].attempt + 1]
    BY Zenon
  <2>3. call' = [call EXCEPT ![r] = c]
    BY <1>1, <2>1, <2>2, Zenon DEF NextAttempt
  <2>4. /\ IsCall(d) /\ d.pc = "backoff" /\ d.bucket = call[r].bucket
        /\ d.shore = call[r].shore /\ d.tried = call[r].tried
    BY <2>1, SetPC DEF Shape
  <2>5. /\ IsCall(c) /\ c.pc = "backoff" /\ c.bucket = call[r].bucket
        /\ c.shore = call[r].shore /\ c.tried = call[r].tried
    BY <2>2, <2>4, SetAttempt
  <2>. QED BY <2>3, <2>5, CallGets, Zenon DEF Same
<1>2. CASE ~(call[r].attempt < MaxRetries)
  BY <1>2, FinishEffect, Zenon DEF NextAttempt
<1>. QED BY <1>1, <1>2

-----------------------------------------------------------------------------
(* The steps of Cross, as far as places, shores and the history of sent    *)
(* requests go.                                                            *)

Early == {"new", "create", "touch", "take", "select"}

Turn(r) ==
  \/ call'[r].pc = "done" /\ sent' = sent
  \/ call'[r].pc = "new" /\ sent' = [sent EXCEPT ![r] = {}]
  \/ call[r].pc \in Early /\ call'[r].pc \in Early \ {"new"} /\ sent' = sent
  \/ /\ call[r].pc = "select" /\ call'[r].pc = "check" /\ sent' = sent
     /\ call'[r].tried = {call'[r].shore}
  \/ /\ call[r].pc = "check" /\ call'[r].pc = "inflight" /\ Same(r)
     /\ call[r].shore \in Registered
     /\ sent' = [sent EXCEPT ![r] = @ \cup {call[r].shore}]
  \/ /\ call[r].pc \in {"check", "inflight"} /\ call'[r].pc = "backoff" /\ Same(r)
     /\ sent' = sent
  \/ /\ call[r].pc = "backoff" /\ call'[r].pc = "check" /\ sent' = sent
     /\ call'[r].shore \notin call[r].tried
     /\ call'[r].tried = call[r].tried \cup {call'[r].shore}

LEMMA EarlyTurn ==
  ASSUME Shape, NEW r \in Requests,
         CrossLimit(r) \/ CrossTouchLimiter(r) \/ CrossCreateLimiter(r) \/ CrossTake(r)
  PROVE  Only(r) /\ Turn(r)
<1>1. CASE CrossLimit(r)
  <2>1. sent' = sent /\ call[r].pc = "new"
    BY <1>1 DEF CrossLimit
  <2>2. \/ call' = [call EXCEPT ![r].pc = "select"]
        \/ call' = [call EXCEPT ![r].pc = "create"]
        \/ \E b : call' = [call EXCEPT ![r] = [@ EXCEPT !.pc = "touch", !.bucket = b]]
    BY <1>1, Zenon DEF CrossLimit
  <2>3. Only(r) /\ call'[r].pc \in {"create", "touch", "select"}
    BY <2>2, GotoEffect, BucketEffect
  <2>. QED BY <2>1, <2>3 DEF Turn, Early
<1>2. CASE CrossTouchLimiter(r)
  <2>1. sent' = sent /\ call[r].pc = "touch" /\ call' = [call EXCEPT ![r].pc = "take"]
    BY <1>2 DEF CrossTouchLimiter
  <2>2. Only(r) /\ call'[r].pc = "take"
    BY <2>1, GotoEffect, Zenon
  <2>. QED BY <2>1, <2>2 DEF Turn, Early
<1>3. CASE CrossCreateLimiter(r)
  <2>. DEFINE b == limiters'[RateKeyOf(r)]
  <2>1. /\ sent' = sent /\ call[r].pc = "create"
        /\ call' = [call EXCEPT ![r] = [@ EXCEPT !.pc = "take", !.bucket = b]]
    BY <1>3 DEF CrossCreateLimiter
  <2>. HIDE DEF b
  <2>2. Only(r) /\ call'[r].pc = "take"
    BY <2>1, BucketEffect, Zenon
  <2>. QED BY <2>1, <2>2 DEF Turn, Early
<1>4. CASE CrossTake(r)
  <2>1. sent' = sent /\ call[r].pc = "take"
    BY <1>4, Zenon DEF CrossTake
  <2>2. \/ call' = [call EXCEPT ![r].pc = "select"]
        \/ Finish(r, ToHTTPError("rate limit exceeded"))
    BY <1>4, Zenon DEF CrossTake
  <2>3. Only(r) /\ call'[r].pc \in {"select", "done"}
    BY <2>2, GotoEffect, FinishEffect, Zenon
  <2>. QED BY <2>1, <2>3 DEF Turn, Early
<1>. QED BY <1>1, <1>2, <1>3, <1>4

LEMMA SelectTurn ==
  ASSUME Shape, NEW r \in Requests, CrossSelect(r)
  PROVE  Only(r) /\ Turn(r)
<1>1. sent' = sent /\ call[r].pc = "select"
  BY Zenon DEF CrossSelect
<1>2. CASE Finish(r, ToHTTPError("no healthy shores"))
  BY <1>1, <1>2, FinishEffect, Zenon DEF Turn
<1>3. CASE \E s : call' = [call EXCEPT ![r] = [@ EXCEPT !.pc = "check", !.shore = s, !.tried = {s}]]
  <2>1. PICK s : call' = [call EXCEPT ![r] = [@ EXCEPT !.pc = "check", !.shore = s, !.tried = {s}]]
    BY <1>3, Zenon
  <2>2. Only(r) /\ call'[r].pc = "check" /\ call'[r].shore = s /\ call'[r].tried = {s}
    BY <2>1, ShoreEffect, Zenon
  <2>. QED BY <1>1, <2>2 DEF Turn
<1>. QED BY <1>2, <1>3, Zenon DEF CrossSelect

LEMMA SelectPlace ==
  ASSUME Shape, NEW r \in Requests, CrossSelect(r)
  PROVE  call'[r].pc \in {"done", "check"}
<1>1. CASE Finish(r, ToHTTPError("no healthy shores"))
  BY <1>1, FinishEffect, Zenon
<1>2. CASE \E s : call' = [call EXCEPT ![r] = [@ EXCEPT !.pc = "check", !.shore = s, !.tried = {s}]]
  <2>1. PICK s : call' = [call EXCEPT ![r] = [@ EXCEPT !.pc = "check", !.shore = s, !.tried = {s}]]
    BY <1>2, Zenon
  <2>. QED BY <2>1, ShoreEffect, Zenon
<1>. QED BY <1>1, <1>2, Zenon DEF CrossSelect

LEMMA AttemptTurn ==
  ASSUME Shape, NEW r \in Requests, CrossAttempt(r)
  PROVE  Only(r) /\ Turn(r)
<1>1. call[r].pc = "check"
  BY DEF CrossAttempt
<1>2. CASE sent' = sent /\ Finish(r, "aborted")
  BY <1>2, FinishEffect DEF Turn
<1>3. CASE sent' = sent /\ NextAttempt(r)
  BY <1>1, <1>3, NextAttemptEffect DEF Turn
<1>4. CASE /\ call[r].shore \in Registered
           /\ sent' = [sent EXCEPT ![r] = @ \cup {call[r].shore}]
           /\ call' = [call EXCEPT ![r].pc = "inflight"]
  <2>1. Only(r) /\ call'[r].pc = "inflight" /\ Same(r)
    BY <1>4, GotoEffect, Zenon
  <2>. QED BY <1>1, <1>4, <2>1 DEF Turn
<1>. QED BY <1>2, <1>3, <1>4, Zenon DEF CrossAttempt

LEMMA LateTurn ==
  ASSUME Shape, NEW r \in Requests,
         CrossReply(r) \/ CrossAborted(r) \/ CrossRetry(r) \/ CrossCancelled(r) \/ NextRequest(r)
  PROVE  Only(r) /\ Turn(r)
<1>1. CASE CrossReply(r)
  <2>1. sent' = sent /\ call[r].pc = "inflight" /\ (Finish(r, "backend") \/ NextAttempt(r))
    BY <1>1 DEF CrossReply
  <2>. QED BY <2>1, FinishEffect, NextAttemptEffect DEF Turn
<1>2. CASE CrossAborted(r)
  BY <1>2, FinishEffect DEF CrossAborted, Turn
<1>3. CASE CrossRetry(r)
  <2>1. sent' = sent /\ call[r].pc = "backoff"
    BY <1>3, Zenon DEF CrossRetry
  <2>2. CASE Finish(r, ToHTTPError("last error"))
    BY <2>1, <2>2, FinishEffect, Zenon DEF Turn
  <2>3. CASE \E i \in Fallbacks(r) :
               call' = [call EXCEPT ![r] = [@ EXCEPT !.pc = "check", !.shore = shores[i],
                                                     !.tried = call[r].tried \cup {shores[i]}]]
    <3>1. PICK i \in Fallbacks(r) :
               call' = [call EXCEPT ![r] = [@ EXCEPT !.pc = "check", !.shore = shores[i],
                                                     !.tried = call[r].tried \cup {shores[i]}]]
      BY <2>3, Zenon
    <3>2. PICK s, T : s = shores[i] /\ T = call[r].tried \cup {s}
      BY Zenon
    <3>3. call' = [call EXCEPT ![r] = [@ EXCEPT !.pc = "check", !.shore = s, !.tried = T]]
      BY <3>1, <3>2
    <3>4. Only(r) /\ call'[r].pc = "check" /\ call'[r].shore = s /\ call'[r].tried = T
      BY <3>3, ShoreEffect
    <3>5. s \notin call[r].tried
      BY <3>2 DEF Fallbacks
    <3>. QED BY <2>1, <3>2, <3>4, <3>5 DEF Turn
  <2>. QED BY <1>3, <2>2, <2>3, Zenon DEF CrossRetry
<1>4. CASE CrossCancelled(r)
  BY <1>4, FinishEffect, Zenon DEF CrossCancelled, Turn
<1>5. CASE NextRequest(r)
  <2>1. call' = [call EXCEPT ![r] = NewCall] /\ sent' = [sent EXCEPT ![r] = {}]
    BY <1>5 DEF NextRequest
  <2>2. IsCall(NewCall) /\ NewCall.pc = "new"
    BY DEF NewCall, IsCall
  <2>. QED BY <2>1, <2>2, CallGets, Zenon DEF Turn
<1>. QED BY <1>1, <1>2, <1>3, <1>4, <1>5

LEMMA CallSteps ==
  ASSUME Shape, [Next]_vars
  PROVE  \/ call' = call /\ sent' = sent
         \/ \E r \in Requests : Only(r) /\ Turn(r) /\ (call[r].pc # "new" \/ phase = "serving")
<1>1. ASSUME NEW r \in Requests, CrossLimit(r) \/ CrossStep(r) \/ NextRequest(r)
      PROVE  Only(r) /\ Turn(r) /\ (call[r].pc # "new" \/ phase = "serving")
  <2>1. Only(r) /\ Turn(r)
    BY <1>1, EarlyTurn, SelectTurn, AttemptTurn, LateTurn, Zenon DEF CrossStep
  <2>2. call[r].pc # "new" \/ phase = "serving"
    BY <1>1, Zenon DEF CrossLimit, CrossStep, CrossTouchLimiter, CrossCreateLimiter, CrossTake, CrossSelect,
                CrossAttempt, CrossReply, CrossAborted, CrossRetry, CrossCancelled, NextRequest
  <2>. QED BY <2>1, <2>2
<1>2. CASE UNCHANGED vars
  BY <1>2 DEF vars, ferryVars
<1>3. ASSUME NEW s \in Shores,
             RegisterShore(s) \/ DeregisterShore(s) \/ BreakerTimeout(s) \/ HealthCheck(s)
      PROVE  call' = call /\ sent' = sent
  BY <1>3 DEF RegisterShore, DeregisterShore, BreakerTimeout, HealthCheck, ferryVars
<1>4. CASE Start \/ Close \/ Stopped \/ Cleanup
  BY <1>4 DEF Start, Close, Stopped, Cleanup, vars, ferryVars
<1>5. ASSUME NEW k \in RateKeys, Refill(k)
      PROVE  call' = call /\ sent' = sent
  BY <1>5 DEF Refill
<1>. QED BY <1>1, <1>2, <1>3, <1>4, <1>5, Zenon DEF Next

-----------------------------------------------------------------------------
(* A retry goes to another backend.                                        *)

LEMMA ShoresTyped ==
  ASSUME shores \in Seq(Shores)
  PROVE  Registered \subseteq Shores
  BY DEF Registered, Members

LEMMA SentTurn ==
  ASSUME SentOK, shores \in Seq(Shores), NEW r \in Requests, Only(r), Turn(r)
  PROVE  SentOK'
<1>1. \A q \in Requests : q # r => call'[q] = call[q]
  BY DEF Only
<1>2. sent \in [Requests -> SUBSET Shores]
  BY DEF SentOK
<1>3. /\ sent' \in [Requests -> SUBSET Shores]
      /\ \A q \in Requests : q # r => sent'[q] = sent[q]
  <2>1. call[r].shore \in Registered => call[r].shore \in Shores
    BY ShoresTyped
  <2>. QED BY <1>2, <2>1 DEF Turn
<1>4. /\ call'[r].pc \in Early => sent'[r] = {}
      /\ call'[r].pc \in {"check", "inflight", "backoff"} => sent'[r] \subseteq call'[r].tried
      /\ call'[r].pc = "check" => call'[r].shore \in call'[r].tried \ sent'[r]
  <2>0. /\ call[r].pc \in Early => sent[r] = {}
        /\ call[r].pc \in {"check", "inflight", "backoff"} => sent[r] \subseteq call[r].tried
        /\ call[r].pc = "check" => call[r].shore \in call[r].tried \ sent[r]
    BY DEF SentOK, Early
  <2>1. CASE call'[r].pc = "done"
    BY <2>1 DEF Early
  <2>2. CASE call'[r].pc = "new" /\ sent' = [sent EXCEPT ![r] = {}]
    BY <1>2, <2>2
  <2>3. CASE call[r].pc \in Early /\ call'[r].pc \in Early \ {"new"} /\ sent' = sent
    BY <2>0, <2>3 DEF Early
  <2>4. CASE /\ call[r].pc = "select" /\ call'[r].pc = "check" /\ sent' = sent
             /\ call'[r].tried = {call'[r].shore}
    BY <2>0, <2>4 DEF Early
  <2>5. CASE /\ call[r].pc = "check" /\ call'[r].pc = "inflight" /\ Same(r)
             /\ call[r].shore \in Registered
             /\ sent' = [sent EXCEPT ![r] = @ \cup {call[r].shore}]
    BY <1>2, <2>0, <2>5 DEF Early, Same
  <2>6. CASE /\ call[r].pc \in {"check", "inflight"} /\ call'[r].pc = "backoff" /\ Same(r)
             /\ sent' = sent
    BY <2>0, <2>6 DEF Early, Same
  <2>7. CASE /\ call[r].pc = "backoff" /\ call'[r].pc = "check" /\ sent' = sent
             /\ call'[r].shore \notin call[r].tried
             /\ call'[r].tried = call[r].tried \cup {call'[r].shore}
    BY <2>0, <2>7 DEF Early
  <2>. QED BY <2>1, <2>2, <2>3, <2>4, <2>5, <2>6, <2>7, Zenon DEF Turn
<1>5. ASSUME NEW q \in Requests, q # r
      PROVE  /\ call'[q].pc \in Early => sent'[q] = {}
             /\ call'[q].pc \in {"check", "inflight", "backoff"} => sent'[q] \subseteq call'[q].tried
             /\ call'[q].pc = "check" => call'[q].shore \in call'[q].tried \ sent'[q]
  BY <1>1, <1>3, <1>5 DEF SentOK, Early
<1>. QED BY <1>3, <1>4, <1>5 DEF SentOK, Early

LEMMA SentKept ==
  ASSUME Shape, SentOK, shores \in Seq(Shores), [Next]_vars
  PROVE  Shape' /\ SentOK'
<1>1. CASE call' = call /\ sent' = sent
  BY <1>1 DEF Shape, SentOK
<1>2. CASE \E r \in Requests : Only(r) /\ Turn(r)
  BY <1>2, SentTurn DEF Only
<1>. QED BY <1>1, <1>2, CallSteps

LEMMA FirstVisit ==
  ASSUME SentOK, NEW r \in Requests, call[r].pc = "check", call'[r].pc = "inflight"
  PROVE  call[r].shore \notin sent[r]
  BY DEF SentOK

-----------------------------------------------------------------------------
(* A shore's counter counts the requests in flight to it.                  *)

LEMMA Removed ==
  ASSUME shores \in Seq(Shores), NEW i \in 1..Len(shores), shores' = Without(shores, i)
  PROVE  shores' \in Seq(Shores) /\ Registered' \subseteq Registered
<1>. DEFINE n == Len(shores) - 1
<1>1. /\ n \in Nat /\ DOMAIN shores = 1..(n + 1)
      /\ shores' = [j \in 1..n |-> IF j < i THEN shores[j] ELSE shores[j + 1]]
  BY DEF Without
<1>. HIDE DEF n
<1>2. \A j \in 1..n : j \in DOMAIN shores /\ j + 1 \in DOMAIN shores
  BY <1>1
<1>3. \A j \in 1..n : \E k \in DOMAIN shores : shores'[j] = shores[k]
  BY <1>1, <1>2
<1>4. shores' \in Seq(Shores)
  BY <1>1, <1>2
<1>5. DOMAIN shores' = 1..n
  BY <1>1
<1>. QED BY <1>3, <1>4, <1>5 DEF Registered, Members

LEMMA Appended ==
  ASSUME shores \in Seq(Shores), NEW s \in Shores, shores' = Append(shores, s)
  PROVE  shores' \in Seq(Shores) /\ Registered' = Registered \cup {s}
<1>1. /\ shores' \in Seq(Shores) /\ Len(shores') = Len(shores) + 1 /\ Len(shores) \in Nat
      /\ \A j \in 1..Len(shores') : shores'[j] = IF j <= Len(shores) THEN shores[j] ELSE s
  OBVIOUS
<1>2. Registered' \subseteq Registered \cup {s}
  BY <1>1 DEF Registered, Members
<1>3. s \in Registered'
  <2>1. shores'[Len(shores) + 1] = s /\ Len(shores) + 1 \in DOMAIN shores'
    BY <1>1
  <2>. QED BY <2>1 DEF Registered, Members
<1>4. ASSUME NEW t \in Registered
      PROVE  t \in Registered'
  <2>1. PICK j \in DOMAIN shores : t = shores[j]
    BY DEF Registered, Members
  <2>2. j \in DOMAIN shores' /\ shores'[j] = t
    BY <1>1, <2>1
  <2>. QED BY <2>2 DEF Registered, Members
<1>. QED BY <1>1, <1>2, <1>3, <1>4

LEMMA InflightFinite ==
  ASSUME NEW s
  PROVE  IsFiniteSet(Inflight(s)) /\ Cardinality(Inflight(s)) \in Nat
<1>1. Inflight(s) \subseteq Requests
  BY DEF Inflight
<1>. QED BY <1>1, FerryAssumption, FS_Subset, FS_CardinalityType

(* Only the request that moves can join or leave those in flight. *)
LEMMA InflightStays ==
  ASSUME NEW r \in Requests, Only(r), NEW s,
         (call[r].pc = "inflight" /\ call[r].shore = s) <=> (call'[r].pc = "inflight" /\ call'[r].shore = s)
  PROVE  Inflight(s)' = Inflight(s)
  BY DEF Only, Inflight

LEMMA InflightJoins ==
  ASSUME NEW r \in Requests, Only(r), NEW s,
         call[r].pc # "inflight", call'[r].pc = "inflight", call'[r].shore = s
  PROVE  Cardinality(Inflight(s)') = Cardinality(Inflight(s)) + 1
<1>1. Inflight(s)' = Inflight(s) \cup {r} /\ r \notin Inflight(s)
  BY DEF Only, Inflight
<1>. QED BY <1>1, InflightFinite, FS_AddElement, Zenon

LEMMA InflightLeaves ==
  ASSUME NEW r \in Requests, Only(r), NEW s,
         call'[r].pc # "inflight", call[r].pc = "inflight", call[r].shore = s
  PROVE  Cardinality(Inflight(s)') = Cardinality(Inflight(s)) - 1
<1>1. Inflight(s)' = Inflight(s) \ {r} /\ r \in Inflight(s)
  BY DEF Only, Inflight
<1>2. Cardinality(Inflight(s) \ {r}) = Cardinality(Inflight(s)) - 1
  BY <1>1, InflightFinite, FS_RemoveElement, Zenon
<1>. QED BY <1>1, <1>2, Zenon

(* What a step of request r does to the connection counters. *)
ConnTurn(r) ==
  LET s == call[r].shore
  IN  \/ conns' = conns /\ call[r].pc # "inflight" /\ call'[r].pc # "inflight"
      \/ /\ call[r].pc # "inflight" /\ call'[r].pc = "inflight" /\ call'[r].shore = s
         /\ s \in Registered /\ conns' = [conns EXCEPT ![s] = @ + 1]
      \/ /\ call[r].pc = "inflight" /\ call'[r].pc # "inflight"
         /\ conns' = IF s \in Registered THEN [conns EXCEPT ![s] = @ - 1] ELSE conns

LEMMA ConnTurns ==
  ASSUME Shape, NEW r \in Requests, CrossLimit(r) \/ CrossStep(r) \/ NextRequest(r)
  PROVE  ConnTurn(r) /\ UNCHANGED <<config, phase, shores>>
<1>0. Only(r) /\ Turn(r)
  BY EarlyTurn, SelectTurn, AttemptTurn, LateTurn, Zenon DEF CrossStep
<1>1. CASE \/ CrossLimit(r) \/ CrossTouchLimiter(r) \/ CrossCreateLimiter(r) \/ CrossTake(r)
           \/ CrossSelect(r) \/ CrossRetry(r) \/ CrossCancelled(r) \/ NextRequest(r)
  <2>1. UNCHANGED <<conns, config, phase, shores>>
    BY <1>1, Zenon DEF CrossLimit, CrossTouchLimiter, CrossCreateLimiter, CrossTake, CrossSelect,
                CrossRetry, CrossCancelled, NextRequest
  <2>2. call[r].pc \notin {"check", "inflight"}
    BY <1>1, Zenon DEF CrossLimit, CrossTouchLimiter, CrossCreateLimiter, CrossTake, CrossSelect,
                CrossRetry, CrossCancelled, NextRequest
  <2>3. call'[r].pc # "inflight"
    BY <1>0, <2>2 DEF Turn, Early
  <2>. QED BY <2>1, <2>2, <2>3 DEF ConnTurn
<1>2. CASE CrossAttempt(r)
  <2>1. call[r].pc = "check" /\ UNCHANGED <<config, phase, shores>>
    BY <1>2 DEF CrossAttempt
  <2>2. CASE conns' = conns /\ (Finish(r, "aborted") \/ NextAttempt(r))
    BY <2>1, <2>2, FinishEffect, NextAttemptEffect DEF ConnTurn
  <2>3. CASE /\ call[r].shore \in Registered
             /\ conns' = [conns EXCEPT ![call[r].shore] = @ + 1]
             /\ call' = [call EXCEPT ![r].pc = "inflight"]
    <3>1. call'[r].pc = "inflight" /\ call'[r].shore = call[r].shore
      BY <2>3, GotoEffect, Zenon DEF Same
    <3>. QED BY <2>1, <2>3, <3>1 DEF ConnTurn
  <2>. QED BY <1>2, <2>2, <2>3, Zenon DEF CrossAttempt
<1>3. CASE CrossReply(r)
  <2>1. /\ call[r].pc = "inflight" /\ call[r].shore \in Registered
        /\ conns' = [conns EXCEPT ![call[r].shore] = @ - 1] /\ UNCHANGED <<config, phase, shores>>
        /\ Finish(r, "backend") \/ NextAttempt(r)
    BY <1>3 DEF CrossReply
  <2>2. call'[r].pc # "inflight"
    BY <2>1, FinishEffect, NextAttemptEffect, Zenon
  <2>. QED BY <2>1, <2>2 DEF ConnTurn
<1>4. CASE CrossAborted(r)
  <2>1. /\ call[r].pc = "inflight" /\ UNCHANGED <<config, phase, shores>> /\ Finish(r, "aborted")
        /\ conns' = IF call[r].shore \in Registered THEN [conns EXCEPT ![call[r].shore] = @ - 1]
                    ELSE conns
    BY <1>4, Zenon DEF CrossAborted
  <2>2. call'[r].pc # "inflight"
    BY <2>1, FinishEffect, Zenon
  <2>. QED BY <2>1, <2>2, Zenon DEF ConnTurn
<1>. QED BY <1>1, <1>2, <1>3, <1>4, Zenon DEF CrossStep

LEMMA Counts ==
  ASSUME NEW s \in Registered, ConnsOK
  PROVE  conns[s] = Cardinality(Inflight(s))
  BY DEF ConnsOK, ConnsMatch, Inflight

LEMMA ConnsOfTurn ==
  ASSUME ConnsOK, NEW r \in Requests, Only(r), ConnTurn(r), UNCHANGED <<config, phase, shores>>,
         call[r].pc # "new" \/ phase = "serving"
  PROVE  ConnsOK'
<1>. DEFINE s == call[r].shore
<1>1. /\ shores \in Seq(Shores) /\ conns \in [Shores -> Int]
      /\ config.shores \in Seq(Shores) /\ Registered' = Registered /\ Registered \subseteq Shores
  BY ShoresTyped DEF ConnsOK, Registered
<1>2. phase' # "config"
  BY DEF ConnsOK
<1>3. conns' \in [Shores -> Int]
  BY <1>1 DEF ConnTurn
<1>4. ASSUME NEW t \in Registered
      PROVE  conns'[t] = Cardinality(Inflight(t)')
  <2>0. conns[t] = Cardinality(Inflight(t)) /\ t \in Shores
    BY <1>1, <1>4, Counts
  <2>1. CASE conns' = conns /\ call[r].pc # "inflight" /\ call'[r].pc # "inflight"
    BY <2>0, <2>1, InflightStays
  <2>2. CASE /\ call[r].pc # "inflight" /\ call'[r].pc = "inflight" /\ call'[r].shore = s
             /\ s \in Registered /\ conns' = [conns EXCEPT ![s] = @ + 1]
    <3>1. CASE t = s
      <4>1. Cardinality(Inflight(t)') = Cardinality(Inflight(t)) + 1
        BY <2>2, <3>1, InflightJoins
      <4>. QED BY <1>1, <2>0, <2>2, <3>1, <4>1
    <3>2. CASE t # s
      <4>1. Inflight(t)' = Inflight(t)
        BY <2>2, <3>2, InflightStays
      <4>. QED BY <1>1, <2>0, <2>2, <3>2, <4>1
    <3>. QED BY <3>1, <3>2
  <2>3. CASE /\ call[r].pc = "inflight" /\ call'[r].pc # "inflight"
             /\ conns' = IF s \in Registered THEN [conns EXCEPT ![s] = @ - 1] ELSE conns
    <3>1. CASE t = s
      <4>1. Cardinality(Inflight(t)') = Cardinality(Inflight(t)) - 1
        BY <2>3, <3>1, InflightLeaves
      <4>. QED BY <1>1, <1>4, <2>0, <2>3, <3>1, <4>1
    <3>2. CASE t # s
      <4>1. Inflight(t)' = Inflight(t)
        BY <2>3, <3>2, InflightStays
      <4>. QED BY <1>1, <2>0, <2>3, <3>2, <4>1
    <3>. QED BY <3>1, <3>2
  <2>. QED BY <2>1, <2>2, <2>3, Zenon DEF ConnTurn
<1>5. ConnsMatch'
  BY <1>1, <1>4, Zenon DEF ConnsMatch, Inflight
<1>. QED BY <1>1, <1>2, <1>3, <1>5 DEF ConnsOK

LEMMA ConnsKept ==
  ASSUME Shape, ConnsOK, [Next]_vars
  PROVE  ConnsOK'
<1>0. shores \in Seq(Shores) /\ conns \in [Shores -> Int] /\ config.shores \in Seq(Shores)
  BY DEF ConnsOK
<1>1. ASSUME NEW r \in Requests, CrossLimit(r) \/ CrossStep(r) \/ NextRequest(r)
      PROVE  ConnsOK'
  <2>1. ConnTurn(r) /\ UNCHANGED <<config, phase, shores>>
    BY <1>1, ConnTurns
  <2>2. Only(r)
    BY <1>1, EarlyTurn, SelectTurn, AttemptTurn, LateTurn, Zenon DEF CrossStep
  <2>3. call[r].pc # "new" \/ phase = "serving"
    BY <1>1, Zenon DEF CrossLimit, CrossStep, CrossTouchLimiter, CrossCreateLimiter, CrossTake, CrossSelect,
                CrossAttempt, CrossReply, CrossAborted, CrossRetry, CrossCancelled, NextRequest
  <2>. QED BY <2>1, <2>2, <2>3, ConnsOfTurn
<1>2. ASSUME UNCHANGED <<config, shores, conns, call>>, phase' = "config" => phase = "config"
      PROVE  ConnsOK'
  BY <1>2 DEF ConnsOK, ConnsMatch, Registered
<1>3. ASSUME NEW s \in Shores, RegisterShore(s)
      PROVE  ConnsOK'
  <2>1. /\ phase = "config" /\ UNCHANGED <<config, phase, call>>
        /\ shores' = Append(shores, s) /\ conns' = [conns EXCEPT ![s] = 0]
    BY <1>3 DEF RegisterShore
  <2>2. shores' \in Seq(Shores) /\ Registered' = Registered \cup {s}
    BY <1>0, <2>1, Appended
  <2>3. \A r \in Requests : call[r].pc = "new"
    BY <2>1 DEF ConnsOK
  <2>4. ASSUME NEW t \in Registered'
        PROVE  conns'[t] = Cardinality(Inflight(t)')
    <3>1. Inflight(t)' = {} /\ Inflight(t) = {}
      BY <2>1, <2>3 DEF Inflight
    <3>2. CASE t = s
      BY <1>0, <2>1, <3>1, <3>2, FS_EmptySet
    <3>3. CASE t # s
      <4>1. t \in Registered /\ t \in Shores
        BY <1>0, <2>2, <2>4, <3>3, ShoresTyped
      <4>2. conns[t] = Cardinality(Inflight(t))
        BY <4>1, Counts
      <4>. QED BY <1>0, <2>1, <3>1, <3>3, <4>1, <4>2
    <3>. QED BY <3>2, <3>3
  <2>5. ConnsMatch'
    BY <2>4 DEF ConnsMatch, Inflight
  <2>. QED BY <1>0, <2>1, <2>2, <2>3, <2>5 DEF ConnsOK
<1>4. ASSUME NEW s \in Shores, DeregisterShore(s)
      PROVE  ConnsOK'
  <2>1. phase = "serving" /\ UNCHANGED <<config, phase, call, conns>>
    BY <1>4 DEF DeregisterShore
  <2>2. shores' \in Seq(Shores) /\ Registered' \subseteq Registered
    BY <1>0, <1>4, Removed DEF DeregisterShore
  <2>3. ConnsMatch'
    BY <2>1, <2>2 DEF ConnsMatch, ConnsOK
  <2>. QED BY <1>0, <2>1, <2>2, <2>3 DEF ConnsOK
<1>5. ASSUME NEW s \in Shores, BreakerTimeout(s) \/ HealthCheck(s)
      PROVE  UNCHANGED <<config, shores, conns, call, phase>>
  BY <1>5 DEF BreakerTimeout, HealthCheck, ferryVars
<1>6. CASE Start \/ Close
  BY <1>2, <1>6 DEF Start, Close
<1>7. CASE Stopped \/ Cleanup \/ UNCHANGED vars
  BY <1>2, <1>7 DEF Stopped, Cleanup, vars, ferryVars
<1>8. ASSUME NEW k \in RateKeys, Refill(k)
      PROVE  UNCHANGED <<config, shores, conns, call, phase>>
  BY <1>8 DEF Refill
<1>9. ASSUME UNCHANGED <<config, shores, conns, call, phase>>
      PROVE  ConnsOK'
  BY <1>2, <1>9
<1>. QED BY <1>1, <1>3, <1>4, <1>5, <1>6, <1>7, <1>8, <1>9, Zenon DEF Next

-----------------------------------------------------------------------------
(* A breaker and the successes of its half-open period.                    *)

ProbeOK(s) ==
  /\ BreakerOK(breakers[s]) /\ probesOK[s] \in Nat
  /\ breakers[s].state = "half-open" => breakers[s].successes = probesOK[s]
  /\ phase = "config" => breakers[s].state = "closed"

(* What a step does to the breakers: one of them moves, if any. *)
BreakerTurn(s) ==
  \/ breakers' = [breakers EXCEPT ![s] = NewCircuitBreaker] /\ phase = "config" /\ probesOK' = probesOK
  \/ breakers' = [breakers EXCEPT ![s] = Elapse(@)] /\ probesOK' = probesOK
  \/ BreakerAllow(s) /\ phase # "config"
  \/ /\ breakers' = [breakers EXCEPT ![s] = RecordSuccess(@)] /\ phase # "config"
     /\ probesOK' = [probesOK EXCEPT ![s] = IF @ < HalfOpenRequests THEN @ + 1 ELSE @]
  \/ breakers' = [breakers EXCEPT ![s] = RecordFailure(@)] /\ phase # "config" /\ probesOK' = probesOK

LEMMA BreakerSteps ==
  ASSUME Shape, ConnsOK, [Next]_vars
  PROVE  /\ phase' = "config" => phase = "config"
         /\ \/ breakers' = breakers /\ probesOK' = probesOK
            \/ \E s \in Shores : BreakerTurn(s) /\ phase' = phase
<1>0. shores \in Seq(Shores) /\ Registered \subseteq Shores
  BY ShoresTyped DEF ConnsOK
<1>1. CASE UNCHANGED vars
  BY <1>1 DEF vars, ferryVars
<1>2. ASSUME NEW s \in Shores, RegisterShore(s) \/ BreakerTimeout(s)
      PROVE  BreakerTurn(s) /\ phase' = phase
  BY <1>2, Zenon DEF BreakerTurn, RegisterShore, BreakerTimeout
<1>3. ASSUME NEW s \in Shores, DeregisterShore(s) \/ HealthCheck(s)
      PROVE  UNCHANGED <<breakers, probesOK, phase>>
  BY <1>3 DEF DeregisterShore, HealthCheck, ferryVars
<1>4. CASE Start \/ Close \/ Stopped \/ Cleanup
  BY <1>4, Zenon DEF Start, Close, Stopped, Cleanup, vars, ferryVars
<1>5. ASSUME NEW k \in RateKeys, Refill(k)
      PROVE  UNCHANGED <<breakers, probesOK, phase>>
  BY <1>5 DEF Refill
<1>6. ASSUME NEW r \in Requests,
             \/ CrossLimit(r) \/ CrossTouchLimiter(r) \/ CrossCreateLimiter(r) \/ CrossTake(r)
             \/ CrossSelect(r) \/ CrossAborted(r) \/ CrossCancelled(r) \/ NextRequest(r)
      PROVE  UNCHANGED <<breakers, probesOK, phase>>
  BY <1>6, Zenon DEF CrossLimit, CrossTouchLimiter, CrossCreateLimiter, CrossTake, CrossSelect,
              CrossAborted, CrossCancelled, NextRequest
<1>7. ASSUME NEW r \in Requests, CrossAttempt(r) \/ CrossReply(r) \/ CrossRetry(r)
      PROVE  phase' = phase /\ ( \/ UNCHANGED <<breakers, probesOK>>
                                 \/ \E s \in Shores : BreakerTurn(s) )
  <2>0. phase' = phase /\ call[r].pc \in {"check", "inflight", "backoff"}
    BY <1>7, Zenon DEF CrossAttempt, CrossReply, CrossRetry
  <2>1. phase # "config"
    BY <2>0 DEF ConnsOK
  <2>2. CASE CrossAttempt(r)
    BY <1>0, <2>0, <2>1, <2>2, Zenon DEF CrossAttempt, BreakerTurn
  <2>3. CASE CrossReply(r)
    BY <1>0, <2>0, <2>1, <2>3, Zenon DEF CrossReply, BreakerTurn
  <2>4. CASE CrossRetry(r)
    <3>1. CASE UNCHANGED <<breakers, probesOK>>
      BY <2>0, <3>1
    <3>2. CASE \E i \in Fallbacks(r) : BreakerAllow(shores[i])
      <4>1. PICK i \in Fallbacks(r) : BreakerAllow(shores[i])
        BY <3>2
      <4>2. shores[i] \in Shores
        BY <1>0 DEF Fallbacks
      <4>. QED BY <2>0, <2>1, <4>1, <4>2, Zenon DEF BreakerTurn
    <3>. QED BY <2>4, <3>1, <3>2, Zenon DEF CrossRetry
  <2>. QED BY <1>7, <2>2, <2>3, <2>4
<1>8. (\E s \in Shores : BreakerTurn(s) /\ phase' = phase) \/ UNCHANGED <<breakers, probesOK, phase>>
      \/ (Start \/ Close \/ Stopped \/ Cleanup)
  BY <1>1, <1>2, <1>3, <1>5, <1>6, <1>7, Zenon DEF Next, CrossStep, vars, ferryVars
<1>. QED BY <1>4, <1>8

(* The breaker of s moves; a half-open one that closes had its successes. *)
LEMMA ProbeTurn ==
  ASSUME BreakersOK, NEW s \in Shores, BreakerTurn(s), phase' = phase
  PROVE  /\ breakers' = [t \in Shores |-> breakers'[t]] /\ probesOK' \in [Shores -> Nat]
         /\ \A t \in Shores \ {s} : breakers'[t] = breakers[t] /\ probesOK'[t] = probesOK[t]
         /\ ProbeOK(s)'
         /\ breakers[s].state = "half-open" /\ breakers'[s].state = "closed" =>
              probesOK'[s] = HalfOpenRequests
<1>0. /\ breakers = [t \in Shores |-> breakers[t]] /\ probesOK \in [Shores -> Nat]
      /\ HalfOpenRequests \in Nat \ {0} /\ probesOK[s] \in Nat
  BY BreakerAssumption DEF BreakersOK
<1>1. ProbeOK(s)
  BY DEF BreakersOK, ProbeOK
<1>2. BreakerOK(breakers[s])
  BY <1>1 DEF ProbeOK
<1>. DEFINE new == breakers'[s]
<1>3. \A x : breakers' = [breakers EXCEPT ![s] = x] =>
        /\ breakers' = [t \in Shores |-> breakers'[t]] /\ new = x
        /\ \A t \in Shores \ {s} : breakers'[t] = breakers[t]
  BY <1>0
<1>4. CASE breakers' = [breakers EXCEPT ![s] = NewCircuitBreaker] /\ phase = "config" /\ probesOK' = probesOK
  <2>1. new = NewCircuitBreaker /\ breakers[s].state = "closed"
    BY <1>1, <1>3, <1>4, Zenon DEF ProbeOK
  <2>2. BreakerOK(new) /\ new.state = "closed"
    BY <2>1, NewBreakerOK
  <2>. QED BY <1>0, <1>3, <1>4, <2>1, <2>2 DEF ProbeOK
<1>5. CASE breakers' = [breakers EXCEPT ![s] = Elapse(@)] /\ probesOK' = probesOK
  <2>1. BreakerOK(new) /\ new.state = breakers[s].state /\ new.successes = breakers[s].successes
    BY <1>2, <1>3, <1>5, ElapseOK DEF Elapse, BreakerOK, Breaker
  <2>. QED BY <1>0, <1>1, <1>3, <1>5, <2>1 DEF ProbeOK
<1>6. CASE BreakerAllow(s) /\ phase # "config"
  <2>0. breakers' = [breakers EXCEPT ![s] = Allow(breakers[s])]
    BY <1>6 DEF BreakerAllow
  <2>1. new = Allow(breakers[s])
    BY <1>3, <2>0, Zenon
  <2>2. /\ BreakerOK(new) /\ (new.state = "closed" <=> breakers[s].state = "closed")
        /\ new.successes = breakers[s].successes
        /\ new.state = "half-open" =>
             breakers[s].state = "half-open" \/ (breakers[s].state = "open" /\ breakers[s].elapsed)
    BY <1>2, <2>1, AllowOK
  <2>3. probesOK' = IF breakers[s].state = "open" /\ breakers[s].elapsed
                      THEN [probesOK EXCEPT ![s] = 0] ELSE probesOK
    BY <1>6 DEF BreakerAllow
  <2>4. /\ probesOK' \in [Shores -> Nat] /\ probesOK'[s] \in Nat
        /\ \A t \in Shores \ {s} : probesOK'[t] = probesOK[t]
    BY <1>0, <2>3
  <2>5. new.state = "half-open" => new.successes = probesOK'[s]
    BY <1>0, <1>1, <1>2, <2>2, <2>3 DEF ProbeOK, BreakerOK
  <2>. QED BY <1>3, <1>6, <2>0, <2>2, <2>4, <2>5, Zenon DEF ProbeOK
<1>7. CASE /\ breakers' = [breakers EXCEPT ![s] = RecordSuccess(@)] /\ phase # "config"
           /\ probesOK' = [probesOK EXCEPT ![s] = IF @ < HalfOpenRequests THEN @ + 1 ELSE @]
  <2>1. new = RecordSuccess(breakers[s])
    BY <1>3, <1>7, Zenon
  <2>2. /\ BreakerOK(new)
        /\ new.state = "half-open" =>
             breakers[s].state = "half-open" /\ new.successes = breakers[s].successes + 1
        /\ breakers[s].state = "half-open" /\ new.state = "closed" =>
             breakers[s].successes + 1 = HalfOpenRequests
    BY <1>2, <2>1, RecordSuccessOK
  <2>3. /\ probesOK' \in [Shores -> Nat] /\ probesOK'[s] \in Nat
        /\ \A t \in Shores \ {s} : probesOK'[t] = probesOK[t]
        /\ probesOK[s] < HalfOpenRequests => probesOK'[s] = probesOK[s] + 1
    BY <1>0, <1>7
  <2>4. breakers[s].state = "half-open" =>
          breakers[s].successes = probesOK[s] /\ probesOK[s] < HalfOpenRequests
    BY <1>1, <1>2 DEF ProbeOK, BreakerOK
  <2>. QED BY <1>3, <1>7, <2>2, <2>3, <2>4, Zenon DEF ProbeOK
<1>8. CASE breakers' = [breakers EXCEPT ![s] = RecordFailure(@)] /\ phase # "config" /\ probesOK' = probesOK
  <2>1. new = RecordFailure(breakers[s])
    BY <1>3, <1>8, Zenon
  <2>2. /\ BreakerOK(new) /\ new.state # "half-open"
        /\ new.state = "closed" => breakers[s].state = "closed"
    BY <1>2, <2>1, RecordFailureOK
  <2>. QED BY <1>0, <1>3, <1>8, <2>2 DEF ProbeOK
<1>. QED BY <1>4, <1>5, <1>6, <1>7, <1>8, Zenon DEF BreakerTurn

LEMMA BreakersKept ==
  ASSUME Shape, ConnsOK, BreakersOK, [Next]_vars
  PROVE  /\ BreakersOK'
         /\ \A s \in Shores : breakers[s].state = "half-open" /\ breakers'[s].state = "closed"
                                => probesOK'[s] = HalfOpenRequests
<1>1. CASE breakers' = breakers /\ probesOK' = probesOK
  <2>1. phase' = "config" => phase = "config"
    BY BreakerSteps
  <2>. QED BY <1>1, <2>1 DEF BreakersOK
<1>2. CASE \E s \in Shores : BreakerTurn(s) /\ phase' = phase
  <2>1. PICK s \in Shores : BreakerTurn(s) /\ phase' = phase
    BY <1>2
  <2>2. /\ breakers' = [t \in Shores |-> breakers'[t]] /\ probesOK' \in [Shores -> Nat]
        /\ \A t \in Shores \ {s} : breakers'[t] = breakers[t] /\ probesOK'[t] = probesOK[t]
        /\ ProbeOK(s)'
        /\ breakers[s].state = "half-open" /\ breakers'[s].state = "closed" =>
             probesOK'[s] = HalfOpenRequests
    BY <2>1, ProbeTurn
  <2>3. ASSUME NEW t \in Shores
        PROVE  ProbeOK(t)'
    <3>1. CASE t = s
      BY <2>2, <3>1
    <3>2. CASE t # s
      <4>1. ProbeOK(t)
        BY DEF BreakersOK, ProbeOK
      <4>. QED BY <2>1, <2>2, <3>2, <4>1 DEF ProbeOK
    <3>. QED BY <3>1, <3>2
  <2>4. BreakersOK'
    BY <2>2, <2>3 DEF BreakersOK, ProbeOK
  <2>. QED BY <2>2, <2>4
<1>. QED BY <1>1, <1>2, BreakerSteps

-----------------------------------------------------------------------------
(* A key's requests stay within its tokens.                                *)

LEMMA BurstInterval == IsFiniteSet(1..Burst) /\ Cardinality(1..Burst) = Burst
<1>1. Burst \in Nat
  BY FerryAssumption
<1>. QED BY <1>1, FS_Interval

LEMMA TokensFinite ==
  ASSUME NEW k
  PROVE  IsFiniteSet(Tokens(k)) /\ Cardinality(Tokens(k)) \in Nat
<1>. DEFINE All == Requests \X (1..Burst)
<1>1. IsFiniteSet(All)
  <2>1. IsFiniteSet(Requests)
    BY FerryAssumption
  <2>. QED BY <2>1, BurstInterval, FS_Product, Zenon
<1>2. Tokens(k) \subseteq All
  BY DEF Tokens
<1>. HIDE DEF All
<1>. QED BY <1>1, <1>2, FS_Subset, FS_CardinalityType

LEMMA TokenIn ==
  ASSUME NEW k, NEW b \in Requests, NEW n \in 1..Burst, b \in Buckets(k), n <= tokens[b]
  PROVE  <<b, n>> \in Tokens(k)
  BY DEF Tokens

LEMMA TokensWithin ==
  ASSUME NEW k, NEW S,
         \A b \in Requests, n \in 1..Burst :
           b \in Buckets(k)' /\ n <= tokens'[b] => <<b, n>> \in S
  PROVE  Tokens(k)' \subseteq S
  BY DEF Tokens

LEMMA TokensShrink ==
  ASSUME NEW k, NEW S, IsFiniteSet(S), Tokens(k)' \subseteq S
  PROVE  Cardinality(Tokens(k)') \in Nat /\ Cardinality(Tokens(k)') <= Cardinality(S)
<1>1. PICK T : T = Tokens(k)'
  BY Zenon
<1>2. T \in SUBSET S
  BY <1>1, Zenon
<1>3. IsFiniteSet(T) /\ Cardinality(T) <= Cardinality(S)
  BY <1>2, FS_Subset, Zenon
<1>4. Cardinality(T) \in Nat
  BY <1>3, FS_CardinalityType, Zenon
<1>. QED BY <1>1, <1>3, <1>4, Zenon

(* The tokens grow by d at most, and the budget by d. *)
LEMMA EnoughStep ==
  ASSUME NEW k \in RateKeys, NEW d \in Int, Enough(k), Burst \in Nat, budget[k] \in Int,
         Cardinality(Tokens(k)') \in Nat, Cardinality(Tokens(k)') <= Cardinality(Tokens(k)) + d,
         Reserve(k)' = Reserve(k), budget'[k] = budget[k] + d
  PROVE  Enough(k)'
<1>1. Cardinality(Tokens(k)) \in Nat
  BY TokensFinite, Zenon
<1>2. Reserve(k) \in Nat
  BY DEF Reserve
<1>3. Cardinality(Tokens(k)) + Reserve(k) <= budget[k]
  BY Zenon DEF Enough
<1>4. Cardinality(Tokens(k)') + Reserve(k)' <= budget'[k]
  BY <1>1, <1>2, <1>3
<1>. QED BY <1>4, Zenon DEF Enough

LEMMA BucketsOwned ==
  ASSUME Owned, NEW k \in RateKeys, NEW b \in Buckets(k)
  PROVE  b \in Requests /\ RateKeyOf(b) = k
<1>1. CASE b = limiters[k]
  BY <1>1, Zenon DEF Owned, Buckets
<1>2. CASE \E r \in Drawing(k) : b = call[r].bucket
  BY <1>2 DEF Owned, Drawing
<1>. QED BY <1>1, <1>2 DEF Buckets

(* What a step of request r does to the buckets requests draw on. *)
DrawTurn(r) ==
  call'[r].pc \in {"touch", "take"} =>
    \/ call[r].pc \in {"touch", "take"} /\ call'[r].bucket = call[r].bucket
    \/ call'[r].bucket = limiters'[RateKeyOf(r)] /\ limiters'[RateKeyOf(r)] # NoBucket

LEMMA BucketsOfTurn ==
  ASSUME NEW r \in Requests, Only(r), DrawTurn(r), NEW k \in RateKeys
  PROVE  Buckets(k)' \subseteq (Buckets(k) \cup {limiters'[k]}) \ {NoBucket}
<1>1. SUFFICES ASSUME NEW b, b # NoBucket, NEW q \in Drawing(k)', b = call'[q].bucket, b # limiters'[k]
               PROVE  b \in Buckets(k)
  BY DEF Buckets
<1>2. q \in Requests /\ call'[q].pc \in {"touch", "take"} /\ RateKeyOf(q) = k
  BY DEF Drawing
<1>3. CASE q = r
  <2>1. call[r].pc \in {"touch", "take"} /\ call'[r].bucket = call[r].bucket
    BY <1>1, <1>2, <1>3 DEF DrawTurn
  <2>. QED BY <1>1, <1>2, <1>3, <2>1, Zenon DEF Buckets, Drawing
<1>4. CASE q # r
  <2>1. call'[q] = call[q]
    BY <1>2, <1>4, Zenon DEF Only
  <2>. QED BY <1>1, <1>2, <2>1, Zenon DEF Buckets, Drawing
<1>. QED BY <1>3, <1>4

LEMMA OwnedOfTurn ==
  ASSUME Owned, NEW r \in Requests, Only(r), DrawTurn(r),
         limiters' \in [RateKeys -> Requests \cup {NoBucket}], tokens' \in [Requests -> 0..Burst],
         \A k \in RateKeys : limiters'[k] # NoBucket => RateKeyOf(limiters'[k]) = k
  PROVE  Owned'
<1>1. SUFFICES ASSUME NEW q \in Requests, call'[q].pc \in {"touch", "take"}
               PROVE  call'[q].bucket \in Requests /\ RateKeyOf(call'[q].bucket) = RateKeyOf(q)
  BY Zenon DEF Owned
<1>2. CASE q # r
  BY <1>1, <1>2, Zenon DEF Only, Owned
<1>3. CASE q = r
  <2>1. RateKeyOf(r) \in RateKeys
    BY FerryAssumption
  <2>. QED BY <1>1, <1>3, <2>1, Zenon DEF DrawTurn, Owned
<1>. QED BY <1>2, <1>3

LEMMA EnoughSame ==
  ASSUME NEW k \in RateKeys, BudgetOK, Tokens(k)' \subseteq Tokens(k),
         limiters'[k] = limiters[k], budget'[k] = budget[k]
  PROVE  Enough(k)'
<1>1. Cardinality(Tokens(k)') \in Nat /\ Cardinality(Tokens(k)') <= Cardinality(Tokens(k))
  BY TokensFinite, TokensShrink, Zenon
<1>2. Cardinality(Tokens(k)) \in Nat
  BY TokensFinite, Zenon
<1>3. Enough(k) /\ budget[k] \in Int /\ Burst \in Nat
  BY FerryAssumption DEF BudgetOK
<1>4. Reserve(k)' = Reserve(k)
  BY Zenon DEF Reserve
<1>5. Cardinality(Tokens(k)') <= Cardinality(Tokens(k)) + 0 /\ budget'[k] = budget[k] + 0 /\ 0 \in Int
  BY <1>1, <1>2, <1>3
<1>. QED BY <1>1, <1>3, <1>4, <1>5, EnoughStep, Zenon

(* Nothing of the limiter changes, or a request gives its bucket up. *)
LEMMA EnoughShrinks ==
  ASSUME NEW k \in RateKeys, BudgetOK, Buckets(k)' \subseteq Buckets(k),
         tokens' = tokens, limiters'[k] = limiters[k], budget'[k] = budget[k]
  PROVE  Enough(k)'
<1>1. Tokens(k)' \subseteq Tokens(k)
  BY Zenon DEF Tokens
<1>. QED BY <1>1, EnoughSame, Zenon

(* Another key's tokens do not count here. *)
LEMMA EnoughElsewhere ==
  ASSUME NEW k \in RateKeys, BudgetOK, Buckets(k)' \subseteq Buckets(k),
         limiters'[k] = limiters[k], budget'[k] = budget[k],
         NEW b, RateKeyOf(b) # k, \A c \in Requests : c # b => tokens'[c] = tokens[c]
  PROVE  Enough(k)'
<1>1. b \notin Buckets(k)
  BY BucketsOwned, Zenon DEF BudgetOK
<1>2. \A c \in Requests, n \in 1..Burst :
        c \in Buckets(k)' /\ n <= tokens'[c] => <<c, n>> \in Tokens(k)
  BY <1>1, TokenIn, Zenon
<1>3. Tokens(k)' \subseteq Tokens(k)
  BY <1>2, TokensWithin, Zenon
<1>. QED BY <1>3, EnoughSame, Zenon

(* A request that takes no token and creates no bucket. *)
LEMMA BudgetOfTurn ==
  ASSUME BudgetOK, NEW r \in Requests, Only(r), DrawTurn(r), UNCHANGED <<limiters, tokens, budget>>
  PROVE  BudgetOK'
<1>1. Owned'
  BY OwnedOfTurn, Zenon DEF BudgetOK, Owned
<1>2. ASSUME NEW k \in RateKeys
      PROVE  Enough(k)'
  <2>1. Buckets(k)' \subseteq (Buckets(k) \cup {limiters[k]}) \ {NoBucket}
    BY BucketsOfTurn
  <2>2. Buckets(k)' \subseteq Buckets(k)
    BY <2>1 DEF Buckets
  <2>. QED BY <2>2, EnoughShrinks, Zenon
<1>. QED BY <1>1, <1>2 DEF BudgetOK

LEMMA BudgetRest ==
  ASSUME BudgetOK, UNCHANGED <<call, limiters, tokens, budget>>
  PROVE  BudgetOK'
<1>1. Owned'
  BY DEF BudgetOK, Owned
<1>2. ASSUME NEW k \in RateKeys
      PROVE  Enough(k)'
  <2>1. Buckets(k)' \subseteq Buckets(k)
    BY DEF Buckets, Drawing
  <2>. QED BY <2>1, EnoughShrinks
<1>. QED BY <1>1, <1>2 DEF BudgetOK

(* rate.Limiter.Allow: one token of the bucket goes, and one of the budget. *)
LEMMA BudgetTake ==
  ASSUME BudgetOK, NEW r \in Requests, Only(r), call[r].pc = "take", call'[r].pc = "select",
         TakeToken(call[r].bucket), budget' = [budget EXCEPT ![RateKeyOf(r)] = @ - 1]
  PROVE  BudgetOK'
<1>. DEFINE key == RateKeyOf(r)
            b == call[r].bucket
<1>0. /\ key \in RateKeys /\ b \in Requests /\ RateKeyOf(b) = key /\ budget \in [RateKeys -> Int]
      /\ tokens \in [Requests -> 0..Burst] /\ Burst \in Nat
  BY FerryAssumption, Zenon DEF BudgetOK, Owned
<1>1. /\ tokens[b] > 0 /\ tokens' = [tokens EXCEPT ![b] = tokens[b] - 1] /\ limiters' = limiters
      /\ budget' = [budget EXCEPT ![key] = budget[key] - 1]
  BY DEF TakeToken
<1>2. DrawTurn(r)
  BY DEF DrawTurn
<1>3. tokens[b] \in 1..Burst /\ tokens' \in [Requests -> 0..Burst] /\ budget' \in [RateKeys -> Int]
  <2>1. tokens[b] \in 1..Burst /\ tokens[b] - 1 \in 0..Burst
    BY <1>0, <1>1
  <2>2. tokens' \in [Requests -> 0..Burst]
    BY <1>0, <1>1, <2>1
  <2>3. budget[key] - 1 \in Int
    BY <1>0
  <2>. QED BY <1>0, <1>1, <2>1, <2>2, <2>3
<1>4. Owned'
  BY <1>1, <1>2, <1>3, OwnedOfTurn, Zenon DEF BudgetOK, Owned
<1>5. ASSUME NEW k \in RateKeys
      PROVE  Buckets(k)' \subseteq Buckets(k)
  <2>1. Buckets(k)' \subseteq (Buckets(k) \cup {limiters[k]}) \ {NoBucket}
    BY <1>1, <1>2, BucketsOfTurn, Zenon
  <2>. QED BY <2>1, Zenon DEF Buckets
<1>6. ASSUME NEW k \in RateKeys, k # key
      PROVE  Enough(k)'
  <2>1. /\ budget'[k] = budget[k] /\ limiters'[k] = limiters[k]
        /\ \A c \in Requests : c # b => tokens'[c] = tokens[c]
    BY <1>0, <1>1, <1>6, Zenon
  <2>. QED BY <1>0, <1>5, <1>6, <2>1, EnoughElsewhere, Zenon
<1>7. Enough(key)'
  <2>0. PICK p : p = <<b, tokens[b]>>
    BY Zenon
  <2>1. p \in Tokens(key)
    <3>1. b \in Buckets(key)
      BY <1>0, FerryAssumption, Zenon DEF Buckets, Drawing
    <3>2. tokens[b] <= tokens[b]
      BY <1>3
    <3>. QED BY <1>0, <1>3, <2>0, <3>1, <3>2, TokenIn, Zenon
  <2>2. ASSUME NEW c \in Requests, NEW n \in 1..Burst, c \in Buckets(key)', n <= tokens'[c]
        PROVE  <<c, n>> \in Tokens(key) \ {p}
    <3>1. c \in Buckets(key)
      BY <1>0, <1>5, <2>2, Zenon
    <3>2. n <= tokens[c] /\ (c = b => n # tokens[b])
      <4>1. tokens[c] \in 0..Burst /\ tokens'[c] = IF c = b THEN tokens[b] - 1 ELSE tokens[c]
        BY <1>0, <1>1, Zenon
      <4>. QED BY <2>2, <4>1
    <3>3. <<c, n>> \in Tokens(key)
      BY <3>1, <3>2, TokenIn, Zenon
    <3>4. <<c, n>> # p
      BY <2>0, <3>2
    <3>. QED BY <3>3, <3>4, Zenon
  <2>3. Tokens(key)' \subseteq Tokens(key) \ {p}
    BY <2>2, TokensWithin, Zenon
  <2>4. Cardinality(Tokens(key) \ {p}) = Cardinality(Tokens(key)) - 1 /\ IsFiniteSet(Tokens(key) \ {p})
    BY <2>1, TokensFinite, FS_RemoveElement, Zenon
  <2>5. Cardinality(Tokens(key)') <= Cardinality(Tokens(key)) - 1 /\ Cardinality(Tokens(key)') \in Nat
    BY <2>3, <2>4, TokensShrink, Zenon
  <2>6. Reserve(key)' = Reserve(key)
    BY <1>1, Zenon DEF Reserve
  <2>7. Enough(key) /\ budget[key] \in Int /\ Cardinality(Tokens(key)) \in Nat
    BY <1>0, TokensFinite DEF BudgetOK
  <2>8. /\ -1 \in Int /\ budget'[key] = budget[key] + (-1)
        /\ Cardinality(Tokens(key)') <= Cardinality(Tokens(key)) + (-1)
    <3>1. budget'[key] = budget[key] - 1
      BY <1>0, <1>1, Zenon
    <3>. QED BY <2>5, <2>7, <3>1
  <2>. QED BY <1>0, <2>5, <2>6, <2>7, <2>8, EnoughStep, Zenon
<1>. QED BY <1>3, <1>4, <1>6, <1>7, Zenon DEF BudgetOK

(* Time gives one token back to the bucket in use, and one to the budget. *)
LEMMA BudgetRefill ==
  ASSUME BudgetOK, NEW key \in RateKeys, Refill(key)
  PROVE  BudgetOK'
<1>. DEFINE b == limiters[key]
<1>0. /\ b \in Requests /\ RateKeyOf(b) = key /\ budget \in [RateKeys -> Int]
      /\ tokens \in [Requests -> 0..Burst] /\ Burst \in Nat /\ tokens[b] < Burst
      /\ tokens' = [tokens EXCEPT ![b] = tokens[b] + 1]
      /\ budget' = [budget EXCEPT ![key] = budget[key] + 1]
      /\ limiters' = limiters /\ call' = call
  BY FerryAssumption, Zenon DEF BudgetOK, Owned, Refill
<1>1. tokens' \in [Requests -> 0..Burst] /\ budget' \in [RateKeys -> Int]
  BY <1>0
<1>2. Owned'
  BY <1>0, <1>1, Zenon DEF BudgetOK, Owned
<1>3. ASSUME NEW k \in RateKeys
      PROVE  Buckets(k)' = Buckets(k)
  BY <1>0 DEF Buckets, Drawing
<1>4. ASSUME NEW k \in RateKeys, k # key
      PROVE  Enough(k)'
  <2>1. /\ budget'[k] = budget[k] /\ limiters'[k] = limiters[k]
        /\ \A c \in Requests : c # b => tokens'[c] = tokens[c]
    BY <1>0, <1>4
  <2>. QED BY <1>0, <1>3, <1>4, <2>1, EnoughElsewhere
<1>5. Enough(key)'
  <2>0. PICK p : p = <<b, tokens[b] + 1>>
    BY Zenon
  <2>1. ASSUME NEW c \in Requests, NEW n \in 1..Burst, c \in Buckets(key)', n <= tokens'[c]
        PROVE  <<c, n>> \in Tokens(key) \cup {p}
    <3>1. c \in Buckets(key)
      BY <1>3, <2>1, Zenon
    <3>2. tokens[c] \in 0..Burst /\ tokens'[c] = IF c = b THEN tokens[b] + 1 ELSE tokens[c]
      BY <1>0, Zenon
    <3>3. n <= tokens[c] \/ (c = b /\ n = tokens[b] + 1)
      BY <2>1, <3>2
    <3>. QED BY <2>0, <3>1, <3>3, TokenIn, Zenon
  <2>2. Tokens(key)' \subseteq Tokens(key) \cup {p}
    BY <2>1, TokensWithin, Zenon
  <2>3. IsFiniteSet(Tokens(key)) /\ Cardinality(Tokens(key)) \in Nat
    BY TokensFinite, Zenon
  <2>4. /\ IsFiniteSet(Tokens(key) \cup {p})
        /\ Cardinality(Tokens(key) \cup {p}) =
             IF p \in Tokens(key) THEN Cardinality(Tokens(key)) ELSE Cardinality(Tokens(key)) + 1
    BY <2>3, FS_AddElement, Zenon
  <2>5. Cardinality(Tokens(key)') \in Nat /\ Cardinality(Tokens(key)') <= Cardinality(Tokens(key) \cup {p})
    BY <2>2, <2>4, TokensShrink, Zenon
  <2>6. Cardinality(Tokens(key)') <= Cardinality(Tokens(key)) + 1 /\ 1 \in Int
    BY <2>3, <2>4, <2>5
  <2>7. Reserve(key)' = Reserve(key)
    BY <1>0, Zenon DEF Reserve
  <2>8. Enough(key) /\ budget[key] \in Int /\ budget'[key] = budget[key] + 1
    BY <1>0, Zenon DEF BudgetOK
  <2>. QED BY <1>0, <2>5, <2>6, <2>7, <2>8, EnoughStep, Zenon
<1>. QED BY <1>1, <1>2, <1>4, <1>5 DEF BudgetOK

(* The creation under the write lock: a new bucket draws on the key's       *)
(* reserve, and the second look leaves a bucket that is there alone.        *)
LEMMA BudgetCreate ==
  ASSUME BudgetOK, NEW r \in Requests, Only(r), DrawTurn(r), CreateLimiter(RateKeyOf(r), r),
         budget' = budget
  PROVE  BudgetOK'
<1>. DEFINE key == RateKeyOf(r)
<1>0. /\ key \in RateKeys /\ budget \in [RateKeys -> Int] /\ Burst \in Nat /\ NoBucket \notin Requests
      /\ tokens \in [Requests -> 0..Burst] /\ limiters \in [RateKeys -> Requests \cup {NoBucket}]
  BY FerryAssumption, Zenon DEF BudgetOK, Owned
<1>1. CASE limiters[key] # NoBucket
  BY <1>1, BudgetOfTurn DEF CreateLimiter
<1>2. CASE limiters[key] = NoBucket
  <2>1. tokens' = [tokens EXCEPT ![r] = Burst] /\ limiters' = [limiters EXCEPT ![key] = r]
    BY <1>2 DEF CreateLimiter
  <2>2. /\ tokens' \in [Requests -> 0..Burst] /\ limiters' \in [RateKeys -> Requests \cup {NoBucket}]
        /\ limiters'[key] = r /\ \A k \in RateKeys : k # key => limiters'[k] = limiters[k]
        /\ \A c \in Requests : c # r => tokens'[c] = tokens[c]
    BY <1>0, <2>1
  <2>3. \A k \in RateKeys : limiters'[k] # NoBucket => RateKeyOf(limiters'[k]) = k
    BY <2>2, Zenon DEF BudgetOK, Owned
  <2>4. Owned'
    BY <2>2, <2>3, OwnedOfTurn, Zenon DEF BudgetOK
  <2>5. ASSUME NEW k \in RateKeys, k # key
        PROVE  Enough(k)'
    <3>1. Buckets(k)' \subseteq (Buckets(k) \cup {limiters[k]}) \ {NoBucket}
      BY <2>2, <2>5, BucketsOfTurn
    <3>2. Buckets(k)' \subseteq Buckets(k)
      BY <3>1 DEF Buckets
    <3>. QED BY <2>2, <2>5, <3>2, EnoughElsewhere
  <2>6. Enough(key)'
    <3>. DEFINE N == {r} \X (1..Burst)
    <3>1. Buckets(key)' \subseteq Buckets(key) \cup {r}
      BY <1>0, <2>2, BucketsOfTurn
    <3>2. Tokens(key)' \subseteq Tokens(key) \cup N
      <4>1. ASSUME NEW x \in Tokens(key)', x \notin N
            PROVE  x \in Tokens(key)
        <5>1. /\ x \in Requests \X (1..Burst) /\ x[1] \in Buckets(key) \cup {r}
              /\ x[2] <= tokens'[x[1]]
          BY <3>1 DEF Tokens
        <5>2. x[1] # r
          BY <4>1, <5>1
        <5>3. tokens'[x[1]] = tokens[x[1]]
          BY <2>2, <5>1, <5>2
        <5>. QED BY <5>1, <5>2, <5>3 DEF Tokens
      <4>. QED BY <4>1
    <3>3. IsFiniteSet(N) /\ Cardinality(N) = Burst
      <4>1. IsFiniteSet({r}) /\ Cardinality({r}) = 1
        BY FS_Singleton, Zenon
      <4>2. IsFiniteSet(1..Burst) /\ Cardinality(1..Burst) = Burst
        BY BurstInterval
      <4>3. IsFiniteSet(N) /\ Cardinality(N) = Cardinality({r}) * Cardinality(1..Burst)
        BY <4>1, <4>2, FS_Product, Zenon
      <4>. QED BY <1>0, <4>1, <4>2, <4>3
    <3>. HIDE DEF N
    <3>4. /\ IsFiniteSet(Tokens(key) \cup N)
          /\ Cardinality(Tokens(key) \cup N) <= Cardinality(Tokens(key)) + Burst
      <4>1. IsFiniteSet(Tokens(key) \cap N) /\ Cardinality(Tokens(key) \cap N) \in Nat
        BY TokensFinite, FS_Subset, FS_CardinalityType
      <4>2. IsFiniteSet(Tokens(key)) /\ Cardinality(Tokens(key)) \in Nat
        BY TokensFinite
      <4>3. /\ IsFiniteSet(Tokens(key) \cup N)
            /\ Cardinality(Tokens(key) \cup N) =
                 Cardinality(Tokens(key)) + Cardinality(N) - Cardinality(Tokens(key) \cap N)
        BY <3>3, <4>2, FS_Union, Zenon
      <4>. QED BY <1>0, <3>3, <4>1, <4>2, <4>3
    <3>5. /\ Cardinality(Tokens(key)') <= Cardinality(Tokens(key)) + Burst
          /\ Cardinality(Tokens(key)') \in Nat
      <4>1. IsFiniteSet(Tokens(key)') /\ Cardinality(Tokens(key)') <= Cardinality(Tokens(key) \cup N)
        BY <3>2, <3>4, FS_Subset
      <4>. QED BY <1>0, <3>4, <4>1, TokensFinite, FS_CardinalityType
    <3>6. Reserve(key)' = 0 /\ Reserve(key) = Burst
      BY <1>0, <1>2, <2>2 DEF Reserve
    <3>7. Enough(key) /\ budget[key] \in Int
      BY <1>0 DEF BudgetOK
    <3>. QED BY <1>0, <3>5, <3>6, <3>7, TokensFinite DEF Enough
  <2>. QED BY <1>0, <2>4, <2>5, <2>6 DEF BudgetOK
<1>. QED BY <1>1, <1>2

(* A tick of the cleanup loop: the buckets in use and those requests hold   *)
(* are full at most.                                                        *)
LEMMA BudgetCleanup ==
  ASSUME BudgetOK, Cleanup
  PROVE  BudgetOK'
<1>0. /\ Burst \in Nat /\ NoBucket \notin Requests /\ call' = call
      /\ tokens \in [Requests -> 0..Burst] /\ limiters \in [RateKeys -> Requests \cup {NoBucket}]
      /\ limiters' = [k \in RateKeys |-> IF idle[k] = 2 THEN NoBucket ELSE limiters[k]]
      /\ tokens' = [r \in Requests |->
                      IF r \in {limiters[k] : k \in RateKeys} THEN Burst ELSE tokens[r]]
      /\ budget' = [k \in RateKeys |-> Burst * (1 + Cardinality(Orphans(k)))]
  BY FerryAssumption DEF BudgetOK, Owned, Cleanup, CleanupLimiters
<1>1. tokens' \in [Requests -> 0..Burst] /\ limiters' \in [RateKeys -> Requests \cup {NoBucket}]
  BY <1>0
<1>2. \A k \in RateKeys : limiters'[k] # NoBucket => RateKeyOf(limiters'[k]) = k
  BY <1>0 DEF BudgetOK, Owned
<1>3. Owned'
  BY <1>0, <1>1, <1>2 DEF BudgetOK, Owned
<1>4. ASSUME NEW k \in RateKeys
      PROVE  Enough(k)' /\ budget'[k] \in Int
  <2>. DEFINE O == Orphans(k)
              l == limiters'[k]
              n == Cardinality(O)
  <2>1. O \subseteq Requests /\ l \notin O /\ l \in Requests \cup {NoBucket}
    BY <1>1 DEF Orphans, BudgetOK, Owned
  <2>2. Buckets(k)' = IF l = NoBucket THEN O ELSE O \cup {l}
    BY <1>0, <2>1 DEF Buckets, Drawing, Orphans
  <2>3. IsFiniteSet(O) /\ n \in Nat
    BY <2>1, FerryAssumption, FS_Subset, FS_CardinalityType, Zenon
  <2>4. budget'[k] = Burst * (1 + n)
    BY <1>0
  <2>. DEFINE B == Buckets(k)'
              m == IF l = NoBucket THEN n ELSE n + 1
  <2>5. IsFiniteSet(B) /\ Cardinality(B) = m
    <3>1. CASE l = NoBucket
      BY <2>2, <2>3, <3>1
    <3>2. CASE l # NoBucket
      <4>. HIDE DEF O, l
      <4>. QED BY <2>1, <2>2, <2>3, <3>2, FS_AddElement
    <3>. QED BY <3>1, <3>2
  <2>6. Tokens(k)' \subseteq B \X (1..Burst)
    BY DEF Tokens
  <2>7. IsFiniteSet(B \X (1..Burst)) /\ Cardinality(B \X (1..Burst)) = m * Burst
    <3>. HIDE DEF B, m
    <3>1. IsFiniteSet(1..Burst) /\ Cardinality(1..Burst) = Burst
      BY BurstInterval
    <3>2. /\ IsFiniteSet(B \X (1..Burst))
          /\ Cardinality(B \X (1..Burst)) = Cardinality(B) * Cardinality(1..Burst)
      BY <2>5, <3>1, FS_Product, Zenon
    <3>. QED BY <2>5, <3>1, <3>2
  <2>8. Cardinality(Tokens(k)') <= m * Burst /\ Cardinality(Tokens(k)') \in Nat
    <3>. DEFINE P == B \X (1..Burst)
    <3>. HIDE DEF B, m, P
    <3>1. IsFiniteSet(P) /\ Cardinality(P) = m * Burst /\ Tokens(k)' \subseteq P
      BY <2>6, <2>7 DEF P
    <3>. QED BY <3>1, FS_Subset, FS_CardinalityType
  <2>9. Reserve(k)' = IF l = NoBucket THEN Burst ELSE 0
    BY DEF Reserve
  <2>10. m * Burst + (IF l = NoBucket THEN Burst ELSE 0) = Burst * (1 + n) /\ Burst * (1 + n) \in Int
    <3>. HIDE DEF n, l
    <3>. QED BY <1>0, <2>3
  <2>. HIDE DEF m, n, l
  <2>11. m * Burst \in Int
    BY <1>0, <2>3 DEF m
  <2>. QED BY <1>0, <2>4, <2>8, <2>9, <2>10, <2>11 DEF Enough
<1>5. budget' \in [RateKeys -> Int]
  BY <1>0, <1>4
<1>. QED BY <1>3, <1>4, <1>5 DEF BudgetOK

LEMMA BudgetKept ==
  ASSUME Shape, BudgetOK, [Next]_vars
  PROVE  BudgetOK'
<1>1. CASE UNCHANGED vars
  BY <1>1, BudgetRest DEF vars, ferryVars, limitVars
<1>2. ASSUME NEW s \in Shores,
             RegisterShore(s) \/ DeregisterShore(s) \/ BreakerTimeout(s) \/ HealthCheck(s)
      PROVE  UNCHANGED <<call, limiters, tokens, budget>>
  BY <1>2, Zenon DEF RegisterShore, DeregisterShore, BreakerTimeout, HealthCheck, ferryVars, limitVars
<1>3. CASE Start \/ Close \/ Stopped
  BY <1>3, BudgetRest, Zenon DEF Start, Close, Stopped, vars, ferryVars, limitVars
<1>4. ASSUME NEW r \in Requests,
             \/ CrossSelect(r) \/ CrossAttempt(r) \/ CrossReply(r) \/ CrossAborted(r)
             \/ CrossRetry(r) \/ CrossCancelled(r) \/ NextRequest(r)
      PROVE  BudgetOK'
  <2>1. UNCHANGED <<limiters, tokens, budget>>
    BY <1>4, Zenon DEF CrossSelect, CrossAttempt, CrossReply, CrossAborted, CrossRetry, CrossCancelled,
                NextRequest, limitVars
  <2>2. Only(r) /\ Turn(r)
    BY <1>4, SelectTurn, AttemptTurn, LateTurn, Zenon
  <2>3. call[r].pc \in {"select", "check", "inflight", "backoff", "done"}
    BY <1>4, Zenon DEF CrossSelect, CrossAttempt, CrossReply, CrossAborted, CrossRetry, CrossCancelled,
                NextRequest
  <2>4. CASE call[r].pc # "select"
    <3>1. DrawTurn(r)
      BY <2>2, <2>3, <2>4, Zenon DEF Turn, DrawTurn, Early
    <3>. QED BY <2>1, <2>2, <3>1, BudgetOfTurn
  <2>5. CASE call[r].pc = "select"
    <3>1. CrossSelect(r)
      BY <1>4, <2>5 DEF CrossAttempt, CrossReply, CrossAborted, CrossRetry, CrossCancelled, NextRequest
    <3>2. call'[r].pc \in {"done", "check"}
      BY <3>1, SelectPlace
    <3>3. DrawTurn(r)
      BY <3>2, Zenon DEF DrawTurn
    <3>. QED BY <2>1, <2>2, <3>3, BudgetOfTurn
  <2>. QED BY <2>4, <2>5
<1>5. ASSUME NEW r \in Requests, CrossLimit(r)
      PROVE  BudgetOK'
  <2>1. UNCHANGED <<limiters, tokens, budget>>
    BY <1>5 DEF CrossLimit, limitVars
  <2>2. CASE call' = [call EXCEPT ![r].pc = "select"] \/ call' = [call EXCEPT ![r].pc = "create"]
    <3>1. Only(r) /\ call'[r].pc \in {"select", "create"}
      BY <2>2, GotoEffect
    <3>2. DrawTurn(r)
      BY <3>1 DEF DrawTurn
    <3>. QED BY <2>1, <3>1, <3>2, BudgetOfTurn, Zenon
  <2>3. CASE /\ LookupLimiter(RateKeyOf(r)) # NoBucket
             /\ call' = [call EXCEPT ![r] = [@ EXCEPT !.pc = "touch", !.bucket = LookupLimiter(RateKeyOf(r))]]
    <3>1. PICK b : b = LookupLimiter(RateKeyOf(r))
      OBVIOUS
    <3>2. call' = [call EXCEPT ![r] = [@ EXCEPT !.pc = "touch", !.bucket = b]]
      BY <2>3, <3>1
    <3>3. Only(r) /\ call'[r].bucket = b
      BY <3>2, BucketEffect, Zenon
    <3>4. DrawTurn(r)
      BY <2>1, <2>3, <3>1, <3>3 DEF DrawTurn, LookupLimiter
    <3>. QED BY <2>1, <3>3, <3>4, BudgetOfTurn
  <2>. QED BY <1>5, <2>2, <2>3, Zenon DEF CrossLimit
<1>6. ASSUME NEW r \in Requests, CrossTouchLimiter(r)
      PROVE  BudgetOK'
  <2>1. /\ call[r].pc = "touch" /\ UNCHANGED <<limiters, tokens, budget>>
        /\ call' = [call EXCEPT ![r].pc = "take"]
    BY <1>6 DEF CrossTouchLimiter, TouchLimiter
  <2>2. Only(r) /\ call'[r].bucket = call[r].bucket
    BY <2>1, GotoEffect, Zenon DEF Same
  <2>3. DrawTurn(r)
    BY <2>1, <2>2 DEF DrawTurn
  <2>. QED BY <2>1, <2>2, <2>3, BudgetOfTurn
<1>7. ASSUME NEW r \in Requests, CrossCreateLimiter(r)
      PROVE  BudgetOK'
  <2>1. PICK b : b = limiters'[RateKeyOf(r)]
    OBVIOUS
  <2>2. /\ CreateLimiter(RateKeyOf(r), r) /\ budget' = budget
        /\ call' = [call EXCEPT ![r] = [@ EXCEPT !.pc = "take", !.bucket = b]]
    BY <1>7, <2>1 DEF CrossCreateLimiter
  <2>3. Only(r) /\ call'[r].bucket = b
    BY <2>2, BucketEffect, Zenon
  <2>4. b # NoBucket
    BY <2>1, <2>2, FerryAssumption DEF CreateLimiter, BudgetOK, Owned
  <2>5. DrawTurn(r)
    BY <2>1, <2>3, <2>4 DEF DrawTurn
  <2>. QED BY <2>2, <2>3, <2>5, BudgetCreate
<1>8. ASSUME NEW r \in Requests, CrossTake(r)
      PROVE  BudgetOK'
  <2>1. call[r].pc = "take"
    BY <1>8, Zenon DEF CrossTake
  <2>2. CASE /\ TakeToken(call[r].bucket) /\ call' = [call EXCEPT ![r].pc = "select"]
             /\ budget' = [budget EXCEPT ![RateKeyOf(r)] = @ - 1]
    <3>1. Only(r) /\ call'[r].pc = "select"
      BY <2>2, GotoEffect, Zenon
    <3>. QED BY <2>1, <2>2, <3>1, BudgetTake, Zenon
  <2>3. CASE NoToken(call[r].bucket) /\ Finish(r, ToHTTPError("rate limit exceeded")) /\ budget' = budget
    <3>1. Only(r) /\ DrawTurn(r)
      BY <2>3, FinishEffect, Zenon DEF DrawTurn
    <3>. QED BY <2>3, <3>1, BudgetOfTurn, Zenon DEF NoToken, limitVars
  <2>. QED BY <1>8, <2>2, <2>3, Zenon DEF CrossTake
<1>. QED BY <1>1, <1>2, <1>3, <1>4, <1>5, <1>6, <1>7, <1>8, BudgetRefill, BudgetCleanup, BudgetRest, Zenon
         DEF Next, CrossStep

-----------------------------------------------------------------------------
LEMMA FerryInit ==
  ASSUME Init
  PROVE  IInv
<1>. USE DEF Init, LimiterInit
<1>1. Shape
  BY Zenon DEF Shape, IsCall, NewCall
<1>2. \A r \in Requests : call[r].pc = "new"
  BY DEF NewCall
<1>3. ConnsOK
  <2>1. shores \in Seq(Shores) /\ conns \in [Shores -> Int] /\ config.shores \in Seq(Shores)
    BY FerryAssumption
  <2>2. Registered = {}
    BY DEF Registered, Members
  <2>. QED BY <1>2, <2>1, <2>2 DEF ConnsOK, ConnsMatch
<1>4. SentOK
  BY <1>2 DEF SentOK
<1>5. BreakersOK
  <2>1. \A s \in Shores : breakers[s] = NewCircuitBreaker
    OBVIOUS
  <2>2. breakers = [s \in Shores |-> breakers[s]] /\ probesOK \in [Shores -> Nat]
    OBVIOUS
  <2>. QED BY <2>1, <2>2, NewBreakerOK DEF BreakersOK
<1>6. BudgetOK
  <2>1. Owned
    BY <1>2, FerryAssumption DEF Owned
  <2>2. budget \in [RateKeys -> Int] /\ \A k \in RateKeys : budget[k] = Burst
    BY FerryAssumption
  <2>3. ASSUME NEW k \in RateKeys
        PROVE  Enough(k)
    <3>1. Buckets(k) = {}
      BY <1>2, Zenon DEF Buckets, Drawing
    <3>2. Tokens(k) = {}
      BY <3>1 DEF Tokens
    <3>3. Cardinality(Tokens(k)) = 0 /\ Reserve(k) = Burst
      BY <3>2, FS_EmptySet DEF Reserve
    <3>. QED BY <2>2, <3>3, FerryAssumption DEF Enough
  <2>. QED BY <2>1, <2>2, <2>3 DEF BudgetOK
<1>. QED BY <1>1, <1>3, <1>4, <1>5, <1>6 DEF IInv

LEMMA FerryStep ==
  ASSUME IInv, [Next]_vars
  PROVE  IInv'
<1>1. Shape /\ ConnsOK /\ SentOK /\ BreakersOK /\ BudgetOK /\ shores \in Seq(Shores)
  BY DEF IInv, ConnsOK
<1>. QED BY <1>1, SentKept, ConnsKept, BreakersKept, BudgetKept DEF IInv

LEMMA FerryInvariant == Spec => []IInv
<1>1. Init => IInv
  BY FerryInit
<1>2. IInv /\ [Next]_vars => IInv'
  BY FerryStep
<1>. QED BY <1>1, <1>2, PTL DEF Spec

(* The counter selectLeastConn compares is the number of requests in flight *)
(* to the shore, however they end: forwardRequest increments it and its     *)
(* deferred decrement runs on an answer, an error and a panic alike.        *)
THEOREM ConnectionsCounted == Spec => []ConnsMatch
<1>1. IInv => ConnsMatch
  BY DEF IInv, ConnsOK
<1>. QED BY <1>1, FerryInvariant, PTL

(* A retry goes to another backend: Cross marks a shore in triedShores       *)
(* before it sends, and retryWithFallback skips the marked ones.             *)
THEOREM RetriesElsewhere == Spec => NeverSentTwice
<1>1. IInv /\ [Next]_vars =>
        [\A r \in Requests :
           call[r].pc = "check" /\ call'[r].pc = "inflight" => call[r].shore \notin sent[r]]_vars
  BY FirstVisit DEF IInv
<1>. QED BY <1>1, FerryInvariant, PTL DEF Spec, NeverSentTwice

(* A half-open breaker closes only when RecordSuccess has counted            *)
(* HalfOpenRequests successes since Allow let the first test through, with   *)
(* any number of requests of earlier periods still to report.                *)
THEOREM BreakerClosesAfterProbes == Spec => ClosesAfterProbes
<1>1. IInv /\ [Next]_vars =>
        [\A s \in Shores :
           breakers[s].state = "half-open" /\ breakers'[s].state = "closed"
             => probesOK'[s] = HalfOpenRequests]_vars
  BY BreakersKept DEF IInv
<1>. QED BY <1>1, FerryInvariant, PTL DEF Spec, ClosesAfterProbes

(* A key never makes more requests than its bucket had tokens: of the        *)
(* requests that find no limiter in getLimiter one creates it, and the       *)
(* others meet it at the second look.                                        *)
THEOREM KeysWithinBudget == Spec => []WithinBudget
<1>1. IInv => WithinBudget
  <2>1. ASSUME IInv, NEW k \in RateKeys
        PROVE  budget[k] >= 0
    <3>1. Enough(k) /\ budget[k] \in Int
      BY <2>1 DEF IInv, BudgetOK
    <3>2. Reserve(k) \in Nat
      BY FerryAssumption DEF Reserve
    <3>. QED BY <3>1, <3>2, TokensFinite DEF Enough
  <2>. QED BY <2>1 DEF WithinBudget
<1>. QED BY <1>1, FerryInvariant, PTL

=============================================================================

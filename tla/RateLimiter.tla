---------------------------- MODULE RateLimiter -----------------------------
(* pkg/charon/rate_limiter.go: one token bucket per key.  getLimiter looks   *)
(* the key up under the read lock and creates a bucket under the write lock, *)
(* so a request that found no bucket may meet one when it comes to create    *)
(* it.  A bucket is named after the request that created it.                 *)
EXTENDS Naturals

CONSTANTS
  Requests,     \* the requests that reach the ferry
  RateKeys,     \* the keys keyFunc returns
  NoBucket,
  Burst         \* tokens of a new bucket

VARIABLES
  limiters,     \* [RateKeys -> Requests \cup {NoBucket}]  TokenBucketLimiter.limiters
  tokens,       \* [Requests -> 0..Burst]  the tokens of the bucket a request created
  idle          \* [RateKeys -> 0..2]  cleanup ticks since lastAccess

limitVars == <<limiters, tokens, idle>>

LimiterTypeOK ==
  /\ limiters \in [RateKeys -> Requests \cup {NoBucket}]
  /\ tokens \in [Requests -> 0..Burst]
  /\ idle \in [RateKeys -> 0..2]

LimiterInit ==
  /\ limiters = [k \in RateKeys |-> NoBucket]
  /\ tokens = [r \in Requests |-> 0]
  /\ idle = [k \in RateKeys |-> 0]

(* The lookup under the read lock: the bucket in use, or NoBucket. *)
LookupLimiter(k) == limiters[k]

MutCreateLimiter(k, r) ==
  /\ tokens' = [tokens EXCEPT ![r] = Burst]
  /\ limiters' = [limiters EXCEPT ![k] = r]
  /\ idle' = [idle EXCEPT ![k] = 0]

(* The creation under the write lock, with its second look at the map. *)
CreateLimiter(k, r) ==
  /\ IF limiters[k] = NoBucket
       THEN tokens' = [tokens EXCEPT ![r] = Burst] /\ limiters' = [limiters EXCEPT ![k] = r]
       ELSE UNCHANGED <<tokens, limiters>>
  /\ idle' = [idle EXCEPT ![k] = 0]

(* rate.Limiter.Allow takes a token of bucket b or refuses. *)
TakeToken(b) ==
  /\ tokens[b] > 0
  /\ tokens' = [tokens EXCEPT ![b] = @ - 1]
  /\ UNCHANGED <<limiters, idle>>

NoToken(b) == tokens[b] = 0 /\ UNCHANGED limitVars

(* The lastAccess of the entry that was found is refreshed under the write   *)
(* lock; the entry may have been dropped since.                              *)
TouchLimiter(k, b) ==
  /\ idle' = IF limiters[k] = b THEN [idle EXCEPT ![k] = 0] ELSE idle
  /\ UNCHANGED <<limiters, tokens>>

(* One tick of the cleanup loop, five minutes after the one before: the      *)
(* buckets are full again, and a key that two intervals did not touch loses  *)
(* its bucket.                                                               *)
CleanupLimiters ==
  /\ idle' = [k \in RateKeys |-> IF limiters[k] # NoBucket /\ idle[k] < 2 THEN idle[k] + 1 ELSE 0]
  /\ limiters' = [k \in RateKeys |-> IF idle[k] = 2 THEN NoBucket ELSE limiters[k]]
  /\ tokens' = [r \in Requests |-> IF r \in {limiters[k] : k \in RateKeys} THEN Burst ELSE tokens[r]]
=============================================================================

---------------------------- MODULE RateLimiter ----------------------------
(***************************************************************************)
(* The rate limiter of the middleware (middleware/middleware.go), which    *)
(* refills a client's tokens lazily, on its next request, and forgets a    *)
(* client that has been away for a while.                                  *)
(*                                                                         *)
(* Time passes in ticks; a tick earns Rate units and a request costs Cost  *)
(* units, which stand for the fractions of a token.                        *)
(***************************************************************************)
EXTENDS Integers

CONSTANTS
  Keys,             \* clients: "apikey:..." or an address
  Burst,            \* BurstSize, in requests
  Rate,             \* units that a tick earns
  Cost,             \* units that a request costs
  CleanupInterval   \* in ticks

ASSUME LimiterAssumption ==
  /\ Burst \in Nat \ {0} /\ Rate \in Nat /\ Cost \in Nat \ {0} /\ CleanupInterval \in Nat \ {0}
  \* as router.go:40 and DefaultRateLimiterConfig set it
  /\ CleanupInterval * Rate >= Burst * Cost

VARIABLES
  tokens,   \* key -> tokens of its clientInfo, in units; NoClient if it has none
  idle,     \* key -> ticks since lastUpdate, saturated when cleanup may forget it
  bucket    \* history: the bucket of a limiter that forgets no client and refills at each tick

limiterVars == <<tokens, idle, bucket>>

NoClient == -1
Full == Burst * Cost

LimiterInit ==
  /\ tokens = [k \in Keys |-> NoClient]
  /\ idle = [k \in Keys |-> 0]
  /\ bucket = [k \in Keys |-> Full]

----------------------------------------------------------------------------
Capped(n) == IF n > Full THEN Full ELSE n

Refilled_Unbounded(k) == tokens[k] + idle[k] * Rate
Refilled(k) == Capped(tokens[k] + idle[k] * Rate)

Allows(k) == tokens[k] = NoClient \/ Refilled(k) >= Cost

(* Allow, as RateLimit calls it: a new client starts with a full bucket;   *)
(* refused or not, a request stores the refill and the time.               *)
Allow(k) ==
  /\ tokens' = [tokens EXCEPT ![k] =
       LET held == IF @ = NoClient THEN Full ELSE Refilled(k)
       IN  IF Allows(k) THEN held - Cost ELSE held]
  /\ idle' = [idle EXCEPT ![k] = 0]
  /\ bucket' = IF Allows(k) THEN [bucket EXCEPT ![k] = @ - Cost] ELSE bucket

Expired(k) == idle[k] > CleanupInterval

cleanup ==
  /\ \E k \in Keys : tokens[k] # NoClient /\ Expired(k)
  /\ tokens' = [k \in Keys |-> IF Expired(k) THEN NoClient ELSE tokens[k]]
  /\ idle' = [k \in Keys |-> IF Expired(k) THEN 0 ELSE idle[k]]
  /\ UNCHANGED bucket

Tick ==
  /\ idle' = [k \in Keys |-> IF tokens[k] = NoClient \/ Expired(k) THEN idle[k] ELSE idle[k] + 1]
  /\ bucket' = [k \in Keys |-> Capped(bucket[k] + Rate)]
  /\ UNCHANGED tokens

LimiterNext == (\E k \in Keys : Allow(k)) \/ cleanup \/ Tick

LimiterSpec == LimiterInit /\ [][LimiterNext]_limiterVars

----------------------------------------------------------------------------
(* Forgetting a client and refilling it lazily are invisible               *)
(* (middleware.go:139, 148, 176): what the limiter would let a client do   *)
(* now is what a bucket that holds Burst requests and earns Rate at each   *)
(* tick would, so that no stretch of n ticks admits more than Burst        *)
(* requests and those that n ticks earn.                                   *)
LimiterIsBucket ==
  \A k \in Keys :
    bucket[k] = IF tokens[k] = NoClient THEN Full ELSE Refilled(k)
=============================================================================

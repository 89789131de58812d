----------------------------- MODULE RateLimit -----------------------------
(***************************************************************************)
(* The token bucket in front of the writing routes: withRateLimit.ts.      *)
(*                                                                         *)
(* A bucket gains REFILL_PER_SEC tokens a second.  Tokens are counted here *)
(* in the milliseconds it takes to gain them, so that a request costs      *)
(* MS_PER_TOKEN = 1000 / REFILL_PER_SEC and refilling adds the elapsed     *)
(* time; the code's floating-point rounding is left out.  buckets lives in *)
(* the memory of one process and is never pruned.                          *)
(***************************************************************************)
EXTENDS Integers

CONSTANTS
    Ips,            \* first entries of x-forwarded-for, or 'anon'
    NoBucket,       \* an address not seen yet
    CAPACITY,       \* CAPACITY
    MS_PER_TOKEN,   \* 1000 / REFILL_PER_SEC
    MaxTime         \* bound: the clock

FULL == CAPACITY * MS_PER_TOKEN

Bucket == [tokens : 0 .. FULL, lastRefill : Nat]

ASSUME CapacityAssumption == CAPACITY \in Nat \ {0} /\ MS_PER_TOKEN \in Nat \ {0}
ASSUME NoBucketAssumption == NoBucket \notin Bucket
ASSUME MaxTimeAssumption == MaxTime \in Nat

VARIABLES
    now,       \* Date.now()
    buckets,   \* the map of buckets
    spent      \* history: spent[ip][t] is what ip was charged before time t

rvars == <<now, buckets, spent>>

RInit ==
    /\ now = 0
    /\ buckets = [ip \in Ips |-> NoBucket]
    /\ spent = [ip \in Ips |-> [t \in 0 .. MaxTime + 1 |-> 0]]

\* The tokens take finds after refilling.
\* (mutant) the refill is not capped.
TokensUncapped(ip) ==
    IF buckets[ip] = NoBucket THEN FULL
    ELSE buckets[ip].tokens + (now - buckets[ip].lastRefill)

Tokens(ip) ==
    IF buckets[ip] = NoBucket THEN FULL
    ELSE LET t == buckets[ip].tokens + (now - buckets[ip].lastRefill)
         IN  IF t <= FULL THEN t ELSE FULL

CanTake(ip) == Tokens(ip) >= MS_PER_TOKEN

\* (mutant) the clock of a bucket is not moved, so that the same time refills it
\* again.
RefilledTwice(ip, charge) ==
    buckets' = [buckets EXCEPT ![ip] =
        [tokens |-> Tokens(ip) - charge,
         lastRefill |-> IF @ = NoBucket THEN now ELSE @.lastRefill]]
Refilled(ip, charge) ==
    buckets' = [buckets EXCEPT ![ip] =
        [tokens |-> Tokens(ip) - charge, lastRefill |-> now]]

\* take returns true: the request goes on to its handler.
Admit(ip) ==
    /\ CanTake(ip)
    /\ Refilled(ip, MS_PER_TOKEN)
    /\ spent' = [spent EXCEPT ![ip] =
           [t \in 0 .. MaxTime + 1 |-> IF t > now THEN @[t] + MS_PER_TOKEN ELSE @[t]]]

\* take returns false: 429, and the bucket is stored all the same.
Refuse(ip) ==
    /\ ~CanTake(ip)
    /\ Refilled(ip, 0)
    /\ UNCHANGED spent

Elapse ==
    /\ now < MaxTime                                              \* bound
    /\ now' = now + 1
    /\ UNCHANGED <<buckets, spent>>

RNext ==
    \/ \E ip \in Ips : (Admit(ip) \/ Refuse(ip)) /\ UNCHANGED now
    \/ Elapse

RSpec == RInit /\ [][RNext]_rvars

-----------------------------------------------------------------------------
RTypeOK ==
    /\ now \in 0 .. MaxTime
    /\ buckets \in [Ips -> Bucket \cup {NoBucket}]
    /\ spent \in [Ips -> [0 .. MaxTime + 1 -> Nat]]

\* What ip was charged from t0 on.
SpentSince(ip, t0) == spent[ip][now + 1] - spent[ip][t0]

\* The bucket is exactly a sliding limit over all windows: the next request is
\* admitted if and only if it would leave every window that ends now within the
\* capacity and what refills during it.  So no burst gets past CAPACITY, refused
\* requests cost nothing, and nobody is refused who kept to the rate (take).
BucketIsWindow ==
    \A ip \in Ips :
        CanTake(ip) <=>
            \A t0 \in 0 .. now :
                SpentSince(ip, t0) + MS_PER_TOKEN <= FULL + (now - t0)
=============================================================================

----------------------------- MODULE RateLimiter -----------------------------
(***************************************************************************)
(* daemon/ratelimit.go: the table of buckets behind the HTTP listener. A   *)
(* bucket is refilled when its key is next seen; the table holds at most   *)
(* MaxKeys buckets, and a new key that finds it full evicts the buckets    *)
(* idle long enough to be full again, or all of them when none is idle.    *)
(* Time is counted in units in which Rate tokens accrue; allow runs under  *)
(* the limiter's mutex and is one step.                                    *)
(***************************************************************************)
EXTENDS Integers, FiniteSets

CONSTANTS
    Keys,
    Rate, Burst,
    Grace,        \* the extra minute of evictIdle
    MaxKeys,
    MaxTime       \* bound on the clock

ASSUME LimiterAssumption ==
    /\ Rate \in Nat \ {0} /\ Burst \in Nat \ {0} /\ Grace \in Nat
    /\ MaxKeys \in Nat \ {0} /\ MaxTime \in Nat
    /\ Burst % Rate = 0
    /\ IsFiniteSet(Keys)

VARIABLES
    now,
    buckets,      \* table: key -> [tokens, last]
    seen          \* ghost: time of each key's last request, -1 before the first

limVars == <<now, buckets, seen>>

IdleAfter == Burst \div Rate + Grace

Least(a, b) == IF a < b THEN a ELSE b

newRateLimiter ==
    /\ now = 0
    /\ buckets = <<>>
    /\ seen = [k \in Keys |-> -1]

(* The function f with v at k.                                             *)
Put(f, k, v) == [x \in DOMAIN f \cup {k} |-> IF x = k THEN v ELSE f[x]]

(* What the key's bucket holds now; an unknown key gets a full one.        *)
Tokens(k) ==
    IF k \in DOMAIN buckets
    THEN Least(Burst, buckets[k].tokens + (now - buckets[k].last) * Rate)
    ELSE Burst

Admits(k) == Tokens(k) >= 1

\* Mutant: buckets are evicted as soon as they have had time for one token.
MutEvictIdle ==
    LET kept == {k \in DOMAIN buckets : (now - buckets[k].last) * Rate < 1}
    IN  IF Cardinality(kept) >= MaxKeys THEN <<>>
        ELSE [k \in kept |-> buckets[k]]

evictIdle ==
    LET kept == {k \in DOMAIN buckets : now - buckets[k].last <= IdleAfter}
    IN  IF Cardinality(kept) >= MaxKeys THEN <<>>
        ELSE [k \in kept |-> buckets[k]]

allow(k) ==
    LET table == IF k \notin DOMAIN buckets /\ Cardinality(DOMAIN buckets) >= MaxKeys
                 THEN evictIdle ELSE buckets
        left == IF Admits(k) THEN Tokens(k) - 1 ELSE Tokens(k)
    IN  /\ buckets' = Put(table, k, [tokens |-> left, last |-> now])
        /\ seen' = [seen EXCEPT ![k] = now]
        /\ UNCHANGED now

Tick == now < MaxTime /\ now' = now + 1 /\ UNCHANGED <<buckets, seen>>

(* The abstract limiter, a bucket being what it would hold if asked now.   *)
Ideal == INSTANCE IdealLimiter WITH level <- [k \in Keys |-> Tokens(k)]
=============================================================================

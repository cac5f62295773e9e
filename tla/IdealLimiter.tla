---------------------------- MODULE IdealLimiter ----------------------------
(***************************************************************************)
(* What the daemon's rate limiter promises: one token bucket per key that  *)
(* nobody ever forgets. A key's bucket starts full, gains Rate tokens per  *)
(* unit of time up to Burst, and a request takes one. The single licence   *)
(* is the amnesty: when MaxKeys keys or more are busy at once every bucket *)
(* may be refilled.                                                        *)
(***************************************************************************)
EXTENDS Integers, FiniteSets

CONSTANTS
    Keys,
    Rate,         \* tokens per unit of time
    Burst,        \* capacity of a bucket
    IdleAfter,    \* a key unseen for longer than this is not busy
    MaxKeys,      \* size of the table
    MaxTime       \* bound on the clock

VARIABLES
    now,
    level,        \* tokens of each key at this moment
    seen          \* time of each key's last request, -1 before the first

Least(a, b) == IF a < b THEN a ELSE b

IInit == now = 0 /\ level = [k \in Keys |-> Burst] /\ seen = [k \in Keys |-> -1]

ITick == /\ now < MaxTime /\ now' = now + 1
         /\ level' = [k \in Keys |-> Least(Burst, level[k] + Rate)]
         /\ UNCHANGED seen

Taken(n) == IF n >= 1 THEN n - 1 ELSE n

IRequest(k) ==
    /\ level' = [level EXCEPT ![k] = Taken(@)]
    /\ seen' = [seen EXCEPT ![k] = now]
    /\ UNCHANGED now

Busy == {k \in Keys : seen[k] >= 0 /\ now - seen[k] <= IdleAfter}

IAmnesty(k) ==
    /\ Cardinality(Busy \ {k}) >= MaxKeys
    /\ level' = [j \in Keys |-> IF j = k THEN Taken(Burst) ELSE Burst]
    /\ seen' = [seen EXCEPT ![k] = now]
    /\ UNCHANGED now

INext == ITick \/ \E k \in Keys : IRequest(k) \/ IAmnesty(k)

ISpec == IInit /\ [][INext]_<<now, level, seen>>
=============================================================================

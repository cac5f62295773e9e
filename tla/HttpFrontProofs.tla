--------------------------- MODULE HttpFrontProofs ---------------------------
(***************************************************************************)
(* Theorems about HttpFront, for any number of commands, requests, tokens, *)
(* keys and any capacity of the limiter: the table of buckets implements   *)
(* the limiter that forgets nobody, the identity of a served request is    *)
(* its token's, and tokens work from their mint to their revocation.       *)
(***************************************************************************)
EXTENDS HttpFront, FiniteSetTheorems, TLAPS

-----------------------------------------------------------------------------
(* The rate limiter *)

\* What the table says of a key is what is known of its last request; the
\* table is within its bound.
LimInv ==
    /\ now \in 0 .. MaxTime
    /\ DOMAIN buckets \subseteq Keys /\ Cardinality(DOMAIN buckets) <= MaxKeys
    /\ seen \in [Keys -> Int]
    /\ \A k \in DOMAIN buckets :
        /\ buckets[k].tokens \in 0 .. Burst
        /\ buckets[k].last \in 0 .. now /\ buckets[k].last = seen[k]

\* What a bucket holds is a number of tokens up to Burst.
LEMMA TokensRange ==
    ASSUME LimInv, NEW k \in Keys
    PROVE  Tokens(k) \in 0 .. Burst
<1> USE LimiterAssumption DEF LimInv, Tokens, Least
<1>1. CASE k \notin DOMAIN buckets
  BY <1>1
<1>2. CASE k \in DOMAIN buckets
  <2>1. now - buckets[k].last \in Nat
    BY <1>2
  <2>2. (now - buckets[k].last) * Rate \in Nat
    BY <2>1
  <2> QED BY <1>2, <2>2
<1> QED BY <1>1, <1>2

\* A bucket idle for longer than IdleAfter is full again: evicting it changes
\* nothing.
LEMMA IdleIsFull ==
    ASSUME LimInv, NEW k \in DOMAIN buckets, now - buckets[k].last > IdleAfter
    PROVE  Tokens(k) = Burst
<1> DEFINE q == Burst \div Rate
           d == now - buckets[k].last
<1> USE LimiterAssumption
<1>1. q \in Nat /\ Burst = q * Rate
  BY DEF LimInv
<1>2. d \in Nat /\ d >= q
  BY <1>1 DEF LimInv, IdleAfter
<1>3. d * Rate >= q * Rate
  <2> HIDE DEF q, d
  <2> QED BY <1>1, <1>2
<1>4. buckets[k].tokens + d * Rate >= Burst /\ d * Rate \in Nat
  <2> HIDE DEF q, d
  <2>1. d * Rate \in Nat
    BY <1>2
  <2> QED BY <1>1, <1>3, <2>1 DEF LimInv
<1> QED BY <1>4 DEF Tokens, Least, LimInv

\* The table allow works on: after the eviction, if one was due.
Table(k) ==
    IF k \notin DOMAIN buckets /\ Cardinality(DOMAIN buckets) >= MaxKeys
    THEN evictIdle ELSE buckets

\* What an eviction leaves is part of the table, with room for the new key.
LEMMA TableShrinks ==
    ASSUME LimInv, NEW k \in Keys
    PROVE  /\ DOMAIN Table(k) \subseteq DOMAIN buckets
           /\ \A j \in DOMAIN Table(k) : Table(k)[j] = buckets[j]
           /\ k \notin DOMAIN Table(k) => Cardinality(DOMAIN Table(k)) < MaxKeys
           /\ IsFiniteSet(DOMAIN Table(k)) /\ Cardinality(DOMAIN Table(k)) <= MaxKeys
           /\ \A j \in DOMAIN buckets \ DOMAIN Table(k) :
                \/ now - buckets[j].last > IdleAfter
                \/ DOMAIN Table(k) = {}
<1> DEFINE kept == {j \in DOMAIN buckets : now - buckets[j].last <= IdleAfter}
<1> USE LimiterAssumption
<1>0. IsFiniteSet(DOMAIN buckets) /\ Cardinality(DOMAIN buckets) \in Nat
  BY FS_Subset, FS_CardinalityType DEF LimInv
<1>1. CASE ~(k \notin DOMAIN buckets /\ Cardinality(DOMAIN buckets) >= MaxKeys)
  <2>1. Table(k) = buckets
    BY <1>1 DEF Table
  <2> QED BY <1>0, <1>1, <2>1 DEF LimInv
<1>2. CASE /\ k \notin DOMAIN buckets /\ Cardinality(DOMAIN buckets) >= MaxKeys
           /\ Cardinality(kept) >= MaxKeys
  <2>1. Table(k) = <<>>
    BY <1>2 DEF Table, evictIdle
  <2>2. DOMAIN Table(k) = {}
    BY <2>1
  <2> HIDE DEF kept
  <2> QED BY <2>2, FS_EmptySet
<1>3. CASE /\ k \notin DOMAIN buckets /\ Cardinality(DOMAIN buckets) >= MaxKeys
           /\ ~(Cardinality(kept) >= MaxKeys)
  <2>1. Table(k) = [j \in kept |-> buckets[j]]
    BY <1>3 DEF Table, evictIdle
  <2>2. DOMAIN Table(k) = kept /\ \A j \in kept : Table(k)[j] = buckets[j]
    BY <2>1
  <2>3. kept \subseteq DOMAIN buckets /\ IsFiniteSet(kept) /\ Cardinality(kept) \in Nat
    BY <1>0, FS_Subset, FS_CardinalityType
  <2>4. \A j \in DOMAIN buckets \ kept : now - buckets[j].last > IdleAfter
    <3>1. IdleAfter \in Int /\ \A j \in DOMAIN buckets : now - buckets[j].last \in Int
      BY DEF IdleAfter, LimInv
    <3> QED BY <3>1
  <2> HIDE DEF kept
  <2> QED BY <1>3, <2>2, <2>3, <2>4
<1> QED BY <1>1, <1>2, <1>3

\* The step of allow, in terms of the table it works on.
LEMMA AllowStep ==
    ASSUME NEW k \in Keys, allow(k)
    PROVE  /\ DOMAIN buckets' = DOMAIN Table(k) \cup {k}
           /\ \A j \in DOMAIN Table(k) : j # k => buckets'[j] = Table(k)[j]
           /\ buckets'[k].tokens = IF Admits(k) THEN Tokens(k) - 1 ELSE Tokens(k)
           /\ buckets'[k].last = now
           /\ now' = now
BY DEF allow, Put, Table

\* A request keeps the table and the clock in agreement.
LEMMA AllowInv ==
    ASSUME LimInv, NEW k \in Keys, allow(k)
    PROVE  LimInv'
<1>0. /\ DOMAIN buckets' = DOMAIN Table(k) \cup {k}
      /\ \A j \in DOMAIN Table(k) : j # k => buckets'[j] = Table(k)[j]
      /\ buckets'[k].tokens = IF Admits(k) THEN Tokens(k) - 1 ELSE Tokens(k)
      /\ buckets'[k].last = now
      /\ now' = now
  BY AllowStep
<1>1. Burst \in Nat /\ MaxKeys \in Nat /\ MaxTime \in Nat
  BY LimiterAssumption
<1>2. /\ DOMAIN buckets' \subseteq Keys
      /\ Cardinality(DOMAIN buckets') <= MaxKeys
  <2> DEFINE D == DOMAIN Table(k)
  <2>1. /\ D \subseteq Keys /\ IsFiniteSet(D) /\ Cardinality(D) <= MaxKeys
        /\ k \notin D => Cardinality(D) < MaxKeys
        /\ DOMAIN buckets' = D \cup {k}
    BY <1>0, TableShrinks DEF LimInv
  <2> HIDE DEF D
  <2>2. CASE k \in D
    <3>1. D \cup {k} = D
      BY <2>2
    <3> QED BY <2>1, <3>1
  <2>3. CASE k \notin D
    <3>1. Cardinality(D \cup {k}) = Cardinality(D) + 1 /\ Cardinality(D) \in Nat
      BY <2>1, <2>3, FS_AddElement, FS_CardinalityType
    <3> QED BY <1>1, <2>1, <2>3, <3>1
  <2> QED BY <2>2, <2>3
<1>3. /\ seen' \in [Keys -> Int] /\ seen'[k] = now
      /\ \A j \in Keys \ {k} : seen'[j] = seen[j]
  BY DEF LimInv, allow
<1>4. buckets'[k].tokens \in 0 .. Burst
  <2>1. Tokens(k) \in 0 .. Burst
    BY TokensRange
  <2> QED BY <1>0, <1>1, <2>1 DEF Admits
<1>5. \A j \in DOMAIN buckets' : j # k => j \in DOMAIN buckets /\ buckets'[j] = buckets[j]
  BY <1>0, TableShrinks
<1>6. ASSUME NEW j \in DOMAIN buckets'
      PROVE  /\ buckets'[j].tokens \in 0 .. Burst
             /\ buckets'[j].last \in 0 .. now' /\ buckets'[j].last = seen'[j]
  <2>1. CASE j = k
    BY <1>0, <1>1, <1>3, <1>4, <2>1 DEF LimInv
  <2>2. CASE j # k
    BY <1>0, <1>2, <1>3, <1>5, <2>2 DEF LimInv
  <2> QED BY <2>1, <2>2
<1> QED BY <1>0, <1>2, <1>3, <1>6 DEF LimInv

\* A request takes a token of the bucket nobody forgets, or is given the
\* amnesty of a table full of busy keys.
LEMMA AllowRefines ==
    ASSUME LimInv, NEW k \in Keys, allow(k)
    PROVE  Ideal!IRequest(k) \/ Ideal!IAmnesty(k)
<1>0. /\ DOMAIN buckets' = DOMAIN Table(k) \cup {k}
      /\ \A j \in DOMAIN Table(k) : j # k => buckets'[j] = Table(k)[j]
      /\ buckets'[k].tokens = IF Admits(k) THEN Tokens(k) - 1 ELSE Tokens(k)
      /\ buckets'[k].last = now
      /\ now' = now
  BY AllowStep
<1>t. /\ DOMAIN Table(k) \subseteq DOMAIN buckets
      /\ \A j \in DOMAIN Table(k) : Table(k)[j] = buckets[j]
  BY TableShrinks
<1>1. Tokens(k)' = Ideal!Taken(Tokens(k))
  <2>1. Tokens(k) \in 0 .. Burst /\ Burst \in Nat
    BY TokensRange, LimiterAssumption
  <2>2. buckets'[k].tokens = Ideal!Taken(Tokens(k)) /\ Ideal!Taken(Tokens(k)) \in 0 .. Burst
    BY <1>0, <2>1 DEF Admits, Ideal!Taken
  <2>3. (now' - buckets'[k].last) * Rate = 0
    BY <1>0, LimiterAssumption DEF LimInv
  <2> QED BY <1>0, <2>1, <2>2, <2>3 DEF Tokens, Least
<1>2. \A j \in DOMAIN Table(k) : j # k => Tokens(j)' = Tokens(j)
  BY <1>0, <1>t DEF Tokens
<1>3. \A j \in Keys \ DOMAIN Table(k) : j # k => Tokens(j)' = Burst
  BY <1>0 DEF Tokens
<1>4. \A j \in Keys \ DOMAIN buckets : Tokens(j) = Burst
  BY DEF Tokens
<1>5. CASE \A j \in Keys \ {k} : Tokens(j)' = Tokens(j)
  <2>1. [j \in Keys |-> Tokens(j)]' = [[j \in Keys |-> Tokens(j)] EXCEPT ![k] = Ideal!Taken(@)]
    BY <1>1, <1>5
  <2> QED BY <2>1 DEF Ideal!IRequest, allow
<1>6. CASE \E j \in Keys \ {k} : Tokens(j)' # Tokens(j)
  <2>1. PICK j \in Keys \ {k} : Tokens(j)' # Tokens(j)
    BY <1>6
  <2>2. j \in DOMAIN buckets \ DOMAIN Table(k) /\ Tokens(j) # Burst
    BY <2>1, <1>2, <1>3, <1>4, <1>t
  <2>3. DOMAIN Table(k) = {}
    BY <2>2, IdleIsFull, TableShrinks
  <2>4. \A i \in Keys \ {k} : Tokens(i)' = Burst
    BY <2>3, <1>3
  <2>5. k \notin DOMAIN buckets /\ Table(k) = evictIdle
    BY <2>2 DEF Table
  <2>6. Cardinality(Ideal!Busy \ {k}) >= MaxKeys
    <3> DEFINE kept == {i \in DOMAIN buckets : now - buckets[i].last <= IdleAfter}
    <3>1. now - buckets[j].last <= IdleAfter
      <4>1. ~(now - buckets[j].last > IdleAfter)
        BY <2>2, IdleIsFull
      <4>2. IdleAfter \in Int /\ now - buckets[j].last \in Int
        BY <2>2, LimiterAssumption DEF IdleAfter, LimInv
      <4> QED BY <4>1, <4>2
    <3>2. Cardinality(kept) >= MaxKeys
      <4>1. SUFFICES ASSUME ~(Cardinality(kept) >= MaxKeys) PROVE FALSE
        OBVIOUS
      <4>2. DOMAIN evictIdle = kept
        BY <4>1 DEF evictIdle
      <4> QED BY <2>2, <2>5, <3>1, <4>2
    <3>3. kept \subseteq Ideal!Busy \ {k}
      BY <2>5 DEF Ideal!Busy, LimInv
    <3>4. IsFiniteSet(Ideal!Busy \ {k})
      BY LimiterAssumption, FS_Subset DEF Ideal!Busy
    <3>5. /\ Cardinality(kept) <= Cardinality(Ideal!Busy \ {k})
          /\ Cardinality(kept) \in Nat /\ Cardinality(Ideal!Busy \ {k}) \in Nat
      <4> HIDE DEF kept
      <4> QED BY <3>3, <3>4, FS_Subset, FS_CardinalityType
    <3>6. MaxKeys \in Nat
      BY LimiterAssumption
    <3> HIDE DEF kept
    <3> QED BY <3>2, <3>5, <3>6
  <2>7. Tokens(k) = Burst
    BY <2>5 DEF Tokens
  <2>8. [i \in Keys |-> Tokens(i)]' = [i \in Keys |-> IF i = k THEN Ideal!Taken(Burst) ELSE Burst]
    BY <1>1, <2>4, <2>7
  <2>9. seen' = [seen EXCEPT ![k] = now] /\ UNCHANGED now
    BY DEF allow
  <2>10. Ideal!Cardinality(Ideal!Busy \ {k}) = Cardinality(Ideal!Busy \ {k})
    BY DEF Ideal!Cardinality, Cardinality
  <2> QED BY <2>6, <2>8, <2>9, <2>10, Zenon DEF Ideal!IAmnesty
<1> QED BY <1>5, <1>6

\* Time refills every bucket.
LEMMA TickRefines ==
    ASSUME LimInv, Tick
    PROVE  LimInv' /\ Ideal!ITick
<1>1. /\ now' = now + 1 /\ now < MaxTime /\ buckets' = buckets /\ seen' = seen
      /\ now \in Nat /\ MaxTime \in Nat /\ Burst \in Nat /\ Rate \in Nat
  BY LimiterAssumption DEF Tick, LimInv
<1>2. LimInv'
  BY <1>1 DEF LimInv
<1>3. ASSUME NEW k \in Keys
      PROVE  Tokens(k)' = Ideal!Least(Burst, Tokens(k) + Rate)
  <2>1. CASE k \notin DOMAIN buckets
    BY <1>1, <2>1 DEF Tokens, Ideal!Least
  <2>2. CASE k \in DOMAIN buckets
    <3> DEFINE d == now - buckets[k].last
               t == buckets[k].tokens
    <3>1. d \in Nat /\ t \in 0 .. Burst /\ now' - buckets[k].last = d + 1
      BY <1>1, <2>2 DEF LimInv
    <3>2. Tokens(k) = Least(Burst, t + d * Rate) /\ Tokens(k)' = Least(Burst, t + (d + 1) * Rate)
      BY <1>1, <2>2, <3>1 DEF Tokens
    <3> HIDE DEF d, t
    <3>3. (d + 1) * Rate = d * Rate + Rate /\ d * Rate \in Nat
      BY <1>1, <3>1
    <3> QED BY <1>1, <3>1, <3>2, <3>3 DEF Least, Ideal!Least
  <2> QED BY <2>1, <2>2
<1>4. [k \in Keys |-> Tokens(k)]' =
        [k \in Keys |-> Ideal!Least(Burst, [j \in Keys |-> Tokens(j)][k] + Rate)]
  BY <1>3
<1> QED BY <1>1, <1>2, <1>4 DEF Ideal!ITick

-----------------------------------------------------------------------------
(* The inductive invariant of the front end *)

CliPcs == {"idle", "create", "fill", "load", "truncate", "write"}
DaemonPcs == {"refused", "boot", "create", "fill", "serving", "error"}
ReqPcs == {"new", "auth", "limit", "bind", "done"}

\* A table of tokens, as a function.
IsTable(f) == DOMAIN f \subseteq Ids /\ f \in [DOMAIN f -> TokenRow]

\* The types of the processes that run a command: one at work has its command
\* and a pepper, and holds rows only between its load and its write.
CliInv ==
    /\ DOMAIN cli = Clis
    /\ \A p \in Clis :
        /\ cli[p] \in [pc : CliPcs, cmd : {cli[p].cmd}, pepper : {cli[p].pepper},
                       held : {cli[p].held}, out : {cli[p].out}]
        /\ cli[p].pc # "idle" => cli[p].cmd \in Commands /\ cli[p].pepper \in Peppers
        /\ IsTable(cli[p].held)
        /\ cli[p].pc \notin {"truncate", "write"} => DOMAIN cli[p].held = {}

\* The types of the rest.
FrontTypes ==
    /\ pepper \in Peppers \cup {Absent, Torn}
    /\ daemon \in [pc : DaemonPcs, pepper : {daemon.pepper}]
    /\ daemon.pc \in {"create", "fill"} => daemon.pepper \in Peppers
    /\ daemon.pc # "refused" => ValidateHTTPConfig(Config)
    /\ bound \in [commands : Nat, requests : Nat, time : Nat]
    /\ IsTable(Rows) /\ IsTable(minted)
    /\ revoked \subseteq DOMAIN minted /\ agents \subseteq Agents

\* Two rows say the same of a token, but for its revocation.
SameToken(a, b) ==
    a.agent = b.agent /\ a.user = b.user /\ a.proxy = b.proxy /\ a.pepper = b.pepper

\* Every row anybody has is what its mint bound; a row that is not minted yet
\* is in one process's hands only.
RowsInv ==
    /\ \A t \in DOMAIN Rows : t \in DOMAIN minted /\ SameToken(Rows[t], minted[t])
    /\ \A p \in Clis : \A t \in DOMAIN cli[p].held \cap DOMAIN minted :
            SameToken(cli[p].held[t], minted[t])
    /\ \A p, q \in Clis : p # q =>
            DOMAIN cli[p].held \cap DOMAIN cli[q].held \subseteq DOMAIN minted

\* What a step of the rest of the system may do to tokens: mint new ones.
Grows(old, new) == DOMAIN old \subseteq DOMAIN new /\ \A t \in DOMAIN old : new[t] = old[t]

\* The part of the state the store commands work on.
StoreInv == CliInv /\ FrontTypes /\ RowsInv

\* The steps of the daemon's start and of the commands.
CommandStep(p) ==
    \/ runAgentToken(p) \/ CliWritesPepper(p)
    \/ LoadStore(p) \/ TruncateStore(p) \/ WriteStore(p) \/ WriteStoreFails(p)

\* The store starts as an empty table.
LEMMA EmptyTable == IsTable(<<>>) /\ DOMAIN <<>> = {}
BY DEF IsTable

\* Revoking rows leaves a table of the same tokens.
LEMMA RevokingTable ==
    ASSUME NEW rows, IsTable(rows), NEW ts
    PROVE  /\ IsTable(Revoking(rows, ts)) /\ DOMAIN Revoking(rows, ts) = DOMAIN rows
           /\ \A t \in DOMAIN rows :
                /\ SameToken(Revoking(rows, ts)[t], rows[t])
                /\ Revoking(rows, ts)[t].revoked <=> (t \in ts \/ rows[t].revoked)
<1> DEFINE f == Revoking(rows, ts)
<1>1. /\ DOMAIN f = DOMAIN rows /\ f \in [DOMAIN f -> {f[t] : t \in DOMAIN f}]
      /\ \A t \in DOMAIN rows :
            f[t] = IF t \in ts THEN [rows[t] EXCEPT !.revoked = TRUE] ELSE rows[t]
  BY DEF Revoking
<1> HIDE DEF f
<1>2. ASSUME NEW t \in DOMAIN rows
      PROVE  /\ f[t] \in TokenRow /\ SameToken(f[t], rows[t])
             /\ f[t].revoked <=> (t \in ts \/ rows[t].revoked)
  <2>1. rows[t] \in TokenRow
    BY DEF IsTable
  <2>2. CASE t \in ts
    BY <1>1, <2>1, <2>2 DEF TokenRow, SameToken
  <2>3. CASE t \notin ts
    BY <1>1, <2>1, <2>3 DEF TokenRow, SameToken
  <2> QED BY <2>2, <2>3
<1>3. f \in [DOMAIN f -> TokenRow]
  BY <1>1, <1>2
<1> QED BY <1>1, <1>2, <1>3 DEF IsTable, f

\* What a command holds after its load: the rows of the store with what it
\* dooms revoked, and for a mint one more row that nobody has.
Loaded(p) ==
    LET c == cli[p].cmd
        H == cli'[p].held
        hit(t) == \/ c.op = "mint" /\ Rows[t].agent = c.agent
                  \/ c.op = "revoke" /\ c.target \in {Rows[t].agent, PrefixOf[t]}
    IN  /\ IsTable(H) /\ DOMAIN Rows \subseteq DOMAIN H
        /\ \A t \in DOMAIN Rows : /\ SameToken(H[t], Rows[t])
                                  /\ H[t].revoked <=> (hit(t) \/ Rows[t].revoked)
        /\ \A t \in DOMAIN H \ DOMAIN Rows :
            /\ c.op = "mint" /\ H[t].agent = c.agent
            /\ t \notin DOMAIN minted /\ H[t].pepper = cli[p].pepper /\ ~H[t].revoked
            /\ \A q \in Clis : t \notin DOMAIN cli[q].held
            /\ \A u \in DOMAIN H \ DOMAIN Rows : u = t

\* The load of the store ends the command or leaves it with such rows.
LEMMA LoadCases ==
    ASSUME StoreInv, NEW p \in Clis, LoadStore(p)
    PROVE  /\ DOMAIN cli' = Clis /\ \A q \in Clis \ {p} : cli'[q] = cli[q]
           /\ cli'[p] \in [pc : CliPcs, cmd : {cli'[p].cmd}, pepper : {cli'[p].pepper},
                           held : {cli'[p].held}, out : {cli'[p].out}]
           /\ cli[p].pc = "load" /\ cli[p].cmd \in Commands
           /\ \/ cli'[p].pc = "idle" /\ DOMAIN cli'[p].held = {} /\ IsTable(cli'[p].held)
              \/ /\ cli'[p].pc = "truncate" /\ cli'[p].cmd = cli[p].cmd
                 /\ cli'[p].pepper = cli[p].pepper /\ Loaded(p)
<1> DEFINE c == cli[p].cmd
<1>0. /\ cli[p].pc = "load" /\ c \in Commands /\ cli[p].pepper \in Peppers
      /\ IsTable(Rows) /\ DOMAIN Rows \subseteq DOMAIN minted
      /\ cli[p] \in [pc : CliPcs, cmd : {cli[p].cmd}, pepper : {cli[p].pepper},
                     held : {cli[p].held}, out : {cli[p].out}]
      /\ DOMAIN cli = Clis
  BY DEF LoadStore, StoreInv, CliInv, FrontTypes, RowsInv
<1>1. ASSUME NEW H, cli' = [cli EXCEPT ![p] = [cli[p] EXCEPT !.pc = "truncate", !.held = H]]
      PROVE  /\ DOMAIN cli' = Clis /\ \A q \in Clis \ {p} : cli'[q] = cli[q]
             /\ cli'[p] \in [pc : CliPcs, cmd : {cli'[p].cmd}, pepper : {cli'[p].pepper},
                             held : {cli'[p].held}, out : {cli'[p].out}]
             /\ cli'[p].pc = "truncate" /\ cli'[p].cmd = cli[p].cmd
             /\ cli'[p].pepper = cli[p].pepper /\ cli'[p].held = H
  BY <1>0, <1>1 DEF CliPcs
<1>2. ASSUME NEW code, cli' = [cli EXCEPT ![p] = [IdleCli EXCEPT !.out = code]]
      PROVE  /\ DOMAIN cli' = Clis /\ \A q \in Clis \ {p} : cli'[q] = cli[q]
             /\ cli'[p] \in [pc : CliPcs, cmd : {cli'[p].cmd}, pepper : {cli'[p].pepper},
                             held : {cli'[p].held}, out : {cli'[p].out}]
             /\ cli'[p].pc = "idle" /\ DOMAIN cli'[p].held = {} /\ IsTable(cli'[p].held)
  <2>1. /\ DOMAIN cli' = Clis /\ \A q \in Clis \ {p} : cli'[q] = cli[q]
        /\ cli'[p] = [pc |-> "idle", cmd |-> None, pepper |-> None, held |-> <<>>, out |-> code]
    BY <1>0, <1>2 DEF IdleCli
  <2>2. DOMAIN cli'[p].held = {} /\ IsTable(cli'[p].held)
    BY <2>1 DEF IsTable
  <2> QED BY <2>1, <2>2 DEF CliPcs
<1>3. CASE /\ c.op = "mint"
           /\ \E id \in Ids \ (DOMAIN minted \cup UNION {DOMAIN cli[q].held : q \in Clis}) :
                cli' = [cli EXCEPT ![p] = [cli[p] EXCEPT !.pc = "truncate",
                            !.held = MintWith(Rows, c, id, cli[p].pepper)]]
  <2>1. PICK id \in Ids \ (DOMAIN minted \cup UNION {DOMAIN cli[q].held : q \in Clis}) :
            cli' = [cli EXCEPT ![p] = [cli[p] EXCEPT !.pc = "truncate",
                        !.held = MintWith(Rows, c, id, cli[p].pepper)]]
    BY <1>3
  <2> DEFINE H == MintWith(Rows, c, id, cli[p].pepper)
             R == Revoking(Rows, Active(Rows, c.agent))
             new == [agent |-> c.agent, user |-> c.user, proxy |-> c.proxy,
                     pepper |-> cli[p].pepper, revoked |-> FALSE]
  <2>2. /\ IsTable(R) /\ DOMAIN R = DOMAIN Rows
        /\ \A t \in DOMAIN Rows :
             /\ SameToken(R[t], Rows[t])
             /\ R[t].revoked <=> (t \in Active(Rows, c.agent) \/ Rows[t].revoked)
    BY <1>0, RevokingTable
  <2>3. /\ id \in Ids /\ id \notin DOMAIN minted /\ id \notin DOMAIN Rows
        /\ \A q \in Clis : id \notin DOMAIN cli[q].held
    BY <1>0, <2>1
  <2>4. new \in TokenRow
    BY <1>0, <1>3, FrontAssumption DEF TokenRow
  <2>5. \A t \in DOMAIN Rows : t \in Active(Rows, c.agent) <=> Rows[t].agent = c.agent /\ ~Rows[t].revoked
    BY DEF Active
  <2>6. H = Put(R, id, new)
    BY DEF MintWith
  <2> HIDE DEF H, R
  <2>7. /\ DOMAIN H = DOMAIN Rows \cup {id} /\ H[id] = new
        /\ \A t \in DOMAIN Rows : H[t] = R[t]
        /\ H \in [DOMAIN H -> {H[t] : t \in DOMAIN H}]
    BY <2>2, <2>3, <2>6 DEF Put
  <2>8. new.agent = c.agent /\ new.pepper = cli[p].pepper /\ ~new.revoked
    OBVIOUS
  <2> HIDE DEF new
  <2>9. \A t \in DOMAIN H : H[t] \in TokenRow
    BY <2>2, <2>4, <2>7 DEF IsTable
  <2>10. IsTable(H)
    BY <1>0, <2>3, <2>7, <2>9 DEF IsTable
  <2>11. cli'[p].held = H
    BY <1>1, <2>1 DEF H
  <2>12. Loaded(p)
    BY <1>3, <2>2, <2>3, <2>5, <2>7, <2>8, <2>10, <2>11 DEF Loaded
  <2> QED BY <1>0, <1>1, <2>1, <2>12
<1>4. CASE c.op = "revoke" /\ cli' = [cli EXCEPT ![p] =
                [cli[p] EXCEPT !.pc = "truncate", !.held = Revoke(Rows, c.target)]]
  <2> DEFINE H == Revoke(Rows, c.target)
             ts == {t \in DOMAIN Rows : ~Rows[t].revoked
                                        /\ c.target \in {Rows[t].agent, PrefixOf[t]}}
  <2>1. H = Revoking(Rows, ts)
    BY DEF Revoke
  <2>2. \A t \in DOMAIN Rows :
            t \in ts <=> ~Rows[t].revoked /\ c.target \in {Rows[t].agent, PrefixOf[t]}
    OBVIOUS
  <2>3. cli'[p].held = H
    BY <1>1, <1>4
  <2> HIDE DEF H, ts
  <2>4. /\ IsTable(H) /\ DOMAIN H = DOMAIN Rows
        /\ \A t \in DOMAIN Rows : /\ SameToken(H[t], Rows[t])
                                  /\ H[t].revoked <=> (t \in ts \/ Rows[t].revoked)
    BY <1>0, <2>1, RevokingTable
  <2>5. Loaded(p)
    BY <1>4, <2>2, <2>3, <2>4 DEF Loaded
  <2> QED BY <1>0, <1>1, <1>4, <2>5
<1>5. CASE \E code : cli' = [cli EXCEPT ![p] = [IdleCli EXCEPT !.out = code]]
  BY <1>0, <1>2, <1>5
<1> QED BY <1>3, <1>4, <1>5 DEF LoadStore

\* The variables of StoreInv.
storeVars == <<store, pepper, daemon, cli, bound, agents, minted, revoked>>

\* The invariant of the store holds at the start.
LEMMA StoreInit == Init => StoreInv
<1> SUFFICES ASSUME Init PROVE StoreInv
  OBVIOUS
<1>1. Rows = <<>> /\ minted = <<>> /\ revoked = {} /\ agents = {}
  BY DEF Init, Rows
<1>2. IsTable(<<>>) /\ DOMAIN <<>> = {}
  BY EmptyTable
<1>3. CliInv
  BY <1>2 DEF Init, IdleCli, CliInv, CliPcs
<1>4. FrontTypes
  BY <1>1, <1>2, FrontAssumption DEF Init, FrontTypes, DaemonPcs
<1>5. RowsInv
  BY <1>1, <1>2 DEF Init, IdleCli, RowsInv
<1> QED BY <1>3, <1>4, <1>5 DEF StoreInv

\* A step that leaves the rows, the tokens and the hands alone.
LEMMA RowsFrame ==
    ASSUME RowsInv, Rows' = Rows, minted' = minted,
           \A p \in Clis : cli'[p].held = cli[p].held
    PROVE  RowsInv'
BY DEF RowsInv

\* A step of one process that changes its program counter only.
LEMMA CliFrame ==
    ASSUME CliInv, NEW p \in Clis, NEW pc \in CliPcs \ {"idle"},
           cli' = [cli EXCEPT ![p].pc = pc],
           cli[p].pc # "idle",
           pc \in {"truncate", "write"} <=> cli[p].pc \in {"truncate", "write"}
    PROVE  CliInv' /\ \A q \in Clis : cli'[q].held = cli[q].held
<1>1. /\ DOMAIN cli' = Clis /\ \A q \in Clis \ {p} : cli'[q] = cli[q]
      /\ cli'[p].pc = pc /\ cli'[p].cmd = cli[p].cmd /\ cli'[p].pepper = cli[p].pepper
      /\ cli'[p].held = cli[p].held /\ cli'[p].out = cli[p].out
      /\ cli'[p] \in [pc : CliPcs, cmd : {cli[p].cmd}, pepper : {cli[p].pepper},
                      held : {cli[p].held}, out : {cli[p].out}]
  BY DEF CliInv
<1> QED BY <1>1 DEF CliInv

\* A process that ends its command lets go of its rows.
LEMMA CliEnds ==
    ASSUME CliInv, NEW p \in Clis, NEW code,
           cli' = [cli EXCEPT ![p] = [IdleCli EXCEPT !.out = code]]
    PROVE  /\ CliInv' /\ DOMAIN cli'[p].held = {} /\ cli'[p].pc = "idle"
           /\ \A q \in Clis \ {p} : cli'[q] = cli[q]
<1>1. /\ DOMAIN cli' = Clis /\ \A q \in Clis \ {p} : cli'[q] = cli[q]
      /\ cli'[p] = [pc |-> "idle", cmd |-> None, pepper |-> None, held |-> <<>>, out |-> code]
  BY DEF CliInv, IdleCli
<1>2. cli'[p].held = <<>> /\ cli'[p].pc = "idle"
  BY <1>1
<1>3. cli'[p] \in [pc : CliPcs, cmd : {cli'[p].cmd}, pepper : {cli'[p].pepper},
                   held : {cli'[p].held}, out : {cli'[p].out}]
  BY <1>1 DEF CliPcs
<1> QED BY <1>1, <1>2, <1>3, EmptyTable DEF CliInv

\* The daemon's start, the clock and the requests keep the invariant of the
\* store.
LEMMA StoreDaemon ==
    ASSUME StoreInv,
           \/ DaemonReadsPepper \/ DaemonWritesPepper \/ Clock
           \/ \E r \in Reqs : Throttle(r) \/ Authenticate(r) \/ Limit(r) \/ Bind(r)
           \/ UNCHANGED vars
    PROVE  StoreInv' /\ minted' = minted /\ revoked' = revoked
<1> USE DEF StoreInv
<1>1. ASSUME cli' = cli, store' = store, minted' = minted, revoked' = revoked, agents' = agents,
             FrontTypes'
      PROVE  StoreInv' /\ minted' = minted /\ revoked' = revoked
  <2>1. CliInv' /\ Rows' = Rows
    BY <1>1 DEF CliInv, Rows
  <2> QED BY <1>1, <2>1, RowsFrame
<1>2. CASE DaemonReadsPepper
  <2>1. FrontTypes'
    BY <1>2, FrontAssumption
       DEF DaemonReadsPepper, FrontTypes, PepperRead, DaemonPcs, Rows
  <2> QED BY <1>1, <1>2, <2>1 DEF DaemonReadsPepper
<1>3. CASE DaemonWritesPepper
  <2>1. FrontTypes'
    BY <1>3 DEF DaemonWritesPepper, FrontTypes, DaemonPcs, Rows
  <2> QED BY <1>1, <1>3, <2>1 DEF DaemonWritesPepper
<1>4. CASE Clock
  <2>1. FrontTypes'
    BY <1>4 DEF Clock, tokVars, FrontTypes, Rows
  <2> QED BY <1>1, <1>4, <2>1 DEF Clock, tokVars
<1>5. ASSUME NEW r \in Reqs, Throttle(r) PROVE StoreInv' /\ minted' = minted /\ revoked' = revoked
  <2>1. UNCHANGED tokVars /\ bound' = [bound EXCEPT !.requests = @ - 1] /\ bound.requests > 0
    BY <1>5 DEF Throttle
  <2>2. FrontTypes'
    BY <2>1 DEF tokVars, FrontTypes, Rows
  <2> QED BY <1>1, <2>1, <2>2 DEF tokVars
<1>6. ASSUME NEW r \in Reqs, Authenticate(r) \/ Limit(r) \/ Bind(r)
      PROVE  StoreInv' /\ minted' = minted /\ revoked' = revoked
  <2>1. UNCHANGED tokVars /\ UNCHANGED bound
    BY <1>6 DEF Authenticate, Limit, Bind
  <2>2. FrontTypes'
    BY <2>1 DEF tokVars, FrontTypes, Rows
  <2> QED BY <1>1, <2>1, <2>2 DEF tokVars
<1>7. CASE UNCHANGED vars
  <2>1. FrontTypes'
    BY <1>7 DEF vars, FrontTypes, Rows
  <2> QED BY <1>1, <1>7, <2>1 DEF vars
<1> QED BY <1>2, <1>3, <1>4, <1>5, <1>6, <1>7

\* The commands keep the invariant of the store, and no token is ever bound
\* anew.
LEMMA StoreCommand ==
    ASSUME StoreInv, NEW p \in Clis, CommandStep(p)
    PROVE  StoreInv' /\ Grows(minted, minted') /\ revoked \subseteq revoked'
<1> USE DEF StoreInv
<1>1. CASE runAgentToken(p)
  <2>1. store' = store /\ pepper' = pepper /\ daemon' = daemon /\ agents' = agents
        /\ minted' = minted /\ revoked' = revoked
    BY <1>1 DEF runAgentToken
  <2>2. FrontTypes'
    BY <1>1, <2>1 DEF runAgentToken, FrontTypes, Rows
  <2>3. PICK c \in Commands, fresh \in Peppers :
            cli' = [cli EXCEPT ![p] =
              IF PepperRead("load") = "error" THEN [IdleCli EXCEPT !.out = "config"]
              ELSE [IdleCli EXCEPT !.pc = PepperRead("load"), !.cmd = c, !.out = "running",
                                   !.pepper = IF pepper = Absent THEN fresh ELSE pepper]]
    BY <1>1 DEF runAgentToken
  <2>4. CASE PepperRead("load") = "error"
    <3>1. cli' = [cli EXCEPT ![p] = [IdleCli EXCEPT !.out = "config"]]
      BY <2>3, <2>4
    <3>2. CliInv' /\ \A q \in Clis : cli'[q].held = cli[q].held \/ DOMAIN cli'[q].held = {}
      BY <3>1, CliEnds
    <3>3. RowsInv'
      <4>1. Rows' = Rows
        BY <2>1 DEF Rows
      <4> QED BY <2>1, <3>2, <4>1 DEF RowsInv
    <3> QED BY <2>1, <2>2, <3>2, <3>3 DEF Grows
  <2>5. CASE PepperRead("load") # "error"
    <3> DEFINE pep == IF pepper = Absent THEN fresh ELSE pepper
    <3>1. PepperRead("load") \in {"create", "load"} /\ pep \in Peppers
      BY <2>5 DEF PepperRead, FrontTypes
    <3>2. /\ DOMAIN cli' = Clis /\ \A q \in Clis \ {p} : cli'[q] = cli[q]
          /\ cli'[p] = [pc |-> PepperRead("load"), cmd |-> c, pepper |-> pep, held |-> <<>>,
                        out |-> "running"]
      BY <2>3, <2>5 DEF IdleCli, CliInv
    <3> HIDE DEF pep
    <3>3. IsTable(<<>>) /\ DOMAIN <<>> = {}
      BY EmptyTable
    <3>4. CliInv'
      BY <3>1, <3>2, <3>3 DEF CliInv, CliPcs
    <3>5. RowsInv'
      <4>1. Rows' = Rows
        BY <2>1 DEF Rows
      <4>2. \A q \in Clis : cli'[q].held = cli[q].held \/ DOMAIN cli'[q].held = {}
        BY <3>2, <3>3
      <4> QED BY <2>1, <4>1, <4>2 DEF RowsInv
    <3> QED BY <2>1, <2>2, <3>4, <3>5 DEF Grows
  <2> QED BY <2>4, <2>5
<1>2. CASE CliWritesPepper(p)
  <2>1. store' = store /\ daemon' = daemon /\ bound' = bound /\ agents' = agents
        /\ minted' = minted /\ revoked' = revoked /\ Rows' = Rows
    BY <1>2 DEF CliWritesPepper, Rows
  <2>2. /\ pepper' \in Peppers \cup {Absent, Torn}
        /\ CliInv' /\ \A q \in Clis : cli'[q].held = cli[q].held \/ DOMAIN cli'[q].held = {}
    <3>1. CASE cli' = [cli EXCEPT ![p] = [IdleCli EXCEPT !.out = "config"]] /\ pepper' = pepper
      BY <3>1, CliEnds DEF FrontTypes
    <3>2. CASE ~(cli' = [cli EXCEPT ![p] = [IdleCli EXCEPT !.out = "config"]] /\ pepper' = pepper)
      BY <1>2, <3>2, CliFrame DEF CliWritesPepper, CliInv, CliPcs
    <3> QED BY <3>1, <3>2
  <2>3. FrontTypes'
    BY <2>1, <2>2 DEF FrontTypes
  <2>4. RowsInv'
    BY <2>1, <2>2 DEF RowsInv
  <2> QED BY <2>1, <2>2, <2>3, <2>4 DEF Grows
<1>3. CASE LoadStore(p)
  <2>1. /\ store' = store /\ pepper' = pepper /\ daemon' = daemon /\ bound' = bound
        /\ minted' = minted /\ revoked' = revoked /\ Rows' = Rows
        /\ agents' = IF cli[p].cmd.op = "mint" THEN agents \cup {cli[p].cmd.agent} ELSE agents
    BY <1>3 DEF LoadStore, Rows
  <2>2. /\ DOMAIN cli' = Clis /\ \A q \in Clis \ {p} : cli'[q] = cli[q]
        /\ cli'[p] \in [pc : CliPcs, cmd : {cli'[p].cmd}, pepper : {cli'[p].pepper},
                           held : {cli'[p].held}, out : {cli'[p].out}]
        /\ cli[p].pc = "load" /\ cli[p].cmd \in Commands
        /\ \/ cli'[p].pc = "idle" /\ DOMAIN cli'[p].held = {} /\ IsTable(cli'[p].held)
           \/ /\ cli'[p].pc = "truncate" /\ cli'[p].cmd = cli[p].cmd
              /\ cli'[p].pepper = cli[p].pepper /\ Loaded(p)
    BY <1>3, LoadCases
  <2>3. FrontTypes'
    BY <2>1, <2>2, FrontAssumption DEF FrontTypes
  <2>4. CliInv'
    BY <2>2 DEF CliInv, Loaded
  <2>5. RowsInv'
    <3>1. CASE DOMAIN cli'[p].held = {}
      BY <2>1, <2>2, <3>1 DEF RowsInv
    <3>2. CASE Loaded(p)
      <4>1. \A t \in DOMAIN cli'[p].held \cap DOMAIN minted : SameToken(cli'[p].held[t], minted[t])
        BY <3>2 DEF Loaded, RowsInv, SameToken
      <4>2. \A q \in Clis \ {p} :
                DOMAIN cli'[p].held \cap DOMAIN cli[q].held \subseteq DOMAIN minted
        BY <3>2 DEF Loaded, RowsInv
      <4> QED BY <2>1, <2>2, <4>1, <4>2 DEF RowsInv
    <3> QED BY <2>2, <3>1, <3>2
  <2> QED BY <2>1, <2>3, <2>4, <2>5 DEF Grows
<1>4. CASE TruncateStore(p)
  <2>1. /\ pepper' = pepper /\ daemon' = daemon /\ bound' = bound /\ agents' = agents
        /\ minted' = minted /\ revoked' = revoked /\ Rows' = <<>>
    BY <1>4 DEF TruncateStore, Rows
  <2>2. CliInv' /\ \A q \in Clis : cli'[q].held = cli[q].held
    BY <1>4, CliFrame DEF TruncateStore, CliPcs
  <2>3. FrontTypes'
    BY <2>1 DEF FrontTypes, IsTable
  <2>4. RowsInv'
    BY <2>1, <2>2 DEF RowsInv
  <2> QED BY <2>1, <2>2, <2>3, <2>4 DEF Grows
<1>5. CASE WriteStore(p)
  <2> DEFINE held == cli[p].held
  <2>1. /\ pepper' = pepper /\ daemon' = daemon /\ bound' = bound /\ agents' = agents
        /\ revoked' = revoked \cup Doomed(cli[p].cmd) /\ store' = held
        /\ minted' = [t \in DOMAIN minted \cup DOMAIN held |->
                        IF t \in DOMAIN minted THEN minted[t] ELSE held[t]]
        /\ cli' = [cli EXCEPT ![p] = [IdleCli EXCEPT !.out = "ok"]]
        /\ IsTable(held)
    BY <1>5 DEF WriteStore, CliInv
  <2>2. /\ CliInv' /\ DOMAIN cli'[p].held = {}
        /\ \A q \in Clis \ {p} : cli'[q] = cli[q]
    BY <2>1, CliEnds
  <2>3. Doomed(cli[p].cmd) \subseteq DOMAIN minted
    BY DEF Doomed
  <2>4. Rows' = <<>> \/ Rows' = held
    BY <2>1 DEF Rows
  <2> HIDE DEF held
  <2>5. /\ DOMAIN minted' = DOMAIN minted \cup DOMAIN held
        /\ \A t \in DOMAIN minted : minted'[t] = minted[t]
        /\ \A t \in DOMAIN held \ DOMAIN minted : minted'[t] = held[t]
    BY <2>1
  <2>6. IsTable(minted')
    <3>1. \A t \in DOMAIN minted' : minted'[t] \in TokenRow
      BY <2>1, <2>5 DEF FrontTypes, IsTable
    <3>2. minted' \in [DOMAIN minted' -> TokenRow]
      BY <2>1, <2>5, <3>1
    <3> QED BY <2>1, <2>5, <3>2 DEF FrontTypes, IsTable
  <2>7. IsTable(Rows')
    BY <2>1, <2>4, EmptyTable
  <2>8. FrontTypes'
    BY <2>1, <2>3, <2>5, <2>6, <2>7 DEF FrontTypes
  <2>9. RowsInv'
    <3>1. \A t \in DOMAIN held \cap DOMAIN minted : SameToken(held[t], minted[t])
      BY DEF RowsInv, held
    <3>2. \A t \in DOMAIN held : SameToken(held[t], minted'[t])
      BY <2>5, <3>1 DEF SameToken
    <3>3. \A t \in DOMAIN Rows' : t \in DOMAIN minted' /\ SameToken(Rows'[t], minted'[t])
      BY <2>4, <2>5, <3>2
    <3>4. \A q \in Clis \ {p} : DOMAIN cli[q].held \cap DOMAIN held \subseteq DOMAIN minted
      BY DEF RowsInv, held
    <3>5. \A q \in Clis \ {p} : \A t \in DOMAIN cli[q].held \cap DOMAIN minted' :
                SameToken(cli[q].held[t], minted'[t])
      BY <2>5, <3>4 DEF RowsInv
    <3> QED BY <2>2, <2>5, <3>3, <3>5 DEF RowsInv
  <2> QED BY <2>1, <2>2, <2>5, <2>8, <2>9 DEF Grows
<1>6. CASE WriteStoreFails(p)
  <2>1. /\ store' = store /\ pepper' = pepper /\ daemon' = daemon /\ bound' = bound
        /\ agents' = agents /\ minted' = minted /\ revoked' = revoked /\ Rows' = Rows
        /\ cli' = [cli EXCEPT ![p] = [IdleCli EXCEPT !.out = "config"]]
    BY <1>6 DEF WriteStoreFails, Rows
  <2>2. /\ CliInv' /\ DOMAIN cli'[p].held = {}
        /\ \A q \in Clis \ {p} : cli'[q] = cli[q]
    BY <2>1, CliEnds
  <2>3. FrontTypes'
    BY <2>1 DEF FrontTypes
  <2>4. RowsInv'
    BY <2>1, <2>2 DEF RowsInv
  <2> QED BY <2>1, <2>2, <2>3, <2>4 DEF Grows
<1> QED BY <1>1, <1>2, <1>3, <1>4, <1>5, <1>6 DEF CommandStep

-----------------------------------------------------------------------------
(* Requests *)

\* Who a request is, once it has been authenticated: the anonymous bridge, or
\* the token it presented, and a proxy has named its user.
Identified(r) ==
    LET in == req[r].in
        row == req[r].row
    IN  \/ row = None /\ in.auth = "none" /\ Config.anon
        \/ /\ row # None /\ in.auth \in DOMAIN minted /\ SameToken(row, minted[in.auth])
           /\ row.proxy /\ Config.trustProxy => in.hdrUser # ""

\* The types of a request and what is known of it on its way.
RequestInv ==
    /\ DOMAIN req = Reqs
    /\ \A r \in Reqs :
        /\ req[r] \in [pc : ReqPcs, in : {req[r].in}, row : {req[r].row}, out : {req[r].out},
                       known : {req[r].known}, dead : {req[r].dead}, torn : {req[r].torn}]
        /\ req[r].pc # "new" => req[r].in \in Inputs /\ ValidateHTTPConfig(Config)
        /\ req[r].pc = "auth" => req[r].row = None
        /\ req[r].pc \in {"limit", "bind"} => Identified(r)

\* A request whose slot is left alone stays what it was, whatever is minted.
LEMMA IdentityKept ==
    ASSUME RequestInv, IdentityFromToken, Grows(minted, minted'), NEW r \in Reqs, req'[r] = req[r]
    PROVE  /\ req'[r] \in [pc : ReqPcs, in : {req'[r].in}, row : {req'[r].row},
                           out : {req'[r].out}, known : {req'[r].known},
                           dead : {req'[r].dead}, torn : {req'[r].torn}]
           /\ req'[r].pc # "new" => req'[r].in \in Inputs /\ ValidateHTTPConfig(Config)
           /\ req'[r].pc = "auth" => req'[r].row = None
           /\ req'[r].pc \in {"limit", "bind"} => Identified(r)'
           /\ Served(r)' =>
                LET in == req'[r].in
                    out == req'[r].out
                IN  \/ in.auth = "none" /\ Config.anon /\ Config.loopback
                    \/ /\ in.auth \in DOMAIN minted'
                       /\ LET m == minted'[in.auth]
                          IN  \/ /\ m.proxy /\ Config.trustProxy
                                 /\ out.user = in.hdrUser /\ out.user # ""
                              \/ out.agent = m.agent /\ out.user = m.user
<1>1. req'[r].pc \in {"limit", "bind"} => Identified(r)'
  BY DEF RequestInv, Identified, Grows
<1>2. Served(r)' => Served(r)
  BY DEF Served
<1> QED BY <1>1, <1>2 DEF RequestInv, IdentityFromToken, Grows

\* Steps that leave the requests alone.
LEMMA RequestFrame ==
    ASSUME RequestInv, IdentityFromToken, Grows(minted, minted'), req' = req
    PROVE  RequestInv' /\ IdentityFromToken'
<1>1. DOMAIN req' = Reqs
  BY DEF RequestInv
<1> QED BY <1>1, IdentityKept DEF RequestInv, IdentityFromToken

\* A step of request r that takes its slot to the record q.
LEMMA RequestSlot ==
    ASSUME RequestInv, IdentityFromToken, minted' = minted, NEW r \in Reqs, NEW q,
           req' = [req EXCEPT ![r] = q],
           q \in [pc : ReqPcs, in : {q.in}, row : {q.row}, out : {q.out},
                  known : {q.known}, dead : {q.dead}, torn : {q.torn}],
           q.pc # "new", q.in \in Inputs, ValidateHTTPConfig(Config),
           q.pc = "auth" => q.row = None,
           q.pc \in {"limit", "bind"} => Identified(r)',
           (q.pc = "done" /\ q.out.ok) =>
                \/ q.in.auth = "none" /\ Config.anon /\ Config.loopback
                \/ /\ q.in.auth \in DOMAIN minted
                   /\ \/ /\ minted[q.in.auth].proxy /\ Config.trustProxy
                         /\ q.out.user = q.in.hdrUser /\ q.out.user # ""
                      \/ /\ q.out.agent = minted[q.in.auth].agent
                         /\ q.out.user = minted[q.in.auth].user
    PROVE  RequestInv' /\ IdentityFromToken'
<1>1. DOMAIN req' = Reqs /\ req'[r] = q /\ \A i \in Reqs \ {r} : req'[i] = req[i]
  BY DEF RequestInv
<1>2. Grows(minted, minted')
  BY DEF Grows
<1>3. Served(r)' <=> q.pc = "done" /\ q.out.ok
  BY <1>1 DEF Served
<1>4. RequestInv'
  BY <1>1, <1>2, IdentityKept DEF RequestInv
<1>5. IdentityFromToken'
  <2>1. SUFFICES ASSUME NEW i \in Reqs, Served(i)'
                 PROVE  LET in == req'[i].in
                            out == req'[i].out
                        IN  \/ in.auth = "none" /\ Config.anon /\ Config.loopback
                            \/ /\ in.auth \in DOMAIN minted'
                               /\ LET m == minted'[in.auth]
                                  IN  \/ /\ m.proxy /\ Config.trustProxy
                                         /\ out.user = in.hdrUser /\ out.user # ""
                                      \/ out.agent = m.agent /\ out.user = m.user
    BY DEF IdentityFromToken
  <2>2. CASE i = r
    BY <1>1, <1>3, <2>1, <2>2
  <2>3. CASE i # r
    BY <1>1, <1>2, <2>1, <2>3, IdentityKept
  <2> QED BY <2>2, <2>3
<1> QED BY <1>4, <1>5

\* The answer of a request under way is a step of its slot.
LEMMA ReplySlot ==
    ASSUME RequestInv, NEW r \in Reqs, NEW out, Reply(r, out)
    PROVE  \E q : /\ req' = [req EXCEPT ![r] = q]
                  /\ q \in [pc : ReqPcs, in : {q.in}, row : {q.row}, out : {q.out},
                            known : {q.known}, dead : {q.dead}, torn : {q.torn}]
                  /\ q.pc = "done" /\ q.in = req[r].in /\ q.out = out
                  /\ q.known = req[r].known /\ q.dead = req[r].dead
<1> DEFINE q == [req[r] EXCEPT !.pc = "done", !.out = out]
<1>1. req' = [req EXCEPT ![r] = q]
  BY DEF Reply, RequestInv
<1>2. /\ q \in [pc : ReqPcs, in : {q.in}, row : {q.row}, out : {q.out},
                known : {q.known}, dead : {q.dead}, torn : {q.torn}]
      /\ q.pc = "done" /\ q.in = req[r].in /\ q.out = out
      /\ q.known = req[r].known /\ q.dead = req[r].dead
  BY DEF RequestInv, ReqPcs
<1> HIDE DEF q
<1> QED BY <1>1, <1>2

\* A refusal serves nobody.
LEMMA Refusal ==
    ASSUME RequestInv, IdentityFromToken, minted' = minted, NEW r \in Reqs, NEW code,
           req[r].pc # "new", Reply(r, Denied(code))
    PROVE  RequestInv' /\ IdentityFromToken'
<1>1. PICK q : /\ req' = [req EXCEPT ![r] = q]
               /\ q \in [pc : ReqPcs, in : {q.in}, row : {q.row}, out : {q.out},
                         known : {q.known}, dead : {q.dead}, torn : {q.torn}]
               /\ q.pc = "done" /\ q.in = req[r].in /\ q.out = Denied(code)
               /\ q.known = req[r].known /\ q.dead = req[r].dead
  BY ReplySlot
<1>2. ~q.out.ok
  BY <1>1 DEF Denied
<1>3. q.pc # "new" /\ q.pc \notin {"limit", "bind"} /\ q.in \in Inputs /\ ValidateHTTPConfig(Config)
  BY <1>1 DEF RequestInv
<1> QED BY <1>1, <1>2, <1>3, RequestSlot

\* A new request is what the throttle makes of it.
LEMMA ThrottleStep ==
    ASSUME StoreInv, RequestInv, IdentityFromToken, NEW r \in Reqs, Throttle(r)
    PROVE  RequestInv' /\ IdentityFromToken'
<1>1. PICK in \in Inputs : req' = [req EXCEPT ![r] =
                    IF Admits(<<"ip", in.ip>>)
                    THEN [Fresh EXCEPT !.pc = "auth", !.in = in,
                                       !.known = in.auth \in DOMAIN minted,
                                       !.dead = in.auth \in revoked]
                    ELSE [Fresh EXCEPT !.pc = "done", !.in = in, !.out = Denied("rate")]]
  BY DEF Throttle
<1>2. minted' = minted /\ ValidateHTTPConfig(Config)
  BY DEF Throttle, tokVars, StoreInv, FrontTypes
<1>3. CASE Admits(<<"ip", in.ip>>)
  <2> DEFINE q == [Fresh EXCEPT !.pc = "auth", !.in = in,
                                       !.known = in.auth \in DOMAIN minted,
                                       !.dead = in.auth \in revoked]
  <2>1. req' = [req EXCEPT ![r] = q]
    BY <1>1, <1>3
  <2>2. /\ q \in [pc : ReqPcs, in : {q.in}, row : {q.row}, out : {q.out},
                  known : {q.known}, dead : {q.dead}, torn : {q.torn}]
        /\ q.pc = "auth" /\ q.in = in /\ q.row = None
    BY DEF Fresh, ReqPcs
  <2> HIDE DEF q
  <2>3. /\ q.pc # "new" /\ q.in \in Inputs
        /\ q.pc \in {"limit", "bind"} => Identified(r)'
        /\ ~(q.pc = "done" /\ q.out.ok)
    BY <2>2
  <2> QED BY <1>2, <2>1, <2>2, <2>3, RequestSlot
<1>4. CASE ~Admits(<<"ip", in.ip>>)
  <2> DEFINE q == [Fresh EXCEPT !.pc = "done", !.in = in, !.out = Denied("rate")]
  <2>1. req' = [req EXCEPT ![r] = q]
    BY <1>1, <1>4
  <2>2. /\ q \in [pc : ReqPcs, in : {q.in}, row : {q.row}, out : {q.out},
                  known : {q.known}, dead : {q.dead}, torn : {q.torn}]
        /\ q.pc = "done" /\ q.in = in /\ q.out = Denied("rate")
    BY DEF Fresh, ReqPcs
  <2> HIDE DEF q
  <2>3. /\ q.pc # "new" /\ q.in \in Inputs
        /\ q.pc \in {"limit", "bind"} => Identified(r)'
        /\ ~(q.pc = "done" /\ q.out.ok)
    BY <2>2 DEF Denied
  <2> QED BY <1>2, <2>1, <2>2, <2>3, RequestSlot
<1> QED BY <1>3, <1>4

\* Only the active row of the presented token authenticates.
LEMMA ResolvedRow ==
    ASSUME StoreInv, NEW t, NEW pep, ResolveFull(t, pep) # None
    PROVE  /\ t \in DOMAIN Rows /\ t \in DOMAIN minted /\ ResolveFull(t, pep) = Rows[t]
           /\ SameToken(Rows[t], minted[t])
           /\ ~Rows[t].revoked
BY DEF ResolveFull, StoreInv, RowsInv

\* An authenticated request is the token it presented, or the bridge.
LEMMA AuthenticateStep ==
    ASSUME StoreInv, RequestInv, IdentityFromToken, NEW r \in Reqs, Authenticate(r)
    PROVE  RequestInv' /\ IdentityFromToken'
<1> DEFINE in == req[r].in
           row == IF in.auth \in Ids THEN ResolveFull(in.auth, daemon.pepper) ELSE None
           proxied == row # None /\ row.proxy /\ Config.trustProxy
<1>1. /\ req[r].pc = "auth" /\ minted' = minted /\ DOMAIN req = Reqs
      /\ in \in Inputs /\ ValidateHTTPConfig(Config)
      /\ req[r] \in [pc : ReqPcs, in : {req[r].in}, row : {req[r].row}, out : {req[r].out},
                     known : {req[r].known}, dead : {req[r].dead}, torn : {req[r].torn}]
  BY DEF Authenticate, tokVars, RequestInv
<1>2. \/ /\ row # None /\ (proxied => in.hdrUser # "")
         /\ req' = [req EXCEPT ![r].pc = "limit", ![r].row = row]
      \/ \E code : Reply(r, Denied(code))
      \/ req' = [req EXCEPT ![r].pc = "done", ![r].out = Denied("invalid_token"),
                            ![r].torn = store = Torn]
      \/ /\ in.auth = "none" /\ Config.anon
         /\ req' = [req EXCEPT ![r].pc = "limit"]
  BY DEF Authenticate
<1>3. CASE /\ row # None /\ (proxied => in.hdrUser # "")
           /\ req' = [req EXCEPT ![r].pc = "limit", ![r].row = row]
  <2> DEFINE q == [req[r] EXCEPT !.pc = "limit", !.row = row]
  <2>1. /\ row = Rows[in.auth] /\ in.auth \in DOMAIN minted
        /\ SameToken(row, minted[in.auth])
    BY <1>3, ResolvedRow
  <2>2. row # None /\ (row.proxy /\ Config.trustProxy => in.hdrUser # "")
    BY <1>3
  <2> HIDE DEF row, in
  <2>3. req' = [req EXCEPT ![r] = q]
    BY <1>3
  <2>4. /\ q \in [pc : ReqPcs, in : {q.in}, row : {q.row}, out : {q.out},
                  known : {q.known}, dead : {q.dead}, torn : {q.torn}]
        /\ q.pc = "limit" /\ q.in = in /\ q.row = row
    BY <1>1 DEF ReqPcs, in
  <2> HIDE DEF q
  <2>5. req'[r] = q
    BY <1>1, <2>3
  <2>6. Identified(r)'
    BY <1>1, <2>1, <2>2, <2>4, <2>5 DEF Identified
  <2> QED BY <1>1, <2>3, <2>4, <2>6, RequestSlot
<1>4. CASE \E code : Reply(r, Denied(code))
  <2>1. PICK code : Reply(r, Denied(code))
    BY <1>4
  <2> QED BY <1>1, <2>1, Refusal
<1>5. CASE req' = [req EXCEPT ![r].pc = "done", ![r].out = Denied("invalid_token"),
                              ![r].torn = store = Torn]
  <2> DEFINE q == [req[r] EXCEPT !.pc = "done", !.out = Denied("invalid_token"),
                                 !.torn = store = Torn]
  <2>1. req' = [req EXCEPT ![r] = q]
    BY <1>5
  <2>2. /\ q \in [pc : ReqPcs, in : {q.in}, row : {q.row}, out : {q.out},
                  known : {q.known}, dead : {q.dead}, torn : {q.torn}]
        /\ q.pc = "done" /\ q.in = in /\ q.out = Denied("invalid_token")
    BY <1>1 DEF ReqPcs
  <2> HIDE DEF q
  <2>3. ~q.out.ok
    BY <2>2 DEF Denied
  <2> QED BY <1>1, <2>1, <2>2, <2>3, RequestSlot
<1>6. CASE /\ in.auth = "none" /\ Config.anon
           /\ req' = [req EXCEPT ![r].pc = "limit"]
  <2> DEFINE q == [req[r] EXCEPT !.pc = "limit"]
  <2>1. req' = [req EXCEPT ![r] = q]
    BY <1>6
  <2>2. /\ q \in [pc : ReqPcs, in : {q.in}, row : {q.row}, out : {q.out},
                  known : {q.known}, dead : {q.dead}, torn : {q.torn}]
        /\ q.pc = "limit" /\ q.in = in /\ q.row = None
    BY <1>1 DEF ReqPcs, RequestInv
  <2> HIDE DEF q
  <2>3. req'[r] = q
    BY <1>1, <2>1
  <2>4. Identified(r)'
    BY <1>1, <1>6, <2>2, <2>3 DEF Identified
  <2> QED BY <1>1, <2>1, <2>2, <2>4, RequestSlot
<1> QED BY <1>2, <1>3, <1>4, <1>5, <1>6

\* The second meter lets the request pass as it is, or refuses it.
LEMMA LimitStep ==
    ASSUME StoreInv, RequestInv, IdentityFromToken, NEW r \in Reqs, Limit(r)
    PROVE  RequestInv' /\ IdentityFromToken'
<1>1. /\ req[r].pc = "limit" /\ minted' = minted /\ DOMAIN req = Reqs
      /\ req[r].in \in Inputs /\ ValidateHTTPConfig(Config) /\ Identified(r)
      /\ req[r] \in [pc : ReqPcs, in : {req[r].in}, row : {req[r].row}, out : {req[r].out},
                     known : {req[r].known}, dead : {req[r].dead}, torn : {req[r].torn}]
  BY DEF Limit, tokVars, RequestInv
<1>2. req' = [req EXCEPT ![r].pc = "bind"] \/ Reply(r, Denied("rate"))
  BY DEF Limit
<1>3. CASE req' = [req EXCEPT ![r].pc = "bind"]
  <2> DEFINE q == [req[r] EXCEPT !.pc = "bind"]
  <2>1. req' = [req EXCEPT ![r] = q]
    BY <1>3
  <2>2. /\ q \in [pc : ReqPcs, in : {q.in}, row : {q.row}, out : {q.out},
                  known : {q.known}, dead : {q.dead}, torn : {q.torn}]
        /\ q.pc = "bind" /\ q.in = req[r].in /\ q.row = req[r].row
    BY <1>1 DEF ReqPcs
  <2> HIDE DEF q
  <2>3. req'[r] = q
    BY <1>1, <2>1
  <2>4. Identified(r)'
    BY <1>1, <2>2, <2>3 DEF Identified
  <2> QED BY <1>1, <2>1, <2>2, <2>4, RequestSlot
<1>4. CASE Reply(r, Denied("rate"))
  BY <1>1, <1>4, Refusal
<1> QED BY <1>2, <1>3, <1>4

\* What is handed to the broker is bound to the token.
LEMMA BindStep ==
    ASSUME StoreInv, RequestInv, IdentityFromToken, NEW r \in Reqs, Bind(r)
    PROVE  RequestInv' /\ IdentityFromToken'
<1> DEFINE in == req[r].in
           row == req[r].row
           proxied == row # None /\ row.proxy /\ Config.trustProxy
           agent == IF row = None \/ proxied THEN in.agent ELSE row.agent
           user == CASE row = None -> in.user [] proxied -> in.hdrUser [] OTHER -> row.user
           out == [ok |-> TRUE, agent |-> agent, user |-> user]
<1>1. /\ req[r].pc = "bind" /\ minted' = minted
      /\ in \in Inputs /\ ValidateHTTPConfig(Config) /\ Identified(r)
  BY DEF Bind, tokVars, RequestInv
<1>2. \/ \E code : Reply(r, Denied(code))
      \/ Reply(r, out)
  BY DEF Bind
<1>3. CASE \E code : Reply(r, Denied(code))
  <2>1. PICK code : Reply(r, Denied(code))
    BY <1>3
  <2> QED BY <1>1, <2>1, Refusal
<1>4. CASE Reply(r, out)
  <2>1. \/ in.auth = "none" /\ Config.anon /\ Config.loopback
        \/ /\ in.auth \in DOMAIN minted
           /\ \/ /\ minted[in.auth].proxy /\ Config.trustProxy
                 /\ user = in.hdrUser /\ user # ""
              \/ agent = minted[in.auth].agent /\ user = minted[in.auth].user
    <3>1. CASE row = None
      BY <1>1, <3>1 DEF Identified, ValidateHTTPConfig
    <3>2. CASE row # None
      BY <1>1, <3>2 DEF Identified, SameToken
    <3> QED BY <3>1, <3>2
  <2>2. out.agent = agent /\ out.user = user
    OBVIOUS
  <2> HIDE DEF out, agent, user
  <2>3. PICK q : /\ req' = [req EXCEPT ![r] = q]
                 /\ q \in [pc : ReqPcs, in : {q.in}, row : {q.row}, out : {q.out},
                           known : {q.known}, dead : {q.dead}, torn : {q.torn}]
                 /\ q.pc = "done" /\ q.in = req[r].in /\ q.out = out
                 /\ q.known = req[r].known /\ q.dead = req[r].dead
    BY <1>4, ReplySlot
  <2>4. /\ q.pc # "new" /\ q.pc # "auth" /\ q.pc \notin {"limit", "bind"}
        /\ q.in \in Inputs
    BY <1>1, <2>3
  <2> QED BY <1>1, <2>1, <2>2, <2>3, <2>4, RequestSlot
<1> QED BY <1>2, <1>3, <1>4

-----------------------------------------------------------------------------
(* The limiter's refinement, and the identity of a request *)

\* The steps of the system, for the lemmas that follow.
LEMMA NextCases ==
    ASSUME [Next]_vars
    PROVE  \/ DaemonReadsPepper \/ DaemonWritesPepper \/ Clock \/ UNCHANGED vars
           \/ \E p \in Clis : CommandStep(p)
           \/ \E r \in Reqs : Throttle(r) \/ Authenticate(r) \/ Limit(r) \/ Bind(r)
BY DEF Next, CommandStep

\* A step keeps the invariant of the store, and binds no token anew.
LEMMA StoreStep ==
    ASSUME StoreInv, [Next]_vars
    PROVE  StoreInv' /\ Grows(minted, minted') /\ revoked \subseteq revoked'
<1>1. CASE \E p \in Clis : CommandStep(p)
  BY <1>1, StoreCommand
<1>2. CASE \/ DaemonReadsPepper \/ DaemonWritesPepper \/ Clock
           \/ \E r \in Reqs : Throttle(r) \/ Authenticate(r) \/ Limit(r) \/ Bind(r)
           \/ UNCHANGED vars
  BY <1>2, StoreDaemon DEF Grows
<1> QED BY <1>1, <1>2, NextCases

\* A step keeps what is known of the requests.
LEMMA RequestStep ==
    ASSUME StoreInv, RequestInv, IdentityFromToken, [Next]_vars
    PROVE  RequestInv' /\ IdentityFromToken'
<1>1. CASE req' = req
  BY <1>1, StoreStep, RequestFrame
<1>2. CASE \E r \in Reqs : Throttle(r) \/ Authenticate(r) \/ Limit(r) \/ Bind(r)
  BY <1>2, ThrottleStep, AuthenticateStep, LimitStep, BindStep
<1>3. ASSUME DaemonReadsPepper \/ DaemonWritesPepper \/ Clock \/ UNCHANGED vars
      PROVE  req' = req
  BY <1>3 DEF DaemonReadsPepper, DaemonWritesPepper, Clock, vars
<1>4. ASSUME NEW p \in Clis, CommandStep(p)
      PROVE  req' = req
  BY <1>4 DEF CommandStep, runAgentToken, CliWritesPepper, LoadStore, TruncateStore,
              WriteStore, WriteStoreFails
<1> QED BY <1>1, <1>2, <1>3, <1>4, NextCases

\* The limiter sees requests by their address and by the prefix of their token.
LEMMA LimitKeys ==
    ASSUME StoreInv, RequestInv, NEW r \in Reqs, Throttle(r) \/ Limit(r)
    PROVE  \E k \in Keys : allow(k)
<1>1. CASE Throttle(r)
  BY <1>1, FrontAssumption DEF Throttle
<1>2. CASE Limit(r)
  <2>1. req[r].in \in Inputs
    BY <1>2 DEF Limit, RequestInv
  <2> QED BY <1>2, <2>1, FrontAssumption DEF Limit
<1> QED BY <1>1, <1>2

\* Every step is a step of the ideal limiter, or none at all.
LEMMA LimiterStep ==
    ASSUME LimInv, StoreInv, RequestInv, [Next]_vars
    PROVE  LimInv' /\ [Ideal!INext]_<<now, [k \in Keys |-> Tokens(k)], seen>>
<1>1. CASE UNCHANGED limVars
  <2>1. LimInv'
    BY <1>1 DEF limVars, LimInv
  <2>2. \A k \in Keys : Tokens(k)' = Tokens(k)
    BY <1>1 DEF limVars, Tokens
  <2>3. UNCHANGED <<now, [k \in Keys |-> Tokens(k)], seen>>
    BY <1>1, <2>2 DEF limVars
  <2> QED BY <2>1, <2>3
<1>2. CASE Tick
  BY <1>2, TickRefines DEF Ideal!INext
<1>3. CASE \E k \in Keys : allow(k)
  <2>1. PICK k \in Keys : allow(k)
    BY <1>3
  <2>2. LimInv' /\ (Ideal!IRequest(k) \/ Ideal!IAmnesty(k))
    BY <2>1, AllowInv, AllowRefines
  <2> QED BY <2>2 DEF Ideal!INext
<1>4. ASSUME DaemonReadsPepper \/ DaemonWritesPepper \/ UNCHANGED vars
      PROVE  UNCHANGED limVars
  BY <1>4 DEF DaemonReadsPepper, DaemonWritesPepper, vars, limVars
<1>5. ASSUME NEW p \in Clis, CommandStep(p)
      PROVE  UNCHANGED limVars
  BY <1>5 DEF CommandStep, runAgentToken, CliWritesPepper, LoadStore, TruncateStore,
              WriteStore, WriteStoreFails
<1>6. ASSUME NEW r \in Reqs, Authenticate(r) \/ Bind(r)
      PROVE  UNCHANGED limVars
  BY <1>6 DEF Authenticate, Bind
<1>7. Clock => Tick
  BY DEF Clock
<1> QED BY <1>1, <1>2, <1>3, <1>4, <1>5, <1>6, <1>7, LimitKeys, NextCases

\* The invariant behind both theorems.
FrontInv == LimInv /\ StoreInv /\ RequestInv /\ IdentityFromToken

\* It holds at the start, where the buckets are those of the ideal limiter.
LEMMA FrontInit == Init => FrontInv /\ Ideal!IInit
<1> SUFFICES ASSUME Init PROVE FrontInv /\ Ideal!IInit
  OBVIOUS
<1>1. now = 0 /\ buckets = <<>> /\ seen = [k \in Keys |-> -1]
  BY DEF Init, newRateLimiter
<1>2. DOMAIN buckets = {} /\ Cardinality(DOMAIN buckets) = 0
  BY <1>1, FS_EmptySet
<1>3. LimInv
  BY <1>1, <1>2, LimiterAssumption DEF LimInv
<1>4. \A k \in Keys : Tokens(k) = Burst
  BY <1>2 DEF Tokens
<1>5. Ideal!IInit
  BY <1>1, <1>4 DEF Ideal!IInit
<1>6. RequestInv /\ IdentityFromToken
  BY DEF Init, Fresh, RequestInv, ReqPcs, IdentityFromToken, Served
<1> QED BY <1>3, <1>5, <1>6, StoreInit DEF FrontInv

\* The invariant is inductive.
LEMMA FrontStep == FrontInv /\ [Next]_vars => FrontInv'
BY LimiterStep, StoreStep, RequestStep DEF FrontInv

\* The table of buckets, whatever is evicted from it and when, is the limiter
\* that forgets nobody, up to the amnesty of a table full of busy keys
\* (allow, evictIdle).
THEOREM LimiterIdeal == Spec => LimiterRefinesIdeal
<1>1. FrontInv /\ [Next]_vars => [Ideal!INext]_<<now, [k \in Keys |-> Tokens(k)], seen>>
  BY LimiterStep DEF FrontInv
<1> QED BY <1>1, FrontInit, FrontStep, PTL DEF Spec, LimiterRefinesIdeal, Ideal!ISpec

\* Whoever mints, revokes, rotates or tears the store meanwhile, the identity
\* the broker is handed is the presented token's, a trusted proxy's user, or
\* that of the loopback bridge (handleActions, MintWith, ResolveFull).
THEOREM Identity == Spec => []IdentityFromToken
<1>1. FrontInv => IdentityFromToken
  BY DEF FrontInv
<1> QED BY <1>1, FrontInit, FrontStep, PTL DEF Spec

-----------------------------------------------------------------------------
(* Tokens work from their mint to their revocation *)

\* An agent has one live row.
Single(rows) == \A t, u \in DOMAIN rows :
    (rows[t].agent = rows[u].agent /\ ~rows[t].revoked /\ ~rows[u].revoked) => t = u

\* While commands take turns, exactly what was revoked is revoked in the store,
\* and what a command has in hand has its own victims revoked besides.
SerialInv == ~overlap =>
    /\ \A p, q \in Working : p = q
    /\ \A t \in DOMAIN Rows : Rows[t].revoked <=> t \in revoked
    /\ \A p \in Working : \A t \in DOMAIN cli[p].held :
            cli[p].held[t].revoked <=> (t \in revoked \/ t \in Doomed(cli[p].cmd))
    /\ Single(Rows) /\ \A p \in Working : Single(cli[p].held)

\* While commands take turns and no write fails, no token is missing, and the
\* store is torn only under a writer.
CompleteInv == ~overlap /\ ~failed =>
    /\ store # Torn => DOMAIN minted \subseteq DOMAIN Rows
    /\ store = Torn => \E p \in Clis : cli[p].pc = "write"
    /\ \A p \in Working : DOMAIN minted \subseteq DOMAIN cli[p].held

\* Until two processes create the pepper at once, there is one: nobody has
\* another one, and nobody has any while it is being made.
PepperInv == ~raced =>
    /\ \A p, q \in Clis : cli[p].pc \in {"create", "fill"} /\ cli[q].pc \in {"create", "fill"}
            => p = q
    /\ daemon.pc \in {"create", "fill"} => \A p \in Clis : cli[p].pc \notin {"create", "fill"}
    /\ daemon.pc = "create" => pepper = Absent
    /\ daemon.pc = "fill" => pepper = Torn
    /\ daemon.pc = "serving" => pepper \in Peppers /\ daemon.pepper = pepper
    /\ \A p \in Clis :
        /\ cli[p].pc = "create" => pepper = Absent
        /\ cli[p].pc = "fill" => pepper = Torn
        /\ cli[p].pc \in {"load", "truncate", "write"} =>
                pepper \in Peppers /\ cli[p].pepper = pepper
        /\ \A t \in DOMAIN cli[p].held : cli[p].held[t].pepper = pepper
    /\ \A t \in DOMAIN minted : pepper \in Peppers /\ minted[t].pepper = pepper

\* A request is served by a daemon that has its pepper; what it noted of its
\* token when it came stays true.
NotedInv == \A r \in Reqs :
    /\ req[r].pc # "new" => daemon.pc = "serving"
    /\ req[r].known => req[r].in.auth \in DOMAIN minted
    /\ req[r].dead => req[r].in.auth \in revoked
    /\ req[r].dead /\ ~overlap => req[r].pc \notin {"limit", "bind"} /\ ~Served(r)

\* The inductive invariant of the tokens.
TokenInv == FrontInv /\ SerialInv /\ CompleteInv /\ PepperInv /\ NotedInv /\ MintedResolves

\* The variables a command's bookkeeping is about.
ledger == <<store, minted, revoked, overlap, failed>>

\* A command that begins, or refuses to.
LEMMA RunEffect ==
    ASSUME StoreInv, NEW p \in Clis, runAgentToken(p)
    PROVE  /\ \A q \in Clis \ {p} : cli'[q] = cli[q]
           /\ cli[p].pc = "idle" /\ DOMAIN cli'[p].held = {}
           /\ UNCHANGED <<ledger, pepper, daemon, req>>
           /\ raced' <=> (raced \/ (pepper = Absent /\ Creating # {}))
           /\ \/ cli'[p].pc = "idle"
              \/ cli'[p].pc = "create" /\ pepper = Absent
              \/ cli'[p].pc = "load" /\ pepper \in Peppers /\ cli'[p].pepper = pepper
<1>1. PICK c \in Commands, fresh \in Peppers :
        cli' = [cli EXCEPT ![p] =
            IF PepperRead("load") = "error" THEN [IdleCli EXCEPT !.out = "config"]
            ELSE [IdleCli EXCEPT !.pc = PepperRead("load"), !.cmd = c, !.out = "running",
                                 !.pepper = IF pepper = Absent THEN fresh ELSE pepper]]
  BY DEF runAgentToken
<1>2. /\ cli[p].pc = "idle" /\ UNCHANGED <<ledger, pepper, daemon, req>> /\ DOMAIN cli = Clis
      /\ raced' <=> (raced \/ (pepper = Absent /\ Creating # {}))
  BY DEF runAgentToken, ledger, StoreInv, CliInv
<1>3. CASE PepperRead("load") = "error"
  <2>1. cli'[p] = [IdleCli EXCEPT !.out = "config"] /\ \A q \in Clis \ {p} : cli'[q] = cli[q]
    BY <1>1, <1>2, <1>3
  <2>2. cli'[p].pc = "idle" /\ cli'[p].held = <<>>
    BY <2>1 DEF IdleCli
  <2> QED BY <1>2, <2>1, <2>2, EmptyTable
<1>4. CASE PepperRead("load") # "error"
  <2>1. /\ cli'[p] = [IdleCli EXCEPT !.pc = PepperRead("load"), !.cmd = c, !.out = "running",
                                 !.pepper = IF pepper = Absent THEN fresh ELSE pepper]
        /\ \A q \in Clis \ {p} : cli'[q] = cli[q]
    BY <1>1, <1>2, <1>4
  <2>2. /\ cli'[p].pc = PepperRead("load") /\ cli'[p].held = <<>>
        /\ cli'[p].pepper = IF pepper = Absent THEN fresh ELSE pepper
    BY <2>1 DEF IdleCli
  <2>3. \/ PepperRead("load") = "create" /\ pepper = Absent
        \/ PepperRead("load") = "load" /\ pepper \in Peppers /\ pepper # Absent
    BY <1>4 DEF PepperRead, StoreInv, FrontTypes
  <2> QED BY <1>2, <2>1, <2>2, <2>3, EmptyTable
<1> QED BY <1>3, <1>4

\* A command that creates the pepper.
LEMMA PepperEffect ==
    ASSUME StoreInv, NEW p \in Clis, CliWritesPepper(p)
    PROVE  /\ \A q \in Clis \ {p} : cli'[q] = cli[q]
           /\ DOMAIN cli'[p].held = {}
           /\ UNCHANGED <<ledger, daemon, req, raced>>
           /\ \/ cli[p].pc = "create" /\ cli'[p].pc = "fill" /\ pepper' = Torn
              \/ /\ cli[p].pc = "fill" /\ cli'[p].pc = "load"
                 /\ cli'[p].pepper = cli[p].pepper
                 /\ pepper' = cli[p].pepper /\ cli[p].pepper \in Peppers
              \/ cli[p].pc \in {"create", "fill"} /\ cli'[p].pc = "idle" /\ pepper' = pepper
<1>1. /\ DOMAIN cli = Clis
      /\ cli[p].pc # "idle" => cli[p].pepper \in Peppers
      /\ cli[p].pc \notin {"truncate", "write"} => DOMAIN cli[p].held = {}
      /\ cli[p] \in [pc : CliPcs, cmd : {cli[p].cmd}, pepper : {cli[p].pepper},
                     held : {cli[p].held}, out : {cli[p].out}]
  BY DEF StoreInv, CliInv
<1>2. CASE cli' = [cli EXCEPT ![p] = [IdleCli EXCEPT !.out = "config"]] /\ pepper' = pepper
           /\ cli[p].pc \in {"create", "fill"}
  <2>1. CliInv
    BY DEF StoreInv
  <2> QED BY <1>2, <2>1, CliEnds DEF CliWritesPepper, ledger
<1>3. CASE ~(cli' = [cli EXCEPT ![p] = [IdleCli EXCEPT !.out = "config"]] /\ pepper' = pepper
             /\ cli[p].pc \in {"create", "fill"})
  BY <1>1, <1>3 DEF CliWritesPepper, ledger
<1> QED BY <1>2, <1>3

\* The truncation of the store.
LEMMA TruncateEffect ==
    ASSUME StoreInv, NEW p \in Clis, TruncateStore(p)
    PROVE  /\ \A q \in Clis \ {p} : cli'[q] = cli[q]
           /\ cli'[p].held = cli[p].held /\ cli'[p].pepper = cli[p].pepper
           /\ cli'[p].cmd = cli[p].cmd
           /\ cli[p].pc = "truncate" /\ cli'[p].pc = "write"
           /\ store' = Torn /\ Rows' = <<>>
           /\ UNCHANGED <<minted, revoked, overlap, failed, pepper, daemon, req, raced>>
<1>1. /\ DOMAIN cli = Clis
      /\ cli[p] \in [pc : CliPcs, cmd : {cli[p].cmd}, pepper : {cli[p].pepper},
                     held : {cli[p].held}, out : {cli[p].out}]
  BY DEF StoreInv, CliInv
<1> QED BY <1>1 DEF TruncateStore, Rows

\* The write of the store: what was in hand is the store, and what was new in
\* it is minted.
LEMMA WriteEffect ==
    ASSUME StoreInv, NEW p \in Clis, WriteStore(p)
    PROVE  /\ \A q \in Clis \ {p} : cli'[q] = cli[q]
           /\ DOMAIN cli'[p].held = {} /\ cli'[p].pc = "idle" /\ cli[p].pc = "write"
           /\ store' = cli[p].held /\ store' # Torn /\ Rows' = cli[p].held
           /\ DOMAIN minted' = DOMAIN minted \cup DOMAIN cli[p].held
           /\ \A t \in DOMAIN cli[p].held \ DOMAIN minted : minted'[t] = cli[p].held[t]
           /\ revoked' = revoked \cup Doomed(cli[p].cmd)
           /\ UNCHANGED <<overlap, failed, pepper, daemon, req, raced>>
<1>1. /\ \A q \in Clis \ {p} : cli'[q] = cli[q]
      /\ DOMAIN cli'[p].held = {} /\ cli'[p].pc = "idle"
  BY CliEnds DEF WriteStore, StoreInv
<1>2. /\ cli[p].pc = "write" /\ store' = cli[p].held
      /\ minted' = [t \in DOMAIN minted \cup DOMAIN cli[p].held |->
                        IF t \in DOMAIN minted THEN minted[t] ELSE cli[p].held[t]]
      /\ revoked' = revoked \cup Doomed(cli[p].cmd)
      /\ UNCHANGED <<overlap, failed, pepper, daemon, req, raced>>
  BY DEF WriteStore
<1>3. store' # Torn
  <2>1. IsTable(cli[p].held)
    BY DEF StoreInv, CliInv
  <2> QED BY <1>2, <2>1, FrontAssumption DEF IsTable
<1>4. Rows' = cli[p].held
  BY <1>2, <1>3 DEF Rows
<1>5. /\ DOMAIN minted' = DOMAIN minted \cup DOMAIN cli[p].held
      /\ \A t \in DOMAIN cli[p].held \ DOMAIN minted : minted'[t] = cli[p].held[t]
  BY <1>2
<1> QED BY <1>1, <1>2, <1>3, <1>4, <1>5

\* The write of the store fails.
LEMMA FailEffect ==
    ASSUME StoreInv, NEW p \in Clis, WriteStoreFails(p)
    PROVE  /\ \A q \in Clis \ {p} : cli'[q] = cli[q]
           /\ DOMAIN cli'[p].held = {} /\ cli'[p].pc = "idle" /\ failed'
           /\ UNCHANGED <<store, minted, revoked, overlap, pepper, daemon, req, raced>>
<1>1. /\ \A q \in Clis \ {p} : cli'[q] = cli[q]
      /\ DOMAIN cli'[p].held = {} /\ cli'[p].pc = "idle"
  BY CliEnds DEF WriteStoreFails, StoreInv
<1> QED BY <1>1 DEF WriteStoreFails

\* What a load does to the rest of the ledger.
LEMMA LoadEffect ==
    ASSUME StoreInv, NEW p \in Clis, LoadStore(p)
    PROVE  /\ UNCHANGED <<store, minted, revoked, failed, pepper, daemon, req, raced>>
           /\ Rows' = Rows
           /\ overlap' <=> (overlap \/ Working # {})
BY DEF LoadStore, Rows

\* Commands that take turns keep the store's revocations exact.
LEMMA SerialCommand ==
    ASSUME StoreInv, StoreInv', SerialInv, NEW p \in Clis, CommandStep(p), ~overlap'
    PROVE  ~overlap /\ SerialInv'
<1> USE DEF StoreInv
<1>1. CASE runAgentToken(p) \/ CliWritesPepper(p)
  <2>1. /\ \A q \in Clis \ {p} : cli'[q] = cli[q] 
        /\ cli[p].pc \notin {"truncate", "write"} /\ cli'[p].pc \notin {"truncate", "write"}
        /\ UNCHANGED ledger
    BY <1>1, RunEffect, PepperEffect
  <2>2. Working' = Working /\ \A q \in Working : cli'[q] = cli[q]
    BY <2>1 DEF Working
  <2>3. Rows' = Rows /\ revoked' = revoked /\ overlap' = overlap /\ \A c : Doomed(c)' = Doomed(c)
    BY <2>1 DEF ledger, Rows, Doomed
  <2> QED BY <2>2, <2>3 DEF SerialInv, Single
<1>2. CASE LoadStore(p)
  <2>1. /\ UNCHANGED <<store, minted, revoked, failed>> /\ Rows' = Rows
        /\ Working = {} /\ ~overlap
    BY <1>2, LoadEffect
  <2>2. /\ \A q \in Clis \ {p} : cli'[q] = cli[q]
        /\ cli[p].pc = "load" /\ cli[p].cmd \in Commands
        /\ \/ cli'[p].pc = "idle" /\ DOMAIN cli'[p].held = {}
           \/ cli'[p].pc = "truncate" /\ cli'[p].cmd = cli[p].cmd /\ Loaded(p)
    BY <1>2, LoadCases
  <2>3. Working' \subseteq {p}
    BY <2>1, <2>2 DEF Working
  <2>4. \A t \in DOMAIN Rows' : Rows'[t].revoked <=> t \in revoked'
    BY <2>1 DEF SerialInv
  <2>5. Single(Rows)'
    BY <2>1 DEF SerialInv, Single
  <2>6. CASE Working' = {}
    BY <2>1, <2>4, <2>5, <2>6 DEF SerialInv
  <2>7. CASE Working' # {}
    <3> DEFINE H == cli'[p].held
               c == cli[p].cmd
    <3>1. Loaded(p) /\ cli'[p].cmd = c /\ c.op \in {"mint", "revoke"}
      BY <2>2, <2>3, <2>7, FrontAssumption DEF Working
    <3> DEFINE doomed == Doomed(cli[p].cmd)'
    <3>2. \A t \in DOMAIN minted : t \in doomed <=>
                \/ c.op = "revoke" /\ c.target \in {minted[t].agent, PrefixOf[t]}
                \/ c.op = "mint" /\ c.agent = minted[t].agent
      BY <2>1, <3>1 DEF Doomed
    <3>3. doomed \subseteq DOMAIN minted /\ revoked \subseteq DOMAIN minted
      BY <2>1 DEF Doomed, FrontTypes
    <3>4. \A t \in DOMAIN Rows : /\ t \in DOMAIN minted /\ Rows[t].agent = minted[t].agent
                                 /\ Rows[t].revoked <=> t \in revoked
      BY <2>1 DEF RowsInv, SameToken, SerialInv
    <3>5. ASSUME NEW t \in DOMAIN H
          PROVE  H[t].revoked <=> (t \in revoked \/ t \in doomed)
      <4>1. CASE t \in DOMAIN Rows
        <5>1. t \in doomed <=> \/ c.op = "mint" /\ Rows[t].agent = c.agent
                               \/ c.op = "revoke" /\ c.target \in {Rows[t].agent, PrefixOf[t]}
          BY <3>2, <3>4, <4>1
        <5> QED BY <3>1, <3>4, <4>1, <5>1 DEF Loaded
      <4>2. CASE t \notin DOMAIN Rows
        BY <3>1, <3>3, <4>2 DEF Loaded
      <4> QED BY <4>1, <4>2
    <3>6. ASSUME NEW t \in DOMAIN H, NEW u \in DOMAIN H,
                 H[t].agent = H[u].agent, ~H[t].revoked, ~H[u].revoked
          PROVE  t = u
      <4>1. CASE t \in DOMAIN Rows /\ u \in DOMAIN Rows
        BY <2>1, <3>1, <3>6, <4>1 DEF Loaded, SerialInv, Single, SameToken
      <4>2. CASE t \notin DOMAIN Rows /\ u \notin DOMAIN Rows
        BY <3>1, <4>2 DEF Loaded
      <4>3. CASE t \in DOMAIN Rows /\ u \notin DOMAIN Rows
        BY <3>1, <3>6, <4>3 DEF Loaded, SameToken
      <4>4. CASE t \notin DOMAIN Rows /\ u \in DOMAIN Rows
        BY <3>1, <3>6, <4>4 DEF Loaded, SameToken
      <4> QED BY <4>1, <4>2, <4>3, <4>4
    <3>7. Single(cli[p].held)'
      BY <3>6 DEF Single
    <3> HIDE DEF H, c
    <3>8. \A q \in Working' : \A t \in DOMAIN cli'[q].held :
            cli'[q].held[t].revoked <=> (t \in revoked' \/ t \in Doomed(cli[q].cmd)')
      <4>1. SUFFICES ASSUME NEW t \in DOMAIN cli'[p].held
                     PROVE cli'[p].held[t].revoked <=> (t \in revoked' \/ t \in Doomed(cli[p].cmd)')
        BY <2>3
      <4> QED BY <2>1, <3>5 DEF H
    <3> QED BY <2>1, <2>3, <2>4, <2>5, <3>7, <3>8 DEF SerialInv
  <2> QED BY <2>6, <2>7
<1>3. CASE TruncateStore(p)
  <2>1. /\ \A q \in Clis \ {p} : cli'[q] = cli[q]
        /\ cli'[p].held = cli[p].held /\ cli'[p].cmd = cli[p].cmd
        /\ cli[p].pc = "truncate" /\ cli'[p].pc = "write" /\ Rows' = <<>>
        /\ UNCHANGED <<minted, revoked, overlap>>
    BY <1>3, TruncateEffect
  <2>2. Working' = Working
    BY <2>1 DEF Working
  <2>3. \A q \in Working : cli'[q].held = cli[q].held /\ Doomed(cli[q].cmd)' = Doomed(cli[q].cmd)
    BY <2>1 DEF Doomed, Working
  <2>4. DOMAIN Rows' = {}
    BY <2>1, EmptyTable
  <2> QED BY <2>1, <2>2, <2>3, <2>4 DEF SerialInv, Single
<1>4. CASE WriteStore(p)
  <2>1. /\ \A q \in Clis \ {p} : cli'[q] = cli[q]
        /\ cli'[p].pc = "idle" /\ cli[p].pc = "write" /\ Rows' = cli[p].held
        /\ revoked' = revoked \cup Doomed(cli[p].cmd) /\ overlap' = overlap
    BY <1>4, WriteEffect
  <2>2. p \in Working /\ Working' = {}
    BY <2>1 DEF Working, SerialInv
  <2> QED BY <2>1, <2>2 DEF SerialInv, Single
<1>5. CASE WriteStoreFails(p)
  <2>1. /\ \A q \in Clis \ {p} : cli'[q] = cli[q]
        /\ cli'[p].pc = "idle" /\ UNCHANGED <<store, minted, revoked, overlap>>
    BY <1>5, FailEffect
  <2>2. Working' \subseteq Working /\ p \notin Working'
    BY <2>1 DEF Working
  <2>3. \A q \in Working' : cli'[q].held = cli[q].held /\ Doomed(cli[q].cmd)' = Doomed(cli[q].cmd)
    BY <2>1, <2>2 DEF Doomed, Working
  <2>4. Rows' = Rows
    BY <2>1 DEF Rows
  <2> QED BY <2>1, <2>2, <2>3, <2>4 DEF SerialInv, Single
<1> QED BY <1>1, <1>2, <1>3, <1>4, <1>5 DEF CommandStep

\* Commands that take turns and do not fail lose no token.
LEMMA CompleteCommand ==
    ASSUME StoreInv, CompleteInv, SerialInv, NEW p \in Clis, CommandStep(p)
    PROVE  CompleteInv'
<1> SUFFICES ASSUME ~overlap', ~failed' PROVE CompleteInv'
  BY DEF CompleteInv
<1>1. CASE runAgentToken(p) \/ CliWritesPepper(p)
  <2>1. /\ \A q \in Clis \ {p} : cli'[q] = cli[q] 
        /\ cli[p].pc \notin {"truncate", "write"} /\ cli'[p].pc \notin {"truncate", "write"}
        /\ UNCHANGED ledger
    BY <1>1, RunEffect, PepperEffect
  <2>2. /\ Working' = Working /\ \A q \in Working : cli'[q] = cli[q]
        /\ \A q \in Clis : cli[q].pc = "write" => cli'[q].pc = "write"
    BY <2>1 DEF Working
  <2>3. Rows' = Rows /\ UNCHANGED <<store, minted, overlap, failed>>
    BY <2>1 DEF ledger, Rows
  <2> QED BY <2>2, <2>3 DEF CompleteInv
<1>2. CASE LoadStore(p)
  <2>1. /\ UNCHANGED <<store, minted, failed>> /\ Rows' = Rows
        /\ Working = {} /\ ~overlap
    BY <1>2, LoadEffect
  <2>2. /\ \A q \in Clis \ {p} : cli'[q] = cli[q]
        /\ \/ cli'[p].pc = "idle" 
           \/ cli'[p].pc = "truncate" /\ Loaded(p)
    BY <1>2, LoadCases
  <2>3. Working' \subseteq {p}
    BY <2>1, <2>2 DEF Working
  <2>4. store # Torn /\ DOMAIN minted \subseteq DOMAIN Rows
    BY <2>1 DEF CompleteInv, Working
  <2>5. \A q \in Working' : q = p /\ Loaded(p)
    BY <2>2, <2>3 DEF Working
  <2>6. Loaded(p) => DOMAIN Rows \subseteq DOMAIN cli'[p].held
    BY DEF Loaded
  <2> QED BY <2>1, <2>4, <2>5, <2>6 DEF CompleteInv
<1>3. CASE TruncateStore(p)
  <2>1. /\ \A q \in Clis \ {p} : cli'[q] = cli[q]
        /\ cli'[p].held = cli[p].held
        /\ cli[p].pc = "truncate" /\ cli'[p].pc = "write" /\ store' = Torn
        /\ UNCHANGED <<minted, overlap, failed>>
    BY <1>3, TruncateEffect
  <2>2. Working' = Working
    BY <2>1 DEF Working
  <2>3. \A q \in Working : cli'[q].held = cli[q].held
    BY <2>1 DEF Working
  <2> QED BY <2>1, <2>2, <2>3 DEF CompleteInv
<1>4. CASE WriteStore(p)
  <2>1. /\ \A q \in Clis \ {p} : cli'[q] = cli[q]
        /\ cli'[p].pc = "idle" /\ cli[p].pc = "write" /\ Rows' = cli[p].held /\ store' # Torn
        /\ DOMAIN minted' = DOMAIN minted \cup DOMAIN cli[p].held
        /\ overlap' = overlap /\ failed' = failed
    BY <1>4, WriteEffect
  <2>2. p \in Working /\ Working' = {}
    BY <2>1 DEF Working, SerialInv
  <2> QED BY <2>1, <2>2 DEF CompleteInv
<1>5. CASE WriteStoreFails(p)
  BY <1>5, FailEffect
<1> QED BY <1>1, <1>2, <1>3, <1>4, <1>5 DEF CommandStep

\* One pepper, unless two processes create it at once.
LEMMA PepperCommand ==
    ASSUME StoreInv, PepperInv, NEW p \in Clis, CommandStep(p)
    PROVE  PepperInv'
<1> SUFFICES ASSUME ~raced' PROVE PepperInv'
  BY DEF PepperInv
<1> USE FrontAssumption
<1>0. \A q \in Clis : cli[q].pc \notin {"truncate", "write"} => DOMAIN cli[q].held = {}
  BY DEF StoreInv, CliInv
<1>1. CASE runAgentToken(p)
  <2>1. /\ \A q \in Clis \ {p} : cli'[q] = cli[q]
        /\ DOMAIN cli'[p].held = {}
        /\ UNCHANGED <<pepper, daemon, minted>>
        /\ ~raced /\ (pepper = Absent => Creating = {})
        /\ \/ cli'[p].pc = "idle"
           \/ cli'[p].pc = "create" /\ pepper = Absent
           \/ cli'[p].pc = "load" /\ pepper \in Peppers /\ cli'[p].pepper = pepper
    BY <1>1, RunEffect DEF ledger
  <2>2. pepper = Absent => /\ daemon.pc \notin {"create", "fill"}
                           /\ \A q \in Clis : cli[q].pc \notin {"create", "fill"}
    BY <2>1 DEF Creating, PepperInv
  <2> QED BY <2>1, <2>2 DEF PepperInv
<1>2. CASE CliWritesPepper(p)
  <2>1. /\ \A q \in Clis \ {p} : cli'[q] = cli[q]
        /\ DOMAIN cli'[p].held = {}
        /\ UNCHANGED <<daemon, minted, raced>>
        /\ \/ cli[p].pc = "create" /\ cli'[p].pc = "fill" /\ pepper' = Torn
           \/ /\ cli[p].pc = "fill" /\ cli'[p].pc = "load"
              /\ cli'[p].pepper = cli[p].pepper
              /\ pepper' = cli[p].pepper /\ cli[p].pepper \in Peppers
           \/ cli[p].pc \in {"create", "fill"} /\ cli'[p].pc = "idle" /\ pepper' = pepper
    BY <1>2, PepperEffect DEF ledger
  <2>2. /\ pepper \notin Peppers /\ DOMAIN minted = {} /\ daemon.pc # "serving"
        /\ daemon.pc \notin {"create", "fill"}
        /\ \A q \in Clis \ {p} : cli[q].pc \notin {"create", "fill", "load", "truncate", "write"}
    BY <2>1 DEF PepperInv
  <2>3. \A q \in Clis : DOMAIN cli'[q].held = {}
    BY <1>0, <2>1, <2>2
  <2> QED BY <2>1, <2>2, <2>3 DEF PepperInv
<1>3. CASE LoadStore(p)
  <2>1. /\ UNCHANGED <<minted, pepper, daemon, raced>>
    BY <1>3, LoadEffect
  <2>2. /\ \A q \in Clis \ {p} : cli'[q] = cli[q]
        /\ cli[p].pc = "load"
        /\ \/ cli'[p].pc = "idle" /\ DOMAIN cli'[p].held = {}
           \/ cli'[p].pc = "truncate" /\ cli'[p].pepper = cli[p].pepper /\ Loaded(p)
    BY <1>3, LoadCases
  <2>3. \A t \in DOMAIN Rows : Rows[t].pepper = pepper
    BY <2>1 DEF StoreInv, RowsInv, SameToken, PepperInv
  <2>4. \A t \in DOMAIN cli'[p].held : cli'[p].held[t].pepper = pepper
    BY <2>1, <2>2, <2>3 DEF Loaded, SameToken, PepperInv
  <2> QED BY <2>1, <2>2, <2>4 DEF PepperInv
<1>4. CASE TruncateStore(p)
  <2>1. /\ \A q \in Clis \ {p} : cli'[q] = cli[q]
        /\ cli'[p].held = cli[p].held /\ cli'[p].pepper = cli[p].pepper
        /\ cli[p].pc = "truncate" /\ cli'[p].pc = "write"
        /\ UNCHANGED <<minted, pepper, daemon, raced>>
    BY <1>4, TruncateEffect
  <2> QED BY <2>1 DEF PepperInv
<1>5. CASE WriteStore(p)
  <2>1. /\ \A q \in Clis \ {p} : cli'[q] = cli[q]
        /\ DOMAIN cli'[p].held = {} /\ cli'[p].pc = "idle" /\ cli[p].pc = "write"
        /\ DOMAIN minted' = DOMAIN minted \cup DOMAIN cli[p].held
        /\ \A t \in DOMAIN cli[p].held \ DOMAIN minted : minted'[t] = cli[p].held[t]
        /\ UNCHANGED <<pepper, daemon, raced>>
    BY <1>5, WriteEffect
  <2>2. \A t \in DOMAIN minted : minted'[t] = minted[t]
    BY StoreCommand DEF Grows
  <2>3. \A t \in DOMAIN minted' : pepper \in Peppers /\ minted'[t].pepper = pepper
    BY <2>1, <2>2 DEF PepperInv
  <2> QED BY <2>1, <2>3 DEF PepperInv
<1>6. CASE WriteStoreFails(p)
  <2>1. /\ \A q \in Clis \ {p} : cli'[q] = cli[q]
        /\ DOMAIN cli'[p].held = {} /\ cli'[p].pc = "idle"
        /\ UNCHANGED <<minted, pepper, daemon, raced>>
    BY <1>6, FailEffect
  <2> QED BY <2>1 DEF PepperInv
<1> QED BY <1>1, <1>2, <1>3, <1>4, <1>5, <1>6 DEF CommandStep

\* The daemon's start keeps to the one pepper.
LEMMA PepperDaemon ==
    ASSUME StoreInv, PepperInv, DaemonReadsPepper \/ DaemonWritesPepper
    PROVE  PepperInv'
<1> SUFFICES ASSUME ~raced' PROVE PepperInv'
  BY DEF PepperInv
<1> USE FrontAssumption
<1>0. \A q \in Clis : cli[q].pc \notin {"truncate", "write"} => DOMAIN cli[q].held = {}
  BY DEF StoreInv, CliInv
<1>1. CASE DaemonReadsPepper
  <2>1. /\ UNCHANGED <<pepper, cli, minted>> /\ ~raced /\ (pepper = Absent => Creating = {})
        /\ daemon.pc = "boot"
    BY <1>1 DEF DaemonReadsPepper
  <2>2. \/ pepper = Absent /\ daemon'.pc = "create"
        \/ pepper = Torn /\ daemon'.pc = "error"
        \/ pepper \in Peppers /\ daemon'.pc = "serving" /\ daemon'.pepper = pepper
    BY <1>1 DEF DaemonReadsPepper, PepperRead, StoreInv, FrontTypes
  <2>3. pepper = Absent => \A q \in Clis : cli[q].pc \notin {"create", "fill"}
    BY <2>1 DEF Creating, PepperInv
  <2> QED BY <2>1, <2>2, <2>3 DEF PepperInv
<1>2. CASE DaemonWritesPepper
  <2>1. UNCHANGED <<cli, minted, raced>>
    BY <1>2 DEF DaemonWritesPepper
  <2>2. \/ daemon.pc = "create" /\ pepper' = Torn /\ daemon'.pc = "fill"
        \/ /\ daemon.pc = "fill" /\ pepper' = daemon.pepper /\ daemon'.pc = "serving"
           /\ daemon'.pepper = daemon.pepper /\ daemon.pepper \in Peppers
        \/ daemon.pc \in {"create", "fill"} /\ pepper' = pepper /\ daemon'.pc = "error"
    BY <1>2 DEF DaemonWritesPepper, StoreInv, FrontTypes
  <2>3. /\ DOMAIN minted = {}
        /\ \A q \in Clis : /\ cli[q].pc \notin {"create", "fill", "load", "truncate", "write"}
                           /\ DOMAIN cli[q].held = {}
    BY <1>0, <2>1, <2>2 DEF PepperInv
  <2> QED BY <2>1, <2>2, <2>3 DEF PepperInv
<1> QED BY <1>1, <1>2

\* A step of request r that takes its slot to the record q.
LEMMA NotedSlot ==
    ASSUME RequestInv, NotedInv, MintedResolves, UNCHANGED tokVars, NEW r \in Reqs, NEW q,
           req' = [req EXCEPT ![r] = q],
           daemon.pc = "serving",
           q.known => q.in.auth \in DOMAIN minted,
           q.dead => q.in.auth \in revoked,
           q.dead /\ ~overlap => q.pc \notin {"limit", "bind"} /\ ~(q.pc = "done" /\ q.out.ok),
           (~overlap /\ ~failed /\ ~raced /\ q.pc = "done" /\ q.known
                /\ q.out = Denied("invalid_token")) => q.torn \/ q.in.auth \in revoked
    PROVE  NotedInv' /\ MintedResolves'
<1>1. req'[r] = q /\ \A i \in Reqs \ {r} : req'[i] = req[i]
  BY DEF RequestInv
<1>2. UNCHANGED <<daemon, minted, revoked, overlap, failed, raced>>
  BY DEF tokVars
<1>3. /\ Served(r)' <=> (q.pc = "done" /\ q.out.ok)
      /\ \A i \in Reqs \ {r} : Served(i)' <=> Served(i)
  BY <1>1 DEF Served
<1>4. NotedInv'
  BY <1>1, <1>2, <1>3 DEF NotedInv
<1>5. MintedResolves'
  <2>1. SUFFICES ASSUME ~overlap, ~failed, ~raced, NEW i \in Reqs, req'[i].pc = "done",
                        req'[i].known, req'[i].out = Denied("invalid_token")
                 PROVE  req'[i].torn \/ req'[i].in.auth \in revoked
    BY <1>2 DEF MintedResolves, Denied
  <2>2. CASE i = r
    BY <1>1, <2>1, <2>2
  <2>3. CASE i # r
    BY <1>1, <2>1, <2>3 DEF MintedResolves
  <2> QED BY <2>2, <2>3
<1> QED BY <1>4, <1>5

\* Denials are told apart by their codes, and are no service.
LEMMA Denials ==
    /\ \A a, b : Denied(a) = Denied(b) => a = b
    /\ \A a : ~Denied(a).ok
BY DEF Denied

\* Answers other than a refusal of the token, to a request whose token is not
\* dead, are of no concern.
LEMMA NotedReply ==
    ASSUME RequestInv, NotedInv, MintedResolves, UNCHANGED tokVars, NEW r \in Reqs, NEW out,
           req[r].pc # "new", Reply(r, out), out # Denied("invalid_token"),
           req[r].dead /\ ~overlap => ~out.ok
    PROVE  NotedInv' /\ MintedResolves'
<1>1. PICK q : /\ req' = [req EXCEPT ![r] = q]
               /\ q \in [pc : ReqPcs, in : {q.in}, row : {q.row}, out : {q.out},
                         known : {q.known}, dead : {q.dead}, torn : {q.torn}]
               /\ q.pc = "done" /\ q.in = req[r].in /\ q.out = out
               /\ q.known = req[r].known /\ q.dead = req[r].dead
  BY ReplySlot
<1>2. /\ q.known => q.in.auth \in DOMAIN minted
      /\ q.dead => q.in.auth \in revoked
      /\ daemon.pc = "serving"
  BY <1>1 DEF NotedInv
<1>3. q.dead /\ ~overlap => q.pc \notin {"limit", "bind"} /\ ~(q.pc = "done" /\ q.out.ok)
  BY <1>1
<1>4. q.out # Denied("invalid_token")
  BY <1>1
<1> QED BY <1>1, <1>2, <1>3, <1>4, NotedSlot

\* What the throttle notes of a new request's token is so.
LEMMA NotedThrottle ==
    ASSUME RequestInv, NotedInv, MintedResolves, NEW r \in Reqs, Throttle(r)
    PROVE  NotedInv' /\ MintedResolves'
<1>1. PICK in \in Inputs : req' = [req EXCEPT ![r] =
                    IF Admits(<<"ip", in.ip>>)
                    THEN [Fresh EXCEPT !.pc = "auth", !.in = in,
                                       !.known = in.auth \in DOMAIN minted,
                                       !.dead = in.auth \in revoked]
                    ELSE [Fresh EXCEPT !.pc = "done", !.in = in, !.out = Denied("rate")]]
  BY DEF Throttle
<1>2. UNCHANGED tokVars /\ daemon.pc = "serving"
  BY DEF Throttle
<1>3. CASE Admits(<<"ip", in.ip>>)
  <2> DEFINE q == [Fresh EXCEPT !.pc = "auth", !.in = in,
                                       !.known = in.auth \in DOMAIN minted,
                                       !.dead = in.auth \in revoked]
  <2>1. req' = [req EXCEPT ![r] = q]
    BY <1>1, <1>3
  <2>2. /\ q.pc = "auth" /\ q.in = in
        /\ q.known <=> in.auth \in DOMAIN minted
        /\ q.dead <=> in.auth \in revoked
    BY DEF Fresh
  <2> HIDE DEF q
  <2> QED BY <1>2, <2>1, <2>2, NotedSlot
<1>4. CASE ~Admits(<<"ip", in.ip>>)
  <2> DEFINE q == [Fresh EXCEPT !.pc = "done", !.in = in, !.out = Denied("rate")]
  <2>1. req' = [req EXCEPT ![r] = q]
    BY <1>1, <1>4
  <2>2. q.pc = "done" /\ q.in = in /\ q.out = Denied("rate") /\ ~q.known /\ ~q.dead
    BY DEF Fresh
  <2> HIDE DEF q
  <2> QED BY <1>2, <2>1, <2>2, NotedSlot
<1> QED BY <1>3, <1>4

\* The token of a request is refused as invalid, or accepted, rightly.
LEMMA NotedAuthenticate ==
    ASSUME TokenInv, NEW r \in Reqs, Authenticate(r)
    PROVE  NotedInv' /\ MintedResolves'
<1> DEFINE in == req[r].in
           t == in.auth
           row == IF in.auth \in Ids THEN ResolveFull(in.auth, daemon.pepper) ELSE None
<1> USE DEF TokenInv, FrontInv
<1>1. /\ req[r].pc = "auth" /\ UNCHANGED tokVars /\ DOMAIN req = Reqs
      /\ req[r] \in [pc : ReqPcs, in : {req[r].in}, row : {req[r].row}, out : {req[r].out},
                     known : {req[r].known}, dead : {req[r].dead}, torn : {req[r].torn}]
  BY DEF Authenticate, RequestInv
<1>2. /\ daemon.pc = "serving"
      /\ req[r].known => t \in DOMAIN minted
      /\ req[r].dead => t \in revoked
  BY <1>1 DEF NotedInv
<1>3. revoked \subseteq DOMAIN minted /\ DOMAIN minted \subseteq Ids
      /\ "none" \notin Ids /\ "malformed" \notin Ids
  BY FrontAssumption DEF StoreInv, FrontTypes, IsTable
<1>4. \/ /\ row # None
         /\ req' = [req EXCEPT ![r].pc = "limit", ![r].row = row]
      \/ Reply(r, Denied("missing_proxy_user"))
      \/ /\ t = "malformed" \/ (t \in Ids /\ row = None)
         /\ req' = [req EXCEPT ![r].pc = "done", ![r].out = Denied("invalid_token"),
                               ![r].torn = store = Torn]
      \/ /\ t = "none"
         /\ req' = [req EXCEPT ![r].pc = "limit"]
      \/ Reply(r, Denied("missing_token"))
  BY DEF Authenticate
<1>5. CASE /\ row # None
           /\ req' = [req EXCEPT ![r].pc = "limit", ![r].row = row]
  <2> DEFINE q == [req[r] EXCEPT !.pc = "limit", !.row = row]
  <2>1. t \in DOMAIN Rows /\ ~Rows[t].revoked
    BY <1>5, ResolvedRow
  <2> HIDE DEF row
  <2>2. req' = [req EXCEPT ![r] = q]
    BY <1>5
  <2>3. q.pc = "limit" /\ q.in = in /\ q.known = req[r].known /\ q.dead = req[r].dead
    BY <1>1
  <2> HIDE DEF q
  <2>4. ~overlap => ~q.dead
    BY <1>2, <2>1, <2>3 DEF SerialInv
  <2>5. /\ q.known => q.in.auth \in DOMAIN minted
        /\ q.dead => q.in.auth \in revoked
    BY <1>2, <2>3
  <2> QED BY <1>1, <1>2, <2>2, <2>3, <2>4, <2>5, NotedSlot
<1>6. CASE Reply(r, Denied("missing_proxy_user")) \/ Reply(r, Denied("missing_token"))
  BY <1>1, <1>6, Denials, NotedReply
<1>7. CASE /\ t = "malformed" \/ (t \in Ids /\ row = None)
           /\ req' = [req EXCEPT ![r].pc = "done", ![r].out = Denied("invalid_token"),
                                 ![r].torn = store = Torn]
  <2> DEFINE q == [req[r] EXCEPT !.pc = "done", !.out = Denied("invalid_token"),
                                 !.torn = store = Torn]
  <2>1. req' = [req EXCEPT ![r] = q]
    BY <1>7
  <2>2. /\ q.pc = "done" /\ q.in = in /\ q.known = req[r].known /\ q.dead = req[r].dead
        /\ q.torn <=> store = Torn
        /\ q.out = Denied("invalid_token")
    BY <1>1
  <2> HIDE DEF q
  <2>3. ASSUME ~overlap, ~failed, ~raced, q.known, store # Torn
        PROVE  t \in revoked
    <3>1. t \in DOMAIN minted /\ t \in Ids /\ row = None
      BY <1>2, <1>3, <1>7, <2>2, <2>3
    <3>2. t \in DOMAIN Rows
      BY <2>3, <3>1 DEF CompleteInv
    <3>3. Rows[t] # None
      BY <3>2, FrontAssumption DEF StoreInv, FrontTypes, IsTable
    <3>4. Rows[t].pepper = daemon.pepper
      BY <1>2, <2>3, <3>1, <3>2 DEF PepperInv, StoreInv, RowsInv, SameToken
    <3>5. Rows[t].revoked
      BY <3>1, <3>2, <3>3, <3>4 DEF ResolveFull
    <3> QED BY <2>3, <3>2, <3>5 DEF SerialInv
  <2>4. ~q.out.ok
    BY <2>2, Denials
  <2>5. /\ q.known => q.in.auth \in DOMAIN minted
        /\ q.dead => q.in.auth \in revoked
    BY <1>2, <2>2
  <2>6. q.dead /\ ~overlap => q.pc \notin {"limit", "bind"} /\ ~(q.pc = "done" /\ q.out.ok)
    BY <2>2, <2>4
  <2>7. (~overlap /\ ~failed /\ ~raced /\ q.pc = "done" /\ q.known
            /\ q.out = Denied("invalid_token")) => q.torn \/ q.in.auth \in revoked
    BY <2>2, <2>3
  <2> QED BY <1>1, <1>2, <2>1, <2>5, <2>6, <2>7, NotedSlot
<1>8. CASE /\ t = "none"
           /\ req' = [req EXCEPT ![r].pc = "limit"]
  <2> DEFINE q == [req[r] EXCEPT !.pc = "limit"]
  <2>1. req' = [req EXCEPT ![r] = q]
    BY <1>8
  <2>2. q.pc = "limit" /\ q.in = in /\ q.known = req[r].known /\ q.dead = req[r].dead
    BY <1>1
  <2> HIDE DEF q
  <2>3. ~q.known /\ ~q.dead
    BY <1>2, <1>3, <1>8, <2>2
  <2> QED BY <1>1, <1>2, <2>1, <2>2, <2>3, NotedSlot
<1> QED BY <1>4, <1>5, <1>6, <1>7, <1>8

\* The rest of a request does not go back on its token.
LEMMA NotedRest ==
    ASSUME TokenInv, NEW r \in Reqs, Limit(r) \/ Bind(r)
    PROVE  NotedInv' /\ MintedResolves'
<1> USE DEF TokenInv, FrontInv
<1>1. /\ req[r].pc \in {"limit", "bind"} /\ UNCHANGED tokVars /\ DOMAIN req = Reqs
      /\ req[r] \in [pc : ReqPcs, in : {req[r].in}, row : {req[r].row}, out : {req[r].out},
                     known : {req[r].known}, dead : {req[r].dead}, torn : {req[r].torn}]
  BY DEF Limit, Bind, RequestInv
<1>2. /\ daemon.pc = "serving" /\ ~(req[r].dead /\ ~overlap)
      /\ req[r].known => req[r].in.auth \in DOMAIN minted
      /\ req[r].dead => req[r].in.auth \in revoked
  BY <1>1 DEF NotedInv
<1>3. \/ req' = [req EXCEPT ![r].pc = "bind"]
      \/ \E out : Reply(r, out) /\ out # Denied("invalid_token")
  <2>1. CASE Limit(r)
    <3>1. req' = [req EXCEPT ![r].pc = "bind"] \/ Reply(r, Denied("rate"))
      BY <2>1 DEF Limit
    <3>2. Denied("rate") # Denied("invalid_token")
      BY Denials
    <3> QED BY <3>1, <3>2
  <2>2. CASE Bind(r)
    <3>1. \/ Reply(r, Denied("invalid")) \/ Reply(r, Denied("agent_token_mismatch"))
          \/ \E a, u : Reply(r, [ok |-> TRUE, agent |-> a, user |-> u])
      BY <2>2 DEF Bind
    <3>2. Denied("invalid") # Denied("invalid_token")
          /\ Denied("agent_token_mismatch") # Denied("invalid_token")
      BY Denials
    <3>3. \A a, u : [ok |-> TRUE, agent |-> a, user |-> u] # Denied("invalid_token")
      BY DEF Denied
    <3> QED BY <3>1, <3>2, <3>3
  <2> QED BY <2>1, <2>2
<1>4. CASE req' = [req EXCEPT ![r].pc = "bind"]
  <2> DEFINE q == [req[r] EXCEPT !.pc = "bind"]
  <2>1. req' = [req EXCEPT ![r] = q]
    BY <1>4
  <2>2. q.pc = "bind" /\ q.in = req[r].in /\ q.known = req[r].known /\ q.dead = req[r].dead
    BY <1>1
  <2> HIDE DEF q
  <2>3. /\ q.known => q.in.auth \in DOMAIN minted
        /\ q.dead => q.in.auth \in revoked
        /\ ~(q.dead /\ ~overlap)
    BY <1>2, <2>2
  <2> QED BY <1>1, <1>2, <2>1, <2>2, <2>3, NotedSlot
<1>5. CASE \E out : Reply(r, out) /\ out # Denied("invalid_token")
  <2>1. PICK out : Reply(r, out) /\ out # Denied("invalid_token")
    BY <1>5
  <2> QED BY <1>1, <1>2, <2>1, NotedReply
<1> QED BY <1>3, <1>4, <1>5

\* The invariant of the tokens is inductive.
LEMMA TokenStep == TokenInv /\ [Next]_vars => TokenInv'
<1> SUFFICES ASSUME TokenInv, [Next]_vars PROVE TokenInv'
  OBVIOUS
<1>0. /\ FrontInv' /\ Grows(minted, minted') /\ revoked \subseteq revoked'
      /\ StoreInv /\ StoreInv' /\ RequestInv
  BY FrontStep, StoreStep DEF TokenInv, FrontInv
<1>1. ASSUME NEW p \in Clis, CommandStep(p)
      PROVE  SerialInv' /\ CompleteInv' /\ PepperInv' /\ NotedInv' /\ MintedResolves'
  <2>1. /\ SerialInv' /\ (overlap => overlap')
    BY <1>0, <1>1, SerialCommand DEF TokenInv, SerialInv
  <2>2. CompleteInv' /\ PepperInv'
    BY <1>0, <1>1, CompleteCommand, PepperCommand DEF TokenInv
  <2>3. req' = req /\ daemon' = daemon /\ (failed => failed') /\ (raced => raced')
    <3>1. CASE runAgentToken(p)
      BY <1>0, <3>1, RunEffect DEF ledger
    <3>2. CASE CliWritesPepper(p)
      BY <1>0, <3>2, PepperEffect DEF ledger
    <3>3. CASE LoadStore(p) \/ TruncateStore(p) \/ WriteStore(p) \/ WriteStoreFails(p)
      BY <1>0, <3>3, LoadEffect, TruncateEffect, WriteEffect, FailEffect
    <3> QED BY <1>1, <3>1, <3>2, <3>3 DEF CommandStep
  <2>4. \A r \in Reqs : Served(r)' <=> Served(r)
    BY <2>3 DEF Served
  <2>5. NotedInv'
    BY <1>0, <2>1, <2>3, <2>4 DEF TokenInv, NotedInv, Grows
  <2>6. MintedResolves'
    BY <1>0, <2>1, <2>3 DEF TokenInv, MintedResolves, Denied
  <2> QED BY <2>1, <2>2, <2>5, <2>6
<1>2. ASSUME UNCHANGED <<ledger, cli>>
      PROVE  SerialInv' /\ CompleteInv'
  <2>1. Rows' = Rows /\ Working' = Working /\ \A c : Doomed(c)' = Doomed(c)
    BY <1>2 DEF ledger, Rows, Working, Doomed
  <2>2. UNCHANGED <<store, minted, revoked, overlap, failed, cli>>
    BY <1>2 DEF ledger
  <2>3. \A q \in Clis : Doomed(cli[q].cmd)' = Doomed(cli[q].cmd)
    BY <2>2 DEF Doomed
  <2>4. SerialInv'
    BY <2>1, <2>2, <2>3 DEF TokenInv, SerialInv, Single, Working
  <2> QED BY <2>1, <2>2, <2>4 DEF TokenInv, CompleteInv
<1>3. CASE DaemonReadsPepper \/ DaemonWritesPepper
  <2>1. UNCHANGED <<ledger, cli>> /\ req' = req /\ daemon.pc # "serving"
    BY <1>3 DEF DaemonReadsPepper, DaemonWritesPepper, ledger
  <2>0. raced => raced'
    BY <1>3, Zenon DEF DaemonReadsPepper, DaemonWritesPepper
  <2>2. PepperInv'
    BY <1>0, <1>3, PepperDaemon DEF TokenInv
  <2>3. NotedInv' /\ MintedResolves'
    <3>1. UNCHANGED <<minted, revoked, overlap, failed>>
      BY <2>1 DEF ledger
    <3>2. \A r \in Reqs : Served(r)' <=> Served(r)
      BY <2>1 DEF Served
    <3>3. NotedInv'
      BY <2>1, <3>1, <3>2 DEF TokenInv, NotedInv
    <3> QED BY <2>0, <2>1, <3>1, <3>3 DEF TokenInv, MintedResolves, Denied
  <2> QED BY <1>0, <1>2, <2>1, <2>2, <2>3 DEF TokenInv
<1>4. ASSUME UNCHANGED tokVars
      PROVE  SerialInv' /\ CompleteInv' /\ PepperInv'
  <2>1. UNCHANGED <<ledger, cli, pepper, daemon, raced, minted>>
    BY <1>4 DEF tokVars, ledger
  <2>2. PepperInv'
    BY <2>1 DEF TokenInv, PepperInv
  <2> QED BY <1>2, <2>1, <2>2
<1>5. CASE Clock \/ UNCHANGED vars
  <2>1. UNCHANGED tokVars /\ req' = req
    BY <1>5 DEF Clock, vars, tokVars
  <2>2. UNCHANGED <<daemon, minted, revoked, overlap, failed, raced>>
    BY <2>1 DEF tokVars
  <2>3. \A r \in Reqs : Served(r)' <=> Served(r)
    BY <2>1 DEF Served
  <2>4. NotedInv'
    BY <2>1, <2>2, <2>3 DEF TokenInv, NotedInv
  <2>5. MintedResolves'
    BY <2>1, <2>2 DEF TokenInv, MintedResolves, Denied
  <2> QED BY <1>0, <1>4, <2>1, <2>4, <2>5 DEF TokenInv
<1>6. ASSUME NEW r \in Reqs, Throttle(r) \/ Authenticate(r) \/ Limit(r) \/ Bind(r)
      PROVE  TokenInv'
  <2>1. UNCHANGED tokVars
    BY <1>6 DEF Throttle, Authenticate, Limit, Bind
  <2>2. NotedInv' /\ MintedResolves'
    BY <1>0, <1>6, NotedThrottle, NotedAuthenticate, NotedRest DEF TokenInv
  <2> QED BY <1>0, <1>4, <2>1, <2>2 DEF TokenInv
<1> QED BY <1>0, <1>1, <1>3, <1>5, <1>6, NextCases DEF TokenInv

\* It holds at the start.
LEMMA TokenInit == Init => TokenInv
<1> SUFFICES ASSUME Init PROVE TokenInv
  OBVIOUS
<1>1. FrontInv
  BY FrontInit
<1>2. /\ DOMAIN Rows = {} /\ DOMAIN minted = {} /\ revoked = {} /\ Working = {}
      /\ \A p \in Clis : cli[p].pc = "idle" /\ DOMAIN cli[p].held = {}
  BY EmptyTable DEF Init, Rows, Working, IdleCli
<1>3. SerialInv
  BY <1>2 DEF SerialInv, Single
<1>4. CompleteInv
  <2>1. store # Torn
    BY FrontAssumption, EmptyTable DEF Init, IsTable
  <2> QED BY <1>2, <2>1 DEF CompleteInv
<1>5. PepperInv
  BY <1>2 DEF PepperInv, Init
<1>6. NotedInv /\ MintedResolves
  BY DEF Init, Fresh, NotedInv, MintedResolves, Served
<1> QED BY <1>1, <1>3, <1>4, <1>5, <1>6 DEF TokenInv

\* The invariant says of the tokens what the property does.
LEMMA TokensFromInv == TokenInv => TokensHold
<1> SUFFICES ASSUME TokenInv PROVE TokensHold
  OBVIOUS
<1> USE DEF TokenInv, FrontInv
<1>1. TypeOK
  <2>1. IsStore(minted) /\ (store = Torn \/ IsStore(store))
    BY DEF StoreInv, FrontTypes, IsTable, IsStore, Rows
  <2>2. \A k \in DOMAIN buckets : buckets[k].tokens \in 0 .. Burst /\ buckets[k].last <= now
    BY DEF LimInv
  <2>3. \A f \in DOMAIN bound : bound[f] >= 0
    BY DEF StoreInv, FrontTypes
  <2>4. daemon.pc \in DaemonPcs /\ \A p \in Clis : cli[p].pc \in CliPcs
    BY DEF StoreInv, FrontTypes, CliInv
  <2>5. \A r \in Reqs : req[r].pc \in ReqPcs
    BY DEF RequestInv
  <2> QED BY <2>1, <2>2, <2>3, <2>4, <2>5
          DEF TypeOK, LimInv, StoreInv, FrontTypes, DaemonPcs, CliPcs, ReqPcs
<1>2. RevocationSticks
  BY DEF RevocationSticks, NotedInv
<1>3. OneActiveToken
  <2>1. SUFFICES ASSUME ~overlap, NEW a \in Agents PROVE Cardinality(Active(Rows, a)) <= 1
    BY DEF OneActiveToken
  <2>2. \A t, u \in Active(Rows, a) : t = u
    BY <2>1 DEF Active, SerialInv, Single
  <2>3. CASE Active(Rows, a) = {}
    BY <2>3, FS_EmptySet
  <2>4. CASE Active(Rows, a) # {}
    <3>1. PICK t : t \in Active(Rows, a)
      BY <2>4
    <3>2. Active(Rows, a) = {t}
      BY <2>2, <3>1
    <3>3. Cardinality({t}) = 1
      BY FS_Singleton
    <3> QED BY <3>2, <3>3
  <2> QED BY <2>3, <2>4
<1> QED BY <1>1, <1>2, <1>3 DEF TokensHold

\* A token works from its mint to its revocation, and an agent has one at a
\* time, whatever commands, failures and requests come in between, as long as
\* no two commands overlap (MintWith, Revoke, ResolveFull, LoadPepper).
THEOREM TokenLife == Spec => []TokensHold
BY TokenInit, TokenStep, TokensFromInv, PTL DEF Spec
=============================================================================

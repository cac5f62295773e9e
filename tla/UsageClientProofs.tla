-------------------------- MODULE UsageClientProofs --------------------------
(***************************************************************************)
(* Theorems about UsageClient, for any capacities, any number of events    *)
(* and any number of restarts: every recorded event is accounted for, in   *)
(* the order of recording, and the spool keeps to its cap by giving up the *)
(* oldest.                                                                 *)
(***************************************************************************)
EXTENDS UsageClient, TLAPS

-----------------------------------------------------------------------------
(* Sequences of events as sets, and their order *)

\* Everything of S is older than everything of T.
Below(S, T) == \A x \in S, y \in T : x < y

\* An element of a sequence stands somewhere in it.
LEMMA InSeq ==
    ASSUME NEW s \in Seq(Events)
    PROVE  /\ \A i \in 1..Len(s) : s[i] \in ToSet(s)
           /\ \A x \in ToSet(s) : \E i \in 1..Len(s) : x = s[i]
           /\ ToSet(s) \subseteq Events
BY DEF ToSet

\* The empty sequence has no elements.
LEMMA EmptySet == ToSet(<<>>) = {} /\ Increasing(<<>>) /\ <<>> \in Seq(Events) /\ Len(<<>>) = 0
BY DEF ToSet, Increasing

\* A sequence that is not empty has an element.
LEMMA NonEmpty ==
    ASSUME NEW s \in Seq(Events), s # <<>>
    PROVE  Head(s) \in ToSet(s)
BY DEF ToSet

\* Events are numbers.
LEMMA EventsInt == Events \subseteq Int
BY UsageAssumption DEF Events

\* A concatenation has the elements of its parts, and is in order when they
\* are and follow each other.
LEMMA ConcatSet ==
    ASSUME NEW s \in Seq(Events), NEW t \in Seq(Events)
    PROVE  /\ s \o t \in Seq(Events)
           /\ ToSet(s \o t) = ToSet(s) \cup ToSet(t)
           /\ (Increasing(s) /\ Increasing(t) /\ Below(ToSet(s), ToSet(t))) => Increasing(s \o t)
<1>1. s \o t \in Seq(Events) /\ Len(s \o t) = Len(s) + Len(t) /\ Len(s) \in Nat /\ Len(t) \in Nat
  OBVIOUS
<1>2. /\ \A i \in 1..Len(s) : (s \o t)[i] = s[i]
      /\ \A i \in 1..Len(t) : (s \o t)[Len(s) + i] = t[i]
      /\ \A i \in 1..(Len(s) + Len(t)) : i > Len(s) =>
            /\ i - Len(s) \in 1..Len(t)
            /\ (s \o t)[i] = t[i - Len(s)]
  BY <1>1
<1>3. ToSet(s \o t) \subseteq ToSet(s) \cup ToSet(t)
  <2>0. SUFFICES ASSUME NEW x \in ToSet(s \o t)
                 PROVE  x \in ToSet(s) \cup ToSet(t)
    OBVIOUS
  <2>1. PICK i \in 1..(Len(s) + Len(t)) : x = (s \o t)[i]
    BY <1>1, InSeq
  <2>2. CASE i <= Len(s)
    BY <1>1, <1>2, <2>1, <2>2, InSeq
  <2>3. CASE i > Len(s)
    BY <1>1, <1>2, <2>1, <2>3, InSeq
  <2> QED BY <1>1, <2>2, <2>3
<1>4. ToSet(s) \subseteq ToSet(s \o t)
  <2>1. SUFFICES ASSUME NEW i \in 1..Len(s) PROVE s[i] \in ToSet(s \o t)
    BY InSeq
  <2>2. i \in 1..Len(s \o t) /\ (s \o t)[i] = s[i]
    BY <1>1, <1>2
  <2> QED BY <1>1, <2>2, InSeq
<1>5. ToSet(t) \subseteq ToSet(s \o t)
  <2>1. SUFFICES ASSUME NEW i \in 1..Len(t) PROVE t[i] \in ToSet(s \o t)
    BY InSeq
  <2>2. Len(s) + i \in 1..Len(s \o t) /\ (s \o t)[Len(s) + i] = t[i]
    BY <1>1, <1>2
  <2> QED BY <1>1, <2>2, InSeq
<1>6. ASSUME Increasing(s), Increasing(t), Below(ToSet(s), ToSet(t))
      PROVE  Increasing(s \o t)
  <2>1. SUFFICES ASSUME NEW i \in 1..(Len(s) + Len(t)), NEW j \in 1..(Len(s) + Len(t)), i < j
                 PROVE  (s \o t)[i] < (s \o t)[j]
    BY <1>1 DEF Increasing
  <2>2. CASE j <= Len(s)
    BY <1>1, <1>2, <1>6, <2>1, <2>2 DEF Increasing
  <2>3. CASE i > Len(s)
    BY <1>1, <1>2, <1>6, <2>1, <2>3 DEF Increasing
  <2>4. CASE i <= Len(s) /\ j > Len(s)
    <3>1. s[i] \in ToSet(s) /\ t[j - Len(s)] \in ToSet(t)
      BY <1>1, <1>2, <2>4, InSeq
    <3> QED BY <1>1, <1>2, <1>6, <2>4, <3>1 DEF Below
  <2> QED BY <1>1, <2>2, <2>3, <2>4
<1> QED BY <1>1, <1>3, <1>4, <1>5, <1>6

\* One more event at the end.
LEMMA AppendSet ==
    ASSUME NEW s \in Seq(Events), NEW e \in Events
    PROVE  /\ Append(s, e) \in Seq(Events) /\ Len(Append(s, e)) = Len(s) + 1
           /\ ToSet(Append(s, e)) = ToSet(s) \cup {e}
           /\ (Increasing(s) /\ Below(ToSet(s), {e})) => Increasing(Append(s, e))
<1>1. <<e>> \in Seq(Events) /\ ToSet(<<e>>) = {e} /\ Increasing(<<e>>)
  BY DEF ToSet, Increasing
<1>2. Append(s, e) = s \o <<e>> /\ Len(Append(s, e)) = Len(s) + 1
  OBVIOUS
<1> QED BY <1>1, <1>2, ConcatSet

\* The first event taken from a sequence.
LEMMA TailSet ==
    ASSUME NEW s \in Seq(Events), s # <<>>
    PROVE  /\ Tail(s) \in Seq(Events) /\ Head(s) \in Events /\ Len(Tail(s)) = Len(s) - 1
           /\ ToSet(s) = {Head(s)} \cup ToSet(Tail(s))
           /\ Increasing(s) => Increasing(Tail(s)) /\ Below({Head(s)}, ToSet(Tail(s)))
<1>1. /\ Tail(s) \in Seq(Events) /\ Head(s) = s[1] /\ Len(Tail(s)) = Len(s) - 1
      /\ Len(s) \in Nat \ {0} /\ s[1] \in Events
      /\ \A i \in 1..(Len(s) - 1) : Tail(s)[i] = s[i + 1]
  OBVIOUS
<1>2. ASSUME NEW x \in ToSet(s) PROVE x \in {Head(s)} \cup ToSet(Tail(s))
  <2>1. PICK i \in 1..Len(s) : x = s[i]
    BY <1>2, InSeq
  <2>2. CASE i = 1
    BY <1>1, <2>1, <2>2
  <2>3. CASE i # 1
    <3>1. i - 1 \in 1..Len(Tail(s)) /\ Tail(s)[i - 1] = x
      BY <1>1, <2>1, <2>3
    <3> QED BY <1>1, <3>1, InSeq
  <2> QED BY <2>2, <2>3
<1>3. ASSUME NEW x \in ToSet(Tail(s)) PROVE \E i \in 2..Len(s) : x = s[i]
  <2>1. PICK i \in 1..Len(Tail(s)) : x = Tail(s)[i]
    BY <1>1, <1>3, InSeq
  <2>2. i + 1 \in 2..Len(s) /\ x = s[i + 1]
    BY <1>1, <2>1
  <2> QED BY <2>2
<1>4. ToSet(s) = {Head(s)} \cup ToSet(Tail(s))
  <2>1. ToSet(Tail(s)) \subseteq ToSet(s)
    <3>1. \A i \in 2..Len(s) : s[i] \in ToSet(s)
      BY <1>1, InSeq
    <3> QED BY <1>3, <3>1
  <2> QED BY <1>2, <2>1, NonEmpty
<1>5. ASSUME Increasing(s) PROVE Increasing(Tail(s)) /\ Below({Head(s)}, ToSet(Tail(s)))
  <2>1. Increasing(Tail(s))
    BY <1>1, <1>5 DEF Increasing
  <2>2. \A i \in 2..Len(s) : s[1] < s[i]
    BY <1>1, <1>5 DEF Increasing
  <2> QED BY <1>1, <1>3, <2>1, <2>2 DEF Below
<1> QED BY <1>1, <1>4, <1>5

\* What the cap leaves of the spool: a tail of it that fits, in order, and
\* younger than what is cut.
LEMMA TrimmedSet ==
    ASSUME NEW b \in Seq(Events), Increasing(b)
    PROVE  /\ Trimmed(b) \in Seq(Events) /\ Increasing(Trimmed(b))
           /\ ToSet(Trimmed(b)) \subseteq ToSet(b)
           /\ Below(ToSet(b) \ ToSet(Trimmed(b)), ToSet(Trimmed(b)))
           /\ Len(Trimmed(b)) * LineBytes <= MaxSpoolBytes
<1> DEFINE n == Len(b)
           cut == n * LineBytes - MaxSpoolBytes
           k == cut \div LineBytes
<1>0. n \in Nat /\ LineBytes \in Nat \ {0} /\ MaxSpoolBytes \in Nat \ {0}
  BY UsageAssumption
<1>1. n * LineBytes \in Nat /\ cut \in Int
  BY <1>0
<1>2. CASE cut <= 0
  <2>1. Trimmed(b) = b
    BY <1>2 DEF Trimmed
  <2>2. Len(b) * LineBytes <= MaxSpoolBytes
    BY <1>0, <1>1, <1>2
  <2> QED BY <2>1, <2>2 DEF Below
<1>3. CASE cut > 0
  <2>0. ~(cut <= 0)
    <3> HIDE DEF cut
    <3> QED BY <1>1, <1>3
  <2>1. Trimmed(b) = SubSeq(b, k + 2, n)
    BY <2>0, Zenon DEF Trimmed
  <2>2. k \in Nat /\ k * LineBytes <= cut /\ cut < (k + 1) * LineBytes
    <3> HIDE DEF cut
    <3> QED BY <1>0, <1>1, <1>3
  <2>3. k + 1 <= n
    <3>1. SUFFICES ASSUME k >= n PROVE FALSE
      BY <1>0, <2>2
    <3>2. k * LineBytes >= n * LineBytes
      <4> HIDE DEF k, n
      <4> QED BY <1>0, <2>2, <3>1
    <3> HIDE DEF k
    <3> QED BY <1>0, <1>1, <2>2, <3>2
  <2> DEFINE t == SubSeq(b, k + 2, n)
  <2>4. /\ t \in Seq(Events) /\ Len(t) = n - (k + 1)
        /\ \A i \in 1..Len(t) : t[i] = b[i + (k + 1)]
    <3> HIDE DEF k
    <3> QED BY <1>0, <2>2, <2>3
  <2> HIDE DEF t
  <2>5. Len(t) * LineBytes <= MaxSpoolBytes
    <3>1. (n - (k + 1)) * LineBytes = n * LineBytes - (k + 1) * LineBytes
      <4> HIDE DEF k, n
      <4> QED BY <1>0, <2>2
    <3>2. (k + 1) * LineBytes \in Nat
      <4> HIDE DEF k
      <4> QED BY <1>0, <2>2
    <3> HIDE DEF k
    <3> QED BY <1>0, <1>1, <2>2, <2>4, <3>1, <3>2
  <2> HIDE DEF k, cut
  <2>6. Increasing(t)
    BY <1>0, <2>2, <2>3, <2>4 DEF Increasing
  <2>7. \A i \in (k + 2)..n : b[i] \in ToSet(t)
    <3>1. SUFFICES ASSUME NEW i \in (k + 2)..n PROVE b[i] \in ToSet(t)
      OBVIOUS
    <3>2. i - (k + 1) \in 1..Len(t) /\ t[i - (k + 1)] = b[i]
      BY <1>0, <2>2, <2>3, <2>4
    <3> QED BY <2>4, <3>2, InSeq
  <2>8. ASSUME NEW y \in ToSet(t)
        PROVE  \E i \in (k + 2)..n : y = b[i]
    <3>1. PICK i \in 1..Len(t) : y = t[i]
      BY <2>4, <2>8, InSeq
    <3>2. i + (k + 1) \in (k + 2)..n /\ y = b[i + (k + 1)]
      BY <1>0, <2>2, <2>3, <2>4, <3>1
    <3> QED BY <3>2
  <2>9. ToSet(t) \subseteq ToSet(b)
    <3>1. \A i \in (k + 2)..n : b[i] \in ToSet(b)
      BY <1>0, <2>2, InSeq
    <3> QED BY <2>8, <3>1
  <2>10. ASSUME NEW x \in ToSet(b) \ ToSet(t), NEW y \in ToSet(t)
         PROVE  x < y
    <3>1. PICK i \in 1..n : x = b[i]
      BY <2>10, InSeq
    <3>2. i < k + 2
      BY <1>0, <2>2, <2>7, <2>10, <3>1
    <3>3. PICK j \in (k + 2)..n : y = b[j]
      BY <2>8, <2>10
    <3> QED BY <1>0, <2>2, <3>1, <3>2, <3>3 DEF Increasing
  <2> QED BY <2>1, <2>4, <2>5, <2>6, <2>9, <2>10 DEF Below, t
<1> QED BY <1>1, <1>2, <1>3

-----------------------------------------------------------------------------
(* The inductive invariant *)

\* What the loop has in hand at each of its steps: a batch only during a
\* flush, holding what the spool holds unless the spool could not be read,
\* until the spool is rewritten line by line.
PhaseInv ==
    /\ loop \in {"select", "stopped"} => batch = <<>>
    /\ loop # "select" => pending = <<>>
    /\ loop \in {"posting", "spooling", "writing", "clearing"} => batch # <<>>
    /\ loop \in {"posting", "spooling", "clearing"} => ToSet(spool) \subseteq ToSet(batch) \/ faults > 0
    /\ loop = "clearing" => ToSet(batch) \subseteq delivered
    /\ loop = "writing" => /\ Len(spool) <= Len(Trimmed(batch))
                           /\ \A i \in 1..Len(spool) : spool[i] = Trimmed(batch)[i]
    /\ loop = "writing" => path

\* Everything the client has.
Held == ToSet(queue) \cup ToSet(pending) \cup ToSet(batch) \cup ToSet(spool)

\* Every part is in order, what comes later in the pipeline is older, and what
\* was cut from the spool is older than all of it.
OrderInv ==
    /\ Increasing(queue) /\ Increasing(pending) /\ Increasing(batch) /\ Increasing(spool)
    /\ Below(ToSet(batch) \cup ToSet(spool) \cup ToSet(pending), ToSet(queue))
    /\ Below(ToSet(spool), ToSet(pending))
    /\ Below(aged, Held)
    /\ aged \cup Held \subseteq 1..recorded

\* The spool is within its cap.
CapInv == Len(spool) * LineBytes <= MaxSpoolBytes

\* The inductive invariant of the client.
ClientInv == TypeOK /\ PhaseInv /\ OrderInv /\ CapInv /\ NothingVanishes

\* A flush is of what the spool and the loop hold.
LEMMA FlushSet ==
    ASSUME TypeOK, OrderInv, NEW p \in Seq(Events), Increasing(p), Below(ToSet(spool), ToSet(p))
    PROVE  /\ spool \o p \in Seq(Events) /\ Increasing(spool \o p)
           /\ ToSet(spool \o p) = ToSet(spool) \cup ToSet(p)
           /\ spool \o p = <<>> => ToSet(spool) = {} /\ ToSet(p) = {}
BY ConcatSet, EmptySet DEF TypeOK, OrderInv

\* Recording an event.
LEMMA RecordStep ==
    ASSUME ClientInv, Record
    PROVE  ClientInv'
<1> USE DEF ClientInv
<1>1. /\ recorded \in Nat /\ recorded' = recorded + 1 /\ recorded' \in Events
      /\ QueueCap \in Nat /\ recorded' \in 0..MaxEvents
  BY UsageAssumption DEF Record, TypeOK, Events
<1>2. /\ UNCHANGED <<pending, loop, batch, spool, closing, final, restarts, delivered, aged, lost>>
      /\ UNCHANGED <<path, faults, unspooled>>
  BY DEF Record, fileVars
<1>3. CASE Len(queue) < QueueCap
  <2>1. queue' = Append(queue, recorded') /\ dropped' = dropped
    BY <1>3 DEF Record
  <2>2. ToSet(queue) \subseteq 1..recorded
    BY DEF OrderInv, Held
  <2>3. Below(ToSet(queue), {recorded'})
    BY <1>1, <2>2 DEF Below
  <2>4. /\ queue' \in Seq(Events) /\ Len(queue') = Len(queue) + 1 /\ Len(queue) \in Nat
        /\ ToSet(queue') = ToSet(queue) \cup {recorded'} /\ Increasing(queue')
    BY <1>1, <2>1, <2>3, AppendSet DEF TypeOK, OrderInv
  <2>5. TypeOK'
    BY <1>1, <1>2, <1>3, <2>1, <2>4 DEF TypeOK
  <2>6. PhaseInv'
    BY <1>2 DEF PhaseInv
  <2>7. OrderInv'
    <3>1. Held' = Held \cup {recorded'} /\ aged' = aged
      BY <1>2, <2>4 DEF Held
    <3>2. \A x \in aged \cup Held : x \in 1..recorded
      BY DEF OrderInv
    <3>3. Below(aged \cup Held, {recorded'})
      BY <1>1, <3>2 DEF Below
    <3>4. aged' \cup Held' \subseteq 1..recorded'
      BY <1>1, <3>1, <3>2
    <3>5. Below(aged', Held')
      BY <3>1, <3>3 DEF OrderInv, Below
    <3>6. Below(ToSet(batch') \cup ToSet(spool') \cup ToSet(pending'), ToSet(queue'))
      BY <1>2, <2>4, <3>3 DEF OrderInv, Below, Held
    <3> QED BY <1>2, <2>4, <3>4, <3>5, <3>6 DEF OrderInv
  <2>8. NothingVanishes'
    <3>1. \A e \in 1..recorded' : e = recorded' \/ e \in 1..recorded
      BY <1>1
    <3> QED BY <1>2, <2>1, <2>4, <3>1 DEF NothingVanishes
  <2> QED BY <1>2, <2>5, <2>6, <2>7, <2>8 DEF CapInv
<1>4. CASE ~(Len(queue) < QueueCap)
  <2>1. queue' = queue /\ dropped' = dropped \cup {recorded'}
    BY <1>4 DEF Record
  <2>2. TypeOK'
    BY <1>1, <1>2, <2>1 DEF TypeOK
  <2>3. PhaseInv'
    BY <1>2 DEF PhaseInv
  <2>4. OrderInv'
    <3>1. Held' = Held /\ 1..recorded \subseteq 1..recorded'
      BY <1>1, <1>2, <2>1 DEF Held
    <3> QED BY <1>2, <2>1, <3>1 DEF OrderInv
  <2>5. NothingVanishes'
    <3>1. \A e \in 1..recorded' : e = recorded' \/ e \in 1..recorded
      BY <1>1
    <3> QED BY <1>2, <2>1, <3>1 DEF NothingVanishes
  <2> QED BY <1>2, <2>2, <2>3, <2>4, <2>5 DEF CapInv
<1> QED BY <1>3, <1>4

\* A flush begins with the events p in the loop's hands.
LEMMA FlushStep ==
    ASSUME ClientInv, NEW p \in Seq(Events), Increasing(p), Below(ToSet(spool), ToSet(p)),
           loop = "select",
           \/ batch' = spool \o p /\ faults' = faults
           \/ batch' = p /\ Fault,
           pending' = <<>>,
           loop' \in {"select", "stopped", "posting"}, loop' = "posting" <=> batch' # <<>>,
           queue' \in Seq(Events), Len(queue') <= QueueCap, Increasing(queue'),
           Below(ToSet(spool) \cup ToSet(p), ToSet(queue')),
           ToSet(p) \cup ToSet(queue') = ToSet(pending) \cup ToSet(queue),
           final' \in BOOLEAN,
           UNCHANGED <<recorded, spool, closing, dropped, restarts, delivered, aged, lost, path, unspooled>>
    PROVE  ClientInv'
<1> USE DEF ClientInv
<1>1. batch = <<>> /\ ToSet(batch) = {}
  BY EmptySet DEF PhaseInv
<1>2. /\ batch' \in Seq(Events) /\ Increasing(batch')
      /\ ToSet(p) \subseteq ToSet(batch') /\ ToSet(batch') \subseteq ToSet(spool) \cup ToSet(p)
      /\ ToSet(spool) \subseteq ToSet(batch') \/ faults' > 0
      /\ faults' \in 0..MaxFaults /\ (faults > 0 => faults' > 0)
  <2>1. CASE batch' = spool \o p /\ faults' = faults
    BY <2>1, FlushSet DEF TypeOK
  <2>2. CASE batch' = p /\ Fault
    BY <2>2, UsageAssumption DEF TypeOK, Fault
  <2> QED BY <2>1, <2>2
<1>3. ToSet(pending') = {} /\ Increasing(pending') /\ pending' \in Seq(Events) /\ Len(pending') = 0
  BY EmptySet
<1>4. TypeOK'
  BY <1>2, <1>3, UsageAssumption DEF TypeOK
<1>5. PhaseInv'
  BY <1>2 DEF PhaseInv
<1>6. Held' = Held
  BY <1>1, <1>2, <1>3 DEF Held
<1>7. OrderInv'
  BY <1>2, <1>3, <1>6 DEF OrderInv, Below
<1>8. NothingVanishes'
  BY <1>1, <1>2, <1>3 DEF NothingVanishes
<1> QED BY <1>4, <1>5, <1>7, <1>8 DEF CapInv

\* The ticker fires.
LEMMA TickStep ==
    ASSUME ClientInv, Flush
    PROVE  ClientInv'
<1>1. /\ loop = "select" /\ pending' = <<>>
      /\ loop' = IF batch' = <<>> THEN "select" ELSE "posting"
      /\ \/ batch' = spool \o pending /\ faults' = faults
         \/ batch' = pending /\ Fault
      /\ UNCHANGED <<recorded, queue, spool, closing, final, dropped, restarts, delivered, aged, lost,
                     path, unspooled>>
  BY DEF Flush, StartFlush
<1>2. /\ pending \in Seq(Events) /\ queue \in Seq(Events) /\ Len(queue) <= QueueCap
      /\ Increasing(pending) /\ Increasing(queue) /\ final \in BOOLEAN
      /\ Below(ToSet(spool), ToSet(pending))
      /\ Below(ToSet(spool) \cup ToSet(pending), ToSet(queue))
  BY DEF ClientInv, TypeOK, OrderInv, Below
<1>3. queue' = queue /\ final' = final
  BY <1>1
<1>4. loop' \in {"select", "stopped", "posting"} /\ (loop' = "posting" <=> batch' # <<>>)
  BY <1>1
<1> QED BY <1>1, <1>2, <1>3, <1>4, FlushStep

\* The loop takes an event.
LEMMA TakeStep ==
    ASSUME ClientInv, Take
    PROVE  ClientInv'
<1> USE DEF ClientInv
<1> DEFINE p == Append(pending, Head(queue))
<1>1. /\ loop = "select" /\ queue # <<>> /\ queue' = Tail(queue)
      /\ UNCHANGED <<recorded, spool, closing, final, dropped, restarts, delivered, aged, lost,
                     path, unspooled>>
  BY DEF Take
<1>2. /\ Len(p) >= BatchSize =>
            /\ pending' = <<>>
            /\ loop' = IF batch' = <<>> THEN "select" ELSE "posting"
            /\ \/ batch' = spool \o p /\ faults' = faults
               \/ batch' = p /\ Fault
      /\ ~(Len(p) >= BatchSize) => pending' = p /\ loop' = loop /\ batch' = batch /\ faults' = faults
  BY DEF Take, StartFlush
<1>3. /\ queue \in Seq(Events) /\ pending \in Seq(Events) /\ Increasing(queue) /\ Increasing(pending)
      /\ Len(queue) <= QueueCap /\ QueueCap \in Nat
  BY UsageAssumption DEF TypeOK, OrderInv
<1>4. /\ queue' \in Seq(Events) /\ Head(queue) \in Events /\ Len(queue') = Len(queue) - 1
      /\ ToSet(queue) = {Head(queue)} \cup ToSet(queue')
      /\ Increasing(queue') /\ Below({Head(queue)}, ToSet(queue'))
  BY <1>1, <1>3, TailSet
<1>5. Below(ToSet(pending), {Head(queue)}) /\ Below(ToSet(spool), {Head(queue)})
  BY <1>4 DEF OrderInv, Below
<1>6. /\ p \in Seq(Events) /\ Len(p) = Len(pending) + 1
      /\ ToSet(p) = ToSet(pending) \cup {Head(queue)} /\ Increasing(p)
  BY <1>3, <1>4, <1>5, AppendSet
<1>7. Below(ToSet(spool), ToSet(p)) /\ Below(ToSet(spool) \cup ToSet(p), ToSet(queue'))
  BY <1>4, <1>5, <1>6 DEF OrderInv, Below
<1>8. Len(queue') <= QueueCap
  BY <1>3, <1>4
<1> HIDE DEF p
<1>9. CASE Len(p) >= BatchSize
  <2>1. /\ loop' \in {"select", "stopped", "posting"} /\ (loop' = "posting" <=> batch' # <<>>)
        /\ pending' = <<>>
        /\ \/ batch' = spool \o p /\ faults' = faults
           \/ batch' = p /\ Fault
    BY <1>2, <1>9
  <2>2. final' \in BOOLEAN /\ ToSet(p) \cup ToSet(queue') = ToSet(pending) \cup ToSet(queue)
    BY <1>1, <1>4, <1>6 DEF TypeOK
  <2> QED BY <1>1, <1>4, <1>6, <1>7, <1>8, <2>1, <2>2, FlushStep
<1>10. CASE ~(Len(p) >= BatchSize)
  <2>1. pending' = p /\ loop' = loop /\ batch' = batch /\ faults' = faults
    BY <1>2, <1>10
  <2>2. Len(p) \in Nat /\ Len(p) < BatchSize
    BY <1>6, <1>10, UsageAssumption
  <2>3. TypeOK'
    BY <1>1, <1>4, <1>6, <1>8, <2>1, <2>2 DEF TypeOK
  <2>4. PhaseInv'
    BY <1>1, <2>1 DEF PhaseInv
  <2>5. ToSet(batch') = {} /\ ToSet(pending') = ToSet(p)
    BY <1>1, <2>1, EmptySet DEF PhaseInv
  <2>6. Held' = Held
    BY <1>1, <1>4, <1>6, <2>1 DEF Held
  <2>7. OrderInv'
    BY <1>1, <1>4, <1>6, <1>7, <2>1, <2>5, <2>6 DEF OrderInv, Below
  <2>8. NothingVanishes'
    BY <1>1, <1>4, <1>6, <2>1 DEF NothingVanishes
  <2> QED BY <1>1, <2>3, <2>4, <2>7, <2>8 DEF CapInv
<1> QED BY <1>9, <1>10

\* The last flush takes the channel with it.
LEMMA FinalStep ==
    ASSUME ClientInv, FinalFlush
    PROVE  ClientInv'
<1> USE DEF ClientInv
<1> DEFINE p == pending \o queue
<1>1. /\ loop = "select" /\ queue' = <<>> /\ pending' = <<>> /\ final' = TRUE
      /\ \/ batch' = (spool \o pending) \o queue /\ faults' = faults
         \/ batch' = p /\ Fault
      /\ loop' = IF batch' = <<>> THEN "stopped" ELSE "posting"
      /\ UNCHANGED <<recorded, spool, closing, dropped, restarts, delivered, aged, lost, path, unspooled>>
  BY DEF FinalFlush
<1>2. /\ spool \in Seq(Events) /\ pending \in Seq(Events) /\ queue \in Seq(Events)
      /\ Increasing(pending) /\ Increasing(queue) /\ Below(ToSet(pending), ToSet(queue))
  BY DEF TypeOK, OrderInv, Below
<1>3. p \in Seq(Events) /\ ToSet(p) = ToSet(pending) \cup ToSet(queue) /\ Increasing(p)
  BY <1>2, ConcatSet
<1>4. Below(ToSet(spool), ToSet(p))
  BY <1>3 DEF OrderInv, Below
<1>5. (spool \o pending) \o queue = spool \o p
  BY <1>2
<1>6. /\ ToSet(queue') = {} /\ Increasing(queue') /\ queue' \in Seq(Events) /\ Len(queue') <= QueueCap
      /\ Below(ToSet(spool) \cup ToSet(p), ToSet(queue'))
  BY <1>1, EmptySet, UsageAssumption DEF Below
<1>7. loop' \in {"select", "stopped", "posting"} /\ (loop' = "posting" <=> batch' # <<>>)
  BY <1>1
<1>8. ToSet(p) \cup ToSet(queue') = ToSet(pending) \cup ToSet(queue) /\ final' \in BOOLEAN
  BY <1>1, <1>3, <1>6
<1> HIDE DEF p
<1> QED BY <1>1, <1>3, <1>4, <1>5, <1>6, <1>7, <1>8, FlushStep

\* The control plane answers, and Close only says so.
LEMMA AnswerStep ==
    ASSUME ClientInv, PostSucceeds \/ PostFails \/ Close \/ UNCHANGED vars
    PROVE  ClientInv'
<1> USE DEF ClientInv
<1>1. CASE PostSucceeds \/ PostFails
  <2>1. ToSet(batch) \subseteq Events
    BY InSeq DEF TypeOK
  <2>2. /\ loop = "posting" /\ loop' \in {"spooling", "clearing"}
        /\ delivered \subseteq delivered' /\ delivered' \subseteq Events
        /\ loop' = "clearing" => ToSet(batch) \subseteq delivered'
        /\ UNCHANGED <<recorded, queue, pending, batch, spool, closing, final, dropped, restarts, aged, lost>>
        /\ UNCHANGED <<path, faults, unspooled>>
    BY <1>1, <2>1 DEF PostSucceeds, PostFails, TypeOK, fileVars
  <2>3. TypeOK'
    BY <2>2 DEF TypeOK
  <2>4. PhaseInv'
    BY <2>2 DEF PhaseInv
  <2>5. OrderInv'
    BY <2>2 DEF OrderInv, Held
  <2>6. NothingVanishes'
    BY <2>2 DEF NothingVanishes
  <2> QED BY <2>2, <2>3, <2>4, <2>5, <2>6 DEF CapInv
<1>2. CASE Close \/ UNCHANGED vars
  <2>1. /\ UNCHANGED <<recorded, queue, pending, loop, batch, spool, final, dropped, restarts, delivered,
                       aged, lost, path, faults, unspooled>>
        /\ closing' \in BOOLEAN
    BY <1>2 DEF Close, vars, fileVars, TypeOK
  <2> QED BY <2>1 DEF TypeOK, PhaseInv, OrderInv, Held, CapInv, NothingVanishes, Trimmed
<1> QED BY <1>1, <1>2

\* The cut batch is a sequence no longer than the cap allows.
LEMMA CutFits ==
    ASSUME ClientInv
    PROVE  /\ batch \in Seq(Events) /\ Increasing(batch) /\ ToSet(batch) \subseteq Events
           /\ Trimmed(batch) \in Seq(Events) /\ Increasing(Trimmed(batch))
           /\ ToSet(Trimmed(batch)) \subseteq ToSet(batch)
           /\ Below(ToSet(batch) \ ToSet(Trimmed(batch)), ToSet(Trimmed(batch)))
           /\ Len(Trimmed(batch)) * LineBytes <= MaxSpoolBytes
<1>1. batch \in Seq(Events) /\ Increasing(batch)
  BY DEF ClientInv, TypeOK, OrderInv
<1> QED BY <1>1, TrimmedSet, InSeq

\* The spool is truncated and written line by line.
LEMMA WritingStep ==
    ASSUME ClientInv, TruncateSpool \/ WriteLine
    PROVE  ClientInv'
<1> USE DEF ClientInv
<1>0. ToSet(<<>>) = {} /\ Increasing(<<>>) /\ <<>> \in Seq(Events) /\ Len(<<>>) = 0
  BY EmptySet
<1>1. CASE TruncateSpool
  <2>1. /\ loop = "spooling" /\ path /\ spool' = <<>> /\ loop' = "writing"
        /\ unspooled' = unspooled \cup (ToSet(spool) \ (ToSet(batch) \cup delivered))
        /\ UNCHANGED <<recorded, queue, pending, batch, closing, final, dropped, restarts, delivered,
                       aged, lost, path, faults>>
    BY <1>1 DEF TruncateSpool
  <2>2. ToSet(spool') = {} /\ Increasing(spool') /\ spool' \in Seq(Events) /\ Len(spool') = 0
    BY <1>0, <2>1
  <2>3. TypeOK'
    <3>1. ToSet(spool) \subseteq Events
      BY InSeq DEF TypeOK
    <3> QED BY <2>1, <2>2, <3>1 DEF TypeOK
  <2>4. Trimmed(batch)' = Trimmed(batch) /\ Len(Trimmed(batch)) \in Nat
    BY <2>1, CutFits DEF Trimmed
  <2>5. PhaseInv'
    BY <2>1, <2>2, <2>4 DEF PhaseInv
  <2>6. Held' \subseteq Held
    BY <2>1, <2>2 DEF Held
  <2>7. OrderInv'
    BY <2>1, <2>2, <2>6 DEF OrderInv, Below
  <2>8. NothingVanishes'
    BY <2>1, <2>2 DEF NothingVanishes, PhaseInv
  <2>9. CapInv'
    BY <2>2, UsageAssumption DEF CapInv
  <2> QED BY <2>3, <2>5, <2>7, <2>8, <2>9
<1>2. CASE WriteLine
  <2> DEFINE t == Trimmed(batch)
             n == Len(spool)
  <2>1. /\ loop = "writing" /\ Len(spool) < Len(t) /\ spool' = Append(spool, t[n + 1])
        /\ UNCHANGED <<recorded, queue, pending, loop, batch, closing, final, dropped, restarts, delivered,
                       aged, lost>>
        /\ UNCHANGED <<path, faults, unspooled>>
    BY <1>2 DEF WriteLine, fileVars
  <2>2. /\ t \in Seq(Events) /\ Increasing(t) /\ ToSet(t) \subseteq ToSet(batch)
        /\ Len(t) * LineBytes <= MaxSpoolBytes /\ Len(t) \in Nat
    BY CutFits
  <2>3. spool \in Seq(Events) /\ n \in Nat /\ \A i \in 1..n : spool[i] = t[i]
    BY <2>1 DEF TypeOK, PhaseInv
  <2>4. t' = t
    BY <2>1 DEF Trimmed
  <2> HIDE DEF t
  <2>5. /\ spool' \in Seq(Events) /\ Len(spool') = n + 1 /\ n + 1 <= Len(t)
        /\ \A i \in 1..(n + 1) : spool'[i] = t[i] /\ i \in 1..Len(t)
    <3>1. t[n + 1] \in Events /\ n + 1 <= Len(t)
      BY <2>1, <2>2, <2>3
    <3>2. /\ spool' \in Seq(Events) /\ Len(spool') = n + 1
          /\ \A i \in 1..(n + 1) : spool'[i] = IF i = n + 1 THEN t[n + 1] ELSE spool[i]
      BY <2>1, <2>3, <3>1
    <3> HIDE DEF n
    <3> QED BY <2>2, <2>3, <3>1, <3>2
  <2> HIDE DEF n
  <2>6. Increasing(spool')
    BY <2>2, <2>5 DEF Increasing
  <2>7. ToSet(spool) \subseteq ToSet(spool') /\ ToSet(spool') \subseteq ToSet(batch)
    <3>1. \A x \in ToSet(spool') : x \in ToSet(t)
      BY <2>2, <2>5, InSeq
    <3>2. \A i \in 1..n : spool[i] \in ToSet(spool')
      <4>1. \A i \in 1..n : i \in 1..(n + 1) /\ spool[i] = spool'[i]
        BY <2>3, <2>5
      <4> QED BY <2>3, <2>5, <4>1, InSeq
    <3> QED BY <2>2, <2>3, <3>1, <3>2, InSeq DEF n
  <2>8. TypeOK'
    BY <2>1, <2>5 DEF TypeOK
  <2>9. PhaseInv'
    BY <2>1, <2>4, <2>5 DEF PhaseInv, t
  <2>10. Held' = Held
    BY <2>1, <2>7 DEF Held
  <2>11. OrderInv'
    <3>1. pending = <<>> /\ ToSet(pending) = {}
      BY <1>0, <2>1 DEF PhaseInv
    <3> QED BY <2>1, <2>6, <2>7, <2>10, <3>1 DEF OrderInv, Below
  <2>12. NothingVanishes'
    BY <2>1, <2>7 DEF NothingVanishes
  <2>13. CapInv'
    <3>1. LineBytes \in Nat
      BY UsageAssumption
    <3>2. Len(spool') * LineBytes <= Len(t) * LineBytes
      BY <2>2, <2>3, <2>5, <3>1
    <3>3. Len(spool') * LineBytes \in Nat /\ Len(t) * LineBytes \in Nat /\ MaxSpoolBytes \in Nat
      BY <2>2, <2>3, <2>5, UsageAssumption
    <3> QED BY <2>2, <3>2, <3>3 DEF CapInv
  <2> QED BY <2>8, <2>9, <2>11, <2>12, <2>13
<1> QED BY <1>1, <1>2

\* The batch that was not taken has become the spool, cut to its cap.
LEMMA SpoolStep ==
    ASSUME ClientInv, WriteSpool
    PROVE  ClientInv'
<1> USE DEF ClientInv
<1>1. /\ loop = "writing" /\ loop' \in {"select", "stopped"} /\ Len(spool) = Len(Trimmed(batch))
      /\ batch' = <<>> /\ aged' = aged \cup (ToSet(batch) \ ToSet(spool))
      /\ UNCHANGED <<recorded, queue, pending, spool, closing, final, dropped, restarts, delivered, lost>>
      /\ UNCHANGED <<path, faults, unspooled>>
  BY DEF WriteSpool, Resume, fileVars
<1>2. spool = Trimmed(batch)
  <2>1. spool \in Seq(Events) /\ Trimmed(batch) \in Seq(Events)
    BY CutFits DEF TypeOK
  <2>2. \A i \in 1..Len(spool) : spool[i] = Trimmed(batch)[i]
    BY <1>1 DEF PhaseInv
  <2> QED BY <1>1, <2>1, <2>2
<1>3. /\ batch \in Seq(Events) /\ ToSet(batch) \subseteq Events
      /\ ToSet(spool) \subseteq ToSet(batch)
      /\ Below(ToSet(batch) \ ToSet(spool), ToSet(spool))
  BY <1>2, CutFits
<1>4. /\ ToSet(batch') = {} /\ Increasing(batch') /\ batch' \in Seq(Events)
      /\ pending = <<>> /\ ToSet(pending) = {}
  BY <1>1, EmptySet DEF PhaseInv
<1>5. TypeOK'
  BY <1>1, <1>3, <1>4 DEF TypeOK
<1>6. PhaseInv'
  BY <1>1, <1>4 DEF PhaseInv
<1>7. OrderInv'
  <2>1. Held' = ToSet(queue) \cup ToSet(spool) /\ Held = ToSet(queue) \cup ToSet(batch)
    BY <1>1, <1>3, <1>4 DEF Held
  <2>2. Below(aged', Held')
    <3>1. Below(aged, Held')
      BY <1>3, <2>1 DEF OrderInv, Below
    <3>2. Below(ToSet(batch), ToSet(queue))
      BY DEF OrderInv, Below
    <3>3. Below(ToSet(batch) \ ToSet(spool), Held')
      BY <1>3, <2>1, <3>2 DEF Below
    <3> QED BY <1>1, <3>1, <3>3 DEF Below
  <2>3. aged' \cup Held' \subseteq 1..recorded'
    BY <1>1, <1>3, <2>1 DEF OrderInv
  <2>4. Below(ToSet(batch') \cup ToSet(spool') \cup ToSet(pending'), ToSet(queue'))
    BY <1>1, <1>3, <1>4 DEF OrderInv, Below
  <2>5. Below(ToSet(spool'), ToSet(pending'))
    BY <1>1, <1>4 DEF Below
  <2> QED BY <1>1, <1>3, <1>4, <2>2, <2>3, <2>4, <2>5 DEF OrderInv
<1>8. NothingVanishes'
  BY <1>1, <1>3, <1>4 DEF NothingVanishes
<1> QED BY <1>1, <1>5, <1>6, <1>7, <1>8 DEF CapInv

\* A spool that is not there or fails drops the batch, and a batch that was
\* taken takes the spool with it.
LEMMA GiveUpStep ==
    ASSUME ClientInv, SpoolFails \/ ClearSpool
    PROVE  ClientInv'
<1> USE DEF ClientInv
<1>0. /\ ToSet(<<>>) = {} /\ Increasing(<<>>) /\ <<>> \in Seq(Events) /\ Len(<<>>) = 0
      /\ ToSet(spool) \subseteq Events /\ ToSet(batch) \subseteq Events
  BY EmptySet, InSeq DEF TypeOK
<1>1. /\ loop \in {"spooling", "writing", "clearing"} /\ loop' \in {"select", "stopped"} /\ batch' = <<>>
      /\ UNCHANGED <<recorded, queue, pending, closing, final, dropped, restarts, delivered, aged, lost, path>>
  BY DEF SpoolFails, ClearSpool, Resume
<1>2. faults' \in 0..MaxFaults /\ (faults > 0 => faults' > 0)
  BY UsageAssumption DEF SpoolFails, ClearSpool, Fault, TypeOK
<1>3. /\ spool' = spool \/ spool' = <<>>
      /\ unspooled \subseteq unspooled'
      /\ unspooled' \subseteq unspooled \cup ToSet(spool) \cup ToSet(batch)
      /\ ToSet(batch) \cup ToSet(spool) \subseteq unspooled' \cup delivered \cup ToSet(spool')
      /\ unspooled' # unspooled => ~path \/ faults' > 0
  <2>1. CASE SpoolFails
    <3>1. /\ unspooled' = unspooled \cup (ToSet(batch) \ (ToSet(spool) \cup delivered)) /\ spool' = spool
          /\ ~path \/ faults' = faults + 1
      BY <2>1 DEF SpoolFails, Fault
    <3> QED BY <3>1 DEF TypeOK
  <2>2. CASE ClearSpool
    <3>1. /\ ToSet(batch) \subseteq delivered
          /\ ToSet(spool) \subseteq ToSet(batch) \/ faults > 0
      BY <2>2 DEF ClearSpool, PhaseInv
    <3>2. \/ spool' = <<>> /\ unspooled' = unspooled \cup (ToSet(spool) \ delivered) /\ faults' = faults
          \/ spool' = spool /\ unspooled' = unspooled
      BY <2>2 DEF ClearSpool
    <3> QED BY <1>0, <3>1, <3>2
  <2> QED BY <2>1, <2>2
<1>4. /\ spool' \in Seq(Events) /\ Increasing(spool') /\ ToSet(spool') \subseteq ToSet(spool)
      /\ Len(spool') = Len(spool) \/ Len(spool') = 0
  BY <1>0, <1>3 DEF TypeOK, OrderInv
<1>5. ToSet(batch') = {} /\ Increasing(batch') /\ batch' \in Seq(Events) /\ ToSet(pending) = {}
  BY <1>0, <1>1 DEF PhaseInv
<1>6. TypeOK'
  BY <1>0, <1>1, <1>2, <1>3, <1>4, <1>5 DEF TypeOK
<1>7. PhaseInv'
  BY <1>1, <1>5 DEF PhaseInv
<1>8. Held' \subseteq Held
  BY <1>1, <1>4, <1>5 DEF Held
<1>9. OrderInv'
  BY <1>1, <1>4, <1>5, <1>8 DEF OrderInv, Below
<1>10. NothingVanishes'
  <2>1. unspooled' # {} => ~path' \/ faults' > 0
    BY <1>1, <1>2, <1>3 DEF NothingVanishes
  <2> QED BY <1>1, <1>3, <1>5, <2>1 DEF NothingVanishes
<1>11. CapInv'
  BY <1>4, UsageAssumption DEF CapInv
<1> QED BY <1>6, <1>7, <1>9, <1>10, <1>11

\* A restart keeps the spool and nothing else.
LEMMA RestartStep ==
    ASSUME ClientInv, Restart
    PROVE  ClientInv'
<1> USE DEF ClientInv
<1>1. /\ restarts < MaxRestarts /\ restarts' = restarts + 1 /\ lost' = lost \cup InMemory
      /\ queue' = <<>> /\ pending' = <<>> /\ batch' = <<>> /\ loop' = "select"
      /\ closing' = FALSE /\ final' = FALSE
      /\ UNCHANGED <<recorded, spool, dropped, delivered, aged>> /\ UNCHANGED <<path, faults, unspooled>>
  BY DEF Restart, fileVars
<1>2. ToSet(<<>>) = {} /\ Increasing(<<>>) /\ <<>> \in Seq(Events) /\ Len(<<>>) = 0
  BY EmptySet
<1>3. InMemory \subseteq Events
  <2>1. ToSet(queue) \subseteq Events /\ ToSet(pending) \subseteq Events /\ ToSet(batch) \subseteq Events
    BY InSeq DEF TypeOK
  <2> QED BY <2>1 DEF InMemory
<1>4. TypeOK'
  <2>1. restarts' \in 0..MaxRestarts
    BY <1>1, UsageAssumption DEF TypeOK
  <2>2. Len(<<>>) <= QueueCap /\ Len(<<>>) < BatchSize
    BY <1>2, UsageAssumption
  <2>3. queue' \in Seq(Events) /\ pending' \in Seq(Events) /\ batch' \in Seq(Events) /\ spool' \in Seq(Events)
    BY <1>1, <1>2 DEF TypeOK
  <2>4. /\ dropped' \subseteq Events /\ aged' \subseteq Events /\ lost' \subseteq Events
        /\ delivered' \subseteq Events /\ recorded' \in 0..MaxEvents
    BY <1>1, <1>3 DEF TypeOK
  <2> QED BY <1>1, <2>1, <2>2, <2>3, <2>4 DEF TypeOK
<1>5. PhaseInv'
  BY <1>1 DEF PhaseInv
<1>6. Held' \subseteq Held
  BY <1>1, <1>2 DEF Held
<1>7. OrderInv'
  BY <1>1, <1>2, <1>6 DEF OrderInv, Below
<1>8. NothingVanishes'
  <2>1. restarts' > 0
    BY <1>1 DEF TypeOK
  <2> QED BY <1>1, <1>2, <2>1 DEF NothingVanishes, InMemory
<1> QED BY <1>1, <1>4, <1>5, <1>7, <1>8 DEF CapInv

\* The client starts with nothing.
LEMMA ClientInit == Init => ClientInv
<1> SUFFICES ASSUME Init PROVE ClientInv
  OBVIOUS
<1>1. ToSet(<<>>) = {} /\ Increasing(<<>>) /\ <<>> \in Seq(Events) /\ Len(<<>>) = 0
  BY EmptySet
<1>2. TypeOK
  <2>1. 0 \in 0..MaxEvents /\ 0 \in 0..MaxRestarts /\ 0 \in 0..MaxFaults /\ 0 <= QueueCap /\ 0 < BatchSize
    BY UsageAssumption
  <2> QED BY <1>1, <2>1 DEF Init, TypeOK
<1>3. PhaseInv
  BY DEF Init, PhaseInv
<1>4. OrderInv
  BY <1>1 DEF Init, OrderInv, Held, Below
<1>5. CapInv
  BY <1>1, UsageAssumption DEF Init, CapInv
<1>6. NothingVanishes
  BY DEF Init, NothingVanishes
<1> QED BY <1>2, <1>3, <1>4, <1>5, <1>6 DEF ClientInv

\* The invariant gives the property: the parts of the pipeline follow each
\* other, and the spool is part of what is younger than what was cut.
LEMMA ClientAccounts == ClientInv => EventsAccounted
<1> SUFFICES ASSUME ClientInv PROVE EventsAccounted
  OBVIOUS
<1> USE DEF ClientInv
<1>1. /\ batch \in Seq(Events) /\ queue \in Seq(Events) /\ spool \in Seq(Events) /\ pending \in Seq(Events)
      /\ Increasing(batch) /\ Increasing(queue) /\ Increasing(spool) /\ Increasing(pending)
  BY DEF TypeOK, OrderInv
<1>2. Increasing(batch \o queue)
  <2>1. Below(ToSet(batch), ToSet(queue))
    BY DEF OrderInv, Below
  <2> QED BY <1>1, <2>1, ConcatSet
<1>3. Increasing((spool \o pending) \o queue)
  <2>1. /\ spool \o pending \in Seq(Events) /\ Increasing(spool \o pending)
        /\ ToSet(spool \o pending) = ToSet(spool) \cup ToSet(pending)
    BY <1>1, ConcatSet DEF OrderInv
  <2>2. Below(ToSet(spool \o pending), ToSet(queue))
    BY <2>1 DEF OrderInv, Below
  <2> QED BY <1>1, <2>1, <2>2, ConcatSet
<1>4. \A i \in 1..Len(spool) : \A e \in aged : e < spool[i]
  <2>1. \A i \in 1..Len(spool) : spool[i] \in Held
    BY <1>1, InSeq DEF Held
  <2> QED BY <2>1 DEF OrderInv, Below
<1> QED BY <1>2, <1>3, <1>4 DEF EventsAccounted, InOrder, SpoolKeepsRecent, CapInv

\* Every recorded event is delivered, on its way, or lost in one of the four
\* ways the code admits, and a spool gives events up only when the client has
\* no spool path or its file answered with an error; events keep their order
\* from the channel to the control plane; and a full spool gives up its oldest
\* events (Record, loop, flush, readSpool, writeSpool, clearSpool), across any
\* number of failed posts, file errors and restarts.
THEOREM Accounted == Spec => []EventsAccounted
<1>1. Init => ClientInv
  BY ClientInit
<1>2. ClientInv /\ [Next]_vars => ClientInv'
  <2>1. SUFFICES ASSUME ClientInv, [Next]_vars PROVE ClientInv'
    OBVIOUS
  <2> QED BY <2>1, RecordStep, TickStep, TakeStep, FinalStep, AnswerStep, WritingStep, SpoolStep, GiveUpStep,
              RestartStep
          DEF Next, LoopStep
<1>3. ClientInv => EventsAccounted
  BY ClientAccounts
<1> QED BY <1>1, <1>2, <1>3, PTL DEF Spec
=============================================================================

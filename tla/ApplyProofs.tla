----------------------------- MODULE ApplyProofs -----------------------------
(***************************************************************************)
(* Theorems about Apply, for any proposals, any configuration they meet    *)
(* and any number of runs, failures and crashes: what reaches the disk is  *)
(* what the gates passed, a run is all or nothing, and the configuration   *)
(* can be used at every instant.                                           *)
(***************************************************************************)
EXTENDS Apply, TLAPS

-----------------------------------------------------------------------------
(* Mutations as a set, in the order of their ranks *)

Op(file, op, item) == [file |-> file, op |-> op, item |-> item]
OpSet(file, op, items) == {Op(file, op, items[i]) : i \in DOMAIN items}

\* The mutations of proposal p.
AllOps(p) ==
    UNION {OpSet("ssh", "remove", p.sshRemove), OpSet("ssh", "add", p.sshAdd),
           OpSet("ssm", "remove", p.ssmRemove), OpSet("ssm", "add", p.ssmAdd),
           {Op("sys", "merge", p)},
           IF p.appsAdd \cup p.appsRemove = {} THEN {} ELSE {Op("apps", "merge", p)},
           OpSet("policy", "remove", p.policyRemove),
           OpSet("policy", "add", p.policyAdd)}

\* Where applyMutations has the step that writes m.
Rank(m) ==
    CASE m.file = "ssh" -> IF m.op = "remove" THEN 1 ELSE 2
      [] m.file = "ssm" -> IF m.op = "remove" THEN 3 ELSE 4
      [] m.file = "sys" -> 5
      [] m.file = "apps" -> 6
      [] OTHER -> IF m.op = "remove" THEN 7 ELSE 8

Elems(s) == {s[i] : i \in DOMAIN s}
Sorted(s) == \A i, j \in DOMAIN s : i <= j => Rank(s[i]) <= Rank(s[j])

\* A concatenation has the elements of both parts, and is sorted when they are
\* and the second follows the first.
LEMMA ConcatSorted ==
    ASSUME NEW S, NEW s \in Seq(S), NEW t \in Seq(S)
    PROVE  /\ s \o t \in Seq(S)
           /\ Elems(s \o t) = Elems(s) \cup Elems(t)
           /\ Sorted(s) /\ Sorted(t) /\ (\A m \in Elems(s), n \in Elems(t) : Rank(m) <= Rank(n))
                => Sorted(s \o t)
<1>1. s \o t \in Seq(S) /\ Len(s \o t) = Len(s) + Len(t)
  OBVIOUS
<1>2. \A i \in DOMAIN (s \o t) :
          \/ i \in DOMAIN s /\ (s \o t)[i] = s[i]
          \/ i - Len(s) \in DOMAIN t /\ (s \o t)[i] = t[i - Len(s)] /\ ~(i <= Len(s))
  OBVIOUS
<1>3. Elems(s \o t) \subseteq Elems(s) \cup Elems(t)
  BY <1>2 DEF Elems
<1>4. Elems(s) \subseteq Elems(s \o t)
  BY DEF Elems
<1>5. Elems(t) \subseteq Elems(s \o t)
  <2>1. \A i \in DOMAIN t : i + Len(s) \in DOMAIN (s \o t) /\ (s \o t)[i + Len(s)] = t[i]
    OBVIOUS
  <2> QED BY <2>1 DEF Elems
<1>6. ASSUME Sorted(s), Sorted(t), \A m \in Elems(s), n \in Elems(t) : Rank(m) <= Rank(n)
      PROVE  Sorted(s \o t)
  <2> SUFFICES ASSUME NEW i \in DOMAIN (s \o t), NEW j \in DOMAIN (s \o t), i <= j
               PROVE  Rank((s \o t)[i]) <= Rank((s \o t)[j])
    BY DEF Sorted
  <2>1. CASE i \in DOMAIN s /\ j \in DOMAIN s
    BY <1>2, <1>6, <2>1 DEF Sorted
  <2>2. CASE i \in DOMAIN s /\ j \notin DOMAIN s
    BY <1>2, <1>6, <2>2 DEF Elems
  <2>3. CASE i \notin DOMAIN s
    <3>1. j \notin DOMAIN s
      BY <2>3
    <3>2. /\ i - Len(s) \in DOMAIN t /\ (s \o t)[i] = t[i - Len(s)]
          /\ j - Len(s) \in DOMAIN t /\ (s \o t)[j] = t[j - Len(s)]
          /\ i - Len(s) <= j - Len(s)
      BY <1>2, <2>3, <3>1
    <3> QED BY <1>6, <3>2 DEF Sorted
  <2> QED BY <2>1, <2>2, <2>3
<1> QED BY <1>1, <1>3, <1>4, <1>5, <1>6

\* The first mutation has the least rank; the others stay in order.
LEMMA TailSorted ==
    ASSUME NEW S, NEW s \in Seq(S), s # << >>, Sorted(s)
    PROVE  /\ Head(s) \in S /\ Head(s) \in Elems(s) /\ Elems(s) \subseteq S
           /\ Tail(s) \in Seq(S) /\ Sorted(Tail(s))
           /\ Elems(s) = {Head(s)} \cup Elems(Tail(s))
           /\ \A m \in Elems(s) : Rank(Head(s)) <= Rank(m)
<1>1. Len(s) \in Nat /\ 1 \in DOMAIN s /\ Head(s) = s[1] /\ DOMAIN s = 1..Len(s)
  OBVIOUS
<1>2. /\ Tail(s) \in Seq(S)
      /\ \A i \in DOMAIN Tail(s) : i + 1 \in DOMAIN s /\ Tail(s)[i] = s[i + 1]
      /\ \A i \in DOMAIN s : i # 1 => i - 1 \in DOMAIN Tail(s) /\ Tail(s)[i - 1] = s[i]
  OBVIOUS
<1>3. Sorted(Tail(s))
  <2> SUFFICES ASSUME NEW i \in DOMAIN Tail(s), NEW j \in DOMAIN Tail(s), i <= j
               PROVE  Rank(Tail(s)[i]) <= Rank(Tail(s)[j])
    BY DEF Sorted
  <2>1. /\ i + 1 \in DOMAIN s /\ Tail(s)[i] = s[i + 1]
        /\ j + 1 \in DOMAIN s /\ Tail(s)[j] = s[j + 1]
        /\ i + 1 <= j + 1
    BY <1>2
  <2> QED BY <2>1 DEF Sorted
<1>4. Elems(s) = {Head(s)} \cup Elems(Tail(s))
  <2>1. Head(s) \in Elems(s)
    BY <1>1 DEF Elems
  <2>2. Elems(Tail(s)) \subseteq Elems(s)
    BY <1>2 DEF Elems
  <2>3. ASSUME NEW i \in DOMAIN s PROVE s[i] \in {Head(s)} \cup Elems(Tail(s))
    <3>1. CASE i = 1
      BY <1>1, <3>1
    <3>2. CASE i # 1
      <4>1. i - 1 \in DOMAIN Tail(s) /\ Tail(s)[i - 1] = s[i]
        BY <1>2, <3>2
      <4> QED BY <4>1 DEF Elems
    <3> QED BY <3>1, <3>2
  <2>4. Elems(s) \subseteq {Head(s)} \cup Elems(Tail(s))
    BY <2>3 DEF Elems
  <2> QED BY <2>1, <2>2, <2>4
<1>5. \A m \in Elems(s) : Rank(Head(s)) <= Rank(m)
  BY <1>1 DEF Elems, Sorted
<1>6. Head(s) \in S /\ Head(s) \in Elems(s) /\ Elems(s) \subseteq S
  BY <1>1 DEF Elems
<1> QED BY <1>2, <1>3, <1>4, <1>5, <1>6

\* One list of a proposal becomes one block of mutations.
LEMMA OpsBlock ==
    ASSUME NEW file, NEW op, NEW items, IsSequence(items)
    PROVE  /\ Ops(file, op, items) \in Seq(OpSet(file, op, items))
           /\ Elems(Ops(file, op, items)) = OpSet(file, op, items)
<1>1. PICK n \in Nat : DOMAIN items = 1..n
  BY DEF IsSequence
<1> QED BY <1>1 DEF Ops, OpSet, Op, Elems

\* A rank is a number.
LEMMA RankType == \A m : Rank(m) \in 1..8
BY DEF Rank

\* A merge is a block of one mutation.
LEMMA MergeBlock ==
    ASSUME NEW file, NEW op, NEW p
    PROVE  /\ Ops(file, op, <<p>>) \in Seq({Op(file, op, p)})
           /\ Elems(Ops(file, op, <<p>>)) = {Op(file, op, p)}
<1>1. DOMAIN <<p>> = 1..1 /\ <<p>>[1] = p
  OBVIOUS
<1>2. Ops(file, op, <<p>>) = [i \in 1..1 |-> Op(file, op, p)]
  BY <1>1 DEF Ops, Op
<1>3. Ops(file, op, <<p>>) \in Seq({Op(file, op, p)})
  BY <1>2
<1>4. Elems(Ops(file, op, <<p>>)) = {Op(file, op, p)}
  <2>1. DOMAIN Ops(file, op, <<p>>) = {1} /\ Ops(file, op, <<p>>)[1] = Op(file, op, p)
    BY <1>2
  <2> QED BY <2>1 DEF Elems
<1> QED BY <1>3, <1>4

\* applyMutations writes every mutation of the proposal, in rank order.
LEMMA MutationsSorted ==
    ASSUME NEW p \in Proposals
    PROVE  /\ Mutations(p) \in Seq(AllOps(p))
           /\ Elems(Mutations(p)) = AllOps(p)
           /\ Sorted(Mutations(p))
<1> DEFINE S == AllOps(p)
           A == Ops("ssh", "remove", p.sshRemove)
           B == Ops("ssh", "add", p.sshAdd)
           C == Ops("ssm", "remove", p.ssmRemove)
           D == Ops("ssm", "add", p.ssmAdd)
           E == Ops("sys", "merge", <<p>>)
           F == IF p.appsAdd \cup p.appsRemove = {} THEN << >>
                ELSE Ops("apps", "merge", <<p>>)
           G == Ops("policy", "remove", p.policyRemove)
           H == Ops("policy", "add", p.policyAdd)
           Block(s, r) == s \in Seq(S) /\ \A m \in Elems(s) : Rank(m) = r
           Upto(s, r) == s \in Seq(S) /\ Sorted(s) /\ \A m \in Elems(s) : Rank(m) <= r
<1>1. /\ IsSequence(p.sshRemove) /\ IsSequence(p.sshAdd)
      /\ IsSequence(p.ssmRemove) /\ IsSequence(p.ssmAdd)
      /\ IsSequence(p.policyRemove) /\ IsSequence(p.policyAdd)
  BY ApplyAssumption
<1>2. /\ Elems(A) = OpSet("ssh", "remove", p.sshRemove)
      /\ Elems(B) = OpSet("ssh", "add", p.sshAdd)
      /\ Elems(C) = OpSet("ssm", "remove", p.ssmRemove)
      /\ Elems(D) = OpSet("ssm", "add", p.ssmAdd)
      /\ Elems(E) = {Op("sys", "merge", p)}
      /\ Elems(F) = IF p.appsAdd \cup p.appsRemove = {} THEN {} ELSE {Op("apps", "merge", p)}
      /\ Elems(G) = OpSet("policy", "remove", p.policyRemove)
      /\ Elems(H) = OpSet("policy", "add", p.policyAdd)
  <2>1. Elems(<< >>) = {}
    BY DEF Elems
  <2> QED BY <1>1, <2>1, OpsBlock, MergeBlock
<1>3. UNION {Elems(A), Elems(B), Elems(C), Elems(D), Elems(E), Elems(F), Elems(G), Elems(H)} = S
  BY <1>2 DEF AllOps
<1>4. /\ A \in Seq(S) /\ B \in Seq(S) /\ C \in Seq(S) /\ D \in Seq(S)
      /\ E \in Seq(S) /\ F \in Seq(S) /\ G \in Seq(S) /\ H \in Seq(S)
  <2>1. ASSUME NEW s, NEW T, s \in Seq(T), Elems(s) \subseteq S PROVE s \in Seq(S)
    BY <2>1 DEF Elems
  <2>2. /\ Elems(A) \subseteq S /\ Elems(B) \subseteq S /\ Elems(C) \subseteq S
        /\ Elems(D) \subseteq S /\ Elems(E) \subseteq S /\ Elems(F) \subseteq S
        /\ Elems(G) \subseteq S /\ Elems(H) \subseteq S
    BY <1>3
  <2>3. E \in Seq({Op("sys", "merge", p)}) /\ F \in Seq({Op("apps", "merge", p)})
    BY MergeBlock
  <2> HIDE DEF S, E, F
  <2> QED BY <1>1, <2>1, <2>2, <2>3, OpsBlock
<1>5. /\ Block(A, 1) /\ Block(B, 2) /\ Block(C, 3) /\ Block(D, 4)
      /\ Block(E, 5) /\ Block(F, 6) /\ Block(G, 7) /\ Block(H, 8)
  <2>1. /\ \A m \in Elems(A) : Rank(m) = 1
        /\ \A m \in Elems(B) : Rank(m) = 2
        /\ \A m \in Elems(C) : Rank(m) = 3
        /\ \A m \in Elems(D) : Rank(m) = 4
    <3> HIDE DEF A, B, C, D
    <3> QED BY <1>2 DEF OpSet, Op, Rank
  <2>2. /\ \A m \in Elems(E) : Rank(m) = 5
        /\ \A m \in Elems(F) : Rank(m) = 6
        /\ \A m \in Elems(G) : Rank(m) = 7
        /\ \A m \in Elems(H) : Rank(m) = 8
    <3> HIDE DEF E, F, G, H
    <3> QED BY <1>2 DEF OpSet, Op, Rank
  <2> HIDE DEF S, A, B, C, D, E, F, G, H
  <2> QED BY <1>4, <2>1, <2>2
<1>6. ASSUME NEW s, NEW t, NEW r \in Nat, Upto(s, r), Block(t, r + 1)
      PROVE  Upto(s \o t, r + 1) /\ Elems(s \o t) = Elems(s) \cup Elems(t)
  <2> HIDE DEF S
  <2>1. Sorted(t)
    BY <1>6 DEF Sorted, Elems
  <2>2. \A m \in Elems(s), n \in Elems(t) : Rank(m) <= Rank(n)
    BY <1>6, RankType
  <2>3. s \in Seq(S) /\ t \in Seq(S) /\ Sorted(s)
    BY <1>6
  <2>4. s \o t \in Seq(S) /\ Sorted(s \o t) /\ Elems(s \o t) = Elems(s) \cup Elems(t)
    BY <2>1, <2>2, <2>3, ConcatSorted
  <2>5. \A m \in Elems(s \o t) : Rank(m) <= r + 1
    BY <1>6, <2>4, RankType
  <2> QED BY <2>4, <2>5
<1>7. Upto(A, 1)
  <2> HIDE DEF A, S
  <2>1. A \in Seq(S) /\ \A m \in Elems(A) : Rank(m) = 1
    BY <1>5
  <2>2. Sorted(A)
    BY <2>1 DEF Sorted, Elems
  <2> QED BY <2>1, <2>2
<1> HIDE DEF A, B, C, D, E, F, G, H, S, Block, Upto
<1>8. Upto(A \o B, 2) /\ Elems(A \o B) = Elems(A) \cup Elems(B)
  BY <1>5, <1>6, <1>7
<1>9. Upto(A \o B \o C, 3) /\ Elems(A \o B \o C) = Elems(A \o B) \cup Elems(C)
  BY <1>5, <1>6, <1>8
<1>10. /\ Upto(A \o B \o C \o D, 4)
       /\ Elems(A \o B \o C \o D) = Elems(A \o B \o C) \cup Elems(D)
  BY <1>5, <1>6, <1>9
<1>11. /\ Upto(A \o B \o C \o D \o E, 5)
       /\ Elems(A \o B \o C \o D \o E) = Elems(A \o B \o C \o D) \cup Elems(E)
  BY <1>5, <1>6, <1>10
<1>12. /\ Upto(A \o B \o C \o D \o E \o F, 6)
       /\ Elems(A \o B \o C \o D \o E \o F) = Elems(A \o B \o C \o D \o E) \cup Elems(F)
  BY <1>5, <1>6, <1>11
<1>13. /\ Upto(A \o B \o C \o D \o E \o F \o G, 7)
       /\ Elems(A \o B \o C \o D \o E \o F \o G)
              = Elems(A \o B \o C \o D \o E \o F) \cup Elems(G)
  BY <1>5, <1>6, <1>12
<1>14. /\ Upto(A \o B \o C \o D \o E \o F \o G \o H, 8)
       /\ Elems(A \o B \o C \o D \o E \o F \o G \o H)
              = Elems(A \o B \o C \o D \o E \o F \o G) \cup Elems(H)
  BY <1>5, <1>6, <1>13
<1>15. Mutations(p) = A \o B \o C \o D \o E \o F \o G \o H
  BY DEF Mutations, A, B, C, D, E, F, G, H
<1>16. Elems(Mutations(p)) = S
  BY <1>3, <1>8, <1>9, <1>10, <1>11, <1>12, <1>13, <1>14, <1>15
<1> QED BY <1>14, <1>15, <1>16 DEF Upto, S

-----------------------------------------------------------------------------
(* The inductive invariant *)

\* The six files have their types, before a run and at every instant of it.
IsConfig(c) ==
    /\ DOMAIN c = Files
    /\ \A f \in Files : IsFile(c[f])
    /\ \A t \in c["ssh"].items : IsTarget(t)

HasPolicy(c) == c["policy"].at # "absent" \/ c["legacy"].at # "absent"

\* Between the plan and the snapshot nothing is written, and a run that has
\* begun to write has passed the gates.
GateInv ==
    /\ pc \in {"idle", "gates", "refused"} => before = << >>
    /\ pc \notin {"idle", "gates", "refused", "crashed"} => before # << >>
    /\ pc = "gates" => liveSystem = files["sys"].items
    /\ pc \in {"gates", "mutating"} => restores = 0
    /\ before # << >> =>
        /\ IsConfig(before) /\ HasPolicy(before)
        /\ snap = [f \in {"ssh", "sys", "policy", "apps"} |-> before[f]]
        /\ liveSystem = before["sys"].items
        /\ prop \in Proposals
        /\ HashMatches /\ ~PlanBlocked
        /\ acked <=> NeedsAck
        /\ NeedsAck => ~yes

\* What a run added, its proposal names.
AddedInv == before # << >> =>
    /\ files["policy"].items \ before["policy"].items \subseteq Elems(prop.policyAdd)
    /\ \A t \in files["ssh"].items \ before["ssh"].items :
          \E i \in DOMAIN prop.sshAdd : prop.sshAdd[i].alias = t.alias

\* The effect of a mutation is on disk.
Installed(m) ==
    CASE m.file = "ssh" /\ m.op = "add" ->
            \E t \in files["ssh"].items : t.alias = m.item.alias /\ t.setting = m.item.setting
      [] m.file = "ssm" /\ m.op = "add" ->
            \E t \in files["ssm"].items : t.alias = m.item.alias
      [] m.file = "sys" -> files["sys"] = Present(EffectiveSystem(prop, liveSystem))
      [] m.file = "apps" -> prop.appsAdd \subseteq files["apps"].items
      [] m.file = "policy" /\ m.op = "add" -> m.item \in files["policy"].items
      [] OTHER -> TRUE

\* While mutations are written: what is left is in rank order, what is not left
\* is installed, and no rule is granted before the verbs are written.
MutatingInv == pc = "mutating" =>
    /\ todo \in Seq(AllOps(prop)) /\ Sorted(todo)
    /\ \A m \in AllOps(prop) \ Elems(todo) :
          Installed(m) /\ \A n \in Elems(todo) : Rank(m) <= Rank(n)
    /\ (\E m \in Elems(todo) : m.file = "apps") =>
          files["policy"].items \subseteq before["policy"].items
    /\ files["legacy"] = before["legacy"]

\* After them: everything stays installed, but for a save of the pinned facts
\* that breaks off.
InstalledInv ==
    /\ pc \in {"auditing", "pinning"} => \A m \in AllOps(prop) : Installed(m)
    /\ pc \in {"attesting", "done"} =>
        \A m \in AllOps(prop) :
            Installed(m) \/ (m.file = "ssh" /\ files["ssh"].at = "corrupt")

\* During a rollback: the files put back so far are those of before.
RestoringInv ==
    /\ pc \in {"restoring", "failed"} => files["legacy"] = before["legacy"]
    /\ pc = "failed" => restores = 4
    /\ pc \in {"restoring", "failed"} /\ ~unrestored =>
        /\ restores > 0 => files["ssh"] = before["ssh"]
        /\ restores > 1 => files["sys"] = before["sys"]
        /\ restores > 2 => files["policy"] = before["policy"]
        /\ restores > 3 => files["apps"] = before["apps"]

\* The inductive invariant of apply.
ApplyInv ==
    /\ IsConfig(files)
    /\ TypeOK
    /\ GateInv
    /\ AddedInv
    /\ MutatingInv
    /\ InstalledInv
    /\ RestoringInv
    /\ LeavesUsable

-----------------------------------------------------------------------------
(* Steps *)

\* What the gates decided and what is installed depend on nothing else.
LEMMA SameRun ==
    /\ UNCHANGED cli => /\ HashMatches' <=> HashMatches
                        /\ PlanBlocked' <=> PlanBlocked
                        /\ NeedsAck' <=> NeedsAck
    /\ UNCHANGED <<files, cli>> => \A m : Installed(m)' <=> Installed(m)
BY DEF cli, HashMatches, PlanBlocked, NeedsAck, Installed

\* Four files are snapshotted.
LEMMA FourFiles == Len(Snapshotted) = 4
BY DEF Snapshotted

\* A step of a run keeps the types of what it leaves alone.
LEMMA RunTypeStep ==
    ASSUME TypeOK, IsConfig(files)', UNCHANGED cli,
           propFile' \in Proposals, reviewed' \in Proposals \cup {None},
           pc' \in Pcs, pc' # "idle" => prop \in Proposals,
           acked' \in BOOLEAN, unrestored' \in BOOLEAN, restores' \in 0..4,
           audit' \subseteq Proposals
    PROVE  TypeOK'
<1>1. (\A f \in Files : IsFile(files[f]))'
  BY DEF IsConfig
<1>2. /\ prop' \in Proposals \cup {None} /\ expect' \in Proposals \cup {None}
      /\ pc' # "idle" => prop' \in Proposals
      /\ runs' \in 0..MaxRuns
  BY DEF TypeOK, cli
<1>3. yes' \in BOOLEAN /\ skip' \in BOOLEAN
  BY DEF TypeOK, cli
<1>4. restores' \in 0..Len(Snapshotted)
  BY FourFiles
<1> QED BY <1>1, <1>2, <1>3, <1>4 DEF TypeOK

\* An install starts idle.
LEMMA ApplyInit == Init => ApplyInv
<1> SUFFICES ASSUME Init PROVE ApplyInv
  OBVIOUS
<1> USE ApplyAssumption DEF Init
<1>1. IsConfig(files) /\ HasPolicy(files)
  BY DEF IsConfig, HasPolicy
<1>2. TypeOK
  <2>1. \A f \in Files : IsFile(files[f])
    BY <1>1 DEF IsConfig
  <2>2. /\ propFile \in Proposals
        /\ reviewed \in Proposals \cup {None}
        /\ prop \in Proposals \cup {None} /\ expect \in Proposals \cup {None}
        /\ audit \subseteq Proposals
    OBVIOUS
  <2>3. pc \in Pcs /\ (pc # "idle" => prop \in Proposals)
    BY DEF Pcs, Terminal
  <2>4. /\ yes \in BOOLEAN /\ skip \in BOOLEAN
        /\ acked \in BOOLEAN /\ unrestored \in BOOLEAN
    OBVIOUS
  <2>5. restores \in 0..Len(Snapshotted) /\ runs \in 0..MaxRuns
    BY FourFiles
  <2> QED BY <2>1, <2>2, <2>3, <2>4, <2>5 DEF TypeOK
<1> QED
  BY <1>1, <1>2 DEF ApplyInv, GateInv, AddedInv, MutatingInv, InstalledInv, RestoringInv,
     LeavesUsable, GrantHasVerb, NeverStranded, HasPolicy, Pcs, Terminal

\* Steps that leave the run alone.
LEMMA QuietStep == ApplyInv /\ (Rewrite \/ Review \/ UNCHANGED vars) => ApplyInv'
<1> SUFFICES ASSUME ApplyInv, Rewrite \/ Review \/ UNCHANGED vars PROVE ApplyInv'
  OBVIOUS
<1>1. /\ UNCHANGED <<files, cli, pc, before, snap, todo, restores, acked, unrestored, audit>>
      /\ propFile' \in Proposals /\ reviewed' \in Proposals \cup {None}
  BY DEF ApplyInv, TypeOK, Rewrite, Review, vars, cli
<1>2. /\ HashMatches' <=> HashMatches
      /\ PlanBlocked' <=> PlanBlocked
      /\ NeedsAck' <=> NeedsAck
      /\ \A m : Installed(m)' <=> Installed(m)
  BY <1>1, SameRun
<1>3. IsConfig(files)' /\ GateInv' /\ AddedInv'
  BY <1>1, <1>2 DEF ApplyInv, GateInv, AddedInv, cli
<1>5. TypeOK'
  BY <1>1, <1>3, FourFiles, RunTypeStep DEF ApplyInv, TypeOK
<1>4. MutatingInv' /\ InstalledInv' /\ RestoringInv' /\ LeavesUsable'
  BY <1>1, <1>2 DEF ApplyInv, MutatingInv, InstalledInv, RestoringInv, LeavesUsable,
     GrantHasVerb, NeverStranded, cli
<1> QED BY <1>3, <1>4, <1>5 DEF ApplyInv

\* A run starts with nothing to write and nothing to put back.
LEMMA StartStep == ApplyInv /\ Start => ApplyInv'
<1> SUFFICES ASSUME ApplyInv, Start PROVE ApplyInv'
  OBVIOUS
<1>1. /\ UNCHANGED <<files, propFile, reviewed, audit>>
      /\ pc' \in {"gates", "refused"} /\ before' = << >>
      /\ liveSystem' = files["sys"].items
      /\ restores' = 0 /\ acked' = FALSE /\ unrestored' = FALSE
  BY DEF Start
<1>2. TypeOK'
  <2>1. /\ prop' \in Proposals /\ expect' \in Proposals \cup {None}
        /\ runs' \in 0..MaxRuns
    BY ApplyAssumption DEF ApplyInv, TypeOK, Start
  <2>2. /\ yes' \in BOOLEAN /\ skip' \in BOOLEAN
        /\ acked' \in BOOLEAN /\ unrestored' \in BOOLEAN
    BY <1>1 DEF Start
  <2>3. pc' \in Pcs /\ pc' # "idle" /\ restores' \in 0..Len(Snapshotted)
    BY <1>1, FourFiles DEF Pcs, Terminal
  <2> QED BY <1>1, <2>1, <2>2, <2>3 DEF ApplyInv, TypeOK
<1> QED
  BY <1>1, <1>2 DEF ApplyInv, GateInv, AddedInv, MutatingInv, InstalledInv, RestoringInv,
     LeavesUsable, GrantHasVerb, NeverStranded, Pcs, Terminal

\* A refused run wrote nothing.
LEMMA RefuseStep == ApplyInv /\ Refuse => ApplyInv'
<1> SUFFICES ASSUME ApplyInv, Refuse PROVE ApplyInv'
  OBVIOUS
<1>1. /\ pc = "gates" /\ pc' = "refused" /\ before = << >>
      /\ UNCHANGED <<files, cli, before, snap, todo, restores, acked, unrestored, audit,
                     propFile, reviewed>>
  BY DEF Refuse, ApplyInv, GateInv
<1>2. TypeOK'
  BY <1>1, FourFiles, RunTypeStep DEF ApplyInv, TypeOK, Pcs, Terminal
<1> QED
  BY <1>1, <1>2 DEF ApplyInv, GateInv, AddedInv, MutatingInv, InstalledInv, RestoringInv,
     LeavesUsable, GrantHasVerb, NeverStranded, Pcs, Terminal

\* A configuration is not the empty snapshot.
LEMMA ConfigNotEmpty == \A c : IsConfig(c) => c # << >>
<1> SUFFICES ASSUME NEW c, IsConfig(c), c = << >> PROVE FALSE
  OBVIOUS
<1>1. DOMAIN c = Files
  BY DEF IsConfig
<1>2. DOMAIN c = {}
  OBVIOUS
<1> QED BY <1>1, <1>2 DEF Files

\* The gates pass: everything is to be written, nothing is yet.
LEMMA ProceedStep == ApplyInv /\ Proceed => ApplyInv'
<1> SUFFICES ASSUME ApplyInv, Proceed PROVE ApplyInv'
  OBVIOUS
<1>1. /\ pc = "gates" /\ pc' = "mutating" /\ before' = files /\ files' = files
      /\ prop' = prop /\ prop \in Proposals
      /\ UNCHANGED <<files, cli, restores, unrestored, audit, propFile, reviewed>>
  BY DEF Proceed, ApplyInv, TypeOK, cli
<1>2. /\ acked' \in BOOLEAN /\ (acked' <=> NeedsAck')
      /\ HashMatches' /\ ~PlanBlocked' /\ (NeedsAck' => ~yes')
  <2>1. acked' \in BOOLEAN /\ (acked' <=> NeedsAck)
    BY DEF Proceed, NeedsAck
  <2>2. HashMatches /\ ~PlanBlocked /\ (NeedsAck => ~yes) /\ yes' = yes
    BY DEF Proceed, cli
  <2> QED BY <1>1, <2>1, <2>2, SameRun
<1>3. snap' = [f \in {"ssh", "sys", "policy", "apps"} |-> files[f]]
  <2>1. {Snapshotted[i] : i \in DOMAIN Snapshotted} = {"ssh", "sys", "policy", "apps"}
    BY DEF Snapshotted
  <2> QED BY <2>1 DEF Proceed
<1>4. files # << >>
  BY ConfigNotEmpty DEF ApplyInv
<1>5. GateInv'
  BY <1>1, <1>2, <1>3, <1>4 DEF ApplyInv, GateInv, Pcs, Terminal, cli, HasPolicy, LeavesUsable,
     NeverStranded
<1>6. TypeOK'
  BY <1>1, <1>2, FourFiles, RunTypeStep DEF ApplyInv, TypeOK, Pcs, Terminal
<1>7. MutatingInv'
  BY <1>1, MutationsSorted DEF Proceed, MutatingInv
<1> QED
  BY <1>1, <1>5, <1>6, <1>7 DEF ApplyInv, AddedInv, InstalledInv, RestoringInv,
     LeavesUsable, GrantHasVerb, NeverStranded

\* Writing one file of a configuration.
LEMMA ConfigWrite ==
    ASSUME NEW f \in Files, NEW r, IsFile(r), IsConfig(files),
           f = "ssh" => \A t \in r.items : IsTarget(t),
           files' = [files EXCEPT ![f] = r]
    PROVE  /\ IsConfig(files')
           /\ files'[f] = r
           /\ \A g \in Files : g # f => files'[g] = files[g]
<1>1. DOMAIN files = Files
  BY DEF IsConfig
<1>2. DOMAIN files' = Files /\ files'[f] = r /\ \A g \in Files : g # f => files'[g] = files[g]
  BY <1>1
<1>3. \A g \in Files : IsFile(files'[g])
  BY <1>2 DEF IsConfig
<1>4. \A t \in files'["ssh"].items : IsTarget(t)
  BY <1>2 DEF IsConfig, Files
<1> QED BY <1>2, <1>3, <1>4 DEF IsConfig

\* The three states of a file.
LEMMA FileStates ==
    /\ \A items : /\ IsFile(Present(items))
                  /\ Present(items).at = "present" /\ Present(items).items = items
    /\ IsFile(Corrupt) /\ Corrupt.at = "corrupt" /\ Corrupt.items = {}
    /\ IsFile(Absent) /\ Absent.at = "absent" /\ Absent.items = {}
    /\ \A r : IsFile(r) /\ r.at = "absent" => r = Absent
BY DEF IsFile, Present, Corrupt, Absent

\* The kinds of mutation.
LEMMA OpKinds ==
    ASSUME NEW p, NEW m \in AllOps(p)
    PROVE  /\ m = Op(m.file, m.op, m.item)
           /\ \/ m.file = "ssh" /\ m.op = "remove"
              \/ /\ m.file = "ssh" /\ m.op = "add"
                 /\ \E i \in DOMAIN p.sshAdd : m.item = p.sshAdd[i]
              \/ m.file = "ssm" /\ m.op = "remove"
              \/ m.file = "ssm" /\ m.op = "add"
              \/ m.file = "sys" /\ m.op = "merge" /\ m.item = p
              \/ m.file = "apps" /\ m.op = "merge" /\ m.item = p
              \/ m.file = "policy" /\ m.op = "remove"
              \/ m.file = "policy" /\ m.op = "add" /\ m.item \in Elems(p.policyAdd)
<1>1. \A file, op, item : /\ Op(file, op, item).file = file
                         /\ Op(file, op, item).op = op
                         /\ Op(file, op, item).item = item
  BY DEF Op
<1>2. PICK file, op, item : m = Op(file, op, item)
  BY DEF AllOps, OpSet
<1>3. m = Op(m.file, m.op, m.item)
  BY <1>1, <1>2
<1> QED BY <1>1, <1>3 DEF AllOps, OpSet, Elems

\* What a mutation of each kind leaves.
LEMMA ResultKinds ==
    ASSUME NEW m
    PROVE  /\ m.file \in {"ssh", "ssm", "policy"} /\ m.op = "remove" =>
                Result(m) \subseteq files[m.file].items
           /\ m.file \in {"ssh", "ssm"} /\ m.op = "add" =>
                Result(m) = IF Aliased(files[m.file].items, m.item.alias) = {}
                            THEN files[m.file].items \cup {m.item}
                            ELSE files[m.file].items
           /\ m.file = "sys" => Result(m) = EffectiveSystem(m.item, liveSystem)
           /\ m.file = "apps" =>
                Result(m) = (files["apps"].items \ m.item.appsRemove) \cup m.item.appsAdd
           /\ m.file = "policy" /\ m.op = "add" =>
                Result(m) = files["policy"].items \cup {m.item}
<1>1. m.file \in {"ssh", "ssm"} /\ m.op = "remove" =>
          Result(m) = files[m.file].items \ Aliased(files[m.file].items, m.item)
  BY DEF Result
<1>2. m.file \in {"ssh", "ssm"} /\ m.op = "add" =>
          Result(m) = IF Aliased(files[m.file].items, m.item.alias) = {}
                      THEN files[m.file].items \cup {m.item} ELSE files[m.file].items
  BY DEF Result
<1>3. m.file = "sys" => Result(m) = EffectiveSystem(m.item, liveSystem)
  BY DEF Result
<1>4. m.file = "apps" =>
          Result(m) = (files["apps"].items \ m.item.appsRemove) \cup m.item.appsAdd
  BY DEF Result
<1>5. m.file = "policy" /\ m.op = "remove" => Result(m) = files["policy"].items \ {m.item}
  BY DEF Result
<1>6. m.file = "policy" /\ m.op = "add" => Result(m) = files["policy"].items \cup {m.item}
  BY DEF Result
<1> QED BY <1>1, <1>2, <1>3, <1>4, <1>5, <1>6

\* A mutation of an ssh file keeps its entries targets.
LEMMA ResultTargets ==
    ASSUME IsConfig(files), prop \in Proposals, NEW m \in AllOps(prop), m.file = "ssh"
    PROVE  \A t \in Result(m) : IsTarget(t)
<1>1. \A t \in files["ssh"].items : IsTarget(t)
  BY DEF IsConfig
<1>2. \A i \in DOMAIN prop.sshAdd : IsTarget(prop.sshAdd[i])
  BY ApplyAssumption
<1> QED BY <1>1, <1>2, OpKinds, ResultKinds

\* One mutation that is written: its own file has its result, the others stay.
LEMMA MutateFiles ==
    ASSUME ApplyInv, Mutate
    PROVE  LET m == Head(todo)
           IN  /\ m \in AllOps(prop) /\ m.file \in Files
               /\ IsConfig(files')
               /\ files'[m.file].items = Result(m)
               /\ m.op = "merge" => files'[m.file] = Present(Result(m))
               /\ files'[m.file] = files[m.file] \/ files'[m.file].at = "present"
               /\ \A g \in Files : g # m.file => files'[g] = files[g]
<1> DEFINE m == Head(todo)
<1>1. todo \in Seq(AllOps(prop)) /\ todo # << >> /\ Sorted(todo) /\ prop \in Proposals
  BY DEF ApplyInv, MutatingInv, TypeOK, Mutate
<1>2. m \in AllOps(prop)
  BY <1>1, TailSorted
<1> HIDE DEF m
<1>3. m.file \in Files
  BY <1>2, OpKinds DEF Files
<1>4. files' = IF Saves(m) THEN [files EXCEPT ![m.file] = Present(Result(m))] ELSE files
  BY DEF Mutate, m
<1>5. IsConfig(files)
  BY DEF ApplyInv
<1>6. m.file = "ssh" => \A t \in Present(Result(m)).items : IsTarget(t)
  BY <1>1, <1>2, <1>5, ResultTargets, FileStates
<1>7. CASE Saves(m)
  <2> DEFINE r == Present(Result(m))
  <2>1. files' = [files EXCEPT ![m.file] = r] /\ IsFile(r)
    BY <1>4, <1>7, FileStates
  <2>2. m.file = "ssh" => \A t \in r.items : IsTarget(t)
    BY <1>6
  <2> HIDE DEF r
  <2>3. /\ IsConfig(files')
        /\ files'[m.file] = r
        /\ \A g \in Files : g # m.file => files'[g] = files[g]
    BY <1>3, <1>5, <2>1, <2>2, ConfigWrite
  <2> QED BY <1>2, <1>3, <2>3, FileStates DEF m, r
<1>8. CASE ~Saves(m)
  <2>1. m.op # "merge" /\ Result(m) = files[m.file].items
    BY <1>8 DEF Saves
  <2> QED BY <1>2, <1>3, <1>4, <1>5, <1>8, <2>1 DEF m
<1> QED BY <1>7, <1>8

\* What was installed stays installed, and the mutation itself is installed.
LEMMA MutateInstalls ==
    ASSUME ApplyInv, Mutate,
           NEW n \in AllOps(prop),
           n = Head(todo) \/ (Installed(n) /\ Rank(n) <= Rank(Head(todo)))
    PROVE  Installed(n)'
<1> DEFINE m == Head(todo)
<1>1. /\ m \in AllOps(prop) /\ m.file \in Files
      /\ files'[m.file].items = Result(m)
      /\ m.op = "merge" => files'[m.file] = Present(Result(m))
      /\ \A g \in Files : g # m.file => files'[g] = files[g]
  BY MutateFiles
<1>2. UNCHANGED cli /\ ~Conflict(m)
  BY DEF Mutate
<1>3. prop' = prop /\ liveSystem' = liveSystem
  BY <1>2 DEF cli
<1>4. n = m \/ (Installed(n) /\ Rank(n) <= Rank(m))
  OBVIOUS
<1> HIDE DEF m
<1>5. CASE n.file = "ssh" /\ n.op = "add"
  <2> SUFFICES \E t \in files'["ssh"].items :
                   t.alias = n.item.alias /\ t.setting = n.item.setting
    BY <1>5 DEF Installed
  <2>1. CASE m.file # "ssh"
    <3>1. files'["ssh"] = files["ssh"] /\ n # m /\ Installed(n)
      BY <1>1, <1>4, <1>5, <2>1 DEF Files
    <3> QED BY <1>5, <3>1 DEF Installed
  <2>2. CASE m.file = "ssh"
    <3>1. m.op = "add"
      BY <1>1, <1>4, <1>5, <2>2, OpKinds DEF Rank
    <3>2. files["ssh"].items \subseteq files'["ssh"].items
      BY <1>1, <2>2, <3>1, ResultKinds
    <3>3. CASE n = m
      <4>1. \A t \in files["ssh"].items :
                t.alias = m.item.alias => t.setting = m.item.setting
        BY <1>2, <2>2, <3>1 DEF Conflict, Aliased
      <4>2. CASE Aliased(files["ssh"].items, m.item.alias) = {}
        BY <1>1, <2>2, <3>1, <3>3, <4>2, ResultKinds
      <4>3. CASE Aliased(files["ssh"].items, m.item.alias) # {}
        BY <3>2, <3>3, <4>1, <4>3 DEF Aliased
      <4> QED BY <4>2, <4>3
    <3>4. CASE Installed(n)
      BY <1>5, <3>2, <3>4 DEF Installed
    <3> QED BY <1>4, <3>3, <3>4
  <2> QED BY <2>1, <2>2
<1>6. CASE n.file = "ssm" /\ n.op = "add"
  <2> SUFFICES \E t \in files'["ssm"].items : t.alias = n.item.alias
    BY <1>6 DEF Installed
  <2>1. CASE m.file # "ssm"
    <3>1. files'["ssm"] = files["ssm"] /\ n # m /\ Installed(n)
      BY <1>1, <1>4, <1>6, <2>1 DEF Files
    <3> QED BY <1>6, <3>1 DEF Installed
  <2>2. CASE m.file = "ssm"
    <3>1. m.op = "add"
      BY <1>1, <1>4, <1>6, <2>2, OpKinds DEF Rank
    <3>2. files["ssm"].items \subseteq files'["ssm"].items
      BY <1>1, <2>2, <3>1, ResultKinds
    <3>3. CASE n = m
      BY <1>1, <2>2, <3>1, <3>2, <3>3, ResultKinds DEF Aliased
    <3>4. CASE Installed(n)
      BY <1>6, <3>2, <3>4 DEF Installed
    <3> QED BY <1>4, <3>3, <3>4
  <2> QED BY <2>1, <2>2
<1>7. CASE n.file = "sys"
  <2> SUFFICES files'["sys"] = Present(EffectiveSystem(prop, liveSystem))
    BY <1>3, <1>7 DEF Installed
  <2>1. CASE m.file = "sys"
    <3>1. m.op = "merge" /\ m.item = prop
      BY <1>1, <2>1, OpKinds
    <3> QED BY <1>1, <2>1, <3>1, ResultKinds
  <2>2. CASE m.file # "sys"
    <3>1. files'["sys"] = files["sys"] /\ n # m /\ Installed(n)
      BY <1>1, <1>4, <1>7, <2>2 DEF Files
    <3> QED BY <1>7, <3>1 DEF Installed
  <2> QED BY <2>1, <2>2
<1>8. CASE n.file = "apps"
  <2> SUFFICES prop.appsAdd \subseteq files'["apps"].items
    BY <1>3, <1>8 DEF Installed
  <2>1. CASE m.file = "apps"
    <3>1. m.item = prop
      BY <1>1, <2>1, OpKinds
    <3> QED BY <1>1, <2>1, <3>1, ResultKinds
  <2>2. CASE m.file # "apps"
    <3>1. files'["apps"] = files["apps"] /\ n # m /\ Installed(n)
      BY <1>1, <1>4, <1>8, <2>2 DEF Files
    <3> QED BY <1>8, <3>1 DEF Installed
  <2> QED BY <2>1, <2>2
<1>9. CASE n.file = "policy" /\ n.op = "add"
  <2> SUFFICES n.item \in files'["policy"].items
    BY <1>9 DEF Installed
  <2>1. CASE m.file # "policy"
    <3>1. files'["policy"] = files["policy"] /\ n # m /\ Installed(n)
      BY <1>1, <1>4, <1>9, <2>1 DEF Files
    <3> QED BY <1>9, <3>1 DEF Installed
  <2>2. CASE m.file = "policy"
    <3>1. m.op = "add"
      BY <1>1, <1>4, <1>9, <2>2, OpKinds DEF Rank
    <3>2. n.item \in files["policy"].items \/ n = m
      BY <1>4, <1>9 DEF Installed
    <3> QED BY <1>1, <2>2, <3>1, <3>2, ResultKinds
  <2> QED BY <2>1, <2>2
<1>10. CASE n.file \in {"ssh", "ssm", "policy"} /\ n.op = "remove"
  BY <1>10 DEF Installed
<1> QED BY <1>5, <1>6, <1>7, <1>8, <1>9, <1>10, OpKinds

\* A mutation is written.
LEMMA MutateStep == ApplyInv /\ Mutate => ApplyInv'
<1> SUFFICES ASSUME ApplyInv, Mutate PROVE ApplyInv'
  OBVIOUS
<1> DEFINE m == Head(todo)
<1>1. /\ m \in AllOps(prop) /\ m.file \in Files
      /\ IsConfig(files')
      /\ files'[m.file].items = Result(m)
      /\ files'[m.file] = files[m.file] \/ files'[m.file].at = "present"
      /\ \A g \in Files : g # m.file => files'[g] = files[g]
  BY MutateFiles
<1>2. /\ pc = "mutating" /\ pc' = "mutating" /\ todo # << >> /\ todo' = Tail(todo)
      /\ before # << >> /\ prop \in Proposals
      /\ todo \in Seq(AllOps(prop)) /\ Sorted(todo)
      /\ files["legacy"] = before["legacy"]
      /\ UNCHANGED <<propFile, reviewed, cli, snap, restores, acked, audit, before, unrestored>>
  BY DEF ApplyInv, Mutate, MutatingInv, TypeOK, GateInv, Pcs, Terminal
<1>3. prop' = prop /\ liveSystem' = liveSystem /\ yes' = yes
  BY <1>2 DEF cli
<1>4. /\ todo' \in Seq(AllOps(prop)) /\ Sorted(todo')
      /\ Elems(todo) = {m} \cup Elems(todo')
      /\ m \in Elems(todo)
      /\ \A n \in Elems(todo) : Rank(m) <= Rank(n)
  BY <1>2, TailSorted
<1> HIDE DEF m
<1>5. TypeOK'
  BY <1>1, <1>2, FourFiles, RunTypeStep DEF ApplyInv, TypeOK, Pcs, Terminal
<1>6. GateInv'
  BY <1>2, <1>3, SameRun DEF ApplyInv, GateInv, Pcs, Terminal
<1>7. AddedInv'
  <2>1. files'["policy"].items \ before["policy"].items \subseteq Elems(prop.policyAdd)
    BY <1>1, <1>2, OpKinds, ResultKinds DEF ApplyInv, AddedInv, Files
  <2>2. \A t \in files'["ssh"].items \ before["ssh"].items :
            \E i \in DOMAIN prop.sshAdd : prop.sshAdd[i].alias = t.alias
    <3>1. CASE m.file # "ssh"
      BY <1>1, <1>2, <3>1 DEF ApplyInv, AddedInv, Files
    <3>2. CASE m.file = "ssh"
      <4>1. files'["ssh"].items \subseteq files["ssh"].items
            \/ \E i \in DOMAIN prop.sshAdd :
                   files'["ssh"].items \subseteq files["ssh"].items \cup {prop.sshAdd[i]}
        BY <1>1, <3>2, OpKinds, ResultKinds
      <4> QED BY <1>2, <4>1 DEF ApplyInv, AddedInv
    <3> QED BY <3>1, <3>2
  <2> QED BY <1>2, <1>3, <2>1, <2>2 DEF AddedInv
<1>8. \A n \in AllOps(prop) \ Elems(todo') :
          Installed(n)' /\ \A o \in Elems(todo') : Rank(n) <= Rank(o)
  <2> SUFFICES ASSUME NEW n \in AllOps(prop), n \notin Elems(todo')
               PROVE  Installed(n)' /\ \A o \in Elems(todo') : Rank(n) <= Rank(o)
    OBVIOUS
  <2>1. n = m \/ n \notin Elems(todo)
    BY <1>4
  <2>2. CASE n = m
    BY <1>4, <2>2, MutateInstalls DEF m
  <2>3. CASE n \notin Elems(todo)
    <3>1. Installed(n) /\ \A o \in Elems(todo) : Rank(n) <= Rank(o)
      BY <1>2, <2>3 DEF ApplyInv, MutatingInv
    <3> QED BY <1>4, <3>1, MutateInstalls DEF m
  <2> QED BY <2>1, <2>2, <2>3
<1>9. (\E n \in Elems(todo') : n.file = "apps") =>
          files'["policy"].items \subseteq before["policy"].items
  <2> SUFFICES ASSUME NEW n \in Elems(todo'), n.file = "apps"
               PROVE  files'["policy"].items \subseteq before["policy"].items
    OBVIOUS
  <2>1. files["policy"].items \subseteq before["policy"].items
    BY <1>2, <1>4 DEF ApplyInv, MutatingInv
  <2>2. Rank(m) <= 6
    BY <1>4 DEF Rank
  <2>3. m.file # "policy"
    BY <2>2 DEF Rank
  <2> QED BY <1>1, <2>1, <2>3 DEF Files
<1>10. files'["legacy"] = before'["legacy"]
  <2>1. m.file # "legacy"
    BY <1>1, OpKinds
  <2> QED BY <1>1, <1>2, <2>1 DEF Files
<1>11. MutatingInv'
  BY <1>2, <1>3, <1>4, <1>8, <1>9, <1>10 DEF MutatingInv
<1>12. GrantHasVerb'
  <2>1. CASE prop.appsAdd = {}
    BY <1>3, <2>1 DEF GrantHasVerb
  <2>2. CASE prop.appsAdd # {} /\ Op("apps", "merge", prop) \in Elems(todo')
    <3>1. files'["policy"].items \subseteq before["policy"].items
      BY <1>9, <2>2 DEF Op
    <3> QED BY <1>2, <3>1 DEF GrantHasVerb
  <2>3. CASE prop.appsAdd # {} /\ Op("apps", "merge", prop) \notin Elems(todo')
    <3>1. Op("apps", "merge", prop) \in AllOps(prop)
      BY <2>3 DEF AllOps
    <3>2. PICK n \in AllOps(prop) : n.file = "apps" /\ Installed(n)'
      BY <1>8, <2>3, <3>1 DEF Op
    <3>3. prop.appsAdd \subseteq files'["apps"].items
      BY <1>3, <3>2 DEF Installed
    <3> QED BY <1>3, <3>3 DEF GrantHasVerb
  <2> QED BY <2>1, <2>2, <2>3
<1>13. NeverStranded'
  BY <1>1 DEF ApplyInv, LeavesUsable, NeverStranded, Files
<1> QED
  BY <1>1, <1>2, <1>5, <1>6, <1>7, <1>11, <1>12, <1>13
     DEF ApplyInv, InstalledInv, RestoringInv, LeavesUsable

\* A write that breaks off takes entries away and leaves a file behind.
LEMMA BrokenWrite ==
    ASSUME ApplyInv, NEW f \in Files, files' = [files EXCEPT ![f] = Corrupt],
           UNCHANGED <<cli, before>>
    PROVE  /\ IsConfig(files') /\ AddedInv' /\ NeverStranded'
           /\ files'[f] = Corrupt
           /\ \A g \in Files : g # f => files'[g] = files[g]
<1>1. /\ IsConfig(files')
      /\ files'[f] = Corrupt
      /\ \A g \in Files : g # f => files'[g] = files[g]
  <2>1. IsFile(Corrupt) /\ \A t \in Corrupt.items : IsTarget(t)
    BY FileStates
  <2> QED BY <2>1, ConfigWrite DEF ApplyInv
<1>2. /\ files'["policy"].items \subseteq files["policy"].items
      /\ files'["ssh"].items \subseteq files["ssh"].items
      /\ files'["policy"].at = "absent" => files["policy"].at = "absent"
      /\ files'["legacy"].at = "absent" => files["legacy"].at = "absent"
  BY <1>1, FileStates DEF Files
<1>3. AddedInv'
  BY <1>2 DEF ApplyInv, AddedInv, cli
<1>4. NeverStranded'
  BY <1>2 DEF ApplyInv, LeavesUsable, NeverStranded
<1> QED BY <1>1, <1>3, <1>4

\* The mutation under way.
LEMMA NextMutation ==
    ASSUME ApplyInv, pc = "mutating", todo # << >>
    PROVE  /\ Head(todo) \in AllOps(prop)
           /\ Head(todo).file \in Files \ {"legacy"}
           /\ Head(todo).file = "apps" =>
                 files["policy"].items \subseteq before["policy"].items
<1>1. todo \in Seq(AllOps(prop)) /\ Sorted(todo)
  BY DEF ApplyInv, MutatingInv
<1>2. Head(todo) \in AllOps(prop) /\ Head(todo) \in Elems(todo)
  BY <1>1, TailSorted
<1>3. Head(todo).file \in Files \ {"legacy"}
  BY <1>2, OpKinds DEF Files
<1> QED BY <1>2, <1>3 DEF ApplyInv, MutatingInv

\* A mutation fails: the rollback starts from files that are still usable.
LEMMA MutateFailsStep == ApplyInv /\ MutateFails => ApplyInv'
<1> SUFFICES ASSUME ApplyInv, MutateFails PROVE ApplyInv'
  OBVIOUS
<1> DEFINE m == Head(todo)
<1>1. /\ pc = "mutating" /\ pc' = "restoring" /\ todo # << >> /\ restores = 0
      /\ before # << >> /\ prop \in Proposals
      /\ files["legacy"] = before["legacy"]
      /\ UNCHANGED <<propFile, reviewed, cli, snap, restores, acked, audit, before, unrestored>>
  BY DEF ApplyInv, MutateFails, MutatingInv, TypeOK, GateInv, Pcs, Terminal
<1>2. prop' = prop /\ liveSystem' = liveSystem /\ yes' = yes
  BY <1>1 DEF cli
<1>3. /\ m \in AllOps(prop) /\ m.file \in Files \ {"legacy"}
      /\ m.file = "apps" => files["policy"].items \subseteq before["policy"].items
  BY <1>1, NextMutation
<1>4. \/ files' = files
      \/ files' = [files EXCEPT ![m.file] = Corrupt]
      \/ m.file = "apps" /\ files' = [files EXCEPT ![m.file] = Present(Result(m))]
  BY DEF MutateFails
<1> HIDE DEF m
<1>5. IsConfig(files') /\ AddedInv' /\ LeavesUsable' /\ files'["legacy"] = files["legacy"]
  <2>1. CASE files' = files
    BY <1>1, <1>2, <2>1 DEF ApplyInv, AddedInv, LeavesUsable, GrantHasVerb, NeverStranded
  <2>2. CASE files' = [files EXCEPT ![m.file] = Corrupt]
    <3>1. /\ IsConfig(files') /\ AddedInv' /\ NeverStranded'
          /\ files'[m.file] = Corrupt
          /\ \A g \in Files : g # m.file => files'[g] = files[g]
      BY <1>1, <1>3, <2>2, BrokenWrite
    <3>2. GrantHasVerb'
      <4>1. CASE m.file = "apps"
        BY <1>1, <1>3, <3>1, <4>1 DEF GrantHasVerb, Files
      <4>2. CASE m.file = "policy"
        BY <3>1, <4>2, FileStates DEF GrantHasVerb
      <4>3. CASE m.file \notin {"apps", "policy"}
        BY <1>1, <1>2, <3>1, <4>3 DEF ApplyInv, LeavesUsable, GrantHasVerb, Files
      <4> QED BY <4>1, <4>2, <4>3
    <3> QED BY <1>3, <3>1, <3>2 DEF LeavesUsable, Files
  <2>3. CASE m.file = "apps" /\ files' = [files EXCEPT ![m.file] = Present(Result(m))]
    <3>1. /\ IsConfig(files')
          /\ \A g \in Files : g # "apps" => files'[g] = files[g]
      BY <1>3, <2>3, ConfigWrite, FileStates DEF ApplyInv
    <3>2. files'["policy"].items \subseteq before["policy"].items
      BY <1>3, <2>3, <3>1 DEF Files
    <3>3. GrantHasVerb'
      BY <1>1, <3>2 DEF GrantHasVerb
    <3>4. AddedInv' /\ NeverStranded'
      BY <1>1, <1>2, <3>1 DEF ApplyInv, AddedInv, LeavesUsable, NeverStranded, Files
    <3> QED BY <3>1, <3>3, <3>4 DEF LeavesUsable, Files
  <2> QED BY <1>4, <2>1, <2>2, <2>3
<1>6. TypeOK'
  BY <1>1, <1>5, FourFiles, RunTypeStep DEF ApplyInv, TypeOK, Pcs, Terminal
<1>7. GateInv'
  BY <1>1, <1>2, SameRun DEF ApplyInv, GateInv, Pcs, Terminal
<1> QED
  BY <1>1, <1>5, <1>6, <1>7 DEF ApplyInv, MutatingInv, InstalledInv, RestoringInv

\* The order in which files are put back.
LEMMA RestoreOrder ==
    ASSUME restores \in 0..4, restores < 4
    PROVE  /\ restores = 0 => Snapshotted[restores + 1] = "ssh"
           /\ restores = 1 => Snapshotted[restores + 1] = "sys"
           /\ restores = 2 => Snapshotted[restores + 1] = "policy"
           /\ restores = 3 => Snapshotted[restores + 1] = "apps"
           /\ restores \in {0, 1, 2, 3}
BY DEF Snapshotted

\* One file is put back, or could not be.
LEMMA RestoreStep == ApplyInv /\ Restore => ApplyInv'
<1> SUFFICES ASSUME ApplyInv, Restore PROVE ApplyInv'
  OBVIOUS
<1> DEFINE f == Snapshotted[restores + 1]
<1>1. /\ pc = "restoring" /\ pc' = "restoring"
      /\ restores \in 0..4 /\ restores < 4 /\ restores' = restores + 1
      /\ before # << >> /\ prop \in Proposals
      /\ files["legacy"] = before["legacy"]
      /\ UNCHANGED <<propFile, reviewed, cli, snap, todo, acked, audit, before>>
  BY FourFiles DEF ApplyInv, Restore, RestoringInv, TypeOK, GateInv, Pcs, Terminal
<1>2. prop' = prop /\ liveSystem' = liveSystem /\ yes' = yes
  BY <1>1 DEF cli
<1>3. /\ restores = 0 => f = "ssh"
      /\ restores = 1 => f = "sys"
      /\ restores = 2 => f = "policy"
      /\ restores = 3 => f = "apps"
      /\ restores \in {0, 1, 2, 3}
  BY <1>1, RestoreOrder
<1>4. \/ files' = [files EXCEPT ![f] = snap[f]] /\ unrestored' = unrestored
      \/ files' = files /\ unrestored' = TRUE
      \/ files' = [files EXCEPT ![f] = Corrupt] /\ unrestored' = TRUE
  BY DEF Restore
<1> HIDE DEF f
<1>5. /\ IsConfig(before) /\ HasPolicy(before)
      /\ f \in {"ssh", "sys", "policy", "apps"} /\ snap[f] = before[f]
  BY <1>1, <1>3 DEF ApplyInv, GateInv
<1>6. f \in Files /\ IsConfig(files) /\ unrestored' \in BOOLEAN
  BY <1>4, <1>5 DEF ApplyInv, TypeOK, Files
<1>7. /\ IsConfig(files') /\ AddedInv' /\ NeverStranded'
      /\ files'["legacy"] = files["legacy"]
      /\ \A g \in Files : g # f => files'[g] = files[g]
      /\ ~unrestored' => ~unrestored /\ files'[f] = before[f]
  <2>1. CASE files' = [files EXCEPT ![f] = snap[f]] /\ unrestored' = unrestored
    <3>1. IsFile(before[f]) /\ (f = "ssh" => \A t \in before[f].items : IsTarget(t))
      BY <1>5, <1>6 DEF IsConfig
    <3>2. /\ IsConfig(files') /\ files'[f] = before[f]
          /\ \A g \in Files : g # f => files'[g] = files[g]
      BY <1>5, <1>6, <2>1, <3>1, ConfigWrite
    <3>3. files'["legacy"] = files["legacy"]
      BY <1>5, <3>2 DEF Files
    <3>4. NeverStranded'
      BY <1>1, <1>5, <3>2, <3>3
         DEF ApplyInv, LeavesUsable, NeverStranded, HasPolicy, Files
    <3>5. AddedInv'
      BY <1>1, <1>2, <3>2 DEF ApplyInv, AddedInv, Files
    <3> QED BY <2>1, <3>2, <3>3, <3>4, <3>5
  <2>2. CASE files' = files /\ unrestored' = TRUE
    BY <1>1, <1>2, <2>2 DEF ApplyInv, AddedInv, LeavesUsable, NeverStranded
  <2>3. CASE files' = [files EXCEPT ![f] = Corrupt] /\ unrestored' = TRUE
    BY <1>1, <1>5, <1>6, <2>3, BrokenWrite DEF Files
  <2> QED BY <1>4, <2>1, <2>2, <2>3
<1>8. RestoringInv'
  BY <1>1, <1>3, <1>7 DEF ApplyInv, RestoringInv, Files
<1>9. GrantHasVerb'
  <2> SUFFICES ASSUME ~unrestored' PROVE GrantHasVerb'
    BY DEF GrantHasVerb
  <2>1. CASE restores \in {0, 1}
    <3>1. files'["policy"] = files["policy"] /\ files'["apps"] = files["apps"]
      BY <1>3, <1>7, <2>1 DEF Files
    <3> QED BY <1>1, <1>2, <1>7, <3>1 DEF ApplyInv, LeavesUsable, GrantHasVerb
  <2>2. CASE restores \in {2, 3}
    <3>1. files'["policy"] = before'["policy"]
      BY <1>1, <1>8, <2>2 DEF RestoringInv
    <3> QED BY <3>1 DEF GrantHasVerb
  <2> QED BY <1>3, <2>1, <2>2
<1>10. TypeOK'
  BY <1>1, <1>6, <1>7, RunTypeStep DEF ApplyInv, TypeOK, Pcs, Terminal
<1>11. GateInv'
  BY <1>1, <1>2, SameRun DEF ApplyInv, GateInv, Pcs, Terminal
<1> QED
  BY <1>1, <1>7, <1>8, <1>9, <1>10, <1>11
     DEF ApplyInv, MutatingInv, InstalledInv, LeavesUsable

\* The rollback ends, an audit event is written or not, the attestation ends
\* the run: the configuration stays.
LEMMA ReportStep == ApplyInv /\ (Rollback \/ AuditApply \/ WriteAttestation) => ApplyInv'
<1> SUFFICES ASSUME ApplyInv, Rollback \/ AuditApply \/ WriteAttestation PROVE ApplyInv'
  OBVIOUS
<1>1. /\ UNCHANGED <<files, propFile, reviewed, cli, snap, todo, restores, acked, before,
                     unrestored>>
      /\ before # << >> /\ prop \in Proposals
      /\ \/ pc = "restoring" /\ restores = 4 /\ pc' = "failed"
         \/ pc = "auditing" /\ pc' = "pinning"
         \/ pc = "attesting" /\ pc' \in {"done", "attestFailed"}
      /\ audit' \subseteq Proposals
  BY FourFiles DEF ApplyInv, Rollback, AuditApply, WriteAttestation, TypeOK, GateInv, Pcs,
     Terminal
<1>2. /\ HashMatches' <=> HashMatches
      /\ PlanBlocked' <=> PlanBlocked
      /\ NeedsAck' <=> NeedsAck
      /\ \A m : Installed(m)' <=> Installed(m)
  BY <1>1, SameRun
<1>3. prop' = prop /\ liveSystem' = liveSystem /\ yes' = yes
  BY <1>1 DEF cli
<1>4. IsConfig(files)' /\ GateInv' /\ AddedInv'
  BY <1>1, <1>2, <1>3 DEF ApplyInv, GateInv, AddedInv, Pcs, Terminal
<1>5. TypeOK'
  BY <1>1, <1>4, FourFiles, RunTypeStep DEF ApplyInv, TypeOK, Pcs, Terminal
<1>6. InstalledInv' /\ RestoringInv' /\ LeavesUsable'
  BY <1>1, <1>2, <1>3 DEF ApplyInv, InstalledInv, RestoringInv, LeavesUsable, GrantHasVerb,
     NeverStranded
<1> QED BY <1>1, <1>4, <1>5, <1>6 DEF ApplyInv, MutatingInv

\* Everything is written; the legacy policy goes only if its successor is there.
LEMMA MigrateStep == ApplyInv /\ MigratePolicyLocation => ApplyInv'
<1> SUFFICES ASSUME ApplyInv, MigratePolicyLocation PROVE ApplyInv'
  OBVIOUS
<1>1. /\ UNCHANGED <<propFile, reviewed, cli, snap, todo, restores, acked, audit, before,
                     unrestored>>
      /\ before # << >> /\ prop \in Proposals
      /\ pc = "mutating" /\ pc' = "auditing" /\ todo = << >>
      /\ \/ files' = files
         \/ files["policy"] # Absent /\ files' = [files EXCEPT !["legacy"] = Absent]
  BY DEF ApplyInv, MigratePolicyLocation, TypeOK, GateInv, Pcs, Terminal
<1>2. prop' = prop /\ liveSystem' = liveSystem /\ yes' = yes
  BY <1>1 DEF cli
<1>3. IsConfig(files') /\ \A g \in Files : g # "legacy" => files'[g] = files[g]
  <2>1. "legacy" \in Files /\ IsFile(Absent)
    BY FileStates DEF Files
  <2> QED BY <1>1, <2>1, ConfigWrite DEF ApplyInv
<1>4. /\ files'["ssh"] = files["ssh"] /\ files'["ssm"] = files["ssm"]
      /\ files'["sys"] = files["sys"] /\ files'["apps"] = files["apps"]
      /\ files'["policy"] = files["policy"]
  BY <1>3 DEF Files
<1>5. NeverStranded'
  <2>1. IsFile(files["policy"])
    BY DEF ApplyInv, IsConfig, Files
  <2> QED BY <1>1, <1>4, <2>1, FileStates DEF ApplyInv, LeavesUsable, NeverStranded
<1>6. GrantHasVerb' /\ AddedInv'
  BY <1>1, <1>2, <1>4 DEF ApplyInv, LeavesUsable, GrantHasVerb, AddedInv
<1>7. InstalledInv'
  <2>1. \A m \in AllOps(prop) : Installed(m)
    BY <1>1 DEF ApplyInv, MutatingInv, Elems
  <2>2. \A m : Installed(m)' <=> Installed(m)
    BY <1>2, <1>4 DEF Installed
  <2> QED BY <1>1, <1>2, <2>1, <2>2 DEF InstalledInv
<1>8. TypeOK'
  BY <1>1, <1>3, FourFiles, RunTypeStep DEF ApplyInv, TypeOK, Pcs, Terminal
<1>9. GateInv'
  BY <1>1, <1>2, SameRun DEF ApplyInv, GateInv, Pcs, Terminal
<1> QED
  BY <1>1, <1>3, <1>5, <1>6, <1>7, <1>8, <1>9
     DEF ApplyInv, MutatingInv, RestoringInv, LeavesUsable

\* Pinned facts leave a target's alias and settings alone.
LEMMA PinTarget ==
    ASSUME NEW t, IsTarget(t)
    PROVE  LET u == [t EXCEPT !.facts = TRUE]
           IN  IsTarget(u) /\ u.alias = t.alias /\ u.setting = t.setting
<1> DEFINE u == [t EXCEPT !.facts = TRUE]
<1>1. u \in [alias : {t.alias}, setting : {t.setting}, facts : {TRUE}]
  BY DEF IsTarget
<1>2. u.alias = t.alias /\ u.setting = t.setting /\ u.facts = TRUE
  BY <1>1
<1> QED BY <1>1, <1>2 DEF IsTarget

\* The facts are pinned, or the save breaks ssh_targets.yaml.
LEMMA PinStep == ApplyInv /\ PinTargetFacts => ApplyInv'
<1> SUFFICES ASSUME ApplyInv, PinTargetFacts PROVE ApplyInv'
  OBVIOUS
<1> DEFINE old == files["ssh"].items
<1>1. /\ UNCHANGED <<propFile, reviewed, cli, snap, todo, restores, acked, audit, before,
                     unrestored>>
      /\ before # << >> /\ prop \in Proposals
      /\ pc = "pinning" /\ pc' = "attesting"
  BY DEF ApplyInv, PinTargetFacts, TypeOK, GateInv, Pcs, Terminal
<1>2. prop' = prop /\ liveSystem' = liveSystem /\ yes' = yes
  BY <1>1 DEF cli
<1>3. PICK answered \in SUBSET {prop.sshAdd[i].alias : i \in DOMAIN prop.sshAdd} :
          \/ files' = files
          \/ files' = [files EXCEPT !["ssh"] = Present(
                 {IF t.alias \in answered THEN [t EXCEPT !.facts = TRUE] ELSE t : t \in old})]
          \/ files' = [files EXCEPT !["ssh"] = Corrupt]
  BY DEF PinTargetFacts
<1> DEFINE Pin(t) == IF t.alias \in answered THEN [t EXCEPT !.facts = TRUE] ELSE t
           new == {Pin(t) : t \in old}
<1>4. /\ \A u \in new : IsTarget(u)
      /\ \A t \in old : \E u \in new : u.alias = t.alias /\ u.setting = t.setting
      /\ \A u \in new : u \in old \/ \E i \in DOMAIN prop.sshAdd : prop.sshAdd[i].alias = u.alias
  <2>1. \A t \in old : IsTarget(t)
    BY DEF ApplyInv, IsConfig
  <2>2. ASSUME NEW t \in old
        PROVE  /\ IsTarget(Pin(t)) /\ Pin(t).alias = t.alias /\ Pin(t).setting = t.setting
               /\ Pin(t) \in old \/ t.alias \in answered
    <3>1. IsTarget(t)
      BY <2>1
    <3>2. CASE t.alias \in answered
      BY <3>1, <3>2, PinTarget
    <3>3. CASE t.alias \notin answered
      BY <3>1, <3>3
    <3> QED BY <3>2, <3>3
  <2> HIDE DEF Pin, old
  <2> QED BY <2>2
<1>5. IsConfig(files') /\ \A g \in Files : g # "ssh" => files'[g] = files[g]
  <2>1. "ssh" \in Files /\ IsFile(Corrupt) /\ IsFile(Present(new))
    BY FileStates DEF Files
  <2>2. Corrupt.items = {} /\ Present(new).items = new
    BY FileStates
  <2>3. CASE files' = [files EXCEPT !["ssh"] = Present(new)]
    <3> HIDE DEF new
    <3> QED BY <1>4, <2>1, <2>2, <2>3, ConfigWrite DEF ApplyInv
  <2>4. CASE files' = [files EXCEPT !["ssh"] = Corrupt]
    BY <2>1, <2>2, <2>4, ConfigWrite DEF ApplyInv
  <2> QED BY <1>3, <2>3, <2>4 DEF ApplyInv
<1>6. \/ files'["ssh"] = files["ssh"]
      \/ files'["ssh"] = Present(new)
      \/ files'["ssh"] = Corrupt
  <2>1. "ssh" \in DOMAIN files
    BY DEF ApplyInv, IsConfig, Files
  <2> HIDE DEF new
  <2> QED BY <1>3, <2>1 DEF new
<1> HIDE DEF new
<1>7. /\ files'["ssm"] = files["ssm"] /\ files'["sys"] = files["sys"]
      /\ files'["apps"] = files["apps"] /\ files'["policy"] = files["policy"]
      /\ files'["legacy"] = files["legacy"]
  BY <1>5 DEF Files
<1>8. AddedInv'
  <2>1. \A u \in files'["ssh"].items :
            u \in old \/ \E i \in DOMAIN prop.sshAdd : prop.sshAdd[i].alias = u.alias
    BY <1>4, <1>6, FileStates
  <2> QED BY <1>1, <1>2, <1>7, <2>1 DEF ApplyInv, AddedInv
<1>9. InstalledInv'
  <2> SUFFICES ASSUME NEW m \in AllOps(prop)
               PROVE  Installed(m)' \/ (m.file = "ssh" /\ files'["ssh"].at = "corrupt")
    BY <1>1, <1>2 DEF InstalledInv
  <2>1. Installed(m)
    BY <1>1 DEF ApplyInv, InstalledInv
  <2>2. CASE m.file # "ssh" \/ m.op # "add"
    BY <1>2, <1>7, <2>1, <2>2 DEF Installed
  <2>3. CASE m.file = "ssh" /\ m.op = "add"
    <3>1. \E t \in old : t.alias = m.item.alias /\ t.setting = m.item.setting
      BY <2>1, <2>3 DEF Installed
    <3>2. \/ files'["ssh"].at = "corrupt"
          \/ \E t \in files'["ssh"].items :
                 t.alias = m.item.alias /\ t.setting = m.item.setting
      BY <1>4, <1>6, <3>1, FileStates
    <3> QED BY <2>3, <3>2 DEF Installed
  <2> QED BY <2>2, <2>3
<1>10. LeavesUsable'
  BY <1>1, <1>2, <1>7 DEF ApplyInv, LeavesUsable, GrantHasVerb, NeverStranded
<1>11. TypeOK'
  BY <1>1, <1>5, FourFiles, RunTypeStep DEF ApplyInv, TypeOK, Pcs, Terminal
<1>12. GateInv'
  BY <1>1, <1>2, SameRun DEF ApplyInv, GateInv, Pcs, Terminal
<1> QED
  BY <1>1, <1>5, <1>8, <1>9, <1>10, <1>11, <1>12 DEF ApplyInv, MutatingInv, RestoringInv

\* The process dies: whatever it was writing, the rest can be used.
LEMMA CrashStep == ApplyInv /\ Crash => ApplyInv'
<1> SUFFICES ASSUME ApplyInv, Crash PROVE ApplyInv'
  OBVIOUS
<1>1. /\ UNCHANGED <<propFile, reviewed, cli, snap, todo, restores, acked, audit, before,
                     unrestored>>
      /\ pc \notin Terminal /\ pc' = "crashed" /\ prop \in Proposals
      /\ files' = files \/ \E f \in Writing : files' = [files EXCEPT ![f] = Corrupt]
  BY DEF ApplyInv, Crash, TypeOK, Terminal
<1>2. prop' = prop /\ liveSystem' = liveSystem /\ yes' = yes
  BY <1>1 DEF cli
<1>3. IsConfig(files') /\ AddedInv' /\ LeavesUsable'
  <2>1. CASE files' = files
    <3>1. AddedInv'
      BY <1>1, <1>2, <2>1 DEF ApplyInv, AddedInv
    <3>2. LeavesUsable'
      BY <1>1, <1>2, <2>1 DEF ApplyInv, LeavesUsable, GrantHasVerb, NeverStranded, GateInv,
         Terminal
    <3> QED BY <2>1, <3>1, <3>2 DEF ApplyInv
  <2>2. ASSUME NEW f \in Writing, files' = [files EXCEPT ![f] = Corrupt]
        PROVE  IsConfig(files') /\ AddedInv' /\ LeavesUsable'
    <3>1. /\ f \in Files
          /\ pc \in {"mutating", "restoring", "pinning"}
          /\ f = "apps" /\ ~unrestored => files["policy"].items \subseteq before["policy"].items
      <4>1. CASE pc = "mutating" /\ todo # << >>
        BY <4>1, NextMutation DEF Writing
      <4>2. CASE pc = "restoring" /\ restores < Len(Snapshotted)
        <5>1. restores \in 0..4 /\ restores < 4 /\ f = Snapshotted[restores + 1]
          <6>1. f = Snapshotted[restores + 1]
            BY <4>2 DEF Writing
          <6> QED BY <4>2, <6>1, FourFiles DEF ApplyInv, TypeOK
        <5>2. f \in Files /\ (f = "apps" => restores = 3)
          BY <5>1, RestoreOrder DEF Files
        <5>3. f = "apps" /\ ~unrestored => files["policy"] = before["policy"]
          BY <4>2, <5>2 DEF ApplyInv, RestoringInv
        <5> QED BY <4>2, <5>2, <5>3
      <4>3. CASE pc = "pinning"
        BY <4>3 DEF Writing, Files
      <4> QED BY <4>1, <4>2, <4>3 DEF Writing
    <3>2. /\ IsConfig(files') /\ AddedInv' /\ NeverStranded'
          /\ files'[f] = Corrupt
          /\ \A g \in Files : g # f => files'[g] = files[g]
      BY <1>1, <2>2, <3>1, BrokenWrite
    <3>3. GrantHasVerb'
      <4>1. CASE f = "apps"
        BY <1>1, <3>1, <3>2, <4>1 DEF GrantHasVerb, Files
      <4>2. CASE f = "policy"
        BY <3>2, <4>2, FileStates DEF GrantHasVerb
      <4>3. CASE f \notin {"apps", "policy"}
        BY <1>1, <1>2, <3>1, <3>2, <4>3 DEF ApplyInv, LeavesUsable, GrantHasVerb, Files
      <4> QED BY <4>1, <4>2, <4>3
    <3> QED BY <3>2, <3>3 DEF LeavesUsable
  <2> QED BY <1>1, <2>1, <2>2
<1>4. TypeOK'
  BY <1>1, <1>3, FourFiles, RunTypeStep DEF ApplyInv, TypeOK, Pcs, Terminal
<1>5. GateInv'
  BY <1>1, <1>2, SameRun DEF ApplyInv, GateInv, Pcs, Terminal
<1> QED
  BY <1>1, <1>3, <1>4, <1>5 DEF ApplyInv, MutatingInv, InstalledInv, RestoringInv

\* Every step preserves the invariant.
LEMMA ApplyStep == ApplyInv /\ [Next]_vars => ApplyInv'
BY QuietStep, StartStep, RefuseStep, ProceedStep, MutateStep, MutateFailsStep,
   RestoreStep, ReportStep, MigrateStep, PinStep, CrashStep DEF Next

-----------------------------------------------------------------------------
(* Theorems *)

\* A run that reports failure changed nothing, one that reports success
\* installed everything, whatever fails on the way (applyProposal).
THEOREM Transactional == Spec => []AllOrNothing
<1>1. ApplyInv => AllOrNothing
  <2> SUFFICES ASSUME ApplyInv PROVE AllOrNothing
    OBVIOUS
  <2>1. RolledBack
    BY DEF ApplyInv, RestoringInv, RolledBack, Files
  <2>2. ASSUME pc = "done" PROVE SuccessInstallsAll
    <3>1. \A m \in AllOps(prop) :
              Installed(m) \/ (m.file = "ssh" /\ files["ssh"].at = "corrupt")
      BY <2>2 DEF ApplyInv, InstalledInv
    <3>2. liveSystem = before["sys"].items
      BY <2>2 DEF ApplyInv, GateInv
    <3>3. /\ \A i \in DOMAIN prop.sshAdd : Op("ssh", "add", prop.sshAdd[i]) \in AllOps(prop)
          /\ \A i \in DOMAIN prop.ssmAdd : Op("ssm", "add", prop.ssmAdd[i]) \in AllOps(prop)
          /\ Op("sys", "merge", prop) \in AllOps(prop)
          /\ prop.appsAdd # {} => Op("apps", "merge", prop) \in AllOps(prop)
          /\ \A i \in DOMAIN prop.policyAdd :
                Op("policy", "add", prop.policyAdd[i]) \in AllOps(prop)
      BY DEF AllOps, OpSet
    <3>4. \A file, op, item : /\ Op(file, op, item).file = file
                             /\ Op(file, op, item).op = op
                             /\ Op(file, op, item).item = item
      BY DEF Op
    <3>5. files["ssh"].at = "corrupt" \/ \A i \in DOMAIN prop.sshAdd :
              \E t \in Aliased(files["ssh"].items, prop.sshAdd[i].alias) :
                  t.setting = prop.sshAdd[i].setting
      BY <3>1, <3>3, <3>4 DEF Installed, Aliased
    <3>6. \A i \in DOMAIN prop.ssmAdd :
              Aliased(files["ssm"].items, prop.ssmAdd[i].alias) # {}
      BY <3>1, <3>3, <3>4 DEF Installed, Aliased
    <3>7. files["sys"] = Present(EffectiveSystem(prop, before["sys"].items))
      BY <3>1, <3>2, <3>3, <3>4 DEF Installed
    <3>8. prop.appsAdd \subseteq files["apps"].items
      BY <3>1, <3>3, <3>4 DEF Installed
    <3>9. {prop.policyAdd[i] : i \in DOMAIN prop.policyAdd} \subseteq files["policy"].items
      BY <3>1, <3>3, <3>4 DEF Installed
    <3> QED BY <3>5, <3>6, <3>7, <3>8, <3>9 DEF SuccessInstallsAll
  <2> QED BY <2>1, <2>2 DEF ApplyInv, AllOrNothing, SuccessInstallsAll
<1> QED BY <1>1, ApplyInit, ApplyStep, PTL DEF Spec

\* At every instant, also the one a run dies in, no rule this run granted
\* stands without its verb and the install has a policy (applyMutations,
\* restoreFiles, migratePolicyLocation).
THEOREM Usable == Spec => []LeavesUsable
<1>1. ApplyInv => LeavesUsable
  BY DEF ApplyInv
<1> QED BY <1>1, ApplyInit, ApplyStep, PTL DEF Spec

\* The configuration changes only under a plan the gates passed, and only by
\* what the gated proposal names, whoever rewrites the file meanwhile (runApply).
THEOREM Gated == Spec => []OnlyGatedChanges
<1>1. ApplyInv => OnlyGatedChanges
  <2> SUFFICES ASSUME ApplyInv, before # << >> PROVE OnlyGatedChanges
    BY DEF OnlyGatedChanges
  <2>1. HashMatches /\ ~PlanBlocked /\ (acked <=> NeedsAck) /\ (NeedsAck => ~yes)
    BY DEF ApplyInv, GateInv
  <2>2. ~acked => \/ \A t \in DOMAIN probe : probe[t] = "clear"
                  \/ \A t \in DOMAIN probe : probe[t] = "deferred"
    BY <2>1, ApplyAssumption DEF PlanBlocked, NeedsAck, Bypass, Inspected
  <2>3. prop \notin Blocked /\ expect \in {None, prop} /\ (prop \in High => acked /\ ~yes)
    BY <2>1 DEF PlanBlocked, NeedsAck, HashMatches
  <2>4. /\ \A r \in files["policy"].items \ before["policy"].items :
              \E i \in DOMAIN prop.policyAdd : prop.policyAdd[i] = r
        /\ \A t \in files["ssh"].items \ before["ssh"].items :
              \E i \in DOMAIN prop.sshAdd : prop.sshAdd[i].alias = t.alias
    BY DEF ApplyInv, AddedInv, Elems
  <2> QED BY <2>2, <2>3, <2>4 DEF OnlyGatedChanges
<1> QED BY <1>1, ApplyInit, ApplyStep, PTL DEF Spec

=============================================================================

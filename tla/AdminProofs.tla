---------------------------- MODULE AdminProofs ----------------------------
(***************************************************************************)
(* Theorems about the administration of the broker.                        *)
(*                                                                         *)
(* AdminCommands and McpSurface, for any administrators, commands and      *)
(* arguments: a file that no two commands worked on at once is what the    *)
(* finished commands make of it, no unsafe program comes to run under      *)
(* sudo, and a removal lets nothing new through.                           *)
(*                                                                         *)
(* ProposalReview, for any proposals, namespaces and apps.d: what runs has *)
(* the shape its executor asks for, the plan shows what the apply leaves,  *)
(* no secret comes within reach and nothing takes effect unseen.           *)
(***************************************************************************)
EXTENDS McpSurface, ProposalReview, FiniteSetTheorems, SequenceTheorems, NaturalsInduction,
        WellFoundedInduction, TLAPS

-----------------------------------------------------------------------------
(* Recursion along a list *)

\* A non-empty set of natural numbers has a least element.
LEMMA LeastNat ==
    ASSUME NEW B \in SUBSET Nat, B # {}
    PROVE  \E m \in B : \A k \in B : m <= k
<1>1. PICK m \in B : \A k \in B : ~(<<k, m>> \in OpToRel(<, Nat))
  BY NatLessThanWellFounded, WFMin
<1>2. \A k \in B : ~(k < m)
  BY <1>1 DEF OpToRel
<1> QED BY <1>2

\* What holds of 0 and passes from each n to the next holds up to m.
LEMMA UpTo ==
    ASSUME NEW m \in Nat, NEW G, 0 \in G, \A n \in 1..m : n - 1 \in G => n \in G
    PROVE  \A n \in 0..m : n \in G
<1> DEFINE W == {n \in 0..m : n \notin G}
<1>1. SUFFICES ASSUME W # {} PROVE FALSE
  OBVIOUS
<1>2. W \in SUBSET Nat
  OBVIOUS
<1>3. PICK n \in W : \A k \in W : n <= k
  <2> HIDE DEF W
  <2> QED BY <1>1, <1>2, LeastNat
<1>4. n # 0
  BY <1>3
<1>5. n \in 1..m /\ n - 1 \in 0..m
  BY <1>3, <1>4
<1>6. n - 1 \notin W
  BY <1>3, <1>5
<1> QED BY <1>3, <1>5, <1>6

\* A recursion along 1..m, by a step for each place, has a solution.
Follows(f, V, z, s, m) ==
    f \in [0..m -> V] /\ f[0] = z /\ \A n \in 1..m : f[n] = s[n][f[n - 1]]

LEMMA RecursionExists ==
    ASSUME NEW V, NEW z \in V, NEW m \in Nat, NEW s \in [1..m -> [V -> V]]
    PROVE  \E f : Follows(f, V, z, s, m)
<1> DEFINE G == {n \in 0..m : \E f : Follows(f, V, z, s, n)}
<1>1. 0 \in G
  <2>1. PICK f : f = [n \in 0..0 |-> z]
    OBVIOUS
  <2>2. Follows(f, V, z, s, 0)
    BY <2>1 DEF Follows
  <2> QED BY <2>2
<1>2. ASSUME NEW n \in 1..m, n - 1 \in G PROVE n \in G
  <2>1. PICK f : Follows(f, V, z, s, n - 1)
    BY <1>2
  <2>2. PICK g : g = [k \in 0..n |-> IF k = n THEN s[n][f[n - 1]] ELSE f[k]]
    OBVIOUS
  <2>3. f[n - 1] \in V /\ \A k \in 0..(n - 1) : f[k] \in V
    BY <2>1 DEF Follows
  <2>4. s[n][f[n - 1]] \in V
    BY <2>3
  <2>5. g \in [0..n -> V]
    BY <2>2, <2>3, <2>4
  <2>6. g[0] = z
    BY <2>1, <2>2 DEF Follows
  <2>7. ASSUME NEW k \in 1..n PROVE g[k] = s[k][g[k - 1]]
    <3>1. g[k - 1] = f[k - 1]
      BY <2>2
    <3>2. CASE k = n
      BY <2>2, <3>1, <3>2
    <3>3. CASE k # n
      BY <2>1, <2>2, <3>1, <3>3 DEF Follows
    <3> QED BY <3>2, <3>3
  <2>8. Follows(g, V, z, s, n)
    BY <2>5, <2>6, <2>7 DEF Follows
  <2> QED BY <2>8
<1>3. \A n \in 0..m : n \in G
  <2> HIDE DEF G
  <2> QED BY <1>1, <1>2, UpTo
<1>4. m \in G
  BY <1>3
<1> QED BY <1>4

\* The list of a finite set has its members and no others.
LEMMA ListOfSet ==
    ASSUME NEW S, IsFiniteSet(S)
    PROVE  /\ SetToSeq(S) \in Seq(S) /\ Len(SetToSeq(S)) = Cardinality(S)
           /\ \A x \in S : \E i \in 1..Len(SetToSeq(S)) : SetToSeq(S)[i] = x
<1> DEFINE N == Cardinality(S)
<1>1. N \in Nat /\ ExistsBijection(1..N, S)
  BY FS_CardinalityType
<1>2. PICK b : b \in Bijection(1..N, S)
  BY <1>1 DEF ExistsBijection
<1>3. b \in [1..N -> S] /\ IsInjective(b)
  BY <1>2 DEF Bijection, Injection, IsInjective
<1>4. PICK f : f = SetToSeq(S)
  OBVIOUS
<1>5. f \in [1..N -> S] /\ IsInjective(f)
  BY <1>3, <1>4 DEF SetToSeq
<1>6. f \in Seq(S) /\ Len(f) = N
  BY <1>1, <1>5
<1>7. f \in Injection(1..N, S)
  BY <1>5 DEF Injection, IsInjective
<1>8. Cardinality(1..N) = N
  BY <1>1, FS_Interval
<1>9. f \in Surjection(1..N, S)
  <2> HIDE DEF N
  <2>1. Cardinality(S) = N
    BY DEF N
  <2> QED BY <1>7, <1>8, <2>1, FS_Injection
<1>10. \A x \in S : \E i \in 1..N : f[i] = x
  BY <1>9 DEF Surjection
<1> QED BY <1>4, <1>6, <1>10

-----------------------------------------------------------------------------
(* What a list of rules allows *)

AppliesTo(rule, app, action, principal, params) ==
    /\ rule.app = app /\ rule.action = action /\ matchesPrincipal(rule, principal)
    /\ matches(rule.constraints, PolicyContext(Defs[app], action, params))

Verdicts == {"unmatched", "deny", "allow"}

\* One turn of the loop of Evaluate.
Judge(v, rule, app, action, principal, params) ==
    CASE v = "deny" \/ ~AppliesTo(rule, app, action, principal, params) -> v
      [] v # "deny" /\ AppliesTo(rule, app, action, principal, params) ->
            IF rule.effect = "deny" THEN "deny" ELSE "allow"

\* The recursion of Evaluate.
VerdictFcn(f, list, app, action, principal, params) ==
    f = [n \in 0..Len(list) |->
            IF n = 0 THEN "unmatched"
            ELSE Judge(f[n - 1], list[n], app, action, principal, params)]

LEMMA EvaluateDef ==
    ASSUME NEW list, NEW app, NEW action, NEW principal, NEW params
    PROVE  Evaluate(list, app, action, principal, params) =
               IF action \notin DOMAIN Defs[app].actions THEN "unknown"
               ELSE (CHOOSE f : VerdictFcn(f, list, app, action, principal, params))[Len(list)]
BY DEF Evaluate, VerdictFcn, Judge, AppliesTo

LEMMA VerdictExists ==
    ASSUME NEW R, NEW list \in Seq(R), NEW app, NEW action, NEW principal, NEW params
    PROVE  \E f : VerdictFcn(f, list, app, action, principal, params)
<1>1. PICK s : s = [n \in 1..Len(list) |-> [v \in Verdicts |->
                        Judge(v, list[n], app, action, principal, params)]]
  OBVIOUS
<1>2. \A v \in Verdicts : \A rule : Judge(v, rule, app, action, principal, params) \in Verdicts
  BY DEF Judge, Verdicts
<1>3. s \in [1..Len(list) -> [Verdicts -> Verdicts]]
  BY <1>1, <1>2
<1>4. Len(list) \in Nat /\ "unmatched" \in Verdicts
  BY DEF Verdicts
<1>5. PICK f : Follows(f, Verdicts, "unmatched", s, Len(list))
  BY <1>3, <1>4, RecursionExists
<1>6. ASSUME NEW n \in 0..Len(list), n # 0
      PROVE  f[n] = Judge(f[n - 1], list[n], app, action, principal, params)
  <2>1. n \in 1..Len(list) /\ n - 1 \in 0..Len(list)
    BY <1>4, <1>6
  <2>2. f[n - 1] \in Verdicts /\ f[n] = s[n][f[n - 1]]
    BY <1>5, <2>1 DEF Follows
  <2> QED BY <1>1, <2>1, <2>2
<1>7. /\ f[0] = "unmatched"
      /\ f = [n \in 0..Len(list) |-> f[n]]
  BY <1>5 DEF Follows
<1>8. [n \in 0..Len(list) |-> f[n]] =
        [n \in 0..Len(list) |->
            IF n = 0 THEN "unmatched"
            ELSE Judge(f[n - 1], list[n], app, action, principal, params)]
  BY <1>6, <1>7
<1> QED BY <1>7, <1>8 DEF VerdictFcn

\* Some rule of the list applies, and no deny rule does.
LEMMA AllowedBy ==
    ASSUME NEW R, NEW list \in Seq(R), NEW app, NEW action, NEW principal, NEW params
    PROVE  Evaluate(list, app, action, principal, params) = "allow" <=>
               /\ action \in DOMAIN Defs[app].actions
               /\ \E i \in 1..Len(list) : AppliesTo(list[i], app, action, principal, params)
               /\ \A i \in 1..Len(list) :
                    AppliesTo(list[i], app, action, principal, params)
                        => list[i].effect # "deny"
<1> DEFINE On(i) == AppliesTo(list[i], app, action, principal, params)
           m == Len(list)
<1>1. PICK f : f = CHOOSE g : VerdictFcn(g, list, app, action, principal, params)
  OBVIOUS
<1>2. VerdictFcn(f, list, app, action, principal, params)
  BY <1>1, VerdictExists
<1>3. /\ m \in Nat /\ f[0] = "unmatched"
      /\ \A n \in 1..m : f[n] = Judge(f[n - 1], list[n], app, action, principal, params)
  <2>1. m \in Nat /\ 0 \in 0..m /\ \A n \in 1..m : n \in 0..m /\ n # 0
    OBVIOUS
  <2> QED BY <1>2, <2>1 DEF VerdictFcn
<1>4. \A n \in 1..m : f[n] = IF f[n - 1] = "deny" \/ ~On(n) THEN f[n - 1]
                             ELSE IF list[n].effect = "deny" THEN "deny" ELSE "allow"
  BY <1>3 DEF Judge
<1>5. Evaluate(list, app, action, principal, params) =
        IF action \notin DOMAIN Defs[app].actions THEN "unknown" ELSE f[m]
  BY <1>1, EvaluateDef
<1> HIDE DEF On, m
<1> DEFINE Denied(n) == \E i \in 1..n : On(i) /\ list[i].effect = "deny"
           G == {n \in 0..m :
                    /\ f[n] = "deny" <=> Denied(n)
                    /\ f[n] = "allow" <=> ~Denied(n) /\ \E i \in 1..n : On(i)}
<1>6. 0 \in G
  BY <1>3
<1>7. ASSUME NEW n \in 1..m, n - 1 \in G PROVE n \in G
  <2>1. /\ f[n - 1] = "deny" <=> Denied(n - 1)
        /\ f[n - 1] = "allow" <=> ~Denied(n - 1) /\ \E i \in 1..(n - 1) : On(i)
    BY <1>7
  <2>2. Denied(n) <=> Denied(n - 1) \/ (On(n) /\ list[n].effect = "deny")
    <3>1. \A i \in 1..n : i = n \/ i \in 1..(n - 1)
      BY <1>3
    <3>2. n \in 1..n /\ \A i \in 1..(n - 1) : i \in 1..n
      BY <1>3
    <3> QED BY <3>1, <3>2
  <2>3. (\E i \in 1..n : On(i)) <=> On(n) \/ \E i \in 1..(n - 1) : On(i)
    <3>1. \A i \in 1..n : i = n \/ i \in 1..(n - 1)
      BY <1>3
    <3>2. n \in 1..n /\ \A i \in 1..(n - 1) : i \in 1..n
      BY <1>3
    <3> QED BY <3>1, <3>2
  <2>4. n \in 0..m
    BY <1>3
  <2> HIDE DEF Denied
  <2> QED BY <1>4, <2>1, <2>2, <2>3, <2>4
<1>8. m \in G
  <2> HIDE DEF G
  <2>1. m \in 0..m
    BY <1>3
  <2> QED BY <1>3, <1>6, <1>7, <2>1, UpTo
<1>9. f[m] = "allow" <=> ~Denied(m) /\ \E i \in 1..m : On(i)
  BY <1>8
<1> QED BY <1>5, <1>9 DEF On, m

-----------------------------------------------------------------------------
(* The jobs of a command *)

Codes == {"denied", "notfound", "invalid", "config"}

ListOps == {"AddAllowedPackage", "RemoveAllowedPackage", "AddAllowedService",
            "RemoveAllowedService", "AddAllowedApp", "RemoveAllowedApp", "AddBuildPrefix",
            "RemoveBuildPrefix"}

\* A job works on the file its operation is about, with an argument of the inputs.
JobOk(j) ==
    /\ j.file \in Files
    /\ \/ j.op = "fail" /\ j.arg \in Codes
       \/ j.op = "read"
       \/ j.op = "save" /\ j.file \in {"agents", "policies"} /\ j.arg \subseteq Entries(j.file)
       \/ j.op = "AddRule" /\ j.file = "policies" /\ j.arg \in Entries("policies")
       \/ j.op = "RemoveRules" /\ j.file = "policies"
       \/ j.op = "Register" /\ j.file = "agents" /\ j.arg \in Entries("agents")
       \/ j.op \in {"Enable", "Disable"} /\ j.file = "enabled" /\ j.arg \in Entries("enabled")
       \/ /\ j.op \in {"AddProtectedFolderKeyword", "RemoveProtectedFolderKeyword"}
          /\ j.file = "protected" /\ j.arg \in Entries("protected")
       \/ /\ j.op \in {"AddAllowedSenderDomain", "RemoveAllowedSenderDomain"}
          /\ j.file = "mail" /\ j.arg \in Entries("mail")
       \/ j.op = "AddSSHTarget" /\ j.file = "ssh" /\ j.arg \in Entries("ssh")
       \/ j.op = "RemoveSSHTarget" /\ j.file = "ssh"
       \/ j.op = "AddHTTPProfile" /\ j.file = "http" /\ j.arg \in Entries("http")
       \/ j.op = "RemoveHTTPProfile" /\ j.file = "http"
       \/ j.op = "AddManager" /\ j.file = "system" /\ j.arg \in Entries("system")
       \/ j.op = "RemoveManager" /\ j.file = "system"
       \/ j.op \in ListOps /\ j.file = "system" /\ j.arg \in Inputs.names

JobsOk(jobs) == jobs # <<>> /\ \E S : jobs \in Seq(S) /\ \A j \in S : JobOk(j)

LEMMA OneJob ==
    ASSUME NEW j, JobOk(j)
    PROVE  JobsOk(<<j>>)
<1> DEFINE S == {j}
<1>1. <<j>> \in Seq(S) /\ <<j>> # <<>> /\ \A i \in S : JobOk(i)
  OBVIOUS
<1> HIDE DEF S
<1> QED BY <1>1 DEF JobsOk

LEMMA TwoJobs ==
    ASSUME NEW j, NEW k, JobOk(j), JobOk(k)
    PROVE  JobsOk(<<j, k>>)
<1> DEFINE S == {j, k}
<1>1. <<j, k>> \in Seq(S) /\ <<j, k>> # <<>> /\ \A i \in S : JobOk(i)
  OBVIOUS
<1> HIDE DEF S
<1> QED BY <1>1 DEF JobsOk

\* Without root the command has one job, which fails.
LEMMA RootJobs ==
    ASSUME NEW jobs, JobsOk(jobs), NEW sudo \in BOOLEAN
    PROVE  JobsOk(requireRootForMutation(sudo, jobs))
<1>1. PICK S : jobs \in Seq(S) /\ \A j \in S : JobOk(j)
  BY DEF JobsOk
<1>2. PICK h : h = Head(jobs)
  OBVIOUS
<1>3. JobOk(h)
  BY <1>1, <1>2 DEF JobsOk
<1>4. PICK k : k = Job(h.file, "fail", "denied")
  OBVIOUS
<1>5. k.file = h.file /\ k.op = "fail" /\ k.arg = "denied"
  BY <1>4 DEF Job
<1>6. JobOk(k)
  BY <1>3, <1>5 DEF JobOk, Codes
<1>7. JobsOk(<<k>>)
  BY <1>6, OneJob
<1> QED BY <1>2, <1>4, <1>7 DEF requireRootForMutation

\* The arguments of the commands are entries of their files.
LEMMA InputEntries ==
    /\ Inputs.rules \subseteq Entries("policies") /\ Inputs.initRules \subseteq Entries("policies")
    /\ Inputs.newAgents \subseteq Entries("agents") /\ Inputs.initAgents \subseteq Entries("agents")
    /\ Inputs.keywords \subseteq Entries("protected") /\ Inputs.domains \subseteq Entries("mail")
    /\ DefaultProtectedFolderKeywords \subseteq Entries("protected")
    /\ Inputs.targets \subseteq Entries("ssh") /\ Inputs.profiles \subseteq Entries("http")
    /\ Inputs.managers \subseteq Entries("system") /\ Inputs.apps \subseteq Entries("enabled")
<1>1. Inputs.rules \subseteq Entries("policies") /\ Inputs.initRules \subseteq Entries("policies")
  BY DEF Entries
<1>2. Inputs.newAgents \subseteq Entries("agents") /\ Inputs.initAgents \subseteq Entries("agents")
  BY DEF Entries
<1>3. /\ Inputs.keywords \subseteq Entries("protected")
      /\ DefaultProtectedFolderKeywords \subseteq Entries("protected")
  BY DEF Entries
<1>4. Inputs.domains \subseteq Entries("mail")
  BY DEF Entries
<1>5. Inputs.targets \subseteq Entries("ssh")
  BY DEF Entries
<1>6. Inputs.profiles \subseteq Entries("http")
  BY DEF Entries
<1>7. Inputs.managers \subseteq Entries("system")
  BY DEF Entries
<1>8. Inputs.apps \subseteq Entries("enabled")
  BY DEF Entries
<1> QED BY <1>1, <1>2, <1>3, <1>4, <1>5, <1>6, <1>7, <1>8

LEMMA ListEntries ==
    ASSUME NEW l \in {"packages", "services", "apps", "builds"}, NEW n \in Inputs.names
    PROVE  [list |-> l, name |-> n] \in Entries("system")
<1>1. PICK e : e = [list |-> l, name |-> n]
  OBVIOUS
<1>2. e \in [list : {"packages", "services", "apps", "builds"}, name : Inputs.names]
  BY <1>1
<1>3. e \in Entries("system")
  BY <1>2 DEF Entries
<1> QED BY <1>1, <1>3

LEMMA ActivationEntries ==
    ASSUME NEW a \in Inputs.agents, NEW app \in DOMAIN Defs, NEW x \in DOMAIN Defs[app].actions
    PROVE  ActivationRule(a, app, x) \in Entries("policies")
<1> DEFINE R(b) == {ActivationRule(c, b, y) : c \in Inputs.agents, y \in DOMAIN Defs[b].actions}
<1>1. ActivationRule(a, app, x) \in R(app)
  OBVIOUS
<1>2. ActivationRule(a, app, x) \in UNION {R(b) : b \in DOMAIN Defs}
  <2> HIDE DEF R
  <2> QED BY <1>1
<1>3. UNION {R(b) : b \in DOMAIN Defs} \subseteq Entries("policies")
  BY DEF Entries
<1> QED BY <1>2, <1>3

\* The jobs that an activation can consist of.
PolicyJobs(agent) ==
    {Job("policies", "fail", c) : c \in Codes}
    \cup {Job("policies", "RemoveRules", [agent |-> agent, app |-> app]) : app \in DOMAIN Defs}
    \cup {Job("policies", "AddRule", r) : r \in Entries("policies")}

LEMMA PolicyJobsOk ==
    ASSUME NEW agent, NEW j \in PolicyJobs(agent)
    PROVE  JobOk(j)
<1>1. ASSUME NEW c \in Codes, j = Job("policies", "fail", c) PROVE JobOk(j)
  <2>1. j.file = "policies" /\ j.op = "fail" /\ j.arg = c
    BY <1>1 DEF Job
  <2> QED BY <2>1 DEF JobOk, Files
<1>2. ASSUME NEW x, j = Job("policies", "RemoveRules", x) PROVE JobOk(j)
  <2>1. j.file = "policies" /\ j.op = "RemoveRules"
    BY <1>2 DEF Job
  <2> QED BY <2>1 DEF JobOk, Files
<1>3. ASSUME NEW r \in Entries("policies"), j = Job("policies", "AddRule", r) PROVE JobOk(j)
  <2>1. j.file = "policies" /\ j.op = "AddRule" /\ j.arg = r
    BY <1>3 DEF Job
  <2> QED BY <2>1 DEF JobOk, Files
<1> QED BY <1>1, <1>2, <1>3 DEF PolicyJobs

LEMMA ActivationOk ==
    ASSUME NEW a \in Inputs.agents, NEW app, NEW on \in BOOLEAN
    PROVE  ActivationJobs(a, app, on) \in Seq(PolicyJobs(a)) /\ ActivationJobs(a, app, on) # <<>>
<1>1. ASSUME NEW j \in PolicyJobs(a) PROVE <<j>> \in Seq(PolicyJobs(a)) /\ <<j>> # <<>>
  BY <1>1
<1>2. CASE app \notin DOMAIN Defs
  <2>1. ActivationJobs(a, app, on) = <<Job("policies", "fail", "notfound")>>
    BY <1>2 DEF ActivationJobs
  <2>2. Job("policies", "fail", "notfound") \in PolicyJobs(a)
    BY DEF PolicyJobs, Codes
  <2> QED BY <1>1, <2>1, <2>2
<1>3. CASE app \in DOMAIN Defs /\ (~Defs[app].bundled \/ Defs[app].mode # "passthrough")
  <2>1. Job("policies", "fail", "invalid") \in PolicyJobs(a)
    BY DEF PolicyJobs, Codes
  <2> QED BY <1>1, <1>3, <2>1 DEF ActivationJobs
<1>4. CASE app \in DOMAIN Defs /\ Defs[app].bundled /\ Defs[app].mode = "passthrough" /\ ~on
  <2>1. Job("policies", "RemoveRules", [agent |-> a, app |-> app]) \in PolicyJobs(a)
    BY <1>4 DEF PolicyJobs
  <2> QED BY <1>1, <1>4, <2>1 DEF ActivationJobs
<1>5. CASE app \in DOMAIN Defs /\ Defs[app].bundled /\ Defs[app].mode = "passthrough" /\ on
  <2> DEFINE D == DOMAIN Defs[app].actions
             L == SetToSeq(D)
  <2>1. IsFiniteSet(D) /\ D # {}
    BY <1>5, AdminAssumption
  <2>2. L \in Seq(D) /\ L # <<>>
    <3> HIDE DEF D
    <3>1. L \in Seq(D) /\ \A x \in D : \E i \in 1..Len(L) : L[i] = x
      BY <2>1, ListOfSet
    <3> QED BY <2>1, <3>1
  <2>3. ActivationJobs(a, app, on) =
            [i \in DOMAIN L |-> Job("policies", "AddRule", ActivationRule(a, app, L[i]))]
    BY <1>5 DEF ActivationJobs
  <2>4. ASSUME NEW i \in DOMAIN L
        PROVE  Job("policies", "AddRule", ActivationRule(a, app, L[i])) \in PolicyJobs(a)
    <3>1. L[i] \in D
      <4> HIDE DEF D, L
      <4> QED BY <2>2, <2>4
    <3>2. ActivationRule(a, app, L[i]) \in Entries("policies")
      BY <1>5, <3>1, ActivationEntries
    <3> QED BY <3>2 DEF PolicyJobs
  <2>5. PICK J : J = ActivationJobs(a, app, on)
    OBVIOUS
  <2> HIDE DEF D, L
  <2>6. DOMAIN L = 1..Len(L) /\ Len(L) \in Nat /\ Len(L) # 0
    BY <2>2
  <2>7. J \in [1..Len(L) -> PolicyJobs(a)]
    BY <2>3, <2>4, <2>5, <2>6
  <2>8. J \in Seq(PolicyJobs(a)) /\ Len(J) = Len(L)
    BY <2>6, <2>7
  <2>9. J # <<>>
    BY <2>6, <2>8
  <2> QED BY <2>5, <2>8, <2>9
<1> QED BY <1>2, <1>3, <1>4, <1>5

\* The recursion of AllActivationJobs.
ActivationFcn(f, a, apps, on) ==
    f = [n \in 0..Len(apps) |->
            IF n = 0 THEN <<>> ELSE f[n - 1] \o ActivationJobs(a, apps[n], on)]

LEMMA ActivationDef ==
    ASSUME NEW a, NEW apps, NEW on
    PROVE  AllActivationJobs(a, apps, on) =
               (CHOOSE f : ActivationFcn(f, a, apps, on))[Len(apps)]
BY DEF AllActivationJobs, ActivationFcn

LEMMA ActivationExists ==
    ASSUME NEW a \in Inputs.agents, NEW A, NEW apps \in Seq(A), NEW on \in BOOLEAN
    PROVE  \E f : ActivationFcn(f, a, apps, on)
<1> DEFINE V == Seq(PolicyJobs(a))
<1>1. PICK s : s = [n \in 1..Len(apps) |-> [v \in V |-> v \o ActivationJobs(a, apps[n], on)]]
  OBVIOUS
<1>2. ASSUME NEW v \in V, NEW app PROVE v \o ActivationJobs(a, app, on) \in V
  BY ActivationOk
<1>3. s \in [1..Len(apps) -> [V -> V]]
  <2> HIDE DEF V
  <2> QED BY <1>1, <1>2
<1>4. Len(apps) \in Nat /\ <<>> \in V
  OBVIOUS
<1> HIDE DEF V
<1>5. PICK f : Follows(f, V, <<>>, s, Len(apps))
  BY <1>3, <1>4, RecursionExists
<1>6. ASSUME NEW n \in 0..Len(apps), n # 0
      PROVE  f[n] = f[n - 1] \o ActivationJobs(a, apps[n], on)
  <2>1. n \in 1..Len(apps) /\ n - 1 \in 0..Len(apps)
    BY <1>4, <1>6
  <2>2. f[n - 1] \in V /\ f[n] = s[n][f[n - 1]]
    BY <1>5, <2>1 DEF Follows
  <2> QED BY <1>1, <2>1, <2>2
<1>7. f[0] = <<>> /\ f = [n \in 0..Len(apps) |-> f[n]]
  BY <1>5 DEF Follows
<1>8. [n \in 0..Len(apps) |-> f[n]] =
        [n \in 0..Len(apps) |->
            IF n = 0 THEN <<>> ELSE f[n - 1] \o ActivationJobs(a, apps[n], on)]
  BY <1>6, <1>7
<1> QED BY <1>7, <1>8 DEF ActivationFcn

LEMMA AllActivationOk ==
    ASSUME NEW a \in Inputs.agents, NEW apps \in Inputs.appLists, NEW on \in BOOLEAN
    PROVE  JobsOk(AllActivationJobs(a, apps, on))
<1>1. PICK A : apps \in Seq(A) /\ apps # <<>>
  BY AdminAssumption
<1>2. PICK f : f = CHOOSE g : ActivationFcn(g, a, apps, on)
  OBVIOUS
<1>3. ActivationFcn(f, a, apps, on)
  BY <1>1, <1>2, ActivationExists
<1> DEFINE m == Len(apps)
           P == PolicyJobs(a)
<1>4. m \in Nat /\ m # 0 /\ 0 \in 0..m /\ \A n \in 1..m : n \in 0..m /\ n # 0
  BY <1>1
<1>5. f[0] = <<>> /\ \A n \in 1..m : f[n] = f[n - 1] \o ActivationJobs(a, apps[n], on)
  BY <1>3, <1>4 DEF ActivationFcn
<1>6. AllActivationJobs(a, apps, on) = f[m]
  BY <1>2, ActivationDef
<1>7. \A n \in 1..m : ActivationJobs(a, apps[n], on) \in Seq(P)
                      /\ ActivationJobs(a, apps[n], on) # <<>>
  BY ActivationOk
<1>8. \A j \in P : JobOk(j)
  BY PolicyJobsOk
<1> HIDE DEF m, P
<1> DEFINE G == {n \in 0..m : f[n] \in Seq(P) /\ (n # 0 => f[n] # <<>>)}
<1>9. 0 \in G
  <2>1. <<>> \in Seq(P)
    OBVIOUS
  <2> QED BY <1>4, <1>5, <2>1
<1>10. ASSUME NEW n \in 1..m, n - 1 \in G PROVE n \in G
  <2>1. PICK u, v : u = f[n - 1] /\ v = ActivationJobs(a, apps[n], on)
    OBVIOUS
  <2>2. u \in Seq(P) /\ v \in Seq(P) /\ v # <<>>
    BY <1>7, <1>10, <2>1
  <2>3. u \o v \in Seq(P) /\ u \o v # <<>>
    <3>1. u \o v \in Seq(P) /\ Len(u \o v) = Len(u) + Len(v) /\ Len(v) # 0
      BY <2>2
    <3>2. Len(u \o v) # 0
      BY <2>2, <3>1
    <3> QED BY <3>1, <3>2
  <2> QED BY <1>4, <1>5, <2>1, <2>3
<1>11. m \in G
  <2> HIDE DEF G
  <2>1. m \in 0..m
    BY <1>4
  <2> QED BY <1>4, <1>9, <1>10, <2>1, UpTo
<1> QED BY <1>4, <1>6, <1>8, <1>11 DEF JobsOk

-----------------------------------------------------------------------------
(* What a load and an update make of a file *)

SafeSystem(c) == \A m \in Managers(c) : m.sudo => RequireSudoSafe(Binaries[m.binary])

Broken == {Absent, Torn, Garbled}

\* Entries that a file may hold; and contents it may have.
Sound(f, c) == c \subseteq Entries(f) /\ (f = "system" => SafeSystem(c))
Holds(f, c) == c \in Broken \/ Sound(f, c)

LEMMA NotBroken ==
    ASSUME NEW f \in Files, NEW c, Sound(f, c)
    PROVE  c \notin Broken /\ c # Refused /\ IsFiniteSet(c)
<1>1. c \in SUBSET Entries(f)
  BY DEF Sound
<1>2. c \notin {Absent, Torn, Garbled, Refused}
  BY <1>1, AdminAssumption
<1>3. IsFiniteSet(c)
  BY <1>1, AdminAssumption, FS_Subset
<1> QED BY <1>2, <1>3 DEF Broken

LEMMA LoadSound ==
    ASSUME NEW f \in Files, NEW c, Sound(f, c)
    PROVE  LoadFile(f, c) = c
<1>1. c \notin {Absent, Torn, Garbled}
  BY NotBroken DEF Broken
<1> QED BY <1>1 DEF Files, LoadFile, LoadPolicyOrEmpty, LoadAgentsOrEmpty,
       LoadProtectedFoldersOrDefault, LoadMailFiltersOrDefault, LoadSSHTargetsOrDefault,
       LoadHTTPProfilesOrDefault, LoadSystemCommandsOrDefault, LoadEnabledFileOrEmpty

LEMMA LoadBroken ==
    ASSUME NEW f \in Files, NEW c \in Broken
    PROVE  LoadFile(f, c) = Refused \/ Sound(f, LoadFile(f, c))
<1>1. Torn # Absent /\ Garbled # Absent /\ Garbled # Torn
  BY AdminAssumption
<1>2. LoadFile(f, c) \in {Refused, {}} \/ (f = "protected" /\ LoadFile(f, c) = DefaultProtectedFolderKeywords)
  BY <1>1 DEF Broken, Files, LoadFile, LoadPolicyOrEmpty, LoadAgentsOrEmpty,
       LoadProtectedFoldersOrDefault, LoadMailFiltersOrDefault, LoadSSHTargetsOrDefault,
       LoadHTTPProfilesOrDefault, LoadSystemCommandsOrDefault, LoadEnabledFileOrEmpty
<1>3. Sound(f, {})
  BY DEF Sound, SafeSystem, Managers
<1>4. f = "protected" => Sound(f, DefaultProtectedFolderKeywords)
  BY InputEntries DEF Sound
<1> QED BY <1>2, <1>3, <1>4

\* A strict file does not load while it is truncated.
LEMMA TornRefused ==
    ASSUME NEW f \in Strict
    PROVE  LoadFile(f, Torn) = Refused
<1>1. Torn # Absent
  BY AdminAssumption
<1> QED BY <1>1 DEF Strict, Files, LoadFile, LoadPolicyOrEmpty, LoadProtectedFoldersOrDefault,
       LoadMailFiltersOrDefault, LoadSSHTargetsOrDefault, LoadHTTPProfilesOrDefault,
       LoadSystemCommandsOrDefault

LEMMA LoadHolds ==
    ASSUME NEW f \in Files, NEW c, Holds(f, c)
    PROVE  LoadFile(f, c) = Refused \/ Sound(f, LoadFile(f, c))
BY LoadSound, LoadBroken DEF Holds

\* Nothing is on a manager's list but managers.
LEMMA SafeSmaller ==
    ASSUME NEW c, NEW d, c \subseteq d, SafeSystem(d)
    PROVE  SafeSystem(c)
BY DEF SafeSystem, Managers

LEMMA AddEntrySound ==
    ASSUME NEW l \in {"packages", "services", "apps", "builds"}, NEW n \in Inputs.names, NEW c,
           Sound("system", c)
    PROVE  AddEntry(c, l, n) = Refused \/ Sound("system", AddEntry(c, l, n))
<1>1. PICK e : e = [list |-> l, name |-> n]
  OBVIOUS
<1>2. e \in Entries("system") /\ e.list # "managers"
  BY <1>1, ListEntries
<1>3. AddEntry(c, l, n) = IF n = Blank THEN Refused ELSE c \cup {e}
  BY <1>1 DEF AddEntry
<1>4. Sound("system", c \cup {e})
  BY <1>2 DEF Sound, SafeSystem, Managers
<1> QED BY <1>3, <1>4

LEMMA AddManagerSound ==
    ASSUME NEW m \in Entries("system"), NEW c, Sound("system", c)
    PROVE  AddManager(c, m) = Refused \/ Sound("system", AddManager(c, m))
<1>1. AddManager(c, m) \in {Refused, c, c \cup {m}}
  BY DEF AddManager
<1>2. ASSUME AddManager(c, m) = c \cup {m}, AddManager(c, m) # c, AddManager(c, m) # Refused
      PROVE  Sound("system", c \cup {m})
  <2>1. m.sudo => RequireSudoSafe(Binaries[m.binary])
    BY <1>2 DEF AddManager
  <2> QED BY <2>1 DEF Sound, SafeSystem, Managers
<1> QED BY <1>1, <1>2

LEMMA SystemSound ==
    ASSUME NEW j, JobOk(j), j.file = "system", j.op \notin {"fail", "save"}, NEW old,
           Sound("system", old)
    PROVE  Update(j, old) = Refused \/ Sound("system", Update(j, old))
<1>1. ASSUME NEW c \in SUBSET old PROVE Sound("system", c)
  BY <1>1, SafeSmaller DEF Sound
<1>2. CASE j.op = "AddManager"
  <2>1. Update(j, old) = AddManager(old, j.arg) /\ j.arg \in Entries("system")
    BY <1>2 DEF Update, JobOk, ListOps
  <2> QED BY <2>1, AddManagerSound
<1>3. CASE j.op = "RemoveManager"
  <2>1. Update(j, old) = RemoveManager(old, j.arg)
    BY <1>3 DEF Update
  <2>2. RemoveManager(old, j.arg) \in SUBSET old
    BY DEF RemoveManager
  <2> QED BY <1>1, <2>1, <2>2
<1>4. CASE j.op \in ListOps
  <2>1. j.arg \in Inputs.names
    BY <1>4 DEF JobOk, ListOps
  <2>2. \/ \E l \in {"packages", "services", "apps", "builds"} :
                Update(j, old) = AddEntry(old, l, j.arg)
        \/ Update(j, old) \in SUBSET old
    BY <1>4 DEF ListOps, Update, AddAllowedPackage, RemoveAllowedPackage, AddAllowedService,
       RemoveAllowedService, AddAllowedApp, RemoveAllowedApp, AddBuildPrefix, RemoveBuildPrefix
  <2> QED BY <1>1, <2>1, <2>2, AddEntrySound
<1>5. CASE j.op = "read"
  BY <1>5 DEF Update
<1> QED BY <1>2, <1>3, <1>4, <1>5 DEF JobOk

LEMMA UpdateSound ==
    ASSUME NEW j, JobOk(j), j.op # "fail", NEW old, Sound(j.file, old)
    PROVE  Update(j, old) = Refused \/ Sound(j.file, Update(j, old))
<1>1. CASE j.op = "save"
  BY <1>1 DEF Update, JobOk, Sound, ListOps
<1>2. CASE j.op = "read"
  BY <1>2 DEF Update
<1>3. CASE j.file = "system" /\ j.op # "save"
  BY <1>3, SystemSound
<1>4. CASE j.file # "system" /\ j.op \notin {"save", "read"}
  <2>1. old \subseteq Entries(j.file)
    BY DEF Sound
  <2>2. Update(j, old) = Refused \/ Update(j, old) \subseteq Entries(j.file)
    <3>1. CASE j.op \in {"AddRule", "RemoveRules", "Register", "Enable", "Disable"}
      BY <2>1, <3>1 DEF JobOk, ListOps, Update, AddRule, RemoveRules, Register, updateAppEnabledList
    <3>2. CASE j.op \in {"AddProtectedFolderKeyword", "RemoveProtectedFolderKeyword",
                         "AddAllowedSenderDomain", "RemoveAllowedSenderDomain"}
      BY <2>1, <3>2 DEF JobOk, ListOps, Update, AddProtectedFolderKeyword,
         RemoveProtectedFolderKeyword, AddAllowedSenderDomain, RemoveAllowedSenderDomain
    <3>3. CASE j.op \in {"AddSSHTarget", "RemoveSSHTarget", "AddHTTPProfile", "RemoveHTTPProfile"}
      BY <2>1, <3>3 DEF JobOk, ListOps, Update, AddSSHTarget, RemoveSSHTarget, AddHTTPProfile,
         RemoveHTTPProfile
    <3> QED BY <1>4, <3>1, <3>2, <3>3 DEF JobOk
  <2> QED BY <1>4, <2>2 DEF Sound
<1> QED BY <1>1, <1>2, <1>3, <1>4

-----------------------------------------------------------------------------
(* What a removal lets through *)

\* A policy that has lost allow rules allows no other call.
LEMMA FewerRules ==
    ASSUME NEW c, IsFiniteSet(c), NEW d \in SUBSET c,
           \A r \in c \ d : r.effect = "allow",
           NEW app, NEW action, NEW who, NEW params,
           Evaluate(SetToSeq(d), app, action, who, params) = "allow"
    PROVE  Evaluate(SetToSeq(c), app, action, who, params) = "allow"
<1> DEFINE On(r) == AppliesTo(r, app, action, who, params)
<1>1. IsFiniteSet(d)
  BY FS_Subset
<1>2. PICK u, v : u = SetToSeq(d) /\ v = SetToSeq(c)
  OBVIOUS
<1>3. /\ u \in Seq(d) /\ \A x \in d : \E i \in 1..Len(u) : u[i] = x
      /\ v \in Seq(c) /\ \A x \in c : \E i \in 1..Len(v) : v[i] = x
  BY <1>1, <1>2, ListOfSet
<1>4. /\ action \in DOMAIN Defs[app].actions
      /\ \E i \in 1..Len(u) : On(u[i])
      /\ \A i \in 1..Len(u) : On(u[i]) => u[i].effect # "deny"
  <2>1. Evaluate(u, app, action, who, params) = "allow"
    BY <1>2
  <2>2. u \in Seq(d)
    BY <1>3
  <2> QED BY ONLY <2>1, <2>2, AllowedBy
<1> HIDE DEF On
<1>5. PICK r \in d : On(r)
  <2>1. \A i \in 1..Len(u) : u[i] \in d
    BY <1>3
  <2> QED BY <1>4, <2>1
<1>6. \E i \in 1..Len(v) : On(v[i])
  BY <1>3, <1>5
<1>7. ASSUME NEW i \in 1..Len(v), On(v[i]) PROVE v[i].effect # "deny"
  <2>1. v[i] \in c
    BY <1>3
  <2>2. CASE v[i] \in d
    <3>1. PICK k \in 1..Len(u) : u[k] = v[i]
      BY <1>3, <2>2
    <3>2. On(u[k])
      BY <1>7, <3>1
    <3> QED BY <1>4, <3>1, <3>2
  <2>3. CASE v[i] \notin d
    BY <2>1, <2>3
  <2> QED BY <2>2, <2>3
<1>8. Evaluate(v, app, action, who, params) = "allow"
  <2>1. v \in Seq(c) /\ action \in DOMAIN Defs[app].actions
    BY <1>3, <1>4
  <2> QED BY ONLY <2>1, <1>6, <1>7, AllowedBy DEF On
<1> QED BY <1>2, <1>8

LEMMA FewerCalls ==
    ASSUME NEW c, IsFiniteSet(c), NEW agent, NEW app
    PROVE  Grants("policies", RemoveRules(c, agent, app)) \subseteq Grants("policies", c)
<1>1. PICK d : d = RemoveRules(c, agent, app)
  OBVIOUS
<1>2. d \in SUBSET c /\ \A r \in c \ d : r.effect = "allow"
  BY <1>1 DEF RemoveRules, Deactivated
<1>3. ASSUME NEW x PROVE
        Grants("policies", x) =
            {call \in Inputs.calls :
                Evaluate(SetToSeq(x), call.app, call.action, call.who, call.params) = "allow"}
  BY DEF Grants
<1>4. ASSUME NEW call \in Grants("policies", d) PROVE call \in Grants("policies", c)
  <2>1. /\ call \in Inputs.calls
        /\ Evaluate(SetToSeq(d), call.app, call.action, call.who, call.params) = "allow"
    BY <1>3, <1>4
  <2>2. Evaluate(SetToSeq(c), call.app, call.action, call.who, call.params) = "allow"
    BY <1>2, <2>1, FewerRules
  <2> QED BY <1>3, <2>1, <2>2
<1> QED BY <1>1, <1>4

\* Fewer targets have fewer services; fewer domains, unless none, fewer senders.
LEMMA FewerServices ==
    ASSUME NEW c, NEW d \in SUBSET c
    PROVE  Grants("ssh", d) \subseteq Grants("ssh", c)
<1>1. ASSUME NEW x PROVE
        Grants("ssh", x) = {g \in {t.alias : t \in x} \X Inputs.services :
                                \E t \in x : t.alias = g[1] /\ SSHTargetAllowsService(t, g[2])}
  BY DEF Grants
<1>2. {t.alias : t \in d} \subseteq {t.alias : t \in c}
  OBVIOUS
<1>3. {t.alias : t \in d} \X Inputs.services \subseteq {t.alias : t \in c} \X Inputs.services
  BY <1>2
<1>4. ASSUME NEW g \in Grants("ssh", d) PROVE g \in Grants("ssh", c)
  <2>1. g \in {t.alias : t \in c} \X Inputs.services
    BY <1>1, <1>3, <1>4
  <2>2. \E t \in c : t.alias = g[1] /\ SSHTargetAllowsService(t, g[2])
    BY <1>1, <1>4
  <2> QED BY <1>1, <2>1, <2>2
<1> QED BY <1>4

LEMMA FewerSenders ==
    ASSUME NEW c, NEW d \in SUBSET c, d # {}
    PROVE  Grants("mail", d) \subseteq Grants("mail", c)
BY DEF Grants, SenderAllowed

\* Fewer system entries allow less, as long as no blocked package is unblocked.
LEMMA FewerPackages ==
    ASSUME NEW c, NEW d \in SUBSET c, \A e \in c \ d : e.list # "blocked"
    PROVE  Grants("system", d) \subseteq Grants("system", c)
<1> DEFINE P(x) == {m \in Inputs.names : AllowsPackage(x, m)}
           T == {"services", "apps", "builds"} \X Inputs.names
           L(x) == {g \in T : AllowsListed(x, g[1], g[2])}
           Q(x) == {<<"packages", n>> : n \in P(x)}
<1>1. Grants("system", c) = Q(c) \cup L(c) /\ Grants("system", d) = Q(d) \cup L(d)
  BY DEF Grants
<1>2. ASSUME NEW m \in P(d) PROVE m \in P(c)
  <2>1. PICK b : b = [list |-> "blocked", name |-> m]
    OBVIOUS
  <2>2. b.list = "blocked"
    BY <2>1
  <2>3. b \notin c
    BY <1>2, <2>1, <2>2 DEF AllowsPackage
  <2> QED BY <1>2, <2>1, <2>3 DEF AllowsPackage
<1>3. Q(d) \subseteq Q(c)
  <2> HIDE DEF P
  <2> QED BY <1>2
<1>4. L(d) \subseteq L(c)
  <2> HIDE DEF T
  <2> QED BY DEF AllowsListed
<1> QED BY <1>1, <1>3, <1>4

LEMMA UpdateNarrows ==
    ASSUME NEW j, JobOk(j), j.op \in Removals, NEW old, Sound(j.file, old)
    PROVE  \/ Grants(j.file, Update(j, old)) \subseteq Grants(j.file, old)
           \/ j.file = "mail" /\ Update(j, old) = {}
<1>1. CASE j.op = "RemoveRules"
  <2>1. j.file = "policies" /\ Update(j, old) = RemoveRules(old, j.arg.agent, j.arg.app)
    BY <1>1 DEF JobOk, ListOps, Update
  <2>2. IsFiniteSet(old)
    BY <2>1, NotBroken DEF Files
  <2> QED BY <2>1, <2>2, FewerCalls
<1>2. CASE j.op = "RemoveAllowedSenderDomain"
  <2>1. j.file = "mail" /\ Update(j, old) = old \ {j.arg}
    BY <1>2 DEF JobOk, ListOps, Update, RemoveAllowedSenderDomain
  <2> QED BY <2>1, FewerSenders
<1>3. CASE j.op = "RemoveSSHTarget"
  <2>1. j.file = "ssh" /\ Update(j, old) \in SUBSET old
    BY <1>3 DEF JobOk, ListOps, Update, RemoveSSHTarget
  <2> QED BY <2>1, FewerServices
<1>4. CASE j.op = "RemoveHTTPProfile"
  <2>1. j.file = "http" /\ Update(j, old) \in SUBSET old
    BY <1>4 DEF JobOk, ListOps, Update, RemoveHTTPProfile
  <2> QED BY <2>1 DEF Grants
<1>5. CASE j.op = "Disable"
  <2>1. j.file = "enabled" /\ Update(j, old) \in SUBSET old
    BY <1>5 DEF JobOk, ListOps, Update, updateAppEnabledList
  <2> QED BY <2>1 DEF Grants
<1>6. CASE j.op = "RemoveManager"
  <2>1. j.file = "system" /\ Update(j, old) = RemoveManager(old, j.arg)
    BY <1>6 DEF JobOk, ListOps, Update
  <2>2. PICK d : d = Update(j, old)
    OBVIOUS
  <2>3. d \in SUBSET old /\ \A e \in old \ d : e.list # "blocked"
    BY <2>1, <2>2 DEF RemoveManager
  <2> QED BY <2>1, <2>2, <2>3, FewerPackages
<1>7. CASE j.op \in {"RemoveAllowedPackage", "RemoveAllowedService", "RemoveAllowedApp",
                     "RemoveBuildPrefix"}
  <2>1. j.file = "system"
    BY <1>7 DEF JobOk, ListOps
  <2>2. PICK l \in {"packages", "services", "apps", "builds"} :
            Update(j, old) = old \ {[list |-> l, name |-> j.arg]}
    BY <1>7 DEF Update, RemoveAllowedPackage, RemoveAllowedService, RemoveAllowedApp,
       RemoveBuildPrefix
  <2>3. PICK e : e = [list |-> l, name |-> j.arg]
    OBVIOUS
  <2>4. e.list # "blocked"
    BY <2>3
  <2>5. PICK d : d = Update(j, old)
    OBVIOUS
  <2>6. d \in SUBSET old /\ \A x \in old \ d : x.list # "blocked"
    BY <2>2, <2>3, <2>4, <2>5
  <2> QED BY <2>1, <2>5, <2>6, FewerPackages
<1> QED BY <1>1, <1>2, <1>3, <1>4, <1>5, <1>6, <1>7 DEF Removals

-----------------------------------------------------------------------------
(* Every command starts with jobs of its own *)

Starts(p) == \E sudo, jobs : JobsOk(jobs) /\ Begin(p, sudo, jobs)

LEMMA StartsWith ==
    ASSUME NEW p, NEW sudo, NEW file \in Files, NEW op, NEW arg, JobOk(Job(file, op, arg)),
           Begin(p, sudo, <<Job(file, op, arg)>>)
    PROVE  Starts(p)
<1>1. JobsOk(<<Job(file, op, arg)>>)
  BY OneJob
<1> QED BY <1>1 DEF Starts

LEMMA StartsAsRoot ==
    ASSUME NEW p, NEW sudo \in BOOLEAN, NEW file \in Files, NEW op, NEW arg,
           JobOk(Job(file, op, arg)),
           Begin(p, sudo, requireRootForMutation(sudo, <<Job(file, op, arg)>>))
    PROVE  Starts(p)
<1>1. JobsOk(<<Job(file, op, arg)>>)
  BY OneJob
<1>2. JobsOk(requireRootForMutation(sudo, <<Job(file, op, arg)>>))
  BY <1>1, RootJobs
<1> QED BY <1>2 DEF Starts

\* The fields of a job.
LEMMA JobFields ==
    ASSUME NEW file, NEW op, NEW arg
    PROVE  /\ Job(file, op, arg).file = file /\ Job(file, op, arg).op = op
           /\ Job(file, op, arg).arg = arg
BY DEF Job

LEMMA ReadOk ==
    ASSUME NEW file \in Files
    PROVE  JobOk(Job(file, "read", Blank))
BY JobFields DEF JobOk

LEMMA FailOk ==
    ASSUME NEW file \in Files, NEW code \in Codes
    PROVE  JobOk(Job(file, "fail", code))
BY JobFields DEF JobOk

LEMMA StartNotes ==
    ASSUME NEW p, runNotesBlacklist(p)
    PROVE  Starts(p)
<1>1. PICK sudo \in BOOLEAN, k \in Inputs.keywords :
        \/ Begin(p, sudo, <<Job("protected", "read", Blank)>>)
        \/ Begin(p, sudo, requireRootForMutation(sudo,
                <<Job("protected", "AddProtectedFolderKeyword", k)>>))
        \/ Begin(p, sudo, requireRootForMutation(sudo,
                <<Job("protected", "RemoveProtectedFolderKeyword", k)>>))
  BY DEF runNotesBlacklist
<1>2. "protected" \in Files /\ k \in Entries("protected")
  BY InputEntries DEF Files
<1>3. /\ JobOk(Job("protected", "AddProtectedFolderKeyword", k))
      /\ JobOk(Job("protected", "RemoveProtectedFolderKeyword", k))
  BY <1>2, JobFields DEF JobOk
<1> QED BY <1>1, <1>2, <1>3, ReadOk, StartsWith, StartsAsRoot

LEMMA StartMail ==
    ASSUME NEW p, runMailDomains(p)
    PROVE  Starts(p)
<1>1. PICK sudo \in BOOLEAN, d \in Inputs.domains :
        \/ Begin(p, sudo, <<Job("mail", "read", Blank)>>)
        \/ Begin(p, sudo, requireRootForMutation(sudo,
                <<Job("mail", "AddAllowedSenderDomain", d)>>))
        \/ Begin(p, sudo, requireRootForMutation(sudo,
                <<Job("mail", "RemoveAllowedSenderDomain", d)>>))
  BY DEF runMailDomains
<1>2. "mail" \in Files /\ d \in Entries("mail")
  BY InputEntries DEF Files
<1>3. /\ JobOk(Job("mail", "AddAllowedSenderDomain", d))
      /\ JobOk(Job("mail", "RemoveAllowedSenderDomain", d))
  BY <1>2, JobFields DEF JobOk
<1> QED BY <1>1, <1>2, <1>3, ReadOk, StartsWith, StartsAsRoot

LEMMA StartSSH ==
    ASSUME NEW p, runSSHTargets(p)
    PROVE  Starts(p)
<1>1. PICK sudo \in BOOLEAN, t \in Inputs.targets :
        \/ Begin(p, sudo, <<Job("ssh", "read", Blank)>>)
        \/ Begin(p, sudo, requireRootForMutation(sudo,
                <<Job("ssh", "AddSSHTarget", t)>>))
        \/ Begin(p, sudo, requireRootForMutation(sudo,
                <<Job("ssh", "RemoveSSHTarget", t.alias)>>))
  BY DEF runSSHTargets
<1>2. "ssh" \in Files /\ t \in Entries("ssh")
  BY InputEntries DEF Files
<1>3. JobOk(Job("ssh", "AddSSHTarget", t)) /\ JobOk(Job("ssh", "RemoveSSHTarget", t.alias))
  BY <1>2, JobFields DEF JobOk
<1> QED BY <1>1, <1>2, <1>3, ReadOk, StartsWith, StartsAsRoot

LEMMA StartHTTP ==
    ASSUME NEW p, runHTTPProfiles(p)
    PROVE  Starts(p)
<1>1. PICK sudo \in BOOLEAN, h \in Inputs.profiles :
        \/ Begin(p, sudo, <<Job("http", "read", Blank)>>)
        \/ Begin(p, sudo, requireRootForMutation(sudo,
                <<Job("http", "AddHTTPProfile", h)>>))
        \/ Begin(p, sudo, requireRootForMutation(sudo,
                <<Job("http", "RemoveHTTPProfile", h.name)>>))
  BY DEF runHTTPProfiles
<1>2. "http" \in Files /\ h \in Entries("http")
  BY InputEntries DEF Files
<1>3. JobOk(Job("http", "AddHTTPProfile", h)) /\ JobOk(Job("http", "RemoveHTTPProfile", h.name))
  BY <1>2, JobFields DEF JobOk
<1> QED BY <1>1, <1>2, <1>3, ReadOk, StartsWith, StartsAsRoot

LEMMA StartManagers ==
    ASSUME NEW p, runSystemManagers(p)
    PROVE  Starts(p)
<1>1. PICK sudo \in BOOLEAN, m \in Inputs.managers :
        \/ Begin(p, sudo, <<Job("system", "read", Blank)>>)
        \/ Begin(p, sudo, requireRootForMutation(sudo,
                <<Job("system", "AddManager", m)>>))
        \/ Begin(p, sudo, requireRootForMutation(sudo,
                <<Job("system", "RemoveManager", m.name)>>))
  BY DEF runSystemManagers
<1>2. "system" \in Files /\ m \in Entries("system")
  BY InputEntries DEF Files
<1>3. JobOk(Job("system", "AddManager", m)) /\ JobOk(Job("system", "RemoveManager", m.name))
  BY <1>2, JobFields DEF JobOk
<1> QED BY <1>1, <1>2, <1>3, ReadOk, StartsWith, StartsAsRoot

LEMMA StartLists ==
    ASSUME NEW p, runSystemLists(p)
    PROVE  Starts(p)
<1>1. PICK sudo \in BOOLEAN, n \in Inputs.names, op \in ListOps :
        Begin(p, sudo, requireRootForMutation(sudo, <<Job("system", op, n)>>))
  BY DEF runSystemLists, ListOps
<1>2. "system" \in Files
  BY DEF Files
<1>3. JobOk(Job("system", op, n))
  BY <1>2, JobFields DEF JobOk
<1> QED BY <1>1, <1>2, <1>3, StartsAsRoot

LEMMA StartPolicy ==
    ASSUME NEW p, runPolicyAddRule(p) \/ runPolicy(p)
    PROVE  Starts(p)
<1>1. "policies" \in Files /\ "config" \in Codes
  BY DEF Files, Codes
<1>2. CASE runPolicyAddRule(p)
  <2>1. PICK sudo \in BOOLEAN, r \in Inputs.rules :
            Begin(p, sudo, requireRootForMutation(sudo, <<Job("policies", "AddRule", r)>>))
    BY <1>2 DEF runPolicyAddRule
  <2>2. r \in Entries("policies")
    BY InputEntries
  <2>3. JobOk(Job("policies", "AddRule", r))
    BY <1>1, <2>2, JobFields DEF JobOk
  <2> QED BY <1>1, <2>1, <2>3, StartsAsRoot
<1>3. CASE runPolicy(p)
  <2>1. \/ Begin(p, FALSE, <<Job("policies", "fail", "config")>>)
        \/ Begin(p, FALSE, <<Job("policies", "read", Blank)>>)
    BY <1>3 DEF runPolicy
  <2> QED BY <1>1, <2>1, ReadOk, FailOk, StartsWith
<1> QED BY <1>2, <1>3

LEMMA StartAgentOrApp ==
    ASSUME NEW p, runAgent(p) \/ setAppEnabled(p)
    PROVE  Starts(p)
<1>1. "agents" \in Files /\ "enabled" \in Files /\ "notfound" \in Codes /\ "invalid" \in Codes
  BY DEF Files, Codes
<1>2. CASE runAgent(p)
  <2>1. PICK a \in Inputs.newAgents : Begin(p, FALSE, <<Job("agents", "Register", a)>>)
    BY <1>2 DEF runAgent
  <2>2. a \in Entries("agents")
    BY InputEntries
  <2>3. JobOk(Job("agents", "Register", a))
    BY <1>1, <2>2, JobFields DEF JobOk
  <2> QED BY <1>1, <2>1, <2>3, StartsWith
<1>3. CASE setAppEnabled(p)
  <2>1. PICK app \in Inputs.apps :
            \/ Begin(p, FALSE, <<Job("enabled", "fail", "notfound")>>)
            \/ Begin(p, FALSE, <<Job("enabled", "fail", "invalid")>>)
            \/ Begin(p, FALSE, <<Job("enabled", "Enable", app)>>)
            \/ Begin(p, FALSE, <<Job("enabled", "Disable", app)>>)
    BY <1>3 DEF setAppEnabled
  <2>2. app \in Entries("enabled")
    BY InputEntries
  <2>3. JobOk(Job("enabled", "Enable", app)) /\ JobOk(Job("enabled", "Disable", app))
    BY <1>1, <2>2, JobFields DEF JobOk
  <2> QED BY <1>1, <2>1, <2>3, FailOk, StartsWith
<1> QED BY <1>2, <1>3

LEMMA StartActivation ==
    ASSUME NEW p, runAppActivation(p)
    PROVE  Starts(p)
<1>1. PICK sudo \in BOOLEAN, a \in Inputs.agents, apps \in Inputs.appLists, on \in BOOLEAN :
        Begin(p, sudo, requireRootForMutation(sudo, AllActivationJobs(a, apps, on)))
  BY DEF runAppActivation
<1>2. JobsOk(requireRootForMutation(sudo, AllActivationJobs(a, apps, on)))
  BY AllActivationOk, RootJobs
<1> QED BY <1>1, <1>2 DEF Starts

LEMMA StartInit ==
    ASSUME NEW p, runInit(p)
    PROVE  Starts(p)
<1>1. "agents" \in Files /\ "policies" \in Files /\ "denied" \in Codes
  BY DEF Files, Codes
<1>2. PICK j, k : /\ j = Job("agents", "save", Inputs.initAgents)
                  /\ k = Job("policies", "save", Inputs.initRules)
  OBVIOUS
<1>3. PICK sudo \in BOOLEAN : \/ Begin(p, sudo, <<Job("agents", "fail", "denied")>>)
                              \/ Begin(p, sudo, <<j, k>>)
  BY <1>2 DEF runInit
<1>4. JobOk(j) /\ JobOk(k)
  BY <1>1, <1>2, JobFields, InputEntries DEF JobOk
<1>5. JobsOk(<<j, k>>)
  BY <1>4, TwoJobs
<1> QED BY <1>1, <1>3, <1>5, FailOk, StartsWith DEF Starts

LEMMA RunStarts ==
    ASSUME NEW p, Run(p)
    PROVE  Starts(p)
BY StartNotes, StartMail, StartSSH, StartHTTP, StartManagers, StartLists, StartPolicy,
   StartAgentOrApp, StartActivation, StartInit DEF Run

-----------------------------------------------------------------------------
(* The inductive invariant *)

\* The row of an administrator: a process that is to save has what its job makes
\* of what it loaded.
AdmRow(x) ==
    /\ DOMAIN x = {"pc", "jobs", "base", "held", "sudo", "code"}
    /\ x.pc \in {"idle", "load", "truncate", "write"}
    /\ x.code \in Codes \cup {"ok", "running"}
    /\ x.pc = "idle" => x.jobs = <<>>
    /\ x.pc # "idle" => JobsOk(x.jobs)
    /\ x.pc \in {"truncate", "write"} =>
        /\ Head(x.jobs).op # "fail"
        /\ Sound(Head(x.jobs).file, x.base) /\ Sound(Head(x.jobs).file, x.held)
        /\ x.held = Update(Head(x.jobs), x.base)

Works(x, f) == x.pc \in {"truncate", "write"} /\ Head(x.jobs).file = f

Writes(x, f) == x.pc = "write" /\ Head(x.jobs).file = f

\* One process at a time works on the file, which is truncated while it writes and
\* is what the finished jobs make of it otherwise; so is what that process loaded.
InTurn(f, a, c, l, lost) ==
    /\ \A p, q \in Admins : Works(a[p], f) /\ Works(a[q], f) => p = q
    /\ \A p \in Admins : Writes(a[p], f) => c = Torn
    /\ f \in Strict \/ f \notin lost =>
        /\ \/ \E p \in Admins : Writes(a[p], f)
           \/ LoadFile(f, c) = Refused
           \/ LoadFile(f, c) = l
        /\ \A p \in Admins :
            Works(a[p], f) /\ Head(a[p].jobs).op # "save" => a[p].base = l

CliInv ==
    /\ DOMAIN adm = Admins /\ \A p \in Admins : AdmRow(adm[p])
    /\ DOMAIN disk = Files /\ DOMAIN ledger = Files /\ stamp \in [Files -> Nat]
    /\ overlap \subseteq Files /\ failed \subseteq Files
    /\ \A f \in Files : Holds(f, disk[f])
    /\ \A f \in Files \ overlap : InTurn(f, adm, disk[f], ledger[f], failed)

McpInv ==
    /\ DOMAIN mcp = {"pc", "booting", "rules", "tools", "sig", "stamps"}
    /\ mcp.pc \in {"policy", "targets", "stamp", "poll"} /\ mcp.booting \in BOOLEAN
    /\ mcp.pc \in {"stamp", "poll"} => (mcp.booting <=> mcp.pc = "stamp")

\* The rows that a step can leave behind.
LEMMA IdleRow ==
    ASSUME NEW code \in Codes \cup {"ok", "running"}
    PROVE  AdmRow(Idle(code)) /\ Idle(code).pc = "idle"
<1>1. PICK x : x = Idle(code)
  OBVIOUS
<1>2. /\ DOMAIN x = {"pc", "jobs", "base", "held", "sudo", "code"}
      /\ x.pc = "idle" /\ x.jobs = <<>> /\ x.code = code
  BY <1>1 DEF Idle
<1>3. AdmRow(x)
  BY <1>2 DEF AdmRow
<1> QED BY <1>1, <1>2, <1>3

LEMMA FirstJob ==
    ASSUME NEW jobs, JobsOk(jobs)
    PROVE  JobOk(Head(jobs)) /\ (Len(jobs) # 1 => JobsOk(Tail(jobs)))
<1>1. PICK S : jobs \in Seq(S) /\ \A j \in S : JobOk(j)
  BY DEF JobsOk
<1>2. jobs # <<>>
  BY DEF JobsOk
<1>3. Head(jobs) \in S
  BY <1>1, <1>2
<1>4. ASSUME Len(jobs) # 1 PROVE JobsOk(Tail(jobs))
  <2>1. Tail(jobs) \in Seq(S)
    BY <1>1, <1>2
  <2>2. Tail(jobs) # <<>>
    <3>1. Len(jobs) \in Nat /\ Len(jobs) # 0
      BY <1>1, <1>2
    <3>2. Len(Tail(jobs)) = Len(jobs) - 1
      BY <1>1, <1>2
    <3>3. PICK T : T = Tail(jobs)
      OBVIOUS
    <3>4. T \in Seq(S) /\ Len(T) # 0
      BY <1>4, <2>1, <3>1, <3>2, <3>3
    <3> QED BY <3>3, <3>4
  <2> QED BY <1>1, <2>1, <2>2 DEF JobsOk
<1> QED BY <1>1, <1>3, <1>4

LEMMA DoneRow ==
    ASSUME NEW x, AdmRow(x), x.pc # "idle"
    PROVE  AdmRow(Done(x)) /\ Done(x).pc \in {"idle", "load"}
<1>1. JobsOk(x.jobs)
  BY DEF AdmRow
<1>2. CASE Len(x.jobs) = 1
  <2>1. Done(x) = Idle("ok")
    BY <1>2 DEF Done
  <2> QED BY <2>1, IdleRow
<1>3. CASE Len(x.jobs) # 1
  <2>1. PICK y : y = Done(x)
    OBVIOUS
  <2>2. y = [x EXCEPT !.pc = "load", !.jobs = Tail(@), !.base = {}, !.held = {}]
    BY <1>3, <2>1 DEF Done
  <2>3. DOMAIN x = {"pc", "jobs", "base", "held", "sudo", "code"}
    BY DEF AdmRow
  <2>4. /\ DOMAIN y = DOMAIN x /\ y.pc = "load" /\ y.jobs = Tail(x.jobs) /\ y.code = x.code
    BY <2>2, <2>3
  <2>5. JobsOk(y.jobs)
    BY <1>1, <1>3, <2>4, FirstJob
  <2>6. AdmRow(y)
    BY <2>4, <2>5 DEF AdmRow
  <2> QED BY <2>1, <2>4, <2>6
<1> QED BY <1>2, <1>3

-----------------------------------------------------------------------------
(* What a change of one row means for a file *)

\* b is a with the row of p replaced by y.
OneRow(a, b, p, y) ==
    /\ DOMAIN a = Admins /\ DOMAIN b = Admins /\ p \in Admins /\ b[p] = y
    /\ \A q \in Admins : q # p => b[q] = a[q]

LEMMA ExceptRow ==
    ASSUME NEW a, DOMAIN a = Admins, NEW p \in Admins, NEW y, NEW b, b = [a EXCEPT ![p] = y]
    PROVE  OneRow(a, b, p, y)
BY DEF OneRow

\* A process that is not writing the file, and does not work on it afterwards.
LEMMA Leaves ==
    ASSUME NEW f, NEW a, NEW c, NEW l, NEW lost, InTurn(f, a, c, l, lost),
           NEW b, NEW p, NEW y, OneRow(a, b, p, y), ~Works(y, f), ~Writes(a[p], f)
    PROVE  InTurn(f, b, c, l, lost)
<1>1. ~Writes(y, f)
  BY DEF Works, Writes
<1>2. \A q \in Admins : Works(b[q], f) => q # p /\ b[q] = a[q]
  BY DEF OneRow
<1>3. \A q \in Admins : Writes(b[q], f) => q # p /\ b[q] = a[q]
  BY <1>1 DEF OneRow
<1>4. \A q \in Admins : Writes(a[q], f) => Writes(b[q], f)
  BY DEF OneRow
<1> QED BY <1>2, <1>3, <1>4 DEF InTurn

\* The load of the one process that works on the file.
LEMMA Enters ==
    ASSUME NEW f, NEW a, NEW c, NEW l, NEW lost, InTurn(f, a, c, l, lost),
           NEW b, NEW p, NEW y, OneRow(a, b, p, y), a[p].pc = "load", y.pc = "truncate",
           \A q \in Admins \ {p} : ~Works(a[q], f),
           Head(y.jobs).op # "save" => y.base = LoadFile(f, c) /\ y.base # Refused
    PROVE  InTurn(f, b, c, l, lost)
<1>1. \A q \in Admins : ~Writes(a[q], f)
  BY DEF Works, Writes
<1>2. \A q \in Admins : Works(b[q], f) => q = p
  BY DEF OneRow
<1>3. \A q \in Admins : ~Writes(b[q], f)
  BY <1>1 DEF OneRow, Writes
<1>4. p \in Admins /\ b[p] = y
  BY DEF OneRow
<1>5. ASSUME f \in Strict \/ f \notin lost PROVE LoadFile(f, c) = Refused \/ LoadFile(f, c) = l
  BY <1>1, <1>5 DEF InTurn
<1> QED BY <1>2, <1>3, <1>4, <1>5 DEF InTurn

\* Its truncation of the file.
LEMMA Cuts ==
    ASSUME NEW f, NEW a, NEW c, NEW l, NEW lost, InTurn(f, a, c, l, lost),
           NEW b, NEW p, NEW y, OneRow(a, b, p, y), Works(a[p], f), Writes(y, f),
           y.jobs = a[p].jobs, y.base = a[p].base
    PROVE  InTurn(f, b, Torn, l, lost)
<1>1. \A q \in Admins : Works(b[q], f) => q = p
  BY DEF OneRow, InTurn
<1>2. p \in Admins /\ b[p] = y
  BY DEF OneRow
<1> QED BY <1>1, <1>2 DEF InTurn

\* Its write, of what its job makes of what it loaded.
LEMMA Puts ==
    ASSUME NEW f, NEW a, NEW c, NEW l, NEW lost, InTurn(f, a, c, l, lost),
           NEW b, NEW p, NEW y, OneRow(a, b, p, y), Writes(a[p], f), ~Works(y, f),
           NEW new, NEW m, LoadFile(f, new) = new,
           (Head(a[p].jobs).op # "save" => a[p].base = l) => new = m
    PROVE  InTurn(f, b, new, m, lost)
<1>1. \A q \in Admins : ~Works(b[q], f)
  BY DEF OneRow, InTurn, Works, Writes
<1>2. \A q \in Admins : ~Writes(b[q], f)
  BY <1>1 DEF Works, Writes
<1>3. p \in Admins /\ Works(a[p], f)
  BY DEF OneRow, Works, Writes
<1> QED BY <1>1, <1>2, <1>3 DEF InTurn

\* Its write that fails: a strict file does not load, the others are given up.
LEMMA Drops ==
    ASSUME NEW f \in Files, NEW a, NEW c, NEW l, NEW lost, InTurn(f, a, c, l, lost),
           NEW b, NEW p, NEW y, OneRow(a, b, p, y), Writes(a[p], f), ~Works(y, f),
           NEW more, f \in more
    PROVE  InTurn(f, b, c, l, more)
<1>1. \A q \in Admins : ~Works(b[q], f)
  BY DEF OneRow, InTurn, Works, Writes
<1>2. \A q \in Admins : ~Writes(b[q], f)
  BY <1>1 DEF Works, Writes
<1>3. c = Torn
  BY DEF OneRow, InTurn
<1>4. f \in Strict => LoadFile(f, c) = Refused
  BY <1>3, TornRefused
<1> QED BY <1>1, <1>2, <1>4 DEF InTurn

-----------------------------------------------------------------------------
(* The steps of the administrators *)

LEMMA RowsKept ==
    ASSUME CliInv, NEW p \in Admins, NEW y, OneRow(adm, adm', p, y), AdmRow(y)
    PROVE  DOMAIN adm' = Admins /\ \A q \in Admins : AdmRow(adm'[q])
BY DEF CliInv, OneRow

\* A process that goes on without having touched a file.
LEMMA Moves ==
    ASSUME CliInv, NEW p \in Admins, NEW y, OneRow(adm, adm', p, y), AdmRow(y),
           y.pc \in {"idle", "load"}, adm[p].pc # "write",
           overlap \subseteq overlap', overlap' \subseteq Files,
           UNCHANGED <<disk, stamp, ledger, failed>>
    PROVE  CliInv'
<1>1. \A f : ~Works(y, f) /\ ~Writes(adm[p], f)
  BY DEF Works, Writes
<1>2. ASSUME NEW f \in Files \ overlap'
      PROVE  InTurn(f, adm', disk[f], ledger[f], failed)
  <2>1. InTurn(f, adm, disk[f], ledger[f], failed)
    BY DEF CliInv
  <2> QED BY <1>1, <2>1, Leaves
<1> QED BY <1>2, RowsKept DEF CliInv

LEMMA RunKeeps ==
    ASSUME CliInv, NEW p \in Admins, Starts(p)
    PROVE  CliInv'
<1>1. PICK sudo, jobs : JobsOk(jobs) /\ Begin(p, sudo, jobs)
  BY DEF Starts
<1>2. PICK y : y = [Idle("running") EXCEPT !.pc = "load", !.jobs = jobs, !.sudo = sudo]
  OBVIOUS
<1>3. /\ DOMAIN y = {"pc", "jobs", "base", "held", "sudo", "code"}
      /\ y.pc = "load" /\ y.jobs = jobs /\ y.code = "running"
  BY <1>2 DEF Idle
<1>4. AdmRow(y)
  BY <1>1, <1>3 DEF AdmRow
<1>5. adm' = [adm EXCEPT ![p] = y] /\ adm[p].pc = "idle"
  BY <1>1, <1>2 DEF Begin
<1>6. OneRow(adm, adm', p, y)
  BY <1>5, ExceptRow DEF CliInv
<1>7. UNCHANGED <<disk, stamp, ledger, overlap, failed>>
  BY <1>1 DEF Begin
<1>8. overlap' \subseteq Files
  BY <1>7 DEF CliInv
<1> QED BY <1>3, <1>4, <1>5, <1>6, <1>7, <1>8, Moves

LEMMA LoadKeeps ==
    ASSUME CliInv, NEW p \in Admins, Load(p)
    PROVE  CliInv'
<1>1. PICK x, j : x = adm[p] /\ j = Head(x.jobs)
  OBVIOUS
<1>2. AdmRow(x) /\ x.pc = "load"
  BY <1>1 DEF CliInv, Load
<1>3. JobsOk(x.jobs) /\ JobOk(j)
  BY <1>1, <1>2, FirstJob DEF AdmRow
<1>4. j.file \in Files
  BY <1>3 DEF JobOk
<1>5. PICK old, new :
        /\ old = IF j.op = "save" THEN {} ELSE LoadFile(j.file, disk[j.file])
        /\ new = IF old = Refused THEN Refused ELSE Update(j, old)
  OBVIOUS
<1>6. PICK y :
        y = CASE j.op = "fail" -> Idle(j.arg)
              [] j.op # "fail" /\ new = Refused -> Idle("config")
              [] j.op # "fail" /\ new = old /\ j.op # "save" -> Done(x)
              [] OTHER -> [x EXCEPT !.pc = "truncate", !.base = old, !.held = new]
  OBVIOUS
<1>7. adm' = [adm EXCEPT ![p] = y]
  BY <1>1, <1>5, <1>6 DEF Load, Current, CliInv
<1>8. OneRow(adm, adm', p, y)
  BY <1>7, ExceptRow DEF CliInv
<1>9. /\ UNCHANGED <<disk, stamp, ledger, failed>>
      /\ overlap' = IF j.op # "fail" /\ \E q \in Admins \ {p} : Works(adm[q], j.file)
                    THEN overlap \cup {j.file} ELSE overlap
  BY <1>1 DEF Load, Working, Works, Current
<1>10. overlap \subseteq overlap' /\ overlap' \subseteq Files
  BY <1>4, <1>9 DEF CliInv
<1>11. CASE j.op = "fail"
  <2>1. y = Idle(j.arg) /\ j.arg \in Codes
    BY <1>3, <1>6, <1>11 DEF JobOk, ListOps
  <2>2. AdmRow(y) /\ y.pc = "idle"
    BY <2>1, IdleRow
  <2> QED BY <1>1, <1>2, <1>8, <1>9, <1>10, <2>2, Moves
<1>12. CASE j.op # "fail" /\ new = Refused
  <2>1. y = Idle("config") \/ y = Done(x)
    BY <1>6, <1>12
  <2>2. AdmRow(y) /\ y.pc \in {"idle", "load"}
    BY <1>2, <2>1, IdleRow, DoneRow DEF Codes
  <2> QED BY <1>1, <1>2, <1>8, <1>9, <1>10, <2>2, Moves
<1>13. CASE j.op # "fail" /\ new # Refused /\ new = old /\ j.op # "save"
  <2>1. y = Done(x)
    BY <1>6, <1>13
  <2>2. AdmRow(y) /\ y.pc \in {"idle", "load"}
    BY <1>2, <2>1, DoneRow
  <2> QED BY <1>1, <1>2, <1>8, <1>9, <1>10, <2>2, Moves
<1>14. CASE j.op # "fail" /\ new # Refused /\ (new # old \/ j.op = "save")
  <2>1. y = [x EXCEPT !.pc = "truncate", !.base = old, !.held = new]
    BY <1>6, <1>14
  <2>2. DOMAIN x = {"pc", "jobs", "base", "held", "sudo", "code"}
    BY <1>2 DEF AdmRow
  <2>3. /\ DOMAIN y = DOMAIN x /\ y.pc = "truncate" /\ y.base = old /\ y.held = new
        /\ y.jobs = x.jobs /\ y.code = x.code
    BY <2>1, <2>2
  <2>4. Sound(j.file, old)
    <3>1. CASE j.op = "save"
      BY <1>5, <3>1 DEF Sound, SafeSystem, Managers
    <3>2. CASE j.op # "save"
      <4>1. old = LoadFile(j.file, disk[j.file]) /\ old # Refused
        BY <1>5, <1>14, <3>2
      <4>2. Holds(j.file, disk[j.file])
        BY <1>4 DEF CliInv
      <4> QED BY <1>4, <4>1, <4>2, LoadHolds
    <3> QED BY <3>1, <3>2
  <2>5. old # Refused /\ new = Update(j, old)
    BY <1>5, <1>14
  <2>6. Sound(j.file, new)
    BY <1>3, <1>14, <2>4, <2>5, UpdateSound
  <2>7. AdmRow(y)
    BY <1>1, <1>2, <1>3, <1>14, <2>2, <2>3, <2>4, <2>5, <2>6 DEF AdmRow
  <2>8. ASSUME NEW f \in Files \ overlap'
        PROVE  InTurn(f, adm', disk[f], ledger[f], failed)
    <3>1. InTurn(f, adm, disk[f], ledger[f], failed)
      BY <1>10 DEF CliInv
    <3>2. CASE f # j.file
      <4>1. ~Works(y, f) /\ ~Writes(adm[p], f)
        BY <1>1, <1>2, <2>3, <3>2 DEF Works, Writes
      <4> QED BY <1>8, <3>1, <4>1, Leaves
    <3>3. CASE f = j.file
      <4>1. \A q \in Admins \ {p} : ~Works(adm[q], f)
        BY <1>9, <1>14, <2>8, <3>3
      <4>2. Head(y.jobs).op # "save" => y.base = LoadFile(f, disk[f]) /\ y.base # Refused
        BY <1>1, <1>5, <2>3, <2>5, <3>3
      <4>3. adm[p].pc = "load" /\ y.pc = "truncate"
        BY <1>1, <1>2, <2>3
      <4> QED BY <1>8, <3>1, <4>1, <4>2, <4>3, Enters
    <3> QED BY <3>2, <3>3
  <2>9. DOMAIN adm' = Admins /\ \A q \in Admins : AdmRow(adm'[q])
    BY <1>8, <2>7, RowsKept
  <2> QED BY <1>9, <1>10, <2>8, <2>9 DEF CliInv
<1> QED BY <1>11, <1>12, <1>13, <1>14

LEMMA TruncateKeeps ==
    ASSUME CliInv, NEW p \in Admins, Truncate(p)
    PROVE  CliInv'
<1>1. PICK x, f : x = adm[p] /\ f = Head(x.jobs).file
  OBVIOUS
<1>2. AdmRow(x) /\ x.pc = "truncate"
  BY <1>1 DEF CliInv, Truncate
<1>3. f \in Files
  BY <1>1, <1>2, FirstJob DEF AdmRow, JobOk
<1>4. UNCHANGED <<ledger, overlap, failed>>
  BY DEF Truncate
<1>5. CASE f \in AdminOwned /\ ~x.sudo
  <2>1. PICK y : y = Idle("config")
    OBVIOUS
  <2>2. AdmRow(y) /\ y.pc = "idle"
    BY <2>1, IdleRow DEF Codes
  <2>3. adm' = [adm EXCEPT ![p] = y] /\ UNCHANGED <<disk, stamp>>
    BY <1>1, <1>5, <2>1 DEF Truncate, Current
  <2>4. OneRow(adm, adm', p, y)
    BY <2>3, ExceptRow DEF CliInv
  <2>5. overlap' \subseteq Files
    BY <1>4 DEF CliInv
  <2> QED BY <1>1, <1>2, <1>4, <2>2, <2>3, <2>4, <2>5, Moves
<1>6. CASE ~(f \in AdminOwned /\ ~x.sudo)
  <2>1. PICK y : y = [x EXCEPT !.pc = "write"]
    OBVIOUS
  <2>2. DOMAIN x = {"pc", "jobs", "base", "held", "sudo", "code"}
    BY <1>2 DEF AdmRow
  <2>3. /\ DOMAIN y = DOMAIN x /\ y.pc = "write" /\ y.base = x.base /\ y.held = x.held
        /\ y.jobs = x.jobs /\ y.code = x.code
    BY <2>1, <2>2
  <2>4. AdmRow(y)
    BY <1>2, <2>3 DEF AdmRow
  <2>5. /\ adm' = [adm EXCEPT ![p] = y] /\ disk' = [disk EXCEPT ![f] = Torn]
        /\ stamp' = [stamp EXCEPT ![f] = @ + 1]
    BY <1>1, <1>6, <2>1 DEF Truncate, Current, CliInv
  <2>6. OneRow(adm, adm', p, y)
    BY <2>5, ExceptRow DEF CliInv
  <2>7. /\ DOMAIN disk' = Files /\ disk'[f] = Torn
        /\ \A g \in Files : g # f => disk'[g] = disk[g]
    BY <1>3, <2>5 DEF CliInv
  <2>8. stamp' \in [Files -> Nat]
    BY <1>3, <2>5 DEF CliInv
  <2>9. \A g \in Files : Holds(g, disk'[g])
    BY <2>7 DEF CliInv, Holds, Broken
  <2>10. ASSUME NEW g \in Files \ overlap
         PROVE  InTurn(g, adm', disk'[g], ledger[g], failed)
    <3>1. InTurn(g, adm, disk[g], ledger[g], failed)
      BY DEF CliInv
    <3>2. CASE g # f
      <4>1. ~Works(y, g) /\ ~Writes(adm[p], g)
        BY <1>1, <1>2, <2>3, <3>2 DEF Works, Writes
      <4>2. InTurn(g, adm', disk[g], ledger[g], failed)
        BY <2>6, <3>1, <4>1, Leaves
      <4> QED BY <2>7, <3>2, <4>2
    <3>3. CASE g = f
      <4>1. Works(adm[p], g) /\ Writes(y, g) /\ y.jobs = adm[p].jobs /\ y.base = adm[p].base
        BY <1>1, <1>2, <2>3, <3>3 DEF Works, Writes
      <4>2. InTurn(g, adm', Torn, ledger[g], failed)
        BY <2>6, <3>1, <4>1, Cuts
      <4> QED BY <2>7, <3>3, <4>2
    <3> QED BY <3>2, <3>3
  <2>11. DOMAIN adm' = Admins /\ \A q \in Admins : AdmRow(adm'[q])
    BY <2>4, <2>6, RowsKept
  <2> QED BY <1>4, <2>7, <2>8, <2>9, <2>10, <2>11 DEF CliInv
<1> QED BY <1>5, <1>6

LEMMA WriteKeeps ==
    ASSUME CliInv, NEW p \in Admins, Write(p)
    PROVE  CliInv'
<1>1. PICK x, j : x = adm[p] /\ j = Head(x.jobs)
  OBVIOUS
<1>2. AdmRow(x) /\ x.pc = "write"
  BY <1>1 DEF CliInv, Write
<1>3. PICK f : f = j.file
  OBVIOUS
<1>4. f \in Files
  BY <1>1, <1>2, <1>3, FirstJob DEF AdmRow, JobOk
<1>5. Sound(f, x.held) /\ x.held = Update(j, x.base)
  BY <1>1, <1>2, <1>3 DEF AdmRow
<1>6. PICK y : y = Done(x)
  OBVIOUS
<1>7. AdmRow(y) /\ y.pc \in {"idle", "load"}
  BY <1>2, <1>6, DoneRow
<1>8. adm' = [adm EXCEPT ![p] = y] /\ UNCHANGED <<overlap, failed>>
  BY <1>1, <1>6 DEF Write, CliInv
<1>9. OneRow(adm, adm', p, y)
  BY <1>8, ExceptRow DEF CliInv
<1>10. PICK c \in (IF disk[f] = Torn THEN {x.held} ELSE {x.held, disk[f], Garbled}) :
            disk' = [disk EXCEPT ![f] = c]
  BY <1>1, <1>3 DEF Write, Current
<1>11. /\ DOMAIN disk' = Files /\ disk'[f] = c
       /\ \A g \in Files : g # f => disk'[g] = disk[g]
  BY <1>4, <1>10 DEF CliInv
<1>12. ledger' = [ledger EXCEPT ![f] = Update(j, ledger[f])]
  BY <1>1, <1>3 DEF Write, Current, CliInv
<1>13. /\ DOMAIN ledger' = Files /\ ledger'[f] = Update(j, ledger[f])
       /\ \A g \in Files : g # f => ledger'[g] = ledger[g]
  BY <1>4, <1>12 DEF CliInv
<1>14. stamp' \in [Files -> Nat]
  <2>1. stamp' = [stamp EXCEPT ![f] = @ + 1]
    BY <1>1, <1>3 DEF Write, Current
  <2> QED BY <1>4, <2>1 DEF CliInv
<1>15. \A g \in Files : Holds(g, disk'[g])
  <2>1. Holds(f, c)
    BY <1>4, <1>5, <1>10 DEF CliInv, Holds, Broken
  <2> QED BY <1>11, <2>1 DEF CliInv
<1>16. ASSUME NEW g \in Files \ overlap
       PROVE  InTurn(g, adm', disk'[g], ledger'[g], failed)
  <2>1. InTurn(g, adm, disk[g], ledger[g], failed)
    BY DEF CliInv
  <2>2. ~Works(y, g)
    BY <1>7 DEF Works
  <2>3. CASE g # f
    <3>1. ~Writes(adm[p], g)
      BY <1>1, <1>3, <2>3 DEF Writes
    <3>2. InTurn(g, adm', disk[g], ledger[g], failed)
      BY <1>9, <2>1, <2>2, <3>1, Leaves
    <3> QED BY <1>11, <1>13, <2>3, <3>2
  <2>4. CASE g = f
    <3>1. Writes(adm[p], g)
      BY <1>1, <1>2, <1>3, <2>4 DEF Writes
    <3>2. disk[g] = Torn
      BY <2>1, <3>1 DEF InTurn
    <3>3. disk'[g] = x.held
      BY <1>10, <1>11, <2>4, <3>2
    <3>4. LoadFile(g, x.held) = x.held
      BY <1>5, <2>4, LoadSound
    <3>5. PICK m : m = Update(j, ledger[g])
      OBVIOUS
    <3>6. (j.op # "save" => x.base = ledger[g]) => x.held = m
      <4>1. CASE j.op = "save"
        BY <1>5, <3>5, <4>1 DEF Update
      <4>2. CASE j.op # "save"
        BY <1>5, <3>5, <4>2
      <4> QED BY <4>1, <4>2
    <3>7. (Head(adm[p].jobs).op # "save" => adm[p].base = ledger[g]) => x.held = m
      BY <1>1, <3>6
    <3>8. InTurn(g, adm', x.held, m, failed)
      BY <1>9, <2>1, <2>2, <3>1, <3>4, <3>7, Puts
    <3>9. ledger'[g] = m
      BY <1>13, <2>4, <3>5
    <3> QED BY <3>3, <3>8, <3>9
  <2> QED BY <2>3, <2>4
<1>17. DOMAIN adm' = Admins /\ \A q \in Admins : AdmRow(adm'[q])
  BY <1>7, <1>9, RowsKept
<1> QED BY <1>8, <1>11, <1>13, <1>14, <1>15, <1>16, <1>17 DEF CliInv

LEMMA WriteFailsKeeps ==
    ASSUME CliInv, NEW p \in Admins, WriteFails(p)
    PROVE  CliInv'
<1>1. PICK x, f : x = adm[p] /\ f = Head(x.jobs).file
  OBVIOUS
<1>2. AdmRow(x) /\ x.pc = "write"
  BY <1>1 DEF CliInv, WriteFails
<1>3. f \in Files
  BY <1>1, <1>2, FirstJob DEF AdmRow, JobOk
<1>4. PICK y : y = Idle("config")
  OBVIOUS
<1>5. AdmRow(y) /\ y.pc = "idle"
  BY <1>4, IdleRow DEF Codes
<1>6. /\ adm' = [adm EXCEPT ![p] = y] /\ failed' = failed \cup {f}
      /\ UNCHANGED <<disk, stamp, ledger, overlap>>
  BY <1>1, <1>4 DEF WriteFails, Current
<1>7. OneRow(adm, adm', p, y)
  BY <1>6, ExceptRow DEF CliInv
<1>8. failed' \subseteq Files
  BY <1>3, <1>6 DEF CliInv
<1>9. ASSUME NEW g \in Files \ overlap
      PROVE  InTurn(g, adm', disk[g], ledger[g], failed')
  <2>1. InTurn(g, adm, disk[g], ledger[g], failed)
    BY DEF CliInv
  <2>2. ~Works(y, g)
    BY <1>5 DEF Works
  <2>3. CASE g # f
    <3>1. ~Writes(adm[p], g)
      BY <1>1, <2>3 DEF Writes
    <3>2. InTurn(g, adm', disk[g], ledger[g], failed)
      BY <1>7, <2>1, <2>2, <3>1, Leaves
    <3>3. g \in failed' <=> g \in failed
      BY <1>6, <2>3
    <3> QED BY <3>2, <3>3 DEF InTurn
  <2>4. CASE g = f
    <3>1. Writes(adm[p], g) /\ g \in failed'
      BY <1>1, <1>2, <1>6, <2>4 DEF Writes
    <3> QED BY <1>7, <2>1, <2>2, <3>1, Drops
  <2> QED BY <2>3, <2>4
<1>10. DOMAIN adm' = Admins /\ \A q \in Admins : AdmRow(adm'[q])
  BY <1>5, <1>7, RowsKept
<1> QED BY <1>6, <1>8, <1>9, <1>10 DEF CliInv

LEMMA CliKeeps ==
    ASSUME CliInv, CliNext
    PROVE  CliInv'
<1>1. PICK p \in Admins : Run(p) \/ Load(p) \/ Truncate(p) \/ Write(p) \/ WriteFails(p)
  BY DEF CliNext
<1>2. CASE Run(p)
  BY <1>2, RunStarts, RunKeeps
<1>3. CASE Load(p)
  BY <1>3, LoadKeeps
<1>4. CASE Truncate(p)
  BY <1>4, TruncateKeeps
<1>5. CASE Write(p)
  BY <1>5, WriteKeeps
<1>6. CASE WriteFails(p)
  BY <1>6, WriteFailsKeeps
<1> QED BY <1>1, <1>2, <1>3, <1>4, <1>5, <1>6

LEMMA CliSame ==
    ASSUME CliInv, UNCHANGED cliVars
    PROVE  CliInv'
BY DEF CliInv, cliVars

LEMMA CliStart ==
    ASSUME CliInit
    PROVE  CliInv
<1>1. ASSUME NEW p \in Admins PROVE AdmRow(adm[p]) /\ adm[p].pc = "idle"
  <2>1. adm[p] = Idle("ok")
    BY DEF CliInit
  <2> QED BY <2>1, IdleRow
<1>2. \A p \in Admins : \A f : ~Works(adm[p], f) /\ ~Writes(adm[p], f)
  BY <1>1 DEF Works, Writes
<1>3. disk = InitDisk /\ DOMAIN disk = Files
  BY AdminAssumption DEF CliInit
<1>4. \A f \in Files : ledger[f] = LoadFile(f, disk[f])
  BY <1>3 DEF CliInit
<1>5. ASSUME NEW f \in Files PROVE Holds(f, disk[f])
  <2>1. CASE InitDisk[f] \in {Absent, Torn, Garbled}
    BY <1>3, <2>1 DEF Holds, Broken
  <2>2. CASE InitDisk[f] \notin {Absent, Torn, Garbled}
    <3>1. InitDisk[f] \subseteq Entries(f)
      BY <2>2 DEF Entries
    <3>2. f = "system" => SafeSystem(InitDisk[f])
      BY <2>2, AdminAssumption DEF SafeSystem
    <3> QED BY <1>3, <3>1, <3>2 DEF Holds, Sound
  <2> QED BY <2>1, <2>2
<1>6. \A f \in Files : InTurn(f, adm, disk[f], ledger[f], failed)
  BY <1>2, <1>4 DEF InTurn
<1>7. DOMAIN adm = Admins /\ DOMAIN ledger = Files /\ stamp \in [Files -> Nat]
      /\ overlap \subseteq Files /\ failed \subseteq Files
  BY DEF CliInit
<1> QED BY <1>1, <1>3, <1>5, <1>6, <1>7 DEF CliInv

-----------------------------------------------------------------------------
(* The steps of openscope-mcp *)

LEMMA McpKeeps ==
    ASSUME McpInv, McpNext
    PROVE  McpInv' /\ UNCHANGED cliVars
<1>1. UNCHANGED cliVars
  BY DEF McpNext, RefreshPolicy, RefreshTargets, NewCapabilityWatcher, Poll, ToolsList
<1>2. CASE RefreshPolicy
  BY <1>2 DEF RefreshPolicy, McpInv, Loaded
<1>3. CASE RefreshTargets
  BY <1>3 DEF RefreshTargets, McpInv, Loaded
<1>4. CASE NewCapabilityWatcher
  BY <1>4 DEF NewCapabilityWatcher, McpInv
<1>5. CASE Poll
  BY <1>5 DEF Poll, McpInv
<1>6. CASE ToolsList
  BY <1>6 DEF ToolsList, McpInv
<1> QED BY <1>1, <1>2, <1>3, <1>4, <1>5, <1>6 DEF McpNext

SurfaceInv == CliInv /\ McpInv

\* The invariant of the whole, on which both theorems rest: it holds at the start,
\* and every command, load, truncation, write, failed write and poll keeps it.
THEOREM Surface == Spec => []SurfaceInv
<1>1. Init => SurfaceInv
  <2> SUFFICES ASSUME Init PROVE SurfaceInv
    OBVIOUS
  <2>1. McpInv
    BY DEF Init, McpInit, McpInv
  <2> QED BY <2>1, CliStart DEF Init, SurfaceInv
<1>2. SurfaceInv /\ [Next]_vars => SurfaceInv'
  <2> SUFFICES ASSUME SurfaceInv, [Next]_vars PROVE SurfaceInv'
    OBVIOUS
  <2>1. CASE CliNext /\ UNCHANGED <<mcp, client, missed>>
    BY <2>1, CliKeeps DEF SurfaceInv, McpInv
  <2>2. CASE McpNext
    BY <2>2, McpKeeps, CliSame DEF SurfaceInv
  <2>3. CASE UNCHANGED vars
    BY <2>3, CliSame DEF SurfaceInv, McpInv, vars, cliVars
  <2> QED BY <2>1, <2>2, <2>3 DEF Next
<1> QED BY <1>1, <1>2, PTL DEF Spec

LEMMA InvConsistent ==
    ASSUME SurfaceInv
    PROVE  FilesConsistent
<1>1. CliInv /\ McpInv
  BY DEF SurfaceInv
<1>2. ASSUME NEW f \in Files, Contents(f)
      PROVE  Sound(f, disk[f]) /\ IsFiniteSet(disk[f]) /\ disk[f] # Torn /\ disk[f] # Refused
  <2>1. Holds(f, disk[f]) /\ disk[f] \notin Broken
    BY <1>1, <1>2 DEF CliInv, Contents, Broken
  <2>2. Sound(f, disk[f])
    BY <2>1 DEF Holds
  <2> QED BY <2>1, <2>2, NotBroken DEF Broken
<1>3. TypeOK
  <2>1. ASSUME NEW p \in Admins
        PROVE  /\ adm[p].pc \in {"idle", "load", "truncate", "write"}
               /\ adm[p].code \in {"ok", "running", "denied", "invalid", "notfound", "config"}
               /\ (adm[p].pc = "idle") <=> (adm[p].jobs = <<>>)
    BY <1>1 DEF CliInv, AdmRow, Codes, JobsOk
  <2>2. /\ DOMAIN disk = Files /\ stamp \in [Files -> Nat]
        /\ overlap \subseteq Files /\ failed \subseteq Files
    BY <1>1 DEF CliInv
  <2>3. /\ mcp.pc \in {"policy", "targets", "stamp", "poll"}
        /\ mcp.pc \in {"stamp", "poll"} => (mcp.booting <=> mcp.pc = "stamp")
    BY <1>1 DEF McpInv
  <2> QED BY <1>2, <2>1, <2>2, <2>3 DEF TypeOK
<1>4. SerialUnlessOverlap
  <2> SUFFICES ASSUME NEW f \in Files \ overlap, f \in Strict \/ f \notin failed, Contents(f)
               PROVE  disk[f] = ledger[f]
    BY DEF SerialUnlessOverlap
  <2>1. InTurn(f, adm, disk[f], ledger[f], failed)
    BY <1>1 DEF CliInv
  <2>2. \A p \in Admins : ~Writes(adm[p], f)
    BY <1>2, <2>1 DEF InTurn
  <2>3. LoadFile(f, disk[f]) = disk[f] /\ disk[f] # Refused
    BY <1>2, LoadSound
  <2> QED BY <2>1, <2>2, <2>3 DEF InTurn
<1>5. SudoManagersSafe
  <2> SUFFICES ASSUME Contents("system") PROVE SafeSystem(disk["system"])
    BY DEF SudoManagersSafe, SafeSystem
  <2>1. "system" \in Files
    BY DEF Files
  <2> QED BY <1>2, <2>1 DEF Sound
<1> QED BY <1>3, <1>4, <1>5 DEF FilesConsistent

LEMMA InvNarrows ==
    ASSUME SurfaceInv
    PROVE  RemovalNarrows
<1> SUFFICES ASSUME NEW p \in Admins, adm[p].pc \in {"truncate", "write"},
                    Current(p).op \in Removals
             PROVE  \/ Grants(Current(p).file, adm[p].held)
                            \subseteq Grants(Current(p).file, adm[p].base)
                    \/ Current(p).file = "mail" /\ adm[p].held = {}
  BY DEF RemovalNarrows
<1>1. PICK x, j : x = adm[p] /\ j = Current(p)
  OBVIOUS
<1>2. AdmRow(x) /\ j = Head(x.jobs)
  BY <1>1 DEF SurfaceInv, CliInv, Current
<1>3. JobOk(j)
  BY <1>1, <1>2, FirstJob DEF AdmRow
<1>4. Sound(j.file, x.base) /\ x.held = Update(j, x.base)
  BY <1>1, <1>2 DEF AdmRow
<1>5. \/ Grants(j.file, x.held) \subseteq Grants(j.file, x.base)
      \/ j.file = "mail" /\ x.held = {}
  BY <1>1, <1>3, <1>4, UpdateNarrows
<1> QED BY <1>1, <1>5

\* Commands that do not overlap act one after the other. A file that no two commands
\* have worked on at once, and that no failed write left empty where an empty file
\* loads, holds what the finished jobs make of it; and whatever overlaps or fails,
\* no unsafe manager comes to run under sudo.
THEOREM FilesSerial == Spec => []FilesConsistent
<1>1. SurfaceInv => FilesConsistent
  BY InvConsistent
<1> QED BY <1>1, Surface, PTL

\* What a removal saves lets through no call, sender, service or package that what
\* it loaded did not, except for the last sender domain.
THEOREM RemovalsNarrow == Spec => []RemovalNarrows
<1>1. SurfaceInv => RemovalNarrows
  BY InvNarrows
<1> QED BY <1>1, Surface, PTL

-----------------------------------------------------------------------------
(* The failure walk of a script *)

ObjectsOf(steps) == {steps[i].object : i \in DOMAIN steps} \ {""}

\* What a step does to the objects that are down.
Fall(down, e) ==
    CASE e.object = "" -> down
      [] e.object # "" /\ e.class \in {"stop", "delete"} -> [down EXCEPT ![e.object] = e.class]
      [] e.object # "" /\ e.class \in {"start", "recreate", "restart"} ->
            [down EXCEPT ![e.object] = ""]
      [] OTHER -> down

\* The recursion of failureWalk.
DownFcn(f, steps) ==
    f = [i \in 0..Len(steps) |->
            IF i = 0 THEN [o \in ObjectsOf(steps) |-> ""] ELSE Fall(f[i - 1], steps[i])]

LEMMA WalkDef ==
    ASSUME NEW steps
    PROVE  failureWalk(steps) =
               [i \in DOMAIN steps |-> {o \in ObjectsOf(steps) :
                    (CHOOSE f : DownFcn(f, steps))[i - 1][o] # ""}]
BY DEF failureWalk, DownFcn, Fall, ObjectsOf

\* What it leaves of one object.
After(e, o, was) ==
    IF e.object = o /\ e.class \in {"stop", "delete"} THEN e.class
    ELSE IF e.object = o /\ e.class \in {"start", "recreate", "restart"} THEN ""
    ELSE was

LEMMA FallRow ==
    ASSUME NEW O, NEW down \in [O -> {"", "stop", "delete"}], NEW e, e.object \in O \cup {""}
    PROVE  /\ Fall(down, e) \in [O -> {"", "stop", "delete"}]
           /\ \A o \in O : o # "" => Fall(down, e)[o] = After(e, o, down[o])
<1> USE DEF After
<1>1. CASE e.object = ""
  BY <1>1 DEF Fall
<1>2. CASE e.object # "" /\ e.class \in {"stop", "delete"}
  <2>1. Fall(down, e) = [down EXCEPT ![e.object] = e.class]
    BY <1>2 DEF Fall
  <2> QED BY <1>2, <2>1
<1>3. CASE e.object # "" /\ e.class \in {"start", "recreate", "restart"}
  <2>1. Fall(down, e) = [down EXCEPT ![e.object] = ""]
    BY <1>3 DEF Fall
  <2> QED BY <1>3, <2>1
<1>4. CASE e.object # "" /\ e.class \notin {"stop", "delete", "start", "recreate", "restart"}
  BY <1>4 DEF Fall
<1> QED BY <1>1, <1>2, <1>3, <1>4

LEMMA DownExists ==
    ASSUME NEW S, NEW steps \in Seq(S)
    PROVE  \E f : DownFcn(f, steps) /\ f \in [0..Len(steps) -> [ObjectsOf(steps) -> {"", "stop", "delete"}]]
<1> DEFINE O == ObjectsOf(steps)
           V == [O -> {"", "stop", "delete"}]
           m == Len(steps)
<1>1. m \in Nat /\ DOMAIN steps = 1..m
  OBVIOUS
<1>2. \A n \in 1..m : steps[n].object \in O \cup {""}
  BY <1>1 DEF ObjectsOf
<1>3. PICK s : s = [n \in 1..m |-> [d \in V |-> Fall(d, steps[n])]]
  OBVIOUS
<1> HIDE DEF O, m
<1>4. \A n \in 1..m : \A d \in V : Fall(d, steps[n]) \in V
  BY <1>2, FallRow
<1>5. PICK z : z = [o \in O |-> ""]
  OBVIOUS
<1>6. z \in V
  BY <1>5
<1> HIDE DEF V
<1>7. s \in [1..m -> [V -> V]]
  BY <1>3, <1>4
<1>8. PICK f : Follows(f, V, z, s, m)
  BY <1>1, <1>6, <1>7, RecursionExists
<1>9. ASSUME NEW n \in 0..m, n # 0 PROVE f[n] = Fall(f[n - 1], steps[n])
  <2>1. n \in 1..m /\ n - 1 \in 0..m
    BY <1>1, <1>9
  <2>2. f[n - 1] \in V /\ f[n] = s[n][f[n - 1]]
    BY <1>8, <2>1 DEF Follows
  <2> QED BY <1>3, <2>1, <2>2
<1>10. f \in [0..m -> V] /\ f[0] = z /\ f = [n \in 0..m |-> f[n]]
  BY <1>8 DEF Follows
<1>11. [n \in 0..m |-> f[n]] = [n \in 0..m |-> IF n = 0 THEN z ELSE Fall(f[n - 1], steps[n])]
  BY <1>9, <1>10
<1>12. DownFcn(f, steps)
  BY <1>5, <1>10, <1>11 DEF DownFcn, O, m
<1> QED BY <1>10, <1>12 DEF O, V, m

\* The steps so far that stop, delete or bring back an object, and whether the last
\* of them took it down.
Moved(steps, o, n) ==
    {i \in 1..n : /\ steps[i].object = o
                  /\ steps[i].class \in {"stop", "delete", "start", "recreate", "restart"}}
Out(steps, o, n) ==
    \E i \in Moved(steps, o, n) : /\ \A j \in Moved(steps, o, n) : j <= i
                                  /\ steps[i].class \in {"stop", "delete"}

LEMMA OutStep ==
    ASSUME NEW steps, NEW o, NEW n \in Nat, n # 0
    PROVE  Out(steps, o, n) <=>
               IF n \in Moved(steps, o, n) THEN steps[n].class \in {"stop", "delete"}
               ELSE Out(steps, o, n - 1)
<1>1. \A i \in 1..n : i = n \/ i \in 1..(n - 1)
  OBVIOUS
<1>2. n \in 1..n /\ \A i \in 1..(n - 1) : i \in 1..n
  OBVIOUS
<1>3. CASE n \in Moved(steps, o, n)
  <2>1. \A j \in Moved(steps, o, n) : j <= n /\ j \in Nat
    BY DEF Moved
  <2>2. \A i \in Moved(steps, o, n) : (\A j \in Moved(steps, o, n) : j <= i) => i = n
    BY <1>3, <2>1
  <2> QED BY <1>3, <2>1, <2>2 DEF Out
<1>4. CASE n \notin Moved(steps, o, n)
  <2>1. Moved(steps, o, n) = Moved(steps, o, n - 1)
    BY <1>1, <1>2, <1>4 DEF Moved
  <2> QED BY <1>4, <2>1 DEF Out
<1> QED BY <1>3, <1>4

\* At each step the walk names the objects whose last move so far took them down.
LEMMA WalkIsStranded ==
    ASSUME NEW S, NEW steps \in Seq(S), NEW n \in DOMAIN steps
    PROVE  failureWalk(steps)[n] = {o \in ObjectsOf(steps) : Out(steps, o, n - 1)}
<1> DEFINE O == ObjectsOf(steps)
           m == Len(steps)
<1>1. m \in Nat /\ DOMAIN steps = 1..m
  OBVIOUS
<1>2. PICK f : f = CHOOSE g : DownFcn(g, steps)
  OBVIOUS
<1>3. DownFcn(f, steps)
  BY <1>2, DownExists
<1>4. failureWalk(steps)[n] = {o \in O : f[n - 1][o] # ""}
  BY <1>2, WalkDef
<1>5. \A k \in 1..m : steps[k].object \in O \cup {""}
  BY <1>1 DEF ObjectsOf
<1>6. /\ f[0] = [o \in O |-> ""]
      /\ \A k \in 1..m : f[k] = Fall(f[k - 1], steps[k])
  <2>1. 0 \in 0..m /\ \A k \in 1..m : k \in 0..m /\ k # 0
    BY <1>1
  <2> QED BY <1>3, <2>1 DEF DownFcn
<1>7. "" \notin O
  BY DEF ObjectsOf
<1> HIDE DEF O, m
<1> DEFINE G == {k \in 0..m : /\ f[k] \in [O -> {"", "stop", "delete"}]
                              /\ \A o \in O : f[k][o] # "" <=> Out(steps, o, k)}
<1>8. 0 \in G
  <2>1. \A o : ~Out(steps, o, 0)
    BY DEF Out, Moved
  <2>2. f[0] \in [O -> {"", "stop", "delete"}]
    BY <1>6
  <2>3. \A o \in O : f[0][o] = ""
    BY <1>6
  <2>4. 0 \in 0..m
    BY <1>1
  <2> QED BY <2>1, <2>2, <2>3, <2>4
<1>9. ASSUME NEW k \in 1..m, k - 1 \in G PROVE k \in G
  <2>1. k \in 0..m /\ k \in Nat /\ k # 0
    BY <1>1
  <2>2. PICK d : d = f[k - 1]
    OBVIOUS
  <2>3. d \in [O -> {"", "stop", "delete"}] /\ \A o \in O : d[o] # "" <=> Out(steps, o, k - 1)
    BY <1>9, <2>2
  <2>4. steps[k].object \in O \cup {""}
    BY <1>5
  <2>5. /\ f[k] \in [O -> {"", "stop", "delete"}]
        /\ \A o \in O : o # "" => f[k][o] = After(steps[k], o, d[o])
    <3>1. PICK e : e = steps[k]
      OBVIOUS
    <3>2. f[k] = Fall(d, e) /\ e.object \in O \cup {""}
      BY <1>6, <2>2, <2>4, <3>1
    <3>3. /\ Fall(d, e) \in [O -> {"", "stop", "delete"}]
          /\ \A o \in O : o # "" => Fall(d, e)[o] = After(e, o, d[o])
      <4>1. d \in [O -> {"", "stop", "delete"}]
        BY <2>3
      <4>2. e.object \in O \cup {""}
        BY <3>2
      <4> QED BY ONLY <4>1, <4>2, FallRow
    <3> QED BY <3>1, <3>2, <3>3
  <2>6. ASSUME NEW o \in O PROVE f[k][o] # "" <=> Out(steps, o, k)
    <3>1. Out(steps, o, k) <=>
               IF k \in Moved(steps, o, k) THEN steps[k].class \in {"stop", "delete"}
               ELSE Out(steps, o, k - 1)
      BY <2>1, OutStep
    <3>2. k \in Moved(steps, o, k) <=>
            /\ steps[k].object = o
            /\ steps[k].class \in {"stop", "delete", "start", "recreate", "restart"}
      BY <2>1 DEF Moved
    <3>3. o # ""
      BY <1>7
    <3>4. f[k][o] = After(steps[k], o, d[o])
      BY <2>5, <3>3
    <3> QED BY <2>3, <3>1, <3>2, <3>4 DEF After
  <2> QED BY <2>1, <2>5, <2>6
<1>10. \A k \in 0..m : k \in G
  <2> HIDE DEF G
  <2> QED BY <1>1, <1>8, <1>9, UpTo
<1>11. n - 1 \in 0..m
  BY <1>1 DEF m
<1>12. \A o \in O : f[n - 1][o] # "" <=> Out(steps, o, n - 1)
  BY <1>10, <1>11
<1> QED BY <1>4, <1>12 DEF O

-----------------------------------------------------------------------------
(* Namespaces *)

LEMMA VerbIn ==
    ASSUME NEW space, NEW app, NEW a
    PROVE  <<app, a>> \in Verbs(space) <=> app \in DOMAIN space /\ a \in DOMAIN space[app].actions
<1> DEFINE P(x) == {x} \X DOMAIN space[x].actions
<1>1. Verbs(space) = UNION {P(x) : x \in DOMAIN space}
  BY DEF Verbs
<1>2. ASSUME NEW x PROVE <<app, a>> \in P(x) <=> x = app /\ a \in DOMAIN space[x].actions
  OBVIOUS
<1> HIDE DEF P
<1> QED BY <1>1, <1>2

LEMMA VerbParts ==
    ASSUME NEW space, NEW v \in Verbs(space)
    PROVE  v = <<v[1], v[2]>> /\ v[1] \in DOMAIN space /\ v[2] \in DOMAIN space[v[1]].actions
<1> DEFINE P(x) == {x} \X DOMAIN space[x].actions
<1>1. PICK x \in DOMAIN space : v \in P(x)
  BY DEF Verbs
<1>2. v = <<v[1], v[2]>> /\ v[1] = x /\ v[2] \in DOMAIN space[x].actions
  BY <1>1
<1> QED BY <1>2

\* What a merge leaves: the app is what it was, and an action is the overlay's or
\* the one that was there.
LEMMA Merged ==
    ASSUME NEW base, NEW over, IsDefinition(base), IsDefinition(over),
           NEW d, d = Merge(base, over), d # Conflict
    PROVE  /\ IsDefinition(d) /\ d.exec = base.exec /\ d.exec = over.exec
           /\ d.bundled = base.bundled /\ d.mode = base.mode /\ d.mode = over.mode
           /\ DOMAIN d.actions = DOMAIN over.actions \cup DOMAIN base.actions
           /\ \A a \in DOMAIN over.actions : d.actions[a] = over.actions[a]
           /\ \A a \in DOMAIN base.actions \ DOMAIN over.actions : d.actions[a] = base.actions[a]
<1>1. PICK A : A = [a \in DOMAIN over.actions \cup DOMAIN base.actions |->
                        IF a \in DOMAIN over.actions THEN over.actions[a] ELSE base.actions[a]]
  OBVIOUS
<1>2. /\ DOMAIN A = DOMAIN over.actions \cup DOMAIN base.actions
      /\ \A a \in DOMAIN over.actions : A[a] = over.actions[a]
      /\ \A a \in DOMAIN base.actions \ DOMAIN over.actions : A[a] = base.actions[a]
  BY <1>1
<1>3. over.exec = base.exec /\ over.mode = base.mode /\ d = [base EXCEPT !.actions = A]
  BY <1>1 DEF Merge
<1>4. DOMAIN base = {"exec", "mode", "bundled", "actions"}
  BY DEF IsDefinition
<1>5. /\ DOMAIN d = DOMAIN base /\ d.actions = A /\ d.exec = base.exec
      /\ d.mode = base.mode /\ d.bundled = base.bundled
  BY <1>3, <1>4
<1>6. ASSUME NEW a \in DOMAIN A
      PROVE  DOMAIN A[a] = {"cmd", "root", "verify", "impact", "params"}
  BY <1>2, <1>6 DEF IsDefinition
<1> QED BY <1>2, <1>3, <1>4, <1>5, <1>6 DEF IsDefinition

\* Where an app, and an action, of a merged namespace come from.
MergeOf(M, dst, over) ==
    /\ DOMAIN M = DOMAIN dst \cup DOMAIN over
    /\ \A app \in DOMAIN dst \ DOMAIN over : M[app] = dst[app]
    /\ \A app \in DOMAIN over \ DOMAIN dst : M[app] = over[app]
    /\ \A app \in DOMAIN dst \cap DOMAIN over :
          M[app] = Merge(dst[app], over[app]) /\ M[app] # Conflict

LEMMA MergedFit ==
    ASSUME NEW dst, NEW over, IsNamespace(dst), IsNamespace(over),
           \A app \in DOMAIN dst \cap DOMAIN over : Merge(dst[app], over[app]) # Conflict,
           NEW M, M = MergeInto(dst, over)
    PROVE  IsNamespace(M) /\ MergeOf(M, dst, over)
<1> DEFINE Both == DOMAIN dst \cap DOMAIN over
<1>1. \A app \in Both : Merge(dst[app], over[app]) # Conflict
  OBVIOUS
<1>2. M = [app \in DOMAIN dst \cup DOMAIN over |->
                IF app \in Both THEN Merge(dst[app], over[app])
                ELSE IF app \in DOMAIN dst THEN dst[app] ELSE over[app]]
  BY <1>1 DEF MergeInto
<1>3. DOMAIN M = DOMAIN dst \cup DOMAIN over
  BY <1>2
<1>4. /\ \A app \in DOMAIN dst \ DOMAIN over : M[app] = dst[app]
      /\ \A app \in DOMAIN over \ DOMAIN dst : M[app] = over[app]
      /\ \A app \in Both : M[app] = Merge(dst[app], over[app])
  BY <1>2
<1>5. ASSUME NEW app \in DOMAIN M PROVE IsDefinition(M[app])
  <2>1. CASE app \in Both
    <3>1. IsDefinition(dst[app]) /\ IsDefinition(over[app])
      BY <2>1 DEF IsNamespace
    <3> QED BY <1>1, <1>4, <2>1, <3>1, Merged
  <2>2. CASE app \notin Both
    BY <1>3, <1>4, <1>5, <2>2 DEF IsNamespace
  <2> QED BY <2>1, <2>2
<1> QED BY <1>1, <1>3, <1>4, <1>5 DEF IsNamespace, MergeOf

LEMMA MergedSpace ==
    ASSUME NEW dst, NEW over, IsNamespace(dst), IsNamespace(over),
           NEW M, M = MergeInto(dst, over), M # Conflict
    PROVE  IsNamespace(M) /\ MergeOf(M, dst, over)
<1>1. \A app \in DOMAIN dst \cap DOMAIN over : Merge(dst[app], over[app]) # Conflict
  BY DEF MergeInto
<1> QED BY <1>1, MergedFit

LEMMA MergedVerb ==
    ASSUME NEW dst, NEW over, IsNamespace(dst), IsNamespace(over),
           NEW M, M = MergeInto(dst, over), M # Conflict,
           NEW app \in DOMAIN M, NEW a \in DOMAIN M[app].actions
    PROVE  \/ /\ app \in DOMAIN over /\ a \in DOMAIN over[app].actions
              /\ M[app].exec = over[app].exec /\ M[app].actions[a] = over[app].actions[a]
           \/ /\ app \in DOMAIN dst /\ a \in DOMAIN dst[app].actions
              /\ M[app].exec = dst[app].exec /\ M[app].actions[a] = dst[app].actions[a]
              /\ app \notin DOMAIN over \/ a \notin DOMAIN over[app].actions
<1>0. MergeOf(M, dst, over)
  BY MergedSpace
<1>1. CASE app \in DOMAIN dst \cap DOMAIN over
  <2>1. M[app] = Merge(dst[app], over[app]) /\ M[app] # Conflict
    BY <1>0, <1>1 DEF MergeOf
  <2>2. IsDefinition(dst[app]) /\ IsDefinition(over[app])
    BY <1>1 DEF IsNamespace
  <2>3. PICK d : d = M[app]
    OBVIOUS
  <2>4. /\ d.exec = dst[app].exec /\ d.exec = over[app].exec
        /\ DOMAIN d.actions = DOMAIN over[app].actions \cup DOMAIN dst[app].actions
        /\ \A x \in DOMAIN over[app].actions : d.actions[x] = over[app].actions[x]
        /\ \A x \in DOMAIN dst[app].actions \ DOMAIN over[app].actions :
                d.actions[x] = dst[app].actions[x]
    BY <2>1, <2>2, <2>3, Merged
  <2> QED BY <1>1, <2>3, <2>4
<1>2. CASE app \notin DOMAIN dst \cap DOMAIN over
  BY <1>0, <1>2 DEF MergeOf
<1> QED BY <1>1, <1>2

\* The layers below the registry, and what the loader makes of the registry.
UserLayer(dir) ==
    LET kept == [app \in DOMAIN dir |->
                    IF SystemMode THEN withoutCommandActions(dir[app]) ELSE dir[app]]
    IN  Keep(kept, {app \in DOMAIN kept : DOMAIN kept[app].actions # {}})

LEMMA AssembleDef ==
    ASSUME NEW dir, NEW reg
    PROVE  AssembleDefinitions(dir, reg) =
               IF MergeInto(Bundled, UserLayer(dir)) = Conflict THEN Conflict
               ELSE MergeInto(MergeInto(Bundled, UserLayer(dir)), LoadAppliedFile(reg))
BY DEF AssembleDefinitions, UserLayer

LEMMA WithoutCommands ==
    ASSUME NEW d, IsDefinition(d), NEW e, e = withoutCommandActions(d)
    PROVE  /\ IsDefinition(e) /\ e.exec = d.exec /\ DOMAIN e.actions \subseteq DOMAIN d.actions
           /\ \A a \in DOMAIN e.actions : e.actions[a] = d.actions[a] /\ e.actions[a].cmd = NoCommand
<1>1. PICK A : A = Keep(d.actions, {a \in DOMAIN d.actions : d.actions[a].cmd = NoCommand})
  OBVIOUS
<1>2. e = [d EXCEPT !.actions = A]
  BY <1>1 DEF withoutCommandActions
<1>3. DOMAIN d = {"exec", "mode", "bundled", "actions"}
  BY DEF IsDefinition
<1>4. DOMAIN e = DOMAIN d /\ e.actions = A /\ e.exec = d.exec
  BY <1>2, <1>3
<1>5. /\ DOMAIN A = {a \in DOMAIN d.actions : d.actions[a].cmd = NoCommand}
      /\ \A a \in DOMAIN A : A[a] = d.actions[a]
  BY <1>1 DEF Keep
<1> QED BY <1>3, <1>4, <1>5 DEF IsDefinition

LEMMA UserSpace ==
    ASSUME NEW dir, IsNamespace(dir)
    PROVE  /\ IsNamespace(UserLayer(dir))
           /\ SystemMode => \A app \in DOMAIN UserLayer(dir) :
                \A a \in DOMAIN UserLayer(dir)[app].actions :
                    UserLayer(dir)[app].actions[a].cmd = NoCommand
<1>1. PICK kept : kept = [app \in DOMAIN dir |->
                    IF SystemMode THEN withoutCommandActions(dir[app]) ELSE dir[app]]
  OBVIOUS
<1>2. PICK U : U = Keep(kept, {app \in DOMAIN kept : DOMAIN kept[app].actions # {}})
  OBVIOUS
<1>3. UserLayer(dir) = U
  BY <1>1, <1>2 DEF UserLayer
<1>4. DOMAIN U \subseteq DOMAIN dir
  BY <1>1, <1>2 DEF Keep
<1>5. ASSUME NEW app \in DOMAIN U
      PROVE  U[app] = IF SystemMode THEN withoutCommandActions(dir[app]) ELSE dir[app]
  BY <1>1, <1>2, <1>4, <1>5 DEF Keep
<1>6. ASSUME NEW app \in DOMAIN U
      PROVE  /\ IsDefinition(U[app])
             /\ SystemMode => \A a \in DOMAIN U[app].actions : U[app].actions[a].cmd = NoCommand
  <2>1. IsDefinition(dir[app])
    BY <1>4, <1>6 DEF IsNamespace
  <2>2. CASE SystemMode
    BY <1>5, <1>6, <2>1, <2>2, WithoutCommands
  <2>3. CASE ~SystemMode
    BY <1>5, <1>6, <2>1, <2>3
  <2> QED BY <2>2, <2>3
<1> QED BY <1>3, <1>6 DEF IsNamespace

AppliedEntry(e, d) ==
    /\ e.exec = d.exec /\ e.bundled = d.bundled /\ e.mode = d.mode
    /\ DOMAIN e.actions = DOMAIN d.actions
    /\ \A a \in DOMAIN d.actions : /\ e.actions[a] = [d.actions[a] EXCEPT !.root = TRUE]
                                   /\ e.actions[a].cmd = d.actions[a].cmd
                                   /\ e.actions[a].root

LEMMA AppliedSpace ==
    ASSUME NEW reg, IsNamespace(reg), NEW L, L = LoadAppliedFile(reg)
    PROVE  /\ IsNamespace(L) /\ DOMAIN L = DOMAIN reg
           /\ \A app \in DOMAIN reg : AppliedEntry(L[app], reg[app])
<1>1. DOMAIN L = DOMAIN reg
  BY DEF LoadAppliedFile
<1>2. ASSUME NEW app \in DOMAIN reg
      PROVE  /\ IsDefinition(L[app]) /\ L[app].exec = reg[app].exec
             /\ L[app].bundled = reg[app].bundled /\ L[app].mode = reg[app].mode
             /\ DOMAIN L[app].actions = DOMAIN reg[app].actions
             /\ \A a \in DOMAIN reg[app].actions :
                    /\ L[app].actions[a] = [reg[app].actions[a] EXCEPT !.root = TRUE]
                    /\ L[app].actions[a].cmd = reg[app].actions[a].cmd
                    /\ L[app].actions[a].root
  <2>1. PICK d, e : d = reg[app] /\ e = L[app]
    OBVIOUS
  <2>2. IsDefinition(d)
    BY <2>1 DEF IsNamespace
  <2>3. PICK A : A = [a \in DOMAIN d.actions |-> [d.actions[a] EXCEPT !.root = TRUE]]
    OBVIOUS
  <2>4. e = [d EXCEPT !.actions = A]
    BY <2>1, <2>3 DEF LoadAppliedFile
  <2>5. DOMAIN d = {"exec", "mode", "bundled", "actions"}
    BY <2>2 DEF IsDefinition
  <2>6. DOMAIN e = DOMAIN d /\ e.actions = A /\ e.exec = d.exec /\ e.bundled = d.bundled
        /\ e.mode = d.mode
    BY <2>4, <2>5
  <2>7. ASSUME NEW a \in DOMAIN d.actions
        PROVE  /\ A[a] = [d.actions[a] EXCEPT !.root = TRUE]
               /\ DOMAIN A[a] = {"cmd", "root", "verify", "impact", "params"}
               /\ A[a].cmd = d.actions[a].cmd /\ A[a].root
    <3>1. DOMAIN d.actions[a] = {"cmd", "root", "verify", "impact", "params"}
      BY <2>2, <2>7 DEF IsDefinition
    <3> QED BY <2>3, <3>1
  <2>8. DOMAIN A = DOMAIN d.actions
    BY <2>3
  <2> QED BY <2>1, <2>5, <2>6, <2>7, <2>8 DEF IsDefinition
<1>3. \A app \in DOMAIN reg : AppliedEntry(L[app], reg[app])
  BY <1>2 DEF AppliedEntry
<1> QED BY <1>1, <1>2, <1>3 DEF IsNamespace

-----------------------------------------------------------------------------
(* The registry *)

\* An app of the registry has an action, and each of them came from a proposal
\* and has the shape its executor asks for.
VerbOk(app, exec, a, cmd) ==
    (\E p \in Proposals : <<app, a>> \in Verbs(p.aadd)) /\ Shaped(exec, cmd)

EntryOk(app, d) ==
    /\ IsDefinition(d) /\ DOMAIN d.actions # {}
    /\ \A a \in DOMAIN d.actions : VerbOk(app, d.exec, a, d.actions[a].cmd)

RegOk(reg) == \A app \in DOMAIN reg : EntryOk(app, reg[app])

LEMMA RegSpace ==
    ASSUME NEW reg, RegOk(reg)
    PROVE  IsNamespace(reg)
BY DEF RegOk, EntryOk, IsNamespace

LEMMA RemovedOk ==
    ASSUME NEW reg, RegOk(reg), NEW ref
    PROVE  RegOk(RemoveDefinitionAction(reg, ref))
<1>1. PICK left : left = IF ref.app \in DOMAIN reg /\ ref.action # ""
                         THEN DOMAIN reg[ref.app].actions \ {ref.action} ELSE {}
  OBVIOUS
<1>2. PICK new : new = RemoveDefinitionAction(reg, ref)
  OBVIOUS
<1>3. CASE ref.app \notin DOMAIN reg
  BY <1>3 DEF RemoveDefinitionAction
<1>4. CASE ref.app \in DOMAIN reg /\ left = {}
  <2>1. new = Keep(reg, DOMAIN reg \ {ref.app})
    BY <1>1, <1>2, <1>4 DEF RemoveDefinitionAction
  <2> QED BY <1>2, <2>1 DEF Keep, RegOk
<1>5. CASE ref.app \in DOMAIN reg /\ left # {}
  <2>1. PICK d, app : app = ref.app /\ d = reg[app]
    OBVIOUS
  <2>2. PICK A : A = Keep(d.actions, left)
    OBVIOUS
  <2>3. PICK e : e = [d EXCEPT !.actions = A]
    OBVIOUS
  <2>4. new = [reg EXCEPT ![app] = e]
    <3>1. new = [reg EXCEPT ![ref.app].actions = Keep(@, left)]
      BY <1>1, <1>2, <1>5 DEF RemoveDefinitionAction
    <3> QED BY <2>1, <2>2, <2>3, <3>1
  <2>5. app \in DOMAIN reg /\ EntryOk(app, d)
    BY <1>5, <2>1 DEF RegOk
  <2>6. left \subseteq DOMAIN d.actions /\ left # {}
    BY <1>1, <1>5, <2>1
  <2>7. DOMAIN A = left /\ \A a \in left : A[a] = d.actions[a]
    BY <2>2 DEF Keep
  <2>8. DOMAIN d = {"exec", "mode", "bundled", "actions"}
    BY <2>5 DEF EntryOk, IsDefinition
  <2>9. DOMAIN e = DOMAIN d /\ e.actions = A /\ e.exec = d.exec
    BY <2>3, <2>8
  <2>10. EntryOk(app, e)
    BY <2>5, <2>6, <2>7, <2>9 DEF EntryOk, IsDefinition
  <2>11. DOMAIN new = DOMAIN reg /\ new[app] = e /\ \A x \in DOMAIN reg : x # app => new[x] = reg[x]
    BY <2>4, <2>5
  <2> QED BY <1>2, <2>10, <2>11 DEF RegOk
<1> QED BY <1>3, <1>4, <1>5

\* The removals of a proposal, one after the other.
Removal(f, list, order, m) ==
    f = [n \in 0..m |-> IF n = 0 THEN list ELSE RemoveDefinitionAction(f[n - 1], order[n])]

LEMMA RemovalDef ==
    ASSUME NEW list, NEW refs, NEW order, order = SetToSeq(refs)
    PROVE  RemoveDefinitionActions(list, refs) =
               (CHOOSE f : Removal(f, list, order, Len(order)))[Len(order)]
BY DEF RemoveDefinitionActions, Removal

LEMMA RemovalExists ==
    ASSUME NEW list, NEW order, NEW m \in Nat
    PROVE  \E f : Removal(f, list, order, m)
<1> DEFINE G == {n \in 0..m : \E f : Removal(f, list, order, n)}
<1>1. 0 \in G
  <2>1. PICK f : f = [n \in 0..0 |-> list]
    OBVIOUS
  <2>2. [n \in 0..0 |-> list] =
            [n \in 0..0 |-> IF n = 0 THEN list ELSE RemoveDefinitionAction(f[n - 1], order[n])]
    OBVIOUS
  <2>3. Removal(f, list, order, 0)
    BY <2>1, <2>2 DEF Removal
  <2> QED BY <2>3
<1>2. ASSUME NEW n \in 1..m, n - 1 \in G PROVE n \in G
  <2>1. PICK f : Removal(f, list, order, n - 1)
    BY <1>2
  <2>2. PICK g : g = [k \in 0..n |-> IF k = n THEN RemoveDefinitionAction(f[n - 1], order[n]) ELSE f[k]]
    OBVIOUS
  <2>3. \A k \in 0..(n - 1) :
            g[k] = f[k]
            /\ f[k] = IF k = 0 THEN list ELSE RemoveDefinitionAction(f[k - 1], order[k])
    BY <2>1, <2>2 DEF Removal
  <2>4. ASSUME NEW k \in 0..n
        PROVE  g[k] = IF k = 0 THEN list ELSE RemoveDefinitionAction(g[k - 1], order[k])
    <3>1. CASE k = n
      <4>1. g[n - 1] = f[n - 1]
        BY <2>3
      <4> QED BY <2>2, <3>1, <4>1
    <3>2. CASE k # n /\ k # 0
      <4>1. k \in 0..(n - 1) /\ k - 1 \in 0..(n - 1)
        BY <3>2
      <4> QED BY <2>3, <3>2, <4>1
    <3>3. CASE k # n /\ k = 0
      BY <2>3, <3>3
    <3> QED BY <3>1, <3>2, <3>3
  <2>5. g = [k \in 0..n |-> g[k]]
    BY <2>2
  <2>6. [k \in 0..n |-> g[k]] =
            [k \in 0..n |-> IF k = 0 THEN list ELSE RemoveDefinitionAction(g[k - 1], order[k])]
    BY <2>4
  <2>7. Removal(g, list, order, n)
    BY <2>5, <2>6 DEF Removal
  <2> QED BY <2>7
<1>3. \A n \in 0..m : n \in G
  <2> HIDE DEF G
  <2> QED BY <1>1, <1>2, UpTo
<1>4. m \in G
  BY <1>3
<1> QED BY <1>4

LEMMA RemovalsOk ==
    ASSUME NEW reg, RegOk(reg), NEW refs, IsFiniteSet(refs)
    PROVE  RegOk(RemoveDefinitionActions(reg, refs))
<1>1. PICK order, m : order = SetToSeq(refs) /\ m = Len(order)
  OBVIOUS
<1>2. m \in Nat
  BY <1>1, ListOfSet
<1>3. PICK f : f = CHOOSE g : Removal(g, reg, order, m)
  OBVIOUS
<1>4. Removal(f, reg, order, m)
  BY <1>2, <1>3, RemovalExists
<1>5. \A n \in 0..m : f[n] = IF n = 0 THEN reg ELSE RemoveDefinitionAction(f[n - 1], order[n])
  BY <1>4 DEF Removal
<1> DEFINE G == {n \in 0..m : RegOk(f[n])}
<1>6. 0 \in G
  BY <1>2, <1>5
<1>7. ASSUME NEW n \in 1..m, n - 1 \in G PROVE n \in G
  <2>1. n \in 0..m /\ n # 0 /\ RegOk(f[n - 1])
    BY <1>2, <1>7
  <2> QED BY <1>5, <2>1, RemovedOk
<1>8. \A n \in 0..m : n \in G
  <2> HIDE DEF G
  <2> QED BY <1>2, <1>6, <1>7, UpTo
<1>9. RegOk(f[m])
  BY <1>2, <1>8
<1> QED BY <1>1, <1>3, <1>9, RemovalDef

LEMMA MergeOk ==
    ASSUME NEW reg, RegOk(reg), NEW add, RegOk(add), NEW new, new = MergeInto(reg, add),
           new # Conflict
    PROVE  RegOk(new)
<1>1. IsNamespace(reg) /\ IsNamespace(add)
  BY RegSpace
<1>2. IsNamespace(new) /\ MergeOf(new, reg, add)
  BY <1>1, MergedSpace
<1>3. ASSUME NEW app \in DOMAIN new PROVE EntryOk(app, new[app])
  <2>1. CASE app \in DOMAIN reg \cap DOMAIN add
    <3>1. PICK d, b, o : d = new[app] /\ b = reg[app] /\ o = add[app]
      OBVIOUS
    <3>2. EntryOk(app, b) /\ EntryOk(app, o) /\ d = Merge(b, o) /\ d # Conflict
      BY <1>2, <2>1, <3>1 DEF RegOk, MergeOf
    <3>3. IsDefinition(b) /\ IsDefinition(o)
      BY <3>2 DEF EntryOk
    <3>4. /\ IsDefinition(d) /\ d.exec = b.exec /\ d.exec = o.exec
          /\ DOMAIN d.actions = DOMAIN o.actions \cup DOMAIN b.actions
          /\ \A a \in DOMAIN o.actions : d.actions[a] = o.actions[a]
          /\ \A a \in DOMAIN b.actions \ DOMAIN o.actions : d.actions[a] = b.actions[a]
      BY <3>2, <3>3, Merged
    <3>5. ASSUME NEW a \in DOMAIN d.actions PROVE VerbOk(app, d.exec, a, d.actions[a].cmd)
      <4>1. CASE a \in DOMAIN o.actions
        BY <3>2, <3>4, <4>1 DEF EntryOk
      <4>2. CASE a \in DOMAIN b.actions \ DOMAIN o.actions
        BY <3>2, <3>4, <4>2 DEF EntryOk
      <4> QED BY <3>4, <4>1, <4>2
    <3>6. DOMAIN d.actions # {}
      BY <3>2, <3>4 DEF EntryOk
    <3> QED BY <3>1, <3>4, <3>5, <3>6 DEF EntryOk
  <2>2. CASE app \notin DOMAIN reg \cap DOMAIN add
    BY <1>2, <2>2 DEF RegOk, MergeOf
  <2> QED BY <2>1, <2>2
<1> QED BY <1>3 DEF RegOk

-----------------------------------------------------------------------------
(* What a plan without a blocking finding has seen of the verbs *)

\* The executor a verb is judged by, and the findings of one verb.
Judged(p, eff, app) == IF app \in DOMAIN eff THEN eff[app].exec ELSE p.aadd[app].exec

VerbFindings(exec, c, v) ==
    CASE exec = "system" ->
            When(systemPassthrough(c), "SYS-SHELL-PASSTHROUGH", "high", v)
            \cup When(~systemPassthrough(c) /\ systemSelfGovern(c), "SYS-SELF-GOVERN", "high", v)
      [] exec = "ssm" -> When(shellPassthrough(c), "SSM-RUNSHELL-ARBITRARY", "high", v)
      [] OTHER -> When(shellPassthrough(c), "SSH-SHELL-PASSTHROUGH", "high", v)

LEMMA PassthroughDef ==
    ASSUME NEW p, NEW eff
    PROVE  passthroughFindings(p, eff) =
               UNION {VerbFindings(Judged(p, eff, v[1]), p.aadd[v[1]].actions[v[2]].cmd, v) :
                        v \in Verbs(p.aadd)}
BY DEF passthroughFindings, VerbFindings, Judged

RunnerIds == {"SSH-SHELL-PASSTHROUGH", "SYS-SHELL-PASSTHROUGH", "SSM-RUNSHELL-ARBITRARY",
           "SYS-SELF-GOVERN"}

LEMMA VerbFound ==
    ASSUME NEW exec, NEW c, NEW v, ~Shaped(exec, c)
    PROVE  \E f \in VerbFindings(exec, c, v) : f.id \in RunnerIds
<1> USE DEF RunnerIds, When, Finding
<1>1. CASE exec = "system" /\ systemPassthrough(c)
  <2>1. Finding("SYS-SHELL-PASSTHROUGH", "high", v) \in VerbFindings(exec, c, v)
    BY <1>1 DEF VerbFindings
  <2> QED BY <2>1
<1>2. CASE exec = "system" /\ ~systemPassthrough(c)
  <2>1. systemSelfGovern(c)
    BY <1>2 DEF Shaped
  <2>2. Finding("SYS-SELF-GOVERN", "high", v) \in VerbFindings(exec, c, v)
    BY <1>2, <2>1 DEF VerbFindings
  <2> QED BY <2>2
<1>3. CASE exec = "ssm"
  <2>1. shellPassthrough(c)
    BY <1>3 DEF Shaped
  <2>2. Finding("SSM-RUNSHELL-ARBITRARY", "high", v) \in VerbFindings(exec, c, v)
    BY <1>3, <2>1 DEF VerbFindings
  <2> QED BY <2>2
<1>4. CASE exec \notin {"system", "ssm"}
  <2>1. shellPassthrough(c)
    BY <1>4 DEF Shaped
  <2>2. Finding("SSH-SHELL-PASSTHROUGH", "high", v) \in VerbFindings(exec, c, v)
    BY <1>4, <2>1 DEF VerbFindings
  <2> QED BY <2>2
<1> QED BY <1>1, <1>2, <1>3, <1>4

\* The namespace a plan looks at, when no app of the proposal conflicts with it.
Fit(p, loaded) ==
    \A app \in DOMAIN p.aadd \cap DOMAIN loaded : Merge(loaded[app], p.aadd[app]) # Conflict

Added(p, loaded) ==
    MergeInto(loaded, Keep(p.aadd, {app \in DOMAIN p.aadd :
                        app \notin DOMAIN loaded \/ Merge(loaded[app], p.aadd[app]) # Conflict}))

Gone(p, app, a) == [app |-> app, action |-> a] \in p.aremove

Trimmed(p, app, d) ==
    [d EXCEPT !.actions = Keep(@, {a \in DOMAIN @ : ~Gone(p, app, a)})]

TrimOf(eff, added, p) ==
    /\ DOMAIN eff = {app \in DOMAIN added : ~Gone(p, app, "")}
    /\ \A app \in DOMAIN eff : eff[app] = Trimmed(p, app, added[app])

LEMMA EffectiveDef ==
    ASSUME NEW p, NEW loaded, NEW added, added = Added(p, loaded),
           NEW eff, eff = EffectiveDefs(p, loaded)
    PROVE  TrimOf(eff, added, p)
<1>1. eff = [app \in {a \in DOMAIN added : ~Gone(p, a, "")} |-> Trimmed(p, app, added[app])]
  BY DEF EffectiveDefs, Added, Gone, Trimmed
<1> QED BY <1>1 DEF TrimOf

TrimPart(e, d, p, app) ==
    /\ \A a : a \in DOMAIN e.actions <=> a \in DOMAIN d.actions /\ ~Gone(p, app, a)
    /\ \A a \in DOMAIN e.actions : e.actions[a] = d.actions[a]

LEMMA TrimmedParts ==
    ASSUME NEW p, NEW app, NEW d, IsDefinition(d), NEW e, e = Trimmed(p, app, d)
    PROVE  IsDefinition(e) /\ e.exec = d.exec /\ TrimPart(e, d, p, app)
<1>1. PICK A : A = Keep(d.actions, {a \in DOMAIN d.actions : ~Gone(p, app, a)})
  OBVIOUS
<1>2. e = [d EXCEPT !.actions = A]
  BY <1>1 DEF Trimmed
<1>3. DOMAIN d = {"exec", "mode", "bundled", "actions"}
  BY DEF IsDefinition
<1>4. DOMAIN e = DOMAIN d /\ e.actions = A /\ e.exec = d.exec
  BY <1>2, <1>3
<1>5. /\ DOMAIN A = {a \in DOMAIN d.actions : ~Gone(p, app, a)}
      /\ \A a \in DOMAIN A : A[a] = d.actions[a]
  BY <1>1 DEF Keep
<1> QED BY <1>3, <1>4, <1>5 DEF IsDefinition, TrimPart

LEMMA AddedSpace ==
    ASSUME NEW p, IsNamespace(p.aadd), NEW loaded, IsNamespace(loaded), Fit(p, loaded),
           NEW added, added = Added(p, loaded)
    PROVE  IsNamespace(added) /\ MergeOf(added, loaded, p.aadd)
<1>1. PICK K : K = Keep(p.aadd, {app \in DOMAIN p.aadd :
                        app \notin DOMAIN loaded \/ Merge(loaded[app], p.aadd[app]) # Conflict})
  OBVIOUS
<1>2. DOMAIN K = DOMAIN p.aadd /\ \A app \in DOMAIN K : K[app] = p.aadd[app]
  BY <1>1 DEF Keep, Fit
<1>3. IsNamespace(K)
  BY <1>2 DEF IsNamespace
<1>4. \A app \in DOMAIN loaded \cap DOMAIN K : Merge(loaded[app], K[app]) # Conflict
  BY <1>2 DEF Fit
<1>5. added = MergeInto(loaded, K)
  BY <1>1 DEF Added
<1>6. IsNamespace(added) /\ MergeOf(added, loaded, K)
  BY <1>3, <1>4, <1>5, MergedFit
<1> QED BY <1>2, <1>6 DEF MergeOf

LEMMA SameExec ==
    ASSUME NEW p, IsNamespace(p.aadd), NEW loaded, IsNamespace(loaded), Fit(p, loaded),
           NEW app \in DOMAIN p.aadd
    PROVE  Judged(p, EffectiveDefs(p, loaded), app) = p.aadd[app].exec
<1>1. PICK added, eff : added = Added(p, loaded) /\ eff = EffectiveDefs(p, loaded)
  OBVIOUS
<1>2. IsNamespace(added) /\ MergeOf(added, loaded, p.aadd)
  BY <1>1, AddedSpace
<1>3. CASE app \notin DOMAIN eff
  BY <1>1, <1>3 DEF Judged
<1>4. CASE app \in DOMAIN eff
  <2>1. app \in DOMAIN added /\ eff[app] = Trimmed(p, app, added[app])
    <3>1. TrimOf(eff, added, p)
      BY <1>1, EffectiveDef
    <3> QED BY <1>4, <3>1 DEF TrimOf
  <2>2. PICK d : d = added[app]
    OBVIOUS
  <2>3. IsDefinition(d)
    BY <1>2, <2>1, <2>2 DEF IsNamespace
  <2>6. eff[app].exec = d.exec
    BY <2>1, <2>2, <2>3, TrimmedParts
  <2>7. d.exec = p.aadd[app].exec
    <3>1. CASE app \in DOMAIN loaded
      <4>1. PICK b, o : b = loaded[app] /\ o = p.aadd[app]
        OBVIOUS
      <4>2. d = Merge(b, o) /\ d # Conflict /\ IsDefinition(b) /\ IsDefinition(o)
        BY <1>2, <2>2, <3>1, <4>1 DEF MergeOf, IsNamespace
      <4> QED BY <4>1, <4>2, Merged
    <3>2. CASE app \notin DOMAIN loaded
      BY <1>2, <2>2, <3>2 DEF MergeOf
    <3> QED BY <3>1, <3>2
  <2> QED BY <1>1, <1>4, <2>6, <2>7 DEF Judged
<1> QED BY <1>3, <1>4

LEMMA Reviewed ==
    ASSUME NEW p \in Proposals, NEW live, NEW loaded, IsNamespace(loaded),
           Blocking(Analyze(p, live, loaded)) = {}
    PROVE  Fit(p, loaded) /\ RegOk(p.aadd)
<1>1. PICK eff : eff = EffectiveDefs(p, loaded)
  OBVIOUS
<1>2. PICK F : F = Analyze(p, live, loaded)
  OBVIOUS
<1>3. conflictFindings(p, loaded) \subseteq F /\ passthroughFindings(p, eff) \subseteq F
  BY <1>1, <1>2 DEF Analyze
<1>4. \A f \in F : ~isBlocking(f)
  BY <1>2 DEF Blocking
<1>5. IsNamespace(p.aadd) /\ ValidProposal(p)
  BY ReviewAssumption
<1>6. Fit(p, loaded)
  <2>1. SUFFICES ASSUME NEW app \in DOMAIN p.aadd \cap DOMAIN loaded,
                        Merge(loaded[app], p.aadd[app]) = Conflict
                 PROVE  FALSE
    BY DEF Fit
  <2>2. PICK f : f = Finding("APP-DEF-CONFLICT", "high", <<app, "">>)
    OBVIOUS
  <2>3. f \in conflictFindings(p, loaded)
    BY <2>1, <2>2 DEF conflictFindings
  <2>4. f.id = "APP-DEF-CONFLICT"
    BY <2>2 DEF Finding
  <2> QED BY <1>3, <1>4, <2>3, <2>4 DEF isBlocking
<1>7. ASSUME NEW app \in DOMAIN p.aadd, NEW a \in DOMAIN p.aadd[app].actions
      PROVE  VerbOk(app, p.aadd[app].exec, a, p.aadd[app].actions[a].cmd)
  <2>1. PICK v, c, exec : v = <<app, a>> /\ c = p.aadd[app].actions[a].cmd /\ exec = p.aadd[app].exec
    OBVIOUS
  <2>2. v \in Verbs(p.aadd) /\ v[1] = app /\ v[2] = a
    BY <2>1, VerbIn
  <2>3. Judged(p, eff, app) = exec
    BY <1>1, <1>5, <1>6, <2>1, SameExec
  <2>4. VerbFindings(exec, c, v) \subseteq passthroughFindings(p, eff)
    <3>1. VerbFindings(Judged(p, eff, v[1]), p.aadd[v[1]].actions[v[2]].cmd, v)
             \subseteq passthroughFindings(p, eff)
      BY <2>2, PassthroughDef
    <3> QED BY <2>1, <2>2, <2>3, <3>1
  <2>5. Shaped(exec, c)
    <3>1. SUFFICES ASSUME ~Shaped(exec, c) PROVE FALSE
      OBVIOUS
    <3>2. PICK f \in VerbFindings(exec, c, v) : f.id \in RunnerIds
      BY <3>1, VerbFound
    <3>3. f \in F
      BY <1>3, <2>4, <3>2
    <3> QED BY <1>4, <3>2, <3>3 DEF isBlocking, RunnerIds
  <2> QED BY <2>1, <2>2, <2>5 DEF VerbOk
<1>8. ASSUME NEW app \in DOMAIN p.aadd PROVE EntryOk(app, p.aadd[app])
  BY <1>5, <1>7, <1>8 DEF EntryOk, IsNamespace, ValidProposal
<1> QED BY <1>6, <1>8 DEF RegOk

-----------------------------------------------------------------------------
(* The shape of what runs *)

\* What a verb runs depends on its executor, its name and its action.
RunOf(exec, name, act) ==
    CASE exec = "ssh" /\ name \in curatedActions -> Builtin
      [] exec = "system" /\ name \in systemBundledVerbs -> Builtin
      [] exec = "system" /\ SystemMode /\ ~act.root /\ name \notin systemBundledVerbs -> NoCommand
      [] OTHER -> act.cmd

LEMMA RunsDef ==
    ASSUME NEW defs, NEW app \in DOMAIN defs, NEW a \in DOMAIN defs[app].actions
    PROVE  Runs(defs, app, a) = RunOf(defs[app].exec, a, defs[app].actions[a])
BY DEF Runs, RunOf

LEMMA RunsTemplate ==
    ASSUME NEW exec, NEW name, NEW act, IsTemplate(RunOf(exec, name, act))
    PROVE  RunOf(exec, name, act) = act.cmd /\ act.cmd # NoCommand
<1>1. RunOf(exec, name, act) \in {Builtin, NoCommand, act.cmd}
  BY DEF RunOf
<1> QED BY <1>1 DEF IsTemplate

\* Every template of a namespace has the shape of its executor.
AllShaped(space) ==
    \A v \in Verbs(space) : LET cmd == Runs(space, v[1], v[2])
                            IN  IsTemplate(cmd) => Shaped(space[v[1]].exec, cmd)

LEMMA AssembledShape ==
    ASSUME NEW dir, IsNamespace(dir), NEW reg, RegOk(reg),
           NEW space, space = AssembleDefinitions(dir, reg), space # Conflict
    PROVE  IsNamespace(space) /\ (SystemMode => AllShaped(space))
<1>1. PICK user, low, top : /\ user = UserLayer(dir) /\ low = MergeInto(Bundled, user)
                            /\ top = LoadAppliedFile(reg)
  OBVIOUS
<1>2. low # Conflict /\ space = MergeInto(low, top)
  BY <1>1, AssembleDef
<1>3. IsNamespace(Bundled) /\ IsNamespace(user) /\ IsNamespace(reg)
  BY <1>1, UserSpace, AppDefsAssumption, RegSpace
<1>4. IsNamespace(top)
  BY <1>1, <1>3, AppliedSpace
<1>5. IsNamespace(low)
  BY <1>1, <1>2, <1>3, MergedSpace
<1>6. IsNamespace(space)
  BY <1>2, <1>4, <1>5, MergedSpace
<1>7. ASSUME SystemMode, NEW v \in Verbs(space),
             NEW cmd, cmd = Runs(space, v[1], v[2]), IsTemplate(cmd)
      PROVE  Shaped(space[v[1]].exec, cmd)
  <2>1. PICK app, a : app = v[1] /\ a = v[2]
    OBVIOUS
  <2>2. app \in DOMAIN space /\ a \in DOMAIN space[app].actions
    BY <2>1, VerbParts
  <2>3. PICK act, exec : act = space[app].actions[a] /\ exec = space[app].exec
    OBVIOUS
  <2>4. cmd = RunOf(exec, a, act)
    BY <1>7, <2>1, <2>2, <2>3, RunsDef
  <2>5. cmd = act.cmd /\ act.cmd # NoCommand
    BY <1>7, <2>4, RunsTemplate
  <2>6. CASE app \in DOMAIN top /\ a \in DOMAIN top[app].actions
             /\ exec = top[app].exec /\ act = top[app].actions[a]
    <3>1. app \in DOMAIN reg /\ a \in DOMAIN reg[app].actions /\ exec = reg[app].exec
          /\ act.cmd = reg[app].actions[a].cmd
      <4>1. /\ DOMAIN top = DOMAIN reg
            /\ \A x \in DOMAIN reg : AppliedEntry(top[x], reg[x])
        BY <1>1, <1>3, AppliedSpace
      <4> QED BY <2>6, <4>1 DEF AppliedEntry
    <3>2. VerbOk(app, reg[app].exec, a, reg[app].actions[a].cmd)
      BY <3>1 DEF RegOk, EntryOk
    <3> QED BY <2>1, <2>3, <2>5, <3>1, <3>2 DEF VerbOk
  <2>7. CASE app \in DOMAIN low /\ a \in DOMAIN low[app].actions
             /\ exec = low[app].exec /\ act = low[app].actions[a]
    <3>1. CASE app \in DOMAIN user /\ a \in DOMAIN user[app].actions
               /\ low[app].actions[a] = user[app].actions[a]
      BY <1>1, <1>7, <2>5, <2>7, <3>1, UserSpace
    <3>2. CASE app \in DOMAIN Bundled /\ a \in DOMAIN Bundled[app].actions
               /\ low[app].exec = Bundled[app].exec /\ low[app].actions[a] = Bundled[app].actions[a]
      <4>1. Runs(Bundled, app, a) = cmd
        BY <2>4, <2>7, <3>2, RunsDef
      <4>2. PICK w : w = <<app, a>>
        OBVIOUS
      <4>3. w \in Verbs(Bundled) /\ w[1] = app /\ w[2] = a
        BY <3>2, <4>2, VerbIn
      <4>4. IsTemplate(Runs(Bundled, w[1], w[2])) =>
                Shaped(Bundled[w[1]].exec, Runs(Bundled, w[1], w[2]))
        BY <4>3, ReviewAssumption
      <4> QED BY <1>7, <2>1, <2>3, <2>7, <3>2, <4>1, <4>3, <4>4
    <3> QED BY <1>1, <1>2, <1>3, <2>7, <3>1, <3>2, MergedVerb
  <2>8. \/ /\ app \in DOMAIN top /\ a \in DOMAIN top[app].actions
           /\ space[app].exec = top[app].exec /\ space[app].actions[a] = top[app].actions[a]
        \/ /\ app \in DOMAIN low /\ a \in DOMAIN low[app].actions
           /\ space[app].exec = low[app].exec /\ space[app].actions[a] = low[app].actions[a]
    BY <1>2, <1>4, <1>5, <2>2, MergedVerb
  <2> QED BY <2>3, <2>6, <2>7, <2>8
<1> QED BY <1>6, <1>7 DEF AllShaped

-----------------------------------------------------------------------------
(* The review of proposals *)

\* The findings under review are those of a plan of this proposal, against the
\* targets and the registry as they still are and the apps.d of that moment.
PlanOk(plan, live, reg) ==
    /\ plan.p \in Proposals /\ plan.appsd \in AppsDirs
    /\ AssembleDefinitions(plan.appsd, reg) # Conflict
    /\ plan.findings = Analyze(plan.p, live, AssembleDefinitions(plan.appsd, reg))

ReviewInv ==
    /\ targets \subseteq InitTargets \cup UNION {p.tadd : p \in Proposals}
    /\ \A t, u \in targets : t.alias = u.alias => t = u
    /\ RegOk(registry)
    /\ rules \subseteq UNION {ToSet(p.radd) : p \in Proposals}
    /\ appsd \in AppsDirs
    /\ pending # NoPlan => PlanOk(pending, targets, registry) /\ applies < MaxApplies
    /\ applies \in 0 .. MaxApplies

LEMMA NewTargetsOk ==
    ASSUME ReviewInv, NEW p \in Proposals, NEW new, new = NewTargets(p), new # Conflict
    PROVE  /\ new \subseteq InitTargets \cup UNION {q.tadd : q \in Proposals}
           /\ \A t, u \in new : t.alias = u.alias => t = u
<1>1. PICK left : left = {t \in targets : t.alias \notin p.tremove}
  OBVIOUS
<1>2. /\ new = left \cup p.tadd
      /\ \A t \in p.tadd, u \in left \cup p.tadd : ~(t.alias = u.alias /\ t # u)
  BY <1>1 DEF NewTargets
<1>3. left \subseteq targets
  BY <1>1
<1>4. new \subseteq InitTargets \cup UNION {q.tadd : q \in Proposals}
  BY <1>2, <1>3 DEF ReviewInv
<1>5. ASSUME NEW t \in new, NEW u \in new, t.alias = u.alias PROVE t = u
  BY <1>2, <1>3, <1>5 DEF ReviewInv
<1> QED BY <1>4, <1>5

LEMMA NewRegistryOk ==
    ASSUME ReviewInv, NEW p \in Proposals, RegOk(p.aadd), NewRegistry(p) # Conflict
    PROVE  RegOk(NewRegistry(p))
<1>1. PICK left, new : /\ left = RemoveDefinitionActions(registry, p.aremove)
                       /\ new = MergeInto(left, p.aadd)
  OBVIOUS
<1>2. IsFiniteSet(p.aremove)
  BY ReviewAssumption
<1>3. RegOk(registry) /\ RegOk(left)
  BY <1>1, <1>2, RemovalsOk DEF ReviewInv
<1>4. new # Conflict => RegOk(new)
  BY <1>1, <1>3, MergeOk
<1>5. NewRegistry(p) = registry \/ (NewRegistry(p) = new /\ new # Conflict)
  BY <1>1 DEF NewRegistry
<1> QED BY <1>3, <1>4, <1>5

LEMMA NamespaceKnown ==
    ASSUME ReviewInv, NEW dir \in AppsDirs,
           NEW space, space = AssembleDefinitions(dir, registry), space # Conflict
    PROVE  IsNamespace(space) /\ (SystemMode => AllShaped(space))
<1>1. IsNamespace(dir)
  BY ReviewAssumption
<1> QED BY <1>1, AssembledShape DEF ReviewInv

LEMMA ReviewStarts == ReviewInit => ReviewInv
BY ReviewAssumption DEF ReviewInit, ReviewInv, RegOk

LEMMA PlanKeeps ==
    ASSUME ReviewInv, NEW p \in Proposals, PlanProposal(p)
    PROVE  ReviewInv'
<1>1. Namespace # Conflict /\ Namespace = AssembleDefinitions(appsd, registry) /\ appsd \in AppsDirs
  BY DEF PlanProposal, Namespace, ReviewInv
<1>2. PICK plan : plan = [p |-> p, findings |-> Analyze(p, targets, Namespace), appsd |-> appsd]
  OBVIOUS
<1>3. plan.p = p /\ plan.findings = Analyze(p, targets, Namespace) /\ plan.appsd = appsd
  BY <1>2
<1>4. PlanOk(plan, targets, registry)
  BY <1>1, <1>3 DEF PlanOk
<1>5. pending' = plan /\ applies < MaxApplies
  BY <1>2 DEF PlanProposal
<1>6. UNCHANGED <<targets, registry, rules, appsd, applies>>
  BY DEF PlanProposal
<1> QED BY <1>4, <1>5, <1>6 DEF ReviewInv

LEMMA ApplyKeeps ==
    ASSUME ReviewInv, ApplyProposal
    PROVE  ReviewInv'
<1>1. PICK p : p = pending.p
  OBVIOUS
<1>2. p \in Proposals /\ applies < MaxApplies
  BY <1>1 DEF ReviewInv, ApplyProposal, PlanOk
<1>3. PICK loaded : IsNamespace(loaded) /\ pending.findings = Analyze(p, targets, loaded)
  <2>1. PICK loaded : loaded = AssembleDefinitions(pending.appsd, registry)
    OBVIOUS
  <2>2. /\ pending.appsd \in AppsDirs /\ loaded # Conflict
        /\ pending.findings = Analyze(p, targets, loaded)
    BY <1>1, <2>1 DEF ReviewInv, ApplyProposal, PlanOk
  <2> QED BY <2>1, <2>2, NamespaceKnown
<1>4. RegOk(p.aadd)
  BY <1>2, <1>3, Reviewed DEF ApplyProposal
<1>5. appsd' = appsd /\ pending' = NoPlan /\ applies' = applies + 1
  BY DEF ApplyProposal
<1>6. applies' \in 0 .. MaxApplies
  BY <1>2, <1>5, ReviewAssumption DEF ReviewInv
<1>7. CASE NewTargets(p) = Conflict \/ NewRegistry(p) = Conflict
  <2>1. UNCHANGED <<targets, registry, rules>>
    BY <1>1, <1>7 DEF ApplyProposal
  <2> QED BY <1>5, <1>6, <2>1 DEF ReviewInv
<1>8. CASE NewTargets(p) # Conflict /\ NewRegistry(p) # Conflict
  <2>1. /\ targets' = NewTargets(p) /\ registry' = NewRegistry(p)
        /\ rules' = (rules \ p.rremove) \cup ToSet(p.radd)
    BY <1>1, <1>8 DEF ApplyProposal
  <2>2. /\ targets' \subseteq InitTargets \cup UNION {q.tadd : q \in Proposals}
        /\ \A t, u \in targets' : t.alias = u.alias => t = u
    BY <1>2, <1>8, <2>1, NewTargetsOk
  <2>3. RegOk(registry')
    BY <1>2, <1>4, <1>8, <2>1, NewRegistryOk
  <2>4. rules' \subseteq UNION {ToSet(q.radd) : q \in Proposals}
    BY <1>2, <2>1 DEF ReviewInv
  <2> QED BY <1>5, <1>6, <2>2, <2>3, <2>4 DEF ReviewInv
<1> QED BY <1>7, <1>8

\* ReviewInv is inductive: what the registry holds was reviewed against the executor
\* it runs under, so that no later merge of cli/plan.go can give it another one.
THEOREM Review == ReviewSpec => []ReviewInv
<1>1. ReviewInv /\ [ReviewNext]_reviewVars => ReviewInv'
  <2> SUFFICES ASSUME ReviewInv, [ReviewNext]_reviewVars PROVE ReviewInv'
    OBVIOUS
  <2>1. CASE EditAppsDir
    BY <2>1 DEF EditAppsDir, ReviewInv
  <2>2. CASE \E p \in Proposals : PlanProposal(p)
    BY <2>2, PlanKeeps
  <2>3. CASE Refuse
    BY <2>3 DEF Refuse, ReviewInv
  <2>4. CASE ApplyProposal
    BY <2>4, ApplyKeeps
  <2>5. CASE UNCHANGED reviewVars
    BY <2>5 DEF reviewVars, ReviewInv
  <2> QED BY <2>1, <2>2, <2>3, <2>4, <2>5 DEF ReviewNext
<1> QED BY <1>1, ReviewStarts, PTL DEF ReviewSpec

LEMMA InvSound ==
    ASSUME ReviewInv
    PROVE  NamespaceSound
<1>1. ReviewTypeOK
  BY DEF ReviewInv, ReviewTypeOK, RegOk, EntryOk, VerbOk, PlanOk
<1>2. ShapedVerbs
  <2>1. CASE Namespace # Conflict /\ SystemMode
    <3>1. AllShaped(Namespace)
      BY <2>1, NamespaceKnown DEF Namespace, ReviewInv
    <3> QED BY <3>1 DEF ShapedVerbs, AllShaped
  <2> QED BY <2>1 DEF ShapedVerbs
<1> QED BY <1>1, <1>2 DEF NamespaceSound

LEMMA InvWalk ==
    ASSUME ReviewInv
    PROVE  WalkNamesStranded
<1> DEFINE StepsOf(v) == pending.p.aadd[v[1]].actions[v[2]].cmd.steps
           Left(steps, n) == {o \in {steps[i].object : i \in 1 .. n} \ {""} : Out(steps, o, n)}
<1>1. ASSUME pending # NoPlan, NEW v \in Verbs(pending.p.aadd), NEW n \in DOMAIN StepsOf(v)
      PROVE  failureWalk(StepsOf(v))[n] = Left(StepsOf(v), n - 1)
  <2>1. pending.p \in Proposals
    BY <1>1 DEF ReviewInv, PlanOk
  <2>2. StepsOf(v) \in Seq(ToSet(StepsOf(v)))
    BY <1>1, <2>1, ReviewAssumption
  <2>3. PICK steps : steps = StepsOf(v)
    OBVIOUS
  <2> HIDE DEF StepsOf
  <2>4. failureWalk(steps)[n] = {o \in ObjectsOf(steps) : Out(steps, o, n - 1)}
    BY <1>1, <2>2, <2>3, WalkIsStranded
  <2>5. n \in Nat /\ 1 .. (n - 1) \subseteq DOMAIN steps
    BY <1>1, <2>2, <2>3
  <2>6. ASSUME NEW o, Out(steps, o, n - 1) PROVE \E i \in 1 .. (n - 1) : steps[i].object = o
    BY <2>6 DEF Out, Moved
  <2>7. {o \in ObjectsOf(steps) : Out(steps, o, n - 1)} = Left(steps, n - 1)
    BY <2>5, <2>6 DEF ObjectsOf
  <2> QED BY <2>3, <2>4, <2>7
<1> QED BY <1>1 DEF WalkNamesStranded, Out, Moved

\* Under a privilege boundary every template that runs has the shape its executor
\* asks for, and the configuration is one its loaders accept, through any sequence of
\* plans, applies and edits of apps.d (cli/plan.go, appdef.AssembleDefinitions).
THEOREM NamespaceHolds == ReviewSpec => []NamespaceSound
BY Review, InvSound, PTL

\* The failure walk names at each step exactly what the steps before it have left
\* stopped or deleted, for every script a proposal carries (proposal.failureWalk).
THEOREM WalkExact == ReviewSpec => []WalkNamesStranded
BY Review, InvWalk, PTL

-----------------------------------------------------------------------------
(* What an apply does, against what its plan looked at *)

\* A step that applies a proposal is ApplyProposal, with all of its effects.
LEMMA TookApplies ==
    ASSUME ReviewInv, [ReviewNext]_reviewVars, NEW p \in Proposals, Took(p)
    PROVE  /\ pending # NoPlan /\ p = pending.p /\ PlanOk(pending, targets, registry)
           /\ Blocking(pending.findings) = {}
           /\ NewTargets(p) # Conflict /\ NewRegistry(p) # Conflict
           /\ targets' = NewTargets(p) /\ registry' = NewRegistry(p) /\ appsd' = appsd
           /\ rules' = (rules \ p.rremove) \cup ToSet(p.radd)
<1>1. /\ pending # NoPlan /\ p = pending.p /\ applies' = applies + 1
      /\ NewTargets(p) # Conflict /\ NewRegistry(p) # Conflict
  BY DEF Took
<1>2. applies \in Int /\ PlanOk(pending, targets, registry)
  BY <1>1 DEF ReviewInv
<1>3. applies' # applies
  BY <1>1, <1>2
<1>4. ApplyProposal
  BY <1>3 DEF ReviewNext, reviewVars, EditAppsDir, PlanProposal, Refuse
<1> QED BY <1>1, <1>2, <1>4 DEF ApplyProposal

\* The targets of the plan are the targets of the apply.
LEMMA SameTargets ==
    ASSUME NEW p, Plain(p), NEW new, new = NewTargets(p), new # Conflict
    PROVE  effectiveTargets(p, targets) = new
<1>1. PICK left, fresh : /\ left = {t \in targets : t.alias \notin p.tremove}
                         /\ fresh = {t \in p.tadd : \A u \in targets : u.alias # t.alias}
  OBVIOUS
<1>2. /\ new = left \cup p.tadd
      /\ \A t \in p.tadd, u \in left \cup p.tadd : ~(t.alias = u.alias /\ t # u)
  BY <1>1 DEF NewTargets
<1>3. effectiveTargets(p, targets) = {t \in targets \cup fresh : t.alias \notin p.tremove}
  BY <1>1 DEF effectiveTargets
<1>4. \A t \in p.tadd : t.alias \notin p.tremove
  BY DEF Plain
<1>5. ASSUME NEW t \in p.tadd PROVE t \in targets \cup fresh
  <2>1. CASE \A u \in targets : u.alias # t.alias
    BY <1>1, <2>1
  <2>2. ASSUME NEW u \in targets, u.alias = t.alias PROVE t = u
    BY <1>1, <1>2, <1>4, <2>2
  <2> QED BY <2>1, <2>2
<1>6. \A t : t \in {x \in targets \cup fresh : x.alias \notin p.tremove} <=> t \in left \cup p.tadd
  BY <1>1, <1>4, <1>5
<1> QED BY <1>2, <1>3, <1>6

-----------------------------------------------------------------------------
(* Paths *)

LEMMA PrefixDef ==
    ASSUME NEW s \in Seq(STRING), NEW t \in Seq(STRING)
    PROVE  IsPrefix(s, t) <=> Len(s) <= Len(t) /\ \A i \in 1..Len(s) : s[i] = t[i]
<1>1. CASE Len(s) <= Len(t)
  <2>1. PICK a, b : a = SubSeq(s, 1, Len(s)) /\ b = SubSeq(t, 1, Len(s))
    OBVIOUS
  <2>2. /\ a = [i \in 1..Len(s) |-> s[i]] /\ b = [i \in 1..Len(s) |-> t[i]]
    BY <1>1, <2>1
  <2>3. IsPrefix(s, t) <=> a = b
    BY <1>1, <2>1 DEF IsPrefix
  <2>4. a = b => \A i \in 1..Len(s) : s[i] = t[i]
    <3>1. \A i \in 1..Len(s) : a[i] = s[i] /\ b[i] = t[i]
      BY <2>2
    <3> QED BY <3>1
  <2>5. (\A i \in 1..Len(s) : s[i] = t[i]) => a = b
    BY <2>2
  <2> QED BY <1>1, <2>3, <2>4, <2>5
<1>2. CASE ~(Len(s) <= Len(t))
  BY <1>2 DEF IsPrefix
<1> QED BY <1>1, <1>2

\* Of two prefixes of one path, one is a prefix of the other.
LEMMA PrefixesMeet ==
    ASSUME NEW q \in Seq(STRING), NEW s \in Seq(STRING), NEW x \in Seq(STRING),
           IsPrefix(s, q), IsPrefix(x, q)
    PROVE  IsPrefix(s, x) \/ IsPrefix(x, s)
<1>1. /\ Len(s) <= Len(q) /\ \A i \in 1..Len(s) : s[i] = q[i]
      /\ Len(x) <= Len(q) /\ \A i \in 1..Len(x) : x[i] = q[i]
  BY PrefixDef
<1>2. Len(s) \in Nat /\ Len(x) \in Nat
  OBVIOUS
<1>3. CASE Len(s) <= Len(x)
  <2>1. \A i \in 1..Len(s) : s[i] = x[i]
    BY <1>1, <1>2, <1>3
  <2> QED BY <1>3, <2>1, PrefixDef
<1>4. CASE Len(x) <= Len(s)
  <2>1. \A i \in 1..Len(x) : x[i] = s[i]
    BY <1>1, <1>2, <1>4
  <2> QED BY <1>4, <2>1, PrefixDef
<1> QED BY <1>2, <1>3, <1>4

\* A list that lets a file at or under a secret through has an entry that reaches
\* the secret.
LEMMA SecretReached ==
    ASSUME NEW t, t.paths \cup t.prefixes \subseteq Seq(STRING),
           NEW q \in Hidden, SSHTargetAllowsPath(t, q)
    PROVE  \E x \in t.paths \cup t.prefixes : reachesSecret(x)
<1>1. q \in Seq(STRING) /\ Bounds.secrets \subseteq Seq(STRING) /\ underAny(q, Bounds.secrets)
  BY ReviewAssumption
<1>2. PICK s \in Bounds.secrets : q = s \/ isUnder(q, s)
  BY <1>1 DEF underAny
<1>3. CASE q \in t.paths
  BY <1>2, <1>3 DEF reachesSecret
<1>4. ASSUME NEW x \in t.prefixes, q = x \/ isUnder(q, x) PROVE reachesSecret(x)
  <2>1. CASE q = x
    BY <1>2, <2>1 DEF reachesSecret
  <2>2. CASE isUnder(q, x) /\ q = s
    BY <1>2, <2>2 DEF reachesSecret
  <2>3. CASE isUnder(q, x) /\ isUnder(q, s)
    <3>1. /\ x # <<>> /\ s # <<>> /\ IsPrefix(x, q) /\ IsPrefix(s, q)
      BY <2>3 DEF isUnder, IsStrictPrefix
    <3>2. x \in Seq(STRING) /\ s \in Seq(STRING)
      BY <1>1, <1>2, <1>4
    <3>3. IsPrefix(s, x) \/ IsPrefix(x, s)
      BY <1>1, <3>1, <3>2, PrefixesMeet
    <3> QED BY <1>2, <3>1, <3>3 DEF reachesSecret, isUnder, IsStrictPrefix
  <2> QED BY <1>2, <1>4, <2>1, <2>2, <2>3
<1> QED BY <1>3, <1>4 DEF SSHTargetAllowsPath, underAny

\* The finding of one entry of a target's lists.
ReadFinding(t, q) ==
    LET at == <<t.alias, "">>
    IN  CASE reachesSecret(q) -> Finding("SSH-SECRET-PATH", "high", at)
          [] ~reachesSecret(q) /\ secretConfigFile(q) -> Finding("SSH-FILE-SECRET", "medium", at)
          [] ~reachesSecret(q) /\ ~secretConfigFile(q) /\ underAny(q, Bounds.webroots) ->
                Finding("SSH-WEBROOT-CONFIG", "medium", at)
          [] OTHER -> Finding(IF q \in Bounds.broad THEN "SSH-BROAD-PREFIX" ELSE "none", "medium", at)

Readable(allows, hosts) == {t \in hosts : t.alias \in targetsForActions(allows, hosts, readActions)}

LEMMA ReadDef ==
    ASSUME NEW allows, NEW hosts
    PROVE  readFindings(allows, hosts) =
               {f \in {ReadFinding(t, q) : t \in Readable(allows, hosts),
                           q \in UNION {u.paths \cup u.prefixes : u \in Readable(allows, hosts)}} :
                  \E t \in Readable(allows, hosts) : \E q \in t.paths \cup t.prefixes :
                     f = ReadFinding(t, q) /\ f.id # "none"}
BY DEF readFindings, ReadFinding, Readable

LEMMA ReadFound ==
    ASSUME NEW allows, NEW hosts, NEW t \in Readable(allows, hosts),
           NEW x \in t.paths \cup t.prefixes, reachesSecret(x)
    PROVE  \E f \in readFindings(allows, hosts) : f.id = "SSH-SECRET-PATH"
<1>1. PICK R, f : R = Readable(allows, hosts) /\ f = ReadFinding(t, x)
  OBVIOUS
<1>2. f = Finding("SSH-SECRET-PATH", "high", <<t.alias, "">>)
  BY <1>1 DEF ReadFinding
<1>3. f.id = "SSH-SECRET-PATH"
  BY <1>2 DEF Finding
<1>4. x \in UNION {u.paths \cup u.prefixes : u \in R}
  BY <1>1
<1>5. f \in {ReadFinding(u, q) : u \in R, q \in UNION {w.paths \cup w.prefixes : w \in R}}
  BY <1>1, <1>4
<1>6. \E u \in R : \E q \in u.paths \cup u.prefixes : f = ReadFinding(u, q) /\ f.id # "none"
  BY <1>1, <1>3
<1>7. f \in readFindings(allows, hosts)
  BY <1>1, <1>5, <1>6, ReadDef
<1> QED BY <1>3, <1>7

LEMMA GrantsStay ==
    ASSUME "SSH-SECRET-PATH" \in Bounds.blocking, ReviewInv, [ReviewNext]_reviewVars,
           NEW p \in Proposals, Took(p), Plain(p), NEW t \in targets', NEW q \in Hidden,
           t.alias \in targetsForActions(allowRules(p.radd), targets', readActions)
    PROVE  ~SSHTargetAllowsPath(t, q)
<1>1. /\ p = pending.p /\ PlanOk(pending, targets, registry) /\ Blocking(pending.findings) = {}
      /\ targets' = NewTargets(p) /\ NewTargets(p) # Conflict
  BY TookApplies
<1>2. PICK loaded : pending.findings = Analyze(p, targets, loaded)
  BY <1>1 DEF PlanOk
<1>3. effectiveTargets(p, targets) = targets'
  BY <1>1, SameTargets
<1>4. readFindings(allowRules(p.radd), targets') \subseteq pending.findings
  BY <1>2, <1>3 DEF Analyze
<1>5. t.paths \cup t.prefixes \subseteq Seq(STRING)
  <2>1. targets' \subseteq InitTargets \cup UNION {r.tadd : r \in Proposals}
    BY <1>1, NewTargetsOk
  <2> QED BY <2>1, ReviewAssumption
<1>6. SUFFICES ASSUME SSHTargetAllowsPath(t, q) PROVE FALSE
  OBVIOUS
<1>7. PICK x \in t.paths \cup t.prefixes : reachesSecret(x)
  BY <1>5, <1>6, SecretReached
<1>8. t \in Readable(allowRules(p.radd), targets')
  BY DEF Readable
<1>9. PICK f \in readFindings(allowRules(p.radd), targets') : f.id = "SSH-SECRET-PATH"
  BY <1>7, <1>8, ReadFound
<1>10. isBlocking(f)
  BY <1>9 DEF isBlocking
<1> QED BY <1>1, <1>4, <1>9, <1>10 DEF Blocking

\* A rule of the proposal is one of those the plan looked at.
LEMMA AllowedAt ==
    ASSUME NEW p, NEW r \in ToSet(p.radd), r.effect = "allow"
    PROVE  \E i \in DOMAIN p.radd : /\ p.radd[i] = r /\ i \in DOMAIN allowRules(p.radd)
                                    /\ allowRules(p.radd)[i] = r
<1>1. PICK i \in DOMAIN p.radd : p.radd[i] = r
  BY DEF ToSet
<1> QED BY <1>1 DEF allowRules, Keep

LEMMA SecretsStay ==
    ASSUME "SSH-SECRET-PATH" \in Bounds.blocking, ReviewInv, [ReviewNext]_reviewVars,
           NEW p \in Proposals, Took(p), Plain(p), NEW r \in rules', NEW t \in targets',
           NEW q \in Hidden, LetsRead(r, t, q)
    PROVE  r \in rules \ ToSet(p.radd) /\ t \in targets \cup p.tadd
<1>1. /\ targets' = NewTargets(p) /\ NewTargets(p) # Conflict
      /\ rules' = (rules \ p.rremove) \cup ToSet(p.radd)
  BY TookApplies
<1>2. t \in targets \cup p.tadd
  BY <1>1 DEF NewTargets
<1>3. ASSUME r \in ToSet(p.radd) PROVE FALSE
  <2>1. PICK allows : allows = allowRules(p.radd)
    OBVIOUS
  <2>2. PICK i \in DOMAIN allows : allows[i] = r
    BY <1>3, <2>1, AllowedAt DEF LetsRead
  <2>3. t.alias \in targetsForRule(r, targets')
    BY DEF LetsRead, targetsForRule, Aliases
  <2>4. t.alias \in targetsForActions(allows, targets', readActions)
    BY <2>2, <2>3 DEF targetsForActions, LetsRead
  <2>5. ~SSHTargetAllowsPath(t, q)
    BY <2>1, <2>4, GrantsStay
  <2> QED BY <2>5 DEF LetsRead
<1> QED BY <1>1, <1>2, <1>3

\* Where the boundaries block SSH-SECRET-PATH, no rule of a proposal on the app ssh makes
\* a file at or under a secret path readable through the executor's own test of the
\* target's lists (proposal.reachesSecret against SSHTargetAllowsPath), for any secret
\* paths, targets and proposals. What stays open is a target that comes under a rule
\* that stood before.
THEOREM SecretsSafe ==
    ASSUME "SSH-SECRET-PATH" \in Bounds.blocking
    PROVE  ReviewSpec => SecretsOutOfReach
<1>1. ASSUME ReviewInv, [ReviewNext]_reviewVars
      PROVE  \A p \in Proposals : Took(p) /\ Plain(p) =>
                \A r \in rules' : \A t \in targets' : \A q \in Hidden :
                    LetsRead(r, t, q) => /\ r \in rules \ ToSet(p.radd)
                                         /\ t \in targets \cup p.tadd
  BY <1>1, SecretsStay
<1> QED BY <1>1, Review, PTL DEF ReviewSpec, SecretsOutOfReach

-----------------------------------------------------------------------------
(* What the removals leave, and the verbs of the namespace after an apply *)

Removes(refs, app, a) == \E ref \in refs : ref.app = app /\ ref.action \in {a, ""}

Stays(reg, refs, app) == {a \in DOMAIN reg[app].actions : ~Removes(refs, app, a)}

\* What is left of a registry after some removals, in whichever order.
RestOf(r, reg, refs) ==
    /\ DOMAIN r = {app \in DOMAIN reg : Stays(reg, refs, app) # {}}
    /\ \A app \in DOMAIN r : /\ IsDefinition(r[app]) /\ r[app].exec = reg[app].exec
                             /\ DOMAIN r[app].actions = Stays(reg, refs, app)
                             /\ \A a \in DOMAIN r[app].actions :
                                    r[app].actions[a] = reg[app].actions[a]

LEMMA RestStep ==
    ASSUME NEW reg, NEW refs, NEW r, RestOf(r, reg, refs), NEW ref, NEW more, more = refs \cup {ref}
    PROVE  RestOf(RemoveDefinitionAction(r, ref), reg, more)
<1>1. PICK x, left : /\ x = ref.app
                     /\ left = IF ref.app \in DOMAIN r /\ ref.action # ""
                               THEN DOMAIN r[ref.app].actions \ {ref.action} ELSE {}
  OBVIOUS
<1>2. PICK new : new = RemoveDefinitionAction(r, ref)
  OBVIOUS
<1>0. \A app, a : Removes(more, app, a) <=>
                Removes(refs, app, a) \/ (x = app /\ ref.action \in {a, ""})
  BY <1>1 DEF Removes
<1>3. ASSUME NEW app, app # x PROVE Stays(reg, more, app) = Stays(reg, refs, app)
  BY <1>0, <1>3 DEF Stays
<1>4. Stays(reg, more, x) = IF ref.action = "" THEN {} ELSE Stays(reg, refs, x) \ {ref.action}
  BY <1>0 DEF Stays
<1>5. CASE x \notin DOMAIN r
  <2>1. new = r
    BY <1>1, <1>2, <1>5 DEF RemoveDefinitionAction
  <2>2. x \in DOMAIN reg => Stays(reg, refs, x) = {} /\ Stays(reg, more, x) = {}
    BY <1>4, <1>5 DEF RestOf
  <2>3. DOMAIN r = {app \in DOMAIN reg : Stays(reg, more, app) # {}}
    BY <1>3, <2>2 DEF RestOf
  <2>4. \A app \in DOMAIN r : app # x /\ Stays(reg, more, app) = Stays(reg, refs, app)
    BY <1>3, <1>5
  <2> QED BY <1>2, <2>1, <2>3, <2>4 DEF RestOf
<1>6. CASE x \in DOMAIN r /\ left = {}
  <2>1. new = Keep(r, DOMAIN r \ {x})
    BY <1>1, <1>2, <1>6 DEF RemoveDefinitionAction
  <2>2. DOMAIN new = DOMAIN r \ {x} /\ \A app \in DOMAIN new : new[app] = r[app]
    BY <2>1 DEF Keep
  <2>3. Stays(reg, more, x) = {}
    BY <1>1, <1>4, <1>6 DEF RestOf
  <2>4. DOMAIN new = {app \in DOMAIN reg : Stays(reg, more, app) # {}}
    BY <1>3, <2>2, <2>3 DEF RestOf
  <2>5. \A app \in DOMAIN new : app \in DOMAIN r /\ Stays(reg, more, app) = Stays(reg, refs, app)
    BY <1>3, <2>2
  <2>6. \A app \in DOMAIN new :
            /\ IsDefinition(new[app]) /\ DOMAIN new[app].actions = Stays(reg, more, app)
            /\ new[app].exec = reg[app].exec
            /\ \A a \in DOMAIN new[app].actions : new[app].actions[a] = reg[app].actions[a]
    BY <2>2, <2>5 DEF RestOf
  <2> QED BY <1>2, <2>4, <2>6 DEF RestOf
<1>7. CASE x \in DOMAIN r /\ left # {}
  <2>1. PICK d : d = r[x]
    OBVIOUS
  <2>2. PICK A : A = Keep(d.actions, left)
    OBVIOUS
  <2>3. PICK e : e = [d EXCEPT !.actions = A]
    OBVIOUS
  <2>4. new = [r EXCEPT ![x] = e]
    <3>1. new = [r EXCEPT ![ref.app].actions = Keep(@, left)]
      BY <1>1, <1>2, <1>7 DEF RemoveDefinitionAction
    <3> QED BY <1>1, <2>1, <2>2, <2>3, <3>1
  <2>5. DOMAIN new = DOMAIN r /\ new[x] = e /\ \A app \in DOMAIN r : app # x => new[app] = r[app]
    BY <1>7, <2>4
  <2>6. /\ IsDefinition(d) /\ d.exec = reg[x].exec /\ DOMAIN d.actions = Stays(reg, refs, x)
        /\ \A a \in DOMAIN d.actions : d.actions[a] = reg[x].actions[a]
    BY <1>7, <2>1 DEF RestOf
  <2>7. left = Stays(reg, more, x) /\ left \subseteq DOMAIN d.actions
    BY <1>1, <1>4, <1>7, <2>1, <2>6
  <2>8. DOMAIN A = left /\ \A a \in left : A[a] = d.actions[a]
    BY <2>2 DEF Keep
  <2>9. DOMAIN d = {"exec", "mode", "bundled", "actions"}
    BY <2>6 DEF IsDefinition
  <2>10. DOMAIN e = DOMAIN d /\ e.actions = A /\ e.exec = d.exec
    BY <2>3, <2>9
  <2>11. IsDefinition(e)
    BY <2>6, <2>7, <2>8, <2>10 DEF IsDefinition
  <2>12. x \in DOMAIN reg /\ DOMAIN new = {app \in DOMAIN reg : Stays(reg, more, app) # {}}
    BY <1>3, <1>7, <2>5, <2>7 DEF RestOf
  <2>13. \A app \in DOMAIN new : app # x =>
            /\ IsDefinition(new[app]) /\ DOMAIN new[app].actions = Stays(reg, more, app)
            /\ new[app].exec = reg[app].exec
            /\ \A a \in DOMAIN new[app].actions : new[app].actions[a] = reg[app].actions[a]
    BY <1>3, <2>5 DEF RestOf
  <2>14. /\ DOMAIN new[x].actions = Stays(reg, more, x) /\ new[x].exec = reg[x].exec
         /\ \A a \in DOMAIN new[x].actions : new[x].actions[a] = reg[x].actions[a]
    BY <2>5, <2>6, <2>7, <2>8, <2>10
  <2> QED BY <1>2, <2>5, <2>11, <2>12, <2>13, <2>14 DEF RestOf
<1> QED BY <1>5, <1>6, <1>7

LEMMA RemovalsExact ==
    ASSUME NEW reg, RegOk(reg), NEW refs, IsFiniteSet(refs)
    PROVE  RestOf(RemoveDefinitionActions(reg, refs), reg, refs)
<1>1. PICK order, m : order = SetToSeq(refs) /\ m = Len(order)
  OBVIOUS
<1>2. m \in Nat /\ order \in Seq(refs) /\ \A x \in refs : \E i \in 1..m : order[i] = x
  BY <1>1, ListOfSet
<1>3. PICK f : f = CHOOSE g : Removal(g, reg, order, m)
  OBVIOUS
<1>4. Removal(f, reg, order, m)
  BY <1>2, <1>3, RemovalExists
<1>5. \A n \in 0..m : f[n] = IF n = 0 THEN reg ELSE RemoveDefinitionAction(f[n - 1], order[n])
  BY <1>4 DEF Removal
<1> DEFINE Seen(n) == {order[i] : i \in 1..n}
           G == {n \in 0..m : RestOf(f[n], reg, Seen(n))}
<1>6. 0 \in G
  <2>1. Seen(0) = {}
    OBVIOUS
  <2>2. \A app : Stays(reg, {}, app) = DOMAIN reg[app].actions
    BY DEF Stays, Removes
  <2>3. RestOf(reg, reg, {})
    BY <2>2 DEF RestOf, RegOk, EntryOk
  <2>4. f[0] = reg
    BY <1>2, <1>5
  <2> HIDE DEF Seen
  <2>5. RestOf(f[0], reg, Seen(0))
    BY <2>1, <2>3, <2>4, Zenon
  <2>6. 0 \in 0..m
    BY <1>2
  <2> QED BY <2>5, <2>6
<1>7. ASSUME NEW n \in 1..m, n - 1 \in G PROVE n \in G
  <2>1. n \in 0..m /\ n # 0 /\ RestOf(f[n - 1], reg, Seen(n - 1))
    BY <1>2, <1>7
  <2>2. Seen(n) = Seen(n - 1) \cup {order[n]}
    OBVIOUS
  <2>3. f[n] = RemoveDefinitionAction(f[n - 1], order[n])
    BY <1>5, <2>1
  <2> HIDE DEF Seen
  <2>4. RestOf(f[n], reg, Seen(n))
    BY <2>1, <2>2, <2>3, RestStep
  <2> QED BY <2>1, <2>4
<1>8. \A n \in 0..m : n \in G
  <2> HIDE DEF G
  <2> QED BY <1>2, <1>6, <1>7, UpTo
<1>9. RestOf(f[m], reg, Seen(m))
  <2> HIDE DEF Seen
  <2>1. m \in 0..m
    BY <1>2
  <2> QED BY <1>8, <2>1
<1>10. Seen(m) = refs
  <2>1. DOMAIN order = 1..m /\ \A i \in 1..m : order[i] \in refs
    BY <1>1, <1>2
  <2> QED BY <1>2, <2>1
<1> QED BY <1>1, <1>3, <1>9, <1>10, RemovalDef

\* A verb of a namespace, and the action it stands for.
In(space, app, a) == app \in DOMAIN space /\ a \in DOMAIN space[app].actions
Act(space, app, a) == space[app].actions[a]

\* One namespace over another: the upper one's actions win.
Over(M, dst, over) ==
    \A app, a : /\ In(M, app, a) <=> In(dst, app, a) \/ In(over, app, a)
                /\ In(over, app, a) => Act(M, app, a) = Act(over, app, a)
                /\ In(dst, app, a) /\ ~In(over, app, a) => Act(M, app, a) = Act(dst, app, a)

LEMMA MergedOver ==
    ASSUME NEW dst, NEW over, IsNamespace(dst), IsNamespace(over), NEW M, MergeOf(M, dst, over)
    PROVE  Over(M, dst, over)
<1> SUFFICES ASSUME NEW app, NEW a
             PROVE  /\ In(M, app, a) <=> In(dst, app, a) \/ In(over, app, a)
                    /\ In(over, app, a) => Act(M, app, a) = Act(over, app, a)
                    /\ In(dst, app, a) /\ ~In(over, app, a) => Act(M, app, a) = Act(dst, app, a)
  BY DEF Over
<1>1. CASE app \in DOMAIN dst \cap DOMAIN over
  <2>1. PICK d, b, o : d = M[app] /\ b = dst[app] /\ o = over[app]
    OBVIOUS
  <2>2. IsDefinition(b) /\ IsDefinition(o) /\ d = Merge(b, o) /\ d # Conflict /\ app \in DOMAIN M
    BY <1>1, <2>1 DEF MergeOf, IsNamespace
  <2>3. /\ DOMAIN d.actions = DOMAIN o.actions \cup DOMAIN b.actions
        /\ \A x \in DOMAIN o.actions : d.actions[x] = o.actions[x]
        /\ \A x \in DOMAIN b.actions \ DOMAIN o.actions : d.actions[x] = b.actions[x]
    BY <2>2, Merged
  <2> QED BY <1>1, <2>1, <2>2, <2>3 DEF In, Act
<1>2. CASE app \notin DOMAIN dst \cap DOMAIN over
  BY <1>2 DEF MergeOf, In, Act
<1> QED BY <1>1, <1>2

LEMMA CommandsEqual ==
    ASSUME NEW s, NEW t, \A app, a : In(s, app, a) <=> In(t, app, a),
           \A app, a : In(s, app, a) => Act(s, app, a).cmd = Act(t, app, a).cmd
    PROVE  Commands(s) = Commands(t)
<1>1. ASSUME NEW v \in Verbs(s) PROVE v \in Verbs(t) /\ Act(s, v[1], v[2]).cmd = Act(t, v[1], v[2]).cmd
  <2>1. v = <<v[1], v[2]>> /\ In(s, v[1], v[2])
    BY VerbParts DEF In
  <2>2. In(t, v[1], v[2])
    BY <2>1
  <2>3. <<v[1], v[2]>> \in Verbs(t)
    BY <2>2, VerbIn DEF In
  <2> QED BY <2>1, <2>3
<1>2. ASSUME NEW v \in Verbs(t) PROVE v \in Verbs(s)
  <2>1. v = <<v[1], v[2]>> /\ In(t, v[1], v[2])
    BY VerbParts DEF In
  <2>2. In(s, v[1], v[2])
    BY <2>1
  <2>3. <<v[1], v[2]>> \in Verbs(s)
    BY <2>2, VerbIn DEF In
  <2> QED BY <2>1, <2>3
<1>3. Verbs(s) = Verbs(t)
  BY <1>1, <1>2
<1>4. \A v \in Verbs(s) : s[v[1]].actions[v[2]].cmd = t[v[1]].actions[v[2]].cmd
  BY <1>1 DEF Act
<1> QED BY <1>3, <1>4 DEF Commands

\* The layers of the namespace: the registry over what is below it.
LEMMA Layers ==
    ASSUME NEW dir, IsNamespace(dir), NEW reg, RegOk(reg),
           NEW space, space = AssembleDefinitions(dir, reg), space # Conflict,
           NEW low, low = MergeInto(Bundled, UserLayer(dir))
    PROVE  /\ low # Conflict /\ IsNamespace(low) /\ IsNamespace(space)
           /\ DOMAIN space = DOMAIN low \cup DOMAIN reg
           /\ Over(space, low, LoadAppliedFile(reg))
<1>1. PICK user, top : user = UserLayer(dir) /\ top = LoadAppliedFile(reg)
  OBVIOUS
<1>2. low # Conflict /\ space = MergeInto(low, top)
  BY <1>1, AssembleDef
<1>3. IsNamespace(Bundled) /\ IsNamespace(user) /\ IsNamespace(reg)
  BY <1>1, UserSpace, AppDefsAssumption, RegSpace
<1>4. IsNamespace(top) /\ DOMAIN top = DOMAIN reg
  BY <1>1, <1>3, AppliedSpace
<1>5. IsNamespace(low)
  BY <1>1, <1>2, <1>3, MergedSpace
<1>6. IsNamespace(space) /\ MergeOf(space, low, top)
  BY <1>2, <1>4, <1>5, MergedSpace
<1>7. Over(space, low, top)
  BY <1>4, <1>5, <1>6, MergedOver
<1>8. DOMAIN space = DOMAIN low \cup DOMAIN reg
  BY <1>4, <1>6 DEF MergeOf
<1> QED BY <1>1, <1>2, <1>5, <1>6, <1>7, <1>8

LEMMA AppliedIn ==
    ASSUME NEW reg, IsNamespace(reg), NEW top, top = LoadAppliedFile(reg), NEW app, NEW a
    PROVE  /\ In(top, app, a) <=> In(reg, app, a)
           /\ In(reg, app, a) => /\ Act(top, app, a) = [Act(reg, app, a) EXCEPT !.root = TRUE]
                                 /\ Act(top, app, a).cmd = Act(reg, app, a).cmd
                                 /\ Act(top, app, a).root
<1>1. DOMAIN top = DOMAIN reg /\ \A x \in DOMAIN reg : AppliedEntry(top[x], reg[x])
  BY AppliedSpace
<1> QED BY <1>1 DEF In, Act, AppliedEntry

\* The verbs of the registry after an apply.
LEMMA NewVerbs ==
    ASSUME ReviewInv, NEW p \in Proposals, RegOk(p.aadd), NEW new, new = NewRegistry(p),
           new # Conflict, NEW app, NEW a
    PROVE  /\ In(new, app, a) <=> \/ In(p.aadd, app, a)
                                  \/ In(registry, app, a) /\ ~Removes(p.aremove, app, a)
           /\ In(p.aadd, app, a) => Act(new, app, a) = Act(p.aadd, app, a)
           /\ In(new, app, a) /\ ~In(p.aadd, app, a) => Act(new, app, a) = Act(registry, app, a)
<1>1. PICK left, sum : /\ left = RemoveDefinitionActions(registry, p.aremove)
                       /\ sum = MergeInto(left, p.aadd)
  OBVIOUS
<1>2. IsFiniteSet(p.aremove) /\ RegOk(registry)
  BY ReviewAssumption DEF ReviewInv
<1>3. RestOf(left, registry, p.aremove)
  BY <1>1, <1>2, RemovalsExact
<1>4. /\ In(left, app, a) <=> In(registry, app, a) /\ ~Removes(p.aremove, app, a)
      /\ In(left, app, a) => Act(left, app, a) = Act(registry, app, a)
  <2>1. In(left, app, a) => app \in DOMAIN registry /\ a \in Stays(registry, p.aremove, app)
    BY <1>3 DEF RestOf, In
  <2>2. app \in DOMAIN registry /\ a \in Stays(registry, p.aremove, app) => In(left, app, a)
    BY <1>3 DEF RestOf, In
  <2>3. In(left, app, a) => Act(left, app, a) = Act(registry, app, a)
    BY <1>3 DEF RestOf, In, Act
  <2> QED BY <2>1, <2>2, <2>3 DEF Stays, In
<1>5. CASE new = sum
  <2>1. RegOk(left)
    BY <1>1, <1>2, RemovalsOk
  <2>2. MergeOf(sum, left, p.aadd) /\ IsNamespace(left) /\ IsNamespace(p.aadd)
    BY <1>1, <1>5, <2>1, RegSpace, MergedSpace
  <2>3. Over(sum, left, p.aadd)
    BY <2>2, MergedOver
  <2> QED BY <1>4, <1>5, <2>3 DEF Over
<1>6. CASE new = registry /\ p.aremove = {} /\ DOMAIN p.aadd = {}
  BY <1>6 DEF In, Removes
<1>7. new = sum \/ (new = registry /\ p.aremove = {} /\ DOMAIN p.aadd = {})
  BY <1>1 DEF NewRegistry
<1> QED BY <1>5, <1>6, <1>7

\* The verbs the plan looks at.
LEMMA EffIn ==
    ASSUME NEW p \in Proposals, NEW loaded, IsNamespace(loaded), Fit(p, loaded),
           NEW eff, eff = EffectiveDefs(p, loaded), NEW app, NEW a
    PROVE  /\ In(eff, app, a) <=> /\ ~Removes(p.aremove, app, a)
                                  /\ In(loaded, app, a) \/ In(p.aadd, app, a)
           /\ In(eff, app, a) /\ In(p.aadd, app, a) => Act(eff, app, a) = Act(p.aadd, app, a)
           /\ In(eff, app, a) /\ ~In(p.aadd, app, a) => Act(eff, app, a) = Act(loaded, app, a)
<1>1. PICK added : added = Added(p, loaded)
  OBVIOUS
<1>2. IsNamespace(p.aadd)
  BY ReviewAssumption
<1>3. IsNamespace(added) /\ MergeOf(added, loaded, p.aadd)
  BY <1>1, <1>2, AddedSpace
<1>4. Over(added, loaded, p.aadd)
  BY <1>2, <1>3, MergedOver
<1>5. TrimOf(eff, added, p)
  BY <1>1, EffectiveDef
<1>6. Removes(p.aremove, app, a) <=> Gone(p, app, a) \/ Gone(p, app, "")
  <2>1. \A ref \in p.aremove : ref = [app |-> ref.app, action |-> ref.action]
    BY ReviewAssumption
  <2>2. ASSUME NEW b, Gone(p, app, b), b \in {a, ""} PROVE Removes(p.aremove, app, a)
    <3>1. PICK ref : ref = [app |-> app, action |-> b]
      OBVIOUS
    <3>2. ref \in p.aremove /\ ref.app = app /\ ref.action = b
      BY <2>2, <3>1 DEF Gone
    <3> QED BY <2>2, <3>2 DEF Removes
  <2>3. ASSUME NEW ref \in p.aremove, ref.app = app, ref.action \in {a, ""}
        PROVE  Gone(p, app, a) \/ Gone(p, app, "")
    <3>1. ref = [app |-> app, action |-> ref.action]
      BY <2>1, <2>3
    <3> QED BY <2>3, <3>1 DEF Gone
  <2> QED BY <2>2, <2>3 DEF Removes
<1>7. /\ In(eff, app, a) <=> In(added, app, a) /\ ~Gone(p, app, a) /\ ~Gone(p, app, "")
      /\ In(eff, app, a) => Act(eff, app, a) = Act(added, app, a)
  <2>1. CASE app \in DOMAIN eff
    <3>1. PICK d, e : d = added[app] /\ e = eff[app]
      OBVIOUS
    <3>2. app \in DOMAIN added /\ ~Gone(p, app, "") /\ e = Trimmed(p, app, d)
      BY <1>5, <2>1, <3>1 DEF TrimOf
    <3>3. IsDefinition(d)
      BY <1>3, <3>1, <3>2 DEF IsNamespace
    <3>4. /\ \A b : b \in DOMAIN e.actions <=> b \in DOMAIN d.actions /\ ~Gone(p, app, b)
          /\ \A b \in DOMAIN e.actions : e.actions[b] = d.actions[b]
      <4>1. TrimPart(e, d, p, app)
        BY <3>2, <3>3, TrimmedParts
      <4> QED BY <4>1 DEF TrimPart
    <3> QED BY <2>1, <3>1, <3>2, <3>4 DEF In, Act
  <2>2. CASE app \notin DOMAIN eff
    BY <1>5, <2>2 DEF TrimOf, In
  <2> QED BY <2>1, <2>2
<1>8. /\ In(added, app, a) <=> In(loaded, app, a) \/ In(p.aadd, app, a)
      /\ In(p.aadd, app, a) => Act(added, app, a) = Act(p.aadd, app, a)
      /\ In(loaded, app, a) /\ ~In(p.aadd, app, a) => Act(added, app, a) = Act(loaded, app, a)
  BY <1>4 DEF Over
<1> QED BY <1>6, <1>7, <1>8

\* The apply, seen from the namespace it leaves.
LEMMA AfterApply ==
    ASSUME ReviewInv, [ReviewNext]_reviewVars, NEW p \in Proposals, Took(p),
           NEW loaded, loaded = AssembleDefinitions(pending.appsd, registry)
    PROVE  /\ loaded # Conflict /\ IsNamespace(loaded) /\ pending.appsd \in AppsDirs
           /\ pending.findings = Analyze(p, targets, loaded)
           /\ Fit(p, loaded) /\ RegOk(p.aadd) /\ RegOk(registry) /\ RegOk(registry')
           /\ registry' = NewRegistry(p) /\ NewRegistry(p) # Conflict
           /\ targets' = NewTargets(p) /\ NewTargets(p) # Conflict /\ appsd' = appsd
<1>1. /\ pending # NoPlan /\ p = pending.p /\ PlanOk(pending, targets, registry)
      /\ Blocking(pending.findings) = {}
      /\ NewTargets(p) # Conflict /\ NewRegistry(p) # Conflict
      /\ targets' = NewTargets(p) /\ registry' = NewRegistry(p) /\ appsd' = appsd
  BY TookApplies
<1>2. /\ loaded # Conflict /\ pending.appsd \in AppsDirs
      /\ pending.findings = Analyze(p, targets, loaded)
  BY <1>1 DEF PlanOk
<1>3. IsNamespace(loaded)
  BY <1>2, NamespaceKnown
<1>4. Fit(p, loaded) /\ RegOk(p.aadd)
  BY <1>1, <1>2, <1>3, Reviewed
<1>5. RegOk(registry) /\ RegOk(registry')
  BY <1>1, <1>4, NewRegistryOk DEF ReviewInv
<1> QED BY <1>1, <1>2, <1>3, <1>4, <1>5

LEMMA PlanMeetsApply ==
    ASSUME ReviewInv, [ReviewNext]_reviewVars, NEW p \in Proposals, Took(p), Plain(p),
           pending.appsd = appsd, Namespace # Conflict,
           \A ref \in p.aremove : ref.app \notin DOMAIN AssembleDefinitions(appsd, << >>)
    PROVE  Commands(EffectiveDefs(p, Namespace)) = Commands(Namespace')
<1>1. PICK low, eff, new : /\ low = MergeInto(Bundled, UserLayer(appsd))
                           /\ eff = EffectiveDefs(p, Namespace) /\ new = NewRegistry(p)
  OBVIOUS
<1>2. Namespace = AssembleDefinitions(pending.appsd, registry)
  BY DEF Namespace
<1>3. /\ IsNamespace(Namespace) /\ Fit(p, Namespace) /\ RegOk(p.aadd) /\ RegOk(registry)
      /\ RegOk(new) /\ registry' = new /\ new # Conflict /\ appsd' = appsd
  BY <1>1, <1>2, AfterApply
<1>4. PICK after : after = AssembleDefinitions(appsd, new)
  OBVIOUS
<1>5. Namespace' = after
  BY <1>3, <1>4 DEF Namespace
<1>6. after # Conflict
  <2>1. CASE new = registry
    BY <1>4, <2>1 DEF Namespace
  <2>2. CASE new # registry
    BY <1>1, <1>3, <1>4, <2>2 DEF NewRegistry
  <2> QED BY <2>1, <2>2
<1>7. IsNamespace(appsd) /\ IsNamespace(registry) /\ IsNamespace(new)
  BY <1>3, RegSpace, ReviewAssumption DEF ReviewInv
<1>8. /\ low # Conflict /\ IsNamespace(low)
      /\ Over(Namespace, low, LoadAppliedFile(registry))
  BY <1>1, <1>3, <1>7, Layers DEF Namespace
<1>9. Over(after, low, LoadAppliedFile(new))
  BY <1>1, <1>3, <1>4, <1>6, <1>7, Layers
<1>10. DOMAIN AssembleDefinitions(appsd, << >>) = DOMAIN low
  <2>1. PICK none, top : none = << >> /\ top = LoadAppliedFile(none)
    OBVIOUS
  <2>2. RegOk(none) /\ DOMAIN none = {}
    BY <2>1 DEF RegOk
  <2>3. IsNamespace(none)
    BY <2>2, RegSpace
  <2>4. IsNamespace(top) /\ DOMAIN top = {}
    BY <2>1, <2>2, <2>3, AppliedSpace
  <2>5. AssembleDefinitions(appsd, none) = MergeInto(low, top)
    BY <1>1, <1>8, <2>1, AssembleDef
  <2>6. PICK M : M = MergeInto(low, top)
    OBVIOUS
  <2>7. \A app \in DOMAIN low \cap DOMAIN top : Merge(low[app], top[app]) # Conflict
    BY <2>4
  <2>8. MergeOf(M, low, top)
    BY <1>8, <2>4, <2>6, <2>7, MergedFit
  <2> QED BY <2>1, <2>4, <2>5, <2>6, <2>8 DEF MergeOf
<1>11. \A app, a : In(low, app, a) => ~Removes(p.aremove, app, a)
  BY <1>10 DEF In, Removes
<1>12. ASSUME NEW app, NEW a, In(p.aadd, app, a) PROVE ~Removes(p.aremove, app, a)
  <2>1. PICK v : v = <<app, a>>
    OBVIOUS
  <2>2. v \in Verbs(p.aadd) /\ v[1] = app /\ v[2] = a
    BY <1>12, <2>1, VerbIn DEF In
  <2>3. \A ref \in p.aremove : ref.app # v[1] \/ ref.action \notin {v[2], ""}
    BY <2>2 DEF Plain
  <2> QED BY <2>2, <2>3 DEF Removes
<1>13. ASSUME NEW app, NEW a
       PROVE  /\ In(eff, app, a) <=> In(after, app, a)
              /\ In(eff, app, a) => Act(eff, app, a).cmd = Act(after, app, a).cmd
  <2>1. /\ In(eff, app, a) <=> /\ ~Removes(p.aremove, app, a)
                               /\ In(Namespace, app, a) \/ In(p.aadd, app, a)
        /\ In(eff, app, a) /\ In(p.aadd, app, a) => Act(eff, app, a) = Act(p.aadd, app, a)
        /\ In(eff, app, a) /\ ~In(p.aadd, app, a) => Act(eff, app, a) = Act(Namespace, app, a)
    BY <1>1, <1>3, EffIn
  <2>2. /\ In(new, app, a) <=> \/ In(p.aadd, app, a)
                               \/ In(registry, app, a) /\ ~Removes(p.aremove, app, a)
        /\ In(p.aadd, app, a) => Act(new, app, a) = Act(p.aadd, app, a)
        /\ In(new, app, a) /\ ~In(p.aadd, app, a) => Act(new, app, a) = Act(registry, app, a)
    BY <1>1, <1>3, NewVerbs
  <2>3. PICK top, was : top = LoadAppliedFile(new) /\ was = LoadAppliedFile(registry)
    OBVIOUS
  <2>4. /\ In(top, app, a) <=> In(new, app, a)
        /\ In(new, app, a) => Act(top, app, a).cmd = Act(new, app, a).cmd
    BY <1>7, <2>3, AppliedIn
  <2>5. /\ In(was, app, a) <=> In(registry, app, a)
        /\ In(registry, app, a) => Act(was, app, a).cmd = Act(registry, app, a).cmd
    BY <1>7, <2>3, AppliedIn
  <2>6. /\ In(after, app, a) <=> In(low, app, a) \/ In(top, app, a)
        /\ In(top, app, a) => Act(after, app, a) = Act(top, app, a)
        /\ In(low, app, a) /\ ~In(top, app, a) => Act(after, app, a) = Act(low, app, a)
    BY <1>9, <2>3 DEF Over
  <2>7. /\ In(Namespace, app, a) <=> In(low, app, a) \/ In(was, app, a)
        /\ In(was, app, a) => Act(Namespace, app, a) = Act(was, app, a)
        /\ In(low, app, a) /\ ~In(was, app, a) => Act(Namespace, app, a) = Act(low, app, a)
    BY <1>8, <2>3 DEF Over
  <2>8. In(low, app, a) => ~Removes(p.aremove, app, a)
    BY <1>11
  <2>9. In(p.aadd, app, a) => ~Removes(p.aremove, app, a)
    BY <1>12
  <2> QED BY <2>1, <2>2, <2>4, <2>5, <2>6, <2>7, <2>8, <2>9
<1>14. Commands(eff) = Commands(after)
  BY <1>13, CommandsEqual
<1> QED BY <1>1, <1>5, <1>14

\* What the plan reviewed is what the apply leaves: the targets, and the verbs with
\* their commands (proposal.EffectiveDefs against applyAppDefinitions and the loader),
\* for any namespaces, registries and proposals.
THEOREM PlanFaithful == ReviewSpec => PlanIsWhatApplies
<1>1. ASSUME ReviewInv, [ReviewNext]_reviewVars
      PROVE  \A p \in Proposals : Took(p) /\ Plain(p) =>
                /\ effectiveTargets(p, targets) = targets'
                /\ /\ pending.appsd = appsd /\ Namespace # Conflict
                   /\ \A ref \in p.aremove : ref.app \notin DOMAIN AssembleDefinitions(appsd, << >>)
                   => Commands(EffectiveDefs(p, Namespace)) = Commands(Namespace')
  <2> SUFFICES ASSUME NEW p \in Proposals, Took(p), Plain(p)
               PROVE  /\ effectiveTargets(p, targets) = targets'
                      /\ /\ pending.appsd = appsd /\ Namespace # Conflict
                         /\ \A ref \in p.aremove :
                                ref.app \notin DOMAIN AssembleDefinitions(appsd, << >>)
                         => Commands(EffectiveDefs(p, Namespace)) = Commands(Namespace')
    OBVIOUS
  <2>1. targets' = NewTargets(p) /\ NewTargets(p) # Conflict
    BY <1>1, TookApplies
  <2>2. effectiveTargets(p, targets) = targets'
    BY <2>1, SameTargets
  <2> QED BY <1>1, <2>2, PlanMeetsApply
<1> QED BY <1>1, Review, PTL DEF ReviewSpec, PlanIsWhatApplies

-----------------------------------------------------------------------------
(* Nothing takes effect unseen *)

\* A merge does not change what an app is.
Execs(M, lower) == \A app \in DOMAIN lower : app \in DOMAIN M /\ M[app].exec = lower[app].exec

LEMMA MergedExecs ==
    ASSUME NEW dst, NEW over, IsNamespace(dst), IsNamespace(over), NEW M, MergeOf(M, dst, over)
    PROVE  Execs(M, dst) /\ Execs(M, over)
<1>1. ASSUME NEW app \in DOMAIN dst \cap DOMAIN over
      PROVE  M[app].exec = dst[app].exec /\ M[app].exec = over[app].exec
  <2>1. PICK d, b, o : d = M[app] /\ b = dst[app] /\ o = over[app]
    OBVIOUS
  <2>2. IsDefinition(b) /\ IsDefinition(o) /\ d = Merge(b, o) /\ d # Conflict
    BY <1>1, <2>1 DEF MergeOf, IsNamespace
  <2> QED BY <2>1, <2>2, Merged
<1>2. \A app \in DOMAIN dst : app \in DOMAIN M /\ M[app].exec = dst[app].exec
  BY <1>1 DEF MergeOf
<1>3. \A app \in DOMAIN over : app \in DOMAIN M /\ M[app].exec = over[app].exec
  BY <1>1 DEF MergeOf
<1> QED BY <1>2, <1>3 DEF Execs

\* Under a privilege boundary a template comes from the registry or is bundled.
Sources(space, reg) ==
    \A app, a :
       /\ In(reg, app, a) => In(space, app, a) /\ Act(space, app, a) = Act(LoadAppliedFile(reg), app, a)
       /\ In(Bundled, app, a) /\ ~In(reg, app, a) =>
             /\ In(space, app, a)
             /\ Act(space, app, a) = Act(Bundled, app, a) \/ Act(space, app, a).cmd = NoCommand
       /\ In(space, app, a) /\ ~In(reg, app, a) /\ Act(space, app, a).cmd # NoCommand =>
             In(Bundled, app, a) /\ Act(space, app, a) = Act(Bundled, app, a)

LEMMA SourcesOf ==
    ASSUME SystemMode, NEW dir, IsNamespace(dir), NEW reg, RegOk(reg),
           NEW space, space = AssembleDefinitions(dir, reg), space # Conflict
    PROVE  Sources(space, reg) /\ Execs(space, reg) /\ Execs(space, Bundled)
<1>1. PICK user, low, top : /\ user = UserLayer(dir) /\ low = MergeInto(Bundled, user)
                            /\ top = LoadAppliedFile(reg)
  OBVIOUS
<1>2. low # Conflict /\ space = MergeInto(low, top)
  BY <1>1, AssembleDef
<1>3. IsNamespace(Bundled) /\ IsNamespace(user) /\ IsNamespace(reg)
  BY <1>1, UserSpace, AppDefsAssumption, RegSpace
<1>4. /\ IsNamespace(top) /\ DOMAIN top = DOMAIN reg
      /\ \A app \in DOMAIN reg : AppliedEntry(top[app], reg[app])
  BY <1>1, <1>3, AppliedSpace
<1>5. IsNamespace(low) /\ MergeOf(low, Bundled, user)
  BY <1>1, <1>2, <1>3, MergedSpace
<1>6. IsNamespace(space) /\ MergeOf(space, low, top)
  BY <1>2, <1>4, <1>5, MergedSpace
<1>7. Over(low, Bundled, user) /\ Over(space, low, top)
  BY <1>3, <1>4, <1>5, <1>6, MergedOver
<1>8. Execs(low, Bundled) /\ Execs(space, low) /\ Execs(space, top)
  BY <1>3, <1>4, <1>5, <1>6, MergedExecs
<1>9. Execs(space, Bundled)
  BY <1>8 DEF Execs
<1>10. Execs(space, reg)
  BY <1>4, <1>8 DEF Execs, AppliedEntry
<1>11. ASSUME NEW app, NEW a
       PROVE  /\ In(reg, app, a) => In(space, app, a) /\ Act(space, app, a) = Act(top, app, a)
              /\ In(Bundled, app, a) /\ ~In(reg, app, a) =>
                    /\ In(space, app, a)
                    /\ Act(space, app, a) = Act(Bundled, app, a) \/ Act(space, app, a).cmd = NoCommand
              /\ In(space, app, a) /\ ~In(reg, app, a) /\ Act(space, app, a).cmd # NoCommand =>
                    In(Bundled, app, a) /\ Act(space, app, a) = Act(Bundled, app, a)
  <2>1. In(top, app, a) <=> In(reg, app, a)
    BY <1>1, <1>3, AppliedIn
  <2>2. /\ In(space, app, a) <=> In(low, app, a) \/ In(top, app, a)
        /\ In(top, app, a) => Act(space, app, a) = Act(top, app, a)
        /\ In(low, app, a) /\ ~In(top, app, a) => Act(space, app, a) = Act(low, app, a)
    BY <1>7 DEF Over
  <2>3. /\ In(low, app, a) <=> In(Bundled, app, a) \/ In(user, app, a)
        /\ In(user, app, a) => Act(low, app, a) = Act(user, app, a)
        /\ In(Bundled, app, a) /\ ~In(user, app, a) => Act(low, app, a) = Act(Bundled, app, a)
    BY <1>7 DEF Over
  <2>4. In(user, app, a) => Act(user, app, a).cmd = NoCommand
    BY <1>1, UserSpace DEF In, Act
  <2> QED BY <2>1, <2>2, <2>3, <2>4
<1>12. Sources(space, reg)
  BY <1>1, <1>11 DEF Sources
<1> QED BY <1>9, <1>10, <1>12

\* The executor of an app of the registry after an apply.
LEMMA NewExec ==
    ASSUME ReviewInv, NEW p \in Proposals, RegOk(p.aadd), NEW new, new = NewRegistry(p),
           new # Conflict
    PROVE  /\ Execs(new, p.aadd)
           /\ \A app \in DOMAIN new \ DOMAIN p.aadd :
                app \in DOMAIN registry /\ new[app].exec = registry[app].exec
<1>1. PICK left, sum : /\ left = RemoveDefinitionActions(registry, p.aremove)
                       /\ sum = MergeInto(left, p.aadd)
  OBVIOUS
<1>2. IsFiniteSet(p.aremove) /\ RegOk(registry)
  BY ReviewAssumption DEF ReviewInv
<1>3. RestOf(left, registry, p.aremove) /\ RegOk(left)
  BY <1>1, <1>2, RemovalsExact, RemovalsOk
<1>4. CASE new = sum
  <2>1. MergeOf(sum, left, p.aadd) /\ IsNamespace(left) /\ IsNamespace(p.aadd)
    BY <1>1, <1>3, <1>4, RegSpace, MergedSpace
  <2>2. Execs(sum, p.aadd)
    BY <2>1, MergedExecs
  <2>3. \A app \in DOMAIN sum \ DOMAIN p.aadd : app \in DOMAIN left /\ sum[app] = left[app]
    BY <2>1 DEF MergeOf
  <2> QED BY <1>3, <1>4, <2>2, <2>3 DEF RestOf
<1>5. CASE new = registry /\ p.aremove = {} /\ DOMAIN p.aadd = {}
  BY <1>5 DEF Execs
<1>6. new = sum \/ (new = registry /\ p.aremove = {} /\ DOMAIN p.aadd = {})
  BY <1>1 DEF NewRegistry
<1> QED BY <1>4, <1>5, <1>6

\* A call that runs a template runs the command of its action.
LEMMA TemplateOf ==
    ASSUME NEW space, NEW app, NEW a, IsTemplate(Runs(space, app, a))
    PROVE  /\ In(space, app, a) /\ Runs(space, app, a) = Act(space, app, a).cmd
           /\ Act(space, app, a).cmd # NoCommand
           /\ space[app].exec = "ssh" => a \notin curatedActions
           /\ space[app].exec = "system" => a \notin systemBundledVerbs
<1>1. In(space, app, a)
  BY DEF Runs, IsTemplate, In
<1>2. Runs(space, app, a) = RunOf(space[app].exec, a, Act(space, app, a))
  BY <1>1, RunsDef DEF In, Act
<1>3. RunOf(space[app].exec, a, Act(space, app, a)) = Act(space, app, a).cmd
      /\ Act(space, app, a).cmd # NoCommand
  BY <1>2, RunsTemplate
<1>4. RunOf(space[app].exec, a, Act(space, app, a)) \notin {NoCommand, Builtin}
  BY <1>2 DEF IsTemplate
<1>5. space[app].exec = "ssh" => a \notin curatedActions
  BY <1>4 DEF RunOf
<1>6. space[app].exec = "system" => a \notin systemBundledVerbs
  BY <1>4 DEF RunOf
<1> QED BY <1>1, <1>2, <1>3, <1>5, <1>6

\* A verb that exists and is defined otherwise by the proposal has its finding.
Surfaced(p, loaded, app, a) ==
    \E f \in verbReplacementFindings(p, loaded) :
       /\ f.at = <<app, a>> /\ f.id \in {"VERB-REPLACES-APPROVED", "VERB-SHADOWS-BUNDLED"}
       /\ Act(loaded, app, a).root => f.sev = "high"

LEMMA DiffFound ==
    ASSUME NEW p, NEW loaded, NEW app, NEW a, In(p.aadd, app, a), In(loaded, app, a),
           Act(p.aadd, app, a).cmd # Act(loaded, app, a).cmd
    PROVE  Surfaced(p, loaded, app, a)
<1>1. PICK v : v = <<app, a>>
  OBVIOUS
<1>2. v \in Verbs(p.aadd) /\ v \in Verbs(loaded) /\ v[1] = app /\ v[2] = a
  BY <1>1, VerbIn DEF In
<1>3. PICK x, y : x = p.aadd[app].actions[a] /\ y = loaded[app].actions[a]
  OBVIOUS
<1>4. actionSignature(x) # actionSignature(y)
  BY <1>3 DEF actionSignature, Act
<1> DEFINE Diffs == {w \in Verbs(p.aadd) : /\ w \in Verbs(loaded)
                                           /\ actionSignature(p.aadd[w[1]].actions[w[2]])
                                               # actionSignature(loaded[w[1]].actions[w[2]])}
           Of(w) == IF loaded[w[1]].bundled /\ ~loaded[w[1]].actions[w[2]].root
                    THEN Finding("VERB-SHADOWS-BUNDLED", "medium", w)
                    ELSE Finding("VERB-REPLACES-APPROVED", "high", w)
<1>5. v \in Diffs
  BY <1>2, <1>3, <1>4
<1>6. verbReplacementFindings(p, loaded) = {Of(w) : w \in Diffs}
  BY DEF verbReplacementFindings
<1>7. PICK f : f = Of(v)
  OBVIOUS
<1>8. /\ f.at = v /\ f.id \in {"VERB-REPLACES-APPROVED", "VERB-SHADOWS-BUNDLED"}
      /\ y.root => f.sev = "high"
  BY <1>2, <1>3, <1>7 DEF Finding
<1>9. f \in verbReplacementFindings(p, loaded)
  <2> HIDE DEF Diffs, Of
  <2> QED BY <1>5, <1>6, <1>7
<1> QED BY <1>1, <1>3, <1>8, <1>9 DEF Act, Surfaced

LEMMA ReplacementSeen ==
    ASSUME SystemMode, ReviewInv, [ReviewNext]_reviewVars, NEW p \in Proposals, Took(p),
           Namespace # Conflict, Namespace' # Conflict, NEW v \in Verbs(p.aadd),
           IsTemplate(Runs(Namespace, v[1], v[2])),
           Runs(Namespace', v[1], v[2]) # Runs(Namespace, v[1], v[2])
    PROVE  \E f \in pending.findings :
              /\ f.at = v /\ f.id \in {"VERB-REPLACES-APPROVED", "VERB-SHADOWS-BUNDLED"}
              /\ v \in Verbs(registry) => f.sev = "high"
<1>1. PICK app, a : app = v[1] /\ a = v[2]
  OBVIOUS
<1>2. v = <<app, a>> /\ In(p.aadd, app, a)
  BY <1>1, VerbParts DEF In
<1>3. PICK loaded, now, after, new :
        /\ loaded = AssembleDefinitions(pending.appsd, registry)
        /\ now = Namespace /\ after = Namespace' /\ new = NewRegistry(p)
  OBVIOUS
<1>4. /\ loaded # Conflict /\ IsNamespace(loaded) /\ pending.appsd \in AppsDirs
      /\ pending.findings = Analyze(p, targets, loaded)
      /\ Fit(p, loaded) /\ RegOk(p.aadd) /\ RegOk(registry) /\ RegOk(new)
      /\ registry' = new /\ new # Conflict /\ appsd' = appsd
  BY <1>3, AfterApply
<1>5. now = AssembleDefinitions(appsd, registry) /\ after = AssembleDefinitions(appsd, new)
  BY <1>3, <1>4 DEF Namespace
<1>6. IsNamespace(appsd) /\ IsNamespace(pending.appsd) /\ IsNamespace(new) /\ IsNamespace(registry)
  BY <1>4, RegSpace, ReviewAssumption DEF ReviewInv
<1>7. /\ Sources(now, registry) /\ Execs(now, registry) /\ Execs(now, Bundled)
      /\ Sources(after, new) /\ Execs(after, new) /\ Execs(after, Bundled)
      /\ Sources(loaded, registry) /\ Execs(loaded, registry)
  BY <1>3, <1>4, <1>5, <1>6, SourcesOf
<1>8. /\ In(now, app, a) /\ Runs(now, app, a) = Act(now, app, a).cmd
      /\ Act(now, app, a).cmd # NoCommand
      /\ now[app].exec = "ssh" => a \notin curatedActions
      /\ now[app].exec = "system" => a \notin systemBundledVerbs
  BY <1>1, <1>3, TemplateOf
\* What the call runs after the apply is the proposal's command.
<1>9. ASSUME after[app].exec = now[app].exec
      PROVE  Runs(after, app, a) = Act(p.aadd, app, a).cmd
  <2>1. In(new, app, a) /\ Act(new, app, a) = Act(p.aadd, app, a)
    BY <1>2, <1>3, <1>4, NewVerbs
  <2>2. PICK top : top = LoadAppliedFile(new)
    OBVIOUS
  <2>3. Act(top, app, a).cmd = Act(new, app, a).cmd /\ Act(top, app, a).root
    BY <1>6, <2>1, <2>2, AppliedIn
  <2>4. In(after, app, a) /\ Act(after, app, a) = Act(top, app, a)
    BY <1>7, <2>1, <2>2 DEF Sources
  <2>5. Runs(after, app, a) = RunOf(after[app].exec, a, Act(after, app, a))
    BY <2>4, RunsDef DEF In, Act
  <2>6. RunOf(after[app].exec, a, Act(after, app, a)) = Act(after, app, a).cmd
    BY <1>8, <1>9, <2>3, <2>4 DEF RunOf
  <2> QED BY <2>1, <2>3, <2>4, <2>5, <2>6
<1>10. CASE In(registry, app, a)
  <2>1. /\ In(loaded, app, a) /\ Act(loaded, app, a) = Act(now, app, a)
        /\ now[app].exec = registry[app].exec /\ loaded[app].exec = registry[app].exec
    BY <1>7, <1>10 DEF Sources, Execs, In
  <2>2. Act(loaded, app, a).root
    <3>1. PICK was : was = LoadAppliedFile(registry)
      OBVIOUS
    <3>2. Act(was, app, a).root
      BY <1>6, <1>10, <3>1, AppliedIn
    <3>3. Act(loaded, app, a) = Act(was, app, a)
      BY <1>7, <1>10, <3>1 DEF Sources
    <3> QED BY <3>2, <3>3
  <2>3. p.aadd[app].exec = loaded[app].exec
    <3>1. PICK b, o : b = loaded[app] /\ o = p.aadd[app]
      OBVIOUS
    <3>2. Merge(b, o) # Conflict
      BY <1>2, <1>4, <2>1, <3>1 DEF Fit, In
    <3> QED BY <3>1, <3>2 DEF Merge
  <2>4. after[app].exec = p.aadd[app].exec
    <3>1. Execs(new, p.aadd)
      BY <1>3, <1>4, NewExec
    <3> QED BY <1>2, <1>7, <3>1 DEF Execs, In
  <2>5. Act(p.aadd, app, a).cmd # Act(loaded, app, a).cmd
    <3>1. after[app].exec = now[app].exec
      BY <2>1, <2>3, <2>4
    <3>2. Runs(after, app, a) = Act(p.aadd, app, a).cmd
      BY <1>9, <3>1
    <3>3. Runs(after, app, a) # Runs(now, app, a)
      BY <1>1, <1>3
    <3> QED BY <1>8, <2>1, <3>2, <3>3
  <2>6. PICK f \in verbReplacementFindings(p, loaded) :
              /\ f.at = v /\ f.id \in {"VERB-REPLACES-APPROVED", "VERB-SHADOWS-BUNDLED"}
              /\ f.sev = "high"
    <3>1. Surfaced(p, loaded, app, a)
      BY <1>2, <2>1, <2>5, DiffFound
    <3> QED BY <1>2, <2>2, <3>1 DEF Surfaced
  <2>7. f \in pending.findings
    BY <1>4, <2>6 DEF Analyze
  <2> QED BY <2>6, <2>7
<1>11. CASE ~In(registry, app, a)
  <2>1. In(Bundled, app, a) /\ Act(now, app, a) = Act(Bundled, app, a)
    BY <1>7, <1>8, <1>11 DEF Sources
  <2>2. /\ In(loaded, app, a)
        /\ Act(loaded, app, a) = Act(Bundled, app, a) \/ Act(loaded, app, a).cmd = NoCommand
    BY <1>7, <1>11, <2>1 DEF Sources
  <2>3. after[app].exec = now[app].exec
    BY <1>7, <2>1 DEF Execs, In
  <2>4. Act(p.aadd, app, a).cmd # NoCommand
    BY <1>2, ReviewAssumption DEF ValidProposal, In, Act
  <2>5. Act(p.aadd, app, a).cmd # Act(loaded, app, a).cmd
    BY <1>1, <1>3, <1>8, <1>9, <2>1, <2>2, <2>3, <2>4
  <2>6. PICK f \in verbReplacementFindings(p, loaded) :
              f.at = v /\ f.id \in {"VERB-REPLACES-APPROVED", "VERB-SHADOWS-BUNDLED"}
    <3>1. Surfaced(p, loaded, app, a)
      BY <1>2, <2>2, <2>5, DiffFound
    <3> QED BY <1>2, <3>1 DEF Surfaced
  <2>7. f \in pending.findings
    BY <1>4, <2>6 DEF Analyze
  <2>8. v \notin Verbs(registry)
    BY <1>1, <1>11, VerbParts DEF In
  <2> QED BY <2>6, <2>7, <2>8
<1> QED BY <1>10, <1>11

\* What is below the registry does not change with it.
LEMMA SameBelow ==
    ASSUME NEW dir, IsNamespace(dir), NEW reg, RegOk(reg), NEW more, RegOk(more),
           NEW s, s = AssembleDefinitions(dir, reg), s # Conflict,
           NEW t, t = AssembleDefinitions(dir, more), t # Conflict,
           NEW app, NEW a, ~In(reg, app, a), ~In(more, app, a)
    PROVE  /\ In(s, app, a) <=> In(t, app, a)
           /\ In(t, app, a) => Act(s, app, a) = Act(t, app, a)
<1>1. PICK low, top, other : /\ low = MergeInto(Bundled, UserLayer(dir))
                             /\ top = LoadAppliedFile(reg) /\ other = LoadAppliedFile(more)
  OBVIOUS
<1>2. Over(s, low, top) /\ Over(t, low, other)
  BY <1>1, Layers
<1>3. IsNamespace(reg) /\ IsNamespace(more)
  BY RegSpace
<1>4. ~In(top, app, a) /\ ~In(other, app, a)
  BY <1>1, <1>3, AppliedIn
<1> QED BY <1>2, <1>4 DEF Over

\* A verb that runs a template after the apply was before the plan, with its executor
\* and, where the plan showed one, its command.
LEMMA ReachSeen ==
    ASSUME SystemMode, ReviewInv, [ReviewNext]_reviewVars, NEW p \in Proposals, Took(p),
           Namespace' # Conflict, NEW app, NEW a, ~Removes(p.aremove, app, a),
           IsTemplate(Runs(Namespace', app, a)),
           NEW eff, eff = EffectiveDefs(p, AssembleDefinitions(pending.appsd, registry))
    PROVE  /\ In(eff, app, a) /\ eff[app].exec = Namespace'[app].exec
           /\ \/ Act(eff, app, a).cmd = Runs(Namespace', app, a)
              \/ Act(eff, app, a).cmd = NoCommand /\ pending.appsd # appsd
<1>1. PICK loaded, after, new : /\ loaded = AssembleDefinitions(pending.appsd, registry)
                                /\ after = Namespace' /\ new = NewRegistry(p)
  OBVIOUS
<1>2. /\ loaded # Conflict /\ IsNamespace(loaded) /\ pending.appsd \in AppsDirs
      /\ Fit(p, loaded) /\ RegOk(p.aadd) /\ RegOk(registry) /\ RegOk(new)
      /\ registry' = new /\ new # Conflict /\ appsd' = appsd
  BY <1>1, AfterApply
<1>3. after = AssembleDefinitions(appsd, new)
  BY <1>1, <1>2 DEF Namespace
<1>4. IsNamespace(appsd) /\ IsNamespace(pending.appsd) /\ IsNamespace(p.aadd)
  BY <1>2, RegSpace, ReviewAssumption DEF ReviewInv
<1>5. /\ Sources(after, new) /\ Execs(after, new) /\ Execs(after, Bundled)
      /\ Sources(loaded, registry) /\ Execs(loaded, registry) /\ Execs(loaded, Bundled)
  BY <1>1, <1>2, <1>3, <1>4, SourcesOf
<1>6. /\ In(after, app, a) /\ Act(after, app, a).cmd # NoCommand
      /\ Runs(after, app, a) = Act(after, app, a).cmd
  BY <1>1, TemplateOf
<1>7. /\ In(eff, app, a) <=> In(loaded, app, a) \/ In(p.aadd, app, a)
      /\ In(eff, app, a) /\ In(p.aadd, app, a) => Act(eff, app, a) = Act(p.aadd, app, a)
      /\ In(eff, app, a) /\ ~In(p.aadd, app, a) => Act(eff, app, a) = Act(loaded, app, a)
  <2>1. eff = EffectiveDefs(p, loaded)
    BY <1>1
  <2> QED BY <1>2, <2>1, EffIn
<1>8. /\ In(new, app, a) <=> In(p.aadd, app, a) \/ In(registry, app, a)
      /\ In(p.aadd, app, a) => Act(new, app, a) = Act(p.aadd, app, a)
      /\ In(new, app, a) /\ ~In(p.aadd, app, a) => Act(new, app, a) = Act(registry, app, a)
  BY <1>1, <1>2, NewVerbs
<1>9. In(registry, app, a) => In(loaded, app, a)
  BY <1>5 DEF Sources
<1>10. /\ Execs(new, p.aadd)
       /\ \A x \in DOMAIN new \ DOMAIN p.aadd :
             x \in DOMAIN registry /\ new[x].exec = registry[x].exec
  BY <1>1, <1>2, NewExec
<1>11. ~In(new, app, a) => In(Bundled, app, a) /\ In(loaded, app, a)
  <2>1. ~In(new, app, a) => In(Bundled, app, a) /\ ~In(registry, app, a)
    BY <1>5, <1>6, <1>8 DEF Sources
  <2> QED BY <1>5, <2>1 DEF Sources
<1>12. In(eff, app, a)
  BY <1>7, <1>8, <1>9, <1>11
<1>13. PICK added : added = Added(p, loaded)
  OBVIOUS
<1>14. eff[app].exec = added[app].exec /\ MergeOf(added, loaded, p.aadd)
  <2>1. IsNamespace(added) /\ MergeOf(added, loaded, p.aadd)
    BY <1>2, <1>4, <1>13, AddedSpace
  <2>2. TrimOf(eff, added, p)
    BY <1>1, <1>13, EffectiveDef
  <2>3. PICK d, e : d = added[app] /\ e = eff[app]
    OBVIOUS
  <2>4. app \in DOMAIN added /\ e = Trimmed(p, app, d)
    BY <1>12, <2>2, <2>3 DEF TrimOf, In
  <2>5. IsDefinition(d)
    BY <2>1, <2>3, <2>4 DEF IsNamespace
  <2>6. e.exec = d.exec
    BY <2>4, <2>5, TrimmedParts
  <2> QED BY <2>1, <2>3, <2>6
<1>15. Execs(added, loaded) /\ Execs(added, p.aadd)
  BY <1>2, <1>4, <1>14, MergedExecs
<1>16. added[app].exec = after[app].exec
  <2>1. CASE app \in DOMAIN p.aadd
    BY <1>5, <1>10, <1>15, <2>1 DEF Execs
  <2>2. CASE app \notin DOMAIN p.aadd /\ In(new, app, a)
    BY <1>5, <1>10, <1>15, <2>2 DEF Execs, In
  <2>3. CASE ~In(new, app, a)
    <3>1. In(Bundled, app, a) /\ In(loaded, app, a)
      BY <1>11, <2>3
    <3> QED BY <1>5, <1>15, <3>1 DEF Execs, In
  <2> QED BY <2>1, <2>2, <2>3
<1> DEFINE Shown == \/ Act(eff, app, a).cmd = Runs(after, app, a)
                    \/ Act(eff, app, a).cmd = NoCommand /\ pending.appsd # appsd
<1>17. ASSUME In(new, app, a) PROVE Shown
  <2>1. PICK top, was : top = LoadAppliedFile(new) /\ was = LoadAppliedFile(registry)
    OBVIOUS
  <2>2. IsNamespace(new) /\ IsNamespace(registry)
    BY <1>2, RegSpace
  <2>3. Act(after, app, a) = Act(top, app, a) /\ Act(top, app, a).cmd = Act(new, app, a).cmd
    BY <1>5, <1>17, <2>1, <2>2, AppliedIn DEF Sources
  <2>4. CASE In(p.aadd, app, a)
    BY <1>1, <1>6, <1>7, <1>8, <1>12, <2>3, <2>4
  <2>5. CASE ~In(p.aadd, app, a)
    <3>1. In(registry, app, a) /\ Act(new, app, a) = Act(registry, app, a)
      BY <1>8, <1>17, <2>5
    <3>2. Act(loaded, app, a) = Act(was, app, a) /\ Act(was, app, a).cmd = Act(registry, app, a).cmd
      BY <1>5, <2>1, <2>2, <3>1, AppliedIn DEF Sources
    <3> QED BY <1>1, <1>6, <1>7, <1>12, <2>3, <2>5, <3>1, <3>2
  <2> QED BY <2>4, <2>5
<1>18. ASSUME ~In(new, app, a) PROVE Shown
  <2>1. ~In(registry, app, a) /\ ~In(p.aadd, app, a)
    BY <1>8, <1>18
  <2>2. Act(eff, app, a) = Act(loaded, app, a)
    BY <1>7, <1>12, <2>1
  <2>3. In(Bundled, app, a) /\ Act(after, app, a) = Act(Bundled, app, a)
    BY <1>5, <1>6, <1>18 DEF Sources
  <2>4. Act(loaded, app, a) = Act(Bundled, app, a) \/ Act(loaded, app, a).cmd = NoCommand
    BY <1>5, <2>1, <2>3 DEF Sources
  <2>5. CASE pending.appsd = appsd
    <3>1. Act(loaded, app, a) = Act(after, app, a)
      BY <1>1, <1>2, <1>3, <1>4, <1>6, <1>18, <2>1, <2>5, SameBelow
    <3> QED BY <1>1, <1>6, <2>2, <3>1
  <2> QED BY <1>1, <1>6, <2>2, <2>3, <2>4, <2>5
<1> QED BY <1>1, <1>12, <1>14, <1>16, <1>17, <1>18

\* The findings of the grants.
LEMMA WriteFound ==
    ASSUME NEW allows, NEW hosts, NEW defs, DOMAIN allows \subseteq Nat, NEW i \in DOMAIN allows,
           NEW app, NEW a, app = allows[i].app, a = allows[i].action,
           In(defs, app, a), defs[app].exec = "ssh", a \notin curatedActions,
           NEW x \in targetsForRule(allows[i], hosts)
    PROVE  \E k \in DOMAIN allows :
              /\ k <= i /\ allows[k].action = a /\ x \in targetsForRule(allows[k], hosts)
              /\ Finding("SSH-WRITE", "high", <<x, a, Act(defs, allows[k].app, a).cmd>>)
                    \in writeFindings(allows, hosts, defs)
<1>1. a \notin inspectionActions \cup {"restart_service"}
  BY DEF curatedActions, inspectionActions
<1> DEFINE Custom == {j \in DOMAIN allows :
                        /\ allows[j].app \in DOMAIN defs
                        /\ defs[allows[j].app].exec = "ssh"
                        /\ allows[j].action \in DOMAIN defs[allows[j].app].actions
                        /\ allows[j].action \notin inspectionActions \cup {"restart_service"}}
           Hits(y, b) == {j \in Custom : allows[j].action = b /\ y \in targetsForRule(allows[j], hosts)}
           First(y, b) == CHOOSE j \in Hits(y, b) : \A k \in Hits(y, b) : j <= k
           Pairs == UNION {targetsForRule(allows[j], hosts) \X {allows[j].action} : j \in Custom}
           Written(q) == [alias |-> q[1], action |-> q[2],
                        verb |-> defs[allows[First(q[1], q[2])].app].actions[q[2]]]
<1>2. customSSHWrites(allows, hosts, defs) = {Written(q) : q \in Pairs}
  BY DEF customSSHWrites
<1>3. i \in Custom
  BY <1>1 DEF In
<1>4. PICK q : q = <<x, a>>
  OBVIOUS
<1>5. q \in targetsForRule(allows[i], hosts) \X {allows[i].action} /\ q[1] = x /\ q[2] = a
  BY <1>4
<1>6. q \in Pairs
  BY <1>3, <1>5
<1>7. PICK w : w = Written(q)
  OBVIOUS
<1>20. PICK k \in Hits(x, a) : k = First(x, a) /\ \A j \in Hits(x, a) : k <= j
  <2>1. i \in Hits(x, a) /\ Hits(x, a) \in SUBSET Nat
    BY <1>3
  <2>2. \E j \in Hits(x, a) : \A n \in Hits(x, a) : j <= n
    <3> HIDE DEF Hits
    <3> QED BY <2>1, LeastNat
  <2> QED BY <2>2
<1>21. /\ k \in DOMAIN allows /\ k <= i /\ allows[k].action = a
       /\ x \in targetsForRule(allows[k], hosts)
  BY <1>3, <1>20
<1>8. w.alias = x /\ w.action = a /\ w.verb = Act(defs, allows[k].app, a)
  <2> HIDE DEF First
  <2> QED BY <1>5, <1>7, <1>20 DEF Act
<1>9. w \in customSSHWrites(allows, hosts, defs)
  <2> HIDE DEF Pairs, Written
  <2> QED BY <1>2, <1>6, <1>7
<1> HIDE DEF Custom, Hits, First, Pairs, Written
<1> DEFINE writes == customSSHWrites(allows, hosts, defs)
           Prod(y) == \E t \in hosts : t.alias = y /\ t.crit = "prod"
           Of(u) == LET at == <<u.alias, u.action>>
                    IN  {Finding("SSH-WRITE", "high", <<u.alias, u.action, u.verb.cmd>>)}
                        \cup When(Prod(u.alias), "SSH-PROD-WRITE", "high", at)
                        \cup When(~u.verb.verify, "SSH-WRITE-NO-VERIFY",
                                  IF Prod(u.alias) THEN "medium" ELSE "warn", at)
                        \cup When(u.verb.cmd # NoCommand /\ u.verb.cmd.abs, "SSH-SCRIPT-OPAQUE", "warn", at)
                        \cup When(/\ u.verb.cmd # NoCommand /\ u.verb.cmd.abs
                                  /\ \E v \in writes : /\ v.alias = u.alias
                                                       /\ v.verb.cmd # NoCommand
                                                       /\ isPathWriter(v.verb.cmd)
                                  /\ \E t \in hosts : /\ t.alias = u.alias
                                                      /\ underAny(u.verb.cmd.path, t.paths \cup t.prefixes),
                                  "SSH-SCRIPT-WRITABLE", "high", at)
<1>10. writeFindings(allows, hosts, defs) = UNION {Of(u) : u \in writes}
  BY DEF writeFindings
<1>11. Finding("SSH-WRITE", "high", <<w.alias, w.action, w.verb.cmd>>) \in Of(w)
  OBVIOUS
<1>12. Finding("SSH-WRITE", "high", <<w.alias, w.action, w.verb.cmd>>)
          \in writeFindings(allows, hosts, defs)
  <2> HIDE DEF Of
  <2> QED BY <1>9, <1>10, <1>11
<1> QED BY <1>8, <1>12, <1>21

LEMMA SystemFound ==
    ASSUME NEW allows, NEW defs, NEW i \in DOMAIN allows,
           NEW app, NEW a, app = allows[i].app, a = allows[i].action,
           In(defs, app, a), defs[app].exec = "system", a \notin systemBundledVerbs
    PROVE  Finding("SYS-CUSTOM-VERB", "high", <<app, a, Act(defs, app, a).cmd>>)
              \in customSystemVerbs(allows, defs)
BY DEF customSystemVerbs, In, Act

LEMMA SsmFound ==
    ASSUME NEW allows, NEW defs, NEW i \in DOMAIN allows,
           NEW app, NEW a, app = allows[i].app, a = allows[i].action,
           In(defs, app, a), defs[app].exec = "ssm"
    PROVE  Finding("SSM-DEPLOY-CONTRACT", "warn", <<"ssm", "">>) \in ssmGrantFindings(allows, defs)
BY DEF ssmGrantFindings, In, When

\* What a rule of the proposal opens was acknowledged.
LEMMA ReachAcknowledged ==
    ASSUME SystemMode, ReviewInv, [ReviewNext]_reviewVars, NEW p \in Proposals, Took(p), Plain(p),
           NEW after, after = Namespace', after # Conflict, NEW r \in ToSet(p.radd), NEW x,
           NEW cmd, Opens(r, after, targets', x, cmd)
    PROVE  Acknowledged(p, r, after[r.app].exec, targets', x, cmd)
<1>1. PICK loaded, hosts, eff, allows, app, a :
        /\ loaded = AssembleDefinitions(pending.appsd, registry)
        /\ hosts = targets' /\ eff = EffectiveDefs(p, loaded) /\ allows = allowRules(p.radd)
        /\ app = r.app /\ a = r.action
  OBVIOUS
<1>2. /\ pending.findings = Analyze(p, targets, loaded)
      /\ targets' = NewTargets(p) /\ NewTargets(p) # Conflict
  BY <1>1, AfterApply
<1>3. effectiveTargets(p, targets) = hosts
  BY <1>1, <1>2, SameTargets
<1>4. /\ writeFindings(allows, hosts, eff) \subseteq pending.findings
      /\ customSystemVerbs(allows, eff) \subseteq pending.findings
      /\ ssmGrantFindings(allows, eff) \subseteq pending.findings
  BY <1>1, <1>2, <1>3 DEF Analyze
<1>5. /\ r.effect = "allow" /\ cmd = Runs(after, app, a) /\ IsTemplate(cmd)
      /\ \/ after[app].exec = "ssh" /\ x \in targetsForRule(r, hosts)
         \/ after[app].exec \in {"system", "ssm"}
  BY <1>1 DEF Opens
<1>6. PICK i \in DOMAIN p.radd : p.radd[i] = r /\ i \in DOMAIN allows /\ allows[i] = r
  BY <1>1, <1>5, AllowedAt
<1>7. ~Removes(p.aremove, app, a)
  BY <1>1, <1>6 DEF Plain, Removes
<1>8. /\ In(eff, app, a) /\ eff[app].exec = after[app].exec
      /\ Act(eff, app, a).cmd = cmd \/ (Act(eff, app, a).cmd = NoCommand /\ pending.appsd # appsd)
  BY <1>1, <1>5, <1>7, ReachSeen
<1>9. /\ after[app].exec = "ssh" => a \notin curatedActions
      /\ after[app].exec = "system" => a \notin systemBundledVerbs
  BY <1>5, TemplateOf
<1>10. CASE after[app].exec = "ssh"
  <2>1. DOMAIN p.radd \subseteq Nat /\ DOMAIN allows \subseteq Nat
    <3>1. p.radd \in Seq(ToSet(p.radd))
      BY ReviewAssumption
    <3>2. DOMAIN p.radd \subseteq Nat
      BY <3>1
    <3> QED BY <1>1, <3>2 DEF allowRules, Keep
  <2>2. PICK k \in DOMAIN allows :
          /\ k <= i /\ allows[k].action = a /\ x \in targetsForRule(allows[k], hosts)
          /\ Finding("SSH-WRITE", "high", <<x, a, Act(eff, allows[k].app, a).cmd>>)
                \in writeFindings(allows, hosts, eff)
    BY <1>1, <1>5, <1>6, <1>8, <1>9, <1>10, <2>1, WriteFound
  <2>3. PICK shown : shown = Act(eff, allows[k].app, a).cmd
    OBVIOUS
  <2>4. PICK f : f = Finding("SSH-WRITE", "high", <<x, a, shown>>)
    OBVIOUS
  <2>5. f \in pending.findings
    BY <1>4, <2>2, <2>3, <2>4
  <2>6. /\ f.id = "SSH-WRITE" /\ f.sev = "high" /\ f.at[1] = x /\ f.at[2] = a /\ f.at[3] = shown
    BY <2>4 DEF Finding
  <2>7. CASE allows[k].app = app
    <3>1. Said(f, cmd)
      BY <1>8, <2>3, <2>6, <2>7 DEF Said
    <3> QED BY <1>1, <1>10, <2>5, <2>6, <3>1 DEF Acknowledged
  <2>8. CASE allows[k].app # app
    <3>1. /\ k \in DOMAIN p.radd /\ p.radd[k] = allows[k] /\ p.radd[k].effect = "allow"
      BY <1>1, <2>2 DEF allowRules, Keep
    <3>2. k < i
      BY <1>1, <1>6, <2>1, <2>2, <2>8
    <3>3. Namesake(p, r, x, hosts)
      BY <1>1, <1>6, <2>2, <2>8, <3>1, <3>2 DEF Namesake
    <3> QED BY <1>1, <1>10, <2>5, <2>6, <3>3 DEF Acknowledged
  <2> QED BY <2>7, <2>8
<1>11. CASE after[app].exec = "system"
  <2>1. PICK f : f = Finding("SYS-CUSTOM-VERB", "high", <<app, a, Act(eff, app, a).cmd>>)
    OBVIOUS
  <2>2. f \in pending.findings
    BY <1>1, <1>4, <1>6, <1>8, <1>9, <1>11, <2>1, SystemFound
  <2>3. /\ f.id = "SYS-CUSTOM-VERB" /\ f.sev = "high" /\ f.at[1] = app /\ f.at[2] = a
        /\ f.at[3] = Act(eff, app, a).cmd
    BY <2>1 DEF Finding
  <2>4. Said(f, cmd)
    BY <1>8, <2>3 DEF Said
  <2> QED BY <1>1, <1>11, <2>2, <2>3, <2>4 DEF Acknowledged
<1>12. CASE after[app].exec = "ssm"
  <2>1. PICK f : f = Finding("SSM-DEPLOY-CONTRACT", "warn", <<"ssm", "">>)
    OBVIOUS
  <2>2. f \in pending.findings /\ f.id = "SSM-DEPLOY-CONTRACT"
    BY <1>1, <1>4, <1>6, <1>8, <1>12, <2>1, SsmFound DEF Finding
  <2> QED BY <1>1, <1>12, <2>2 DEF Acknowledged
<1> QED BY <1>5, <1>10, <1>11, <1>12

\* A rule reaches a target that stays as it reached it before.
LEMMA StandingTargets ==
    ASSUME NEW p, NEW new, new = NewTargets(p), new # Conflict, NEW now, NEW after, NEW r, NEW x,
           NEW cmd, Opens(r, after, new, x, cmd), ~ThroughStanding(p, r, x, now),
           after[r.app].exec = now[r.app].exec, Runs(now, r.app, r.action) = cmd
    PROVE  Opens(r, now, targets, x, cmd)
<1>1. x \notin Aliases(p.tadd)
  BY DEF ThroughStanding
<1>2. CASE after[r.app].exec = "ssh"
  <2>1. x \in targetsForRule(r, new) /\ x \in Aliases(new)
    BY <1>2 DEF Opens
  <2>2. x \in Aliases(targets)
    <3>1. new \subseteq targets \cup p.tadd
      BY DEF NewTargets
    <3> QED BY <1>1, <2>1, <3>1 DEF Aliases
  <2>3. x \in targetsForRule(r, targets)
    BY <2>1, <2>2 DEF targetsForRule
  <2> QED BY <1>2, <2>2, <2>3 DEF Opens
<1>3. CASE after[r.app].exec # "ssh"
  BY <1>3 DEF Opens
<1> QED BY <1>2, <1>3

\* What the rules that stand open after the apply they opened before, but for the
\* targets and verbs the proposal changes.
LEMMA StandingReach ==
    ASSUME SystemMode, ReviewInv, [ReviewNext]_reviewVars, NEW p \in Proposals, Took(p), Plain(p),
           NEW now, now = Namespace, now # Conflict, NEW after, after = Namespace', after # Conflict,
           NEW r, NEW x, NEW cmd, Opens(r, after, targets', x, cmd), ~ThroughStanding(p, r, x, now)
    PROVE  Opens(r, now, targets, x, cmd)
<1>1. PICK loaded, new, app, a, v :
        /\ loaded = AssembleDefinitions(pending.appsd, registry) /\ new = NewRegistry(p)
        /\ app = r.app /\ a = r.action /\ v = <<app, a>>
  OBVIOUS
<1>2. /\ loaded # Conflict /\ IsNamespace(loaded) /\ pending.appsd \in AppsDirs
      /\ Fit(p, loaded) /\ RegOk(p.aadd) /\ RegOk(registry) /\ RegOk(new)
      /\ registry' = new /\ new # Conflict /\ appsd' = appsd
      /\ targets' = NewTargets(p) /\ NewTargets(p) # Conflict
  BY <1>1, AfterApply
<1>3. now = AssembleDefinitions(appsd, registry) /\ after = AssembleDefinitions(appsd, new)
  BY <1>2 DEF Namespace
<1>4. IsNamespace(appsd) /\ IsNamespace(pending.appsd) /\ IsNamespace(new) /\ IsNamespace(registry)
  BY <1>2, RegSpace, ReviewAssumption DEF ReviewInv
<1>5. /\ Sources(now, registry) /\ Execs(now, registry) /\ Execs(now, Bundled)
      /\ Sources(after, new) /\ Execs(after, new) /\ Execs(after, Bundled)
      /\ Execs(loaded, registry)
  BY <1>1, <1>2, <1>3, <1>4, SourcesOf
<1>6. /\ x \notin Aliases(p.tadd)
      /\ v \in Verbs(p.aadd) => /\ IsTemplate(Runs(now, app, a))
                                /\ ~\E f \in pending.findings :
                                      /\ f.at = v
                                      /\ f.id \in {"VERB-REPLACES-APPROVED", "VERB-SHADOWS-BUNDLED"}
      /\ ~Removes(p.aremove, app, a)
  BY <1>1 DEF ThroughStanding, Removes
<1>7. /\ r.effect = "allow" /\ cmd = Runs(after, app, a) /\ IsTemplate(cmd)
  BY <1>1 DEF Opens
<1>8. In(after, app, a) /\ Act(after, app, a).cmd # NoCommand
  BY <1>7, TemplateOf
<1>9. /\ In(new, app, a) <=> In(p.aadd, app, a) \/ In(registry, app, a)
      /\ In(new, app, a) /\ ~In(p.aadd, app, a) => Act(new, app, a) = Act(registry, app, a)
  BY <1>1, <1>2, <1>6, NewVerbs
<1>10. In(p.aadd, app, a) <=> v \in Verbs(p.aadd)
  BY <1>1, VerbIn DEF In
\* The executor is the same.
<1>11. CASE In(registry, app, a)
  <2>1. now[app].exec = registry[app].exec /\ loaded[app].exec = registry[app].exec
    BY <1>5, <1>11 DEF Execs, In
  <2>2. In(new, app, a) /\ after[app].exec = new[app].exec
    BY <1>5, <1>9, <1>11 DEF Execs, In
  <2>3. ASSUME app \in DOMAIN p.aadd PROVE after[app].exec = now[app].exec
    <3>1. PICK b, o : b = loaded[app] /\ o = p.aadd[app]
      OBVIOUS
    <3>2. app \in DOMAIN loaded
      BY <1>5, <1>11 DEF Execs, In
    <3>3. Merge(b, o) # Conflict
      BY <1>2, <2>3, <3>1, <3>2 DEF Fit
    <3>4. o.exec = b.exec
      BY <3>3 DEF Merge
    <3>5. new[app].exec = p.aadd[app].exec
      BY <1>1, <1>2, <2>3, NewExec DEF Execs
    <3> QED BY <2>1, <2>2, <3>1, <3>4, <3>5
  <2>4. ASSUME app \notin DOMAIN p.aadd PROVE after[app].exec = now[app].exec
    <3>1. app \in DOMAIN new \ DOMAIN p.aadd
      BY <2>2, <2>4 DEF In
    <3>2. new[app].exec = registry[app].exec
      BY <1>1, <1>2, <3>1, NewExec
    <3> QED BY <2>1, <2>2, <3>2
  <2>5. after[app].exec = now[app].exec
    BY <2>3, <2>4
  <2>6. Runs(now, app, a) = cmd
    <3>1. CASE In(p.aadd, app, a)
      <4>1. v[1] = app /\ v[2] = a
        BY <1>1
      <4> QED BY <1>6, <1>7, <1>10, <3>1, <4>1, ReplacementSeen
    <3>2. CASE ~In(p.aadd, app, a)
      <4>1. PICK top, was : top = LoadAppliedFile(new) /\ was = LoadAppliedFile(registry)
        OBVIOUS
      <4>2. /\ Act(top, app, a) = [Act(new, app, a) EXCEPT !.root = TRUE]
            /\ Act(was, app, a) = [Act(registry, app, a) EXCEPT !.root = TRUE]
        BY <1>4, <1>11, <2>2, <4>1, AppliedIn
      <4>3. Act(after, app, a) = Act(top, app, a) /\ Act(now, app, a) = Act(was, app, a)
            /\ In(now, app, a)
        BY <1>5, <1>11, <2>2, <4>1 DEF Sources
      <4>4. Act(after, app, a) = Act(now, app, a)
        BY <1>9, <2>2, <3>2, <4>2, <4>3
      <4>5. /\ Runs(now, app, a) = RunOf(now[app].exec, a, Act(now, app, a))
            /\ Runs(after, app, a) = RunOf(after[app].exec, a, Act(after, app, a))
        BY <1>8, <4>3, RunsDef DEF In, Act
      <4> QED BY <1>7, <2>5, <4>4, <4>5
    <3> QED BY <3>1, <3>2
  <2> QED BY <1>1, <1>2, <2>5, <2>6, StandingTargets
<1>12. CASE ~In(registry, app, a)
  <2>1. In(Bundled, app, a)
    <3>1. CASE In(p.aadd, app, a)
      <4>1. In(now, app, a) /\ Act(now, app, a).cmd # NoCommand
        BY <1>6, <1>10, <3>1, TemplateOf
      <4> QED BY <1>5, <1>12, <4>1 DEF Sources
    <3>2. CASE ~In(p.aadd, app, a)
      BY <1>5, <1>8, <1>9, <1>12, <3>2 DEF Sources
    <3> QED BY <3>1, <3>2
  <2>2. after[app].exec = now[app].exec
    BY <1>5, <2>1 DEF Execs, In
  <2>3. Runs(now, app, a) = cmd
    <3>1. CASE In(p.aadd, app, a)
      <4>1. v[1] = app /\ v[2] = a
        BY <1>1
      <4> QED BY <1>6, <1>7, <1>10, <3>1, <4>1, ReplacementSeen
    <3>2. CASE ~In(p.aadd, app, a)
      <4>1. ~In(new, app, a)
        BY <1>9, <1>12, <3>2
      <4>2. In(now, app, a) /\ Act(now, app, a) = Act(after, app, a)
        BY <1>2, <1>3, <1>4, <1>8, <1>12, <4>1, SameBelow
      <4>3. /\ Runs(now, app, a) = RunOf(now[app].exec, a, Act(now, app, a))
            /\ Runs(after, app, a) = RunOf(after[app].exec, a, Act(after, app, a))
        BY <1>8, <4>2, RunsDef DEF In, Act
      <4> QED BY <1>7, <2>2, <4>2, <4>3
    <3> QED BY <3>1, <3>2
  <2> QED BY <1>1, <1>2, <2>2, <2>3, StandingTargets
<1> QED BY <1>11, <1>12

\* Under a privilege boundary the plan showed every template that replaces another, and
\* every template a rule of the proposal opens was acknowledged with its command, but for
\* ssm templates and namesakes; through the rules that stood before an apply opens
\* nothing but what comes with its own targets and verbs, even when the user rewrites
\* apps.d between the plan and the apply (proposal.Analyze against what applyMutations
\* leaves).
THEOREM OperatorSaw ==
    ASSUME SystemMode
    PROVE  ReviewSpec => GrantsShown
<1>1. ASSUME ReviewInv, [ReviewNext]_reviewVars
      PROVE  \A p \in Proposals : Took(p) /\ Namespace # Conflict /\ Namespace' # Conflict =>
                \A v \in Verbs(p.aadd) :
                    LET old == Runs(Namespace, v[1], v[2])
                    IN  IsTemplate(old) /\ Runs(Namespace', v[1], v[2]) # old =>
                            \E f \in pending.findings :
                                /\ f.at = v
                                /\ f.id \in {"VERB-REPLACES-APPROVED", "VERB-SHADOWS-BUNDLED"}
                                /\ v \in Verbs(registry) => f.sev = "high"
  BY <1>1, ReplacementSeen
<1>2. ASSUME ReviewInv, [ReviewNext]_reviewVars
      PROVE  \A p \in Proposals : Took(p) /\ Plain(p) =>
                \A after \in {Namespace'} \ {Conflict}, now \in {Namespace} :
                    \A r \in rules' : \A x \in Aliases(targets') \cup {""} :
                        LET cmd == Runs(after, r.app, r.action)
                        IN  Opens(r, after, targets', x, cmd) =>
                                IF r \in ToSet(p.radd)
                                THEN Acknowledged(p, r, after[r.app].exec, targets', x, cmd)
                                ELSE now # Conflict => \/ Opens(r, now, targets, x, cmd)
                                                       \/ ThroughStanding(p, r, x, now)
  <2> SUFFICES ASSUME NEW p \in Proposals, Took(p), Plain(p), NEW after, after = Namespace',
                      after # Conflict, NEW now, now = Namespace, NEW r \in rules', NEW x, NEW cmd,
                      cmd = Runs(after, r.app, r.action), Opens(r, after, targets', x, cmd)
               PROVE  IF r \in ToSet(p.radd)
                      THEN Acknowledged(p, r, after[r.app].exec, targets', x, cmd)
                      ELSE now # Conflict => \/ Opens(r, now, targets, x, cmd)
                                             \/ ThroughStanding(p, r, x, now)
    OBVIOUS
  <2>1. r \in ToSet(p.radd) => Acknowledged(p, r, after[r.app].exec, targets', x, cmd)
    BY <1>2, ReachAcknowledged
  <2>2. now # Conflict => Opens(r, now, targets, x, cmd) \/ ThroughStanding(p, r, x, now)
    BY <1>2, StandingReach
  <2> QED BY <2>1, <2>2
<1>3. ReviewSpec => ReplacementSurfaced
  BY <1>1, Review, PTL DEF ReviewSpec, ReplacementSurfaced
<1>4. ReviewSpec => NewReachAcknowledged
  BY <1>2, Review, PTL DEF ReviewSpec, NewReachAcknowledged
<1> QED BY <1>3, <1>4 DEF GrantsShown
=============================================================================

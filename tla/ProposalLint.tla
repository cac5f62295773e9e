---------------------------- MODULE ProposalLint ----------------------------
(***************************************************************************)
(* The review of a proposal, from package proposal: the state it would     *)
(* leave (EffectiveDefs, effectiveTargets), the findings of Analyze and    *)
(* what each of them asks of the operator. Pure operators.                 *)
(*                                                                         *)
(*   proposal  [tadd, tremove, aadd, aremove, radd, rremove]: targets to   *)
(*             add, aliases to remove, a namespace of verbs to add, refs   *)
(*             [app, action] to remove, a sequence of rules to add and a   *)
(*             set of rules to remove                                      *)
(*   rule      [effect, agent, app, action, constraints]                   *)
(*   target    [alias, user, key, crit, services, paths, prefixes, uploads]*)
(*             with key the warnings of AuditKeyProtection on its identity *)
(*   finding   [id, sev, at]: at is what the finding names and, where it   *)
(*             says what a verb runs, the command it says                  *)
(*                                                                         *)
(* A path is the sequence of its elements: <<>> is "/". A proposal defines *)
(* an app once and names its executor. Left out: the SYS-APP, SYS-PKG,     *)
(* SYS-DISRUPTIVE and SYS-SUDO findings on the system allow-lists, the     *)
(* unverified parallel path, the metadata stamp, and the advice on the     *)
(* effects of commands (SSH-OPS-HAZARD, SSH-WRITE-NO-IMPACT,               *)
(* SSH-IMPACT-MISMATCH), with what pinned host facts escalate.             *)
(***************************************************************************)
EXTENDS AppDefs

CONSTANTS
    Bounds,     \* [blocking, rootUser, requireKey, secrets, files, webroots, broad, maxTargets]
    HomeDir     \* the home directory of the agent's user

inspectionActions == {"check_host", "host_metrics", "service_status", "tail_logs",
                      "read_file", "list_dir"}
readActions == {"read_file", "list_dir"}
serviceActions == {"service_status", "tail_logs", "restart_service"}

Finding(id, sev, at) == [id |-> id, sev |-> sev, at |-> at]
When(test, id, sev, at) == IF test THEN {Finding(id, sev, at)} ELSE {}

----------------------------------------------------------------------------
(* The state after apply. *)

EffectiveDefs(p, loaded) ==
    LET Fits(app) == app \notin DOMAIN loaded \/ Merge(loaded[app], p.aadd[app]) # Conflict
        added == MergeInto(loaded, Keep(p.aadd, {app \in DOMAIN p.aadd : Fits(app)}))
        Gone(app, a) == [app |-> app, action |-> a] \in p.aremove
    IN  [app \in {a \in DOMAIN added : ~Gone(a, "")} |->
            [added[app] EXCEPT !.actions = Keep(@, {a \in DOMAIN @ : ~Gone(app, a)})]]

\* Mutant: the removals are not looked at.
MutEffectiveTargets(p, live) == live \cup {t \in p.tadd : \A u \in live : u.alias # t.alias}

(* A target that exists is kept as it is when the proposal adds it again.  *)
effectiveTargets(p, live) ==
    LET new == {t \in p.tadd : \A u \in live : u.alias # t.alias}
    IN  {t \in live \cup new : t.alias \notin p.tremove}

(* The allow rules, each at its place in the list.                         *)
allowRules(rules) == Keep(rules, {i \in DOMAIN rules : rules[i].effect = "allow"})

Aliases(targets) == {t.alias : t \in targets}

targetsForRule(r, targets) ==
    IF "target" \in DOMAIN r.constraints THEN {r.constraints["target"]} ELSE Aliases(targets)

targetsForActions(allows, targets, actions) ==
    UNION {targetsForRule(allows[i], targets) :
        i \in {j \in DOMAIN allows : allows[j].app = "ssh" /\ allows[j].action \in actions}}

----------------------------------------------------------------------------
(* Paths. The code compares child against parent + "/", so nothing is      *)
(* under "/" itself.                                                       *)

isUnder(child, parent) == parent # <<>> /\ IsStrictPrefix(parent, child)

underAny(path, prefixes) == \E q \in prefixes : path = q \/ isUnder(path, q)

\* Mutant: a grant above a secret is forgotten.
MutReachesSecret(grant) == \E s \in Bounds.secrets : grant = s \/ isUnder(grant, s)

reachesSecret(grant) ==
    \E s \in Bounds.secrets : grant = s \/ isUnder(grant, s) \/ isUnder(s, grant)

uploadSourceRisk(src) ==
    LET ssh == Append(HomeDir, ".ssh")
    IN  \/ reachesSecret(src)
        \/ src = HomeDir \/ isUnder(HomeDir, src)
        \/ src = ssh \/ isUnder(src, ssh)
        \/ src \in {<<>>, <<"etc">>, <<"Users">>, <<"home">>, <<"var">>, <<"private">>, <<"root">>}

secretConfigFile(grant) == grant # <<>> /\ Last(grant) \in Bounds.files

(* SSHTargetAllowsPath, the executor's side of the same lists.             *)
SSHTargetAllowsPath(t, path) == path \in t.paths \/ underAny(path, t.prefixes)

----------------------------------------------------------------------------
(* Command templates. *)

shellPassthrough(c) ==
    \/ c.prog = "param" /\ c.alone
    \/ c.prog = "eval"
    \/ c.prog = "shell" /\ c.body

systemPassthrough(c) == ~c.abs \/ c.prog \in {"param", "shell", "eval"}

systemSelfGovern(c) == c.prog \in {"tee", "writer"}

(* The shape that its executor asks of a template.                         *)
Shaped(exec, c) == IF exec = "system" THEN ~systemPassthrough(c) /\ ~systemSelfGovern(c)
                   ELSE ~shellPassthrough(c)

isPathWriter(c) == c.redirect \/ (c.prog = "tee" /\ c.params)

\* Mutant: a start does not bring back what a stop took down.
MutFailureWalk(steps) ==
    LET Objects == {steps[i].object : i \in DOMAIN steps} \ {""}
        down[i \in 0 .. Len(steps)] ==
            IF i = 0 THEN [o \in Objects |-> ""]
            ELSE LET e == steps[i]
                 IN  CASE e.object = "" -> down[i - 1]
                       [] e.object # "" /\ e.class \in {"stop", "delete"} ->
                            [down[i - 1] EXCEPT ![e.object] = e.class]
                       [] OTHER -> down[i - 1]
    IN  [i \in DOMAIN steps |-> {o \in Objects : down[i - 1][o] # ""}]

(* For each step, what is stopped or deleted when it fails: the states the *)
(* steps before it have accumulated.                                       *)
failureWalk(steps) ==
    LET Objects == {steps[i].object : i \in DOMAIN steps} \ {""}
        down[i \in 0 .. Len(steps)] ==
            IF i = 0 THEN [o \in Objects |-> ""]
            ELSE LET e == steps[i]
                 IN  CASE e.object = "" -> down[i - 1]
                       [] e.object # "" /\ e.class \in {"stop", "delete"} ->
                            [down[i - 1] EXCEPT ![e.object] = e.class]
                       [] e.object # "" /\ e.class \in {"start", "recreate", "restart"} ->
                            [down[i - 1] EXCEPT ![e.object] = ""]
                       [] OTHER -> down[i - 1]
    IN  [i \in DOMAIN steps |-> {o \in Objects : down[i - 1][o] # ""}]

----------------------------------------------------------------------------
(* Findings on the verbs of the proposal. *)

Verbs(space) == UNION {{app} \X DOMAIN space[app].actions : app \in DOMAIN space}

conflictFindings(p, loaded) ==
    {Finding("APP-DEF-CONFLICT", "high", <<app, "">>) :
        app \in {x \in DOMAIN p.aadd \cap DOMAIN loaded : Merge(loaded[x], p.aadd[x]) = Conflict}}

actionSignature(a) == <<a.cmd, a.verify, a.impact, a.params>>

(* verbDiffs and verbReplacementFindings: replacing a bundled action is    *)
(* advisory, replacing any other asks for an acknowledgement.              *)
verbReplacementFindings(p, loaded) ==
    LET Diffs == {v \in Verbs(p.aadd) : /\ v \in Verbs(loaded)
                                        /\ actionSignature(p.aadd[v[1]].actions[v[2]])
                                            # actionSignature(loaded[v[1]].actions[v[2]])}
    IN  {IF loaded[v[1]].bundled /\ ~loaded[v[1]].actions[v[2]].root
         THEN Finding("VERB-SHADOWS-BUNDLED", "medium", v)
         ELSE Finding("VERB-REPLACES-APPROVED", "high", v) : v \in Diffs}

(* A template that is a generic runner, judged by the executor of the      *)
(* namespace the verb joins.                                               *)
passthroughFindings(p, eff) ==
    LET Exec(app) == IF app \in DOMAIN eff THEN eff[app].exec ELSE p.aadd[app].exec
        Of(v) == LET c == p.aadd[v[1]].actions[v[2]].cmd
                 IN  CASE Exec(v[1]) = "system" ->
                            When(systemPassthrough(c), "SYS-SHELL-PASSTHROUGH", "high", v)
                            \cup When(~systemPassthrough(c) /\ systemSelfGovern(c),
                                      "SYS-SELF-GOVERN", "high", v)
                       [] Exec(v[1]) = "ssm" ->
                            When(shellPassthrough(c), "SSM-RUNSHELL-ARBITRARY", "high", v)
                       [] OTHER -> When(shellPassthrough(c), "SSH-SHELL-PASSTHROUGH", "high", v)
    IN  UNION {Of(v) : v \in Verbs(p.aadd)}

passthroughModeFindings(p) ==
    {Finding("APP-PASSTHROUGH-UNSCOPED", "high", <<app, "">>) :
        app \in {x \in DOMAIN p.aadd : p.aadd[x].mode = "passthrough"}}

----------------------------------------------------------------------------
(* Findings on the targets. *)

(* One finding per warning; those that prove the key readable make one.    *)
keyExposureFindings(t) ==
    LET at == <<t.alias, "">>
    IN  {CASE w = "none" -> IF Bounds.requireKey THEN Finding("SSH-KEY-READABLE", "high", at)
                            ELSE Finding("SSH-KEY-EXPOSED", "warn", at)
           [] w = "directory" -> Finding("SSH-KEY-INVALID", "high", at)
           [] w \in {"dotssh", "mode", "owner"} -> Finding("SSH-KEY-READABLE", "high", at)
           [] w = "missing" -> Finding("SSH-KEY-MISSING", "warn", at)
           [] OTHER -> Finding("SSH-KEY-EXPOSED", "warn", at) : w \in t.key}

targetFindings(p) ==
    UNION {When(t.user = "root", "SSH-ROOT-USER", "high", <<t.alias, "">>)
           \cup keyExposureFindings(t)
           \cup When(\E src \in t.uploads : uploadSourceRisk(src),
                     "SSH-UPLOAD-SECRET", "high", <<t.alias, "">>) : t \in p.tadd}

(* What a granted read reaches on a target, the gravest reason first.      *)
readFindings(allows, targets) ==
    LET readable == {t \in targets : t.alias \in targetsForActions(allows, targets, readActions)}
        Of(t, q) ==
            LET at == <<t.alias, "">>
            IN  CASE reachesSecret(q) -> Finding("SSH-SECRET-PATH", "high", at)
                  [] ~reachesSecret(q) /\ secretConfigFile(q) ->
                        Finding("SSH-FILE-SECRET", "medium", at)
                  [] ~reachesSecret(q) /\ ~secretConfigFile(q) /\ underAny(q, Bounds.webroots) ->
                        Finding("SSH-WEBROOT-CONFIG", "medium", at)
                  [] OTHER -> Finding(IF q \in Bounds.broad THEN "SSH-BROAD-PREFIX" ELSE "none",
                                      "medium", at)
    IN  {f \in {Of(t, q) : t \in readable, q \in UNION {u.paths \cup u.prefixes : u \in readable}} :
            \E t \in readable : \E q \in t.paths \cup t.prefixes : f = Of(t, q) /\ f.id # "none"}

conflictingTargets(p, live) ==
    {Finding("SSH-TARGET-CONFLICT", "high", <<t.alias, "">>) :
        t \in {u \in p.tadd : \E old \in live : old.alias = u.alias /\ old # u}}

----------------------------------------------------------------------------
(* Findings on the grants of the proposal. *)

\* Mutant: only the app named ssh is searched for ssh verbs.
MutCustomSSHWrites(allows, targets, defs) ==
    {[alias |-> x, action |-> allows[i].action,
      verb |-> defs["ssh"].actions[allows[i].action]] :
        x \in Aliases(targets),
        i \in {j \in DOMAIN allows : /\ allows[j].app = "ssh"
                                     /\ allows[j].action \in DOMAIN defs["ssh"].actions
                                     /\ allows[j].action \notin curatedActions}}

(* The defined verbs of ssh apps that are not curated, by target and       *)
(* action: of two apps with a verb of one name, the first rule's counts.   *)
customSSHWrites(allows, targets, defs) ==
    LET Custom == {i \in DOMAIN allows :
                    /\ allows[i].app \in DOMAIN defs
                    /\ defs[allows[i].app].exec = "ssh"
                    /\ allows[i].action \in DOMAIN defs[allows[i].app].actions
                    /\ allows[i].action \notin inspectionActions \cup {"restart_service"}}
        Hits(x, a) == {i \in Custom : allows[i].action = a /\ x \in targetsForRule(allows[i], targets)}
        First(x, a) == CHOOSE i \in Hits(x, a) : \A j \in Hits(x, a) : i <= j
        Pairs == UNION {targetsForRule(allows[i], targets) \X {allows[i].action} : i \in Custom}
    IN  {[alias |-> q[1], action |-> q[2],
          verb |-> defs[allows[First(q[1], q[2])].app].actions[q[2]]] : q \in Pairs}

writeFindings(allows, targets, defs) ==
    LET writes == customSSHWrites(allows, targets, defs)
        Prod(x) == \E t \in targets : t.alias = x /\ t.crit = "prod"
        Of(w) == LET at == <<w.alias, w.action>>
                 IN  {Finding("SSH-WRITE", "high", <<w.alias, w.action, w.verb.cmd>>)}
                     \cup When(Prod(w.alias), "SSH-PROD-WRITE", "high", at)
                     \cup When(~w.verb.verify, "SSH-WRITE-NO-VERIFY",
                               IF Prod(w.alias) THEN "medium" ELSE "warn", at)
                     \cup When(w.verb.cmd # NoCommand /\ w.verb.cmd.abs, "SSH-SCRIPT-OPAQUE", "warn", at)
                     \cup When(/\ w.verb.cmd # NoCommand /\ w.verb.cmd.abs
                               /\ \E v \in writes : /\ v.alias = w.alias
                                                    /\ v.verb.cmd # NoCommand
                                                    /\ isPathWriter(v.verb.cmd)
                               /\ \E t \in targets : /\ t.alias = w.alias
                                                     /\ underAny(w.verb.cmd.path, t.paths \cup t.prefixes),
                               "SSH-SCRIPT-WRITABLE", "high", at)
    IN  UNION {Of(w) : w \in writes}

disruptiveFindings(allows, targets) ==
    {Finding("SSH-DISRUPTIVE", "high", <<x, "">>) :
        x \in targetsForActions(allows, targets, {"restart_service"})}

(* agentTargetCounts against the bound; 0 is no bound.                     *)
maxTargetFindings(allows, targets) ==
    LET Reached(agent) == UNION {targetsForRule(allows[i], targets) :
                            i \in {j \in DOMAIN allows : allows[j].app = "ssh" /\ allows[j].agent = agent}}
    IN  {Finding("POLICY-MAX-TARGETS", "high", <<agent, "">>) :
            agent \in {allows[i].agent : i \in {j \in DOMAIN allows :
                /\ Bounds.maxTargets > 0
                /\ Cardinality(Reached(allows[j].agent)) > Bounds.maxTargets}}}

customSystemVerbs(allows, defs) ==
    {Finding("SYS-CUSTOM-VERB", "high",
             <<allows[i].app, allows[i].action, defs[allows[i].app].actions[allows[i].action].cmd>>) :
        i \in {j \in DOMAIN allows : /\ allows[j].app \in DOMAIN defs
                                     /\ defs[allows[j].app].exec = "system"
                                     /\ allows[j].action \notin systemBundledVerbs
                                     /\ allows[j].action \in DOMAIN defs[allows[j].app].actions}}

ssmGrantFindings(allows, defs) ==
    LET Granted == {i \in DOMAIN allows : /\ allows[i].app \in DOMAIN defs
                                          /\ defs[allows[i].app].exec = "ssm"
                                          /\ allows[i].action \in DOMAIN defs[allows[i].app].actions}
    IN  {Finding("SSM-BROAD-SCOPE", "warn", <<allows[i].app, allows[i].action>>) :
            i \in {j \in Granted : "target" \notin DOMAIN allows[j].constraints}}
        \cup When(Granted # {}, "SSM-DEPLOY-CONTRACT", "warn", <<"ssm", "">>)

Keys(a) == {q.key : q \in a.params}

(* The rules that can never fire: on an alias that will not exist, on a    *)
(* service no target offers, on an app or a verb there is not, or          *)
(* constrained on a key the verb does not carry.                           *)
deadRules(p, targets, defs) ==
    LET At(r) == {t \in targets : t.alias \in targetsForRule(r, targets)}
        NoTarget(r) == "target" \in DOMAIN r.constraints /\ At(r) = {}
        NoService(r) ==
            \/ r.action \in serviceActions /\ \A t \in At(r) : t.services = {}
            \/ /\ "service" \in DOMAIN r.constraints
               /\ \A t \in At(r) : r.constraints["service"] \notin t.services
        Known(r) == r.app \in DOMAIN defs /\ r.action \in DOMAIN defs[r.app].actions
    IN  {r \in {p.radd[i] : i \in DOMAIN p.radd} :
            \/ r.app = "ssh" /\ (NoTarget(r) \/ NoService(r))
            \/ ~Known(r)
            \/ Known(r) /\ ~(DOMAIN r.constraints \subseteq Keys(defs[r.app].actions[r.action]))}

deadRuleFindings(p, targets, defs) ==
    {Finding("POLICY-DEAD-RULE", IF r.effect = "deny" THEN "medium" ELSE "warn",
             <<r.app, r.action>>) : r \in deadRules(p, targets, defs)}

----------------------------------------------------------------------------
(* Analyze, and what a finding asks for. *)

Analyze(p, live, loaded) ==
    LET targets == effectiveTargets(p, live)
        defs == EffectiveDefs(p, loaded)
        allows == allowRules(p.radd)
    IN  conflictFindings(p, loaded) \cup verbReplacementFindings(p, loaded)
        \cup targetFindings(p) \cup readFindings(allows, targets)
        \cup disruptiveFindings(allows, targets) \cup writeFindings(allows, targets, defs)
        \cup conflictingTargets(p, live) \cup maxTargetFindings(allows, targets)
        \cup customSystemVerbs(allows, defs) \cup passthroughFindings(p, defs)
        \cup passthroughModeFindings(p) \cup deadRuleFindings(p, targets, defs)
        \cup ssmGrantFindings(allows, defs)

isBlocking(f) ==
    \/ f.id \in Bounds.blocking
    \/ f.id \in {"SSH-SHELL-PASSTHROUGH", "SYS-SHELL-PASSTHROUGH", "SSM-RUNSHELL-ARBITRARY",
                 "SYS-SELF-GOVERN", "APP-DEF-CONFLICT", "SSH-UPLOAD-SECRET", "SSH-SCRIPT-WRITABLE"}
    \/ f.id = "SSH-ROOT-USER" /\ Bounds.rootUser = "deny"

(* BuildPlan: the findings that block, and those to acknowledge.           *)
Blocking(findings) == {f \in findings : isBlocking(f)}
Acknowledge(findings) == {f \in findings : ~isBlocking(f) /\ f.sev = "high"}

(* Proposal.Validate, beyond the fields of the records.                    *)
ValidProposal(p) ==
    /\ \A app \in DOMAIN p.aadd : /\ p.aadd[app].exec \in {"ssh", "ssm", "system"}
                                  /\ DOMAIN p.aadd[app].actions # {}
                                  /\ \A a \in DOMAIN p.aadd[app].actions :
                                        p.aadd[app].actions[a].cmd # NoCommand
    /\ \A i \in DOMAIN p.radd : p.radd[i].effect \in {"allow", "deny"}
=============================================================================

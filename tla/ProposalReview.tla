--------------------------- MODULE ProposalReview ---------------------------
(***************************************************************************)
(* Proposals one after the other (cli/plan.go, package proposal): each is  *)
(* planned against the configuration it finds, shown to the operator and,  *)
(* unless a finding blocks it or the operator declines, applied. The user  *)
(* may rewrite apps.d at any time, between a plan and its apply too.       *)
(*                                                                         *)
(* How one apply writes its files, fails half way and rolls back is module *)
(* Apply; here an apply takes effect or changes nothing.                   *)
(***************************************************************************)
EXTENDS ProposalLint

CONSTANTS
    Proposals,      \* the proposals that come in
    AppsDirs,       \* what the user may put into apps.d
    InitTargets,    \* the SSH targets at the start
    Hidden,         \* files at or under a secret path
    NoPlan,         \* no proposal is being reviewed
    MaxApplies      \* bound on the applies

\* The bundled templates have the shape asked of proposals, the first targets have
\* an alias each, a proposal lists its rules, its removals and the steps of its verbs,
\* and a path is the sequence of its elements.
ASSUME ReviewAssumption ==
    /\ \A v \in Verbs(Bundled) : LET cmd == Runs(Bundled, v[1], v[2])
                                 IN  IsTemplate(cmd) => Shaped(Bundled[v[1]].exec, cmd)
    /\ \A dir \in AppsDirs : IsNamespace(dir)
    /\ \A t, u \in InitTargets : t.alias = u.alias => t = u
    /\ \A p \in Proposals :
          /\ ValidProposal(p) /\ IsNamespace(p.aadd) /\ IsFiniteSet(p.aremove)
          /\ p.radd \in Seq(ToSet(p.radd))
          /\ \A ref \in p.aremove : ref = [app |-> ref.app, action |-> ref.action]
          /\ \A v \in Verbs(p.aadd) : LET steps == p.aadd[v[1]].actions[v[2]].cmd.steps
                                      IN  steps \in Seq(ToSet(steps))
    /\ \A q \in Hidden : underAny(q, Bounds.secrets)
    /\ Hidden \cup Bounds.secrets \subseteq Seq(STRING)
    /\ \A t \in InitTargets \cup UNION {p.tadd : p \in Proposals} :
          t.paths \cup t.prefixes \subseteq Seq(STRING)
    /\ MaxApplies \in Nat

VARIABLES
    targets,    \* ssh_targets.yaml
    registry,   \* the applied-verb registry
    rules,      \* policies.yaml
    appsd,      \* the user's apps.d
    pending,    \* the proposal under review with its findings
    applies     \* applies so far

reviewVars == <<targets, registry, rules, appsd, pending, applies>>

Namespace == AssembleDefinitions(appsd, registry)

ReviewInit ==
    /\ targets = InitTargets
    /\ registry = << >>
    /\ rules = {}
    /\ appsd \in AppsDirs
    /\ pending = NoPlan
    /\ applies = 0

----------------------------------------------------------------------------
EditAppsDir ==
    /\ appsd' \in AppsDirs \ {appsd}
    /\ UNCHANGED <<targets, registry, rules, pending, applies>>

(* buildPlanFor: a namespace that does not load ends the command.          *)
PlanProposal(p) ==
    /\ pending = NoPlan /\ applies < MaxApplies
    /\ Namespace # Conflict
    /\ pending' = [p |-> p, findings |-> Analyze(p, targets, Namespace), appsd |-> appsd]
    /\ UNCHANGED <<targets, registry, rules, appsd, applies>>

(* The plan is blocked, or the operator does not type what is asked.       *)
Refuse ==
    /\ pending # NoPlan
    /\ Blocking(pending.findings) \cup Acknowledge(pending.findings) # {}
    /\ pending' = NoPlan
    /\ UNCHANGED <<targets, registry, rules, appsd, applies>>

(* The refs of a proposal are removed one after the other.                 *)
RemoveDefinitionActions(list, refs) ==
    LET order == SetToSeq(refs)
        left[n \in 0 .. Len(order)] ==
            IF n = 0 THEN list ELSE RemoveDefinitionAction(left[n - 1], order[n])
    IN  left[Len(order)]

(* applyAppDefinitions: the removals, then the verbs; the namespace must   *)
(* load with the result.                                                   *)
NewRegistry(p) ==
    LET new == MergeInto(RemoveDefinitionActions(registry, p.aremove), p.aadd)
    IN  CASE p.aremove = {} /\ DOMAIN p.aadd = {} -> registry
          [] new # Conflict /\ AssembleDefinitions(appsd, new) # Conflict -> new
          [] OTHER -> Conflict

(* The targets: the removals, then the additions; one that is there with   *)
(* other settings, also from this proposal, stops the apply.               *)
NewTargets(p) ==
    LET left == {t \in targets : t.alias \notin p.tremove}
    IN  IF \E t \in p.tadd, u \in left \cup p.tadd : t.alias = u.alias /\ t # u THEN Conflict
        ELSE left \cup p.tadd

(* applyMutations, all of it or nothing.                                   *)
ApplyProposal ==
    /\ pending # NoPlan
    /\ Blocking(pending.findings) = {}
    /\ LET p == pending.p
       IN  IF NewTargets(p) = Conflict \/ NewRegistry(p) = Conflict
           THEN UNCHANGED <<targets, registry, rules>>
           ELSE /\ targets' = NewTargets(p)
                /\ registry' = NewRegistry(p)
                /\ rules' = (rules \ p.rremove) \cup ToSet(p.radd)
    /\ applies' = applies + 1
    /\ pending' = NoPlan
    /\ UNCHANGED appsd

ReviewNext ==
    \/ EditAppsDir
    \/ \E p \in Proposals : PlanProposal(p)
    \/ Refuse
    \/ ApplyProposal

ReviewSpec == ReviewInit /\ [][ReviewNext]_reviewVars

----------------------------------------------------------------------------
(* Properties. *)

(* The configuration is made of what the proposals carry: one target per   *)
(* alias, and no app of the registry without an action, which the loader   *)
(* of the registry would refuse.                                           *)
ReviewTypeOK ==
    /\ targets \subseteq InitTargets \cup UNION {p.tadd : p \in Proposals}
    /\ \A t, u \in targets : t.alias = u.alias => t = u
    /\ \A app \in DOMAIN registry :
          /\ DOMAIN registry[app].actions # {}
          /\ \A a \in DOMAIN registry[app].actions :
                \E p \in Proposals : <<app, a>> \in Verbs(p.aadd)
    /\ rules \subseteq UNION {ToSet(p.radd) : p \in Proposals}
    /\ appsd \in AppsDirs
    /\ pending # NoPlan => pending.p \in Proposals
    /\ applies \in 0 .. MaxApplies

(* Under a privilege boundary no call runs a generic runner, and no system *)
(* verb a general file writer, whatever apps.d holds and in whichever      *)
(* order the proposals came: every template that runs has the shape its    *)
(* executor asks for.                                                      *)
ShapedVerbs ==
    Namespace # Conflict /\ SystemMode =>
        \A v \in Verbs(Namespace) :
            LET cmd == Runs(Namespace, v[1], v[2])
            IN  IsTemplate(cmd) => Shaped(Namespace[v[1]].exec, cmd)

(* An apply that took effect with p.                                       *)
Took(p) == pending # NoPlan /\ pending.p = p /\ applies' = applies + 1
           /\ NewTargets(p) # Conflict /\ NewRegistry(p) # Conflict

(* What p adds or grants it does not remove as well. Such a proposal is    *)
(* planned as a removal, and applied as a replacement or, when a lower     *)
(* layer defines the verb too, with no effect on it.                       *)
Plain(p) ==
    /\ \A i \in DOMAIN p.radd : \A ref \in p.aremove :
          ref.app # p.radd[i].app \/ ref.action \notin {p.radd[i].action, ""}
    /\ \A v \in Verbs(p.aadd) : \A ref \in p.aremove : ref.app # v[1] \/ ref.action \notin {v[2], ""}
    /\ \A t \in p.tadd : t.alias \notin p.tremove

(* A template that runs is never exchanged for another behind the          *)
(* operator's back: the plan said so, and asked for an acknowledgement     *)
(* when the old one had been approved before.                              *)
ReplacementSurfaced ==
    [][\A p \in Proposals : Took(p) /\ Namespace # Conflict /\ Namespace' # Conflict =>
        \A v \in Verbs(p.aadd) :
            LET old == Runs(Namespace, v[1], v[2])
            IN  IsTemplate(old) /\ Runs(Namespace', v[1], v[2]) # old =>
                    \E f \in pending.findings :
                        /\ f.at = v
                        /\ f.id \in {"VERB-REPLACES-APPROVED", "VERB-SHADOWS-BUNDLED"}
                        /\ v \in Verbs(registry) => f.sev = "high"]_reviewVars

(* Allow rule r opens the template cmd, in one of the executors that run   *)
(* templates: on target x for an ssh verb, on no target of                 *)
(* ssh_targets.yaml for a system or an ssm verb. The deny rules, and what  *)
(* the removal of one opens, are not weighed: Analyze looks at neither.    *)
Opens(r, space, hosts, x, cmd) ==
    /\ r.effect = "allow"
    /\ cmd = Runs(space, r.app, r.action) /\ IsTemplate(cmd)
    /\ \/ space[r.app].exec = "ssh" /\ x \in targetsForRule(r, hosts) \cap Aliases(hosts)
       \/ space[r.app].exec \in {"system", "ssm"} /\ x = ""

(* The finding said what the verb runs, unless the template is bundled and *)
(* apps.d hid it from the plan.                                            *)
Said(f, cmd) == f.at[3] = cmd \/ (f.at[3] = NoCommand /\ pending.appsd # appsd)

(* A rule before r in the proposal reaches the same target with a verb of  *)
(* the same name in another app: only the first one's command is shown.    *)
Namesake(p, r, x, hosts) ==
    \E i, j \in DOMAIN p.radd :
        /\ i < j /\ p.radd[j] = r
        /\ p.radd[i].effect = "allow" /\ x \in targetsForRule(p.radd[i], hosts)
        /\ p.radd[i].action = r.action /\ p.radd[i].app # r.app

(* What the operator was shown of a template that rule r of p opens.       *)
Acknowledged(p, r, exec, hosts, x, cmd) ==
    \E f \in pending.findings :
        CASE exec = "ssh" ->
                /\ f.id = "SSH-WRITE" /\ f.sev = "high" /\ f.at[1] = x /\ f.at[2] = r.action
                /\ Said(f, cmd) \/ Namesake(p, r, x, hosts)
          [] exec = "system" ->
                /\ f.id = "SYS-CUSTOM-VERB" /\ f.sev = "high"
                /\ f.at[1] = r.app /\ f.at[2] = r.action /\ Said(f, cmd)
          [] exec = "ssm" -> f.id = "SSM-DEPLOY-CONTRACT"

(* How p opens a template through a rule that stood before and that it     *)
(* does not carry: with a target or a verb it adds, or with a verb it      *)
(* removes and a lower layer still defines. A verb that ran another        *)
(* template before is a replacement, and shown as one.                     *)
ThroughStanding(p, r, x, now) ==
    LET v == <<r.app, r.action>>
    IN  \/ x \in Aliases(p.tadd)
        \/ v \in Verbs(p.aadd) /\ ~IsTemplate(Runs(now, r.app, r.action))
        \/ v \in Verbs(p.aadd) /\ \E f \in pending.findings :
                /\ f.at = v
                /\ f.id \in {"VERB-REPLACES-APPROVED", "VERB-SHADOWS-BUNDLED"}
        \/ \E ref \in p.aremove : ref.app = r.app /\ ref.action \in {r.action, ""}

(* A template that a rule of the proposal opens, on any target and under   *)
(* any app name, was acknowledged with the command that runs. Not so an    *)
(* ssm template, which has a warning only, nor a second app's verb of the  *)
(* same name, and Analyze is silent on what the rules that stand come to   *)
(* open: the apply opens those in the ways of ThroughStanding and no       *)
(* other.                                                                  *)
NewReachAcknowledged ==
    [][\A p \in Proposals : Took(p) /\ Plain(p) =>
        \A after \in {Namespace'} \ {Conflict}, now \in {Namespace} :
            \A r \in rules' : \A x \in Aliases(targets') \cup {""} :
                LET cmd == Runs(after, r.app, r.action)
                IN  Opens(r, after, targets', x, cmd) =>
                        IF r \in ToSet(p.radd)
                        THEN Acknowledged(p, r, after[r.app].exec, targets', x, cmd)
                        ELSE now # Conflict => \/ Opens(r, now, targets, x, cmd)
                                               \/ ThroughStanding(p, r, x, now)]_reviewVars

(* Rule r on the app ssh lets q be read or listed on target t, by the      *)
(* executor's own test of the target's lists.                              *)
LetsRead(r, t, q) ==
    /\ r.effect = "allow" /\ r.app = "ssh" /\ r.action \in readActions
    /\ t.alias \in targetsForRule(r, {t})
    /\ SSHTargetAllowsPath(t, q)

(* No rule of a proposal makes a file at or under a secret path readable,  *)
(* whatever the targets are by then: where the policy it leaves lets one   *)
(* be read, the rule and the target stood before, or the proposal put the  *)
(* target under a rule that stood, which Analyze does not look at. Nor     *)
(* does it look at the read verbs of ssh apps of another name.             *)
SecretsOutOfReach ==
    [][\A p \in Proposals : Took(p) /\ Plain(p) =>
        \A r \in rules' : \A t \in targets' : \A q \in Hidden :
            LetsRead(r, t, q) => /\ r \in rules \ ToSet(p.radd)
                                 /\ t \in targets \cup p.tadd]_reviewVars

Commands(space) ==
    [v \in Verbs(space) |-> space[v[1]].actions[v[2]].cmd]

(* What the plan reviewed is what the apply leaves: the targets, and the   *)
(* verbs with their commands, unless the user changed apps.d in between or *)
(* the proposal removes a verb that a lower layer still defines.           *)
PlanIsWhatApplies ==
    [][\A p \in Proposals : Took(p) /\ Plain(p) =>
        /\ effectiveTargets(p, targets) = targets'
        /\ /\ pending.appsd = appsd /\ Namespace # Conflict
           /\ \A ref \in p.aremove : ref.app \notin DOMAIN AssembleDefinitions(appsd, << >>)
           => Commands(EffectiveDefs(p, Namespace)) = Commands(Namespace')]_reviewVars

(* The failure walk of a verb under review names, at each step, exactly    *)
(* the objects that the last step on them so far took down.                *)
WalkNamesStranded ==
    pending # NoPlan =>
        \A v \in Verbs(pending.p.aadd) :
            LET steps == pending.p.aadd[v[1]].actions[v[2]].cmd.steps
                Moves(o, n) == {i \in 1 .. n : /\ steps[i].object = o
                                               /\ steps[i].class \in {"stop", "delete", "start",
                                                                      "recreate", "restart"}}
                Stranded(n) ==
                    {o \in {steps[i].object : i \in 1 .. n} \ {""} :
                        \E i \in Moves(o, n) : /\ \A j \in Moves(o, n) : j <= i
                                               /\ steps[i].class \in {"stop", "delete"}}
            IN  \A n \in DOMAIN steps : failureWalk(steps)[n] = Stranded(n - 1)

(* The namespace the broker runs is sound through any sequence of applies  *)
(* and edits of apps.d.                                                    *)
NamespaceSound == ReviewTypeOK /\ ShapedVerbs

(* The operator was shown the templates that replace others and those the  *)
(* rules of the proposal open.                                             *)
GrantsShown == ReplacementSurfaced /\ NewReachAcknowledged
=============================================================================

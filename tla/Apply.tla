-------------------------------- MODULE Apply --------------------------------
(***************************************************************************)
(* `sudo openscope apply` (cli/plan.go): load a proposal, plan it against  *)
(* the live configuration, pass the gates, then write five configuration   *)
(* files one after the other, rolling back on an error; afterwards migrate *)
(* the legacy policy, audit, pin host facts and write the attestation.     *)
(* The proposal file is user-writable and may change under the operator;   *)
(* the process may die between any two writes.                             *)
(*                                                                         *)
(* A file is [at, items]: absent, corrupt (a write that failed half way)   *)
(* or present with its entries.  File ownership and modes are left out.    *)
(***************************************************************************)
EXTENDS Integers, Sequences, FiniteSets

CONSTANTS
    Proposals,     \* the proposals the file may hold
    InitFiles,     \* configurations found on disk when the behaviour starts
    Blocked,       \* proposals whose plan has a blocking finding
    High,          \* proposals whose plan has a finding to acknowledge
    BadVerbs,      \* verbs the assembled namespace refuses to load
    BypassBlocks,  \* bounds.yaml makes SSH-BYPASS blocking
    MaxRuns,       \* bound on the runs of apply
    None           \* no proposal

Files == {"ssh", "ssm", "sys", "apps", "policy", "legacy"}

\* Verbs are put back before rules.
MutSnapshotted == <<"ssh", "sys", "apps", "policy">>

\* snapshotFiles, in its order: the files a failed apply puts back.
Snapshotted == <<"ssh", "sys", "policy", "apps">>

Absent == [at |-> "absent", items |-> {}]
Corrupt == [at |-> "corrupt", items |-> {}]
Present(items) == [at |-> "present", items |-> items]

IsFile(r) ==
    /\ r = [at |-> r.at, items |-> r.items]
    /\ r.at \in {"absent", "present", "corrupt"}
    /\ r.at # "present" => r.items = {}
IsTarget(t) == t \in [alias : {t.alias}, setting : {t.setting}, facts : {t.facts}]
IsSequence(s) == s \in Seq({s[i] : i \in DOMAIN s})

\* The files have their types, an install has a policy at one of its two
\* locations, and the lists of a proposal are lists.
ASSUME ApplyAssumption ==
    /\ None \notin Proposals
    /\ InitFiles # {}
    /\ \A c \in InitFiles :
        /\ DOMAIN c = Files
        /\ \A f \in Files : IsFile(c[f])
        /\ \A t \in c["ssh"].items : IsTarget(t)
        /\ c["policy"].at # "absent" \/ c["legacy"].at # "absent"
    /\ \A p \in Proposals :
        /\ IsSequence(p.sshRemove) /\ IsSequence(p.sshAdd)
        /\ IsSequence(p.ssmRemove) /\ IsSequence(p.ssmAdd)
        /\ IsSequence(p.policyRemove) /\ IsSequence(p.policyAdd)
        /\ \A i \in DOMAIN p.sshAdd : IsTarget(p.sshAdd[i])
    /\ BypassBlocks \in BOOLEAN
    /\ MaxRuns \in Nat

VARIABLES
    files,      \* the configuration on disk
    propFile,   \* the proposal file
    reviewed,   \* the proposal whose hash the operator took from `openscope plan`
    pc,         \* where the run of apply is
    prop,       \* the parsed proposal
    expect,     \* --expect-hash
    yes,        \* --yes
    skip,       \* --skip-bypass-check
    liveSystem, \* system commands as the plan read them
    probe,      \* verdict of the parallel-path check for each new SSH target
    todo,       \* mutations still to write
    snap,       \* snapshot of the files
    restores,   \* restores done so far
    acked,      \* the operator typed every acknowledgement
    audit,      \* proposals with an admin_apply event
    attest,     \* applied_state.yaml: the file contents it vouches for
    runs,       \* runs started
    before,     \* history: the configuration when applyProposal began
    unrestored  \* history: a restore failed, or its snapshot could not be read

vars == <<files, propFile, reviewed, pc, prop, expect, yes, skip, liveSystem, probe,
          todo, snap, restores, acked, audit, attest, runs, before, unrestored>>

cli == <<prop, expect, yes, skip, liveSystem, probe, runs>>

Terminal == {"idle", "refused", "failed", "attestFailed", "done", "crashed"}

Init ==
    /\ files \in InitFiles
    /\ propFile \in Proposals
    /\ reviewed = None
    /\ pc = "idle"
    /\ prop = None /\ expect = None
    /\ yes = FALSE /\ skip = FALSE
    /\ liveSystem = {}
    /\ probe = << >>
    /\ todo = << >> /\ snap = << >>
    /\ restores = 0
    /\ acked = FALSE
    /\ audit = {}
    /\ attest = << >>
    /\ runs = 0
    /\ before = << >>
    /\ unrestored = FALSE

-----------------------------------------------------------------------------
(* The operator, the author of the proposal, and planning.                 *)

\* The author rewrites the proposal file.
Rewrite ==
    /\ propFile' \in Proposals
    /\ UNCHANGED <<files, reviewed, pc, prop, expect, yes, skip, liveSystem, probe,
                   todo, snap, restores, acked, audit, attest, runs, before, unrestored>>

\* runPlan: the operator reads the report and keeps the hash it shows.
Review ==
    /\ pc \in Terminal /\ runs < MaxRuns
    /\ reviewed' = propFile
    /\ UNCHANGED <<files, propFile, pc, prop, expect, yes, skip, liveSystem, probe,
                   todo, snap, restores, acked, audit, attest, runs, before, unrestored>>

\* LoadLiveState: a file that is empty or does not parse stops the run.  The verb
\* registry is the exception: an empty one reads as a registry without verbs.
Loads(f) == files[f].at # "corrupt" \/ f = "apps"

\* What the parallel-path check can answer for a target.
Outcomes == {"clear", "found", "rejected", "unknown", "deferred"}

Inspected(v) == {t \in DOMAIN v : v[t] # "deferred"}

\* Targets that were not inspected are forgotten.
MutBypass(v) == \E t \in Inspected(v) : v[t] # "clear"

\* The finding the check folds into the plan: something was inspected, and some
\* target is not proven clear, the ones not inspected included.
Bypass(v) == Inspected(v) # {} /\ \E t \in DOMAIN v : v[t] # "clear"

\* runApply up to the gates: parse the file once, read the live configuration.
Start ==
    /\ pc \in Terminal /\ runs < MaxRuns
    /\ runs' = runs + 1
    /\ prop' = propFile
    /\ expect' \in {None, reviewed}
    /\ yes' \in BOOLEAN /\ skip' \in BOOLEAN
    /\ \/ pc' = "gates" /\ \A f \in Files \ {"legacy"} : Loads(f)
       \/ pc' = "refused" /\ \E f \in Files \ {"legacy"} : files[f].at = "corrupt"
    /\ liveSystem' = files["sys"].items
    /\ \E outcome \in [{propFile.sshAdd[i].alias : i \in DOMAIN propFile.sshAdd} -> Outcomes] :
           probe' = IF skip' THEN << >> ELSE outcome
    /\ acked' = FALSE
    /\ todo' = << >> /\ snap' = << >> /\ restores' = 0 /\ before' = << >>
    /\ unrestored' = FALSE
    /\ UNCHANGED <<files, propFile, reviewed, audit, attest>>

HashMatches == expect \in {None, prop}
PlanBlocked == prop \in Blocked \/ (BypassBlocks /\ Bypass(probe))
NeedsAck == prop \in High \/ (~BypassBlocks /\ Bypass(probe))

\* The refusals of runApply, and the operator who does not type what is asked.
Refuse ==
    /\ pc = "gates"
    /\ \/ ~HashMatches
       \/ PlanBlocked
       \/ NeedsAck
    /\ pc' = "refused"
    /\ UNCHANGED <<files, propFile, reviewed, cli, todo, snap, restores, acked, audit,
                   attest, before, unrestored>>

-----------------------------------------------------------------------------
(* applyProposal.                                                          *)

Ops(file, op, items) == [i \in DOMAIN items |-> [file |-> file, op |-> op, item |-> items[i]]]

\* applyMutations: the writes in order.
Mutations(p) ==
    Ops("ssh", "remove", p.sshRemove) \o Ops("ssh", "add", p.sshAdd)
      \o Ops("ssm", "remove", p.ssmRemove) \o Ops("ssm", "add", p.ssmAdd)
      \o Ops("sys", "merge", <<p>>)
      \o (IF p.appsAdd \cup p.appsRemove = {} THEN << >> ELSE Ops("apps", "merge", <<p>>))
      \o Ops("policy", "remove", p.policyRemove) \o Ops("policy", "add", p.policyAdd)

\* The gates let the run through, after the typed acknowledgements when the
\* plan asks for them; the four files are snapshotted.  A file that exists and
\* cannot be read is snapshotted as empty (snapshotFiles): Restore has what comes
\* of it.
Proceed ==
    /\ pc = "gates"
    /\ HashMatches
    /\ ~PlanBlocked
    /\ NeedsAck => ~yes
    /\ acked' = NeedsAck
    /\ snap' = [f \in {Snapshotted[i] : i \in DOMAIN Snapshotted} |-> files[f]]
    /\ before' = files
    /\ todo' = Mutations(prop)
    /\ pc' = "mutating"
    /\ UNCHANGED <<files, propFile, reviewed, cli, restores, audit, attest, unrestored>>

Aliased(items, alias) == {t \in items : t.alias = alias}

\* sshTargetEqual: the settings count, the pinned facts do not.
Conflict(m) ==
    /\ m.file = "ssh" /\ m.op = "add"
    /\ \E t \in Aliased(files["ssh"].items, m.item.alias) : t.setting # m.item.setting

\* EffectiveSystem, on the configuration the plan read.
EffectiveSystem(p, live) == (live \cup p.sysAdd) \ p.sysRemove

\* The entries a mutation leaves: AddSSHTarget and AddSSMTarget keep the live
\* target on a collision; the verb registry takes removals first, then adds.
Result(m) ==
    LET old == files[m.file].items
    IN  CASE m.file \in {"ssh", "ssm"} /\ m.op = "remove" -> old \ Aliased(old, m.item)
          [] m.file \in {"ssh", "ssm"} /\ m.op = "add" ->
                 IF Aliased(old, m.item.alias) = {} THEN old \cup {m.item} ELSE old
          [] m.file = "sys" -> EffectiveSystem(m.item, liveSystem)
          [] m.file = "apps" -> (old \ m.item.appsRemove) \cup m.item.appsAdd
          [] m.file = "policy" /\ m.op = "remove" -> old \ {m.item}
          [] OTHER -> old \cup {m.item}

\* An add or a remove that changes nothing writes nothing.
Saves(m) == m.op = "merge" \/ Result(m) # files[m.file].items

\* One mutation is written.
Mutate ==
    /\ pc = "mutating" /\ todo # << >>
    /\ LET m == Head(todo)
       IN  /\ Loads(m.file)
           /\ ~Conflict(m)
           /\ m.file = "apps" => Result(m) \cap BadVerbs = {}
           /\ files' = IF Saves(m) THEN [files EXCEPT ![m.file] = Present(Result(m))]
                                   ELSE files
    /\ todo' = Tail(todo)
    /\ UNCHANGED <<propFile, reviewed, pc, cli, snap, restores, acked, audit, attest,
                   before, unrestored>>

\* A mutation fails: a load, a validation or a merge refuses it, the write
\* breaks off, or the registry just written does not load.
MutateFails ==
    /\ pc = "mutating" /\ todo # << >>
    /\ LET m == Head(todo)
       IN  \/ UNCHANGED files
           \/ Saves(m) /\ ~Conflict(m) /\ files' = [files EXCEPT ![m.file] = Corrupt]
           \/ /\ m.file = "apps" /\ Result(m) \cap BadVerbs # {}
              /\ files' = [files EXCEPT !["apps"] = Present(Result(m))]
    /\ pc' = "restoring"
    /\ UNCHANGED <<propFile, reviewed, cli, todo, snap, restores, acked, audit, attest,
                   before, unrestored>>

\* A file that did not exist before is left behind.
MutRestore ==
    /\ pc = "restoring" /\ restores < Len(Snapshotted)
    /\ LET f == Snapshotted[restores + 1]
       IN  files' = [files EXCEPT ![f] = IF snap[f] = Absent THEN @ ELSE snap[f]]
    /\ restores' = restores + 1
    /\ UNCHANGED <<propFile, reviewed, pc, cli, todo, snap, acked, audit, attest, before,
                   unrestored>>

\* restoreFiles: the next snapshotted file is put back, or removed if it did
\* not exist; an error is ignored.  The file is left truncated by a write that
\* breaks off, and by one that puts back a snapshot that could not be read.
Restore ==
    /\ pc = "restoring" /\ restores < Len(Snapshotted)
    /\ LET f == Snapshotted[restores + 1]
       IN  \/ /\ files' = [files EXCEPT ![f] = snap[f]]
              /\ UNCHANGED unrestored
           \/ /\ \/ UNCHANGED files
                 \/ snap[f] # Absent /\ files' = [files EXCEPT ![f] = Corrupt]
              /\ unrestored' = TRUE
    /\ restores' = restores + 1
    /\ UNCHANGED <<propFile, reviewed, pc, cli, todo, snap, acked, audit, attest, before>>

\* "no changes applied - config restored".
Rollback ==
    /\ pc = "restoring" /\ restores = Len(Snapshotted)
    /\ pc' = "failed"
    /\ UNCHANGED <<files, propFile, reviewed, cli, todo, snap, restores, acked, audit,
                   attest, before, unrestored>>

\* migratePolicyLocation: once the root-owned policy exists the legacy copy is
\* unlinked; an error is ignored.
MigratePolicyLocation ==
    /\ pc = "mutating" /\ todo = << >>
    /\ \/ UNCHANGED files
       \/ /\ files["policy"] # Absent
          /\ files' = [files EXCEPT !["legacy"] = Absent]
    /\ pc' = "auditing"
    /\ UNCHANGED <<propFile, reviewed, cli, todo, snap, restores, acked, audit, attest,
                   before, unrestored>>

\* auditApply: append errors are ignored.
AuditApply ==
    /\ pc = "auditing"
    /\ audit' \in {audit, audit \cup {prop}}
    /\ pc' = "pinning"
    /\ UNCHANGED <<files, propFile, reviewed, cli, todo, snap, restores, acked, attest,
                   before, unrestored>>

\* pinTargetFacts: the targets that answer get their facts and the file is
\* saved again; no error stops the apply.
PinTargetFacts ==
    /\ pc = "pinning"
    /\ \E answered \in SUBSET {prop.sshAdd[i].alias : i \in DOMAIN prop.sshAdd} :
           LET Pinned(t) == IF t.alias \in answered THEN [t EXCEPT !.facts = TRUE] ELSE t
               pins == answered \cap {t.alias : t \in files["ssh"].items}
           IN  \/ pins = {} /\ UNCHANGED files
               \/ /\ pins # {}
                  /\ files' = [files EXCEPT !["ssh"] =
                                  Present({Pinned(t) : t \in files["ssh"].items})]
               \/ /\ pins # {}
                  /\ files' = [files EXCEPT !["ssh"] = Corrupt]
    /\ pc' = "attesting"
    /\ UNCHANGED <<propFile, reviewed, cli, todo, snap, restores, acked, audit, attest,
                   before, unrestored>>

\* writeAttestation: the contents of the applied files as they are now.
WriteAttestation ==
    /\ pc = "attesting"
    /\ \/ /\ attest' = [f \in DOMAIN snap |-> files[f]]
          /\ pc' = "done"
       \/ /\ attest' \in {attest, << >>}
          /\ pc' = "attestFailed"
    /\ UNCHANGED <<files, propFile, reviewed, cli, todo, snap, restores, acked, audit,
                   before, unrestored>>

\* The file the run is in the middle of writing, if any: os.WriteFile truncates
\* the file before it writes.
Writing ==
    CASE pc = "mutating" /\ todo # << >> -> {Head(todo).file}
      [] pc = "restoring" /\ restores < Len(Snapshotted) -> {Snapshotted[restores + 1]}
      [] pc = "pinning" -> {"ssh"}
      [] OTHER -> {}

\* The process dies, between two steps or in the middle of a write.
Crash ==
    /\ pc \notin Terminal
    /\ \/ UNCHANGED files
       \/ \E f \in Writing : files' = [files EXCEPT ![f] = Corrupt]
    /\ pc' = "crashed"
    /\ UNCHANGED <<propFile, reviewed, cli, todo, snap, restores, acked, audit,
                   attest, before, unrestored>>

Next ==
    \/ Rewrite \/ Review \/ Start \/ Refuse \/ Proceed
    \/ Mutate \/ MutateFails \/ Restore \/ Rollback
    \/ MigratePolicyLocation \/ AuditApply \/ PinTargetFacts \/ WriteAttestation
    \/ Crash

Spec == Init /\ [][Next]_vars

-----------------------------------------------------------------------------
(* Properties.                                                             *)

Pcs == Terminal \cup {"gates", "mutating", "restoring", "auditing", "pinning", "attesting"}

\* Every variable has its type, a file that is not present has no entries, and a
\* run that is under way holds a proposal.
TypeOK ==
    /\ \A f \in Files : IsFile(files[f])
    /\ propFile \in Proposals
    /\ reviewed \in Proposals \cup {None}
    /\ prop \in Proposals \cup {None} /\ expect \in Proposals \cup {None}
    /\ pc \in Pcs
    /\ pc # "idle" => prop \in Proposals
    /\ yes \in BOOLEAN /\ skip \in BOOLEAN
    /\ acked \in BOOLEAN /\ unrestored \in BOOLEAN
    /\ restores \in 0..Len(Snapshotted)
    /\ audit \subseteq Proposals
    /\ runs \in 0..MaxRuns

\* A run that reports "no changes applied - config restored" (applyProposal) left
\* every configuration file as it found it, provided the snapshots were read and
\* the restores written: all but ssm_targets.yaml, which no snapshot covers.
RolledBack ==
    pc = "failed" /\ ~unrestored => \A f \in Files \ {"ssm"} : files[f] = before[f]

\* A rule this run granted never stands on disk without the verb that the same
\* proposal defines for it: not between two writes, not during the rollback and
\* not after the process died (applyMutations writes verbs before rules, and
\* restoreFiles puts rules back before verbs).
GrantHasVerb ==
    pc \notin {"idle", "gates", "refused"} /\ ~unrestored /\ before # << >> =>
        \A r \in files["policy"].items \ before["policy"].items :
            r.verb \in prop.appsAdd => r.verb \in files["apps"].items

\* An install that has a policy, at either location, always has one: neither the
\* migration nor a rollback nor a crash leaves it with none
\* (migratePolicyLocation: "a failed apply never strands the install").
NeverStranded ==
    files["policy"].at # "absent" \/ files["legacy"].at # "absent"

\* What reached the configuration is what the gates passed: nothing changes on
\* disk under a blocked plan, a hash other than the expected one, a finding
\* nobody typed, or a parallel-path check that left a target unproven next to
\* one it inspected; and no rule or target appears that the gated proposal does
\* not name, whatever was written to the proposal file meanwhile (runApply).
OnlyGatedChanges ==
    before # << >> /\ files # before =>
        /\ prop \notin Blocked
        /\ expect \in {None, prop}
        /\ prop \in High => acked /\ ~yes
        /\ ~acked /\ ~skip =>
              \/ \A t \in DOMAIN probe : probe[t] = "clear"
              \/ \A t \in DOMAIN probe : probe[t] = "deferred"
        /\ \A r \in files["policy"].items \ before["policy"].items :
              \E i \in DOMAIN prop.policyAdd : prop.policyAdd[i] = r
        /\ \A t \in files["ssh"].items \ before["ssh"].items :
              \E i \in DOMAIN prop.sshAdd : prop.sshAdd[i].alias = t.alias

\* A run that reports success installed all of it: the targets with the proposed
\* settings, also when the proposal replaces one, the verbs, the rules, and the
\* system commands the plan computed, whatever an earlier run that failed or
\* died left behind.  The one file a successful run may still break is
\* ssh_targets.yaml, when saving the pinned facts breaks off.
SuccessInstallsAll ==
    pc = "done" =>
        /\ files["ssh"].at = "corrupt" \/ \A i \in DOMAIN prop.sshAdd :
              \E t \in Aliased(files["ssh"].items, prop.sshAdd[i].alias) :
                  t.setting = prop.sshAdd[i].setting
        /\ \A i \in DOMAIN prop.ssmAdd :
              Aliased(files["ssm"].items, prop.ssmAdd[i].alias) # {}
        /\ prop.appsAdd \subseteq files["apps"].items
        /\ {prop.policyAdd[i] : i \in DOMAIN prop.policyAdd} \subseteq files["policy"].items
        /\ files["sys"] = Present(EffectiveSystem(prop, before["sys"].items))

\* "It is transactional": a run that reports failure changed nothing, one that
\* reports success installed everything (applyProposal).
AllOrNothing == TypeOK /\ RolledBack /\ SuccessInstallsAll

\* At every instant, also the last one of a run that dies, the configuration on
\* disk can be used: no grant without its verb, no install without a policy.
LeavesUsable == GrantHasVerb /\ NeverStranded
=============================================================================

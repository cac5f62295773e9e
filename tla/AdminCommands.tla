---------------------------- MODULE AdminCommands ----------------------------
(***************************************************************************)
(* The commands of the openscope CLI that change the administrator's       *)
(* files, run by several administrators at once. Every change is           *)
(* load - change - os.WriteFile with no lock: the file is empty between    *)
(* the truncation and the write, and two commands may overlap anywhere.    *)
(* A command is a sequence of jobs, one per file it updates in turn; an    *)
(* error ends it and leaves the earlier jobs done.                         *)
(***************************************************************************)
EXTENDS AdminFiles

CONSTANTS
    Admins,        \* operating-system processes running the CLI
    Inputs,        \* arguments tried: a record of sets, one per kind of argument
    InitDisk,      \* contents of the files before the first command
    MaxCommands,   \* bound: commands issued in all; after the first, commands
                   \* work on the files the first one named (others commute)
    MayFail        \* may a write fail after the truncation?

VARIABLES
    disk,          \* Files -> contents
    stamp,         \* Files -> number of changes (os.Stat: mtime and size)
    adm,           \* Admins -> [pc, jobs, base, held, sudo, code]
    issued,        \* commands started so far
    focus,         \* bound: the files of the first command
    ledger,        \* ghost: Files -> entries after every finished job, one at a time
    overlap,       \* ghost: files that two commands have worked on at once
    failed         \* ghost: files a failed write has left truncated

cliVars == <<disk, stamp, adm, issued, focus, ledger, overlap, failed>>

Idle(code) == [pc |-> "idle", jobs |-> <<>>, base |-> {}, held |-> {},
               sudo |-> FALSE, code |-> code]

Job(file, op, arg) == [file |-> file, op |-> op, arg |-> arg]

CliInit ==
    /\ disk = InitDisk
    /\ stamp = [f \in Files |-> 0]
    /\ adm = [p \in Admins |-> Idle("ok")]
    /\ issued = 0 /\ focus = {}
    /\ ledger = [f \in Files |-> LoadFile(f, InitDisk[f])]
    /\ overlap = {} /\ failed = {}

----------------------------------------------------------------------------
(* Issuing a command. *)

Begin(p, sudo, jobs) ==
    LET named == {jobs[i].file : i \in DOMAIN jobs}
    IN
    /\ adm[p].pc = "idle" /\ issued < MaxCommands
    /\ issued = 0 \/ named \subseteq focus
    /\ issued' = issued + 1
    /\ focus' = IF issued = 0 THEN named ELSE focus
    /\ adm' = [adm EXCEPT ![p] =
            [Idle("running") EXCEPT !.pc = "load", !.jobs = jobs, !.sudo = sudo]]
    /\ UNCHANGED <<disk, stamp, ledger, overlap, failed>>

(* requireRootForMutation: without sudo the command ends at once.          *)
requireRootForMutation(sudo, jobs) ==
    IF sudo THEN jobs ELSE <<Job(Head(jobs).file, "fail", "denied")>>

runNotesBlacklist(p) ==
    \E sudo \in BOOLEAN, k \in Inputs.keywords :
        \/ Begin(p, sudo, <<Job("protected", "read", Blank)>>)
        \/ Begin(p, sudo, requireRootForMutation(sudo,
                <<Job("protected", "AddProtectedFolderKeyword", k)>>))
        \/ Begin(p, sudo, requireRootForMutation(sudo,
                <<Job("protected", "RemoveProtectedFolderKeyword", k)>>))

runMailDomains(p) ==
    \E sudo \in BOOLEAN, d \in Inputs.domains :
        \/ Begin(p, sudo, <<Job("mail", "read", Blank)>>)
        \/ Begin(p, sudo, requireRootForMutation(sudo,
                <<Job("mail", "AddAllowedSenderDomain", d)>>))
        \/ Begin(p, sudo, requireRootForMutation(sudo,
                <<Job("mail", "RemoveAllowedSenderDomain", d)>>))

runSSHTargets(p) ==
    \E sudo \in BOOLEAN, t \in Inputs.targets :
        \/ Begin(p, sudo, <<Job("ssh", "read", Blank)>>)
        \/ Begin(p, sudo, requireRootForMutation(sudo,
                <<Job("ssh", "AddSSHTarget", t)>>))
        \/ Begin(p, sudo, requireRootForMutation(sudo,
                <<Job("ssh", "RemoveSSHTarget", t.alias)>>))

runHTTPProfiles(p) ==
    \E sudo \in BOOLEAN, h \in Inputs.profiles :
        \/ Begin(p, sudo, <<Job("http", "read", Blank)>>)
        \/ Begin(p, sudo, requireRootForMutation(sudo,
                <<Job("http", "AddHTTPProfile", h)>>))
        \/ Begin(p, sudo, requireRootForMutation(sudo,
                <<Job("http", "RemoveHTTPProfile", h.name)>>))

(* `system commands`: list and the managers...                             *)
runSystemManagers(p) ==
    \E sudo \in BOOLEAN, m \in Inputs.managers :
        \/ Begin(p, sudo, <<Job("system", "read", Blank)>>)
        \/ Begin(p, sudo, requireRootForMutation(sudo,
                <<Job("system", "AddManager", m)>>))
        \/ Begin(p, sudo, requireRootForMutation(sudo,
                <<Job("system", "RemoveManager", m.name)>>))

(* ...and the four allow-lists.                                            *)
runSystemLists(p) ==
    \E sudo \in BOOLEAN, n \in Inputs.names,
       op \in {"AddAllowedPackage", "RemoveAllowedPackage",
               "AddAllowedService", "RemoveAllowedService", "AddAllowedApp",
               "RemoveAllowedApp", "AddBuildPrefix", "RemoveBuildPrefix"} :
        Begin(p, sudo, requireRootForMutation(sudo, <<Job("system", op, n)>>))

runPolicyAddRule(p) ==
    \E sudo \in BOOLEAN, r \in Inputs.rules :
        Begin(p, sudo, requireRootForMutation(sudo, <<Job("policies", "AddRule", r)>>))

(* `policy list`, `show` and `validate`: LoadDefault, so absent is an      *)
(* error as well.                                                          *)
runPolicy(p) ==
    Begin(p, FALSE, IF disk["policies"] = Absent
                    THEN <<Job("policies", "fail", "config")>>
                    ELSE <<Job("policies", "read", Blank)>>)

(* `agent register` asks for no privilege.                                 *)
runAgent(p) ==
    \E a \in Inputs.newAgents : Begin(p, FALSE, <<Job("agents", "Register", a)>>)

setAppEnabled(p) ==
    \E app \in Inputs.apps, on \in BOOLEAN :
        Begin(p, FALSE,
            IF app \notin DOMAIN Defs THEN <<Job("enabled", "fail", "notfound")>>
            ELSE IF Defs[app].bundled THEN <<Job("enabled", "fail", "invalid")>>
            ELSE <<Job("enabled", IF on THEN "Enable" ELSE "Disable", app)>>)

(* The rule `app activate` adds for an action.                             *)
ActivationRule(agent, app, action) ==
    [effect |-> "allow", agent |-> agent, user |-> Unset, groups |-> {}, app |-> app,
     action |-> action, constraints |-> <<>>]

(* The jobs of one app of the list: a rule per action, in order.           *)
ActivationJobs(agent, app, on) ==
    IF app \notin DOMAIN Defs THEN <<Job("policies", "fail", "notfound")>>
    ELSE IF ~Defs[app].bundled \/ Defs[app].mode # "passthrough"
         THEN <<Job("policies", "fail", "invalid")>>
    ELSE IF ~on THEN <<Job("policies", "RemoveRules", [agent |-> agent, app |-> app])>>
    ELSE LET actions == SetToSeq(DOMAIN Defs[app].actions)
         IN  [i \in DOMAIN actions |->
                Job("policies", "AddRule", ActivationRule(agent, app, actions[i]))]

(* applyBundledPassthroughActivation: the apps of the list in turn.        *)
AllActivationJobs(agent, apps, on) ==
    LET jobs[n \in 0..Len(apps)] ==
            IF n = 0 THEN <<>> ELSE jobs[n - 1] \o ActivationJobs(agent, apps[n], on)
    IN  jobs[Len(apps)]

runAppActivation(p) ==
    \E sudo \in BOOLEAN, a \in Inputs.agents, apps \in Inputs.appLists, on \in BOOLEAN :
        Begin(p, sudo, requireRootForMutation(sudo, AllActivationJobs(a, apps, on)))

(* `init` replaces both files whatever they hold, the registry first, and  *)
(* asks for no privilege itself.                                           *)
runInit(p) ==
    \E sudo \in BOOLEAN, force \in BOOLEAN :
        Begin(p, sudo,
            IF ~force /\ (disk["agents"] # Absent \/ disk["policies"] # Absent)
            THEN <<Job("agents", "fail", "denied")>>
            ELSE <<Job("agents", "save", Inputs.initAgents),
                   Job("policies", "save", Inputs.initRules)>>)

(* What a file may ever hold: what it held and what a command may add.     *)
Entries(f) ==
    (IF InitDisk[f] \in {Absent, Torn, Garbled} THEN {} ELSE InitDisk[f])
    \cup CASE f = "policies" ->
                Inputs.rules \cup Inputs.initRules
                \cup UNION {{ActivationRule(a, app, x) : a \in Inputs.agents,
                                                       x \in DOMAIN Defs[app].actions} :
                            app \in DOMAIN Defs}
           [] f = "agents" -> Inputs.newAgents \cup Inputs.initAgents
           [] f = "protected" -> DefaultProtectedFolderKeywords \cup Inputs.keywords
           [] f = "mail" -> Inputs.domains
           [] f = "ssh" -> Inputs.targets
           [] f = "http" -> Inputs.profiles
           [] f = "system" ->
                Inputs.managers
                \cup [list : {"packages", "services", "apps", "builds"}, name : Inputs.names]
           [] f = "enabled" -> Inputs.apps

\* The install starts with managers that passed their checks; a definition has an
\* action at least (Definition.Validate), and an activation names an app.
ASSUME AdminAssumption ==
    /\ Torn # Absent /\ Garbled \notin {Absent, Torn} /\ Refused \notin {Absent, Torn, Garbled}
    /\ DOMAIN InitDisk = Files
    /\ \A f \in Files :
        /\ IsFiniteSet(Entries(f))
        /\ \A S \in SUBSET Entries(f) : S \notin {Absent, Torn, Garbled, Refused}
    /\ InitDisk["system"] \notin {Absent, Torn, Garbled} =>
        \A m \in Managers(InitDisk["system"]) : m.sudo => RequireSudoSafe(Binaries[m.binary])
    /\ \A app \in DOMAIN Defs :
        IsFiniteSet(DOMAIN Defs[app].actions) /\ DOMAIN Defs[app].actions # {}
    /\ \A apps \in Inputs.appLists : apps \in Seq(ToSet(apps)) /\ apps # <<>>

----------------------------------------------------------------------------
(* Running a job. *)

Update(j, old) ==
    CASE j.op = "AddRule" -> AddRule(old, j.arg)
      [] j.op = "RemoveRules" -> RemoveRules(old, j.arg.agent, j.arg.app)
      [] j.op = "Register" -> Register(old, j.arg)
      [] j.op = "Enable" -> updateAppEnabledList(old, j.arg, TRUE)
      [] j.op = "Disable" -> updateAppEnabledList(old, j.arg, FALSE)
      [] j.op = "AddProtectedFolderKeyword" -> AddProtectedFolderKeyword(old, j.arg)
      [] j.op = "RemoveProtectedFolderKeyword" -> RemoveProtectedFolderKeyword(old, j.arg)
      [] j.op = "AddAllowedSenderDomain" -> AddAllowedSenderDomain(old, j.arg)
      [] j.op = "RemoveAllowedSenderDomain" -> RemoveAllowedSenderDomain(old, j.arg)
      [] j.op = "AddSSHTarget" -> AddSSHTarget(old, j.arg)
      [] j.op = "RemoveSSHTarget" -> RemoveSSHTarget(old, j.arg)
      [] j.op = "AddHTTPProfile" -> AddHTTPProfile(old, j.arg)
      [] j.op = "RemoveHTTPProfile" -> RemoveHTTPProfile(old, j.arg)
      [] j.op = "AddManager" -> AddManager(old, j.arg)
      [] j.op = "RemoveManager" -> RemoveManager(old, j.arg)
      [] j.op = "AddAllowedPackage" -> AddAllowedPackage(old, j.arg)
      [] j.op = "RemoveAllowedPackage" -> RemoveAllowedPackage(old, j.arg)
      [] j.op = "AddAllowedService" -> AddAllowedService(old, j.arg)
      [] j.op = "RemoveAllowedService" -> RemoveAllowedService(old, j.arg)
      [] j.op = "AddAllowedApp" -> AddAllowedApp(old, j.arg)
      [] j.op = "RemoveAllowedApp" -> RemoveAllowedApp(old, j.arg)
      [] j.op = "AddBuildPrefix" -> AddBuildPrefix(old, j.arg)
      [] j.op = "RemoveBuildPrefix" -> RemoveBuildPrefix(old, j.arg)
      [] j.op = "save" -> j.arg
      [] j.op = "read" -> old

Current(p) == Head(adm[p].jobs)

Done(me) == IF Len(me.jobs) = 1 THEN Idle("ok")
            ELSE [me EXCEPT !.pc = "load", !.jobs = Tail(@), !.base = {}, !.held = {}]

Working(q, f) == adm[q].pc \in {"truncate", "write"} /\ Current(q).file = f

(* The load at the head of every admin function, and what it decides: an   *)
(* error, nothing to do, or new contents to save.                          *)
Load(p) ==
    LET j == Current(p)
        old == IF j.op = "save" THEN {} ELSE LoadFile(j.file, disk[j.file])
        new == IF old = Refused THEN Refused ELSE Update(j, old)
    IN  /\ adm[p].pc = "load"
        /\ adm' = [adm EXCEPT ![p] =
                CASE j.op = "fail" -> Idle(j.arg)
                  [] j.op # "fail" /\ new = Refused -> Idle("config")
                  [] j.op # "fail" /\ new = old /\ j.op # "save" -> Done(@)
                  [] OTHER -> [@ EXCEPT !.pc = "truncate", !.base = old, !.held = new]]
        /\ overlap' = IF j.op # "fail" /\ \E q \in Admins \ {p} : Working(q, j.file)
                      THEN overlap \cup {j.file} ELSE overlap
        /\ UNCHANGED <<disk, stamp, issued, focus, ledger, failed>>

(* os.WriteFile opens the file with O_TRUNC. The admin directory is root's *)
(* own: without sudo the open fails and nothing changes.                   *)
Truncate(p) ==
    LET f == Current(p).file
    IN  /\ adm[p].pc = "truncate"
        /\ IF f \in AdminOwned /\ ~adm[p].sudo
           THEN /\ adm' = [adm EXCEPT ![p] = Idle("config")]
                /\ UNCHANGED <<disk, stamp>>
           ELSE /\ adm' = [adm EXCEPT ![p].pc = "write"]
                /\ disk' = [disk EXCEPT ![f] = Torn]
                /\ stamp' = [stamp EXCEPT ![f] = @ + 1]
        /\ UNCHANGED <<issued, focus, ledger, overlap, failed>>

(* The bytes land on a file this process truncated. If another process has *)
(* written since, the shorter of the two leaves a tail of the longer.      *)
Write(p) ==
    LET f == Current(p).file
    IN  /\ adm[p].pc = "write"
        /\ \E c \in IF disk[f] = Torn THEN {adm[p].held}
                    ELSE {adm[p].held, disk[f], Garbled} :
                disk' = [disk EXCEPT ![f] = c]
        /\ stamp' = [stamp EXCEPT ![f] = @ + 1]
        /\ adm' = [adm EXCEPT ![p] = Done(@)]
        /\ ledger' = [ledger EXCEPT ![f] = Update(Current(p), @)]
        /\ UNCHANGED <<issued, focus, overlap, failed>>

(* A full disk, or the process killed: the file stays truncated.           *)
WriteFails(p) ==
    /\ MayFail /\ adm[p].pc = "write"
    /\ adm' = [adm EXCEPT ![p] = Idle("config")]
    /\ failed' = failed \cup {Current(p).file}
    /\ UNCHANGED <<disk, stamp, issued, focus, ledger, overlap>>

Run(p) ==
    \/ runNotesBlacklist(p)
    \/ runMailDomains(p)
    \/ runSSHTargets(p)
    \/ runHTTPProfiles(p)
    \/ runSystemManagers(p)
    \/ runSystemLists(p)
    \/ runPolicyAddRule(p)
    \/ runPolicy(p)
    \/ runAgent(p)
    \/ setAppEnabled(p)
    \/ runAppActivation(p)
    \/ runInit(p)

CliNext == \E p \in Admins : Run(p) \/ Load(p) \/ Truncate(p) \/ Write(p) \/ WriteFails(p)
=============================================================================

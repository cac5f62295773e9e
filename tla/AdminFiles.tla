----------------------------- MODULE AdminFiles -----------------------------
(***************************************************************************)
(* The administrator's configuration files and what each admin function    *)
(* makes of one: packages admin, agent, policy and the enabled-apps part   *)
(* of appdef. A file is absent, torn (os.WriteFile has truncated it and    *)
(* has not written yet) or holds a set of entries; every load normalises   *)
(* (trims, drops blanks and duplicates, sorts), so order and duplicates    *)
(* are not kept. A file two saves wrote at once may be Garbled: no YAML.   *)
(* Blank is an argument that normalises to "".                             *)
(*                                                                         *)
(*   policies   policy rules                agents    agent ids            *)
(*   protected  folder keywords             mail      sender domains       *)
(*   ssh        [alias, host, services]     http      [name, url]          *)
(*   system     [list, name] and managers   enabled   app names            *)
(*                                                                         *)
(* An update function maps the loaded entries to the entries to save, or   *)
(* to Refused; when it returns what it was given the code saves nothing.   *)
(***************************************************************************)
EXTENDS PolicyScopes

CONSTANTS
    Absent, Torn, Garbled,      \* model values: contents that are not a set of entries
    Refused,                    \* model value: the error of a load or of an update
    Blank,                      \* an argument that normalises to ""
    Binaries                    \* binary path -> [symlink, writable, owner, dirWritable, dirOwner]

Files == {"policies", "agents", "protected", "mail", "ssh", "http", "system", "enabled"}

(* Files whose Validate wants version # 0: an empty file is an error.      *)
Strict == Files \ {"agents", "enabled"}

(* Files under the root-owned admin directory.                             *)
AdminOwned == Files \ {"agents", "enabled"}

DefaultProtectedFolderKeywords == {"private", "hidden"}

----------------------------------------------------------------------------
(* Load...OrDefault of each file. *)

LoadProtectedFoldersOrDefault(c) ==
    CASE c = Absent -> DefaultProtectedFolderKeywords
      [] c \in {Torn, Garbled} -> Refused
      [] OTHER -> c

LoadMailFiltersOrDefault(c) ==
    CASE c = Absent -> {} [] c \in {Torn, Garbled} -> Refused [] OTHER -> c

LoadSSHTargetsOrDefault(c) ==
    CASE c = Absent -> {} [] c \in {Torn, Garbled} -> Refused [] OTHER -> c

LoadHTTPProfilesOrDefault(c) ==
    CASE c = Absent -> {} [] c \in {Torn, Garbled} -> Refused [] OTHER -> c

LoadSystemCommandsOrDefault(c) ==
    CASE c = Absent -> {} [] c \in {Torn, Garbled} -> Refused [] OTHER -> c

\* Mutant: an empty file counts as an empty policy.
MutLoadPolicyOrEmpty(c) == IF c \in {Absent, Torn, Garbled} THEN {} ELSE c

LoadPolicyOrEmpty(c) ==
    CASE c = Absent -> {} [] c \in {Torn, Garbled} -> Refused [] OTHER -> c

(* An empty agents or enabled-apps file parses as an empty list: only the  *)
(* version is filled in.                                                   *)
LoadAgentsOrEmpty(c) ==
    CASE c \in {Absent, Torn} -> {} [] c = Garbled -> Refused [] OTHER -> c

LoadEnabledFileOrEmpty(c) ==
    CASE c \in {Absent, Torn} -> {} [] c = Garbled -> Refused [] OTHER -> c

LoadFile(f, c) ==
    CASE f = "policies" -> LoadPolicyOrEmpty(c)
      [] f = "agents" -> LoadAgentsOrEmpty(c)
      [] f = "protected" -> LoadProtectedFoldersOrDefault(c)
      [] f = "mail" -> LoadMailFiltersOrDefault(c)
      [] f = "ssh" -> LoadSSHTargetsOrDefault(c)
      [] f = "http" -> LoadHTTPProfilesOrDefault(c)
      [] f = "system" -> LoadSystemCommandsOrDefault(c)
      [] f = "enabled" -> LoadEnabledFileOrEmpty(c)

----------------------------------------------------------------------------
(* package policy and package agent *)

AddRule(rules, rule) == rules \cup {rule}

\* Mutant: deny rules of the app go as well.
MutDeactivated(rule, agent, app) ==
    /\ rule.agent = agent /\ rule.app = app
    /\ rule.action \in DOMAIN Defs[app].actions
    /\ rule.constraints = <<>>

(* The predicate of `app deactivate`: unconstrained allow rules of the     *)
(* agent for the actions the definition declares.                          *)
Deactivated(rule, agent, app) ==
    /\ rule.effect = "allow" /\ rule.agent = agent /\ rule.app = app
    /\ rule.action \in DOMAIN Defs[app].actions
    /\ rule.constraints = <<>>

RemoveRules(rules, agent, app) == {r \in rules : ~Deactivated(r, agent, app)}

Register(agents, id) == agents \cup {id}

updateAppEnabledList(apps, name, on) ==
    (apps \ {name}) \cup (IF on THEN {name} ELSE {})

----------------------------------------------------------------------------
(* package admin: keywords and domains *)

AddProtectedFolderKeyword(keywords, k) ==
    IF k = Blank THEN Refused ELSE keywords \cup {k}

RemoveProtectedFolderKeyword(keywords, k) == keywords \ {k}

AddAllowedSenderDomain(domains, d) ==
    IF d = Blank THEN Refused ELSE domains \cup {d}

RemoveAllowedSenderDomain(domains, d) == domains \ {d}

(* An empty list lets every sender through.                                *)
SenderAllowed(domains, sender) == domains = {} \/ sender \in domains

----------------------------------------------------------------------------
(* package admin: ssh targets and http profiles. A name already present    *)
(* keeps its entry: adding never replaces.                                 *)

ValidSSHTarget(t) == t.alias # Blank /\ t.host # Blank

AddSSHTarget(targets, t) ==
    IF ~ValidSSHTarget(t) THEN Refused
    ELSE IF \E x \in targets : x.alias = t.alias THEN targets
    ELSE targets \cup {t}

RemoveSSHTarget(targets, alias) == {t \in targets : t.alias # alias}

ValidHTTPProfile(p) == p.name # Blank /\ p.url # Blank

AddHTTPProfile(profiles, p) ==
    IF ~ValidHTTPProfile(p) THEN Refused
    ELSE IF \E x \in profiles : x.name = p.name THEN profiles
    ELSE profiles \cup {p}

RemoveHTTPProfile(profiles, name) == {p \in profiles : p.name # name}

SSHTargetAllowsService(t, service) == service \in t.services

----------------------------------------------------------------------------
(* package admin: system commands. All the lists share one file.           *)

RequireRootOwnedDir(b) == ~b.dirWritable /\ b.dirOwner = "root"

RequireSudoSafe(b) ==
    /\ ~b.symlink /\ ~b.writable /\ b.owner = "root"
    /\ RequireRootOwnedDir(b)

Managers(cmds) == {m \in cmds : m.list = "managers"}

AddManager(cmds, m) ==
    IF \/ m.name = Blank \/ m.binary = Blank
       \/ m.sudo /\ ~RequireSudoSafe(Binaries[m.binary])
    THEN Refused
    ELSE IF \E x \in Managers(cmds) : x.name = m.name THEN cmds
    ELSE cmds \cup {m}

RemoveManager(cmds, name) == {m \in cmds : ~(m.list = "managers" /\ m.name = name)}

AddEntry(cmds, list, name) ==
    IF name = Blank THEN Refused ELSE cmds \cup {[list |-> list, name |-> name]}

AddAllowedPackage(cmds, name) == AddEntry(cmds, "packages", name)
RemoveAllowedPackage(cmds, name) == cmds \ {[list |-> "packages", name |-> name]}
AddAllowedService(cmds, name) == AddEntry(cmds, "services", name)
RemoveAllowedService(cmds, name) == cmds \ {[list |-> "services", name |-> name]}
AddAllowedApp(cmds, name) == AddEntry(cmds, "apps", name)
RemoveAllowedApp(cmds, name) == cmds \ {[list |-> "apps", name |-> name]}
AddBuildPrefix(cmds, name) == AddEntry(cmds, "builds", name)
RemoveBuildPrefix(cmds, name) == cmds \ {[list |-> "builds", name |-> name]}

(* AllowsPackage, AllowsService, AllowsAppName...: an empty list allows    *)
(* nothing; a blocked package stays blocked whatever is allowed.           *)
AllowsPackage(cmds, name) ==
    /\ [list |-> "packages", name |-> name] \in cmds
    /\ [list |-> "blocked", name |-> name] \notin cmds

AllowsListed(cmds, list, name) == [list |-> list, name |-> name] \in cmds

----------------------------------------------------------------------------
(* ssh.Target list -> alias |-> services, the shape package capabilities   *)
(* reads; an unreadable file gives no hints.                               *)
TargetsOf(c) ==
    LET t == LoadSSHTargetsOrDefault(c)
        known == IF t = Refused THEN {} ELSE t
    IN  [a \in {x.alias : x \in known} |-> (CHOOSE x \in known : x.alias = a).services]
=============================================================================

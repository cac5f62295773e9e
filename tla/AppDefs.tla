------------------------------- MODULE AppDefs -------------------------------
(***************************************************************************)
(* App definitions, from package appdef: how an overlay is folded onto a   *)
(* namespace, how the bundled apps, the user's apps.d and the root-owned   *)
(* registry become the one namespace the broker runs, and what a verb of   *)
(* it runs. Pure operators.                                                *)
(*                                                                         *)
(*   definition  [exec, mode, bundled, actions], actions: name -> action   *)
(*   action      [cmd, root, verify, impact, params]; params is a set of   *)
(*               [key, kind], impact a set of services or NoImpact         *)
(*   command     what the lint and the executors can tell apart of a       *)
(*               command template: its program (param, shell, eval, tee,   *)
(*               writer or other), whether the program is an absolute      *)
(*               path and which, whether it is the whole command, whether  *)
(*               a parameter is a shell's -c body, the target of a         *)
(*               redirect, or used at all, and the chain of its steps      *)
(*                                                                         *)
(* A namespace is a function from app names to definitions. Validate has   *)
(* given every definition its mode and at least one action.                *)
(***************************************************************************)
EXTENDS Integers, Sequences, FiniteSets, SequencesExt

CONSTANTS
    Bundled,        \* the bundled namespace
    SystemMode,     \* config.SystemMode(): a privilege boundary exists
    Conflict,       \* model value: a namespace that does not load
    NoCommand,      \* model value: the command of a script: action
    Builtin,        \* model value: the verb runs Go code, not a template
    NoImpact        \* model value: no impact: contract

(* The fields of a definition and of its actions.                          *)
IsDefinition(d) ==
    /\ DOMAIN d = {"exec", "mode", "bundled", "actions"}
    /\ \A a \in DOMAIN d.actions :
          DOMAIN d.actions[a] = {"cmd", "root", "verify", "impact", "params"}

IsNamespace(defs) == \A app \in DOMAIN defs : IsDefinition(defs[app])

ASSUME AppDefsAssumption == SystemMode \in BOOLEAN /\ IsNamespace(Bundled)

curatedActions == {"check_host", "service_status", "restart_service", "tail_logs",
                   "read_file", "list_dir", "host_metrics"}

systemBundledVerbs == {"manage_packages", "manage_services", "manage_processes", "check_port",
                       "release_port", "manage_files", "manage_apps", "install_pkg", "build"}

----------------------------------------------------------------------------
(* Merge: the overlay's actions win; it may not change what the app is.    *)
Merge(base, overlay) ==
    IF overlay.exec # base.exec \/ overlay.mode # base.mode THEN Conflict
    ELSE [base EXCEPT !.actions =
            [a \in DOMAIN overlay.actions \cup DOMAIN @ |->
                IF a \in DOMAIN overlay.actions THEN overlay.actions[a] ELSE @[a]]]

MergeInto(dst, overlay) ==
    LET Both == DOMAIN dst \cap DOMAIN overlay
    IN  IF \E app \in Both : Merge(dst[app], overlay[app]) = Conflict THEN Conflict
        ELSE [app \in DOMAIN dst \cup DOMAIN overlay |->
                IF app \in Both THEN Merge(dst[app], overlay[app])
                ELSE IF app \in DOMAIN dst THEN dst[app] ELSE overlay[app]]

Keep(f, S) == [x \in S |-> f[x]]

(* One action of an app, or the app when no action is named; an app left   *)
(* with no action goes too.                                                *)
RemoveDefinitionAction(list, ref) ==
    LET left == IF ref.app \in DOMAIN list /\ ref.action # ""
                THEN DOMAIN list[ref.app].actions \ {ref.action} ELSE {}
    IN  CASE ref.app \notin DOMAIN list -> list
          [] ref.app \in DOMAIN list /\ left = {} -> Keep(list, DOMAIN list \ {ref.app})
          [] OTHER -> [list EXCEPT ![ref.app].actions = Keep(@, left)]

\* Mutant: an apps.d verb keeps its command under a privilege boundary.
MutWithoutCommandActions(d) == d

withoutCommandActions(d) ==
    [d EXCEPT !.actions = Keep(@, {a \in DOMAIN @ : @[a].cmd = NoCommand})]

(* LoadAppliedFile marks what it loads as root-applied, action by action.  *)
LoadAppliedFile(registry) ==
    [app \in DOMAIN registry |->
        [registry[app] EXCEPT !.actions =
            [a \in DOMAIN @ |-> [@[a] EXCEPT !.root = TRUE]]]]

(* bundled, then apps.d, then the registry; the last one wins an action.   *)
AssembleDefinitions(appsDir, registry) ==
    LET kept == [app \in DOMAIN appsDir |->
                    IF SystemMode THEN withoutCommandActions(appsDir[app]) ELSE appsDir[app]]
        user == Keep(kept, {app \in DOMAIN kept : DOMAIN kept[app].actions # {}})
        merged == MergeInto(Bundled, user)
    IN  IF merged = Conflict THEN Conflict
        ELSE MergeInto(merged, LoadAppliedFile(registry))

----------------------------------------------------------------------------
(* What a call of app.action runs: the executor's own code for a curated   *)
(* name, else the template; a privileged system verb has one only from the *)
(* registry.                                                               *)
Runs(defs, app, action) ==
    IF app \notin DOMAIN defs \/ action \notin DOMAIN defs[app].actions THEN NoCommand
    ELSE LET d == defs[app]  a == defs[app].actions[action]
         IN  CASE d.exec = "ssh" /\ action \in curatedActions -> Builtin
               [] d.exec = "system" /\ action \in systemBundledVerbs -> Builtin
               [] d.exec = "system" /\ SystemMode /\ ~a.root /\ action \notin systemBundledVerbs -> NoCommand
               [] OTHER -> a.cmd

IsTemplate(cmd) == cmd \notin {NoCommand, Builtin}
=============================================================================

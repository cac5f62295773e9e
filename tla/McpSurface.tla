----------------------------- MODULE McpSurface -----------------------------
(***************************************************************************)
(* openscope-mcp beside the administrators of AdminCommands: it loads the  *)
(* agent's capabilities, stamps the files it watches, then polls them      *)
(* every two seconds and, when the projected tools change, tells its       *)
(* client, which lists the tools again. A stamp stands for the mtime and   *)
(* the size of a file and changes at the truncation and at the write.      *)
(***************************************************************************)
EXTENDS AdminCommands

CONSTANTS Agent     \* the agent openscope-mcp acts as

VARIABLES
    mcp,            \* [pc, booting, rules, tools, sig, stamps]
    client,         \* [tools, due]: what the MCP client has listed, is a list due
    missed          \* ghost: a watched file changed between first load and stamps

vars == <<disk, stamp, adm, issued, focus, ledger, overlap, failed, mcp, client, missed>>

(* CapabilityFiles; the definitions do not change here.                    *)
Watched == {"policies", "ssh"}

ToolsFor(rules, targets) == Project(Build(Agent, rules, targets))

(* Projection.Tools, which is listed and signed: the injected values stay  *)
(* with the server.                                                        *)
Listed(tools) == {[app |-> t.app, action |-> t.action, enum |-> t.enum] : t \in tools}

McpInit ==
    /\ mcp = [pc |-> "policy", booting |-> TRUE, rules |-> {}, tools |-> {},
              sig |-> {}, stamps |-> [f \in Watched |-> stamp[f]]]
    /\ client = [tools |-> {}, due |-> TRUE]
    /\ missed = FALSE

Loaded == IF mcp.booting THEN "stamp" ELSE "poll"

(* Refresh, first half: BuildFromPaths loads the policy. Absent is an      *)
(* error here too; an error keeps the surface served so far.               *)
RefreshPolicy ==
    LET rules == IF disk["policies"] = Absent THEN Refused
                 ELSE LoadPolicyOrEmpty(disk["policies"])
    IN  /\ mcp.pc = "policy"
        /\ mcp' = [mcp EXCEPT
                !.pc = IF rules = Refused THEN Loaded ELSE "targets",
                !.rules = IF rules = Refused THEN {} ELSE rules,
                !.stamps["policies"] = IF mcp.booting THEN stamp["policies"] ELSE @]
        /\ UNCHANGED <<cliVars, client, missed>>

\* Mutant: the stamps are taken again once the files have been read.
MutRefreshTargets ==
    LET tools == ToolsFor(mcp.rules, TargetsOf(disk["ssh"]))
    IN  /\ mcp.pc = "targets"
        /\ mcp' = [mcp EXCEPT !.pc = Loaded, !.rules = {}, !.tools = tools,
                !.sig = IF mcp.booting THEN @ ELSE Listed(tools),
                !.stamps = [f \in Watched |-> stamp[f]]]
        /\ client' = [client EXCEPT !.due = @ \/ (~mcp.booting /\ Listed(tools) # mcp.sig)]
        /\ UNCHANGED <<cliVars, missed>>

(* Refresh, second half: the targets, best effort, and the new projection. *)
(* Once it polls, a changed signature is announced to the client.          *)
RefreshTargets ==
    LET tools == ToolsFor(mcp.rules, TargetsOf(disk["ssh"]))
    IN  /\ mcp.pc = "targets"
        /\ mcp' = [mcp EXCEPT !.pc = Loaded, !.rules = {}, !.tools = tools,
                !.sig = IF mcp.booting THEN @ ELSE Listed(tools),
                !.stamps["ssh"] = IF mcp.booting THEN stamp["ssh"] ELSE @]
        /\ client' = [client EXCEPT !.due = @ \/ (~mcp.booting /\ Listed(tools) # mcp.sig)]
        /\ UNCHANGED <<cliVars, missed>>

(* NewCapabilityWatcher, after the first load: stamps and signature now.   *)
NewCapabilityWatcher ==
    /\ mcp.pc = "stamp"
    /\ mcp' = [mcp EXCEPT !.pc = "poll", !.booting = FALSE, !.sig = Listed(mcp.tools),
                          !.stamps = [f \in Watched |-> stamp[f]]]
    /\ missed' = \E f \in Watched : mcp.stamps[f] # stamp[f]
    /\ UNCHANGED <<cliVars, client>>

(* One tick that finds a changed file; the stamps are recorded before the  *)
(* files are read again. Other ticks change nothing.                       *)
Poll ==
    /\ mcp.pc = "poll"
    /\ \E f \in Watched : mcp.stamps[f] # stamp[f]
    /\ mcp' = [mcp EXCEPT !.pc = "policy", !.stamps = [f \in Watched |-> stamp[f]]]
    /\ UNCHANGED <<cliVars, client, missed>>

(* tools/list, when the client starts and after each list_changed; the     *)
(* server answers once the watcher exists.                                 *)
ToolsList ==
    /\ client.due /\ ~mcp.booting
    /\ client' = [tools |-> Listed(mcp.tools), due |-> FALSE]
    /\ UNCHANGED <<cliVars, mcp, missed>>

McpNext == RefreshPolicy \/ RefreshTargets \/ NewCapabilityWatcher \/ Poll \/ ToolsList

Init == CliInit /\ McpInit

Next == \/ CliNext /\ UNCHANGED <<mcp, client, missed>>
        \/ McpNext

(* The server's goroutines run as long as it lives, and its client answers *)
(* a notification; an administrator may walk away between two commands but *)
(* a command that has started runs on.                                     *)
Fairness ==
    /\ WF_vars(McpNext)
    /\ WF_vars(ToolsList)
    /\ \A p \in Admins : WF_vars((Load(p) \/ Truncate(p) \/ Write(p) \/ WriteFails(p))
                                 /\ UNCHANGED <<mcp, client, missed>>)

Spec == Init /\ [][Next]_vars /\ Fairness

----------------------------------------------------------------------------

Contents(f) == disk[f] \notin {Absent, Torn, Garbled}

(* Types; in particular a process in the middle of a job has one, and the  *)
(* watcher leaves its boot for good.                                       *)
TypeOK ==
    /\ DOMAIN disk = Files /\ stamp \in [Files -> Nat]
    /\ \A f \in Files : Contents(f) => IsFiniteSet(disk[f])
    /\ \A p \in Admins :
        /\ adm[p].pc \in {"idle", "load", "truncate", "write"}
        /\ adm[p].code \in {"ok", "running", "denied", "invalid", "notfound", "config"}
        /\ (adm[p].pc = "idle") <=> (adm[p].jobs = <<>>)
    /\ overlap \subseteq Files /\ failed \subseteq Files
    /\ mcp.pc \in {"policy", "targets", "stamp", "poll"}
    /\ mcp.pc \in {"stamp", "poll"} => (mcp.booting <=> mcp.pc = "stamp")

(* Commands that did not overlap act one after the other: a file that two  *)
(* commands never worked on at once holds exactly what its finished jobs   *)
(* make of it. A write that failed in between loses nothing of a file that *)
(* refuses to load while truncated (policies, blacklist, filters, targets, *)
(* profiles, system commands); the agent registry and the enabled apps are *)
(* read as empty, so the next command would save its own entry alone.      *)
SerialUnlessOverlap ==
    \A f \in Files \ overlap :
        (f \in Strict \/ f \notin failed) /\ Contents(f) => disk[f] = ledger[f]

(* What a command that removes something saves lets through no more than   *)
(* what it loaded, whatever was in the file: not a call, not a sender, not *)
(* a service of a target, not a package. The one exception is the last     *)
(* allowed sender domain: an empty list lets every sender in.              *)
Removals == {"RemoveRules", "RemoveAllowedSenderDomain", "RemoveSSHTarget",
             "RemoveHTTPProfile", "RemoveManager", "RemoveAllowedPackage",
             "RemoveAllowedService", "RemoveAllowedApp", "RemoveBuildPrefix", "Disable"}

Grants(f, c) ==
    CASE f = "policies" ->
            {call \in Inputs.calls :
                Evaluate(SetToSeq(c), call.app, call.action, call.who, call.params) = "allow"}
      [] f = "mail" -> {s \in Inputs.senders : SenderAllowed(c, s)}
      [] f = "ssh" -> {g \in {t.alias : t \in c} \X Inputs.services :
                          \E t \in c : t.alias = g[1] /\ SSHTargetAllowsService(t, g[2])}
      [] f = "system" ->
            {<<"packages", n>> : n \in {m \in Inputs.names : AllowsPackage(c, m)}}
            \cup {g \in {"services", "apps", "builds"} \X Inputs.names :
                     AllowsListed(c, g[1], g[2])}
      [] OTHER -> c

RemovalNarrows ==
    \A p \in Admins :
        adm[p].pc \in {"truncate", "write"} /\ Current(p).op \in Removals =>
            \/ Grants(Current(p).file, adm[p].held)
                    \subseteq Grants(Current(p).file, adm[p].base)
            \/ Current(p).file = "mail" /\ adm[p].held = {}

(* Every manager that runs under sudo passed the ownership checks of       *)
(* RequireSudoSafe when it was added, through whatever sequence of saves.  *)
SudoManagersSafe ==
    Contents("system") =>
        \A m \in Managers(disk["system"]) : m.sudo => RequireSudoSafe(Binaries[m.binary])

(* Once the administrators stop, openscope-mcp injects the values of the   *)
(* files as they are and its client has listed their tools, provided the   *)
(* policy can be read and no change fell between the first load and the    *)
(* first stamps.                                                           *)
UpToDate ==
    Contents("policies") /\ ~missed =>
        \A tools \in {ToolsFor(disk["policies"], TargetsOf(disk["ssh"]))} :
            mcp.tools = tools /\ client.tools = Listed(tools)

SurfaceFollowsPolicy == <>[]UpToDate

(* The files are what the finished commands make of them, one at a time,   *)
(* and through any sequence of saves no unsafe program runs under sudo.    *)
FilesConsistent == TypeOK /\ SerialUnlessOverlap /\ SudoManagersSafe
=============================================================================

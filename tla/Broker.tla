------------------------------- MODULE Broker -------------------------------
(***************************************************************************)
(* The daemon's chokepoint, Service.Handle (daemon/service.go): every call *)
(* an agent makes, from whatever transport, passes the same sequence of    *)
(* checks before an executor runs.                                         *)
(*                                                                         *)
(* Nothing is locked and nothing is cached: each check reads its own file, *)
(* when it comes to it, so administrators change the files between two     *)
(* checks of one call.  Files are saved with os.WriteFile, which truncates *)
(* first: a reader may meet an empty file, and a save cut short leaves one.*)
(*                                                                         *)
(* A verb stands for an app, an action and the parameter values the checks *)
(* look at; an agent stands for the whole principal.  Which definitions    *)
(* there are is fixed here: Apply and ProposalReview change them.  What    *)
(* the mail filters make of an output is left open.                        *)
(***************************************************************************)
EXTENDS Integers, FiniteSets

CONSTANTS
    Agents,         \* principals
    Verbs,          \* what the app definitions declare
    FolderVerbs,    \* verbs of notes and mail: they name a folder or mailbox
    MailVerbs,      \* verbs of mail, whose output the mail filters see
    AlwaysOn,       \* verbs of bundled and of root-applied apps
    LocalOnly,      \* control and diagnostic verbs (isLocalOnlyVerb)
    Calls,          \* identifiers of the calls of a behaviour
    CallInputs,     \* what a caller may send (a subset of CallType)
    SavedFiles,     \* the files administrators save in a behaviour
    AuditMayFail    \* can the audit log become unwritable?

CallType ==
    [agent : Agents, verb : Verbs \cup LocalOnly, complete : BOOLEAN,
     transport : {"local", "reflector"}, scope : SUBSET Verbs,
     mode : {"json", "body-only"}]

ASSUME BrokerAssumption ==
    /\ FolderVerbs \subseteq Verbs
    /\ MailVerbs \subseteq FolderVerbs
    /\ AlwaysOn \subseteq Verbs
    /\ Verbs \cap LocalOnly = {}
    /\ CallInputs \subseteq CallType
    /\ SavedFiles \subseteq {"enabled", "agents", "protected", "policy"}
    /\ AuditMayFail \in BOOLEAN

VARIABLES
    stage,      \* the next check of each call
    call,       \* what the call carries
    outcome,    \* how it ended
    enabled,    \* verbs of the apps in the enabled-apps file
    agents,     \* agents.yaml
    protected,  \* verbs whose folder the admin blacklist matches
    allow,      \* allow rules of policies.yaml, as <<agent, verb>>
    deny,       \* deny rules
    torn,       \* files truncated by a save that has not written yet
    auditOk,    \* the audit log can be opened for appending
    audit,      \* the audit log: which decision was recorded for which call
    executed,   \* calls handed to an executor
    dark,       \* history: calls under which the log failed after its check
    held        \* history: the gates that were open for a call at some instant
                \* since it arrived

callVars == <<stage, call, outcome>>
logVars  == <<auditOk, dark>>
fileVars == <<enabled, agents, protected, allow, deny, torn>>
vars == <<stage, call, outcome, enabled, agents, protected, allow, deny,
          torn, auditOk, audit, executed, dark, held>>

-----------------------------------------------------------------------------
(* Types *)

Files  == {"enabled", "agents", "protected", "policy"}
Stages == {"idle", "definitions", "registration", "blacklist", "policy",
           "auditCheck", "execute", "running", "done"}
Active == Stages \ {"idle", "done"}
AuditedDenials == {"unregistered_agent", "admin_blacklist", "out_of_scope",
                   "denied"}
Ran == {"success", "executor_error", "executor_failure", "admin_filter_error"}
Outcomes == AuditedDenials \cup Ran \cup
            {"none", "invalid", "not_found", "local_only", "builtin",
             "config_error", "audit_unwritable"}
Gates  == {"enabled", "registered", "open", "allowed"}
NoCall == [verb |-> "none"]

-----------------------------------------------------------------------------
(* Reading the files *)

\* policy.Evaluate: a matching deny rule wins, no matching rule denies.
PolicyAllows(a, v) == <<a, v>> \in allow /\ <<a, v>> \notin deny

\* An empty enabled-apps file or agents file reads as an empty list...
ReadEnabled == IF "enabled" \in torn THEN {} ELSE enabled

\* loadVisibleDefinitions: the opt-in is for apps neither bundled nor applied.
Visible(names) == AlwaysOn \cup names

\* Mutant: an unreadable agents file is treated as "registration is off".
MutReadAgents == IF "agents" \in torn THEN Agents ELSE agents

ReadAgents == IF "agents" \in torn THEN {} ELSE agents
\* ... an empty policy or blacklist file fails its Validate.
Readable(f) == f \notin torn

\* The gates open for a call, by the files' complete contents.
GatesNow(q) ==
    LET m == call[q] IN
    {g \in Gates :
        \/ g = "enabled"    /\ m.verb \in Visible(enabled)
        \/ g = "registered" /\ m.agent \in agents
        \/ g = "open"       /\ m.verb \notin protected
        \/ g = "allowed"    /\ PolicyAllows(m.agent, m.verb)}

\* History: the gates now open join those a running call has seen open.
Observe ==
    held' = [q \in Calls |-> IF stage'[q] \in Active
                             THEN held[q] \cup GatesNow(q)'
                             ELSE held[q]]

-----------------------------------------------------------------------------

Init ==
    /\ stage = [q \in Calls |-> "idle"]
    /\ call = [q \in Calls |-> NoCall]
    /\ outcome = [q \in Calls |-> "none"]
    /\ enabled \in SUBSET Verbs
    /\ agents \in SUBSET Agents
    /\ protected \in SUBSET FolderVerbs
    /\ allow \in SUBSET (Agents \X Verbs)
    /\ deny \in SUBSET (Agents \X Verbs)
    /\ torn = {}
    /\ auditOk = TRUE
    /\ audit = {}
    /\ executed = {}
    /\ dark = {}
    /\ held = [q \in Calls |-> {}]

Goto(q, s) ==
    /\ stage' = [stage EXCEPT ![q] = s]
    /\ UNCHANGED <<outcome, audit>>

\* Handle returns without recording anything.
Return(q, res) ==
    /\ stage' = [stage EXCEPT ![q] = "done"]
    /\ outcome' = [outcome EXCEPT ![q] = res]
    /\ UNCHANGED audit

\* recordAudit, then return: a failing append is only logged.
Record(q, res) ==
    /\ stage' = [stage EXCEPT ![q] = "done"]
    /\ outcome' = [outcome EXCEPT ![q] = res]
    /\ audit' = IF auditOk THEN audit \cup {[call |-> q, result |-> res]}
                ELSE audit

-----------------------------------------------------------------------------
(* The checks, in the order Handle makes them *)

\* A call arrives.  Built-in verbs are served here, and refused on a reflected
\* session, before any policy is read; some of their answers are recorded.
Arrive(q, m) ==
    /\ stage[q] = "idle"
    /\ call' = [call EXCEPT ![q] = m]
    /\ IF m.verb \in LocalOnly
       THEN IF m.transport = "reflector" THEN Return(q, "local_only")
            ELSE Record(q, "builtin") \/ Return(q, "builtin")
       ELSE Goto(q, "definitions")
    /\ UNCHANGED <<fileVars, logVars, executed>>
    /\ Observe

\* loadVisibleDefinitions, which any file of definitions that does not load
\* fails for every call; requireEnabledApp, missingRequired.
CheckDefinitions(q) ==
    /\ stage[q] = "definitions"
    /\ \/ Return(q, "config_error")
       \/ IF call[q].verb \notin Visible(ReadEnabled) THEN Return(q, "not_found")
          ELSE IF ~call[q].complete THEN Return(q, "invalid")
          ELSE Goto(q, "registration")
    /\ UNCHANGED <<call, fileVars, logVars, executed, held>>

\* agent.IsRegistered.
CheckRegistered(q) ==
    /\ stage[q] = "registration"
    /\ IF call[q].agent \in ReadAgents THEN Goto(q, "blacklist")
       ELSE Record(q, "unregistered_agent")
    /\ UNCHANGED <<call, fileVars, logVars, executed, held>>

\* Mutant: an empty scope is taken for no restriction.
MutCheckBlacklist(q) ==
    /\ stage[q] = "blacklist"
    /\ IF ~Readable("protected") THEN Return(q, "config_error")
       ELSE IF call[q].verb \in protected THEN Record(q, "admin_blacklist")
       ELSE IF call[q].transport = "reflector" /\ call[q].scope # {}
               /\ call[q].verb \notin call[q].scope
            THEN Record(q, "out_of_scope")
       ELSE Goto(q, "policy")
    /\ UNCHANGED <<call, fileVars, logVars, executed, held>>

\* The admin blacklist of folders, then the attenuation of a reflected session.
CheckBlacklist(q) ==
    /\ stage[q] = "blacklist"
    /\ IF ~Readable("protected") THEN Return(q, "config_error")
       ELSE IF call[q].verb \in protected THEN Record(q, "admin_blacklist")
       ELSE IF call[q].transport = "reflector" /\ call[q].verb \notin call[q].scope
            THEN Record(q, "out_of_scope")
       ELSE Goto(q, "policy")
    /\ UNCHANGED <<call, fileVars, logVars, executed, held>>

\* policy.LoadDefaultOrEmpty and policy.Evaluate.
EvaluatePolicy(q) ==
    /\ stage[q] = "policy"
    /\ IF ~Readable("policy") THEN Return(q, "config_error")
       ELSE IF PolicyAllows(call[q].agent, call[q].verb)
            THEN Goto(q, "auditCheck")
       ELSE Record(q, "denied")
    /\ UNCHANGED <<call, fileVars, logVars, executed, held>>

\* audit.EnsureWritable: refuse to act when the log cannot be opened.
EnsureWritable(q) ==
    /\ stage[q] = "auditCheck"
    /\ IF auditOk THEN Goto(q, "execute")
       ELSE Return(q, "audit_unwritable")
    /\ UNCHANGED <<call, fileVars, logVars, executed, held>>

\* execRunner.Run is called.
Execute(q) ==
    /\ stage[q] = "execute"
    /\ executed' = executed \cup {q}
    /\ Goto(q, "running")
    /\ UNCHANGED <<call, fileVars, logVars, held>>

\* Mutant: a failed run is reported to the caller but not recorded.
MutExecutorFails(q) ==
    /\ stage[q] = "running"
    /\ \E res \in {"executor_error", "executor_failure"} : Return(q, res)
    /\ UNCHANGED <<call, fileVars, logVars, executed, held>>

\* The executor fails to run, or the command fails.
ExecutorFails(q) ==
    /\ stage[q] = "running"
    /\ \E res \in {"executor_error", "executor_failure"} : Record(q, res)
    /\ UNCHANGED <<call, fileVars, logVars, executed, held>>

\* The executor succeeds: filter, record, answer.  applyAdminFilters reads the
\* mail filters after the executor has run, unless the caller asked for the body
\* only: a file that does not load, an output of another shape or a sender not
\* listed turns the answer into an error.
ExecutorSucceeds(q) ==
    /\ stage[q] = "running"
    /\ \/ Record(q, "success")
       \/ /\ call[q].verb \in MailVerbs /\ call[q].mode # "body-only"
          /\ Record(q, "admin_filter_error")
    /\ UNCHANGED <<call, fileVars, logVars, executed, held>>

-----------------------------------------------------------------------------
(* Administrators and the environment *)

\* os.WriteFile has truncated the file.
BeginSave(f) ==
    /\ f \notin torn
    /\ torn' = torn \cup {f}
    /\ UNCHANGED <<callVars, enabled, agents, protected, allow, deny,
                   logVars, audit, executed, held>>

Toggle(S, x) == IF x \in S THEN S \ {x} ELSE S \cup {x}

\* os.WriteFile has written.  Enabled apps, the blacklist and the rules gain or
\* lose an entry; agents are only ever registered.
EndSave(f) ==
    /\ f \in torn
    /\ torn' = torn \ {f}
    /\ \/ /\ f = "enabled"
          /\ \E v \in Verbs : enabled' = Toggle(enabled, v)
          /\ UNCHANGED <<agents, protected, allow, deny>>
       \/ /\ f = "agents"
          /\ \E a \in Agents : agents' = agents \cup {a}
          /\ UNCHANGED <<enabled, protected, allow, deny>>
       \/ /\ f = "protected"
          /\ \E v \in FolderVerbs : protected' = Toggle(protected, v)
          /\ UNCHANGED <<enabled, agents, allow, deny>>
       \/ /\ f = "policy"
          /\ \E p \in Agents \X Verbs :
                \/ allow' = Toggle(allow, p) /\ UNCHANGED deny
                \/ deny' = Toggle(deny, p) /\ UNCHANGED allow
          /\ UNCHANGED <<enabled, agents, protected>>
    /\ UNCHANGED <<callVars, logVars, audit, executed>>
    /\ Observe

\* The audit log becomes unwritable, or writable again.
FlipAudit ==
    /\ AuditMayFail
    /\ auditOk' = ~auditOk
    /\ dark' = dark \cup {q \in Calls : stage[q] \in {"execute", "running"}}
    /\ UNCHANGED <<callVars, fileVars, audit, executed, held>>

-----------------------------------------------------------------------------

HandleStep(q) ==
    \/ CheckDefinitions(q)
    \/ CheckRegistered(q)
    \/ CheckBlacklist(q)
    \/ EvaluatePolicy(q)
    \/ EnsureWritable(q)
    \/ Execute(q)
    \/ ExecutorFails(q)
    \/ ExecutorSucceeds(q)

Environment ==
    \/ \E f \in SavedFiles : BeginSave(f) \/ EndSave(f)
    \/ FlipAudit

Next ==
    \/ \E q \in Calls :
        \/ \E m \in CallInputs : Arrive(q, m)
        \/ HandleStep(q)
    \/ Environment

Spec == Init /\ [][Next]_vars

-----------------------------------------------------------------------------
(* Properties *)

\* Type invariant of the broker's state.
TypeOK ==
    /\ stage \in [Calls -> Stages]
    /\ call \in [Calls -> CallType \cup {NoCall}]
    /\ outcome \in [Calls -> Outcomes]
    /\ enabled \subseteq Verbs
    /\ agents \subseteq Agents
    /\ protected \subseteq FolderVerbs
    /\ allow \subseteq Agents \X Verbs
    /\ deny \subseteq Agents \X Verbs
    /\ torn \subseteq Files
    /\ auditOk \in BOOLEAN
    /\ audit \subseteq [call : Calls, result : Outcomes]
    /\ executed \subseteq Calls
    /\ dark \subseteq Calls
    /\ held \in [Calls -> SUBSET Gates]

\* What the chokepoint promises although it reads every file at another time:
\* a call is executed only if each gate (app enabled, agent registered, folder
\* not blacklisted, policy allows) stood open at some instant since the call
\* arrived.  So a revocation that was complete when a call arrives stops it,
\* and a half-written file never opens a gate.
ExecutedWasAuthorized == \A q \in executed : held[q] = Gates

\* A reflected call runs only inside its passport's scope and never reaches a
\* built-in verb: the attenuation only narrows.
AttenuationNarrows ==
    \A q \in Calls :
        (call[q] # NoCall /\ call[q].transport = "reflector") =>
            /\ q \in executed => call[q].verb \in call[q].scope
            /\ outcome[q] # "builtin"

\* The comment on EnsureWritable: the daemon "fails closed rather than acting
\* unlogged".  A call that ran leaves its record, whatever the executor made
\* of it, unless the log failed after it was checked, while the call ran.
NeverActsUnlogged ==
    \A q \in executed \ dark : stage[q] = "done" =>
        [call |-> q, result |-> outcome[q]] \in audit

=============================================================================

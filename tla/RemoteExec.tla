----------------------------- MODULE RemoteExec -----------------------------
(***************************************************************************)
(* Executors whose command runs somewhere else: ssh, AWS Systems Manager,  *)
(* HTTP profiles and the AppleScript session agent. A call passes its      *)
(* gates in the daemon, hands one command over and waits for the answer,   *)
(* which the connection or the poll may lose while the command goes on.    *)
(* An ssh verb may stream a staged file, and may verify the host           *)
(* afterwards. The bypass inspection reads a host's authorized keys.       *)
(*                                                                         *)
(* A command's text, its quoting and its output are not kept. A target is  *)
(* [services, paths, uploads, platform, key, profile]; a parameter is      *)
(* [constraint, value].                                                    *)
(***************************************************************************)
EXTENDS Integers, FiniteSets

CONSTANTS
    Calls,
    Traffic,                \* what may happen together: [inputs, restaged, saves, probes],
                            \* the calls tried, the bounds on the environment and the hosts
                            \* whose bypass is inspected; an input is
                            \* [exec, verb, alias, params, file, media, platform, verify, retries]
    InitTargets,            \* target files found at the start: alias -> target
    NewTargets,             \* target files the administrator may save
    KeyFiles,               \* identity file -> [state, underHome, open, owner, bad]
    CredFile,               \* [state, open, owner]: the AWS credentials file
    BadValues,              \* values that fail their pattern
    Artifacts, Allowed,     \* staged files; file -> upload prefixes it resolves under
    Platforms,              \* platforms of staged images; "" is no image at all
    UserKeys, NoPub,        \* keys in ~/.ssh; those whose public half cannot be read
    Hosts,                  \* target -> [listed, ca, relocated, readable, standard]: the keys
                            \* in the usual file, admitted by a CA or a command, and in other
                            \* files; the sshd configuration is readable; its AuthorizedKeysFile
                            \* names the usual file as well
    MaxPolls,
    Nothing                 \* model value

VARIABLES
    traffic,        \* a member of Traffic
    targetFile,     \* alias -> target, or Nothing while it is torn
    staged,         \* Artifacts -> platform of the image there
    health,         \* alias -> the host passes its verify command
    call,           \* Calls -> [pc, in, target, tries, res] and ghosts
    remote,         \* Calls -> the command: none, running, ok or fail
    restaged, targetSaves,
    verdict         \* Calls -> [host, live, elsewhere, out]: bypass verdicts, out: key ->
                    \* outcome; elsewhere is a ghost: keys denied by another than the host

remVars == <<traffic, targetFile, staged, health, call, remote, restaged, targetSaves, verdict>>

NewCall == [pc |-> "new", in |-> Nothing, target |-> Nothing, tries |-> 0, res |-> Nothing,
            lost |-> FALSE, seenUp |-> FALSE, streamed |-> "", apart |-> FALSE,
            moved |-> FALSE]

RemInit ==
    /\ traffic \in Traffic /\ targetFile \in InitTargets
    /\ staged \in [Artifacts -> Platforms]
    /\ health = [a \in DOMAIN Hosts |-> TRUE]
    /\ call = [c \in Calls |-> NewCall]
    /\ remote = [c \in Calls |-> "none"]
    /\ restaged = 0 /\ targetSaves = 0
    /\ verdict = [c \in Calls |-> [host |-> Nothing, live |-> FALSE, elsewhere |-> {},
                                out |-> <<>>]]

Answer(c, res) == [call[c] EXCEPT !.pc = "done", !.res = res]

----------------------------------------------------------------------------
(* Custody of the broker's own credentials. *)

auditKeysInDir(k) == {"mode_too_open", "not_root_owned"} \cap k.bad

AuditKeyProtection(k) ==
    IF k.state = "unset" THEN {"no_identity_file"}
    ELSE (IF k.underHome THEN {"under_dot_ssh"} ELSE {})
         \cup CASE k.state = "missing" -> {"missing"}
                [] k.state = "dir" -> {"not_regular_file"} \cup auditKeysInDir(k)
                [] OTHER -> (IF k.open THEN {"mode_too_open"} ELSE {})
                            \cup (IF k.owner # "root" THEN {"not_root_owned"} ELSE {})

AgentAccessible(code) ==
    code \in {"under_dot_ssh", "mode_too_open", "not_root_owned", "not_regular_file"}

AuditCredCustody(f) ==
    IF f.state # "file" THEN {}
    ELSE (IF f.open THEN {"mode_too_open"} ELSE {})
         \cup (IF f.owner # "root" THEN {"not_root_owned"} ELSE {})

KeyInCustody(t) == \A code \in AuditKeyProtection(KeyFiles[t.key]) : ~AgentAccessible(code)
CredInCustody == \A code \in AuditCredCustody(CredFile) : ~AgentAccessible(code)

----------------------------------------------------------------------------
(* Parameters against the target's lists. *)

requireAllowedService(t, v) == v # "" /\ v \notin BadValues /\ v \in t.services
requireAllowedPath(t, v) == v # "" /\ v \notin BadValues /\ v \in t.paths

ParamsAllowed(t, params) ==
    \A p \in params :
        CASE p.constraint = "service" -> requireAllowedService(t, p.value)
          [] p.constraint = "path" -> requireAllowedPath(t, p.value)
          [] OTHER -> p.value \notin BadValues

requireAllowedUploadSource(t, f) == f \in Artifacts /\ Allowed[f] \cap t.uploads # {}

Curated == {"check_host", "service_status", "restart_service", "tail_logs", "read_file",
            "list_dir", "host_metrics"}

(* An action definition with no command, or no such action.                *)
NoCommand == "no_command"

(* A verb streams a file or verifies its host only over ssh, and the       *)
(* curated verbs do neither; an image is a streamed file.                  *)
ASSUME TrafficAssumption ==
    /\ MaxPolls \in Nat \ {0}
    /\ Nothing \notin {"refused", "failed", "ok", "unhealthy"}
    /\ \A t \in Traffic : \A in \in t.inputs :
        /\ in.exec \in {"ssh", "ssm", "http", "apple"}
        /\ in.retries \in Nat
        /\ in.file # "" \/ in.verify => in.exec = "ssh" /\ in.verb \notin Curated
        /\ in.media => in.file # ""

sshRunAction(t, in) ==
    /\ in.verb # NoCommand /\ ParamsAllowed(t, in.params)
    /\ in.verb \notin Curated /\ in.file # "" => requireAllowedUploadSource(t, in.file)

ssmRunAction(t, in) == in.verb # NoCommand /\ ParamsAllowed(t, in.params)

(* parseActionScript, renderPath, buildURL and buildBody may refuse.       *)
httpPrepare(in) == in.verb # NoCommand /\ \A p \in in.params : p.value \notin BadValues

----------------------------------------------------------------------------
(* The start of a call: load the targets, find one, audit, check.          *)

Gated(in, t) ==
    CASE in.exec = "ssh" -> KeyInCustody(t) /\ sshRunAction(t, in)
      [] in.exec = "ssm" -> CredInCustody /\ ssmRunAction(t, in)
      [] in.exec = "http" -> httpPrepare(in)
      [] in.exec = "apple" -> in.verb # NoCommand

BeginCall(c) ==
    /\ call[c].pc = "new"
    /\ \E in \in traffic.inputs :
        LET needs == in.exec # "apple"
            found == targetFile # Nothing /\ in.alias \in DOMAIN targetFile
            t == IF needs /\ found THEN targetFile[in.alias] ELSE Nothing
            ok == IF needs THEN found /\ Gated(in, t) ELSE Gated(in, t)
        IN  call' = [call EXCEPT ![c] =
                [NewCall EXCEPT !.in = in, !.target = t,
                    !.res = IF ok THEN Nothing ELSE "refused",
                    !.pc = IF ~ok THEN "done"
                           ELSE IF in.exec = "ssh" /\ in.file # ""
                                THEN IF in.media THEN "inspect" ELSE "open"
                           ELSE "send"]]
    /\ UNCHANGED <<traffic, targetFile, staged, health, remote, restaged, targetSaves, verdict>>

(* dockerImagePlatform: the platform the image names; an artifact whose    *)
(* platform cannot be told is an error.                                    *)
dockerImagePlatform(f) == staged[f]

Expected(c) ==
    IF call[c].in.platform # "" THEN call[c].in.platform ELSE call[c].target.platform

\* Mutant: an image of unknown platform is let through.
MutInspectArtifact(c) ==
    /\ call[c].pc = "inspect"
    /\ call' = [call EXCEPT ![c] =
            IF dockerImagePlatform(call[c].in.file) \in {"", Expected(c)}
            THEN [call[c] EXCEPT !.pc = "open"] ELSE Answer(c, "refused")]
    /\ UNCHANGED <<traffic, targetFile, staged, health, remote, restaged, targetSaves, verdict>>

(* runCommandAction's artifact gate, then a second open of the same path.  *)
InspectArtifact(c) ==
    /\ call[c].pc = "inspect"
    /\ LET detected == dockerImagePlatform(call[c].in.file)
       IN  call' = [call EXCEPT ![c] =
                IF detected = "" \/ (Expected(c) # "" /\ detected # Expected(c))
                THEN Answer(c, "refused") ELSE [call[c] EXCEPT !.pc = "open"]]
    /\ UNCHANGED <<traffic, targetFile, staged, health, remote, restaged, targetSaves, verdict>>

(* ssh is given the open file and reads it while the command runs.         *)
OpenArtifact(c) ==
    /\ call[c].pc = "open"
    /\ \/ call' = [call EXCEPT ![c].pc = "send", ![c].streamed = staged[call[c].in.file]]
       \/ call' = [call EXCEPT ![c] = Answer(c, "refused")]
    /\ UNCHANGED <<traffic, targetFile, staged, health, remote, restaged, targetSaves, verdict>>

----------------------------------------------------------------------------
(* Handing the command over. *)

(* The peer may be out of reach, and then nothing has run.                 *)
HandOver(c, exec) ==
    /\ call[c].pc = "send" /\ call[c].in.exec = exec
    /\ \/ call' = [call EXCEPT ![c].pc = "wait"] /\ remote' = [remote EXCEPT ![c] = "running"]
       \/ call' = [call EXCEPT ![c] = Answer(c, "failed")] /\ UNCHANGED remote
    /\ UNCHANGED <<traffic, targetFile, staged, health, restaged, targetSaves, verdict>>

sshRunRemote(c) == HandOver(c, "ssh")
httpDo(c) == HandOver(c, "http")
ForwarderRun(c) == HandOver(c, "apple")

(* aws ssm send-command: refused; accepted; or accepted and the answer     *)
(* lost or without an id.                                                  *)
ssmRunRemote(c) ==
    /\ call[c].pc = "send" /\ call[c].in.exec = "ssm"
    /\ \/ call' = [call EXCEPT ![c] = Answer(c, "failed")] /\ UNCHANGED remote
       \/ /\ call' = [call EXCEPT ![c].pc = "poll", ![c].tries = MaxPolls]
          /\ remote' = [remote EXCEPT ![c] = "running"]
       \/ /\ call' = [call EXCEPT ![c] = [Answer(c, "failed") EXCEPT !.lost = TRUE]]
          /\ remote' = [remote EXCEPT ![c] = "running"]
    /\ UNCHANGED <<traffic, targetFile, staged, health, restaged, targetSaves, verdict>>

(* The command ends; a command that changes the host may leave it sick.    *)
RemoteEnds(c) ==
    /\ remote[c] = "running" /\ call[c].in.exec # "apple"
    /\ \E end \in {"ok", "fail"} : remote' = [remote EXCEPT ![c] = end]
    /\ IF call[c].in.exec = "ssh" /\ call[c].in.verify
       THEN \E up \in BOOLEAN : health' = [health EXCEPT ![call[c].in.alias] = up]
       ELSE UNCHANGED health
    /\ UNCHANGED <<traffic, targetFile, staged, call, restaged, targetSaves, verdict>>

(* The session agent decodes the request and runs the script.              *)
serveSessionConn(c) ==
    /\ remote[c] = "running" /\ call[c].in.exec = "apple"
    /\ \E end \in {"ok", "fail"} : remote' = [remote EXCEPT ![c] = end]
    /\ UNCHANGED <<traffic, targetFile, staged, health, call, restaged, targetSaves, verdict>>

HostSettles(a) ==
    /\ ~health[a]
    /\ health' = [health EXCEPT ![a] = TRUE]
    /\ UNCHANGED <<traffic, targetFile, staged, call, remote, restaged, targetSaves, verdict>>

(* The connection breaks, the HTTP client times out, the session agent     *)
(* dies: an error while the command may go on.                             *)
AnswerLost(c) ==
    /\ call[c].pc = "wait"
    /\ call' = [call EXCEPT ![c] = [Answer(c, "failed") EXCEPT !.lost = TRUE]]
    /\ UNCHANGED <<traffic, targetFile, staged, health, remote, restaged, targetSaves, verdict>>

(* What follows the command: the status of a restarted service, the        *)
(* verification, or the answer.                                            *)
AfterCommand(c, end) ==
    IF end = "fail" THEN Answer(c, "failed")
    ELSE IF call[c].in.verb = "restart_service" THEN [call[c] EXCEPT !.pc = "status"]
    ELSE IF call[c].in.exec = "ssh" /\ call[c].in.verify
         THEN [call[c] EXCEPT !.pc = "verify", !.tries = call[c].in.retries + 1]
    ELSE Answer(c, "ok")

(* check_host wants five lines, a reader of an HTTP answer its whole body. *)
CommandAnswered(c) ==
    /\ call[c].pc = "wait" /\ remote[c] \in {"ok", "fail"}
    /\ \/ call' = [call EXCEPT ![c] = AfterCommand(c, remote[c])]
       \/ /\ call[c].in.verb = "check_host" \/ call[c].in.exec = "http"
          /\ call' = [call EXCEPT ![c] = [Answer(c, "failed") EXCEPT !.lost = TRUE]]
    /\ UNCHANGED <<traffic, targetFile, staged, health, remote, restaged, targetSaves, verdict>>

restartService(c) ==
    /\ call[c].pc = "status"
    /\ \E ok \in BOOLEAN :
        call' = [call EXCEPT ![c] = IF ok THEN Answer(c, "ok")
                                    ELSE [Answer(c, "failed") EXCEPT !.lost = TRUE]]
    /\ UNCHANGED <<traffic, targetFile, staged, health, remote, restaged, targetSaves, verdict>>

----------------------------------------------------------------------------
(* Polls and verification *)

\* Mutant: a running command is polled until it ends.
MutPollInvocation(c) ==
    /\ call[c].pc = "poll" /\ remote[c] \in {"ok", "fail"}
    /\ call' = [call EXCEPT ![c] = Answer(c, IF remote[c] = "ok" THEN "ok" ELSE "failed")]
    /\ UNCHANGED <<traffic, targetFile, staged, health, remote, restaged, targetSaves, verdict>>

(* pollInvocation: the status of the command, or an aws error, which ends  *)
(* the wait; a command still running is polled MaxPolls times.             *)
pollInvocation(c) ==
    /\ call[c].pc = "poll"
    /\ \/ call' = [call EXCEPT ![c] = [Answer(c, "failed") EXCEPT !.lost = TRUE]]
       \/ call' = [call EXCEPT ![c] =
            CASE remote[c] = "ok" -> Answer(c, "ok")
              [] remote[c] = "fail" -> Answer(c, "failed")
              [] OTHER -> IF call[c].tries = 1 THEN [Answer(c, "failed") EXCEPT !.lost = TRUE]
                          ELSE [call[c] EXCEPT !.tries = @ - 1]]
    /\ UNCHANGED <<traffic, targetFile, staged, health, remote, restaged, targetSaves, verdict>>

\* Mutant: the last attempt's failure is not looked at.
MutVerifyHost(c) ==
    /\ call[c].pc = "verify"
    /\ \E reached \in BOOLEAN :
        LET up == reached /\ health[call[c].in.alias]
        IN  call' = [call EXCEPT ![c] =
                IF up \/ call[c].tries = 1 THEN [Answer(c, "ok") EXCEPT !.seenUp = up]
                ELSE [call[c] EXCEPT !.tries = @ - 1]]
    /\ UNCHANGED <<traffic, targetFile, staged, health, remote, restaged, targetSaves, verdict>>

(* One attempt of the verify command: out of reach counts as a failure.    *)
VerifyHost(c) ==
    /\ call[c].pc = "verify"
    /\ \E reached \in BOOLEAN :
        LET up == reached /\ health[call[c].in.alias]
        IN  call' = [call EXCEPT ![c] =
                IF up THEN [Answer(c, "ok") EXCEPT !.seenUp = TRUE]
                ELSE IF call[c].tries = 1 THEN Answer(c, "unhealthy")
                ELSE [call[c] EXCEPT !.tries = @ - 1]]
    /\ UNCHANGED <<traffic, targetFile, staged, health, remote, restaged, targetSaves, verdict>>

----------------------------------------------------------------------------
(* The bypass inspection: which of the user's own keys the host accepts.   *)

(* authKeysReadCmd: the keys of the usual file, and whether the readable   *)
(* part of the sshd configuration admits others. Other files count only    *)
(* when the configuration does not name the usual one.                     *)
parseAuthorizedKeys(h) ==
    [keys |-> h.listed,
     alt |-> h.readable /\ (h.ca # {} \/ (h.relocated # {} /\ ~h.standard))]

VerdictFor(dump, key) ==
    IF key \in NoPub THEN "unknown"
    ELSE IF key \in dump.keys THEN "found" ELSE IF dump.alt THEN "unknown" ELSE "clear"

(* ReadAuthorizedKeys over the broker's key: read; rejected (exit 255 and  *)
(* a denial: one result, no key); or out of reach.                         *)
InspectBypass(c, a) ==
    /\ call[c].pc = "new"
    /\ call' = [call EXCEPT ![c] = [NewCall EXCEPT !.pc = "probed"]]
    /\ \E out \in {[k \in UserKeys |-> VerdictFor(parseAuthorizedKeys(Hosts[a]), k)],
                  [k \in {"broker_key_rejected"} |-> k],
                  [k \in UserKeys |-> "unknown"]} :
        verdict' = [verdict EXCEPT ![c] =
            [host |-> a, live |-> FALSE, elsewhere |-> {}, out |-> out]]
    /\ UNCHANGED <<traffic, targetFile, staged, health, remote, restaged, targetSaves>>

Accepts(h, key) == key \in h.listed \cup h.ca \cup h.relocated

(* How a live attempt may go: the host decides; something else denies, the *)
(* jump host or ssh itself when it cannot load the key; nobody is reached. *)
Attempts == {"decided", "denied", "unreached"}

(* classifyBypass: exit 0, a denial whoever it is from, anything else.     *)
classifyBypass(h, key, attempt) ==
    CASE attempt = "unreached" -> "unknown"
      [] attempt = "decided" /\ Accepts(h, key) -> "found"
      [] OTHER -> "clear"

ProbeBypass(c, a) ==
    /\ call[c].pc = "new"
    /\ call' = [call EXCEPT ![c] = [NewCall EXCEPT !.pc = "probed"]]
    /\ \E attempt \in [UserKeys -> Attempts] :
        verdict' = [verdict EXCEPT ![c] =
            [host |-> a, live |-> TRUE,
             elsewhere |-> {k \in UserKeys : attempt[k] = "denied"},
             out |-> [k \in UserKeys |-> classifyBypass(Hosts[a], k, attempt[k])]]]
    /\ UNCHANGED <<traffic, targetFile, staged, health, remote, restaged, targetSaves>>

----------------------------------------------------------------------------
(* The environment: a staged file is changed, the targets are saved.       *)

Inspects(c, f) == call[c].pc = "open" /\ call[c].in.file = f

(* ssh has the file open that is at the path.                              *)
Reading(c, f) ==
    /\ call[c].pc \in {"send", "wait"} /\ remote[c] \in {"none", "running"}
    /\ call[c].in.file = f /\ ~call[c].apart

Staging(f, p) ==
    /\ restaged < traffic.restaged /\ p # staged[f]
    /\ restaged' = restaged + 1
    /\ staged' = [staged EXCEPT ![f] = p]
    /\ UNCHANGED <<traffic, targetFile, health, remote, targetSaves, verdict>>

(* Another file takes the path: who has the old one open keeps that.       *)
Restage(f, p) ==
    /\ Staging(f, p)
    /\ call' = [c \in Calls |->
            IF Inspects(c, f) THEN [call[c] EXCEPT !.moved = TRUE]
            ELSE IF Reading(c, f) THEN [call[c] EXCEPT !.apart = TRUE]
            ELSE call[c]]

(* The file itself is written over: who has it open sends the new content. *)
Rewrite(f, p) ==
    /\ Staging(f, p)
    /\ call' = [c \in Calls |->
            IF Inspects(c, f) THEN [call[c] EXCEPT !.moved = TRUE]
            ELSE IF Reading(c, f) THEN [call[c] EXCEPT !.moved = TRUE, !.streamed = p]
            ELSE call[c]]

SaveTargets ==
    /\ \/ /\ targetFile # Nothing /\ targetSaves < traffic.saves
          /\ targetFile' = Nothing /\ targetSaves' = targetSaves + 1
       \/ targetFile = Nothing /\ targetFile' \in NewTargets /\ UNCHANGED targetSaves
    /\ UNCHANGED <<traffic, staged, health, call, remote, restaged, verdict>>

BrokerStep(c) ==
    \/ BeginCall(c) \/ InspectArtifact(c) \/ OpenArtifact(c)
    \/ sshRunRemote(c) \/ httpDo(c) \/ ForwarderRun(c) \/ ssmRunRemote(c)
    \/ CommandAnswered(c) \/ restartService(c) \/ pollInvocation(c)
    \/ VerifyHost(c)

RemNext ==
    \/ \E c \in Calls : BrokerStep(c) \/ RemoteEnds(c) \/ serveSessionConn(c) \/ AnswerLost(c)
    \/ \E c \in Calls, a \in traffic.probes : InspectBypass(c, a) \/ ProbeBypass(c, a)
    \/ \E a \in DOMAIN Hosts : HostSettles(a)
    \/ \E f \in Artifacts, p \in Platforms : Restage(f, p) \/ Rewrite(f, p)
    \/ SaveTargets

(* The daemon's goroutine goes on by itself; nothing is assumed of the     *)
(* remote end.                                                             *)
RemFairness == \A c \in Calls : WF_remVars(BrokerStep(c))

----------------------------------------------------------------------------
(* Properties *)

(* Every variable has its type; only a call that was let through waits.    *)
RemTypeOK ==
    /\ staged \in [Artifacts -> Platforms] /\ health \in [DOMAIN Hosts -> BOOLEAN]
    /\ remote \in [Calls -> {"none", "running", "ok", "fail"}]
    /\ \A c \in Calls :
        /\ call[c].pc \in {"new", "inspect", "open", "send", "wait", "status", "poll",
                           "verify", "done", "probed"}
        /\ call[c].tries \in Nat
        /\ (call[c].res # Nothing) <=> (call[c].pc = "done")

(* What a caller may conclude from an answer, whichever executor gave it:  *)
(* refused, and the peer has never seen the command; ok, and it ran to a   *)
(* successful end, and a verified one on a host that was seen healthy      *)
(* after it; unhealthy ("the mutation IS applied"), and it did succeed;    *)
(* failed, and if the command has not failed or stayed away then the       *)
(* answer was lost, the poll gave up or a status query failed.             *)
OutcomeIsHonest ==
    \A c \in Calls :
        /\ call[c].res = "refused" => remote[c] = "none"
        /\ call[c].res = "ok" =>
               /\ remote[c] = "ok"
               /\ call[c].in.exec = "ssh" /\ call[c].in.verify => call[c].seenUp
        /\ call[c].res = "unhealthy" => remote[c] = "ok"
        /\ call[c].res = "failed" => remote[c] \in {"none", "fail"} \/ call[c].lost

(* A file that was streamed to a host is an image of the platform the      *)
(* verb or the target's facts demand, unless another took its path between *)
(* the inspection and the second open, or it was written over in place     *)
(* between the inspection and the end of the command that reads it. A file *)
(* that takes the path after the open changes nothing.                     *)
StreamedIsInspected ==
    \A c \in Calls :
        (remote[c] # "none" /\ call[c].in.media) =>
            \/ call[c].moved
            \/ call[c].streamed # "" /\ Expected(c) \in {"", call[c].streamed}

(* No command reaches a host over a key that a process of the user could   *)
(* read, and none names a service or a path the target does not list.      *)
OnlyCustodiedKeys ==
    \A c \in Calls :
        (remote[c] # "none" /\ call[c].in.exec = "ssh") =>
            LET k == KeyFiles[call[c].target.key] IN
            /\ k.state # "unset" => ~k.underHome
            /\ k.state = "file" => ~k.open /\ k.owner = "root"
            /\ \A p \in call[c].in.params :
                p.constraint \in {"service", "path"} =>
                    p.value \in call[c].target.services \cup call[c].target.paths

(* A key reported clear cannot log in to the host, with the exceptions of  *)
(* the code: the inspection could not read the sshd configuration, or the  *)
(* key is in a second file of an AuthorizedKeysFile that names the usual   *)
(* one too (parseAuthorizedKeys); the live probe was denied by a jump host *)
(* or for a key that ssh could not load (mentionsAuthDenial).              *)
ClearIsClear ==
    \A c \in Calls : \A k \in DOMAIN verdict[c].out :
        (verdict[c].out[k] = "clear" /\ Accepts(Hosts[verdict[c].host], k)) =>
            LET h == Hosts[verdict[c].host]
            IN  IF verdict[c].live THEN k \in verdict[c].elsewhere
                ELSE ~h.readable \/ (h.standard /\ k \in h.relocated)

(* A Systems Manager call is answered, whether or not its command ends.    *)
SsmEnds == \A c \in Calls : call[c].pc \in {"send", "poll"} /\ call[c].in.exec = "ssm"
                            ~> call[c].pc = "done"
=============================================================================

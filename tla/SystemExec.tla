----------------------------- MODULE SystemExec -----------------------------
(***************************************************************************)
(* The system executor (executor/systemexec/system.go): requests that act  *)
(* on the broker's own host. A request loads system_commands.yaml, passes  *)
(* its handler's gates and runs the handler's commands one by one; other   *)
(* requests, the administrator and the user's own processes act between    *)
(* two commands.                                                           *)
(*                                                                         *)
(* A handler is an operator from the loaded configuration and the request  *)
(* to the list of steps still to be made, or Refused. A step runs a        *)
(* program, or reads a signature and may refuse. Names, paths and programs *)
(* are strings; Malformed ones fail their pattern or are not absolute, and *)
(* a path is under the prefixes Under names. The configuration is the set  *)
(* of entries of AdminFiles, a switch being an entry of the list "flags".  *)
(***************************************************************************)
EXTENDS AdminFiles, SequencesExt

CONSTANTS
    Jobs,
    Mixes,              \* what may happen together: [requests, paths, replaced, forked,
                        \* saves], the requests tried and the bounds on the environment
    InitCmds, NewCmds,  \* system commands found at the start, and later saved
    Privs,              \* [root, sudo, applied]: the daemon's uid, the escalation
                        \* opt-in, and whether custom verbs are root-applied
    Malformed,          \* names and paths that fail their pattern
    Under,              \* path -> the prefixes it lies under, itself included
    Loose,              \* paths a user may change where no check looks: through a directory
                        \* above the one the file is in, or inside a bundle
    PkgFiles,           \* paths that end in .pkg
    Brew,               \* the path of the brew program
    DirOrder,           \* install directories, in the order the file keeps them
    Contents, TeamOf,   \* bundle and package contents; "" when unsigned or teamless
    Signed,             \* contents whose signature verifies
    InitContent,        \* path -> content at the start
    Pids,
    None                \* model value

VARIABLES
    mix,        \* a member of Mixes
    cmdFile,    \* system_commands.yaml: Absent, Torn or entries
    priv,       \* a member of Privs
    content,    \* path -> content of the bundle, package or program there
    replaced,   \* ghost: how often each path was replaced by the user
    installed,  \* <<dir, app>> -> what lies there: contents, parts and links
    procs,      \* Pids -> [gen, name, port]; gen tells two users of a pid apart
    job,        \* Jobs -> [pc, req, cfg, todo, res] and ghosts
    saves,      \* configurations saved so far
    launched,   \* packages handed to a detached installer: [job, path]
    done        \* ghost: what commands did, [job, kind, arg, sudo, tampered]

sysVars == <<mix, cmdFile, priv, content, replaced, installed, procs, job, saves,
             launched, done>>

Paths == DOMAIN Under

\* The applications that some request names.
AppNames == {q.name : q \in {r \in UNION {m.requests : m \in Mixes} : r.verb = "manage_apps"}}

\* The verbs the executor has a handler for; any other is a custom one.
BuiltIn == {"manage_packages", "manage_services", "manage_processes", "check_port",
            "release_port", "manage_files", "manage_apps", "install_pkg", "build"}

\* A configuration names install directories of DirOrder only, and programs of Paths;
\* a bundle, a package or a program a request names is a path, malformed or none.
ASSUME SystemAssumption ==
    /\ None \notin {"ok", "failed", "refused"} /\ Refused # <<>>
    /\ InitContent \in [Paths -> Contents] /\ Brew \in Paths
    /\ DirOrder \in Seq(ToSet(DirOrder))
    /\ \A c \in (InitCmds \cup NewCmds) \ {Absent, Torn, Garbled} : \A e \in c :
            /\ e.list = "dirs" => e.name \in ToSet(DirOrder)
            /\ e.list = "managers" => e.binary \in Paths
    /\ \A m \in Mixes : \A q \in m.requests :
            /\ q.verb = "manage_apps" => q.source \in Paths \cup Malformed \cup {""}
            /\ q.verb = "install_pkg" => q.pkg \in Paths \cup Malformed \cup {""}
            /\ q.verb \notin BuiltIn => q.program \in Paths \cup Malformed \cup {""}

Fresh == [pc |-> "new", req |-> None, cfg |-> {}, todo |-> <<>>, res |-> None,
          held |-> {}, swapped |-> FALSE, alone |-> TRUE, rmFailed |-> FALSE,
          left |-> {}]

SysInit ==
    /\ mix \in Mixes /\ cmdFile \in InitCmds /\ priv \in Privs
    /\ content = InitContent
    /\ replaced = [p \in Paths |-> 0]
    /\ installed = [at \in ToSet(DirOrder) \X AppNames |-> {}]
    /\ procs = [p \in Pids |-> [gen |-> 0, name |-> "idle", port |-> "none"]]
    /\ job = [j \in Jobs |-> Fresh]
    /\ saves = 0 /\ launched = {} /\ done = {}

----------------------------------------------------------------------------
(* Steps of a handler. *)

Step(kind, arg) == [kind |-> kind, arg |-> arg, sudo |-> FALSE, tolerated |-> FALSE]
Run(kind, arg) == <<Step(kind, arg)>>
TolerantStep(kind, arg) == [kind |-> kind, arg |-> arg, sudo |-> FALSE, tolerated |-> TRUE]
Tolerant(kind, arg) == <<TolerantStep(kind, arg)>>
Privileged(sudo, kind, arg) == <<[Step(kind, arg) EXCEPT !.sudo = sudo]>>

WellFormed(name) == name # "" /\ name \notin Malformed
validatePath(path) == path \notin Malformed

Flag(cmds, name) == AllowsListed(cmds, "flags", name)
ListOf(cmds, list) == {e.name : e \in {x \in cmds : x.list = list}}
AllowsFilePath(cmds, list, path) ==
    path # "" /\ Under[path] \cap ListOf(cmds, list) # {}

\* AllowedInstallDirs: those of the first n of DirOrder that the file lists.
AllowedDirs(cmds) ==
    LET among[n \in 0..Len(DirOrder)] ==
            IF n = 0 THEN <<>>
            ELSE IF AllowsListed(cmds, "dirs", DirOrder[n]) THEN Append(among[n - 1], DirOrder[n])
            ELSE among[n - 1]
    IN  among[Len(DirOrder)]

FirstDir(cmds) == IF AllowedDirs(cmds) = <<>> THEN None ELSE Head(AllowedDirs(cmds))

----------------------------------------------------------------------------
(* Packages *)

npmOps == [install |-> "install", uninstall |-> "uninstall", upgrade |-> "update",
           list |-> "list"]
SubCommand(m, op) == IF m.name = "npm" THEN npmOps[op] ELSE op

packageList(m) == Privileged(m.sudo, "manager", <<m.binary, SubCommand(m, "list")>>)

packageMutate(m, op, pkg) ==
    Privileged(m.sudo, "manager", <<m.binary, SubCommand(m, op), pkg>>)

managePackages(cmds, q) ==
    LET mgr == {m \in Managers(cmds) : m.name = q.manager}
    IN  IF mgr = {} THEN Refused
        ELSE LET m == CHOOSE x \in mgr : TRUE
             IN  CASE q.op = "list" -> packageList(m)
                   [] /\ q.op \in {"install", "uninstall", "upgrade"}
                      /\ WellFormed(q.package) /\ AllowsPackage(cmds, q.package)
                      -> packageMutate(m, q.op, q.package)
                   [] OTHER -> Refused

(* Services *)
brewService(op, service) == Run("brew", <<op, service>>)
launchctl(op, service) == Run("launchctl", <<op, service>>)

manageServices(cmds, q) ==
    IF ~(WellFormed(q.service) /\ AllowsListed(cmds, "services", q.service)) THEN Refused
    ELSE CASE q.op \in {"start", "stop", "restart", "status"} -> brewService(q.op, q.service)
           [] /\ q.op \in {"launchctl_list", "launchctl_start", "launchctl_stop"}
              /\ Flag(cmds, "launchctl")
              -> launchctl(q.op, q.service)
           [] OTHER -> Refused

----------------------------------------------------------------------------
(* Processes and ports *)

validSignals == {"TERM", "HUP", "INT", "KILL", "USR1", "USR2", "QUIT"}

processList(q) == IF q.name \in Malformed THEN Refused ELSE Run("ps", <<>>)

processKill(cmds, q) ==
    LET signal == IF q.signal = "" THEN "TERM" ELSE q.signal
    IN  IF ~(signal \in validSignals /\ AllowsListed(cmds, "signals", signal)) THEN Refused
        ELSE IF q.name # ""
             THEN IF WellFormed(q.name) /\ AllowsListed(cmds, "processes", q.name)
                  THEN Run("pkill", <<q.name>>) ELSE Refused
        ELSE IF q.pid # None /\ q.pid >= 2 /\ Flag(cmds, "kill_by_pid")
             THEN Run("killpid", <<q.pid>>) ELSE Refused

manageProcesses(cmds, q) ==
    CASE q.op = "list" -> processList(q)
      [] q.op = "kill" -> processKill(cmds, q)
      [] OTHER -> Refused

parsePort(port) == port \notin Malformed \cup {""}
checkPort(q) == IF parsePort(q.port) THEN Run("lsof", <<q.port>>) ELSE Refused

releasePort(cmds, q) ==
    IF parsePort(q.port) /\ AllowsListed(cmds, "ports", q.port)
    THEN Run("release", <<q.port>>) ELSE Refused

----------------------------------------------------------------------------
(* Files: four-digit modes that begin with 4 or 2 are refused. *)

ModeAllowed(mode) == mode \notin Malformed \cup {"", "4755", "2755"}

chmod(cmds, q) ==
    IF ModeAllowed(q.mode) /\ AllowsFilePath(cmds, "chmod", q.path)
    THEN Run("chmod", <<q.path>>) ELSE Refused

chown(cmds, q) ==
    IF WellFormed(q.owner) /\ AllowsFilePath(cmds, "chown", q.path)
    THEN Run("chown", <<q.path>>) ELSE Refused

manageFiles(cmds, q) ==
    IF q.path = "" \/ ~validatePath(q.path) THEN Refused
    ELSE CASE q.op = "chmod" -> chmod(cmds, q)
           [] q.op = "chown" -> chown(cmds, q)
           [] OTHER -> Refused

----------------------------------------------------------------------------
(* Applications and packages: where a bundle may come from. *)

requireRootOwnedFile(s) == ~s.writable /\ s.owner = "root"

\* Mutant: only the bundle itself is looked at, not its directory.
MutRootOwnedSource(path) == requireRootOwnedFile(Binaries[path])

RootOwnedSource(path) ==
    requireRootOwnedFile(Binaries[path]) /\ RequireRootOwnedDir(Binaries[path])

(* codesign --verify and codesign -dvv are two runs of a program over the  *)
(* bundle: two steps.                                                      *)
realAppTeamID(path) == <<Step("verify", <<path>>), Step("team", <<path, "appteams">>)>>
realPkgTeamID(path) == <<Step("team", <<path, "pkgteams">>)>>

requireAppSourceProvenance(cmds, path) ==
    IF Flag(cmds, "root_source") /\ ~RootOwnedSource(path) THEN Refused
    ELSE IF ListOf(cmds, "appteams") # {} THEN realAppTeamID(path)
    ELSE <<>>

(* The checks install and symlink share; None is no destination.           *)
Placement(cmds, q) ==
    LET dir == IF q.dest = "" THEN FirstDir(cmds) ELSE q.dest
    IN  CASE q.source = "" \/ ~validatePath(q.source) -> Refused
          [] ~AllowsFilePath(cmds, "sources", q.source) -> Refused
          [] requireAppSourceProvenance(cmds, q.source) = Refused -> Refused
          [] dir = None -> Refused
          [] ~(validatePath(dir) /\ AllowsListed(cmds, "dirs", dir)) -> Refused
          [] OTHER -> dir

appInstall(cmds, q) ==
    LET dir == Placement(cmds, q)
    IN  IF dir = Refused THEN Refused
        ELSE requireAppSourceProvenance(cmds, q.source)
             \o Tolerant("rm-rf", <<dir, q.name>>) \o Run("ditto", <<q.source, dir, q.name>>)

appSymlink(cmds, q) ==
    LET dir == Placement(cmds, q)
    IN  IF dir = Refused THEN Refused
        ELSE requireAppSourceProvenance(cmds, q.source)
             \o Tolerant("rm-f", <<dir, q.name>>) \o Run("ln", <<q.source, dir, q.name>>)

appQuit(q) == Tolerant("osascript", <<q.name>>) \o Tolerant("killall", <<q.name>>)

appLaunch(cmds, q) ==
    IF FirstDir(cmds) = None THEN Refused ELSE Run("open", <<FirstDir(cmds), q.name>>)

appUninstall(cmds, q) ==
    [i \in DOMAIN AllowedDirs(cmds) |-> TolerantStep("rm-rf", <<AllowedDirs(cmds)[i], q.name>>)]

manageApps(cmds, q) ==
    IF ~(WellFormed(q.name) /\ AllowsListed(cmds, "apps", q.name)) THEN Refused
    ELSE CASE q.op = "quit" -> appQuit(q)
           [] q.op = "launch" -> appLaunch(cmds, q)
           [] q.op = "install" -> appInstall(cmds, q)
           [] q.op = "symlink" -> appSymlink(cmds, q)
           [] q.op = "uninstall" -> appUninstall(cmds, q)
           [] OTHER -> Refused

PkgScopeConfigured(cmds) ==
    \/ ListOf(cmds, "pkgs") # {} \/ ListOf(cmds, "pkgteams") # {}
    \/ Flag(cmds, "root_pkg")

installPkg(cmds, q) ==
    CASE q.pkg = "" \/ ~validatePath(q.pkg) \/ q.pkg \notin PkgFiles \/ ~priv.root -> Refused
      [] ~PkgScopeConfigured(cmds) -> Refused
      [] ListOf(cmds, "pkgs") # {} /\ ~AllowsFilePath(cmds, "pkgs", q.pkg) -> Refused
      [] Flag(cmds, "root_pkg") /\ ~RootOwnedSource(q.pkg) -> Refused
      [] OTHER -> (IF ListOf(cmds, "pkgteams") # {} THEN realPkgTeamID(q.pkg) ELSE <<>>)
                  \o Run("installer", <<q.pkg>>)

----------------------------------------------------------------------------
(* Builds and custom verbs *)

xcodebuild(q) ==
    IF q.target \in Malformed \/ q.action \notin {"", "build", "clean", "test", "archive"}
    THEN Refused ELSE Run("xcodebuild", <<q.project>>)

build(cmds, q) ==
    IF /\ q.project # "" /\ validatePath(q.project)
       /\ AllowsFilePath(cmds, "builds", q.project) /\ q.op = "xcodebuild"
    THEN xcodebuild(q) ELSE Refused

(* The program of a template must be a literal absolute path; a parameter  *)
(* declared a path must be absolute.                                       *)
renderSystemArgv(q) == q.program \notin Malformed /\ q.value \notin Malformed

runSystemCommand(q) ==
    LET privileged == priv.root \/ priv.sudo
    IN  IF q.program = "" \/ (privileged /\ ~priv.applied) \/ ~renderSystemArgv(q)
        THEN Refused
        ELSE Privileged(privileged, "custom", <<q.program>>)

runAction(cmds, q) ==
    CASE q.verb = "manage_packages" -> managePackages(cmds, q)
      [] q.verb = "manage_services" -> manageServices(cmds, q)
      [] q.verb = "manage_processes" -> manageProcesses(cmds, q)
      [] q.verb = "check_port" -> checkPort(q)
      [] q.verb = "release_port" -> releasePort(cmds, q)
      [] q.verb = "manage_files" -> manageFiles(cmds, q)
      [] q.verb = "manage_apps" -> manageApps(cmds, q)
      [] q.verb = "install_pkg" -> installPkg(cmds, q)
      [] q.verb = "build" -> build(cmds, q)
      [] OTHER -> runSystemCommand(q)

----------------------------------------------------------------------------
(* Run: load the configuration, dispatch, then one step at a time. *)

Running == {j \in Jobs : job[j].pc = "running"}
NextStep(j) == Head(job[j].todo)
Ready(j, kinds) == job[j].pc = "running" /\ NextStep(j).kind \in kinds

End(j, res) == [job[j] EXCEPT !.pc = "done", !.todo = <<>>, !.res = res]

(* The next step has exited: with an error the request fails, unless the   *)
(* handler drops the error.                                                *)
Advance(j, exit0) ==
    IF ~exit0 /\ ~NextStep(j).tolerated THEN End(j, "failed")
    ELSE IF Len(job[j].todo) = 1 THEN End(j, "ok")
    ELSE [job[j] EXCEPT !.todo = Tail(@)]

Start(j) ==
    /\ job[j].pc = "new"
    /\ \E q \in mix.requests :
        LET cfg == LoadSystemCommandsOrDefault(cmdFile)
            todo == IF cfg = Refused THEN Refused ELSE runAction(cfg, q)
            begun == [Fresh EXCEPT !.req = q, !.pc = "done",
                                   !.cfg = IF cfg = Refused THEN {} ELSE cfg]
        IN  job' = CASE todo = Refused -> [job EXCEPT ![j] = [begun EXCEPT !.res = "refused"]]
                     [] todo = <<>> -> [job EXCEPT ![j] = [begun EXCEPT !.res = "ok"]]
                     [] OTHER -> [k \in Jobs |->
                            IF k = j THEN [begun EXCEPT !.pc = "running", !.todo = todo,
                                                        !.alone = Running = {}]
                            ELSE IF k \in Running THEN [job[k] EXCEPT !.alone = FALSE]
                            ELSE job[k]]
    /\ UNCHANGED <<mix, cmdFile, priv, content, replaced, installed, procs, saves, launched,
                   done>>

(* codesign and pkgutil: the content the path has now.                     *)
CheckSignature(j) ==
    /\ Ready(j, {"verify", "team"})
    /\ LET s == NextStep(j)
           c == content[s.arg[1]]
           ok == IF s.kind = "verify" THEN c \in Signed
                 ELSE TeamOf[c] \in ListOf(job[j].cfg, s.arg[2])
       IN  job' = [job EXCEPT ![j] = IF ok THEN Advance(j, TRUE) ELSE End(j, "refused")]
    /\ UNCHANGED <<mix, cmdFile, priv, content, replaced, installed, procs, saves, launched,
                   done>>

(* run: a step that asks for privilege needs a program that passes the     *)
(* check and a daemon that is root or may use sudo. Any other step runs as *)
(* the daemon, which may be root too, and its program is not looked at.    *)
Runnable(s) ==
    s.sudo => RequireSudoSafe(Binaries[s.arg[1]]) /\ (priv.root \/ priv.sudo)

(* The program a step runs, unless it is one of the system's own.          *)
Programs(kind, arg) ==
    CASE kind \in {"manager", "custom"} -> {arg[1]}
      [] kind = "brew" -> {Brew}
      [] OTHER -> {}

Record(j) ==
    LET s == NextStep(j)
    IN  done' = done \cup {[job |-> j, kind |-> s.kind, arg |-> s.arg, sudo |-> s.sudo,
                            tampered |-> \E p \in Programs(s.kind, s.arg) : replaced[p] > 0]}

(* Programs whose effect no property looks at.                             *)
RunProgram(j) ==
    /\ Ready(j, {"manager", "brew", "launchctl", "ps", "lsof", "chmod", "chown",
                 "osascript", "open", "xcodebuild", "custom"})
    /\ IF Runnable(NextStep(j))
       THEN Record(j) /\ \E exit0 \in BOOLEAN : job' = [job EXCEPT ![j] = Advance(j, exit0)]
       ELSE UNCHANGED done /\ job' = [job EXCEPT ![j] = Advance(j, FALSE)]
    /\ UNCHANGED <<mix, cmdFile, priv, content, replaced, installed, procs, saves, launched>>

Gone == "gone"
Kill(pids) == [p \in Pids |-> IF p \in pids THEN [procs[p] EXCEPT !.name = Gone, !.port = "none"]
                              ELSE procs[p]]

(* pkill, killall and kill: the processes of that name or pid now.         *)
SendSignal(j) ==
    /\ Ready(j, {"pkill", "killall", "killpid"})
    /\ LET s == NextStep(j)
           hit == {p \in Pids : IF s.kind = "killpid" THEN p = s.arg[1]
                                ELSE procs[p].name = s.arg[1]}
       IN  /\ procs' = Kill(hit)
           /\ job' = [job EXCEPT ![j] = Advance(j, hit # {})]
    /\ Record(j)
    /\ UNCHANGED <<mix, cmdFile, priv, content, replaced, installed, saves, launched>>

(* lsof -ti: every process with a socket on the port; exit 1, as a rule,   *)
(* when there is none.                                                     *)
ListHolders(j) ==
    /\ Ready(j, {"release"})
    /\ LET pids == {p \in Pids : procs[p].port = NextStep(j).arg[1]}
       IN  \E exit0 \in BOOLEAN :
            job' = [job EXCEPT ![j] =
                IF ~exit0 THEN End(j, "failed")
                ELSE IF pids = {} THEN End(j, "ok")
                ELSE [job[j] EXCEPT
                        !.todo = Run("kill", <<NextStep(j).arg[1]>>),
                        !.held = {<<p, procs[p].gen>> : p \in pids}]]
    /\ Record(j)
    /\ UNCHANGED <<mix, cmdFile, priv, content, replaced, installed, procs, saves, launched>>

KillHolders(j) ==
    /\ Ready(j, {"kill"})
    /\ procs' = Kill({h[1] : h \in job[j].held})
    /\ done' = done \cup {[job |-> j, kind |-> "victim", sudo |-> FALSE, tampered |-> FALSE,
                           arg |-> <<job[j].req.port, procs[h[1]].port,
                                     IF procs[h[1]].gen = h[2] THEN "same" ELSE "recycled">>] :
                             h \in {x \in job[j].held : procs[x[1]].name # Gone}}
    /\ \E exit0 \in BOOLEAN : job' = [job EXCEPT ![j] = Advance(j, exit0)]
    /\ UNCHANGED <<mix, cmdFile, priv, content, replaced, installed, saves, launched>>

----------------------------------------------------------------------------
(* Bundles on disk: a set of contents (more than one when two were copied  *)
(* into each other), "part" of one, links.                                 *)

Place(j, at, new, exit0) ==
    /\ installed' = [installed EXCEPT ![at] = new]
    /\ job' = [job EXCEPT ![j] = [Advance(j, exit0) EXCEPT !.left = new,
                    !.rmFailed = @ \/ (NextStep(j).tolerated /\ ~exit0)]]
    /\ UNCHANGED <<mix, cmdFile, priv, content, replaced, procs, saves, launched>>

Bundles(s) == s \cap (Contents \cup {"part"})

(* rm -rf takes anything, rm -f no bundle: a bundle is a directory.        *)
RemoveOld(j) ==
    /\ Ready(j, {"rm-rf", "rm-f"})
    /\ LET at == NextStep(j).arg
           can == NextStep(j).kind = "rm-rf" \/ Bundles(installed[at]) = {}
       IN  \/ can /\ Place(j, at, {}, TRUE)
           \/ Place(j, at, installed[at], FALSE)
    /\ Record(j)

CopyBundle(j) ==
    /\ Ready(j, {"ditto"})
    /\ LET at == Tail(NextStep(j).arg)
           c == content[NextStep(j).arg[1]]
       IN  /\ \/ Place(j, at, installed[at] \cup {c}, TRUE)
              \/ Place(j, at, installed[at] \cup {"part"}, FALSE)
           /\ done' = done \cup {[job |-> j, kind |-> "placed", sudo |-> FALSE,
                                  tampered |-> job[j].swapped, arg |-> <<c>> \o at]}

(* ln -s over a directory makes the link inside it.                        *)
LinkBundle(j) ==
    /\ Ready(j, {"ln"})
    /\ LET at == Tail(NextStep(j).arg)
       IN  \/ Place(j, at, IF Bundles(installed[at]) = {} THEN {"link"}
                           ELSE installed[at] \cup {"inner"}, TRUE)
           \/ Place(j, at, installed[at], FALSE)
    /\ Record(j)

(* The installer is started in a session of its own and not waited for.    *)
realLaunchInstaller(j) ==
    /\ Ready(j, {"installer"})
    /\ \E ok \in BOOLEAN :
        /\ job' = [job EXCEPT ![j] = Advance(j, ok)]
        /\ launched' = IF ok THEN launched \cup {[job |-> j, path |-> NextStep(j).arg[1]]}
                       ELSE launched
    /\ UNCHANGED <<mix, cmdFile, priv, content, replaced, installed, procs, saves, done>>

InstallerReads(l) ==
    /\ launched' = launched \ {l}
    /\ done' = done \cup {[job |-> l.job, kind |-> "package", sudo |-> FALSE,
                           tampered |-> job[l.job].swapped, arg |-> <<content[l.path]>>]}
    /\ UNCHANGED <<mix, cmdFile, priv, content, replaced, installed, procs, job, saves>>

----------------------------------------------------------------------------
(* The environment. *)

(* The administrator saves the file: truncation, then the write.           *)
SaveCommands ==
    /\ \/ /\ cmdFile # Torn /\ saves < mix.saves
          /\ cmdFile' = Torn /\ saves' = saves + 1
       \/ cmdFile = Torn /\ cmdFile' \in NewCmds /\ UNCHANGED saves
    /\ UNCHANGED <<mix, priv, content, replaced, installed, procs, job, launched, done>>

(* A user's process replaces a file it owns, may write, or whose directory *)
(* it may write, what is behind a link, and what is Loose.                 *)
Replaceable(path) ==
    LET s == Binaries[path]
    IN  \/ s.writable \/ s.owner # "root" \/ s.dirWritable \/ s.dirOwner # "root"
        \/ s.symlink \/ path \in Loose

(* The request has begun to check the file and has not copied it yet.      *)
Reads(j, path) ==
    \/ /\ job[j].pc = "running"
       /\ \E i \in DOMAIN job[j].todo :
            job[j].todo[i].kind \in {"team", "ditto", "installer"} /\ job[j].todo[i].arg[1] = path
       /\ NextStep(j).kind # "verify"
       /\ ~(NextStep(j).kind = "team" /\ NextStep(j).arg[2] = "pkgteams")
    \/ [job |-> j, path |-> path] \in launched

Replace(path, c) ==
    /\ Replaceable(path) /\ c # content[path]
    /\ path \in mix.paths /\ FoldFunction(+, 0, replaced) < mix.replaced
    /\ content' = [content EXCEPT ![path] = c]
    /\ replaced' = [replaced EXCEPT ![path] = @ + 1]
    /\ job' = [j \in Jobs |-> IF Reads(j, path) THEN [job[j] EXCEPT !.swapped = TRUE]
                              ELSE job[j]]
    /\ UNCHANGED <<mix, cmdFile, priv, installed, procs, saves, launched, done>>

(* A process ends and another takes its pid.                               *)
Fork(p, name, port) ==
    /\ FoldFunction(LAMBDA x, n : n + x.gen, 0, procs) < mix.forked
    /\ procs' = [procs EXCEPT ![p] = [gen |-> @.gen + 1, name |-> name, port |-> port]]
    /\ UNCHANGED <<mix, cmdFile, priv, content, replaced, installed, job, saves, launched, done>>

SysNext ==
    \/ \E j \in Jobs :
        \/ Start(j) \/ CheckSignature(j) \/ RunProgram(j) \/ SendSignal(j)
        \/ ListHolders(j) \/ KillHolders(j) \/ RemoveOld(j) \/ CopyBundle(j)
        \/ LinkBundle(j) \/ realLaunchInstaller(j)
    \/ \E l \in launched : InstallerReads(l)
    \/ SaveCommands
    \/ \E p \in Paths, c \in Contents : Replace(p, c)
    \/ \E p \in Pids, name \in {"App", "proc"}, port \in {"8080", "22"} : Fork(p, name, port)

----------------------------------------------------------------------------
(* Properties *)

(* Every variable has its type; a request ends with an outcome exactly     *)
(* once it is done, and a step is always left to one that runs.            *)
SysTypeOK ==
    /\ cmdFile \in {Absent, Torn} \/ cmdFile \in InitCmds \cup NewCmds
    /\ priv \in Privs
    /\ content \in [Paths -> Contents] /\ replaced \in [Paths -> Nat]
    /\ \A at \in DOMAIN installed : installed[at] \subseteq Contents \cup {"part", "link", "inner"}
    /\ \A p \in Pids : procs[p].gen \in Nat
    /\ \A j \in Jobs :
        /\ job[j].pc \in {"new", "running", "done"}
        /\ (job[j].res # None) <=> (job[j].pc = "done")
        /\ (job[j].todo # <<>>) <=> (job[j].pc = "running")

(* A path whose content can change under a check that it is root's.        *)
Unseen(path) == Binaries[path].symlink \/ path \in Loose

(* What a request copied or handed to the installer had a signature of an  *)
(* allowed team if teams were configured, even if the file was replaced    *)
(* while the request was being served: unless the file was swapped and the *)
(* configuration leaves the source in the user's hands, the source is a    *)
(* symbolic link, which requireRootOwnedFile follows (os.Stat) without a   *)
(* look at the directory behind it, or it can be changed from above its    *)
(* directory or inside the bundle, where the check does not look. The two  *)
(* gates of requireAppSourceProvenance and of installPkg are only together *)
(* proof against a swap between the check and the copy.                    *)
InstalledIsGated ==
    \A d \in done :
        LET cfg == job[d.job].cfg
            req == job[d.job].req IN
        /\ (d.kind = "placed" /\ ListOf(cfg, "appteams") # {}) =>
               \/ d.arg[1] \in Signed /\ TeamOf[d.arg[1]] \in ListOf(cfg, "appteams")
               \/ d.tampered /\ (~Flag(cfg, "root_source") \/ Unseen(req.source))
        /\ (d.kind = "package" /\ ListOf(cfg, "pkgteams") # {}) =>
               \/ TeamOf[d.arg[1]] \in ListOf(cfg, "pkgteams")
               \/ d.tampered /\ (~Flag(cfg, "root_pkg") \/ Unseen(req.pkg))

(* Of the programs that are not the system's own, package managers, brew   *)
(* and those of custom verbs, one that a user replaced never ran with the  *)
(* rights of root, unless it can be changed from above its directory, or   *)
(* the daemon is root and the step did not ask for privilege, as brew and  *)
(* a manager without sudo do not: then run does not look at the program. A *)
(* custom verb has no such way out, nor does one from a user's file run.   *)
PrivilegedIsRoots ==
    \A d \in done : (d.sudo \/ priv.root) =>
        /\ d.tampered /\ d.kind \in {"manager", "brew", "custom"} =>
                \/ Programs(d.kind, d.arg) \subseteq Loose
                \/ ~d.sudo /\ d.kind # "custom"
        /\ d.kind = "custom" => priv.applied

(* An install that reported success left exactly one bundle, a symlink     *)
(* exactly the link: unless another request ran meanwhile, the removal     *)
(* failed (its error is dropped), or a bundle stood where the link goes.   *)
InstallTakesEffect ==
    \A j \in Jobs :
        (/\ job[j].res = "ok" /\ job[j].req.verb = "manage_apps"
         /\ job[j].alone /\ ~job[j].rmFailed) =>
            /\ job[j].req.op = "install" => \E c \in Contents : job[j].left = {c}
            /\ job[j].req.op = "symlink" => job[j].left = {"link"}

(* release_port signals only processes that had a socket on an allowed     *)
(* port when they were listed, or took over the pid of one; every other    *)
(* step is covered by an entry of the configuration the request loaded,    *)
(* whatever the administrator saves while it runs.                         *)
ActsWithinLists ==
    \A d \in done :
        LET cfg == job[d.job].cfg IN
        /\ d.kind = "victim" => /\ AllowsListed(cfg, "ports", d.arg[1])
                                /\ d.arg[3] = "same" => d.arg[2] = d.arg[1]
        /\ d.kind \in {"brew", "launchctl"} => AllowsListed(cfg, "services", d.arg[2])
        /\ d.kind = "pkill" => AllowsListed(cfg, "processes", d.arg[1])
        /\ d.kind = "killpid" => Flag(cfg, "kill_by_pid")
        /\ d.kind \in {"chmod", "chown"} => Under[d.arg[1]] \cap ListOf(cfg, d.kind) # {}
        /\ d.kind \in {"rm-rf", "rm-f", "open"} => /\ AllowsListed(cfg, "dirs", d.arg[1])
                                                   /\ AllowsListed(cfg, "apps", d.arg[2])
        /\ d.kind = "manager" => d.arg[1] \in {m.binary : m \in Managers(cfg)}
        /\ d.kind = "xcodebuild" => Under[d.arg[1]] \cap ListOf(cfg, "builds") # {}
=============================================================================

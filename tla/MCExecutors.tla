---------------------------- MODULE MCExecutors -----------------------------
(***************************************************************************)
(* Two requests at a time. System: a safe and an unsafe program with       *)
(* privilege, bundles in a user's directory, in root's and behind a link,  *)
(* configurations with and without each gate. Remote: a good and a bad     *)
(* identity file, an image staged for the right or the wrong platform,     *)
(* verification with a retry, two polls.                                   *)
(***************************************************************************)
EXTENDS Executors

Identity(p) == p
MCDirOrder == <<"/apps", "/opt">>

Stat(owner, dirOwner) ==
    [symlink |-> FALSE, writable |-> FALSE, owner |-> owner, dirWritable |-> FALSE,
     dirOwner |-> dirOwner]

\* Programs, bundles, packages, other files.
MCBinaries ==
    [p \in {"/bin/pip", "/build/App", "/x.pkg", "/srv/f", "/pub/in/App"} |->
        Stat("root", "root")]
    @@ ("/home/brew" :> Stat("ann", "ann"))
    @@ [p \in {"/drop/App", "/drop/x.pkg"} |-> Stat("root", "ann")]
    @@ [p \in {"/link/App", "/link/x.pkg"} |-> [Stat("root", "root") EXCEPT !.symlink = TRUE]]

MCLoose == {"/pub/in/App"}
MCPkgFiles == {"/x.pkg", "/drop/x.pkg", "/link/x.pkg"}

MCUnder == [p \in DOMAIN MCBinaries |->
              IF p \in {"/drop/App", "/drop/x.pkg"} THEN {p, "/drop"} ELSE {p}]

Entry(list, name) == [list |-> list, name |-> name]
Mgr(name, binary, sudo) ==
    [list |-> "managers", name |-> name, binary |-> binary, sudo |-> sudo]

Base == {Entry("packages", "jq"), Entry("services", "web"), Entry("signals", "TERM"),
         Entry("processes", "proc"), Entry("ports", "8080"), Entry("apps", "App"),
         Entry("sources", "/drop"), Entry("sources", "/build/App"),
         Entry("sources", "/link/App"), Entry("sources", "/pub/in/App"), Entry("dirs", "/apps"),
         Entry("chmod", "/srv/f"), Entry("builds", "/srv/f"), Entry("pkgteams", "us"),
         Mgr("pip", "/bin/pip", TRUE), Mgr("npm", "/home/brew", TRUE),
         Mgr("gem", "/home/brew", FALSE)}

Teams == {Entry("appteams", "us")}
Roots == {Entry("flags", "root_source"), Entry("flags", "root_pkg")}
Open == {Entry("flags", "launchctl"), Entry("flags", "kill_by_pid"), Entry("dirs", "/opt"),
         Entry("chown", "/srv/f")}

MCInitCmds == {Base \cup Teams, Base \cup Teams \cup Roots, Base \cup Open}
MCNewCmds == {{Entry("services", "web")}}

MCPrivs == {[root |-> TRUE, sudo |-> FALSE, applied |-> FALSE],
            [root |-> FALSE, sudo |-> TRUE, applied |-> TRUE]}

App(op, source, dest) ==
    [verb |-> "manage_apps", op |-> op, name |-> "App", source |-> source, dest |-> dest]
Pkgs(op, manager) == [verb |-> "manage_packages", op |-> op, manager |-> manager, package |-> "jq"]
Proc(op, name, pid) ==
    [verb |-> "manage_processes", op |-> op, name |-> name, pid |-> pid, signal |-> ""]

ProgramRuns ==
    {App("launch", "", ""), Pkgs("list", "pip"), Pkgs("upgrade", "npm"), Pkgs("upgrade", "gem"),
     [verb |-> "custom", program |-> "/bin/pip", value |-> "v"],
     [verb |-> "custom", program |-> "/pub/in/App", value |-> "v"]}

Simple ==
    {App("launch", "", ""), App("quit", "", ""),
     [verb |-> "manage_services", op |-> "restart", service |-> "web"],
     [verb |-> "manage_services", op |-> "launchctl_stop", service |-> "web"],
     Proc("list", "", None), [verb |-> "check_port", port |-> "8080"],
     [verb |-> "manage_files", op |-> "chmod", path |-> "/srv/f", mode |-> "755"],
     [verb |-> "manage_files", op |-> "chown", path |-> "/srv/f", owner |-> "ann"],
     [verb |-> "build", op |-> "xcodebuild", project |-> "/srv/f", target |-> "", action |-> ""]}

Killing ==
    {Proc("kill", "proc", None), Proc("kill", "", 1), Proc("kill", "", 2), App("quit", "", ""),
     [verb |-> "release_port", port |-> "8080"], [verb |-> "release_port", port |-> "22"]}

Placing ==
    {App("install", "/drop/App", ""), App("install", "/build/App", "/apps"),
     App("symlink", "/drop/App", "/apps"), App("uninstall", "", ""),
     [verb |-> "install_pkg", pkg |-> "/x.pkg"], [verb |-> "install_pkg", pkg |-> "/drop/x.pkg"]}

MCMixes ==
    {[requests |-> ProgramRuns, paths |-> {"/home/brew", "/pub/in/App"},
      replaced |-> 1, forked |-> 0, saves |-> 0],
     [requests |-> Simple, paths |-> {}, replaced |-> 0, forked |-> 0, saves |-> 0],
     [requests |-> {App("launch", "", ""), Pkgs("upgrade", "npm")},
      paths |-> {"/drop/App", "/home/brew"}, replaced |-> 1, forked |-> 0, saves |-> 1],
     [requests |-> Killing, paths |-> {}, replaced |-> 0, forked |-> 3, saves |-> 0],
     [requests |-> Placing, paths |-> {"/drop/App", "/drop/x.pkg"},
      replaced |-> 1, forked |-> 0, saves |-> 0],
     [requests |-> {App("install", "/link/App", ""), App("install", "/pub/in/App", ""),
                    [verb |-> "install_pkg", pkg |-> "/link/x.pkg"]},
      paths |-> {"/link/App", "/link/x.pkg", "/pub/in/App"},
      replaced |-> 1, forked |-> 0, saves |-> 0]}

MCInitContent == [p \in DOMAIN MCBinaries |-> IF p = "/x.pkg" THEN "other" ELSE "good"]
MCTeamOf == [good |-> "us", forged |-> "us", other |-> ""]

----------------------------------------------------------------------------
Key(state, underHome, open, owner) ==
    [state |-> state, underHome |-> underHome, open |-> open, owner |-> owner, bad |-> {}]

MCKeyFiles ==
    [safe |-> Key("file", FALSE, FALSE, "root"), home |-> Key("file", TRUE, FALSE, "root"),
     loose |-> Key("file", FALSE, TRUE, "root"), none |-> Key("unset", FALSE, FALSE, "")]

MCCredFile == [state |-> "file", open |-> FALSE, owner |-> "root"]

Target(key) == [services |-> {"web"}, paths |-> {"/log"}, uploads |-> {"/stage"},
                platform |-> "arm", key |-> key]

MCInitTargets == {[t |-> Target(k)] : k \in {"safe", "home", "loose", "none"}}
MCNewTargets == {[t |-> [Target("safe") EXCEPT !.services = {}]]}

In(exec, verb, constraint, value) ==
    [exec |-> exec, verb |-> verb, alias |-> "t",
     params |-> {[constraint |-> constraint, value |-> value]},
     file |-> "", media |-> FALSE, platform |-> "", verify |-> FALSE, retries |-> 0]

Deploy(platform, media) ==
    [In("ssh", "deploy", "service", "web") EXCEPT !.file = "img", !.media = media,
        !.platform = platform, !.verify = TRUE, !.retries = 1]

Others ==
    {In("ssh", "restart_service", "service", "web"), In("ssh", "read_file", "path", "/etc"),
     In("ssh", "check_host", "lines", "5"), In("ssh", "no_command", "lines", "5"),
     In("ssm", "deploy", "path", "/etc"), In("http", "get", "free", "v"),
     In("http", "get", "free", "bad"), In("apple", "notes", "free", "v")}

Polled == In("ssm", "deploy", "service", "web")

MCTraffic ==
    {[inputs |-> {Deploy("", TRUE), Deploy("amd", TRUE)}, restaged |-> 1, saves |-> 0,
      probes |-> {}],
     [inputs |-> Others \cup {Polled}, restaged |-> 0, saves |-> 0, probes |-> {}],
     [inputs |-> {Polled, Deploy("", FALSE)}, restaged |-> 0, saves |-> 1, probes |-> {}],
     [inputs |-> {}, restaged |-> 0, saves |-> 0, probes |-> {"t", "u", "v", "w", "x"}]}

MCAllowed == [img |-> {"/stage"}]

Host(listed, ca, relocated, readable, standard) ==
    [listed |-> listed, relocated |-> relocated, ca |-> ca, readable |-> readable,
     standard |-> standard]
MCHosts == [t |-> Host({"k2"}, {"k1"}, {}, TRUE, TRUE), u |-> Host({}, {"k2"}, {}, FALSE, TRUE),
            v |-> Host({}, {}, {"k2"}, TRUE, FALSE), w |-> Host({}, {}, {"k2"}, TRUE, TRUE),
            x |-> Host({}, {}, {}, TRUE, TRUE)]
=============================================================================

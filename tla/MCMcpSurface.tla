--------------------------- MODULE MCMcpSurface ---------------------------
(***************************************************************************)
(* Two administrators and one MCP server. One argument or two per command, *)
(* chosen so that a removal finds its entry, an addition may meet an       *)
(* existing name, and a blank argument occurs.                             *)
(***************************************************************************)
EXTENDS McpSurface

Par(n) == [name |-> n, key |-> n, required |-> TRUE]

MCDefs ==
    [ssh    |-> [mode |-> "protected", bundled |-> TRUE,
                 actions |-> [restart |-> {Par("target"), Par("service")}]],
     notes  |-> [mode |-> "passthrough", bundled |-> TRUE,
                 actions |-> [list |-> {}, read |-> {}]],
     custom |-> [mode |-> "protected", bundled |-> FALSE,
                 actions |-> [go |-> {}]]]

MCClean(v) == v

Rule(effect, app, action, constraints) ==
    [effect |-> effect, agent |-> "bot", user |-> "", groups |-> {},
     app |-> app, action |-> action, constraints |-> constraints]

RestartWeb == Rule("allow", "ssh", "restart", [target |-> "db1"])
NoRead == Rule("deny", "notes", "read", <<>>)
UserReads == [Rule("allow", "notes", "read", <<>>) EXCEPT !.agent = "", !.user = "ann"]
ListNotes == Rule("allow", "notes", "list", <<>>)

MCBinaries ==
    [apt |-> [symlink |-> FALSE, writable |-> FALSE, owner |-> "root",
              dirWritable |-> FALSE, dirOwner |-> "root"],
     tool |-> [symlink |-> FALSE, writable |-> FALSE, owner |-> "root",
               dirWritable |-> TRUE, dirOwner |-> "root"]]

Manager(n, b, s) == [list |-> "managers", name |-> n, binary |-> b, sudo |-> s]

Db1 == [alias |-> "db1", host |-> "h1", services |-> {"web"}]

MCInitDisk ==
    [policies |-> {RestartWeb, NoRead, ListNotes, UserReads}, agents |-> {"bot"},
     protected |-> Absent, mail |-> {"corp"}, ssh |-> {Db1},
     http |-> {[name |-> "api", url |-> "u1"]},
     system |-> {[list |-> "services", name |-> "n1"]}, enabled |-> {"custom"}]

Call(app, action, params) ==
    [app |-> app, action |-> action, params |-> params,
     who |-> [agent |-> "bot", user |-> "ann", groups |-> {}]]

MCInputs ==
    [keywords |-> {"private", Blank}, domains |-> {"corp", "other"},
     targets |-> {Db1, [alias |-> "db1", host |-> "h2", services |-> {"web", "ssh"}],
                  [alias |-> "db2", host |-> Blank, services |-> {}]},
     profiles |-> {[name |-> "api", url |-> "u2"]},
     managers |-> {Manager("m", "apt", TRUE), Manager("m", "tool", TRUE)},
     names |-> {"n1"}, services |-> {"web", "ssh"},
     rules |-> {Rule("allow", "ssh", "restart", [target |-> "db1", service |-> "web"])},
     agents |-> {"bot"}, newAgents |-> {"new", "newer"}, apps |-> {"custom", "ssh", "none"},
     appLists |-> {<<"notes">>, <<"notes", "ssh">>, <<"none">>},
     initAgents |-> {"openclaw"}, initRules |-> {ListNotes},
     senders |-> {"corp", "other", "else"},
     calls |-> {Call("ssh", "restart", [target |-> "db1", service |-> "web"]),
                Call("notes", "list", <<>>), Call("notes", "read", <<>>)}]
=============================================================================

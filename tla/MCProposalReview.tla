-------------------------- MODULE MCProposalReview --------------------------
(* A host with two agents: proposals that add, replace, remove and collide. *)
EXTENDS ProposalReview

Steps(classes, object) == [i \in DOMAIN classes |-> [class |-> classes[i], object |-> object]]

Cmd == [prog |-> "other", abs |-> FALSE, path |-> << >>, alone |-> FALSE, body |-> FALSE,
        redirect |-> FALSE, params |-> TRUE, steps |-> << >>]
Script(path) == [Cmd EXCEPT !.abs = TRUE, !.path = path]
Chain(steps) == [Cmd EXCEPT !.steps = steps]

TargetParam == [key |-> "target", kind |-> "any"]
ServiceParam == [key |-> "service", kind |-> "service"]
Verb(cmd) == [cmd |-> cmd, root |-> FALSE, verify |-> FALSE, impact |-> NoImpact,
              params |-> {TargetParam}]
Verified(cmd) == [Verb(cmd) EXCEPT !.verify = TRUE, !.impact = {"web"}]

App(exec, actions) == [exec |-> exec, mode |-> "protected", bundled |-> FALSE, actions |-> actions]

mcBundled ==
    [ssh    |-> [App("ssh", [check_host |-> Verb(NoCommand),
                             read_file  |-> Verb(NoCommand),
                             write_file |-> Verb([Cmd EXCEPT !.redirect = TRUE]),
                             restart_service |->
                                [Verb(NoCommand) EXCEPT !.params = {TargetParam, ServiceParam}]])
                    EXCEPT !.bundled = TRUE],
     ssm    |-> [App("ssm", [tail_logs |-> Verb(Cmd)]) EXCEPT !.bundled = TRUE],
     system |-> [App("system", [manage_packages |-> Verb(NoCommand)]) EXCEPT !.bundled = TRUE]]

Runner == [Cmd EXCEPT !.prog = "param", !.alone = TRUE]
Shell == [Cmd EXCEPT !.prog = "shell", !.abs = TRUE, !.path = <<"bin", "sh">>, !.body = TRUE]
Tee == [Cmd EXCEPT !.prog = "tee"]

mcAppsDirs ==
    {<< >>,
     [ssh |-> App("ssh", [run |-> Verb(Runner), write_file |-> Verb(NoCommand)])],
     [notes |-> App("ssh", [show |-> Verb(NoCommand)])],
     [fleet |-> App("system", [run |-> Verb(NoCommand)])]}

mcBounds == [blocking |-> {"SSH-SECRET-PATH", "SSH-KEY-READABLE", "SSH-KEY-INVALID",
                           "SSH-TARGET-CONFLICT", "POLICY-MAX-TARGETS"},
             rootUser |-> "acknowledge", requireKey |-> TRUE,
             secrets |-> {<<"etc", "shadow">>, <<"home">>}, files |-> {".env"},
             webroots |-> {<<"var", "www">>}, broad |-> {<<"var">>, <<"etc">>}, maxTargets |-> 2]

mcHidden == {<<"etc", "shadow">>, <<"home", "ann">>, <<"home", "ann", "notes", "a">>}
mcHomeDir == <<"home", "ann">>

Host(alias, prefixes) ==
    [alias |-> alias, user |-> "deploy", key |-> {}, crit |-> "prod",
     services |-> {"web"}, paths |-> {}, prefixes |-> prefixes, uploads |-> {}]

Web == Host("web", {<<"var", "log">>})
Db == [Host("db", {<<"etc">>, <<"opt">>}) EXCEPT !.services = {}, !.crit = "dev"]
mcInitTargets == {Web}

Rule(effect, app, action, constraints) ==
    [effect |-> effect, agent |-> "a1", app |-> app, action |-> action, constraints |-> constraints]
Allow(app, action) == Rule("allow", app, action, << >>)
OnWeb == [target |-> "web"]

Empty == [tadd |-> {}, tremove |-> {}, aadd |-> << >>, aremove |-> {}, radd |-> << >>, rremove |-> {}]

Deploy == Chain(Steps(<<"stop", "delete", "start", "read">>, "web"))
Reload == Chain(Steps(<<"stop", "restart", "stop">>, "web") \o Steps(<<"delete", "start">>, "cache")
                \o Steps(<<"start">>, ""))

mcProposals ==
    {[Empty EXCEPT !.radd = <<Allow("ssh", "read_file")>>],
     [Empty EXCEPT !.tadd = {Db}],
     [Empty EXCEPT !.tadd = {Host("db", {<<"srv">>})},
                   !.radd = <<Rule("allow", "ssh", "restart_service", [service |-> "web"])>>],
     [Empty EXCEPT !.tadd = {[Host("log", {<<"etc", "shadows">>, <<"home", "ann", "notes">>})
                                EXCEPT !.paths = {<<"etc", "shadow">>}, !.key = {"dir"}]}],
     [Empty EXCEPT !.tremove = {"db", "log"},
                   !.radd = <<Rule("deny", "ssh", "read_file", [target |-> "db"])>>],
     [Empty EXCEPT !.aadd = [fleet |-> App("ssh", [deploy |-> Verb(Deploy)])],
                   !.radd = <<Allow("fleet", "deploy")>>],
     [Empty EXCEPT !.aadd = [fleet |-> App("ssh", [deploy |-> Verified(Reload)])]],
     [Empty EXCEPT !.aadd = [fleet |-> App("ssh", [roll |-> Verified(Script(<<"opt", "roll">>))])],
                   !.radd = <<Rule("allow", "fleet", "roll", OnWeb)>>],
     [Empty EXCEPT !.aadd = [fleet |-> App("ssh", [deploy |-> Verb(Cmd)]),
                             ops   |-> App("ssh", [deploy |-> Verb(Deploy)])],
                   !.radd = <<Allow("fleet", "deploy"), Allow("ops", "deploy")>>],
     [Empty EXCEPT !.aremove = {[app |-> "fleet", action |-> "deploy"],
                                [app |-> "ssm", action |-> "tail_logs"]},
                   !.rremove = {Allow("fleet", "deploy")}],
     [Empty EXCEPT !.aremove = {[app |-> "fleet", action |-> ""]},
                   !.aadd = [fleet |-> App("system", [roll |-> Verb(Script(<<"opt", "roll">>))])],
                   !.radd = <<Allow("fleet", "roll")>>],
     [Empty EXCEPT !.aadd = [ssh |-> App("ssh", [put |-> Verb(Tee)])],
                   !.radd = <<Allow("ssh", "put"), Allow("ssh", "write_file"), Allow("fleet", "roll")>>],
     [Empty EXCEPT !.aadd = [system |-> App("system", [flush |-> Verb(Script(<<"sbin", "flush">>)),
                                                       manage_packages |-> Verb(Script(<<"x">>))])],
                   !.radd = <<Allow("system", "flush")>>],
     [Empty EXCEPT !.aadd = [system |-> App("system", [shell |-> Verb(Shell)])]],
     [Empty EXCEPT !.aadd = [system |-> App("system", [save |-> Verb([Tee EXCEPT !.abs = TRUE])])]],
     [Empty EXCEPT !.aadd = [ssm |-> App("ssm", [tail_logs |-> Verb(Script(<<"opt", "tail">>))])],
                   !.radd = <<Allow("ssm", "tail_logs")>>],
     [Empty EXCEPT !.aadd = [ssh |-> App("ssh", [run |-> Verb(Runner)])]]}
=============================================================================

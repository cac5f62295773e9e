------------------------------- MODULE MCApply -------------------------------
(***************************************************************************)
(* Instances of Apply: an install with a root-owned policy, one still on   *)
(* the legacy policy, and proposals that grant, replace, remove and fail.  *)
(***************************************************************************)
EXTENDS Apply

Target(a, s) == [alias |-> a, setting |-> s, facts |-> FALSE]
Rule(v) == [effect |-> "allow", verb |-> v]

Empty == [sshRemove |-> << >>, sshAdd |-> << >>, ssmRemove |-> << >>, ssmAdd |-> << >>,
          sysAdd |-> {}, sysRemove |-> {}, appsRemove |-> {}, appsAdd |-> {},
          policyRemove |-> << >>, policyAdd |-> << >>]

Grant == [Empty EXCEPT !.sshAdd = <<Target("web", "new"), Target("db", "new")>>,
                       !.appsAdd = {"deploy"}, !.policyAdd = <<Rule("deploy"), Rule("status")>>]
Replace == [Empty EXCEPT !.sshRemove = <<"web">>, !.sshAdd = <<Target("web", "new")>>,
                         !.sysAdd = {"pkg"}, !.policyAdd = <<Rule("read")>>]
Revoke == [Empty EXCEPT !.sshRemove = <<"web">>, !.appsRemove = {"deploy"},
                        !.sysRemove = {"svc"}, !.policyRemove = <<Rule("deploy")>>]
Broken == [Empty EXCEPT !.appsAdd = {"clash"}, !.policyAdd = <<Rule("clash")>>]
System == [Empty EXCEPT !.sysAdd = {"pkg"}]
Forbidden == [Empty EXCEPT !.policyAdd = <<Rule("all")>>]
Cloud == [Grant EXCEPT !.sshAdd = << >>, !.ssmAdd = <<Target("i1", "new")>>,
                       !.ssmRemove = <<"i2">>]

Disk == [ssh |-> Present({Target("web", "old")}), ssm |-> Present({Target("i2", "old")}),
         sys |-> Present({"svc"}), apps |-> Absent, policy |-> Present({Rule("read")}),
         legacy |-> Absent]
Upgraded == [Disk EXCEPT !.policy = Absent, !.legacy = Present({Rule("read")}),
                         !.ssh = Absent, !.sys = Absent]

AllDisks == {Disk, Upgraded}
SomeProposals == {Grant, Replace, Revoke, Broken, System, Forbidden, Cloud}
HighProposals == {Replace}
BlockedProposals == {Forbidden}
MCBadVerbs == {"clash"}

\* One run with everything the gates look at, or two quiet ones in a row: no hash
\* is taken, --skip-bypass-check but not --yes is given, and the proposal
\* file is only rewritten between the runs.  In a loud run the file may turn into
\* a forbidden proposal at any step.
Quiet == reviewed = None /\ (runs > 0 => skip /\ ~yes)
TwoRunsNext ==
    /\ Next
    /\ runs' = 2 => Quiet /\ Quiet'
    /\ runs = 1 /\ pc \in Terminal => Quiet /\ Quiet'
    /\ pc \notin Terminal =>
          propFile' \in {propFile} \cup (IF runs = 1 THEN {Forbidden} ELSE {})

TwoRunsSpec == Init /\ [][TwoRunsNext]_vars
=============================================================================

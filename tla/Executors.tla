----------------------------- MODULE Executors ------------------------------
(***************************************************************************)
(* The executors of one daemon (defaultExecutors): requests to the system  *)
(* executor and calls that leave the host are served by goroutines of one  *)
(* process and read different files, so a behaviour exercises the one or   *)
(* the other: interleaving both would only multiply their states.          *)
(***************************************************************************)
EXTENDS SystemExec, RemoteExec

VARIABLE load   \* which executors this behaviour's requests go to

vars == <<load, sysVars, remVars>>

Init ==
    /\ load \in {"system", "remote"} /\ SysInit /\ RemInit
    /\ load = "remote" => /\ mix = CHOOSE m \in Mixes : TRUE
                          /\ cmdFile = CHOOSE f \in InitCmds : TRUE
                          /\ priv = CHOOSE p \in Privs : TRUE
    /\ load = "system" => /\ targetFile = CHOOSE f \in InitTargets : TRUE
                          /\ traffic = CHOOSE t \in Traffic : TRUE
                          /\ staged = CHOOSE s \in [Artifacts -> Platforms] : TRUE

Next ==
    /\ UNCHANGED load
    /\ \/ load = "system" /\ SysNext /\ UNCHANGED remVars
       \/ load = "remote" /\ RemNext /\ UNCHANGED sysVars

Spec == Init /\ [][Next]_vars /\ (load = "remote" => RemFairness)

(* Both parts keep their types.                                            *)
TypeOK == SysTypeOK /\ RemTypeOK

(* Everything the system executor did, to the end of each request, was     *)
(* within the configuration the request loaded: sources gated, privilege   *)
(* asked for root's programs only, names on the lists.                     *)
SystemGated == TypeOK /\ InstalledIsGated /\ PrivilegedIsRoots /\ ActsWithinLists

(* Everything that reached a host came over a key in custody, named what   *)
(* the target lists, and carried the file that was inspected, if nobody    *)
(* changed it since.                                                       *)
RemoteGated == StreamedIsInspected /\ OnlyCustodiedKeys

(* What a caller may conclude from an answer holds: of a remote command,   *)
(* of a bypass verdict, of an install that reported success.               *)
AnswersAreHonest == OutcomeIsHonest /\ ClearIsClear /\ InstallTakesEffect
=============================================================================

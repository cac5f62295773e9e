---------------------------- MODULE MCDelegation ----------------------------
(* Small instances of Delegation for TLC. *)
EXTENDS Delegation, TLC

CONSTANTS a1, a2, notes

Wire(a) == [agent |-> a, verb |-> notes, complete |-> TRUE,
            transport |-> "local", scope |-> {}, mode |-> "json"]

\* An external agent claims any identity.
AnyIdentity == {Wire(a) : a \in Agents}
Dispatched == {Reflected(m, a, sc) : m \in WireRequests, a \in Agents,
                                     sc \in SUBSET Verbs}

\* Definitions enabled, nothing blacklisted: the policy and the sessions vary.
PolicyOnly == enabled = Verbs /\ protected = {} /\ agents = Agents
MCInit == DInit /\ PolicyOnly
MCSpec == MCInit /\ [][DNext]_dvars
MCFairSpec == MCSpec /\ DFairness
=============================================================================

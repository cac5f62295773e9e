----------------------------- MODULE Delegation -----------------------------
(***************************************************************************)
(* Cross-organisation delegation: the daemon's reflector sessions          *)
(* (reflector/manager.go, daemon/reflector.go) composed with the broker.   *)
(*                                                                         *)
(* An issuer opens a session with a passport scope; its serve goroutine    *)
(* polls the relay and dispatches each request into Service.Handle, as the *)
(* issuer and with the scope as attenuation.  Control requests (open,      *)
(* extend, close) come from the local socket, while sessions are serving   *)
(* and administrators change the files.                                    *)
(***************************************************************************)
EXTENDS Broker

CONSTANTS
    Sessions,       \* identifiers of the sessions of a behaviour
    MaxSessions,    \* Options.MaxSessions
    WireRequests    \* what an external agent may send (a subset of CallType)

\* reflectorDispatch: the identity the request claims is overwritten.
Reflected(m, a, sc) ==
    [m EXCEPT !.agent = a, !.transport = "reflector", !.scope = sc]

\* Where a serve goroutine is when it does not wait for a call.
ServeStates == {"none", "creating", "poll", "frame", "gone"}

ASSUME DelegationAssumption ==
    /\ IsFiniteSet(Sessions)
    /\ Calls \cap ServeStates = {}
    /\ MaxSessions \in Nat
    /\ WireRequests \subseteq CallType
    /\ \A m \in WireRequests, a \in Agents, sc \in SUBSET Verbs :
           Reflected(m, a, sc) \in CallInputs

VARIABLES
    serve,      \* where each session's goroutine is, or the call it waits for
    live,       \* Manager.sessions
    issuer,     \* Session.Issuer
    scope,      \* Session.scope
    channel,    \* sessions whose handshake is complete
    cancelled,  \* sessions whose context is cancelled
    shares,     \* audit records of the control verb
    revoked,    \* history: sessions closed by their issuer or expired
    late        \* history: dispatches of a session after its revocation

sessionVars == <<serve, live, issuer, scope, channel, cancelled, shares,
                 revoked, late>>
dvars == <<vars, sessionVars>>

NoAgent == "nobody"
Serving == {s \in Sessions : serve[s] \in Calls \cup {"poll", "frame"}}

-----------------------------------------------------------------------------
(* Control requests *)

\* capabilities.Build: the allow rules that name the agent.
Surface(a) == {v \in Verbs : <<a, v>> \in allow}

\* parseAndVerifyScope: the agent named in the request is registered, and the
\* scope is non-empty and within its surface.  A policy file that cannot be
\* read is an error.
ScopeVerified(a, sc) ==
    /\ a \in ReadAgents
    /\ sc # {}
    /\ Readable("policy")
    /\ sc \subseteq Surface(a)

\* recordAudit for the control verb.
RecordShare(s, res) ==
    shares' = IF auditOk THEN shares \cup {[session |-> s, result |-> res]}
              ELSE shares

DInit ==
    /\ Init
    /\ serve = [s \in Sessions |-> "none"]
    /\ live = {}
    /\ issuer = [s \in Sessions |-> NoAgent]
    /\ scope = [s \in Sessions |-> {}]
    /\ channel = {}
    /\ cancelled = {}
    /\ shares = {}
    /\ revoked = {}
    /\ late = [s \in Sessions |-> 0]

\* The share is verified and Manager.Open finds room; it then lets go of the
\* lock and asks the relay for a session.
OpenStart(s, a, sc) ==
    /\ serve[s] = "none"
    /\ ScopeVerified(a, sc)
    /\ Cardinality(live) < MaxSessions
    /\ serve' = [serve EXCEPT ![s] = "creating"]
    /\ issuer' = [issuer EXCEPT ![s] = a]
    /\ scope' = [scope EXCEPT ![s] = sc]
    /\ UNCHANGED <<vars, live, channel, cancelled, shares, revoked, late>>

\* The share asks for more than the agent has: refused and recorded.
OpenDenied(s, a, sc) ==
    /\ serve[s] = "none"
    /\ a \in ReadAgents /\ sc # {} /\ Readable("policy")
    /\ ~(sc \subseteq Surface(a))
    /\ serve' = [serve EXCEPT ![s] = "gone"]
    /\ RecordShare(s, "out_of_issuer_scope")
    /\ UNCHANGED <<vars, live, issuer, scope, channel, cancelled, revoked, late>>

\* The relay answers: the session enters the map and starts to serve.
OpenFinish(s) ==
    /\ serve[s] = "creating"
    /\ serve' = [serve EXCEPT ![s] = "poll"]
    /\ live' = live \cup {s}
    /\ RecordShare(s, "open")
    /\ UNCHANGED <<vars, issuer, scope, channel, cancelled, revoked, late>>

\* The relay refuses, or cannot be reached before the session's own timeout.
OpenFails(s) ==
    /\ serve[s] = "creating"
    /\ serve' = [serve EXCEPT ![s] = "gone"]
    /\ cancelled' = cancelled \cup {s}
    /\ UNCHANGED <<vars, live, issuer, scope, channel, shares, revoked, late>>

\* share extend, requested by agent a.
Extend(s, a, sc) ==
    /\ s \in live
    /\ ScopeVerified(a, sc)
    /\ scope' = [scope EXCEPT ![s] = sc]
    /\ UNCHANGED <<vars, serve, live, issuer, channel, cancelled, shares,
                   revoked, late>>

\* share extend asks for more than agent a has: refused and recorded, before the
\* session is looked up.
ExtendDenied(s, a, sc) ==
    /\ serve[s] # "none"
    /\ a \in ReadAgents /\ sc # {} /\ Readable("policy")
    /\ ~(sc \subseteq Surface(a))
    /\ RecordShare(s, "out_of_issuer_scope")
    /\ UNCHANGED <<vars, serve, live, issuer, scope, channel, cancelled, revoked,
                   late>>

\* Mutant: Close forgets the session itself.
MutClose(s) ==
    /\ s \in live
    /\ live' = live \ {s}
    /\ cancelled' = cancelled \cup {s}
    /\ revoked' = revoked \cup {s}
    /\ UNCHANGED <<vars, serve, issuer, scope, channel, shares, late>>

\* share revoke cancels the session's context; the goroutine does the rest.
Close(s) ==
    /\ s \in live
    /\ s \notin revoked
    /\ cancelled' = cancelled \cup {s}
    /\ revoked' = revoked \cup {s}
    /\ UNCHANGED <<vars, serve, live, issuer, scope, channel, shares, late>>

\* Mutant: the time to live only counts once a helper has connected.
MutExpire(s) ==
    /\ s \in live \cap channel
    /\ s \notin cancelled
    /\ cancelled' = cancelled \cup {s}
    /\ revoked' = revoked \cup {s}
    /\ UNCHANGED <<vars, serve, live, issuer, scope, channel, shares, late>>

\* The session's time to live is over.
Expire(s) ==
    /\ s \in live
    /\ s \notin cancelled
    /\ cancelled' = cancelled \cup {s}
    /\ revoked' = revoked \cup {s}
    /\ UNCHANGED <<vars, serve, live, issuer, scope, channel, shares, late>>

-----------------------------------------------------------------------------
(* The serve goroutine *)

\* Mutant: the long poll runs under a context of its own.
MutFetch(s) ==
    /\ serve[s] = "poll"
    /\ serve' = [serve EXCEPT ![s] = "frame"]
    /\ UNCHANGED <<vars, live, issuer, scope, channel, cancelled, shares,
                   revoked, late>>

\* The relay hands over a frame; the context may be cancelled right after.
Fetch(s) ==
    /\ serve[s] = "poll"
    /\ s \notin cancelled
    /\ serve' = [serve EXCEPT ![s] = "frame"]
    /\ UNCHANGED <<vars, live, issuer, scope, channel, cancelled, shares,
                   revoked, late>>

\* A handshake frame: the channel stands once HS2 could be sent.
HandleHandshake(s) ==
    /\ serve[s] = "frame"
    /\ s \notin channel
    /\ s \notin cancelled
    /\ channel' = channel \cup {s}
    /\ serve' = [serve EXCEPT ![s] = "poll"]
    /\ UNCHANGED <<vars, live, issuer, scope, cancelled, shares, revoked, late>>

\* A frame that is ignored: too large, malformed, a second handshake, data
\* before the handshake or a record that does not open.
DropFrame(s) ==
    /\ serve[s] = "frame"
    /\ serve' = [serve EXCEPT ![s] = "poll"]
    /\ UNCHANGED <<vars, live, issuer, scope, channel, cancelled, shares,
                   revoked, late>>

\* Mutant: the request keeps the identity it claims.
MutDispatch(s, q, m) ==
    /\ serve[s] = "frame"
    /\ s \in channel
    /\ Arrive(q, [m EXCEPT !.transport = "reflector", !.scope = scope[s]])
    /\ serve' = [serve EXCEPT ![s] = q]
    /\ late' = IF s \in revoked THEN [late EXCEPT ![s] = @ + 1] ELSE late
    /\ UNCHANGED <<live, issuer, scope, channel, cancelled, shares, revoked>>

\* A request: it enters the broker as the issuer, with the scope of now.
Dispatch(s, q, m) ==
    /\ serve[s] = "frame"
    /\ s \in channel
    /\ Arrive(q, Reflected(m, issuer[s], scope[s]))
    /\ serve' = [serve EXCEPT ![s] = q]
    /\ late' = IF s \in revoked THEN [late EXCEPT ![s] = @ + 1] ELSE late
    /\ UNCHANGED <<live, issuer, scope, channel, cancelled, shares, revoked>>

\* Handle has returned; the answer is sent, if it can be.
Reply(s) ==
    /\ serve[s] \in Calls
    /\ stage[serve[s]] = "done"
    /\ serve' = [serve EXCEPT ![s] = "poll"]
    /\ UNCHANGED <<vars, live, issuer, scope, channel, cancelled, shares,
                   revoked, late>>

\* The loop ends: the poll fails or is cancelled, or a close frame came.
Teardown(s) ==
    /\ serve[s] \in {"poll", "frame"}
    /\ serve' = [serve EXCEPT ![s] = "gone"]
    /\ cancelled' = cancelled \cup {s}
    /\ live' = live \ {s}
    /\ UNCHANGED <<vars, issuer, scope, channel, shares, revoked, late>>

-----------------------------------------------------------------------------
(* Composition with the broker *)

\* A step of the broker for a call some session waits for.
BrokerStep(q) == HandleStep(q) /\ UNCHANGED sessionVars

AdminStep == Environment /\ UNCHANGED sessionVars

ServeStep(s) ==
    \/ Fetch(s)
    \/ HandleHandshake(s)
    \/ DropFrame(s)
    \/ \E q \in Calls, m \in WireRequests : Dispatch(s, q, m)
    \/ Reply(s)
    \/ Teardown(s)

Control(s) ==
    \/ \E a \in Agents, sc \in SUBSET Verbs :
        \/ OpenStart(s, a, sc)
        \/ OpenDenied(s, a, sc)
        \/ Extend(s, a, sc)
        \/ ExtendDenied(s, a, sc)
    \/ OpenFinish(s)
    \/ OpenFails(s)
    \/ Close(s)
    \/ Expire(s)

DNext ==
    \/ \E s \in Sessions : Control(s) \/ ServeStep(s)
    \/ \E q \in Calls : BrokerStep(q)
    \/ AdminStep

DSpec == DInit /\ [][DNext]_dvars

\* Checks of a call that do not wait for an executor.
CheckStep(q) ==
    /\ stage[q] # "running"
    /\ BrokerStep(q)

\* The scheduler runs a goroutine that can run; a timeout fires; a request to
\* the relay ends when its context does.  Nothing makes an executor return.
DFairness ==
    /\ \A s \in Sessions :
        /\ WF_dvars(Expire(s))
        /\ WF_dvars(OpenFinish(s) \/ OpenFails(s))
        /\ WF_dvars(s \in cancelled /\ Teardown(s))
        /\ WF_dvars(serve[s] = "frame" /\ ServeStep(s))
        /\ WF_dvars(Reply(s))
    /\ \A q \in Calls : WF_dvars(CheckStep(q))

DFairSpec == DSpec /\ DFairness

-----------------------------------------------------------------------------
(* Properties *)

\* Type invariant of the sessions.
DTypeOK ==
    /\ serve \in [Sessions -> ServeStates \cup Calls]
    /\ live \subseteq Sessions
    /\ issuer \in [Sessions -> Agents \cup {NoAgent}]
    /\ scope \in [Sessions -> SUBSET Verbs]
    /\ channel \subseteq Sessions
    /\ cancelled \subseteq Sessions
    /\ shares \subseteq [session : Sessions,
                         result : {"open", "out_of_issuer_scope"}]
    /\ revoked \subseteq Sessions
    /\ late \in [Sessions -> Nat]

\* The heart of the delegation: whatever identity a request claims and however
\* the files change, a call dispatched for a session runs as its issuer, and
\* is executed only if the issuer itself could have made it.
DelegationIsDenyOnly ==
    /\ ExecutedWasAuthorized
    /\ \A s \in Sessions : serve[s] \in Calls =>
        call[serve[s]].agent = issuer[s]

\* A session that serves is in the map, where share list and share revoke find
\* it; and no two sessions wait for one call.
ServingIsListed ==
    /\ Serving \subseteq live
    /\ \A s, t \in Serving : (serve[s] = serve[t] /\ serve[s] \in Calls) => s = t

\* After its revocation a session dispatches at most the one request it had
\* already fetched.
AtMostOneLateDispatch == \A s \in Sessions : late[s] <= 1

\* Every session leaves the map, unless it waits for an executor, which nothing
\* forces to return.
SessionsEnd ==
    \A s \in Sessions :
        s \in live ~> \/ s \notin live
                      \/ serve[s] \in Calls /\ stage[serve[s]] = "running"
=============================================================================

-------------------------- MODULE DelegationProofs --------------------------
(***************************************************************************)
(* Theorems about Broker, for any number of agents, verbs and concurrent   *)
(* calls, and any interleaving of the checks with administrators' saves;   *)
(* and about Delegation: sessions add no behaviour to the broker, so what  *)
(* is proved of every call holds of reflected ones; and what revocation    *)
(* guarantees, for any number of sessions and calls; and about the channel *)
(* of one session (ReflectChannel), for any number of connections, calls   *)
(* and handshakes: over a relay that loses, repeats and reorders frames,   *)
(* no nonce is used for two records and every exchange is exact.           *)
(***************************************************************************)
EXTENDS Delegation, ReflectChannel, TLAPS

-----------------------------------------------------------------------------
(* The broker: the strengthening *)

\* A call that has arrived carries one of the inputs, and keeps it.
Carries ==
    \A q \in Calls : /\ stage[q] = "idle" => call[q] = NoCall
                     /\ stage[q] # "idle" => call[q] \in CallInputs

TypeInv == TypeOK /\ Carries

\* A running call has seen every gate that is open now.
HeldIsCurrent == \A q \in Calls : stage[q] \in Active => GatesNow(q) \subseteq held[q]

AfterPolicy       == {"auditCheck", "execute", "running"}
AfterBlacklist    == AfterPolicy \cup {"policy"}
AfterRegistration == AfterBlacklist \cup {"blacklist"}
AfterDefinitions  == AfterRegistration \cup {"registration"}

\* A check that was passed was passed while its gate stood open.
PassedWasHeld ==
    \A q \in Calls :
        /\ stage[q] \in AfterDefinitions  => "enabled" \in held[q]
        /\ stage[q] \in AfterRegistration => "registered" \in held[q]
        /\ stage[q] \in AfterBlacklist    => "open" \in held[q]
        /\ stage[q] \in AfterPolicy       => "allowed" \in held[q]

\* Executors run only for calls past every check.
ExecutedIsPast == \A q \in executed : stage[q] \in {"running", "done"}

AuthInv == HeldIsCurrent /\ PassedWasHeld /\ ExecutedIsPast /\ ExecutedWasAuthorized

\* A reflected call past the attenuation is in its scope; only local calls are
\* answered by a built-in verb.
InScope ==
    /\ \A q \in Calls : stage[q] # "done" => outcome[q] = "none"
    /\ \A q \in Calls :
        (stage[q] # "idle" /\ call[q].transport = "reflector") =>
            /\ stage[q] \in AfterBlacklist => call[q].verb \in call[q].scope
            /\ q \in executed => call[q].verb \in call[q].scope
            /\ outcome[q] # "builtin"

USE DEF Stages, Active, Outcomes, AuditedDenials, Ran, Gates, Files

-----------------------------------------------------------------------------
(* Type correctness *)

\* The broker starts, with any contents of its files, in a well-typed state.
LEMMA TypeInit == Init => TypeInv
<1> SUFFICES ASSUME Init PROVE TypeInv
  OBVIOUS
<1> QED BY BrokerAssumption DEF Init, TypeInv, TypeOK, Carries

\* The history of gates keeps its type.
LEMMA ObserveType ==
    ASSUME held \in [Calls -> SUBSET Gates], Observe
    PROVE  held' \in [Calls -> SUBSET Gates]
BY DEF Observe, GatesNow

\* Every check, every save and every flip of the log preserves the types.
LEMMA TypeStep == TypeInv /\ [Next]_vars => TypeInv'
<1> SUFFICES ASSUME TypeInv, [Next]_vars PROVE TypeInv'
  OBVIOUS
<1> USE DEF TypeInv, TypeOK, Carries, fileVars, callVars, logVars
<1>1. ASSUME NEW q \in Calls, NEW m \in CallInputs, Arrive(q, m)
      PROVE  TypeInv'
  <2>1. held' \in [Calls -> SUBSET Gates]
    BY <1>1, ObserveType DEF Arrive
  <2>2. m \in CallType
    BY BrokerAssumption
  <2>3. call' \in [Calls -> CallType \cup {NoCall}]
    BY <1>1, <2>2 DEF Arrive
  <2>4. /\ stage' \in [Calls -> Stages]
        /\ outcome' \in [Calls -> Outcomes]
        /\ audit' \subseteq [call : Calls, result : Outcomes]
    BY <1>1 DEF Arrive, Goto, Return, Record
  <2>5. Carries'
    BY <1>1 DEF Arrive, Goto, Return, Record
  <2> QED BY <1>1, <2>1, <2>3, <2>4, <2>5 DEF Arrive
<1>2. ASSUME NEW q \in Calls, CheckDefinitions(q) PROVE TypeInv'
  BY <1>2 DEF CheckDefinitions, Goto, Return
<1>3. ASSUME NEW q \in Calls, CheckRegistered(q) PROVE TypeInv'
  BY <1>3 DEF CheckRegistered, Goto, Record
<1>4. ASSUME NEW q \in Calls, CheckBlacklist(q) PROVE TypeInv'
  BY <1>4 DEF CheckBlacklist, Goto, Return, Record
<1>5. ASSUME NEW q \in Calls, EvaluatePolicy(q) PROVE TypeInv'
  BY <1>5 DEF EvaluatePolicy, Goto, Return, Record
<1>6. ASSUME NEW q \in Calls, EnsureWritable(q) PROVE TypeInv'
  BY <1>6 DEF EnsureWritable, Goto, Return
<1>7. ASSUME NEW q \in Calls, Execute(q) PROVE TypeInv'
  BY <1>7 DEF Execute, Goto
<1>8. ASSUME NEW q \in Calls, ExecutorFails(q) PROVE TypeInv'
  BY <1>8 DEF ExecutorFails, Record
<1>9. ASSUME NEW q \in Calls, ExecutorSucceeds(q) PROVE TypeInv'
  BY <1>9 DEF ExecutorSucceeds, Record
<1>10. ASSUME NEW f \in Files, BeginSave(f) PROVE TypeInv'
  BY <1>10 DEF BeginSave
<1>11. ASSUME NEW f \in Files, EndSave(f) PROVE TypeInv'
  <2>1. held' \in [Calls -> SUBSET Gates]
    BY <1>11, ObserveType DEF EndSave
  <2>2. /\ enabled' \subseteq Verbs /\ agents' \subseteq Agents
        /\ protected' \subseteq FolderVerbs
        /\ allow' \subseteq Agents \X Verbs /\ deny' \subseteq Agents \X Verbs
    BY <1>11 DEF EndSave, Toggle
  <2> QED BY <1>11, <2>1, <2>2 DEF EndSave
<1>12. CASE FlipAudit
  BY <1>12 DEF FlipAudit
<1>13. CASE UNCHANGED vars
  BY <1>13 DEF vars
<1> QED
  BY <1>1, <1>2, <1>3, <1>4, <1>5, <1>6, <1>7, <1>8, <1>9, <1>10, <1>11,
     <1>12, <1>13, BrokerAssumption DEF Next, HandleStep, Environment

\* The type invariant, whatever the files hold and whoever saves them when.
THEOREM TypeCorrect == Spec => []TypeOK
<1>1. TypeInv => TypeOK
  BY DEF TypeInv
<1> QED BY <1>1, TypeInit, TypeStep, PTL DEF Spec

-----------------------------------------------------------------------------
(* Authorization *)

\* After Observe, every running call has seen the gates that are open, and no
\* call has forgotten one.
LEMMA ObserveHeld ==
    ASSUME held \in [Calls -> SUBSET Gates], Observe, NEW q \in Calls
    PROVE  /\ held[q] \subseteq held'[q]
           /\ stage'[q] \in Active => GatesNow(q)' \subseteq held'[q]
BY DEF Observe

\* Where the files and the calls stay, so do the open gates.
LEMMA GatesStay ==
    ASSUME UNCHANGED <<call, fileVars>>, NEW q
    PROVE  GatesNow(q)' = GatesNow(q)
BY DEF GatesNow, PolicyAllows, Visible, fileVars

\* No check is passed unless its gate was seen open: every step preserves it.
LEMMA AuthStep == TypeInv /\ AuthInv /\ [Next]_vars => AuthInv'
<1> SUFFICES ASSUME TypeInv, AuthInv, [Next]_vars PROVE AuthInv'
  OBVIOUS
<1> USE DEF TypeInv, TypeOK, AuthInv, HeldIsCurrent, PassedWasHeld,
            ExecutedIsPast, ExecutedWasAuthorized, AfterDefinitions,
            AfterRegistration, AfterBlacklist, AfterPolicy
<1>1. ASSUME NEW q \in Calls, NEW m \in CallInputs, Arrive(q, m)
      PROVE  AuthInv'
  <2>1. HeldIsCurrent' /\ \A p \in Calls : held[p] \subseteq held'[p]
    BY <1>1, ObserveHeld DEF Arrive
  <2>2. held' \in [Calls -> SUBSET Gates]
    BY <1>1, ObserveType DEF Arrive
  <2>3. stage[q] = "idle" /\ stage'[q] \in {"definitions", "done"}
    BY <1>1 DEF Arrive, Goto, Return, Record
  <2>4. \A p \in Calls : p # q => stage'[p] = stage[p]
    BY <1>1 DEF Arrive, Goto, Return, Record
  <2>5. executed' = executed
    BY <1>1 DEF Arrive
  <2> QED BY <2>1, <2>2, <2>3, <2>4, <2>5
<1>2. ASSUME NEW q \in Calls, CheckDefinitions(q) PROVE AuthInv'
  <2>1. stage[q] = "definitions" => ("enabled" \in held[q] \/ call[q].verb \notin Visible(enabled))
    BY DEF GatesNow
  <2> QED BY <1>2, <2>1, GatesStay DEF CheckDefinitions, ReadEnabled, Visible, Goto, Return
<1>3. ASSUME NEW q \in Calls, CheckRegistered(q) PROVE AuthInv'
  <2>1. stage[q] = "registration" => ("registered" \in held[q] \/ call[q].agent \notin agents)
    BY DEF GatesNow
  <2> QED BY <1>3, <2>1, GatesStay DEF CheckRegistered, ReadAgents, Goto, Record
<1>4. ASSUME NEW q \in Calls, CheckBlacklist(q) PROVE AuthInv'
  <2>1. stage[q] = "blacklist" => ("open" \in held[q] \/ call[q].verb \in protected)
    BY DEF GatesNow
  <2> QED BY <1>4, <2>1, GatesStay DEF CheckBlacklist, Goto, Return, Record
<1>5. ASSUME NEW q \in Calls, EvaluatePolicy(q) PROVE AuthInv'
  <2>1. stage[q] = "policy" =>
          ("allowed" \in held[q] \/ ~PolicyAllows(call[q].agent, call[q].verb))
    BY DEF GatesNow
  <2> QED BY <1>5, <2>1, GatesStay DEF EvaluatePolicy, Goto, Return, Record
<1>6. ASSUME NEW q \in Calls, EnsureWritable(q) PROVE AuthInv'
  BY <1>6, GatesStay DEF EnsureWritable, Goto, Return
<1>7. ASSUME NEW q \in Calls, Execute(q) PROVE AuthInv'
  <2>1. held[q] = Gates
    BY <1>7 DEF Execute
  <2> QED BY <1>7, <2>1, GatesStay DEF Execute, Goto
<1>8. ASSUME NEW q \in Calls, ExecutorFails(q) PROVE AuthInv'
  BY <1>8, GatesStay DEF ExecutorFails, Record
<1>9. ASSUME NEW q \in Calls, ExecutorSucceeds(q) PROVE AuthInv'
  BY <1>9, GatesStay DEF ExecutorSucceeds, Record
<1>10. ASSUME NEW f \in Files, BeginSave(f) PROVE AuthInv'
  BY <1>10, GatesStay DEF BeginSave, callVars, fileVars, GatesNow, PolicyAllows
<1>11. ASSUME NEW f \in Files, EndSave(f) PROVE AuthInv'
  <2>1. HeldIsCurrent' /\ \A p \in Calls : held[p] \subseteq held'[p]
    BY <1>11, ObserveHeld DEF EndSave
  <2>2. held' \in [Calls -> SUBSET Gates]
    BY <1>11, ObserveType DEF EndSave
  <2>3. UNCHANGED <<stage, executed>>
    BY <1>11 DEF EndSave, callVars
  <2> QED BY <2>1, <2>2, <2>3
<1>12. CASE FlipAudit
  BY <1>12, GatesStay DEF FlipAudit, callVars
<1>13. CASE UNCHANGED vars
  BY <1>13, GatesStay DEF vars, fileVars
<1> QED
  BY <1>1, <1>2, <1>3, <1>4, <1>5, <1>6, <1>7, <1>8, <1>9, <1>10, <1>11,
     <1>12, <1>13, BrokerAssumption DEF Next, HandleStep, Environment

\* The history of gates starts empty, and nothing has been executed.
LEMMA AuthInit == Init => AuthInv /\ InScope
BY DEF Init, AuthInv, HeldIsCurrent, PassedWasHeld, ExecutedIsPast,
       ExecutedWasAuthorized, AfterDefinitions, AfterRegistration,
       AfterBlacklist, AfterPolicy, InScope

\* A call handed to an executor saw every gate open since it arrived, although
\* each gate is checked at another time and files are saved in between.
THEOREM Authorized == Spec => []ExecutedWasAuthorized
<1>1. AuthInv => ExecutedWasAuthorized
  BY DEF AuthInv
<1> QED BY <1>1, AuthInit, TypeInit, TypeStep, AuthStep, PTL DEF Spec

-----------------------------------------------------------------------------
(* Attenuation *)

\* The handler's steps keep reflected calls inside their scope.
LEMMA ScopeStep == TypeInv /\ AuthInv /\ InScope /\ [Next]_vars => InScope'
<1> SUFFICES ASSUME TypeInv, AuthInv, InScope, [Next]_vars PROVE InScope'
  OBVIOUS
<1> USE DEF TypeInv, TypeOK, Carries, InScope, AfterBlacklist, AfterPolicy
<1>1. ASSUME NEW q \in Calls, NEW m \in CallInputs, Arrive(q, m)
      PROVE  InScope'
  <2>1. stage[q] = "idle" /\ q \notin executed
    BY <1>1 DEF Arrive, AuthInv, ExecutedIsPast
  <2>2. call' = [call EXCEPT ![q] = m] /\ executed' = executed
    BY <1>1 DEF Arrive
  <2>3. \/ stage' = [stage EXCEPT ![q] = "definitions"] /\ outcome' = outcome
        \/ /\ stage' = [stage EXCEPT ![q] = "done"]
           /\ \/ outcome' = [outcome EXCEPT ![q] = "local_only"]
              \/ /\ m.transport # "reflector"
                 /\ outcome' = [outcome EXCEPT ![q] = "builtin"]
    BY <1>1 DEF Arrive, Goto, Return, Record
  <2> QED BY <2>1, <2>2, <2>3
<1>2. ASSUME NEW q \in Calls,
             \/ CheckDefinitions(q) \/ CheckRegistered(q)
             \/ EvaluatePolicy(q) \/ EnsureWritable(q)
      PROVE  InScope'
  BY <1>2 DEF CheckDefinitions, CheckRegistered, EvaluatePolicy,
              EnsureWritable, Goto, Return, Record
<1>3. ASSUME NEW q \in Calls, CheckBlacklist(q) PROVE InScope'
  BY <1>3 DEF CheckBlacklist, Goto, Return, Record
<1>4. ASSUME NEW q \in Calls, Execute(q) PROVE InScope'
  BY <1>4 DEF Execute, Goto
<1>5. ASSUME NEW q \in Calls, ExecutorFails(q) PROVE InScope'
  BY <1>5 DEF ExecutorFails, Record
<1>6. ASSUME NEW q \in Calls, ExecutorSucceeds(q) PROVE InScope'
  BY <1>6 DEF ExecutorSucceeds, Record
<1>7. CASE Environment \/ UNCHANGED vars
  <2>1. UNCHANGED <<stage, call, outcome, executed>>
    BY <1>7 DEF Environment, BeginSave, EndSave, FlipAudit, callVars, vars
  <2> QED BY <2>1
<1> QED BY <1>1, <1>2, <1>3, <1>4, <1>5, <1>6, <1>7 DEF Next, HandleStep

\* A reflected call is executed only inside its passport's scope, and never
\* reaches a built-in verb.
THEOREM Attenuated == Spec => []AttenuationNarrows
<1>1. TypeInv /\ InScope => AttenuationNarrows
  BY DEF TypeInv, Carries, InScope, AttenuationNarrows
<1> QED
  BY <1>1, AuthInit, TypeInit, TypeStep, AuthStep, ScopeStep, PTL DEF Spec

-----------------------------------------------------------------------------
(* The audit log *)

\* A call that has passed the check of the log runs with a writable log, unless
\* the log failed under it; a recorded outcome stays recorded.
LogInv ==
    /\ \A q \in Calls \ dark : stage[q] \in {"execute", "running"} => auditOk
    /\ NeverActsUnlogged

\* The checks, the executors and a failing log preserve it.
LEMMA LogStep == TypeInv /\ AuthInv /\ LogInv /\ [Next]_vars => LogInv'
<1> SUFFICES ASSUME TypeInv, AuthInv, LogInv, [Next]_vars PROVE LogInv'
  OBVIOUS
<1> USE DEF TypeInv, TypeOK, AuthInv, ExecutedIsPast, LogInv, NeverActsUnlogged,
            logVars
<1>1. ASSUME NEW q \in Calls, NEW m \in CallInputs, Arrive(q, m)
      PROVE  LogInv'
  BY <1>1 DEF Arrive, Goto, Return, Record
<1>2. ASSUME NEW q \in Calls,
             \/ CheckDefinitions(q) \/ CheckRegistered(q)
             \/ CheckBlacklist(q) \/ EvaluatePolicy(q)
      PROVE  LogInv'
  BY <1>2 DEF CheckDefinitions, CheckRegistered, CheckBlacklist,
              EvaluatePolicy, Goto, Return, Record
<1>3. ASSUME NEW q \in Calls, EnsureWritable(q) PROVE LogInv'
  BY <1>3 DEF EnsureWritable, Goto, Return
<1>4. ASSUME NEW q \in Calls, Execute(q) PROVE LogInv'
  BY <1>4 DEF Execute, Goto
<1>5. ASSUME NEW q \in Calls, ExecutorFails(q) \/ ExecutorSucceeds(q)
      PROVE  LogInv'
  BY <1>5 DEF ExecutorFails, ExecutorSucceeds, Record
<1>6. CASE FlipAudit
  BY <1>6 DEF FlipAudit, callVars
<1>7. ASSUME NEW f \in SavedFiles, BeginSave(f) \/ EndSave(f) PROVE LogInv'
  BY <1>7 DEF BeginSave, EndSave, callVars
<1>8. CASE UNCHANGED vars
  BY <1>8 DEF vars
<1> QED
  BY <1>1, <1>2, <1>3, <1>4, <1>5, <1>6, <1>7, <1>8
     DEF Next, HandleStep, Environment

\* Every executed call that is over is recorded with the outcome the caller was
\* given, unless the log failed between its check and the end of the call.
THEOREM Logged == Spec => []NeverActsUnlogged
<1>1. Init => LogInv
  BY DEF Init, LogInv, NeverActsUnlogged
<1>2. LogInv => NeverActsUnlogged
  BY DEF LogInv
<1> QED
  BY <1>1, <1>2, AuthInit, TypeInit, TypeStep, AuthStep, LogStep, PTL DEF Spec

-----------------------------------------------------------------------------
(* Sessions: the strengthening *)

\* A session past its verification has a registered agent as issuer, and the
\* call it waits for runs as that agent.
IssuerInv ==
    /\ \A s \in Sessions : serve[s] \notin {"none", "gone"} => issuer[s] \in Agents
    /\ \A s \in Sessions : serve[s] \in Calls =>
        /\ stage[serve[s]] # "idle"
        /\ call[serve[s]].agent = issuer[s]

\* A revoked session has fetched its last frame.
RevokeInv ==
    /\ revoked \subseteq cancelled
    /\ \A s \in Sessions :
        /\ s \notin revoked => late[s] = 0
        /\ serve[s] = "frame" => late[s] = 0
        /\ late[s] <= 1

-----------------------------------------------------------------------------
(* Sessions and types *)

\* A dispatched request is one of the broker's inputs, as its issuer.
LEMMA ReflectedIsInput ==
    ASSUME NEW m \in WireRequests, NEW a \in Agents, NEW sc \in SUBSET Verbs
    PROVE  /\ Reflected(m, a, sc) \in CallInputs
           /\ Reflected(m, a, sc).agent = a
<1>1. m \in CallType
  BY DelegationAssumption
<1> QED BY <1>1, DelegationAssumption DEF Reflected, CallType

\* Sessions start empty.
LEMMA SessionInit == DInit => DTypeOK /\ IssuerInv /\ RevokeInv /\ ServingIsListed
BY DelegationAssumption
   DEF DInit, DTypeOK, IssuerInv, RevokeInv, ServeStates, ServingIsListed, Serving

\* Control requests and serve goroutines preserve the session types.
LEMMA SessionTypeStep == DTypeOK /\ TypeOK /\ [DNext]_dvars => DTypeOK'
<1> SUFFICES ASSUME DTypeOK, TypeOK, [DNext]_dvars PROVE DTypeOK'
  OBVIOUS
<1> USE DEF DTypeOK, ServeStates
<1>1. ASSUME NEW s \in Sessions, NEW a \in Agents, NEW sc \in SUBSET Verbs,
             OpenStart(s, a, sc) \/ OpenDenied(s, a, sc) \/ Extend(s, a, sc)
             \/ ExtendDenied(s, a, sc)
      PROVE  DTypeOK'
  BY <1>1 DEF OpenStart, OpenDenied, Extend, ExtendDenied, RecordShare
<1>2. ASSUME NEW s \in Sessions,
             OpenFinish(s) \/ OpenFails(s) \/ Close(s) \/ Expire(s)
      PROVE  DTypeOK'
  BY <1>2 DEF OpenFinish, OpenFails, Close, Expire, RecordShare
<1>3. ASSUME NEW s \in Sessions, NEW q \in Calls, NEW m \in WireRequests,
             Dispatch(s, q, m)
      PROVE  DTypeOK'
  BY <1>3 DEF Dispatch
<1>4. ASSUME NEW s \in Sessions,
             \/ Fetch(s) \/ HandleHandshake(s) \/ DropFrame(s)
             \/ Reply(s) \/ Teardown(s)
      PROVE  DTypeOK'
  BY <1>4 DEF Fetch, HandleHandshake, DropFrame, Reply, Teardown
<1>5. ASSUME NEW q \in Calls, BrokerStep(q) PROVE DTypeOK'
  BY <1>5 DEF BrokerStep, sessionVars
<1>6. CASE AdminStep \/ UNCHANGED dvars
  BY <1>6 DEF AdminStep, dvars, sessionVars
<1> QED
  BY <1>1, <1>2, <1>3, <1>4, <1>5, <1>6 DEF DNext, Control, ServeStep

-----------------------------------------------------------------------------
(* Refinement of the broker *)

\* Every step of the composition is a step of the broker or leaves it alone.
LEMMA BrokerSimulation ==
    DTypeOK /\ IssuerInv /\ [DNext]_dvars => [Next]_vars
<1> SUFFICES ASSUME DTypeOK, IssuerInv, [DNext]_dvars PROVE [Next]_vars
  OBVIOUS
<1>1. ASSUME NEW s \in Sessions, Control(s) PROVE UNCHANGED vars
  BY <1>1 DEF Control, OpenStart, OpenDenied, Extend, ExtendDenied, OpenFinish,
              OpenFails, Close, Expire
<1>2. ASSUME NEW s \in Sessions, NEW q \in Calls, NEW m \in WireRequests,
             Dispatch(s, q, m)
      PROVE  Next
  <2>1. issuer[s] \in Agents /\ scope[s] \in SUBSET Verbs
    BY <1>2 DEF Dispatch, IssuerInv, DTypeOK
  <2>2. Reflected(m, issuer[s], scope[s]) \in CallInputs
    BY <2>1, ReflectedIsInput
  <2> QED BY <1>2, <2>2 DEF Dispatch, Next
<1>3. ASSUME NEW s \in Sessions,
             \/ Fetch(s) \/ HandleHandshake(s) \/ DropFrame(s)
             \/ Reply(s) \/ Teardown(s)
      PROVE  UNCHANGED vars
  BY <1>3 DEF Fetch, HandleHandshake, DropFrame, Reply, Teardown
<1>4. ASSUME NEW q \in Calls, BrokerStep(q) PROVE Next
  BY <1>4 DEF BrokerStep, Next
<1>5. AdminStep => Next
  BY DEF AdminStep, Next
<1>6. CASE UNCHANGED dvars
  BY <1>6 DEF dvars
<1> QED BY <1>1, <1>2, <1>3, <1>4, <1>5, <1>6 DEF DNext, ServeStep

\* A call keeps its request, and is not idle again.
LEMMA CallsStay ==
    ASSUME TypeInv, [Next]_vars, NEW q \in Calls, stage[q] # "idle"
    PROVE  stage'[q] # "idle" /\ call'[q] = call[q]
<1> USE DEF TypeInv, TypeOK
<1>1. ASSUME NEW p \in Calls, NEW m \in CallInputs, Arrive(p, m)
      PROVE  stage'[q] # "idle" /\ call'[q] = call[q]
  BY <1>1 DEF Arrive, Goto, Return, Record
<1>2. ASSUME NEW p \in Calls, HandleStep(p)
      PROVE  stage'[q] # "idle" /\ call'[q] = call[q]
  BY <1>2 DEF HandleStep, CheckDefinitions, CheckRegistered, CheckBlacklist,
              EvaluatePolicy, EnsureWritable, Execute, ExecutorFails,
              ExecutorSucceeds, Goto, Return, Record
<1>3. CASE Environment \/ UNCHANGED vars
  BY <1>3 DEF Environment, BeginSave, EndSave, FlipAudit, callVars, vars
<1> QED BY <1>1, <1>2, <1>3 DEF Next

\* Whoever a request claims to be, its call runs as the issuer of its session.
LEMMA IssuerStep ==
    TypeInv /\ DTypeOK /\ IssuerInv /\ [DNext]_dvars => IssuerInv'
<1> SUFFICES ASSUME TypeInv, DTypeOK, IssuerInv, [DNext]_dvars PROVE IssuerInv'
  OBVIOUS
<1>0. \A q \in Calls : stage[q] # "idle" =>
          stage'[q] # "idle" /\ call'[q] = call[q]
  BY BrokerSimulation, CallsStay
<1> USE DelegationAssumption DEF DTypeOK, ServeStates, IssuerInv
<1>1. ASSUME NEW s \in Sessions, NEW a \in Agents, NEW sc \in SUBSET Verbs,
             OpenStart(s, a, sc) \/ OpenDenied(s, a, sc) \/ Extend(s, a, sc)
             \/ ExtendDenied(s, a, sc)
      PROVE  IssuerInv'
  BY <1>1, <1>0 DEF OpenStart, OpenDenied, Extend, ExtendDenied
<1>2. ASSUME NEW s \in Sessions,
             OpenFinish(s) \/ OpenFails(s) \/ Close(s) \/ Expire(s)
      PROVE  IssuerInv'
  BY <1>2, <1>0 DEF OpenFinish, OpenFails, Close, Expire
<1>3. ASSUME NEW s \in Sessions, NEW q \in Calls, NEW m \in WireRequests,
             Dispatch(s, q, m)
      PROVE  IssuerInv'
  <2>1. issuer[s] \in Agents /\ scope[s] \in SUBSET Verbs
    BY <1>3 DEF Dispatch
  <2>2. Reflected(m, issuer[s], scope[s]).agent = issuer[s]
    BY <2>1, ReflectedIsInput
  <2>3. call'[q].agent = issuer[s] /\ stage'[q] # "idle"
    BY <1>3, <2>2 DEF Dispatch, Arrive, Goto, Return, Record, TypeInv, TypeOK
  <2> QED BY <1>3, <1>0, <2>1, <2>3 DEF Dispatch
<1>4. ASSUME NEW s \in Sessions,
             \/ Fetch(s) \/ HandleHandshake(s) \/ DropFrame(s)
             \/ Reply(s) \/ Teardown(s)
      PROVE  IssuerInv'
  BY <1>4, <1>0 DEF Fetch, HandleHandshake, DropFrame, Reply, Teardown
<1>5. ASSUME NEW q \in Calls, BrokerStep(q) PROVE IssuerInv'
  BY <1>5, <1>0 DEF BrokerStep, sessionVars
<1>6. CASE AdminStep \/ UNCHANGED dvars
  BY <1>6, <1>0 DEF AdminStep, dvars, sessionVars
<1> QED
  BY <1>1, <1>2, <1>3, <1>4, <1>5, <1>6 DEF DNext, Control, ServeStep

\* The composition implements the broker: a session's dispatches are calls of
\* the broker like any other, made by its issuer.
THEOREM ImplementsBroker == DSpec => Spec
<1>1. DInit => Init
  BY DEF DInit
<1> QED
  BY <1>1, TypeInit, TypeStep, SessionInit, SessionTypeStep, IssuerStep,
     BrokerSimulation, PTL DEF DSpec, Spec, TypeInv

\* A reflected call runs as its issuer and is executed only if every gate
\* stood open for the issuer: delegation never adds authority.
THEOREM DenyOnly == DSpec => []DelegationIsDenyOnly
<1>1. IssuerInv /\ ExecutedWasAuthorized => DelegationIsDenyOnly
  BY DEF IssuerInv, DelegationIsDenyOnly
<1>2. DInit => Init
  BY DEF DInit
<1> QED
  BY <1>1, <1>2, TypeInit, TypeStep, SessionInit, SessionTypeStep, IssuerStep,
     BrokerSimulation, ImplementsBroker, Authorized, PTL DEF DSpec, TypeInv

-----------------------------------------------------------------------------
(* Revocation *)

\* A cancelled session fetches nothing: the invariant behind the bound.
LEMMA RevokeStep == DTypeOK /\ RevokeInv /\ [DNext]_dvars => RevokeInv'
<1> SUFFICES ASSUME DTypeOK, RevokeInv, [DNext]_dvars PROVE RevokeInv'
  OBVIOUS
<1> USE DelegationAssumption DEF DTypeOK, ServeStates, RevokeInv
<1>1. ASSUME NEW s \in Sessions, NEW a \in Agents, NEW sc \in SUBSET Verbs,
             OpenStart(s, a, sc) \/ OpenDenied(s, a, sc) \/ Extend(s, a, sc)
             \/ ExtendDenied(s, a, sc)
      PROVE  RevokeInv'
  BY <1>1 DEF OpenStart, OpenDenied, Extend, ExtendDenied
<1>2. ASSUME NEW s \in Sessions,
             OpenFinish(s) \/ OpenFails(s) \/ Close(s) \/ Expire(s)
      PROVE  RevokeInv'
  BY <1>2 DEF OpenFinish, OpenFails, Close, Expire
<1>3. ASSUME NEW s \in Sessions, NEW q \in Calls, NEW m \in WireRequests,
             Dispatch(s, q, m)
      PROVE  RevokeInv'
  BY <1>3 DEF Dispatch
<1>4. ASSUME NEW s \in Sessions,
             \/ Fetch(s) \/ HandleHandshake(s) \/ DropFrame(s)
             \/ Reply(s) \/ Teardown(s)
      PROVE  RevokeInv'
  BY <1>4 DEF Fetch, HandleHandshake, DropFrame, Reply, Teardown
<1>5. ASSUME NEW q \in Calls, BrokerStep(q) PROVE RevokeInv'
  BY <1>5 DEF BrokerStep, sessionVars
<1>6. CASE AdminStep \/ UNCHANGED dvars
  BY <1>6 DEF AdminStep, dvars, sessionVars
<1> QED
  BY <1>1, <1>2, <1>3, <1>4, <1>5, <1>6 DEF DNext, Control, ServeStep

\* After share revoke or the end of its time to live, a session dispatches at
\* most the request it had already fetched.
THEOREM OneLateDispatch == DSpec => []AtMostOneLateDispatch
<1>1. RevokeInv => AtMostOneLateDispatch
  BY DEF RevokeInv, AtMostOneLateDispatch
<1>2. DInit => Init
  BY DEF DInit
<1> QED
  BY <1>1, <1>2, TypeInit, TypeStep, SessionInit, SessionTypeStep, IssuerStep,
     BrokerSimulation, RevokeStep, PTL DEF DSpec, TypeInv

-----------------------------------------------------------------------------
(* The session map *)

\* A session enters the map before it serves and leaves it when it stops, and a
\* dispatch takes a call nobody waits for.
LEMMA ListedStep ==
    TypeInv /\ DTypeOK /\ IssuerInv /\ ServingIsListed /\ [DNext]_dvars
        => ServingIsListed'
<1> SUFFICES ASSUME TypeInv, DTypeOK, IssuerInv, ServingIsListed, [DNext]_dvars
             PROVE  ServingIsListed'
  OBVIOUS
<1> USE DelegationAssumption DEF DTypeOK, ServeStates, ServingIsListed, Serving
<1>1. ASSUME NEW s \in Sessions, NEW a \in Agents, NEW sc \in SUBSET Verbs,
             OpenStart(s, a, sc) \/ OpenDenied(s, a, sc) \/ Extend(s, a, sc)
             \/ ExtendDenied(s, a, sc)
      PROVE  ServingIsListed'
  BY <1>1 DEF OpenStart, OpenDenied, Extend, ExtendDenied
<1>2. ASSUME NEW s \in Sessions,
             OpenFinish(s) \/ OpenFails(s) \/ Close(s) \/ Expire(s)
      PROVE  ServingIsListed'
  BY <1>2 DEF OpenFinish, OpenFails, Close, Expire
<1>3. ASSUME NEW s \in Sessions, NEW q \in Calls, NEW m \in WireRequests,
             Dispatch(s, q, m)
      PROVE  ServingIsListed'
  <2>1. stage[q] = "idle"
    BY <1>3 DEF Dispatch, Arrive
  <2>2. \A t \in Sessions : serve[t] # q
    BY <2>1 DEF IssuerInv
  <2> QED BY <1>3, <2>2 DEF Dispatch
<1>4. ASSUME NEW s \in Sessions,
             \/ Fetch(s) \/ HandleHandshake(s) \/ DropFrame(s)
             \/ Reply(s) \/ Teardown(s)
      PROVE  ServingIsListed'
  BY <1>4 DEF Fetch, HandleHandshake, DropFrame, Reply, Teardown
<1>5. ASSUME NEW q \in Calls, BrokerStep(q) PROVE ServingIsListed'
  BY <1>5 DEF BrokerStep, sessionVars
<1>6. CASE AdminStep \/ UNCHANGED dvars
  BY <1>6 DEF AdminStep, dvars, sessionVars
<1> QED
  BY <1>1, <1>2, <1>3, <1>4, <1>5, <1>6 DEF DNext, Control, ServeStep

\* Whatever order share requests, the relay and cancellations come in, a
\* session that serves can be listed and revoked, and no answer of the broker
\* has two sessions waiting for it.
THEOREM Listed == DSpec => []ServingIsListed
<1>1. DInit => Init
  BY DEF DInit
<1> QED
  BY <1>1, TypeInit, TypeStep, SessionInit, SessionTypeStep, IssuerStep,
     BrokerSimulation, ListedStep, PTL DEF DSpec, TypeInv

-----------------------------------------------------------------------------
(* The channel of a session: the inductive invariant *)

\* A connection is made under the nonce of the latest attempt, and every call
\* uses up one counter value.
ClientInv ==
    /\ client \in {"ready", "calling"} => ckey \in Key /\ ckey.c = connects
    /\ csend = cid

\* What the relay may hold for the daemon: a counter value names one request
\* of one connection.
ToDaemonInv == \A f \in toDaemon :
    \/ \E c \in 1..MaxConnects : f = Hello(c)
    \/ \E k \in Key, n \in 0..(MaxCalls - 1) : f = Data(k, n, n + 1, k.c)

\* What the relay may hold for the client: answers are sealed under the one
\* key the session ever has, below its send counter, after their dispatch.
ToClientInv ==
    /\ \A f \in toClient :
        \/ \E k \in Key : f = Welcome(k)
        \/ \E n \in 0..(dsend - 1), id \in 1..MaxCalls :
            /\ f = Data(dkey, n, id, 0)
            /\ dkey \in Key
            /\ runs[[key |-> dkey, id |-> id]] = 1
    /\ \A f, g \in toClient :
        (f.type = "data" /\ g.type = "data" /\ f.ctr = g.ctr) => f = g

\* Only what lies below the receive counter was dispatched.
RunsInv == \A r \in Requests :
    /\ runs[r] <= 1
    /\ runs[r] = 1 => r.key = dkey /\ r.id <= drecv

\* The inductive invariant of the channel.
ChannelInv ==
    ChannelTypeOK /\ ClientInv /\ ToDaemonInv /\ ToClientInv /\ RunsInv /\ AnswersAreOwn

-----------------------------------------------------------------------------
(* The channel: the invariant is inductive *)

\* The three kinds of frame are told apart by their type, and carry what they
\* were made from.
LEMMA FrameFields ==
    /\ \A c : Hello(c).type = "hs1" /\ Hello(c).c = c
    /\ \A k : Welcome(k).type = "hs2" /\ Welcome(k).key = k
    /\ \A k, n, id, by :
        /\ Data(k, n, id, by).type = "data" /\ Data(k, n, id, by).key = k
        /\ Data(k, n, id, by).ctr = n /\ Data(k, n, id, by).id = id
        /\ Data(k, n, id, by).by = by
BY DEF Hello, Welcome, Data

\* No key is the absence of one.
LEMMA NoKeyIsNone == NoKey \notin Key
BY ChannelAssumption DEF NoKey, Key

\* Nothing has been sent.
LEMMA ChannelStart == ChannelInit => ChannelInv
BY ChannelAssumption
   DEF ChannelInit, ChannelInv, ChannelTypeOK, ClientInv, ToDaemonInv, ToClientInv, RunsInv,
       AnswersAreOwn, Requests

\* A record the daemon opens is the next request of its key, and was not
\* dispatched before.
LEMMA OpenedIsNew ==
    ASSUME ChannelInv, NEW f \in toDaemon, f.type = "data", f.key = dkey,
           Fresh(f.ctr, drecv)
    PROVE  /\ f.key \in Key /\ f.ctr \in Nat /\ f.id \in 1..MaxCalls
           /\ f.id = f.ctr + 1
           /\ [key |-> f.key, id |-> f.id] \in Requests
           /\ runs[[key |-> f.key, id |-> f.id]] = 0
<1>1. PICK k \in Key, n \in 0..(MaxCalls - 1) : f = Data(k, n, n + 1, k.c)
  BY FrameFields DEF ChannelInv, ToDaemonInv
<1>2. f.key = k /\ f.ctr = n /\ f.id = n + 1
  BY <1>1, FrameFields
<1>3. /\ f.key \in Key /\ f.ctr \in Nat /\ f.id \in 1..MaxCalls
      /\ f.id = f.ctr + 1
  BY <1>1, <1>2, ChannelAssumption
<1>4. [key |-> f.key, id |-> f.id] \in Requests
  BY <1>3 DEF Requests
<1>5. ~(f.ctr < drecv)
  BY DEF Fresh
<1>6. runs[[key |-> f.key, id |-> f.id]] = 0
  BY <1>3, <1>4, <1>5 DEF ChannelInv, RunsInv, ChannelTypeOK
<1> QED BY <1>3, <1>4, <1>6

\* An answer the client opens answers a dispatched request.
LEMMA AnswerWasRun ==
    ASSUME ChannelInv, NEW f \in toClient, f.type = "data"
    PROVE  /\ f.key = dkey /\ dkey \in Key /\ f.id \in 1..MaxCalls
           /\ f.ctr \in Nat /\ f.ctr < dsend
           /\ runs[[key |-> dkey, id |-> f.id]] = 1
<1>1. dsend \in Nat
  BY DEF ChannelInv, ChannelTypeOK
<1>2. PICK n \in 0..(dsend - 1), id \in 1..MaxCalls :
          f = Data(dkey, n, id, 0) /\ dkey \in Key
          /\ runs[[key |-> dkey, id |-> id]] = 1
  BY FrameFields DEF ChannelInv, ToClientInv
<1>3. f.key = dkey /\ f.ctr = n /\ f.id = id
  BY <1>2, FrameFields
<1> QED BY <1>1, <1>2, <1>3

\* The client's steps.
LEMMA ClientStep ==
    ASSUME ChannelInv,
           \/ Connect \/ Call \/ GiveUp \/ Leave
           \/ \E f \in toClient : Finish(f) \/ Receive(f)
    PROVE  ChannelInv'
<1> USE ChannelAssumption DEF ChannelInv
<1>1. CASE Connect
  <2>1. connects' \in 1..MaxConnects
    BY <1>1 DEF Connect, ChannelTypeOK
  <2>2. ToDaemonInv'
    BY <1>1, <2>1 DEF Connect, ToDaemonInv
  <2> QED
    BY <1>1, <2>1, <2>2 DEF Connect, ChannelTypeOK, ClientInv, ToClientInv, RunsInv,
       AnswersAreOwn, daemonVars
<1>2. CASE Call
  <2>1. cid' \in 1..MaxCalls /\ csend \in Nat /\ cid' = csend + 1
    BY <1>2 DEF Call, ChannelTypeOK, ClientInv
  <2>2. ckey \in Key /\ ckey.c = connects
    BY <1>2 DEF Call, ClientInv
  <2>3. ToDaemonInv'
    BY <1>2, <2>1, <2>2 DEF Call, ToDaemonInv
  <2> QED
    BY <1>2, <2>1, <2>2, <2>3 DEF Call, ChannelTypeOK, ClientInv, ToClientInv, RunsInv,
       AnswersAreOwn, daemonVars
<1>3. CASE GiveUp \/ Leave
  BY <1>3 DEF GiveUp, Leave, ChannelTypeOK, ClientInv, ToDaemonInv, ToClientInv, RunsInv,
     AnswersAreOwn, daemonVars
<1>4. ASSUME NEW f \in toClient, Finish(f) PROVE ChannelInv'
  <2>1. ASSUME f.type = "hs2" PROVE f.key \in Key
    <3>1. \/ \E k \in Key : f = Welcome(k)
          \/ \E n \in 0..(dsend - 1), id \in 1..MaxCalls : f = Data(dkey, n, id, 0)
      BY DEF ToClientInv
    <3>2. \A n, id : f # Data(dkey, n, id, 0)
      BY <2>1 DEF Data
    <3>3. PICK k \in Key : f = Welcome(k)
      BY <3>1, <3>2
    <3> QED BY <3>3 DEF Welcome
  <2>2. ChannelTypeOK' /\ ClientInv'
    <3>1. CASE f.type = "hs2" /\ f.key = [c |-> connects, d |-> f.key.d]
      BY <1>4, <2>1, <3>1 DEF Finish, ChannelTypeOK, ClientInv, daemonVars
    <3>2. CASE ~(f.type = "hs2" /\ f.key = [c |-> connects, d |-> f.key.d])
      BY <1>4, <3>2 DEF Finish, ChannelTypeOK, ClientInv, daemonVars
    <3> QED BY <3>1, <3>2
  <2> QED
    BY <1>4, <2>2 DEF Finish, ToDaemonInv, ToClientInv, RunsInv, AnswersAreOwn,
       daemonVars
<1>5. ASSUME NEW f \in toClient, Receive(f) PROVE ChannelInv'
  <2>1. /\ f.key = ckey /\ ckey = dkey /\ ckey \in Key /\ f.id \in 1..MaxCalls
        /\ f.ctr \in Nat
        /\ runs[[key |-> ckey, id |-> f.id]] = 1
    BY <1>5, AnswerWasRun DEF Receive
  <2>2. AnswersAreOwn' /\ ChannelTypeOK'
    BY <1>5, <2>1 DEF Receive, AnswersAreOwn, ChannelTypeOK, daemonVars
  <2> QED
    BY <1>5, <2>2 DEF Receive, ChannelTypeOK, ClientInv, ToDaemonInv, ToClientInv, RunsInv,
       daemonVars
<1> QED BY <1>1, <1>2, <1>3, <1>4, <1>5

\* The session accepts a handshake only while it has no key, so it never has
\* a second one.
LEMMA HandshakeStep ==
    ASSUME ChannelInv, NEW f \in toDaemon, daemonHandshake(f)
    PROVE  ChannelInv'
<1> DEFINE k == [c |-> f.c, d |-> nonces']
<1> USE ChannelAssumption DEF ChannelInv
<1>1. f.c \in 1..MaxConnects
  BY FrameFields DEF daemonHandshake, ToDaemonInv
<1>2. nonces' \in 1..MaxNonces
  BY DEF daemonHandshake, ChannelTypeOK
<1>3. k \in Key
  BY <1>1, <1>2 DEF Key
<1>4. \A g \in toClient : \E q \in Key : g = Welcome(q)
  <2>1. dkey \notin Key
    BY NoKeyIsNone DEF daemonHandshake
  <2> QED BY <2>1 DEF ToClientInv
<1>5. ASSUME NEW r \in Requests PROVE runs[r] = 0
  <2>1. r.key # dkey
    BY NoKeyIsNone DEF daemonHandshake, Requests
  <2>2. runs[r] \in Nat /\ runs[r] <= 1 /\ runs[r] # 1
    BY <2>1 DEF RunsInv, ChannelTypeOK
  <2> QED BY <2>2
<1>6. toClient' \subseteq toClient \cup {Welcome(k)} /\ dkey' \in {dkey, k}
  BY DEF daemonHandshake
<1>7. ToClientInv'
  <2>1. \A g \in toClient' : \E q \in Key : g = Welcome(q)
    BY <1>3, <1>4, <1>6
  <2> QED BY <2>1, FrameFields DEF ToClientInv
<1>8. ChannelTypeOK'
  BY <1>2, <1>3, <1>6 DEF daemonHandshake, ChannelTypeOK, clientVars
<1>9. RunsInv'
  BY <1>5 DEF daemonHandshake, RunsInv
<1> QED
  BY <1>7, <1>8, <1>9 DEF daemonHandshake, ClientInv, ToDaemonInv, AnswersAreOwn,
     clientVars

\* A dispatch counts a request for the first time and seals its answer under
\* a counter value of its own.
LEMMA DataStep ==
    ASSUME ChannelInv, NEW f \in toDaemon, HandleData(f)
    PROVE  ChannelInv'
<1> DEFINE req == [key |-> f.key, id |-> f.id]
<1> DEFINE ans == Data(dkey, dsend, f.id, 0)
<1> USE ChannelAssumption
<1>1. /\ f.key = dkey /\ dkey \in Key /\ f.ctr \in Nat /\ f.id \in 1..MaxCalls
      /\ f.id = f.ctr + 1 /\ req \in Requests /\ runs[req] = 0
      /\ ~(f.ctr < drecv)
  BY OpenedIsNew DEF HandleData, Fresh
<1>2. runs \in [Requests -> Nat] /\ dsend \in Nat /\ drecv \in Nat
  BY DEF ChannelInv, ChannelTypeOK
<1>3. /\ runs' \in [Requests -> Nat]
      /\ runs'[req] = 1
      /\ \A r \in Requests : r # req => runs'[r] = runs[r]
  BY <1>1, <1>2 DEF HandleData
<1>4. ChannelTypeOK'
  BY <1>1, <1>3 DEF ChannelInv, ChannelTypeOK, HandleData, clientVars
<1>5. RunsInv'
  <2> SUFFICES ASSUME NEW r \in Requests
               PROVE  /\ runs'[r] <= 1
                      /\ runs'[r] = 1 => r.key = dkey' /\ r.id <= drecv'
    BY DEF RunsInv
  <2>1. dkey' = dkey /\ drecv' = f.ctr + 1
    BY DEF HandleData
  <2>2. CASE r = req
    BY <1>1, <1>3, <2>1, <2>2
  <2>3. CASE r # req
    <3>1. runs'[r] = runs[r] /\ r.id \in 1..MaxCalls
      BY <1>3, <2>3 DEF Requests
    <3> QED BY <3>1, <1>1, <1>2, <2>1 DEF ChannelInv, RunsInv
  <2> QED BY <2>2, <2>3
<1>6. ToClientInv'
  <2>1. /\ dsend' = dsend + 1 /\ dkey' = dkey
        /\ toClient' \subseteq toClient \cup {ans}
    BY DEF HandleData
  <2>2. \A r \in Requests : runs[r] = 1 => runs'[r] = 1
    BY <1>1, <1>3
  <2>3. ASSUME NEW g \in toClient'
        PROVE  \/ \E q \in Key : g = Welcome(q)
               \/ \E n \in 0..(dsend' - 1), id \in 1..MaxCalls :
                    /\ g = Data(dkey', n, id, 0)
                    /\ dkey' \in Key
                    /\ runs'[[key |-> dkey', id |-> id]] = 1
    <3>1. CASE g = ans
      BY <3>1, <1>1, <1>2, <1>3, <2>1
    <3>2. CASE g \in toClient
      <4>1. CASE \E q \in Key : g = Welcome(q)
        BY <4>1
      <4>2. ASSUME NEW n \in 0..(dsend - 1), NEW id \in 1..MaxCalls,
                   g = Data(dkey, n, id, 0), dkey \in Key,
                   runs[[key |-> dkey, id |-> id]] = 1
            PROVE  /\ n \in 0..(dsend' - 1)
                   /\ g = Data(dkey', n, id, 0)
                   /\ dkey' \in Key
                   /\ runs'[[key |-> dkey', id |-> id]] = 1
        <5>1. [key |-> dkey, id |-> id] \in Requests
          BY <4>2 DEF Requests
        <5> QED BY <4>2, <5>1, <1>2, <2>1, <2>2
      <4> QED BY <3>2, <4>1, <4>2 DEF ChannelInv, ToClientInv
    <3> QED BY <2>1, <3>1, <3>2
  <2>4. ASSUME NEW g \in toClient, g.type = "data"
        PROVE  g.ctr # ans.ctr
    <3>1. g.ctr \in Nat /\ g.ctr < dsend
      BY <2>4, AnswerWasRun
    <3>2. ans.ctr = dsend
      BY FrameFields
    <3> QED BY <1>2, <3>1, <3>2
  <2>5. ASSUME NEW g \in toClient', NEW h \in toClient',
               g.type = "data", h.type = "data", g.ctr = h.ctr
        PROVE  g = h
    <3>1. (g \in toClient \/ g = ans) /\ (h \in toClient \/ h = ans)
      BY <2>1
    <3>2. CASE g \in toClient /\ h \in toClient
      BY <2>5, <3>2 DEF ChannelInv, ToClientInv
    <3> QED BY <2>4, <2>5, <3>1, <3>2
  <2> QED BY <2>3, <2>5 DEF ToClientInv
<1>7. AnswersAreOwn'
  <2> SUFFICES ASSUME NEW a \in returned
               PROVE  a.answer = a.id /\ runs'[[key |-> a.key, id |-> a.id]] = 1
    BY DEF AnswersAreOwn, HandleData
  <2>1. [key |-> a.key, id |-> a.id] \in Requests
    BY DEF ChannelInv, ChannelTypeOK, Requests
  <2>2. a.answer = a.id /\ runs[[key |-> a.key, id |-> a.id]] = 1
    BY DEF ChannelInv, AnswersAreOwn
  <2> QED BY <2>1, <2>2, <1>1, <1>3
<1> QED
  BY <1>4, <1>5, <1>6, <1>7 DEF ChannelInv, HandleData, ClientInv, ToDaemonInv,
     clientVars

\* Every step preserves the invariant.
LEMMA ChannelStep == ChannelInv /\ [ChannelNext]_channelVars => ChannelInv'
<1> SUFFICES ASSUME ChannelInv, [ChannelNext]_channelVars PROVE ChannelInv'
  OBVIOUS
<1>1. CASE UNCHANGED channelVars
  BY <1>1 DEF channelVars, ChannelInv, ChannelTypeOK, ClientInv, ToDaemonInv, ToClientInv, RunsInv,
     AnswersAreOwn
<1> QED BY <1>1, ClientStep, HandshakeStep, DataStep DEF ChannelNext

-----------------------------------------------------------------------------
(* The channel: theorems *)

\* A request is dispatched at most once and a call returns with its own
\* answer, over the one channel the session accepted, whatever the relay does
\* with the frames (Call, handleHandshake, handleData).
THEOREM Exact == ChannelSpec => []ExchangeIsExact
<1>1. ChannelInv => ExchangeIsExact
  <2> SUFFICES ASSUME ChannelInv PROVE ExchangeIsExact
    OBVIOUS
  <2>1. ASSUME NEW q \in Requests, runs[q] > 0 PROVE q.key = dkey
    BY <2>1 DEF ChannelInv, RunsInv, ChannelTypeOK
  <2>2. OneChannel
    BY <2>1 DEF OneChannel
  <2> QED BY <2>2 DEF ChannelInv, ExchangeIsExact, RunsInv, AtMostOnce
<1> QED BY <1>1, ChannelStart, ChannelStep, PTL DEF ChannelSpec

\* Under one key and direction a counter value seals one record, whatever
\* fails, restarts or is replayed (Seal in crypto.go).
THEOREM NonceOnce == ChannelSpec => []NonceNeverReused
<1>1. ChannelInv => NonceNeverReused
  <2> SUFFICES ASSUME ChannelInv PROVE NonceNeverReused
    OBVIOUS
  <2>1. ASSUME NEW f \in toDaemon, NEW g \in toDaemon,
               f.type = "data", g.type = "data", f.key = g.key, f.ctr = g.ctr
        PROVE  f = g
    <3>1. PICK k \in Key, n \in 0..(MaxCalls - 1) : f = Data(k, n, n + 1, k.c)
      BY <2>1, FrameFields DEF ChannelInv, ToDaemonInv
    <3>2. PICK l \in Key, m \in 0..(MaxCalls - 1) : g = Data(l, m, m + 1, l.c)
      BY <2>1, FrameFields DEF ChannelInv, ToDaemonInv
    <3>3. k = l /\ n = m
      BY <2>1, <3>1, <3>2, FrameFields
    <3> QED BY <3>1, <3>2, <3>3
  <2> QED BY <2>1 DEF ChannelInv, ToClientInv, NonceNeverReused
<1> QED BY <1>1, ChannelStart, ChannelStep, PTL DEF ChannelSpec
=============================================================================

--------------------------- MODULE ExecutorsProofs ---------------------------
(***************************************************************************)
(* Theorems about Executors, for any calls, targets, keys, files and       *)
(* configurations: what reaches a host passed the gates, what an answer    *)
(* says of its command is true, and what the system executor does is       *)
(* within the configuration that the request loaded.                       *)
(***************************************************************************)
EXTENDS Executors, SequenceTheorems, NaturalsInduction, WellFoundedInduction, TLAPS

-----------------------------------------------------------------------------
(* Remote calls: the inductive invariant *)

CallPcs == {"new", "inspect", "open", "send", "wait", "status", "poll", "verify", "done",
            "probed"}
Outcomes == {"refused", "failed", "ok", "unhealthy"}
AllInputs == UNION {t.inputs : t \in Traffic}

IsCall(x) ==
    x \in [pc : CallPcs, in : {x.in}, target : {x.target}, tries : Nat,
           res : Outcomes \cup {Nothing}, lost : BOOLEAN, seenUp : BOOLEAN,
           streamed : {x.streamed}, apart : BOOLEAN, moved : BOOLEAN]

\* The call is between its gates and its answer.
Underway(x) == x.pc \in {"inspect", "open", "send", "wait", "status", "poll", "verify"}
Streaming(x) == x.pc \in {"send", "wait", "status", "poll", "verify"}

\* The image is of the platform the verb or the target demands.
Fits(x, image) ==
    image # "" /\ (IF x.in.platform # "" THEN x.in.platform ELSE x.target.platform) \in {"", image}

\* Where a call is, what it has passed, and what is true of its command.
CallShape(x, r) ==
    /\ IsCall(x) /\ r \in {"none", "running", "ok", "fail"}
    /\ (x.res # Nothing) <=> (x.pc = "done")
    /\ x.pc \in {"new", "inspect", "open", "send", "probed"} => r = "none"
    /\ x.pc \in {"status", "verify"} => r = "ok"
    /\ x.pc = "status" => x.in.verb = "restart_service"
    /\ x.pc = "poll" => x.in.exec = "ssm"
    /\ x.pc \in {"poll", "verify"} => x.tries > 0
    /\ Underway(x) \/ r # "none" =>
        x.in \in AllInputs /\ (x.in.exec # "apple" => Gated(x.in, x.target))

\* The file it streams is the one it inspected, unless that was replaced.
Inspected(x, r, files) ==
    /\ x.pc = "open" /\ x.in.media => x.moved \/ Fits(x, files[x.in.file])
    /\ (Streaming(x) \/ r # "none") /\ x.in.media => x.moved \/ Fits(x, x.streamed)

\* What its answer says is so.
Honest(x, r) ==
    /\ x.res = "refused" => r = "none"
    /\ x.res = "ok" => r = "ok" /\ (x.in.exec = "ssh" /\ x.in.verify => x.seenUp)
    /\ x.res = "unhealthy" => r = "ok"
    /\ x.res = "failed" => r \in {"none", "fail"} \/ x.lost

CallRow(x, r, files) == CallShape(x, r) /\ Inspected(x, r, files) /\ Honest(x, r)

RemoteInv ==
    /\ DOMAIN call = Calls /\ DOMAIN remote = Calls
    /\ traffic \in Traffic
    /\ \A c \in Calls : CallRow(call[c], remote[c], staged)

\* A step of one call that leaves the staged files alone concerns that call only.
LEMMA OneCall ==
    ASSUME RemoteInv, NEW c \in Calls, UNCHANGED <<traffic, staged>>,
           DOMAIN call' = Calls, DOMAIN remote' = Calls,
           \A d \in Calls \ {c} : call'[d] = call[d] /\ remote'[d] = remote[d],
           CallRow(call'[c], remote'[c], staged)
    PROVE  RemoteInv'
<1> ASSUME NEW d \in Calls
    PROVE  CallRow(call'[d], remote'[d], staged')
  <2>1. CASE d = c
    BY <2>1
  <2>2. CASE d # c
    <3>1. call'[d] = call[d] /\ remote'[d] = remote[d] /\ staged' = staged
      BY <2>2
    <3>2. CallRow(call[d], remote[d], staged)
      BY DEF RemoteInv
    <3> QED BY <3>1, <3>2
  <2> QED BY <2>1, <2>2
<1> QED BY DEF RemoteInv

\* The effect of a step that sets call c alone.
LEMMA CallSet ==
    ASSUME RemoteInv, NEW c \in Calls, NEW v, call' = [call EXCEPT ![c] = v],
           UNCHANGED <<traffic, staged, remote>>, CallRow(v, remote[c], staged)
    PROVE  RemoteInv'
<1>1. DOMAIN call' = Calls /\ call'[c] = v /\ \A d \in Calls \ {c} : call'[d] = call[d]
  BY DEF RemoteInv
<1>2. DOMAIN remote' = Calls /\ \A d \in Calls : remote'[d] = remote[d]
  BY DEF RemoteInv
<1> QED BY <1>1, <1>2, OneCall

\* And of one that also changes the state of its command.
LEMMA CallAndCommandSet ==
    ASSUME RemoteInv, NEW c \in Calls, NEW v, NEW r, call' = [call EXCEPT ![c] = v],
           remote' = [remote EXCEPT ![c] = r],
           UNCHANGED <<traffic, staged>>, CallRow(v, r, staged)
    PROVE  RemoteInv'
<1>1. DOMAIN call' = Calls /\ call'[c] = v /\ \A d \in Calls \ {c} : call'[d] = call[d]
  BY DEF RemoteInv
<1>2. DOMAIN remote' = Calls /\ remote'[c] = r /\ \A d \in Calls \ {c} : remote'[d] = remote[d]
  BY DEF RemoteInv
<1> QED BY <1>1, <1>2, OneCall

\* What the assumption says of an input.
LEMMA InputFacts ==
    ASSUME NEW in \in AllInputs
    PROVE  /\ in.exec \in {"ssh", "ssm", "http", "apple"} /\ in.retries \in Nat
           /\ in.file # "" \/ in.verify => in.exec = "ssh" /\ in.verb \notin Curated
           /\ in.media => in.file # ""
BY TrafficAssumption DEF AllInputs

-----------------------------------------------------------------------------
(* Remote calls: the steps *)

\* The call goes on as the one it was.
Moves(x, v) == IsCall(v) /\ v.in = x.in /\ v.target = x.target /\ v.moved = x.moved

\* A call under way moves on to a later stage, or ends.
LEMMA MoveRow ==
    ASSUME NEW x, NEW v, NEW r, NEW s \in {"none", "running", "ok", "fail"}, NEW files,
           CallRow(x, r, files), Underway(x), Moves(x, v), v.streamed = x.streamed,
           v.pc \in {"wait", "status", "poll", "verify", "done"},
           (v.res # Nothing) <=> (v.pc = "done"),
           Streaming(x) \/ (v.pc = "done" /\ s = r),
           v.pc \in {"status", "verify"} => s = "ok",
           v.pc = "status" => x.in.verb = "restart_service",
           v.pc = "poll" => x.in.exec = "ssm",
           v.pc \in {"poll", "verify"} => v.tries > 0,
           Honest(v, s)
    PROVE  CallRow(v, s, files)
<1>1. \A i : Fits(v, i) <=> Fits(x, i)
  BY DEF Fits, Moves
<1>2. CallShape(v, s)
  BY DEF CallRow, CallShape, Moves, Underway
<1>3. Inspected(v, s, files)
  BY <1>1 DEF CallRow, CallShape, Inspected, Moves, Underway, Streaming
<1> QED BY <1>2, <1>3 DEF CallRow

\* What a call says while it has no answer.
LEMMA NoAnswer ==
    ASSUME NEW x, NEW r, x.res = Nothing
    PROVE  Honest(x, r)
BY TrafficAssumption DEF Honest

\* A call before it is made.
LEMMA NewCallType == IsCall(NewCall) /\ NewCall.pc = "new" /\ NewCall.res = Nothing
<1>1. PICK x : x = [pc |-> "new", in |-> Nothing, target |-> Nothing, tries |-> 0,
                    res |-> Nothing, lost |-> FALSE, seenUp |-> FALSE, streamed |-> "",
                    apart |-> FALSE, moved |-> FALSE]
  OBVIOUS
<1>2. IsCall(x) /\ x.pc = "new" /\ x.res = Nothing
  BY <1>1 DEF IsCall, CallPcs
<1> QED BY <1>1, <1>2 DEF NewCall

\* The calls of the start.
LEMMA RemoteInit == RemInit => RemoteInv
<1> SUFFICES ASSUME RemInit PROVE RemoteInv
  OBVIOUS
<1>1. ASSUME NEW c \in Calls PROVE CallRow(call[c], remote[c], staged)
  <2>1. call[c] = NewCall /\ remote[c] = "none"
    BY DEF RemInit
  <2>2. CallShape(NewCall, "none") /\ Inspected(NewCall, "none", staged)
    BY NewCallType DEF CallShape, Inspected, Underway, Streaming
  <2>3. Honest(NewCall, "none")
    BY NewCallType, NoAnswer
  <2> QED BY <2>1, <2>2, <2>3 DEF CallRow
<1> QED BY <1>1 DEF RemInit, RemoteInv

\* A call that begins is refused, or has passed its executor's gates.
LEMMA BeginStep ==
    ASSUME RemoteInv, NEW c \in Calls, BeginCall(c)
    PROVE  RemoteInv'
<1>1. remote[c] = "none" /\ UNCHANGED <<traffic, staged, remote>>
  BY DEF RemoteInv, BeginCall, CallRow, CallShape
<1>2. PICK in \in traffic.inputs : \E t, ok :
        /\ call' = [call EXCEPT ![c] =
                [NewCall EXCEPT !.in = in, !.target = t,
                    !.res = IF ok THEN Nothing ELSE "refused",
                    !.pc = IF ~ok THEN "done"
                           ELSE IF in.exec = "ssh" /\ in.file # ""
                                THEN IF in.media THEN "inspect" ELSE "open"
                           ELSE "send"]]
        /\ ok => Gated(in, t)
  <2>1. PICK in \in traffic.inputs :
        LET needs == in.exec # "apple"
            found == targetFile # Nothing /\ in.alias \in DOMAIN targetFile
            t == IF needs /\ found THEN targetFile[in.alias] ELSE Nothing
            ok == IF needs THEN found /\ Gated(in, t) ELSE Gated(in, t)
        IN  call' = [call EXCEPT ![c] =
                [NewCall EXCEPT !.in = in, !.target = t,
                    !.res = IF ok THEN Nothing ELSE "refused",
                    !.pc = IF ~ok THEN "done"
                           ELSE IF in.exec = "ssh" /\ in.file # ""
                                THEN IF in.media THEN "inspect" ELSE "open"
                           ELSE "send"]]
    BY DEF BeginCall
  <2> DEFINE found == targetFile # Nothing /\ in.alias \in DOMAIN targetFile
             t == IF in.exec # "apple" /\ found THEN targetFile[in.alias] ELSE Nothing
             ok == IF in.exec # "apple" THEN found /\ Gated(in, t) ELSE Gated(in, t)
  <2>2. ok => Gated(in, t)
    OBVIOUS
  <2> HIDE DEF ok, t
  <2> WITNESS in \in traffic.inputs
  <2> WITNESS t, ok
  <2> QED BY <2>1, <2>2 DEF ok, t, found
<1>3. PICK t, ok :
        /\ call' = [call EXCEPT ![c] =
                [NewCall EXCEPT !.in = in, !.target = t,
                    !.res = IF ok THEN Nothing ELSE "refused",
                    !.pc = IF ~ok THEN "done"
                           ELSE IF in.exec = "ssh" /\ in.file # ""
                                THEN IF in.media THEN "inspect" ELSE "open"
                           ELSE "send"]]
        /\ ok => Gated(in, t)
  BY <1>2
<1> DEFINE pc == IF ~ok THEN "done"
                 ELSE IF in.exec = "ssh" /\ in.file # ""
                      THEN IF in.media THEN "inspect" ELSE "open"
                 ELSE "send"
           res == IF ok THEN Nothing ELSE "refused"
           v == [NewCall EXCEPT !.in = in, !.target = t, !.res = res, !.pc = pc]
<1>4. in \in AllInputs
  BY DEF RemoteInv, AllInputs
<1>5. /\ pc \in CallPcs /\ res \in Outcomes \cup {Nothing}
      /\ (res # Nothing) <=> (pc = "done")
      /\ pc \in {"done", "inspect", "open", "send"} /\ (in.media => pc \in {"done", "inspect"})
      /\ pc # "done" => ok
  BY <1>4, InputFacts, TrafficAssumption DEF CallPcs, Outcomes
<1> HIDE DEF pc, res
<1>6. /\ IsCall(v) /\ v.pc = pc /\ v.in = in /\ v.target = t /\ v.res = res
  BY <1>5 DEF NewCall, IsCall
<1> HIDE DEF v
<1>7. CallShape(v, "none") /\ Inspected(v, "none", staged)
  BY <1>3, <1>4, <1>5, <1>6 DEF CallShape, Inspected, Underway, Streaming
<1>8. Honest(v, "none")
  BY <1>5, <1>6, TrafficAssumption DEF Honest, res
<1> QED BY <1>1, <1>3, <1>7, <1>8, CallSet DEF CallRow, v, pc, res

\* The facts about call c that its steps start from.
LEMMA RowOf ==
    ASSUME RemoteInv, NEW c \in Calls
    PROVE  /\ CallRow(call[c], remote[c], staged) /\ IsCall(call[c])
           /\ remote[c] \in {"none", "running", "ok", "fail"}
           /\ (call[c].res # Nothing) <=> (call[c].pc = "done")
BY DEF RemoteInv, CallRow, CallShape

\* A call that fails says so truly, whatever its command has come to.
LEMMA FailStep ==
    ASSUME RemoteInv, NEW c \in Calls, Underway(call[c]), UNCHANGED <<traffic, staged, remote>>,
           \/ /\ remote[c] \in {"none", "fail"}
              /\ call' = [call EXCEPT ![c] = Answer(c, "failed")]
           \/ call' = [call EXCEPT ![c] = [Answer(c, "failed") EXCEPT !.lost = TRUE]]
           \/ /\ remote[c] = "none"
              /\ call' = [call EXCEPT ![c] = Answer(c, "refused")]
    PROVE  RemoteInv'
<1>1. "done" \in CallPcs /\ "failed" \in Outcomes \cup {Nothing} /\ "failed" # Nothing
      /\ "refused" \in Outcomes \cup {Nothing} /\ "refused" # Nothing
  BY TrafficAssumption DEF CallPcs, Outcomes
<1>2. ASSUME NEW v, Moves(call[c], v), v.pc = "done", v.streamed = call[c].streamed,
             v.res # Nothing, Honest(v, remote[c]), call' = [call EXCEPT ![c] = v]
      PROVE  RemoteInv'
  <2>1. CallRow(v, remote[c], staged)
    BY <1>2, RowOf, MoveRow
  <2> QED BY <1>2, <2>1, CallSet
<1>3. CASE /\ remote[c] \in {"none", "fail"}
           /\ call' = [call EXCEPT ![c] = Answer(c, "failed")]
  <2> DEFINE v == [call[c] EXCEPT !.pc = "done", !.res = "failed"]
  <2>1. /\ Moves(call[c], v) /\ v.pc = "done" /\ v.res = "failed"
        /\ v.streamed = call[c].streamed
    BY <1>1, RowOf DEF IsCall, Moves
  <2>2. call' = [call EXCEPT ![c] = v]
    BY <1>3 DEF Answer
  <2> HIDE DEF v
  <2>3. Honest(v, remote[c])
    BY <1>3, <2>1 DEF Honest
  <2> QED BY <1>1, <1>2, <2>1, <2>2, <2>3
<1>4. CASE call' = [call EXCEPT ![c] = [Answer(c, "failed") EXCEPT !.lost = TRUE]]
  <2> DEFINE v == [[call[c] EXCEPT !.pc = "done", !.res = "failed"] EXCEPT !.lost = TRUE]
  <2>1. /\ Moves(call[c], v) /\ v.pc = "done" /\ v.res = "failed"
        /\ v.streamed = call[c].streamed /\ v.lost = TRUE
    BY <1>1, RowOf DEF IsCall, Moves
  <2>2. call' = [call EXCEPT ![c] = v]
    BY <1>4 DEF Answer
  <2> HIDE DEF v
  <2>3. Honest(v, remote[c])
    BY <2>1 DEF Honest
  <2> QED BY <1>1, <1>2, <2>1, <2>2, <2>3
<1>5. CASE /\ remote[c] = "none"
           /\ call' = [call EXCEPT ![c] = Answer(c, "refused")]
  <2> DEFINE v == [call[c] EXCEPT !.pc = "done", !.res = "refused"]
  <2>1. /\ Moves(call[c], v) /\ v.pc = "done" /\ v.res = "refused"
        /\ v.streamed = call[c].streamed
    BY <1>1, RowOf DEF IsCall, Moves
  <2>2. call' = [call EXCEPT ![c] = v]
    BY <1>5 DEF Answer
  <2> HIDE DEF v
  <2>3. Honest(v, remote[c])
    BY <1>5, <2>1 DEF Honest
  <2> QED BY <1>1, <1>2, <2>1, <2>2, <2>3
<1> QED BY <1>3, <1>4, <1>5

\* The artifact gate.
LEMMA InspectStep ==
    ASSUME RemoteInv, NEW c \in Calls, InspectArtifact(c)
    PROVE  RemoteInv'
<1> DEFINE x == call[c]
           image == staged[x.in.file]
           v == [x EXCEPT !.pc = "open"]
<1>1. /\ x.pc = "inspect" /\ Underway(x) /\ remote[c] = "none"
      /\ UNCHANGED <<traffic, staged, remote>>
  BY RowOf DEF InspectArtifact, CallRow, CallShape, Underway
<1>2. \/ call' = [call EXCEPT ![c] = Answer(c, "refused")]
      \/ /\ call' = [call EXCEPT ![c] = v]
         /\ image # "" /\ (Expected(c) # "" => image = Expected(c))
  BY DEF InspectArtifact, dockerImagePlatform
<1>3. CASE call' = [call EXCEPT ![c] = Answer(c, "refused")]
  BY <1>1, <1>3, FailStep
<1>4. CASE /\ call' = [call EXCEPT ![c] = v]
           /\ image # "" /\ (Expected(c) # "" => image = Expected(c))
  <2>1. Moves(x, v) /\ v.pc = "open" /\ v.res = x.res /\ v.streamed = x.streamed
    BY RowOf DEF IsCall, Moves, CallPcs
  <2>2. Fits(x, image)
    <3>1. image # "" /\ (Expected(c) # "" => image = Expected(c))
      BY <1>4
    <3>2. ASSUME NEW y PROVE Fits(x, y) <=> y # "" /\ Expected(c) \in {"", y}
      BY DEF Fits, Expected
    <3> HIDE DEF x, image
    <3> QED BY <3>1, <3>2
  <2>3. CallRow(x, "none", staged)
    BY <1>1, RowOf
  <2> HIDE DEF v, x, image
  <2>4. CallShape(v, "none")
    BY <1>1, <2>1, <2>3 DEF CallRow, CallShape, Moves, Underway
  <2>5. Inspected(v, "none", staged)
    <3>1. \A i : Fits(v, i) <=> Fits(x, i)
      BY <2>1 DEF Fits, Moves
    <3> QED BY <2>1, <2>2, <3>1 DEF Inspected, Moves, Streaming, image
  <2>6. Honest(v, "none")
    BY <1>1, <2>1, <2>3, NoAnswer DEF CallRow, CallShape
  <2> QED BY <1>1, <1>4, <2>4, <2>5, <2>6, CallSet DEF CallRow
<1> QED BY <1>2, <1>3, <1>4

\* The second open of the inspected path.
LEMMA OpenStep ==
    ASSUME RemoteInv, NEW c \in Calls, OpenArtifact(c)
    PROVE  RemoteInv'
<1> DEFINE x == call[c]
           v == [x EXCEPT !.pc = "send", !.streamed = staged[x.in.file]]
<1>1. /\ x.pc = "open" /\ Underway(x) /\ remote[c] = "none"
      /\ UNCHANGED <<traffic, staged, remote>>
  BY RowOf DEF OpenArtifact, CallRow, CallShape, Underway
<1>2. \/ call' = [call EXCEPT ![c] = Answer(c, "refused")]
      \/ call' = [call EXCEPT ![c] = v]
  BY DEF OpenArtifact
<1>3. CASE call' = [call EXCEPT ![c] = Answer(c, "refused")]
  BY <1>1, <1>3, FailStep
<1>4. CASE call' = [call EXCEPT ![c] = v]
  <2>1. Moves(x, v) /\ v.pc = "send" /\ v.res = x.res /\ v.streamed = staged[x.in.file]
    BY RowOf DEF IsCall, Moves, CallPcs
  <2>2. CallRow(x, "none", staged)
    BY <1>1, RowOf
  <2> HIDE DEF v, x
  <2>3. CallShape(v, "none")
    BY <1>1, <2>1, <2>2 DEF CallRow, CallShape, Moves, Underway
  <2>4. x.in.media => x.moved \/ Fits(x, staged[x.in.file])
    BY <1>1, <2>2 DEF CallRow, Inspected
  <2>5. Inspected(v, "none", staged)
    BY <2>1, <2>4 DEF Inspected, Moves, Streaming, Fits
  <2>6. Honest(v, "none")
    BY <1>1, <2>1, <2>2, NoAnswer DEF CallRow, CallShape
  <2> QED BY <1>1, <1>4, <2>3, <2>5, <2>6, CallSet DEF CallRow
<1> QED BY <1>2, <1>3, <1>4

\* The command is handed over, or the peer is out of reach.
LEMMA HandOverStep ==
    ASSUME RemoteInv, NEW c \in Calls, NEW exec, HandOver(c, exec)
    PROVE  RemoteInv'
<1> DEFINE x == call[c]
           v == [x EXCEPT !.pc = "wait"]
<1>1. /\ x.pc = "send" /\ Underway(x) /\ Streaming(x) /\ remote[c] = "none"
      /\ UNCHANGED <<traffic, staged>>
  BY RowOf DEF HandOver, CallRow, CallShape, Underway, Streaming
<1>2. \/ call' = [call EXCEPT ![c] = Answer(c, "failed")] /\ UNCHANGED remote
      \/ call' = [call EXCEPT ![c] = v] /\ remote' = [remote EXCEPT ![c] = "running"]
  BY DEF HandOver
<1>3. CASE call' = [call EXCEPT ![c] = Answer(c, "failed")] /\ UNCHANGED remote
  BY <1>1, <1>3, FailStep
<1>4. CASE call' = [call EXCEPT ![c] = v] /\ remote' = [remote EXCEPT ![c] = "running"]
  <2>1. Moves(x, v) /\ v.pc = "wait" /\ v.res = x.res /\ v.streamed = x.streamed
    BY RowOf DEF IsCall, Moves, CallPcs
  <2>2. CallRow(x, "none", staged) /\ x.res = Nothing
    BY <1>1, RowOf
  <2> HIDE DEF v, x
  <2>3. CallRow(v, "running", staged)
    BY <1>1, <2>1, <2>2, NoAnswer, MoveRow
  <2> QED BY <1>1, <1>4, <2>3, CallAndCommandSet
<1> QED BY <1>2, <1>3, <1>4

\* Systems Manager accepts the command, and may lose the answer.
LEMMA SsmSendStep ==
    ASSUME RemoteInv, NEW c \in Calls, ssmRunRemote(c)
    PROVE  RemoteInv'
<1> DEFINE x == call[c]
           v == [x EXCEPT !.pc = "poll", !.tries = MaxPolls]
           w == [[x EXCEPT !.pc = "done", !.res = "failed"] EXCEPT !.lost = TRUE]
<1>1. /\ x.pc = "send" /\ Underway(x) /\ Streaming(x) /\ remote[c] = "none"
      /\ x.in.exec = "ssm" /\ UNCHANGED <<traffic, staged>>
  BY RowOf DEF ssmRunRemote, CallRow, CallShape, Underway, Streaming
<1>2. \/ call' = [call EXCEPT ![c] = Answer(c, "failed")] /\ UNCHANGED remote
      \/ call' = [call EXCEPT ![c] = v] /\ remote' = [remote EXCEPT ![c] = "running"]
      \/ call' = [call EXCEPT ![c] = w] /\ remote' = [remote EXCEPT ![c] = "running"]
  BY DEF ssmRunRemote, Answer
<1>3. CallRow(x, "none", staged) /\ x.res = Nothing
  BY <1>1, RowOf
<1>4. CASE call' = [call EXCEPT ![c] = Answer(c, "failed")] /\ UNCHANGED remote
  BY <1>1, <1>4, FailStep
<1>5. CASE call' = [call EXCEPT ![c] = v] /\ remote' = [remote EXCEPT ![c] = "running"]
  <2>1. /\ Moves(x, v) /\ v.pc = "poll" /\ v.res = x.res /\ v.streamed = x.streamed
        /\ v.tries = MaxPolls
    <3>1. IsCall(x) /\ MaxPolls \in Nat
      BY RowOf, TrafficAssumption
    <3> HIDE DEF x
    <3> QED BY <3>1 DEF IsCall, Moves, CallPcs
  <2> HIDE DEF v, x
  <2>2. v.tries > 0
    <3>1. MaxPolls \in Nat \ {0}
      BY TrafficAssumption
    <3>2. MaxPolls > 0
      BY <3>1
    <3> QED BY <2>1, <3>2
  <2>3. CallRow(v, "running", staged)
    BY <1>1, <1>3, <2>1, <2>2, NoAnswer, MoveRow
  <2> QED BY <1>1, <1>5, <2>3, CallAndCommandSet
<1>6. CASE call' = [call EXCEPT ![c] = w] /\ remote' = [remote EXCEPT ![c] = "running"]
  <2>1. /\ Moves(x, w) /\ w.pc = "done" /\ w.res = "failed" /\ w.streamed = x.streamed
        /\ w.lost = TRUE
    BY RowOf DEF IsCall, Moves, CallPcs, Outcomes
  <2> HIDE DEF w, x
  <2>2. Honest(w, "running") /\ w.res # Nothing
    BY <2>1, TrafficAssumption DEF Honest
  <2>3. CallRow(w, "running", staged)
    BY <1>1, <1>3, <2>1, <2>2, MoveRow
  <2> QED BY <1>1, <1>6, <2>3, CallAndCommandSet
<1> QED BY <1>2, <1>4, <1>5, <1>6

\* The command ends, seen or unseen.
LEMMA EndsStep ==
    ASSUME RemoteInv, NEW c \in Calls, RemoteEnds(c) \/ serveSessionConn(c)
    PROVE  RemoteInv'
<1>1. remote[c] = "running" /\ UNCHANGED <<traffic, staged, call>>
  BY DEF RemoteEnds, serveSessionConn
<1>2. PICK end \in {"ok", "fail"} : remote' = [remote EXCEPT ![c] = end]
  BY DEF RemoteEnds, serveSessionConn
<1>3. CallRow(call[c], "running", staged)
  BY <1>1, RowOf
<1>4. CallRow(call[c], end, staged)
  <2>1. CallShape(call[c], end)
    BY <1>3 DEF CallRow, CallShape
  <2>2. Inspected(call[c], end, staged)
    BY <1>3 DEF CallRow, Inspected
  <2>3. Honest(call[c], end)
    BY <1>3 DEF CallRow, Honest
  <2> QED BY <2>1, <2>2, <2>3 DEF CallRow
<1>5. /\ DOMAIN call' = Calls /\ DOMAIN remote' = Calls /\ remote'[c] = end
      /\ call'[c] = call[c]
      /\ \A d \in Calls \ {c} : call'[d] = call[d] /\ remote'[d] = remote[d]
  BY <1>1, <1>2 DEF RemoteInv
<1> QED BY <1>1, <1>4, <1>5, OneCall

\* A call ends well: its command did, and a host to be verified was seen healthy.
LEMMA OkStep ==
    ASSUME RemoteInv, NEW c \in Calls, Underway(call[c]), Streaming(call[c]),
           UNCHANGED <<traffic, staged, remote>>, remote[c] = "ok",
           \/ /\ call' = [call EXCEPT ![c] = Answer(c, "ok")]
              /\ ~(call[c].in.exec = "ssh" /\ call[c].in.verify)
           \/ call' = [call EXCEPT ![c] = Answer(c, "unhealthy")]
           \/ call' = [call EXCEPT ![c] = [Answer(c, "ok") EXCEPT !.seenUp = TRUE]]
    PROVE  RemoteInv'
<1> DEFINE x == call[c]
<1>1. "done" \in CallPcs /\ "ok" \in Outcomes \cup {Nothing} /\ "ok" # Nothing
      /\ "unhealthy" \in Outcomes \cup {Nothing} /\ "unhealthy" # Nothing
  BY TrafficAssumption DEF CallPcs, Outcomes
<1>2. ASSUME NEW v, Moves(call[c], v), v.pc = "done", v.streamed = call[c].streamed,
             v.res # Nothing, Honest(v, remote[c]), call' = [call EXCEPT ![c] = v]
      PROVE  RemoteInv'
  <2>1. CallRow(v, remote[c], staged)
    BY <1>2, RowOf, MoveRow
  <2> QED BY <1>2, <2>1, CallSet
<1>3. CASE /\ call' = [call EXCEPT ![c] = Answer(c, "ok")]
           /\ ~(call[c].in.exec = "ssh" /\ call[c].in.verify)
  <2> DEFINE v == [x EXCEPT !.pc = "done", !.res = "ok"]
  <2>1. Moves(x, v) /\ v.pc = "done" /\ v.res = "ok" /\ v.streamed = x.streamed
    BY <1>1, RowOf DEF IsCall, Moves
  <2>2. call' = [call EXCEPT ![c] = v]
    BY <1>3 DEF Answer
  <2> HIDE DEF v
  <2>3. Honest(v, remote[c])
    BY <1>3, <2>1 DEF Honest, Moves
  <2> QED BY <1>1, <1>2, <2>1, <2>2, <2>3
<1>4. CASE call' = [call EXCEPT ![c] = Answer(c, "unhealthy")]
  <2> DEFINE v == [x EXCEPT !.pc = "done", !.res = "unhealthy"]
  <2>1. Moves(x, v) /\ v.pc = "done" /\ v.res = "unhealthy" /\ v.streamed = x.streamed
    BY <1>1, RowOf DEF IsCall, Moves
  <2>2. call' = [call EXCEPT ![c] = v]
    BY <1>4 DEF Answer
  <2> HIDE DEF v
  <2>3. Honest(v, remote[c])
    BY <2>1 DEF Honest
  <2> QED BY <1>1, <1>2, <2>1, <2>2, <2>3
<1>5. CASE call' = [call EXCEPT ![c] = [Answer(c, "ok") EXCEPT !.seenUp = TRUE]]
  <2> DEFINE v == [[x EXCEPT !.pc = "done", !.res = "ok"] EXCEPT !.seenUp = TRUE]
  <2>1. /\ Moves(x, v) /\ v.pc = "done" /\ v.res = "ok" /\ v.streamed = x.streamed
        /\ v.seenUp = TRUE
    BY <1>1, RowOf DEF IsCall, Moves
  <2>2. call' = [call EXCEPT ![c] = v]
    BY <1>5 DEF Answer
  <2> HIDE DEF v
  <2>3. Honest(v, remote[c])
    BY <2>1 DEF Honest
  <2> QED BY <1>1, <1>2, <2>1, <2>2, <2>3
<1> QED BY <1>3, <1>4, <1>5

\* A call that is neither answered nor given up goes on.
LEMMA GoOnStep ==
    ASSUME RemoteInv, NEW c \in Calls, Streaming(call[c]), UNCHANGED <<traffic, staged, remote>>,
           NEW v, Moves(call[c], v), v.res = call[c].res, v.streamed = call[c].streamed,
           v.pc \in {"status", "verify", "poll"},
           call' = [call EXCEPT ![c] = v],
           v.pc \in {"status", "verify"} => remote[c] = "ok",
           v.pc = "status" => call[c].in.verb = "restart_service",
           v.pc = "poll" => call[c].in.exec = "ssm",
           v.pc \in {"poll", "verify"} => v.tries > 0
    PROVE  RemoteInv'
<1>1. call[c].res = Nothing /\ Underway(call[c]) /\ v.pc # "done"
  BY RowOf DEF Streaming, Underway
<1>2. Honest(v, remote[c])
  BY <1>1, NoAnswer
<1>3. CallRow(v, remote[c], staged)
  BY <1>1, <1>2, RowOf, MoveRow
<1> QED BY <1>3, CallSet

\* The daemon has the answer of the command, or gives up on it.
LEMMA AnsweredStep ==
    ASSUME RemoteInv, NEW c \in Calls, CommandAnswered(c) \/ AnswerLost(c) \/ restartService(c)
    PROVE  RemoteInv'
<1> DEFINE x == call[c]
<1>1. UNCHANGED <<traffic, staged, remote>> /\ x.pc \in {"wait", "status"}
  BY DEF CommandAnswered, AnswerLost, restartService
<1>2. Underway(x) /\ Streaming(x) /\ x.in \in AllInputs
  BY <1>1, RowOf DEF Underway, Streaming, CallRow, CallShape
<1>3. CASE AnswerLost(c)
  BY <1>1, <1>2, <1>3, FailStep DEF AnswerLost
<1>4. CASE restartService(c)
  <2>1. x.pc = "status"
    BY <1>4 DEF restartService
  <2>2. remote[c] = "ok" /\ x.in.verb = "restart_service"
    BY <2>1, RowOf DEF CallRow, CallShape
  <2>3. ~x.in.verify
    BY <1>2, <2>2, InputFacts DEF Curated
  <2>4. \/ call' = [call EXCEPT ![c] = Answer(c, "ok")]
        \/ call' = [call EXCEPT ![c] = [Answer(c, "failed") EXCEPT !.lost = TRUE]]
    BY <1>4 DEF restartService
  <2>5. CASE call' = [call EXCEPT ![c] = Answer(c, "ok")]
    BY <1>1, <1>2, <2>2, <2>3, <2>5, OkStep
  <2>6. CASE call' = [call EXCEPT ![c] = [Answer(c, "failed") EXCEPT !.lost = TRUE]]
    BY <1>1, <1>2, <2>6, FailStep
  <2> QED BY <2>4, <2>5, <2>6
<1>5. CASE CommandAnswered(c)
  <2>1. remote[c] \in {"ok", "fail"}
    BY <1>5 DEF CommandAnswered
  <2>2. \/ call' = [call EXCEPT ![c] = [Answer(c, "failed") EXCEPT !.lost = TRUE]]
        \/ call' = [call EXCEPT ![c] = AfterCommand(c, remote[c])]
    BY <1>5 DEF CommandAnswered
  <2>3. CASE call' = [call EXCEPT ![c] = [Answer(c, "failed") EXCEPT !.lost = TRUE]]
    BY <1>1, <1>2, <2>3, FailStep
  <2>4. CASE call' = [call EXCEPT ![c] = AfterCommand(c, remote[c])]
    <3>1. CASE remote[c] = "fail"
      <4>1. AfterCommand(c, remote[c]) = Answer(c, "failed")
        BY <3>1 DEF AfterCommand
      <4>2. call' = [call EXCEPT ![c] = Answer(c, "failed")]
        BY <2>4, <4>1
      <4> QED BY <1>1, <1>2, <3>1, <4>2, FailStep
    <3>2. CASE remote[c] = "ok" /\ x.in.verb = "restart_service"
      <4> DEFINE v == [x EXCEPT !.pc = "status"]
      <4>1. Moves(x, v) /\ v.pc = "status" /\ v.res = x.res /\ v.streamed = x.streamed
        BY RowOf DEF IsCall, Moves, CallPcs
      <4>2. call' = [call EXCEPT ![c] = v]
        BY <2>4, <3>2 DEF AfterCommand
      <4> HIDE DEF v
      <4> QED BY <1>1, <1>2, <3>2, <4>1, <4>2, GoOnStep
    <3>3. CASE /\ remote[c] = "ok" /\ x.in.verb # "restart_service"
               /\ x.in.exec = "ssh" /\ x.in.verify
      <4> DEFINE v == [x EXCEPT !.pc = "verify", !.tries = x.in.retries + 1]
      <4>1. x.in.retries + 1 \in Nat /\ x.in.retries + 1 > 0
        <5>1. \A in \in AllInputs : in.retries \in Nat
          BY InputFacts
        <5>2. x.in.retries \in Nat
          BY <1>2, <5>1
        <5> QED BY <5>2
      <4>2. /\ Moves(x, v) /\ v.pc = "verify" /\ v.res = x.res /\ v.streamed = x.streamed
            /\ v.tries > 0
        BY <4>1, RowOf DEF IsCall, Moves, CallPcs
      <4>3. call' = [call EXCEPT ![c] = v]
        BY <2>4, <3>3 DEF AfterCommand
      <4> HIDE DEF v
      <4> QED BY <1>1, <1>2, <3>3, <4>2, <4>3, GoOnStep
    <3>4. CASE /\ remote[c] = "ok" /\ x.in.verb # "restart_service"
               /\ ~(x.in.exec = "ssh" /\ x.in.verify)
      <4>1. call' = [call EXCEPT ![c] = Answer(c, "ok")]
        BY <2>4, <3>4 DEF AfterCommand
      <4> QED BY <1>1, <1>2, <3>4, <4>1, OkStep
    <3> QED BY <2>1, <3>1, <3>2, <3>3, <3>4
  <2> QED BY <2>2, <2>3, <2>4
<1> QED BY <1>3, <1>4, <1>5

\* One poll of Systems Manager.
LEMMA PollStep ==
    ASSUME RemoteInv, NEW c \in Calls, pollInvocation(c)
    PROVE  RemoteInv'
<1> DEFINE x == call[c]
           v == [x EXCEPT !.tries = x.tries - 1]
<1>1. UNCHANGED <<traffic, staged, remote>> /\ x.pc = "poll"
  BY DEF pollInvocation
<1>2. /\ Underway(x) /\ Streaming(x) /\ x.in \in AllInputs /\ x.in.exec = "ssm"
      /\ remote[c] \in {"none", "running", "ok", "fail"}
  BY <1>1, RowOf DEF Underway, Streaming, CallRow, CallShape
<1>3. \/ call' = [call EXCEPT ![c] = [Answer(c, "failed") EXCEPT !.lost = TRUE]]
      \/ remote[c] = "ok" /\ call' = [call EXCEPT ![c] = Answer(c, "ok")]
      \/ remote[c] = "fail" /\ call' = [call EXCEPT ![c] = Answer(c, "failed")]
      \/ x.tries # 1 /\ call' = [call EXCEPT ![c] = v]
  BY <1>2 DEF pollInvocation
<1>4. CASE call' = [call EXCEPT ![c] = [Answer(c, "failed") EXCEPT !.lost = TRUE]]
  BY <1>1, <1>2, <1>4, FailStep
<1>5. CASE remote[c] = "ok" /\ call' = [call EXCEPT ![c] = Answer(c, "ok")]
  BY <1>1, <1>2, <1>5, OkStep
<1>6. CASE remote[c] = "fail" /\ call' = [call EXCEPT ![c] = Answer(c, "failed")]
  BY <1>1, <1>2, <1>6, FailStep
<1>7. CASE x.tries # 1 /\ call' = [call EXCEPT ![c] = v]
  <2>1. x.tries \in Nat /\ x.tries > 0
    BY <1>1, RowOf DEF IsCall, CallRow, CallShape
  <2>2. x.tries - 1 \in Nat /\ x.tries - 1 > 0
    BY <1>7, <2>1
  <2>3. /\ Moves(x, v) /\ v.pc = x.pc /\ v.res = x.res /\ v.streamed = x.streamed
        /\ v.tries = x.tries - 1
    BY <2>2, RowOf DEF IsCall, Moves
  <2> HIDE DEF v
  <2> QED BY <1>1, <1>2, <1>7, <2>2, <2>3, GoOnStep
<1> QED BY <1>3, <1>4, <1>5, <1>6, <1>7

\* One attempt of the verify command.
LEMMA VerifyStep ==
    ASSUME RemoteInv, NEW c \in Calls, VerifyHost(c)
    PROVE  RemoteInv'
<1> DEFINE x == call[c]
           v == [x EXCEPT !.tries = x.tries - 1]
<1>1. UNCHANGED <<traffic, staged, remote>> /\ x.pc = "verify"
  BY DEF VerifyHost
<1>2. Underway(x) /\ Streaming(x) /\ remote[c] = "ok"
  BY <1>1, RowOf DEF Underway, Streaming, CallRow, CallShape
<1>3. \/ call' = [call EXCEPT ![c] = [Answer(c, "ok") EXCEPT !.seenUp = TRUE]]
      \/ call' = [call EXCEPT ![c] = Answer(c, "unhealthy")]
      \/ x.tries # 1 /\ call' = [call EXCEPT ![c] = v]
  BY DEF VerifyHost
<1>4. CASE call' = [call EXCEPT ![c] = [Answer(c, "ok") EXCEPT !.seenUp = TRUE]]
  BY <1>1, <1>2, <1>4, OkStep
<1>5. CASE call' = [call EXCEPT ![c] = Answer(c, "unhealthy")]
  BY <1>1, <1>2, <1>5, OkStep
<1>6. CASE x.tries # 1 /\ call' = [call EXCEPT ![c] = v]
  <2>1. x.tries \in Nat /\ x.tries > 0
    BY <1>1, RowOf DEF IsCall, CallRow, CallShape
  <2>2. x.tries - 1 \in Nat /\ x.tries - 1 > 0
    BY <1>6, <2>1
  <2>3. /\ Moves(x, v) /\ v.pc = x.pc /\ v.res = x.res /\ v.streamed = x.streamed
        /\ v.tries = x.tries - 1
    BY <2>2, RowOf DEF IsCall, Moves
  <2> HIDE DEF v
  <2> QED BY <1>1, <1>2, <1>6, <2>2, <2>3, GoOnStep
<1> QED BY <1>3, <1>4, <1>5, <1>6

\* A call that its file's change has marked.
LEMMA MarkedRow ==
    ASSUME RemoteInv, NEW c \in Calls, NEW v, NEW files, IsCall(v),
           v.pc = call[c].pc, v.in = call[c].in, v.target = call[c].target,
           v.res = call[c].res, v.seenUp = call[c].seenUp, v.lost = call[c].lost,
           v.tries = call[c].tries, v.moved = TRUE
    PROVE  CallRow(v, remote[c], files)
<1>1. CallShape(v, remote[c])
  BY RowOf DEF CallRow, CallShape, Underway
<1>2. Inspected(v, remote[c], files)
  BY DEF Inspected
<1>3. Honest(v, remote[c])
  BY RowOf DEF CallRow, Honest
<1> QED BY <1>1, <1>2, <1>3 DEF CallRow

\* A call that does not look at the file before it is open.
LEMMA UnmarkedRow ==
    ASSUME RemoteInv, NEW c \in Calls, NEW v, NEW f, NEW p, IsCall(v),
           staged' = [staged EXCEPT ![f] = p], ~Inspects(c, f),
           v.pc = call[c].pc, v.in = call[c].in, v.target = call[c].target,
           v.res = call[c].res, v.seenUp = call[c].seenUp, v.lost = call[c].lost,
           v.tries = call[c].tries, v.moved = call[c].moved, v.streamed = call[c].streamed
    PROVE  CallRow(v, remote[c], staged')
<1>1. CallShape(v, remote[c])
  BY RowOf DEF CallRow, CallShape, Underway
<1>2. v.pc = "open" => staged'[v.in.file] = staged[v.in.file]
  BY DEF Inspects
<1>3. \A i : Fits(v, i) <=> Fits(call[c], i)
  BY DEF Fits
<1>4. Inspected(v, remote[c], staged')
  BY <1>2, <1>3, RowOf DEF CallRow, Inspected, Streaming
<1>5. Honest(v, remote[c])
  BY RowOf DEF CallRow, Honest
<1> QED BY <1>1, <1>4, <1>5 DEF CallRow

\* A staged file is changed: a call between inspection and open is marked, and
\* one whose open file is written over.
LEMMA StagingStep ==
    ASSUME RemoteInv, NEW f \in Artifacts, NEW p \in Platforms,
           Restage(f, p) \/ Rewrite(f, p)
    PROVE  RemoteInv'
<1>1. UNCHANGED <<traffic, remote>> /\ staged' = [staged EXCEPT ![f] = p] /\ DOMAIN call' = Calls
  BY DEF Restage, Rewrite, Staging
<1>2. ASSUME NEW c \in Calls PROVE CallRow(call'[c], remote'[c], staged')
  <2> DEFINE x == call[c]
             marked == [x EXCEPT !.moved = TRUE]
             kept == [x EXCEPT !.apart = TRUE]
             mixed == [x EXCEPT !.moved = TRUE, !.streamed = p]
  <2>1. remote'[c] = remote[c] /\ IsCall(x)
    BY <1>1, RowOf DEF CallRow, CallShape
  <2>2. CASE Inspects(c, f)
    <3>1. call'[c] = marked
      BY <2>2 DEF Restage, Rewrite
    <3>2. /\ IsCall(marked) /\ marked.pc = x.pc /\ marked.in = x.in /\ marked.target = x.target
          /\ marked.res = x.res /\ marked.seenUp = x.seenUp /\ marked.lost = x.lost
          /\ marked.tries = x.tries /\ marked.moved = TRUE
      BY <2>1 DEF IsCall
    <3> HIDE DEF marked
    <3> QED BY <2>1, <3>1, <3>2, MarkedRow
  <2>3. CASE ~Inspects(c, f) /\ Restage(f, p)
    <3>1. call'[c] \in {x, kept}
      BY <2>3 DEF Restage
    <3>2. /\ IsCall(kept) /\ kept.pc = x.pc /\ kept.in = x.in /\ kept.target = x.target
          /\ kept.res = x.res /\ kept.seenUp = x.seenUp /\ kept.lost = x.lost
          /\ kept.tries = x.tries /\ kept.moved = x.moved /\ kept.streamed = x.streamed
      BY <2>1 DEF IsCall
    <3> HIDE DEF kept
    <3> QED BY <1>1, <2>1, <2>3, <3>1, <3>2, UnmarkedRow
  <2>4. CASE ~Inspects(c, f) /\ Rewrite(f, p)
    <3>1. call'[c] \in {x, mixed}
      BY <2>4 DEF Rewrite
    <3>2. /\ IsCall(mixed) /\ mixed.pc = x.pc /\ mixed.in = x.in /\ mixed.target = x.target
          /\ mixed.res = x.res /\ mixed.seenUp = x.seenUp /\ mixed.lost = x.lost
          /\ mixed.tries = x.tries /\ mixed.moved = TRUE
      BY <2>1 DEF IsCall
    <3> HIDE DEF mixed
    <3>3. CASE call'[c] = mixed
      BY <2>1, <3>2, <3>3, MarkedRow
    <3>4. CASE call'[c] = x
      BY <1>1, <2>1, <2>4, <3>4, UnmarkedRow
    <3> QED BY <3>1, <3>3, <3>4
  <2> QED BY <2>2, <2>3, <2>4
<1> QED BY <1>1, <1>2 DEF RemoteInv

\* A call that a bypass inspection takes up hands nothing over.
LEMMA ProbedStep ==
    ASSUME RemoteInv, NEW c \in Calls, NEW a,
           InspectBypass(c, a) \/ ProbeBypass(c, a)
    PROVE  RemoteInv'
<1> DEFINE v == [NewCall EXCEPT !.pc = "probed"]
<1>1. /\ call[c].pc = "new" /\ UNCHANGED <<traffic, staged, remote>>
      /\ call' = [call EXCEPT ![c] = v]
  BY DEF InspectBypass, ProbeBypass
<1>2. remote[c] = "none"
  BY <1>1, RowOf DEF CallRow, CallShape
<1>3. IsCall(v) /\ v.pc = "probed" /\ v.res = Nothing
  BY NewCallType DEF IsCall, CallPcs
<1> HIDE DEF v
<1>4. CallShape(v, "none") /\ Inspected(v, "none", staged) /\ Honest(v, "none")
  BY <1>3, NoAnswer DEF CallShape, Inspected, Underway, Streaming
<1> QED BY <1>1, <1>2, <1>4, CallSet DEF CallRow

\* Whatever leaves calls, commands and staged files alone.
LEMMA RemoteStutter ==
    ASSUME RemoteInv, UNCHANGED <<traffic, staged, call, remote>>
    PROVE  RemoteInv'
BY DEF RemoteInv

\* Every step of the remote executors keeps the invariant.
LEMMA RemoteStep ==
    ASSUME RemoteInv, RemNext
    PROVE  RemoteInv'
<1>1. ASSUME NEW c \in Calls, BrokerStep(c) PROVE RemoteInv'
  BY <1>1, BeginStep, InspectStep, OpenStep, HandOverStep, SsmSendStep, AnsweredStep, PollStep,
     VerifyStep DEF BrokerStep, sshRunRemote, httpDo, ForwarderRun
<1>2. ASSUME NEW c \in Calls, RemoteEnds(c) \/ serveSessionConn(c) \/ AnswerLost(c)
      PROVE  RemoteInv'
  BY <1>2, EndsStep, AnsweredStep
<1>3. ASSUME NEW a \in DOMAIN Hosts, HostSettles(a) PROVE RemoteInv'
  BY <1>3, RemoteStutter DEF HostSettles
<1>4. ASSUME SaveTargets PROVE RemoteInv'
  BY <1>4, RemoteStutter DEF SaveTargets
<1> QED BY <1>1, <1>2, <1>3, <1>4, ProbedStep, StagingStep DEF RemNext

-----------------------------------------------------------------------------
(* Remote calls: what follows *)

\* A call that has a command passed the gates of its executor.
LEMMA GatedIsCustodied ==
    ASSUME RemoteInv
    PROVE  OnlyCustodiedKeys
<1> SUFFICES ASSUME NEW c \in Calls, remote[c] # "none", call[c].in.exec = "ssh"
             PROVE  LET k == KeyFiles[call[c].target.key] IN
                    /\ k.state # "unset" => ~k.underHome
                    /\ k.state = "file" => ~k.open /\ k.owner = "root"
                    /\ \A p \in call[c].in.params :
                        p.constraint \in {"service", "path"} =>
                            p.value \in call[c].target.services \cup call[c].target.paths
  BY DEF OnlyCustodiedKeys
<1> DEFINE in == call[c].in
           t == call[c].target
           k == KeyFiles[t.key]
<1>1. KeyInCustody(t) /\ sshRunAction(t, in)
  BY RowOf DEF CallRow, CallShape, Gated
<1> HIDE DEF in, t
<1>2. k.state # "unset" => ~k.underHome
  BY <1>1 DEF KeyInCustody, AuditKeyProtection, AgentAccessible
<1>3. k.state = "file" => ~k.open /\ k.owner = "root"
  BY <1>1 DEF KeyInCustody, AuditKeyProtection, AgentAccessible
<1>4. ASSUME NEW p \in in.params, p.constraint \in {"service", "path"}
      PROVE  p.value \in t.services \cup t.paths
  BY <1>1, <1>4 DEF sshRunAction, ParamsAllowed, requireAllowedService, requireAllowedPath
<1> QED BY <1>2, <1>3, <1>4 DEF in, t

\* What a host was sent came from an inspected file.
LEMMA InspectedIsStreamed ==
    ASSUME RemoteInv
    PROVE  StreamedIsInspected
BY RowOf DEF StreamedIsInspected, CallRow, Inspected, Fits, Expected

\* The remote part of a step of Executors.
LEMMA RemotePart == RemoteInv /\ [Next]_vars => RemoteInv'
<1> SUFFICES ASSUME RemoteInv, [Next]_vars PROVE RemoteInv'
  OBVIOUS
<1>1. CASE Next
  <2>1. CASE RemNext
    BY <2>1, RemoteStep
  <2>2. CASE UNCHANGED remVars
    BY <2>2, RemoteStutter DEF remVars
  <2> QED BY <1>1, <2>1, <2>2 DEF Next
<1>2. CASE UNCHANGED vars
  BY <1>2, RemoteStutter DEF vars, remVars
<1> QED BY <1>1, <1>2

\* Everything that reached a host came over a key in custody, named what the
\* target lists, and carried the file that was inspected, unless another took
\* its path before the open or it was written over before the command ended:
\* for any calls, targets and keys (sshexec.Run, runCommandAction).
THEOREM HostsGated == Spec => []RemoteGated
<1>1. Init => RemoteInv
  BY RemoteInit DEF Init
<1>2. RemoteInv => RemoteGated
  BY GatedIsCustodied, InspectedIsStreamed DEF RemoteGated
<1> QED BY <1>1, <1>2, RemotePart, PTL DEF Spec

-----------------------------------------------------------------------------
(* The bypass verdicts *)

ClearRow(v) ==
    \A k \in DOMAIN v.out :
        (v.out[k] = "clear" /\ Accepts(Hosts[v.host], k)) =>
            LET h == Hosts[v.host]
            IN  IF v.live THEN k \in v.elsewhere
                ELSE ~h.readable \/ (h.standard /\ k \in h.relocated)

VerdictInv == DOMAIN verdict = Calls /\ \A c \in Calls : ClearRow(verdict[c])

\* A verdict that is set says clear only of a key that is, or for the reasons
\* that the code has.
LEMMA VerdictStep == VerdictInv /\ [Next]_vars => VerdictInv'
<1> SUFFICES ASSUME VerdictInv, [Next]_vars PROVE VerdictInv'
  OBVIOUS
<1>1. ASSUME NEW c \in Calls, NEW v, verdict' = [verdict EXCEPT ![c] = v], ClearRow(v)
      PROVE  VerdictInv'
  BY <1>1 DEF VerdictInv
<1>2. ASSUME NEW c \in Calls, NEW a, InspectBypass(c, a) PROVE VerdictInv'
  <2>1. PICK out \in {[k \in UserKeys |-> VerdictFor(parseAuthorizedKeys(Hosts[a]), k)],
                      [k \in {"broker_key_rejected"} |-> k],
                      [k \in UserKeys |-> "unknown"]} :
            verdict' = [verdict EXCEPT ![c] =
                [host |-> a, live |-> FALSE, elsewhere |-> {}, out |-> out]]
    BY <1>2 DEF InspectBypass
  <2>2. ASSUME NEW k \in DOMAIN out, out[k] = "clear", Accepts(Hosts[a], k)
        PROVE  ~Hosts[a].readable \/ (Hosts[a].standard /\ k \in Hosts[a].relocated)
    <3>1. CASE out = [i \in UserKeys |-> VerdictFor(parseAuthorizedKeys(Hosts[a]), i)]
      <4>1. k \in UserKeys /\ VerdictFor(parseAuthorizedKeys(Hosts[a]), k) = "clear"
        BY <2>2, <3>1
      <4>2. /\ k \notin Hosts[a].listed
            /\ ~(Hosts[a].readable
                 /\ (Hosts[a].ca # {} \/ (Hosts[a].relocated # {} /\ ~Hosts[a].standard)))
        BY <4>1 DEF VerdictFor, parseAuthorizedKeys
      <4> QED BY <2>2, <4>2 DEF Accepts
    <3>2. CASE out = [i \in {"broker_key_rejected"} |-> i]
      BY <2>2, <3>2
    <3>3. CASE out = [i \in UserKeys |-> "unknown"]
      BY <2>2, <3>3
    <3> QED BY <2>1, <3>1, <3>2, <3>3
  <2>3. PICK v : v = [host |-> a, live |-> FALSE, elsewhere |-> {}, out |-> out]
    OBVIOUS
  <2>4. v.host = a /\ v.live = FALSE /\ v.out = out
    BY <2>3
  <2>5. ClearRow(v)
    BY <2>2, <2>4 DEF ClearRow
  <2> QED BY <1>1, <2>1, <2>3, <2>5
<1>3. ASSUME NEW c \in Calls, NEW a, ProbeBypass(c, a) PROVE VerdictInv'
  <2> DEFINE others(attempt) == {k \in UserKeys : attempt[k] = "denied"}
  <2>1. PICK attempt \in [UserKeys -> Attempts] :
            verdict' = [verdict EXCEPT ![c] =
                [host |-> a, live |-> TRUE, elsewhere |-> others(attempt),
                 out |-> [k \in UserKeys |-> classifyBypass(Hosts[a], k, attempt[k])]]]
    BY <1>3 DEF ProbeBypass
  <2>2. PICK v : v = [host |-> a, live |-> TRUE, elsewhere |-> others(attempt),
                 out |-> [k \in UserKeys |-> classifyBypass(Hosts[a], k, attempt[k])]]
    OBVIOUS
  <2>3. /\ v.host = a /\ v.live /\ v.elsewhere = others(attempt) /\ DOMAIN v.out = UserKeys
        /\ \A k \in UserKeys : v.out[k] = classifyBypass(Hosts[a], k, attempt[k])
    BY <2>2
  <2>4. ASSUME NEW k \in UserKeys, v.out[k] = "clear", Accepts(Hosts[a], k)
        PROVE  k \in v.elsewhere
    BY <2>1, <2>3, <2>4 DEF classifyBypass, Attempts
  <2>5. ClearRow(v)
    BY <2>3, <2>4 DEF ClearRow
  <2> QED BY <1>1, <2>1, <2>2, <2>5
<1>4. ASSUME UNCHANGED verdict PROVE VerdictInv'
  BY <1>4 DEF VerdictInv
<1>5. ASSUME NEW c \in Calls, BrokerStep(c) PROVE UNCHANGED verdict
  BY <1>5 DEF BrokerStep, BeginCall, InspectArtifact, OpenArtifact, sshRunRemote, httpDo,
     ForwarderRun, HandOver, ssmRunRemote, CommandAnswered, restartService, pollInvocation,
     VerifyHost
<1>6. CASE RemNext
  BY <1>2, <1>3, <1>4, <1>5, <1>6
     DEF RemNext, RemoteEnds, serveSessionConn, AnswerLost, HostSettles, Restage, Rewrite,
         Staging, SaveTargets
<1> QED BY <1>4, <1>6 DEF Next, vars, remVars

-----------------------------------------------------------------------------
(* Installs: the inductive invariant *)

IsJob(x) ==
    x \in [pc : {"new", "running", "done"}, req : {x.req}, cfg : {x.cfg}, todo : {x.todo},
           res : {"ok", "failed", "refused", None}, held : {x.held}, swapped : BOOLEAN,
           alone : BOOLEAN, rmFailed : BOOLEAN, left : {x.left}]

\* A request that places a bundle or a link to one.
Places(q) == q.verb = "manage_apps" /\ q.op \in {"install", "symlink"}

ClearOld(q, dir) ==
    [kind |-> IF q.op = "install" THEN "rm-rf" ELSE "rm-f", arg |-> <<dir, q.name>>,
     sudo |-> FALSE, tolerated |-> TRUE]
PutNew(q, dir) ==
    [kind |-> IF q.op = "install" THEN "ditto" ELSE "ln", arg |-> <<q.source, dir, q.name>>,
     sudo |-> FALSE, tolerated |-> FALSE]
VerifySource(q) == Step("verify", <<q.source>>)
ReadTeam(q) == Step("team", <<q.source, "appteams">>)

\* What it may still have to do.
Remaining(q, dir) ==
    {<<VerifySource(q), ReadTeam(q), ClearOld(q, dir), PutNew(q, dir)>>,
     <<ReadTeam(q), ClearOld(q, dir), PutNew(q, dir)>>,
     <<ClearOld(q, dir), PutNew(q, dir)>>,
     <<PutNew(q, dir)>>}

\* On its way: once the old is removed, nothing is there.
PlacingRow(x, inst) ==
    \E dir \in ToSet(DirOrder) :
        /\ x.req.source \in Paths /\ x.req.name \in AppNames
        /\ x.todo \in Remaining(x.req, dir)
        /\ (x.todo = <<PutNew(x.req, dir)>> /\ x.alone /\ ~x.rmFailed)
                => inst[<<dir, x.req.name>>] = {}

\* At its end: exactly the new is there.
PlacedRow(x) ==
    (x.res = "ok" /\ x.req.verb = "manage_apps" /\ x.alone /\ ~x.rmFailed) =>
        /\ x.req.op = "install" => \E c \in Contents : x.left = {c}
        /\ x.req.op = "symlink" => x.left = {"link"}

JobRow(x, inst) ==
    /\ IsJob(x)
    /\ x.pc # "done" => x.res = None
    /\ x.pc = "running" /\ Places(x.req) => PlacingRow(x, inst)
    /\ PlacedRow(x)

\* Of two requests that run at once neither is alone.
SystemInv ==
    /\ DOMAIN job = Jobs /\ mix \in Mixes
    /\ cmdFile \in InitCmds \cup NewCmds \cup {Torn}
    /\ content \in [Paths -> Contents]
    /\ DOMAIN installed = ToSet(DirOrder) \X AppNames
    /\ \A j \in Jobs : JobRow(job[j], installed)
    /\ \A j, k \in Jobs :
        (j # k /\ job[j].pc = "running" /\ job[k].pc = "running") => ~job[j].alone

-----------------------------------------------------------------------------
(* Installs: the steps *)

\* While a request runs, no other that runs is alone: what lies on disk is no
\* concern of theirs.
LEMMA OtherJobs ==
    ASSUME SystemInv, NEW j \in Jobs, job[j].pc = "running", NEW k \in Jobs, k # j, NEW inst
    PROVE  JobRow(job[k], inst)
<1>1. JobRow(job[k], installed) /\ (job[k].pc = "running" => ~job[k].alone)
  BY DEF SystemInv
<1>2. job[k].pc = "running" /\ Places(job[k].req) => PlacingRow(job[k], inst)
  BY <1>1 DEF JobRow, PlacingRow
<1> QED BY <1>1, <1>2 DEF JobRow

\* The effect of a step of one request.
LEMMA JobSet ==
    ASSUME SystemInv, NEW j \in Jobs, NEW v, job[j].pc = "running",
           job' = [job EXCEPT ![j] = v], JobRow(v, installed'), v.alone = job[j].alone,
           UNCHANGED <<mix, cmdFile, content>>, DOMAIN installed' = DOMAIN installed
    PROVE  SystemInv'
<1>1. DOMAIN job' = Jobs /\ job'[j] = v /\ \A k \in Jobs \ {j} : job'[k] = job[k]
  BY DEF SystemInv
<1>2. ASSUME NEW k \in Jobs PROVE JobRow(job'[k], installed')
  <2>1. CASE k = j
    BY <1>1, <2>1
  <2>2. CASE k # j
    <3>1. JobRow(job[k], installed')
      BY <2>2, OtherJobs
    <3>2. job'[k] = job[k]
      BY <1>1, <2>2
    <3> QED BY <3>1, <3>2
  <2> QED BY <2>1, <2>2
<1>3. ASSUME NEW k \in Jobs, NEW l \in Jobs, k # l, job'[k].pc = "running",
             job'[l].pc = "running"
      PROVE  ~job'[k].alone
  <2>1. job[k].pc = "running" /\ job[l].pc = "running"
    BY <1>1, <1>3
  <2>2. ~job[k].alone
    BY <1>3, <2>1 DEF SystemInv
  <2> QED BY <1>1, <2>2
<1> QED BY <1>1, <1>2, <1>3 DEF SystemInv

\* The request goes on as the one it was.
Same(x, v) == v.req = x.req /\ v.alone = x.alone /\ v.rmFailed = x.rmFailed

\* What becomes of a request whose step has exited.
LEMMA AdvanceRow ==
    ASSUME NEW j \in Jobs, IsJob(job[j]), job[j].pc = "running", job[j].res = None,
           NEW e \in BOOLEAN, NEW v, v = Advance(j, e)
    PROVE  /\ IsJob(v) /\ Same(job[j], v) /\ v.left = job[j].left
           /\ \/ v.pc = "done" /\ v.res = "failed" /\ ~e /\ ~NextStep(j).tolerated
              \/ /\ e \/ NextStep(j).tolerated
                 /\ v.pc = "done" /\ v.res = "ok" /\ Len(job[j].todo) = 1
              \/ /\ e \/ NextStep(j).tolerated
                 /\ v.pc = "running" /\ v.res = None /\ Len(job[j].todo) # 1
                 /\ v.todo = Tail(job[j].todo)
<1> DEFINE x == job[j]
<1> HIDE DEF x
<1>1. IsJob(x) /\ x.pc = "running" /\ x.res = None
  BY DEF x
<1>2. CASE ~e /\ ~NextStep(j).tolerated
  <2>1. v = [x EXCEPT !.pc = "done", !.todo = <<>>, !.res = "failed"]
    BY <1>2 DEF Advance, End, x
  <2>2. IsJob(v) /\ Same(x, v) /\ v.left = x.left /\ v.pc = "done" /\ v.res = "failed"
    BY <1>1, <2>1 DEF IsJob, Same
  <2> QED BY <1>2, <2>2 DEF x
<1>3. CASE ~(~e /\ ~NextStep(j).tolerated) /\ Len(job[j].todo) = 1
  <2>1. v = [x EXCEPT !.pc = "done", !.todo = <<>>, !.res = "ok"]
    BY <1>3 DEF Advance, End, x
  <2>2. IsJob(v) /\ Same(x, v) /\ v.left = x.left /\ v.pc = "done" /\ v.res = "ok"
    BY <1>1, <2>1 DEF IsJob, Same
  <2> QED BY <1>3, <2>2 DEF x
<1>4. CASE ~(~e /\ ~NextStep(j).tolerated) /\ Len(job[j].todo) # 1
  <2>1. v = [x EXCEPT !.todo = Tail(x.todo)]
    BY <1>4 DEF Advance, x
  <2>2. /\ IsJob(v) /\ Same(x, v) /\ v.left = x.left /\ v.pc = "running" /\ v.res = None
        /\ v.todo = Tail(x.todo)
    BY <1>1, <2>1 DEF IsJob, Same
  <2> QED BY <1>4, <2>2 DEF x
<1> QED BY <1>2, <1>3, <1>4

\* A request of another kind: nothing is asked of what it leaves.
LEMMA OtherRow ==
    ASSUME NEW v, NEW inst, IsJob(v), v.pc # "done" => v.res = None, ~Places(v.req)
    PROVE  JobRow(v, inst)
BY DEF JobRow, Places, PlacedRow

\* So of one that was not successful.
LEMMA FailedRow ==
    ASSUME NEW v, NEW inst, IsJob(v), v.pc = "done", v.res \in {"failed", "refused"}
    PROVE  JobRow(v, inst)
BY DEF JobRow, PlacedRow

\* The steps of a request that places a bundle, and what is left after the first.
LEMMA RemainingSteps ==
    ASSUME NEW q, NEW dir, NEW todo \in Remaining(q, dir)
    PROVE  \/ /\ Head(todo).kind \in {"verify", "team"} /\ Len(todo) # 1
              /\ Tail(todo) \in Remaining(q, dir) /\ Tail(todo) # <<PutNew(q, dir)>>
           \/ /\ Head(todo) = ClearOld(q, dir) /\ Len(todo) # 1
              /\ Tail(todo) = <<PutNew(q, dir)>>
           \/ Head(todo) = PutNew(q, dir) /\ Len(todo) = 1 /\ todo = <<PutNew(q, dir)>>
<1> DEFINE a == VerifySource(q)
           b == ReadTeam(q)
           c == ClearOld(q, dir)
           d == PutNew(q, dir)
<1>1. a.kind = "verify" /\ b.kind = "team"
  BY DEF VerifySource, ReadTeam, Step
<1>2. todo \in {<<a, b, c, d>>, <<b, c, d>>, <<c, d>>, <<d>>}
  BY DEF Remaining
<1> HIDE DEF a, b, c, d
<1>3. /\ Tail(<<a, b, c, d>>) = <<b, c, d>> /\ Len(<<a, b, c, d>>) = 4
      /\ Head(<<a, b, c, d>>) = a
  OBVIOUS
<1>4. Tail(<<b, c, d>>) = <<c, d>> /\ Len(<<b, c, d>>) = 3 /\ Head(<<b, c, d>>) = b
  OBVIOUS
<1>5. Tail(<<c, d>>) = <<d>> /\ Len(<<c, d>>) = 2 /\ Head(<<c, d>>) = c
  OBVIOUS
<1>6. Len(<<d>>) = 1 /\ Head(<<d>>) = d
  OBVIOUS
<1>7. <<b, c, d>> # <<d>> /\ <<c, d>> # <<d>>
  OBVIOUS
<1>8. {<<b, c, d>>, <<c, d>>, <<d>>} \subseteq Remaining(q, dir)
  BY DEF Remaining, a, b, c, d
<1>9. CASE todo = <<a, b, c, d>>
  BY <1>1, <1>3, <1>7, <1>8, <1>9 DEF d
<1>10. CASE todo = <<b, c, d>>
  BY <1>1, <1>4, <1>7, <1>8, <1>10 DEF d
<1>11. CASE todo = <<c, d>>
  BY <1>5, <1>11 DEF c, d
<1>12. CASE todo = <<d>>
  BY <1>6, <1>12 DEF d
<1> QED BY <1>2, <1>9, <1>10, <1>11, <1>12

\* The request that makes a step, and its row.
LEMMA RowOfJob ==
    ASSUME SystemInv, NEW j \in Jobs, job[j].pc = "running"
    PROVE  /\ JobRow(job[j], installed) /\ IsJob(job[j]) /\ job[j].res = None
           /\ Places(job[j].req) => PlacingRow(job[j], installed)
BY DEF SystemInv, JobRow

\* Programs of the other handlers are not run for one that places a bundle.
LEMMA NotPlacing ==
    ASSUME SystemInv, NEW j \in Jobs, job[j].pc = "running",
           NextStep(j).kind \notin {"verify", "team", "rm-rf", "rm-f", "ditto", "ln"}
    PROVE  ~Places(job[j].req)
<1> SUFFICES ASSUME Places(job[j].req) PROVE FALSE
  OBVIOUS
<1>1. PICK dir \in ToSet(DirOrder) : job[j].todo \in Remaining(job[j].req, dir)
  BY RowOfJob DEF PlacingRow
<1>2. ClearOld(job[j].req, dir).kind \in {"rm-rf", "rm-f"}
  BY DEF ClearOld
<1>3. PutNew(job[j].req, dir).kind \in {"ditto", "ln"}
  BY DEF PutNew
<1> QED BY <1>1, <1>2, <1>3, RemainingSteps DEF NextStep

\* A step of a request of another kind that leaves the disk alone.
LEMMA OtherStep ==
    ASSUME SystemInv, NEW j \in Jobs, job[j].pc = "running", ~Places(job[j].req),
           NEW v, job' = [job EXCEPT ![j] = v], IsJob(v), Same(job[j], v),
           v.pc # "done" => v.res = None, UNCHANGED <<mix, cmdFile, content, installed>>
    PROVE  SystemInv'
<1>1. JobRow(v, installed')
  BY OtherRow DEF Same
<1> QED BY <1>1, JobSet DEF Same

LEMMA OtherAdvances ==
    ASSUME SystemInv, NEW j \in Jobs, job[j].pc = "running", ~Places(job[j].req),
           NEW e \in BOOLEAN, job' = [job EXCEPT ![j] = Advance(j, e)],
           UNCHANGED <<mix, cmdFile, content, installed>>
    PROVE  SystemInv'
<1>1. PICK v : v = Advance(j, e)
  OBVIOUS
<1>2. IsJob(v) /\ Same(job[j], v) /\ (v.pc # "done" => v.res = None)
  BY <1>1, AdvanceRow, RowOfJob
<1>3. job' = [job EXCEPT ![j] = v]
  BY <1>1
<1> QED BY <1>2, <1>3, OtherStep

\* Programs, signals, the two steps of release_port, the installer.
LEMMA ProgramSteps ==
    ASSUME SystemInv, NEW j \in Jobs,
           \/ RunProgram(j) \/ SendSignal(j) \/ KillHolders(j) \/ realLaunchInstaller(j)
    PROVE  SystemInv'
<1>1. job[j].pc = "running" /\ ~Places(job[j].req)
  BY NotPlacing DEF RunProgram, SendSignal, KillHolders, realLaunchInstaller, Ready
<1>2. UNCHANGED <<mix, cmdFile, content, installed>>
  BY DEF RunProgram, SendSignal, KillHolders, realLaunchInstaller
<1>3. PICK e \in BOOLEAN : job' = [job EXCEPT ![j] = Advance(j, e)]
  <2>1. CASE RunProgram(j)
    BY <2>1 DEF RunProgram
  <2>2. CASE SendSignal(j)
    BY <2>2 DEF SendSignal
  <2>3. CASE KillHolders(j)
    BY <2>3 DEF KillHolders
  <2>4. CASE realLaunchInstaller(j)
    BY <2>4 DEF realLaunchInstaller
  <2> QED BY <2>1, <2>2, <2>3, <2>4
<1> QED BY <1>1, <1>2, <1>3, OtherAdvances

LEMMA EndRow ==
    ASSUME NEW j \in Jobs, IsJob(job[j]), NEW res \in {"ok", "failed", "refused"},
           NEW v, v = End(j, res)
    PROVE  IsJob(v) /\ Same(job[j], v) /\ v.pc = "done" /\ v.res = res
<1> DEFINE x == job[j]
<1> HIDE DEF x
<1>1. v = [x EXCEPT !.pc = "done", !.todo = <<>>, !.res = res] /\ IsJob(x)
  BY DEF End, x
<1>2. IsJob(v) /\ Same(x, v) /\ v.pc = "done" /\ v.res = res
  BY <1>1 DEF IsJob, Same
<1> QED BY <1>2 DEF x

LEMMA HoldersStep ==
    ASSUME SystemInv, NEW j \in Jobs, ListHolders(j)
    PROVE  SystemInv'
<1> DEFINE x == job[j]
<1>1. job[j].pc = "running" /\ ~Places(job[j].req)
  BY NotPlacing DEF ListHolders, Ready
<1>2. UNCHANGED <<mix, cmdFile, content, installed>>
  BY DEF ListHolders
<1>3. PICK v, t, h : /\ job' = [job EXCEPT ![j] = v]
                     /\ \/ v = End(j, "failed") \/ v = End(j, "ok")
                        \/ v = [job[j] EXCEPT !.todo = t, !.held = h]
  <2> DEFINE w(e, pids, t, h) ==
                IF ~e THEN End(j, "failed") ELSE IF pids = {} THEN End(j, "ok")
                ELSE [job[j] EXCEPT !.todo = t, !.held = h]
  <2>1. PICK e \in BOOLEAN :
            LET pids == {p \in Pids : procs[p].port = NextStep(j).arg[1]}
            IN  job' = [job EXCEPT ![j] =
                    w(e, pids, Run("kill", <<NextStep(j).arg[1]>>),
                      {<<p, procs[p].gen>> : p \in pids})]
    BY DEF ListHolders
  <2>2. PICK pids, t, h : job' = [job EXCEPT ![j] = w(e, pids, t, h)]
    BY <2>1
  <2>3. \/ w(e, pids, t, h) = End(j, "failed") \/ w(e, pids, t, h) = End(j, "ok")
        \/ w(e, pids, t, h) = [job[j] EXCEPT !.todo = t, !.held = h]
    OBVIOUS
  <2> HIDE DEF w
  <2> QED BY <2>2, <2>3
<1>4. IsJob(x) /\ x.res = None
  BY <1>1, RowOfJob
<1>5. IsJob(v) /\ Same(x, v) /\ (v.pc # "done" => v.res = None)
  <2>1. CASE v = End(j, "failed") \/ v = End(j, "ok")
    BY <1>4, <2>1, EndRow
  <2>2. CASE v = [x EXCEPT !.todo = t, !.held = h]
    <3> HIDE DEF x
    <3> QED BY <1>4, <2>2 DEF IsJob, Same
  <2> QED BY <1>3, <2>1, <2>2
<1> QED BY <1>1, <1>2, <1>3, <1>5, OtherStep

\* A signature is read: the request goes on to the removal, or is refused.
LEMMA SignatureStep ==
    ASSUME SystemInv, NEW j \in Jobs, CheckSignature(j)
    PROVE  SystemInv'
<1>1. job[j].pc = "running" /\ NextStep(j).kind \in {"verify", "team"}
  BY DEF CheckSignature, Ready
<1>2. UNCHANGED <<mix, cmdFile, content, installed>>
  BY DEF CheckSignature
<1>3. PICK v : /\ job' = [job EXCEPT ![j] = v]
               /\ v = Advance(j, TRUE) \/ v = End(j, "refused")
  BY DEF CheckSignature
<1>4. IsJob(job[j]) /\ job[j].res = None
  BY <1>1, RowOfJob
<1>5. CASE ~Places(job[j].req)
  <2>1. IsJob(v) /\ Same(job[j], v) /\ (v.pc # "done" => v.res = None)
    BY <1>1, <1>3, <1>4, AdvanceRow, EndRow
  <2> QED BY <1>1, <1>2, <1>3, <1>5, <2>1, OtherStep
<1>6. CASE Places(job[j].req) /\ v = End(j, "refused")
  <2>1. JobRow(v, installed') /\ Same(job[j], v)
    BY <1>4, <1>6, EndRow, FailedRow
  <2> QED BY <1>1, <1>2, <1>3, <2>1, JobSet DEF Same
<1>7. CASE Places(job[j].req) /\ v = Advance(j, TRUE)
  <2>1. PICK dir \in ToSet(DirOrder) :
            /\ job[j].todo \in Remaining(job[j].req, dir)
            /\ job[j].req.source \in Paths /\ job[j].req.name \in AppNames
    BY <1>1, <1>7, RowOfJob DEF PlacingRow
  <2>2. ClearOld(job[j].req, dir).kind \in {"rm-rf", "rm-f"}
    BY DEF ClearOld
  <2>3. PutNew(job[j].req, dir).kind \in {"ditto", "ln"}
    BY DEF PutNew
  <2>4. /\ Len(job[j].todo) # 1 /\ Tail(job[j].todo) \in Remaining(job[j].req, dir)
        /\ Tail(job[j].todo) # <<PutNew(job[j].req, dir)>>
    BY <1>1, <2>1, <2>2, <2>3, RemainingSteps DEF NextStep
  <2>5. /\ IsJob(v) /\ Same(job[j], v) /\ v.pc = "running" /\ v.res = None
        /\ v.todo = Tail(job[j].todo)
    BY <1>1, <1>4, <1>7, <2>4, AdvanceRow
  <2>6. v.todo \in Remaining(v.req, dir) /\ v.todo # <<PutNew(v.req, dir)>>
    BY <2>4, <2>5 DEF Same
  <2>7. PlacingRow(v, installed')
    BY <2>1, <2>5, <2>6 DEF PlacingRow, Same
  <2>8. PlacedRow(v)
    BY <2>5, SystemAssumption DEF PlacedRow
  <2>9. JobRow(v, installed')
    BY <2>5, <2>7, <2>8 DEF JobRow
  <2> QED BY <1>1, <1>2, <1>3, <2>5, <2>9, JobSet DEF Same
<1> QED BY <1>3, <1>5, <1>6, <1>7

\* The request after a step that changed what lies at a place.
Follows(x, v, step, e, new) ==
    /\ IsJob(v) /\ v.req = x.req /\ v.alone = x.alone /\ v.left = new
    /\ v.rmFailed <=> x.rmFailed \/ (step.tolerated /\ ~e)
    /\ \/ v.pc = "done" /\ v.res = "failed" /\ ~e /\ ~step.tolerated
       \/ /\ e \/ step.tolerated
          /\ v.pc = "done" /\ v.res = "ok" /\ Len(x.todo) = 1
       \/ /\ e \/ step.tolerated
          /\ v.pc = "running" /\ v.res = None /\ Len(x.todo) # 1 /\ v.todo = Tail(x.todo)

LEMMA PlaceFollows ==
    ASSUME SystemInv, NEW j \in Jobs, job[j].pc = "running", NEW at, NEW new,
           NEW e \in BOOLEAN, Place(j, at, new, e)
    PROVE  \E v : job' = [job EXCEPT ![j] = v] /\ Follows(job[j], v, NextStep(j), e, new)
<1>1. PICK a : a = Advance(j, e)
  OBVIOUS
<1>2. /\ IsJob(a) /\ Same(job[j], a)
      /\ \/ a.pc = "done" /\ a.res = "failed" /\ ~e /\ ~NextStep(j).tolerated
         \/ /\ e \/ NextStep(j).tolerated
            /\ a.pc = "done" /\ a.res = "ok" /\ Len(job[j].todo) = 1
         \/ /\ e \/ NextStep(j).tolerated
            /\ a.pc = "running" /\ a.res = None /\ Len(job[j].todo) # 1
            /\ a.todo = Tail(job[j].todo)
  BY <1>1, AdvanceRow, RowOfJob
<1>3. PICK r \in BOOLEAN : r <=> a.rmFailed \/ (NextStep(j).tolerated /\ ~e)
  OBVIOUS
<1>4. PICK v : v = [a EXCEPT !.left = new, !.rmFailed = a.rmFailed \/ (NextStep(j).tolerated /\ ~e)]
  OBVIOUS
<1>5. job' = [job EXCEPT ![j] = v]
  BY <1>1, <1>4 DEF Place
<1>6. /\ IsJob(v) /\ v.req = a.req /\ v.alone = a.alone /\ v.left = new
      /\ v.pc = a.pc /\ v.res = a.res /\ v.todo = a.todo
      /\ v.rmFailed <=> a.rmFailed \/ (NextStep(j).tolerated /\ ~e)
  BY <1>2, <1>4 DEF IsJob
<1>7. Follows(job[j], v, NextStep(j), e, new)
  BY <1>2, <1>6 DEF Follows, Same
<1> QED BY <1>5, <1>7

\* A place changes for a request of another kind, or the step failed.
LEMMA PlaceOther ==
    ASSUME SystemInv, NEW j \in Jobs, job[j].pc = "running", NEW at, NEW new,
           NEW e \in BOOLEAN, Place(j, at, new, e),
           ~Places(job[j].req) \/ (~e /\ ~NextStep(j).tolerated)
    PROVE  SystemInv'
<1>1. PICK v : job' = [job EXCEPT ![j] = v] /\ Follows(job[j], v, NextStep(j), e, new)
  BY PlaceFollows
<1>2. UNCHANGED <<mix, cmdFile, content>> /\ DOMAIN installed' = DOMAIN installed
  BY DEF Place
<1>3. JobRow(v, installed')
  <2>1. CASE ~Places(job[j].req)
    BY <1>1, <2>1, OtherRow DEF Follows
  <2>2. CASE ~e /\ ~NextStep(j).tolerated
    <3>1. IsJob(v) /\ v.pc = "done" /\ v.res = "failed"
      BY <1>1, <2>2 DEF Follows
    <3> QED BY <3>1, FailedRow
  <2> QED BY <2>1, <2>2
<1> QED BY <1>1, <1>2, <1>3, JobSet DEF Follows

\* The old is removed: nothing is there, or the request has noted the failure.
LEMMA RemoveStep ==
    ASSUME SystemInv, NEW j \in Jobs, RemoveOld(j)
    PROVE  SystemInv'
<1> DEFINE s == NextStep(j)
           at == NextStep(j).arg
<1>1. job[j].pc = "running" /\ s.kind \in {"rm-rf", "rm-f"}
  BY DEF RemoveOld, Ready
<1>2. PICK e \in BOOLEAN, new \in {{}, installed[at]} : Place(j, at, new, e) /\ (e => new = {})
  BY DEF RemoveOld
<1>3. CASE ~Places(job[j].req)
  BY <1>1, <1>2, <1>3, PlaceOther
<1>4. CASE Places(job[j].req)
  <2>1. PICK dir \in ToSet(DirOrder) :
            /\ job[j].todo \in Remaining(job[j].req, dir)
            /\ job[j].req.source \in Paths /\ job[j].req.name \in AppNames
    BY <1>1, <1>4, RowOfJob DEF PlacingRow
  <2>2. PutNew(job[j].req, dir).kind \in {"ditto", "ln"}
    BY DEF PutNew
  <2>3. /\ s = ClearOld(job[j].req, dir) /\ Len(job[j].todo) # 1
        /\ Tail(job[j].todo) = <<PutNew(job[j].req, dir)>>
    BY <1>1, <2>1, <2>2, RemainingSteps DEF NextStep
  <2>4. s.tolerated = TRUE /\ at = <<dir, job[j].req.name>>
    BY <2>3 DEF ClearOld
  <2>5. PICK v : job' = [job EXCEPT ![j] = v] /\ Follows(job[j], v, s, e, new)
    BY <1>1, <1>2, PlaceFollows
  <2>6. /\ IsJob(v) /\ v.pc = "running" /\ v.res = None
        /\ v.todo = <<PutNew(job[j].req, dir)>> /\ v.req = job[j].req
        /\ v.alone = job[j].alone /\ (~e => v.rmFailed)
    BY <2>3, <2>4, <2>5 DEF Follows
  <2>7. UNCHANGED <<mix, cmdFile, content>> /\ DOMAIN installed' = DOMAIN installed
    BY <1>2 DEF Place
  <2>8. e => installed'[<<dir, job[j].req.name>>] = {}
    <3>1. <<dir, job[j].req.name>> \in DOMAIN installed
      BY <2>1 DEF SystemInv
    <3>2. installed' = [installed EXCEPT ![<<dir, job[j].req.name>>] = new]
      BY <1>2, <2>4 DEF Place
    <3> QED BY <1>2, <3>1, <3>2
  <2>9. v.todo \in Remaining(v.req, dir)
    BY <2>6 DEF Remaining
  <2>10. PlacingRow(v, installed')
    <3>1. ~v.rmFailed => installed'[<<dir, v.req.name>>] = {}
      BY <2>6, <2>8
    <3>2. v.req.source \in Paths /\ v.req.name \in AppNames
      BY <2>1, <2>6
    <3> QED BY <2>1, <2>9, <3>1, <3>2 DEF PlacingRow
  <2>11. PlacedRow(v)
    BY <2>6, SystemAssumption DEF PlacedRow
  <2>12. JobRow(v, installed')
    BY <2>6, <2>10, <2>11 DEF JobRow
  <2> QED BY <1>1, <2>5, <2>6, <2>7, <2>12, JobSet
<1> QED BY <1>3, <1>4

\* The last step of a request that places a bundle has exited with success, and
\* the place holds what its handler reports.
LEMMA PlacedStep ==
    ASSUME SystemInv, NEW j \in Jobs, job[j].pc = "running", Places(job[j].req),
           Len(job[j].todo) = 1, ~NextStep(j).tolerated, NEW at, NEW new,
           Place(j, at, new, TRUE),
           job[j].alone /\ ~job[j].rmFailed =>
                /\ job[j].req.op = "install" => \E c \in Contents : new = {c}
                /\ job[j].req.op = "symlink" => new = {"link"}
    PROVE  SystemInv'
<1>1. PICK v : job' = [job EXCEPT ![j] = v] /\ Follows(job[j], v, NextStep(j), TRUE, new)
  BY PlaceFollows
<1>2. UNCHANGED <<mix, cmdFile, content>> /\ DOMAIN installed' = DOMAIN installed
  BY DEF Place
<1>3. /\ IsJob(v) /\ v.pc = "done" /\ v.res = "ok" /\ v.req = job[j].req
      /\ v.alone = job[j].alone /\ v.left = new /\ (job[j].rmFailed => v.rmFailed)
  BY <1>1 DEF Follows
<1>4. PlacedRow(v)
  BY <1>3 DEF PlacedRow
<1>5. JobRow(v, installed')
  BY <1>3, <1>4 DEF JobRow
<1> QED BY <1>1, <1>2, <1>3, <1>5, JobSet

\* What the last step of a request that places a bundle is, and finds there.
LEMMA LastStep ==
    ASSUME SystemInv, NEW j \in Jobs, job[j].pc = "running", Places(job[j].req),
           NextStep(j).kind \in {"ditto", "ln"}
    PROVE  \E dir \in ToSet(DirOrder) :
            /\ Len(job[j].todo) = 1 /\ ~NextStep(j).tolerated
            /\ NextStep(j).arg[1] \in Paths
            /\ Tail(NextStep(j).arg) = <<dir, job[j].req.name>>
            /\ NextStep(j).kind = "ditto" <=> job[j].req.op = "install"
            /\ job[j].alone /\ ~job[j].rmFailed => installed[<<dir, job[j].req.name>>] = {}
<1>1. PICK dir \in ToSet(DirOrder) :
          /\ job[j].todo \in Remaining(job[j].req, dir)
          /\ job[j].req.source \in Paths /\ job[j].req.name \in AppNames
          /\ (job[j].todo = <<PutNew(job[j].req, dir)>> /\ job[j].alone /\ ~job[j].rmFailed)
                => installed[<<dir, job[j].req.name>>] = {}
  BY RowOfJob DEF PlacingRow
<1>2. ClearOld(job[j].req, dir).kind \in {"rm-rf", "rm-f"}
  BY DEF ClearOld
<1>3. /\ NextStep(j) = PutNew(job[j].req, dir) /\ Len(job[j].todo) = 1
      /\ job[j].todo = <<PutNew(job[j].req, dir)>>
  BY <1>1, <1>2, RemainingSteps DEF NextStep
<1>4. /\ NextStep(j).arg = <<job[j].req.source, dir, job[j].req.name>>
      /\ NextStep(j).tolerated = FALSE
      /\ NextStep(j).kind = IF job[j].req.op = "install" THEN "ditto" ELSE "ln"
  BY <1>3 DEF PutNew
<1>5. NextStep(j).arg[1] = job[j].req.source
  BY <1>4
<1>6. Tail(NextStep(j).arg) = <<dir, job[j].req.name>>
  BY <1>4
<1>7. NextStep(j).kind = "ditto" <=> job[j].req.op = "install"
  BY <1>4
<1> QED BY <1>1, <1>3, <1>4, <1>5, <1>6, <1>7

LEMMA CopyStep ==
    ASSUME SystemInv, NEW j \in Jobs, CopyBundle(j)
    PROVE  SystemInv'
<1> DEFINE at == Tail(NextStep(j).arg)
           c == content[NextStep(j).arg[1]]
<1>1. job[j].pc = "running" /\ NextStep(j).kind = "ditto"
  BY DEF CopyBundle, Ready
<1>2. \/ Place(j, at, installed[at] \cup {c}, TRUE)
      \/ Place(j, at, installed[at] \cup {"part"}, FALSE)
  BY DEF CopyBundle
<1>3. CASE ~Places(job[j].req)
  BY <1>1, <1>2, <1>3, PlaceOther
<1>4. CASE Places(job[j].req)
  <2>1. PICK dir \in ToSet(DirOrder) :
          /\ Len(job[j].todo) = 1 /\ ~NextStep(j).tolerated
          /\ NextStep(j).arg[1] \in Paths /\ at = <<dir, job[j].req.name>>
          /\ job[j].req.op = "install"
          /\ job[j].alone /\ ~job[j].rmFailed => installed[<<dir, job[j].req.name>>] = {}
    BY <1>1, <1>4, LastStep
  <2>2. c \in Contents
    BY <2>1 DEF SystemInv
  <2>3. job[j].alone /\ ~job[j].rmFailed => installed[at] = {}
    BY <2>1
  <2>4. CASE Place(j, at, installed[at] \cup {"part"}, FALSE)
    BY <1>1, <2>1, <2>4, PlaceOther
  <2>5. CASE Place(j, at, installed[at] \cup {c}, TRUE)
    <3>1. PICK new : new = installed[at] \cup {c}
      OBVIOUS
    <3>2. job[j].alone /\ ~job[j].rmFailed => new = {c}
      BY <2>3, <3>1
    <3>3. Place(j, at, new, TRUE)
      BY <2>5, <3>1
    <3> HIDE DEF at, c
    <3> QED BY <1>1, <1>4, <2>1, <2>2, <3>2, <3>3, PlacedStep
  <2> QED BY <1>2, <2>4, <2>5
<1> QED BY <1>3, <1>4

LEMMA LinkStep ==
    ASSUME SystemInv, NEW j \in Jobs, LinkBundle(j)
    PROVE  SystemInv'
<1> DEFINE at == Tail(NextStep(j).arg)
           link == IF Bundles(installed[at]) = {} THEN {"link"} ELSE installed[at] \cup {"inner"}
<1>1. job[j].pc = "running" /\ NextStep(j).kind = "ln"
  BY DEF LinkBundle, Ready
<1>2. Place(j, at, link, TRUE) \/ Place(j, at, installed[at], FALSE)
  BY DEF LinkBundle
<1>3. CASE ~Places(job[j].req)
  BY <1>1, <1>2, <1>3, PlaceOther
<1>4. CASE Places(job[j].req)
  <2>1. PICK dir \in ToSet(DirOrder) :
          /\ Len(job[j].todo) = 1 /\ ~NextStep(j).tolerated
          /\ at = <<dir, job[j].req.name>> /\ job[j].req.op # "install"
          /\ job[j].alone /\ ~job[j].rmFailed => installed[<<dir, job[j].req.name>>] = {}
    BY <1>1, <1>4, LastStep
  <2>2. job[j].alone /\ ~job[j].rmFailed => link = {"link"}
    BY <2>1 DEF Bundles
  <2>3. CASE Place(j, at, installed[at], FALSE)
    BY <1>1, <2>1, <2>3, PlaceOther
  <2>4. CASE Place(j, at, link, TRUE)
    <3> HIDE DEF at, link
    <3> QED BY <1>1, <1>4, <2>1, <2>2, <2>4, PlacedStep
  <2> QED BY <1>2, <2>3, <2>4
<1> QED BY <1>3, <1>4

\* A file is replaced under the requests that read it.
LEMMA ReplaceStep ==
    ASSUME SystemInv, NEW path \in Paths, NEW c \in Contents, Replace(path, c)
    PROVE  SystemInv'
<1>1. UNCHANGED <<mix, cmdFile, installed>> /\ content' \in [Paths -> Contents]
  BY DEF Replace, SystemInv
<1>2. DOMAIN job' = Jobs
  BY DEF Replace
<1>3. ASSUME NEW j \in Jobs
      PROVE  JobRow(job'[j], installed) /\ job'[j].pc = job[j].pc /\ job'[j].alone = job[j].alone
  <2>1. JobRow(job[j], installed)
    BY DEF SystemInv
  <2>2. PICK x, v : x = job[j] /\ v = job'[j] /\ (v = [x EXCEPT !.swapped = TRUE] \/ v = x)
    BY DEF Replace
  <2>3. IsJob(x)
    BY <2>1, <2>2 DEF JobRow
  <2>4. IsJob(v) /\ Same(x, v) /\ v.pc = x.pc /\ v.todo = x.todo /\ v.res = x.res
        /\ v.left = x.left
    BY <2>2, <2>3 DEF IsJob, Same
  <2>5. PlacingRow(v, installed) <=> PlacingRow(x, installed)
    BY <2>4 DEF PlacingRow, Same
  <2>6. PlacedRow(v) <=> PlacedRow(x)
    BY <2>4 DEF PlacedRow, Same
  <2>7. JobRow(v, installed)
    BY <2>1, <2>2, <2>4, <2>5, <2>6 DEF JobRow, Same
  <2> QED BY <2>2, <2>4, <2>7 DEF Same
<1>4. ASSUME NEW j \in Jobs, NEW k \in Jobs, j # k, job'[j].pc = "running",
             job'[k].pc = "running"
      PROVE  ~job'[j].alone
  <2>1. ~job[j].alone
    BY <1>3, <1>4 DEF SystemInv
  <2> QED BY <1>3, <2>1
<1> QED BY <1>1, <1>2, <1>3, <1>4 DEF SystemInv

\* What the loaded configuration may name as an install directory.
LEMMA LoadedDirs ==
    ASSUME SystemInv, NEW dir, LoadSystemCommandsOrDefault(cmdFile) # Refused,
           AllowsListed(LoadSystemCommandsOrDefault(cmdFile), "dirs", dir)
    PROVE  dir \in ToSet(DirOrder)
<1> DEFINE cfg == LoadSystemCommandsOrDefault(cmdFile)
<1>1. PICK e : e = [list |-> "dirs", name |-> dir]
  OBVIOUS
<1>2. e \in cfg /\ e.list = "dirs" /\ e.name = dir
  BY <1>1 DEF AllowsListed
<1>3. cfg = {} \/ (cfg = cmdFile /\ cmdFile \notin {Absent, Torn, Garbled})
  BY DEF LoadSystemCommandsOrDefault
<1>4. cfg \in (InitCmds \cup NewCmds) \ {Absent, Torn, Garbled}
  BY <1>2, <1>3 DEF SystemInv
<1> HIDE DEF cfg
<1> QED BY <1>2, <1>4, SystemAssumption

\* Two lists of steps put together.
LEMMA TwoSteps ==
    ASSUME NEW c, NEW d
    PROVE  <<>> \o <<c>> \o <<d>> = <<c, d>>
<1> DEFINE S == {c, d}
<1>1. PICK s, t : s = <<c>> \o <<d>> /\ t = <<c, d>>
  OBVIOUS
<1>2. s \in Seq(S) /\ Len(s) = 2 /\ s[1] = c /\ s[2] = d
  BY <1>1
<1>3. t \in Seq(S) /\ Len(t) = 2 /\ t[1] = c /\ t[2] = d
  BY <1>1
<1>4. <<>> \o <<c>> = <<c>>
  OBVIOUS
<1> HIDE DEF S
<1>5. \A i \in 1..Len(s) : s[i] = t[i]
  BY <1>2, <1>3
<1>6. s = t
  BY <1>2, <1>3, <1>5, SeqEqual
<1> QED BY <1>1, <1>4, <1>6

LEMMA FourSteps ==
    ASSUME NEW a, NEW b, NEW c, NEW d
    PROVE  <<a, b>> \o <<c>> \o <<d>> = <<a, b, c, d>>
<1> DEFINE S == {a, b, c, d}
<1>1. PICK s, t, u : u = <<a, b>> \o <<c>> /\ s = u \o <<d>> /\ t = <<a, b, c, d>>
  OBVIOUS
<1>2. u \in Seq(S) /\ Len(u) = 3 /\ u[1] = a /\ u[2] = b /\ u[3] = c
  BY <1>1
<1>3. s \in Seq(S) /\ Len(s) = 4 /\ s[1] = a /\ s[2] = b /\ s[3] = c /\ s[4] = d
  BY <1>1, <1>2
<1>4. t \in Seq(S) /\ Len(t) = 4 /\ t[1] = a /\ t[2] = b /\ t[3] = c /\ t[4] = d
  BY <1>1
<1> HIDE DEF S
<1>5. \A i \in 1..Len(s) : s[i] = t[i]
  BY <1>3, <1>4
<1>6. s = t
  BY <1>3, <1>4, <1>5, SeqEqual
<1> QED BY <1>1, <1>6

\* A request that places a bundle is refused or has one of two lists of steps.
LEMMA PlacesSteps ==
    ASSUME SystemInv, NEW q \in mix.requests, Places(q),
           LoadSystemCommandsOrDefault(cmdFile) # Refused,
           runAction(LoadSystemCommandsOrDefault(cmdFile), q) # Refused
    PROVE  \E dir \in ToSet(DirOrder) :
            /\ q.source \in Paths /\ q.name \in AppNames
            /\ runAction(LoadSystemCommandsOrDefault(cmdFile), q) \in Remaining(q, dir)
            /\ runAction(LoadSystemCommandsOrDefault(cmdFile), q) # <<PutNew(q, dir)>>
            /\ runAction(LoadSystemCommandsOrDefault(cmdFile), q) # <<>>
            /\ AllowsListed(LoadSystemCommandsOrDefault(cmdFile), "dirs", dir)
            /\ AllowsListed(LoadSystemCommandsOrDefault(cmdFile), "apps", q.name)
            /\ Flag(LoadSystemCommandsOrDefault(cmdFile), "root_source") =>
                    RootOwnedSource(q.source)
            /\ ListOf(LoadSystemCommandsOrDefault(cmdFile), "appteams") # {} =>
                    Head(runAction(LoadSystemCommandsOrDefault(cmdFile), q)).kind = "verify"
<1> DEFINE cfg == LoadSystemCommandsOrDefault(cmdFile)
           dir == Placement(cfg, q)
           prov == requireAppSourceProvenance(cfg, q.source)
           todo == runAction(cfg, q)
<1>1. todo = manageApps(cfg, q)
  BY DEF runAction, Places
<1>2. todo = IF q.op = "install" THEN appInstall(cfg, q) ELSE appSymlink(cfg, q)
  BY <1>1 DEF manageApps, Places
<1>3. dir # Refused
  BY <1>2 DEF appInstall, appSymlink
<1>4. /\ q.source # "" /\ validatePath(q.source) /\ prov # Refused
      /\ AllowsListed(cfg, "dirs", dir)
  BY <1>3 DEF Placement
<1>5. dir \in ToSet(DirOrder)
  BY <1>4, LoadedDirs
<1>6. q.source \in Paths /\ q.name \in AppNames
  <2>1. q.source \in Paths \cup Malformed \cup {""}
    BY SystemAssumption DEF SystemInv, Places
  <2>2. q.name \in AppNames
    BY DEF SystemInv, Places, AppNames
  <2> QED BY <1>4, <2>1, <2>2 DEF validatePath
<1>7. /\ prov = IF ListOf(cfg, "appteams") # {} THEN <<VerifySource(q), ReadTeam(q)>> ELSE <<>>
      /\ Flag(cfg, "root_source") => RootOwnedSource(q.source)
  BY <1>4 DEF requireAppSourceProvenance, realAppTeamID, VerifySource, ReadTeam
<1>13. AllowsListed(cfg, "apps", q.name)
  BY <1>1 DEF manageApps
<1>8. todo = prov \o <<ClearOld(q, dir)>> \o <<PutNew(q, dir)>>
  <2>1. CASE q.op = "install"
    <3>1. /\ Tolerant("rm-rf", <<dir, q.name>>) = <<ClearOld(q, dir)>>
          /\ Run("ditto", <<q.source, dir, q.name>>) = <<PutNew(q, dir)>>
      BY <2>1 DEF Tolerant, TolerantStep, Run, Step, ClearOld, PutNew
    <3> QED BY <1>2, <1>3, <2>1, <3>1 DEF appInstall
  <2>2. CASE q.op = "symlink"
    <3>1. /\ Tolerant("rm-f", <<dir, q.name>>) = <<ClearOld(q, dir)>>
          /\ Run("ln", <<q.source, dir, q.name>>) = <<PutNew(q, dir)>>
      BY <2>2 DEF Tolerant, TolerantStep, Run, Step, ClearOld, PutNew
    <3> QED BY <1>2, <1>3, <2>2, <3>1 DEF appSymlink
  <2> QED BY <2>1, <2>2 DEF Places
<1> HIDE DEF cfg, dir, prov, todo
<1>9. PICK a, b, c, d : /\ a = VerifySource(q) /\ b = ReadTeam(q)
                        /\ c = ClearOld(q, dir) /\ d = PutNew(q, dir)
  OBVIOUS
<1>10. todo = <<c, d>> \/ todo = <<a, b, c, d>>
  <2>1. CASE prov = <<>>
    <3>1. todo = <<>> \o <<c>> \o <<d>>
      BY <1>8, <1>9, <2>1
    <3>2. <<>> \o <<c>> \o <<d>> = <<c, d>>
      BY TwoSteps
    <3> QED BY <3>1, <3>2
  <2>2. CASE prov = <<VerifySource(q), ReadTeam(q)>>
    <3>1. todo = <<a, b>> \o <<c>> \o <<d>>
      BY <1>8, <1>9, <2>2
    <3>2. <<a, b>> \o <<c>> \o <<d>> = <<a, b, c, d>>
      BY FourSteps
    <3> QED BY <3>1, <3>2
  <2> QED BY <1>7, <2>1, <2>2
<1>11. todo # <<d>> /\ todo # <<>>
  BY <1>10
<1>14. ASSUME ListOf(cfg, "appteams") # {} PROVE Head(todo).kind = "verify"
  <2>1. todo = <<a, b>> \o <<c>> \o <<d>>
    BY <1>7, <1>8, <1>9, <1>14
  <2>2. todo = <<a, b, c, d>>
    BY <2>1, FourSteps
  <2>3. Head(todo) = a
    BY <2>2
  <2> QED BY <1>9, <2>3 DEF VerifySource, Step
<1>12. todo \in Remaining(q, dir) /\ todo # <<PutNew(q, dir)>> /\ todo # <<>>
  BY <1>9, <1>10, <1>11 DEF Remaining
<1> QED BY <1>4, <1>5, <1>6, <1>7, <1>12, <1>13, <1>14 DEF todo, cfg

\* A request before it is made.
LEMMA FreshType ==
    IsJob(Fresh) /\ Fresh.pc = "new" /\ Fresh.res = None /\ ~Fresh.rmFailed
<1>1. PICK x : x = [pc |-> "new", req |-> None, cfg |-> {}, todo |-> <<>>, res |-> None,
                    held |-> {}, swapped |-> FALSE, alone |-> TRUE, rmFailed |-> FALSE,
                    left |-> {}]
  OBVIOUS
<1>2. IsJob(x) /\ x.pc = "new" /\ x.res = None /\ ~x.rmFailed
  BY <1>1 DEF IsJob
<1> QED BY <1>1, <1>2 DEF Fresh

\* A request that ends as it starts: refused, or with nothing to do.
LEMMA StartEnds ==
    ASSUME SystemInv, NEW j \in Jobs, job[j].pc = "new", NEW v, IsJob(v), v.pc = "done",
           v.res = "ok" => ~Places(v.req), job' = [job EXCEPT ![j] = v],
           UNCHANGED <<mix, cmdFile, content, installed>>
    PROVE  SystemInv'
<1>1. DOMAIN job' = Jobs /\ job'[j] = v /\ \A k \in Jobs \ {j} : job'[k] = job[k]
  BY DEF SystemInv
<1>2. JobRow(v, installed)
  BY DEF JobRow, PlacedRow, Places
<1>3. ASSUME NEW k \in Jobs PROVE JobRow(job'[k], installed)
  <2>1. JobRow(job[k], installed)
    BY DEF SystemInv
  <2> QED BY <1>1, <1>2, <2>1
<1>4. ASSUME NEW k \in Jobs, NEW l \in Jobs, k # l, job'[k].pc = "running",
             job'[l].pc = "running"
      PROVE  ~job'[k].alone
  <2>1. k # j /\ l # j
    BY <1>1, <1>4
  <2> QED BY <1>1, <1>4, <2>1 DEF SystemInv
<1> QED BY <1>1, <1>3, <1>4 DEF SystemInv

\* A request that begins to run: from then on none of those that run is alone.
LEMMA StartRuns ==
    ASSUME SystemInv, NEW j \in Jobs, job[j].pc = "new", NEW v, JobRow(v, installed),
           v.pc = "running", v.alone = (Running = {}),
           job' = [k \in Jobs |-> IF k = j THEN v
                                  ELSE IF k \in Running THEN [job[k] EXCEPT !.alone = FALSE]
                                  ELSE job[k]],
           UNCHANGED <<mix, cmdFile, content, installed>>
    PROVE  SystemInv'
<1>1. DOMAIN job' = Jobs /\ job'[j] = v
  OBVIOUS
<1>2. ASSUME NEW k \in Jobs, k # j
      PROVE  /\ JobRow(job'[k], installed) /\ job'[k].pc = job[k].pc
             /\ job'[k].pc = "running" => ~job'[k].alone
  <2>1. JobRow(job[k], installed)
    BY DEF SystemInv
  <2>2. CASE k \notin Running
    <3>1. job'[k] = job[k] /\ job[k].pc # "running"
      BY <1>2, <2>2 DEF Running
    <3> QED BY <2>1, <3>1
  <2>3. CASE k \in Running
    <3>1. PICK x, w : x = job[k] /\ w = job'[k] /\ w = [x EXCEPT !.alone = FALSE]
      BY <1>2, <2>3
    <3>2. IsJob(x)
      BY <2>1, <3>1 DEF JobRow
    <3>3. /\ IsJob(w) /\ w.pc = x.pc /\ w.res = x.res /\ w.req = x.req /\ w.todo = x.todo
          /\ w.alone = FALSE
      BY <3>1, <3>2 DEF IsJob
    <3>4. x.pc = "running"
      BY <2>3, <3>1 DEF Running
    <3>5. Places(w.req) => PlacingRow(w, installed)
      BY <2>1, <3>1, <3>3, <3>4 DEF JobRow, PlacingRow
    <3>6. PlacedRow(w)
      BY <3>3 DEF PlacedRow
    <3>7. JobRow(w, installed)
      BY <2>1, <3>1, <3>3, <3>5, <3>6 DEF JobRow
    <3> QED BY <3>1, <3>3, <3>7
  <2> QED BY <2>2, <2>3
<1>3. ASSUME NEW k \in Jobs, NEW l \in Jobs, k # l, job'[k].pc = "running",
             job'[l].pc = "running"
      PROVE  ~job'[k].alone
  <2>1. CASE k # j
    BY <1>2, <1>3, <2>1
  <2>2. CASE k = j
    <3>1. job[l].pc = "running"
      BY <1>2, <1>3, <2>2
    <3>2. l \in Running
      BY <3>1 DEF Running
    <3> QED BY <1>1, <2>2, <3>2
  <2> QED BY <2>1, <2>2
<1>4. \A k \in Jobs : JobRow(job'[k], installed)
  BY <1>1, <1>2
<1> QED BY <1>1, <1>3, <1>4 DEF SystemInv

LEMMA StartStep ==
    ASSUME SystemInv, NEW j \in Jobs, Start(j)
    PROVE  SystemInv'
<1> DEFINE cfg == LoadSystemCommandsOrDefault(cmdFile)
           todo(q) == IF cfg = Refused THEN Refused ELSE runAction(cfg, q)
           begun(q) == [Fresh EXCEPT !.req = q, !.pc = "done",
                                     !.cfg = IF cfg = Refused THEN {} ELSE cfg]
<1>1. job[j].pc = "new" /\ UNCHANGED <<mix, cmdFile, content, installed>>
  BY DEF Start
<1>2. PICK q \in mix.requests :
        job' = CASE todo(q) = Refused -> [job EXCEPT ![j] = [begun(q) EXCEPT !.res = "refused"]]
                 [] todo(q) = <<>> -> [job EXCEPT ![j] = [begun(q) EXCEPT !.res = "ok"]]
                 [] OTHER -> [k \in Jobs |->
                        IF k = j THEN [begun(q) EXCEPT !.pc = "running", !.todo = todo(q),
                                                       !.alone = Running = {}]
                        ELSE IF k \in Running THEN [job[k] EXCEPT !.alone = FALSE]
                        ELSE job[k]]
  BY DEF Start
<1>3. PICK b : b = begun(q)
  OBVIOUS
<1>4. IsJob(b) /\ b.pc = "done" /\ b.req = q /\ b.res = None /\ b.rmFailed = FALSE
  BY <1>3, FreshType DEF IsJob
<1>5. PICK t : t = todo(q)
  OBVIOUS
<1>6. Places(q) /\ t # Refused =>
        /\ t # <<>>
        /\ \E dir \in ToSet(DirOrder) :
            /\ q.source \in Paths /\ q.name \in AppNames
            /\ t \in Remaining(q, dir) /\ t # <<PutNew(q, dir)>>
  BY <1>5, PlacesSteps
<1>7. CASE t = Refused
  <2>1. PICK v : v = [b EXCEPT !.res = "refused"]
    OBVIOUS
  <2>2. job' = [job EXCEPT ![j] = v]
    BY <1>2, <1>3, <1>5, <1>7, <2>1, SystemAssumption
  <2>3. IsJob(v) /\ v.pc = "done" /\ v.res = "refused"
    BY <1>4, <2>1 DEF IsJob
  <2> QED BY <1>1, <2>2, <2>3, StartEnds
<1>8. CASE t # Refused /\ t = <<>>
  <2>1. PICK v : v = [b EXCEPT !.res = "ok"]
    OBVIOUS
  <2>2. job' = [job EXCEPT ![j] = v]
    BY <1>2, <1>3, <1>5, <1>8, <2>1
  <2>3. IsJob(v) /\ v.pc = "done" /\ v.req = q
    BY <1>4, <2>1 DEF IsJob
  <2> QED BY <1>1, <1>6, <1>8, <2>2, <2>3, StartEnds
<1>9. CASE t # Refused /\ t # <<>>
  <2>1. PICK v : v = [b EXCEPT !.pc = "running", !.todo = t, !.alone = (Running = {})]
    OBVIOUS
  <2>2. job' = [k \in Jobs |-> IF k = j THEN v
                               ELSE IF k \in Running THEN [job[k] EXCEPT !.alone = FALSE]
                               ELSE job[k]]
    BY <1>2, <1>3, <1>5, <1>9, <2>1
  <2>3. /\ IsJob(v) /\ v.pc = "running" /\ v.todo = t /\ v.req = q /\ v.res = None
        /\ v.alone = (Running = {})
    BY <1>4, <2>1 DEF IsJob
  <2>4. Places(v.req) => PlacingRow(v, installed)
    BY <1>6, <1>9, <2>3 DEF PlacingRow
  <2>5. PlacedRow(v)
    BY <2>3, SystemAssumption DEF PlacedRow
  <2>6. JobRow(v, installed)
    BY <2>3, <2>4, <2>5 DEF JobRow
  <2> QED BY <1>1, <2>2, <2>3, <2>6, StartRuns
<1> QED BY <1>7, <1>8, <1>9

\* What a step that leaves the requests and the disk alone keeps.
LEMMA SystemStutter ==
    ASSUME SystemInv, UNCHANGED <<mix, content, installed, job>>,
           cmdFile' \in InitCmds \cup NewCmds \cup {Torn}
    PROVE  SystemInv'
BY DEF SystemInv

LEMMA SystemStep ==
    ASSUME SystemInv, SysNext
    PROVE  SystemInv'
<1>1. ASSUME NEW l \in launched, InstallerReads(l) PROVE SystemInv'
  <2>1. UNCHANGED <<mix, content, installed, job, cmdFile>>
    BY <1>1 DEF InstallerReads
  <2> QED BY <2>1, SystemStutter DEF SystemInv
<1>2. ASSUME SaveCommands PROVE SystemInv'
  <2>1. UNCHANGED <<mix, content, installed, job>>
    BY <1>2 DEF SaveCommands
  <2>2. cmdFile' \in InitCmds \cup NewCmds \cup {Torn}
    BY <1>2 DEF SaveCommands
  <2> QED BY <2>1, <2>2, SystemStutter
<1>3. ASSUME NEW p \in Pids, NEW name, NEW port, Fork(p, name, port) PROVE SystemInv'
  <2>1. UNCHANGED <<mix, content, installed, job, cmdFile>>
    BY <1>3 DEF Fork
  <2> QED BY <2>1, SystemStutter DEF SystemInv
<1> QED
  BY <1>1, <1>2, <1>3, StartStep, SignatureStep, ProgramSteps, HoldersStep, RemoveStep,
     CopyStep, LinkStep, ReplaceStep DEF SysNext

\* The requests of the start.
LEMMA SystemInit == SysInit => SystemInv
<1> SUFFICES ASSUME SysInit PROVE SystemInv
  OBVIOUS
<1>1. JobRow(Fresh, installed)
  BY FreshType, SystemAssumption DEF JobRow, PlacedRow
<1>2. \A j \in Jobs : job[j] = Fresh
  BY DEF SysInit
<1>3. content \in [Paths -> Contents]
  BY SystemAssumption DEF SysInit
<1> QED BY <1>1, <1>2, <1>3, FreshType DEF SysInit, SystemInv

LEMMA SystemPart == SystemInv /\ [Next]_vars => SystemInv'
<1> SUFFICES ASSUME SystemInv, [Next]_vars PROVE SystemInv'
  OBVIOUS
<1>1. ASSUME UNCHANGED sysVars PROVE SystemInv'
  <2>1. UNCHANGED <<mix, content, installed, job, cmdFile>>
    BY <1>1 DEF sysVars
  <2> QED BY <2>1, SystemStutter DEF SystemInv
<1> QED BY <1>1, SystemStep DEF Next, vars

-----------------------------------------------------------------------------
(* What a caller may conclude from an answer *)

AnswerInv == RemoteInv /\ VerdictInv /\ SystemInv

\* An answer is true of what it speaks of, for any calls, hosts, requests and
\* configurations: an outcome of the remote command (sshexec.Run, ssmexec.Run),
\* a clear verdict of the host's keys where the code can know it, so not of an
\* unreadable sshd configuration, a second AuthorizedKeysFile or a denial by
\* another than the host (parseAuthorizedKeys, classifyBypass), the success of
\* an install of what lies on disk (appInstall, appSymlink).
THEOREM Honesty == Spec => []AnswersAreHonest
<1>1. Init => AnswerInv
  <2> SUFFICES ASSUME Init PROVE AnswerInv
    OBVIOUS
  <2>1. \A c \in Calls : ClearRow(verdict[c])
    BY DEF Init, RemInit, ClearRow
  <2>2. VerdictInv
    BY <2>1 DEF Init, RemInit, VerdictInv
  <2> QED BY <2>2, RemoteInit, SystemInit DEF Init, AnswerInv
<1>2. AnswerInv /\ [Next]_vars => AnswerInv'
  BY RemotePart, VerdictStep, SystemPart DEF AnswerInv
<1>3. AnswerInv => AnswersAreHonest
  <2> SUFFICES ASSUME AnswerInv PROVE AnswersAreHonest
    OBVIOUS
  <2>1. OutcomeIsHonest
    BY DEF AnswerInv, RemoteInv, CallRow, Honest, OutcomeIsHonest
  <2>2. ClearIsClear
    BY DEF AnswerInv, VerdictInv, ClearRow, ClearIsClear
  <2>3. InstallTakesEffect
    BY DEF AnswerInv, SystemInv, JobRow, PlacedRow, InstallTakesEffect
  <2> QED BY <2>1, <2>2, <2>3 DEF AnswersAreHonest
<1> QED BY <1>1, <1>2, <1>3, PTL DEF Spec

-----------------------------------------------------------------------------
(* The install directories of a configuration *)

\* A non-empty set of natural numbers has a least element.
LEMMA LeastNat ==
    ASSUME NEW B \in SUBSET Nat, B # {}
    PROVE  \E m \in B : \A k \in B : m <= k
<1>1. PICK m \in B : \A k \in B : ~(<<k, m>> \in OpToRel(<, Nat))
  BY NatLessThanWellFounded, WFMin
<1>2. \A k \in B : ~(k < m)
  BY <1>1 DEF OpToRel
<1> QED BY <1>2

\* The recursion of AllowedDirs, for a function on 0..m.
DirsBody(cmds, f, n) ==
    IF n = 0 THEN <<>>
    ELSE IF AllowsListed(cmds, "dirs", DirOrder[n]) THEN Append(f[n - 1], DirOrder[n])
    ELSE f[n - 1]
DirsFcn(cmds, m, f) == f = [n \in 0..m |-> DirsBody(cmds, f, n)]

LEMMA DirsDef ==
    ASSUME NEW cmds
    PROVE  AllowedDirs(cmds) = (CHOOSE f : DirsFcn(cmds, Len(DirOrder), f))[Len(DirOrder)]
BY DEF AllowedDirs, DirsFcn, DirsBody

LEMMA DirsFcnExists ==
    ASSUME NEW cmds, NEW m \in Nat
    PROVE  \E f : DirsFcn(cmds, m, f)
<1> DEFINE W == {k \in Nat : ~\E f : DirsFcn(cmds, k, f)}
<1>1. SUFFICES ASSUME W # {} PROVE FALSE
  OBVIOUS
<1>2. PICK k \in W : \A i \in W : k <= i
  <2>1. W \in SUBSET Nat
    OBVIOUS
  <2> HIDE DEF W
  <2> QED BY <1>1, <2>1, LeastNat
<1>3. CASE k = 0
  <2>1. PICK f : f = [n \in 0..0 |-> <<>>]
    OBVIOUS
  <2>2. DirsFcn(cmds, 0, f)
    BY <2>1 DEF DirsFcn, DirsBody
  <2> QED BY <1>3, <2>2
<1>4. CASE k # 0
  <2>1. k - 1 \in Nat /\ k - 1 \notin W
    BY <1>2, <1>4
  <2>2. PICK f : DirsFcn(cmds, k - 1, f)
    BY <2>1
  <2>3. PICK g : g = [n \in 0..k |-> IF n = k THEN DirsBody(cmds, f, k) ELSE f[n]]
    OBVIOUS
  <2>4. ASSUME NEW n \in 0..k PROVE g[n] = DirsBody(cmds, g, n)
    <3>1. CASE n = 0
      <4>1. 0 \in 0..k /\ 0 # k /\ 0 \in 0..(k - 1)
        BY <1>4, <2>1
      <4>2. f[0] = DirsBody(cmds, f, 0)
        BY <2>2, <4>1 DEF DirsFcn
      <4>3. g[0] = f[0]
        BY <2>3, <4>1
      <4> QED BY <3>1, <4>2, <4>3 DEF DirsBody
    <3>2. CASE n # 0
      <4>1. n - 1 \in 0..k /\ n - 1 # k /\ g[n - 1] = f[n - 1]
        BY <2>3, <3>2
      <4>2. g[n] = DirsBody(cmds, f, n)
        <5>1. CASE n = k
          BY <2>3, <5>1
        <5>2. CASE n # k
          <6>1. n \in 0..(k - 1)
            BY <5>2
          <6>2. f[n] = DirsBody(cmds, f, n)
            BY <2>2, <6>1 DEF DirsFcn
          <6> QED BY <2>3, <5>2, <6>2
        <5> QED BY <5>1, <5>2
      <4> QED BY <3>2, <4>1, <4>2 DEF DirsBody
    <3> QED BY <3>1, <3>2
  <2>5. DOMAIN g = 0..k /\ g = [n \in DOMAIN g |-> g[n]]
    BY <2>3
  <2>6. DirsFcn(cmds, k, g)
    BY <2>4, <2>5 DEF DirsFcn
  <2> QED BY <1>2, <2>6
<1> QED BY <1>3, <1>4

\* They are directories that the configuration lists.
LEMMA DirsListed ==
    ASSUME NEW cmds
    PROVE  AllowedDirs(cmds) \in Seq({d \in ToSet(DirOrder) : AllowsListed(cmds, "dirs", d)})
<1> DEFINE L == Len(DirOrder)
           A == {d \in ToSet(DirOrder) : AllowsListed(cmds, "dirs", d)}
<1>1. L \in Nat /\ DOMAIN DirOrder = 1..L
  <2>1. PICK S : DirOrder \in Seq(S)
    BY SystemAssumption
  <2> QED BY <2>1
<1>2. PICK f : f = CHOOSE g : DirsFcn(cmds, L, g)
  OBVIOUS
<1>3. DirsFcn(cmds, L, f)
  <2> HIDE DEF L
  <2> QED BY <1>1, <1>2, DirsFcnExists
<1>4. \A n \in 0..L : f[n] = DirsBody(cmds, f, n)
  BY <1>3 DEF DirsFcn
<1>5. AllowedDirs(cmds) = f[L]
  BY <1>2, DirsDef
<1>6. \A d \in 1..L : AllowsListed(cmds, "dirs", DirOrder[d]) => DirOrder[d] \in A
  BY <1>1 DEF ToSet
<1> HIDE DEF L, A
<1> DEFINE W == {n \in 0..L : f[n] \notin Seq(A)}
<1>7. W = {}
  <2> SUFFICES ASSUME W # {} PROVE FALSE
    OBVIOUS
  <2>1. W \in SUBSET Nat
    BY <1>1
  <2>2. PICK n \in W : \A i \in W : n <= i
    <3> HIDE DEF W
    <3> QED BY <2>1, LeastNat
  <2>3. CASE n = 0
    <3>1. f[0] = DirsBody(cmds, f, 0)
      BY <1>4, <2>3
    <3>2. f[n] = <<>>
      BY <2>3, <3>1 DEF DirsBody
    <3>3. f[n] \notin Seq(A) /\ <<>> \in Seq(A)
      OBVIOUS
    <3> QED BY <3>2, <3>3
  <2>4. CASE n # 0
    <3>1. n \in 1..L /\ n - 1 \in 0..L
      BY <1>1, <2>4
    <3>2. n - 1 \notin W
      BY <1>1, <2>2, <2>4
    <3>3. f[n - 1] \in Seq(A)
      BY <3>1, <3>2
    <3>4. f[n] = DirsBody(cmds, f, n)
      BY <1>4
    <3>5. PICK s : s = f[n - 1]
      OBVIOUS
    <3>6. \A a \in A : Append(s, a) \in Seq(A)
      BY <3>3, <3>5
    <3>7. f[n] = s \/ (AllowsListed(cmds, "dirs", DirOrder[n]) /\ f[n] = Append(s, DirOrder[n]))
      BY <2>4, <3>4, <3>5 DEF DirsBody
    <3>8. f[n] \in Seq(A)
      BY <1>6, <3>1, <3>3, <3>5, <3>6, <3>7
    <3> QED BY <3>8
  <2> QED BY <2>3, <2>4
<1>8. L \in 0..L
  BY <1>1
<1> QED BY <1>5, <1>7, <1>8 DEF A

-----------------------------------------------------------------------------
(* What the system executor does: the inductive invariant *)

\* What the configuration demands of a step of this kind.
Within(cfg, kind, arg) ==
    /\ kind \in {"brew", "launchctl"} => AllowsListed(cfg, "services", arg[2])
    /\ kind = "pkill" => AllowsListed(cfg, "processes", arg[1])
    /\ kind = "killpid" => Flag(cfg, "kill_by_pid")
    /\ kind \in {"chmod", "chown"} => Under[arg[1]] \cap ListOf(cfg, kind) # {}
    /\ kind \in {"rm-rf", "rm-f", "open"} =>
            AllowsListed(cfg, "dirs", arg[1]) /\ AllowsListed(cfg, "apps", arg[2])
    /\ kind = "manager" => arg[1] \in {m.binary : m \in Managers(cfg)}
    /\ kind = "xcodebuild" => Under[arg[1]] \cap ListOf(cfg, "builds") # {}

\* A request that has a source, and the source.
Sourced(q) == Places(q) \/ q.verb = "install_pkg"
Origin(q) == IF q.verb = "install_pkg" THEN q.pkg ELSE q.source

\* A step that a request may have left to do; pr is the daemon's privilege.
Granted(pr, cfg, q, s) ==
    /\ Within(cfg, s.kind, s.arg)
    /\ s.sudo => s.kind \in {"manager", "custom"} /\ s.arg[1] \in Paths
    /\ s.kind = "custom" => (pr.root => s.sudo) /\ (s.sudo => pr.applied)
    /\ s.kind \in {"release", "kill"} => s.arg[1] = q.port /\ AllowsListed(cfg, "ports", q.port)
    /\ s.kind \in {"verify", "team", "ditto", "installer"} => Sourced(q) /\ s.arg[1] = Origin(q)
    /\ s.kind = "ditto" => Places(q) /\ q.op = "install"
    /\ s.kind = "installer" => q.verb = "install_pkg"

StepsOk(pr, cfg, q, todo) == \E S : todo \in Seq(S) /\ \A s \in S : Granted(pr, cfg, q, s)

\* A process found on the port: it still has a socket there, is gone, or another
\* has its pid.
HeldOk(h, q, pcs) ==
    /\ h[1] \in Pids /\ h[2] \in Nat /\ h[2] <= pcs[h[1]].gen
    /\ h[2] = pcs[h[1]].gen => pcs[h[1]].name = Gone \/ pcs[h[1]].port = q.port

ReadPkgTeam(q) == Step("team", <<q.pkg, "pkgteams">>)
Launch(q) == Step("installer", <<q.pkg>>)
PkgSteps(q) == {<<ReadPkgTeam(q), Launch(q)>>, <<Launch(q)>>}

\* What is known of the package: ct is the content of each path.
PkgVetted(x, ct) ==
    /\ Flag(x.cfg, "root_pkg") => RootOwnedSource(x.req.pkg)
    /\ ListOf(x.cfg, "pkgteams") # {} =>
            x.swapped \/ TeamOf[ct[x.req.pkg]] \in ListOf(x.cfg, "pkgteams")

\* What is known of the source of a request that runs, by the step it has come to.
Vetted(x, ct) ==
    /\ Places(x.req) /\ Flag(x.cfg, "root_source") => RootOwnedSource(x.req.source)
    /\ Places(x.req) /\ x.req.op = "install" /\ ListOf(x.cfg, "appteams") # {} =>
        \/ Head(x.todo).kind = "verify" \/ x.swapped
        \/ /\ ct[x.req.source] \in Signed
           /\ \/ Head(x.todo).kind = "team"
              \/ TeamOf[ct[x.req.source]] \in ListOf(x.cfg, "appteams")
    /\ x.req.verb = "install_pkg" =>
        /\ x.req.pkg \in Paths /\ x.todo \in PkgSteps(x.req)
        /\ Flag(x.cfg, "root_pkg") => RootOwnedSource(x.req.pkg)
        /\ Head(x.todo).kind = "team" \/ PkgVetted(x, ct)

GateRow(x, pr, pcs, ct) ==
    /\ StepsOk(pr, x.cfg, x.req, x.todo)
    /\ (x.todo # <<>>) <=> (x.pc = "running")
    /\ (x.res # None) <=> (x.pc = "done")
    /\ x.swapped => Sourced(x.req) /\ Replaceable(Origin(x.req))
    /\ \A h \in x.held : HeldOk(h, x.req, pcs)
    /\ x.pc = "running" => Vetted(x, ct)

LaunchRow(l, x, ct) ==
    /\ l = [job |-> l.job, path |-> x.req.pkg]
    /\ x.req.verb = "install_pkg" /\ x.req.pkg \in Paths
    /\ PkgVetted(x, ct)

DoneRow(d, x, pr) ==
    /\ Within(x.cfg, d.kind, d.arg)
    /\ d.kind = "victim" => /\ AllowsListed(x.cfg, "ports", d.arg[1])
                            /\ d.arg[3] = "same" => d.arg[2] = d.arg[1]
    /\ (d.sudo \/ pr.root) =>
        /\ d.tampered /\ d.kind \in {"manager", "brew", "custom"} =>
                \/ Programs(d.kind, d.arg) \subseteq Loose
                \/ ~d.sudo /\ d.kind # "custom"
        /\ d.kind = "custom" => pr.applied
    /\ (d.kind = "placed" /\ ListOf(x.cfg, "appteams") # {}) =>
            \/ d.arg[1] \in Signed /\ TeamOf[d.arg[1]] \in ListOf(x.cfg, "appteams")
            \/ d.tampered /\ (~Flag(x.cfg, "root_source") \/ Unseen(x.req.source))
    /\ (d.kind = "package" /\ ListOf(x.cfg, "pkgteams") # {}) =>
            \/ TeamOf[d.arg[1]] \in ListOf(x.cfg, "pkgteams")
            \/ d.tampered /\ (~Flag(x.cfg, "root_pkg") \/ Unseen(x.req.pkg))

IsProc(x) == x \in [gen : Nat, name : {x.name}, port : {x.port}]

Kinds == Contents \cup {"part", "link", "inner"}

\* What a step of one request leaves alone, or changes in one row only.
StaticInv ==
    /\ priv \in Privs /\ replaced \in [Paths -> Nat]
    /\ \A p \in Paths : replaced[p] > 0 => Replaceable(p)
    /\ \A at \in DOMAIN installed : installed[at] \subseteq Kinds
    /\ DOMAIN procs = Pids /\ \A p \in Pids : IsProc(procs[p])

GateInv ==
    /\ StaticInv
    /\ \A j \in Jobs : GateRow(job[j], priv, procs, content)
    /\ \A l \in launched :
            l.job \in Jobs /\ job[l.job].pc # "new" /\ LaunchRow(l, job[l.job], content)
    /\ \A d \in done : d.job \in Jobs /\ job[d.job].pc # "new" /\ DoneRow(d, job[d.job], priv)

-----------------------------------------------------------------------------
(* The steps a handler returns are granted *)

\* The programs of the package managers of the loaded configuration.
LEMMA LoadedManagers ==
    ASSUME SystemInv, NEW cfg, cfg = LoadSystemCommandsOrDefault(cmdFile), cfg # Refused,
           NEW m \in Managers(cfg)
    PROVE  m.binary \in Paths
<1>1. m \in cfg /\ m.list = "managers"
  BY DEF Managers
<1>2. cfg = {} \/ (cfg = cmdFile /\ cmdFile \notin {Absent, Torn, Garbled})
  BY DEF LoadSystemCommandsOrDefault
<1>3. cfg \in (InitCmds \cup NewCmds) \ {Absent, Torn, Garbled}
  BY <1>1, <1>2 DEF SystemInv
<1> QED BY <1>1, <1>3, SystemAssumption

\* A list of one step.
LEMMA OneStep ==
    ASSUME NEW pr, NEW cfg, NEW q, NEW s, Granted(pr, cfg, q, s)
    PROVE  StepsOk(pr, cfg, q, <<s>>)
<1> DEFINE S == {s}
<1>1. <<s>> \in Seq(S) /\ \A t \in S : Granted(pr, cfg, q, t)
  OBVIOUS
<1> HIDE DEF S
<1> QED BY <1>1 DEF StepsOk

\* A privileged one.
LEMMA PrivilegedStep ==
    ASSUME NEW pr, NEW cfg, NEW q, NEW sudo, NEW kind \in {"manager", "custom"}, NEW arg,
           Within(cfg, kind, arg), arg[1] \in Paths,
           kind = "custom" => (pr.root => sudo) /\ (sudo => pr.applied)
    PROVE  StepsOk(pr, cfg, q, Privileged(sudo, kind, arg))
<1>1. PICK u : u = [kind |-> kind, arg |-> arg, sudo |-> FALSE, tolerated |-> FALSE]
  OBVIOUS
<1>2. PICK s : s = [u EXCEPT !.sudo = sudo]
  OBVIOUS
<1>3. s.kind = kind /\ s.arg = arg /\ (s.sudo <=> sudo)
  BY <1>1, <1>2
<1>4. Granted(pr, cfg, q, s)
  BY <1>3 DEF Granted
<1>5. Privileged(sudo, kind, arg) = <<s>>
  BY <1>1, <1>2 DEF Privileged, Step
<1> QED BY <1>4, <1>5, OneStep

\* One step, without privilege, of a kind that has no source and no port.
LEMMA PlainStep ==
    ASSUME NEW pr, NEW cfg, NEW q, NEW kind, NEW arg, Within(cfg, kind, arg),
           kind \notin {"release", "kill", "verify", "team", "ditto", "installer", "custom"}
    PROVE  StepsOk(pr, cfg, q, Run(kind, arg))
<1>1. PICK s : s = [kind |-> kind, arg |-> arg, sudo |-> FALSE, tolerated |-> FALSE]
  OBVIOUS
<1>2. Granted(pr, cfg, q, s)
  BY <1>1 DEF Granted
<1>3. Run(kind, arg) = <<s>>
  BY <1>1 DEF Run, Step
<1> QED BY <1>2, <1>3, OneStep

LEMMA PackagesGranted ==
    ASSUME SystemInv, NEW cfg, cfg = LoadSystemCommandsOrDefault(cmdFile), cfg # Refused,
           NEW q, managePackages(cfg, q) # Refused
    PROVE  StepsOk(priv, cfg, q, managePackages(cfg, q))
<1> DEFINE mgr == {x \in Managers(cfg) : x.name = q.manager}
<1>1. PICK m : m = CHOOSE x \in mgr : TRUE
  OBVIOUS
<1>2. mgr # {}
  BY DEF managePackages
<1>3. m \in Managers(cfg)
  BY <1>1, <1>2
<1>4. PICK arg : /\ arg[1] = m.binary
                 /\ managePackages(cfg, q) = Privileged(m.sudo, "manager", arg)
  <2>1. \/ managePackages(cfg, q) = packageList(m)
        \/ managePackages(cfg, q) = packageMutate(m, q.op, q.package)
    BY <1>1, <1>2 DEF managePackages
  <2> QED BY <2>1 DEF packageList, packageMutate
<1>5. arg[1] \in Paths /\ Within(cfg, "manager", arg)
  BY <1>3, <1>4, LoadedManagers DEF Within
<1>6. StepsOk(priv, cfg, q, Privileged(m.sudo, "manager", arg))
  BY <1>5, PrivilegedStep
<1> QED BY <1>4, <1>6

LEMMA ServicesGranted ==
    ASSUME NEW cfg, NEW q, manageServices(cfg, q) # Refused
    PROVE  StepsOk(priv, cfg, q, manageServices(cfg, q))
<1>1. AllowsListed(cfg, "services", q.service)
  BY DEF manageServices
<1>2. PICK kind \in {"brew", "launchctl"} :
        manageServices(cfg, q) = Run(kind, <<q.op, q.service>>)
  BY DEF manageServices, brewService, launchctl
<1>3. Within(cfg, kind, <<q.op, q.service>>)
  BY <1>1 DEF Within
<1>4. StepsOk(priv, cfg, q, Run(kind, <<q.op, q.service>>))
  BY <1>3, PlainStep
<1> QED BY <1>2, <1>4

LEMMA ProcessesGranted ==
    ASSUME NEW cfg, NEW q, manageProcesses(cfg, q) # Refused
    PROVE  StepsOk(priv, cfg, q, manageProcesses(cfg, q))
<1>1. \/ manageProcesses(cfg, q) = Run("ps", <<>>)
      \/ /\ manageProcesses(cfg, q) = Run("pkill", <<q.name>>)
         /\ AllowsListed(cfg, "processes", q.name)
      \/ manageProcesses(cfg, q) = Run("killpid", <<q.pid>>) /\ Flag(cfg, "kill_by_pid")
  BY DEF manageProcesses, processList, processKill
<1>2. Within(cfg, "ps", <<>>)
  BY DEF Within
<1>3. AllowsListed(cfg, "processes", q.name) => Within(cfg, "pkill", <<q.name>>)
  BY DEF Within
<1>4. Flag(cfg, "kill_by_pid") => Within(cfg, "killpid", <<q.pid>>)
  BY DEF Within
<1>5. StepsOk(priv, cfg, q, Run("ps", <<>>))
  BY <1>2, PlainStep
<1>6. AllowsListed(cfg, "processes", q.name) => StepsOk(priv, cfg, q, Run("pkill", <<q.name>>))
  BY <1>3, PlainStep
<1>7. Flag(cfg, "kill_by_pid") => StepsOk(priv, cfg, q, Run("killpid", <<q.pid>>))
  BY <1>4, PlainStep
<1> QED BY <1>1, <1>5, <1>6, <1>7

LEMMA PortsGranted ==
    ASSUME NEW cfg, NEW q
    PROVE  /\ checkPort(q) # Refused => StepsOk(priv, cfg, q, checkPort(q))
           /\ releasePort(cfg, q) # Refused => StepsOk(priv, cfg, q, releasePort(cfg, q))
<1>1. checkPort(q) # Refused => StepsOk(priv, cfg, q, checkPort(q))
  <2>1. Within(cfg, "lsof", <<q.port>>)
    BY DEF Within
  <2>2. StepsOk(priv, cfg, q, Run("lsof", <<q.port>>))
    BY <2>1, PlainStep
  <2> QED BY <2>2 DEF checkPort
<1>2. ASSUME releasePort(cfg, q) # Refused
      PROVE  StepsOk(priv, cfg, q, releasePort(cfg, q))
  <2>1. AllowsListed(cfg, "ports", q.port) /\ releasePort(cfg, q) = Run("release", <<q.port>>)
    BY <1>2 DEF releasePort
  <2>2. PICK s : s = [kind |-> "release", arg |-> <<q.port>>, sudo |-> FALSE, tolerated |-> FALSE]
    OBVIOUS
  <2>3. Granted(priv, cfg, q, s)
    BY <2>1, <2>2 DEF Granted, Within
  <2>4. releasePort(cfg, q) = <<s>>
    BY <2>1, <2>2 DEF Run, Step
  <2> QED BY <2>3, <2>4, OneStep
<1> QED BY <1>1, <1>2

LEMMA FilesGranted ==
    ASSUME NEW cfg, NEW q
    PROVE  /\ manageFiles(cfg, q) # Refused => StepsOk(priv, cfg, q, manageFiles(cfg, q))
           /\ build(cfg, q) # Refused => StepsOk(priv, cfg, q, build(cfg, q))
<1>1. ASSUME manageFiles(cfg, q) # Refused
      PROVE  StepsOk(priv, cfg, q, manageFiles(cfg, q))
  <2>1. PICK kind \in {"chmod", "chown"} :
            manageFiles(cfg, q) = Run(kind, <<q.path>>) /\ AllowsFilePath(cfg, kind, q.path)
    BY <1>1 DEF manageFiles, chmod, chown
  <2>2. Within(cfg, kind, <<q.path>>)
    BY <2>1 DEF Within, AllowsFilePath
  <2>3. StepsOk(priv, cfg, q, Run(kind, <<q.path>>))
    BY <2>2, PlainStep
  <2> QED BY <2>1, <2>3
<1>2. ASSUME build(cfg, q) # Refused
      PROVE  StepsOk(priv, cfg, q, build(cfg, q))
  <2>1. /\ build(cfg, q) = Run("xcodebuild", <<q.project>>)
        /\ AllowsFilePath(cfg, "builds", q.project)
    BY <1>2 DEF build, xcodebuild
  <2>2. Within(cfg, "xcodebuild", <<q.project>>)
    BY <2>1 DEF Within, AllowsFilePath
  <2>3. StepsOk(priv, cfg, q, Run("xcodebuild", <<q.project>>))
    BY <2>2, PlainStep
  <2> QED BY <2>1, <2>3
<1> QED BY <1>1, <1>2

LEMMA CustomGranted ==
    ASSUME SystemInv, NEW cfg, NEW q \in mix.requests, q.verb \notin BuiltIn,
           runSystemCommand(q) # Refused
    PROVE  StepsOk(priv, cfg, q, runSystemCommand(q))
<1> DEFINE privileged == priv.root \/ priv.sudo
<1>1. /\ q.program # "" /\ (privileged => priv.applied) /\ q.program \notin Malformed
      /\ runSystemCommand(q) = Privileged(privileged, "custom", <<q.program>>)
  BY DEF runSystemCommand, renderSystemArgv
<1>2. q.program \in Paths
  BY <1>1, SystemAssumption DEF SystemInv
<1>3. Within(cfg, "custom", <<q.program>>)
  BY DEF Within
<1>4. priv.root => privileged
  OBVIOUS
<1> HIDE DEF privileged
<1>5. StepsOk(priv, cfg, q, Privileged(privileged, "custom", <<q.program>>))
  BY <1>1, <1>2, <1>3, <1>4, PrivilegedStep
<1> QED BY <1>1, <1>5

\* What a request that places a bundle has left to do is granted.
LEMMA RemainingGranted ==
    ASSUME NEW pr, NEW cfg, NEW q, NEW dir, Places(q), NEW todo \in Remaining(q, dir),
           AllowsListed(cfg, "dirs", dir), AllowsListed(cfg, "apps", q.name)
    PROVE  StepsOk(pr, cfg, q, todo)
<1>1. PICK a, b, c, d : /\ a = VerifySource(q) /\ b = ReadTeam(q)
                        /\ c = ClearOld(q, dir) /\ d = PutNew(q, dir)
  OBVIOUS
<1> DEFINE S == {a, b, c, d}
<1>2. todo \in {<<a, b, c, d>>, <<b, c, d>>, <<c, d>>, <<d>>}
  BY <1>1 DEF Remaining
<1>3. todo \in Seq(S)
  <2>1. a \in S /\ b \in S /\ c \in S /\ d \in S
    OBVIOUS
  <2> HIDE DEF S
  <2>2. <<a, b, c, d>> \in Seq(S)
    BY <2>1
  <2>3. <<b, c, d>> \in Seq(S)
    BY <2>1
  <2>4. <<c, d>> \in Seq(S) /\ <<d>> \in Seq(S)
    BY <2>1
  <2> QED BY <1>2, <2>2, <2>3, <2>4
<1>4. Sourced(q) /\ Origin(q) = q.source
  BY DEF Sourced, Origin, Places
<1>5. Granted(pr, cfg, q, a) /\ Granted(pr, cfg, q, b)
  BY <1>1, <1>4 DEF Granted, Within, VerifySource, ReadTeam, Step
<1>6. Granted(pr, cfg, q, c)
  BY <1>1 DEF Granted, Within, ClearOld, Places
<1>7. Granted(pr, cfg, q, d)
  BY <1>1, <1>4 DEF Granted, Within, PutNew, Places
<1>8. \A s \in S : Granted(pr, cfg, q, s)
  BY <1>5, <1>6, <1>7
<1> HIDE DEF S
<1> QED BY <1>3, <1>8 DEF StepsOk

LEMMA QuitGranted ==
    ASSUME NEW cfg, NEW q
    PROVE  StepsOk(priv, cfg, q, appQuit(q))
<1>1. PICK a, b : a = TolerantStep("osascript", <<q.name>>) /\ b = TolerantStep("killall", <<q.name>>)
  OBVIOUS
<1> DEFINE S == {a, b}
<1>2. Granted(priv, cfg, q, a) /\ Granted(priv, cfg, q, b)
  BY <1>1 DEF Granted, Within, TolerantStep
<1>3. appQuit(q) = <<a>> \o <<b>>
  BY <1>1 DEF appQuit, Tolerant
<1>4. <<a>> \in Seq(S) /\ <<b>> \in Seq(S) /\ \A s \in S : Granted(priv, cfg, q, s)
  BY <1>2
<1> HIDE DEF S
<1>5. appQuit(q) \in Seq(S)
  BY <1>3, <1>4, ConcatProperties
<1> QED BY <1>4, <1>5 DEF StepsOk

LEMMA UninstallGranted ==
    ASSUME NEW cfg, NEW q, AllowsListed(cfg, "apps", q.name)
    PROVE  StepsOk(priv, cfg, q, appUninstall(cfg, q))
<1> DEFINE A == {d \in ToSet(DirOrder) : AllowsListed(cfg, "dirs", d)}
           S == {TolerantStep("rm-rf", <<d, q.name>>) : d \in A}
<1>1. PICK dirs : dirs = AllowedDirs(cfg)
  OBVIOUS
<1>2. dirs \in Seq(A)
  BY <1>1, DirsListed
<1>3. appUninstall(cfg, q) = [i \in DOMAIN dirs |-> TolerantStep("rm-rf", <<dirs[i], q.name>>)]
  BY <1>1 DEF appUninstall
<1>4. ASSUME NEW s \in S PROVE Granted(priv, cfg, q, s)
  BY DEF Granted, Within, TolerantStep
<1>5. DOMAIN dirs = 1..Len(dirs) /\ Len(dirs) \in Nat /\ \A i \in 1..Len(dirs) : dirs[i] \in A
  <2> HIDE DEF A
  <2> QED BY <1>2
<1>6. \A i \in 1..Len(dirs) : TolerantStep("rm-rf", <<dirs[i], q.name>>) \in S
  BY <1>5
<1> HIDE DEF A, S
<1>7. appUninstall(cfg, q) \in [1..Len(dirs) -> S]
  BY <1>3, <1>5, <1>6
<1>8. appUninstall(cfg, q) \in Seq(S)
  BY <1>5, <1>7, SeqDef
<1> QED BY <1>4, <1>8 DEF StepsOk

LEMMA LaunchGranted ==
    ASSUME NEW cfg, NEW q, AllowsListed(cfg, "apps", q.name), appLaunch(cfg, q) # Refused
    PROVE  StepsOk(priv, cfg, q, appLaunch(cfg, q))
<1> DEFINE A == {d \in ToSet(DirOrder) : AllowsListed(cfg, "dirs", d)}
<1>1. PICK dirs, dir : dirs = AllowedDirs(cfg) /\ dir = FirstDir(cfg)
  OBVIOUS
<1>2. dirs \in Seq(A)
  BY <1>1, DirsListed
<1>3. dir # None /\ appLaunch(cfg, q) = Run("open", <<dir, q.name>>)
  BY <1>1 DEF appLaunch
<1>4. dirs # <<>> /\ dir = Head(dirs)
  BY <1>1, <1>3 DEF FirstDir
<1>5. dir \in A
  <2> HIDE DEF A
  <2> QED BY <1>2, <1>4
<1>6. Within(cfg, "open", <<dir, q.name>>)
  BY <1>5 DEF Within
<1>7. StepsOk(priv, cfg, q, Run("open", <<dir, q.name>>))
  BY <1>6, PlainStep
<1> QED BY <1>3, <1>7

\* The gates of installPkg, and the steps they leave.
LEMMA PkgGranted ==
    ASSUME SystemInv, NEW cfg, NEW q \in mix.requests, q.verb = "install_pkg",
           installPkg(cfg, q) # Refused
    PROVE  /\ StepsOk(priv, cfg, q, installPkg(cfg, q))
           /\ installPkg(cfg, q) \in PkgSteps(q) /\ q.pkg \in Paths
           /\ Flag(cfg, "root_pkg") => RootOwnedSource(q.pkg)
           /\ ListOf(cfg, "pkgteams") # {} => Head(installPkg(cfg, q)).kind = "team"
<1>1. /\ q.pkg # "" /\ validatePath(q.pkg) /\ (Flag(cfg, "root_pkg") => RootOwnedSource(q.pkg))
      /\ installPkg(cfg, q) =
            (IF ListOf(cfg, "pkgteams") # {} THEN realPkgTeamID(q.pkg) ELSE <<>>)
            \o Run("installer", <<q.pkg>>)
  BY DEF installPkg
<1>2. q.pkg \in Paths
  BY <1>1, SystemAssumption DEF SystemInv, validatePath
<1>3. PICK a, b : a = ReadPkgTeam(q) /\ b = Launch(q)
  OBVIOUS
<1>4. realPkgTeamID(q.pkg) = <<a>> /\ Run("installer", <<q.pkg>>) = <<b>>
  BY <1>3 DEF realPkgTeamID, Run, ReadPkgTeam, Launch
<1>5. <<>> \o <<a>> \o <<b>> = <<a, b>> /\ <<>> \o <<a>> = <<a>> /\ <<>> \o <<b>> = <<b>>
  BY TwoSteps
<1>6. /\ ListOf(cfg, "pkgteams") # {} => installPkg(cfg, q) = <<a, b>>
      /\ ListOf(cfg, "pkgteams") = {} => installPkg(cfg, q) = <<b>>
  BY <1>1, <1>4, <1>5
<1>7. installPkg(cfg, q) \in PkgSteps(q)
  BY <1>3, <1>6 DEF PkgSteps
<1>8. a.kind = "team" /\ Head(<<a, b>>) = a
  BY <1>3 DEF ReadPkgTeam, Step
<1>9. Granted(priv, cfg, q, a) /\ Granted(priv, cfg, q, b)
  BY <1>3 DEF Granted, Within, ReadPkgTeam, Launch, Step, Sourced, Origin
<1>10. StepsOk(priv, cfg, q, installPkg(cfg, q))
  <2> DEFINE S == {a, b}
  <2>1. a \in S /\ b \in S /\ \A s \in S : Granted(priv, cfg, q, s)
    BY <1>9
  <2> HIDE DEF S
  <2>2. <<a, b>> \in Seq(S) /\ <<b>> \in Seq(S)
    BY <2>1
  <2>3. installPkg(cfg, q) \in Seq(S)
    BY <1>6, <2>2
  <2> QED BY <2>1, <2>3 DEF StepsOk
<1> QED BY <1>1, <1>2, <1>6, <1>7, <1>8, <1>10

\* Whatever a request names, the steps left to it are within the configuration.
LEMMA ActionGranted ==
    ASSUME SystemInv, NEW cfg, cfg = LoadSystemCommandsOrDefault(cmdFile), cfg # Refused,
           NEW q \in mix.requests, runAction(cfg, q) # Refused
    PROVE  StepsOk(priv, cfg, q, runAction(cfg, q))
<1>1. CASE q.verb = "manage_packages"
  <2>1. runAction(cfg, q) = managePackages(cfg, q)
    BY <1>1 DEF runAction
  <2> QED BY <2>1, PackagesGranted
<1>2. CASE q.verb = "manage_services"
  <2>1. runAction(cfg, q) = manageServices(cfg, q)
    BY <1>2 DEF runAction
  <2> QED BY <2>1, ServicesGranted
<1>3. CASE q.verb = "manage_processes"
  <2>1. runAction(cfg, q) = manageProcesses(cfg, q)
    BY <1>3 DEF runAction
  <2> QED BY <2>1, ProcessesGranted
<1>4. CASE q.verb = "check_port"
  <2>1. runAction(cfg, q) = checkPort(q)
    BY <1>4 DEF runAction
  <2> QED BY <2>1, PortsGranted
<1>5. CASE q.verb = "release_port"
  <2>1. runAction(cfg, q) = releasePort(cfg, q)
    BY <1>5 DEF runAction
  <2> QED BY <2>1, PortsGranted
<1>6. CASE q.verb = "manage_files"
  <2>1. runAction(cfg, q) = manageFiles(cfg, q)
    BY <1>6 DEF runAction
  <2> QED BY <2>1, FilesGranted
<1>7. CASE q.verb = "manage_apps"
  <2>1. runAction(cfg, q) = manageApps(cfg, q)
    BY <1>7 DEF runAction
  <2>2. AllowsListed(cfg, "apps", q.name)
    BY <2>1 DEF manageApps
  <2>3. CASE Places(q)
    <3>1. PICK dir : /\ runAction(cfg, q) \in Remaining(q, dir)
                     /\ AllowsListed(cfg, "dirs", dir)
      BY <2>3, PlacesSteps
    <3> QED BY <2>2, <2>3, <3>1, RemainingGranted
  <2>4. CASE ~Places(q)
    <3>1. \/ manageApps(cfg, q) = appQuit(q) \/ manageApps(cfg, q) = appLaunch(cfg, q)
          \/ manageApps(cfg, q) = appUninstall(cfg, q)
      BY <1>7, <2>1, <2>4 DEF manageApps, Places
    <3> QED BY <2>1, <2>2, <3>1, QuitGranted, LaunchGranted, UninstallGranted
  <2> QED BY <2>3, <2>4
<1>8. CASE q.verb = "install_pkg"
  <2>1. runAction(cfg, q) = installPkg(cfg, q)
    BY <1>8 DEF runAction
  <2> QED BY <1>8, <2>1, PkgGranted
<1>9. CASE q.verb = "build"
  <2>1. runAction(cfg, q) = build(cfg, q)
    BY <1>9 DEF runAction
  <2> QED BY <2>1, FilesGranted
<1>10. CASE q.verb \notin BuiltIn
  <2>1. runAction(cfg, q) = runSystemCommand(q)
    BY <1>10 DEF runAction, BuiltIn
  <2> QED BY <1>10, <2>1, CustomGranted
<1> QED BY <1>1, <1>2, <1>3, <1>4, <1>5, <1>6, <1>7, <1>8, <1>9, <1>10 DEF BuiltIn

-----------------------------------------------------------------------------
(* What the system executor does: the steps *)

\* Processes end, or are followed by others under their pid.
ProcsGo(pcs, new) ==
    /\ DOMAIN new = Pids /\ \A p \in Pids : IsProc(new[p])
    /\ \A h, q : HeldOk(h, q, pcs) => HeldOk(h, q, new)

LEMMA KillGo ==
    ASSUME StaticInv, NEW pids
    PROVE  ProcsGo(procs, Kill(pids))
<1>1. PICK new : new = Kill(pids)
  OBVIOUS
<1>2. DOMAIN new = Pids
  BY <1>1 DEF Kill
<1>3. ASSUME NEW p \in Pids
      PROVE  /\ IsProc(new[p]) /\ new[p].gen = procs[p].gen
             /\ \/ new[p].name = Gone
                \/ new[p].name = procs[p].name /\ new[p].port = procs[p].port
  <2>1. PICK x, v : /\ x = procs[p] /\ v = new[p]
                    /\ v = [x EXCEPT !.name = Gone, !.port = "none"] \/ v = x
    BY <1>1 DEF Kill
  <2>2. IsProc(x)
    BY <2>1 DEF StaticInv
  <2>3. /\ IsProc(v) /\ v.gen = x.gen
        /\ v.name = Gone \/ (v.name = x.name /\ v.port = x.port)
    BY <2>1, <2>2 DEF IsProc
  <2> QED BY <2>1, <2>3
<1>4. ASSUME NEW h, NEW q, HeldOk(h, q, procs) PROVE HeldOk(h, q, new)
  BY <1>3, <1>4 DEF HeldOk
<1> QED BY <1>1, <1>2, <1>3, <1>4 DEF ProcsGo

LEMMA SameProcs == StaticInv => ProcsGo(procs, procs)
BY DEF StaticInv, ProcsGo

\* The request after a step: over, or with the rest of its steps to do.
Goes(x, v) ==
    /\ v.req = x.req /\ v.cfg = x.cfg /\ v.held = x.held /\ v.swapped = x.swapped
    /\ \/ v.pc = "done" /\ v.todo = <<>> /\ v.res # None
       \/ v.pc = "running" /\ v.res = None /\ v.todo = Tail(x.todo) /\ v.todo # <<>>

\* A request that runs has a next step, and that is granted.
LEMMA NextGranted ==
    ASSUME NEW x, NEW pr, NEW pcs, NEW ct, GateRow(x, pr, pcs, ct), x.pc = "running"
    PROVE  /\ Granted(pr, x.cfg, x.req, Head(x.todo)) /\ Vetted(x, ct) /\ x.todo # <<>>
           /\ Len(x.todo) \in Nat /\ (Len(x.todo) # 1 => Tail(x.todo) # <<>>)
<1>1. x.todo # <<>> /\ Vetted(x, ct) /\ StepsOk(pr, x.cfg, x.req, x.todo)
  BY DEF GateRow
<1>2. PICK S : x.todo \in Seq(S) /\ \A s \in S : Granted(pr, x.cfg, x.req, s)
  BY <1>1 DEF StepsOk
<1>3. PICK t : t = x.todo /\ t \in Seq(S) /\ t # <<>>
  BY <1>1, <1>2
<1>4. Head(t) \in S /\ Len(t) \in Nat
  BY <1>3
<1>5. Len(t) # 1 => Tail(t) # <<>>
  <2>1. t # <<>> => Len(t) # 0
    BY <1>3, EmptySeq
  <2>2. Len(t) # 1 => Len(Tail(t)) # 0
    BY <1>3, <2>1
  <2> QED BY <2>2
<1> QED BY <1>1, <1>2, <1>3, <1>4, <1>5

LEMMA EndGoes ==
    ASSUME NEW j \in Jobs, IsJob(job[j]), NEW res \in {"ok", "failed", "refused"},
           NEW v, v = End(j, res)
    PROVE  Goes(job[j], v) /\ v.pc = "done"
<1> DEFINE x == job[j]
<1> HIDE DEF x
<1>1. v = [x EXCEPT !.pc = "done", !.todo = <<>>, !.res = res] /\ IsJob(x)
  BY DEF End, x
<1>2. Goes(x, v) /\ v.pc = "done"
  BY <1>1, SystemAssumption DEF IsJob, Goes
<1> QED BY <1>2 DEF x

LEMMA AdvanceGoes ==
    ASSUME NEW j \in Jobs, IsJob(job[j]), job[j].pc = "running", job[j].res = None,
           Len(job[j].todo) # 1 => Tail(job[j].todo) # <<>>,
           NEW e \in BOOLEAN, NEW v, v = Advance(j, e)
    PROVE  Goes(job[j], v)
<1> DEFINE x == job[j]
<1> HIDE DEF x
<1>1. IsJob(x) /\ x.pc = "running" /\ x.res = None
      /\ (Len(x.todo) # 1 => Tail(x.todo) # <<>>)
  BY DEF x
<1>2. CASE v = End(j, "failed") \/ v = End(j, "ok")
  BY <1>2, EndGoes
<1>3. CASE v = [x EXCEPT !.todo = Tail(x.todo)] /\ Len(x.todo) # 1
  <2>1. Goes(x, v)
    BY <1>1, <1>3 DEF IsJob, Goes
  <2> QED BY <2>1 DEF x
<1> QED BY <1>2, <1>3 DEF Advance, x

\* Its row after a step.
LEMMA GoesRow ==
    ASSUME NEW x, NEW v, NEW pr, NEW pcs, NEW new, NEW ct, GateRow(x, pr, pcs, ct),
           x.pc = "running", Goes(x, v), ProcsGo(pcs, new), v.pc = "running" => Vetted(v, ct)
    PROVE  GateRow(v, pr, new, ct)
<1>1. StepsOk(pr, v.cfg, v.req, v.todo)
  <2>1. PICK S : x.todo \in Seq(S) /\ \A s \in S : Granted(pr, x.cfg, x.req, s)
    BY DEF GateRow, StepsOk
  <2>2. x.todo # <<>>
    BY DEF GateRow
  <2>3. Tail(x.todo) \in Seq(S) /\ <<>> \in Seq(S)
    BY <2>1, <2>2
  <2>4. v.todo \in Seq(S)
    BY <2>3 DEF Goes
  <2> QED BY <2>1, <2>4 DEF StepsOk, Goes
<1>2. \A h \in v.held : HeldOk(h, v.req, new)
  BY DEF GateRow, Goes, ProcsGo
<1> QED BY <1>1, <1>2, SystemAssumption DEF GateRow, Goes

\* What is known of the source stays known once it is checked.
LEMMA VettedOn ==
    ASSUME NEW x, NEW v, NEW ct, Vetted(x, ct), Goes(x, v), v.pc = "running",
           Head(x.todo).kind \notin {"verify", "team"}
    PROVE  Vetted(v, ct)
<1>1. x.req.verb # "install_pkg"
  <2> SUFFICES ASSUME x.req.verb = "install_pkg" PROVE FALSE
    OBVIOUS
  <2>1. PICK a, b : a = ReadPkgTeam(x.req) /\ b = Launch(x.req)
    OBVIOUS
  <2>2. x.todo \in {<<a, b>>, <<b>>} /\ a.kind = "team"
    BY <2>1 DEF Vetted, PkgSteps, ReadPkgTeam, Step
  <2>3. Head(<<a, b>>) = a /\ Tail(<<b>>) = <<>>
    OBVIOUS
  <2> QED BY <2>2, <2>3 DEF Goes
<1>2. v.req = x.req /\ v.cfg = x.cfg /\ v.swapped = x.swapped
  BY DEF Goes
<1> QED BY <1>1, <1>2 DEF Vetted

\* What was done stays so as long as the request is the same.
LEMMA DoneSame ==
    ASSUME NEW d, NEW x, NEW v, NEW pr, DoneRow(d, x, pr), v.req = x.req, v.cfg = x.cfg
    PROVE  DoneRow(d, v, pr)
BY DEF DoneRow

LEMMA LaunchSame ==
    ASSUME NEW l, NEW x, NEW v, NEW ct, LaunchRow(l, x, ct), v.req = x.req, v.cfg = x.cfg,
           v.swapped = x.swapped
    PROVE  LaunchRow(l, v, ct)
BY DEF LaunchRow, PkgVetted

LEMMA RowKept ==
    ASSUME NEW x, NEW pr, NEW pcs, NEW new, NEW ct, GateRow(x, pr, pcs, ct), ProcsGo(pcs, new)
    PROVE  GateRow(x, pr, new, ct)
BY DEF GateRow, ProcsGo

\* The effect of a step of one request.
LEMMA GateRowSet ==
    ASSUME SystemInv, GateInv, NEW j \in Jobs, job[j].pc = "running", NEW v,
           job' = [job EXCEPT ![j] = v], GateRow(v, priv, procs', content), v.pc # "new",
           v.req = job[j].req, v.cfg = job[j].cfg, v.swapped = job[j].swapped,
           UNCHANGED <<priv, content, replaced>>, ProcsGo(procs, procs'),
           \A at \in DOMAIN installed' : installed'[at] \subseteq Kinds,
           \A l \in launched' : l \in launched \/ (l.job = j /\ LaunchRow(l, job[j], content)),
           \A d \in done' : d \in done \/ (d.job = j /\ DoneRow(d, job[j], priv))
    PROVE  GateInv'
<1>1. DOMAIN job' = Jobs /\ job'[j] = v /\ \A k \in Jobs \ {j} : job'[k] = job[k]
  BY DEF SystemInv
<1>2. v.req = job[j].req /\ v.cfg = job[j].cfg /\ v.swapped = job[j].swapped /\ v.pc # "new"
  OBVIOUS
<1>3. ASSUME NEW k \in Jobs PROVE GateRow(job'[k], priv, procs', content)
  <2>1. GateRow(job[k], priv, procs, content)
    BY DEF GateInv
  <2>2. CASE k = j
    BY <1>1, <2>2
  <2>3. CASE k # j
    <3>1. GateRow(job[k], priv, procs', content)
      BY <2>1, RowKept
    <3> QED BY <1>1, <2>3, <3>1
  <2> QED BY <2>2, <2>3
<1>4. ASSUME NEW l \in launched'
      PROVE  l.job \in Jobs /\ job'[l.job].pc # "new" /\ LaunchRow(l, job'[l.job], content)
  <2>1. l.job \in Jobs /\ job[l.job].pc # "new" /\ LaunchRow(l, job[l.job], content)
    BY DEF GateInv
  <2>2. CASE l.job = j
    <3>1. LaunchRow(l, v, content)
      BY <1>2, <2>1, <2>2, LaunchSame
    <3> QED BY <1>1, <1>2, <2>2, <3>1
  <2>3. CASE l.job # j
    BY <1>1, <2>1, <2>3
  <2> QED BY <2>2, <2>3
<1>5. ASSUME NEW d \in done'
      PROVE  d.job \in Jobs /\ job'[d.job].pc # "new" /\ DoneRow(d, job'[d.job], priv)
  <2>1. d.job \in Jobs /\ job[d.job].pc # "new" /\ DoneRow(d, job[d.job], priv)
    BY DEF GateInv
  <2>2. CASE d.job = j
    <3>1. DoneRow(d, v, priv)
      BY <1>2, <2>1, <2>2, DoneSame
    <3> QED BY <1>1, <1>2, <2>2, <3>1
  <2>3. CASE d.job # j
    BY <1>1, <2>1, <2>3
  <2> QED BY <2>2, <2>3
<1>6. StaticInv'
  BY DEF GateInv, StaticInv, ProcsGo
<1> QED BY <1>3, <1>4, <1>5, <1>6 DEF GateInv

LEMMA GateSet ==
    ASSUME SystemInv, GateInv, NEW j \in Jobs, job[j].pc = "running", NEW v,
           job' = [job EXCEPT ![j] = v], Goes(job[j], v), v.pc = "running" => Vetted(v, content),
           UNCHANGED <<priv, content, replaced>>, ProcsGo(procs, procs'),
           \A at \in DOMAIN installed' : installed'[at] \subseteq Kinds,
           \A l \in launched' : l \in launched \/ (l.job = j /\ LaunchRow(l, job[j], content)),
           \A d \in done' : d \in done \/ (d.job = j /\ DoneRow(d, job[j], priv))
    PROVE  GateInv'
<1>1. GateRow(job[j], priv, procs, content)
  BY DEF GateInv
<1>2. GateRow(v, priv, procs', content)
  BY <1>1, GoesRow
<1>3. v.req = job[j].req /\ v.cfg = job[j].cfg /\ v.swapped = job[j].swapped /\ v.pc # "new"
  BY DEF Goes
<1> QED BY <1>2, <1>3, GateRowSet

\* What is known of the request that makes a step.
LEMMA GateOfJob ==
    ASSUME SystemInv, GateInv, NEW j \in Jobs, job[j].pc = "running"
    PROVE  /\ IsJob(job[j]) /\ job[j].res = None
           /\ GateRow(job[j], priv, procs, content) /\ Vetted(job[j], content)
           /\ Granted(priv, job[j].cfg, job[j].req, NextStep(j))
           /\ Len(job[j].todo) # 1 => Tail(job[j].todo) # <<>>
<1>1. GateRow(job[j], priv, procs, content)
  BY DEF GateInv
<1> QED BY <1>1, RowOfJob, NextGranted DEF NextStep

\* A step that was run is within the configuration, and one that was run with
\* privilege is a program that passed the check.
LEMMA RecordRow ==
    ASSUME SystemInv, GateInv, NEW j \in Jobs, job[j].pc = "running",
           NextStep(j).kind \notin {"victim", "placed", "package"},
           NextStep(j).sudo => Runnable(NextStep(j)), Record(j), NEW d \in done'
    PROVE  d \in done \/ (d.job = j /\ DoneRow(d, job[j], priv))
<1>1. PICK s : s = NextStep(j)
  OBVIOUS
<1>2. Granted(priv, job[j].cfg, job[j].req, s)
  BY <1>1, GateOfJob
<1> DEFINE was == \E p \in Programs(s.kind, s.arg) : replaced[p] > 0
<1>3. s.sudo /\ was => Programs(s.kind, s.arg) \subseteq Loose
  <2> SUFFICES ASSUME s.sudo, was PROVE Programs(s.kind, s.arg) \subseteq Loose
    OBVIOUS
  <2>1. /\ s.arg[1] \in Paths /\ RequireSudoSafe(Binaries[s.arg[1]])
        /\ s.kind \in {"manager", "custom"}
    BY <1>1, <1>2 DEF Granted, Runnable
  <2>2. Programs(s.kind, s.arg) = {s.arg[1]}
    BY <2>1 DEF Programs
  <2>3. replaced[s.arg[1]] > 0
    BY <2>2
  <2>4. Replaceable(s.arg[1])
    BY <2>1, <2>3 DEF GateInv, StaticInv
  <2>5. s.arg[1] \in Loose
    BY <2>1, <2>4 DEF RequireSudoSafe, RequireRootOwnedDir, Replaceable
  <2> QED BY <2>2, <2>5
<1>4. PICK r : r = [job |-> j, kind |-> s.kind, arg |-> s.arg, sudo |-> s.sudo,
                    tampered |-> was]
  OBVIOUS
<1>5. done' = done \cup {r}
  BY <1>1, <1>4 DEF Record
<1>6. /\ r.job = j /\ r.kind = s.kind /\ r.arg = s.arg /\ (r.sudo <=> s.sudo)
      /\ r.tampered <=> was
  BY <1>4
<1> HIDE DEF was
<1>7. DoneRow(r, job[j], priv)
  BY <1>1, <1>2, <1>3, <1>6 DEF DoneRow, Granted
<1> QED BY <1>5, <1>6, <1>7

\* A step that advances a request and leaves the disk alone.
LEMMA AdvanceGate ==
    ASSUME SystemInv, GateInv, NEW j \in Jobs, job[j].pc = "running", NEW e \in BOOLEAN,
           job' = [job EXCEPT ![j] = Advance(j, e)],
           NextStep(j).kind \notin {"verify", "team"},
           UNCHANGED <<priv, content, replaced, installed>>, ProcsGo(procs, procs'),
           \A l \in launched' : l \in launched \/ (l.job = j /\ LaunchRow(l, job[j], content)),
           \A d \in done' : d \in done \/ (d.job = j /\ DoneRow(d, job[j], priv))
    PROVE  GateInv'
<1>1. PICK v : v = Advance(j, e)
  OBVIOUS
<1>2. job' = [job EXCEPT ![j] = v]
  BY <1>1
<1>3. Goes(job[j], v)
  BY <1>1, GateOfJob, AdvanceGoes
<1>4. v.pc = "running" => Vetted(v, content)
  BY <1>3, GateOfJob, VettedOn DEF NextStep
<1>5. \A at \in DOMAIN installed' : installed'[at] \subseteq Kinds
  BY DEF GateInv, StaticInv
<1> QED BY <1>2, <1>3, <1>4, <1>5, GateSet

LEMMA RunGate ==
    ASSUME SystemInv, GateInv, NEW j \in Jobs, RunProgram(j)
    PROVE  GateInv'
<1>1. /\ job[j].pc = "running"
      /\ NextStep(j).kind \notin {"verify", "team", "victim", "placed", "package"}
      /\ UNCHANGED <<priv, content, replaced, installed, procs, launched>>
  BY DEF RunProgram, Ready
<1>2. PICK e \in BOOLEAN : job' = [job EXCEPT ![j] = Advance(j, e)]
  BY DEF RunProgram
<1>3. \A d \in done' : d \in done \/ (d.job = j /\ DoneRow(d, job[j], priv))
  <2>1. CASE Runnable(NextStep(j))
    <3>1. Record(j)
      BY <2>1 DEF RunProgram
    <3> QED BY <1>1, <2>1, <3>1, RecordRow
  <2>2. CASE ~Runnable(NextStep(j))
    BY <2>2 DEF RunProgram
  <2> QED BY <2>1, <2>2
<1>4. ProcsGo(procs, procs')
  BY <1>1, SameProcs DEF GateInv
<1> QED BY <1>1, <1>2, <1>3, <1>4, AdvanceGate

\* Signals, removals and links are never privileged.
LEMMA PlainRecord ==
    ASSUME SystemInv, GateInv, NEW j \in Jobs, job[j].pc = "running",
           NextStep(j).kind \in {"pkill", "killall", "killpid", "release", "rm-rf", "rm-f", "ln"},
           Record(j)
    PROVE  \A d \in done' : d \in done \/ (d.job = j /\ DoneRow(d, job[j], priv))
<1>1. ~NextStep(j).sudo
  BY GateOfJob DEF Granted
<1> QED BY <1>1, RecordRow

LEMMA SignalGate ==
    ASSUME SystemInv, GateInv, NEW j \in Jobs, SendSignal(j)
    PROVE  GateInv'
<1>1. /\ job[j].pc = "running" /\ NextStep(j).kind \in {"pkill", "killall", "killpid"}
      /\ UNCHANGED <<priv, content, replaced, installed, launched>> /\ Record(j)
  BY DEF SendSignal, Ready
<1>2. PICK hit : procs' = Kill(hit) /\ job' = [job EXCEPT ![j] = Advance(j, hit # {})]
  BY DEF SendSignal
<1>3. PICK e \in BOOLEAN : e = (hit # {})
  OBVIOUS
<1>4. job' = [job EXCEPT ![j] = Advance(j, e)]
  BY <1>2, <1>3
<1>5. ProcsGo(procs, procs')
  BY <1>2, KillGo DEF GateInv
<1>6. \A d \in done' : d \in done \/ (d.job = j /\ DoneRow(d, job[j], priv))
  BY <1>1, PlainRecord
<1> QED BY <1>1, <1>4, <1>5, <1>6, AdvanceGate

\* The installer is launched for a package that was vetted.
LEMMA InstallerGate ==
    ASSUME SystemInv, GateInv, NEW j \in Jobs, realLaunchInstaller(j)
    PROVE  GateInv'
<1>1. /\ job[j].pc = "running" /\ NextStep(j).kind = "installer"
      /\ UNCHANGED <<priv, content, replaced, installed, procs, done>>
  BY DEF realLaunchInstaller, Ready
<1>2. PICK e \in BOOLEAN :
        /\ job' = [job EXCEPT ![j] = Advance(j, e)]
        /\ \A l \in launched' :
            l \in launched \/ l = [job |-> j, path |-> NextStep(j).arg[1]]
  BY DEF realLaunchInstaller
<1>3. /\ job[j].req.verb = "install_pkg" /\ NextStep(j).arg[1] = job[j].req.pkg
      /\ job[j].req.pkg \in Paths /\ PkgVetted(job[j], content)
  BY <1>1, GateOfJob DEF Granted, Origin, Vetted, NextStep
<1>4. ASSUME NEW l, l = [job |-> j, path |-> job[j].req.pkg]
      PROVE  l.job = j /\ LaunchRow(l, job[j], content)
  BY <1>3, <1>4 DEF LaunchRow
<1>5. \A l \in launched' : l \in launched \/ (l.job = j /\ LaunchRow(l, job[j], content))
  BY <1>2, <1>3, <1>4
<1>6. ProcsGo(procs, procs')
  BY <1>1, SameProcs DEF GateInv
<1> QED BY <1>1, <1>2, <1>5, <1>6, AdvanceGate


\* The processes on the port are found: the request will signal these.
LEMMA HoldersGate ==
    ASSUME SystemInv, GateInv, NEW j \in Jobs, ListHolders(j)
    PROVE  GateInv'
<1> DEFINE x == job[j]
           port == NextStep(j).arg[1]
           pids == {p \in Pids : procs[p].port = port}
           held == {<<p, procs[p].gen>> : p \in pids}
<1>1. /\ job[j].pc = "running" /\ NextStep(j).kind = "release" /\ Record(j)
      /\ UNCHANGED <<priv, content, replaced, installed, procs, launched>>
  BY DEF ListHolders, Ready
<1>2. PICK e \in BOOLEAN :
        job' = [job EXCEPT ![j] =
                    IF ~e THEN End(j, "failed") ELSE IF pids = {} THEN End(j, "ok")
                    ELSE [job[j] EXCEPT !.todo = Run("kill", <<port>>), !.held = held]]
  BY DEF ListHolders
<1>3. \A d \in done' : d \in done \/ (d.job = j /\ DoneRow(d, job[j], priv))
  BY <1>1, PlainRecord
<1>4. /\ ProcsGo(procs, procs')
      /\ \A at \in DOMAIN installed' : installed'[at] \subseteq Kinds
  BY <1>1, SameProcs DEF GateInv, StaticInv
<1>5. CASE ~e \/ pids = {}
  <2>1. PICK v : job' = [job EXCEPT ![j] = v] /\ (v = End(j, "failed") \/ v = End(j, "ok"))
    <3> HIDE DEF pids, held, port
    <3> QED BY <1>2, <1>5
  <2>2. Goes(job[j], v) /\ v.pc = "done"
    BY <1>1, <2>1, GateOfJob, EndGoes
  <2> QED BY <1>1, <1>3, <1>4, <2>1, <2>2, GateSet
<1>6. CASE e /\ pids # {}
  <2>1. PICK s : s = [kind |-> "kill", arg |-> <<port>>, sudo |-> FALSE, tolerated |-> FALSE]
    OBVIOUS
  <2>2. Run("kill", <<port>>) = <<s>>
    BY <2>1 DEF Run, Step
  <2>3. PICK v : v = [x EXCEPT !.todo = <<s>>, !.held = held]
    OBVIOUS
  <2>4. job' = [job EXCEPT ![j] = v]
    <3> HIDE DEF pids, held, port
    <3> QED BY <1>2, <1>6, <2>2, <2>3
  <2>5. IsJob(x) /\ x.res = None /\ x.pc = "running"
    BY <1>1, GateOfJob
  <2>6. /\ v.req = x.req /\ v.cfg = x.cfg /\ v.swapped = x.swapped /\ v.pc = "running"
        /\ v.res = None /\ v.todo = <<s>> /\ v.held = held
    <3> HIDE DEF x, held
    <3> QED BY <2>3, <2>5 DEF IsJob
  <2>7. port = x.req.port /\ AllowsListed(x.cfg, "ports", x.req.port)
    BY <1>1, GateOfJob DEF Granted
  <2>8. Granted(priv, x.cfg, x.req, s)
    BY <2>1, <2>7 DEF Granted, Within
  <2>9. StepsOk(priv, v.cfg, v.req, v.todo)
    BY <2>6, <2>8, OneStep
  <2>10. ASSUME NEW h \in held PROVE HeldOk(h, x.req, procs)
    <3>1. PICK p \in pids : h = <<p, procs[p].gen>>
      OBVIOUS
    <3>2. h[1] = p /\ h[2] = procs[p].gen /\ p \in Pids /\ procs[p].port = port
      BY <3>1
    <3>3. procs[p].gen \in Nat
      BY <3>2 DEF GateInv, StaticInv, IsProc
    <3> QED BY <2>7, <3>2, <3>3 DEF HeldOk
  <2>11. x.swapped => Sourced(x.req) /\ Replaceable(Origin(x.req))
    BY <1>1, GateOfJob DEF GateRow
  <2>12. Vetted(v, content)
    <3>1. ~Places(x.req) /\ x.req.verb # "install_pkg"
      <4>1. ~Places(x.req)
        BY <1>1, NotPlacing
      <4>2. ASSUME x.req.verb = "install_pkg" PROVE FALSE
        <5>1. PICK a, b : a = ReadPkgTeam(x.req) /\ b = Launch(x.req)
          OBVIOUS
        <5>2. x.todo \in {<<a, b>>, <<b>>} /\ a.kind = "team" /\ b.kind = "installer"
          BY <1>1, <4>2, <5>1, GateOfJob DEF Vetted, PkgSteps, ReadPkgTeam, Launch, Step
        <5>3. Head(<<a, b>>) = a /\ Head(<<b>>) = b
          OBVIOUS
        <5> QED BY <1>1, <5>2, <5>3 DEF NextStep
      <4> QED BY <4>1, <4>2
    <3> QED BY <2>6, <3>1 DEF Vetted
  <2>13. GateRow(v, priv, procs, content)
    <3>1. v.todo # <<>>
      BY <2>6
    <3>2. \A h \in v.held : HeldOk(h, v.req, procs)
      <4> HIDE DEF held, x
      <4> QED BY <2>6, <2>10
    <3> HIDE DEF x, held
    <3> QED BY <2>6, <2>9, <2>11, <2>12, <3>1, <3>2 DEF GateRow
  <2>14. v.pc # "new"
    BY <2>6
  <2> HIDE DEF held, pids, port
  <2> QED BY <1>1, <1>3, <1>4, <2>4, <2>6, <2>13, <2>14, GateRowSet
<1> QED BY <1>5, <1>6

\* Only processes found on the port are signalled, or successors of theirs.
LEMMA VictimsGate ==
    ASSUME SystemInv, GateInv, NEW j \in Jobs, KillHolders(j)
    PROVE  GateInv'
<1> DEFINE x == job[j]
           row(h) == [job |-> j, kind |-> "victim", sudo |-> FALSE, tampered |-> FALSE,
                      arg |-> <<job[j].req.port, procs[h[1]].port,
                                IF procs[h[1]].gen = h[2] THEN "same" ELSE "recycled">>]
<1>1. /\ job[j].pc = "running" /\ NextStep(j).kind = "kill"
      /\ UNCHANGED <<priv, content, replaced, installed, launched>>
      /\ procs' = Kill({h[1] : h \in job[j].held})
      /\ done' = done \cup {row(h) : h \in {y \in job[j].held : procs[y[1]].name # Gone}}
  BY DEF KillHolders, Ready
<1>2. PICK e \in BOOLEAN : job' = [job EXCEPT ![j] = Advance(j, e)]
  BY DEF KillHolders
<1>3. ProcsGo(procs, procs')
  BY <1>1, KillGo DEF GateInv
<1>4. AllowsListed(x.cfg, "ports", x.req.port)
  BY <1>1, GateOfJob DEF Granted
<1>5. ASSUME NEW h \in x.held, procs[h[1]].name # Gone, NEW d, d = row(h)
      PROVE  d.job = j /\ DoneRow(d, x, priv)
  <2>1. HeldOk(h, x.req, procs)
    BY <1>1, GateOfJob DEF GateRow
  <2>2. procs[h[1]].gen = h[2] => procs[h[1]].port = x.req.port
    BY <1>5, <2>1 DEF HeldOk
  <2>3. PICK a : a = <<x.req.port, procs[h[1]].port,
                       IF procs[h[1]].gen = h[2] THEN "same" ELSE "recycled">>
    OBVIOUS
  <2>4. a[1] = x.req.port /\ (a[3] = "same" => a[2] = a[1])
    BY <2>2, <2>3
  <2>5. d.job = j /\ d.kind = "victim" /\ d.arg = a /\ d.sudo = FALSE
    BY <1>5, <2>3
  <2> QED BY <1>4, <2>4, <2>5 DEF DoneRow, Within
<1>6. \A d \in done' : d \in done \/ (d.job = j /\ DoneRow(d, job[j], priv))
  <2> SUFFICES ASSUME NEW d \in done', d \notin done
               PROVE  d.job = j /\ DoneRow(d, job[j], priv)
    OBVIOUS
  <2>1. PICK h \in x.held : procs[h[1]].name # Gone /\ d = row(h)
    BY <1>1
  <2> HIDE DEF row
  <2> QED BY <1>5, <2>1
<1> QED BY <1>1, <1>2, <1>3, <1>6, AdvanceGate

\* A step that changes what lies at a place.
LEMMA PlaceGate ==
    ASSUME SystemInv, GateInv, NEW j \in Jobs, job[j].pc = "running", NEW at, NEW new,
           at \in DOMAIN installed => new \subseteq Kinds, NEW e \in BOOLEAN,
           Place(j, at, new, e), NextStep(j).kind \notin {"verify", "team"},
           \A d \in done' : d \in done \/ (d.job = j /\ DoneRow(d, job[j], priv))
    PROVE  GateInv'
<1>1. PICK a, v : /\ a = Advance(j, e)
                  /\ v = [a EXCEPT !.left = new,
                            !.rmFailed = @ \/ (NextStep(j).tolerated /\ ~e)]
  OBVIOUS
<1>2. /\ job' = [job EXCEPT ![j] = v] /\ installed' = [installed EXCEPT ![at] = new]
      /\ UNCHANGED <<priv, content, replaced, procs, launched>>
  BY <1>1 DEF Place
<1>3. Goes(job[j], a) /\ IsJob(a)
  BY <1>1, GateOfJob, AdvanceGoes, AdvanceRow
<1>4. Goes(job[j], v)
  <2>1. /\ v.req = a.req /\ v.cfg = a.cfg /\ v.held = a.held /\ v.swapped = a.swapped
        /\ v.pc = a.pc /\ v.todo = a.todo /\ v.res = a.res
    BY <1>1, <1>3 DEF IsJob
  <2> QED BY <1>3, <2>1 DEF Goes
<1>5. v.pc = "running" => Vetted(v, content)
  BY <1>4, GateOfJob, VettedOn DEF NextStep
<1>6. \A k \in DOMAIN installed' : installed'[k] \subseteq Kinds
  BY <1>2 DEF GateInv, StaticInv
<1>7. ProcsGo(procs, procs')
  BY <1>2, SameProcs DEF GateInv
<1> QED BY <1>2, <1>4, <1>5, <1>6, <1>7, GateSet


LEMMA RemoveGate ==
    ASSUME SystemInv, GateInv, NEW j \in Jobs, RemoveOld(j)
    PROVE  GateInv'
<1>1. job[j].pc = "running" /\ NextStep(j).kind \in {"rm-rf", "rm-f"} /\ Record(j)
  BY DEF RemoveOld, Ready
<1>2. PICK at, new : /\ at \in DOMAIN installed => new \subseteq Kinds
                     /\ \E e \in BOOLEAN : Place(j, at, new, e)
  <2>1. PICK at : Place(j, at, {}, TRUE) \/ Place(j, at, installed[at], FALSE)
    BY DEF RemoveOld
  <2>2. at \in DOMAIN installed => installed[at] \subseteq Kinds
    BY DEF GateInv, StaticInv
  <2> QED BY <2>1, <2>2
<1>3. PICK e \in BOOLEAN : Place(j, at, new, e)
  BY <1>2
<1>4. \A d \in done' : d \in done \/ (d.job = j /\ DoneRow(d, job[j], priv))
  BY <1>1, PlainRecord
<1>5. NextStep(j).kind \notin {"verify", "team"}
  BY <1>1
<1> QED BY <1>1, <1>2, <1>3, <1>4, <1>5, PlaceGate

LEMMA LinkGate ==
    ASSUME SystemInv, GateInv, NEW j \in Jobs, LinkBundle(j)
    PROVE  GateInv'
<1>1. job[j].pc = "running" /\ NextStep(j).kind = "ln" /\ Record(j)
  BY DEF LinkBundle, Ready
<1>2. PICK at, new : /\ at \in DOMAIN installed => new \subseteq Kinds
                     /\ \E e \in BOOLEAN : Place(j, at, new, e)
  <2>1. PICK at : \/ Place(j, at, IF Bundles(installed[at]) = {} THEN {"link"}
                                  ELSE installed[at] \cup {"inner"}, TRUE)
                  \/ Place(j, at, installed[at], FALSE)
    BY DEF LinkBundle
  <2>2. PICK n : n = IF Bundles(installed[at]) = {} THEN {"link"}
                     ELSE installed[at] \cup {"inner"}
    OBVIOUS
  <2>3. at \in DOMAIN installed => installed[at] \subseteq Kinds /\ n \subseteq Kinds
    BY <2>2 DEF GateInv, StaticInv, Kinds
  <2>4. Place(j, at, n, TRUE) \/ Place(j, at, installed[at], FALSE)
    BY <2>1, <2>2
  <2> QED BY <2>3, <2>4
<1>3. PICK e \in BOOLEAN : Place(j, at, new, e)
  BY <1>2
<1>4. \A d \in done' : d \in done \/ (d.job = j /\ DoneRow(d, job[j], priv))
  BY <1>1, PlainRecord
<1>5. NextStep(j).kind \notin {"verify", "team"}
  BY <1>1
<1> QED BY <1>1, <1>2, <1>3, <1>4, <1>5, PlaceGate

\* A source that root owns can be swapped only where the check does not look.
LEMMA SwapBehindLink ==
    ASSUME NEW path, Replaceable(path), RootOwnedSource(path)
    PROVE  Unseen(path)
BY DEF Unseen, Replaceable, RootOwnedSource, requireRootOwnedFile, RequireRootOwnedDir

LEMMA CopyGate ==
    ASSUME SystemInv, GateInv, NEW j \in Jobs, CopyBundle(j)
    PROVE  GateInv'
<1> DEFINE x == job[j]
           at == Tail(NextStep(j).arg)
           c == content[NextStep(j).arg[1]]
<1>1. job[j].pc = "running" /\ NextStep(j).kind = "ditto"
  BY DEF CopyBundle, Ready
<1>2. Places(x.req) /\ x.req.op = "install"
  BY <1>1, GateOfJob DEF Granted
<1>3. PICK dir \in ToSet(DirOrder) : x.req.source \in Paths /\ x.todo \in Remaining(x.req, dir)
  BY <1>1, <1>2, RowOfJob DEF PlacingRow
<1>4. NextStep(j) = PutNew(x.req, dir)
  <2>1. ClearOld(x.req, dir).kind \in {"rm-rf", "rm-f"}
    BY DEF ClearOld
  <2> QED BY <1>1, <1>3, <2>1, RemainingSteps DEF NextStep
<1>5. NextStep(j).arg = <<x.req.source, dir, x.req.name>>
  BY <1>4 DEF PutNew
<1>6. c = content[x.req.source] /\ at = <<dir, x.req.name>>
  BY <1>5
<1>7. c \in Contents
  BY <1>3, <1>6 DEF SystemInv
<1>8. PICK new : /\ at \in DOMAIN installed => new \subseteq Kinds
                 /\ \E e \in BOOLEAN : Place(j, at, new, e)
  <2>1. PICK n : /\ n = installed[at] \cup {c} \/ n = installed[at] \cup {"part"}
                 /\ \E e \in BOOLEAN : Place(j, at, n, e)
    <3> HIDE DEF c, at
    <3>1. Place(j, at, installed[at] \cup {c}, TRUE) \/ Place(j, at, installed[at] \cup {"part"}, FALSE)
      BY DEF CopyBundle, c, at
    <3> QED BY <3>1
  <2>2. at \in DOMAIN installed => installed[at] \subseteq Kinds
    BY DEF GateInv, StaticInv
  <2>3. c \in Kinds /\ "part" \in Kinds
    BY <1>7 DEF Kinds
  <2>4. at \in DOMAIN installed => n \subseteq Kinds
    <3> HIDE DEF c, at
    <3> QED BY <2>1, <2>2, <2>3
  <2> HIDE DEF c, at
  <2> QED BY <2>1, <2>4
<1>9. PICK e \in BOOLEAN : Place(j, at, new, e)
  BY <1>8
<1>10. PICK r, a : /\ a = <<c>> \o at
                   /\ r = [job |-> j, kind |-> "placed", sudo |-> FALSE,
                           tampered |-> job[j].swapped, arg |-> a]
  OBVIOUS
<1>11. done' = done \cup {r}
  BY <1>10 DEF CopyBundle
<1>12. a[1] = c
  <2>1. PICK dd, n : a = <<c>> \o <<dd, n>>
    BY <1>6, <1>10
  <2> HIDE DEF c
  <2> QED BY <2>1
<1>13. /\ r.job = j /\ r.kind = "placed" /\ r.sudo = FALSE /\ r.arg[1] = c
       /\ r.tampered <=> x.swapped
  BY <1>10, <1>12
<1>14. ASSUME ListOf(x.cfg, "appteams") # {}
       PROVE  \/ c \in Signed /\ TeamOf[c] \in ListOf(x.cfg, "appteams")
              \/ x.swapped /\ (~Flag(x.cfg, "root_source") \/ Unseen(x.req.source))
  <2>1. Vetted(x, content) /\ Head(x.todo).kind = "ditto"
    BY <1>1, GateOfJob DEF NextStep
  <2>2. \/ x.swapped
        \/ c \in Signed /\ TeamOf[c] \in ListOf(x.cfg, "appteams")
    BY <1>2, <1>6, <1>14, <2>1 DEF Vetted
  <2>3. x.swapped => Replaceable(x.req.source)
    BY <1>1, <1>2, GateOfJob DEF GateRow, Origin, Places
  <2>4. Flag(x.cfg, "root_source") => RootOwnedSource(x.req.source)
    BY <1>2, <2>1 DEF Vetted
  <2> QED BY <2>2, <2>3, <2>4, SwapBehindLink
<1>15. DoneRow(r, x, priv)
  <2> HIDE DEF c, x
  <2> QED BY <1>13, <1>14 DEF DoneRow, Within
<1>16. \A d \in done' : d \in done \/ (d.job = j /\ DoneRow(d, job[j], priv))
  BY <1>11, <1>13, <1>15
<1>17. NextStep(j).kind \notin {"verify", "team"}
  BY <1>1
<1> HIDE DEF c, at
<1> QED BY <1>1, <1>8, <1>9, <1>16, <1>17, PlaceGate

\* A signature is read: what it showed is known of the source from now on.
LEMMA SignatureGate ==
    ASSUME SystemInv, GateInv, NEW j \in Jobs, CheckSignature(j)
    PROVE  GateInv'
<1> DEFINE x == job[j]
           q == job[j].req
           s == NextStep(j)
           ct == content[NextStep(j).arg[1]]
           ok == IF s.kind = "verify" THEN ct \in Signed
                 ELSE TeamOf[ct] \in ListOf(job[j].cfg, s.arg[2])
<1>1. /\ job[j].pc = "running" /\ s.kind \in {"verify", "team"}
      /\ UNCHANGED <<priv, content, replaced, installed, procs, launched, done>>
  BY DEF CheckSignature, Ready
<1>2. PICK v : /\ job' = [job EXCEPT ![j] = v]
               /\ (ok /\ v = Advance(j, TRUE)) \/ v = End(j, "refused")
  BY DEF CheckSignature
<1>3. Sourced(q) /\ s.arg[1] = Origin(q)
  BY <1>1, GateOfJob DEF Granted
<1>4. Goes(x, v)
  BY <1>1, <1>2, GateOfJob, AdvanceGoes, EndGoes
<1>5. Vetted(x, content)
  BY <1>1, GateOfJob
<1>6. ASSUME v.pc = "running" PROVE Vetted(v, content)
  <2>1. ok
    BY <1>1, <1>2, <1>6, GateOfJob, EndGoes
  <2>2. v.req = q /\ v.cfg = x.cfg /\ v.swapped = x.swapped /\ v.todo = Tail(x.todo)
    BY <1>4, <1>6 DEF Goes
  <2>3. CASE Places(q)
    <3>1. q.verb # "install_pkg" /\ ct = content[q.source]
      BY <1>3, <2>3 DEF Origin, Places
    <3>2. PICK dir \in ToSet(DirOrder) : x.todo \in Remaining(q, dir)
      BY <1>1, <2>3, RowOfJob DEF PlacingRow
    <3>3. PICK a, b, c, d : /\ a = VerifySource(q) /\ b = ReadTeam(q)
                            /\ c = ClearOld(q, dir) /\ d = PutNew(q, dir)
      OBVIOUS
    <3>4. /\ a.kind = "verify" /\ b.kind = "team" /\ b.arg[2] = "appteams"
          /\ c.kind \notin {"verify", "team"} /\ d.kind \notin {"verify", "team"}
      BY <3>3 DEF VerifySource, ReadTeam, Step, ClearOld, PutNew
    <3>5. x.todo \in {<<a, b, c, d>>, <<b, c, d>>, <<c, d>>, <<d>>}
      BY <3>2, <3>3 DEF Remaining
    <3>6. \/ s = a /\ Head(v.todo) = b
          \/ s = b /\ Head(v.todo) = c
      <4>1. x.todo = <<a, b, c, d>> => s = a /\ Tail(x.todo) = <<b, c, d>> /\ Head(Tail(x.todo)) = b
        BY DEF NextStep
      <4>2. x.todo = <<b, c, d>> => s = b /\ Tail(x.todo) = <<c, d>> /\ Head(Tail(x.todo)) = c
        BY DEF NextStep
      <4>3. x.todo = <<c, d>> => s = c
        BY DEF NextStep
      <4>4. x.todo = <<d>> => s = d
        BY DEF NextStep
      <4> HIDE DEF s, x
      <4> QED BY <1>1, <2>2, <3>4, <3>5, <4>1, <4>2, <4>3, <4>4
    <3>7. CASE s = a /\ Head(v.todo) = b
      <4>1. ct \in Signed
        BY <2>1, <3>4, <3>7
      <4> HIDE DEF ct, s, x, q
      <4> QED BY <1>5, <2>2, <2>3, <3>1, <3>4, <3>7, <4>1 DEF Vetted, q, x
    <3>8. CASE s = b /\ Head(v.todo) = c
      <4>1. TeamOf[ct] \in ListOf(x.cfg, "appteams")
        BY <2>1, <3>4, <3>8
      <4>2. Head(x.todo).kind = "team"
        BY <3>4, <3>8 DEF NextStep
      <4> HIDE DEF ct, s
      <4> QED BY <1>5, <2>2, <2>3, <3>1, <4>1, <4>2 DEF Vetted
    <3> QED BY <3>6, <3>7, <3>8
  <2>4. CASE ~Places(q)
    <3>1. q.verb = "install_pkg" /\ ct = content[q.pkg]
      BY <1>3, <2>4 DEF Sourced, Origin
    <3>2. PICK a, b : a = ReadPkgTeam(q) /\ b = Launch(q)
      OBVIOUS
    <3>3. a.kind = "team" /\ a.arg[2] = "pkgteams" /\ b.kind = "installer"
      BY <3>2 DEF ReadPkgTeam, Launch, Step
    <3>4. x.todo \in {<<a, b>>, <<b>>} /\ q.pkg \in Paths
      BY <1>5, <3>1, <3>2 DEF Vetted, PkgSteps
    <3>5. s = a /\ v.todo = <<b>>
      <4>1. x.todo = <<a, b>> => s = a /\ Tail(x.todo) = <<b>>
        BY DEF NextStep
      <4>2. x.todo = <<b>> => s = b
        BY DEF NextStep
      <4> HIDE DEF s, x
      <4> QED BY <1>1, <2>2, <3>3, <3>4, <4>1, <4>2
    <3>6. TeamOf[content[q.pkg]] \in ListOf(x.cfg, "pkgteams")
      BY <2>1, <3>1, <3>3, <3>5
    <3>7. v.todo \in PkgSteps(q)
      BY <3>2, <3>5 DEF PkgSteps
    <3>8. Flag(x.cfg, "root_pkg") => RootOwnedSource(q.pkg)
      BY <1>5, <3>1 DEF Vetted
    <3> HIDE DEF s, ct
    <3> QED BY <2>2, <2>4, <3>1, <3>4, <3>6, <3>7, <3>8 DEF Vetted, PkgVetted
  <2> QED BY <2>3, <2>4
<1>7. /\ ProcsGo(procs, procs')
      /\ \A k \in DOMAIN installed' : installed'[k] \subseteq Kinds
  BY <1>1, SameProcs DEF GateInv, StaticInv
<1> QED BY <1>1, <1>2, <1>4, <1>6, <1>7, GateSet


\* The installer reads a package that was vetted before it was launched.
LEMMA ReadGate ==
    ASSUME SystemInv, GateInv, NEW l \in launched, InstallerReads(l)
    PROVE  GateInv'
<1> DEFINE x == job[l.job]
<1>1. /\ launched' \subseteq launched
      /\ UNCHANGED <<priv, content, replaced, installed, procs, job>>
  BY DEF InstallerReads
<1>2. l.job \in Jobs /\ x.pc # "new" /\ LaunchRow(l, x, content)
  BY DEF GateInv
<1>3. PICK r, a : /\ a = <<content[l.path]>>
                  /\ r = [job |-> l.job, kind |-> "package", sudo |-> FALSE,
                          tampered |-> job[l.job].swapped, arg |-> a]
  OBVIOUS
<1>4. done' = done \cup {r}
  BY <1>3 DEF InstallerReads
<1>5. l.path = x.req.pkg /\ x.req.verb = "install_pkg" /\ PkgVetted(x, content)
  <2>1. PICK m : m = [job |-> l.job, path |-> x.req.pkg]
    OBVIOUS
  <2>2. m.path = x.req.pkg /\ l = m
    BY <1>2, <2>1 DEF LaunchRow
  <2> QED BY <1>2, <2>2 DEF LaunchRow
<1>6. /\ r.job = l.job /\ r.kind = "package" /\ r.sudo = FALSE /\ r.arg[1] = content[x.req.pkg]
      /\ r.tampered <=> x.swapped
  BY <1>3, <1>5
<1>7. x.swapped => Replaceable(x.req.pkg)
  BY <1>2, <1>5 DEF GateInv, GateRow, Origin
<1>8. x.swapped /\ Flag(x.cfg, "root_pkg") => Unseen(x.req.pkg)
  BY <1>5, <1>7, SwapBehindLink DEF PkgVetted
<1>9. DoneRow(r, x, priv)
  <2> HIDE DEF x
  <2> QED BY <1>5, <1>6, <1>8 DEF DoneRow, Within, PkgVetted
<1>10. \A d \in done' : d.job \in Jobs /\ job[d.job].pc # "new" /\ DoneRow(d, job[d.job], priv)
  <2>1. \A d \in done : d.job \in Jobs /\ job[d.job].pc # "new" /\ DoneRow(d, job[d.job], priv)
    BY DEF GateInv
  <2> QED BY <1>2, <1>4, <1>6, <1>9, <2>1
<1>11. StaticInv'
  BY <1>1 DEF GateInv, StaticInv
<1>12. \A k \in Jobs : GateRow(job[k], priv, procs, content)
  BY DEF GateInv
<1>13. \A m \in launched' :
            m.job \in Jobs /\ job[m.job].pc # "new" /\ LaunchRow(m, job[m.job], content)
  BY <1>1 DEF GateInv
<1> QED BY <1>1, <1>10, <1>11, <1>12, <1>13 DEF GateInv

\* A step that leaves the requests and their rows alone.
LEMMA GateKept ==
    ASSUME GateInv, UNCHANGED <<priv, content, replaced, installed, job, launched, done>>,
           ProcsGo(procs, procs')
    PROVE  GateInv'
<1>1. \A k \in Jobs : GateRow(job[k], priv, procs', content)
  BY RowKept DEF GateInv
<1>2. StaticInv'
  BY DEF GateInv, StaticInv, ProcsGo
<1>3. \A l \in launched :
            l.job \in Jobs /\ job[l.job].pc # "new" /\ LaunchRow(l, job[l.job], content)
  BY DEF GateInv
<1>4. \A d \in done : d.job \in Jobs /\ job[d.job].pc # "new" /\ DoneRow(d, job[d.job], priv)
  BY DEF GateInv
<1> QED BY <1>1, <1>2, <1>3, <1>4 DEF GateInv

\* Another process takes over a pid.
LEMMA ForkGate ==
    ASSUME GateInv, NEW p \in Pids, NEW name, NEW port, Fork(p, name, port)
    PROVE  GateInv'
<1>1. UNCHANGED <<priv, content, replaced, installed, job, launched, done>>
  BY DEF Fork
<1>2. PICK r : r = [gen |-> procs[p].gen + 1, name |-> name, port |-> port]
  OBVIOUS
<1>3. procs' = [procs EXCEPT ![p] = r]
  BY <1>2 DEF Fork
<1>4. procs[p].gen \in Nat
  BY DEF GateInv, StaticInv, IsProc
<1>5. IsProc(r) /\ r.gen = procs[p].gen + 1
  BY <1>2, <1>4 DEF IsProc
<1>6. DOMAIN procs' = Pids /\ procs'[p] = r /\ \A k \in Pids \ {p} : procs'[k] = procs[k]
  BY <1>3 DEF GateInv, StaticInv
<1>7. \A k \in Pids : IsProc(procs'[k])
  BY <1>5, <1>6 DEF GateInv, StaticInv
<1>8. ASSUME NEW h, NEW q, HeldOk(h, q, procs) PROVE HeldOk(h, q, procs')
  <2>1. CASE h[1] = p
    BY <1>4, <1>5, <1>6, <1>8, <2>1 DEF HeldOk
  <2>2. CASE h[1] # p
    BY <1>6, <1>8, <2>2 DEF HeldOk
  <2> QED BY <2>1, <2>2
<1>9. ProcsGo(procs, procs')
  BY <1>6, <1>7, <1>8 DEF ProcsGo
<1> QED BY <1>1, <1>9, GateKept

\* The parts of a row that the gates look at.
Alike(x, v) ==
    /\ v.pc = x.pc /\ v.req = x.req /\ v.cfg = x.cfg /\ v.todo = x.todo
    /\ v.res = x.res /\ v.held = x.held

\* A file that a request depends on is not replaced unnoticed.
LEMMA SwapRow ==
    ASSUME SystemInv, GateInv, NEW path \in Paths, NEW c \in Contents, Replace(path, c),
           NEW j \in Jobs
    PROVE  /\ Alike(job[j], job'[j]) /\ (job[j].swapped => job'[j].swapped)
           /\ (Reads(j, path) => job'[j].swapped)
           /\ job'[j].swapped => job[j].swapped \/ Reads(j, path)
<1>1. PICK x, v : /\ x = job[j] /\ v = job'[j]
                  /\ v = IF Reads(j, path) THEN [x EXCEPT !.swapped = TRUE] ELSE x
  BY DEF Replace
<1>2. IsJob(x)
  BY <1>1 DEF SystemInv, JobRow
<1>3. CASE Reads(j, path)
  <2>1. v = [x EXCEPT !.swapped = TRUE]
    BY <1>1, <1>3
  <2>2. Alike(x, v) /\ v.swapped
    BY <1>2, <2>1 DEF IsJob, Alike
  <2> QED BY <1>1, <1>3, <2>2
<1>4. CASE ~Reads(j, path)
  BY <1>1, <1>4 DEF Alike
<1> QED BY <1>3, <1>4

\* Only the source of a request is noticed.
LEMMA ReadsOrigin ==
    ASSUME SystemInv, GateInv, NEW j \in Jobs, NEW path, Reads(j, path)
    PROVE  Sourced(job[j].req) /\ path = Origin(job[j].req)
<1>1. CASE [job |-> j, path |-> path] \in launched
  <2>1. PICK l : l = [job |-> j, path |-> path] /\ l \in launched
    BY <1>1
  <2>2. l.job = j /\ l.path = path
    BY <2>1
  <2>3. LaunchRow(l, job[j], content)
    BY <2>1, <2>2 DEF GateInv
  <2>4. PICK m : m = [job |-> l.job, path |-> job[j].req.pkg]
    OBVIOUS
  <2>5. l = m /\ m.path = job[j].req.pkg /\ job[j].req.verb = "install_pkg"
    BY <2>3, <2>4 DEF LaunchRow
  <2> QED BY <2>2, <2>5 DEF Sourced, Origin
<1>2. CASE [job |-> j, path |-> path] \notin launched
  <2>1. /\ job[j].pc = "running"
        /\ \E i \in DOMAIN job[j].todo :
            /\ job[j].todo[i].kind \in {"team", "ditto", "installer"}
            /\ job[j].todo[i].arg[1] = path
    BY <1>2 DEF Reads
  <2>2. PICK S : /\ job[j].todo \in Seq(S)
                 /\ \A s \in S : Granted(priv, job[j].cfg, job[j].req, s)
    BY DEF GateInv, GateRow, StepsOk
  <2>3. PICK t : t = job[j].todo /\ t \in Seq(S)
    BY <2>2
  <2>4. PICK i \in DOMAIN t : t[i].kind \in {"team", "ditto", "installer"} /\ t[i].arg[1] = path
    BY <2>1, <2>3
  <2>5. t[i] \in S
    BY <2>3, <2>4
  <2> QED BY <2>2, <2>4, <2>5 DEF Granted
<1> QED BY <1>1, <1>2

\* The source of a request past its first check is noticed.
LEMMA InstallReads ==
    ASSUME SystemInv, GateInv, NEW j \in Jobs, job[j].pc = "running", Places(job[j].req),
           job[j].req.op = "install", NextStep(j).kind # "verify"
    PROVE  Reads(j, job[j].req.source)
<1> DEFINE x == job[j]
           q == job[j].req
<1>1. PICK dir \in ToSet(DirOrder) : x.todo \in Remaining(q, dir)
  BY RowOfJob DEF PlacingRow
<1>2. PICK a, b, c, d : /\ a = VerifySource(q) /\ b = ReadTeam(q)
                        /\ c = ClearOld(q, dir) /\ d = PutNew(q, dir)
  OBVIOUS
<1>3. /\ a.kind = "verify" /\ b.kind = "team" /\ b.arg[2] = "appteams"
      /\ c.kind = "rm-rf" /\ d.kind = "ditto" /\ d.arg[1] = q.source
  BY <1>2 DEF VerifySource, ReadTeam, Step, ClearOld, PutNew
<1>4. x.todo \in {<<a, b, c, d>>, <<b, c, d>>, <<c, d>>, <<d>>}
  BY <1>1, <1>2 DEF Remaining
<1>5. PICK t, s : t = x.todo /\ s = NextStep(j) /\ s = Head(t)
  BY DEF NextStep
<1>6. \/ t = <<b, c, d>> /\ s = b /\ 3 \in DOMAIN t /\ t[3] = d
      \/ t = <<c, d>> /\ s = c /\ 2 \in DOMAIN t /\ t[2] = d
      \/ t = <<d>> /\ s = d /\ 1 \in DOMAIN t /\ t[1] = d
  <2>1. t # <<a, b, c, d>>
    <3>1. Head(<<a, b, c, d>>) = a
      OBVIOUS
    <3> QED BY <1>3, <1>5, <3>1
  <2>2. t = <<b, c, d>> => s = b /\ 3 \in DOMAIN t /\ t[3] = d
    BY <1>5
  <2>3. t = <<c, d>> => s = c /\ 2 \in DOMAIN t /\ t[2] = d
    BY <1>5
  <2>4. t = <<d>> => s = d /\ 1 \in DOMAIN t /\ t[1] = d
    BY <1>5
  <2> HIDE DEF x
  <2> QED BY <1>4, <1>5, <2>1, <2>2, <2>3, <2>4
<1>7. \E i \in DOMAIN t : t[i] = d
  BY <1>6
<1>8. ~(s.kind = "team" /\ s.arg[2] = "pkgteams")
  BY <1>3, <1>6
<1> QED BY <1>3, <1>5, <1>7, <1>8 DEF Reads

\* So is the package that is about to be handed to the installer.
LEMMA PkgReads ==
    ASSUME SystemInv, GateInv, NEW j \in Jobs, job[j].pc = "running",
           job[j].req.verb = "install_pkg", NextStep(j).kind # "team"
    PROVE  Reads(j, job[j].req.pkg)
<1> DEFINE x == job[j]
           q == job[j].req
<1>1. PICK a, b : a = ReadPkgTeam(q) /\ b = Launch(q)
  OBVIOUS
<1>2. a.kind = "team" /\ b.kind = "installer" /\ b.arg[1] = q.pkg
  BY <1>1 DEF ReadPkgTeam, Launch, Step
<1>3. x.todo \in {<<a, b>>, <<b>>}
  BY <1>1, GateOfJob DEF Vetted, PkgSteps
<1>4. PICK t, s : t = x.todo /\ s = NextStep(j) /\ s = Head(t)
  BY DEF NextStep
<1>5. t = <<b>>
  <2>1. Head(<<a, b>>) = a
    OBVIOUS
  <2> HIDE DEF x
  <2> QED BY <1>2, <1>3, <1>4, <2>1
<1>6. s = b /\ 1 \in DOMAIN t /\ t[1] = b
  BY <1>4, <1>5
<1>7. \E i \in DOMAIN t : t[i] = b
  BY <1>6
<1> QED BY <1>2, <1>4, <1>6, <1>7 DEF Reads


\* A user's process replaces a file: whoever still needs it is marked.
LEMMA ReplaceGate ==
    ASSUME SystemInv, GateInv, NEW path \in Paths, NEW c \in Contents, Replace(path, c)
    PROVE  GateInv'
<1>1. /\ Replaceable(path) /\ UNCHANGED <<priv, installed, procs, launched, done>>
      /\ content' = [content EXCEPT ![path] = c]
      /\ replaced' = [replaced EXCEPT ![path] = replaced[path] + 1]
  BY DEF Replace
<1>2. \A p \in Paths : p # path => content'[p] = content[p]
  BY <1>1 DEF SystemInv
<1>3. StaticInv'
  <2>1. replaced' \in [Paths -> Nat]
    BY <1>1 DEF GateInv, StaticInv
  <2>2. \A p \in Paths : replaced'[p] > 0 => Replaceable(p)
    BY <1>1 DEF GateInv, StaticInv
  <2> QED BY <1>1, <2>1, <2>2 DEF GateInv, StaticInv
<1>4. ASSUME NEW j \in Jobs PROVE GateRow(job'[j], priv, procs, content')
  <2> DEFINE x == job[j]
             v == job'[j]
  <2>1. GateRow(x, priv, procs, content)
    BY DEF GateInv
  <2>2. /\ Alike(x, v) /\ (x.swapped => v.swapped) /\ (Reads(j, path) => v.swapped)
        /\ v.swapped => x.swapped \/ Reads(j, path)
    BY SwapRow
  <2>3. v.swapped => Sourced(v.req) /\ Replaceable(Origin(v.req))
    <3>1. x.swapped => Sourced(x.req) /\ Replaceable(Origin(x.req))
      BY <2>1 DEF GateRow
    <3>2. Reads(j, path) => Sourced(x.req) /\ Replaceable(Origin(x.req))
      BY <1>1, ReadsOrigin
    <3> HIDE DEF x, v
    <3> QED BY <2>2, <3>1, <3>2 DEF Alike
  <2>4. ASSUME x.pc = "running" PROVE Vetted(v, content')
    <3>1. Vetted(x, content) /\ NextStep(j) = Head(x.todo)
      BY <2>1, <2>4 DEF GateRow, NextStep
    <3>2. Places(x.req) /\ x.req.op = "install" /\ Head(x.todo).kind # "verify" =>
            v.swapped \/ (x.req.source \in Paths /\ path # x.req.source)
      <4> SUFFICES ASSUME Places(x.req), x.req.op = "install", Head(x.todo).kind # "verify"
                   PROVE  v.swapped \/ (x.req.source \in Paths /\ path # x.req.source)
        OBVIOUS
      <4>1. x.req.source \in Paths
        BY <2>4, RowOfJob DEF PlacingRow
      <4>2. Reads(j, x.req.source)
        BY <2>4, <3>1, InstallReads
      <4> QED BY <2>2, <4>1, <4>2
    <3>3. x.req.verb = "install_pkg" /\ Head(x.todo).kind # "team" =>
            v.swapped \/ path # x.req.pkg
      BY <2>2, <2>4, <3>1, PkgReads
    <3>4. /\ Places(x.req) /\ x.req.op = "install" /\ Head(x.todo).kind # "verify" =>
                v.swapped \/ content'[x.req.source] = content[x.req.source]
          /\ x.req.verb = "install_pkg" /\ Head(x.todo).kind # "team" =>
                v.swapped \/ content'[x.req.pkg] = content[x.req.pkg]
      BY <1>2, <3>1, <3>2, <3>3 DEF Vetted
    <3>5. v.req = x.req /\ v.cfg = x.cfg /\ v.todo = x.todo
      BY <2>2 DEF Alike
    <3> HIDE DEF x, v
    <3>6. Places(v.req) /\ Flag(v.cfg, "root_source") => RootOwnedSource(v.req.source)
      BY <3>1, <3>5 DEF Vetted
    <3>7. Places(v.req) /\ v.req.op = "install" /\ ListOf(v.cfg, "appteams") # {} =>
            \/ Head(v.todo).kind = "verify" \/ v.swapped
            \/ /\ content'[v.req.source] \in Signed
               /\ \/ Head(v.todo).kind = "team"
                  \/ TeamOf[content'[v.req.source]] \in ListOf(v.cfg, "appteams")
      BY <2>2, <3>1, <3>4, <3>5 DEF Vetted
    <3>8. v.req.verb = "install_pkg" =>
            /\ v.req.pkg \in Paths /\ v.todo \in PkgSteps(v.req)
            /\ Flag(v.cfg, "root_pkg") => RootOwnedSource(v.req.pkg)
            /\ Head(v.todo).kind = "team" \/ PkgVetted(v, content')
      BY <2>2, <3>1, <3>4, <3>5 DEF Vetted, PkgVetted
    <3> QED BY <3>6, <3>7, <3>8 DEF Vetted
  <2> HIDE DEF x, v
  <2>5. GateRow(v, priv, procs, content')
    BY <2>1, <2>2, <2>3, <2>4 DEF GateRow, Alike
  <2> QED BY <2>5 DEF v
<1>5. ASSUME NEW l \in launched
      PROVE  l.job \in Jobs /\ job'[l.job].pc # "new" /\ LaunchRow(l, job'[l.job], content')
  <2>1. l.job \in Jobs /\ job[l.job].pc # "new" /\ LaunchRow(l, job[l.job], content)
    BY DEF GateInv
  <2>2. PICK x, v, j : j \in Jobs /\ j = l.job /\ x = job[j] /\ v = job'[j]
    BY <2>1
  <2>3. /\ Alike(x, v) /\ (x.swapped => v.swapped) /\ (Reads(j, path) => v.swapped)
    BY <2>2, SwapRow
  <2>4. path = x.req.pkg => Reads(j, path)
    BY <2>1, <2>2 DEF LaunchRow, Reads
  <2>5. v.swapped \/ content'[x.req.pkg] = content[x.req.pkg]
    BY <1>2, <2>1, <2>2, <2>3, <2>4 DEF LaunchRow
  <2>6. LaunchRow(l, v, content') /\ v.pc # "new"
    BY <2>1, <2>2, <2>3, <2>5 DEF LaunchRow, PkgVetted, Alike
  <2> QED BY <2>2, <2>6
<1>6. ASSUME NEW d \in done
      PROVE  d.job \in Jobs /\ job'[d.job].pc # "new" /\ DoneRow(d, job'[d.job], priv)
  <2>1. d.job \in Jobs /\ job[d.job].pc # "new" /\ DoneRow(d, job[d.job], priv)
    BY DEF GateInv
  <2>2. Alike(job[d.job], job'[d.job])
    BY <2>1, SwapRow
  <2> QED BY <2>1, <2>2, DoneSame DEF Alike
<1> QED BY <1>1, <1>3, <1>4, <1>5, <1>6 DEF GateInv


\* A request starts: its row is new, those of the others keep what counts.
LEMMA StartSet ==
    ASSUME SystemInv, GateInv, NEW j \in Jobs, job[j].pc = "new", NEW v, job'[j] = v,
           GateRow(v, priv, procs, content), v.pc # "new",
           \A k \in Jobs \ {j} : Alike(job[k], job'[k]) /\ job'[k].swapped = job[k].swapped,
           UNCHANGED <<priv, content, replaced, installed, procs, launched, done>>
    PROVE  GateInv'
<1>1. ASSUME NEW k \in Jobs PROVE GateRow(job'[k], priv, procs, content)
  <2>1. GateRow(job[k], priv, procs, content)
    BY DEF GateInv
  <2>2. CASE k # j
    <3>1. PICK x, w : x = job[k] /\ w = job'[k] /\ Alike(x, w) /\ w.swapped = x.swapped
      BY <2>2
    <3>2. Vetted(x, content) => Vetted(w, content)
      BY <3>1 DEF Alike, Vetted, PkgVetted
    <3>3. GateRow(w, priv, procs, content)
      BY <2>1, <3>1, <3>2 DEF GateRow, Alike
    <3> QED BY <3>1, <3>3
  <2> QED BY <2>2
<1>2. ASSUME NEW l \in launched
      PROVE  l.job \in Jobs /\ job'[l.job].pc # "new" /\ LaunchRow(l, job'[l.job], content)
  <2>1. l.job \in Jobs /\ job[l.job].pc # "new" /\ LaunchRow(l, job[l.job], content)
    BY DEF GateInv
  <2>2. Alike(job[l.job], job'[l.job]) /\ job'[l.job].swapped = job[l.job].swapped
    BY <2>1
  <2> QED BY <2>1, <2>2, LaunchSame DEF Alike
<1>3. ASSUME NEW d \in done
      PROVE  d.job \in Jobs /\ job'[d.job].pc # "new" /\ DoneRow(d, job'[d.job], priv)
  <2>1. d.job \in Jobs /\ job[d.job].pc # "new" /\ DoneRow(d, job[d.job], priv)
    BY DEF GateInv
  <2>2. Alike(job[d.job], job'[d.job])
    BY <2>1
  <2> QED BY <2>1, <2>2, DoneSame DEF Alike
<1>4. StaticInv'
  BY DEF GateInv, StaticInv
<1> QED BY <1>1, <1>2, <1>3, <1>4 DEF GateInv

\* What is known of the source when the request has passed the first gates.
LEMMA StartVetted ==
    ASSUME SystemInv, NEW cfg, cfg = LoadSystemCommandsOrDefault(cmdFile), cfg # Refused,
           NEW q \in mix.requests, runAction(cfg, q) # Refused,
           NEW v, v.req = q, v.cfg = cfg, v.todo = runAction(cfg, q)
    PROVE  Vetted(v, content)
<1>1. CASE Places(q)
  <2>1. /\ Flag(cfg, "root_source") => RootOwnedSource(q.source)
        /\ ListOf(cfg, "appteams") # {} => Head(v.todo).kind = "verify"
    BY <1>1, PlacesSteps
  <2>2. q.verb # "install_pkg"
    BY <1>1 DEF Places
  <2> QED BY <2>1, <2>2 DEF Vetted
<1>2. CASE q.verb = "install_pkg"
  <2>1. runAction(cfg, q) = installPkg(cfg, q)
    BY <1>2 DEF runAction
  <2>2. /\ v.todo \in PkgSteps(q) /\ q.pkg \in Paths
        /\ Flag(cfg, "root_pkg") => RootOwnedSource(q.pkg)
        /\ ListOf(cfg, "pkgteams") # {} => Head(v.todo).kind = "team"
    BY <1>2, <2>1, PkgGranted
  <2>3. ~Places(q)
    BY <1>2 DEF Places
  <2> QED BY <2>2, <2>3 DEF Vetted, PkgVetted
<1>3. CASE ~Places(q) /\ q.verb # "install_pkg"
  BY <1>3 DEF Vetted
<1> QED BY <1>1, <1>2, <1>3

LEMMA NothingToDo ==
    ASSUME NEW pr, NEW cfg, NEW q
    PROVE  StepsOk(pr, cfg, q, <<>>)
<1> DEFINE S == {}
<1>1. <<>> \in Seq(S) /\ \A s \in S : Granted(pr, cfg, q, s)
  OBVIOUS
<1> HIDE DEF S
<1> QED BY <1>1 DEF StepsOk

LEMMA StartGate ==
    ASSUME SystemInv, GateInv, NEW j \in Jobs, Start(j)
    PROVE  GateInv'
<1> DEFINE cfg == LoadSystemCommandsOrDefault(cmdFile)
           todo(q) == IF cfg = Refused THEN Refused ELSE runAction(cfg, q)
           loaded == IF cfg = Refused THEN {} ELSE cfg
           begun(q) == [Fresh EXCEPT !.req = q, !.pc = "done", !.cfg = loaded]
<1>1. /\ job[j].pc = "new" /\ DOMAIN job = Jobs
      /\ UNCHANGED <<priv, content, replaced, installed, procs, launched, done>>
  BY DEF Start, SystemInv
<1>2. PICK q \in mix.requests :
        job' = CASE todo(q) = Refused -> [job EXCEPT ![j] = [begun(q) EXCEPT !.res = "refused"]]
                 [] todo(q) = <<>> -> [job EXCEPT ![j] = [begun(q) EXCEPT !.res = "ok"]]
                 [] OTHER -> [k \in Jobs |->
                        IF k = j THEN [begun(q) EXCEPT !.pc = "running", !.todo = todo(q),
                                                       !.alone = Running = {}]
                        ELSE IF k \in Running THEN [job[k] EXCEPT !.alone = FALSE]
                        ELSE job[k]]
  BY DEF Start
<1>3. PICK b : b = begun(q)
  OBVIOUS
<1>4. /\ IsJob(b) /\ b.pc = "done" /\ b.req = q /\ b.res = None /\ b.cfg = loaded
      /\ b.todo = <<>> /\ b.held = {} /\ b.swapped = FALSE
  <2>1. PICK f : f = Fresh
    OBVIOUS
  <2>2. IsJob(f) /\ f.todo = <<>> /\ f.held = {} /\ f.swapped = FALSE /\ f.res = None
    BY <2>1, FreshType DEF Fresh
  <2> HIDE DEF loaded
  <2> QED BY <1>3, <2>1, <2>2 DEF IsJob
<1>5. PICK t : t = todo(q)
  OBVIOUS
<1>6. CASE t = Refused \/ t = <<>>
  <2>1. PICK r \in {"refused", "ok"} : job' = [job EXCEPT ![j] = [b EXCEPT !.res = r]]
    BY <1>2, <1>3, <1>5, <1>6, SystemAssumption
  <2>2. PICK v : v = [b EXCEPT !.res = r]
    OBVIOUS
  <2>3. /\ v.pc = "done" /\ v.res = r /\ v.todo = <<>> /\ v.held = {} /\ v.swapped = FALSE
    BY <1>4, <2>2 DEF IsJob
  <2>4. GateRow(v, priv, procs, content)
    BY <2>3, NothingToDo, SystemAssumption DEF GateRow
  <2>5. job'[j] = v /\ \A k \in Jobs \ {j} : job'[k] = job[k]
    BY <1>1, <2>1, <2>2
  <2>6. \A k \in Jobs \ {j} : Alike(job[k], job'[k]) /\ job'[k].swapped = job[k].swapped
    BY <2>5 DEF Alike
  <2>7. v.pc # "new"
    BY <2>3
  <2> QED BY <1>1, <2>4, <2>5, <2>6, <2>7, StartSet
<1>7. CASE t # Refused /\ t # <<>>
  <2>1. PICK v : v = [b EXCEPT !.pc = "running", !.todo = t, !.alone = (Running = {})]
    OBVIOUS
  <2>2. job' = [k \in Jobs |-> IF k = j THEN v
                               ELSE IF k \in Running THEN [job[k] EXCEPT !.alone = FALSE]
                               ELSE job[k]]
    BY <1>2, <1>3, <1>5, <1>7, <2>1
  <2>3. cfg # Refused /\ t = runAction(cfg, q) /\ loaded = cfg
    BY <1>5, <1>7
  <2>4. /\ v.pc = "running" /\ v.todo = t /\ v.req = q /\ v.res = None /\ v.cfg = cfg
        /\ v.held = {} /\ v.swapped = FALSE
    <3> HIDE DEF cfg, loaded
    <3> QED BY <1>4, <2>1, <2>3 DEF IsJob
  <2>5. StepsOk(priv, cfg, q, t)
    <3> HIDE DEF cfg
    <3> QED BY <1>7, <2>3, ActionGranted DEF cfg
  <2>6. Vetted(v, content)
    <3>1. PICK c : c = cfg
      OBVIOUS
    <3> QED BY <1>7, <2>3, <2>4, <3>1, StartVetted
  <2>7. GateRow(v, priv, procs, content)
    BY <1>7, <2>4, <2>5, <2>6 DEF GateRow
  <2>8. job'[j] = v
    BY <2>2
  <2>9. ASSUME NEW k \in Jobs \ {j}
        PROVE  Alike(job[k], job'[k]) /\ job'[k].swapped = job[k].swapped
    <3>1. PICK x, w : x = job[k] /\ w = job'[k] /\ (w = [x EXCEPT !.alone = FALSE] \/ w = x)
      BY <2>2
    <3>2. IsJob(x)
      BY <3>1 DEF SystemInv, JobRow
    <3>3. Alike(x, w) /\ w.swapped = x.swapped
      BY <3>1, <3>2 DEF IsJob, Alike
    <3> QED BY <3>1, <3>3
  <2>10. v.pc # "new"
    BY <2>4
  <2> QED BY <1>1, <2>7, <2>8, <2>9, <2>10, StartSet
<1> QED BY <1>6, <1>7

LEMMA GateStep ==
    ASSUME SystemInv, GateInv, SysNext
    PROVE  GateInv'
<1>1. ASSUME SaveCommands PROVE GateInv'
  <2>1. UNCHANGED <<priv, content, replaced, installed, procs, job, launched, done>>
    BY <1>1 DEF SaveCommands
  <2>2. ProcsGo(procs, procs')
    BY <2>1, SameProcs DEF GateInv
  <2> QED BY <2>1, <2>2, GateKept
<1> QED
  BY <1>1, StartGate, SignatureGate, RunGate, SignalGate, HoldersGate, VictimsGate, RemoveGate,
     CopyGate, LinkGate, InstallerGate, ReadGate, ReplaceGate, ForkGate DEF SysNext

LEMMA GatePart == SystemInv /\ GateInv /\ [Next]_vars => GateInv'
<1> SUFFICES ASSUME SystemInv, GateInv, [Next]_vars PROVE GateInv'
  OBVIOUS
<1>1. ASSUME UNCHANGED sysVars PROVE GateInv'
  <2>1. UNCHANGED <<priv, content, replaced, installed, procs, job, launched, done>>
    BY <1>1 DEF sysVars
  <2>2. ProcsGo(procs, procs')
    BY <2>1, SameProcs DEF GateInv
  <2> QED BY <2>1, <2>2, GateKept
<1> QED BY <1>1, GateStep DEF Next, vars

LEMMA GateInit == SysInit => GateInv
<1> SUFFICES ASSUME SysInit PROVE GateInv
  OBVIOUS
<1>1. PICK f : f = Fresh
  OBVIOUS
<1>2. f.pc = "new" /\ f.todo = <<>> /\ f.held = {} /\ f.swapped = FALSE /\ f.res = None
  BY <1>1 DEF Fresh
<1>3. GateRow(f, priv, procs, content)
  BY <1>2, NothingToDo DEF GateRow
<1>4. \A j \in Jobs : GateRow(job[j], priv, procs, content)
  BY <1>1, <1>3 DEF SysInit
<1>5. \A p \in Pids : IsProc(procs[p])
  <2>1. PICK r : r = [gen |-> 0, name |-> "idle", port |-> "none"]
    OBVIOUS
  <2>2. IsProc(r)
    BY <2>1 DEF IsProc
  <2> QED BY <2>1, <2>2 DEF SysInit
<1>6. StaticInv
  BY <1>5 DEF SysInit, StaticInv
<1> QED BY <1>4, <1>6 DEF SysInit, GateInv

-----------------------------------------------------------------------------
(* What the system executor did was within its configuration *)

\* The state of the hosts and of what runs there, which only the types speak of.
HostsInv ==
    /\ staged \in [Artifacts -> Platforms] /\ health \in [DOMAIN Hosts -> BOOLEAN]
    /\ remote \in [Calls -> {"none", "running", "ok", "fail"}]

LEMMA HostsStep == HostsInv /\ [Next]_vars => HostsInv'
<1> SUFFICES ASSUME HostsInv, [Next]_vars PROVE HostsInv'
  OBVIOUS
<1>1. ASSUME UNCHANGED <<staged, health, remote>> PROVE HostsInv'
  BY <1>1 DEF HostsInv
<1>2. ASSUME NEW c \in Calls, NEW r \in {"running", "ok", "fail"},
             remote' = [remote EXCEPT ![c] = r], UNCHANGED <<staged, health>>
      PROVE  HostsInv'
  BY <1>2 DEF HostsInv
<1>3. ASSUME NEW c \in Calls, RemoteEnds(c) PROVE HostsInv'
  <2>1. PICK end \in {"ok", "fail"} : remote' = [remote EXCEPT ![c] = end]
    BY <1>3 DEF RemoteEnds
  <2>2. remote' \in [Calls -> {"none", "running", "ok", "fail"}]
    BY <2>1 DEF HostsInv
  <2>3. health' \in [DOMAIN Hosts -> BOOLEAN] /\ staged' = staged
    BY <1>3 DEF RemoteEnds, HostsInv
  <2> QED BY <2>2, <2>3 DEF HostsInv
<1>4. ASSUME NEW c \in Calls, BrokerStep(c) PROVE HostsInv'
  BY <1>1, <1>2, <1>4 DEF BrokerStep, BeginCall, InspectArtifact, OpenArtifact, sshRunRemote,
     httpDo, ForwarderRun, HandOver, ssmRunRemote, CommandAnswered, restartService,
     pollInvocation, VerifyHost
<1>5. ASSUME NEW c \in Calls, serveSessionConn(c) PROVE HostsInv'
  BY <1>2, <1>5 DEF serveSessionConn
<1>6. ASSUME NEW a \in DOMAIN Hosts, HostSettles(a) PROVE HostsInv'
  BY <1>6 DEF HostSettles, HostsInv
<1>7. ASSUME NEW f \in Artifacts, NEW p \in Platforms, Restage(f, p) \/ Rewrite(f, p)
      PROVE  HostsInv'
  BY <1>7 DEF Restage, Rewrite, Staging, HostsInv
<1>8. CASE RemNext
  BY <1>1, <1>3, <1>4, <1>5, <1>6, <1>7, <1>8
     DEF RemNext, AnswerLost, InspectBypass, ProbeBypass, SaveTargets
<1> QED BY <1>1, <1>8 DEF Next, vars, remVars

\* The conjunction behind the theorem.
ExecutorsInv == RemoteInv /\ SystemInv /\ GateInv /\ HostsInv

LEMMA TypesKept == ExecutorsInv => TypeOK
<1> SUFFICES ASSUME ExecutorsInv PROVE TypeOK
  OBVIOUS
<1>1. SysTypeOK
  <2>1. cmdFile \in {Absent, Torn} \/ cmdFile \in InitCmds \cup NewCmds
    BY DEF ExecutorsInv, SystemInv
  <2>2. /\ priv \in Privs /\ content \in [Paths -> Contents] /\ replaced \in [Paths -> Nat]
        /\ \A at \in DOMAIN installed : installed[at] \subseteq Kinds
        /\ \A p \in Pids : IsProc(procs[p])
    BY DEF ExecutorsInv, SystemInv, GateInv, StaticInv
  <2>3. \A p \in Pids : procs[p].gen \in Nat
    BY <2>2 DEF IsProc
  <2>4. ASSUME NEW j \in Jobs
        PROVE  /\ job[j].pc \in {"new", "running", "done"}
               /\ (job[j].res # None) <=> (job[j].pc = "done")
               /\ (job[j].todo # <<>>) <=> (job[j].pc = "running")
    <3>1. IsJob(job[j]) /\ GateRow(job[j], priv, procs, content)
      BY DEF ExecutorsInv, SystemInv, JobRow, GateInv
    <3>2. job[j].pc \in {"new", "running", "done"}
      BY <3>1 DEF IsJob
    <3> QED BY <3>1, <3>2 DEF GateRow
  <2> QED BY <2>1, <2>2, <2>3, <2>4 DEF SysTypeOK, Kinds
<1>2. RemTypeOK
  <2>1. ASSUME NEW c \in Calls
        PROVE  /\ call[c].pc \in CallPcs /\ call[c].tries \in Nat
               /\ (call[c].res # Nothing) <=> (call[c].pc = "done")
    <3>1. CallShape(call[c], remote[c])
      BY DEF ExecutorsInv, RemoteInv, CallRow
    <3> QED BY <3>1 DEF CallShape, IsCall
  <2> QED BY <2>1 DEF ExecutorsInv, HostsInv, RemTypeOK, CallPcs
<1> QED BY <1>1, <1>2 DEF TypeOK

LEMMA DoneWithin == GateInv => InstalledIsGated /\ PrivilegedIsRoots /\ ActsWithinLists
<1> SUFFICES ASSUME GateInv PROVE InstalledIsGated /\ PrivilegedIsRoots /\ ActsWithinLists
  OBVIOUS
<1>1. \A d \in done : DoneRow(d, job[d.job], priv)
  BY DEF GateInv
<1>2. InstalledIsGated
  BY <1>1 DEF DoneRow, InstalledIsGated
<1>3. PrivilegedIsRoots
  BY <1>1 DEF DoneRow, PrivilegedIsRoots
<1>4. ActsWithinLists
  BY <1>1 DEF DoneRow, Within, ActsWithinLists
<1> QED BY <1>2, <1>3, <1>4

\* Whatever the system executor did, to the end of each request and for any
\* requests, configurations, files, processes and saves in between, was within
\* the configuration that the request loaded (systemexec.Run): what it copied or
\* handed to the installer was of an allowed team, unless the file was swapped
\* and left in the user's hands, behind a symbolic link or open to a change from
\* above its directory (requireAppSourceProvenance, installPkg); a program that
\* a user replaced ran with root's rights only if RequireSudoSafe could not see
\* it, or if the daemon is root and the step is one that run does not check (brew,
\* a package manager without sudo); and the services, processes, ports,
\* directories and programs were on the lists.
THEOREM SystemWithin == Spec => []SystemGated
<1>1. Init => ExecutorsInv
  <2> SUFFICES ASSUME Init PROVE ExecutorsInv
    OBVIOUS
  <2>1. HostsInv
    BY DEF Init, RemInit, HostsInv
  <2> QED BY <2>1, RemoteInit, SystemInit, GateInit DEF Init, ExecutorsInv
<1>2. ExecutorsInv /\ [Next]_vars => ExecutorsInv'
  BY RemotePart, SystemPart, GatePart, HostsStep DEF ExecutorsInv
<1>3. ExecutorsInv => SystemGated
  BY TypesKept, DoneWithin DEF ExecutorsInv, SystemGated
<1> QED BY <1>1, <1>2, <1>3, PTL DEF Spec
=============================================================================

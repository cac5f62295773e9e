----------------------------- MODULE UsageClient -----------------------------
(***************************************************************************)
(* The control-plane usage client (cpclient/client.go): requests record    *)
(* events into a bounded channel without ever blocking, one goroutine      *)
(* batches them to the control plane, and what it cannot deliver goes to a *)
(* capped spool file that survives a restart.  A client without a spool    *)
(* path keeps nothing on disk, and every error of the spool file is        *)
(* swallowed: a read error reads as an empty spool, and what a write does  *)
(* not take is gone.                                                       *)
(*                                                                         *)
(* Events are numbered in the order they are recorded.  Lines of the spool *)
(* have one length.                                                        *)
(***************************************************************************)
EXTENDS Integers, Sequences, SequencesExt

CONSTANTS
    QueueCap,       \* capacity of the events channel (1024)
    BatchSize,      \* pending events that force a flush (256)
    LineBytes,      \* length of a spooled event
    MaxSpoolBytes,  \* cap of the spool
    MaxEvents,      \* bound on the events of a behaviour
    MaxRestarts,    \* bound on the restarts of the process
    MaxFaults       \* bound on the errors of the spool file

ASSUME UsageAssumption ==
    /\ QueueCap \in Nat \ {0}
    /\ BatchSize \in Nat \ {0}
    /\ LineBytes \in Nat \ {0}
    /\ MaxSpoolBytes \in Nat \ {0}
    /\ MaxEvents \in Nat
    /\ MaxRestarts \in Nat
    /\ MaxFaults \in Nat

VARIABLES
    recorded,   \* events recorded so far
    queue,      \* the channel
    pending,    \* loop's pending slice
    loop,       \* "select", "posting", "spooling", "writing", "clearing", "stopped"
    batch,      \* spooled + pending, while a flush is under way
    spool,      \* the spool file
    closing,    \* Close has closed the done channel
    final,      \* the flush under way is the last one
    dropped,    \* events counted as dropped
    restarts,   \* restarts so far
    delivered,  \* history: events the control plane has taken
    aged,       \* history: events cut from the head of the spool
    lost,       \* history: events a restart took
    path,       \* the client has a spool path
    faults,     \* errors of the spool file so far
    unspooled   \* history: events the spool failed to keep

fileVars == <<path, faults, unspooled>>

vars == <<recorded, queue, pending, loop, batch, spool, closing, final,
          dropped, restarts, delivered, aged, lost, path, faults, unspooled>>

Events == 1..MaxEvents

Init ==
    /\ recorded = 0
    /\ queue = <<>> /\ pending = <<>> /\ batch = <<>> /\ spool = <<>>
    /\ loop = "select"
    /\ closing = FALSE /\ final = FALSE
    /\ dropped = {}
    /\ restarts = 0
    /\ delivered = {}
    /\ aged = {} /\ lost = {}
    /\ path \in BOOLEAN
    /\ faults = 0
    /\ unspooled = {}

\* The spool file answers an operation with an error, which is ignored.
Fault == faults < MaxFaults /\ faults' = faults + 1

\* Record: the event goes into the channel, or is counted as dropped.
Record ==
    /\ recorded < MaxEvents
    /\ recorded' = recorded + 1
    /\ IF Len(queue) < QueueCap
       THEN queue' = Append(queue, recorded') /\ UNCHANGED dropped
       ELSE dropped' = dropped \cup {recorded'} /\ UNCHANGED queue
    /\ UNCHANGED <<pending, loop, batch, spool, closing, final, restarts,
                   delivered, aged, lost, fileVars>>

\* flush(p): the spool is read, and everything is sent in one batch.  A spool
\* that cannot be read counts as empty.
StartFlush(p) ==
    /\ \/ batch' = spool \o p /\ UNCHANGED faults
       \/ spool # <<>> /\ Fault /\ batch' = p
    /\ loop' = IF batch' = <<>> THEN "select" ELSE "posting"
    /\ pending' = <<>>

\* The loop takes an event, and flushes when the batch is full.
Take ==
    /\ loop = "select"
    /\ queue # <<>>
    /\ queue' = Tail(queue)
    /\ LET p == Append(pending, Head(queue)) IN
       IF Len(p) >= BatchSize THEN StartFlush(p)
       ELSE pending' = p /\ UNCHANGED <<loop, batch, faults>>
    /\ UNCHANGED <<recorded, spool, closing, final, dropped, restarts,
                   delivered, aged, lost, path, unspooled>>

\* Mutant: a tick without fresh events does not retry the spool.
MutFlush ==
    /\ loop = "select"
    /\ pending # <<>>
    /\ StartFlush(pending)
    /\ UNCHANGED <<recorded, queue, spool, closing, final, dropped, restarts,
                   delivered, aged, lost, path, unspooled>>

\* The ticker fires.
Flush ==
    /\ loop = "select"
    /\ StartFlush(pending)
    /\ UNCHANGED <<recorded, queue, spool, closing, final, dropped, restarts,
                   delivered, aged, lost, path, unspooled>>

Close ==
    /\ ~closing
    /\ closing' = TRUE
    /\ UNCHANGED <<recorded, queue, pending, loop, batch, spool, final,
                   dropped, restarts, delivered, aged, lost, fileVars>>

\* The loop sees done: it drains the channel and flushes a last time.
FinalFlush ==
    /\ loop = "select"
    /\ closing
    /\ queue' = <<>>
    /\ \/ batch' = spool \o pending \o queue /\ UNCHANGED faults
       \/ spool # <<>> /\ Fault /\ batch' = pending \o queue
    /\ loop' = IF batch' = <<>> THEN "stopped" ELSE "posting"
    /\ final' = TRUE
    /\ pending' = <<>>
    /\ UNCHANGED <<recorded, spool, closing, dropped, restarts, delivered,
                   aged, lost, path, unspooled>>

\* The control plane takes the batch and says so.
PostSucceeds ==
    /\ loop = "posting"
    /\ delivered' = delivered \cup ToSet(batch)
    /\ loop' = "clearing"
    /\ UNCHANGED <<recorded, queue, pending, batch, spool, closing, final,
                   dropped, restarts, aged, lost, fileVars>>

\* It is unreachable, or refuses, or takes the batch but its answer is lost.
PostFails ==
    /\ loop = "posting"
    /\ delivered' = delivered \cup ToSet(batch) \/ UNCHANGED delivered
    /\ loop' = "spooling"
    /\ UNCHANGED <<recorded, queue, pending, batch, spool, closing, final,
                   dropped, restarts, aged, lost, fileVars>>

\* After a flush the loop selects again, or ends when it was the last.
Resume == IF final THEN "stopped" ELSE "select"

\* Mutant: the line the cut falls into is kept.
MutTrimmed(b) ==
    LET cut == Len(b) * LineBytes - MaxSpoolBytes IN
    IF cut <= 0 THEN b
    ELSE SubSeq(b, (cut \div LineBytes) + 1, Len(b))

\* writeSpool: when the lines exceed the cap, everything up to the end of the
\* line that holds the byte at the cut is dropped.
Trimmed(b) ==
    LET cut == Len(b) * LineBytes - MaxSpoolBytes IN
    IF cut <= 0 THEN b
    ELSE SubSeq(b, (cut \div LineBytes) + 2, Len(b))

\* writeSpool with a path: os.WriteFile opens the file and truncates it, so
\* events that were in it and could not be read before are gone,
TruncateSpool ==
    /\ loop = "spooling"
    /\ path
    /\ spool' = <<>>
    /\ unspooled' = unspooled \cup (ToSet(spool) \ (ToSet(batch) \cup delivered))
    /\ loop' = "writing"
    /\ UNCHANGED <<recorded, queue, pending, batch, closing, final, dropped,
                   restarts, delivered, aged, lost, path, faults>>

\* the lines follow,
WriteLine ==
    /\ loop = "writing"
    /\ Len(spool) < Len(Trimmed(batch))
    /\ spool' = Append(spool, Trimmed(batch)[Len(spool) + 1])
    /\ UNCHANGED <<recorded, queue, pending, loop, batch, closing, final,
                   dropped, restarts, delivered, aged, lost, fileVars>>

\* and the last of them ends the flush.
WriteSpool ==
    /\ loop = "writing"
    /\ Len(spool) = Len(Trimmed(batch))
    /\ aged' = aged \cup (ToSet(batch) \ ToSet(spool))
    /\ batch' = <<>>
    /\ loop' = Resume
    /\ UNCHANGED <<recorded, queue, pending, spool, closing, final, dropped,
                   restarts, delivered, lost, fileVars>>

\* The client has no path, or the file cannot be opened, or a write ends
\* early.  The batch is dropped all the same.
SpoolFails ==
    /\ \/ loop = "spooling" /\ ~path /\ UNCHANGED faults
       \/ loop \in {"spooling", "writing"} /\ path /\ Fault
    /\ unspooled' = unspooled \cup (ToSet(batch) \ (ToSet(spool) \cup delivered))
    /\ batch' = <<>>
    /\ loop' = Resume
    /\ UNCHANGED <<recorded, queue, pending, spool, closing, final, dropped,
                   restarts, delivered, aged, lost, path>>

\* clearSpool: the file is removed, with what could not be read of it, or
\* stays when that fails.
ClearSpool ==
    /\ loop = "clearing"
    /\ \/ /\ spool' = <<>>
          /\ unspooled' = unspooled \cup (ToSet(spool) \ delivered)
          /\ UNCHANGED faults
       \/ spool # <<>> /\ Fault /\ UNCHANGED <<spool, unspooled>>
    /\ batch' = <<>>
    /\ loop' = Resume
    /\ UNCHANGED <<recorded, queue, pending, closing, final, dropped, restarts,
                   delivered, aged, lost, path>>

\* Everything in memory that is neither delivered nor spooled.
InMemory == {e \in ToSet(queue) \cup ToSet(pending) \cup ToSet(batch) :
                e \notin delivered \cup ToSet(spool)}

\* The process ends, by itself or by a crash, and is started again on the
\* spool it left.
Restart ==
    /\ restarts < MaxRestarts
    /\ restarts' = restarts + 1
    /\ lost' = lost \cup InMemory
    /\ queue' = <<>> /\ pending' = <<>> /\ batch' = <<>>
    /\ loop' = "select"
    /\ closing' = FALSE /\ final' = FALSE
    /\ UNCHANGED <<recorded, spool, dropped, delivered, aged, fileVars>>

LoopStep ==
    \/ Take \/ Flush \/ FinalFlush \/ PostSucceeds \/ PostFails
    \/ TruncateSpool \/ WriteLine \/ WriteSpool \/ SpoolFails \/ ClearSpool

Next == Record \/ Close \/ Restart \/ LoopStep

Spec == Init /\ [][Next]_vars

\* The goroutine is scheduled, the ticker fires, and a control plane that is
\* asked again and again answers in the end.
Fairness ==
    /\ WF_vars(\/ Take \/ PostSucceeds \/ PostFails
               \/ TruncateSpool \/ WriteLine \/ WriteSpool \/ SpoolFails \/ ClearSpool)
    /\ SF_vars(Flush)
    /\ SF_vars(PostSucceeds)

FairSpec == Spec /\ Fairness

-----------------------------------------------------------------------------
(* Properties *)

\* Type invariant of the client.
TypeOK ==
    /\ recorded \in 0..MaxEvents
    /\ queue \in Seq(Events) /\ Len(queue) <= QueueCap
    /\ pending \in Seq(Events) /\ Len(pending) < BatchSize
    /\ batch \in Seq(Events)
    /\ spool \in Seq(Events)
    /\ loop \in {"select", "posting", "spooling", "writing", "clearing", "stopped"}
    /\ closing \in BOOLEAN /\ final \in BOOLEAN
    /\ dropped \subseteq Events /\ aged \subseteq Events /\ lost \subseteq Events
    /\ restarts \in 0..MaxRestarts
    /\ delivered \subseteq Events
    /\ path \in BOOLEAN /\ faults \in 0..MaxFaults
    /\ unspooled \subseteq Events

\* Telemetry is lost in four ways only: counted at a full channel, cut from a
\* full spool, taken by a restart, or given up by a spool that is not
\* configured or answered with an error.  Anything else that was recorded is
\* delivered or still on its way; a client with a spool path whose file never
\* failed gives up nothing, however often the control plane is out of reach.
NothingVanishes ==
    /\ \A e \in 1..recorded :
        \/ e \in dropped \cup aged \cup lost \cup delivered \cup unspooled
        \/ e \in ToSet(queue) \cup ToSet(pending) \cup ToSet(batch) \cup ToSet(spool)
    /\ unspooled # {} => ~path \/ faults > 0
    /\ lost # {} => restarts > 0

Increasing(s) == \A i, j \in 1..Len(s) : i < j => s[i] < s[j]

\* The spool, the pending events and the channel hold events in the order they
\* were recorded, so a batch is in order and the spool's head is its oldest.
InOrder ==
    /\ Increasing(batch \o queue)
    /\ batch = <<>> => Increasing(spool \o pending \o queue)

\* "Recent telemetry is worth more": the spool never exceeds its cap, and what
\* was cut from it is older than what it holds.
SpoolKeepsRecent ==
    /\ Len(spool) * LineBytes <= MaxSpoolBytes
    /\ \A i \in 1..Len(spool) : \A e \in aged : e < spool[i]

\* While the client is not closed and the control plane is not out of reach for
\* ever, an event in the channel is delivered, cut from the spool, taken by a
\* restart or given up by a spool that is not there or fails.
EventsArrive ==
    \A e \in Events :
        e \in ToSet(queue) ~>
            (e \in delivered \cup aged \cup lost \cup unspooled \/ closing)

\* Every event is accounted for, whatever limit it meets: none vanishes unless
\* there is no spool or its file failed, none overtakes another, and what a
\* full spool gives up is the oldest (Record, flush, readSpool, writeSpool).
EventsAccounted == TypeOK /\ NothingVanishes /\ InOrder /\ SpoolKeepsRecent
=============================================================================

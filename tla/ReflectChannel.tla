--------------------------- MODULE ReflectChannel ---------------------------
(***************************************************************************)
(* The end-to-end channel of a reflector session: the external client      *)
(* (reflector/client.go) and the daemon's session (manager.go) exchange    *)
(* frames through a relay neither of them trusts (mailbox.go).  The relay  *)
(* may lose, duplicate, delay and reorder frames; records are sealed with  *)
(* a counter (crypto.go), under keys both handshake nonces went into       *)
(* (handshake.go).                                                         *)
(*                                                                         *)
(* A key stands for the pair of nonces it was derived from: a record opens *)
(* under the key it was sealed with and under no other.                    *)
(***************************************************************************)
EXTENDS Integers, FiniteSets

CONSTANTS
    MaxConnects,    \* bound on the client's Connect attempts
    MaxCalls,       \* bound on the calls of one connection
    MaxNonces       \* bound on the daemon's handshake nonces

ASSUME ChannelAssumption ==
    /\ MaxConnects \in Nat
    /\ MaxCalls \in Nat
    /\ MaxNonces \in Nat

VARIABLES
    connects,   \* Connect attempts so far: the client's nonce
    client,     \* "off", "greeting" (awaits HS2), "ready", "calling"
    ckey,       \* the client's key
    csend,      \* its send counter
    crecv,      \* its receive counter
    cid,        \* id of its latest call
    nonces,     \* the daemon's nonces so far
    dkey,       \* the session's key
    dsend,      \* its send counter
    drecv,      \* its receive counter
    toDaemon,   \* frames the relay has for the daemon
    toClient,   \* frames the relay has for the client
    runs,       \* history: how often each request was dispatched
    returned    \* history: the answers calls returned with

clientVars == <<connects, client, ckey, csend, crecv, cid>>
daemonVars == <<nonces, dkey, dsend, drecv>>
channelVars == <<connects, client, ckey, csend, crecv, cid, nonces, dkey, dsend,
          drecv, toDaemon, toClient, runs, returned>>

Key      == [c : 1..MaxConnects, d : 1..MaxNonces]
NoKey    == [c |-> 0, d |-> 0]
Requests == [key : Key, id : 1..MaxCalls]

\* Frames: HS1 carries the client's nonce, HS2 the daemon's with a
\* confirmation only the holder of both can check, data a sealed record; "by"
\* tells apart the messages of different client processes.
Hello(c)   == [type |-> "hs1", c |-> c]
Welcome(k) == [type |-> "hs2", key |-> k]
Data(k, n, id, by) ==
    [type |-> "data", key |-> k, ctr |-> n, id |-> id, by |-> by]

ChannelInit ==
    /\ connects = 0 /\ client = "off" /\ ckey = NoKey
    /\ csend = 0 /\ crecv = 0 /\ cid = 0
    /\ nonces = 0 /\ dkey = NoKey /\ dsend = 0 /\ drecv = 0
    /\ toDaemon = {} /\ toClient = {}
    /\ runs = [r \in Requests |-> 0]
    /\ returned = {}

\* Mutant: a record opens whatever its counter.
MutFresh(ctr, recv) == TRUE

\* aeadSession.Open: a strictly increasing counter; gaps are fine.
Fresh(ctr, recv) == ~(ctr < recv \/ (ctr = 0 /\ recv # 0))

-----------------------------------------------------------------------------
(* The external client *)

\* Connect: a new ephemeral key and nonce, HS1 to the relay.  A send whose
\* error is reported may still have arrived.
Connect ==
    /\ client = "off"
    /\ connects < MaxConnects
    /\ connects' = connects + 1
    /\ \/ /\ toDaemon' = toDaemon \cup {Hello(connects')}
          /\ client' \in {"greeting", "off"}
       \/ toDaemon' = toDaemon /\ client' = "off"
    /\ UNCHANGED <<ckey, csend, crecv, cid, daemonVars, toClient, runs, returned>>

\* The first frame fetched must be HS2.  The client derives the key of its own
\* nonce and the daemon's, and the confirmation must be made under that key;
\* anything else ends the attempt.
Finish(f) ==
    /\ client = "greeting"
    /\ f \in toClient
    /\ IF f.type = "hs2" /\ f.key = [c |-> connects, d |-> f.key.d]
       THEN /\ client' = "ready" /\ ckey' = [c |-> connects, d |-> f.key.d]
            /\ csend' = 0 /\ crecv' = 0 /\ cid' = 0
       ELSE client' = "off" /\ UNCHANGED <<ckey, csend, crecv, cid>>
    /\ UNCHANGED <<connects, daemonVars, toDaemon, toClient, runs, returned>>

\* Mutant: the counter advances when the send has succeeded.
MutCall ==
    /\ client = "ready"
    /\ cid < MaxCalls
    /\ cid' = cid + 1
    /\ \/ /\ toDaemon' = toDaemon \cup {Data(ckey, csend, cid', connects)}
          /\ client' = "calling" /\ csend' = csend + 1
       \/ /\ toDaemon' = toDaemon \cup {Data(ckey, csend, cid', connects)}
          /\ client' = "ready" /\ csend' = csend
       \/ toDaemon' = toDaemon /\ client' = "ready" /\ csend' = csend
    /\ UNCHANGED <<connects, ckey, crecv, daemonVars, toClient, runs, returned>>

\* Call: the request is sealed, which uses up a counter value even when the
\* send fails.
Call ==
    /\ client = "ready"
    /\ cid < MaxCalls
    /\ cid' = cid + 1
    /\ csend' = csend + 1
    /\ \/ toDaemon' = toDaemon \cup {Data(ckey, csend, cid', connects)} /\ client' = "calling"
       \/ toDaemon' = toDaemon \cup {Data(ckey, csend, cid', connects)} /\ client' = "ready"
       \/ toDaemon' = toDaemon /\ client' = "ready"
    /\ UNCHANGED <<connects, ckey, crecv, daemonVars, toClient, runs, returned>>

\* A frame is fetched while a call waits: a record that opens uses up its
\* counter, and ends the call only if it answers this call.
Receive(f) ==
    /\ client = "calling"
    /\ f \in toClient
    /\ f.type = "data" /\ f.key = ckey /\ Fresh(f.ctr, crecv)
    /\ crecv' = f.ctr + 1
    /\ IF f.id = cid
       THEN /\ client' = "ready"
            /\ returned' = returned \cup {[key |-> ckey, id |-> cid, answer |-> f.id]}
       ELSE UNCHANGED <<client, returned>>
    /\ UNCHANGED <<connects, ckey, csend, cid, daemonVars, toDaemon, toClient, runs>>

\* The caller's context ends, or a fetch fails: the wait is over.
GiveUp ==
    /\ client \in {"greeting", "calling"}
    /\ client' = IF client = "greeting" THEN "off" ELSE "ready"
    /\ UNCHANGED <<connects, ckey, csend, crecv, cid, daemonVars, toDaemon,
                   toClient, runs, returned>>

\* The client process ends; a new one connects with the same handle.
Leave ==
    /\ client = "ready"
    /\ client' = "off"
    /\ UNCHANGED <<connects, ckey, csend, crecv, cid, daemonVars, toDaemon,
                   toClient, runs, returned>>

-----------------------------------------------------------------------------
(* The daemon's session *)

\* handleHandshake: only while there is no channel.  The channel stands if the
\* send of HS2 reports success; an error may be reported for an HS2 that
\* arrived.
daemonHandshake(f) ==
    /\ f \in toDaemon
    /\ f.type = "hs1"
    /\ dkey = NoKey
    /\ nonces < MaxNonces
    /\ nonces' = nonces + 1
    /\ LET k == [c |-> f.c, d |-> nonces'] IN
       \/ /\ toClient' = toClient \cup {Welcome(k)}
          /\ dkey' = k /\ dsend' = 0 /\ drecv' = 0
       \/ /\ toClient' \in {toClient, toClient \cup {Welcome(k)}}
          /\ UNCHANGED <<dkey, dsend, drecv>>
    /\ UNCHANGED <<clientVars, toDaemon, runs, returned>>

\* handleData: a record that opens is dispatched, and its answer is sealed and
\* sent; a lost answer is nobody's error.
HandleData(f) ==
    /\ f \in toDaemon
    /\ f.type = "data"
    /\ dkey # NoKey /\ f.key = dkey
    /\ Fresh(f.ctr, drecv)
    /\ drecv' = f.ctr + 1
    /\ runs' = [runs EXCEPT ![[key |-> f.key, id |-> f.id]] = @ + 1]
    /\ dsend' = dsend + 1
    /\ \/ toClient' = toClient \cup {Data(dkey, dsend, f.id, 0)}
       \/ UNCHANGED toClient
    /\ UNCHANGED <<clientVars, nonces, dkey, toDaemon, returned>>

-----------------------------------------------------------------------------

ChannelNext ==
    \/ Connect \/ Call \/ GiveUp \/ Leave
    \/ \E f \in toClient : Finish(f) \/ Receive(f)
    \/ \E f \in toDaemon : daemonHandshake(f) \/ HandleData(f)

ChannelSpec == ChannelInit /\ [][ChannelNext]_channelVars

-----------------------------------------------------------------------------
(* Properties *)

\* Type invariant of both ends and of the relay.
ChannelTypeOK ==
    /\ connects \in 0..MaxConnects
    /\ client \in {"off", "greeting", "ready", "calling"}
    /\ ckey \in Key \cup {NoKey}
    /\ csend \in Nat /\ crecv \in Nat /\ cid \in 0..MaxCalls
    /\ nonces \in 0..MaxNonces
    /\ dkey \in Key \cup {NoKey}
    /\ dsend \in Nat /\ drecv \in Nat
    /\ runs \in [Requests -> Nat]
    /\ returned \subseteq [key : Key, id : 1..MaxCalls, answer : 1..MaxCalls]

\* However often the relay delivers a record, its request is dispatched at
\* most once, across failed sends, abandoned calls and new connections.
AtMostOnce == \A r \in Requests : runs[r] <= 1

\* A call returns only after its own request was dispatched, and never with
\* the late answer to a call that was abandoned before it.
AnswersAreOwn ==
    \A a \in returned : a.answer = a.id /\ runs[[key |-> a.key, id |-> a.id]] = 1

\* A second handshake, replayed by the relay or sent by another client, never
\* replaces the keys: everything a session dispatches came over one key.
OneChannel ==
    \A r, s \in Requests : runs[r] > 0 /\ runs[s] > 0 => r.key = s.key

\* AES-GCM's own condition: under one key and direction no counter value is
\* used for two records, although sends fail, clients restart and the relay
\* replays handshakes.
NonceNeverReused ==
    \A box \in {toDaemon, toClient} : \A f, g \in box :
        (/\ f.type = "data" /\ g.type = "data"
         /\ f.key = g.key /\ f.ctr = g.ctr) => f = g

\* Over a relay that loses, repeats and reorders, an exchange is exact: a request
\* is dispatched at most once, a call returns with the answer to it or not at
\* all, and every request a session dispatches came over the one channel it
\* accepted (Call, handleHandshake, handleData).
ExchangeIsExact == ChannelTypeOK /\ AtMostOnce /\ AnswersAreOwn /\ OneChannel
=============================================================================

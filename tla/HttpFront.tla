------------------------------ MODULE HttpFront ------------------------------
(***************************************************************************)
(* The daemon's HTTP listener and the agent tokens behind it: requests to  *)
(* /v1/actions (daemon/http.go), the token store two processes rewrite     *)
(* without a lock (authtoken/filestore.go, `openscope agent token`), the   *)
(* pepper that the first user of the store creates, and the rate limiter.  *)
(*                                                                         *)
(* A token is an identifier; its hash is the pair of the identifier and    *)
(* the pepper, its prefix is PrefixOf (twelve characters, two of them      *)
(* random, so tokens of different agents may share one). The store is torn *)
(* between the truncation and the write of os.WriteFile, and an empty      *)
(* store reads as one with no rows.                                        *)
(***************************************************************************)
EXTENDS RateLimiter, Sequences

CONSTANTS
    Ids,            \* tokens that may be minted
    PrefixOf,       \* token -> prefix
    Agents, Users,  \* bound at mint time; "" is no user
    IPs,
    Clis,           \* processes running `openscope agent token`
    Reqs,           \* HTTP requests
    Inputs,         \* requests tried: [ip, auth, hdrUser, agent, user]
    Commands,       \* token commands tried: [op, agent, user, proxy, rotate, target]
    Peppers,        \* peppers a process may draw
    Config,         \* [loopback, tls, plaintextOK, anon, trustProxy]
    Bounds,         \* sets of bounds tried: [commands, requests, time]
    Absent, Torn, None   \* model values

TokenRow == [agent : Agents, user : Users, proxy : BOOLEAN, pepper : Peppers, revoked : BOOLEAN]

ASSUME FrontAssumption ==
    /\ {Absent, Torn} \cap Peppers = {} /\ Absent # Torn
    /\ {"none", "malformed"} \cap Ids = {}
    /\ None \notin TokenRow /\ \A D \in SUBSET Ids : Torn \notin [D -> TokenRow]
    /\ Bounds \subseteq [commands : Nat, requests : Nat, time : Nat]
    /\ \A c \in Commands :
        /\ c.op \in {"mint", "revoke"}
        /\ c.op = "mint" => c.agent \in Agents /\ c.user \in Users /\ c.proxy \in BOOLEAN
    /\ \A in \in Inputs : <<"ip", in.ip>> \in Keys /\ <<"addr", in.ip>> \in Keys
    /\ \A t \in Ids : <<"prefix", PrefixOf[t]>> \in Keys

VARIABLES
    store,          \* Torn, or token -> row [agent, user, proxy, pepper, revoked]
    pepper,         \* what LoadPepper finds: Absent, Torn or a pepper
    daemon,         \* [pc, pepper]: the listener starting up, and its pepper
    cli,            \* Clis -> [pc, cmd, pepper, held, out]
    bound,          \* the bounds of this behaviour, and what is left of them
    agents,         \* registered agents (agents.yaml, see AdminFiles)
    req,            \* Reqs -> [pc, in, row, out] and three ghosts about its token:
                    \* minted or revoked when it came, store torn when it was read
    minted,         \* ghost: token -> what its mint bound, for minted tokens
    revoked,        \* ghost: tokens a finished command has revoked
    overlap,        \* ghost: two commands have worked on the store at once
    failed,         \* ghost: a write of the store has failed
    raced           \* ghost: two processes have created the pepper at once

tokVars == <<store, pepper, daemon, cli, minted, revoked, overlap, failed, raced,
             agents>>
vars == <<now, buckets, seen, store, pepper, daemon, cli, bound, req,
          minted, revoked, overlap, failed, raced, agents>>

----------------------------------------------------------------------------
(* ValidateHTTPConfig: plaintext and anonymous mode stay on loopback. *)
ValidateHTTPConfig(c) ==
    /\ ~c.loopback => c.tls \/ c.plaintextOK
    /\ c.anon => c.loopback

IdleCli == [pc |-> "idle", cmd |-> None, pepper |-> None, held |-> <<>>, out |-> None]
Fresh == [pc |-> "new", in |-> None, row |-> None, out |-> None,
          known |-> FALSE, dead |-> FALSE, torn |-> FALSE]

Init ==
    /\ newRateLimiter
    /\ store = <<>> /\ pepper \in Peppers \cup {Absent}
    /\ daemon = [pc |-> IF ValidateHTTPConfig(Config) THEN "boot" ELSE "refused",
                 pepper |-> None]
    /\ cli = [p \in Clis |-> IdleCli]
    /\ bound \in Bounds /\ agents = {}
    /\ req = [r \in Reqs |-> Fresh]
    /\ minted = <<>> /\ revoked = {}
    /\ overlap = FALSE /\ failed = FALSE /\ raced = FALSE

----------------------------------------------------------------------------
(* LoadPepper, by the daemon once and by every token command. A pepper in  *)
(* the environment, which they share, or in a file written before is there *)
(* from the start.                                                         *)

Creating == (IF daemon.pc = "create" THEN {"daemon"} ELSE {})
            \cup {p \in Clis : cli[p].pc = "create"}

(* What reading the file leads to: the pepper, an error (an empty file),   *)
(* or a pepper to create.                                                  *)
PepperRead(pc) ==
    CASE pepper = Absent -> "create" [] pepper = Torn -> "error" [] OTHER -> pc

DaemonReadsPepper ==
    /\ daemon.pc = "boot"
    /\ \E fresh \in Peppers :
        daemon' = [pc |-> PepperRead("serving"),
                   pepper |-> IF pepper = Absent THEN fresh ELSE pepper]
    /\ raced' = (raced \/ (pepper = Absent /\ Creating # {}))
    /\ UNCHANGED <<limVars, store, pepper, cli, bound, agents, req, minted, revoked,
                   overlap, failed>>

(* os.WriteFile: the file is created empty, then filled; an error in       *)
(* either keeps the listener from starting.                                *)
DaemonWritesPepper ==
    /\ \/ /\ daemon.pc = "create"
          /\ pepper' = Torn
          /\ daemon' = [daemon EXCEPT !.pc = "fill"]
       \/ /\ daemon.pc = "fill"
          /\ pepper' = daemon.pepper
          /\ daemon' = [daemon EXCEPT !.pc = "serving"]
       \/ /\ daemon.pc \in {"create", "fill"}
          /\ daemon' = [daemon EXCEPT !.pc = "error"]
          /\ UNCHANGED pepper
    /\ UNCHANGED <<limVars, store, cli, bound, agents, req, minted, revoked, overlap,
                   failed, raced>>

----------------------------------------------------------------------------
(* openscope agent token mint | revoke *)

runAgentToken(p) ==
    /\ cli[p].pc = "idle" /\ bound.commands > 0
    /\ bound' = [bound EXCEPT !.commands = @ - 1]
    /\ \E c \in Commands, fresh \in Peppers :
        cli' = [cli EXCEPT ![p] =
            IF PepperRead("load") = "error" THEN [IdleCli EXCEPT !.out = "config"]
            ELSE [IdleCli EXCEPT !.pc = PepperRead("load"), !.cmd = c, !.out = "running",
                                 !.pepper = IF pepper = Absent THEN fresh ELSE pepper]]
    /\ raced' = (raced \/ (pepper = Absent /\ Creating # {}))
    /\ UNCHANGED <<limVars, store, pepper, daemon, agents, req, minted, revoked, overlap,
                   failed>>

CliWritesPepper(p) ==
    /\ \/ /\ cli[p].pc = "create"
          /\ pepper' = Torn
          /\ cli' = [cli EXCEPT ![p].pc = "fill"]
       \/ /\ cli[p].pc = "fill"
          /\ pepper' = cli[p].pepper
          /\ cli' = [cli EXCEPT ![p].pc = "load"]
       \/ /\ cli[p].pc \in {"create", "fill"}
          /\ cli' = [cli EXCEPT ![p] = [IdleCli EXCEPT !.out = "config"]]
          /\ UNCHANGED pepper
    /\ UNCHANGED <<limVars, store, daemon, bound, agents, req, minted, revoked, overlap,
                   failed, raced>>

Rows == IF store = Torn THEN <<>> ELSE store

Active(rows, agent) == {t \in DOMAIN rows : rows[t].agent = agent /\ ~rows[t].revoked}

Revoking(rows, ts) ==
    [t \in DOMAIN rows |-> IF t \in ts THEN [rows[t] EXCEPT !.revoked = TRUE] ELSE rows[t]]

(* MintWith: one active token per agent; --rotate revokes the old one.     *)
MintWith(rows, c, id, pep) ==
    Put(Revoking(rows, Active(rows, c.agent)), id,
        [agent |-> c.agent, user |-> c.user, proxy |-> c.proxy,
         pepper |-> pep, revoked |-> FALSE])

\* Mutant: only one of the matching tokens is revoked.
MutRevoke(rows, target) ==
    LET hit == {t \in DOMAIN rows : ~rows[t].revoked
                                    /\ target \in {rows[t].agent, PrefixOf[t]}}
    IN  Revoking(rows, IF hit = {} THEN {} ELSE {CHOOSE t \in hit : TRUE})

(* Revoke: every active token of the agent or with the prefix.             *)
Revoke(rows, target) ==
    Revoking(rows, {t \in DOMAIN rows : ~rows[t].revoked
                                        /\ target \in {rows[t].agent, PrefixOf[t]}})

Working == {p \in Clis : cli[p].pc \in {"truncate", "write"}}

(* The load of the store and what the command makes of it. A mint has      *)
(* registered its agent before, even when it is then refused.              *)
LoadStore(p) ==
    LET c == cli[p].cmd
        Save(rows) == [cli[p] EXCEPT !.pc = "truncate", !.held = rows]
        Exit(code) == [IdleCli EXCEPT !.out = code]
    IN  /\ cli[p].pc = "load"
        /\ \/ /\ c.op = "mint" /\ (c.rotate \/ Active(Rows, c.agent) = {})
              /\ \E id \in Ids \ (DOMAIN minted \cup UNION {DOMAIN cli[q].held : q \in Clis}) :
                    cli' = [cli EXCEPT ![p] = Save(MintWith(Rows, c, id, cli[p].pepper))]
           \/ /\ c.op = "mint" /\ ~c.rotate /\ Active(Rows, c.agent) # {}
              /\ cli' = [cli EXCEPT ![p] = Exit("config")]
           \/ /\ c.op = "revoke" /\ Revoke(Rows, c.target) # Rows
              /\ cli' = [cli EXCEPT ![p] = Save(Revoke(Rows, c.target))]
           \/ /\ c.op = "revoke" /\ Revoke(Rows, c.target) = Rows
              /\ cli' = [cli EXCEPT ![p] = Exit("notfound")]
        /\ agents' = IF c.op = "mint" THEN agents \cup {c.agent} ELSE agents
        /\ overlap' = (overlap \/ Working # {})
        /\ UNCHANGED <<limVars, store, pepper, daemon, bound, req, minted, revoked, failed, raced>>

TruncateStore(p) ==
    /\ cli[p].pc = "truncate"
    /\ store' = Torn
    /\ cli' = [cli EXCEPT ![p].pc = "write"]
    /\ UNCHANGED <<limVars, pepper, daemon, bound, agents, req, minted, revoked, overlap,
                   failed, raced>>

(* The tokens a command promises to have revoked when it reports success.  *)
Doomed(c) ==
    {t \in DOMAIN minted :
        \/ c.op = "revoke" /\ c.target \in {minted[t].agent, PrefixOf[t]}
        \/ c.op = "mint" /\ c.agent = minted[t].agent}

WriteStore(p) ==
    LET held == cli[p].held
    IN  /\ cli[p].pc = "write"
        /\ store' = held
        /\ minted' = [t \in DOMAIN minted \cup DOMAIN held |->
                        IF t \in DOMAIN minted THEN minted[t] ELSE held[t]]
        /\ revoked' = revoked \cup Doomed(cli[p].cmd)
        /\ cli' = [cli EXCEPT ![p] = [IdleCli EXCEPT !.out = "ok"]]
        /\ UNCHANGED <<limVars, pepper, daemon, bound, agents, req, overlap, failed, raced>>

WriteStoreFails(p) ==
    /\ cli[p].pc = "write"
    /\ failed' = TRUE
    /\ cli' = [cli EXCEPT ![p] = [IdleCli EXCEPT !.out = "config"]]
    /\ UNCHANGED <<limVars, store, pepper, daemon, bound, agents, req, minted, revoked,
                   overlap, raced>>

----------------------------------------------------------------------------
(* handleActions *)

Reply(r, out) == req' = [req EXCEPT ![r].pc = "done", ![r].out = out]

Denied(code) == [ok |-> FALSE, code |-> code]

(* A request and its throttle by remote address, before anything is read   *)
(* or written. A slot of Reqs serves one request after another.            *)
Throttle(r) ==
    /\ req[r].pc \in {"new", "done"} /\ daemon.pc = "serving"
    /\ bound.requests > 0
    /\ bound' = [bound EXCEPT !.requests = @ - 1]
    /\ \E in \in Inputs :
        LET key == <<"ip", in.ip>>
        IN  /\ allow(key)
            /\ req' = [req EXCEPT ![r] =
                    IF Admits(key)
                    THEN [Fresh EXCEPT !.pc = "auth", !.in = in,
                                       !.known = in.auth \in DOMAIN minted,
                                       !.dead = in.auth \in revoked]
                    ELSE [Fresh EXCEPT !.pc = "done", !.in = in, !.out = Denied("rate")]]
    /\ UNCHANGED tokVars

(* ResolveFull: the active row whose hash the presented token has.         *)
ResolveFull(t, pep) ==
    IF t \in DOMAIN Rows /\ ~Rows[t].revoked /\ Rows[t].pepper = pep
    THEN Rows[t] ELSE None

(* Authenticate: a token (its row is remembered), the anonymous bridge, or *)
(* a refusal.                                                              *)
Authenticate(r) ==
    LET in == req[r].in
        row == IF in.auth \in Ids THEN ResolveFull(in.auth, daemon.pepper) ELSE None
        proxied == row # None /\ row.proxy /\ Config.trustProxy
    IN  /\ req[r].pc = "auth"
        /\ \/ /\ row # None /\ (proxied => in.hdrUser # "")
              /\ req' = [req EXCEPT ![r].pc = "limit", ![r].row = row]
           \/ /\ proxied /\ in.hdrUser = ""
              /\ Reply(r, Denied("missing_proxy_user"))
           \/ /\ in.auth = "malformed" \/ (in.auth \in Ids /\ row = None)
              /\ req' = [req EXCEPT ![r].pc = "done", ![r].out = Denied("invalid_token"),
                                    ![r].torn = store = Torn]
           \/ /\ in.auth = "none" /\ Config.anon
              /\ req' = [req EXCEPT ![r].pc = "limit"]
           \/ /\ in.auth = "none" /\ ~Config.anon
              /\ Reply(r, Denied("missing_token"))
        /\ UNCHANGED <<limVars, tokVars, bound>>

(* The second meter, per token prefix, or per address for the bridge.      *)
Limit(r) ==
    LET in == req[r].in
        key == IF in.auth \in Ids THEN <<"prefix", PrefixOf[in.auth]>>
               ELSE <<"addr", in.ip>>
    IN  /\ req[r].pc = "limit"
        /\ allow(key)
        /\ IF Admits(key) THEN req' = [req EXCEPT ![r].pc = "bind"]
           ELSE Reply(r, Denied("rate"))
        /\ UNCHANGED <<tokVars, bound>>

\* Mutant: the user in the body stands when the token has none.
MutBind(r) ==
    LET in == req[r].in
        row == req[r].row
    IN  /\ req[r].pc = "bind"
        /\ Reply(r, [ok |-> TRUE, agent |-> IF row = None THEN in.agent ELSE row.agent,
                     user |-> IF row # None /\ row.user # "" THEN row.user ELSE in.user])
        /\ UNCHANGED <<limVars, tokVars, bound>>

(* Bind the identity and hand the request to the broker. A body that does  *)
(* not decode is refused first.                                            *)
Bind(r) ==
    LET in == req[r].in
        row == req[r].row
        proxied == row # None /\ row.proxy /\ Config.trustProxy
        agent == IF row = None \/ proxied THEN in.agent ELSE row.agent
        user == CASE row = None -> in.user [] proxied -> in.hdrUser [] OTHER -> row.user
    IN  /\ req[r].pc = "bind"
        /\ \/ Reply(r, Denied("invalid"))
           \/ /\ row # None /\ ~proxied /\ in.agent \notin {"", row.agent}
              /\ Reply(r, Denied("agent_token_mismatch"))
           \/ /\ row # None /\ ~proxied => in.agent \in {"", row.agent}
              /\ Reply(r, [ok |-> TRUE, agent |-> agent, user |-> user])
        /\ UNCHANGED <<limVars, tokVars, bound>>

----------------------------------------------------------------------------

Clock ==
    /\ bound.time > 0
    /\ bound' = [bound EXCEPT !.time = @ - 1]
    /\ Tick
    /\ UNCHANGED <<tokVars, req>>

Next ==
    \/ DaemonReadsPepper \/ DaemonWritesPepper
    \/ \E p \in Clis :
        \/ runAgentToken(p) \/ CliWritesPepper(p)
        \/ LoadStore(p) \/ TruncateStore(p) \/ WriteStore(p) \/ WriteStoreFails(p)
    \/ \E r \in Reqs : Throttle(r) \/ Authenticate(r) \/ Limit(r) \/ Bind(r)
    \/ Clock

Spec == Init /\ [][Next]_vars

----------------------------------------------------------------------------

IsStore(f) == DOMAIN f \subseteq Ids /\ \A t \in DOMAIN f : f[t] \in TokenRow

(* Every variable has its type: among them, a bucket never goes below      *)
(* nothing or above its burst, and the table never grows past its bound.   *)
TypeOK ==
    /\ now \in 0 .. MaxTime
    /\ DOMAIN buckets \subseteq Keys /\ Cardinality(DOMAIN buckets) <= MaxKeys
    /\ \A k \in DOMAIN buckets : buckets[k].tokens \in 0 .. Burst /\ buckets[k].last <= now
    /\ store = Torn \/ IsStore(store)
    /\ pepper \in Peppers \cup {Absent, Torn}
    /\ daemon.pc \in {"refused", "boot", "create", "fill", "serving", "error"}
    /\ \A f \in DOMAIN bound : bound[f] >= 0
    /\ \A p \in Clis : cli[p].pc \in {"idle", "create", "fill", "load", "truncate", "write"}
    /\ IsStore(minted) /\ revoked \subseteq DOMAIN minted /\ agents \subseteq Agents
    /\ \A r \in Reqs : req[r].pc \in {"new", "auth", "limit", "bind", "done"}

Served(r) == req[r].pc = "done" /\ req[r].out.ok

(* The identity the broker is handed is the one the operator bound when    *)
(* minting the presented token, or the user a trusted proxy vouches for;   *)
(* what the body claims counts on the loopback bridge alone                *)
(* (handleActions, MintWith).                                              *)
IdentityFromToken ==
    \A r \in Reqs : Served(r) =>
        LET in == req[r].in
            out == req[r].out
        IN  \/ in.auth = "none" /\ Config.anon /\ Config.loopback
            \/ /\ in.auth \in DOMAIN minted
               /\ LET m == minted[in.auth]
                  IN  \/ m.proxy /\ Config.trustProxy /\ out.user = in.hdrUser /\ out.user # ""
                      \/ out.agent = m.agent /\ out.user = m.user

(* A request that comes after a revocation or a rotation has reported      *)
(* success is not served with the revoked token, whatever writes failed in *)
(* between, unless two commands rewrote the store at once (Revoke,         *)
(* ResolveFull).                                                           *)
RevocationSticks ==
    ~overlap => \A r \in Reqs : req[r].dead => ~Served(r)

(* A token its mint has shown is refused as invalid only after its         *)
(* revocation, or while the store is being rewritten, or when a write of   *)
(* it failed, two commands overlapped or two processes created the pepper at  *)
(* once (ResolveFull, LoadPepper).                                         *)
MintedResolves ==
    ~overlap /\ ~failed /\ ~raced =>
        \A r \in Reqs :
            (req[r].pc = "done" /\ req[r].known /\ req[r].out = Denied("invalid_token"))
                => req[r].torn \/ req[r].in.auth \in revoked

(* An agent has one active token at most, unless commands overlapped       *)
(* (MintWith).                                                             *)
OneActiveToken ==
    ~overlap => \A a \in Agents : Cardinality(Active(Rows, a)) <= 1

(* The table of buckets is one bucket per key that is never forgotten, up  *)
(* to the amnesty of a full table (allow, evictIdle).                      *)
LimiterRefinesIdeal == Ideal!ISpec

(* A token works from its mint to its revocation, and an agent has one at  *)
(* a time, whatever commands and failures the store has been through       *)
(* (MintWith, Revoke, ResolveFull).                                        *)
TokensHold == TypeOK /\ RevocationSticks /\ MintedResolves /\ OneActiveToken
=============================================================================

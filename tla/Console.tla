------------------------------- MODULE Console -------------------------------
(***************************************************************************)
(* The console behind the API keys: sessions as signed cookies that every  *)
(* request renews (console/handler.go, session.go), one browser with       *)
(* several tabs whose answers may come back in any order, the reads of the *)
(* dashboards (store.go), and the purge of the bodies                      *)
(* (cmd/openscope-console/main.go). Row-level security and the grants of   *)
(* the two reader roles are Postgres's: asTenant and VendorPool are what   *)
(* the code relies on.                                                     *)
(***************************************************************************)
EXTENDS ApiKeys

CONSTANTS
    Tabs,             \* requests of the browser: Callers at home in the console
    WebRequests,      \* requests tried: [kind, ...]
    SessionMaxAge,
    Retention,        \* BodyRetentionMinutes
    Cleared           \* an expired Set-Cookie

ASSUME ConsoleAssumption ==
    /\ Tabs \subseteq Callers
    /\ SessionMaxAge \in Nat \ {0} /\ Retention \in Nat \ {0}
    /\ None # Cleared
    /\ {None, Cleared} \cap [key : Nat, tenant : Tenants, role : Roles, exp : Nat] = {}

VARIABLES
    jar,              \* the browser's cookie: None or [tenant, role, key, exp]
    tab,              \* Tabs -> [pc, req, cookie, reply, set]
    loggedOut,        \* ghost: a logout with nothing else in flight, no login since
    open,             \* the router's open transactions: [id, tenant, rows, ts]
    bodies,           \* rows of sensitive.*: [id, tenant, kind, ts]
    meta,             \* rows of app.router_events, usage_metrics, receipts: [id, tenant]
    view,             \* vendor.tenant_usage_daily: meta at its last refresh
    purge             \* [pc, ttl, began, pending, result]; pending is a ghost: the
                      \* transactions that were open when it began

AllowRoleSwitch == bound.demo     \* OPENSCOPE_DEMO_ROLE_SWITCH

webVars == <<jar, tab, loggedOut>>
dataVars == <<open, bodies, meta, view, purge>>
vars == <<now, keys, codes, tenants, cache, call, admin, bound, overlapped,
          jar, tab, loggedOut, open, bodies, meta, view, purge>>

IdleTab == [pc |-> "idle", req |-> None, cookie |-> None, reply |-> None, set |-> None]

(* With a retention configured the console starts with the boot wipe. The  *)
(* router may have been writing for some time by then.                     *)
Init ==
    /\ KeysInit
    /\ jar = None /\ tab = [t \in Tabs |-> IdleTab] /\ loggedOut = FALSE
    /\ open = {} /\ bodies = {} /\ meta = {} /\ view = {}
    /\ purge = [pc |-> IF bound.purges > 0 THEN "boot" ELSE "idle",
                ttl |-> 0, began |-> 0, pending |-> {}, result |-> "none"]

----------------------------------------------------------------------------
(* The browser *)

Send(t) ==
    /\ tab[t].pc = "idle"
    /\ Spend("web")
    /\ \E r \in WebRequests :
        /\ tab' = [tab EXCEPT ![t] = [IdleTab EXCEPT !.pc = "sent", !.req = r,
                    !.cookie = IF jar # None /\ now < jar.exp THEN jar ELSE None]]
        /\ loggedOut' = (loggedOut /\ r.kind # "login")
    /\ UNCHANGED <<now, keyVars, callVars, jar, dataVars>>

Receive(t) ==
    /\ tab[t].pc = "replied"
    /\ jar' = CASE tab[t].set = None -> jar
                [] tab[t].set = Cleared -> None
                [] OTHER -> tab[t].set
    /\ tab' = [tab EXCEPT ![t] = IdleTab]
    /\ call' = [call EXCEPT ![t] = IdleCall]
    /\ loggedOut' = \/ loggedOut
                    \/ /\ tab[t].req.kind = "logout"
                       /\ \A u \in Tabs \ {t} : tab[u].pc = "idle"
    /\ UNCHANGED <<now, keyVars, cache, bound, dataVars>>

----------------------------------------------------------------------------
(* The server *)

Reply(t, reply, set) ==
    tab' = [tab EXCEPT ![t].pc = "replied", ![t].reply = reply, ![t].set = set]

Refuse(code) == [ok |-> FALSE, code |-> code]
Serve(what, rows) == [ok |-> TRUE, what |-> what, rows |-> rows]

Sign(s) == [s EXCEPT !.exp = now + SessionMaxAge]

Verify(c) == c # None /\ now < c.exp

(* A login with a code becomes one with the token behind it. A code nobody *)
(* knows is tried as a token, and no token looks like it.                  *)
LookupDemoCode(t) ==
    LET r == tab[t].req
    IN  /\ tab[t].pc = "sent" /\ r.kind = "login" /\ "code" \in DOMAIN r
        /\ \/ Reply(t, Refuse("demo_code_lookup_failed"), None)
           \/ /\ r.code \in DOMAIN codes /\ ~codes[r.code].revoked
              /\ tab' = [tab EXCEPT ![t].req =
                            [kind |-> "login", token |-> codes[r.code].key]]
           \/ /\ ~(r.code \in DOMAIN codes /\ ~codes[r.code].revoked)
              /\ Reply(t, Refuse("invalid_token"), None)
        /\ UNCHANGED <<now, keyVars, callVars, bound, jar, loggedOut, dataVars>>

handleLogin(t) ==
    LET k == tab[t].req.token
    IN  /\ tab[t].pc = "sent" /\ tab[t].req.kind = "login" /\ "token" \in DOMAIN tab[t].req
        /\ \/ /\ k \notin DOMAIN keys
              /\ Reply(t, Refuse("invalid_token"), None) /\ UNCHANGED callVars
           \/ /\ k \in DOMAIN keys
              /\ BeginResolve(t, k)
              /\ tab' = [tab EXCEPT ![t].pc = "resolving"]
        /\ UNCHANGED <<now, keyVars, bound, jar, loggedOut, dataVars>>

FinishLogin(t) ==
    LET p == call[t].out
    IN  /\ tab[t].pc = "resolving" /\ call[t].pc = "done"
        /\ IF p = None THEN Reply(t, Refuse("invalid_token"), None)
           ELSE Reply(t, Serve("login", {}),
                      [key |-> p.key, tenant |-> p.tenant, role |-> p.role,
                       exp |-> now + SessionMaxAge])
        /\ UNCHANGED <<now, keyVars, callVars, bound, jar, loggedOut, dataVars>>

\* Mutant: the logout answers without the expired cookie.
MutLogout(t) ==
    /\ tab[t].pc = "sent" /\ tab[t].req.kind = "logout"
    /\ Reply(t, Serve("logout", {}), None)
    /\ UNCHANGED <<now, keyVars, callVars, bound, jar, loggedOut, dataVars>>

handleLogout(t) ==
    /\ tab[t].pc = "sent" /\ tab[t].req.kind = "logout"
    /\ Reply(t, Serve("logout", {}), Cleared)
    /\ UNCHANGED <<now, keyVars, callVars, bound, jar, loggedOut, dataVars>>

(* Reads as tenant_reader with app.tenant_id set, and as vendor_reader.    *)
asTenant(table, s) == {row \in table : row.tenant = s.tenant}

Prompts == {b \in bodies : b.kind = "prompt"}

Allowed(kind) ==
    CASE kind = "prompts" -> {"developer", "it"}
      [] kind \in {"vendorModels", "vendorUsage", "verify"} -> {"engineer"}
      [] kind = "tenantData" -> Roles \ {"engineer"}
      [] OTHER -> Roles

(* handleEvents, handleUsage, handleModels and handleReceipts read the     *)
(* tenant's metadata: "tenantData". handleMe and handleSwitchRole read     *)
(* nothing. The vendor's reader has no grant on the bodies.                *)
Data(s, kind) ==
    CASE kind = "prompts" -> asTenant(Prompts, s)
      [] kind = "tenantData" -> asTenant(meta, s)
      [] kind = "vendorModels" -> meta
      [] kind = "vendorUsage" -> view
      [] OTHER -> {}

(* The route of the role switch is mounted in a demo only.                 *)
Mounted(r) == r.kind = "switch" => AllowRoleSwitch

(* requireSession: the cookie is renewed whatever the handler then says.   *)
requireSession(t) ==
    LET r == tab[t].req
        s == tab[t].cookie
    IN  /\ tab[t].pc = "sent" /\ r.kind \notin {"login", "logout", "vendorUsage"}
        /\ \/ ~Mounted(r) /\ Reply(t, Refuse("not_found"), None)
           \/ Mounted(r) /\ ~Verify(s) /\ Reply(t, Refuse("bad_session"), None)
           \/ /\ Verify(s) /\ s.role \notin Allowed(r.kind)
              /\ Reply(t, Refuse("role_not_allowed"), Sign(s))
           \/ /\ Verify(s) /\ s.role \in Allowed(r.kind) /\ r.kind # "switch"
              /\ \/ Reply(t, Serve(r.kind, Data(s, r.kind)), Sign(s))
                 \/ Reply(t, Refuse("query_failed"), Sign(s))
           \/ /\ Mounted(r) /\ Verify(s) /\ r.kind = "switch"
              /\ IF r.role \notin Roles THEN Reply(t, Refuse("invalid_role"), Sign(s))
                 ELSE Reply(t, Serve("switch", {}), Sign([s EXCEPT !.role = r.role]))
        /\ UNCHANGED <<now, keyVars, callVars, bound, jar, loggedOut, dataVars>>

(* The view is refreshed first; when that fails the old one is served, and *)
(* the read may fail after either.                                         *)
handleVendorUsage(t) ==
    LET s == tab[t].cookie
    IN  /\ tab[t].pc = "sent" /\ tab[t].req.kind = "vendorUsage"
        /\ \/ ~Verify(s) /\ Reply(t, Refuse("bad_session"), None) /\ UNCHANGED view
           \/ /\ Verify(s) /\ s.role \notin Allowed("vendorUsage")
              /\ Reply(t, Refuse("role_not_allowed"), Sign(s)) /\ UNCHANGED view
           \/ /\ Verify(s) /\ s.role \in Allowed("vendorUsage")
              /\ view' \in {view, meta}
              /\ \/ Reply(t, Serve("vendorUsage", view'), Sign(s))
                 \/ Reply(t, Refuse("vendor_usage_failed"), Sign(s))
        /\ UNCHANGED <<now, keyVars, callVars, bound, jar, loggedOut, open, bodies, meta, purge>>

----------------------------------------------------------------------------
(* Bodies and their purge. The purge is three statements, each with its    *)
(* own clock; a prompt cannot go before the response that refers to it,    *)
(* and what the router has not committed is in nobody's sight but its own. *)

(* What one transaction of the router writes: a success everything it      *)
(* records, a refusal or a scan one row at a time.                         *)
Writes == {{"prompt", "response", "meta"}, {"prompt"}, {"upload"}, {"meta"}}

(* The rows' ts is now() of Postgres: the time the transaction began.      *)
RouterBegins ==
    /\ Spend("writes")
    /\ \E t \in DOMAIN tenants, rows \in Writes :
        open' = open \cup {[id |-> bound.writes, tenant |-> t, rows |-> rows, ts |-> now]}
    /\ UNCHANGED <<now, keyVars, callVars, webVars, bodies, meta, view, purge>>

RouterCommits ==
    \E x \in open :
        /\ open' = open \ {x}
        /\ meta' = meta \cup {[id |-> x.id, tenant |-> x.tenant] : r \in x.rows \cap {"meta"}}
        /\ bodies' = bodies \cup {[id |-> x.id, tenant |-> x.tenant, kind |-> k, ts |-> x.ts] :
                                    k \in x.rows \ {"meta"}}
        /\ UNCHANGED <<now, keyVars, callVars, bound, webVars, view, purge>>

(* A failed insert ends the transaction; after a refusal or a scan the     *)
(* error is ignored.                                                       *)
RouterAborts ==
    \E x \in open :
        /\ open' = open \ {x}
        /\ UNCHANGED <<now, keyVars, callVars, bound, webVars, bodies, meta, view, purge>>

Old(b) == b.ts < now - purge.ttl

Purged(rows, next) ==
    /\ bodies' = bodies \ rows
    /\ purge' = [purge EXCEPT !.pc = next, !.result = IF next = "idle" THEN "ok" ELSE @]

Begin(ttl) ==
    purge' = [pc |-> "responses", ttl |-> ttl, began |-> now,
              pending |-> {x.id : x \in open}, result |-> "none"]

(* PurgeAllBodies, once at boot.                                           *)
BootWipe ==
    /\ purge.pc = "boot" /\ Begin(0)
    /\ UNCHANGED <<now, keyVars, callVars, bound, webVars, open, bodies, meta, view>>

(* The tick of the loop.                                                   *)
PurgeBegins ==
    /\ purge.pc = "idle" /\ Spend("purges") /\ Begin(Retention)
    /\ UNCHANGED <<now, keyVars, callVars, webVars, open, bodies, meta, view>>

PurgeResponses ==
    /\ purge.pc = "responses"
    /\ LET old == {b.id : b \in {p \in Prompts : Old(p)}}
       IN  Purged({b \in bodies : b.kind = "response" /\ (Old(b) \/ b.id \in old)}, "prompts")
    /\ UNCHANGED <<now, keyVars, callVars, bound, webVars, open, meta, view>>

(* Postgres refuses the whole statement if a response still refers to one  *)
(* of its rows: a row that came of age since the first statement.          *)
PurgePrompts ==
    LET rows == {b \in Prompts : Old(b)}
    IN  /\ purge.pc = "prompts"
        /\ \A b \in rows : [b EXCEPT !.kind = "response"] \notin bodies
        /\ Purged(rows, "uploads")
        /\ UNCHANGED <<now, keyVars, callVars, bound, webVars, open, meta, view>>

\* Mutant: the loop over the tables stops before the uploads.
MutPurgeUploads ==
    /\ purge.pc = "uploads"
    /\ Purged({}, "idle")
    /\ UNCHANGED <<now, keyVars, callVars, bound, webVars, open, meta, view>>

PurgeUploads ==
    /\ purge.pc = "uploads"
    /\ Purged({b \in bodies : b.kind = "upload" /\ Old(b)}, "idle")
    /\ UNCHANGED <<now, keyVars, callVars, bound, webVars, open, meta, view>>

PurgeFails ==
    /\ purge.pc \notin {"idle", "boot"}
    /\ purge' = [purge EXCEPT !.pc = "idle", !.result = "failed"]
    /\ UNCHANGED <<now, keyVars, callVars, bound, webVars, open, bodies, meta, view>>

----------------------------------------------------------------------------

(* A request to the router, which authenticates with its key.              *)
RouterRequest(c) ==
    /\ call[c].pc \in {"idle", "done"}
    /\ Spend("calls")
    /\ \E k \in DOMAIN keys : BeginResolve(c, k)
    /\ UNCHANGED <<now, keyVars, webVars, dataVars>>

Resolve(c) ==
    /\ Lookup(c) \/ CacheSet(c)
    /\ UNCHANGED <<now, keyVars, bound, webVars, dataVars>>

Tick == KeysTick /\ Spend("time") /\ UNCHANGED <<keyVars, callVars, webVars, dataVars>>

Next ==
    \/ \E c \in Callers \ Tabs : RouterRequest(c)
    \/ \E c \in Callers : Resolve(c)
    \/ \E a \in Admins : /\ AdminRequest(a)
                         /\ UNCHANGED <<now, callVars, webVars, dataVars>>
    \/ \E a \in Admins : /\ AdminStep(a)
                         /\ UNCHANGED <<now, callVars, bound, webVars, dataVars>>
    \/ \E t \in Tabs : \/ Send(t) \/ LookupDemoCode(t) \/ handleLogin(t) \/ FinishLogin(t)
                       \/ handleLogout(t) \/ requireSession(t) \/ handleVendorUsage(t) \/ Receive(t)
    \/ RouterBegins \/ RouterCommits \/ RouterAborts
    \/ BootWipe \/ PurgeBegins \/ PurgeResponses \/ PurgePrompts \/ PurgeUploads \/ PurgeFails
    \/ Tick

Spec == Init /\ [][Next]_vars

----------------------------------------------------------------------------

Cookie == [key : 1 .. Len(keys), tenant : Tenants, role : Roles,
           exp : 0 .. MaxTime + SessionMaxAge]

(* Every variable has its type; budgets are not negative and no cache      *)
(* entry lives longer than TTL.                                            *)
TypeOK ==
    /\ now \in 0 .. MaxTime
    /\ keys \in Seq([tenant : Tenants, role : Roles, revoked : (0 .. now) \cup {None}])
    /\ \A d \in DOMAIN codes : codes[d].key \in DOMAIN keys
    /\ DOMAIN tenants \subseteq Tenants
    /\ \A t \in DOMAIN tenants : tenants[t] = None \/ tenants[t] >= 0
    /\ \A p \in Processes : \A k \in DOMAIN cache[p] :
            k \in DOMAIN keys /\ cache[p][k] <= now + TTL
    /\ jar = None \/ jar \in Cookie
    /\ \A t \in Tabs : tab[t].pc \in {"idle", "sent", "resolving", "replied"}
    /\ purge.pc \in {"boot", "idle", "responses", "prompts", "uploads"} /\ view \subseteq meta

(* A key authenticates no longer than the life of a cache entry and of a   *)
(* lookup after its revocation, at the router or at a login (Resolve,      *)
(* cache.get).                                                             *)
RevocationTakesHold ==
    \A c \in Callers :
        (call[c].pc = "done" /\ call[c].out # None /\ keys[call[c].token].revoked # None)
            => call[c].at <= keys[call[c].token].revoked + TTL + MaxQuery

(* A key that is active and whose lookup succeeded is refused only where   *)
(* MaxRows younger keys have been given the same prefix                    *)
(* (LookupAPIKeyByPrefix).                                                 *)
ActiveKeyResolves ==
    \A c \in Callers : call[c].crowd =>
        LET k == call[c].token
        IN  Cardinality({j \in DOMAIN keys : j > k /\ SamePrefix(j, k)}) >= MaxRows

LiveKeys(t, r) == {k \in DOMAIN keys : keys[k].tenant = t /\ keys[k].role = r /\ Active(k)}
LiveCodes(t, r) ==
    {d \in DOMAIN codes : codes[d].tenant = t /\ codes[d].role = r /\ ~codes[d].revoked}

(* A tenant has one active key and one active code per role, unless two    *)
(* mints for them overlapped (handleMintKey, handleMintDemoCode).          *)
OneActiveKey ==
    \A t \in Tenants, r \in Roles : <<t, r>> \notin overlapped =>
        Cardinality(LiveKeys(t, r)) <= 1 /\ Cardinality(LiveCodes(t, r)) <= 1

(* What a tab is shown belongs to the tenant of the key its session began  *)
(* with; prompts never go to the vendor's role, and a login gives the      *)
(* rights of the key that was presented (requireRole, asTenant,            *)
(* handleLogin, handleSwitchRole).                                         *)
TenantIsolation ==
    \A t \in Tabs :
        (tab[t].pc = "replied" /\ tab[t].reply.ok) =>
        LET what == tab[t].reply.what
            given == IF what = "login" THEN call[t].token ELSE tab[t].cookie.key
            mine == Principal(given)
        IN  /\ what \in {"prompts", "tenantData"} =>
                    \A row \in tab[t].reply.rows : row.tenant = mine.tenant
            /\ what = "prompts" => AllowRoleSwitch \/ mine.role \in {"developer", "it"}
            /\ what = "login" => [tab[t].set EXCEPT !.exp = 0] =
                    [key |-> given, tenant |-> mine.tenant, role |-> mine.role, exp |-> 0]

(* After a logout that no other request overlapped the browser has no      *)
(* session until someone logs in again (handleLogout, the renewal of       *)
(* requireSession).                                                        *)
LogoutSticks == loggedOut => jar = None

(* A purge that reports success has left no body, of any kind, that was    *)
(* older than the retention when it began, but those of a transaction      *)
(* that was still open then: they carry the time the transaction began and *)
(* become visible behind the statements (PurgeExpiredBodies,               *)
(* PurgeAllBodies).                                                        *)
RetentionHolds ==
    purge.result = "ok" =>
        \A b \in bodies : b.ts >= purge.began - purge.ttl \/ b.id \in purge.pending

(* An API key works from its mint to its revocation, give or take a cache  *)
(* entry, in every process, and a tenant has one per role (Resolve,        *)
(* handleMintKey, handleMintDemoCode).                                     *)
KeysHold == TypeOK /\ RevocationTakesHold /\ ActiveKeyResolves /\ OneActiveKey
=============================================================================

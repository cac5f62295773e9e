------------------------------- MODULE ApiKeys -------------------------------
(***************************************************************************)
(* API keys of the router and the console: the tables app.api_keys,        *)
(* app.demo_codes and app.tenants, the administrator's endpoints           *)
(* (console/admin.go), whose handlers run several statements outside a     *)
(* transaction, and tenancy.Resolver, of which the router and the console  *)
(* each have one with a cache of its own.                                  *)
(*                                                                         *)
(* A key is its place in the table, its token is the same number, and the  *)
(* order of the table is the order of creation. All tokens of a role in    *)
(* SharedRoles have one prefix: "osk_developer_" and "osk_engineer_" are   *)
(* longer than the twelve characters of a prefix. last_used_at is only     *)
(* displayed and is left out; nothing in the code sets expires_at.         *)
(***************************************************************************)
EXTENDS Integers, Sequences, FiniteSets

CONSTANTS
    Tenants, Roles, SharedRoles,
    Processes,        \* holders of a Resolver
    Callers,          \* requests that authenticate with a key
    HomeOf,           \* Callers -> Processes
    Admins,           \* concurrent requests to the admin endpoints
    AdminRequests,    \* requests tried: [op, ...]
    InitKeys, InitCodes, InitTenants,
    MaxRows,          \* LIMIT of LookupAPIKeyByPrefix
    TTL,              \* life of a cache entry
    MaxQuery,         \* bound on the time a lookup takes
    MaxTime,          \* bound on the clock
    Bounds,           \* sets of bounds tried, one chosen per behaviour
    None

ASSUME ApiKeysAssumption ==
    /\ SharedRoles \subseteq Roles
    /\ HomeOf \in [Callers -> Processes]
    /\ MaxRows \in Nat \ {0} /\ TTL \in Nat /\ MaxQuery \in Nat /\ MaxTime \in Nat
    /\ Bounds \subseteq [admin : Nat, calls : Nat, web : Nat, writes : Nat,
                         purges : Nat, time : Nat, demo : BOOLEAN]
    /\ None \notin Int /\ None \notin [key : Nat, tenant : Tenants, role : Roles]

(* What the body of a request decodes to.                                  *)
ASSUME RequestAssumption ==
    \A r \in AdminRequests :
        /\ r.token \in BOOLEAN
        /\ r.op \in {"mintKey", "mintCode", "createTenant", "revokeKey", "revokeCode",
                     "setBudget", "list"}
        /\ r.op \in {"mintKey", "mintCode", "createTenant"} => r.tenant \in Tenants
        /\ r.op = "setBudget" => r.budget \in Int \cup {None}

(* The tables at the start: one active key and code per tenant and role.   *)
ASSUME TablesAssumption ==
    /\ InitKeys \in Seq([tenant : Tenants, role : Roles, revoked : {0, None}])
    /\ InitCodes \in Seq([tenant : Tenants, role : Roles, key : DOMAIN InitKeys,
                          revoked : BOOLEAN])
    /\ DOMAIN InitTenants \subseteq Tenants
    /\ InitTenants \in [DOMAIN InitTenants -> Nat \cup {None}]
    /\ \A i, j \in DOMAIN InitKeys :
            /\ InitKeys[i].revoked = None /\ InitKeys[j].revoked = None
            /\ InitKeys[i].tenant = InitKeys[j].tenant /\ InitKeys[i].role = InitKeys[j].role
            => i = j
    /\ \A i, j \in DOMAIN InitCodes :
            /\ ~InitCodes[i].revoked /\ ~InitCodes[j].revoked
            /\ InitCodes[i].tenant = InitCodes[j].tenant /\ InitCodes[i].role = InitCodes[j].role
            => i = j

VARIABLES
    now,
    keys,             \* Seq of [tenant, role, revoked (None or a time)]
    codes,            \* Seq of [tenant, role, key, revoked (BOOLEAN)]
    tenants,          \* known tenant -> monthly budget, None for the default
    cache,            \* Processes -> (token -> time its entry expires)
    call,             \* Callers -> [pc, token, at, out, down, crowd]
    admin,            \* Admins -> [pc, req, key, out]
    bound,            \* what is left of the bounds
    overlapped        \* ghost: <<tenant, role>> that two mints were at work on

keyVars == <<keys, codes, tenants, admin, overlapped>>
callVars == <<cache, call>>

IdleCall == [pc |-> "idle", token |-> None, at |-> 0, out |-> None,
             down |-> FALSE, crowd |-> FALSE]
IdleAdmin == [pc |-> "idle", req |-> None, key |-> None, out |-> None]

KeysInit ==
    /\ now = 0
    /\ keys = InitKeys /\ codes = InitCodes /\ tenants = InitTenants
    /\ cache = [p \in Processes |-> <<>>]
    /\ call = [c \in Callers |-> IdleCall]
    /\ admin = [a \in Admins |-> IdleAdmin]
    /\ bound \in Bounds
    /\ overlapped = {}

Spend(what) == bound[what] > 0 /\ bound' = [bound EXCEPT ![what] = @ - 1]

Principal(k) == [key |-> k, tenant |-> keys[k].tenant, role |-> keys[k].role]

----------------------------------------------------------------------------
(* tenancy.Resolver.Resolve, by caller c of process HomeOf[c] *)

Active(k) == k \in DOMAIN keys /\ keys[k].revoked = None

SamePrefix(j, k) == j = k \/ (keys[j].role = keys[k].role /\ keys[k].role \in SharedRoles)

Newer(k) == {j \in DOMAIN keys : j > k /\ Active(j) /\ SamePrefix(j, k)}

(* The newest MaxRows active rows with the token's prefix are compared.    *)
LookupAPIKeyByPrefix(k) == Active(k) /\ Cardinality(Newer(k)) < MaxRows

\* Mutant: an entry is good while it is in the map.
MutCached(p, k) == k \in DOMAIN cache[p]

Cached(p, k) == k \in DOMAIN cache[p] /\ now <= cache[p][k]

(* cache.get drops the entry it finds expired.                             *)
Evict(p, k) == [cache EXCEPT ![p] = [j \in DOMAIN @ \ {k} |-> @[j]]]

Answer(c, out) == call' = [call EXCEPT ![c].pc = "done", ![c].out = out]

BeginResolve(c, k) ==
    LET p == HomeOf[c]
    IN  IF Cached(p, k)
        THEN /\ call' = [call EXCEPT ![c] = [IdleCall EXCEPT
                            !.pc = "done", !.token = k, !.at = now, !.out = Principal(k)]]
             /\ UNCHANGED cache
        ELSE /\ cache' = Evict(p, k)
             /\ call' = [call EXCEPT ![c] = [IdleCall EXCEPT
                            !.pc = "lookup", !.token = k, !.at = now]]

\* Mutant: rows are matched by prefix and tenant is taken from the newest.
MutLookup(c) ==
    /\ call[c].pc = "lookup"
    /\ LET k == call[c].token
           found == {j \in DOMAIN keys : Active(j) /\ SamePrefix(j, k)}
       IN  IF found # {}
           THEN call' = [call EXCEPT ![c].pc = "set", ![c].out =
                            Principal(CHOOSE j \in found : \A i \in found : i <= j)]
           ELSE Answer(c, None)
    /\ UNCHANGED cache

(* The query; a failure of the database is reported as an invalid key: the *)
(* answer None.                                                            *)
Lookup(c) ==
    /\ call[c].pc = "lookup"
    /\ LET k == call[c].token
       IN  \/ /\ LookupAPIKeyByPrefix(k)
              /\ call' = [call EXCEPT ![c].pc = "set", ![c].out = Principal(k)]
           \/ /\ ~LookupAPIKeyByPrefix(k)
              /\ call' = [call EXCEPT ![c].pc = "done", ![c].out = None,
                                      ![c].crowd = Active(k)]
           \/ call' = [call EXCEPT ![c].pc = "done", ![c].out = None, ![c].down = TRUE]
    /\ UNCHANGED cache

(* The entry is good for TTL from now on, not from the time of the query.  *)
CacheSet(c) ==
    /\ call[c].pc = "set"
    /\ cache' = [cache EXCEPT ![HomeOf[c]] =
            [k \in DOMAIN @ \cup {call[c].token} |->
                IF k = call[c].token THEN now + TTL ELSE @[k]]]
    /\ call' = [call EXCEPT ![c].pc = "done"]

----------------------------------------------------------------------------
(* The admin endpoints. Every statement is a step of its own and may fail, *)
(* which ends the request: what the earlier ones did stands.               *)

Step(a, pc) == admin' = [admin EXCEPT ![a].pc = pc]

Finish(a, out) == admin' = [admin EXCEPT ![a] = [IdleAdmin EXCEPT !.out = out]]

Statements == {"revokeKeys", "revokeCodes", "insertKey", "insertCode"}

(* The scope of a mint, and the mints at work on the same one.             *)
Scope(r) == <<r.tenant, r.role>>

Minting(r) == {a \in Admins : admin[a].pc \in Statements
                              /\ Scope(admin[a].req) = Scope(r)}

(* AdminToken.check and the decoding of the body, then the handler.        *)
AdminRequest(a) ==
    /\ admin[a].pc = "idle"
    /\ Spend("admin")
    /\ \E r \in AdminRequests :
        admin' = [admin EXCEPT ![a] = [IdleAdmin EXCEPT
                    !.pc = IF r.token THEN r.op ELSE "idle",
                    !.req = IF r.token THEN r ELSE None,
                    !.out = IF r.token THEN None ELSE "admin_token_required"]]
    /\ UNCHANGED <<keys, codes, tenants, overlapped>>

Upserted(t) == [u \in DOMAIN tenants \cup {t} |->
    IF u \in DOMAIN tenants THEN tenants[u] ELSE None]

(* handleMintKey, handleMintDemoCode: the tenant first, which is also all  *)
(* that handleCreateTenant does.                                           *)
UpsertTenant(a) ==
    LET r == admin[a].req
    IN  /\ admin[a].pc \in {"mintKey", "mintCode", "createTenant"}
        /\ \/ r.op # "createTenant" /\ r.role \notin Roles
              /\ Finish(a, "invalid_role") /\ UNCHANGED <<tenants, overlapped>>
           \/ /\ r.op # "createTenant" => r.role \in Roles
              /\ tenants' = Upserted(r.tenant)
              /\ IF r.op = "createTenant" THEN Finish(a, "ok") ELSE Step(a, "revokeKeys")
              /\ overlapped' = IF r.op # "createTenant" /\ Minting(r) # {}
                               THEN overlapped \cup {Scope(r)} ELSE overlapped
        /\ UNCHANGED <<keys, codes>>

PriorKeys(r) == [k \in DOMAIN keys |->
    IF keys[k].tenant = r.tenant /\ keys[k].role = r.role /\ keys[k].revoked = None
    THEN [keys[k] EXCEPT !.revoked = now] ELSE keys[k]]

RevokePriorKeys(a) ==
    LET r == admin[a].req
    IN  /\ admin[a].pc = "revokeKeys"
        /\ keys' = PriorKeys(r)
        /\ Step(a, IF r.op = "mintCode" THEN "revokeCodes" ELSE "insertKey")
        /\ UNCHANGED <<codes, tenants, overlapped>>

RevokePriorCodes(a) ==
    LET r == admin[a].req
    IN  /\ admin[a].pc = "revokeCodes"
        /\ codes' = [d \in DOMAIN codes |->
                IF codes[d].tenant = r.tenant /\ codes[d].role = r.role
                THEN [codes[d] EXCEPT !.revoked = TRUE] ELSE codes[d]]
        /\ Step(a, "insertKey")
        /\ UNCHANGED <<keys, tenants, overlapped>>

InsertAPIKey(a) ==
    LET r == admin[a].req
    IN  /\ admin[a].pc = "insertKey"
        /\ keys' = Append(keys, [tenant |-> r.tenant, role |-> r.role, revoked |-> None])
        /\ IF r.op = "mintCode"
           THEN admin' = [admin EXCEPT ![a].pc = "insertCode", ![a].key = Len(keys) + 1]
           ELSE Finish(a, "ok")
        /\ UNCHANGED <<codes, tenants, overlapped>>

(* A code that is free is found in five attempts, or the request fails     *)
(* (StatementFails).                                                       *)
InsertDemoCode(a) ==
    LET r == admin[a].req
    IN  /\ admin[a].pc = "insertCode"
        /\ codes' = Append(codes, [tenant |-> r.tenant, role |-> r.role,
                                   key |-> admin[a].key, revoked |-> FALSE])
        /\ Finish(a, "ok")
        /\ UNCHANGED <<keys, tenants, overlapped>>

handleRevokeKey(a) ==
    LET k == admin[a].req.key
    IN  /\ admin[a].pc = "revokeKey"
        /\ keys' = IF k \in DOMAIN keys /\ keys[k].revoked = None
                   THEN [keys EXCEPT ![k].revoked = now] ELSE keys
        /\ Finish(a, IF k \in DOMAIN keys THEN "ok" ELSE "nothing")
        /\ UNCHANGED <<codes, tenants, overlapped>>

(* The key behind the code stays.                                          *)
handleRevokeDemoCode(a) ==
    LET d == admin[a].req.code
    IN  /\ admin[a].pc = "revokeCode"
        /\ codes' = IF d \in DOMAIN codes THEN [codes EXCEPT ![d].revoked = TRUE] ELSE codes
        /\ Finish(a, IF d \in DOMAIN codes THEN "ok" ELSE "nothing")
        /\ UNCHANGED <<keys, tenants, overlapped>>

handleSetTenantBudget(a) ==
    LET r == admin[a].req
    IN  /\ admin[a].pc = "setBudget"
        /\ \/ r.budget # None /\ r.budget < 0 /\ Finish(a, "bad_budget") /\ UNCHANGED tenants
           \/ /\ r.budget # None => r.budget >= 0
              /\ tenants' = IF r.tenant \in DOMAIN tenants
                            THEN [tenants EXCEPT ![r.tenant] = r.budget] ELSE tenants
              /\ Finish(a, IF r.tenant \in DOMAIN tenants THEN "ok" ELSE "tenant_not_found")
        /\ UNCHANGED <<keys, codes, overlapped>>

(* handleListKeys, handleListTenants, handleListDemoCodes, handleAdminUsage *)
(* only read.                                                               *)
handleList(a) ==
    /\ admin[a].pc = "list"
    /\ Finish(a, "ok")
    /\ UNCHANGED <<keys, codes, tenants, overlapped>>

StatementFails(a) ==
    /\ admin[a].pc # "idle"
    /\ Finish(a, "failed")
    /\ UNCHANGED <<keys, codes, tenants, overlapped>>

AdminStep(a) ==
    \/ UpsertTenant(a) \/ RevokePriorKeys(a) \/ RevokePriorCodes(a) \/ InsertAPIKey(a)
    \/ InsertDemoCode(a) \/ handleRevokeKey(a) \/ handleRevokeDemoCode(a)
    \/ handleSetTenantBudget(a) \/ handleList(a) \/ StatementFails(a)

(* Time passes; a query does not take longer than MaxQuery.                *)
KeysTick ==
    /\ now < MaxTime
    /\ \A c \in Callers : call[c].pc \in {"lookup", "set"} => now < call[c].at + MaxQuery
    /\ now' = now + 1
=============================================================================

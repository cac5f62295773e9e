---------------------------- MODULE ConsoleProofs ----------------------------
(***************************************************************************)
(* Theorems about Console, for any tables, requests, roles, processes and  *)
(* limits: what an API key promises, the isolation of the tenants, the     *)
(* logout and the retention of the bodies.                                 *)
(***************************************************************************)
EXTENDS Console, FiniteSetTheorems, TLAPS

-----------------------------------------------------------------------------
(* The tables and the administrators *)

KeyRow == [tenant : Tenants, role : Roles, revoked : (0 .. now) \cup {None}]
CodeRow == [tenant : Tenants, role : Roles, key : 1 .. Len(keys), revoked : BOOLEAN]
BoundType == [admin : Nat, calls : Nat, web : Nat, writes : Nat, purges : Nat,
              time : Nat, demo : BOOLEAN]

\* Types of the tables, of the clock and of the bounds.
TableInv ==
    /\ now \in 0 .. MaxTime
    /\ keys \in Seq(KeyRow)
    /\ codes \in Seq(CodeRow)
    /\ DOMAIN tenants \subseteq Tenants /\ tenants \in [DOMAIN tenants -> Nat \cup {None}]
    /\ bound \in BoundType

Ops == {"mintKey", "mintCode", "createTenant", "revokeKey", "revokeCode", "setBudget", "list"}

\* An administrator's request: its statement fits the request it decoded.
AdminRow(x) ==
    /\ x \in [pc : {"idle"} \cup Ops \cup Statements, req : {x.req}, key : {x.key}, out : {x.out}]
    /\ x.pc # "idle" => x.req \in AdminRequests
    /\ x.pc \in Ops => x.pc = x.req.op
    /\ x.pc \in Statements =>
        /\ x.req.op \in {"mintKey", "mintCode"} /\ x.req.role \in Roles /\ x.req.tenant \in Tenants
    /\ x.pc \in {"revokeCodes", "insertCode"} => x.req.op = "mintCode"
    /\ x.pc = "insertCode" => x.key \in 1 .. Len(keys)

AdminInv == DOMAIN admin = Admins /\ \A a \in Admins : AdminRow(admin[a])

KeyIn(i, sc) == keys[i].revoked = None /\ <<keys[i].tenant, keys[i].role>> = sc
CodeIn(d, sc) == ~codes[d].revoked /\ <<codes[d].tenant, codes[d].role>> = sc

InScope(a, sc) == admin[a].pc \in Statements /\ Scope(admin[a].req) = sc

\* One live key and one live code in a scope.
OnceIn(sc) ==
    /\ \A i, j \in 1 .. Len(keys) : KeyIn(i, sc) /\ KeyIn(j, sc) => i = j
    /\ \A d, e \in 1 .. Len(codes) : CodeIn(d, sc) /\ CodeIn(e, sc) => d = e

\* What a mint that nothing overlaps knows at its statement: it is alone in
\* its scope, it has revoked the keys there, and for a code the codes too.
MintIn(a, sc) ==
    /\ \A b \in Admins : InScope(b, sc) => a = b
    /\ admin[a].pc \in {"revokeCodes", "insertKey"} => \A i \in 1 .. Len(keys) : ~KeyIn(i, sc)
    /\ (admin[a].pc = "insertCode" \/ (admin[a].pc = "insertKey" /\ admin[a].req.op = "mintCode"))
            => \A d \in 1 .. Len(codes) : ~CodeIn(d, sc)

MintInv ==
    \A sc \in (Tenants \X Roles) \ overlapped :
        OnceIn(sc) /\ \A a \in Admins : InScope(a, sc) => MintIn(a, sc)

KeysInv == TableInv /\ AdminInv /\ MintInv

-----------------------------------------------------------------------------
(* The resolvers *)

\* An entry of a cache outlives the revocation of its key by the life of an
\* entry and of a lookup at most.
CacheInv ==
    /\ DOMAIN cache = Processes
    /\ \A p \in Processes :
        /\ DOMAIN cache[p] \subseteq 1 .. Len(keys)
        /\ \A k \in DOMAIN cache[p] :
            /\ cache[p][k] \in Nat /\ cache[p][k] <= now + TTL
            /\ keys[k].revoked # None => cache[p][k] <= keys[k].revoked + MaxQuery + TTL

Crowd(k) == {j \in 1 .. Len(keys) : j > k /\ SamePrefix(j, k)}

\* A call: what it found belongs to the key it was asked about, which was
\* active when it was found.
CallRow(x) ==
    /\ x \in [pc : {"idle", "lookup", "set", "done"}, token : {x.token}, at : 0 .. now,
              out : {x.out}, down : BOOLEAN, crowd : BOOLEAN]
    /\ x.pc # "idle" => x.token \in 1 .. Len(keys)
    /\ x.pc \in {"lookup", "set"} => now <= x.at + MaxQuery
    /\ x.out # None => x.pc \in {"set", "done"} /\ x.out = Principal(x.token)
    /\ x.pc = "set" => x.out # None
    /\ (x.pc = "set" /\ keys[x.token].revoked # None) => x.at <= keys[x.token].revoked
    /\ (x.pc = "done" /\ x.out # None /\ keys[x.token].revoked # None)
            => x.at <= keys[x.token].revoked + TTL + MaxQuery
    /\ x.crowd => x.pc = "done" /\ Cardinality(Crowd(x.token)) >= MaxRows

CallInv == DOMAIN call = Callers /\ \A c \in Callers : CallRow(call[c])

-----------------------------------------------------------------------------
(* The browser and its sessions *)

Sessions == [key : Nat, tenant : Tenants, role : Roles, exp : Nat]

\* A session the console signed: of the tenant of the key it began with, and
\* of its role too unless roles can be switched.
GoodSession(s) ==
    /\ s \in Sessions
    /\ s.key \in 1 .. Len(keys) /\ s.exp <= MaxTime + SessionMaxAge
    /\ s.tenant = keys[s.key].tenant
    /\ s.role = keys[s.key].role \/ AllowRoleSwitch

\* What a tab may be shown, and given as a session.
Shown(t, cookie, reply, set) ==
    LET given == IF reply.what = "login" THEN call[t].token ELSE cookie.key
    IN  /\ reply.what \in {"prompts", "tenantData", "login"} => given \in 1 .. Len(keys)
        /\ reply.what \in {"prompts", "tenantData"} =>
                \A row \in reply.rows : row.tenant = keys[given].tenant
        /\ reply.what = "prompts" => AllowRoleSwitch \/ keys[given].role \in {"developer", "it"}
        /\ reply.what = "login" => /\ set \in Sessions /\ set.key = given
                                   /\ set.tenant = keys[given].tenant /\ set.role = keys[given].role

\* A request of the browser at every stage.
TabRow(t, x) ==
    /\ x \in [pc : {"idle", "sent", "resolving", "replied"}, req : {x.req}, cookie : {x.cookie},
              reply : {x.reply}, set : {x.set}]
    /\ x.cookie = None \/ GoodSession(x.cookie)
    /\ x.set \in {None, Cleared} \/ GoodSession(x.set)
    /\ x.pc = "resolving" => x.req.kind = "login"
    /\ (x.pc = "replied" /\ x.req.kind = "logout") => x.set = Cleared
    /\ (x.pc = "replied" /\ x.reply.ok) => Shown(t, x.cookie, x.reply, x.set)

TabInv == DOMAIN tab = Tabs /\ \A t \in Tabs : TabRow(t, tab[t])

JarInv == jar = None \/ GoodSession(jar)

\* While the browser is logged out no request has a session, wants one, or
\* brings one.
LogoutInv ==
    loggedOut =>
        /\ jar = None
        /\ \A t \in Tabs :
            /\ tab[t].pc = "sent" => tab[t].cookie = None /\ tab[t].req.kind # "login"
            /\ tab[t].pc # "resolving"
            /\ tab[t].pc = "replied" => tab[t].set \in {None, Cleared}

WebInv == TabInv /\ JarInv /\ LogoutInv

-----------------------------------------------------------------------------
(* The bodies *)

\* A body of a transaction that had ended when the purge began is younger than
\* the retention was then.
Late(b) == b.ts >= purge.began - purge.ttl \/ b.id \in purge.pending

PurgeType == [pc : {"boot", "idle", "responses", "prompts", "uploads"}, ttl : Nat, began : 0 .. now,
              pending : {purge.pending}, result : {"none", "ok", "failed"}]

\* What the purge under way has left of each kind, and may still meet.
DataInv ==
    /\ view \subseteq meta
    /\ \A b \in bodies : b.ts \in 0 .. now /\ b.kind \in {"prompt", "response", "upload"}
    /\ purge \in PurgeType
    /\ \A x \in open : x.ts \in 0 .. now /\ x.rows \in Writes /\ Late(x)
    /\ \A b \in bodies :
        /\ purge.pc \in {"prompts", "uploads"} /\ b.kind = "response" => Late(b)
        /\ purge.pc = "uploads" /\ b.kind = "prompt" => Late(b)
        /\ purge.result = "ok" => Late(b)

\* The inductive invariant of the console.
ConsoleInv == KeysInv /\ CacheInv /\ CallInv /\ WebInv /\ DataInv

-----------------------------------------------------------------------------
(* The tables only grow, and a key changes only when it is revoked *)

KeysGrow ==
    /\ Len(keys) \in Nat /\ Len(keys') \in Nat /\ Len(keys) <= Len(keys')
    /\ now \in Nat /\ now' \in Nat /\ now <= now'
    /\ \A k \in 1 .. Len(keys) :
        /\ keys'[k].tenant = keys[k].tenant /\ keys'[k].role = keys[k].role
        /\ \/ keys'[k].revoked = keys[k].revoked
           \/ keys[k].revoked = None /\ keys'[k].revoked = now'

\* The rows of the tables have their types.
LEMMA RowTypes ==
    ASSUME TableInv
    PROVE  /\ Len(keys) \in Nat /\ Len(codes) \in Nat /\ now \in Nat /\ now <= MaxTime
           /\ DOMAIN keys = 1 .. Len(keys) /\ DOMAIN codes = 1 .. Len(codes)
           /\ \A k \in 1 .. Len(keys) : keys[k] \in KeyRow
           /\ \A d \in 1 .. Len(codes) : codes[d] \in CodeRow
           /\ None \notin Int /\ MaxTime \in Nat
BY ApiKeysAssumption DEF TableInv

\* Nothing happens to the tables.
LEMMA KeysStay ==
    ASSUME TableInv, keys' = keys, now' = now
    PROVE  KeysGrow
BY RowTypes DEF KeysGrow

\* A request that ends leaves its answer.
LEMMA FinishEffect ==
    ASSUME AdminInv, NEW a \in Admins, NEW out, Finish(a, out)
    PROVE  /\ DOMAIN admin' = Admins /\ \A b \in Admins : b # a => admin'[b] = admin[b]
           /\ admin'[a].pc = "idle"
           /\ admin'[a] \in [pc : {"idle"}, req : {admin'[a].req}, key : {admin'[a].key}, out : {admin'[a].out}]
<1>1. admin'[a] = [IdleAdmin EXCEPT !.out = out]
  BY DEF Finish, AdminInv
<1>2. /\ [IdleAdmin EXCEPT !.out = out].pc = "idle"
      /\ [IdleAdmin EXCEPT !.out = out] = [pc |-> "idle", req |-> None, key |-> None, out |-> out]
  BY DEF IdleAdmin
<1>3. DOMAIN admin' = Admins /\ \A b \in Admins : b # a => admin'[b] = admin[b]
  BY DEF Finish, AdminInv
<1> QED BY <1>1, <1>2, <1>3

\* A request that goes on keeps what it decoded.
LEMMA StepEffect ==
    ASSUME AdminInv, NEW a \in Admins, NEW pc, Step(a, pc)
    PROVE  /\ DOMAIN admin' = Admins /\ \A b \in Admins : b # a => admin'[b] = admin[b]
           /\ admin'[a].pc = pc /\ admin'[a].req = admin[a].req /\ admin'[a].key = admin[a].key
           /\ admin'[a] \in [pc : {pc}, req : {admin'[a].req}, key : {admin'[a].key}, out : {admin'[a].out}]
BY DEF Step, AdminInv, AdminRow

\* The rows of the others are as good as they were while the table of the
\* keys does not shrink.
LEMMA AdminFrame ==
    ASSUME TableInv, AdminInv, NEW a \in Admins,
           DOMAIN admin' = Admins, \A b \in Admins : b # a => admin'[b] = admin[b],
           Len(keys') \in Nat, Len(keys) <= Len(keys'),
           AdminRow(admin[a])'
    PROVE  AdminInv'
<1>1. Len(keys) \in Nat /\ 1 .. Len(keys) \subseteq 1 .. Len(keys')
  BY RowTypes
<1>2. ASSUME NEW b \in Admins, b # a PROVE AdminRow(admin[b])'
  <2>1. admin'[b] = admin[b] /\ AdminRow(admin[b])
    BY <1>2 DEF AdminInv
  <2> QED BY <1>1, <2>1 DEF AdminRow
<1> QED BY <1>2 DEF AdminInv

\* A request that is over is well formed.
LEMMA IdleRow ==
    ASSUME AdminInv, NEW a \in Admins, NEW out, Finish(a, out)
    PROVE  AdminRow(admin[a])' /\ admin'[a].pc \notin Statements
BY FinishEffect DEF AdminRow, Ops, Statements

\* Keys and codes that are live in a scope were live in it before.
LiveShrinks ==
    /\ Len(keys') = Len(keys) /\ Len(codes') = Len(codes)
    /\ \A i \in 1 .. Len(keys) :
        /\ keys'[i].tenant = keys[i].tenant /\ keys'[i].role = keys[i].role
        /\ keys'[i].revoked = None => keys[i].revoked = None
    /\ \A d \in 1 .. Len(codes) :
        /\ codes'[d].tenant = codes[d].tenant /\ codes'[d].role = codes[d].role
        /\ ~codes'[d].revoked => ~codes[d].revoked

\* A step of one administrator that leaves no more live than there was: the
\* mints of the others still know what they knew.
LEMMA MintMoves ==
    ASSUME MintInv, LiveShrinks, overlapped \subseteq overlapped', NEW a \in Admins,
           \A b \in Admins : b # a => admin'[b] = admin[b],
           \A sc \in (Tenants \X Roles) \ overlapped' : InScope(a, sc)' => MintIn(a, sc)'
    PROVE  MintInv'
<1> SUFFICES ASSUME NEW sc \in (Tenants \X Roles) \ overlapped'
             PROVE  OnceIn(sc)' /\ \A b \in Admins : InScope(b, sc)' => MintIn(b, sc)'
  BY DEF MintInv
<1>0. sc \in (Tenants \X Roles) \ overlapped
  OBVIOUS
<1>1. OnceIn(sc) /\ \A b \in Admins : InScope(b, sc) => MintIn(b, sc)
  BY <1>0 DEF MintInv
<1>2. /\ \A i \in 1 .. Len(keys) : KeyIn(i, sc)' => KeyIn(i, sc)
      /\ \A d \in 1 .. Len(codes) : CodeIn(d, sc)' => CodeIn(d, sc)
  BY DEF LiveShrinks, KeyIn, CodeIn
<1>3. OnceIn(sc)'
  BY <1>1, <1>2 DEF LiveShrinks, OnceIn
<1>4. ASSUME NEW b \in Admins, InScope(b, sc)', b # a
      PROVE  MintIn(b, sc)'
  <2>1. admin'[b] = admin[b] /\ InScope(b, sc)
    BY <1>4 DEF InScope
  <2>2. \A c \in Admins : InScope(c, sc)' => InScope(c, sc)
    <3>1. ~InScope(a, sc)'
      BY <1>4 DEF MintIn
    <3> QED BY <3>1 DEF InScope
  <2>3. MintIn(b, sc)
    BY <1>1, <2>1
  <2> QED BY <1>2, <2>1, <2>2, <2>3 DEF MintIn, LiveShrinks
<1> QED BY <1>3, <1>4

\* A step that ends or refuses a mint.
LEMMA MintQuiet ==
    ASSUME MintInv, LiveShrinks, overlapped \subseteq overlapped', NEW a \in Admins,
           admin'[a].pc \notin Statements, \A b \in Admins : b # a => admin'[b] = admin[b]
    PROVE  MintInv'
<1>1. \A sc : ~InScope(a, sc)'
  BY DEF InScope
<1> QED BY <1>1, MintMoves

\* A bound that is spent stays a bound, and the demo switch stays put.
LEMMA SpendEffect ==
    ASSUME TableInv, NEW what \in {"admin", "calls", "web", "writes", "purges", "time"}, Spend(what)
    PROVE  bound' \in BoundType /\ bound'.demo = bound.demo
<1>0. bound \in BoundType
  BY DEF TableInv
<1>1. CASE what = "admin"
  <2>1. bound.admin \in Nat /\ bound.admin > 0 /\ bound' = [bound EXCEPT !.admin = bound.admin - 1]
    BY <1>0, <1>1 DEF Spend, BoundType
  <2>2. bound.admin - 1 \in Nat
    BY <2>1
  <2> QED BY <1>0, <2>1, <2>2 DEF BoundType
<1>2. CASE what = "calls"
  <2>1. bound.calls \in Nat /\ bound.calls > 0 /\ bound' = [bound EXCEPT !.calls = bound.calls - 1]
    BY <1>0, <1>2 DEF Spend, BoundType
  <2>2. bound.calls - 1 \in Nat
    BY <2>1
  <2> QED BY <1>0, <2>1, <2>2 DEF BoundType
<1>3. CASE what = "web"
  <2>1. bound.web \in Nat /\ bound.web > 0 /\ bound' = [bound EXCEPT !.web = bound.web - 1]
    BY <1>0, <1>3 DEF Spend, BoundType
  <2>2. bound.web - 1 \in Nat
    BY <2>1
  <2> QED BY <1>0, <2>1, <2>2 DEF BoundType
<1>4. CASE what = "writes"
  <2>1. bound.writes \in Nat /\ bound.writes > 0 /\ bound' = [bound EXCEPT !.writes = bound.writes - 1]
    BY <1>0, <1>4 DEF Spend, BoundType
  <2>2. bound.writes - 1 \in Nat
    BY <2>1
  <2> QED BY <1>0, <2>1, <2>2 DEF BoundType
<1>5. CASE what = "purges"
  <2>1. bound.purges \in Nat /\ bound.purges > 0 /\ bound' = [bound EXCEPT !.purges = bound.purges - 1]
    BY <1>0, <1>5 DEF Spend, BoundType
  <2>2. bound.purges - 1 \in Nat
    BY <2>1
  <2> QED BY <1>0, <2>1, <2>2 DEF BoundType
<1>6. CASE what = "time"
  <2>1. bound.time \in Nat /\ bound.time > 0 /\ bound' = [bound EXCEPT !.time = bound.time - 1]
    BY <1>0, <1>6 DEF Spend, BoundType
  <2>2. bound.time - 1 \in Nat
    BY <2>1
  <2> QED BY <1>0, <2>1, <2>2 DEF BoundType
<1> QED BY <1>1, <1>2, <1>3, <1>4, <1>5, <1>6

\* A function on 1 .. n is a sequence.
LEMMA IsSeq ==
    ASSUME NEW S, NEW n \in Nat, NEW f \in [1 .. n -> S]
    PROVE  f \in Seq(S) /\ Len(f) = n
OBVIOUS

\* A request arrives, or a request of one statement that changes no key ends.
LEMMA QuietStep ==
    ASSUME KeysInv, NEW a \in Admins, now' = now,
           \/ AdminRequest(a)
           \/ handleList(a) /\ bound' = bound
           \/ StatementFails(a) /\ bound' = bound
    PROVE  KeysInv' /\ KeysGrow
<1> USE DEF KeysInv
<1>1. UNCHANGED <<keys, codes, tenants, overlapped>> /\ bound' \in BoundType
  BY SpendEffect DEF AdminRequest, handleList, StatementFails, TableInv
<1>2. TableInv'
  BY <1>1 DEF TableInv, KeyRow, CodeRow
<1>3. KeysGrow
  BY <1>1, KeysStay
<1>4. /\ DOMAIN admin' = Admins /\ \A b \in Admins : b # a => admin'[b] = admin[b]
      /\ AdminRow(admin[a])' /\ admin'[a].pc \notin Statements
  <2>1. CASE AdminRequest(a)
    <3>1. PICK r \in AdminRequests :
            admin' = [admin EXCEPT ![a] = [IdleAdmin EXCEPT
                    !.pc = IF r.token THEN r.op ELSE "idle",
                    !.req = IF r.token THEN r ELSE None,
                    !.out = IF r.token THEN None ELSE "admin_token_required"]]
      BY <2>1 DEF AdminRequest
    <3>2. DOMAIN admin' = Admins /\ \A b \in Admins : b # a => admin'[b] = admin[b]
      BY <3>1 DEF AdminInv
    <3>3. admin'[a] = [pc |-> IF r.token THEN r.op ELSE "idle",
                       req |-> IF r.token THEN r ELSE None,
                       key |-> None,
                       out |-> IF r.token THEN None ELSE "admin_token_required"]
      BY <3>1 DEF AdminInv, IdleAdmin
    <3>4. r.op \in Ops
      BY RequestAssumption DEF Ops
    <3> QED BY <3>2, <3>3, <3>4 DEF AdminRow, Ops, Statements
  <2>2. CASE ~AdminRequest(a)
    <3>1. PICK out : Finish(a, out)
      BY <2>2 DEF handleList, StatementFails
    <3>2. admin'[a].pc \notin Statements /\ AdminRow(admin[a])'
      BY <3>1, IdleRow
    <3> QED BY <3>1, <3>2, FinishEffect
  <2> QED BY <2>1, <2>2
<1>5. AdminInv'
  BY <1>1, <1>4, AdminFrame, RowTypes
<1>6. MintInv'
  <2>1. LiveShrinks
    BY <1>1 DEF LiveShrinks
  <2> QED BY <1>1, <1>4, <2>1, MintQuiet
<1> QED BY <1>2, <1>3, <1>5, <1>6

\* The tenant of a mint is recorded, and the mint enters its scope.
LEMMA UpsertStep ==
    ASSUME KeysInv, NEW a \in Admins, now' = now, bound' = bound, UpsertTenant(a)
    PROVE  KeysInv' /\ KeysGrow
<1> USE DEF KeysInv
<1> DEFINE r == admin[a].req
<1>1. /\ keys' = keys /\ codes' = codes /\ overlapped \subseteq overlapped'
      /\ admin[a].pc \in {"mintKey", "mintCode", "createTenant"}
  BY DEF UpsertTenant
<1>2. /\ r \in AdminRequests /\ admin[a].pc = r.op /\ admin[a].pc \notin Statements
      /\ r.tenant \in Tenants
  BY <1>1, RequestAssumption DEF AdminInv, AdminRow, Ops, Statements
<1>3. KeysGrow /\ LiveShrinks
  BY <1>1, KeysStay DEF LiveShrinks
<1>4. tenants' = tenants \/ tenants' = Upserted(r.tenant)
  BY DEF UpsertTenant
<1>5. TableInv'
  <2>1. DOMAIN tenants' \subseteq Tenants /\ tenants' \in [DOMAIN tenants' -> Nat \cup {None}]
    BY <1>2, <1>4 DEF TableInv, Upserted
  <2> QED BY <1>1, <2>1 DEF TableInv, KeyRow, CodeRow
<1>6. CASE \E out : Finish(a, out)
  <2>1. PICK out : Finish(a, out)
    BY <1>6
  <2>2. AdminInv'
    BY <1>1, <2>1, FinishEffect, IdleRow, AdminFrame, RowTypes
  <2>3. MintInv'
    BY <1>1, <1>3, <2>1, FinishEffect, IdleRow, MintQuiet
  <2> QED BY <1>3, <1>5, <2>2, <2>3
<1>7. CASE ~\E out : Finish(a, out)
  <2>1. /\ Step(a, "revokeKeys") /\ r.op # "createTenant" /\ r.role \in Roles
        /\ overlapped' = IF r.op # "createTenant" /\ Minting(r) # {}
                         THEN overlapped \cup {Scope(r)} ELSE overlapped
    BY <1>7 DEF UpsertTenant
  <2>2. /\ DOMAIN admin' = Admins /\ \A b \in Admins : b # a => admin'[b] = admin[b]
        /\ admin'[a].pc = "revokeKeys" /\ admin'[a].req = r
        /\ admin'[a] \in [pc : {"revokeKeys"}, req : {admin'[a].req}, key : {admin'[a].key}, out : {admin'[a].out}]
    BY <2>1, StepEffect
  <2>3. AdminRow(admin[a])'
    BY <1>1, <1>2, <2>1, <2>2 DEF AdminRow, Ops, Statements
  <2>4. AdminInv'
    BY <1>1, <2>2, <2>3, AdminFrame, RowTypes
  <2>5. ASSUME NEW sc \in (Tenants \X Roles) \ overlapped', InScope(a, sc)'
        PROVE  MintIn(a, sc)'
    <3>1. Scope(r) = sc
      BY <2>2, <2>5 DEF InScope
    <3>2. Minting(r) = {}
      BY <2>1, <3>1, <2>5
    <3>3. \A b \in Admins : ~InScope(b, sc)
      BY <3>1, <3>2 DEF Minting, InScope
    <3>4. \A b \in Admins : InScope(b, sc)' => a = b
      BY <2>2, <3>3 DEF InScope
    <3> QED BY <2>2, <3>4 DEF MintIn
  <2>6. MintInv'
    BY <1>1, <1>3, <2>2, <2>5, MintMoves
  <2> QED BY <1>3, <1>5, <2>4, <2>6
<1> QED BY <1>6, <1>7

\* The live keys of the scope are revoked.
LEMMA RevokeKeysStep ==
    ASSUME KeysInv, NEW a \in Admins, now' = now, bound' = bound, RevokePriorKeys(a)
    PROVE  KeysInv' /\ KeysGrow
<1> USE DEF KeysInv
<1> DEFINE r == admin[a].req
           next == IF r.op = "mintCode" THEN "revokeCodes" ELSE "insertKey"
<1>0. /\ Len(keys) \in Nat /\ DOMAIN keys = 1 .. Len(keys) /\ now \in Nat
      /\ \A k \in 1 .. Len(keys) : keys[k] \in KeyRow
  BY RowTypes
<1>1. /\ admin[a].pc = "revokeKeys" /\ Step(a, next) /\ keys' = PriorKeys(r)
      /\ UNCHANGED <<codes, tenants, overlapped>>
  BY DEF RevokePriorKeys
<1>2. /\ r \in AdminRequests /\ r.op \in {"mintKey", "mintCode"} /\ r.role \in Roles /\ r.tenant \in Tenants
  BY <1>1 DEF AdminInv, AdminRow, Ops, Statements
<1>3. keys' \in [1 .. Len(keys) -> KeyRow]
  <2>1. ASSUME NEW k \in 1 .. Len(keys) PROVE [keys[k] EXCEPT !.revoked = now] \in KeyRow
    BY <1>0 DEF KeyRow
  <2> QED BY <1>0, <1>1, <2>1 DEF PriorKeys
<1>4. keys' \in Seq(KeyRow) /\ Len(keys') = Len(keys)
  BY <1>0, <1>3, IsSeq
<1>5. \A k \in 1 .. Len(keys) :
        /\ keys'[k].tenant = keys[k].tenant /\ keys'[k].role = keys[k].role
        /\ keys'[k].revoked = IF keys[k].tenant = r.tenant /\ keys[k].role = r.role /\ keys[k].revoked = None
                              THEN now ELSE keys[k].revoked
  BY <1>0, <1>1 DEF PriorKeys, KeyRow
<1>6. TableInv'
  BY <1>1, <1>4 DEF TableInv, KeyRow, CodeRow
<1>7. KeysGrow
  BY <1>0, <1>4, <1>5 DEF KeysGrow
<1>8. None # now
  BY <1>0, RowTypes
<1>9. LiveShrinks
  BY <1>1, <1>4, <1>5, <1>8 DEF LiveShrinks
<1>10. /\ DOMAIN admin' = Admins /\ \A b \in Admins : b # a => admin'[b] = admin[b]
       /\ admin'[a].pc = next /\ admin'[a].req = r
       /\ admin'[a] \in [pc : {next}, req : {admin'[a].req}, key : {admin'[a].key}, out : {admin'[a].out}]
  BY <1>1, StepEffect
<1>11. AdminRow(admin[a])'
  BY <1>1, <1>2, <1>10 DEF AdminRow, Ops, Statements
<1>12. AdminInv'
  BY <1>0, <1>4, <1>10, <1>11, AdminFrame
<1>13. ASSUME NEW sc \in (Tenants \X Roles) \ overlapped', InScope(a, sc)'
       PROVE  MintIn(a, sc)'
  <2>1. Scope(r) = sc /\ InScope(a, sc)
    BY <1>1, <1>10, <1>13 DEF InScope, Statements
  <2>2. MintIn(a, sc)
    BY <1>1, <1>13, <2>1 DEF MintInv
  <2>3. \A b \in Admins : InScope(b, sc)' => a = b
    BY <1>10, <2>2 DEF MintIn, InScope
  <2>4. \A i \in 1 .. Len(keys') : ~KeyIn(i, sc)'
    BY <1>4, <1>5, <1>8, <2>1 DEF KeyIn, Scope
  <2>5. ~(next = "insertCode") /\ ~(next = "insertKey" /\ r.op = "mintCode")
    OBVIOUS
  <2> HIDE DEF next
  <2> QED BY <1>10, <2>3, <2>4, <2>5 DEF MintIn
<1>14. MintInv'
  BY <1>1, <1>9, <1>10, <1>13, MintMoves
<1> QED BY <1>6, <1>7, <1>12, <1>14

\* The codes of the scope are revoked.
LEMMA RevokeCodesStep ==
    ASSUME KeysInv, NEW a \in Admins, now' = now, bound' = bound, RevokePriorCodes(a)
    PROVE  KeysInv' /\ KeysGrow
<1> USE DEF KeysInv
<1> DEFINE r == admin[a].req
<1>0. /\ Len(codes) \in Nat /\ DOMAIN codes = 1 .. Len(codes)
      /\ \A d \in 1 .. Len(codes) : codes[d] \in CodeRow
  BY RowTypes
<1>1. /\ admin[a].pc = "revokeCodes" /\ Step(a, "insertKey")
      /\ codes' = [d \in DOMAIN codes |->
                IF codes[d].tenant = r.tenant /\ codes[d].role = r.role
                THEN [codes[d] EXCEPT !.revoked = TRUE] ELSE codes[d]]
      /\ UNCHANGED <<keys, tenants, overlapped>>
  BY DEF RevokePriorCodes
<1>2. /\ r \in AdminRequests /\ r.op = "mintCode" /\ r.role \in Roles /\ r.tenant \in Tenants
  BY <1>1 DEF AdminInv, AdminRow, Ops, Statements
<1>3. codes' \in [1 .. Len(codes) -> CodeRow]
  <2>1. ASSUME NEW d \in 1 .. Len(codes) PROVE [codes[d] EXCEPT !.revoked = TRUE] \in CodeRow
    BY <1>0 DEF CodeRow
  <2> QED BY <1>0, <1>1, <2>1
<1>4. codes' \in Seq(CodeRow) /\ Len(codes') = Len(codes)
  BY <1>0, <1>3, IsSeq
<1>5. \A d \in 1 .. Len(codes) :
        /\ codes'[d].tenant = codes[d].tenant /\ codes'[d].role = codes[d].role
        /\ codes'[d].revoked <=> codes[d].revoked \/ (codes[d].tenant = r.tenant /\ codes[d].role = r.role)
  BY <1>0, <1>1 DEF CodeRow
<1>6. TableInv'
  BY <1>1, <1>4 DEF TableInv, KeyRow, CodeRow
<1>7. KeysGrow /\ LiveShrinks
  BY <1>1, <1>4, <1>5, KeysStay DEF LiveShrinks
<1>10. /\ DOMAIN admin' = Admins /\ \A b \in Admins : b # a => admin'[b] = admin[b]
       /\ admin'[a].pc = "insertKey" /\ admin'[a].req = r
       /\ admin'[a] \in [pc : {"insertKey"}, req : {admin'[a].req}, key : {admin'[a].key}, out : {admin'[a].out}]
  BY <1>1, StepEffect
<1>11. AdminRow(admin[a])'
  BY <1>1, <1>2, <1>10 DEF AdminRow, Ops, Statements
<1>12. AdminInv'
  BY <1>1, <1>10, <1>11, AdminFrame, RowTypes
<1>13. ASSUME NEW sc \in (Tenants \X Roles) \ overlapped', InScope(a, sc)'
       PROVE  MintIn(a, sc)'
  <2>1. Scope(r) = sc /\ InScope(a, sc)
    BY <1>1, <1>10, <1>13 DEF InScope, Statements
  <2>2. MintIn(a, sc)
    BY <1>1, <1>13, <2>1 DEF MintInv
  <2>3. \A b \in Admins : InScope(b, sc)' => a = b
    BY <1>10, <2>2 DEF MintIn, InScope
  <2>4. \A d \in 1 .. Len(codes') : ~CodeIn(d, sc)'
    BY <1>4, <1>5, <2>1 DEF CodeIn, Scope
  <2>5. \A i \in 1 .. Len(keys') : ~KeyIn(i, sc)'
    BY <1>1, <2>2 DEF MintIn, KeyIn
  <2> QED BY <1>10, <2>3, <2>4, <2>5 DEF MintIn
<1>14. MintInv'
  BY <1>1, <1>7, <1>10, <1>13, MintMoves
<1> QED BY <1>6, <1>7, <1>12, <1>14

\* A row is appended.
LEMMA AppendRow ==
    ASSUME NEW S, NEW s \in Seq(S), NEW x \in S
    PROVE  /\ Append(s, x) \in Seq(S) /\ Len(Append(s, x)) = Len(s) + 1 /\ Len(s) \in Nat
           /\ \A i \in 1 .. Len(s) : Append(s, x)[i] = s[i]
           /\ Append(s, x)[Len(s) + 1] = x
OBVIOUS

\* The new key: the only live one of its scope when the mint was alone.
LEMMA InsertKeyStep ==
    ASSUME KeysInv, NEW a \in Admins, now' = now, bound' = bound, InsertAPIKey(a)
    PROVE  KeysInv' /\ KeysGrow
<1> USE DEF KeysInv
<1> DEFINE r == admin[a].req
           row == [tenant |-> r.tenant, role |-> r.role, revoked |-> None]
           n == Len(keys)
<1>1. /\ admin[a].pc = "insertKey" /\ keys' = Append(keys, row)
      /\ UNCHANGED <<codes, tenants, overlapped>>
  BY DEF InsertAPIKey
<1>2. /\ r \in AdminRequests /\ r.op \in {"mintKey", "mintCode"} /\ r.role \in Roles /\ r.tenant \in Tenants
      /\ admin[a].pc \in Statements
  BY <1>1 DEF AdminInv, AdminRow, Ops, Statements
<1>3. row \in KeyRow
  BY <1>2 DEF KeyRow
<1>4. /\ keys' \in Seq(KeyRow) /\ Len(keys') = n + 1 /\ n \in Nat
      /\ \A i \in 1 .. n : keys'[i] = keys[i]
      /\ keys'[n + 1] = row
  <2> HIDE DEF row
  <2>1. keys \in Seq(KeyRow)
    BY DEF TableInv
  <2> QED BY <1>1, <1>3, <2>1, AppendRow
<1>5. 1 .. n \subseteq 1 .. (n + 1) /\ \A i \in 1 .. (n + 1) : i = n + 1 \/ i \in 1 .. n
  BY <1>4
<1>6. TableInv'
  <2>1. keys' \in Seq(KeyRow)' /\ KeyRow' = KeyRow
    BY <1>4 DEF KeyRow
  <2>2. \A d \in 1 .. Len(codes) : codes[d] \in CodeRow'
    BY <1>4, <1>5, RowTypes DEF CodeRow
  <2>3. codes' \in Seq(CodeRow)'
    <3>1. /\ codes \in [1 .. Len(codes) -> CodeRow'] /\ Len(codes) \in Nat
      BY <2>2, RowTypes DEF TableInv
    <3> HIDE DEF CodeRow
    <3> QED BY <1>1, <3>1, IsSeq
  <2> QED BY <1>1, <2>1, <2>3 DEF TableInv
<1>7. KeysGrow
  BY <1>4, <1>5, RowTypes DEF KeysGrow
<1>8. /\ DOMAIN admin' = Admins /\ \A b \in Admins : b # a => admin'[b] = admin[b]
      /\ AdminRow(admin[a])'
      /\ \/ admin'[a].pc \notin Statements
         \/ r.op = "mintCode" /\ admin'[a].pc = "insertCode" /\ admin'[a].req = r
  <2>1. CASE r.op = "mintCode"
    <3>1. admin' = [admin EXCEPT ![a].pc = "insertCode", ![a].key = Len(keys) + 1]
      BY <2>1 DEF InsertAPIKey
    <3>2. /\ DOMAIN admin' = Admins /\ \A b \in Admins : b # a => admin'[b] = admin[b]
          /\ admin'[a].pc = "insertCode" /\ admin'[a].req = r /\ admin'[a].key = n + 1
          /\ admin'[a] \in [pc : {"insertCode"}, req : {admin'[a].req}, key : {admin'[a].key}, out : {admin'[a].out}]
      BY <3>1 DEF AdminInv, AdminRow
    <3>3. n + 1 \in 1 .. Len(keys')
      BY <1>4
    <3>4. AdminRow(admin[a])'
      BY <1>2, <2>1, <3>2, <3>3 DEF AdminRow, Ops, Statements
    <3> QED BY <2>1, <3>2, <3>4
  <2>2. CASE r.op # "mintCode"
    <3>1. Finish(a, "ok")
      BY <2>2 DEF InsertAPIKey
    <3>2. DOMAIN admin' = Admins /\ \A b \in Admins : b # a => admin'[b] = admin[b]
      BY <3>1, FinishEffect
    <3>3. AdminRow(admin[a])' /\ admin'[a].pc \notin Statements
      BY <3>1, IdleRow
    <3> QED BY <3>2, <3>3
  <2> QED BY <2>1, <2>2
<1>9. AdminInv'
  BY <1>4, <1>8, AdminFrame
<1>10. MintInv'
  <2> SUFFICES ASSUME NEW sc \in (Tenants \X Roles) \ overlapped'
               PROVE  OnceIn(sc)' /\ \A b \in Admins : InScope(b, sc)' => MintIn(b, sc)'
    BY DEF MintInv
  <2>0. /\ OnceIn(sc) /\ \A b \in Admins : InScope(b, sc) => MintIn(b, sc)
    BY <1>1 DEF MintInv
  <2>1. \A i \in 1 .. n : KeyIn(i, sc)' <=> KeyIn(i, sc)
    BY <1>4 DEF KeyIn
  <2>2. \A i \in 1 .. (n + 1) : i = n + 1 /\ KeyIn(i, sc)' => Scope(r) = sc /\ InScope(a, sc)
    BY <1>2, <1>4 DEF KeyIn, Scope, InScope
  <2>3. \A d : CodeIn(d, sc)' <=> CodeIn(d, sc)
    BY <1>1 DEF CodeIn
  <2>4. \A b \in Admins : InScope(b, sc)' => InScope(b, sc)
    BY <1>2, <1>8 DEF InScope
  <2>5. CASE Scope(r) = sc
    <3>1. InScope(a, sc) /\ MintIn(a, sc)
      BY <1>2, <2>0, <2>5 DEF InScope
    <3>2. \A i \in 1 .. n : ~KeyIn(i, sc)
      BY <1>1, <3>1 DEF MintIn
    <3>3. OnceIn(sc)'
      BY <1>1, <1>4, <1>5, <2>0, <2>1, <2>3, <3>2 DEF OnceIn
    <3>4. ASSUME NEW b \in Admins, InScope(b, sc)' PROVE MintIn(b, sc)'
      <4>1. b = a
        BY <2>4, <3>1, <3>4 DEF MintIn
      <4>2. admin'[a].pc = "insertCode" /\ r.op = "mintCode"
        BY <1>8, <3>4, <4>1 DEF InScope
      <4>3. \A c \in Admins : InScope(c, sc)' => c = a
        BY <2>4, <3>1 DEF MintIn
      <4>4. \A d \in 1 .. Len(codes) : ~CodeIn(d, sc)
        BY <1>1, <3>1, <4>2 DEF MintIn
      <4> QED BY <1>1, <2>3, <4>1, <4>2, <4>3, <4>4 DEF MintIn
    <3> QED BY <3>3, <3>4
  <2>6. CASE Scope(r) # sc
    <3>1. \A i \in 1 .. Len(keys') : KeyIn(i, sc)' => i \in 1 .. n /\ KeyIn(i, sc)
      BY <1>4, <1>5, <2>1, <2>2, <2>6
    <3>2. OnceIn(sc)'
      BY <1>1, <2>0, <2>3, <3>1 DEF OnceIn
    <3>3. ASSUME NEW b \in Admins, InScope(b, sc)' PROVE MintIn(b, sc)'
      <4>1. b # a /\ InScope(b, sc)
        BY <1>8, <2>4, <2>6, <3>3 DEF InScope
      <4>2. admin'[b] = admin[b] /\ MintIn(b, sc)
        BY <1>8, <2>0, <4>1
      <4> QED BY <1>1, <2>3, <2>4, <3>1, <4>2 DEF MintIn
    <3> QED BY <3>2, <3>3
  <2> QED BY <2>5, <2>6
<1> QED BY <1>6, <1>7, <1>9, <1>10

\* The new code.
LEMMA InsertCodeStep ==
    ASSUME KeysInv, NEW a \in Admins, now' = now, bound' = bound, InsertDemoCode(a)
    PROVE  KeysInv' /\ KeysGrow
<1> USE DEF KeysInv
<1> DEFINE r == admin[a].req
           row == [tenant |-> r.tenant, role |-> r.role, key |-> admin[a].key, revoked |-> FALSE]
           n == Len(codes)
<1>1. /\ admin[a].pc = "insertCode" /\ codes' = Append(codes, row) /\ Finish(a, "ok")
      /\ UNCHANGED <<keys, tenants, overlapped>>
  BY DEF InsertDemoCode
<1>2. /\ r \in AdminRequests /\ r.op = "mintCode" /\ r.role \in Roles /\ r.tenant \in Tenants
      /\ admin[a].pc \in Statements /\ admin[a].key \in 1 .. Len(keys)
  BY <1>1 DEF AdminInv, AdminRow, Ops, Statements
<1>3. row \in CodeRow
  BY <1>2 DEF CodeRow
<1>4. /\ codes' \in Seq(CodeRow) /\ Len(codes') = n + 1 /\ n \in Nat
      /\ \A i \in 1 .. n : codes'[i] = codes[i]
      /\ codes'[n + 1] = row
  <2> HIDE DEF row
  <2>1. codes \in Seq(CodeRow)
    BY DEF TableInv
  <2> QED BY <1>1, <1>3, <2>1, AppendRow
<1>5. 1 .. n \subseteq 1 .. (n + 1) /\ \A i \in 1 .. (n + 1) : i = n + 1 \/ i \in 1 .. n
  BY <1>4
<1>6. TableInv'
  BY <1>1, <1>4 DEF TableInv, KeyRow, CodeRow
<1>7. KeysGrow
  BY <1>1, KeysStay
<1>8. /\ DOMAIN admin' = Admins /\ \A b \in Admins : b # a => admin'[b] = admin[b]
      /\ AdminRow(admin[a])' /\ admin'[a].pc \notin Statements
  BY <1>1, FinishEffect, IdleRow
<1>9. AdminInv'
  BY <1>1, <1>8, AdminFrame, RowTypes
<1>10. MintInv'
  <2> SUFFICES ASSUME NEW sc \in (Tenants \X Roles) \ overlapped'
               PROVE  OnceIn(sc)' /\ \A b \in Admins : InScope(b, sc)' => MintIn(b, sc)'
    BY DEF MintInv
  <2>0. /\ OnceIn(sc) /\ \A b \in Admins : InScope(b, sc) => MintIn(b, sc)
    BY <1>1 DEF MintInv
  <2>1. \A d \in 1 .. n : CodeIn(d, sc)' <=> CodeIn(d, sc)
    BY <1>4 DEF CodeIn
  <2>2. \A d \in 1 .. (n + 1) : d = n + 1 /\ CodeIn(d, sc)' => Scope(r) = sc
    BY <1>2, <1>4 DEF CodeIn, Scope
  <2>3. \A i : KeyIn(i, sc)' <=> KeyIn(i, sc)
    BY <1>1 DEF KeyIn
  <2>4. \A b \in Admins : InScope(b, sc)' => InScope(b, sc) /\ b # a
    BY <1>8 DEF InScope
  <2>5. CASE Scope(r) = sc
    <3>1. InScope(a, sc) /\ MintIn(a, sc)
      BY <1>2, <2>0, <2>5 DEF InScope
    <3>2. \A d \in 1 .. n : ~CodeIn(d, sc)
      BY <1>1, <3>1 DEF MintIn
    <3>3. OnceIn(sc)'
      BY <1>1, <1>4, <1>5, <2>0, <2>1, <2>3, <3>2 DEF OnceIn
    <3>4. \A b \in Admins : ~InScope(b, sc)'
      BY <2>4, <3>1 DEF MintIn
    <3> QED BY <3>3, <3>4
  <2>6. CASE Scope(r) # sc
    <3>1. \A d \in 1 .. Len(codes') : CodeIn(d, sc)' => d \in 1 .. n /\ CodeIn(d, sc)
      BY <1>4, <1>5, <2>1, <2>2, <2>6
    <3>2. OnceIn(sc)'
      BY <1>1, <2>0, <2>3, <3>1 DEF OnceIn
    <3>3. ASSUME NEW b \in Admins, InScope(b, sc)' PROVE MintIn(b, sc)'
      <4>1. b # a /\ InScope(b, sc)
        BY <2>4, <3>3
      <4>2. admin'[b] = admin[b] /\ MintIn(b, sc)
        BY <1>8, <2>0, <4>1
      <4> QED BY <1>1, <2>3, <2>4, <3>1, <4>2 DEF MintIn
    <3> QED BY <3>2, <3>3
  <2> QED BY <2>5, <2>6
<1> QED BY <1>6, <1>7, <1>9, <1>10

\* A key, a code or a budget is changed by hand.
LEMMA HandStep ==
    ASSUME KeysInv, NEW a \in Admins, now' = now, bound' = bound,
           handleRevokeKey(a) \/ handleRevokeDemoCode(a) \/ handleSetTenantBudget(a)
    PROVE  KeysInv' /\ KeysGrow
<1> USE DEF KeysInv
<1>0. /\ Len(keys) \in Nat /\ Len(codes) \in Nat /\ now \in Nat /\ None # now
      /\ DOMAIN keys = 1 .. Len(keys) /\ DOMAIN codes = 1 .. Len(codes)
      /\ \A k \in 1 .. Len(keys) : keys[k] \in KeyRow
      /\ \A d \in 1 .. Len(codes) : codes[d] \in CodeRow
  BY RowTypes
<1>1. overlapped' = overlapped /\ \E out : Finish(a, out)
  BY DEF handleRevokeKey, handleRevokeDemoCode, handleSetTenantBudget
<1>2. /\ DOMAIN admin' = Admins /\ \A b \in Admins : b # a => admin'[b] = admin[b]
      /\ AdminRow(admin[a])' /\ admin'[a].pc \notin Statements
  BY <1>1, FinishEffect, IdleRow
<1>3. TableInv' /\ KeysGrow /\ LiveShrinks
  <2>1. CASE handleRevokeKey(a)
    <3> DEFINE k == admin[a].req.key
    <3>1. /\ UNCHANGED <<codes, tenants>>
          /\ \/ keys' = keys
             \/ k \in 1 .. Len(keys) /\ keys[k].revoked = None /\ keys' = [keys EXCEPT ![k].revoked = now]
      BY <1>0, <2>1 DEF handleRevokeKey
    <3>2. CASE keys' = keys
      BY <3>1, <3>2, KeysStay DEF TableInv, KeyRow, CodeRow, LiveShrinks
    <3>3. CASE k \in 1 .. Len(keys) /\ keys[k].revoked = None /\ keys' = [keys EXCEPT ![k].revoked = now]
      <4>1. keys' \in [1 .. Len(keys) -> KeyRow]
        <5>1. [keys[k] EXCEPT !.revoked = now] \in KeyRow
          BY <1>0, <3>3 DEF KeyRow
        <5>2. /\ DOMAIN keys' = 1 .. Len(keys) /\ keys'[k] = [keys[k] EXCEPT !.revoked = now]
              /\ \A i \in 1 .. Len(keys) : i # k => keys'[i] = keys[i]
          BY <1>0, <3>3
        <5>3. keys' = [i \in 1 .. Len(keys) |-> IF i = k THEN [keys[k] EXCEPT !.revoked = now] ELSE keys[i]]
          BY <1>0, <3>3
        <5> QED BY <1>0, <5>1, <5>3
      <4>2. keys' \in Seq(KeyRow) /\ Len(keys') = Len(keys)
        BY <1>0, <4>1, IsSeq
      <4>3. /\ \A i \in 1 .. Len(keys) : i # k => keys'[i] = keys[i]
            /\ keys'[k].tenant = keys[k].tenant /\ keys'[k].role = keys[k].role /\ keys'[k].revoked = now
        BY <1>0, <3>3 DEF KeyRow
      <4>4. TableInv'
        BY <3>1, <4>2 DEF TableInv, KeyRow, CodeRow
      <4> QED BY <1>0, <3>1, <3>3, <4>2, <4>3, <4>4 DEF KeysGrow, LiveShrinks
    <3> QED BY <3>1, <3>2, <3>3
  <2>2. CASE handleRevokeDemoCode(a)
    <3> DEFINE d == admin[a].req.code
    <3>1. /\ UNCHANGED <<keys, tenants>>
          /\ \/ codes' = codes
             \/ d \in 1 .. Len(codes) /\ codes' = [codes EXCEPT ![d].revoked = TRUE]
      BY <1>0, <2>2 DEF handleRevokeDemoCode
    <3>2. CASE codes' = codes
      BY <3>1, <3>2, KeysStay DEF TableInv, KeyRow, CodeRow, LiveShrinks
    <3>3. CASE d \in 1 .. Len(codes) /\ codes' = [codes EXCEPT ![d].revoked = TRUE]
      <4>1. codes' \in [1 .. Len(codes) -> CodeRow]
        <5>1. [codes[d] EXCEPT !.revoked = TRUE] \in CodeRow
          BY <1>0, <3>3 DEF CodeRow
        <5>2. codes' = [i \in 1 .. Len(codes) |-> IF i = d THEN [codes[d] EXCEPT !.revoked = TRUE] ELSE codes[i]]
          BY <1>0, <3>3
        <5> QED BY <1>0, <5>1, <5>2
      <4>2. codes' \in Seq(CodeRow) /\ Len(codes') = Len(codes)
        BY <1>0, <4>1, IsSeq
      <4>3. /\ \A i \in 1 .. Len(codes) : i # d => codes'[i] = codes[i]
            /\ codes'[d].tenant = codes[d].tenant /\ codes'[d].role = codes[d].role /\ codes'[d].revoked
        BY <1>0, <3>3 DEF CodeRow
      <4>4. TableInv'
        BY <3>1, <4>2 DEF TableInv, KeyRow, CodeRow
      <4> QED BY <1>0, <3>1, <3>3, <4>2, <4>3, <4>4, KeysStay DEF LiveShrinks
    <3> QED BY <3>1, <3>2, <3>3
  <2>3. CASE handleSetTenantBudget(a)
    <3> DEFINE r == admin[a].req
    <3>1. /\ UNCHANGED <<keys, codes>> /\ admin[a].pc = "setBudget"
          /\ \/ tenants' = tenants
             \/ /\ r.budget # None => r.budget >= 0
                /\ r.tenant \in DOMAIN tenants
                /\ tenants' = [tenants EXCEPT ![r.tenant] = r.budget]
      BY <2>3 DEF handleSetTenantBudget
    <3>2. r \in AdminRequests /\ r.op = "setBudget"
      BY <3>1 DEF AdminInv, AdminRow, Ops, Statements
    <3>3. r.budget \in Int \cup {None}
      BY <3>2, RequestAssumption
    <3>4. DOMAIN tenants' \subseteq Tenants /\ tenants' \in [DOMAIN tenants' -> Nat \cup {None}]
      BY <3>1, <3>3 DEF TableInv
    <3>5. TableInv'
      BY <3>1, <3>4 DEF TableInv, KeyRow, CodeRow
    <3> QED BY <3>1, <3>5, KeysStay DEF LiveShrinks
  <2> QED BY <2>1, <2>2, <2>3
<1>4. AdminInv'
  BY <1>2, <1>3, AdminFrame DEF KeysGrow
<1>5. MintInv'
  BY <1>1, <1>2, <1>3, MintQuiet
<1> QED BY <1>3, <1>4, <1>5

\* A statement of an administrator.
LEMMA AdminKeeps ==
    ASSUME KeysInv, NEW a \in Admins, now' = now,
           AdminRequest(a) \/ (AdminStep(a) /\ bound' = bound)
    PROVE  KeysInv' /\ KeysGrow
BY QuietStep, UpsertStep, RevokeKeysStep, RevokeCodesStep, InsertKeyStep, InsertCodeStep, HandStep
   DEF AdminStep

-----------------------------------------------------------------------------
(* Resolving a key *)

\* Younger keys with a prefix do not go away.
LEMMA CrowdGrows ==
    ASSUME KeysGrow, NEW k \in 1 .. Len(keys), Cardinality(Crowd(k)) >= MaxRows
    PROVE  Cardinality(Crowd(k))' >= MaxRows
<1>0. Crowd(k)' = {j \in 1 .. Len(keys') : j > k /\ (j = k \/ (keys'[j].role = keys'[k].role /\ keys'[k].role \in SharedRoles))}
  BY DEF Crowd, SamePrefix
<1>1. Crowd(k) \subseteq Crowd(k)'
  BY <1>0 DEF Crowd, SamePrefix, KeysGrow
<1>2. IsFiniteSet(1 .. Len(keys'))
  BY FS_Interval DEF KeysGrow
<1>3. IsFiniteSet(Crowd(k)')
  BY <1>0, <1>2, FS_Subset
<1>4. Cardinality(Crowd(k)) <= Cardinality(Crowd(k)') /\ Cardinality(Crowd(k)) \in Nat /\ Cardinality(Crowd(k)') \in Nat
  BY <1>1, <1>3, FS_Subset, FS_CardinalityType
<1>5. MaxRows \in Nat
  BY ApiKeysAssumption
<1> QED BY <1>4, <1>5

\* What a call knows stays true while keys are minted and revoked, and while
\* time passes that its lookup has.
LEMMA CallFrame ==
    ASSUME TableInv, TableInv', KeysGrow, NEW x, CallRow(x),
           x.pc \in {"lookup", "set"} => now' <= x.at + MaxQuery
    PROVE  CallRow(x)'
<1>0. /\ TTL \in Nat /\ MaxQuery \in Nat /\ now \in Nat /\ now' \in Nat /\ now <= now'
      /\ Len(keys) \in Nat /\ Len(keys') \in Nat /\ Len(keys) <= Len(keys')
  BY ApiKeysAssumption DEF KeysGrow
<1>1. /\ x \in [pc : {"idle", "lookup", "set", "done"}, token : {x.token}, at : 0 .. now',
                out : {x.out}, down : BOOLEAN, crowd : BOOLEAN]
      /\ x.at \in Nat /\ x.at <= now /\ x.at <= now'
  BY <1>0 DEF CallRow
<1>2. CASE x.pc = "idle"
  BY <1>1, <1>2 DEF CallRow
<1>3. CASE x.pc # "idle"
  <2>1. x.token \in 1 .. Len(keys) /\ x.token \in 1 .. Len(keys')
    BY <1>0, <1>3 DEF CallRow
  <2>2. /\ keys'[x.token].tenant = keys[x.token].tenant /\ keys'[x.token].role = keys[x.token].role
        /\ \/ keys'[x.token].revoked = keys[x.token].revoked
           \/ keys[x.token].revoked = None /\ keys'[x.token].revoked = now'
    BY <2>1 DEF KeysGrow
  <2>3. Principal(x.token)' = Principal(x.token)
    BY <2>2 DEF Principal
  <2>4. x.crowd => Cardinality(Crowd(x.token))' >= MaxRows
    BY <2>1, CrowdGrows DEF CallRow
  <2>5. (x.pc = "set" /\ keys'[x.token].revoked # None) => x.at <= keys'[x.token].revoked
    BY <1>1, <2>2 DEF CallRow
  <2>6. (x.pc = "done" /\ x.out # None /\ keys'[x.token].revoked # None)
            => x.at <= keys'[x.token].revoked + TTL + MaxQuery
    BY <1>0, <1>1, <2>2 DEF CallRow
  <2>7. /\ x.pc \in {"lookup", "set"} => now' <= x.at + MaxQuery
        /\ x.out # None => x.pc \in {"set", "done"} /\ x.out = Principal(x.token)'
        /\ x.pc = "set" => x.out # None
        /\ x.crowd => x.pc = "done"
    BY <2>3 DEF CallRow
  <2> QED BY <1>1, <2>1, <2>4, <2>5, <2>6, <2>7 DEF CallRow
<1> QED BY <1>2, <1>3

\* So do the entries of the caches.
LEMMA CacheFrame ==
    ASSUME TableInv, TableInv', KeysGrow, CacheInv, cache' = cache
    PROVE  CacheInv'
<1>0. /\ TTL \in Nat /\ MaxQuery \in Nat /\ now \in Nat /\ now' \in Nat /\ now <= now'
      /\ Len(keys) \in Nat /\ Len(keys') \in Nat /\ Len(keys) <= Len(keys')
  BY ApiKeysAssumption DEF KeysGrow
<1>1. ASSUME NEW p \in Processes, NEW k \in DOMAIN cache[p]
      PROVE  /\ k \in 1 .. Len(keys') /\ cache[p][k] \in Nat /\ cache[p][k] <= now' + TTL
             /\ keys'[k].revoked # None => cache[p][k] <= keys'[k].revoked + MaxQuery + TTL
  <2>1. /\ k \in 1 .. Len(keys) /\ cache[p][k] \in Nat /\ cache[p][k] <= now + TTL
        /\ keys[k].revoked # None => cache[p][k] <= keys[k].revoked + MaxQuery + TTL
    BY <1>1 DEF CacheInv
  <2>2. \/ keys'[k].revoked = keys[k].revoked
        \/ keys[k].revoked = None /\ keys'[k].revoked = now'
    BY <2>1 DEF KeysGrow
  <2> QED BY <1>0, <2>1, <2>2
<1> QED BY <1>1 DEF CacheInv

\* One call moves, and the others keep their rows.
LEMMA CallOthers ==
    ASSUME TableInv, CallInv, NEW c \in Callers, keys' = keys, now' = now,
           DOMAIN call' = Callers, \A d \in Callers : d # c => call'[d] = call[d],
           CallRow(call'[c])
    PROVE  CallInv'
<1>1. \A d \in Callers : CallRow(call'[d])
  BY DEF CallInv
<1>2. \A d \in Callers : CallRow(call[d])'
  BY <1>1 DEF CallRow, Principal, Crowd, SamePrefix
<1> QED BY <1>2 DEF CallInv

\* A principal is not None.
LEMMA PrincipalType ==
    ASSUME TableInv, NEW k \in 1 .. Len(keys)
    PROVE  /\ Principal(k) \in [key : Nat, tenant : Tenants, role : Roles] /\ Principal(k) # None
           /\ Principal(k).key = k /\ Principal(k).tenant = keys[k].tenant /\ Principal(k).role = keys[k].role
<1>1. keys[k] \in KeyRow /\ k \in Nat
  BY RowTypes
<1>2. Principal(k) \in [key : Nat, tenant : Tenants, role : Roles]
  BY <1>1 DEF Principal, KeyRow
<1> QED BY <1>2, ApiKeysAssumption DEF Principal

\* A call begins: answered from the cache, or on its way to the database.
LEMMA BeginStep ==
    ASSUME TableInv, CacheInv, CallInv, NEW c \in Callers, NEW k \in 1 .. Len(keys),
           BeginResolve(c, k), keys' = keys, now' = now
    PROVE  /\ CacheInv' /\ CallInv' /\ call'[c].token = k
           /\ \A d \in Callers : d # c => call'[d] = call[d]
<1>0. /\ HomeOf[c] \in Processes /\ TTL \in Nat /\ MaxQuery \in Nat /\ now \in Nat
      /\ keys[k] \in KeyRow /\ Len(keys) \in Nat /\ None \notin Int
  BY ApiKeysAssumption, RowTypes
<1>1. /\ DOMAIN call' = Callers /\ \A d \in Callers : d # c => call'[d] = call[d]
  BY DEF BeginResolve, CallInv
<1>2. CASE Cached(HomeOf[c], k)
  <2>1. cache' = cache /\ call'[c] = [pc |-> "done", token |-> k, at |-> now, out |-> Principal(k),
                                      down |-> FALSE, crowd |-> FALSE]
    BY <1>2 DEF BeginResolve, CallInv, IdleCall
  <2>2. keys[k].revoked # None => now <= keys[k].revoked + TTL + MaxQuery
    <3>1. k \in DOMAIN cache[HomeOf[c]] /\ now <= cache[HomeOf[c]][k]
      BY <1>2 DEF Cached
    <3>2. /\ cache[HomeOf[c]][k] \in Nat
          /\ keys[k].revoked # None => cache[HomeOf[c]][k] <= keys[k].revoked + MaxQuery + TTL
      BY <1>0, <3>1 DEF CacheInv
    <3>3. keys[k].revoked \in Nat \cup {None}
      BY <1>0 DEF KeyRow
    <3> QED BY <1>0, <3>1, <3>2, <3>3
  <2>3. CallRow(call'[c]) /\ call'[c].token = k
    BY <1>0, <2>1, <2>2 DEF CallRow
  <2>4. CacheInv'
    BY <2>1 DEF CacheInv
  <2> QED BY <1>1, <2>3, <2>4, CallOthers
<1>3. CASE ~Cached(HomeOf[c], k)
  <2>1. /\ cache' = Evict(HomeOf[c], k)
        /\ call'[c] = [pc |-> "lookup", token |-> k, at |-> now, out |-> None,
                       down |-> FALSE, crowd |-> FALSE]
    BY <1>3 DEF BeginResolve, CallInv, IdleCall
  <2>2. CallRow(call'[c]) /\ call'[c].token = k
    BY <1>0, <2>1 DEF CallRow
  <2>3. /\ DOMAIN cache' = Processes
        /\ \A p \in Processes : DOMAIN cache'[p] \subseteq DOMAIN cache[p]
        /\ \A p \in Processes : \A j \in DOMAIN cache'[p] : cache'[p][j] = cache[p][j]
    BY <1>0, <2>1 DEF Evict, CacheInv
  <2>4. CacheInv'
    BY <2>3 DEF CacheInv
  <2> QED BY <1>1, <2>2, <2>4, CallOthers
<1> QED BY <1>2, <1>3

\* The database answers, or fails.
LEMMA LookupStep ==
    ASSUME TableInv, CacheInv, CallInv, NEW c \in Callers, Lookup(c), keys' = keys, now' = now
    PROVE  /\ CacheInv' /\ CallInv' /\ call'[c].token = call[c].token
           /\ \A d \in Callers : d # c => call'[d] = call[d]
<1> DEFINE k == call[c].token
<1>0. /\ call[c].pc = "lookup" /\ cache' = cache
      /\ CallRow(call[c]) /\ k \in 1 .. Len(keys) /\ k \in DOMAIN keys
      /\ keys[k] \in KeyRow /\ now \in Nat /\ Len(keys) \in Nat /\ DOMAIN keys = 1 .. Len(keys)
      /\ call[c].at \in 0 .. now /\ now <= call[c].at + MaxQuery
  BY RowTypes DEF Lookup, CallInv, CallRow
<1>1. /\ DOMAIN call' = Callers /\ \A d \in Callers : d # c => call'[d] = call[d]
  BY DEF Lookup, CallInv
<1>2. CacheInv'
  BY <1>0 DEF CacheInv
<1>3. CASE LookupAPIKeyByPrefix(k) /\ call' = [call EXCEPT ![c].pc = "set", ![c].out = Principal(k)]
  <2>1. keys[k].revoked = None
    BY <1>3 DEF LookupAPIKeyByPrefix, Active
  <2>2. /\ call'[c] \in [pc : {"set"}, token : {k}, at : {call[c].at}, out : {Principal(k)},
                         down : BOOLEAN, crowd : {call[c].crowd}]
        /\ call'[c].pc = "set" /\ call'[c].token = k /\ call'[c].at = call[c].at
        /\ call'[c].out = Principal(k) /\ (call'[c].crowd <=> call[c].crowd)
    BY <1>0, <1>3 DEF CallInv, CallRow
  <2>3. ~call[c].crowd /\ call[c].crowd \in BOOLEAN /\ Principal(k) # None
    BY <1>0, PrincipalType DEF CallRow
  <2>4. CallRow(call'[c])
    BY <1>0, <2>1, <2>2, <2>3 DEF CallRow
  <2> QED BY <1>1, <1>2, <2>2, <2>4, CallOthers
<1>4. CASE ~LookupAPIKeyByPrefix(k) /\ call' = [call EXCEPT ![c].pc = "done", ![c].out = None,
                                      ![c].crowd = Active(k)]
  <2>2. /\ call'[c] \in [pc : {"done"}, token : {k}, at : {call[c].at}, out : {None},
                         down : BOOLEAN, crowd : BOOLEAN]
        /\ call'[c].pc = "done" /\ call'[c].token = k /\ call'[c].at = call[c].at
        /\ call'[c].out = None /\ (call'[c].crowd <=> Active(k))
    <3>1. Active(k) \in BOOLEAN
      BY DEF Active
    <3> QED BY <1>0, <1>4, <3>1 DEF CallInv, CallRow
  <2>3. Active(k) => Cardinality(Crowd(k)) >= MaxRows
    <3>1. SUFFICES ASSUME Active(k) PROVE Cardinality(Crowd(k)) >= MaxRows
      OBVIOUS
    <3>2. ~(Cardinality(Newer(k)) < MaxRows)
      BY <1>4, <3>1 DEF LookupAPIKeyByPrefix
    <3>3. Newer(k) \subseteq Crowd(k) /\ Crowd(k) \subseteq 1 .. Len(keys)
      BY <1>0 DEF Newer, Crowd
    <3>4. IsFiniteSet(Crowd(k))
      <4>1. IsFiniteSet(1 .. Len(keys))
        BY <1>0, FS_Interval
      <4> QED BY <3>3, <4>1, FS_Subset
    <3>5. /\ Cardinality(Newer(k)) <= Cardinality(Crowd(k))
          /\ Cardinality(Newer(k)) \in Nat /\ Cardinality(Crowd(k)) \in Nat
      BY <3>3, <3>4, FS_Subset, FS_CardinalityType
    <3>6. MaxRows \in Nat
      BY ApiKeysAssumption
    <3> QED BY <3>2, <3>5, <3>6
  <2>4. CallRow(call'[c])
    BY <1>0, <2>2, <2>3 DEF CallRow
  <2> QED BY <1>1, <1>2, <2>2, <2>4, CallOthers
<1>5. CASE call' = [call EXCEPT ![c].pc = "done", ![c].out = None, ![c].down = TRUE]
  <2>2. /\ call'[c] \in [pc : {"done"}, token : {k}, at : {call[c].at}, out : {None},
                         down : BOOLEAN, crowd : {call[c].crowd}]
        /\ call'[c].pc = "done" /\ call'[c].token = k /\ call'[c].at = call[c].at
        /\ call'[c].out = None /\ (call'[c].crowd <=> call[c].crowd)
    BY <1>0, <1>5 DEF CallInv, CallRow
  <2>3. ~call[c].crowd /\ call[c].crowd \in BOOLEAN
    BY <1>0 DEF CallRow
  <2>4. CallRow(call'[c])
    BY <1>0, <2>2, <2>3 DEF CallRow
  <2> QED BY <1>1, <1>2, <2>2, <2>4, CallOthers
<1> QED BY <1>3, <1>4, <1>5 DEF Lookup

\* What was found goes into the cache.
LEMMA CacheSetStep ==
    ASSUME TableInv, CacheInv, CallInv, NEW c \in Callers, CacheSet(c), keys' = keys, now' = now
    PROVE  /\ CacheInv' /\ CallInv' /\ call'[c].token = call[c].token
           /\ \A d \in Callers : d # c => call'[d] = call[d]
<1> DEFINE k == call[c].token
           h == HomeOf[c]
<1>0. /\ call[c].pc = "set" /\ CallRow(call[c]) /\ k \in 1 .. Len(keys)
      /\ keys[k] \in KeyRow /\ now \in Nat /\ Len(keys) \in Nat
      /\ call[c].at \in 0 .. now /\ now <= call[c].at + MaxQuery
      /\ TTL \in Nat /\ MaxQuery \in Nat /\ h \in Processes /\ None \notin Int
  BY RowTypes, ApiKeysAssumption DEF CacheSet, CallInv, CallRow
<1>1. /\ DOMAIN call' = Callers /\ \A d \in Callers : d # c => call'[d] = call[d]
      /\ call'[c] \in [pc : {"done"}, token : {k}, at : {call[c].at}, out : {call[c].out},
                       down : BOOLEAN, crowd : {call[c].crowd}]
      /\ call'[c].pc = "done" /\ call'[c].token = k /\ call'[c].at = call[c].at
      /\ call'[c].out = call[c].out /\ (call'[c].crowd <=> call[c].crowd)
  BY <1>0 DEF CacheSet, CallInv, CallRow
<1>2. /\ keys[k].revoked # None => call[c].at <= keys[k].revoked
      /\ keys[k].revoked \in Nat \cup {None} /\ ~call[c].crowd /\ call[c].crowd \in BOOLEAN
      /\ call[c].out = Principal(k)
  BY <1>0 DEF CallRow, KeyRow
<1>3. keys[k].revoked # None => call[c].at <= keys[k].revoked + TTL + MaxQuery
  BY <1>0, <1>2
<1>4. CallRow(call'[c])
  BY <1>0, <1>1, <1>2, <1>3 DEF CallRow
<1>5. /\ DOMAIN cache' = Processes /\ \A p \in Processes : p # h => cache'[p] = cache[p]
      /\ cache'[h] = [j \in DOMAIN cache[h] \cup {k} |-> IF j = k THEN now + TTL ELSE cache[h][j]]
  BY <1>0 DEF CacheSet, CacheInv
<1>6. CacheInv'
  <2>1. keys[k].revoked # None => now + TTL <= keys[k].revoked + MaxQuery + TTL
    BY <1>0, <1>2
  <2>2. ASSUME NEW p \in Processes, NEW j \in DOMAIN cache'[p]
        PROVE  /\ j \in 1 .. Len(keys) /\ cache'[p][j] \in Nat /\ cache'[p][j] <= now + TTL
               /\ keys[j].revoked # None => cache'[p][j] <= keys[j].revoked + MaxQuery + TTL
    <3>1. CASE p = h /\ j = k
      <4>1. cache'[p][j] = now + TTL
        BY <1>5, <3>1
      <4>2. now + TTL \in Nat
        BY <1>0
      <4> QED BY <1>0, <2>1, <3>1, <4>1, <4>2
    <3>2. CASE p = h /\ j # k
      <4>1. j \in DOMAIN cache[h] /\ cache'[p][j] = cache[h][j]
        BY <1>5, <2>2, <3>2
      <4> QED BY <1>0, <4>1 DEF CacheInv
    <3>3. CASE p # h
      BY <1>5, <2>2, <3>3 DEF CacheInv
    <3> QED BY <3>1, <3>2, <3>3
  <2> QED BY <1>5, <2>2 DEF CacheInv
<1> QED BY <1>1, <1>4, <1>6, CallOthers

-----------------------------------------------------------------------------
(* The browser *)

\* A session stays good while keys are minted and revoked.
LEMMA GoodFrame ==
    ASSUME KeysGrow, bound'.demo <=> bound.demo, NEW s, GoodSession(s)
    PROVE  GoodSession(s)'
BY DEF GoodSession, KeysGrow, AllowRoleSwitch

\* So does what a tab has been shown.
LEMMA TabFrame ==
    ASSUME KeysGrow, bound'.demo <=> bound.demo, NEW t \in Tabs, call'[t].token = call[t].token,
           NEW x, TabRow(t, x)
    PROVE  TabRow(t, x)'
<1>1. /\ GoodSession(x.cookie) => GoodSession(x.cookie)'
      /\ GoodSession(x.set) => GoodSession(x.set)'
  BY GoodFrame
<1>2. (x.pc = "replied" /\ x.reply.ok) => Shown(t, x.cookie, x.reply, x.set)'
  <2>1. SUFFICES ASSUME x.pc = "replied", x.reply.ok PROVE Shown(t, x.cookie, x.reply, x.set)'
    OBVIOUS
  <2>2. Shown(t, x.cookie, x.reply, x.set)
    BY <2>1 DEF TabRow
  <2>3. CASE x.reply.what = "login"
    BY <2>2, <2>3 DEF Shown, KeysGrow, AllowRoleSwitch
  <2>4. CASE x.reply.what # "login"
    BY <2>2, <2>4 DEF Shown, KeysGrow, AllowRoleSwitch
  <2> QED BY <2>3, <2>4
<1> QED BY <1>1, <1>2 DEF TabRow

\* Nothing happens to the browser.
LEMMA WebFrame ==
    ASSUME WebInv, KeysGrow, bound'.demo <=> bound.demo, tab' = tab, jar' = jar, loggedOut' = loggedOut,
           \A t \in Tabs : call'[t].token = call[t].token
    PROVE  WebInv'
<1>1. ASSUME NEW t \in Tabs PROVE TabRow(t, tab[t])'
  <2>1. PICK x : x = tab[t]
    OBVIOUS
  <2>2. TabRow(t, x)'
    BY <2>1, TabFrame DEF WebInv, TabInv
  <2> QED BY <2>1, <2>2 DEF TabRow
<1>2. JarInv'
  <2>1. PICK s : s = jar
    OBVIOUS
  <2>2. s = None \/ GoodSession(s)'
    BY <2>1, GoodFrame DEF WebInv, JarInv
  <2> QED BY <2>1, <2>2 DEF JarInv, GoodSession
<1>3. LogoutInv'
  BY DEF WebInv, LogoutInv
<1> QED BY <1>1, <1>2, <1>3 DEF WebInv, TabInv

\* One request of the browser moves, and the others keep their rows.
LEMMA TabOthers ==
    ASSUME TabInv, KeysGrow, bound'.demo <=> bound.demo, NEW t \in Tabs,
           DOMAIN tab' = Tabs, \A u \in Tabs : u # t => tab'[u] = tab[u] /\ call'[u].token = call[u].token,
           TabRow(t, tab[t])'
    PROVE  TabInv'
<1>1. ASSUME NEW u \in Tabs, u # t PROVE TabRow(u, tab[u])'
  <2>1. PICK x : x = tab[u]
    OBVIOUS
  <2>2. TabRow(u, x)'
    BY <1>1, <2>1, TabFrame DEF TabInv
  <2> QED BY <1>1, <2>1, <2>2 DEF TabRow
<1> QED BY <1>1 DEF TabInv

\* An answer is written.
LEMMA ReplyEffect ==
    ASSUME TabInv, NEW t \in Tabs, NEW reply, NEW set, Reply(t, reply, set)
    PROVE  /\ DOMAIN tab' = Tabs /\ \A u \in Tabs : u # t => tab'[u] = tab[u]
           /\ tab'[t].pc = "replied" /\ tab'[t].req = tab[t].req /\ tab'[t].cookie = tab[t].cookie
           /\ tab'[t].reply = reply /\ tab'[t].set = set
           /\ tab'[t] \in [pc : {"replied"}, req : {tab[t].req}, cookie : {tab[t].cookie},
                           reply : {reply}, set : {set}]
BY DEF Reply, TabInv, TabRow

\* What an answer must be for the browser to stay right.
LEMMA ReplyStep ==
    ASSUME TableInv, WebInv, NEW t \in Tabs, NEW reply, NEW set, Reply(t, reply, set),
           keys' = keys, now' = now, call' = call, bound' = bound, jar' = jar, loggedOut' = loggedOut,
           set \in {None, Cleared} \/ GoodSession(set),
           tab[t].req.kind = "logout" => set = Cleared,
           loggedOut => set \in {None, Cleared},
           reply.ok => Shown(t, tab[t].cookie, reply, set)
    PROVE  WebInv'
<1> USE DEF WebInv
<1>1. KeysGrow
  BY KeysStay
<1>2. /\ DOMAIN tab' = Tabs /\ \A u \in Tabs : u # t => tab'[u] = tab[u]
      /\ tab'[t].pc = "replied" /\ tab'[t].req = tab[t].req /\ tab'[t].cookie = tab[t].cookie
      /\ tab'[t].reply = reply /\ tab'[t].set = set
      /\ tab'[t] \in [pc : {"replied"}, req : {tab[t].req}, cookie : {tab[t].cookie},
                      reply : {reply}, set : {set}]
  BY ReplyEffect
<1>3. tab[t].cookie = None \/ GoodSession(tab[t].cookie)
  BY DEF TabInv, TabRow
<1>4. TabRow(t, tab'[t])
  BY <1>2, <1>3 DEF TabRow
<1>5. TabRow(t, tab[t])'
  BY <1>4 DEF TabRow, GoodSession, Shown, AllowRoleSwitch
<1>6. TabInv'
  BY <1>1, <1>2, <1>5, TabOthers
<1>7. JarInv'
  BY DEF JarInv, GoodSession, AllowRoleSwitch
<1>8. LogoutInv'
  BY <1>2 DEF LogoutInv
<1> QED BY <1>6, <1>7, <1>8

\* Renewing a session keeps it good, and so does another role in a demo.
LEMMA SignGood ==
    ASSUME TableInv, NEW s, GoodSession(s)
    PROVE  /\ GoodSession(Sign(s))
           /\ \A ro \in Roles : AllowRoleSwitch => GoodSession(Sign([s EXCEPT !.role = ro]))
<1>0. /\ now + SessionMaxAge \in Nat /\ now + SessionMaxAge <= MaxTime + SessionMaxAge
  BY RowTypes, ConsoleAssumption
<1>1. s \in Sessions
  BY DEF GoodSession
<1>2. /\ Sign(s) \in Sessions /\ Sign(s).key = s.key /\ Sign(s).tenant = s.tenant
      /\ Sign(s).role = s.role /\ Sign(s).exp = now + SessionMaxAge
  BY <1>0, <1>1 DEF Sign, Sessions
<1>3. ASSUME NEW ro \in Roles, AllowRoleSwitch
      PROVE  GoodSession(Sign([s EXCEPT !.role = ro]))
  <2> DEFINE w == [s EXCEPT !.role = ro]
  <2>1. w \in Sessions /\ w.key = s.key /\ w.tenant = s.tenant
    BY <1>1 DEF Sessions
  <2> HIDE DEF w
  <2>2. /\ Sign(w) \in Sessions /\ Sign(w).key = w.key /\ Sign(w).tenant = w.tenant
        /\ Sign(w).exp = now + SessionMaxAge
    BY <1>0, <2>1 DEF Sign, Sessions
  <2>3. GoodSession(Sign(w))
    BY <1>0, <1>3, <2>1, <2>2 DEF GoodSession
  <2> QED BY <2>3 DEF w
<1> QED BY <1>0, <1>2, <1>3 DEF GoodSession

\* A refusal shows nothing.
LEMMA RefuseShows ==
    ASSUME NEW code
    PROVE  Refuse(code).ok <=> FALSE
BY DEF Refuse

\* What an answer says and holds.
LEMMA ServeShows ==
    ASSUME NEW what, NEW rows
    PROVE  Serve(what, rows).what = what /\ Serve(what, rows).rows = rows
BY DEF Serve

\* The rows of a dashboard are of the session's tenant.
LEMMA DataRows ==
    ASSUME NEW s, NEW kind \in {"prompts", "tenantData"}, NEW row \in Data(s, kind)
    PROVE  row.tenant = s.tenant
<1>1. CASE kind = "prompts"
  BY <1>1 DEF Data, asTenant
<1>2. CASE kind = "tenantData"
  BY <1>2 DEF Data, asTenant
<1> QED BY <1>1, <1>2

\* The logout.
LEMMA LogoutStep ==
    ASSUME TableInv, WebInv, NEW t \in Tabs, handleLogout(t)
    PROVE  WebInv'
<1>1. /\ Reply(t, Serve("logout", {}), Cleared)
      /\ keys' = keys /\ now' = now /\ call' = call /\ bound' = bound /\ jar' = jar /\ loggedOut' = loggedOut
  BY DEF handleLogout, keyVars, callVars
<1>2. Shown(t, tab[t].cookie, Serve("logout", {}), Cleared)
  BY ServeShows DEF Shown
<1> QED BY <1>1, <1>2, ReplyStep

\* The end of a login: the session has the rights of the key.
LEMMA LoginStep ==
    ASSUME TableInv, CallInv, WebInv, NEW t \in Tabs, FinishLogin(t)
    PROVE  WebInv'
<1> DEFINE p == call[t].out
           s == [key |-> p.key, tenant |-> p.tenant, role |-> p.role, exp |-> now + SessionMaxAge]
<1>1. /\ tab[t].pc = "resolving" /\ call[t].pc = "done"
      /\ keys' = keys /\ now' = now /\ call' = call /\ bound' = bound /\ jar' = jar /\ loggedOut' = loggedOut
  BY DEF FinishLogin, keyVars, callVars
<1>2. tab[t].req.kind = "login" /\ ~loggedOut
  BY <1>1 DEF WebInv, TabInv, TabRow, LogoutInv
<1>3. CASE p = None
  <2>1. Reply(t, Refuse("invalid_token"), None)
    BY <1>3 DEF FinishLogin
  <2> QED BY <1>1, <1>2, <2>1, RefuseShows, ReplyStep
<1>4. CASE p # None
  <2>1. Reply(t, Serve("login", {}), s)
    BY <1>4 DEF FinishLogin
  <2>2. t \in Callers /\ call[t].token \in 1 .. Len(keys) /\ p = Principal(call[t].token)
    BY <1>1, <1>4, ConsoleAssumption DEF CallInv, CallRow
  <2>3. /\ p \in [key : Nat, tenant : Tenants, role : Roles] /\ p.key = call[t].token
        /\ p.tenant = keys[call[t].token].tenant /\ p.role = keys[call[t].token].role
    BY <2>2, PrincipalType
  <2>4. /\ now + SessionMaxAge \in Nat /\ now + SessionMaxAge <= MaxTime + SessionMaxAge
    BY RowTypes, ConsoleAssumption
  <2>5. /\ s \in Sessions /\ s.key = p.key /\ s.tenant = p.tenant /\ s.role = p.role
        /\ s.exp = now + SessionMaxAge
    BY <2>3, <2>4 DEF Sessions
  <2> HIDE DEF s, p
  <2>6. GoodSession(s)
    BY <2>2, <2>3, <2>4, <2>5 DEF GoodSession
  <2>7. Shown(t, tab[t].cookie, Serve("login", {}), s)
    BY <2>2, <2>3, <2>5, ServeShows DEF Shown
  <2> QED BY <1>1, <1>2, <2>1, <2>6, <2>7, ReplyStep
<1> QED BY <1>3, <1>4

\* A request with a session, for data or for another role.
LEMMA SessionStep ==
    ASSUME TableInv, WebInv, NEW t \in Tabs, requireSession(t)
    PROVE  WebInv'
<1> DEFINE r == tab[t].req
           s == tab[t].cookie
<1>1. /\ tab[t].pc = "sent" /\ r.kind \notin {"login", "logout", "vendorUsage"}
      /\ keys' = keys /\ now' = now /\ call' = call /\ bound' = bound /\ jar' = jar /\ loggedOut' = loggedOut
  BY DEF requireSession, keyVars, callVars
<1>2. ASSUME NEW code, NEW set, Reply(t, Refuse(code), set),
             set = None \/ (GoodSession(set) /\ ~loggedOut)
      PROVE  WebInv'
  BY <1>1, <1>2, RefuseShows, ReplyStep
<1>3. CASE \E code : Reply(t, Refuse(code), None)
  BY <1>2, <1>3
<1>4. ASSUME Verify(s)
      PROVE  /\ GoodSession(s) /\ GoodSession(Sign(s)) /\ ~loggedOut
             /\ \A ro \in Roles : AllowRoleSwitch => GoodSession(Sign([s EXCEPT !.role = ro]))
  <2>1. GoodSession(s)
    BY <1>4 DEF Verify, WebInv, TabInv, TabRow
  <2>2. ~loggedOut
    BY <1>1, <1>4 DEF Verify, WebInv, LogoutInv
  <2> QED BY <2>1, <2>2, SignGood
<1>5. CASE Verify(s) /\ \E code : Reply(t, Refuse(code), Sign(s))
  BY <1>2, <1>4, <1>5
<1>6. CASE /\ Verify(s) /\ s.role \in Allowed(r.kind)
           /\ Reply(t, Serve(r.kind, Data(s, r.kind)), Sign(s))
  <2>1. /\ GoodSession(s) /\ GoodSession(Sign(s)) /\ ~loggedOut
    BY <1>4, <1>6
  <2>2. r.kind = "prompts" => s.role \in {"developer", "it"}
    BY <1>6 DEF Allowed
  <2>3. Shown(t, s, Serve(r.kind, Data(s, r.kind)), Sign(s))
    <3>1. r.kind \in {"prompts", "tenantData"} => \A row \in Data(s, r.kind) : row.tenant = s.tenant
      BY DataRows
    <3>2. s.key \in 1 .. Len(keys) /\ s.tenant = keys[s.key].tenant
      BY <2>1 DEF GoodSession
    <3>3. s.role = keys[s.key].role \/ AllowRoleSwitch
      BY <2>1 DEF GoodSession
    <3>4. /\ Serve(r.kind, Data(s, r.kind)).what = r.kind
          /\ Serve(r.kind, Data(s, r.kind)).rows = Data(s, r.kind)
      BY ServeShows
    <3>5. r.kind # "login"
      BY <1>1
    <3> QED BY <2>2, <3>1, <3>2, <3>3, <3>4, <3>5 DEF Shown
  <2> QED BY <1>1, <1>6, <2>1, <2>3, ReplyStep
<1>7. CASE /\ Verify(s) /\ AllowRoleSwitch /\ r.role \in Roles
           /\ Reply(t, Serve("switch", {}), Sign([s EXCEPT !.role = r.role]))
  <2>1. GoodSession(Sign([s EXCEPT !.role = r.role])) /\ ~loggedOut
    BY <1>4, <1>7
  <2>2. Shown(t, s, Serve("switch", {}), Sign([s EXCEPT !.role = r.role]))
    BY ServeShows DEF Shown
  <2> QED BY <1>1, <1>7, <2>1, <2>2, ReplyStep
<1>8. \/ \E code : Reply(t, Refuse(code), None)
      \/ Verify(s) /\ \E code : Reply(t, Refuse(code), Sign(s))
      \/ /\ Verify(s) /\ s.role \in Allowed(r.kind)
         /\ Reply(t, Serve(r.kind, Data(s, r.kind)), Sign(s))
      \/ /\ Verify(s) /\ AllowRoleSwitch /\ r.role \in Roles
         /\ Reply(t, Serve("switch", {}), Sign([s EXCEPT !.role = r.role]))
  BY Zenon DEF requireSession, Mounted
<1> QED BY <1>3, <1>5, <1>6, <1>7, <1>8

\* The vendor's view of the usage.
LEMMA VendorStep ==
    ASSUME TableInv, WebInv, NEW t \in Tabs, handleVendorUsage(t)
    PROVE  WebInv'
<1> DEFINE s == tab[t].cookie
<1>1. /\ tab[t].pc = "sent" /\ tab[t].req.kind = "vendorUsage"
      /\ keys' = keys /\ now' = now /\ call' = call /\ bound' = bound /\ jar' = jar /\ loggedOut' = loggedOut
  BY DEF handleVendorUsage, keyVars, callVars
<1>2. \/ Reply(t, Refuse("bad_session"), None)
      \/ Verify(s) /\ Reply(t, Refuse("role_not_allowed"), Sign(s))
      \/ Verify(s) /\ Reply(t, Serve("vendorUsage", view'), Sign(s))
      \/ Verify(s) /\ Reply(t, Refuse("vendor_usage_failed"), Sign(s))
  BY DEF handleVendorUsage
<1>3. CASE Reply(t, Refuse("bad_session"), None)
  BY <1>1, <1>3, RefuseShows, ReplyStep
<1>4. ASSUME Verify(s)
      PROVE  GoodSession(Sign(s)) /\ ~loggedOut
  <2>1. GoodSession(s)
    BY <1>4 DEF Verify, WebInv, TabInv, TabRow
  <2>2. ~loggedOut
    BY <1>1, <1>4 DEF Verify, WebInv, LogoutInv
  <2> QED BY <2>1, <2>2, SignGood
<1>5. CASE Verify(s) /\ \E code : Reply(t, Refuse(code), Sign(s))
  BY <1>1, <1>4, <1>5, RefuseShows, ReplyStep
<1>6. CASE Verify(s) /\ Reply(t, Serve("vendorUsage", view'), Sign(s))
  <2>1. Shown(t, s, Serve("vendorUsage", view'), Sign(s))
    BY ServeShows DEF Shown
  <2> QED BY <1>1, <1>4, <1>6, <2>1, ReplyStep
<1> QED BY <1>2, <1>3, <1>5, <1>6

\* The browser sends a request, with its cookie when that is alive.
LEMMA SendStep ==
    ASSUME TableInv, WebInv, NEW t \in Tabs, Send(t)
    PROVE  WebInv'
<1> USE DEF WebInv
<1>1. /\ keys' = keys /\ now' = now /\ call' = call /\ jar' = jar /\ (bound'.demo <=> bound.demo)
  BY SpendEffect DEF Send, keyVars, callVars
<1>2. PICK r \in WebRequests :
        /\ tab' = [tab EXCEPT ![t] = [IdleTab EXCEPT !.pc = "sent", !.req = r,
                    !.cookie = IF jar # None /\ now < jar.exp THEN jar ELSE None]]
        /\ loggedOut' = (loggedOut /\ r.kind # "login")
  BY DEF Send
<1> DEFINE ck == IF jar # None /\ now < jar.exp THEN jar ELSE None
<1>3. /\ DOMAIN tab' = Tabs /\ \A u \in Tabs : u # t => tab'[u] = tab[u]
      /\ tab'[t] = [pc |-> "sent", req |-> r, cookie |-> ck, reply |-> None, set |-> None]
  BY <1>2 DEF TabInv, IdleTab
<1>4. ck = None \/ (ck = jar /\ GoodSession(ck))
  BY DEF JarInv
<1> HIDE DEF ck
<1>5. KeysGrow
  BY <1>1, KeysStay
<1>6. TabRow(t, tab'[t])
  BY <1>3, <1>4 DEF TabRow
<1>7. TabRow(t, tab[t])'
  BY <1>1, <1>6 DEF TabRow, GoodSession, Shown, AllowRoleSwitch
<1>8. TabInv'
  BY <1>1, <1>3, <1>5, <1>7, TabOthers
<1>9. JarInv'
  BY <1>1 DEF JarInv, GoodSession, AllowRoleSwitch
<1>10. LogoutInv'
  <2>1. SUFFICES ASSUME loggedOut' PROVE LogoutInv'
    BY DEF LogoutInv
  <2>2. loggedOut /\ r.kind # "login"
    BY <1>2, <2>1
  <2>3. jar = None /\ ck = None
    BY <1>4, <2>2 DEF LogoutInv
  <2> QED BY <1>1, <1>3, <2>2, <2>3 DEF LogoutInv
<1> QED BY <1>8, <1>9, <1>10

\* The browser takes an answer and the cookie with it.
LEMMA ReceiveStep ==
    ASSUME TableInv, WebInv, CallInv, NEW t \in Tabs, Receive(t)
    PROVE  WebInv' /\ CallInv'
<1> USE DEF WebInv
<1>1. /\ keys' = keys /\ now' = now /\ bound' = bound /\ tab[t].pc = "replied"
      /\ tab' = [tab EXCEPT ![t] = IdleTab] /\ call' = [call EXCEPT ![t] = IdleCall]
  BY DEF Receive, keyVars
<1>2. /\ DOMAIN tab' = Tabs /\ \A u \in Tabs : u # t => tab'[u] = tab[u]
      /\ tab'[t] = [pc |-> "idle", req |-> None, cookie |-> None, reply |-> None, set |-> None]
  BY <1>1 DEF TabInv, IdleTab
<1>3. /\ t \in Callers /\ Tabs \subseteq Callers
      /\ DOMAIN call' = Callers /\ \A d \in Callers : d # t => call'[d] = call[d]
      /\ call'[t] = [pc |-> "idle", token |-> None, at |-> 0, out |-> None, down |-> FALSE, crowd |-> FALSE]
  BY <1>1, ConsoleAssumption DEF CallInv, IdleCall
<1>4. CallInv'
  <2>1. CallRow(call'[t])
    BY <1>3, RowTypes DEF CallRow
  <2> QED BY <1>1, <1>3, <2>1, CallOthers
<1>5. KeysGrow
  BY <1>1, KeysStay
<1>6. TabRow(t, tab[t])'
  BY <1>2 DEF TabRow
<1>7. TabInv'
  BY <1>1, <1>2, <1>3, <1>5, <1>6, TabOthers
<1>8. TabRow(t, tab[t])
  BY DEF TabInv
<1>9. /\ tab[t].set = None => jar' = jar
      /\ tab[t].set = Cleared => jar' = None
      /\ (tab[t].set # None /\ tab[t].set # Cleared) => jar' = tab[t].set
  BY ConsoleAssumption DEF Receive
<1>10. JarInv'
  <2>1. jar' = None \/ GoodSession(jar')
    BY <1>8, <1>9 DEF JarInv, TabRow
  <2> QED BY <1>1, <2>1 DEF JarInv, GoodSession, AllowRoleSwitch
<1>11. LogoutInv'
  <2>1. SUFFICES ASSUME loggedOut' PROVE LogoutInv'
    BY DEF LogoutInv
  <2>2. CASE loggedOut
    <3>1. jar = None /\ tab[t].set \in {None, Cleared}
      BY <1>1, <2>2 DEF LogoutInv
    <3> QED BY <1>2, <1>9, <2>2, <3>1 DEF LogoutInv
  <2>3. CASE ~loggedOut
    <3>1. tab[t].req.kind = "logout" /\ \A u \in Tabs \ {t} : tab[u].pc = "idle"
      BY <2>1, <2>3 DEF Receive
    <3>2. tab[t].set = Cleared
      BY <1>1, <1>8, <3>1 DEF TabRow
    <3> QED BY <1>2, <1>9, <3>1, <3>2 DEF LogoutInv
  <2> QED BY <2>2, <2>3
<1> QED BY <1>4, <1>7, <1>10, <1>11

\* The code of a login is looked up.
LEMMA CodeStep ==
    ASSUME TableInv, WebInv, NEW t \in Tabs, LookupDemoCode(t)
    PROVE  WebInv'
<1> USE DEF WebInv
<1> DEFINE q == [kind |-> "login", token |-> codes[tab[t].req.code].key]
<1>1. /\ keys' = keys /\ now' = now /\ call' = call /\ bound' = bound /\ jar' = jar /\ loggedOut' = loggedOut
      /\ tab[t].pc = "sent" /\ tab[t].req.kind = "login"
  BY DEF LookupDemoCode, keyVars, callVars
<1>2. ~loggedOut
  BY <1>1 DEF LogoutInv
<1>3. CASE \E code : Reply(t, Refuse(code), None)
  BY <1>1, <1>3, RefuseShows, ReplyStep
<1>4. CASE tab' = [tab EXCEPT ![t].req = q]
  <2>0. TabRow(t, tab[t]) /\ q.kind = "login" /\ Tabs \subseteq Callers
    BY ConsoleAssumption DEF TabInv
  <2> HIDE DEF q
  <2>1. /\ DOMAIN tab' = Tabs /\ \A u \in Tabs : u # t => tab'[u] = tab[u]
        /\ tab'[t].pc = "sent" /\ tab'[t].req = q /\ tab'[t].cookie = tab[t].cookie
        /\ tab'[t].set = tab[t].set
        /\ tab'[t] \in [pc : {"sent"}, req : {tab'[t].req}, cookie : {tab'[t].cookie},
                        reply : {tab'[t].reply}, set : {tab'[t].set}]
    BY <1>1, <1>4 DEF TabInv, TabRow
  <2>2. TabRow(t, tab'[t])
    BY <2>0, <2>1 DEF TabRow
  <2>3. TabRow(t, tab[t])'
    BY <1>1, <2>1, <2>2 DEF TabRow, GoodSession, AllowRoleSwitch
  <2>4. KeysGrow
    BY <1>1, KeysStay
  <2>5. TabInv'
    BY <1>1, <2>0, <2>1, <2>3, <2>4, TabOthers
  <2>6. JarInv' /\ LogoutInv'
    BY <1>1, <1>2 DEF JarInv, LogoutInv, GoodSession, AllowRoleSwitch
  <2> QED BY <2>5, <2>6
<1> QED BY <1>3, <1>4 DEF LookupDemoCode

\* A login begins.
LEMMA BeginLoginStep ==
    ASSUME TableInv, WebInv, CacheInv, CallInv, NEW t \in Tabs, handleLogin(t)
    PROVE  WebInv' /\ CacheInv' /\ CallInv'
<1> USE DEF WebInv
<1> DEFINE k == tab[t].req.token
<1>1. /\ keys' = keys /\ now' = now /\ bound' = bound /\ jar' = jar /\ loggedOut' = loggedOut
      /\ tab[t].pc = "sent" /\ tab[t].req.kind = "login"
  BY DEF handleLogin, keyVars
<1>2. ~loggedOut
  BY <1>1 DEF LogoutInv
<1>3. CASE Reply(t, Refuse("invalid_token"), None) /\ UNCHANGED callVars
  <2>1. call' = call /\ cache' = cache
    BY <1>3 DEF callVars
  <2>2. WebInv'
    BY <1>1, <1>3, <2>1, RefuseShows, ReplyStep
  <2>3. CacheInv' /\ CallInv'
    BY <1>1, <2>1 DEF CacheInv, CallInv, CallRow, Principal, Crowd, SamePrefix
  <2> QED BY <2>2, <2>3
<1>4. CASE k \in DOMAIN keys /\ BeginResolve(t, k) /\ tab' = [tab EXCEPT ![t].pc = "resolving"]
  <2>1. k \in 1 .. Len(keys) /\ t \in Callers /\ Tabs \subseteq Callers
    BY <1>4, RowTypes, ConsoleAssumption
  <2> HIDE DEF k
  <2>2. /\ CacheInv' /\ CallInv' /\ \A d \in Callers : d # t => call'[d] = call[d]
    BY <1>1, <1>4, <2>1, BeginStep
  <2>3. /\ DOMAIN tab' = Tabs /\ \A u \in Tabs : u # t => tab'[u] = tab[u]
        /\ tab'[t].pc = "resolving" /\ tab'[t].req = tab[t].req /\ tab'[t].cookie = tab[t].cookie
        /\ tab'[t].set = tab[t].set
        /\ tab'[t] \in [pc : {"resolving"}, req : {tab'[t].req}, cookie : {tab'[t].cookie},
                        reply : {tab'[t].reply}, set : {tab'[t].set}]
    BY <1>4 DEF TabInv, TabRow
  <2>4. TabRow(t, tab'[t])
    <3>1. TabRow(t, tab[t])
      BY DEF TabInv
    <3> QED BY <1>1, <2>3, <3>1 DEF TabRow
  <2>5. TabRow(t, tab[t])'
    BY <1>1, <2>3, <2>4 DEF TabRow, GoodSession, AllowRoleSwitch
  <2>6. KeysGrow
    BY <1>1, KeysStay
  <2>7. TabInv'
    BY <1>1, <2>1, <2>2, <2>3, <2>5, <2>6, TabOthers
  <2>8. JarInv' /\ LogoutInv'
    BY <1>1, <1>2 DEF JarInv, LogoutInv, GoodSession, AllowRoleSwitch
  <2> QED BY <2>2, <2>7, <2>8
<1> QED BY <1>3, <1>4 DEF handleLogin

-----------------------------------------------------------------------------
(* The bodies and their purge *)

\* Time passes over the bodies.
LEMMA DataFrame ==
    ASSUME TableInv, DataInv, now' \in Nat, now <= now', bodies' = bodies, purge' = purge,
           open' = open, meta' = meta, view' = view
    PROVE  DataInv'
<1>1. now \in Nat
  BY RowTypes
<1>2. /\ \A b \in bodies : b.ts \in 0 .. now'
      /\ \A x \in open : x.ts \in 0 .. now'
  BY <1>1 DEF DataInv
<1>3. purge' \in PurgeType'
  BY <1>1 DEF DataInv, PurgeType
<1> QED BY <1>2, <1>3 DEF DataInv, Late

\* A transaction begins: it is younger than any purge.
LEMMA OpenStep ==
    ASSUME TableInv, DataInv, RouterBegins
    PROVE  DataInv'
<1>0. /\ now \in Nat /\ now' = now /\ purge' = purge /\ view' = view /\ meta' = meta
      /\ bodies' = bodies
  BY RowTypes DEF RouterBegins
<1>1. PICK te \in DOMAIN tenants, rows \in Writes :
        open' = open \cup {[id |-> bound.writes, tenant |-> te, rows |-> rows, ts |-> now]}
  BY DEF RouterBegins
<1>2. purge.began \in 0 .. now /\ purge.ttl \in Nat
  BY DEF DataInv, PurgeType
<1>3. \A x \in open' : x \notin open => x.ts = now /\ x.rows \in Writes
  BY <1>1
<1>4. \A x \in open' : x \notin open => Late(x)
  BY <1>0, <1>2, <1>3 DEF Late
<1>5. \A x \in open' : x.ts \in 0 .. now' /\ x.rows \in Writes /\ Late(x)'
  BY <1>0, <1>3, <1>4 DEF DataInv, Late
<1> QED BY <1>0, <1>5 DEF DataInv, Late, PurgeType

\* A transaction ends. Its rows are as old as it is.
LEMMA CommitStep ==
    ASSUME TableInv, DataInv, RouterCommits \/ RouterAborts
    PROVE  DataInv'
<1>0. /\ now' = now /\ purge' = purge /\ view' = view
  BY DEF RouterCommits, RouterAborts
<1>1. PICK x \in open :
        /\ open' = open \ {x} /\ meta \subseteq meta'
        /\ \/ bodies' = bodies
           \/ bodies' = bodies \cup {[id |-> x.id, tenant |-> x.tenant, kind |-> k, ts |-> x.ts] :
                                        k \in x.rows \ {"meta"}}
  BY DEF RouterCommits, RouterAborts
<1>2. x.ts \in 0 .. now /\ x.rows \in Writes /\ Late(x)
  BY DEF DataInv
<1>3. \A k \in x.rows \ {"meta"} : k \in {"prompt", "response", "upload"}
  BY <1>2 DEF Writes
<1>4. \A b \in bodies' : b \notin bodies =>
            b.ts = x.ts /\ b.id = x.id /\ b.kind \in {"prompt", "response", "upload"}
  BY <1>1, <1>3
<1>5. \A b \in bodies' : b \notin bodies => Late(b)
  BY <1>2, <1>4 DEF Late
<1>6. \A b \in bodies' : b.ts \in 0 .. now' /\ b.kind \in {"prompt", "response", "upload"}
  BY <1>0, <1>2, <1>4 DEF DataInv
<1>7. view' \subseteq meta' /\ open' \subseteq open
  BY <1>0, <1>1 DEF DataInv
<1> QED BY <1>0, <1>5, <1>6, <1>7 DEF DataInv, Late, PurgeType

\* The purge: every statement looks at a clock no earlier than its beginning.
LEMMA PurgeStep ==
    ASSUME TableInv, DataInv,
           \/ BootWipe \/ PurgeBegins \/ PurgeResponses \/ PurgePrompts \/ PurgeUploads
           \/ PurgeFails
    PROVE  DataInv'
<1>0. now \in Nat /\ now' = now /\ meta' = meta /\ view' = view /\ Retention \in Nat
  BY RowTypes, ConsoleAssumption
     DEF BootWipe, PurgeBegins, PurgeResponses, PurgePrompts, PurgeUploads, PurgeFails
<1>1. /\ purge \in PurgeType
      /\ purge.began \in Nat /\ purge.began <= now /\ purge.ttl \in Nat
  BY <1>0 DEF DataInv, PurgeType
<1>2. \A b \in bodies : b.ts \in Nat /\ (~Old(b) => Late(b))
  BY <1>0, <1>1 DEF DataInv, Old, Late
<1>3. CASE BootWipe \/ PurgeBegins
  <2>1. PICK ttl \in Nat : Begin(ttl)
    BY <1>0, <1>3 DEF BootWipe, PurgeBegins
  <2>2. bodies' = bodies /\ open' = open
    BY <1>3 DEF BootWipe, PurgeBegins
  <2>3. /\ purge'.pc = "responses" /\ purge'.result = "none"
        /\ purge'.pending = {x.id : x \in open} /\ purge' \in PurgeType'
    BY <1>0, <2>1 DEF Begin, PurgeType
  <2>4. \A x \in open : Late(x)'
    BY <2>3 DEF Late
  <2> QED BY <1>0, <2>2, <2>3, <2>4 DEF DataInv
<1>4. CASE PurgeFails
  <2>1. /\ bodies' = bodies /\ open' = open /\ purge'.pc = "idle" /\ purge'.result = "failed"
        /\ purge'.ttl = purge.ttl /\ purge'.began = purge.began /\ purge'.pending = purge.pending
        /\ purge' \in PurgeType'
    BY <1>0, <1>1, <1>4 DEF PurgeFails, PurgeType
  <2> QED BY <1>0, <2>1 DEF DataInv, Late
<1>5. ASSUME NEW rows, NEW next \in {"prompts", "uploads", "idle"}, Purged(rows, next)
      PROVE  /\ bodies' = bodies \ rows /\ purge'.pc = next
             /\ purge'.result = (IF next = "idle" THEN "ok" ELSE purge.result)
             /\ purge' \in PurgeType' /\ \A b : Late(b)' <=> Late(b)
  <2>1. /\ bodies' = bodies \ rows /\ purge'.pc = next
        /\ purge'.ttl = purge.ttl /\ purge'.began = purge.began /\ purge'.pending = purge.pending
        /\ purge'.result = (IF next = "idle" THEN "ok" ELSE purge.result)
        /\ purge' \in PurgeType'
    BY <1>0, <1>1, <1>5 DEF Purged, PurgeType
  <2> QED BY <2>1 DEF Late
<1>6. CASE PurgeResponses
  <2>1. PICK rows :
          /\ purge.pc = "responses" /\ Purged(rows, "prompts") /\ open' = open
          /\ \A b \in bodies : b.kind = "response" /\ Old(b) => b \in rows
    BY <1>6 DEF PurgeResponses
  <2>2. /\ bodies' \subseteq bodies /\ purge'.pc = "prompts" /\ purge'.result = purge.result
        /\ \A b \in bodies' : b \notin rows
        /\ purge' \in PurgeType' /\ \A b : Late(b)' <=> Late(b)
    BY <1>5, <2>1
  <2>3. \A b \in bodies' : b.kind = "response" => Late(b)
    BY <1>2, <2>1, <2>2
  <2> QED BY <1>0, <2>1, <2>2, <2>3 DEF DataInv
<1>7. CASE PurgePrompts
  <2>1. PICK rows :
          /\ purge.pc = "prompts" /\ Purged(rows, "uploads") /\ open' = open
          /\ \A b \in bodies : b.kind = "prompt" /\ Old(b) => b \in rows
    BY <1>7 DEF PurgePrompts, Prompts
  <2>2. /\ bodies' \subseteq bodies /\ purge'.pc = "uploads" /\ purge'.result = purge.result
        /\ \A b \in bodies' : b \notin rows
        /\ purge' \in PurgeType' /\ \A b : Late(b)' <=> Late(b)
    BY <1>5, <2>1
  <2>3. \A b \in bodies' : b.kind = "prompt" => Late(b)
    BY <1>2, <2>1, <2>2
  <2> QED BY <1>0, <2>1, <2>2, <2>3 DEF DataInv
<1>8. CASE PurgeUploads
  <2>1. PICK rows :
          /\ purge.pc = "uploads" /\ Purged(rows, "idle") /\ open' = open
          /\ \A b \in bodies : b.kind = "upload" /\ Old(b) => b \in rows
    BY <1>8 DEF PurgeUploads
  <2>2. /\ bodies' \subseteq bodies /\ purge'.pc = "idle" 
        /\ \A b \in bodies' : b \notin rows
        /\ purge' \in PurgeType' /\ \A b : Late(b)' <=> Late(b)
    BY <1>5, <2>1
  <2>3. \A b \in bodies' : Late(b)
    BY <1>2, <2>1, <2>2 DEF DataInv
  <2> QED BY <1>0, <2>1, <2>2, <2>3 DEF DataInv
<1> QED BY <1>3, <1>4, <1>6, <1>7, <1>8

-----------------------------------------------------------------------------
(* The invariant is inductive *)

\* The tables stand while time passes and bounds are spent.
LEMMA KeysFrame ==
    ASSUME KeysInv, UNCHANGED keyVars, now' \in 0 .. MaxTime, now <= now', bound' \in BoundType
    PROVE  KeysInv' /\ KeysGrow
<1> USE DEF KeysInv
<1>0. /\ Len(keys) \in Nat /\ now \in Nat /\ now' \in Nat
      /\ UNCHANGED <<keys, codes, tenants, admin, overlapped>>
      /\ \A k \in 1 .. Len(keys) : keys[k] \in KeyRow
  BY RowTypes DEF keyVars
<1>1. KeysGrow
  BY <1>0 DEF KeysGrow
<1>2. KeyRow \subseteq KeyRow'
  BY <1>0 DEF KeyRow
<1>3. keys \in [1 .. Len(keys) -> KeyRow']
  BY <1>0, <1>2 DEF TableInv
<1>4. keys' \in Seq(KeyRow)'
  <2> HIDE DEF KeyRow
  <2> QED BY <1>0, <1>3, IsSeq
<1>5. TableInv'
  BY <1>0, <1>4 DEF TableInv, CodeRow
<1>6. AdminInv'
  BY <1>0 DEF AdminInv, AdminRow
<1>7. MintInv'
  BY <1>0 DEF MintInv, OnceIn, InScope, MintIn, KeyIn, CodeIn
<1> QED BY <1>1, <1>5, <1>6, <1>7

\* What an administrator does leaves calls, sessions and bodies right.
LEMMA AdminAll ==
    ASSUME ConsoleInv, NEW a \in Admins, UNCHANGED <<now, callVars, webVars, dataVars>>,
           AdminRequest(a) \/ (AdminStep(a) /\ bound' = bound)
    PROVE  ConsoleInv'
<1> USE DEF ConsoleInv
<1>0. UNCHANGED <<now, cache, call, jar, tab, loggedOut, open, bodies, meta, view, purge>>
  BY DEF callVars, webVars, dataVars
<1>1. KeysInv' /\ KeysGrow
  BY <1>0, AdminKeeps
<1>2. bound'.demo <=> bound.demo
  BY SpendEffect DEF AdminRequest, KeysInv
<1>3. CacheInv'
  BY <1>0, <1>1, CacheFrame DEF KeysInv
<1>4. CallInv'
  <2>1. ASSUME NEW c \in Callers PROVE CallRow(call[c])'
    <3>1. PICK x : x = call[c]
      OBVIOUS
    <3>2. CallRow(x)'
      BY <1>0, <1>1, <3>1, CallFrame DEF KeysInv, CallInv, CallRow
    <3> QED BY <1>0, <3>1, <3>2 DEF CallRow
  <2> QED BY <1>0, <2>1 DEF CallInv
<1>5. WebInv'
  BY <1>0, <1>1, <1>2, WebFrame
<1>6. DataInv'
  <2>1. now \in Nat
    BY RowTypes DEF KeysInv
  <2> QED BY <1>0, <2>1, DataFrame DEF KeysInv
<1> QED BY <1>1, <1>3, <1>4, <1>5, <1>6

\* A call to the router or a step of a call.
LEMMA CallAll ==
    ASSUME ConsoleInv,
           (\E c \in Callers \ Tabs : RouterRequest(c)) \/ (\E c \in Callers : Resolve(c))
    PROVE  ConsoleInv'
<1> USE DEF ConsoleInv
<1>0. /\ UNCHANGED <<now, keyVars, webVars, dataVars>> /\ TableInv
      /\ now \in 0 .. MaxTime /\ now <= now' /\ now' \in Nat
  BY RowTypes DEF RouterRequest, Resolve, KeysInv, TableInv
<1>1. UNCHANGED <<now, keys, jar, tab, loggedOut, open, bodies, meta, view, purge>>
  BY <1>0 DEF keyVars, webVars, dataVars
<1>2. bound' \in BoundType /\ (bound'.demo <=> bound.demo)
  BY SpendEffect DEF RouterRequest, Resolve, KeysInv, TableInv
<1>3. KeysInv' /\ KeysGrow
  BY <1>0, <1>1, <1>2, KeysFrame
<1>4. CacheInv' /\ CallInv' /\ \A t \in Tabs : call'[t].token = call[t].token
  <2>0. Tabs \subseteq Callers
    BY ConsoleAssumption
  <2>1. CASE \E c \in Callers \ Tabs : RouterRequest(c)
    <3>1. PICK c \in Callers \ Tabs, k \in DOMAIN keys : BeginResolve(c, k)
      BY <2>1 DEF RouterRequest
    <3>2. k \in 1 .. Len(keys)
      BY <1>0, <3>1, RowTypes
    <3> QED BY <1>0, <1>1, <2>0, <3>1, <3>2, BeginStep
  <2>2. CASE \E c \in Callers : Resolve(c)
    <3>1. PICK c \in Callers : Lookup(c) \/ CacheSet(c)
      BY <2>2 DEF Resolve
    <3> QED BY <1>0, <1>1, <2>0, <3>1, LookupStep, CacheSetStep
  <2> QED BY <2>1, <2>2
<1>5. WebInv'
  BY <1>1, <1>2, <1>3, <1>4, WebFrame
<1>6. DataInv'
  BY <1>0, <1>1, DataFrame
<1> QED BY <1>3, <1>4, <1>5, <1>6

\* A step of a request of the browser.
LEMMA WebAll ==
    ASSUME ConsoleInv, NEW t \in Tabs,
           \/ Send(t) \/ LookupDemoCode(t) \/ handleLogin(t) \/ FinishLogin(t) \/ handleLogout(t)
           \/ requireSession(t) \/ handleVendorUsage(t) \/ Receive(t)
    PROVE  ConsoleInv'
<1> USE DEF ConsoleInv
<1>0. /\ UNCHANGED <<now, keyVars>> /\ TableInv
      /\ now \in 0 .. MaxTime /\ now <= now' /\ now' \in Nat
  <2>1. UNCHANGED <<now, keyVars>>
    BY Zenon
       DEF Send, LookupDemoCode, handleLogin, FinishLogin, handleLogout, requireSession, handleVendorUsage, Receive
  <2>2. TableInv /\ now \in Nat /\ now \in 0 .. MaxTime
    BY RowTypes DEF KeysInv, TableInv
  <2> QED BY <2>1, <2>2
<1>1. keys' = keys /\ now' = now
  BY <1>0 DEF keyVars
<1>2. bound' \in BoundType
  BY SpendEffect
     DEF Send, LookupDemoCode, handleLogin, FinishLogin, handleLogout, requireSession, handleVendorUsage, Receive,
         KeysInv, TableInv
<1>3. KeysInv' /\ KeysGrow
  BY <1>0, <1>2, KeysFrame
<1>4. bodies' = bodies /\ open' = open /\ purge' = purge /\ meta' = meta /\ (view' = view \/ view' = meta)
  BY DEF Send, LookupDemoCode, handleLogin, FinishLogin, handleLogout, requireSession, handleVendorUsage, Receive,
         dataVars
<1>5. DataInv'
  <2>1. CASE view' = view
    BY <1>0, <1>4, <2>1, DataFrame
  <2>2. CASE view' = meta
    BY <1>1, <1>4, <2>2 DEF DataInv, Late, PurgeType
  <2> QED BY <1>4, <2>1, <2>2
<1>6. CASE Send(t) \/ LookupDemoCode(t) \/ FinishLogin(t) \/ handleLogout(t) \/ requireSession(t) \/ handleVendorUsage(t)
  <2>1. call' = call /\ cache' = cache
    BY <1>6 DEF Send, LookupDemoCode, FinishLogin, handleLogout, requireSession, handleVendorUsage, callVars
  <2>2. CacheInv' /\ CallInv'
    BY <1>1, <2>1 DEF CacheInv, CallInv, CallRow, Principal, Crowd, SamePrefix
  <2>3. WebInv'
    BY <1>0, <1>6, SendStep, CodeStep, LoginStep, LogoutStep, SessionStep, VendorStep
  <2> QED BY <1>3, <1>5, <2>2, <2>3
<1>7. CASE handleLogin(t)
  BY <1>0, <1>3, <1>5, <1>7, BeginLoginStep
<1>8. CASE Receive(t)
  <2>1. cache' = cache
    BY <1>8 DEF Receive
  <2>2. CacheInv'
    BY <1>1, <2>1 DEF CacheInv
  <2> QED BY <1>0, <1>3, <1>5, <1>8, <2>2, ReceiveStep
<1> QED BY <1>6, <1>7, <1>8

\* Rows are written, purged, or time passes.
LEMMA DataAll ==
    ASSUME ConsoleInv,
           \/ RouterBegins \/ RouterCommits \/ RouterAborts \/ BootWipe \/ PurgeBegins \/ PurgeResponses \/ PurgePrompts \/ PurgeUploads
           \/ PurgeFails \/ Tick \/ UNCHANGED vars
    PROVE  ConsoleInv'
<1> USE DEF ConsoleInv
<1>0. TableInv /\ now \in 0 .. MaxTime /\ MaxTime \in Nat
  BY RowTypes DEF KeysInv, TableInv
<1>1. /\ now' \in 0 .. MaxTime /\ now <= now' /\ now' \in Nat
      /\ UNCHANGED <<keyVars, callVars, webVars>>
  <2>1. CASE Tick
    BY <1>0, <2>1 DEF Tick, KeysTick
  <2>2. CASE ~Tick
    <3>1. now' = now /\ UNCHANGED <<keyVars, callVars, webVars>>
      BY <2>2 DEF RouterBegins, RouterCommits, RouterAborts, BootWipe, PurgeBegins, PurgeResponses, PurgePrompts, PurgeUploads, PurgeFails,
                  vars, keyVars, callVars, webVars
    <3> QED BY <1>0, <3>1
  <2> QED BY <2>1, <2>2
<1>2. bound' \in BoundType /\ (bound'.demo <=> bound.demo)
  <2>1. bound' = bound \/ \E what \in {"admin", "calls", "web", "writes", "purges", "time"} : Spend(what)
    BY DEF RouterBegins, RouterCommits, RouterAborts, BootWipe, PurgeBegins, PurgeResponses, PurgePrompts, PurgeUploads, PurgeFails,
           Tick, vars
  <2> QED BY <1>0, <2>1, SpendEffect DEF TableInv
<1>3. KeysInv' /\ KeysGrow
  BY <1>1, <1>2, KeysFrame
<1>4. UNCHANGED <<cache, call, jar, tab, loggedOut>>
  BY <1>1 DEF callVars, webVars
<1>5. CacheInv'
  BY <1>0, <1>3, <1>4, CacheFrame DEF KeysInv
<1>6. CallInv'
  <2>0. ASSUME NEW c \in Callers, call[c].pc \in {"lookup", "set"} PROVE now' <= call[c].at + MaxQuery
    <3>1. now <= call[c].at + MaxQuery /\ call[c].at \in 0 .. now /\ MaxQuery \in Nat
      BY <2>0, ApiKeysAssumption DEF CallInv, CallRow
    <3>2. CASE Tick
      <4>1. now < call[c].at + MaxQuery /\ now' = now + 1
        BY <2>0, <3>2 DEF Tick, KeysTick
      <4> QED BY <1>0, <3>1, <4>1
    <3>3. CASE ~Tick
      <4>1. now' = now
        BY <3>3 DEF RouterBegins, RouterCommits, RouterAborts, BootWipe, PurgeBegins, PurgeResponses, PurgePrompts, PurgeUploads, PurgeFails, vars
      <4> QED BY <3>1, <4>1
    <3> QED BY <3>2, <3>3
  <2>1. ASSUME NEW c \in Callers PROVE CallRow(call[c])'
    <3>1. PICK x : x = call[c]
      OBVIOUS
    <3>2. CallRow(x)'
      BY <1>0, <1>3, <2>0, <3>1, CallFrame DEF KeysInv, CallInv
    <3> QED BY <1>4, <3>1, <3>2 DEF CallRow
  <2> QED BY <1>4, <2>1 DEF CallInv
<1>7. WebInv'
  BY <1>2, <1>3, <1>4, WebFrame
<1>8. DataInv'
  <2>1. CASE RouterBegins \/ RouterCommits \/ RouterAborts
    BY <1>0, <2>1, OpenStep, CommitStep
  <2>2. CASE BootWipe \/ PurgeBegins \/ PurgeResponses \/ PurgePrompts \/ PurgeUploads \/ PurgeFails
    BY <1>0, <2>2, PurgeStep
  <2>3. CASE Tick \/ UNCHANGED vars
    <3>1. bodies' = bodies /\ open' = open /\ purge' = purge /\ meta' = meta /\ view' = view
      BY <2>3 DEF Tick, dataVars, vars
    <3> QED BY <1>0, <1>1, <3>1, DataFrame
  <2> QED BY <2>1, <2>2, <2>3
<1> QED BY <1>3, <1>5, <1>6, <1>7, <1>8

\* Every step keeps the invariant.
LEMMA ConsoleStep == ConsoleInv /\ [Next]_vars => ConsoleInv'
<1> SUFFICES ASSUME ConsoleInv, [Next]_vars PROVE ConsoleInv'
  OBVIOUS
<1>1. CASE \E a \in Admins : \/ AdminRequest(a) /\ UNCHANGED <<now, callVars, webVars, dataVars>>
                             \/ AdminStep(a) /\ UNCHANGED <<now, callVars, bound, webVars, dataVars>>
  <2>1. PICK a \in Admins : \/ AdminRequest(a) /\ UNCHANGED <<now, callVars, webVars, dataVars>>
                            \/ AdminStep(a) /\ UNCHANGED <<now, callVars, bound, webVars, dataVars>>
    BY <1>1
  <2>2. UNCHANGED <<now, callVars, webVars, dataVars>> /\ (AdminRequest(a) \/ (AdminStep(a) /\ bound' = bound))
    BY <2>1
  <2> QED BY <2>2, AdminAll
<1>2. CASE ~\E a \in Admins : \/ AdminRequest(a) /\ UNCHANGED <<now, callVars, webVars, dataVars>>
                              \/ AdminStep(a) /\ UNCHANGED <<now, callVars, bound, webVars, dataVars>>
  BY <1>2, CallAll, WebAll, DataAll DEF Next
<1> QED BY <1>1, <1>2

\* The console starts with its tables and nothing else.
LEMMA ConsoleInit == Init => ConsoleInv
<1> SUFFICES ASSUME Init PROVE ConsoleInv
  OBVIOUS
<1> USE DEF ConsoleInv
<1>0. /\ now = 0 /\ keys = InitKeys /\ codes = InitCodes /\ tenants = InitTenants /\ bound \in Bounds
      /\ cache = [p \in Processes |-> <<>>] /\ call = [c \in Callers |-> IdleCall]
      /\ admin = [a \in Admins |-> IdleAdmin] /\ overlapped = {}
      /\ jar = None /\ tab = [t \in Tabs |-> IdleTab] /\ loggedOut = FALSE
      /\ open = {} /\ bodies = {} /\ meta = {} /\ view = {}
      /\ purge = [pc |-> IF bound.purges > 0 THEN "boot" ELSE "idle",
                  ttl |-> 0, began |-> 0, pending |-> {}, result |-> "none"]
  BY DEF Init, KeysInit
<1>1. TableInv
  <2>1. keys \in Seq(KeyRow)
    <3>1. KeyRow = [tenant : Tenants, role : Roles, revoked : {0, None}]
      <4>1. 0 .. now = {0}
        BY <1>0
      <4>2. {0} \cup {None} = {0, None}
        OBVIOUS
      <4> QED BY <4>1, <4>2, Zenon DEF KeyRow
    <3>2. keys = InitKeys
      BY <1>0
    <3>3. keys \in Seq([tenant : Tenants, role : Roles, revoked : {0, None}])
      BY <3>2, TablesAssumption
    <3> QED BY <3>1, <3>3, Zenon
  <2>2. codes \in Seq(CodeRow)
    <3>1. DOMAIN InitKeys = 1 .. Len(keys)
      BY <1>0, TablesAssumption
    <3> QED BY <1>0, <3>1, TablesAssumption DEF CodeRow
  <2>3. 0 \in 0 .. MaxTime /\ bound \in BoundType
    BY <1>0, ApiKeysAssumption DEF BoundType
  <2> QED BY <1>0, <2>1, <2>2, <2>3, TablesAssumption DEF TableInv
<1>2. AdminInv
  <2>1. \A a \in Admins : admin[a] = [pc |-> "idle", req |-> None, key |-> None, out |-> None]
    BY <1>0 DEF IdleAdmin
  <2> QED BY <1>0, <2>1 DEF AdminInv, AdminRow, Ops, Statements
<1>3. MintInv
  <2>0. \A a \in Admins : admin[a].pc = "idle"
    BY <1>0 DEF IdleAdmin
  <2>1. \A sc : \A a \in Admins : ~InScope(a, sc)
    BY <2>0 DEF InScope, Statements
  <2>2. DOMAIN InitKeys = 1 .. Len(keys) /\ DOMAIN InitCodes = 1 .. Len(codes)
    BY <1>0, TablesAssumption
  <2>3. ASSUME NEW sc \in Tenants \X Roles PROVE OnceIn(sc)
    <3>1. \A i, j \in 1 .. Len(keys) : KeyIn(i, sc) /\ KeyIn(j, sc) => i = j
      BY <1>0, <2>2, TablesAssumption DEF KeyIn
    <3>2. \A i, j \in 1 .. Len(codes) : CodeIn(i, sc) /\ CodeIn(j, sc) => i = j
      <4>1. \A d \in 1 .. Len(codes) : CodeIn(d, sc) =>
              /\ ~InitCodes[d].revoked
              /\ InitCodes[d].tenant = sc[1] /\ InitCodes[d].role = sc[2]
        BY <1>0 DEF CodeIn
      <4> QED BY <2>2, <4>1, TablesAssumption
    <3> QED BY <3>1, <3>2 DEF OnceIn
  <2> QED BY <2>1, <2>3 DEF MintInv
<1>4. CacheInv
  <2>1. \A p \in Processes : cache[p] = <<>>
    BY <1>0
  <2>2. DOMAIN <<>> = {}
    OBVIOUS
  <2> QED BY <1>0, <2>1, <2>2 DEF CacheInv
<1>5. CallInv
  <2>1. ASSUME NEW c \in Callers PROVE CallRow(call[c])
    <3>1. call[c] = [pc |-> "idle", token |-> None, at |-> 0, out |-> None,
                     down |-> FALSE, crowd |-> FALSE]
      BY <1>0 DEF IdleCall
    <3>2. now \in Nat
      BY <1>0
    <3> QED BY <3>1, <3>2 DEF CallRow
  <2> QED BY <1>0, <2>1 DEF CallInv
<1>6. WebInv
  <2>1. \A t \in Tabs : tab[t] = [pc |-> "idle", req |-> None, cookie |-> None, reply |-> None, set |-> None]
    BY <1>0 DEF IdleTab
  <2> QED BY <1>0, <2>1 DEF WebInv, TabInv, TabRow, JarInv, LogoutInv
<1>7. DataInv
  BY <1>0 DEF DataInv, PurgeType
<1> QED BY <1>1, <1>2, <1>3, <1>4, <1>5, <1>6, <1>7 DEF KeysInv

-----------------------------------------------------------------------------
(* The theorems *)

\* The invariant gives the promises of an API key.
LEMMA KeysPromise == ConsoleInv => KeysHold
<1> SUFFICES ASSUME ConsoleInv PROVE KeysHold
  OBVIOUS
<1> USE DEF ConsoleInv, KeysInv
<1>0. /\ Len(keys) \in Nat /\ DOMAIN keys = 1 .. Len(keys) /\ DOMAIN codes = 1 .. Len(codes)
      /\ Len(codes) \in Nat /\ now \in Nat
      /\ \A k \in 1 .. Len(keys) : keys[k] \in KeyRow
      /\ \A d \in 1 .. Len(codes) : codes[d] \in CodeRow
  BY RowTypes
<1>1. TypeOK
  <2>1. keys \in Seq([tenant : Tenants, role : Roles, revoked : (0 .. now) \cup {None}])
    BY DEF TableInv, KeyRow
  <2>2. \A d \in DOMAIN codes : codes[d].key \in DOMAIN keys
    BY <1>0 DEF CodeRow
  <2>3. \A t \in DOMAIN tenants : tenants[t] = None \/ tenants[t] >= 0
    BY DEF TableInv
  <2>4. \A p \in Processes : \A k \in DOMAIN cache[p] : k \in DOMAIN keys /\ cache[p][k] <= now + TTL
    BY <1>0 DEF CacheInv
  <2>5. jar = None \/ jar \in Cookie
    <3>1. ASSUME GoodSession(jar) PROVE jar \in Cookie
      <4>1. jar \in Sessions /\ jar.exp \in 0 .. (MaxTime + SessionMaxAge) /\ jar.key \in 1 .. Len(keys)
        BY <3>1, ConsoleAssumption, ApiKeysAssumption DEF GoodSession, Sessions
      <4> QED BY <4>1 DEF Sessions, Cookie
    <3> QED BY <3>1 DEF WebInv, JarInv
  <2>6. \A t \in Tabs : tab[t].pc \in {"idle", "sent", "resolving", "replied"}
    BY DEF WebInv, TabInv, TabRow
  <2> QED BY <2>1, <2>2, <2>3, <2>4, <2>5, <2>6 DEF TypeOK, TableInv, DataInv, PurgeType
<1>2. RevocationTakesHold
  BY DEF RevocationTakesHold, CallInv, CallRow
<1>3. ActiveKeyResolves
  <2>1. ASSUME NEW c \in Callers, call[c].crowd
        PROVE  Cardinality({j \in DOMAIN keys : j > call[c].token /\ SamePrefix(j, call[c].token)}) >= MaxRows
    BY <1>0, <2>1 DEF CallInv, CallRow, Crowd
  <2> QED BY <2>1 DEF ActiveKeyResolves
<1>4. OneActiveKey
  <2>1. SUFFICES ASSUME NEW t \in Tenants, NEW r \in Roles, <<t, r>> \notin overlapped
                 PROVE  Cardinality(LiveKeys(t, r)) <= 1 /\ Cardinality(LiveCodes(t, r)) <= 1
    BY DEF OneActiveKey
  <2>2. OnceIn(<<t, r>>)
    BY <2>1 DEF MintInv
  <2>3. \A i, j \in LiveKeys(t, r) : i = j
    BY <1>0, <2>2 DEF OnceIn, LiveKeys, KeyIn, Active
  <2>4. \A i, j \in LiveCodes(t, r) : i = j
    BY <1>0, <2>2 DEF OnceIn, LiveCodes, CodeIn
  <2>5. ASSUME NEW S, \A i, j \in S : i = j PROVE Cardinality(S) <= 1
    <3>1. CASE S = {}
      BY <3>1, FS_EmptySet
    <3>2. CASE S # {}
      <4>1. PICK x \in S : TRUE
        BY <3>2
      <4>2. S = {x}
        BY <2>5, <4>1
      <4>3. Cardinality({x}) = 1
        BY FS_Singleton
      <4> QED BY <4>2, <4>3
    <3> QED BY <3>1, <3>2
  <2> QED BY <2>3, <2>4, <2>5
<1> QED BY <1>1, <1>2, <1>3, <1>4 DEF KeysHold

\* The invariant gives the isolation of the tenants.
LEMMA TenantsApart == ConsoleInv => TenantIsolation
<1> SUFFICES ASSUME ConsoleInv, NEW t \in Tabs, tab[t].pc = "replied", tab[t].reply.ok
             PROVE  LET what == tab[t].reply.what
                        given == IF what = "login" THEN call[t].token ELSE tab[t].cookie.key
                        mine == Principal(given)
                    IN  /\ what \in {"prompts", "tenantData"} =>
                                \A row \in tab[t].reply.rows : row.tenant = mine.tenant
                        /\ what = "prompts" => AllowRoleSwitch \/ mine.role \in {"developer", "it"}
                        /\ what = "login" => [tab[t].set EXCEPT !.exp = 0] =
                                [key |-> given, tenant |-> mine.tenant, role |-> mine.role, exp |-> 0]
  BY DEF TenantIsolation
<1> DEFINE what == tab[t].reply.what
           given == IF what = "login" THEN call[t].token ELSE tab[t].cookie.key
           s == tab[t].set
<1>1. Shown(t, tab[t].cookie, tab[t].reply, s)
  BY DEF ConsoleInv, WebInv, TabInv, TabRow
<1>2. /\ Principal(given).tenant = keys[given].tenant /\ Principal(given).role = keys[given].role
  BY DEF Principal
<1>3. what = "login" => /\ s \in Sessions /\ s.key = given
                        /\ s.tenant = keys[given].tenant /\ s.role = keys[given].role
  BY <1>1 DEF Shown
<1>4. what = "login" => [s EXCEPT !.exp = 0] =
            [key |-> given, tenant |-> Principal(given).tenant, role |-> Principal(given).role, exp |-> 0]
  <2> HIDE DEF given, s
  <2> QED BY <1>2, <1>3 DEF Sessions
<1>5. /\ what \in {"prompts", "tenantData"} =>
                \A row \in tab[t].reply.rows : row.tenant = keys[given].tenant
      /\ what = "prompts" => AllowRoleSwitch \/ keys[given].role \in {"developer", "it"}
  BY <1>1 DEF Shown
<1> QED BY <1>2, <1>4, <1>5

\* ConsoleInv holds in every state.
LEMMA ConsoleInvariant == Spec => []ConsoleInv
BY ConsoleInit, ConsoleStep, PTL DEF Spec

\* An API key stops working a cache entry and a lookup after its revocation, an
\* active one is refused only when younger keys crowd its prefix, and a tenant
\* has one key and one code per role unless mints overlap (Resolve, the admin
\* endpoints), for any number of processes, administrators and keys.
THEOREM KeysSound == Spec => []KeysHold
BY ConsoleInvariant, KeysPromise, PTL

\* No tab is shown another tenant's rows, none without the role its prompts,
\* and a login gives the rights of the key presented (requireSession,
\* handleLogin, asTenant).
THEOREM Isolated == Spec => []TenantIsolation
BY ConsoleInvariant, TenantsApart, PTL

\* A logout that nothing overlaps ends the session (handleLogout, requireSession).
THEOREM Logout == Spec => []LogoutSticks
<1>1. ConsoleInv => LogoutSticks
  BY DEF ConsoleInv, WebInv, LogoutInv, LogoutSticks
<1> QED BY <1>1, ConsoleInvariant, PTL

\* A purge that reports success has left no body older than the retention when
\* it began, but those of transactions still open then (PurgeExpiredBodies).
THEOREM Retained == Spec => []RetentionHolds
<1>1. ConsoleInv => RetentionHolds
  BY DEF ConsoleInv, DataInv, Late, RetentionHolds
<1> QED BY <1>1, ConsoleInvariant, PTL
=============================================================================

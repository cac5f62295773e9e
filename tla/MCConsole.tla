------------------------------ MODULE MCConsole ------------------------------
(***************************************************************************)
(* Two tenants with keys and a third without, one call to the router at a  *)
(* time, two tabs and two administrators. Two rows of a prefix are read,   *)
(* so that a third developer key crowds out the first.                     *)
(***************************************************************************)
EXTENDS Console, TLC

Key(tenant, role) == [tenant |-> tenant, role |-> role, revoked |-> None]

MCInitKeys == <<Key("A", "developer"), Key("B", "developer"), Key("B", "engineer")>>
MCInitCodes == <<[tenant |-> "A", role |-> "developer", key |-> 1, revoked |-> FALSE]>>
MCInitTenants == [t \in {"A", "B"} |-> None]

MCHomeOf == [c \in Callers |-> IF c \in Tabs THEN "console" ELSE "router"]

Mint(op, tenant, role) == [op |-> op, token |-> TRUE, tenant |-> tenant, role |-> role]
Budget(tenant, b) == [op |-> "setBudget", token |-> TRUE, tenant |-> tenant, budget |-> b]

MCAdminRequests ==
    {Mint("mintKey", "A", "developer"), Mint("mintKey", "C", "developer"),
     Mint("mintCode", "A", "developer"), Mint("mintKey", "A", "owner"),
     [op |-> "createTenant", token |-> TRUE, tenant |-> "C"],
     [op |-> "revokeKey", token |-> TRUE, key |-> 1],
     [op |-> "revokeCode", token |-> TRUE, code |-> 1],
     Budget("A", -1), Budget("C", 5), Budget("A", None),
     [op |-> "list", token |-> TRUE], [op |-> "list", token |-> FALSE]}

MCWebRequests ==
    {[kind |-> "login", token |-> 1], [kind |-> "login", token |-> 3],
     [kind |-> "login", code |-> 1], [kind |-> "logout"], [kind |-> "me"],
     [kind |-> "prompts"], [kind |-> "tenantData"], [kind |-> "vendorModels"],
     [kind |-> "vendorUsage"], [kind |-> "switch", role |-> "engineer"],
     [kind |-> "switch", role |-> "owner"]}

Bound(admin_, calls, web, writes, purges, time, demo) ==
    [admin |-> admin_, calls |-> calls, web |-> web, writes |-> writes,
     purges |-> purges, time |-> time, demo |-> demo]

(* Keys under two administrators; sessions; the purge.                     *)
MCBounds ==
    {Bound(2, 1, 0, 0, 0, 2, FALSE),
     Bound(1, 2, 0, 0, 0, 3, FALSE),
     Bound(1, 0, 2, 0, 0, 2, FALSE),
     Bound(0, 0, 4, 1, 0, 0, FALSE),
     Bound(0, 0, 3, 0, 0, 2, TRUE), Bound(0, 0, 3, 1, 0, 0, TRUE),
     Bound(0, 0, 0, 2, 2, 4, FALSE)}

Interchangeable == Permutations(Admins) \cup Permutations(Tabs)
=============================================================================

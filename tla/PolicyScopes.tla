---------------------------- MODULE PolicyScopes ----------------------------
(***************************************************************************)
(* What a policy, a capability list, a passport scope and an MCP tool list *)
(* say of one call: policy.Evaluate, capabilities.Build, passport.Permits  *)
(* and Subset, the derivation behind `openscope share`, and mcp.Project.   *)
(* Pure operators; every string is a member of a small set and "" is the   *)
(* empty string of the code (an unset selector, an absent parameter).      *)
(*                                                                         *)
(*   rule        [effect, agent, user, groups, app, action, constraints]   *)
(*   definition  [mode, actions], actions mapping a name to its set of     *)
(*               parameters [name, key, kind, required]                    *)
(*   capability  [app, action, inert, params], params a set of             *)
(*               [name, key, kind, required, pinned, fixed, allowed]       *)
(*                                                                         *)
(* `constraints` and policy contexts map policy keys to values; `targets`  *)
(* maps the alias of each ssh target to its allowed services.              *)
(***************************************************************************)
EXTENDS Integers, Sequences, FiniteSets, SequencesExt

CONSTANTS
    Defs,        \* the assembled definitions: app name -> definition
    Clean(_)     \* filepath.Clean on absolute paths, the identity elsewhere

Unset == ""

----------------------------------------------------------------------------
(* policy.Evaluate *)

matchesPrincipal(rule, principal) ==
    /\ rule.agent # Unset => rule.agent = principal.agent
    /\ rule.user # Unset => rule.user = principal.user
    /\ rule.groups # {} => rule.groups \cap principal.groups # {}

(* A constraint on a key the call does not carry fails, for a deny too.    *)
matches(constraints, context) ==
    \A key \in DOMAIN constraints :
        /\ key \in DOMAIN context
        /\ Clean(context[key]) = Clean(constraints[key])

(* Only declared parameters with a value enter the context; a passthrough  *)
(* app has none.                                                           *)
PolicyContext(def, action, params) ==
    LET given == IF def.mode = "passthrough" THEN {}
                 ELSE {p \in def.actions[action] : params[p.name] # Unset}
    IN  [key \in {p.key : p \in given} |->
            params[(CHOOSE p \in given : p.key = key).name]]

(* The loop over the rules: a matching deny ends it, the first matching    *)
(* allow is remembered.                                                    *)
Evaluate(rules, app, action, principal, params) ==
    LET context == PolicyContext(Defs[app], action, params)
        Applies(rule) == /\ rule.app = app /\ rule.action = action
                         /\ matchesPrincipal(rule, principal)
                         /\ matches(rule.constraints, context)
        verdict[n \in 0..Len(rules)] ==
            IF n = 0 THEN "unmatched"
            ELSE CASE verdict[n - 1] = "deny" \/ ~Applies(rules[n]) -> verdict[n - 1]
                   [] verdict[n - 1] # "deny" /\ Applies(rules[n]) ->
                        IF rules[n].effect = "deny" THEN "deny" ELSE "allow"
    IN  IF action \notin DOMAIN Defs[app].actions THEN "unknown"
        ELSE verdict[Len(rules)]

(* File.Validate on one rule: every rule names a verb and some principal.  *)
ValidRule(rule) ==
    /\ rule.effect \in {"allow", "deny"}
    /\ rule.app # Unset /\ rule.action # Unset
    /\ rule.agent # Unset \/ rule.user # Unset \/ rule.groups # {}

----------------------------------------------------------------------------
(* capabilities.Build *)

(* The values offered for a free parameter: the aliases for an ssh target, *)
(* the services of the target the rule pins.                               *)
paramHint(app, p, pinned, targets) ==
    CASE app = "ssh" /\ p.key = "target" -> DOMAIN targets
      [] app = "ssh" /\ p.key = "service" /\ pinned \in DOMAIN targets ->
            targets[pinned]
      [] OTHER -> {}

buildCapability(rule, targets) ==
    LET known == /\ rule.app \in DOMAIN Defs
                 /\ rule.action \in DOMAIN Defs[rule.app].actions
        pins == rule.constraints
        target == IF "target" \in DOMAIN pins THEN pins["target"] ELSE Unset
        Param(p) ==
            LET pinned == p.key \in DOMAIN pins
            IN  [name |-> p.name, key |-> p.key, required |-> p.required,
                 pinned |-> pinned,
                 fixed |-> IF pinned THEN pins[p.key] ELSE Unset,
                 allowed |-> IF pinned THEN {} ELSE paramHint(rule.app, p, target, targets)]
    IN  [app |-> rule.app, action |-> rule.action, inert |-> ~known,
         params |-> IF known
                    THEN {Param(p) : p \in Defs[rule.app].actions[rule.action]}
                    ELSE {}]

(* One capability per allow rule that names the agent itself; rules that   *)
(* reach it through a user or a group only are not listed.                 *)
Build(agent, rules, targets) ==
    {buildCapability(r, targets) : r \in {q \in rules :
        q.agent = agent /\ q.effect = "allow"}}

----------------------------------------------------------------------------
(* passport.Scope *)

ValueAt(context, key) == IF key \in DOMAIN context THEN context[key] ELSE Unset

capPermits(c, context) ==
    \A p \in c.params :
        LET val == ValueAt(context, p.key)
        IN  IF p.pinned THEN val = p.fixed
            ELSE p.allowed # {} => val = Unset \/ val \in p.allowed

Permits(caps, app, action, context) ==
    \E c \in caps : /\ c.app = app /\ c.action = action
                    /\ capPermits(c, context)

(* Is everything the requested parameter could pass let through by the     *)
(* issuer's?                                                               *)
paramCovers(ip, rp) ==
    LET allowed == IF ip.pinned THEN {ip.fixed} ELSE ip.allowed
    IN  \/ ~ip.pinned /\ ip.allowed = {}
        \/ rp.pinned /\ rp.fixed \in allowed
        \/ ~rp.pinned /\ rp.allowed # {} /\ rp.allowed \subseteq allowed

(* Only the parameters the request lists are compared.                     *)
capCovers(iss, req) ==
    \A rp \in req.params : \E ip \in iss.params :
        ip.key = rp.key /\ paramCovers(ip, rp)

capInSurface(req, surface) ==
    \E iss \in surface : /\ iss.app = req.app /\ iss.action = req.action
                         /\ capCovers(iss, req)

Subset(requested, surface) == \A req \in requested : capInSurface(req, surface)

(* `openscope share --verb app.action:k=v`: the issuer's own capability    *)
(* with the named parameters pinned. A pin on no parameter is an error.    *)
PinAllowed(c, pins) == \A k \in DOMAIN pins : \E p \in c.params : k \in {p.name, p.key}

deriveCapability(c, pins) ==
    LET Pin(p) ==
            LET k == IF p.name \in DOMAIN pins THEN p.name ELSE p.key
            IN  IF k \in DOMAIN pins
                THEN [p EXCEPT !.pinned = TRUE, !.fixed = pins[k], !.allowed = {}]
                ELSE p
    IN  [c EXCEPT !.params = {Pin(p) : p \in c.params}]

----------------------------------------------------------------------------
(* mcp.Project: one tool per verb. A parameter every rule pins to the same *)
(* value is injected by the server; the others are offered to the client,  *)
(* as an enumeration when there are values to offer.                       *)

Project(caps) ==
    LET live == {c \in caps : ~c.inert}
        Group(v) == {c \in live : <<c.app, c.action>> = v}
        Of(v, n) == {p \in UNION {c.params : c \in Group(v)} : p.name = n}
        Fixed(v, n) == {p.fixed : p \in {q \in Of(v, n) : q.pinned}}
        Injected(v, n) == /\ \A p \in Of(v, n) : p.pinned
                          /\ Cardinality(Fixed(v, n)) = 1
        Offered(v, n) == Fixed(v, n) \cup UNION {p.allowed : p \in Of(v, n)}
        Names(v) == {p.name : p \in UNION {c.params : c \in Group(v)}}
        Tool(v) ==
            [app |-> v[1], action |-> v[2],
             fixed |-> [n \in {m \in Names(v) : Injected(v, m)} |->
                            CHOOSE x \in Fixed(v, n) : TRUE],
             enum |-> [n \in {m \in Names(v) : ~Injected(v, m)} |-> Offered(v, n)]]
    IN  {Tool(v) : v \in {<<c.app, c.action>> : c \in live}}

(* Projection.Resolve and CapabilityProvider.Call: the client's arguments, *)
(* the injected values winning.                                            *)
Resolve(tool, args) ==
    [n \in DOMAIN args \cup DOMAIN tool.fixed |->
        IF n \in DOMAIN tool.fixed THEN tool.fixed[n] ELSE args[n]]
=============================================================================

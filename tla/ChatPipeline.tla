---------------------------- MODULE ChatPipeline ----------------------------
(***************************************************************************)
(* The router's governed chat pipeline: ChatHandler.process/processInner   *)
(* (router/internal/router/chat.go) over the Postgres record store, with   *)
(* budget admission by reservation (store/budget_reservations.go).         *)
(*                                                                         *)
(* Every request is a goroutine of its own.  A step of a request is one    *)
(* database transaction (or one provider call); requests interleave        *)
(* between those steps, clients disconnect (the request context is         *)
(* cancelled and every later database call of that request fails), any     *)
(* database call may fail, and the process may crash.  Reservations live   *)
(* in the database, so they outlive all of that.                           *)
(***************************************************************************)
EXTENDS Integers, FiniteSets, FiniteSetsExt

CONSTANTS
    Tenants,         \* tenants of the deployment
    Requests,        \* identifiers of the requests of a behaviour
    Inputs,          \* what a caller may send (a subset of InputType)
    Catalog,         \* billing catalog: the model ids billing.Find knows
    ForeignModel,    \* a model name the catalog does not know
    DefaultModel,    \* ChatHandler.DefaultModelID
    EnabledModels,   \* the administrator's model policy
    PremiumModels,   \* catalog models of tier premium
    AllowPremium,    \* OPENSCOPE_ALLOW_PREMIUM_TIER
    InPrice,         \* price of an input token, per model
    OutPrice,        \* price of an output token, per model
    FallbackTokens,  \* max_tokens used when the caller sends none (512)
    TokenCeiling,    \* ChatHandler's configured ceiling on max_tokens
    ReportedTokens,  \* bound on the tokens a provider reports, each way
    BudgetCaps,      \* monthly caps an administrator may set
    ReservationTTL,  \* '5 minutes', in clock ticks
    MaxTime,         \* bound on the clock
    MaxMonth         \* bound on the calendar

\* What a caller sends: bytes abstracts the prompt, content what the DLP
\* scanner finds in it, restricted whether its workspace is in
\* RestrictedWorkspaces, lenient the agent shims.
InputType == [tenant : Tenants, model : Catalog \cup {ForeignModel},
              lenient : BOOLEAN, bytes : Nat, maxTokens : Nat,
              content : {"clean", "findings"}, restricted : BOOLEAN]

ASSUME ConstantsAssumption ==
    /\ IsFiniteSet(Requests)
    /\ Inputs \subseteq InputType
    /\ IsFiniteSet(Inputs)   \* http.MaxBytesReader bounds every body
    /\ ForeignModel \notin Catalog
    /\ DefaultModel \in Catalog
    /\ EnabledModels \subseteq Catalog
    /\ PremiumModels \subseteq Catalog
    /\ AllowPremium \in BOOLEAN
    /\ InPrice \in [Catalog -> Nat]
    /\ OutPrice \in [Catalog -> Nat]
    /\ FallbackTokens \in Nat
    /\ TokenCeiling \in Nat
    /\ ReportedTokens \in Nat
    /\ BudgetCaps \subseteq Nat
    /\ ReservationTTL \in Nat
    /\ MaxTime \in Nat
    /\ MaxMonth \in Nat

VARIABLES
    stage,          \* where each request's goroutine is
    input,          \* the request it carries
    capUSD,         \* the cap it read before reserving
    cost,           \* what the provider's answer costs
    outcome,        \* the chatOutcome.Result it ends with ("error": HTTP 500)
    cancelled,      \* requests whose context is cancelled
    tenantCap,      \* app.tenants.monthly_budget_usd (default applied)
    reservations,   \* app.budget_reservations
    usage,          \* app.usage_metrics
    events,         \* app.router_events
    prompts,        \* sensitive.prompt_records, by request
    responses,      \* response_records, by request
    receipts,       \* app.receipts
    mirror,         \* the JSONL audit mirror
    metered,        \* outcomes handed to the control-plane usage hook
    now,            \* database clock, in ticks
    month,          \* calendar month
    invoked,        \* history: provider calls made
    capHigh,        \* history: highest cap each tenant has had
    slowExpiry,     \* history: a running request lost its reservation
    excess          \* history: by how much this month's charges exceed their estimates

reqVars  == <<stage, input, capUSD, cost, outcome, cancelled>>
rowVars  == <<events, prompts, responses, receipts, usage, excess>>
timeVars == <<now, month>>
vars == <<stage, input, capUSD, cost, outcome, cancelled, tenantCap,
          reservations, usage, events, prompts, responses, receipts, mirror,
          metered, now, month, invoked, capHigh, slowExpiry, excess>>

-----------------------------------------------------------------------------
(* Types *)

Stages == {"idle", "gated", "capped", "reserved", "invoking", "answered",
           "inTx", "releasing", "done"}
ModelDenials == {"unknown_model", "model_disabled", "premium_gated"}
Blocks   == {"channel_block", "dlp_block"}
Results  == ModelDenials \cup Blocks
            \cup {"budget_exceeded", "upstream_error", "success"}
Outcomes == Results \cup {"none", "error", "crashed"}
NoInput  == [tenant |-> "none"]
InFlight == Stages \ {"idle", "done"}
Reservation == [req : Requests, tenant : Tenants, usd : Nat, created : Nat]
UsageRow    == [req : Requests, tenant : Tenants, usd : Nat, month : Nat]
ResultRow   == [req : Requests, result : Results]

-----------------------------------------------------------------------------
(* Model policy and prices *)

\* The catalog model a request is served with: agent shims map a foreign
\* name to the default model.
ServedModel(i) ==
    IF i.model \in Catalog THEN i.model ELSE DefaultModel

\* Mutant: the checks look at the name the caller sent.
MutModelGate(i) ==
    IF i.model \notin Catalog /\ ~i.lenient THEN "unknown_model"
    ELSE IF i.model \in Catalog \ EnabledModels THEN "model_disabled"
    ELSE IF i.model \in PremiumModels /\ ~AllowPremium THEN "premium_gated"
    ELSE "ok"

\* The model checks of processInner, in their order; "ok" lets it through.
\* They run on the model that will be served, after the shim's mapping.
ModelGate(i) ==
    IF i.model \notin Catalog /\ ~i.lenient THEN "unknown_model"
    ELSE IF ServedModel(i) \notin EnabledModels THEN "model_disabled"
    ELSE IF ServedModel(i) \in PremiumModels /\ ~AllowPremium
         THEN "premium_gated"
    ELSE "ok"

ClampTokens(v) ==
    IF v = 0 THEN FallbackTokens
    ELSE IF v > TokenCeiling THEN TokenCeiling ELSE v

\* billing.EstimateMaxCostUSD: four bytes to a token, rounded down, plus the
\* whole clamped output.
EstimateMaxCost(i) ==
    LET m == ServedModel(i) IN
    (i.bytes \div 4) * InPrice[m] + ClampTokens(i.maxTokens) * OutPrice[m]

\* The costs a provider's answer to this request can have: costBreakdown of
\* the token counts it reports, whatever was estimated.
PossibleCosts(i) ==
    LET m == ServedModel(i) IN
    {t * InPrice[m] + u * OutPrice[m] : t, u \in 0 .. ReportedTokens}

-----------------------------------------------------------------------------
(* Sums over the tables *)

\* SUM over the dollar column of some rows.
SumUSD(rows) == MapThenSumSet(LAMBDA row : row.usd, rows)

Committed(t) == SumUSD({u \in usage : u.tenant = t /\ u.month = month})

Reserved(t) == SumUSD({v \in reservations : v.tenant = t})

-----------------------------------------------------------------------------

Init ==
    /\ stage = [r \in Requests |-> "idle"]
    /\ input = [r \in Requests |-> NoInput]
    /\ capUSD = [r \in Requests |-> 0]
    /\ cost = [r \in Requests |-> 0]
    /\ outcome = [r \in Requests |-> "none"]
    /\ cancelled = {}
    /\ tenantCap \in [Tenants -> BudgetCaps]
    /\ reservations = {}
    /\ usage = {}
    /\ events = {}
    /\ prompts = {}
    /\ responses = {}
    /\ receipts = {}
    /\ mirror = {}
    /\ metered = {}
    /\ now = 0
    /\ month = 0
    /\ invoked = {}
    /\ capHigh = tenantCap
    /\ slowExpiry = FALSE
    /\ excess = [t \in Tenants |-> 0]

Goto(r, s) == stage' = [stage EXCEPT ![r] = s]

\* processInner returns: process feeds the usage hook unless it returned an
\* error.
Return(r, res) ==
    /\ Goto(r, "done")
    /\ outcome' = [outcome EXCEPT ![r] = res]
    /\ metered' = IF res = "error" THEN metered
                  ELSE metered \cup {[req |-> r, result |-> res]}

\* processInner is about to return with res, and its deferred functions run
\* next: a reservation is still to be released.
Unwind(r, res) ==
    /\ Goto(r, "releasing")
    /\ outcome' = [outcome EXCEPT ![r] = res]
    /\ UNCHANGED metered

\* The mirror line written once the event insert succeeded; its failure is
\* swallowed.
MirrorEvent(row) ==
    mirror' = mirror \cup {row} \/ UNCHANGED mirror

\* AppendRouterEvent outside a transaction, its error ignored: the row is
\* written and mirrored, or neither when the insert fails.
TryEvent(r, res) ==
    LET row == [req |-> r, result |-> res] IN
    \/ /\ r \notin cancelled
       /\ events' = events \cup {row}
       /\ MirrorEvent(row)
    \/ UNCHANGED <<events, mirror>>

-----------------------------------------------------------------------------
(* The steps of a request *)

\* The request arrives and passes, or fails, the model checks.
Arrive(r, i) ==
    /\ stage[r] = "idle"
    /\ input' = [input EXCEPT ![r] = i]
    /\ \/ /\ ModelGate(i) = "ok"
          /\ Goto(r, "gated")
          /\ UNCHANGED <<outcome, metered>>
       \/ /\ ModelGate(i) # "ok"
          /\ Return(r, ModelGate(i))
    /\ UNCHANGED <<capUSD, cost, cancelled, tenantCap, reservations, rowVars,
                   mirror, timeVars, invoked, capHigh, slowExpiry>>

\* GetTenantBudget: the cap is read before, and outside, the admission
\* transaction.
LookupCap(r) ==
    /\ stage[r] = "gated"
    /\ r \notin cancelled
    /\ capUSD' = [capUSD EXCEPT ![r] = tenantCap[input[r].tenant]]
    /\ Goto(r, "capped")
    /\ UNCHANGED <<input, cost, outcome, cancelled, tenantCap, reservations,
                   rowVars, mirror, metered, timeVars, invoked, capHigh,
                   slowExpiry>>

\* A failing database call before there is a reservation: HTTP 500.
EarlyError(r) ==
    /\ stage[r] \in {"gated", "capped"}
    /\ Return(r, "error")
    /\ UNCHANGED <<input, capUSD, cost, cancelled, tenantCap, reservations,
                   rowVars, mirror, timeVars, invoked, capHigh, slowExpiry>>

\* Mutant: nothing collects the reservations of requests that died.
MutExpired == {}

\* The reservations ReserveBudget's garbage collection deletes: those older
\* than five minutes, of every tenant, whoever holds them.
Expired == {v \in reservations : v.created < now - ReservationTTL}

\* Mutant: the old read-then-write check, which saw committed usage only.
MutUnderCap(r) == Committed(input[r].tenant) < capUSD[r]

\* ReserveBudget's admission test, on one snapshot of both tables.
UnderCap(r) ==
    LET t == input[r].tenant IN
    Committed(t) + SumUSD({v \in reservations \ Expired : v.tenant = t})
        < capUSD[r]

NewReservation(r) ==
    [req |-> r, tenant |-> input[r].tenant,
     usd |-> EstimateMaxCost(input[r]), created |-> now]

\* History: garbage collection took the reservation of a running request.
NoteExpiry ==
    slowExpiry' = (slowExpiry \/ \E v \in Expired : stage[v.req] \in InFlight)

\* ReserveBudget admits: the reservation is in the table from here on.
ReserveBudget(r) ==
    /\ stage[r] = "capped"
    /\ r \notin cancelled
    /\ UnderCap(r)
    /\ reservations' = (reservations \ Expired) \cup {NewReservation(r)}
    /\ NoteExpiry
    /\ Goto(r, "reserved")
    /\ UNCHANGED <<input, capUSD, cost, outcome, cancelled, tenantCap, rowVars,
                   mirror, metered, timeVars, invoked, capHigh>>

\* ReserveBudget denies: the collection commits, nothing is reserved, the deny
\* event is written if it can be.
DenyBudget(r) ==
    /\ stage[r] = "capped"
    /\ r \notin cancelled
    /\ ~UnderCap(r)
    /\ reservations' = reservations \ Expired
    /\ NoteExpiry
    /\ TryEvent(r, "budget_exceeded")
    /\ Return(r, "budget_exceeded")
    /\ UNCHANGED <<input, capUSD, cost, cancelled, tenantCap, prompts,
                   responses, receipts, usage, excess, timeVars, invoked, capHigh>>

\* The admission commits on the server and its answer is lost: the handler
\* returns an error without an id to release, and the row stays.
ReserveAckLost(r) ==
    /\ stage[r] = "capped"
    /\ UnderCap(r)
    /\ reservations' = (reservations \ Expired) \cup {NewReservation(r)}
    /\ NoteExpiry
    /\ Return(r, "error")
    /\ UNCHANGED <<input, capUSD, cost, cancelled, tenantCap, rowVars, mirror,
                   timeVars, invoked, capHigh>>

\* The channel policy comes before the DLP verdict.
BlockReason(i) ==
    IF i.restricted THEN "channel_block"
    ELSE IF i.content = "findings" THEN "dlp_block" ELSE "ok"

\* A blocked request: event, prompt and receipt are written one by one, and
\* each of them may fail silently.
Block(r) ==
    LET res == BlockReason(input[r]) IN
    /\ stage[r] = "reserved"
    /\ res # "ok"
    /\ TryEvent(r, res)
    /\ \/ r \notin cancelled /\ prompts' = prompts \cup {r}
       \/ UNCHANGED prompts
    /\ \/ /\ r \notin cancelled
          /\ receipts' = receipts \cup {[req |-> r, result |-> res]}
       \/ UNCHANGED receipts
    /\ Unwind(r, res)
    /\ UNCHANGED <<input, capUSD, cost, cancelled, tenantCap, reservations,
                   responses, usage, excess, timeVars, invoked, capHigh, slowExpiry>>

\* Provider.Invoke is called; it has no timeout of its own.
Invoke(r) ==
    /\ stage[r] = "reserved"
    /\ BlockReason(input[r]) = "ok"
    /\ invoked' = invoked \cup
                    {[req |-> r, model |-> ServedModel(input[r])]}
    /\ Goto(r, "invoking")
    /\ UNCHANGED <<input, capUSD, cost, outcome, cancelled, tenantCap,
                   reservations, rowVars, mirror, metered, timeVars, capHigh,
                   slowExpiry>>

\* The provider answers; it may do so just as the client goes away.
ProviderAnswers(r) ==
    /\ stage[r] = "invoking"
    /\ \E c \in PossibleCosts(input[r]) : cost' = [cost EXCEPT ![r] = c]
    /\ Goto(r, "answered")
    /\ UNCHANGED <<input, capUSD, outcome, cancelled, tenantCap, reservations,
                   rowVars, mirror, metered, timeVars, invoked, capHigh,
                   slowExpiry>>

\* The provider fails, or the cancelled context ends the call.
UpstreamError(r) ==
    /\ stage[r] = "invoking"
    /\ TryEvent(r, "upstream_error")
    /\ Unwind(r, "upstream_error")
    /\ UNCHANGED <<input, capUSD, cost, cancelled, tenantCap, reservations,
                   prompts, responses, receipts, usage, excess, timeVars, invoked,
                   capHigh, slowExpiry>>

\* Mutant: the receipt is inserted outside the transaction, before it commits.
MutBeginPersist(r) ==
    /\ stage[r] = "answered"
    /\ r \notin cancelled
    /\ MirrorEvent([req |-> r, result |-> "success"])
    /\ receipts' = receipts \cup {[req |-> r, result |-> "success"]}
    /\ Goto(r, "inTx")
    /\ UNCHANGED <<input, capUSD, cost, outcome, cancelled, tenantCap,
                   reservations, events, prompts, responses, usage, excess, metered,
                   timeVars, invoked, capHigh, slowExpiry>>

\* The persist transaction begins and its event row is inserted; the mirror
\* line is on disk although the transaction may still roll back.
BeginPersist(r) ==
    /\ stage[r] = "answered"
    /\ r \notin cancelled
    /\ MirrorEvent([req |-> r, result |-> "success"])
    /\ Goto(r, "inTx")
    /\ UNCHANGED <<input, capUSD, cost, outcome, cancelled, tenantCap,
                   reservations, rowVars, metered, timeVars, invoked, capHigh,
                   slowExpiry>>

\* History: the answer cost more than its request was estimated at.
NoteExcess(r) ==
    LET over == cost[r] - EstimateMaxCost(input[r]) IN
    excess' = [excess EXCEPT ![input[r].tenant] = IF over > 0 THEN @ + over ELSE @]

\* Mutant: the reservation is left for its deferred release.
MutCommitRows(r) ==
    LET row == [req |-> r, result |-> "success"] IN
    /\ events' = events \cup {row}
    /\ prompts' = prompts \cup {r}
    /\ responses' = responses \cup {r}
    /\ receipts' = receipts \cup {row}
    /\ usage' = usage \cup {[req |-> r, tenant |-> input[r].tenant,
                             usd |-> cost[r], month |-> month]}
    /\ NoteExcess(r)
    /\ UNCHANGED reservations

\* What the persist transaction commits: all five rows, and the release of the
\* reservation, at once.
CommitRows(r) ==
    LET row == [req |-> r, result |-> "success"] IN
    /\ events' = events \cup {row}
    /\ prompts' = prompts \cup {r}
    /\ responses' = responses \cup {r}
    /\ receipts' = receipts \cup {row}
    /\ usage' = usage \cup {[req |-> r, tenant |-> input[r].tenant,
                             usd |-> cost[r], month |-> month]}
    /\ NoteExcess(r)
    /\ reservations' = {v \in reservations : v.req # r}

PersistCommit(r) ==
    /\ stage[r] = "inTx"
    /\ r \notin cancelled
    /\ CommitRows(r)
    /\ Return(r, "success")
    /\ UNCHANGED <<input, capUSD, cost, cancelled, tenantCap, mirror, timeVars,
                   invoked, capHigh, slowExpiry>>

\* The commit happens on the server but the handler sees an error.
PersistAckLost(r) ==
    /\ stage[r] = "inTx"
    /\ CommitRows(r)
    /\ Unwind(r, "error")
    /\ UNCHANGED <<input, capUSD, cost, cancelled, tenantCap, mirror, timeVars,
                   invoked, capHigh, slowExpiry>>

\* Mutant: the commit error is dropped and the answer returned all the same.
MutPersistError(r) ==
    /\ stage[r] \in {"answered", "inTx"}
    /\ Unwind(r, "success")
    /\ UNCHANGED <<input, capUSD, cost, cancelled, tenantCap, reservations,
                   rowVars, mirror, timeVars, invoked, capHigh, slowExpiry>>

\* Any statement of the persist transaction fails: rolled back, HTTP 500.
PersistError(r) ==
    /\ stage[r] \in {"answered", "inTx"}
    /\ Unwind(r, "error")
    /\ UNCHANGED <<input, capUSD, cost, cancelled, tenantCap, reservations,
                   rowVars, mirror, timeVars, invoked, capHigh, slowExpiry>>

\* Mutant: the release is retried until the database takes it.
MutReleaseBudget(r) ==
    /\ stage[r] = "releasing"
    /\ r \notin cancelled
    /\ reservations' = {v \in reservations : v.req # r}
    /\ Return(r, outcome[r])
    /\ UNCHANGED <<input, capUSD, cost, cancelled, tenantCap, rowVars, mirror,
                   timeVars, invoked, capHigh, slowExpiry>>

\* The deferred ReleaseBudget uses the request's own context: for a client
\* that has gone it fails, and the reservation stays until it expires.
ReleaseBudget(r) ==
    /\ stage[r] = "releasing"
    /\ \/ /\ r \notin cancelled
          /\ reservations' = {v \in reservations : v.req # r}
       \/ UNCHANGED reservations
    /\ Return(r, outcome[r])
    /\ UNCHANGED <<input, capUSD, cost, cancelled, tenantCap, rowVars, mirror,
                   timeVars, invoked, capHigh, slowExpiry>>

-----------------------------------------------------------------------------
(* The environment *)

\* The client closes its connection: the request context is cancelled.
Disconnect(r) ==
    /\ stage[r] \in InFlight
    /\ r \notin cancelled
    /\ cancelled' = cancelled \cup {r}
    /\ UNCHANGED <<stage, input, capUSD, cost, outcome, tenantCap, reservations,
                   rowVars, mirror, metered, timeVars, invoked, capHigh,
                   slowExpiry>>

\* The router dies: its goroutines are gone, the database is not.
Crash ==
    /\ \E r \in Requests : stage[r] \in InFlight
    /\ outcome' = [r \in Requests |->
                    IF stage[r] \in InFlight THEN "crashed" ELSE outcome[r]]
    /\ stage' = [r \in Requests |->
                    IF stage[r] \in InFlight THEN "done" ELSE stage[r]]
    /\ UNCHANGED <<input, capUSD, cost, cancelled, tenantCap, reservations,
                   rowVars, mirror, metered, timeVars, invoked, capHigh,
                   slowExpiry>>

\* An administrator changes a tenant's cap while requests run.
SetTenantBudget(t, c) ==
    /\ c # tenantCap[t]
    /\ tenantCap' = [tenantCap EXCEPT ![t] = c]
    /\ capHigh' = [capHigh EXCEPT ![t] = IF c > @ THEN c ELSE @]
    /\ UNCHANGED <<reqVars, reservations, rowVars, mirror, metered, timeVars,
                   invoked, slowExpiry>>

Tick ==
    /\ now < MaxTime
    /\ now' = now + 1
    /\ UNCHANGED <<reqVars, tenantCap, reservations, rowVars, mirror, metered,
                   month, invoked, capHigh, slowExpiry>>

\* A new calendar month: date_trunc('month', now()) leaves old usage behind.
NewMonth ==
    /\ month < MaxMonth
    /\ month' = month + 1
    /\ excess' = [t \in Tenants |-> 0]
    /\ UNCHANGED <<reqVars, tenantCap, reservations, usage, events, prompts,
                   responses, receipts, mirror, metered, now, invoked, capHigh,
                   slowExpiry>>

-----------------------------------------------------------------------------

\* The steps a request's goroutine takes without waiting for the provider.
HandlerStep(r) ==
    \/ LookupCap(r)
    \/ EarlyError(r)
    \/ ReserveBudget(r)
    \/ DenyBudget(r)
    \/ ReserveAckLost(r)
    \/ Block(r)
    \/ Invoke(r)
    \/ BeginPersist(r)
    \/ PersistCommit(r)
    \/ PersistAckLost(r)
    \/ PersistError(r)
    \/ ReleaseBudget(r)

Next ==
    \/ \E r \in Requests :
        \/ \E i \in Inputs : Arrive(r, i)
        \/ HandlerStep(r)
        \/ ProviderAnswers(r)
        \/ UpstreamError(r)
        \/ Disconnect(r)
    \/ Crash
    \/ \E t \in Tenants, c \in BudgetCaps : SetTenantBudget(t, c)
    \/ Tick
    \/ NewMonth

Spec == Init /\ [][Next]_vars

\* The Go scheduler runs a goroutine that can run, and a cancelled context
\* ends the provider call.  Nothing makes the provider answer.
Fairness ==
    \A r \in Requests :
        /\ WF_vars(HandlerStep(r))
        /\ WF_vars(r \in cancelled /\ UpstreamError(r))

FairSpec == Spec /\ Fairness

-----------------------------------------------------------------------------
(* Properties *)

\* Type invariant of the pipeline's state.
TypeOK ==
    /\ stage \in [Requests -> Stages]
    /\ input \in [Requests -> Inputs \cup {NoInput}]
    /\ capUSD \in [Requests -> Nat]
    /\ cost \in [Requests -> Nat]
    /\ outcome \in [Requests -> Outcomes]
    /\ cancelled \subseteq Requests
    /\ tenantCap \in [Tenants -> BudgetCaps]
    /\ reservations \subseteq Reservation
    /\ usage \subseteq UsageRow
    /\ events \subseteq ResultRow
    /\ prompts \subseteq Requests
    /\ responses \subseteq Requests
    /\ receipts \subseteq ResultRow
    /\ mirror \subseteq ResultRow
    /\ metered \subseteq [req : Requests, result : Results]
    /\ now \in Nat
    /\ month \in Nat
    /\ invoked \subseteq [req : Requests, model : Catalog]
    /\ capHigh \in [Tenants -> Nat]
    /\ slowExpiry \in BOOLEAN
    /\ excess \in [Tenants -> Nat]

LargestEstimate == Max({EstimateMaxCost(i) : i \in Inputs} \cup {1})

\* "Concurrent requests cannot all read the same under-cap total and
\* overshoot": a tenant's recorded spend plus what it has reserved stays
\* within its highest cap plus the one estimate that was admitted last.  What
\* providers reported beyond their estimates this month comes on top: it was
\* admitted for less than it cost.
SpendWithinCap ==
    \A t \in Tenants :
        Committed(t) + Reserved(t) < capHigh[t] + LargestEstimate + excess[t]

\* The same as long as no reservation expired under a running request.
CapHolds == slowExpiry \/ SpendWithinCap

\* The comment in processInner: the estimate and the actual cost never both
\* count against the cap.
NeverDoubleCounted ==
    \A u \in usage : \A v \in reservations : u.req # v.req

\* Nothing reaches the provider that the model policy, the channel policy or
\* the DLP scan forbids, shim-mapped models included.
EgressGoverned ==
    \A c \in invoked :
        /\ c.model \in EnabledModels
        /\ c.model \in PremiumModels => AllowPremium
        /\ ~input[c.req].restricted
        /\ input[c.req].content = "clean"

\* A signed receipt says what happened: a success receipt has its usage,
\* event and response rows and a provider call behind it, a block receipt
\* belongs to a request that never reached the provider.
ReceiptsTruthful ==
    \A x \in receipts :
        IF x.result = "success"
        THEN /\ x.req \in responses \cap prompts
             /\ x \in events
             /\ \E u \in usage : u.req = x.req
             /\ \E c \in invoked : c.req = x.req
        ELSE \A c \in invoked : c.req # x.req

\* A caller is told "success" only once its spend and its evidence are
\* committed, and its reservation is gone.
SuccessIsAccounted ==
    \A r \in Requests : outcome[r] = "success" =>
        /\ \E u \in usage : u.req = r
        /\ [req |-> r, result |-> "success"] \in events \cap receipts
        /\ \A v \in reservations : v.req # r

\* Reservations of requests that died never deny anybody for longer than
\* their lifetime: a budget denial is explained by recorded usage and
\* reservations no older than the TTL.
DenialsJustified ==
    [][\A r \in Requests :
        (outcome[r] = "none" /\ outcome'[r] = "budget_exceeded") =>
            LET t == input[r].tenant IN
            Committed(t) + SumUSD({v \in reservations :
                v.tenant = t /\ now - v.created <= ReservationTTL})
            >= capUSD[r]]_vars

\* Every request that is not waiting for the provider is answered, and so is
\* one that waits for it once its client has gone.
RequestsSettle ==
    \A r \in Requests :
        (/\ stage[r] \in InFlight
         /\ stage[r] = "invoking" => r \in cancelled)
        ~> (stage[r] = "done" \/ (stage[r] = "invoking" /\ r \notin cancelled))

=============================================================================

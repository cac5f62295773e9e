# OpenScope in TLA+

OpenScope is two programs. The **daemon** (`openscoped`, with the `openscope`
command line) is a local broker: agents ask it to act on applications, hosts and
cloud instances, and it checks, executes and audits each call. The **router**
(`router/`) is a governed gateway to language models: it authenticates tenants,
scans prompts, enforces a monthly budget and keeps receipts. This directory holds
TLA+ models of the parts that carry that logic, TLC runs that check them on small
instances, and proofs that TLAPS checks for all instances. `PROJECT.json` maps every
definition to the source lines it stands for.

## 1. Inventory

### Router

| Component | State | Operations | What makes it correct |
|---|---|---|---|
| Chat pipeline, `router/internal/router/chat.go` | one goroutine per request; rows in Postgres | model checks, budget admission, DLP and workspace blocks, provider call, persist transaction, deferred release | only governed prompts leave; success means the spend and the evidence are committed; receipts agree with the rows |
| Budget, `store/budget_reservations.go`, `billing/` | `budget_reservations`, `usage_metrics`, tenant cap | reserve (with garbage collection), release, set cap | the cap is overshot by at most one estimate and what providers report beyond theirs; a request never counts twice; no denial without cause |
| Records, `store/`, `router/store_iface.go` | events, prompts, responses, receipts, JSONL mirror | append in or out of a transaction | a denial and a success leave an event; the mirror follows the database |
| Scan, completions and messages endpoints | none | translate to and from the pipeline | what the pipeline decides is what is served |
| DLP rules, `dlp/` | rules | classify text | (text; the verdict is an input of the pipeline model) |
| API keys, `tenancy/`, `store/api_keys.go`, `console/admin.go` | keys and demo codes in Postgres, a 60 s cache in each process | authenticate, mint, revoke | a revoked key stops within the lifetime of a cache entry, in every process; an active key resolves; one active key per tenant and role |
| Console, `console/` | sessions in signed cookies, bodies of prompts and answers | login, renew, switch role, logout, read, purge | a tab sees its own tenant; a logout holds; bodies do not outlive their retention |

### Daemon

| Component | State | Operations | What makes it correct |
|---|---|---|---|
| Broker, `daemon/service.go` | none of its own: reads the files at each check | `Handle`: definitions, registration, blacklist and scope, policy, audit check, execute, answer | whatever runs was authorised by every gate, and leaves a record |
| Configuration files, `policy/`, `agent/`, `admin/`, `appdef/` | eight YAML files, written with truncate-then-write and no lock | load, validate, evaluate; some thirty commands that load, change and save | a torn or missing file never opens a gate; commands that do not overlap do not undo each other; a removal only narrows |
| Audit log, `audit/`, `daemon/logrotate.go` | JSONL file | ensure writable, append, rotate | nothing acts unlogged |
| Delegation sessions, `reflector/manager.go`, `daemon/reflector.go` | map of sessions; a goroutine and a context each | open, extend, revoke, list, expiry, serve | delegation only narrows; revocation ends it; every session ends |
| Reflected channel, `reflector/client.go`, `handshake.go`, `crypto.go`, `mailbox.go` | keys and counters at both ends, frames at the relay | connect, handshake, call, receive | a request runs at most once; an answer belongs to its request; no nonce twice |
| Passports and capabilities | scopes | subset, permits, build | a scope is part of the issuer's surface |
| Usage client, `cpclient/client.go` | channel, pending batch, spool file | record, flush, post, spool, close | events are lost in known ways only; order is kept; events arrive |
| Apply, `cli/plan.go`, `proposal/` | five configuration files, legacy policy, attestation | plan, gates, ordered writes, rollback, migrate, audit, pin, attest | only gated changes; all or nothing; a grant never without its verb |
| Proposal review, `proposal/`, `appdef/applied.go` | targets, applied-verb registry, rules, the user's `apps.d` | effective state, findings, failure walk, verdict | what is reviewed is what applies; what a proposal replaces or its rules open is shown; verbs keep the shape their executor asks for |
| HTTP front end, tokens, rate limits, `daemon/http.go`, `authtoken/`, `daemon/ratelimit.go` | token file, pepper file, table of buckets | mint, rotate, revoke, authenticate, bind an identity, throttle | the identity comes from the token; a revoked token stays revoked; the limiter bounds every key |
| Executors, `executor/` | external processes, hosts, the poll of a remote command | load the lists, pass the gates, run, verify, poll, inspect | effects stay inside the lists; what is installed or streamed is what was checked; the answer tells what happened |
| MCP front end, `mcp/` | tool list, stamps of the watched files | load, poll, refresh, notify | the client's tools come to follow the policy |
| Command line, doctor, layout | none of its own | parse, print, diagnose | (the files it changes are above) |

### How they interact

The broker is the only way to an executor. Connections (`daemon/server.go`), HTTP
requests, MCP tool calls and reflected requests all end in `Service.Handle`; the reflector's dispatch
overwrites the identity a request claims with the session's issuer and passes the
passport's scope along as an attenuation. The command line changes the files the
broker reads, without any lock, while calls are under way. The router's handlers share
nothing but the database, the mirror file and the key cache of their process. Usage events go from `Handle` to the
usage client over a buffered channel.

### What is hard

* **Concurrency**: chat requests of one tenant at the cap; a call walking the gates
  while files are rewritten; revocation against a goroutine that already holds a frame;
  overlapping opens; two administrators, or two token commands, that rewrite one file; two
  mints of one key; a logout against a renewal in flight.
* **Failure**: a router that dies between reservation and release; a commit whose answer
  is lost; a torn configuration file; an apply that dies between two writes; an audit
  log that turns read-only while an executor runs; a failed write that leaves a file empty;
  a removal whose error is dropped before a copy; a spool that cannot be written.
* **Ordering and delivery**: a relay that loses, repeats and reorders frames; spooled and
  fresh usage events in one batch; rows stamped before the purge and visible after it.
* **Timeouts**: a reservation that expires under a slow provider; a session that expires
  under a running call; a caller that gives up and calls again; a poll that ends before the
  remote command does; a cached key after its revocation.
* **Check, then use**: an artifact, a bundle or a pid that changes hands between the check and
  the use; `apps.d` edited between the plan and the apply.
* **Limits**: a full table of buckets; the sixteenth key of a prefix.

`PROJECT.json` lists these under "hazards", at their lines, with the properties that
would catch each one.

## 2. Modules

| Module | Models | Composed of | Instances | Proofs |
|---|---|---|---|---|
| `ChatPipeline` | chat pipeline, budget, records | | `MCChatPipeline` | `ChatPipelineProofs` |
| `Broker` | `Service.Handle` and the files it reads | | `MCBroker` | `DelegationProofs` |
| `Delegation` | reflector sessions in front of the broker | extends `Broker` | `MCDelegation` | `DelegationProofs` |
| `ReflectChannel` | client, relay and daemon end of a session's channel | | itself | `DelegationProofs` |
| `UsageClient` | the usage client and its spool | | itself | `UsageClientProofs` |
| `Apply` | `openscope apply`: the gates and the writes of one run | | `MCApply` | `ApplyProofs` |
| `PolicyScopes` | policy evaluation, capabilities, scopes, tool projection (pure) | | with `McpSurface` | |
| `AdminFiles` | the eight files and what each admin function makes of one (pure) | extends `PolicyScopes` | with `McpSurface` | |
| `AdminCommands` | the commands of several administrators at once | extends `AdminFiles` | with `McpSurface` | |
| `McpSurface` | `openscope-mcp` beside them | extends `AdminCommands` | `MCMcpSurface` | `AdminProofs` |
| `IdealLimiter` | what the rate limiter promises (abstract) | | | |
| `RateLimiter` | the table of buckets | | with `HttpFront` | |
| `HttpFront` | the HTTP listener, tokens and pepper | extends `RateLimiter`, refines `IdealLimiter` | `MCHttpFront` | `HttpFrontProofs` |
| `ApiKeys` | the router's keys, their caches and the admin endpoints | | with `Console` | |
| `Console` | sessions, pages and the purge | extends `ApiKeys` | `MCConsole` | `ConsoleProofs` |
| `SystemExec` | the system executor | extends `AdminFiles` | with `Executors` | |
| `RemoteExec` | ssh, SSM, HTTP and AppleScript executors, bypass inspection | | with `Executors` | |
| `Executors` | one daemon's executors | extends both | `MCExecutors` | `ExecutorsProofs` |
| `AppDefs` | assembly of app definitions and what a verb runs (pure) | | with `ProposalReview` | |
| `ProposalLint` | the analysis of a proposal (pure) | extends `AppDefs` | with `ProposalReview` | |
| `ProposalReview` | proposals one after the other while `apps.d` changes | extends `ProposalLint` | `MCProposalReview` | `AdminProofs` |

`Broker` plays two roles: it is the model of the daemon's chokepoint, and it is the
abstract specification that `Delegation` is proved to implement (theorem
`ImplementsBroker`: forget the sessions, and every step is a broker step or a stutter).

### ChatPipeline

`stage[r]` is where the goroutine of request `r` is; the other per-request variables are
locals of `processInner`. `reservations`, `usage`, `events`, `prompts`, `responses` and
`receipts` are tables, `mirror` the JSONL file. One action is one database transaction or
one provider call:

* `Arrive` runs the model checks (`ModelGate`) and returns or goes on; `LookupCap` reads
  the cap; `ReserveBudget` is the admission transaction with its garbage collection
  (`Expired`), sums (`Committed`, `UnderCap`) and insert (`NewReservation`);
  `ReserveAckLost` is a commit whose answer is lost.
* `DenyBudget`, `Block`, `UpstreamError`, `EarlyError` and `PersistError` are the early returns,
  each with the deferred release (`Unwind`).
* `Invoke`, `ProviderAnswers`, `BeginPersist`, `PersistCommit`, `PersistAckLost` and
  `ReleaseBudget` are the successful path.
* `Disconnect`, the crash, the clock, the calendar and `SetTenantBudget` are the environment.

A prompt is its length, the verdict of the scanner and whether its workspace is
restricted. Money is in whole units. A clock of `MaxTime` ticks and `MaxMonth` months
drives expiry and the month's sum.

### Broker

`stage[q]` is the next check of call `q`. Each check is an action that reads the file it
reads in the code, at that time. A save is two steps, `BeginSave` (the file is truncated:
`torn`) and `EndSave`, because `os.WriteFile` is; the loads say what a truncated file means to
them (`ReadEnabled`, `ReadAgents`, `Readable`). Bundled and applied apps (`AlwaysOn`) need no opt-in, and
the definitions may fail to load for every call. `held` is a history variable: the gates that
were open at some instant since the call arrived; `dark` is another: the calls under which the
log failed after it was checked. A verb stands for an app, an action and
the parameters the checks look at, an agent for the principal. What a mail verb answers is not modelled,
only that the filter may turn the answer of one that ran into an error.

### Delegation

`serve[s]` is where a session's goroutine is, or the call it waits for. `OpenStart` and
`OpenFinish` are the two lock periods of `Manager.Open` with the relay call between them.
`Dispatch` puts a request into the broker with `Arrive`, as the issuer and with the scope of
that moment. `Close` and `Expire` only cancel the context; `Teardown` removes the session.
`late` and `revoked` are history variables.

### ReflectChannel

The relay is two sets of frames that only grow, and receiving leaves the frame there: that is
loss (never received), repetition and reordering in one. A key is the pair of nonces it was
derived from. The cryptography is ideal: a record opens under its own key only.

### UsageClient

`queue`, `pending`, `batch` and `spool` hold numbered events; `loop` is where the goroutine is.
`path` says whether the client has a spool at all (the router's default is none). The spool is read
at the start of a flush, and a read that fails counts as empty; it is rewritten with a truncation
and line by line, and every step may fail (`Fault`, at most `MaxFaults` times), which the code
ignores: the batch is dropped. `Restart` may come at any time, also inside a rewrite, and keeps only
the file. `dropped`, `aged`, `lost`, `unspooled` and `delivered` record where events went.

### Apply

`files` is the configuration on disk; a file is absent, corrupt or present with its entries.
`Start` reads the proposal and the configuration, `Refuse` and `Proceed` are the gates,
`Mutate` is one write of `applyMutations`, `MutateFails` any way it can fail (torn file
included), `Restore` one file of the rollback. `Crash` may come between any two steps or in
the middle of a write. A registry of verbs that a write left truncated may load as an empty one,
and an apply that follows then loses the verbs of the earlier ones: `Loads` has both outcomes. A
snapshot that cannot be read is put back as an empty file, which is the outcome `Restore` has for a restore
that fails; `os.Stat` of an existing file is taken to succeed.

### PolicyScopes, AdminFiles, AdminCommands, McpSurface

`AdminFiles` gives, for each of the eight files, how it loads (absent, truncated and garbled
contents included: `LoadPolicyOrEmpty` refuses a truncated policy, the agent registry reads it as
empty) and one update operator per admin function, from the loaded entries to the entries to
save or `Refused`. `AdminCommands` runs them: a command is a list of jobs, one per file, and a job is
`Load`, `Truncate`, `Write` or `WriteFails`, in any interleaving with another administrator's.
`ledger` is a history variable: what each file would hold had the finished jobs run one at a
time. `McpSurface` adds the server: load, stamp, poll, refresh, notify, and the client's new listing.
The signature and the client's list are of the visible tools only (`Listed`). Its tools are `Project(Build(...))` of `PolicyScopes`, which also defines `Evaluate`, `Subset` and
`Permits`.

### IdealLimiter, RateLimiter, HttpFront

`RateLimiter` is `allow` under its mutex: refill on sight, at most `MaxKeys` buckets, eviction of idle
ones or of all. `IdealLimiter` never forgets a bucket; the refinement mapping computes each
key's tokens at this moment (a key without a bucket has a full one). The one step the ideal
licenses beyond a bucket is the amnesty, when `MaxKeys` keys are busy at once and a new one
comes. `HttpFront` composes it with `handleActions` (authentication, limit, identity, refusal)
and with the token commands, which rewrite the store in the same truncate-then-write steps. The pepper may be
there from the start, from the environment or from an earlier run; otherwise whoever needs it first writes
it, and the write may fail.

### ApiKeys, Console

A handler of the admin endpoints is one action per SQL statement, because it runs outside a
transaction. A caller's `Resolve` looks into its process's cache, then asks the database, and
the clock may move while it does. The browser is a cookie jar and tabs whose answers may come
back in any order. A login with a demo code looks the code up first. A transaction of the router is `RouterBegins`,
which fixes the time its rows will carry (`ts DEFAULT now()` is the time of the transaction), and
`RouterCommits` or `RouterAborts`; a success writes its rows together, a blocked prompt and an upload are
transactions of their own (`Writes`). The purge is three statements, once at boot for everything and then on the
tick; Postgres's row-level security and foreign keys are external.

### SystemExec, RemoteExec, Executors

A handler of the system executor is an operator from the loaded configuration and the request
to the list of commands it still runs, or `Refused`; one command is one step, and between two
the user may replace files, processes may come and go, and the administrator may save. What the user may
replace includes paths whose ancestors or bundle contents are open (`Loose`), where no check looks; a
step records whether the program it ran had been replaced. A remote call passes its gates, hands one command over and waits; `remote[c]` is the command on
the other side, which goes on when the answer is lost. An artifact is opened by path after its
inspection, and ssh reads the open file while the command runs: another file may take the path
(`Restage`), or the file be written over (`Rewrite`). `Executors` runs either kind: they share no
state.

### AppDefs, ProposalLint, ProposalReview

A command template is kept as what the lint and the executors can tell apart (its program,
whether it is a shell's body, a redirect, a chain of steps); a path is the sequence of its
elements. `ProposalLint` is `Analyze` on that: `EffectiveDefs`, `effectiveTargets`, one operator per
finding. `ProposalReview` plans a proposal, keeps the findings the operator sees, lets the user edit
`apps.d`, and applies; `Apply` models how that apply reaches the disk.

## 3. Runs

All runs pass. The bounds, and why they are enough:

| Run | Checks | Bounds |
|---|---|---|
| `chat_governance` | `EgressGoverned`, `ReceiptsTruthful`, `SuccessIsAccounted`, `RequestsSettle` | two requests with disconnects and a crash; one input per verdict of the pipeline, with a default model that is premium, so a foreign name a shim maps must be checked again |
| `chat_budget` | `CapHolds`, `NeverDoubleCounted`, `DenialsJustified` | two requests, two caps around one estimate, answers that report fewer and more tokens than the estimate, one tick past the reservation lifetime, one turn of the month: one request can be admitted, expire and be charged while the other is checked |
| `broker_races` | `ExecutedWasAuthorized`, `AttenuationNarrows`, `NeverActsUnlogged` | one call of every kind (a mail verb, an app of one's own, complete or not, in scope or not) against saves of all four files, torn and whole, and a log that fails and recovers. Calls share no state but the files, so one call against arbitrary saves meets every interleaving |
| `delegation_races` | `DelegationIsDenyOnly`, `AtMostOneLateDispatch`, `ServingIsListed`, `SessionsEnd` | one session, two calls, two agents whose identity a request may claim, policy saves |
| `reflect_channel` | `ExchangeIsExact`, `NonceNeverReused` | two connections, three calls, two daemon nonces: a replay of an old connection, an abandoned call with a later one, a second handshake |
| `usage_spool` | `EventsAccounted`, `EventsArrive` | five events, queue and batch of two, a spool of two lines and a half or none at all, one failure of its file, one restart: every limit is reached and crossed |
| `apply_runs` | `AllOrNothing`, `LeavesUsable`, `OnlyGatedChanges` | seven proposals, one of them on SSM targets, on a current and an upgraded install: one run with the proposal file rewritten under it and every answer of the parallel-path check, or two quiet runs in a row, the second of which starts from whatever the first left |
| `admin_mcp` | `FilesConsistent`, `RemovalNarrows`, `SurfaceFollowsPolicy` | two administrators, two commands over the same files, any write failing: every pair of commands overlaps at every step, or follows a failed one; the second works on the first one's files because others commute |
| `http_front` | `IdentityFromToken`, `TokensHold`, `LimiterRefinesIdeal` | two tokens that share a prefix, two token commands, two peppers, one request at any point of them; or five requests over four units of time with more keys than the limiter's table of two holds, enough for a bucket to empty, refill and be evicted |
| `console` | `KeysHold`, `TenantIsolation`, `LogoutSticks`, `RetentionHolds` | three tenants, two processes, two tabs, up to four units of time with a cache lifetime of one; a behaviour has two admin requests and a call, one and two calls, a session's requests, or two transactions and two purges after the wipe at boot; `MaxRows` 2 stands for the LIMIT of 16, so that three keys of a prefix cross it |
| `executors` | `SystemGated`, `RemoteGated`, `AnswersAreHonest`, `SsmEnds` | two requests at a time over every verb, configurations with and without each gate, one replacement of a file, loose paths included, one reuse of a pid, a daemon with and without root; two polls, a verification with a retry, hosts with each kind of login |
| `plan_review` | `NamespaceSound`, `WalkNamesStranded`, `GrantsShown`, `SecretsOutOfReach`, `PlanIsWhatApplies` | seventeen proposals that add, restate, replace, remove and collide, and bring a target or a verb under a rule that stands, four contents of `apps.d`, three applies: add, replace and remove fit into one behaviour |

Properties that say one thing of a component from several sides are conjunctions of named
parts, each with its own comment in the module:

| Property | Parts |
|---|---|
| `ExchangeIsExact` | `AtMostOnce`, `AnswersAreOwn`, `OneChannel` |
| `EventsAccounted` | `NothingVanishes`, `InOrder`, `SpoolKeepsRecent` |
| `AllOrNothing` | `RolledBack`, `SuccessInstallsAll` |
| `LeavesUsable` | `GrantHasVerb`, `NeverStranded` |
| `FilesConsistent` | `SerialUnlessOverlap`, `SudoManagersSafe` |
| `TokensHold` | `RevocationSticks`, `MintedResolves`, `OneActiveToken` |
| `KeysHold` | `RevocationTakesHold`, `ActiveKeyResolves`, `OneActiveKey` |
| `SystemGated` | `InstalledIsGated`, `PrivilegedIsRoots`, `ActsWithinLists` |
| `RemoteGated` | `StreamedIsInspected`, `OnlyCustodiedKeys` |
| `AnswersAreHonest` | `OutcomeIsHonest`, `ClearIsClear`, `InstallTakesEffect` |
| `NamespaceSound` | `ShapedVerbs` |
| `GrantsShown` | `ReplacementSurfaced`, `NewReachAcknowledged` |

The type invariant of a module is a further part of one of them (`ExchangeIsExact`, `EventsAccounted`,
`AllOrNothing`, `FilesConsistent`, `TokensHold`, `KeysHold`, `SystemGated`, `NamespaceSound`); those of `ChatPipeline`,
`Broker` and `Delegation` are proved (section 4) and not run again.

`RolledBack` speaks of every file but `ssm_targets.yaml`, which the snapshot does not cover.

Some properties carry an exception because the code does, and the exception is where a
reader of the comments would be surprised: `NeverActsUnlogged` excuses a log that fails after
`EnsureWritable`; `AtMostOneLateDispatch` allows the frame a revoked
session already held. More that the models show and no property states: the model
checks of the chat pipeline deny without an event; a mirror line may stand for a transaction that
rolled back; overlapping `Manager.Open` calls pass the
session limit together; a client whose handshake answer was lost cannot start over on that
session; a post whose answer was lost is sent again under a new batch id; the daemon's exit skips
the usage client's last flush; pinning facts after a successful apply may leave `ssh_targets.yaml`
truncated. `CapHolds` takes whatever tokens a provider reports: `excess` adds up what this month's answers cost
beyond their estimates, and the bound of the cap moves with it.

`SerialUnlessOverlap` excuses files that two commands worked on at once, and after a failed write
the two files whose loaders read a truncated file as empty; `RemovalNarrows` excuses the last entry of
the mail filter, whose empty list lets everything through; `RevocationSticks`, `MintedResolves` and
`OneActiveToken` excuse overlapping token commands; `OneActiveKey` overlapping mints; `LogoutSticks` a
request in flight; `RetentionHolds` the rows of a transaction that was open when the purge began;
`NothingVanishes` what a spool without a path, or whose file failed, gave up; `InstalledIsGated` a file
swapped where the configuration leaves the source in the user's hands, behind a symbolic link, which
`requireRootOwnedFile` follows, or through a directory above it or a file inside the bundle;
`PrivilegedIsRoots` a program that can be changed from above its directory, and brew and the managers
without sudo under a root daemon; `StreamedIsInspected` a file that another replaced before the open, or that was
written over before the command ended; `ClearIsClear` a host whose settings could not be read, a key in a second
file of a setting that names the usual one too, and a live probe that a jump host or ssh itself
denied; `NewReachAcknowledged` ssm templates, a second app's verb of the same name and what a rule that
stood comes to open (`ThroughStanding`); `SecretsOutOfReach` a target that comes under a rule that stood, and apps
with the ssh executor under another name; these two and `PlanIsWhatApplies` a proposal that removes what it
adds or grants (`Plain`).

The deadlock check is on in `plan_review`, where `apps.d` can always be edited, and off elsewhere: requests, calls, runs and events of a behaviour are
bounded, so every behaviour may stop when they are used up. What must not get stuck is
stated as liveness instead.

### Fairness

* `ChatPipeline`: weak fairness of each handler (the Go scheduler runs goroutines and the
  database answers or fails), and of the provider call's failure once its context is
  cancelled (the HTTP client returns on cancellation). Nothing makes a provider answer, and
  the property only asks about requests whose provider did or whose context was cancelled.
* `Delegation`: weak fairness of the session timer, of the relay request inside `Open`
  (bounded by the session's own timeout), of the serve goroutine when it holds a frame or its
  context is cancelled, and of the broker's checks. Nothing makes an executor return, and
  `SessionsEnd` names that exception.
* `UsageClient`: weak fairness of the loop; strong fairness of the ticker's flush, because Go's
  `select` picks among ready cases at random; strong fairness of a successful post, the
  assumption that the control plane answers again and again.

* `McpSurface`: weak fairness of the server's loop and of the client's listing after a notification
  (the ticker fires, the client answers), and of each step of a command that has started; nothing
  makes a write succeed or a new command come.
* `RemoteExec`: weak fairness of the broker's own steps only. Nothing makes a host, or a Systems
  Manager command, ever answer; `SsmEnds` holds because the poll counts.

### Observations

Where the code and what is written about it differ, or where a reader may be surprised; the
models contain each behaviour.

* **Chat**: `ReserveBudget` collects every reservation older than five minutes, also that of a
  request whose provider is slower than that (`budget_reservations.go:37`; the comment at 11-13 says
  concurrent requests cannot overshoot). `CapHolds` states the cap for requests that kept their
  reservation. The estimate counts four bytes a token (`billing/budget.go:3` calls it a conservative upper
  bound), the charge is what the provider reports.
* **Usage**: "On failure everything goes to the spool" (`cpclient/client.go:180`), but without a path nothing
  does, and the errors of its reads and writes are dropped (229, 248, 267).
* **Retention**: the purge compares the time a transaction began; a body that commits behind the
  statements stays until the next tick (`console/store.go:436`, `0001_init.sql:147`).
* **Delegation**: `share extend` checks the new scope against the surface of the agent who asks
  (`daemon/reflector.go:174`), `manager.go:241` speaks of the issuer's scope. The broker evaluates
  the issuer's policy on every call, so nothing is gained by it (`DelegationIsDenyOnly`).
* **Apply**: the snapshot leaves out `ssm_targets.yaml` (`cli/plan.go:459`, against 452-454); a proposal
  that removes and adds one alias is planned as a removal and applied as a replacement
  (`proposal/live.go:72`); as root, apply does not read the legacy policy that it then unlinks
  (`cli/plan.go:490`, against `plan_test.go:303`).
* **Review**: the comment on `Analyze` speaks of the effective state after the apply (`lint.go:104`,
  `live.go:13`, `bounds.go:75`), but only the proposal's own allow rules are analysed: a target or a verb that
  comes under a rule that stands has no finding, also where the rule then reads a secret path; an
  ssm template is only warned about; of two apps' verbs with one name the second is not shown
  (`lint.go:938`); the removal of a deny rule is not analysed; curated verbs of another app with the ssh executor are
  not looked at; removing a bundled verb is planned as gone although the registry cannot remove it;
  a duplicate alias in one proposal plans and then fails to apply; an `apps.d` file that clashes with
  the registry stops the whole namespace from loading.
* **Administration**: a truncated agent registry or list of enabled apps is read as empty, so the next
  command erases the other entries; `init --force` without root empties `agents.yaml` before it fails on
  the policies; activation that fails half way stays half done; names that differ only in characters
  the tool name replaces collide; a constrained deny on a passthrough app never matches.
* **MCP**: a change between the first load and the first stamps goes unnoticed until the next one
  (`missed`).
* **Console**: the lookup's LIMIT can hide an active key where many share a prefix; the comment above
  `handleMintKey` says that nothing is revoked automatically and the handler revokes; a database error
  is reported as an invalid key; revoking a code leaves its key; the session of a revoked key goes on.
* **Executors**: the check on file modes refuses only four-digit modes that begin with 4 or 2; a
  symlink over an existing bundle is made inside it; `lsof` lists both ends of a connection; a failed copy leaves no
  application or part of one; a root daemon runs brew and managers without sudo as root and does not look at
  the program (`system.go:1080`, against the comment at 1081-1083); the live probe says clear on
  any denial text, a jump host's or for a key that ssh could not load (`bypass.go:124`; the comment at 235-243
  keeps that apart for the broker's own key), and the inspection does with a second key file beside the
  usual one (352, against 350-351); a detached installer reads its package later; an ssh run has no
  timeout, and a lost answer invites a retry of what already ran; an error of the first status query
  ends the SSM wait; `check-bypass` exits 0 when it was inconclusive.

## 4. Proofs

Every theorem holds for all values of the constants that satisfy the named assumptions, which TLC
evaluates in each run. They type the constants and separate the sentinels (`None`, `Torn`, `Cleared`)
from the values; the ones that say more are

* `ApplyAssumption`: an install starts with a policy, and the lists of a proposal are sequences;
* `LimiterAssumption`: the keys a limiter ever sees are finitely many, and the time of a full refill
  is a whole number of ticks (the code divides in floating point, the model in whole ticks);
* `TablesAssumption`: the router's tables start with at most one active key and code per tenant
  and role, what the mint endpoints leave behind;
* `TrafficAssumption`: a verb that takes a file or verifies a host is a custom one of the ssh executor,
  as the verb definitions have it, and a command is polled at least once;
* `ConstantsAssumption` of `ChatPipeline`: the inputs are finitely many (`http.MaxBytesReader` bounds a
  body);
* `SystemAssumption`: a configuration names install directories of `DirOrder`, a sequence, and package
  managers that are paths; the bundle, the package and the program of a custom verb that a request names
  are paths, malformed or none;
* `AdminAssumption`: a file may hold finitely many entries (`Entries`: what it held at first and what the
  commands may add), no set of them is one of the sentinels, the managers of the initial configuration
  passed their checks, a definition has an action (`Definition.Validate`), and an activation names an app;
* `AppDefsAssumption`: the mode is a Boolean, and a bundled definition has the fields of a definition;
* `ReviewAssumption`: proposals passed `Validate` and list their rules, their removals and the steps of their verbs, the
  bundled templates have the shape asked of proposals, the first targets have an alias each, a path is the
  sequence of its elements, and a file of `Hidden` lies at or under a secret path of the boundaries.

Two theorems state a hypothesis on the constants: `SecretsSafe` that the boundaries make `SSH-SECRET-PATH`
blocking, as the template of `proposal/bounds.go` does (an operator who takes it off the list wants to be
able to acknowledge it), and `OperatorSaw` that there is a privilege boundary (`SystemMode`: without one
`apps.d` may carry templates itself, and change between plan and apply).

**ChatPipelineProofs.** The type invariant is not inductive alone: `TypeInv` adds `Carries` (a
request that has started carries one of the inputs) and `Undecided` (a request in flight has no
outcome yet). `TypeCorrect` follows. `CountedOnce` uses an invariant that relates the stage of a
request to the rows it has (a reservation only in the stages between admission and
persist, a usage row only after). `Egress` uses `Governed`: a request that is past a check has
an input that passes it. `Receipts` and `Success` share one invariant about the evidence written by the
persist transaction.

`CapRespected` and `DenialsExplained` are about sums of the money columns of sets of rows. The induction
theorems of the library take an operator and cannot be cited, so the induction is made with sets: a set
of naturals has a least member (`LeastNat`, from the well-foundedness of `<`), hence a false statement
about finite sets has a counterexample of least size (`LeastSet`). From it the proof shows that the
function the community module's fold defines by recursion exists and is unique (`SumFcnExists`,
`SumFcnUnique`), that a sum does not depend on the order, is a natural, is monotone, and grows by
a new row's amount (`SumRemove`, `SumSubset`, `SumAdd`). `CapInv` then bounds committed and
reserved spend of the month together by the cap, one estimate and the excess, as long as no request lost
its reservation: a reservation is made only below the cap, the charge takes the place of the
estimate, and what it is above that goes to the excess (`Excesses` keeps that below what is
committed). No assumption on tokens or prices is left. `DenialsExplained` is an action property: only
`DenyBudget` denies for the budget, and only with the sums it read.

**DelegationProofs, the broker.** `AuthInv` says that the history `held` contains every gate open now
(`HeldIsCurrent`), that a call past a check has that check's gate in `held` (`PassedWasHeld`), and
that an executed call is past all of them. It gives `Authorized`: whatever was executed had each of
the four gates open at some moment of the call, however the files were rewritten. `Attenuated`
adds `InScope`. `Logged` uses `LogInv`: past the check of the log, a call runs with a writable log
unless the history `dark` says that it failed under the call.

**DelegationProofs, sessions.** `ImplementsBroker` is the refinement `DSpec => Spec`; it needs `IssuerInv`
(a serving session has an issuer, so that what it dispatches is an input of the broker). `DenyOnly`
combines it with `Authorized`. `OneLateDispatch` uses `RevokeInv`: a cancelled session fetches no
more, so a session that holds a frame has not yet dispatched late. `Listed` needs to know where a
session is between the two lock periods of `Open` and between its cancellation and its teardown, and
that a call belongs to the session that dispatched it.

**DelegationProofs, the channel.** `ChannelInv` describes everything the relay may ever hold (`ToDaemonInv`,
`ToClientInv`): frames are never taken back, so this is the only way to bound what arrives late. The
client's counter is the number of its calls; the daemon's answers lie below its send counter under
the one key it has, and a request is dispatched only when its counter reaches the receive counter
(`RunsInv`). `Exact` and `NonceOnce` follow; that all dispatched requests came under one key is a part of
`Exact`.

**UsageClientProofs.** `ClientInv` says which of the lists may be non-empty in which phase of the
loop (`PhaseInv`), that the lists follow each other in the order of recording (`OrderInv`), and that
the spool is within its cap (`CapInv`). The interesting steps are the spool's rewrite (line by line a
prefix of a suffix of what it held and what failed to post, so that a failure or a restart between two
lines is covered) and the restart (the spool is the oldest part of what was in
flight). `Accounted` is `NothingVanishes`, the order and the cap, for any capacities.

**ApplyProofs.** The order of `applyMutations` is expressed by ranks: the list of mutations is sorted,
and what is not left to do is installed (`MutatingInv`). So no rule is granted while the verbs are
still to be written, and after the last one everything is there (`InstalledInv`). `RestoringInv` follows
the rollback file by file; `GateInv` and `AddedInv` carry the gates' verdicts and the origin of what was
added to the end of the run. They give `Transactional`, `Usable` and `Gated`.

**HttpFrontProofs.** `LimiterIdeal` is a refinement under the mapping of section 2. Its lemmas are about
refills: refilling twice is refilling once for the sum, and a bucket idle for a full refill is as
good as none, which is why it may be forgotten. `Identity` uses `RowsInv`: every row anybody holds, in
the store or in a command's memory, is what its mint bound. `TokenLife` adds `SerialInv`, `CompleteInv` and
`PepperInv`, which say what the store and the hands of commands hold while commands take turns, no write
fails, and one process makes the pepper, and `NotedInv`, which carries what was true when a request
came to the point where it is answered.

**ConsoleProofs.** `ConsoleInv` is the conjunction of `KeysInv` (types of the tables, an
administrator's statement fits its request, and while mints take turns each is the only one between
its revocation and its insert), `CacheInv` (an entry outlives the revocation of its key by at most
the life of an entry and of a lookup), `CallInv` (what a caller waits for), `WebInv` (cookies are sessions of
keys; after a logout without overlap no answer can renew the cookie) and `DataInv` (a purge past a
statement has left no old body of its kinds but the late ones, and a transaction that is open now was
open when the purge began or carries a later time: `Late`). The relation `KeysGrow`, that tables only grow and a key
changes only by its revocation, is proved once per action and then used for every part.

**ExecutorsProofs.** `RemoteInv` follows a remote call from stage to stage: past its gates it is
`Gated` by the target and key it read then, whatever is saved later; the file it streams, up to the end of the command, fits the
platform or was changed since the inspection; and what its answer says is so of the command on the
other side, also when the answer was lost. It gives `HostsGated`. `Honesty` adds `VerdictInv` (a
verdict is clear only of a key the host does not accept, or for one of the reasons the code has) and `SystemInv`: of two
requests that run at once neither is alone, and a request that places a bundle has one of four lists
of steps left (`Remaining`), with an empty place before the last one if it is alone and no removal
failed. The lists come out of `runAction` by case analysis; no induction over them is needed.

`SystemWithin` is `Spec => []SystemGated`, with `GateInv`. What is on a request's list of steps was granted by
the configuration it loaded (`StepsOk`, `Granted`): every handler is shown to return only such steps
(`ActionGranted`), and every step takes one from the front, so that what is recorded as done is `Within`
the lists whatever is saved meanwhile. `Vetted` says, by the step a request has come to, what is known of its
source: before the signature nothing, after it a content that is signed, after the team's check one of an allowed
team, unless the file was swapped, and only a `Replaceable` one can be: that is why a root-owned source
that is no symbolic link and not loose is proof against the swap. A program that was replaced and ran with
the rights of root was `Loose` or had not passed `RequireSudoSafe`, which a step with sudo has. The same holds of a package until its detached
installer has read it (`LaunchRow`). A pid on the list of port holders is of a process with a socket on
that port, of one that is gone, or recycled (`HeldOk`). The install directories of a configuration are
computed by a recursive function (`AllowedDirs`); that each is on the list is proved by a least
counterexample (`DirsListed`), as for the sums. The proof attempt showed that a symbolic link as source had
been missing from the run: it is there now, and `InstalledIsGated` names the exception.

**AdminProofs, the commands.** `SurfaceInv` is `McpInv`, the phases of the watcher, and `CliInv`. `AdmRow`: a process
that is about to save holds what its job makes of what it loaded, and both are `Sound`, entries the file
may hold and no manager that failed its checks. `InTurn`, of a file that no two commands have
worked on at once: one process works on it, it is truncated while that process writes, and otherwise it
loads, if it loads, as its ledger, and so did what the process loaded. That is why a file that
refuses to load while truncated survives a failed write and one that loads as empty does not
(`Drops`). One lemma says what each kind of step does to one file (`Leaves`, `Enters`, `Cuts`, `Puts`,
`Drops`); the steps of the processes then combine them (`LoadKeeps`, `TruncateKeeps`, `WriteKeeps`,
`WriteFailsKeeps`), and every command starts with jobs that fit their files (`RunStarts`). `FilesSerial`
follows, and no bound on commands or administrators is used. `RemovalsNarrow` needs to know what
the loop of `policy.Evaluate` computes: some rule applies and no deny rule does (`AllowedBy`), whatever the
order of the list, so a policy that lost only allow rules allows no other call (`FewerRules`). The loop is a
recursive function along the list; that such a function exists, and what it computes, is again shown by
a least counterexample (`RecursionExists`, `UpTo`), as is what the list of jobs of an activation contains
(`AllActivationOk`).

**AdminProofs, the review.** `ReviewInv` is `ReviewTypeOK` with two strengthenings. `RegOk`: every verb of the
registry came with a proposal, and its template has the shape its executor asks for; `ShapedVerbs` alone is not
inductive, because what the namespace shows of the registry depends on `apps.d`, which changes. `PlanOk`: the
findings under review are `Analyze` of this proposal against the targets and the registry as they still are
and against the `apps.d` of that moment, for only an apply changes the first two, and it uses the plan up.

* A namespace is described verb by verb, as the topmost layer that defines it (`MergedSpace`, `MergedVerb`);
  under a boundary a template comes from the registry or is bundled (`Sources`), which is why an edit of
  `apps.d` gains nothing. A proposal without a blocking finding fits the executors it meets and has
  shaped templates (`Reviewed`). That gives `NamespaceHolds`.
* The removals of a proposal are a recursion along a list of unspecified order. The proof shows that the recursion
  exists (`RemovalExists`) and that its result is what no ref names, in any order (`RemovalsExact`). `PlanFaithful`
  then compares, verb by verb, the map of merged layers that the plan edits with the layers
  merged again after the registry was edited.
* `WalkExact`: the set of objects that are down after each step is a recursive function, it exists
  (`DownExists`), and it holds what the last step on an object took down (`WalkIsStranded`), by least counterexample.
* `SecretsSafe` rests on a fact about prefixes: two prefixes of one path are prefixes of each other in one
  direction (`PrefixesMeet`). So a list that reaches a hidden file reaches into the secret path above it or
  starts inside, and `reachesSecret` sees both (`SecretReached`).
* `OperatorSaw` follows each rule of the proposal from the namespace after the apply back to the one under
  review, where the finding is made; of a rule that stood it shows that what it opens was open before,
  or comes with a target, a verb or a removal of the proposal.

The attempt at `OperatorSaw` showed that `NewReachAcknowledged` had been stated of too many proposals: one that
removes a verb and grants it is planned as a dead rule, although a bundled verb of that name stays and the
grant opens it. `Plain` names the exception; section 3 has the divergence behind it (removing a bundled verb
is planned as gone). It also showed that two targets of one proposal may share an alias, which the
store refuses: `NewTargets` now does.

Only model-checked is liveness (`RequestsSettle`, `SessionsEnd`, `EventsArrive`, `SurfaceFollowsPolicy`, `SsmEnds`):
fairness is out of the prover's reach. Every other property of the runs is stated by a theorem.

## 5. Not modelled

* Functions of text: the DLP patterns, the parsing of templates into programs and steps (the review
  starts from the result), quoting, rendering and the reports.
* The findings on system applications, packages and sudo, which compare lists of names; the warnings on
  the effects of verbs and on services that are down for a while.
* External services: model providers, Postgres's own guarantees, Systems Manager, the control
  plane; their outcomes are inputs. Cryptography is ideal, and the signing of receipts, passports
  and manifests with it.
* One-shot exchanges and start-up: enrolment, manifests, identities, configuration parsing,
  database bootstrap, layout, bundled resources.
* `/v1/scan` and document upload; JSON-RPC and socket framing; flag parsing, printing, `status` and
  `doctor`, which only read; the rotation of the daemon's own output.

The components table of `PROJECT.json` gives the reason for each part.

## 6. Plan

The modelling is complete for what section 5 leaves, and every safety and action property is proved. What
could be added: the findings on system applications, packages and sudo in `ProposalLint`, and the
definitions' own text, from which the templates are parsed.

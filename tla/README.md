# phlox-gw in TLA+

Phlox-GW is an LLM gateway written in Go: clients send OpenAI- or Anthropic-style
requests with an API key, the gateway checks limits, picks an upstream model,
calls it, and appends what happened to a usage ledger. One or more nodes share a
database (SQLite for one node, Postgres for a cluster), and nothing else.

This directory holds specifications of the program, the TLC runs that check them,
and TLAPS proofs of the properties that can be proved for all sizes. Paths below
are relative to `src/`; `internal/httpapi/` and `internal/store/` are shortened
to `httpapi/` and `store/`.

## 1. Inventory

| Component | State | Operations | Interacts with | Module |
|---|---|---|---|---|
| Provider health (`store/providers.go`, `httpapi/policy.go`, `httpapi/models.go`) | health columns of `providers`: status, count, `circuit_open_until` | record success, record failure (SELECT then UPDATE in one transaction), create, delete, tests by an administrator | written by every upstream call; read with every route plan | `ProviderHealth` |
| Request path (`httpapi/gateway.go`, `routing.go`, `openai.go`, `anthropic.go`) | locals of a handler: plan, candidate, attempt, last result | health gate, admission, call, retry, fallback, answer | reads the catalog and limits, calls upstreams, writes health and ledger | `Gateway` |
| Limits (`httpapi/policy.go`, `store/budgets.go`, `store/ratelimits.go`) | rows of `budgets` and `rate_limits`; sums over the ledger | budgets per month, RPM and TPM per minute, key allowlist | read by each admission | `AdmissionGate`, `Gateway`, `Catalog` |
| Usage ledger (`httpapi/usage.go`, `store/usage.go`) | append-only `usage_ledger`, `request_id` UNIQUE | insert, sums | written after each attempt | `Gateway` |
| Route plans (`httpapi/routing.go`, `store/models.go`) | `models` and `providers`; a plan is local | resolve a name, weighted choice, fallbacks | administrators edit the catalog meanwhile | `RoutePlan` |
| Accounts and sessions (`httpapi/auth.go`, `httpapi/users.go`, `store/users.go`) | `users` with `session_version`, signed tokens | login, forced change, reset, OIDC login, disable | authenticates every request of the console | `Accounts` |
| API keys (`httpapi/apikeys.go`, `store/apikeys.go`) | `api_keys` | create, rotate, revoke, controls, touch | authenticates inference requests | `ApiKeys` |
| Catalog (`httpapi/providers.go`, `models.go`, `budgets.go`, `ratelimits.go` and their tables) | `providers` with secrets, `models`, limits | create, update, delete with clean-up of dependent rows | route plans, limits | `Catalog` |
| Configuration export (`httpapi/config_export.go`) | the shared file of the signing key | read the tables one by one, sign | the catalog; other nodes | `ConfigExport` |
| Startup and bootstrap (`store/schema.go`, `cmd/phlox-gw/main.go`) | schema, seed rows, the first administrator | migrate, seed, print the password | several nodes at once on Postgres | `Cluster`, `Catalog` |
| Cluster registry (`httpapi/cluster.go`, `store/cluster.go`) | `cluster_nodes`; last heartbeat in memory | heartbeat, prune, delete at shutdown, readiness | each node and its neighbours' pruning | `Cluster` |
| Stream bridges (`httpapi/bridge_*.go`, the streams of `openai.go`, `anthropic.go`) | the state of one translation | one event in, some events out | between upstream and client | `StreamBridge` |
| Translation of conversations (the same files) | none; the client keeps the history | requests and answers that are not streamed | between client and upstreams of three protocols | `Conversation` |
| Guardrails (`httpapi/guardrails.go`, `store/guardrails.go`) | the policy | inspect, redact or block input and output | every request and answer | `Guardrails` |
| Audit and request log, analytics, playground | append-only rows, read-only queries | insert, list | nothing depends on them | |
| Configuration, telemetry, middleware, frontend | none that requests depend on | | | |

What is hard: handlers run concurrently and interleave at every statement and
every upstream call. Values read early (provider rows in a plan, the time of an
outcome, the user, a guardrail policy) are used late. One attempt makes several
writes without a transaction. Clients disconnect, nodes stop, upstreams fail before
or after their status line, and the database goes away and comes back. Streams of
three protocols are translated while they come. The list `hazards` in `PROJECT.json`
names each place with the properties that watch it.

What makes each component correct:

- *provider health*: a circuit opens after three failures in a row and only then,
  never for longer than the cooldown, and status, count and deadline agree;
- *request path*: candidates and retries in the planned order and number, an
  answer that the ledger agrees with, no call that the key does not allow, an end
  to every request;
- *limits*: the overshoot of a limit is bounded by the number of requests in flight;
- *ledger*: one row for each attempt that was answered;
- *route plans*: the plan the documentation describes, without repetitions, and
  without losing a fallback when something else changes;
- *accounts*: a reset or a disabled account ends older sessions;
- *API keys*: a dead secret stays dead;
- *catalog*: no secret lingers when the method of a provider changes, and limits go with
  what they limit, and only then;
- *export*: bundles whose parts fit together, signed with one key;
- *bootstrap*: one administrator, one printed password, one migration of each column;
- *registry*: who says that it is ready is listed, who has gone disappears;
- *bridges*: well-formed output for every sequence of events, nothing lost, swapped
  or given to another tool, and what was done is counted;
- *conversations*: nothing is lost on the way to any upstream but what a translation leaves
  out by itself, results follow their calls, and what the policy looks for stays out.

## 2. Modules

| Module | Models |
|---|---|
| `ProviderRow` | the health columns of one row and the pure steps on them: `SuccessRow`, `FailureRow`, `CircuitOpen`, the two classifications of statuses |
| `ProviderHealth` | the `providers` table with concurrent writers. `RecordFailure` is one step on SQLite (`Atomic`), and `ReadFailures` then `CommitFailure` on Postgres. Deletion, recreation and the passing of time are actions |
| `AdmissionGate` | abstract specification of a limit: permits are taken while the sum of rows in the window is below the limit, and each permit may add one row of bounded size |
| `Gateway` | the two inference handlers for any number of requests: `Arrive`, `SnapshotOpen`/`SkipOpenCircuit`, the checks of limits one by one (`CheckLimit`), `Admit` or a refusal, `Dispatch`, `Reply`, the outcome report in two steps, `RecordUsage`, `AfterAttempt` |
| `RoutePlan` | `resolveRoutePlan`: one action for each catalog query, with the edits of administrators and failing queries between them |
| `Accounts` | the `users` table and session tokens: login, `requireSession`, the forced change in its three statements, OIDC login in two or three, and the operations of administrators, by any number of concurrent handlers |
| `ApiKeys` | the `api_keys` table: owners whose session was checked before, administrators, and calls that are let in by one statement and note the use in another |
| `Catalog` | providers with the columns of their secrets, models, limits; one action for each operation, deletion of a model in two (`ReadToDelete`, `DeleteModel`), and the seeds that every start inserts |
| `ConfigExport` | extends `Catalog` with exports under way: `ReadProviders`, `ReadModels`, `ReadKey`, `CreateKey` (O_EXCL), `WriteKey`, and `BreakOff` at any point |
| `Administration` | `ConfigExport` and `ApiKeys`, which share no table, side by side |
| `Cluster` | nodes of different versions that start (`Lock`, `FindMissing`, `AddColumn`, `CommitSchema`, `LookForUsers`, `InsertAdmin`, `PrintBanner`, `Register`), beat (`BeginBeat`, `Beat`, `BeatFails`, `LateBeat`), stop and crash, on a database with outages. Times are ages |
| `MessageStream`, `ChunkStream` | abstract specifications of what a client sees: an Anthropic message put together from blocks, a chat completion put together from chunks |
| `StreamWriters` | the two writers, `anthropicOpenAIStreamState` and the one of chunks: what is written for one thing said, and at the end |
| `StreamBridge` | one streamed call: complaints about parameters and retries, what the upstream says (`Say`), each write, breaks and disconnects, the usage that is recorded. Six bridges; it implements both grammars |
| `Guardrails` | the policy, as operators on messages: `Blocked`, `Redacted` |
| `Conversation` | extends `Guardrails` with a client that keeps its history, upstreams of all protocols in turn, and the translations of requests and answers |
| `FiniteFolds`, `…Proofs` | theorems and proofs (section 5) |
| `MC*` | values for TLC |

**Composition.** `Gateway` instantiates `ProviderHealth` with its requests as writers
and implements it (`ImplementsHealth`), and for each limit it implements
`AdmissionGate` (`ImplementsGate`). The plans that `Gateway` takes as a constant are
what `RoutePlan` produces, and `RoutePlan`'s properties (no candidate twice, a plan
that is not empty) are what `Gateway` assumes of them. `StreamBridge` implements
`MessageStream` and `ChunkStream` under refinement mappings that assemble what the
client has received. `Conversation` uses `Guardrails` on both ways. `ConfigExport`
runs concurrently with every action of `Catalog`; `Administration` adds `ApiKeys`,
and its variable `desk` tells which of the two independent halves a behaviour is
about, so that their states add up and do not multiply.

Correspondence of state in `Gateway`: `row` is the health columns, `ledger` the
usage table in insertion order, `monthStart` and `minuteStart` the positions where
the calendar month and the last minute begin, `pc[r]` and `req[r]` the program
point and locals of a handler. Mode `plan` is `executeOpenAIPlan` and
`executeAnthropicPlan`; mode `stream` is the two `select…StreamCandidate` functions
and the stream they lead to. In `Cluster`, `rows[n]` is the age of `last_seen_at`,
`last[n]` and `failed[n]` what the node itself remembers of its heartbeats. In
`StreamBridge`, `writer` is the Go struct of the translation, `todo` what it is about
to write, `client` what the client has put together. `PROJECT.json` maps every
definition to lines.

### Abstractions

- Texts, message formats, prices and token counts become small sets. In `Gateway`,
  guardrails may turn any final answer into a refusal; `Conversation` has what they do.
- `unlisted` in `Gateway` is a history variable: the failed attempts at a provider that were past
  the report of their outcome when the INSERT failed or the client left. No action reads it.
- The snapshot of provider rows in `Gateway` is taken in one step; `RoutePlan`
  has the separate queries, but not the health columns.
- Windows are those at the time of a check, as in the code. There is one limit
  record for each budget, RPM or TPM setting.
- In `Gateway` the set of providers is fixed (`ProviderHealth` varies it), and
  reports wait for nothing (`MaxWait` 0), so that deadlines are those of the
  present; `ProviderHealth` has reports that are delayed.
- Providers whose protocol is not supported (a 501 answer), and the request log
  row, are left out. A stream is one call in `Gateway`; its events are in `StreamBridge`.
- A crash of a node is the disconnection of all its requests: what is in memory is
  lost, what was committed stays.
- In `Accounts` the id of an account is its username and is used once: an account
  that OIDC creates anew after a deletion is another id. A password is a number, a
  token is known with what its holder has shown, and tokens do not expire (they
  are checked against the table each time, so that is the worse case).
- Lists of names are taken as parsed; the admin handler refuses lists that do not
  parse.
- In `ApiKeys` a secret is its number; names, budgets and allowlists of keys are data.
- In `Catalog` a secret is the method it was entered for: a type that is called directly
  (`DirectTypes`, all with the one column of the API key), or one of Bedrock's three. Amounts of limits, their
  `is_active` flag, prices and timeouts are data; limits on a person use the id as
  value. The transaction of `DeleteProvider` is one step.
- In `StreamBridge` a text or an input of a tool is a sequence of fragments, known by
  the position at which the upstream said them. In `Conversation` a text is a sequence of pieces,
  known by a number and by what they are: plain, matched by a rule, an image, or a string under a name that
  guardrails pass over. Parts that no translation knows (documents) are of one kind, `other`. Streams are redacted event by
  event, which is left out (finding 11).
- In `Cluster` the id of a node is used again only when nothing of its last process is
  under way; by default it contains the process's id.

## 3. Runs

| Run | Question | Bounds and why they are enough |
|---|---|---|
| `health_sqlite` | is the breaker exact when transactions cannot overlap? | two writers, threshold 3 as in the code; late reports up to one tick |
| `health_postgres` | what survives when they do? | three writers, so that two can overwrite a third; deletion and recreation |
| `gateway_plan` | do requests walk their plans, and agree with ledger and rows? | two requests, two candidates of two attempts, disconnects; threshold 2 so that circuits open inside a run |
| `gateway_limits` | is the overshoot bounded? | two requests in both modes; limits of 1 or 2 under one key, user and model, windows that slide |
| `gateway_faults` | does every request end, with allowed models only, and does the ledger explain who is down, when any statement of the store may fail and clients leave? | two requests, plans of three and of one candidate, one of them not allowed; threshold 2, so that the two together take a provider down |
| `gateway_disconnect` (violation) | is every answer of an upstream in the ledger? | one request suffices |
| `route_plan` | is a plan the documented one, and robust to edits? | three models, two providers, all names that are equal, unknown or ambiguous; two edits at any points, so one may free a route and one may take it |
| `accounts` | do sessions end, and roles and accounts stay, as they should? | two requests at a time on two accounts, two changes of a password each, three tokens: enough for a forced change that a reset overtakes, and for an administrator who makes another one |
| `streams` | is every translated stream well-formed and complete? | all six bridges, six utterances of the upstream, three tools: enough for a tool whose arguments come before its name while two others wait, and for text on both sides of it. Four parameters, of which more may be rejected than are retried |
| `conversations` | do histories survive changing upstreams and policies? | both clients, three upstreams, five messages: a question, calls, results, an answer, another question; one special message at any place (blank; an image by address and a part that no translation knows; a text that two rules match, with a string under a skipped name and, in a result, an image) |
| `cluster` | do starts, readiness and the registry work through crashes and outages? | two nodes, of which one knows a column more; three starts, so that one node starts again, and the first heartbeat of each start prunes or not; timeout 1, stale after 2, retention 3 ticks keep the order of the real times |
| `administration` | do secrets, limits, exports and keys stay consistent? | any three operations on two providers, of two direct types and Bedrock's methods, two models and two limits, names of models that are equal at both providers; two exports; one key, two owners, two requests and three secrets |

Time is a counter of ticks, or an age; the cooldown is one or two ticks. `MaxReports` in
`Gateway` is never reached. `CHECK_DEADLOCK FALSE` stands where all work may be
finished: requests are made once each, and clocks, edits and operations are bounded.
Symmetry is used only in runs without liveness.

The configurations `MCProviderHealthRace`, `MCGatewayTransport`, `MCRoutePlanNames`,
`MCAccountsRoles`, `MCConversationRefusal`, `MCStreamBridgeNameless` and
`MCStreamBridgeReported` are not among the runs: with each of them TLC finds the
counterexample of a finding below.

`TypeOK` is checked in `gateway_plan` and `route_plan`. Those of `Gateway`, `RoutePlan`, `ProviderHealth`
and `Accounts` are theorems; the other modules that are proved about have the types
their proofs need in the proof modules.

**Fairness.** `gateway_faults` has `EveryRequestEnds`, under weak fairness of each
handler's own steps: the Go scheduler runs every goroutine, the store's calls return
or fail, and an upstream call ends, because the HTTP client has a timeout of ten
minutes. `cluster` has `MembershipHeals`, under weak fairness of time and of the steps
of a heartbeat, begun by a ticker and ended by its timeout (`httpapi/cluster.go:148`). The return of
the database is a hypothesis of the property. Nothing is assumed of
clients, administrators, or of anybody who starts or stops a node.

## 4. Findings

1. On Postgres, failure transactions read the count at READ COMMITTED without a
   lock (`store/providers.go:138`). Two of them lose a failure, so a provider may
   stay degraded after three failures in a row (`MCProviderHealthRace.cfg`). What
   remains true is proved: it is never down too early, and its row is always consistent.
2. `recordUsage` runs with the request's context (`httpapi/usage.go:54`): a client
   that goes away after the upstream answered loses the row (`gateway_disconnect`).
3. A body that breaks off after a 200 counts as success (`httpapi/openai.go:204`,
   `MCGatewayTransport.cfg`).
4. A route without a slash can be created but not requested
   (`httpapi/models.go:300`, `store/models.go:135`, `MCRoutePlanNames.cfg`).
5. An OIDC login writes back the role it has read (`httpapi/auth.go:353`), and so
   undoes what an administrator sets meanwhile (`MCAccountsRoles.cfg`).
6. A reset of the password of an OIDC account locks it out: it must change a
   password that it may not change (`httpapi/users.go:153`, `httpapi/auth.go:56`).
7. The writer of Anthropic streams closes the text block twice when a tool never
   got a name (`bridge_anthropic_openai.go:905`, `MCStreamBridgeNameless.cfg`).
8. Usage that an OpenAI upstream has reported is dropped when the copying of the
   stream breaks off (`openai.go:201`, `MCStreamBridgeReported.cfg`).
9. A refusal of an answer may come in the upstream's protocol instead of the
   client's (`guardrails.go:352`, `MCConversationRefusal.cfg`).
10. Consecutive turns of one role are merged for Anthropic but not for Bedrock
    (`bridge_bedrock.go:436`). `RolesAlternate` is stated for Anthropic.
11. Streams are redacted event by event, so a value that is split over two passes
    (`guardrails.go:367`).
12. Every start inserts seeded providers and models again, also those that an
    administrator has deleted (`store/schema.go:261`).
13. A heartbeat under way at shutdown writes the deleted row again (`main.go:126`).
    `GhostsVanish` is what remains true.
14. A deletion removes limits by the upstream name of the model, which may be the
    route of a model that stays (`store/models.go:107`).
15. The key file is created before it is written; a crash in between leaves an empty
    file that fails every later export (`config_export.go:396`).
16. Guardrails pass over strings under names such as `id`, `type`, `model` or `provider` at any depth
    (`guardrails.go:463`), so also in the arguments of a call when they are an object, as in
    Anthropic's protocol, where such a name is one of the tool's own. In OpenAI's protocol the
    arguments are one string, which is inspected whole. `SecretsStay` excepts these pieces.
17. Images in a tool's result are dropped on the way from Anthropic's protocol
    (`bridge_anthropic_openai.go:249`), and so is a part of a user's message that is no text, image or
    result (`bridge_anthropic_openai.go:151`, a `switch` without a default), both without an
    error. `NothingLost` excepts them.

Also worth knowing, and as coded:

- the token that follows a forced change is issued from a row that is read again, so
  when a reset and another forced change come in between it is a full session of
  somebody who does not know the password; `OldLoginsEnd` is therefore about the
  sessions that logins open;
- two administrators who demote each other at the same time leave none
  (`AdministratorRemains` excludes it);
- retries do not look at the circuit again (`httpapi/routing.go:119`), so a request goes
  on with a provider whose circuit it has opened itself; `ShieldedOnceOpen` is therefore
  about first attempts;
- an upstream's stream that ends early without an error looks complete; a Bedrock stream
  that is cut gives `[DONE]` without a finish reason; blocks of several tools may be open
  at the same time in Anthropic's output, which `MessageStream` allows;
- Anthropic's images by address are dropped on the way to OpenAI and Bedrock, as are thoughts
  (`NothingLost` excepts both), texts and calls of one message are not kept in their mutual order,
  because OpenAI's protocol has the calls last, and Bedrock gets no tools at all when none may be called;
- a crash between the creation of the first administrator and the banner loses the
  password: `StartsOnce` says that at most one is printed;
- a change of type among the providers that are called directly keeps the API key when the form
  leaves it blank (`httpapi/providers.go:150`), so the key of one vendor may be sent to another:
  `NoStaleSecrets` speaks of changes to, from and among Bedrock's methods;
- changing the id of an AWS key without its secret pairs it with the old secret;
- a form for the controls of a key that was opened before a revocation activates the key
  again: to `ApiKeys` this is the administrator's decision.

## 5. Proofs

Every safety property of the runs that pass is a theorem. What the theorems assume of the
constants is in the `ASSUME`s of the modules, which TLC evaluates for each run.

**`FiniteFolds`**: sums over finite sets as `SumFunctionOnSet` computes them, products and
maxima; folds over sequences and concatenations of sequences. The provers cannot instantiate an
induction theorem that takes an operator, so induction is done on *sets* of numbers:
`SetInduction` (a set that has 0 and with each number the next one is `Nat`) follows from the
pigeonhole principle, and with it `SequenceInduction`. From it come the existence of the table of
sums (`SumsExist`) and its only value (`SumsAgree`), in the same way the history of a fold
(`FoldExists`, `FoldSteps`), then what the proofs cite: one summand more or less, monotony, bounds
(`SumAdd`, `SumRemove`, `SumMonotone`, `SumBound`); one sequence more (`FlattenAppend`,
`FlatConcat`, `FlatFlat`); and a fold of which each step adds to a measure what is measured of
the element adds, in all, what is measured of the sequence (`FoldMeasured`).

**`SharedDatabaseProofs`**: what nodes share in the database. Of `ProviderHealth`, from the
assumption that threshold and cooldown are positive and the bounds natural numbers:
`TypeCorrect`; `RowsConsistent`: status,
count and deadline agree, because every write sets all three, from one value that
was read; `CircuitsExpire`; `DownIsEarned`: a count that was read is at most the
number of failures reported so far, for committed rows *and* for the values that
open transactions hold, which is the strengthening that makes it inductive;
`ExactOnSQLite`: with `Atomic`, the count equals the current streak;
`FailuresKeepOpen`, an action property: with `Atomic` and reports that arrive within the
cooldown, a failure only moves a deadline on.
Of `Cluster`, from the order of the times, and -1 being no node, for `ClusterSpec`,
without fairness. `StartsOnceEver`: who migrates holds the lock, so what it has found
missing stays missing; the temporary passwords of starts under way differ; and one that
has created the account and not printed yet is the only one whose password the account
has. `ReadyIsListedEver`: the row is at least as fresh as the heartbeat a node goes by, and
a row that fresh has not expired for any heartbeat of another node, however late.

**`GatewayProofs`** (from the assumptions on plans, modes, statuses, prices and providers,
and that requests and models are finitely many), for any number of requests, on both
databases, with store faults and disconnects.

- *Where a handler is.* `PlaceInv` says of each handler that the candidate in turn is one of
  the plan's, that a candidate which is called, or the first one that is selected, was allowed
  by the key, and that its circuit in the snapshot is not open *any more*, as time only passes
  (`ClosedStaysClosed`). Each action moves one handler in one of three ways (`Ends`, `Advances`,
  `GoesOn`), and `PlacesKept` is proved once for these. `OnlyAllowedEver` and `ShieldedEver` follow.
- *The breaker.* `HealthImplemented`: every step of the gateway is a step of `ProviderHealth`
  or leaves its variables alone, so its theorems hold of the request
  path; it needs `PlaceInv`, because only a candidate of the plan is known to have a provider.
- *The ledger.* `WalkInv` relates the rows of a request to its locals: numbers grow with
  positions (`InOrder`), rows of one model are as many as attempts at it (`Tries`), none is
  missing (`Complete`), all of a plan that is still walked have failed, at the candidate in turn
  or an earlier one (`AtCandidate`), and the answer is that of the last row (`Served`).
  `RowsNumbered`, `PlansFollowed` and `AnswersLedgered` follow, and `TypesCorrect`.
- *Both.* `DownIsExplained`: when a provider is down, as many attempts at it as the threshold says
  have failed, and each has its row, or has its INSERT before it (`pc = "usage"`), or has lost it.
  It rests on `BreakerInv`: no row of a provider, and no open transaction, has more failures than
  were reported, and those that were reported are at most those in the ledger, those about to
  be written and those in `unlisted` (`FailuresShown`, by the cardinalities of two sets). A client that leaves
  before the report adds to neither side, and one that leaves after it moves a call to `unlisted`.
- *The limits.* `GatesImplemented`: every limit implements `AdmissionGate`. By `CheckedInv` a
  candidate that is called was checked against every limit that applies to it, so a row is charged only
  where its request holds a permit; a step of a request changes one summand of `Permits`, and a
  row one of `Used`; a window that slides drops summands. `OvershootBounded` is then the promise of
  `AdmissionGate` for every limit: `ReserveInv` says that usage and what the permits may still
  add stay below the limit plus one row for each of the `PermitCap` permits.

**`RoutePlanProofs`** (the catalog's ids are finitely many). `PlanTypeCorrect`; `NoCandidateTwice`,
inductive with the fact that no candidate precedes the first; `WeightsAreRespected`: the picks that
choose an entry are the interval between two partial sums, and intervals of different entries
are disjoint. Two more where every route has a slash (`SlashedRoutes`), since without it a route may
equal the upstream id of another model and stand for two (finding 4):
`NoFirmFallbackLost`: a fallback is passed over only when its name or its row was seen, so the
invariant (`FirmInv`) says that a row that was read with the route of a firm fallback
is that model, which rests on the uniqueness of routes at each moment and on the route
of the firm fallback being the same all the while; and `PlanIsDocumented`, whose `QuietInv` is the
documentation's plan cut off at the name in turn: what was read is still so (`QuietRows`), weighted routes that
had their turn and gave nothing stand for nothing (`QuietWeights`), and the fallbacks that had their
turn are in the plan in the order of the names that named them first (`QuietPlan`).

**`StreamBridgeProofs`** (from the assumptions on bridges and tools), for any tools and streams of
any length. `RetriesAreEnough`: of the parameters that a request has, at most two can be left out,
and each retry has left out one (`TwoAtMost`). `DoneCounted` is inductive with the fact that only
Anthropic reports a part of its usage first. `ChunksAreWellFormed`: the bridges to chunks
implement `ChunkStream`. `ChunkInv` is about what the client has *and* what is about to be
written: marks that come after those the client has (`MarksTodo`), or one text, one call that is new
and has the next number, or input for a call that the client knows; the translator's numbers are
those of the client's calls (`Numbered`), and there is no finish reason until the upstream has given
one or the stream ends (`InTime`). The upstream's protocol (`EventsMay`) is needed for it:
an upstream that sends text after its reason would break the completion.

`NothingLostInStreams` and `MessagesAreWellFormed` rest on one more invariant, `StreamInv`, about
what the client *will* have. `Path(c, s, d, r, g)` says that reading the events `s` takes the client
`c` to `d`, that each event fits the client that reads it (its block is known, or new and next in
number), and, with `g`, that it comes in the order of a message (blocks are open when they are
filled and closed, and all are closed at the end). `Promised(d)`: there is such a way from the
client, by what is still to be written, to a `d` that has all that was said; while the stream goes
on the translator matches `d` (`At`: numbers, the open text, the tools that have started and the
input that waits), and when the upstream has ended `d` has heard of every tool and knows the reason.
A write takes one step of the way (`PathHead`); something that is said makes a way that is joined to
it, with one lemma for each operator of `StreamWriters` (`WritesText`, `WritesCall`, `StartsTool`,
`ChunkText`...); the end of a message is a fold over the tools in the order of their mention
(`FinishesTools`). A way only adds to what the client has (`PathGrows`), which gives the prefixes
when a stream breaks. `MessagesAreWellFormed` reads the steps of the way as actions of
`MessageStream`; it assumes `~Nameless`, since a tool that has no name until the end closes the text
a second time (finding 7). `NothingLostInStreams` does not need it.

**`AccountsProofs`** (from the assumption that the tables of users to begin with have
versions and passwords of zero and an administrator). The session theorems,
`LoginsEndWithTheirPassword` and `ChangesReplaceTheirOwn`, rest on `SessionInv`: the
version of a row counts its passwords, in the table and in every row that a handler
holds, so the compare-and-set on the version is one on the password; and a session
that a login opened knows the password with the number of its version.
`AnAdministratorRemains` is inductive as it stands: whoever makes the change remains.
`OnlyAdministratorsEnable` is an action property: no other statement writes `is_active`.

**`AdministrationProofs`** (from `CatalogAssumption`, `KeysAssumption` and `Nobody` being no
owner). `DeadSecretsStayDead`: for any number of keys, owners, sessions and calls. The
invariant (`SecretsInv`) says that the secret of an *active* key is not dead, that secrets are
never above the number made, and that no two keys share one, so that a new secret cannot be a
dead one and the death of one key's secret is not that of another's. That an old secret stays
in the row of a revoked key is why activity, not existence, carries the invariant.
`NoStaleSecretsEver` is inductive with the methods of all rows being known ones; a direct type's
key counts as that of its family (`Family`), for the reason given in section 4.
`BundlesFitTogether` needs that models refer to providers that exist at each moment, because
they are deleted with them, and that an export which has read the providers lacks only
those in `since`. `OneKeySigns`: at most one export is between the creation of the file and
its writing, and the file is empty meanwhile.
`LimitsGoWithTheirs` is an action property, under the assumption `RoutesApart` that no route
is an upstream name (finding 14 is what happens without it).

**`ConversationProofs`** (from the assumptions on protocols, policies and shapes), for histories
of any length, any shapes of what is said and answered, and any policies. Translations are folds
and concatenations, so there is one lemma of each kind below for each operator that makes one.

- *Types by marks.* `MessageLists(I, D)` are the messages whose pieces have marks in `I` and whose
  ids are in `D`, and every translation and every redaction keeps both sets. `TalkInv` says that the
  history is of that type, with the models' words in the assistant's messages, for *some* set of ids: made-up ids make it
  grow. `SecretsStayEver` follows, for what guardrails look at (finding 16): redaction leaves the marks that the policy does not look for, and
  no translation adds one; where the action blocks, the messages had none. The policy that counts
  is the one the request has read (`held`), whatever was stored meanwhile.
- *Numbers in order.* `Utters(messages, kinds)` are the numbers of what the messages say, but for
  the system's. Each translation leaves it as it was, for the kinds that the client's protocol keeps
  and without the images in results (`TextsOnly`), and so does redaction. A fold that lets something wait is measured with what waits (`Awaited`), so
  that each step adds what the message says (`FoldMeasured`), and the last step (`Flush`) moves it.
  `SaidInv`: what was said is what the history utters. It needs that an answer which is
  translated back utters what should be heard of it (`Heard`), thoughts included where they stand for
  a text that is missing. `NothingLostEver` is then that one equation through the translation, and
  that `ChoiceFor` keeps the meaning of the choice of tools.
- *Alternation.* `AppendParts` appends a turn only if the last one is of the other role:
  `Alternations` is the fold's invariant, and `RolesAlternateEver` the half of `TurnsFit` that is about it.
- *Calls and their results.* The other half, `CallsAnswered`, relates the ids of neighbouring turns
  through every translation. `Runs(together, messages, P, Q)` says that the messages lead from the
  calls `P` that wait to the calls `Q`: a model speaks only when none waits, and results come in one
  message of the user (Anthropic) or one by one (OpenAI). `CallInv`: the history runs from `{}` to
  `Open`, nothing is open when the request is asked, and every id is within `-next .. next`, which
  is why the next call of a model, and the next id that is made up, is new. It is inductive only
  because an id that is made up is new each time, as `requestID` makes it, and not derived from
  what is said. Redaction leaves `Runs` as it is (`RedactedRuns`).
  Turns of Anthropic's and Bedrock's protocols are `Settled(turns, C)`: each begins with the results
  of the one before, and `C` waits. Translation to OpenAI's keeps `Runs`, message by message
  (`ToOpenAIRuns`: results leave the user's message first, so what follows them comes later);
  translation from it makes `Settled` of `Runs`, with a fold's invariant that says what is
  half done: `Gathers` for Anthropic (the last turn has the results so far), `Due` for Bedrock (they are
  held back until something else comes). `Fits` is what `CallsAnswered` says of turns, and both imply it
  (`RunsFit`, `SettledFits`). `TurnsFitEver` puts the two halves together.

**Model-checked only.** Liveness and ENABLED (`EveryRequestEnds`, `MembershipHeals`).

## 6. Not modelled

- *Audit log, request log*: append-only rows that nothing reads back but listings.
- *Analytics and reports*: queries without effect on anything.
- *Playground*: one call of an administrator; it reports to provider health by the steps
  that `ProviderHealth` has.
- *Configuration, telemetry, banner*: parsing of the environment, counters, wording.
- *HTTP server and middleware*: the routing table and wrappers; the checks of sessions
  and keys are in `Accounts` and `ApiKeys`.
- *Frontend*: a browser application that only calls the API.
- Of *startup*: the change of a CHECK constraint, and the DDL of SQLite, which has one node.
- Of *guardrails*: what a pattern matches, and the events of streams.
- Of *accounts*: the state cookie of OIDC, profile fields, the expiry of tokens.

## 7. Plan

The composition of `Accounts` and `ApiKeys` with `Gateway`, for the department that a row is
charged to.

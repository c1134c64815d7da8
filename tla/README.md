# Verification of APIGuard

APIGuard is a proxy in front of LLM providers. A client sends a chat completion with a
tenant key; the proxy authenticates it, applies a monthly cost limit, a rate limiter and
content rules, forwards it to a provider that serves the model, and records usage, PII
findings and guardrail outcomes for the dashboard. Administrators manage keys, providers,
rules and the limiter through an HTTP API.

The server is one Go process with a goroutine per HTTP request and one Postgres database.
Nearly every SQL statement commits by itself, and there is no lock in the process, so the
statement is the unit of interleaving: **every module here takes one step per SQL
statement, network call or clock reading**. A crash may fall between any two of them; the
container is restarted (`restart: unless-stopped`) and the tables survive.

Paths below are relative to `src/internal/proxy/` unless they say otherwise.

## Inventory

| Component | State | Operations | What makes it hard, what makes it correct |
|---|---|---|---|
| Rate limiter (`rate_limiter.go`, tables `rate_limiter_config`, `rate_limit_requests`, `user_quarantine`) | configuration, counter rows, quarantines | `checkRateLimit`, save configuration, release | seven statements per request, run concurrently by requests of one user; pruning and wiping delete rows others rely on; errors let the request through; a save is two statements. Correct: the limit holds for concurrent requests, quarantines are justified and kept |
| Monthly cost limit (`cost_limit.go`, table `usage_records`) | rows with costs, limit per key | check, record | checked before the call and recorded after it; limit changed on the way; month changes. Correct: the overrun is bounded, nobody is blocked without the spend |
| Chat pipeline (`server.go`) | one request, tables `usage_records`, `pii_findings`, `guardrail_outcomes`, `audit_events` | guardrails in order, upstream call, `logRequest` | some errors let a request through and some stop it; three inserts with their own fates; a deadline for the provider and none for the client. Correct: no rule is bypassed, the tables agree, every request ends unless its client holds it up |
| Tenant keys (`secrets.go`, `management_service.go`, table `tenant_api_keys`) | keys, users, status, limit | import at start, lookup and fallback, create, revoke, delete, limit | restarts with another environment; concurrent administrators; audit after the change, and only if the change reported success. Correct: revoked stays out, one user per key, changes leave an event |
| Providers (`management_service.go`, tables `provider_credentials`, `provider_models`) | credentials, catalogue | import at start, create, rotate, refresh, delete, enable, resolve | read, network call, write of the whole row; every start may add a provider; a sync reads and writes in READ COMMITTED. Correct: changes are lost only to an overlap, models are enabled only by choice |
| Blocked terms and PII policies (`nsfw.go`, `pii.go`, `management_service.go`, tables `nsfw_blocked_terms`, `pii_guardrail_policies`) | terms, policies, row locks of open transactions | POST, PATCH, DELETE of terms, PATCH of policies, their audit events | terms are checked and then inserted, and written back whole; a PATCH of policies locks its rows in the order of its payload. Correct: no two rows for a term, switches as said, policies change whole, handlers end |
| Dashboard queries (`dashboard_store.go`, `server.go`) | a page under way | logs and usage, of one user or of all | three tables are read one after the other while requests are being recorded, and joined by an id the client chose. Correct: what is shown of recorded requests is true |
| Migration and start-up (`scripts/api-guard-entrypoint.sh`, `cmd/migrate-sqlite/main.go`, `NewServer`) | the SQLite file, the tables and sequences of Postgres, master key | copy table by table, create tables, default policies, master key | repeated at every start, cut off anywhere, beside the running proxy; ids are not copied. Correct: no row twice, tables whole, models with their providers, choices and secrets survive restarts |
| Storage adapter, provider clients, cryptography, reading of the environment, front end | none or immutable | | parameters or pure functions |

How they interact: the pipeline calls the cost limit, the limiter, the rules and the
provider lookup in this order, by reading tables that administrators write at the same
time; the cost limit reads what earlier requests of the same user recorded; the dashboard
reads what requests are just recording; a start writes tables that the tool has filled or
is filling. There are no callbacks and no queues: all interaction is through tables.

## Modules

| Module | Models | Checked by |
|---|---|---|
| `DBTime` | instants as RFC3339Nano text, and the order in which SQL conditions compare them | used by the others |
| `DBSum` | SUM over a column of natural numbers | used by `CostLimit`, `ChatPipeline`, `Dashboard` |
| `RateLimiter` | the limiter, one action per statement of `checkRateLimit`, its error paths, the administrators and crashes | `MCRateLimiter` |
| `RateLimiterProofs` | theorems about it | TLAPS |
| `CostLimit` | what the proxy promises about a user's spend; abstract | `MCCostLimit` |
| `CostLimitProofs` | theorems about it | TLAPS |
| `ChatPipeline` | a request from its arrival to its last insert; implements `CostLimit` | `MCChatPipeline` |
| `ChatPipelineProofs` | theorems about it, among them the refinement | TLAPS |
| `TenantKeys` | keys and how they become users, over restarts | `MCTenantKeys` |
| `TenantKeysProofs` | theorems about it | TLAPS |
| `ProviderRegistry` | providers, their catalogues and the search for one | `MCProviderRegistry` |
| `ProviderRegistryProofs` | theorems about it | TLAPS |
| `RulesAdmin` | blocked terms and PII policies under concurrent administrators | `MCRulesAdmin` |
| `RulesAdminProofs` | theorems about it | TLAPS |
| `Dashboard` | what requests find and record, and the pages that read it meanwhile | `MCDashboard` |
| `DashboardProofs` | theorems about it | TLAPS |
| `Startup` | the life of the container: copies of a SQLite file, `NewServer`, restarts | `MCStartup` |
| `StartupProofs` | theorems about it | TLAPS |

`ChatPipeline` composes with the rest by contract: the verdict of the limiter is any of
the three `RateLimiter` can give, a key that authenticates is one `TenantKeys` admits, a
provider is found or not as in `ProviderRegistry`, and a rule is in force or not as
`RulesAdmin` leaves it. The composition with `CostLimit` is checked and proved:
`RefinesCostLimit` is `CostLimit!Spec` under the mapping at the end of `ChatPipeline` (a
request past its check is `open`, at its insert `stamped`, afterwards `recorded` or
`gone`). `Dashboard` takes over where `ChatPipeline` ends: what a request found becomes
rows with counts, and readers appear.

### Correspondence to the code

*RateLimiter.* `pc[r]` names the statement a request executes next: `config`,
`quarantine`, `prune`, `record`, `count`, `lock`, `wipe`, in the order of
`checkRateLimit`. Each statement has an action and, where its error is handled, a failing
twin: a failed write may have been committed. The tables are sets of requests, because
the limiter inserts at most one row per request into each. `held`, `sawOwnRow`, `wipedBy`
and `interrupted` are history: no action reads them.

*CostLimit, ChatPipeline.* `limit` is read with the key (`authMiddleware`) and used later
(`checkMonthlyCostLimit`); `recordedAt` is `logRequest`'s own reading of the clock, so a
request may be checked in one month and recorded in the next. `Spend` is the query of
`dashboardStore.usage`. Two steps belong to the client: `ReadBody` (`io.ReadAll(r.Body)`,
`server.go:699`), after which the clock is read for the cost limit, and `WriteReply`
(`server.go:847`), before `logRequest`. `main.go:40-43` gives the server no timeout, so either
may come at any time or never; `remote` tells the requests that have a connection from those
of the playground and the test form, whose body and reply stay in memory. What arrives between
the two readings (`Arrive`, `Enter` in `CostLimit`) is not in flight yet: it counts from the
moment it can pass the check.

*TenantKeys.* `phase` is the life of the process. `Migrated` and `Import` are what a
start does to the table. `job` is the audit event a handler writes after its change
(`Report`). `ChangeFails` is a change whose statement reports an error, before or after it took
effect: the handler answers 500 and writes no event.

*ProviderRegistry.* `copy` is the record a handler holds over the network call,
`seen` what a sync has read. `bootstrapManagedConfig` runs at every start before the first
request: at the first one it is part of the initial states (`Bootstrapped`), later part of
`Restart`. It saves a provider only while no row has the type `openai`, deleted ones included,
and looks for its key at no other provider.

*RulesAdmin.* `pc[a]` is the next statement of a handler, `req[a]` its locals: a PATCH of a
term that does not name `enabled` carries the value it read to its write. A PATCH of
policies upserts its entries one by one; `owner` holds the row locks it takes until its
commit or rollback, `Upsert` waits for a row that another transaction owns, and
`DeadlockFound` is Postgres failing one of a circle of waiters. `Applied` and `serial` say
what the PATCHes would leave if each were one step.

*Dashboard.* A request meets a case (gate, terms, policy, matches) and `Findings` and the
outcomes are what `detectPIIFindings` and the guardrails make of it; `left` is what
`logRequest` has still to insert. `page` is a page under way: the log page reads usage rows
of each user, then findings, then outcomes, and joins them by user and request id; the usage
page adds up each table by itself. Windows compare text, as the SQL conditions do.

*Startup.* `proxy` runs through the steps of `NewServer`, `tool` and `at` are
`migrate-sqlite` at a table of `Order`, `batch` the rows its open transaction has inserted.
Each schema is sent as one string, which Postgres executes as one transaction. There is one
container, and one run of the tool at a time: the entrypoint runs it before the proxy, an
operator by hand. Numbers are drawn from the sequence of a table and are lost with a
transaction that is rolled back. Of the nine tables five are kept, one of each kind of
constraint. One consequence is worth knowing: at the very first start the tool finds no
tables in Postgres and skips all of them, so the file is copied by a later start, and its
policies never, because the first start has filled that table with defaults. `leftover` are
the tables of the file that a finished run of the tool leaves empty, `absent` those it found
missing, `failed` those at which one of its statements failed.

A definition whose comment begins with "Mutant of" is a plausible bug. It is part of no
specification; it replaces the definition it names in a run that must then fail.

## Time

All timestamp columns are TEXT in the format RFC3339Nano, which drops trailing zeros, so
their order within a second is not the order of time: `05.5Z` sorts before `05Z`. `DBTime`
counts tenths of a second and compares as the text does. Readings of the clock in the
small instances are chosen to meet this: a whole second, a fraction of the same second,
and one window or month later.

## Runs

| Run | Bounds | Shows |
|---|---|---|
| `RateLimiterBurst` | 4 requests of one user, limit 1 in 2 s, 3 instants | the limit holds for a burst between two wipes; nobody passes a quarantine that is in force on arrival |
| `RateLimiterReconfigure` | 3 requests of 2 users, 2 limits or none, 1 save, 1 failure or crash | quarantines are justified while the limit changes; pruning takes only rows nobody counts; an empty configuration is a save's |
| `CostLimit` | 3 requests of one user, a limit of 1 that comes and goes, a change of month | overrun bounded by the requests in flight together; nobody blocked without the spend |
| `CostLimitPerKey` | 2 requests, 2 keys of one user | *violation*: the cap is not per key (README.md:20 of the repository) |
| `ChatPipelineRules` | 2 requests, 2 rules that come and go, replies of both kinds, 1 failure or crash | no rule bypassed; the tables and the audit trail agree |
| `ChatPipelineSpend` | 2 requests with clients that may stall, a limit that comes and goes, a change of month, fairness | the pipeline implements `CostLimit`; every authenticated request is recorded, unless it waits for its own client |
| `ChatPipelineNull` | 2 requests, failing providers | *violation*: a NULL cost does not mean "blocked before the call" (`server.go:912`) |
| `TenantKeys` | 2 keys, 3 limits, 2 requests, 2 environments, 2 administrator requests, 2 failures or crashes | revoked keys stay out over restarts; one user per key; limits and audit |
| `ProviderRegistry` | 2 providers, 2 administrators, 1 model, 1 request, 3 administrator requests, failures or restarts in all, each restart with or without a provider to import | a change is lost only to an overlapping rotate or refresh; models are enabled by choice only; two providers share a key only in three ways; no serving provider is missed |
| `RulesAdmin` | 2 administrator requests, 3 ids, 2 terms in several spellings, 2 policies, 5 payloads, 1 failure or crash, fairness | no twin terms; switches lost only to an overlap; policies change whole; changes are audited; deleted terms stay deleted; handlers end although transactions wait for each other |
| `Dashboard` | 2 requests of 2 users, 2 request ids they may share, 4 cases, 2 instants, 2 windows, 1 entry per user, 1 failure or crash | entries tell of their request; the newest are shown; totals count what is recorded; labels agree with counts |
| `Startup` | 3 starts of container or tool, a file of 6 rows, 2 rows of the proxy, 2 settings, 2 failures or crashes | no row copied twice; tables whole or empty; models with their providers; a table left empty was missing or failed, or held models that a failed copy of the providers left without theirs; policies and secrets survive |

**Why the bounds are enough to be interesting.** Two concurrent actors suffice for every
check-then-act in this code, because each such pair of statements can be cut once; the
limiter needs a third and fourth request to have one open a quarantine and wipe while
another counts and a later one arrives. Three starts are a first one, one that copies and
one that copies again. Faults are bounded to one or two because no handler retries: a second
failure meets the same state as the first; the tool does retry, at the next start, so
`Startup` has two. Four requests and a failure are too many states: `RateLimiterBurst` has none,
and what failures mean for its properties is left to the theorems. `MaxSaves`, `MaxFaults`, `MaxChanges`, `MaxEvents`, `MaxStarts`,
`MaxWrites` and the number of `Ids` of terms are the only bounds on behaviour; all are
constants and none is in the code.

**Deadlock** is checked in `RulesAdmin`, where transactions wait for each other and
`Finished` says when stopping is right. It is not checked elsewhere: when all requests have
ended and the bounds are used up, a small instance stops, as it should.

**Fairness.** `ChatPipelineSpend` assumes weak fairness of the steps that a goroutine takes
by itself. Go schedules runnable goroutines, and a call with a deadline
(`context.WithTimeout`, `server.go:808`) returns when it passes, so the timeout is a step
the request takes by itself; a reply is not, nor is anything clients or administrators do.
`ReadBody` and `WriteReply` are fair only for requests without a connection: the server sets
no deadline, so a client may stall in either for ever. `RequestsEnd` says that this is the
only thing that can: a request on its way comes to its record or to a wait for its own client
(`WaitsForClient`), whatever other clients do. Errors the proxy answers by itself are smaller than
the buffers of `net/http` and are not waited for.
`RulesAdmin` assumes weak fairness of the steps of each handler, which include Postgres
granting a row lock that has become free and failing a transaction of a deadlock. SQL
statements carry no deadline: both assume that the database answers.

## Properties worth reading first

* `RateLimiter!WindowBound`: the limit for concurrent requests. It is stated per wipe,
  because the code's limit starts afresh when a quarantine wipes the user's rows: requests
  that had passed the quarantine check before it was opened then count no others.
* `CostLimit!SpendBound`: a limit is overrun, but by no more than the requests ever in
  flight together can cost. Rows stamped within the first second of a month are left out:
  the text order puts them into the month before.
* `ChatPipeline!RulesHold`: failures of the two limits let a request through, failures
  of the content rules do not.
* `ChatPipeline!RequestsEnd`: a provider cannot keep a request open and unrecorded; its own
  client can, before the body has come or before the reply is taken.
* `TenantKeys!RevokedStaysOut`: by the row, by the fallback, and after any restart.
* `ProviderRegistry!RowIsIntended`: which updates can be lost, and that no others are.
  A delete can be undone by a refresh that was waiting for its provider.
* `ProviderRegistry!NoTwins`: two providers with one key come from a rotate, from two creates
  that both looked first, or from a start with a key in its environment, and no other way.
* `RulesAdmin!SwitchHolds`: a term may be switched back on by an edit of its text that had
  read the row before, and by nothing else.
* `Startup!ModelsFollowProviders`: the migration copies the number a model has for its
  provider and not the number of the provider. It goes well only as long as the numbers of
  providers were drawn by one copy alone; the property names the exceptions.
* `Startup!LossesExplained`: which tables of the file a run may leave empty. Not only those it
  failed at: the proxy creates the tables, so the first run finds none, and models need the
  providers they refer to.
* `Startup!WholeOrNothing`: the exception is `rows.Err`, which the tool does not ask: a table
  whose reading broke off is committed as it is, and taken for complete from then on.
* `Dashboard!EntryTellsRequest`: the exceptions are two requests of a user under one id, and
  a request that was still being recorded when the page was opened.

## Proofs

`RateLimiterProofs` proves, for every number of requests, users, administrators, every
set of positive configurations and instants, and every bound:

* `TypeCorrect`: `Spec => []TypeOK`.
* `ConfigGapIsASave`: `Spec => []ConfigGapExplained`, inductive with `TypeOK`.
* `QuarantineHeld`: `Spec => []QuarantineHolds`. The property speaks of requests past the
  quarantine check; the strengthening speaks of those before it: the quarantines in force
  on arrival are still in the table, and either released or still in force for the
  request's own clock reading, so the check finds them.
* `WindowBounded`: `Spec => []WindowBound`. The argument is that of record-before-count.
  `WindowBound` is inductive together with `TypeOK` and `RowInv`: a request's row is
  inserted once, is counted only after it was recorded, and is wiped at most once, by a
  request that reached "locked". A request that counts within its limit saw the rows of
  all those admitted before it whose rows have not left (`AdmittedWereCounted`), so the
  group it joins fits into what it counted (`CountKeepsBound`); a wipe moves a whole group
  from one way of leaving to another (`WipeKeepsBound`); no other step admits a request or
  moves one between groups (`QuietStepKeepsBound`).
* `QuarantinesAreJustified`: `Spec => []QuarantineJustified`. `EnabledInv` says under which
  configuration a request counts, `CrowdInv` that a request found over the limit had that
  many requests of its user in its window. Requests only move onward (`OnwardOnly`), so what
  was counted stays recorded.
* `RowsStayWhileLive`: `Spec => []LiveRowsStay`, from the order of the text alone: what sorts
  before one window's start lies a whole second before any later reading's
  (`LaterSecondsSortLater`).

`ChatPipelineProofs` proves, for every number of requests, users, keys, limits, replies,
rules and failures:

* `TypeCorrect`: `Spec => []TypeOK`.
* `RulesAlwaysHold`: `Spec => []RulesHold`. `RulesInv` says, for each position of the
  pipeline, which rules a request has passed: those behind it that were in force all the time
  since its body was read and that its text breaks.
* `EvidenceAlwaysAgrees`: `Spec => []EvidenceAgrees`. `EvidenceInv` says, for each position
  in `logRequest`, which rows are there, which are lost and which are still to come.
* `ImplementsCostLimit`: `Spec => RefinesCostLimit`, step by step, crashes included. The
  mapping needs an invariant (`MappingInv`): a request knows nothing of its usage before the
  reply, a blocked request has no usage, and no row of a request exists before its insert.
  The two modules sum over the same rows (`SameSpend`).
* `SpendStaysBounded` and `CostBlocksJustified`: what `CostLimitProofs` proves of `CostLimit`
  holds of the pipeline. That module's theorems are instantiated under the mapping
  (`Proved`), its assumptions follow from those of the pipeline (`LimitAssumptions`), and
  its specification from `RefinesCostLimit`.

`CostLimitProofs` proves, for every number of requests, users, keys and changes of limits,
every set of costs with a greatest and every length of a month:

* `TypeCorrect`: `Spec => []IInv`. Besides types, `IInv` orders the clock readings of a
  request and says that `peak`, which the bound speaks of, counts the requests in flight.
* `BlockJustified`: `Spec => []CostBlockJustified`. The sum that blocked a request only
  grows: rows are never deleted.
* `OverrunBounded`: `Spec => []SpendBound`. Summing up the rows of the month does not explain
  where they come from, so `BoundInv` says it: for each user, limit and month there are rows
  P that sum up to less than the limit, those seen by the last check below it, and requests F,
  those in flight at that check, such that all rows that count are in one of them, and so are
  all requests that may still add one without another check (`Covers`). A check makes new
  ones; every other step keeps them.

A sum is the cardinality of the set of its units (`DBSum`). That is the same number as a
fold over the rows, and facts about it follow from the library's theorems on finite sets
(`SumBound`, `SumMonotone`, `SumUnion`, `SumSame`, `SumOfParts`); facts about a fold need
induction over data, which the installed provers cannot instantiate.

`TenantKeysProofs` proves, for every set of keys, users, environments and administrators:

* `TypeCorrect`: `Spec => []TypeOK`.
* `RowsFall`: `Spec => RowsOnlyFall`, step by step; the other two theorems rest on it.
* `RevokedOut`: `Spec => []RevokedStaysOut`. The property speaks of requests that are
  already admitted; `BarredInv` adds that the key of a barred request has a row that is
  not active, which no later step takes back, so a lookup still to come finds it.
* `OneUserPerKey`: `Spec => []SameKeySameUser`. Two requests of different starts never
  meet, so the invariant relates each of them to the row (`UserInv`), and the fallback to
  the imports of its start (`BootInv`): when requests run, a key of the environment has a
  row or its import failed.
* `LimitLasts`: `Spec => []LimitIsLastSet`, from how a step may change a limit
  (`LimitChange`); `LimitInv` adds that nothing was set for a key without a row.
* `AuditComplete`: `Spec => []ChangesAudited`. A change leaves a handler about to write its
  event, or is cut off from it because its statement reported an error (`cut`); generated keys never come from the environment
  (`EnvInv`), whose imports are not audited.

`ProviderRegistryProofs` proves, for every number of providers, administrators, models,
requests, failures and restarts:

* `TypeCorrect`: `Spec => []TypeOK`; `Grounded` ties the locals of a handler to its step.
* `RowsIntended`: `Spec => []RowIsIntended`, and `KeysUnique`: `Spec => []NoTwins`. `CopyInv`
  says what the record is worth that a handler holds over its network call: unless another
  write has overtaken it, it is still the row it was taken from. A restart ends all handlers,
  and the provider it may import is a twin only with a mark in `unchecked`.
* `ChoiceKept`: `Spec => []EnabledByChoice`. `SeenInv` says the same of what a sync has read:
  an enabled model was chosen, unless an administrator has outrun the sync.
* `SearchComplete`: `Spec => []NeverMissed`. A request that is still looking has every steady
  provider ahead of it (`LookInv`).

`RulesAdminProofs` proves, for every number of administrators, spellings, types of PII, for
payloads of any length, and any number of failures:

* `TypeCorrect`: `Spec => []TypeOK`. `TypeInv` adds the locals of handlers (`Fits`).
* `NoTwinsEver`: `Spec => []NoTwinTerms`, and `DeletedForGood`: `Spec =>
  DeletedStaysDeleted`, from how a step may change the terms (`TermsChange`): the unique
  index decides, not the check before, and an update writes only a row that exists.
* `PoliciesAreSerial`: `Spec => []PoliciesNeverMixed`. `PoliciesInv` says that a transaction
  owns the rows it has upserted and has written nothing that others see; so its commit is its
  whole payload applied to the policies of that moment (`CommitIsSerial`).
* `EveryChangeTraced`: `Spec => []ChangesTraced`. `TraceInv` ties the status a handler is
  about to record to the change it made.
* `SwitchIsAsSaid`: `Spec => []SwitchHolds`. `SwitchInv` says what the handlers that hold a
  value of a switch hold: the intended one, unless the id is overlapped.

`StartupProofs` proves, for every SQLite file without equal rows, every number of starts,
rows of the proxy, settings, failures and crashes:

* `NoRowTwice`: `Spec => []CopiedOnce`. The open transaction holds a beginning of its table,
  each row once (`IsBeginning`), and a table is copied while nothing of the file is in it
  (`NothingCopiedYet`).
* `AllOrNone`: `Spec => []WholeOrNothing`. A commit that was not cut off brings all rows, and
  no step takes a key of a row away (`RowsKeepTheirKeys`).
* `ModelsStayTogether`: `Spec => []ModelsFollowProviders`. As long as no number of a provider
  went elsewhere, the next number is the place of the next row (`PlaceInv`), and the foreign
  key finds for a model only rows that stay (`ForeignKeyInv`).
* `LossesHaveReasons`: `Spec => []LossesExplained`. Every table behind the tool is settled
  (`SettledInv`): it has rows, is empty in the file, was missing, or failed; and models are
  refused only where the providers of the file are not there under their numbers.
* `PoliciesStayChosen`: `Spec => []PoliciesKept`. The transaction of the tool holds only
  types of PII without a row (`PolicyInv`): a policy can be chosen only where each type has
  a row, and the proxy does not start while the tool runs (`ToolInv`).
* `SecretsStayReadable`: `Spec => []SecretsReadable`. A stored master key is never replaced
  (`MasterKeyStays`), and a number names one provider (`SecretInv`).

`DashboardProofs` proves, for every number of requests and users, all texts, policies,
windows and limits, any number of failures and crashes:

* `Invariant`: `Spec => []IInv`. `EvidenceInv`: what a request has stored and has still to
  store are parts of what it met, and all of it unless something was lost. `PageInv`: while a
  page reads, it holds every record due to requests recorded before it was opened
  (`RecordsOk`), their findings (`FindingsOk`), and what it has shown for earlier users was
  made of such rows (`EntryOk`, `ItemOk`, `TurnOk`). It stays true while others record,
  because what a handled request met, its time and its rows never change (`Kept`).
* `EntryExact`: `Spec => []EntryTellsRequest`. The findings of a direction partition its
  matches (`EvidenceParts`), so the sum of their counts is the number of matches
  (`SumOfParts`, `CountIs`).
* `TotalsComplete`: `Spec => []TotalsCount`. The same, between the matches of the requests
  that must be counted and those of the requests that may be (`Cells`); the two differ by
  what is recorded meanwhile and by the seconds at the ends of the window (`InsideIn`,
  `OutsideOut`).
* `LogIsNewest`: `Spec => []NewestShown`. Users are read one after the other and each once, so
  what was shown for one is not touched again (`TurnsOk`).
* `PartsAgree`: `Spec => []LabelsAgree`. The second reading of the findings finds at least
  those of the first (`AgainOk`), as rows are never deleted.

Assumptions: the named `ASSUME`s of the modules, which TLC evaluates in every run. They only
say that requests are finite in number, that instants, costs and limits are numbers, that some
reply is the dearest a model can give, that accepted configurations are positive, that a
window ends after it starts, that the overview names some users and each once, that the types
of a text's matches have policies, that the environment names no generated key and generated
keys are not `Shaped`, and that the tables of a SQLite file satisfy their own constraints.

Only model-checked: liveness (`RequestsEnd`, `HandlersEnd`), out of the prover's reach. Every
other property of a run is stated by a theorem, except the two that are violated.

## Not modelled

Provider clients, PII regular expressions and the Luhn sum, the search for a term in a text,
cryptography and key formats are pure functions: the modules take any verdict, match or reply
they can give. The SQL adapter has no state of its own: its contract is the step size of the
modules. The front end acts through the admin API. Reading the environment and `.env` is a
parameter. The audit events of providers and of the rate limiter are written like those that
are modelled, after the change and with their error ignored. Costs are exact numbers: the
rounding of `REAL` columns is not modelled. The models have no connection pool, so a
transaction left open (`management_store.go:844`) is not seen. `Dashboard` leaves out the
entity types, actions and the time of the last detection in summaries.

## Plan

Done: all components with control of their own, and a theorem for every safety property of
the runs. Left:

1. Keys of the environment in the shape of generated ones (`Shaped`), whose rows are never
   found: what revoking such a row does while the fallback is on.
2. The audit events of providers and of the rate limiter.
3. A specification of the limiter's verdict and of the registry's answer, for the pipeline
   to be composed with by refinement as it is with `CostLimit`.

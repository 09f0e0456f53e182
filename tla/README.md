# FlowFi: a TLA+ verification project

FlowFi streams tokens on Stellar: a sender locks a deposit in a Soroban
contract and a recipient draws it down as it vests. A Node.js backend indexes
the contract's events into Postgres and serves them to a web client.

This directory models the contract (`contracts/stream_contract`), the event
indexer, the other services, request handlers and caches of the backend
(`backend/src`), the pages, hooks and computations of the web client
(`frontend/src`) and the client of the SDK (`packages/flowfi-sdk`).

Check a run with `tlc -config <X>.cfg <Module>`, a proof with `tlapm <Module>.tla`.

## 1. Inventory

| Part | State it keeps | Operations | What makes it correct |
|---|---|---|---|
| **Stream contract** (`lib.rs`, `storage.rs`, `types.rs`, `events.rs`) | one record per stream, the id counter, the protocol config, version and wasm hash; the token balances it moves | create (linear, milestones, cliff), top up, withdraw, batch withdraw, cancel, close, pause, resume, initialise, fee config, admin, breaker, guardian, upgrade, migrate | escrow covers all live streams; vested is vested; capital is never trapped; records stay readable across versions; events say everything |
| **Event indexer** (`soroban-event-worker.ts`, `indexer-state.ts`) | tables `Stream`, `StreamEvent`, `IndexerState`; the batch lock | poll, fetch a page, handle each event, save the cursor | no event lost, the mirror equals the chain, every event eventually dealt with |
| **Indexer control plane** (`indexerService.ts`, `admin.routes.ts`) | `IndexerDeadLetterEvent`, the cursor | reset, replay from a ledger, quarantine, replay or discard a dead letter | control calls and polls do not undo each other |
| **Claimable service** (`claimable.service.ts`) | cache entries keyed by row and 5 s bucket | compute the claimable amount off chain | agrees with the contract; never promises more than a withdrawal pays |
| **Stream API**, **Soroban service** (`stream.controller.ts`, `stream/cancel.ts`, `streams/withdraw.ts`, `sorobanService.ts`, repositories) | rows of `Stream` they share with the indexer | create, top up, cancel, withdraw, pause, resume; listings by offset and cursor; summary | handlers and indexer do not undo each other; pages partition the rows |
| **RPC pool** (`rpc-pool.ts`) | per endpoint failures and circuit | execute with failover, probe | a call settles; an endpoint that is back is used again |
| **SSE service** (`sse.service.ts`, `sse.controller.ts`) | client map, per-address and per-user counts, write backlogs | subscribe, broadcast over Redis, drop slow clients, announce shutdown | counts equal the map, caps hold, backlogs are bounded |
| **Webhooks** (`webhook.service.ts`) | subscription and delivery rows | manage, dispatch, retry, disable after 50 failures | report and row agree; deliveries end; only failures disable |
| **Runway worker** (`stream-runway-worker.ts`) | alert history | hourly check, alert | one alert per window, none forgotten |
| **Authentication** (`auth.ts`) | challenge map, secret | issue, sweep, verify, guards | a signature buys one token; every session was signed |
| **Caches** (`redis.ts`, summary, metrics and health caches) | entries with a time to live | get, set, evict | hits are current; least recently used goes first |
| **Accounts, exports** (`user.controller.ts`, `export.service.ts`) | `User` rows, an export's cursor | register, export in batches | one user per key; each row once |
| **Lifecycle** (`index.ts`, `workers/index.ts`) | what is connected, the worker's chain | start, signals, drain, exit | nothing is closed under a batch; shutdown ends |
| **Browser session and calls** (`wallet-context.tsx`, `lib/soroban.ts`) | sessions per tab, localStorage; calls in flight | connect, disconnect, clear; simulate, sign, send, poll | a reload keeps the session; what the user is told is true |
| **Pages** (dashboard, details, incoming, creation forms, batch wizard, activity, settings, bell, live amount) | snapshots, optimistic updates, request numbers, drafts | user actions and late answers | nothing shown that did not happen; nothing paid twice; late answers ignored |
| **Amounts and planning** (`utils/*`, calendar, chart) | none | parse, format, calendar, runway, sort | agree with their reference definitions and each other |
| **SDK** (`flowfi-sdk`) | one call | build, simulate, sign, submit, batch | a failing batch stops at a known place |
| Rate limiters, sandbox, health, telemetry, presentation, generated types | none that a protocol depends on | - | - |

How they interact: a contract call publishes events into the ledger; the worker
polls an RPC node for pages of events and applies each in one database
transaction; handlers then push to SSE clients and webhooks; operators reset,
replay and repair through the admin API while the worker runs. The API writes
rows of the same table. The browser reads the API, calls the contract through
the user's wallet and an RPC server of its own, and bridges the time until the
indexer has caught up with optimistic updates.

What is hard: all streams of a token share one balance, so an error on one is
paid by another; the accrual anchor, the pause moment and the deposit are moved
by different calls; arithmetic runs at the edge of `i128` and `u64`; storage
holds records of two shapes; the indexer may crash, fetch events again, be reset
under its feet, and see events in an order the contract did not publish them in.
Handlers check before an await what they use after it; retries race late
answers; several tabs share one storage; pages show what has not happened yet.
`PROJECT.json` lists each of these hazards at its line.

## 2. Modules

| Module | Models |
|---|---|
| `Vesting` | the pure functions of the contract: `calculate_claimable`, `projected_end_time`, `validate_step_schedule`, with `i128`/`u64` of width `I128_MAX`, `U64_MAX` |
| `Sums` | loops over a sequence: the sum of a function over `1..n`, as a recursive function; `Array.filter` |
| `StreamContract` | storage, balances, clock; one action per entrypoint; all contract properties; every linear stream implements `DripStream` |
| `DripStream` | what one linear stream promises: an abstract counter of running seconds |
| `MCStreamContract` | input sets for TLC, and the scenes a behaviour keeps to |
| `SumsProofs`, `VestingProofs` | sums, inductions and filtered sequences; the claim's bounds: lemmas and proofs |
| `StreamContractProofs` | solvency, and what a step may do to a stream (settled, vested, breaker, events, refinement): theorems and proofs |
| `StreamChain` | external: the ledger as the backend sees it, an event log |
| `Indexer` | worker, handlers, control plane and tables, over `StreamChain` |
| `IndexerProofs` | nothing is lost, the lock, the cursor and the faithful index: theorems and proofs |
| `Claimable`, `Amounts`, `Planning`, `Listing` | pure computations of backend and frontend: claimable amount, amounts, calendar and runway, paginated reads and the failure window |
| `MCReference` | these and the functions of `Vesting`, each with its reference definition in unbounded integers |
| `ReferenceProofs` | the contract's claims and the backend's are the reference's: theorems and proofs |
| `RpcPool`, `Webhooks`, `RunwayWorker`, `Lifecycle` | the services that must make progress |
| `MCServices` | the four of them for TLC |
| `ServiceProofs` | theorems about the four of them and their types together, with proofs |
| `Sse`, `Auth`, `MemoryCache`, `ReadThrough`, `Accounts` | request handlers and caches |
| `StreamApi` | the stream endpoints, over `Vesting` (the contract) and `Claimable`, beside the indexer |
| `Sdk` | the SDK's client |
| `MCRequests` | the seven of them for TLC |
| `MCAnswers` | `MCReference` and `MCRequests` in one run |
| `RequestProofs` | theorems about every property of `MCRequests`, with proofs |
| `ClientTx` | a contract call made from the browser, and the ledger and backend behind it |
| `Dashboard`, `DetailsPage`, `IncomingPage`, `BatchWizard` | the pages that make calls; each extends `ClientTx` |
| `WalletSession`, `StreamForm`, `ClientEvents`, `Settings`, `ActivityPage`, `LiveAmount` | the other pages and hooks |
| `MCPages` | the frontend for TLC |
| `PageProofs` | theorems about every property of the run `pages`, with proofs |

### 2.1 The contract

A Soroban invocation is atomic, so an entrypoint is one action, enabled exactly
when the call returns `Ok`; an `Err` or a panic rolls everything back and is a
stutter. `require_auth` is the choice of the caller among the signing accounts
(`Addr`); the contract's own address never signs. `Tick` advances the ledger
clock between calls. Variables correspond one to one to storage keys:
`streams`/`fields` to `DataKey::Stream(id)` (the record and its number of map
entries, by which `storage.rs` tells versions apart), `stream_counter`,
`config`, `contract_version`, `wasm_hash` to instance storage, `balance` to the
token contracts, `events` to what the last invocation published.

Initial states are a fresh deployment, and one left by pre-v2 code: a three-field
config and a twelve-field linear stream, running or paused.

*How the source is read.* The checked-in source does not compile as it stands:
the step and cliff creators use `collect_fee`'s `Result` without `?`;
`remove_stream`, `StreamClosedEvent`, `StreamStillActive`, `StreamNotActive` and
`ArithmeticOverflow` are used and nowhere defined; and the source disagrees with
itself on the fields of a record. `types.rs:118` declares a fourteenth,
`cliff_time`, and `create_stream` gives it (`lib.rs:412`); the step and cliff
creators and `upgrade_legacy_stream` leave it out, and the reader still counts
thirteen (`STREAM_FIELD_COUNT`, `storage.rs:26`). The model takes the smallest
repair of the others: `?` on `collect_fee` and a `remove_stream` that removes the
entry. The number of fields is not repaired but is the constant `StreamFields`.
With 14, the declared struct, every saved record fails the count and reads as
missing: the run `doc_record_shape` shows it. The passing runs take 13, the
number that the reader and all constructors but one agree on, because in the
other reading no stream can be touched after its creation and there is nothing
left to check. The theorems hold for any `StreamFields` of at least 13, except
the two of section 4 that say that they assume 13. `batch_withdraw` ignores the
`Result` of `apply_withdrawal`, and so does the model.

Left out: archival and TTL, re-entrant or non-compliant tokens (Soroban forbids
re-entrancy; `validate_token_contract` is membership in `Tokens`), metadata of
events that no property reads. `RecipientTransferredEvent` exists without an
entrypoint.

### 2.2 The indexer

A step is what runs between two awaits that matter:

| Code | Action |
|---|---|
| timer of `scheduleNext`, `start` | `poll` |
| `runExclusive` | `enqueue`, `exclusive`, `finish` over `queue` |
| `ensureIndexerState` | `ensureIndexerState` |
| `server.getEvents`, the sort of the page | `getEvents` with `Beyond`, `After`; `sortedFirst` |
| one turn of the `for` loop: `processEvent` with one `prisma.$transaction`, or `quarantineEvent` | `processNext` |
| the final `indexerState.upsert` | `saveState` |
| an exception outside the loop's `try` | `batchThrows` |
| `resetIndexer`, `replayFromLedger` | the same; no lock is taken |
| `replayDeadLetterEvent`, `discardDeadLetterEvent` | the same |
| process death | `crash`: locals and the lock chain vanish, tables stay |

`StreamChain` is the environment. It abstracts the contract to what its events
say of a stream: any part of what a live stream holds may have vested.
Property `EventsTellAll` of the contract is what makes this a fair abstraction.
Milestone and cliff creations appear as events the worker ignores, so their
later events find no row and are quarantined, as in the code.

The page is a set of positions: `After` takes the first `Limit` of those beyond
the cursor, and the order of the `for` loop (creations first, then by position)
is the choice `sortedFirst` makes among the positions left. `runExclusive` is a
queue of jobs of which only the first runs.

Abstractions: an event id is its position in the log, and ledger n holds one
transaction. Time columns of `Stream` (`endTime`, `lastUpdateTime`, `pausedAt`,
`totalPausedDuration`), the SSE push after each handler, counters for health
checks, `stop`/`waitForDrain` and the number of attempts of a dead letter are
left out. `admin_transferred` behaves like `fee_config_updated`.

*How the source is read.* `soroban-event-worker.ts` uses `requestContext` at
`:228`, `:235`, `:241` and `:322` and never imports it from `logger.ts`, which
exports it (`logger.ts:4`). As it stands the compiler rejects the file, and
where types are not checked every poll and every triggered poll throws a
`ReferenceError` before it reads anything, so that the index stays empty. The
model takes the import as present, in `Indexer` and in `Lifecycle`: everything
said of polls below is said of the worker with that line added.

`latestCursor` is not a field of the RPC answer, so the cursor saved is the last
event processed. One backend process runs. Operators reset backwards only. A
database failure may take a handler's transaction alone or the quarantine write
with it, which the code swallows: `unwritten` remembers the event, and only such
events are exempt from `NoEventLost`. A dead letter's payload has no `txHash`; Prisma rejects an undefined key in a unique
lookup, so the model lets such an event fail.

### 2.3 Backend services and handlers

Node runs one handler at a time between awaits, so a step is the code from one
await to the next, and every await that may throw has a failing alternative.

* `StreamApi` composes three actors around one linear stream: wallets that use
  the contract directly (its record is advanced by the operators of `Vesting`),
  the indexer that applies their events in order (with the read and the write of
  `withdrawnAmount` apart, as in the worker), and the API's handlers. The
  constant `server` of a behaviour says whether `setServer` was called: without
  it `sorobanService.ts` throws at undefined names, and the handlers take their
  error paths.
* `RpcPool` counts time in ticks of ten seconds; endpoints go up and down freely
  until they are asked to stay up by a property.
* `Webhooks` follows one subscription; secrets are numbered, a retry waits any
  time, and the database may fail at every write of a delivery, at the count of
  recent failures and at the disabling. `RunwayWorker` counts in ticks of twelve hours, and a check's statements
  are steps, so checks overlap. `Lifecycle` has the scheduling half of the event
  worker, with the import named in section 2.2; what its batches do is
  `Indexer`.
* `Sse` has the check before the awaited query and the registration after it;
  `writableLength` has three values. `Auth` takes signatures and HMACs to be
  ideal. `ReadThrough` has the three caches that await between miss and store,
  and reduces what is read to the moment it was true.
* `Listing` takes query parameters as missing or a number and works on tables
  that do not change between pages.

### 2.4 The frontend

A React component is its state and the callbacks that change it; a render is
instantaneous, an effect runs in the step that changes its dependencies, and
timers, requests, storage events and the wallet's answers are steps of their
own. `ClientTx` is `freighterCall` with the ledger (external) taking, refusing
or losing a sent transaction at any time; the step that settles a call is taken
by the page that made it, together with the page's continuation. What a snapshot
or list shows is the set of transactions whose effect is in it, which is all the
properties tell apart.

A file of the batch wizard is a sequence of lines, each blank or a row. The
parser's header is the first line that is not blank, `handleSaveEdit`'s is the
first line whatever it is, and the model has both. `ExecutionEnds` calls
`router.push` and gives the button back; the page changes in a later step
(`PageChanges`), and until then the wizard can be used. `Amounts.toBaseUnits`
computes in doubles of `DoubleBits` significant bits: reading the string and
multiplying each round to the nearest double, ties to even, and `Math.round`
follows. Rendering, wording, styling and animation are left out.

### 2.5 Composition in the MC modules

The components put together in `MCServices`, `MCRequests` and `MCPages` share no
variables. A behaviour therefore follows one of them, named by `focus`, and the
others keep their initial state: an interleaving of independent components shows
no property of one of them more than this does, and the state space is the sum
and not the product. Components that do interact are composed for real:
`Indexer` with `StreamChain`, `StreamApi` with contract, indexer and claimable
service, the pages with `ClientTx`.

## 3. Runs

Bounds are chosen so that the interesting case happens with room to spare.

| Run | Instance | Shows |
|---|---|---|
| `escrow` | two scenes: 2 streams of any kind, one token, clock to 3, batches with repeats; and all calls of admin and guardian beside those on one linear stream (a fresh deployment is upgraded only while it holds no stream), clock to 1, fees at and above the cap, treasury at the contract, versions 1 to 3, fresh and pre-v2 deployments | `TypeOK`, `Solvent`, `StreamsCoherent`, `SettledForGood`, `EventsTellAll`, `BreakerHolds` |
| `schedules` | 1 stream: linear, milestones (two valid, three malformed) or one of two cliffs; deposits up to `I128_MAX=9`, clock next to `U64_MAX=7`, paid to another, to the sender or to the contract | `NeverTrapped`, `EarnedNeverShrinks`, and the refinement `LinearImplementsDrip` |
| `indexer` | 2 streams, 4 events, pages of 2, batch withdrawals, 1 disturbance | `TypeOK` with the shape of the lock, `IndexIsFaithful`, `CursorNeverRegresses` |
| `indexer_troubles` | 1 stream, 3 events, pages of 2, any 2 of crash, database failure, reset, replay, discard | `NoEventLost`, and liveness `EveryEventDealtWith` |
| `services` | 2 endpoints that fail twice to open, the code's ratios of cooldown, probe and timeout; 2 deliveries of 2 attempts, disabled after 2; 2 checks that may overlap, thresholds 4 and 2 of 5 ticks; 3 batches, both signals | `ServicesTypeOK`, `RpcSound`, `WebhookHonest`, `RunwaySound`, `ShutdownIsClean`, and liveness `ServicesProgress` |
| `answers`, computations | `I128_MAX=7`, `U64_MAX=12`, every record with deposit up to 6, up to 3 milestones and every query time; amounts to 210 with 0 to 2 decimals, typed numbers with one decimal too many, doubles of 8 bits, so that the largest amounts lose units; two years of months around a leap day; streams over four days; portfolios of two, incoming or outgoing, active or not, paused or not, started or not; tables of up to five rows with ties, limits missing, zero and beyond the cap; histories of up to five outcomes | the computations equal their reference definitions and each other: `VestingIsExact` (claims and projected end), `ClaimableMirrorsContract`, `AmountsKeepTheirValue`, `PlanningAgrees`, `NothingIsSkipped` |
| `answers`, requests | 3 connections of 2 users under caps of 2 and 1; 2 keys, 2 nonces, a restart; 3 cache keys for 2 places; 2 readers; 2 registrations; 5 rows in batches of 2, two created at once and one during the export; 2 requests on a stream of 2 units, indexer up to 2 events behind; 2 streams of the SDK | `RequestsTypeOK`, `SseSound`, `AuthSound`, `CachesAreFresh`, `ServedOnce`, `ApiPromiseKept`, `ApiRowsAgree` |
| `pages` | 2 tabs and 2 connection attempts; up to 3 calls with 1 poll each; 1 outgoing and 1 incoming stream; 5 requests of the details page; 2 withdrawals with 2 polls; batch files of a header, an invalid and a valid row, with a blank line after the header or before it, 1 edit and 3 calls; 5 EventSources, 3 events for a bell of 2; 2 settings tabs; a log of 3 growing by 1 in pages of 1; a deposit of 3 seconds | `PagesTypeOK`, `PagesShowTheTruth`, `LateAnswersIgnored`, `TabsAgree`, `NothingComesBack`, `PaidAsReviewed` |

A property of a component is the conjunction of named parts, each defined, with
its comment, in the component's module:

| Property | Its parts |
|---|---|
| `IndexIsFaithful` | `MirrorsChain`, `DepositsMirrorChain` |
| `VestingIsExact` | `ClaimableIsExact`, `ProjectionIsTight` |
| `AmountsKeepTheirValue` | `AmountRoundTrip`, `AcceptedAmountIsPaid`, `ProgressIsHonest` |
| `PlanningAgrees` | `CalendarIsRight`, `AgendaAgrees`, `RunwayAgrees`, `SubscriptionsAddUp`, `LowMeansNoRunway`, `SortIsStable` |
| `NothingIsSkipped` | `StreamPagesPartition`, `CursorVisitsOnce`, `SpikeSeesWholeWindow` |
| `RpcSound` | `RpcCircuitConsistent`, `RpcHalfOpenOnlyUnprobed`, `RpcCallSettles` |
| `WebhookHonest` | `WebhookReportMatchesRow`, `WebhookDeliveredForGood`, `WebhookDisabledByFailure` |
| `RunwaySound` | `RunwayNoDuplicates`, `RunwayRecordedWasSent` |
| `ShutdownIsClean` | `LcDrainedBeforeClose`, `LcStopsForGood` |
| `ServicesProgress` | `RpcRecovers`, `WebhookDeliveryEnds`, `RunwayCriticalAnnounced`, `LcShutdownEnds` |
| `SseSound` | `SseCountsMatch`, `SseCapsHold`, `SseBacklogBounded`, `SseReconnectsAll` |
| `AuthSound` | `AuthOneTokenPerNonce`, `AuthSessionsAreSigned`, `AuthLiveChallengesStay` |
| `CachesAreFresh` | `CacheHitsAreCurrent`, `CacheIsLru`, `RtHitsAreFresh`, `RtNeverGoesBack` |
| `ServedOnce` | `RegisteredOnce`, `ExportExactlyOnce`, `SdkBatchIsPrefix` |
| `ApiRowsAgree` | `ApiNoLostIncrement`, `ApiEndedIsOff` |
| `PagesShowTheTruth` | `TxOutcomeHonest`, `DashNothingPhantom`, `IncNothingPhantom`, `LiveNeverAhead`, `LiveCatchesUp` |
| `LateAnswersIgnored` | `DetailsNeverGoesBack`, `DetailsListsItsPage`, `FormBalanceIsSelected`, `ActivityIsNewest` |
| `TabsAgree` | `WalletReloadKeepsSession`, `WalletNoPhantomSpinner`, `WalletClearForgets`, `SettingsConverge` |
| `NothingComesBack` | `EsOneSource`, `FormDiscardedStaysAway`, `BellListsOnce` |
| `PaidAsReviewed` | `FormSubmitsValidated`, `DashModalWaits`, `BatchEditIsLocal`, `BatchPaysOnce` |

Several of the parts carry an exemption for an interleaving that the code
does not handle, recorded by a history variable (`overlapped`, `disturbed`,
`raced`, `revived`, `muddled`, ...). The exemption is stated in the property's
comment; what happens in it is listed below.

What the three properties with the most exceptions say of them:

* `AmountsKeepTheirValue`: below `2^(DoubleBits-2)` units the conversion that
  pays agrees to the unit with the exact one. The form sets no limit, and above
  that bound the amount paid is off by at most two parts in `2^DoubleBits` and
  half a unit: with 53 bits and 7 decimals, from some 225 million tokens on.
* `PlanningAgrees`: the cash-flow chart asks at midnight and so misses the
  starting day of a stream that starts later that day, which the calendar shows;
  it counts the same days otherwise. The projected curve opens with the deposits
  of paused and ended streams too and nets what comes in, the runway date does
  neither and counts streams before they start: the curve never reaches zero
  before the date, and reaches it on the date where all streams pay out, run and
  have begun.
* `PaidAsReviewed`: an edit changes its own entry in a file that starts with the
  header. With a blank line first, the edit takes the blank line for the header
  and counts the real one as the first entry: it overwrites the header, and the
  file then has no entries, or it changes the entry before the one it was made
  for. One execution pays no entry twice; another one pays a recipient again
  only after an outcome the client could not know, or when it was started while
  the page was being left. The second is what the code permits: the button is
  back before `router.push` has taken effect, and a fully paid batch can be
  paid again in that time.

Two streams are enough for `escrow` because streams meet only in the balance
and in a batch; a page of two events over a log of three or four crosses page
boundaries inside and between transactions; two requests, tabs, checks or calls
are enough for every race between a check and its use, and a third is there
where a count has to exceed a cap. The runs say `CHECK_DEADLOCK FALSE` because
clocks, supplies and the user's actions are bounded and nothing is ever required
of users, wallets or the ledger.

Every property of a passing run has a mutant in `PROJECT.json`: a plausible slip
in the mapped code under which TLC finds the property violated.

### Disagreements found

| Run | The code | What it contradicts |
|---|---|---|
| `doc_hybrid_resume` | resuming a cliff stream pays for the paused time, since its tail is anchored at `cliff_time` | the comment of `resume_stream` |
| `doc_record_shape` | `Stream` has fourteen fields and the reader counts thirteen: a new record reads as missing | the comments of `load_stream` and `try_load_stream` |
| `doc_reset_lock` | `resetIndexer` takes no lock; the poll in flight saves over the reset | the comment of `runExclusive` and a test |
| `doc_batch` | `StreamEvent` is unique on (transaction, type): of a batch's withdrawals only the first is indexed | the schema's "all on-chain stream activities" |
| `doc_poison_page` | a full page of events that all fail is fetched again on every poll; what is behind it is never indexed | the comment of the quarantine |

Also noticed, without a run.

Contract:
- a resume publishes an end time whose quotient is truncated by `as u64`
  (`lib.rs:1288`), the very thing the comment of `project_end_time`
  (`lib.rs:923-926`) says was replaced;
- a top-up of a linear stream that already ran dry pays the seconds since its
  drain time out of the new deposit at once, while the comment of
  `top_up_stream` says a larger deposit simply extends the drain time;
- the projected end of a paused linear stream counts from `paused_at` although
  the comment says from the anchor; `migrate(1)` is accepted although the comment
  names the current version as the only target.

Indexer:
- `requestContext` is not imported (section 2.2);
- a full page of events that all fail, which stops the indexer in
  `doc_poison_page`, takes no malformed event: events of milestone and cliff
  streams, which are not indexed, are enough; a replayed `stream_created` writes the opening deposit back while
  later top-ups are skipped, which `DepositsMirrorChain` exempts by `refetched`;
- no dead letter can be replayed, for want of its `txHash`; a failing quarantine
  write is swallowed and its event then recorded nowhere; a failing event never reaches `recordOutcome(false)`
  (`deadLetterEvent` has no caller), so `degraded` is never true;
- pause, resume and top-up handlers move `lastUpdateTime` to the wall clock and
  `totalPausedDuration` counts wall-clock time, so lag and replays change both,
  and the claimable amount understates what has vested;
- cancel and complete handlers leave `isPaused` set: a stream cancelled while
  paused is listed under both statuses;
- `admin.routes.ts` imports `previewReset` and `previewReplay`, which
  `indexerService.ts` does not export; the caveat at `replayFromLedger` is out of
  date; the Prisma schema defines `IndexerDeadLetterEvent` twice.

Backend:
- `sorobanService.ts` uses `rpcPool`, `getServer` and `pollTransactionStatus`
  (`:195`, `:352`, `:366`, `:914`, `:937`) without importing or defining them;
  the simulate endpoint therefore validates its parameters and then always
  answers 500, so its fee quote and its footprint are unreachable and not
  modelled; its comment that the contract has no batch entry point (`:803`) and
  its hints, which stop at error 14 of 27, are out of date as well;
  top-up and cancel build argument lists that the contract's signatures refuse;
- the withdraw endpoint only simulates, yet credits the row; concurrent
  withdrawals credit the same claimable amount twice; the indexer's read and
  write of `withdrawnAmount` (`soroban-event-worker.ts:922-935`) can lose an
  increment of the API; `createStream` turns a row on whatever the chain says;
  a query with a later `?at=` in the same bucket is answered from the cache;
- a negative `limit` reaches Prisma's `take`; streams and dead letters are sorted
  by keys that are not unique, so ties may move between pages; the last cursor
  page may announce an empty one;
- concurrent subscriptions pass the SSE caps together, and a peer that closes
  during the awaited query keeps its slot; overlapping runway checks repeat
  alerts; a slow read of a read-through cache overwrites the answer of a faster
  one that began after it; webhook retries are signed with the secret read at
  the start; deliveries in flight count as failures, and retries keep the
  timestamp of the first attempt while verification tolerates 300 s; an export's
  failing batch leaves the response open, and its only sort key is `createdAt`;
- a signal before the first poll is over kills the process; a runway check in
  flight is not drained; `health.routes.ts:105-113` uses undeclared names;
- `applyFeeBuffer` says "rounding up" and floors.

Frontend and SDK:
- `EventSource` cannot send the Authorization header the backend wants, so the
  event stream never opens in the browser; `/v1/events` has the same gap;
- the details page's tracker is never reset, so its buttons stay disabled; the
  creation wizard can be closed while its call is pending and navigates later;
  a refetch that overtakes an optimistic update double-counts or drops it; a
  locally created row's id `stream-<time>` is used as an on-chain id;
- overlapping withdrawals on the incoming page undo each other's optimistic
  update, and a new one aborts the poll of the one before;
- templates are overwritten with an empty list on mount before they are loaded
  (`useStreamForm.ts:366-377`); the create page ignores the unit of the duration;
  a batch ignores cliffs; `csv-parser.ts` and the batch wizard disagree on the
  header, and a batch can be executed again before `router.push` takes effect
  (both under `PaidAsReviewed` above);
- a pending connect signs a tab in again after another tab cleared its data; a
  failing connect removes another tab's stored session; saving the settings page
  writes all keys and so undoes other tabs' changes; the page's own tab is not
  told;
- the activity page resets the page number but not the list on a click on the
  active tab, and a "load more" outlives its tab; the live amount does not
  subtract what was withdrawn;
- the SDK builds with a placeholder sequence number, signs the unassembled
  transaction, ignores the status of `sendTransaction` and returns stream id 0.

### Fairness

The contract specification has none: nobody is obliged to call it, and no
liveness is claimed. `Indexer` assumes weak fairness of `poll` (the timer is
rearmed in a `finally`), weak fairness of the next step of the running batch
(every await settles: the database and RPC clients time out) and strong fairness
of `getEvents` (the RPC node may fail any number of calls but not all of them).
Nothing is assumed of operators, of the ledger or of crashes, which are bounded
by `MaxTroubles`.

`ServicesSpec` assumes weak fairness of time and of the probe timer and its
requests, which are timed out by the code (`RpcRecovers`); of the next step of a
started delivery, whose waits are timers and whose request has a timeout
(`WebhookDeliveryEnds`); of the hourly timer and of the next step of a running
check (`RunwayCriticalAnnounced`); and of the next step of a shutdown, whose
drain is raced against a timer (`LcShutdownEnds`). Nothing is assumed of
endpoints, receivers, users or signals. The runs `answers` and `pages` claim no
liveness: a browser tab may be closed and a client may never answer.

## 4. Proofs

TLAPS proves the following for every value of the constants: any accounts,
tokens, streams, inputs and integer widths; any log, page size and number of
disturbances; any endpoints, calls, events, connections, keys and caps.

| Module | Theorem | Establishes |
|---|---|---|
| `VestingProofs` | `ClaimableBounds` | a claim lies between 0 and what the stream still holds, overflow paths included |
| | `ClaimableMonotone` | an untouched record never owes less at a later second |
| `StreamContractProofs` | `TypeCorrect`, `Solvency`, `Coherence` | `[]TypeOK`, `[]Solvent`, `[]StreamsCoherent` |
| | `SettledStaysSettled`, `VestedStaysVested`, `BreakerHoldsAlways` | `SettledForGood`, `EarnedNeverShrinks`, `BreakerHolds` |
| | `EventsTellEverything` | `EventsTellAll`, with the fields the reader counts |
| | `LinearStreamsDrip` | `LinearImplementsDrip`, the refinement, likewise |
| `IndexerProofs` | `IndexerTypeOK`, `NothingIsLost`, `CursorOnlyAdvances` | `[]TypeOK`, `[]NoEventLost`, `CursorNeverRegresses` |
| | `IndexStaysFaithful` | `[]IndexIsFaithful` |
| `ServiceProofs` | `RpcPoolSound`, `RunwayWorkerSound`, `ShutdownClean` | `[]RpcSound`, `[]RunwaySound`, `[]ShutdownIsClean` |
| | `WebhooksAreHonest`, `ServicesTypes` | `WebhookHonest`, `[]ServicesTypeOK` |
| `RequestProofs` | `AuthIsSound`, `SseIsSound` | `AuthSound`, `[]SseSound` |
| | `ApiKeepsItsPromise`, `ApiRowsAlwaysAgree` | `[]ApiPromiseKept`, `[]ApiRowsAgree` |
| | `EveryoneServedOnce`, `CachesStayFresh` | `[]ServedOnce`, `CachesAreFresh` |
| | `RequestsTypes` | `[]RequestsTypeOK` |
| `PageProofs` | `PagesTellTheTruth`, `TabsAlwaysAgree` | `[]PagesShowTheTruth`, `[]TabsAgree` |
| | `WhatIsOverStaysOver`, `PagesTypes` | `[]NothingComesBack`, `[]PagesTypeOK` |
| | `PagesIgnoreLateAnswers`, `PaymentsAsReviewed` | `LateAnswersIgnored`, `PaidAsReviewed` |
| `ReferenceProofs` | `VestingExact`, `BackendMirrorsContract` | `[]VestingIsExact`, `[]ClaimableMirrorsContract` |

Every inductive invariant below was first checked by TLC on the run of its
component.

### Solvency

Solvency alone is not inductive: that a withdrawal leaves enough for the others
needs the claim to be at most what its stream holds (`ClaimableBounds`), which
needs a coherent record, which needs types. The inductive invariant is

    IInv == LedgerInv(streams, fields, balance, now) /\ InstanceInv

and lemma `IInvMeaning` shows `IInv <=> TypeOK /\ StreamsCoherent /\ Solvent`, all
three of which the runs check. `LedgerInv` takes the ledger as arguments so that
`batch_withdraw`, which folds over intermediate ledgers, can be proved by
induction over the batch: `BatchStepKeeps` for one id, `BatchRunKeeps` for the
run. One lemma per action feeds `NextKeepsIInv`; each rests on `SaveKeepsLedger`
(saving one record and moving tokens so that the balance covers the change keeps
the ledger solvent), which rests on `SumUpdate` of `SumsProofs` (changing one
term of a sum changes the sum by the difference). Inductions are carried out on
explicit sets (`SetInduction`) because the library's induction theorems take an
operator.

### What happens to one stream

The action properties of the contract speak of one stream and any step. Lemma
`EveryStep` says once what any of the entrypoints can do to the record loaded
under an id (`RecordStep`): nothing, one of the five ways a live record is
replaced, creation, or pruning. A batch is one of them because an id that was
paid has nothing left to claim in the same second, so a repeated id is paid
once. `SettledStaysSettled` and `VestedStaysVested` are then facts about pairs of
records; the second rests on `ClaimableMonotone`.

The refinement needs two more facts. A live linear stream has been paid for
whole seconds (`PaidWholeSeconds`), so dividing its withdrawn amount by the rate
loses nothing of what the abstract stream has counted; and every record on the ledger is of
a shape that is read back (`Readable`). `EventsTellEverything` follows the events
call by call, and for a batch by induction over it (`BatchTold`: the events so far
carry an observer from the first ledger to the one reached). The refinement and
the events are proved under the hypothesis `StreamFields = STREAM_FIELD_COUNT`,
the first reading of section 2.1: with the fourteen fields of `types.rs` every
saved record is lost, and both are false.

### The indexer

`NoEventLost` speaks of the saved cursor, while a batch holds a cursor of its own
over several awaits, and polls, resets, replays and crashes come in between. The
invariant `IInv` of `IndexerProofs` says, for the saved cursor, for the one a
batch has read and for the one it is about to save: every position it has passed
is dealt with, or is still on the batch's page (`CursorsOK`); pages have no holes
between the cursor and their last position; only the head of the queue is past
its first step (`MutexOK`); and the cursor the head has read is still the saved
one unless an operator reset it (`Coupled`), which gives `CursorOnlyAdvances`. That
creations are handled first, so that the last event handled need not be the last
of the page, is why the positions left on the page occur in the invariant.
`ChainOK` and `Extends` say that the ledger only grows and that what is new is of
a later ledger.

`IndexIsFaithful` compares the row of a stream with the contract's record once
everything is applied. Its invariant `FInv` adds to `IInv`, in five parts:

* `LogTells`: the events of a linear stream tell its record. It is created once and
  first, a top-up shows in the deposit, the withdrawals add up, the last pause or
  resume says whether it is paused, and it ends at most once, with its last event.
* `RecordsOK`: `StreamEvent` holds one row per key and none of an event to come.
* `RowsShow`: as long as nothing of the stream was quarantined, discarded or taken
  for another event of its transaction (`Mine`), its events are recorded in the
  order of the log, and the row shows the sum of the recorded withdrawals, or what
  the end says; it is inactive only after a recorded end. Deposits are included
  while nothing has been fetched twice.
* `CursorsSettled`: what a cursor has passed is not only dealt with but *settled*:
  an end has left the row inactive, and the last pause or resume shows in
  `isPaused`. A creation that is handled again reactivates the row and an old pause
  overwrites a newer one, so a handler may unsettle later events; it does so only
  to events that lie after it, ahead of the cursor the batch read, and still on its
  page if anything after them is (`LostAhead`, `PageInOrder`).
* `Frontier`, while nothing is fetched twice: what was handled, creations apart, lies
  behind the cursor and behind what waits, so that no creation is handled after a
  top-up of its stream.

One lemma per action shows that the step keeps `FInv`; `FInvFaithful` reads the
property off it where the cursor stands at the tip.

### Services and requests

* `RpcIInv`: a call under way has each offered and untried endpoint exactly once
  on its list; while the probes run, a circuit has been open for at most one
  round and one timeout (`RpcAges`), which is shorter than the cooldown by
  `RpcTimingAssumption`.
* `RunwayIInv`: what is being sent was due when its row was read, what is being
  recorded was sent, and the lookup of an undisturbed worker is still true when
  the alert goes out.
* `LcIInv`: a shutdown that waits covers every batch it knew of.
* `WebhookIInv`: what the rows of an event say at each stage of its delivery, and
  that a pending disabling has counted its failures.
* `AuthIInv`: a pending challenge's nonce has bought nothing yet, and a token's
  nonce was issued to its key. `AuthSound` includes an action property.
* `SseIInv`: counts equal the map, and a request past the caps that is alone has
  its place kept until it registers.
* `ApiIInv`: `ApiPromiseKept` compares a row with a contract that may be several
  events ahead. While the stream is live the events not yet indexed lead, one
  after the other, from a view the row reflects to the contract's record
  (`EventsLead`, an existential over the sequence of views in between); when the
  queue is empty that view is the record itself, and the claim of `Claimable` is
  monotone in what the row and the view differ in.
* `ExportSound`: a row of the beginning that shares its `createdAt` with no other
  is written once if the cursor has reached its time, and not at all before.
  `SdkSound`: what was handed over starts what was asked for and is at most one
  ahead of the results.
* `CacheIInv`: every entry is the last value set under its key, and the entries
  stand in the order of their last use. `RtIInv`: without overlap at most one
  reader is under way and the entry was read before that reader looked.

### The pages

A behaviour of `MCPages` follows one page, so `PagesIInv` is the conjunction of
each page's own invariant, the pages at rest included. Those that make calls rest
on `TxIInv` of the calls (an outcome reported is the ledger's) and on what a
snapshot may hold: `DashShowsLanded` and `IncShowsLanded` include what a request
in flight has read, because an answer is applied steps after it was read.
`DetailsSound` says of each request under way what it read and that only the
latest is awaited; `PaidSound` that an execution has made one call for each entry it has passed, and
that after a successful one the page is being left, so that all later calls are
marked late; `FormSound` that the balance shown, or the request for
it, is the selected token's; `ActOrderly` that one request at a time is pending
and asks for what the list lacks. `EsIInv` counts attempts against sources opened;
`ClearSpreads` of `WalletIInv` carries a clearing from tab to tab.

### The computations

`RefInv` says that the record queried is one of the three kinds the contract
writes (`LinearRecord`, `StepRecord`, `HybridRecord`) and that the time is on
the clock. For milestones the loop of `calculate_claimable`, a saturating sum
with an early exit, is shown equal to the reference sum by the induction of
`SumsProofs` over the sorted schedule; a deposit as wide as the type is excluded
(`ReferenceAssumption`), since a schedule that saturates would pass validation.

### Assumptions

Those named in the modules about their constants: natural widths and bounds,
`None` values distinct from real ones (`NoCursor`, `Miss`, `NobodyRt` among
them), inputs of the right type, at least `STREAM_FIELD_COUNT` fields written,
finite sets where something is counted (`ConnsFinite`, `ExportIds`), amounts of
the backend no narrower than the deposit (`ApiAssumption`) or exactly as wide as
the contract's (`ReferenceAssumption`), and `RpcTimingAssumption` (a probe times
out before the next round, and round and timeout together are shorter than the
cooldown: 10, 30 and 60 seconds by default). TLC evaluates all of them on the
runs.

### Only model-checked

* Liveness (`EveryEventDealtWith`, `ServicesProgress`), and `NeverTrapped`, which
  uses `ENABLED`.
* `AmountsKeepTheirValue`, `PlanningAgrees` and `NothingIsSkipped`: what digit strings,
  calendars, sorts and whole walks through pages come to for every input is an
  induction over data.

## 5. Plan

1. Contract: arithmetic, entrypoints, refinement, solvency proof. *Done.*
2. Indexer: poll loop, handlers, control plane. *Done, without time columns.*
3. Claimable service, caches, stream API, RPC pool, SSE, webhooks, runway alerts,
   authentication, accounts, lifecycle, SDK. *Done.*
4. Frontend: session, calls, pages, computations. *Done.*
5. Proofs: every safety property of the runs but `NeverTrapped` and the
   computations named above. *Done.*
6. Composition: the indexer over `StreamContract` in place of `StreamChain`.

### Not modelled

- *Rate limiters and sandbox* configure library middleware; *health and
  telemetry* report and decide nothing; *generated types* have no behaviour.
- *Presentation*: markup, styling, animation and fiat prices, including the
  larger part of every page's lines.
- *Request validation by schema and the OpenAPI annotations* that make up most
  of the route files; formatting of exports and messages.
- *`services/indexer.service.ts` and `indexer-integration.example.ts`*, which
  nothing imports.
- *Cryptography* (signatures, JWT, HMAC) is ideal; *Postgres, Redis, the RPC
  server and the wallet* are external and modelled by how the code uses them.
- *Time columns of the `Stream` row* in `Indexer`: the handlers set them from the
  wall clock, so they mirror nothing on chain; `StreamApi` has `lastUpdateTime`
  as far as the claimable amount depends on it.

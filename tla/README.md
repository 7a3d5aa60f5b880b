# A verification project for quantpoly_new

This directory holds TLA+ models of quantpoly, the TLC configurations that check
them on small instances, and proofs that TLAPS checks for every instance. All
paths below are relative to the root of the repository.

1. [The system](#1-the-system)
2. [What the models have in common](#2-what-the-models-have-in-common)
3. [The modules](#3-the-modules)
4. [The runs](#4-the-runs)
5. [Fairness](#5-fairness)
6. [The proofs](#6-the-proofs)
7. [Where the code and its documents disagree](#7-where-the-code-and-its-documents-disagree)
8. [Observations without a run](#8-observations-without-a-run)
9. [What is not modelled](#9-what-is-not-modelled)
10. [Plan](#10-plan)

## 1. The system

One uvicorn process serves a FastAPI application (`apps/backend_app`). Every
synchronous route runs in a thread pool, PostgreSQL holds the tables, and the
container restarts a dead process (`restart: unless-stopped` in
`docker-compose.coolify.yml`). The libraries under `libs/` are bounded contexts
with the same layers: `domain.py` (objects and state machines), a repository in
memory and one over PostgreSQL, `service.py`, `api.py` (routes). The router
registry (`apps/backend_app/router_registry.py`) constructs the services and
passes functions of one to another. A React application
(`apps/frontend_web`) talks to the routes and to one WebSocket.

### Components

| component | state | operations | properties that make it correct |
| --- | --- | --- | --- |
| job orchestration (`libs/job_orchestration`) | table of jobs, dispatch ids, metrics in memory | submit, start, cancel, retry, dispatch (callable or executor), callbacks, recovery at start | one job per key of an owner; the state machine; a job runs once and is always closed; recovery fails exactly the interrupted jobs |
| job scheduler (same) | list of schedules in memory | register, stop, list, recover the templates | each system template active once |
| trading ledger (`libs/trading_account`) | accounts, orders, trades, cash flows, positions; keys of batches in memory | deposit, withdraw, order routes, buy and sell commands, batches, clean-up | an order is executed at most once; trade, flow and position agree with it; cash is not overdrawn |
| backtest runner (`libs/backtest_runner`) | tasks, results | create, execute, transition, retry, cancel, rename, delete | the state machine; results and metrics of completed tasks only; one task per key |
| strategy management (`libs/strategy_management`) | strategies | create, update, activate, deactivate, archive, delete | the state machine; a strategy in use is not deleted |
| signal execution (`libs/signal_execution`) | signals, execution records, batch records | create, execute, cancel, expire, batches, clean-ups | one outcome per signal, in the history; batches report the truth |
| monitor stream (`libs/monitoring_realtime`, `useMonitorSocket.ts`) | ids sent on a connection; socket, timers and attempts of the hook; what the page shows | subscribe, resync, poll, push; connect, reconnect, timeouts | nothing leaks; nothing sent is lost; the page reconnects and settles |
| user accounts (`libs/user_auth`) | users, sessions, verification and reset links | register, verify, login, logout, change, disable, delete, reset a password | a deleted or disabled user has no session; a link works once; only administrators make administrators |
| administration (`libs/admin_governance`) | catalogue of actions; confirmation tokens, audit records | authorize an action | who may do what; a token is used once |
| user preferences (`libs/user_preferences`) | one document per user | read (creates and migrates), patch, reset, export, import | what a patch does not name stays; a migrated document stays migrated |
| risk control (`libs/risk_control`) | rules, alerts, snapshots of assessments | create, acknowledge, resolve, notify, clean up; rules; assess one account or many | a resolved alert stays resolved; rows fit together; the latest assessment is that of the rules |
| market data (`libs/market_data`) | cache, request windows, places and subscriptions of sockets, results of synchronizations, all in memory | quotes, stream, synchronize, retry, indicators | limits hold at their edge; places are given back; a result is that of the last attempt; indicators agree with their definition |
| portfolios (`portfolio.py` of strategy management) | objects in memory shared by the requests | create, members, weights, constraints, rebalance, delete | weights within limits; a rebalance fits the version it names |
| research (`research.py` of strategy management) | none | enumerate candidates within a budget, rank | the whole grid once; the best named is the best |
| strategy health (`libs/strategy_health`) | reports | create and execute, read | every variation of a body can be run, or the report fails; score and warnings agree |
| backtest engine (`service.py` of the backtest runner, `engine.py` of strategy health) | none | orders of a template, simulation, metrics | accounts add up; no order depends on a later price |
| platform core, data topology, composition | configuration | unit of work, ownership checks, wiring | |
| trading page (`routes/trading`, `usePolling.ts`) | refs and state of the hook, the account selected | select, load, poll, hide, order and reload | the account selected is shown, polled once, and up to date in the end |
| other web pages and frontend libraries | component state | forms, tables, loading hooks | the newest answer is shown |
| deployment and scripts | | compose files, backups | |

### How the components interact

What the registry passes, and what it leaves out, decides what the services do:

- *trading account* gets no unit-of-work factory. Over PostgreSQL the default
  one does nothing (the repository has no snapshot), so the status of an order,
  its trade, its cash flow and its position are separate transactions.
- *signal execution* gets no risk checker and no governance checker, so
  execution is not refused for those reasons; it does get ownership checks.
- *strategy management* calls `count_active_backtests` and `create_task` of the
  backtest service; the backtest service reads strategies back. Neither call is
  in a transaction with what it guards.
- *backtest runner* gets no dispatcher: its task route submits a job to the job
  service, which runs the task inside the request itself.
- *job orchestration* gets the in-process executor and the in-memory scheduler.
  Its `recover_runtime` runs when the service is constructed.
- the portfolio repository exists in memory only; request threads share its
  objects.
- *user accounts* get PostgreSQL repositories of users and sessions, but no store
  of reset links (they stay in memory) and no governance checker (administrators
  are told by their role alone). `get_current_user` is what every other router uses
  to authenticate.
- *risk control* gets ownership checks of accounts and the job service, which runs
  its batches inside the request; the governance catalogue names its batches.
- *market data* gets the Alpaca provider (or a demo one) and the job service. Its
  cache, limiter and stream gateway are one per process, shared by request threads
  and by the event loop.
- *monitoring* reads signals and alerts from their repositories; nothing tells
  it of a change, it polls when the page asks.

### What is hard

No lock, version column or `SELECT ... FOR UPDATE` orders the requests. A
request loads a row in one transaction, works on the detached copy, and saves
the *whole row* in another, often as an upsert. Hence: lost updates, checks that
are stale when acted on, deleted rows that come back, commands torn by a crash.
Where the repositories do use a guarded statement (`UPDATE ... WHERE status =`,
a unique constraint), one step decides a race, and the models show how far that
one step carries. In the browser, the close event of a socket arrives after its
successor exists, the handlers share refs, and a handler that awaited an answer goes on
with the functions of an earlier render. In market data, dictionaries and
deques are shared by threads without a lock, and by coroutines across awaits.
`PROJECT.json` lists every such place under `hazards`, at its line, with the properties that are about it.

## 2. What the models have in common

- **A request is a series of steps.** One action is what a handler does from one
  repository call to the next, with the whole of that call. A variable of each
  module (`req`, `thread`) says for every request thread which step it is at and
  what it holds in local variables: the detached copy of a row, a checked value,
  what a batch has left. Steps of all threads interleave.
- **A save writes the row the request holds**, not a change to the row that is
  there. An upsert of a deleted row inserts it again.
- **A guarded statement is one step**: `UPDATE ... WHERE status = 'pending'`,
  `INSERT` under a unique constraint. A request that loses takes its error path.
- **A crash** (`Crash`) ends every request where it stands and loses what lives in
  memory; the tables stay. Nothing fails half-way inside a transaction.
- **Ids** are `uuid4` values: an id is never handed out twice (`spent`, `purged`,
  `Fresh`), so a deleted row is only ever brought back by a stale save.
- **Requests that are refused** before they change anything (404, 403, 409, 422)
  are not steps: they leave no trace. Refusals that save something, or that come
  after a save, are.
- **Mutants.** An operator with a comment that starts with `Mutant:` is a plausible
  bug in the definition that follows it. Nothing uses it; `PROJECT.json` pairs it
  with the property that TLC finds violated when it takes the definition's place.

### Overlap

Much of what the services promise holds for single requests and not for
overlapping ones: this is what the code does, and section 7 shows where it goes
against a document. Checking such a promise for overlapping requests would only
say so again; checking it in a model without overlap would hide the rest. The MC
modules therefore carry one more variable, which the code does not have, and
state the promise (`Serial...`) for the behaviours where the requests in question
do not overlap, in the same run in which everything else interleaves:

| module | variable | meaning |
| --- | --- | --- |
| `MCJobOrchestration` | `overlap` | chosen at the start: whether a request may begin before the one before it has ended |
| `MCTradingLedger` | `mode` | chosen at the start: "mixed" (every operation), "commands" (cash and commands, overlapping), "serial" (the same, one at a time) |
| `MCStrategyBacktests` | `overlap` | becomes true when two requests have held one row, or a strategy was being deleted while a backtest of it was about to be saved |
| `MCSignalExecution` | `overlap` | becomes true when two requests have had one pending signal in hand, or one was deleted in the hand of a request |
| `MCStrategyBacktests`, for portfolios | `overlap` | becomes true when two requests have held one portfolio |
| `MCUserAccounts` | `shared` | becomes true when two requests have had one account in hand, as actor or as target, or the preferences of one user |
| `MCRiskControl` | `shared`, `raced` | two requests had one alert in hand; rules changed, or a check of the same subject ran, between the reading of rules and the snapshot |
| `MCMarketData` | `raced`, `together` | two requests of a user were counted at once; a user had two sockets served at once |
| `MCMonitorSocket` | `scope` | chosen at the start: "stream" (rows change, no button), "button" (rows stay, the button is pressed) or "trading" (the monitor page is left for the trading page) |
| `MCMonitorSocket`, for the trading page | `late` | becomes true when an order is answered after its account was left |

Components that share no state are checked in one run: the
MC module instantiates them side by side and a variable `part`, chosen at the start,
says which of them the behaviour is about. So `MCJobOrchestration` holds jobs and
schedules, `MCUserAccounts` accounts and preferences, `MCRiskControl` alerts and assessments, `MCMarketData` quotes, stream,
synchronization and what is computed of a history of prices (indicators, and the simulations of a health
report, which belong to another library but share its arithmetic), `MCStrategyBacktests` backtests, portfolios and
research. A property of such a run is often a conjunction: each conjunct is about
one part, under its own name and comment.

So `SerialTasks` says, for instance: until two requests hold the same task,
executions, cancellations, deletions and crashes may interleave in every other
way, and no task leaves its state machine.

## 3. The modules

### JobOrchestration (`libs/job_orchestration`: domain, service, executors, repository)

| state | in the code |
| --- | --- |
| `jobs` | table `job_orchestration_job`; `result` and `dispatch` hold a dispatch number |
| `req` | the local variables of a request thread between two repository calls |
| `server`, `pending` | the process: "down", "booting" (`recover_runtime` has listed `pending`), "up" |
| `dispatched`, `crashes` | dispatch ids handed out and crashes so far, bounded |

| actions | in the code |
| --- | --- |
| `SubmitFind`, `SubmitInsert` | `submit_job`: the lookup of the key, `save_if_absent` |
| `TransitionLoad`, `TransitionSave` | `transition_job`, `cancel_job`, `retry_job` |
| `DispatchLoad`, `DispatchLimit`, `DispatchRefuse`, `DispatchStart` | `dispatch_job`, `dispatch_job_with_callable` up to the call of the runner |
| `RunTask`, `CallbackLoad`, `CallbackSave` | the runner's outcome, `_apply_execution_callback`, and the second callback when the first raises |
| `Crash`, `RecoverList`, `RecoverSave`, `Serve` | the end of the process, `recover_runtime`, the application mounting its routes |

**JobRegistry** is what clients rely on: a write-once registry of identities. A job
id is bound once to an owner, a task type and a key; an owner's key is bound to
one job; nothing unbinds it. `ImplementsRegistry` maps `registry` to the identity
columns of `jobs`. This says more than the unique constraint: no stale save,
refusal, retry or recovery changes the identity of a row or loses a row.

### JobScheduler (`scheduler.py`, schedule operations of the service)

The list of schedules lives in memory. The loop of
`register_system_schedule_templates` looks a template up (`TemplateLookup`) and
appends it (`TemplateRegister`) in two steps; it runs in the constructor, before
routes exist, and in every administrator's recover request. `ScheduleTask` and
`StopSchedule` are the user's. A crash empties the list. Schedules never fire: the
code has no trigger.

### TradingLedger (`libs/trading_account`: service, repository)

| state | in the code |
| --- | --- |
| `accounts`, `orders`, `positions` | the tables; `positions` is a quantity, 0 without a row |
| `trades`, `flows` | the tables, in the order of insertion; a flow names its trade by position, 0 for a payment |
| `purged` | ids of orders deleted |
| `records` | keys of finished batches, in memory |
| `thread` | the request of each thread: step, kind, the trade it carries, the position it has read |

| actions | in the code |
| --- | --- |
| `CreateAccount`, `Deposit`, `Withdraw`, `WithdrawSave` | cash operations; the check and the insert are two steps |
| `SubmitOrder`, `UpdateOrder`, `CancelOrder`, `FillOrder`, `DeleteOrder(Save)` | the order routes with their guarded statements |
| `TradeCommand`, `CommandSubmit`, `CommandFill` | buy and sell commands: checks, insert of a pending order, fill |
| `SaveTrade`, `SaveCashFlow`, `LoadPosition`, `StorePosition` | what follows a fill, one transaction each |
| `ProcessPendingTrades`, `ProcessNext`, `BatchExecuteTrades`, `BatchSubmit`, `BatchFill`, `BatchSkip`, `CleanupAccountHistory`, `CleanupNext`, `BatchDone` | the administrator's batches, item by item, and the record of their key at the end |

A cash balance is the sum of an account's flows, as in `cash_balance`.

**OrderBook** is what clients rely on: the life of one order, told without requests and
tables. An order is submitted once, amended while it is pending, filled or cancelled; a
cancelled one may be deleted, for ever; a filled one is executed by one trade, which is
then settled by one flow. `ImplementsBook` reads the book off the tables: the stage from
the row and from whether there is a trade and a flow, the terms from the row and from the
trade, the cash from the flow. It says of every step that it moves one order by one
stage, or none. What it leaves open the code leaves open: the trade of a buy or sell
command has the quantity and price of the command, which the order may have been amended
away from in between.

### StrategyBacktests (`libs/strategy_management`, `libs/backtest_runner`)

One module for two libraries, because they guard each other: a backtest is created
for a strategy its user owns and runs while that strategy is active; a strategy
with pending or running backtests is not deleted. The registry wires the two
guards as plain function calls, so both are stale by the time they are acted on.

| state | in the code |
| --- | --- |
| `strategies`, `tasks`, `results` | the tables; of a result only whether there is one |
| `spent` | ids handed out |
| `thread` | the request: step, the copies of task and strategy it holds, why it moves the task |

Strategy routes: `CreateStrategy`, `MoveStrategy` / `UpdateStrategy` then
`SaveStrategy`, `DeleteStrategy` then `CountActive` then `DropStrategy`. Task routes:
`CreateTask` then `InsertTask` (an insert under the partial unique index), `ChangeTask`,
`RenameTask`, `DeleteTask` then `RemoveTask`, `ForgetResult`. Execution:
`SubmitTask` (the job layer takes or refuses it), `ExecuteTask` (loads the strategy),
`TransitionTask` and `SaveTask` to running, `RunEngine` (any outcome), `TransitionTask`
and `SaveTask` to completed or failed, `SaveResult`.

### SignalExecution (`libs/signal_execution`)

`signals` is the status of each row, `records` the history, `batches` what a
finished batch answered under its key, `thread` the requests. `forgotten` is not in
the code: the signals whose record a clean-up deleted, or whose request died between
the save of the signal and the insert of its record; the properties need it to say
that nothing *else* is missing. `TakeSignal`, `SaveSignal`, `SaveExecution` are
`execute_signal`, `cancel_signal` and `expire_signal`. A batch loads each signal
twice (`BatchLook`, `BatchEnter`), as `_run_batch` does by calling `execute_signal`.
`StartExpiry` / `ExpireNext` is `update_expired_signals` over copies listed at its
start. The four clean-ups are one transaction each. There is no clock: any pending
signal may be due.

### UserAccounts and GovernanceCatalog (`libs/user_auth`, `libs/admin_governance`)

| state | in the code |
| --- | --- |
| `setup` | how `create_app` was called: reset links in PostgreSQL or in memory, governance checker or none |
| `users`, `sessions`, `resets` | the tables (links perhaps a dictionary); a session or link that has ended stays as such, so no token comes back |
| `thread` | the request: the actor it is authenticated as, the account it works on and the copy of its row, what follows the save |
| `changed`, `granted` | history only: how often a link has changed a password; who was made administrator by an administrator |

`Authenticate`, `LoadActor` are `get_current_user`: the session in one transaction,
the account in another. A route then works on that copy of the row and saves all
of it (`Save`), perhaps followed by `Revoke`. A login checks (`LoginCheck`) and saves
its session later (`LoginSave`). A reset is `LookReset`, `ClaimReset` (the conditional
update), `LoadForReset`, `Save`, `Revoke`. There is no clock: a session or a link
may expire at any time. `GovernanceCatalog` is the catalogue of actions with their
levels, and the role and level check of the policy engine.

### UserPreferences (`libs/user_preferences`)

`stored` is the document of each user: its version, one value per leaf, the advanced
settings. A read is `Start`, `Load`, and `Settle` when the document was missing or
old; a patch goes on with `ApplyPatch` and `Save`. `ResetPreferences` and
`ImportPreferences` store a document whatever there is.

### RiskAlerts and RiskAssessments (`libs/risk_control`)

`RiskAlerts`: `alerts` is the table, `thread` the copies a request has yet to save.
One alert or several are loaded and changed in memory (`AcknowledgeAlert`,
`ResolveAlert`, `BatchAcknowledge`, `NotifyPending`), then saved one by one
(`SaveAlert`). `CleanupResolved` deletes. `submitted` holds the keys of notification
jobs, of which the route has one per user when the request gives none.

`RiskAssessments`: `rules`, `latest` (the newest snapshot of each account and strategy).
A check reads rules (`ReadRules`), takes its time (`MakeSnapshot`) and stores the
result (`SaveSnapshot`); a batch does so account after account until one is refused.

### MarketQuotes, MarketStream, MarketSync, MarketIndicators (`libs/market_data`)

Four modules that share no state.

- `MarketQuotes`: cache and limiter, with a step for every use a thread makes of
  them: `Prune`, `Pop`, `Count`, `Grant` are `consume`; `Look`, `Evict`, `Fetch`,
  `Store` the lookup of a batch. `clock` ticks between any two steps.
- `MarketStream`: one step from one await to the next of a socket's handler. `Open`
  takes a place, `Greet` accepts, `Subscribe` then `Poll` answers a message, `Finish`
  is the `finally`. `opener` is history: which socket made a subscription.
- `MarketSync`: a synchronization as a job: `SubmitSync`, `DispatchLoad`,
  `SyncSymbol` for each symbol, `RecordResult` or `RunnerRaises`, `Callback`. As in
  `JobOrchestration` a request reads a row in one step and saves all of it in another
  (`SaveRow`), so copies may be stale. `Transition` is every way a user moves a task: to
  cancel it, to retry it (as a job, or as a synchronization, which dispatches it again), and by
  `POST /jobs/{id}/transition` along any transition the state machine allows, for instance
  to succeeded without a run. `synced` and `results` are in memory and end with the
  process; `Restart` includes the recovery. Of the row only what a task shows is kept,
  status and result; times, keys and limits are in `JobOrchestration`.
- `MarketIndicators`: the five indicators over the history `close`, as exact fractions.

### Portfolios and StrategyResearch (`portfolio.py`, `research.py`)

The repository of portfolios is a dictionary that gives out its objects, so
`object` is shared by the requests and there is nothing to save: `listed` says which
of them the dictionary holds. Between the steps of `add_member` (`CheckMember`,
`PlaceMember`, `AppendMember`), `remove_member` (`PickOthers`, `ReplaceMembers`) and
`update` (`WeighMembers`, `Constrain`) another request may change the same lists.
A member is an object too: the list `remove_member` has picked holds the same ones as the list
it will replace, so a weight changed in between is in both (`Reweighed`), while
a member appended in between is only in the one replaced. `nth` tells the
objects of one strategy apart.
`Touch` raises the version. `plan` is the last rebalance computed.

`StrategyResearch` is one optimisation: `search` is the request, `trials` what was
tried. `Try` takes the first candidate not yet tried in the order of the method;
`SpendTrials`, `OutOfTime`, `Exhaust` and the score of a trial end the loop. Candidates,
their order and their score are pure operators.

### BacktestEngine and StrategyHealth (`backtest_runner/service.py`, `libs/strategy_health`)

`BacktestEngine` has no variable: what a template orders on each day (`Crossings`,
`Reversions`, `Recoveries`), the simulation as a fold over the days (`Ordered`, `Valued`,
`Closed`), and `EquityMetrics`, over the fractions of `Fractions`, exact where the code has
floating point. A loop of the code over days or trades is `Through`. The code is there
twice, in the backtest runner and in strategy health; they differ in when mean reversion
gets out, and each has its operator. z-scores are compared by their squares, which
needs no root.

`StrategyHealth` is one report: `config` is the body, `status` and `report` the row,
`alive` whether its request still runs. `Start` saves it as running; `Refuse`,
`ReadFails` and `ReadNothing` end it; `Analyse` runs every simulation the analysis needs
(`Cases`), or ends it where a variation is refused; `Judge` makes the outcome of them and
saves it; `Crash` leaves the row as it is. Nothing but its own request ever writes a
report, so one is enough. What was simulated is kept in `report` until it is judged, where
the code has it in local variables. `Outcome` is the analysis: `Rating` of each parameter
over its `Perturbed` values, `InSample` and `OutSample`, `Score`, `Risk`.

### MonitorServer and MonitorSocket (`ws_monitor`, `useMonitorSocket.ts`)

`MonitorServer` is the handler of each connection (`conn`: what it is doing, what it
has sent, what truncation cut off), the user's rows (`signals`, `alerts`), the
session, and the two directions in transit (`up`, `down`). An answer is two
messages, `PushSignals` and `PushAlerts`, with an await between them.

`MonitorSocket` extends it with the page. The refs of the hook are the variables
`ws`, `attempts`, `timerRef`, `beatRef`; `timers` and `intervals` are what really
runs in the browser, so a reference that is overwritten without clearing leaks and
shows in `NoLeaks`. `close()` only starts the closing of a connection: its close
event (`Closed`) comes later, when a successor may exist, and runs the same
handler. The functions of the hook (`clearTimers`, `closeSocket`, `connect`,
`scheduleReconnect`, the lost-connection handler) are operators on a record of the
refs, applied in the order of the code; the actions are the events: `Open`,
`Rejected`, `Drop`, `Closed`, `Reconnect` (the timeout), `Press` (the button),
`Poll`, `Receive`, `Unmount`.

### PollingHook (`usePolling.ts`, `routes/trading/index.tsx`)

`hook` is the refs and the state of the hook, in one record that its functions
(`StartInterval`, `StopInterval`, `Fetching`, `CleanUp`, `Effect`) turn into the next;
`intervals` counts what really runs, so an interval that is overwritten shows. `request`
holds what the page has under way. A load has the account of the render whose function
issued it and the context of the moment it was issued, which differ when a handler of an
order reloads after its answer (`Ordered`). `Serve` is the moment the server reads what it
answers, `version` what there is to read. `Select` is the change of the loader with the
clean-up of the old effect and the new effect; `Tick`, `Show`, `Reload` issue loads too.
The page asks the user to act only on what it renders (`Skeleton`, `ShowsData`).

## 4. The runs

State counts are distinct states; a run takes between a second and a little
less than three minutes on two cores.

| run | instance | checks | states |
| --- | --- | --- | --- |
| `job_orchestration` | jobs: 1 user, 2 keys, 2 jobs, 2 threads, 2 dispatches, 1 crash, limit 1; schedules: 2 templates and another timing, 4 schedules, 2 users, 2 threads, 1 crash | `RowsCoherent`, `NoOrphanRunning`, `RecoveryExact`, `SerialLifecycle`, `TemplatesActiveOnce`, `ImplementsRegistry` | 912 thousand |
| `job_liveness` | 1 job, 1 key, 2 threads, 2 dispatches, 1 crash | `DispatchSettles` | 25 thousand |
| `job_lost_update` | same | `LifecycleRespected` is violated | |
| `trading_ledger` | 1 account, 1 symbol, 3 orders (2 in a mixed behaviour), quantities 1 and 2, 2 payments, 2 threads, 1 crash | `FilledOnce`, `TradesBooked`, `ImplementsBook`, `SerialLedger` | 867 thousand |
| `strategy_backtests` | backtests: 1 strategy, 2 tasks, 1 key, 2 threads, 1 crash; portfolios: 1 portfolio, 2 members, weights 1 and 2, versions to 4; research: up to 2 parameters, budgets 1, 3, 5 and 20 | `TypesOK`, `MetricsOfCompleted`, `KeysUnique`, `SerialRows`, `SerialPortfolios`, `SearchesFit` | 2.8 million |
| `signal_execution` | 2 signals, 1 user, 1 key, 2 threads, any number of crashes | `OutcomeRecorded`, `RecordedIsFinal`, `SerialOutcomes` | 1.7 million |
| `monitor_stream` | monitor page: 2 connections at a time, 2 signals, 1 alert, messages of 1 item, 2 attempts, 2 drops, 2 presses; trading page: 2 accounts, 2 requests at a time, 2 selections, 1 change, 1 order, 1 failure | `DeliveredOrCut`, `NoLeaks`, `NeverAbandoned`, `PageFits`, `SettlesAlone`, `Arrives` | 196 thousand |
| `trading_stale` | 2 accounts, 2 requests, 1 order | `ShowsSelected` is violated | |
| `monitor_reconnect` | 2 connections, no rows, 5 attempts, 1 drop, 1 press | `Settles` is violated | |
| `user_accounts` | accounts: 2 users, 3 session tokens, 1 reset link, 2 threads, 3 requests, every setup; preferences: 2 leaves, 2 values, 2 threads | `TypesOK`, `ResetOnce`, `AdminsGranted`, `SerialAccounts`, `PreferencesKept` | 1.3 million |
| `risk_control` | alerts: 2 alerts, 2 users, 2 threads, 1 key; assessments: 2 accounts, 2 rules, 1 strategy, 2 thresholds, 2 stamps, 2 threads; 5 and 3 requests | `TypesOK`, `RowsFit`, `SnapshotsFit`, `SerialResolved` | 475 thousand |
| `market_data` | quotes: 1 user, 2 symbols, 2 threads, 2 requests, window, life time and clock of 1 to 2; stream: 3 sockets, 2 users, 2 places; synchronization: 2 tasks of one user, of which one (`Managed`) is cancelled, retried and moved by hand, 2 symbols, 2 threads; indicators: up to 5 prices of 3, periods 0 to 3; engine and health: up to 4 prices of 3 (0 is one) or 7 of 2, the first the higher, 6 sets of parameters, 3 templates, 2 fees | `TypesOK`, `QuotesFit`, `StreamFits`, `SyncFits`, `AnalysesFit` | 786 thousand |

Where a proof establishes the type invariant (section 6), the run does not check it
again: that is the case of `JobOrchestration`, `JobScheduler`, `TradingLedger`,
`SignalExecution` and `MonitorSocket`. So it is with `IdempotencyUnique` of
`JobOrchestration`, which `ImplementsRegistry` implies, and `ConnectedIsCurrent` of
`MonitorSocket`.

### What they show

- **Jobs.** However submissions interleave, an owner's key names one job; a stored
  row is never a mixture of two executions (`RowsCoherent` relates timestamps,
  result and dispatch id to the status, although stale rows are written back all
  the time); while the process serves, a row that says it runs is being run, even
  if its callback raises or another dispatch of the same job is under way;
  recovery touches the running rows and no other, and is done before the first
  request. A dispatched run is always closed. Requests one at a time follow the state
  machine and keep to the concurrency limit, jobs that users moved to running counted.
- **Scheduler.** Recover requests that overlap each other and user requests never
  register a template twice: the constructor has registered all of them, and no
  user owns or can stop one. So the check-then-append of the loop is harmless, for
  a reason that is not in the loop.
- **Ledger.** Whatever races for an order, it is executed once, and its trade and
  flow belong to each other even if the row is amended between submit and fill;
  while the process lives, a filled order without trade is in the hands of exactly
  one thread (`TradesBooked`); a row moves only from pending to filled, cancelled or
  deleted, and the clean-up, which deletes by id what it listed before, deletes no
  order that was filled (`ImplementsBook`). Requests one at a time keep cash covered and positions exact
  (`SerialLedger`).
- **Strategies and backtests.** Metrics exist exactly on completed tasks and keys stay
  unique even when a save brings back a deleted task whose key was used again.
  Until requests share a row, both state machines are followed, a cancellation
  during the computation is final, results belong to completed tasks, and no
  strategy is deleted in use (`SerialRows`).
- **Portfolios.** Until two requests hold one portfolio, its weights stay within both
  limits and no strategy is a member twice, whichever of members, weights and limits
  was changed last; and a rebalance that carries the version its portfolio still has is
  for its members and within its limits. A change that forgets to raise the version
  would break that.
- **Research.** For every range, objective, method and budget of the instance: an
  exhausted search has tried every combination of values once, both ends of every
  range included even where the step misses the upper one; it names a corner of the
  grid as best, because no trial runs the strategy (section 8); a Bayesian search cut
  short has left out no candidate nearer to the middle than one it tried. That is what the
  code does, and not the search over historical trials that its specification
  describes (section 7).
- **Engine.** Over every history of the instance, with both templates and both engines:
  the capital grows by exactly what its round trips make of it, both fees of each
  included; round trips follow each other and nothing is held at the end; a trade
  that counts as a win made a gain; the drawdown is the greatest loss from a day to a later
  one; and no order or value would differ had the history ended later (`NoLookahead`).
- **Health.** Of the bodies that name their parameters (`Named`), those are analysed that leave room
  for every variation (`RoomNeeded`: twice the shorter window and two more, more than twice the exit);
  the others fail, although the engine runs them. What a body does not name is a default that
  is not varied, so less room may do for the rest. A strategy that gained in the sample
  and kept less than half is never called a low risk; one that lost less outside
  than in it, without a gain, keeps the points.
- **Signals.** Whichever request wins, the outcome in the row is in the history or
  about to be; a signal that ever had a record is never pending again, through
  clean-ups, upserts and crashes, so retrying a batch that died repeats nothing.
  Until requests share a signal, it has one outcome and one record, and what a batch
  reported is true (`SerialOutcomes`).
- **Accounts.** A link kept in the database changes one password, whichever two
  requests bring it and wherever the process dies. Nobody is an administrator whom no
  administrator has made one, although every route writes a whole row back. Until two
  requests have one account in hand: an account that is disabled, not verified or gone
  has no session, nor has one a session opened with an earlier password unless its owner
  kept it; role, level and state change only for an administrator, a deletion only
  for one or the owner, and what is deleted stays so (`SerialAccounts`).
- **Preferences.** A document is never lost nor old again, even if a copy of an old one is
  saved late; until requests for it overlap, a patch sets what it names and keeps the rest,
  and a patch below level 2 leaves advanced settings alone. A reset or an import does
  not (section 7).
- **Risk.** A row of an alert fits together whichever of two copies is saved last (who
  resolved it, who acknowledged it, who was notified, and its status), and only its owner
  ever touches it. Snapshots are made for the owner of their account from rules of that
  account, also when a batch was refused halfway. Until requests share an alert,
  resolved is final; until a check is overtaken, the snapshot of a subject checked since
  its rules changed says what these rules give.
- **Market data.** Whatever runs in between, an answer has one quote for each symbol asked
  for, and one from the cache has been there for less than its life time. Counted one at a
  time, requests are granted exactly while the window has a place. Places of the stream
  are those of the sockets served (and of those lost while they were greeted), no user has
  more than allowed, and a socket whose client is gone gives its place back; no
  subscription outlives the user's last socket, and a user with one socket at a time
  loses none before. However requests cancel, retry and move a task, save stale copies of it
  and die, a row with a result is that of one attempt, which went through all symbols, and until
  a restart the boundary check misses no symbol of a task that succeeded with one
  (`ResultsFit`, `SyncedKept`). What a finished task *shows* is about its last attempt as long as
  nobody moved it by hand and no two requests were about to save it at once
  (`SerialResults`). Every indicator
  has a value exactly where there is enough history, and the value of its definition.
- **Monitor.** No order of stale events, timeouts, presses and leaving the page leaves
  a second timer, interval or live socket; the page always has something to wait
  for until it is out of attempts; a signal the server will not send again is on the
  page, in transit, or was cut off. Left alone it ends up connected or out of attempts, and on a
  lasting connection every signal and alert arrives unless deleted, resolved or
  cut off.

- **Trading page.** Whatever loads of buttons, interval, return to the page and earlier
  selections overlap, fail or come late: the page never shows that it loads, or nothing at all,
  without a load under way that will change it; one interval polls, for the account
  selected; until an order is answered after its account was left, no other account is
  shown; and an account that stays selected is shown as it is in the end, also after such
  an order.

### Why the bounds are enough

- Two threads: each hazard listed is a race of two requests, or of a request and a
  crash. The third actor of some (recovery, the engine, a batch) has actions of its
  own. Where the proofs reach, any number of threads is covered.
- Two jobs, two keys: a key can clash, and a job can be recovered next to one that
  must not be. Two dispatches: one job can be dispatched twice, or run again after
  a retry. More dispatches repeat the second one.
- One crash: everything in memory is lost and all requests end, so after a restart
  only the tables remember; a second crash starts from tables that requests could
  have produced without one, but for rows the first crash left torn, which stay
  torn. The models of signals, accounts and risk have no bound on crashes.
- One account and symbol: no operation relates two of them. Quantities 1 and 2: a
  sale can exceed what is held or be covered in part. `MCConstraint` keeps behaviours
  with every operation to two orders; with commands only there are three, a
  purchase before two sales that compete for it.
- Signals: the run gives every batch a key (`GivenKeys`). Batches without a key differ
  in not being looked up or recorded; the theorems cover both.
- Accounts and risk: three requests (`MaxRequests`) are a race of two after one that set
  the stage (a link requested, an account disabled, a rule changed); alerts have five, because
  each has to be created first. `user_accounts` starts
  from an administrator with a session and perhaps a second user with one, which is a
  state registrations and logins reach, so none of the three is spent on it.
- Preferences: two leaves, one under a level and one free, are what a patch can name
  or not; a document is missing, old or current.
- Engine and health: four prices are enough for the averages of two and three to cross
  and cross back, and seven make three round trips of mean reversion, four days in the
  sample and three outside; a price of 0 ends an account. A commission of a half is
  far from real ones, but its powers stay within the integers of the model checker, and
  it makes every sum that forgets it wrong.
- Portfolios: two members, weights 1 and 2 and the limit sets include totals that one
  more member exceeds. Four versions are a creation and three changes.
- Research: ranges whose step reaches the upper end, misses it, or has one value; two of
  them make a product. Budgets below, at and above the size of the grid.
- Market data: a clock of two ticks lets a window and a quote expire while a request holds
  what it read. Three sockets and two places let one be refused and taken up later; two
  users show that places are counted apart. Of two tasks one is moved by its user while the other only
  runs, so that what one does to what was synchronized shows in the other; two threads are
  a run and a user who cancels or retries it, or two retries. Five prices of three values and periods up to
  three give series with less, exactly and more than enough history for each indicator.
- Monitor: two connections at a time are the current one and the one closing;
  identities are reused once a connection is gone, so a behaviour has as many as its
  drops, presses and attempts create. One item per message makes truncation
  happen with two signals. `MaxTransit` bounds what is in transit when a poll is sent.
- Trading page: two requests at a time are one of an earlier selection, or an order, and
  one of the present. Two selections are a first and another account. One order, one change
  and one failure are what makes data stale, wrong or missing.
- `monitor_reconnect` uses the code's limit of 5 attempts and a single drop.

Deadlock is checked where no bound ends the behaviours (`signal_execution`,
`user_accounts`, `risk_control`: a crash or an expiry is always possible). Elsewhere
ids, dispatches and drops run out, and a page that was left stops.

## 5. Fairness

- *Jobs* (`Fairness` of `JobOrchestration`): a request that was accepted runs on to its
  answer (`WF(Continue(t))`; nothing in the code waits on another request), and a
  dead process is restarted and recovers (`WF(Boot)`: `restart: unless-stopped`, and
  `recover_runtime` is a loop over what it listed). Nobody has to send a request,
  and nothing has to crash.
- *Monitor* (`Fairness` of `MonitorSocket`): a handshake succeeds unless dropped, a close
  frame, an event, a message in transit arrive, intervals and timeouts fire, a
  handler that has started goes on. These are promises of the browser's event loop
  and of TCP; none is about people or rows: nobody has to press, leave, create or
  delete anything. A connection may be dropped at any point, up to `MaxDrops` times.
  Weak fairness of the poll interval is enough for `Arrives`: its guard is off only while
  messages are in transit, once they have arrived it stays on until the interval fires.
- *Trading page* (`Fairness` of `PollingHook`): requests are answered (up to `MaxFails` of them
  by a failure) and the interval fires. The user need do nothing; `CatchesUp`, a conjunct of
  `Arrives`, assumes that he stays on the page and the account.
- *Quote stream* (`MarketStream`): the event loop resumes the handler of a socket whose
  client is gone (`WF(Notice(s))`), which is all that `PlacesReturned`, a conjunct of
  `StreamFits`, needs. Clients
  need not send, answer or leave.
- `SettlesAlone` assumes that the session lasts and the page is not left: a page whose
  session has expired reconnects for ever (section 8).
- The other modules state no liveness: their requests end by returning, and nothing
  else in them is promised eventually.

## 6. The proofs

Every theorem holds for all values of the constants, under the assumptions named
in the modules: bounds and limits are natural numbers, quantities and prices are
positive, values that stand for absence (`NoJob`, `NoKey`...) are not among the
values they stand beside, templates differ from each other and from users. No
theorem but one assumes a finite or a non-empty set of requests, users, ids or values (`TypesOK` of
`StrategyBacktests` counts requests, and an idle one has a member and limits); a body of a
health report has finitely many parameters. A module that is composed with
others states its assumptions as an operator (`Parameters`), and the MC module assumes it
of the instance it makes.

Each component has one module of proofs. Those of the form `Spec => []P` are about the
component alone; those of the form `MCSpec => ...` are about the specification the run
checks, in which the component stands beside the variables that tell whether two requests
ever overlapped (section 2). Both say the same of the code; the second kind is needed
because most of what the documents ask for holds only while requests do not share a row.
`MCInvariant` (`MarketInvariant`, `PagesInvariant`) is the inductive invariant
there, of the component and of what was added, and the invariant that speaks of requests that do
not overlap has one shape everywhere: *what a request found out when it read still holds when it
writes*, as long as nobody else has the same thing in hand.

**JobOrchestrationProofs**: `TypeOK`, `IdempotencyUnique`, `RowsCoherent`,
`NoOrphanRunning`, `RecoveryExact`, and the refinement of `JobRegistry`. The
properties speak of the table, but a stale copy is about to overwrite it, so the
invariant speaks of the copies. `RequestInv`: the copy a request holds is coherent,
has the identity of the row it will replace, and its status fits the step that
saves it (a copy about to start is running under the dispatch id of this request;
one about to settle is not running). `FreshInv`: an id about to be inserted is held
by nobody else. `ServerInv`: no request survives the process, and during recovery
the running rows are exactly the listed ones. `NoOrphanRunning` then follows: the only
save that makes a dispatched row running is made by the thread that goes on to run it.
The refinement: `SubmitInsert` is `Register` or a stutter, every other save keeps the
identity because the copy has it. For the schedules, `TypeOK` and `TemplatesActiveOnce`.
`LoopInv`: while the constructor
runs, the templates before the position of its loop are registered and the others are
not; once it serves, every lookup finds, so the append is never reached again.
`SerialLifecycle` (statuses move along the state machine, the limit of running jobs holds)
for requests that do not overlap. `Current`: what a request about to save found still
allows the transition, and one about to start still finds room under the limit; the table
is finite because a request inserts one row.

**TradingLedgerProofs**: `TypeOK`, `FilledOnce`, `TradesBooked`, `ImplementsBook`, `SerialLedger`.
Two dozen actions do one of six things to the ledger (nothing, insert or
move an order, fill it, save a trade, save a flow, delete): each action is shown to
be such a step once, and the invariants are shown of the kinds. `SavingInv`: a trade
about to be saved is of a filled order without trade and without other thread.
`FlowingInv`: the same of a flow. `CleanupInv`: what a clean-up has left to delete is
cancelled or gone, which is why a stale list does no harm: cancelled is final.
The refinement (`BookRefinement`) needs one invariant more. `AgreedInv`: what a request is
about to execute, and every trade, is on the account, symbol and side of its order. A
request holds a copy, and the order may be amended, cancelled or deleted under it; but an
amendment keeps those three columns and an id never returns, so no step breaks the
agreement (`RowsAgree`, `Held`). Then each step is read in the book: a step that changes a
row is `Submit`, `Amend`, `Close` or `Delete` of one order (`RowMoves`), saving a trade is
`Execute`, saving its flow `Settle`, and the rest stutters; that the chosen trade of an
order is the only one is `FilledOnce`.
`SerialLedger` is about sums: cash is never negative and a position is what was traded, for
tables of any length. A balance is a fold over the flows; that a fold over a finite set
has the value its equations give, whatever order it takes, is shown by a smallest
counterexample among the subsets, which needs no induction, and with it what
one appended row adds (`BalanceAppended`, `PositionAppended`). The invariant `SerialInv`
says that at most one request is in progress (`Turn`), that the cash and the position it checked
are still there (`Backed`), and that the position is behind the trades by the
one trade it has booked and not yet stored (`Follows`, as long as nothing crashed).

**StrategyBacktestsProofs**: `TypeOK`, `MetricsOfCompleted`, `KeysUnique`, `SerialRows`,
`SerialPortfolios`, `SearchesFit`, `TypesOK`. The first
properties are broken by a bad copy before they are broken by a bad row, so the invariant
says of every copy held at a save what it says of the rows. `RowsRefine` carries them to the
composition. `SerialRows` (rows move along both state machines, a result is of a completed
task or of none, a strategy is deleted only when nothing runs for it): `SpentIds` and `Fresh`, which
hold whatever overlaps, say that a new id is its request's alone; `HeldFits` says, of requests that
contend for nothing, that the copy is the row or one transition ahead of it and
that what was counted before a deletion still counts nothing.
`SerialPortfolios` is about sums again: the weights of the members, and what a rebalance without
named targets gives out, which is all that the limits allow, or all that the members can take
(`AutoGives`). The shares in proportion to the scores never sum to more than the total
(`SumScaled`), and taking the rest in turn takes the smaller of the rest and the room there is
(`TakenInTurn`, again by a smallest counterexample, taking away the last strategy). Adding, changing
and removing a member change the map of weights as the check before assumed (`PlacedWeights`,
`AppendedWeights`, `WithoutFits`). The invariant `SharedInv` says of a request that holds its portfolio
alone what it has found out and still holds (`Ready`), and of a rebalance result that it fits the
portfolio as long as the version is the same and nobody is yet to touch it (`PlanFits`): every request
that changes members or limits goes on to touch the version.
A search: `SearchInv` says that the trials are of different candidates, each with its score, that
the best has the greatest of the scores, and that a search exhausted leaves nothing. An axis is a rising
sequence from its lower end (`AxisIs`), so the corner with the greatest values is a candidate and the
sum of the values of any other is less (`SumRises`, from the fold over the parameters), which makes
the corner the best once it was tried (`BestIsCorner`). The number of candidates is the product of the
lengths of the axes (`ProductCounts`: adding a parameter to a grid is a bijection with pairs), and
the order of a method has a least candidate among those not tried as long as there is one, because
candidates that are as near differ in their place (`PlaceRises`); so an exhausted search has tried
them all (`CoversAll`). Ranges, budgets and the number of parameters are any.
`TypesOK` says that no version passes the bound of the model by more than there are requests. The
invariant `VersionsBounded` adds to a version the requests that may yet raise it (`Changes`): each was let
in below the bound, and one that touches the portfolio is no longer among them, so the sum
never grows with a touch.

**SignalExecutionProofs**: `TypeOK`, `OutcomeRecorded`, `RecordedIsFinal`, `SerialOutcomes`.
`InHand`: a request
about to add a record has moved its signal out of pending, and nothing moves it
back: the first two properties are inductive together with that and need no more.
`SerialOutcomes` (one outcome a signal, which is what its batch reports): `AloneInv` says that
what a request still has to settle is pending and in no other hand, that what it is about
to record has no record, and that whatever it will report as done has been recorded.

**UserAccountsProofs**: `TypeOK`, `ResetOnce`, `AdminsGranted`, `SerialAccounts`,
`PreferencesKept`. `ThreadInv` carries
`AdminsGranted` to the copies: a request authenticated as an administrator, and a row in
the hand of a request with that role, belong to somebody an administrator has made one,
so saving it whole adds nothing; being granted is never taken back, which is why old copies
do no harm. `LinksInv` is why a link works once: while it is open no
request has taken it and it has changed nothing; once it is taken, at most one request
bears it, and only until the password is changed.
`SerialAccounts` (a session is of somebody who may have it, or it will be revoked; only the
user or an administrator changes an account): `AloneInv` says that what a
request was let through for still holds, and that a save that takes away access is followed by the
revocation. `PreferencesKept`: `PrefsInv` says that a request about to patch holds the
document that is stored, and one about to save its merge; and, whatever overlaps, that every
document in hand is of the current version or a later one, so that migration is never undone.

**RiskControlProofs**: `TypesOK`, `RowsFit`, `SnapshotsFit`, `SerialResolved`. `CopiesFit`: the
copies the requests hold fit
together too, whatever the rows they replace say by now. `InHand`: while no two requests have
one alert, the copy of a resolved alert is resolved, so resolving is final. `RulesInv`: a
finding about to be saved is of rules of the account it is for, and rules keep their account;
`UpToDate`: while no check was overtaken its finding is what the rules give now, and
it is stamped no earlier than the snapshot it will stand beside.

**MarketDataProofs**: `TypesOK`, `QuotesFit`, `AnalysesFit`; of `SyncFits`, `ResultsFit` and `SyncedKept`
(`SyncIsFit`); and, of `StreamFits`, `PlacesCounted`,
`NoneOutlives` (`StreamPlaces`) and `SerialSubscriptions` (`StreamSerial`). The five parts share no
variable, so a step of one leaves the invariants of the others. Quotes: `AnswersInv` follows an answer from the cache to
the reply (what was asked for is split into looked up, missed and found, and each quote was
fit when it was seen); `LimitInv` says of the limiter that its times are the last of those
granted and that no window has more than the limit, as long as no two requests of one user are counted
at once. Stream: a user's connections are counted from the states of his sockets (`Counted`), and
somebody who is past the greeting looks after every subscription (`Kept`). Synchronization: whatever
overlaps, every copy a request holds fits as a row does, what its run has called
synchronized is synchronized, and its event says whether a symbol failed (`Held`); of a row
and of what is recorded in memory the same (`JobFits`). Two requests may well hold
copies of one row: each fits by itself, so it does not matter which is saved last.
The engine and the health report (`ReportsCorrect`), for any history of prices, any parameters and
any commission below 1, in four steps. First the arithmetic: `Gcd`, a recursive function, is the
greatest common divisor and grows with what it is of (`GcdScaled`), so that the fraction of two numbers
does not change when both are multiplied (`FracScaled`), and the laws of sums, products and order hold
of reduced fractions (`TimesLaws` to `SignTimes`). Then the folds: `Through` goes
through the numbers from 1 one after the other (`FoldRuns`), so an invariant of a loop needs only its
step (`Climbs`, by a least counterexample, since the provers have no induction over an operator). With it: `Ledger`, the books
of an account after any day, whose capital is what the factors of its round trips make of
the first, and whose trades alternate and are paid for (`SimulationFits`); the orders of a
history cut short are the first orders of the whole (`CrossingsCut`, `ReversionsCut`,
`RecoveriesCut`, `OrdersCut`), and so are the values but for the day it ends on, when what is held is sold (`CurvesCut`);
the drawdown is no less than the loss between any two days, and is one of them or nothing (`DrawdownIs`). Third, a
body that names its parameters: every variation can be run exactly if there is room for it
(`CrossingRoom`, `RevertingRoom`), where windows are cut to whole days and thresholds are not. Last, the score: the
ratio is a part of 1, less than half after a warning (`RatioIs`), so that 20 of the 100 points and more
are gone (`ScoreFits`). The invariant `HealthInv` of the report says what it is made of: the simulations while it is running, the
outcome of these when it is completed, and the variation that could not be run when its
configuration is refused.
The indicators (`AnalysesCorrect`), for any prices and periods, with the same arithmetic and the same
folds. A mean of prices is their sum over their number (`MeanIs`), so it lies between bounds of
them, and that of a rising history is the less the further back it goes (`SmaRises`). An exponential
mean moves by a part of 1 towards each price: such a step stays between both
(`MovedFits`), keeps order (`MovedFollows`, over a common denominator) and goes further with a shorter
period (`MovedNearer`). Two exponential means therefore keep the order in which the
longer one starts (`MeanBehind`: there the shorter is no less than the mean of the prices so far), and
convergence, their difference, has the sign of a steady rise or fall. For the relative
strength the gains and the losses of the changes are shown to be the rises of the prices and of their
mirror (`ChangesSummed`), and the share they make is one of 100 (`StrengthIs`).

**MonitorSocketProofs**: `TypeOK`, `NoLeaks`, `NeverAbandoned`, `ConnectedIsCurrent` (the
page never says "connected" of a connection it has let go),
`DeliveredOrCut`, `PageFits`. The invariant is about the record of refs: `Sound` (the timer and interval refs name what really
runs, at most one socket is live and it is `wsRef`), `Alive` (something goes on),
`Honest` (what is shown), `Quiet` (after leaving). Each function of the hook has a
lemma that says which of them it keeps or establishes; the lemmas compose as the
functions do, and `Store` lifts the result to the action. `DeliveredOrCut` is inductive
together with it: two lemmas on the sequence of messages in transit say that a message
added behind the others hides none of them unless it is a snapshot, which carries all
that counts as sent, and that receiving one only moves what will be shown onto the page.
That the page never takes a message of another socket is `Sound`.
`PageFits`, of the trading page, is proved in the same way: the interval the ref holds is the
only one and polls the selected account (`Polling`), no load is of a context still to come
(`Addressed`), and a load that still counts is of the account selected until an order was
answered late (`Selected`), which is the step `trading_stale` shows going wrong.

### What is only model-checked

- Liveness (`DispatchSettles`, `SettlesAlone`, `Arrives`, and `PlacesReturned` in `StreamFits`): the prover
  does not handle fairness and `ENABLED`.
- `SerialResults` in `SyncFits`, which says what a task shows while its requests do not overlap.
No module declares a `RECURSIVE` operator; sums are folds of the community modules.

## 7. Where the code and its documents disagree

Each of the first three has a run whose counterexample is the shortest behaviour that shows it.

- `job_lost_update`: two requests load a job, both save it whole; a cancelled or
  succeeded job goes back to running or queued. The specification of job
  orchestration asks for one state machine (`openspec/specs/job-orchestration/spec.md:55`).
- `monitor_reconnect`: a connection ends; the page is degraded and its timer starts a second
  socket; the user presses the button, which lets that one go and creates a third. The
  close event of the second clears the third one's polling and schedules a reconnect,
  which lets the third go, and so on for ever; every `onopen` resets the attempts, so the
  limit is never passed. The comment of the hook promises a reconnection that settles
  or gives up (`useMonitorSocket.ts:47`). The mock of its test runs `onclose` inside `close()`,
  in an order no browser has, which hides it.
- `trading_stale`: the user cancels an order and selects another account before the answer.
  The handler then calls the `reload` of the render it was made in: the loader is that of the earlier
  account, the context, read by `fetchData` when it starts, that of the present. The answer
  passes the check of the context, and overview, positions and orders of the earlier account stand under
  the name of the new one until the next poll. A test of the hook has late answers of an
  earlier loader ignored (`tests/shared/usePolling.test.ts:144`): it covers a load begun before
  the change, not one begun after it by an old function.

Two more disagreements show in properties that pass, because these state what the code
does:

- *Research* (`SearchesFit`): `openspec/specs/strategy-management/spec.md:193` has a Bayesian
  optimisation search iteratively, on the basis of historical trials. `_iter_bayesian_candidates`
  (`strategy_management/research.py:373`) puts all candidates in an order fixed before the first trial, by
  their distance from the middle of the grid; no score of a trial changes what is tried
  next. `CentreFirst` states that order. The method is a grid search that starts
  in the middle.
- *Preferences* (`PreferencesKept`): `openspec/specs/user-preferences/spec.md:34` has the field
  `advanced` controlled by the level of the user, and patches and imports of the code
  refuse a user of level 1 who brings settings (`user_preferences/domain.py:233`, `api.py:68`). But a reset
  by any user puts the default (`api.py:51`), and an import by a user of level 1, which must say
  null, erases what was stored (`api.py:70`). `SerialPatch` therefore speaks of patches
  only; `ResetPreferences` and `ImportPreferences` do what the code does.

## 8. Observations without a run

The following were met while modelling. The models of section 3 behave as described
here; no run singles these out, because they repeat the pattern of a run above, or
need no model checker to be seen. Paths are below `libs/` and their package.

- *Jobs*: two dispatches load one queued job before either saves it as running, and its
  task runs twice (`service.py:324`); two that count before either saves exceed the
  concurrency limit. A refused dispatch saves its queued copy. A job that is only
  submitted stays queued until somebody cancels it. Schedules are gone after a restart,
  although `openspec/specs/job-orchestration/spec.md:100` asks that they survive.
- *Ledger*: two purchases or withdrawals check the same balance, and together overdraw it
  (`openspec/specs/trading-account/spec.md:171` has a purchase the cash does not cover
  refused). The process may end between the status, the trade and the flow of a fill, which
  the same document (line 29) has in one transaction. `fill_order` (without the command)
  checks neither cash nor position and changes no position. Two commands that read one
  position row lose an update. A sale whose position shrank after the check raises with
  its trade and flow saved. The key of a batch is recorded at its end, in memory
  (`service.py:989`): a retry after a crash repeats it.
- *Backtests*: a cancellation and a completion that overlap end in whichever is saved later,
  although the backtest runner's specification says that a cancelled status is stable.
  A strategy can be deleted between the count and the insert of a backtest. A retried
  backtest is not executed by anything. A crash leaves its task running for ever
  (`service.py:677`), which keeps the strategy from being deleted until the user cancels it.
- *Engine*: the cost of a purchase counts its fee twice (`backtest_runner/service.py:361`,
  `strategy_health/engine.py:119`), so the gain of a trade is shown too small by the fee and a
  small gain is not a win; the equity is right. The Sharpe ratio uses the last day before its
  closing sale. The backtest of mean reversion gets out at the entry's distance on the other side,
  whatever `exitZ` says; the health analysis heeds it.
- *Strategy health*: a variation that the engine refuses fails the whole report, so windows of 10
  and 20, or an entry of 1 with an exit of 0.5, are never analysed, although a backtest
  runs them. A history too short for one trade is a low risk with 80 points. A
  strategy that lost less outside the sample than in it may be warned of doing worse
  (`analysis.py:97`), and a small gain after a loss gets fewer points than another loss
  (`:145`). A crash leaves a report running, and nothing takes it up.
- *Portfolios*: they exist in memory only. Two requests that add members exceed the
  limits. A portfolio whose new constraints are refused keeps the new name of the same
  request without a new version. A deletion that overlaps another ends in a `KeyError`;
  a save after a deletion inserts the portfolio again. A rebalance with targets for some
  of the members checks only the sum of those. A deleted strategy stays a member. No
  route archives a portfolio. Its risk status never changes for a drawdown, because
  the statistics it reads have none.
- *Research*: a trial is scored from its parameters, the strategy does not run: the best
  candidate of an exhausted search is the corner with the greatest values (the least to
  minimise). The Bayesian order enumerates the whole grid before the time is looked at.
  The result is computed before its job exists. An unknown method in the filter of the
  list is an uncaught error.
- *Signals*: a signal cancelled between the two loads of a batch is reported as executed.
  Executing a signal that is no longer pending returns it with 200, where the
  specification says the request is refused.
- *Accounts*: no store of reset links is wired, so the links of the running backend are
  lost in a restart; the store in memory checks a link and marks it in two steps, as does
  the one of confirmation tokens. No governance checker is wired; the catalogue asks for
  levels 3 to 5 where users have 1 or 2, so a wired one would refuse. `get_current_user`
  does not look at `is_active`: only the revocation of sessions keeps a disabled account
  out. The save is an upsert: a deleted account comes back. A login that
  overlaps a disabling, or a change of password, leaves a session.
- *Preferences*: of two patches at once one is lost, where
  `openspec/specs/user-preferences/spec.md` has them merged. What a user of level 1
  exports cannot be imported by him. A first read may overwrite a patch.
- *Risk*: the routes give a batch without a key one that never changes, so a user can
  submit it once. A notification saves copies of all pending alerts over what was
  resolved meanwhile. The dashboard reads in four transactions.
- *Market data*: `_call_with_retry` calls once. One symbol that fails makes the quotes of all
  fail. An asset that is not found is reported as an upstream failure. A subscription is
  answered with one poll, then nothing more is pushed. The greeting is outside
  the `try`: a client lost there keeps its place. The end of one socket clears the
  subscriptions of all the user's sockets. Cache and limiter are shared without a lock: two
  requests pass one place, one removes the fresh quote of another. A synchronization
  refused by the limit of jobs stays queued; the route that retries one runs any failed job of the
  user as a synchronization; the status of one being retried shows the result of the earlier
  attempt, and so does one its user then moves to running and succeeded by hand
  (`job_orchestration/api.py:254`), or it shows nothing; a run whose task was cancelled
  meanwhile leaves its result in memory, and a stale save may bring back an earlier
  status; what was synchronized is gone after a restart. The last value of the
  histogram may be 0 while the indicator is announced as available.
- *Monitor*: ids count as sent before truncation, so what is cut off never arrives on that
  connection. An error and its close event count as two attempts. A page whose session
  has expired is accepted, resets its attempts and is rejected, for ever
  (`useMonitorSocket.ts:136`). The last alert is never cleared from the page when it is
  resolved: an empty list is not sent.
- *Pages*: `useLoadable` shows the answer that arrives last, which is not always
  that of the newest request, and nothing reloads it (`useLoadable.ts:29`). Loads of one
  context are not ordered either: `usePolling` may replace newer data by older ones until the
  next poll. Once the first load has failed, the button to try again loads silently: the page
  shows neither error nor data nor that it loads. `loading` ends when an overlapping load
  that is not silent ends, although the first one goes on.

## 9. What is not modelled

- In the modelled components: names, parameters, symbols' data, metrics and texts; logging
  and counters of metrics; a database transaction that fails; the in-memory repositories
  with their snapshot unit of work, which the tests and command lines use; read models
  and statistics, dashboards, reports, searches and catalogues; command lines;
  `TASK_HANDLER_NOT_FOUND`, a case of `EXECUTOR_DISPATCH_FAILED`; ping and pong,
  unsubscribe, and the page's REST fallback while degraded.
- User accounts: hashes and cookies, the rate limit of reset requests, and the list of
  users. Administration: confirmation tokens and audit records, which nothing the backend
  wires asks for. Market data: indicator tasks, which are jobs like synchronizations without
  anything recorded, and what the provider does inside its call; the item
  `QUOTE_NOT_AVAILABLE` of a batch (`market_data/service.py:267`), for a symbol the provider leaves out
  of its answer, since both providers that are wired return every symbol or raise.
- Engine and health: the Sharpe ratio, rounding, and the errors of floating point;
  parameters that are not numbers, which the analysis skips; an analysis that raises for
  another reason (`ANALYSIS_FAILED`). To `StrategyBacktests` the outcome of the engine is a choice.
- Web pages: forms and tables keep no state that outlives their page; `useLoadable` has one
  function and no guard (section 8); the pages that poll without ever changing their loader
  (dashboard, notifications) are a case of the trading page. Of the hook, `enabled` is true
  once an account is selected.
- Platform core (response shapes, configuration, logging), data topology (a library its
  command line calls), frontend libraries, composition, deployment: no state of
  their own that outlives a call. Their wiring shapes every module (section 1).

`PROJECT.json` lists every component with its files and its status.

## 10. Plan

The order was, and is, by what goes wrong most expensively.

| step | module | composes | abstract specification | status |
| --- | --- | --- | --- | --- |
| 1 | `JobOrchestration` | | `JobRegistry` | modelled, checked, proved |
| 2 | `JobScheduler` | | | modelled, checked, proved |
| 3 | `TradingLedger` | | `OrderBook` | modelled, checked, proved |
| 4 | `StrategyBacktests` | strategy management and backtest runner | | modelled, checked, proved |
| 5 | `SignalExecution` | | | modelled, checked, proved |
| 6 | `MonitorSocket` | `MonitorServer` | | modelled, checked, proved |
| 7 | `UserAccounts` | `GovernanceCatalog` | | modelled, checked, proved |
| 8 | `RiskAlerts`, `RiskAssessments` | `GovernanceCatalog` | | modelled, checked, proved |
| 9 | `MarketQuotes`, `MarketStream`, `MarketSync`, `MarketIndicators` | | | modelled, checked, proved |
| 10 | `UserPreferences`, `Portfolios`, `StrategyResearch` | | pure operators of the search | modelled, checked, proved |
| 11 | `PollingHook` | checked with `MonitorSocket` | | modelled, checked, proved |
| 12 | `BacktestEngine`, `StrategyHealth` | checked with market data | pure operators of the engine | modelled, checked, proved |
| 13 | confirmation tokens, once the backend wires them | | | not modelled |

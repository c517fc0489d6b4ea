# OmniFusion: TLA+ models and proofs

OmniFusion is an OpenAI-compatible gateway (FastAPI, asyncio, SQLite) that
answers a request with one model, or with a *fusion*: a panel of models, a judge
and a synthesiser. Every call to a provider reserves money before it is made and
settles it afterwards, and passes a circuit breaker and a rate limiter. One
process serves everything; the interleavings are those of asyncio tasks at their
awaits, of SQLite transactions, of background sweeps, and of restarts.

This directory holds the models of its core, the configurations that check them
with TLC, and theorems checked by TLAPS. Paths below are relative to the package,
`src/omnifusion/`.

    tlasany M.tla ; tlc -config X.cfg M ; tlapm P.tla

## 1. Inventory

| Component | State | Operations | What is hard | What makes it correct |
|---|---|---|---|---|
| **Budget ledger** `budget/ledger.py` | tables `budget_ledger` (window: reserved, spent, ceiling) and `budget_reservations` | initialise a run, reserve, reconcile, cancel, sweep | concurrent callers, midnight, restart, sweep in two phases, migrated rows | counters are the sums of the rows; ceilings hold; a reservation is settled once, and in the end |
| **Budgeted calls** `fusion/runtime/executor.py`, `api/chat.py` | per call: reservation, actual cost, shielded settlement tasks | call, stream, close, finally blocks | cancellation at any await, shielded tasks that outlive it, a failing settlement and its second try, dropped streams | what the provider bills is what is booked; the ledger is used by its contract |
| **Circuit breaker** `ratelimit/circuit_breaker.py` | per provider: state, failures, last failure, probe flag | allow, record success, record failure | late results, a probe that never reports | consistent states; a provider is not refused for good |
| **Rate limiter** `ratelimit/limiter.py` | buckets, two levels of semaphores, slots | acquire, release | cancellation between two acquires; retries; streams keep their slot | permits are conserved; nobody waits in a circle |
| **LLM client** `llm/client.py` | per call: attempt, slot | acompletion, stream wrapper | 429 back-off without the slot, cancellation, streams without a deadline | every call ends |
| **Chat and responses API** `api/chat.py`, `api/responses.py` | slots per API key | create completion, hand the slot to the stream | wall timeout; a body never iterated keeps its slot | slots return; limits per key hold |
| **Fusion orchestration** `fusion/orchestrator.py`, `panel.py`, `judge.py`, `synth.py` | trace of a run, stage results | panel, judge, synthesis, degradation | partial failure of the panel, budget refusal in a stage, wall timeout | a refusal surfaces; an answer rests on a quorum; the trace tells what happened; a run ends |
| **Tool orchestration** `fusion/tool_orchestrator.py`, `fusion/strategies/tool_step.py` | proposals, the coordinating judge's choice | propose, decide, answer with tool calls or go on to a final answer | an index out of range, partial failure, a judge that fails twice | the tool calls returned are somebody's |
| **Conductor** `fusion/strategies/conductor.py` | plan, worker results, repairs | plan, work, verify, repair, merge | repair rounds, a refusal in a repair | repairs are bounded; a skipped one shows |
| **Web grounding and tools** `fusion/web_grounding.py`, `tools/` | none | budgeted search and fetch | partial failure | settles what it reserves |
| **Playground jobs** `admin/jobs.py`, `admin/routes.py` | registry of jobs, background tasks, event queues | run, read events, cancel, evict, sweep | readers that reconnect or are cancelled, eviction at the limit, a cancellation that is swallowed | nothing spends that nobody can find; every job leaves; a watched run is let alone |
| **Provider store and cache** `store/providers.py` | table and two caches | get, list, resolve, save, delete | a read overtaken by a save, a writer cancelled after its commit | what is served is at most one TTL old; a key never shadows a newer reference |
| **Runs and traces** `store/runs.py`, `api/traces.py` | table of traces | save, get, purge | retention, ownership | nobody reads another key's trace |
| **Lifecycle** `main.py` | heartbeat rows, background tasks | start, exclude a second worker, heartbeat, sweeps, health | late heartbeats, crashes, reused pids, processes of other users | one worker, and always one in the end; sweeps go on |
| **Panel selection** `fusion/runtime/bandit.py` | arm statistics | select, update | numeric edges | sizes and budgets are respected |
| **Pricing** `providers/pricing.py` | none | estimate, actual cost | rounding | the estimate bounds the cost |
| **Admin console** `admin/routes.py`, `csrf.py` | sessions, login attempts, the browser's cookie | login, logout, verify, sweep | limiter windows, tabs that share a cookie, lost answers | lock-out; a session that was given up is dead |
| API surface, response shaping, presets, secrets, CLI, evaluation harness | none or one table | conversions and CRUD | – | – |

A request goes: API (slot of its key) → strategy (single model, classic fusion,
tool step or conductor) → BudgetedExecutor (reserve) → LLMClient (breaker, rate
limiter, provider) → BudgetedExecutor (reconcile) → trace and response. The
ledger's sweep, the playground's sweep and the retention loop run beside it.

## 2. Modules

| Module | Role |
|---|---|
| `Totals` | the sum of a function's first n values, and the clamp `max(0, actual)` of what a settlement is charged |
| `BudgetLedger` | the ledger; also the abstract specification of what callers may do to it |
| `BudgetedCalls` | the four ways a call reserves and settles; implements `BudgetLedger` |
| `Upstreams` | the constants that the next three share |
| `CircuitBreaker`, `RateLimiter` | operators on the state of the two objects |
| `LLMClient` | `acompletion`, which composes both |
| `Semaphores` | the contract of an `asyncio.Semaphore` per member of a pool; `LLMClient` and `ChatApi` implement it |
| `FusionStages` | the state of a fusion run and the stages its strategies share |
| `ToolStep`, `Conductor` | the stages of those two strategies |
| `FusionRun` | one run of any strategy: composes the three, with the classic panel and the wall timeout |
| `ChatApi` | the slots of the API keys around a run, and the body of a stream |
| `PlaygroundJobs` | the playground's registry, tasks, readers and sweep |
| `ProviderCache` | the provider table and the two caches in front of it |
| `WorkerLease` | the single-worker rule and its heartbeats |
| `AdminSessions` | the login limiter and the sessions of the admin console |
| `MCProcess`, `MCConsole` | check three and two components that share no state in one run, one at a time |
| the other `MC*` | model values and bounds |
| `BudgetLedgerProofs`, `BudgetedCallsProofs`, `LLMClientProofs`, `ChatApiProofs`, `FusionRunProofs`, `ProviderCacheProofs`, `WorkerLeaseProofs`, `AdminConsoleProofs` | the theorems |

Operators named as mutants in their comments are deliberate mistakes, one line
away from the definition they would replace. They are never used by a
specification; they exist so that each property can be seen to fail.

### BudgetLedger

`ceiling`, `reserved`, `spent` are the columns of `budget_ledger`, by window: a
day (`global`) or a run (`request`). `reservations` is `budget_reservations`, in
order of insertion, with `key` the `budget_day_key` column, `opened` the day a
row was booked (history), `age` the time since `created_at` in ticks, and
`charged` what settled it (history). Each operation is one `BEGIN IMMEDIATE`
transaction and so one action: `InitializeRequest`, `Reserve` (with
`Affordable`, the ceiling test, and `Book`, the insertions), `Reconcile`, which
posts to the day of the reservation and not to today, and `Forget`: a caller
that loses its id. The sweep is several: `SweepSelect` reads its candidates,
`SweepCancel` and `SweepSkip` settle them one by one while others run.
`Restart` keeps the tables and loses `held` and `batch`. `InitMigrated` is a
database whose pending rows predate the columns `created_at` and
`budget_day_key`.

### BudgetedCalls

`pc` follows a call through `executor.py` (kinds `unary`, `stream`) or the
single-model path of `chat.py` (`direct`, `direct_stream`). The settlement is
awaited under `asyncio.shield`: `tasks` holds the settlements that are running,
numbered 1 (normal path) and 2 (finally block), and `Abort` and `LetGo` are the
cancellations that leave one running. A settlement can succeed (`Settles`), find
the row settled (`FindsSettled`), or fail (`SettleFails`, "database is locked").
`Dropped` is a response body closed between two chunks; `aclose` of
`BudgetedStream` is not modelled because no code in the package calls it. Time
passes whatever the calls do: no wait of a call keeps it below the sweep's
threshold. The stage timeout covers the library's call, not the waits for a token
and permits and the back-offs around it, playground runs are not under the wall
timeout, and a stream's deadline starts again with each chunk. So `Sweep` may
book at 0 the reservation of any call, dead or alive.

### CircuitBreaker, RateLimiter, LLMClient

No method of the breaker awaits, so each is atomic. `since` is the time since
the last failure and saturates at the cool-down. The recorders do not know which
call they speak for. A semaphore is a counter of free permits; `AcquireProvider`
and `AcquireGlobal` are the two halves of `acquire`, in that order, and `slot`
is what the call believes it holds. `LLMClient` has one program counter per
await of `acompletion`; the circuit is asked once, before the retry loop. An
asyncio semaphore that is free does not suspend its caller; the model lets
others run there too, which only adds behaviours. `Cancel` is possible at every
await: it releases, and tells the breaker nothing. `Direct` are the calls of the
single-model path, which pass no timeout, so that their streams are read without
a deadline. `TripsLeft` is how often a
call may still go upstream without asking the circuit again.

### Semaphores

What a caller of `asyncio.Semaphore` relies on: per member of a pool, the set of
users that hold a permit, never more than `Cap` of them (`Take`), each of whom
gives back what it took and nothing else (`Give`). The code keeps no such set: it
decrements and increments counters, the client through a `Slot` that remembers
what it holds, the API through flags and the `finally` block of whoever owns the
slot. `ImplementsSemaphores` maps the places where a call or a request holds a
permit to the holders: of its provider and of the process in `LLMClient`, of its
key in `ChatApi`.

### FusionStages, ToolStep, Conductor, FusionRun

`StrategyRegistry.execute` chooses by request and preset (`Strategy`): `B`
(`run_fusion_classic`), `_tool_step` (`run_fusion_with_tools`) or `conductor`
(`execute_conductor`). `pc` goes through `open` (the run's window), `web`,
`panel`, `judge` and `rejudge` (the second call, without `response_format`),
`synth`, `first` (the first chunk of a stream), `save` and `save_error` (the
trace of an answer, or of the exception that ended a classic run), `saved`. A
tool step has `decide` and `redecide`, the two calls of its coordinating judge,
between panel and answer, and what the judge's index means, in range or not, is
`Meant`; a conductor has `plan`, `verify`, `repair`, `reverify`
and `merge`. `panel` has the state of each call under `asyncio.gather`;
`results` is what has been gathered, and stays empty when a classic panel
raises. `own` is what a strategy adds up for calls of its own, `proposing` the
panelists with a tool call, `chosen` the one whose calls are returned, `repair`
the conductor's loop. `draft` is the `FusionTrace` being saved, `trace` the row,
`client` what the caller has got, and `billed` (history) what the calls cost. A
stream has its own life after that: `unstarted`, `yielding`, `reading`, `done`,
`body_save` are where the generator is suspended; it may be closed at a yield
(`Closed`), cancelled or broken at a read (`Breaks`), or never started
(`BodyIgnored`). `WallTimeout` may strike at any await before the response is
returned, also after a trace was committed. Every call of a provider is one that
`BudgetedCalls` describes; here it answers, fails (billed or not) or is refused.

Three differences between the strategies are in the model because they are in
the code. Only the classic panel raises a refusal: workers and proposers count a
refused panelist as a failed one, and judge, repairs and the web stage swallow
refusals. Only a classic run that fails leaves a trace. Only classic traces are
marked degraded after a judge that failed. The properties say which strategy
they speak of.

### ChatApi

`free` is the semaphore of each key, `pc` the place of a request: `waiting` for
a slot, `lookup` (preset and plugins, or the whitelist), `fusion` for a preset or
`single` and, if streamed, `first_chunk` for a single model (`Direct`), then the
body of a stream. `Leave` is the `finally` that gives the slot back, and every
path through it is an action of its own. `HandOver` leaves the slot with the
generator `_release_after_stream`, whose `finally` only runs if the generator was
started, and when it is dropped at a yield only when the collector closes it
(`Dropped`, `Collected`). `BodyIgnored` is a body that is given up before: its
slot is gone for good. `Holders` are the requests and streams at work with a
slot, `Lost` those whose slot is gone. `response_stream` reads the generator and
can fail between two of its items. The wait for a slot (10 s) and the wall
timeout are choices, since no property depends on how long they take.

### PlaygroundJobs

`registry` is the set of the dictionary's keys, `started` the order of the jobs'
`created_at`, by which `register` picks a victim, `job` the flags and
ages of each `PlaygroundJob`, `task` its background task, `verdict` the terminal
event in its queue, `reader` the run whose events a response streams. Creating a
task and registering it happen without a suspension in between and are one step
(`Run`, `RunEvicting`, `RunRefused`). `End` is every way in which
`run_playground_job` returns by itself, `Cancelled` its `CancelledError`,
`CancelSwallowed` the case in which an exception of the `finally` block of the
judge's call takes the place of the cancellation and is swallowed by
`run_judge`. The browser may reconnect (`Stop` frees the reader), and an old
response may notice late that its browser has left (`NoticesLeft`). `asked`
(history) is who told a task to stop. The ages 15 s, 60 s and 300 s are the
constants `Grace`, `Prune` and `Evict`.

### ProviderCache

A row is abstracted to the number of its writes and to the writes that brought
its key and its reference. A read is three steps, between which others run: the
miss, at which the reader takes the time (`GetMiss`), the `SELECT` (`GetRead`)
and the store under that time (`GetStore`); likewise for the list. A write
commits (`Commit`) and then drops both caches (`Invalidate`), unless it is
cancelled in between (`WriterCancelled`). `age` is how long ago a reader took
its time, `lag` (history) how long what was served last has been out of date,
`raced` (history) which caches a race has left outdated. A resolve is a list
followed, perhaps, by a get. `_cache_enabled` (`providers.py:13-17`) has no
caller, so the caches are always on, and so is the model's.

### WorkerLease

Per process id: what runs under it, the age of its row, the time since it read
the clock (`clock`: the timestamp is read before the wait for the write lock),
and when its heartbeat loop wakes up (`due`). The check of a starting process is
one `BEGIN IMMEDIATE` transaction: `Admit`, `Refuse` or `CheckFails`. `Exists`
is `os.kill(pid, 0)`: it also finds a process of another program that has
inherited the pid (`Reuse`), and it misses one that it may not signal: for a
process of another user it raises `PermissionError`, an `OSError` like
`ProcessLookupError`, and the row is deleted (`CanSignal`; `user` is who runs a
process). `Stop` is the shutdown, which cancels the loops and leaves the row; a
heartbeat under way may still arrive. The model is of one host whose workers
share one table of pids. `LeaseTick` keeps the loop on time and the wait for the
lock within `Wait`. `unheard` (history) has the serving workers whose latest
heartbeat failed or whose row was deleted since by one that may not signal them;
nothing looks again after a start.

### AdminSessions

`attempts` is the dictionary of the limiter, in time left and time since;
`sessions` the age of each row; `jar` the browser's cookie and `tab` its
requests. `_login_attempts_lock` is never held across a suspension and nothing
between the limiter's check and its update suspends (the password check runs on
the event loop), so a failed login is one step; the statements of a login, the
check of a session, the check of its token and a logout are steps of their own.
The answers of two tabs may arrive in any order or not at all (`Answered`,
`AnswerLost`). `failed` (history) holds the ages of the latest failures of an
address since its last sign-in, one more than it is allowed, `givenUp` the
sessions that a completed login or logout has ended.

## 3. Runs

| Run | Shows | Bounds |
|---|---|---|
| `budget_ledger` | types; `ReservedIsOutstanding`, `SpentIsCharged`, `CeilingHolds`; `SettledOnce`, `OnlyStaleAreSwept`; `EventuallySettled` | two runs, two reservations, two days, costs below 0 and above the reservation, ceilings that refuse the second reservation |
| `migrated_rows` | `MigratedAreSwept` is violated | one run, one row |
| `budgeted_calls` | `ExecutorBilled`; `ImplementsLedger` | two concurrent calls of any kinds, costs to 2, one stale age |
| `direct_billing` | `DirectBilled` is violated | two direct calls |
| `stream_dropped` | `ClosedStreamsReconcile` is violated | two streams |
| `llm_client` | `CircuitsSound`, `PermitsInUse`; `OpenCircuitDrains`; `ImplementsSemaphores`; `EveryCallEnds`, `ProbeReturnsOrCancelled` | three calls to one provider, one of them direct, caps 2 and 1, burst 1, one retry, threshold 2 |
| `fusion_run` | `RefusalSurfaces`, `QuorumBehindAnswer`, `AnswerIsTraced`, `ErrorIsTraced`, `TraceIsHonest`, `ToolCallsExist`, `SkippedRepairsShow`; `RunEnds` | three panelists, every strategy, every quorum, every combination of stream, fallback, store and web, two repairs, one chunk after the first |
| `process` | playground: `OrphansWereCancelled`, `FlagsMatchTask`; `JobsLeave` | two runs for one place in the registry, one reader at a time |
| | API: `SlotsConserved`; `EveryRequestEnds` | three requests of one key, one of them direct, or of none, two slots |
| | workers: `LeaseTypeOK`; `AdmittedInGap`; `WorkersComeBack` | two pids, two users, Stale 3, Beat 1, Wait 2, two mishaps |
| `slot_lost` | `SlotsAtWork` is violated | two requests of one key, one of them direct |
| `second_worker` | `AdmittedAlone` is violated | two pids, one user, Stale 8, Beat 3, Wait 5 |
| `playground_watched` | `WatchedRunsSurvive` is violated | one place, two readers |
| `console` | providers: `ServedFresh`, `StaleOnlyByRace`, `KeyDoesNotShadowRef` | one provider, two readers, one writer, two writes, TTL 2, reads of up to 1 |
| | sign-in: `LockoutHolds`, `GivenUpIsDead` | two addresses, two tabs, two session ids, lock after two failures for two ticks |

`process` and `console` put components together that neither share a variable
nor call each other: in a behaviour one of them is on (`part`) and the others
rest in one of their initial states, so their behaviours are the union, not the
product, of those of the parts. The types of the other modules are conjuncts of
a run's invariants or of an inductive invariant of section 5.

Why the bounds are enough. *Ledger*: the hard cases take two reservations (of
one window or of two runs in one day), one midnight, one age threshold, and a
sweep beside a settlement; `MaxReservations`, `LastDay`, `StaleAge` and
`SweepLimit` bound rows, days, ages and batches, and the proofs remove these
bounds for safety. *Calls*: the books of one call interact with those of another
only through the counters and the sweep, so two calls show every interaction.
*Client*: a provider cap above the global cap lets a call wait for the global
permit while it holds the other, and two failures plus one call show the circuit
opening and its probe. *Providers* share only the global semaphore, which three
calls to one provider exhaust. *Run*: three panelists give a refusal, a failure
and an answer at once, and quorums on both sides of the answers; two repairs
show one that is verified again and the last one, which is not; further chunks
(`MaxChunks`) repeat the same two places of the body. *Slots*: two holders and a
request that waits, of one key; keys share nothing. *Playground*: jobs interact
through the registry's limit alone, so one place and a run that wants it show
eviction and refusal; each age needs one tick beyond its threshold. *Cache*: ids
share only the invalidation and the list, and an overtaken read needs one
reader, one writer and a version to be overtaken by; the second reader and the
second write show a race after a race. *Lease*: the real times are 8 s, 3 s and
a lock wait of up to 5 s (`store/db.py:28`), that is, Beat + Wait = Stale; the
passing run scales them down to 3, 1 and 2, which keeps this equality, and the
violated one has them as they are. Two pids are one that serves and one that
starts, is left behind or is a foreign process, and `MaxMishaps` bounds crashes,
stops, reused pids and failing statements. *Sessions*: each id is drawn once,
two ids let a login replace a session while the other tab still uses it;
failures are counted per address, and the second address does the pruning.

Deadlock is not checked where every call, request or run may have ended or the
bounds may be used up (`BudgetedCalls`, `LLMClient`, `ChatApi`,
`PlaygroundJobs`, `ProviderCache`, and the runs that contain them).
`BudgetLedger` always has a step, and a run that is over stutters (`Over`), so
that `FusionRun` would deadlock anywhere else.

**Fairness.** `BudgetLedger`: time passes and the sweep loop of `main.py` runs
again and again: weak fairness of `Tick`, `SweepSelect` and `SweepSkip`, strong
fairness of `SweepCancel`, since a restart may interrupt a batch and the next
sweep selects the rest again; nothing is assumed of callers. `LLMClient`: weak
fairness of each call that has started (the event loop resumes it, the stage
timeout bounds the provider, the chunk deadline or the collector ends a stream)
and of the clock, except that a direct stream need not go on: it has no deadline
(`client.py:34-38`, `chat.py:111-126`). `EveryCallEnds` and
`ProbeReturnsOrCancelled` therefore say what follows if no direct stream stands
still for good (`DirectStreamsGoOn`). No call has to be issued; the waits of a
direct call before its stream are under the wall timeout, which cancels it, and
no other has to be cancelled. `FusionRun`: weak fairness of the run and of the
body, for the same reasons (the stage timeouts, and a server that reads on or
goes away); the wall timeout is not assumed to strike. `ChatApi`: weak fairness
of every request that was sent, except while a direct stream is read
(`Unbounded`), and strong fairness of the end of a preset's stream, which does
not yield for ever; that a slot becomes free is not assumed. `EveryRequestEnds`
holds with every slot lost or with silent streams, because the wait for a slot
ends after 10 s; a direct request may come to rest in its stream.
`PlaygroundJobs`: weak fairness of the sweep loop, the clock and each task's own
work, whose calls wait for permits without a deadline of their own: they come
back because every other call ends (`EveryCallEnds`), so this too is under the
condition that no direct stream keeps them; nothing of browsers and readers.
`WorkerLease`: the clock and the statements that wait for the lock, and a
supervisor that starts a process where none runs. A start that is refused may be
followed by another; `WorkerComesBack` holds because rows expire. In `process`
these are the fairness of the part that is on.

## 4. Findings

With a run that shows the counterexample:

1. *A direct call can be booked at 0 although it was answered*
   (`direct_billing`). When its first settlement fails or is overtaken, the
   finally block (`chat.py:270`) settles at 0. `BudgetedExecutor` remembers the
   cost (`ExecutorBilled` holds).
2. *A dropped stream is not settled when it closes* (`stream_dropped`), although
   `docs/budgeting-tracing.md:3-5` says so; it waits for the sweep and is
   booked at 0.
3. *A watched playground run is cancelled* (`playground_watched`). The generator
   of an old response sets `is_connected = False` when it notices that its
   browser has left (`routes.py:556`), also if a newer reader has connected; the
   grace period then runs out under that reader, against `jobs.py:78`.
4. *Migrated rows are never swept* (`migrated_rows`). `ledger.py:212` skips
   `created_at = 0`; `store/db.py:160-161` says that the back-fill with 0 makes
   such rows immediately eligible. A reservation that was pending at the migration
   keeps its amount in its windows for good.
5. *A slot is lost with a body that never starts* (`slot_lost`): a generator that
   was never asked for an item has no `finally` to run (`chat.py:70-77`), against
   `chat.py:55-57`. `SlotsConserved` shows that no slot is lost otherwise.
6. *A slow write lock lets a second worker in* (`second_worker`). A heartbeat
   counts for 8 s, but the next one is written 3 s and a wait for the lock later,
   with a time read before that wait (`main.py:248-259`): with waits of up to 5 s
   (`store/db.py:28`) the row of a healthy worker gets 13 s old, and a process
   that starts then deletes it and serves too, against `main.py:297`. It stays:
   the rule is checked at start-up only. `AdmittedInGap` shows that this takes a
   heartbeat that is waiting or has failed, or one worker that may not signal the
   other.

Read off the models, without a run of their own:

- *Direct streams have no deadline.* `chat.py:111-126` passes no timeout, so the
  wrapper's `chunk_timeout` is `None` and a chunk is waited for without bound
  (`client.py:34-38`, `client.py:167-169`; the first one at `chat.py:144`, outside
  the wall timeout), although the deadline is there "so a hung stream can't hold
  slots indefinitely" (`client.py:165-166`, and likewise `client.py:23-26`). A
  provider that goes silent keeps the permits of both semaphores and the slot of
  the key; `DirectStreamsGoOn` and `Settled` mark where the liveness properties
  leave this out.
- *A worker of another user passes for dead.* `os.kill` raises `PermissionError`
  for it, which `main.py:283-285` takes for a process that is gone: a worker that
  starts under another, unprivileged user deletes the live row and serves too.
- *A cache can miss its invalidation.* `providers.py:20` says the caches are
  invalidated on every save and delete. A writer that is cancelled after its
  commit does not (`providers.py:257`), and a read that was under way stores what
  was replaced after the invalidation (`providers.py:91`). `StaleOnlyByRace`
  shows that these are the only ways, and `ServedFresh` that what is served then
  is less than one TTL out of date.
- *Live calls are swept.* The comment at `ledger.py:196-198` relies on timeouts
  that a stream does not have, nor a call that waits for permits or in back-off
  (`client.py:155`, `client.py:199`) in a playground run. The sweep books such a
  call at 0, and its own settlement then finds it settled (`SettledOnce`).
- *A cancelled probe locks the circuit.* Neither recorder is called, so
  `allow_request` refuses for good. `ProbeReturnsOrCancelled` shows that
  nothing else does this.
- *An open circuit still takes retries.* The circuit is asked once, before the
  loop (`client.py:152-159`); a call that was admitted and then told 429 goes
  upstream again after its back-off, whatever the circuit says by then.
  `OpenCircuitDrains` bounds it: while a circuit stays open, only calls that it
  had admitted before reach the provider, each at most as often as it had
  attempts left.
- *Two probes at once.* A late failure of a call admitted before the circuit
  opened clears the flag of the probe, against `CHANGELOG.md:46-47`.
- *The trace of a failed classic panel is empty.* When `run_panel` raises, the
  answers that were paid for are in neither the panel nor the cost of the trace
  (`docs/budgeting-tracing.md:20`).
- *Refusals are downgraded outside the classic panel.* Proposers and workers
  turn `BudgetExceededError` into a failed panelist, so that a tool step or a
  conductor ends with the generic panel failure that
  `docs/budgeting-tracing.md:15-16` excludes.
- *The provider cache cannot be switched off.* `_cache_enabled`
  (`providers.py:13-17`) says that it is disabled under several workers, but is
  never called.
- *A playground trace is never degraded*, whatever its judge did
  (`jobs.py:288`).

## 5. Proofs

All theorems hold for every value of the constants that satisfies the named
assumptions of the modules (amounts and ceilings are naturals, costs integers,
`Calls`, `Requests` and `Panelists` finite, thresholds, caps and times naturals,
markers such as `NoTrace` or `NoKey` distinct from what they stand beside, a read
of the provider table shorter than the TTL). `WorkerLeaseProofs` has one
hypothesis more, Beat + Wait <= Stale, which is stated in its theorems and true
of the code. Each inductive invariant (`IInv`) was checked with TLC on
a small instance before it was proved.

**Ledger** (`BudgetLedgerProofs`). `TypeCorrect`, `Invariance`,
`ReservedConserved`, `SpentConserved`, `CeilingRespected`, `SettledOnceTheorem`,
`OnlyStaleAreSweptTheorem`. The sums are not inductive alone: a settlement
subtracts what the row says from the window that its `key` names, so `IInv` adds
that the windows of every row exist (`RowsExist`), that a key is the booking day
or NULL (`KeysSound`), that a row without `created_at` is nobody's
(`MigratedUntouched`, hence never settled against the wrong day), that a pending
row is uncharged (`PendingUncharged`) and that a batch stays stale
(`BatchStale`). With it a reservation changes three sums by the same amount
(`SumsReserve`), a settlement moves one term from one sum to another
(`SumsSettle`), and everything else changes none (`SumsUnchanged`). The code
subtracts the reserved amount plainly and clamps only what is charged; that no
counter becomes negative is part of the types and follows from the sums: the
window's counter contains the row's amount.

The module begins with the facts about `Total`, which is defined by choice of a
prefix sum; existence and uniqueness are proved with a least counterexample
(`LeastElement`), since induction principles over predicates are not available
to the prover. `TotalAppend`, `TotalUpdate`, `TotalSame`, `TotalZero` and
`TotalNat` are what the ledger uses.

**Client** (`LLMClientProofs`). `Invariance`, `TypeCorrect`,
`PermitsConserved`, `CircuitsAreSound`, `OpenCircuitsDrain`,
`PermitsImplementSemaphores`. Each place of a call holds 0 or 1 permit of either
kind. `Effect` shows that every action of a call moves it to a place and changes
the semaphores by the difference (`Moves`); `ReleaseEffect` needs that the slot
agrees with the place (`SlotsMatch`), which is why `PermitsInUse` contains it.
`Recount` relates the cardinalities of two sets of calls that
differ in one, and `MoveKeepsPermits` adds up. The types need `RetriesLeft` (a
call only backs off when an attempt is left). `PermitsImplementSemaphores` reads
the same `Moves` as a step of the abstract semaphores: a call that comes to a
place with a permit joins the holders, and there is room, because a counter that
can be decremented leaves fewer than the cap (`MoveIsProviderStep`,
`MoveIsGlobalStep`). That a circuit does not wait for a probe that has reported
is inductive by itself: a step of a call ends the wait, or makes the call the
probe, or leaves circuit and probe as they were (`ProbeStep`).
`OpenCircuitsDrain` follows from two facts: no step but an admission gives a call
more trips (`TripsStep`), and an admission ends the circuit's being open
(`OpenAdmitsNobody`).

**Calls** (`BudgetedCallsProofs`). `Refinement`: `Spec` implies
`ImplementsLedger`, with `held` refined by `Holding`, the reservations whose
owners may still settle them. A step of a call that the database does not see is
a stutter of the ledger or its `Forget` (`LocalStep`); a reservation is
`Reserve`, known or not (`StartSteps`); a settlement is `Reconcile`, because a
call with a settlement under way holds its reservation and keeps it once settled
(`SettleSteps`). The mapping needs an invariant: no two calls share a
reservation (`Apart`), what was swept is settled, and what is known of a call at
each place (`CallOK`: which settlements may run, that a reservation still
waited for was settled by nobody but the sweep). The ledger is instantiated a
second time with its theorems (`L`), so that the ledger's invariant comes along:
`NextInvariant` applies the ledger's own theorem to the mapped step, and
`LedgerIsSound` says that its sums and ceilings are right in the composed system.
`BilledByExecutor` uses that the cost a call remembers is fixed when its first
settlement starts. `HoldingIsNoGuard` shows that the conjunct `UNCHANGED held` of
the ledger's actions, here a condition on `Holding`, forbids nothing.

**Chat API** (`ChatApiProofs`). `TypeCorrect`, `SlotsAreConserved`,
`SlotsImplementSemaphores`. As for the
client's permits: every action moves one request from a place to a place and
changes the slots of its key by the difference (`StepMoves`), and two sets of
requests that differ in one are counted (`Recount`). The invariant adds that
whatever waits or holds has a known key. A move is a step of the semaphore of the
request's key or a stutter (`MoveIsPermitStep`); turning away an unknown key is a
stutter.

**Fusion run** (`FusionRunProofs`). All seven safety invariants of `FusionRun`
and its types from one invariant, for any panel, quorum, number of repairs and
of chunks. `Routes` says which strategy can be at a place, `Silent` what the
client may have been told there, `PanelBehind` that the panel was through with
its quorum (`Good`) before any place that leads to an answer, `Loops` how often
the conductor has repaired, `Billed` that what a trace may add up (`Paid`) was
billed, `Drafts` and `Traces` what the trace being saved and the saved one may
claim. There is a lemma per part. `SavingSteps` and `PaysSteps` sort the actions
by what they do to the trace and to the bill.

**Provider cache** (`ProviderCacheProofs`). `NothingOldIsServed`,
`StaleIsARace`, `KeysAreCurrent`. What is cached or held by a reader was replaced
no longer ago than the age of the entry or of the read (`CachesWithin`,
`ReadersWithin`), versions not yet replaced have no age (`Ageless`), a key and a
reference in one row were saved together (`AllPaired`), and an outdated cache
has its race on record or a writer ahead that will drop it (`StaleKnown`).

**Lease** (`WorkerLeaseProofs`). `TypeCorrect` holds for any times. The other
two assume Beat + Wait <= Stale, which the code's 3, 5 and 8 s satisfy with
nothing to spare. The row of a worker that sleeps between two heartbeats that
were heard was as old as the wait for the lock when it was written, so it is at
most Beat + Wait old, less what is left of the sleep (`Recent`): every check
keeps it, and counts it unless the one who checks may not signal the worker
(`RecentCounts`). Nothing is claimed of a row whose worker waits to write the
next one, which may have expired and been deleted. Hence `AdmissionOnlyInGap`.

**Sessions** (`AdminConsoleProofs`). `EndedSessionsStayDead`: the only step that
revives a row inserts a fresh id, and what is given up was drawn before; a login
gives up its cookie one statement after it has deleted the row, so the invariant
says that the row is still gone then (`CookiesKnown`). `LockoutIsKept`: a record
counts every failure of the last lockout and is as old as the latest one, and a
count that is used up stays locked until that one is a lockout old (`Counted`).
Hence a pruned record had no recent failure to count (`ForgottenUncounted`), and
when an unlocked address fails with its count used up, all its earlier failures
are old (`FailureCounted`). The limiter and the sessions share no variable, and
`IInv` is the conjunction of an invariant of each.

**Playground** (same module, which extends `PlaygroundJobs` too).
`FlagsAreTrue` and `NoOrphans` follow
from what holds of every run, registered or not (`RunOK`): completion is claimed
by no task at work, and a job that is marked cancelled belongs to a task that was
told to stop. That is what makes pruning sound: a cancellation that the judge
has swallowed leaves a task at work whose job is marked, and the sweep removes
it (`SweepSteps`).

**Only model-checked**: liveness (`EventuallySettled`, `EveryCallEnds`,
`ProbeReturnsOrCancelled`, `RunEnds`, `EveryRequestEnds`, `JobsLeave`,
`WorkersComeBack`), which needs fairness and `ENABLED` and is
out of the prover's reach. Every other property of a passing run is a theorem.

## 6. Not modelled

Inside the modelled components: the choice of provider, request contents, token
counting and prices (data), logging, and the breaker's configuration from the
settings, which happens once at start-up. `BudgetLedger` abstracts an SQLite
transaction to a step that happens or does not; a crash inside one is rolled
back and equals no step. `FusionStages` leaves out prompts, the texts of answers
(but not whether there is one), usage sums and stage events. `ChatApi` leaves
out what a run does; `PlaygroundJobs` likewise. `ProviderCache` leaves out
encryption and the redacted views, which read the table directly.
`AdminSessions` leaves out pages, which only read, and forms, which call the
stores.

Components left out: panel selection is a sort by a real-valued score over
statistics that no caller passes, and pricing is floating-point arithmetic over
a library's price table; the models take any panel and any cost instead. Traces
are read and purged by single statements. The API surface, response shaping,
presets, secrets, the command line and the evaluation harness are conversions,
single-statement CRUD or offline sequential tools; the web tools' fetching and
parsing is I/O.

## 7. State and what is left

The models of section 2 are complete as far as section 6 goes. Every invariant,
action property and refinement of a passing run is proved for all values of the
constants; the liveness properties and the six violations rest on TLC alone.
`ChatApi`'s refinement of `Semaphores` is proved and not part of a run. What one
could add:

1. The playground's watched runs: how early the sweep can strike a run that is
   being watched, which needs a history of the readers that overlapped, next to
   the violation of `WatchedRunsSurvive`.
2. One module in which a request that holds the slot of its key (`ChatApi`) makes
   its calls (`BudgetedCalls`) through the client (`LLMClient`). Each takes what
   it needs in this order and waits with a deadline for the first, so no circle
   is possible; the composition would say so in one place, at a state space far
   beyond that of its parts.
3. Runs for the findings of section 4 that have none, first of all the deadline
   of direct streams, the single probe, and the invalidation of the caches.

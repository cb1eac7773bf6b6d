# A verification development for cloud-microservices

TLA+ specifications of the repository's own control logic, TLC models of them, and TLAPS
proofs of the properties that matter most. Every definition is translated from the source;
`PROJECT.json` maps each to its lines.

## 1. The system

| Part | Source | State it keeps | Operations | What makes it hard |
|---|---|---|---|---|
| Recovery watcher | `src/orchestration/recovery.py`, `health_check.py`, `__init__.py` | failure counter and event history per service, stop event | poll cycle, escalate to `docker start`, back off, stop on a signal | recoveries suspend the cycle while answers grow stale; docker fails or is absent; containers change under it |
| Orchestrator | `src/orchestration/orchestrator.py` | the compose stack it brought up | `up`, wait until healthy, watch, `down` | signals during start-up, watch and tear-down; compose failing half way; containers it recreates |
| Containers / docker | `src/docker-compose.yml` (external daemon) | container states | start, stop, restart policy | races of stop, start and exit |
| Fault injector | `src/services/fault-injector/app` | latency and error rate; the containers | kill, restart, latency, error, slow, broken | blocking docker calls in threads, allow-list, daemon errors |
| cpp-worker pool | `src/services/cpp-worker/src/thread_pool.hpp` | task queue, stop flag, threads | submit, worker loop, destructor | lost wakeups, shutdown with tasks queued, submit against destructor |
| cpp-worker square_sum | `src/services/cpp-worker/src/main.cpp` | accumulator in the caller's frame, metrics | chunk, submit, merge, await | references into a frame, chunk arithmetic, one pool for all requests |
| service-a `/process` | `src/services/service-a/app/main.py`, `worker.py`, `src/shared/utils.py` | tasks and semaphore of an attempt | fan out, gather, retry, call cpp-worker, aggregate | failures cancel nobody, late answers, one semaphore per attempt |
| service-a `/process/queue`, `/process/threadpool` | same | asyncio.Queue, consumers; executor | produce, consume, join, cancel | join/cancel order, failing consumers |
| api-gateway | `src/services/api-gateway/app` | none | proxy with a 10 s timeout, `/system/health` | timeouts against late answers, a peer that dies |
| service-b | `src/services/service-b/app` | key/value store, lost on restart | put, get, delete, list, squared | nothing: each endpoint is one step of the event loop |
| Request metrics | `src/shared/fastapi_app.py`, `utils.py`; `Metrics` in `main.cpp` | counters | record, snapshot | torn snapshots of relaxed atomics; restarts that reset |
| Metrics collector | `src/monitoring/metrics_collector.py` | latest file, history file | scrape, write | a death between the two writes or in the middle of one, a reader in between |
| Log aggregator | `src/monitoring/log_aggregator.py` | child process | read, emit, stop | stop noticed only at the next line, with lines still buffered; a child that ignores SIGTERM |

How they interact: clients call the gateway; the gateway calls service-a over HTTP; service-a
calls service-b once per item and cpp-worker once; the watcher probes `/health` of all five
and runs `docker start`; the fault injector stops and starts containers behind the watcher's
back; collector and aggregator only read. There is no shared memory between processes: what
is concurrent is the event loop's tasks inside a service, the threads of cpp-worker, and the
processes against each other.

What each part must get right, in one line:

| Part | Property that makes it correct | Where |
|---|---|---|
| watcher | a service is restarted exactly when it missed the threshold's number of probes in a row, and comes back while somebody watches | `EscalatesOnlyAfterThreshold`, `DetectsWithinThreshold`, `ImplementsSelfHealing` |
| orchestrator | exit status 0 means it was asked to end and took its stack down; `--no-down` is kept | `ZeroIsEarned`, `NoDownIsKept` |
| fault injector | what it answers is what happened to the container; nothing off the allow-list goes down | `AnswerIsTrue`, `KillSticks`, `AllowListHolds` |
| both together | a kill never disturbs the watcher's counting, and is healed | `WatcherUndisturbed`, `KilledComesBack` |
| thread pool | every accepted task runs exactly once; the destructor returns | `ImplementsTaskPool` |
| square_sum | each answer adds each of its own items once; no task outlives its caller's frame | `AnswerIsWholeSum`, `NoDanglingReference` |
| service-a fan-out | a status rests on the calls of one attempt; calls in flight are bounded | `StatusIsTrue`, `InFlightBounded` |
| service-a queue | complete results in order, or an error; `join` returns | `AnswerIsInOrder`, `JoinMeansDone`, `ImplementsParallelMap` |
| cpp-worker metrics | no request is lost or counted early | `ExactWhenIdle`, `ScrapeCountsCompleted` |
| gateway | the client is answered; a result it gets was earned; the work of a client that left still ends | `ClientIsAnswered`, `ResultIsEarned`, `AbandonedWorkEnds` |
| `/system/health` | no fleet is called healthy with a service that did not answer | `HealthIsTrue` |
| collector | the current file is the newest document; a death costs the history one tick, and a torn line one more | `CurrentIsNewest`, `LossIsBounded` |
| Python metrics | what the history says of a service is true, across restarts | `CountsAreTrue` |
| aggregator | lines come out once and in order, only a tail is lost and only after a signal or an over-long line; no child is left behind | `OnlyTheTailIsDropped`, `NoChildLeftBehind` |

## 2. Modules

| Module | Models | Kind |
|---|---|---|
| `DockerDaemon` | containers, restart policy, `docker start`/`stop` as the code relies on them | environment, extended by the control plane |
| `RecoveryWatcher` | the loop of `recovery.py` with the probes of `health_check.py`, extends `DockerDaemon` | detailed |
| `SelfHealing` | what the loop promises | abstract |
| `RecoveryWatcherProps` | its properties and the refinement mapping | properties |
| `TaskPool` | what the C++ pool promises | abstract |
| `ThreadPool` | `thread_pool.hpp` | detailed, implements `TaskPool` |
| `ThreadPoolProofs` | invariance and refinement | proofs |
| `Chunking` | the chunk arithmetic of `ComputeSquareSumThreaded` | operators |
| `SquareSum` | requests, tasks, mutex and frame of `/square_sum`, over `TaskPool` | detailed |
| `SquareSumProofs` | the partition theorem and the invariants | proofs |
| `FanOut` | one `POST /process` of service-a with its retries | detailed |
| `Gateway` | one request to the api-gateway, extends `FanOut` as the service behind it | composition |
| `GatewayProofs` | invariants of a request across both, the bound on its calls, health documents | proofs |
| `ParallelMap` | a map over items, at most so many at a time | abstract |
| `QueuePipeline` | one `POST /process/queue` | detailed, implements `ParallelMap` |
| `QueuePipelineProofs` | invariance and refinement | proofs |
| `WorkerMetrics` | the request counters of cpp-worker | detailed |
| `WorkerMetricsProofs` | that no addition is lost and no request counted early | proofs |
| `MetricsCollector` | `metrics_collector.py`, with the counters of the Python services it scrapes | detailed |
| `LogAggregator` | `log_aggregator.py` and the compose process it reads from | detailed |
| `MonitoringProofs` | invariants of the collector's files and counters, and of the aggregator (whose names are prefixed, so that both fit) | proofs |
| `Orchestrator` | `orchestrator.py`, with the watcher reduced to how it ends | detailed |
| `OrchestratorProofs` | invariants of its lifecycle | proofs |
| `FaultInjector` | kill and restart of the fault injector, extends `DockerDaemon` | detailed |
| `ControlPlane` | `RecoveryWatcher` and `FaultInjector` on the same containers | composition |
| `ControlPlaneProofs` | invariance and refinement of the watcher, invariants of the injector, and both carried over to the composition | proofs |

### RecoveryWatcher

`pc` is where the coroutine `run()` is: `"loop"` (waiting for the interval), `"tick"`
(gathering, then handling results in the order of the targets), `"starting"` (awaiting
`docker start`), `"recording"` (its exit status is known), `"backoff"`, `"stopped"`,
`"crashed"` (docker could not be run). `results` and `next` are the gathered list and the position in it;
`consecutive_failures`, `last_event` and `stop` are the fields of the same meaning.
`missed` is an auxiliary variable no action reads: the probes that really failed in a row.
It lets the properties speak about probes rather than about the counter under test.
The actions follow the code: `HandleOk`, `HandleFailure` and `Escalate` are the three ways
through the body of the loop in `_tick`; `DockerStart`, `RecordEvent` and `BackoffEnds` are
`_recover` split at its awaits, because containers change at each of them; `DockerMissing`
is the exception of `create_subprocess_exec`, which may come at any escalation. The contract
`SelfHealing` counts a crashed watcher as one that no longer watches.

`DockerDaemon` lets containers crash (the restart policy relaunches them), hang, be stopped
(they answer or not while stopping) and be started by others. `docker start` on a container
that runs is a no-op with exit status 0, which is what makes wedged services and services
that are still stopping interesting.

### ThreadPool and TaskPool

What a thread does under `mutex_` is one action; `notify_one` and `notify_all` come after the
unlock and are actions of their own. A thread blocked in `cv_.wait` is `"waiting"`; a woken
one tests the predicate again and is at `"loop"`. Each task is one call of `Submit` by an
arbitrary thread, which subsumes threads that submit several tasks in sequence. The
destructor may begin at any time, before, between or after the submits. One obligation is
put on the client, the one C++ puts there: the pool's memory is not freed while a call of
`Submit` has yet to notify (`JoinAll`).
`TaskPool` says what remains when threads, queue and condition variable are forgotten.

### SquareSum

The pool appears through `TaskPool`'s actions, so the order in which it runs tasks is
arbitrary. A partial sum is abstracted to the index of its chunk and an accumulator to the set
of partials it contains; `accumulator += partial` is a load (`Lock`) and a store (`Store`),
so that a missing mutex would lose one. `Chunking` is the arithmetic, with C++'s rounding.

### FanOut and Gateway

One request. `task[a][i]` is the asyncio task attempt `a` created for item `i`; tasks of
earlier attempts stay there and keep moving, as nothing cancels them. A call ends with a
result, with an `httpx.HTTPError` (which includes its 5 s timeout), or with another exception.
`raised[a]` is the exception gather raises for the attempt. Permits are handed out in item
order: asyncio starts tasks in creation order and its semaphore is first-in first-out. The
numbers are left out but for one thing: a sum that overflows to infinity cannot be rendered as
JSON, so `Aggregate` ends in a 200 or in a 500.

`Gateway` adds the gateway's side of the request: `gw` is where its handler is, `serving` says
whether a process of service-a has the request and runs. The client's timeout may end the wait
at any moment (`GiveUpWaiting`), service-a's process may die (`ServiceADies`; the gateway may
notice the broken connection, or only its timeout), and a gateway that left does not stop
service-a: `ServiceAHandles` and `ServiceACalls` are `FanOut`'s steps and go on. `/system/health`
is three probes at once; `"garbled"` is a 200 whose body is no JSON, which `_probe` does not
catch. Each run of the model is one request to one of the endpoints.

### QueuePipeline and ParallelMap

One request. asyncio switches tasks at awaits only, so the actions are what happens between
two of them: `Get` takes an item, `WorkReturns` and `WorkRaises` are the two ends of the work
function, each with the write to its slot or to the failure list and with `task_done`;
`CancelConsumers` is the return of `queue.join` with the cancellations, `Reply` the end of
gather with the choice of the status. `aggregate` is what `_aggregate` will make of the results,
fixed with the request: a finite number, an infinite one (which JSON cannot say, hence a 500) or
a ValueError. The producer has no await and is the initial state.
`ParallelMap` says what remains without a queue and consumers: items are started, at most
`Capacity` at a time, each succeeds or fails once, and the map returns results in order or raises.

### WorkerMetrics

`InstrumentHandler` around every handler, on the threads of the HTTP server. The counters are
relaxed atomics: each addition is one action and nothing is lost, but the two additions of one
`Record`, and the two loads of one `Snapshot`, come in either order. `total_latency_ms` is a
plain double: adding to it is a load (`Lock`) and a store (`StoreAndUnlock`) under the mutex.
A scrape runs inside a handler that is itself instrumented. Time is abstracted to one unit per
request, so that latency and count can be compared.

### MetricsCollector

The collector's tick is split where a death or a reader can see the difference: the scrapes,
the truncation of the current file, its writing, the append to the history. `current.at` and
`history[n].at` are the numbers of the ticks. `history` holds the lines that can be read; a death
in the middle of a line (`DieInLine`: a full disk, a power cut) leaves the file `torn`, and the
next line is joined to what is there, so that it cannot be read either (`HistoryWith`). An empty
and a partial current file are both `NoDocument`. `collectorDeaths` and `cuts` are auxiliary: they
count deaths over all runs of the collector with the same two files, and those in the middle of
a line. `Service` stands for the Python services of `default_targets`, which count and answer on
one event loop: `record` and `snapshot` have no await in them, so each is one step by nature, not
by a property that could check it. The fourth target, cpp-worker, answers from threads, and its
documents may be torn: that is `WorkerMetrics`. A service completes requests
(`Complete`: the middleware's `finally` clause, one step because nothing awaits in it) and
restarts with fresh counters; `life` is what its uptime tells.

### LogAggregator

`loop` is how far `_amain` is with its loop and its finally clause, `child` is the compose process,
`lines` the kinds of the lines it wrote: a text, a blank one, or one longer than the limit of
asyncio's stream reader, which raises. `read` and `emitted` are how far the loop got. The finally
clause is `NothingToStop`, `Terminate`, `WaitReturns` and `WaitTimesOut`; SIGTERM may be ignored,
SIGKILL not. The lines docker wrote and the loop has not read are in the pipe; a loop that ends
early leaves them there, and `OnlyTheTailIsDropped` counts them as lost.

### Orchestrator

`pc` is where `_amain` is: `"up"`, `"waiting"`, `"watching"`, `"down"`, `"exited"`. Compose
creates containers one at a time in the order `depends_on` asks for, and puts a new one in the
place of each that is `outdated` (`up -d --build` after a change of image or settings). Docker
may become unavailable at any moment: `up`, the watcher and `down` may raise (`ComposeUpFails`,
`WatcherRaises`, `ComposeDownFails`). Containers boot, die and are relaunched whenever they
like; the probes of one cycle are answered one by one. Signal handlers are installed right before the watcher starts and stay for good: during the
watch a signal stops the watcher, during the `down` that follows it is recorded and changes
nothing; wherever no handler is installed, the `down` after a failed wait included, it ends the
process. `code` is the exit status decided on so far.

### FaultInjector and ControlPlane

A call is received, checked against the allow-list, queued for a thread of the default
executor, and carried out in it: `docker stop` holds the thread until the daemon tells it the
container exited (`"awaiting"`, then `"exited"`: the answer is about that exit, not about the
container at the moment the call returns), `docker start` does not wait. Docker may not know
the name, refuse, or be unreachable, at each of the calls. `DaemonActs` joins what containers
do by themselves with what calls are told of it. `InjectorSpec` is the injector alone, with
nobody else to start and stop containers; `ControlSpec` adds the watcher, operators and the
restart policy.

## 3. Runs

| Run | What it shows | Bounds, and why they are enough |
|---|---|---|
| `watcher` | escalation exactly at the threshold, detection in the cycle that reaches it, `SelfHealing` with its progress, a signal ends the loop | two targets (one is recovered while the other's answer ages), threshold 2 (one failure below it), three faults: a stop, a failed `docker start` or one that cannot be run, and a crash during a recovery; 72 188 states. Thresholds below one behave as one (`Limit`) and are covered by the proofs |
| `thread_pool` | wakeups; `TaskPool`: exactly-once, draining, destruction, progress | three threads and three tasks: one thread each asleep, awake and busy |
| `square_sum` | whole sums, no task outlives its frame, every request answered | three threads and up to five items: fewer items than threads, an even split, a clipped chunk, a loop that breaks early; two requests |
| `gateway` | the client is answered, a result was earned, statuses and health documents are true, calls in flight are bounded, abandoned work ends | three items over two permits: one waits; two attempts: one that fails, with its orphans, and the last; three services to probe, as the code has; 92 067 states |
| `fan_out_concurrency` | violation: more in flight than the configured maximum | |
| `queue_pipeline` | complete answers in order, `join`, the parallel map with its end | four items, three consumers: one that goes on, one that waits, one that fails |
| `orchestrator` | exit statuses, `--no-down`, the end of the start-up | three services with a dependency between them, each absent, up to date or to be recreated; three poll cycles (first, middle, last), two containers that die; 33 456 states |
| `worker_metrics` | no lost addition, scrapes of completed requests, everything recorded | three threads: two record while one scrapes; four requests, so a thread records twice |
| `metrics_collector` | the two files across deaths, true counts, the end of the loop | two services, two ticks (a newer and an older document), two requests, two deaths: of the collector in one tick and the next, or of a service in between; a torn line and the line joined to it; 1 039 323 states. A whole line after a joined one takes a third tick: that is in the theorem, which has no bounds |
| `log_aggregator` | lines once and in order, losses at the tail only and not without a cause, no child left, signals noticed | five lines: of each kind, before and after a signal; 18 501 states |
| `fault_injector` | truth of the answers, the allow-list, kills, answers in the end | three calls over two threads: one waits for a thread; two containers, one on the list |
| `control_plane` | the composition implements `RecoveryWatcher`; a killed container comes back | one container, two calls and two faults across the recoveries of the watcher |

`watcher` covers what differs between targets; `control_plane` has one target because neither
part looks at two containers in one step.
Deadlock checking is off in all of them: a watcher that was stopped, a destroyed pool, an
answered request and an exited process are the ends of these systems.

**Fairness.** The watcher's loop is one coroutine: weak fairness of its step, because probes
have a timeout, docker exits and sleeps end; docker finishes a boot, an exit and a relaunch it
began. Faults, operators, signals and the recovery of a wedged process are not fair. In
the pool every thread that can run is weakly fair (the mutex is held for bounded critical
sections only), tasks terminate, and nobody is obliged to submit, to destroy, or to wake up
spuriously. In `SquareSum` the handlers and the bodies of accepted tasks are weakly fair, the
latter because `ThreadPool` implements `TaskPool!Progress`. In `FanOut` and `QueuePipeline` the
event loop runs ready tasks and every call ends, as it has a timeout. In `WorkerMetrics`
handlers end. In `Orchestrator` compose ends one way or the other and the watcher returns once
it was asked to (`StopsWhenAsked` of `RecoveryWatcher`). In `Gateway` both event loops run and timeouts end every wait; nobody has to notice a death.
In `MetricsCollector` scrapes and waits end, and nobody has to run the collector again. In
`LogAggregator` the loop reads what there is and SIGKILL takes effect; docker need not write,
end or obey SIGTERM. In `FaultInjector` threads run, the
executor is first-in first-out, and docker ends the exits it began; nobody has to send a
request and nothing has to fail. `ControlPlane` is fair as its parts are.

Each passing property is also run against a mutant of the code, defined next to the definition
it changes: a threshold off by one, a counter not reset, a notify only when the queue was
empty, an exit that does not drain, an unguarded accumulator, a permit given back early, a
consumer that forgets `task_done`, a tear-down that looks at the wrong flag, a restart that is
`docker restart`, a stop that polls for the container's state, a gateway without
`raise_for_status` or without a timeout, a history opened with `"w"` or written first, a loop
that takes the exit of the child for the end of its output.

## 4. Findings

* `concurrency` does not bound the in-flight requests of `/process`: orphans of a failed
  attempt overlap with the next one (`ConcurrencyIsTheMaximum`). What does hold is one bound
  per attempt begun (`InFlightBounded`), which is also proved.

Noticed while modelling; visible in the actions named, with no run of their own:

* `docker start` of a service that runs and does not answer is a no-op with exit status 0: the
  loop records a successful recovery of it every few cycles and it stays as it is (`StartEffect`);
* a missing docker executable ends the watcher at its first escalation (`DockerMissing`);
* a 502 of the gateway may hide work that succeeded or still runs (`GiveUpWaiting`), and it
  turns service-a's 400 for an unsupported operation into a 502 (`Relayed`);
* a body of one service's `/health` that is no JSON turns `/system/health` into a 500
  (`HealthBroken`), and the same in `/metrics` ends the collector (`Dies`);
* the current metrics file is rewritten in place: a reader may find it empty (`Truncate`);
* on a silent stack a signal does not end the log aggregator, and the line that wakes it is
  dropped together with all that docker wrote behind it (`ReadLine`); a line longer than 64 KiB
  ends it, and is dropped with all behind it (`ReadTooLong`). "So nothing gets silently dropped"
  (`log_aggregator.py:6`) is true of lines that are no JSON, which is what it is said of, and of
  a run that reads to the end of its output; of lines in general `OnlyTheTailIsDropped` is what
  holds;
* a line of the history that was written in part is never completed or cut off: the next run's
  first line is joined to it, and both are unreadable (`DieInLine`, `HistoryWith`);
* a `sum` that overflows answers 500, although every call succeeded and the operation is known
  (`Aggregate` of `FanOut`, `Status` of `QueuePipeline`);
* the retry budget `worker.py:52` calls individual belongs to the whole fan-out (`GiveUp` needs
  no item that failed every time);
* `docker compose up` that fails half way leaves its containers up (`ComposeUpFails`);
* a metrics document may show more errors than requests (`ReadCount` and `ReadErrors` are two
  loads);
* an APIError of docker is answered with 200 and `accepted = false`, where `inject_kill`
  documents a 500 (`DaemonRefuses`), and "started" may be said of a container that is about to
  exit (`StartReturns`).

## 5. Proofs

The theorems hold for every value of the constants: any number of targets, threads, tasks,
requests, items, calls and consumers, any threshold, any fault bound. The assumptions are the
named ASSUMEs of the modules: there is a target, a thread, an item; task and call sets are
finite; thresholds and `queue_workers` are integers; the allow-list names targets.

* **Watcher.** `CountsMissedProbes` proves `IInv`, whose heart is `CountLink`: the counter the
  code keeps equals the number of probes missed in a row, except that a result not handled yet
  is one ahead and a recovery is at the limit. Neither `EscalatesOnlyAfterThreshold` nor
  `DetectsWithinThreshold` is inductive without it, because the counter is updated steps after
  the probe failed. `WatcherImplementsContract` is the step simulation of `SelfHealing!Safety`.
* **Pool.** `PoolInvariant` proves `IInv`: `NoLostWakeup` counts queued tasks against threads
  on their way to the queue and notifies to come (the weaker "somebody is on the way" is
  not inductive: one Take uses up one of them), `OnePlace` locates every accepted task.
  `PoolImplementsTaskPool` is the simulation of `TaskPool!Safety`.
* **Square sum.** `ChunksPartition` is pure arithmetic: the chunks the loop submits partition
  the items for every length and thread count. `FrameInvariant` ties the frame of a call to its
  tasks, and `AnswersAreWholeSums` follows from both.
* **Queue pipeline.** `IInv` says that the queue's count of unfinished items is what the queue
  still holds plus what consumers work on (`CountOK`), and that every item taken is in exactly
  one place (`PlacesOK`). When `join` returns the count is zero, hence nobody works and every
  item has a result or a failure; `PipelineImplementsMap` is the simulation of
  `ParallelMap`'s safety part, for every integer of `queue_workers`, zero and below included.
* **Gateway and fan-out.** `GatewayInv` says what the handler's place implies about the calls
  behind it: a failed attempt has a failed call, attempts to come have created nothing, the handler
  goes on only when all calls of its attempt succeeded. `StatusIsTrue` is not inductive without it,
  as the status is decided steps after the call failed. `CallsInFlightAreBounded` counts: each
  attempt's calls hold permits of its own semaphore (`PermitsHeld`), and numbering them within
  their attempt maps the calls in flight one to one into pairs of an attempt begun and a permit.
  `HealthInv` does the same for `/system/health`: a 200 rests on answers of all probes and a 500 on
  a garbled one, and no later answer changes an earlier one.
* **Counters.** `CountersInvariant`: a counter plus the threads that have yet to add to it is
  the number of requests that ended, and the latency a thread loaded under the mutex is the
  latency there is. `UnderWayOK` ties the requests accepted to the threads in a handler.
* **Injector.** `InjectorInv` says who may wait for what: calls past the check are for allowed
  containers, a queued call is queued once, and a stop is awaited only while its container is
  on the way down (`StopsAreUnderWay`). `KillsStick` needs the last one: a call that was told of
  an exit saw the container of its own name go down.
* **Control plane.** `WatcherBesideInjector` shows that every step of the composition is a step of
  `RecoveryWatcher` or a stutter: what the injector does to a container, somebody in the watcher's
  environment could have done. The watcher's theorems then hold in the composition,
  `EscalationBesideInjector` and the contract (`ContractBesideInjector`) being spelled out.
  `InjectorBesideWatcher` is the other direction, by the invariant, which no step of watcher,
  operator or daemon breaks; the truth of the answers follows (`AnswersBesideWatcher`).
  `AllowListHolds` and `KillSticks` are about the injector alone: others do start and stop
  containers.
* **Orchestrator.** `IInv` adds to the three properties what they lack to be inductive: the exit
  status decided on fits the place `_amain` has come to (`CodeOK`), a `down` is under way only
  where it is wanted (`DownIsWanted`), and what probes of a cycle answered is about containers
  that exist, as nothing but `down` removes one (`AnswersHold`). `NoDownKeepsStack` is an action
  property by the same invariant.
* **Collector.** `CurrentIsNewest` and `LossIsBounded` compare the two files; they need the
  place the tick has come to. `TicksOK` says that while a tick is under way its number is newer
  than every line, and which ticks have no line: the one under way, one per death and one more
  per death in the middle of a line. A torn line is a debt in it, which the next line pays;
  without that `LossIsBounded` is not inductive. `FilesOK` says what the step before left in the
  current file. `HistoryCountsAreTrue` rests on `CountsOK`:
  what was scraped last is not after what the service counts now, in the order "same life and no
  fewer counts, or a later life", which is transitive, so a new line is not before an old one.
* **Aggregator.** `AggregatorInv`: what was read was emitted, blank lines aside and but for the
  line the loop ended at; a loop that left without a signal or an over-long line had read to the
  end of an output nobody adds to; the finally clause leaves only with the child gone. Of all that
  was written, hence, only a tail can be missing (`OnlyTailsAreDropped`).

Only model-checked: everything with fairness (`ImplementsSelfHealing`'s, `ImplementsTaskPool`'s
and `ImplementsParallelMap`'s progress, `StopsWhenAsked`, `EveryRequestAnswered`,
`ClientIsAnswered`, `AbandonedWorkEnds`, `StartUpEnds`, `AllRecorded`, `CallsAreAnswered`,
`KilledComesBack`, `SignalEndsLoop`, `SignalIsNoticed`), which is out of the prover's reach.
Every safety invariant and action property a run checks has its theorem, and so has the safety
part of each refinement.

Proved, and checked by no run of their own because other properties of the runs imply them or their
proofs rest on them: the inductive invariants named above, and of the pool `OnePlace`,
`ExitsDrained` and `NobodySleepsThroughStop`. TLC was run on each of them, with the bounds of the
component's run, before it was proved.

## 6. Not modelled

* `service-b`'s store: a dictionary behind an `asyncio.Lock` no coroutine suspends while it holds.
  The lock is never contended and each endpoint is one step of the event loop, so a model would
  be that of a sequential dictionary. That its data is lost on a restart is by design.
* The thread-pool flavour of `/process`: `executor.map` over a pure function on a pool of the
  request's own; what could go wrong there is the library's.
* The latency and error rates of the fault injector and the endpoints that read them: they touch
  nothing else, and no coroutine suspends while it holds their lock.
* The lengths of `retry_async`'s delays: a delay is any time in `FanOut`. (Jitter comes after the
  cap, as its docstring says.)
* Data models, logging, configuration parsing, Dockerfiles, Makefile, CI, the tests: they hold no
  state whose interleavings matter. Floating-point rounding (not overflow), JSON, log lines and URLs are
  abstracted.
* The moments between the start of collector or aggregator and their signal handlers, in which a
  signal ends the process as it ends any other.

What would come next: the queue flavour behind the gateway, and `SquareSum` over `ThreadPool`
itself instead of its contract.

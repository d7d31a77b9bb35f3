# A TLA+ model of zenode

zenode is an asyncio framework for robot nodes on top of zenoh: a process runs a
`Node`, which declares publishers, subscriptions, services and timers, and zenoh's
worker threads hand samples, queries and matching edges to the node's event loop.
This directory models the parts of it whose correctness depends on the order in
which threads, callbacks, tasks, timers and callers run. TLC checks every module
on small instances; TLAPS proves every safety property that a passing run checks for
every value of the constants. All line numbers refer to `src/src/zenode/` unless another
path is given.

Contents: [inventory](#inventory-of-the-system), [modules](#the-modules),
[runs](#the-runs), [fairness](#fairness), [proofs](#the-proofs),
[divergences](#divergences), [abstractions](#abstractions),
[plan](#plan).

## Inventory of the system

| Component | Source | State it keeps | Operations | What makes it correct |
|---|---|---|---|---|
| Subscription | `pubsub.py` `Subscription` | queue or latest slot, counters, the silence timer and its stamp, hook lists and tasks, the consumer task | `_zenoh_callback` (worker thread), `_push`, `_consume`/`_dispatch`, `_check_deadline`, `_enter_silence`/`_leave_silence`, `_run_hooks`, `_add_*_hook`, `stop` | every sample is accounted for; backpressure gives up the oldest only; order; one silence timer; every outage told once to every hook; quiet after `stop()` |
| Publisher, matching | `pubsub.py` `Publisher.on_matching` to `undeclare` | listener, last state, hooks, hook tasks | `on_matching`, `_matching_event` (worker thread), `_matching_changed`, `_run_matching_hooks`, `undeclare` | hooks see alternating edges and settle on the level |
| Publisher, put; shared-memory pool | `pubsub.py` `put`, `_publish`, `shm.py` `ShmPool` | sequence number, `sent`; the lazy provider, the latched refusal, `fallbacks` | `put` from any thread, `buffer` | every number is on the wire, raised or under way; fallbacks and counters agree; a refused pool is not tried again |
| Node lifecycle | `node.py` `Node`, `_amain` | state, latches (`__has_run`, `__entered_on_start`, `__stop_event`), session and its owner, token, lists of what was declared, tasks | `start`, `stop`, `shutdown`, `_teardown`, `adopt_session`, declarations, `spawn` | what was declared before the teardown is given back however a start or a stop goes; `on_stop` answers every `on_start`; a stop is honoured |
| Timer | `timers.py` `Timer` | grid point, counters, policy | `run`, `_tick`, `_on_failure`, `cancel` | no drift, no burst, no lost period; the stop policy stops |
| Service | `service.py` | server: tasks and counters; caller: future and timer | `_zenoh_callback`, `_handle`, `_reply`, `undeclare`; `call_service` | a request is answered; the first reply decides; a call ends |
| Log publisher | `log.py` `LogPublisher` | deque, event, guard, counter | `emit` from any thread, `drain`, `close` | losses are counted, order is kept, no feedback, no record waits for ever |
| Health heartbeat | `node.py` `_publish_health`, `metrics.py` `Latency` | windows of the latencies, the queue's high-water mark | one timer's body; `observe`, `summarize`, `reset` | each window covers one interval, whatever failed in between; no drop without a full queue to show for it |
| Presence | `presence.py`, `node.py` `_check_duplicate`, `wait_for_nodes`, `cli.py` `cmd_nodes` | token, set of live nodes | list, wait, watch, `zenode nodes --watch` | a watcher misses no change between its replay and what follows (the command misses those between its list and its subscription); a wait tells the truth of its last look and ends |
| Trace | `trace.py`, `envelope.py`, `otel.py`, and their callers | context variable, OpenTelemetry's current span, bounded ring | `put` and `call_service` decide a trace, `_dispatch` and `_handle` continue it, `spawn` and `every` copy it, the ring records hops | of the hops that reach a ring all or none of a trace are kept; what a handler and its tasks send carries its message's trace |
| Exporter, OTLP shippers | `exporter.py`, `otlp_logs.py`, `otlp_metrics.py`, `cli.py` `cmd_export` | registry of last samples, queue of the log shipper, counters, stop event | `offer` (zenoh's threads), `render` (HTTP threads), `flush` and `run` of two shippers, Ctrl-C | no report is stale or goes back; every record is accounted for and sent once; the last batch goes out; the process ends |
| Wiring | `topic.py`, `declarative.py`, `codec.py`, `errors.py`, `msgs/` | none at run time | declarations checked at import | types and key expressions |
| Configuration | `config.py` | none at run time | merge of files and environment | string handling |
| Process statistics, other commands, test harness | `metrics.py`, `cli.py`, `testing.py` | none that others depend on | | |

How they interact. Everything that runs application code runs on one event loop.
zenoh's worker threads reach it through `call_soon_threadsafe` only: samples
(`pubsub.py:375`), matching edges (219), queries (`service.py:85`), replies (the
`_on_reply` of `call_service`), log wake-ups (`log.py:179`), `Node.stop` (`node.py:617`).
What blocks (`zenoh.open`, the liveliness query, closing the session) runs in
threads that the node awaits. `Node.start` declares, `_teardown` undeclares in a
fixed order: log handler, background tasks, subscriptions, servers, publishers,
token, session. A subscription or a timer whose policy is "stop" calls `Node.stop`.
`zenode export` is a process of its own without a loop: zenoh's threads, HTTP
threads, two shipper threads and the main thread share a registry and a queue
under locks, and an event.

The behaviours that are hard, and where they bite, are the `hazards` of
`PROJECT.json`, each with the properties that would catch it going wrong.

## The modules

| Module | Models | Abstract specification | Instances | Proofs |
|---|---|---|---|---|
| `Subscription` | `pubsub.py` 275-721, `node.py` 871-911 | `Mailbox`, through `SubscriptionRefinement` | `MCSubscription` | `SubscriptionProofs` |
| `Matching` | `pubsub.py` 102-125, 157-269 | | `MCMatching` | `RelayProofs` |
| `NodeLifecycle` | `node.py` 223-848, 914-923 | `Lifecycle`, through `NodeRefinement` | `MCNode` | `NodeProofs` |
| `Timer` | `timers.py` 76-152 | | through `Heartbeat` | `HeartbeatProofs` |
| `Publishing` | `pubsub.py` 100-155, `shm.py` 81-140 | | through `Heartbeat` | `HeartbeatProofs` |
| `Heartbeat`, which composes the two | `node.py` 871-911, `metrics.py` 34-46, 116-125, `pubsub.py` 399-444, `msgs/health.py` 74-85 | `Timer` and `Publishing` (`BeatImplementsParts`) | `MCHeartbeat` | `HeartbeatProofs` |
| `Presence` | `presence.py` 36-95, `node.py` 850-867, `cli.py` 531-565 | | `MCPresence` | `RelayProofs` |
| `Service` | `service.py` 56-216, `node.py` 643-649 | | `MCService` | `ServiceProofs` |
| `LogPublisher` | `log.py` 150-218, `node.py` 461-497, 621-673 | | `MCLogPublisher` | `LogPublisherProofs` |
| `Exporter` | `exporter.py` 270-392, `otlp_logs.py` 107-171, `otlp_metrics.py` 45-171, `cli.py` 400-477 | | `MCExporter` | `ExporterProofs` |
| `Tracing` | `trace.py` 78-202, `otel.py` 77-177, `pubsub.py` 127-154, 655-690, `service.py` 77-110, 204-211, `node.py` 796-848, `envelope.py` 37-68 | | `MCTracing` | `TracingProofs` |

A step of a model is what the code does between two points at which something
else may run: between two awaits for code on the loop, one bytecode-sized effect
at a time where threads share state without the loop (`LogPublisher`'s `emit`).
`PROJECT.json` maps each definition to its lines.

**Subscription.** The loop's ready list is explicit (`ready`), because the detector
relies on its order: a push is appended by a zenoh thread (`ZenohCallback`), a check
by a due timer (`TimerDue`), the first step of a hook task by `create_task`
(`Spawn`), and the loop runs them first in, first out (`RunPush`, `CheckDeadline`,
`RunHooks`). `handle` is the code's `_handle`, the due time of the one timer it can
cancel, while `timers` is the bag of timers that are really pending, so that a
timer the code loses track of is visible. A cancelled handle that is already in
the ready list is skipped (`CancelIn`, `RunCancelled`). `stop()` is three steps with
its two awaits between them (`Stop`, `StopConsumer`, `Undeclare`). `told` records for
each hook the outages it was called for.

**Mailbox** is what the handler is promised in either mode: a bounded mailbox that
gives up the oldest, in order, one at a time, until it is closed, and with fairness
is emptied. The mapping reads the queue or the slot as the mailbox.

**Matching.** The level belongs to zenoh (`Flip`), which reports changes to a
listener (`notices`), replays TRUE to a new one, and delivers on its thread
(`MatchingEvent`). `OnMatching` and `ReadStatus` are the two halves of `on_matching`
around the read of the status, because zenoh may run in between. `Suspending` says
which hooks await something; a task runs all hooks up to the first of those in one
step (`Advance`).

**NodeLifecycle.** `node` is one record with the code's private attributes as
fields; `at` says at which await each of two coroutines stands: `_amain` ("main") and
a `shutdown()` called by somebody else ("other"). The way down is written from its end
to its beginning (`Finish`, `Undeclared`, `Retire`, `AfterJoin`, `Teardown`, `Unwind`), so
that each continuation up to the next await is one operator; `Fail` is the except
branch of `start()`, which may be entered with any part of what precedes it done
(`Announce`, `OnStartEnds`).

`Declare` and `SpawnTask` may run at any moment, since `publisher()`, `subscribe()`,
`serve()`, `every()` and `spawn()` ask for a session or a loop and for no state: hooks,
handlers, timers, service handlers in flight, tasks that outlive the join and code outside
of the node may all call them, also while the teardown awaits the tasks, a subscription or
the close of the session, and on a node that is down but has an adopted session. What the
teardown has not come to yet it takes down. What is declared behind it (`Behind`) nobody
takes down, unless the session goes with it; `late` names the kinds of it, until the next
`start()`, whose way down takes them.

Other nodes of the name are the environment (`RivalComes`, `RivalGoes`). The duplicate check
is a liveliness query that gives up after a second; of a token that stands it may be told
or not (`Answers`). `before` is history: a token of the name has stood since before this
start, and no look-up missed it.

**Lifecycle** is the contract seen from outside: stopped, starting, running,
stopping; nothing held when down; nothing given back while running; never up again
after it ran. What a node holds in it is what is its own to give back: all that is declared
(`Held`) but what was declared behind the teardown. A `start()` takes on what was declared
on the node while it was down. The contract ends (`Cut`) when a start or the way down is cut
short: by a cancellation from outside, a `shutdown()` by somebody else while the node is
starting (one of a running node keeps the contract), or a `zenoh.open` that raises. The code then leaves things undone (see
[divergences](#divergences)); `cut` marks that in `NodeLifecycle`, and `OnStopPaired`
says what holds even then: hardware is never safed twice for one start.

**Timer.** `nextAt` is the grid point `run()` aims at, `Missed` the skip of
`timers.py:117`, `Aim` one turn of the loop up to the sleep. Time passes wherever
the task awaits.

**Publishing.** `put[c]` is where the call of thread `c` is and the message it carries.
A step ends where another thread may run, at a call: a number is taken (`Put`), the
value is encoded, the pool is tested, created, read and drawn on (`TestPool`,
`CreateProvider`, `Provide`, `Allocate`), the sample is put, and `sent` counts. Each may
raise (`Raises`). `wire` and `raised` are history: where each message ended up. Two
threads may both find the pool untried, and both create a provider, or one may be
refused after the other was served.

**Heartbeat** composes a timer, the puts of a worker thread and of the loop, and a
subscription's queue with its two latency accumulators. The body of the timer reads what
it reports and takes a number in one stretch (`BeatBegins`), is in its put
(`BeatGoesOn`) while worker threads go on with theirs, and resets the windows only when
the put has returned (`BeatSent`). `load` says whose timer it is: with "app" the
body is an application's, which may take any time and end in any way. `heard` is history:
what was observed since the report that is on the bus was drafted.

**Presence.** One of three programs: `wait_for_nodes`, a `PresenceWatcher`, or the command
`zenode nodes`. A list takes time: each node's reply is a step of its own (`Answer`),
nodes change between replies (`Change`), and what has not answered when the timer runs out
is missing (`ListEnds`). A watcher's samples pass zenoh's thread and then a queue
(`OnSample`, `Told`). `seenUp`, `seenDown` and `stale` are history: what was
true at some moment of the last list, and of whom no later news can come.

**Service.** The caller's loop has a ready list with replies, `wait_for`'s timer and
the task's wake-up. `newer` chooses between the `wait_for` of Python 3.12 and that of
3.11, both of which `pyproject.toml` allows. The servers' handlers are steps of their
own; a session may be closed under them.

**LogPublisher.** `emit` is four steps (`Enter`, `CountDrop`, `AppendRecord`, `Notify`)
under the lock of `logging.Handler.handle`; the loop's thread can log too, and inside
`put` it does so with the guard set. The drain task and the teardown are the loop's
other steps.

**Exporter.** A step is what a thread does between two points where it blocks or gives
up a lock. A heartbeat is the incarnation of its node and the value of its counters;
`report` keeps what a scrape or a push last told of each node. A scrape copies the
samples and reads the clock later (`ScrapeBegins`, `ScrapeEnds`), a push reads the clock
and copies the samples later (`PushBegins`, `PushReads`). A post ends in one of three
ways (`PushEnds`, `ShipEnds`): it is answered, it fails with an error that `flush`
handles, perhaps after the endpoint took the batch in, or it raises something else
and ends the thread. `AfterStop` is the flush after the loop of `run`.

**Tracing.** A pipeline of nodes, each of which publishes to the next and calls its
service. A trace context is its id and its sampled flag. A `Body` is a running piece
of application code with the two contexts asyncio copies: `tp`, zenode's context
variable, and `span`, OpenTelemetry's current span. `Decision` is what `put` decides,
`ProducerSpans` the span it then runs in, and `Outgoing` what goes on the wire; `Spawn`,
`Every`, `Using` and `Subscribe` are the ways a body leaves something behind. A handler
that ends is a hop, whether it returns, raises or is cancelled (`finally`, `pubsub.py:674`); a
server is one only if its reply went out (`service.py:95-110`), and both only at a node that
has a ring (`Ringed`). `offered` and `recorded` are history: the hops a ring was given, and
those it took. So is `cause`: the trace of the message that a body was started for, or the
one `using()` gave it; a timer has none, since a tick is caused by the clock.

## The runs

Runs take between a second and a minute and a half with two workers (`node_main`, with
461,000 states, and `sub_silence` are the longest). The bounds are named in the modules; they count
samples, records, starts, traces, instants, and are chosen so that the case a property
is about happens at least twice.

| Run | Bounds | Why they are enough | What it shows |
|---|---|---|---|
| `sub_queue` | capacity 2, 3 samples, ages 0, 2 or unknown under `max_age` 1, 2 instants | overflow needs capacity + 1; a stale sample can meet a full queue; time can age a waiting one | `Accounting`, `StaleNeverEvicts` and `ImplementsMailbox` (order, one at a time, the oldest given up first), with handlers that return, raise, end cancelled or mask a cancellation. Deadlock is not checked: a masked cancellation does block `stop()` (see [divergences](#divergences)) |
| `sub_silence` | latest mode, deadline 1, slow period 2, 3 instants, 2 samples, a silence hook, a resume hook, policy "stop" | two outages with a resume between them, a check that is late, the stop it causes and a stop by others | one timer and armed in time (`OneTimerArmed`), `NoEarlySilence`, each outage told once to each hook (`OutagesTold`), `QuietAfterStop`, a `stop()` or a silence policy that ends (`StopReturns`, of handlers that do not swallow its cancellation); a latest-mode subscription is a mailbox too, with one sample overwritten, and what waits is taken (`ImplementsFairMailbox`) |
| `node_main` | 2 starts, 1 subscription by hand, 1 binding, 1 task beside the heartbeat, one cancellation, a concurrent `shutdown()`, a `zenoh.open` that fails; nothing is declared or spawned any more once the node was cut (`CutGoesOn`), when the properties have ended but for `OnStopPaired` | a failed start and its retry, declarations of each kind before, on and behind the way down, each disturbance at each await, a look-up that is told of a rival or not | `EndsClean`, `OnStopPaired`, `NoLateDuplicate`, `SafedBeforeJoin`, `ImplementsLifecycle`, `StartsAndStopsEnd` |
| `node_open_fails` | | | finding: `FailedStartRetryable` |
| `matching` | 2 hooks, one suspending, 3 changes | an edge overtakes a suspended task; a change between listener and status | `EdgesAlternate` and `SettledOnLevel` for hooks that no suspending one precedes; every behaviour can go on until all is settled (deadlock is checked) |
| `matching_twice` | | | finding: `NeverToldTwice` |
| `heartbeat` | interval 2, 7 instants, the loop and one worker thread, a pooled topic beside the heartbeat's plain one, up to 2 application puts, a queue of 2, durations 1 and 2. `Loads` is a set of small instances that are checked in one run: the heartbeat beside 3 samples, the heartbeat beside application puts, and an application's timer with a put or none | lateness below, at and above a period, with two periods missed at once; two threads at each pair of stages of a put; a queue that overflows and drains between two heartbeats; a heartbeat that raises between two that do not | `GridAccounting`, `AimsAtNextPoint`, `StopsOnError` of the timer; `WireAccounted`, `PoolDegrades` of the puts; `BeatsCoverWindow` |
| `service` | 2 servers, 1 call | two replies, late and lost ones, a session closed under a handler | `FirstAnswerWins`, `CountersMatchAnswers`, `PromptAnswerWins` (3.11), `CallEnds`. Deadlock is not checked: the run ends when the call has |
| `log_publisher` | 2 threads and the loop, deque of 2, 5 records | the deque overflows while it is drained and while another emits | `RecordsAccounted` (and evictions counted), `CleanFeed` (order, and no feedback), `RecordsFlow`. Deadlock is not checked: the node stops |
| `presence` | 2 nodes, both waited for, poll 1, timeout 3, 4 changes | both nodes come and go twice, or one four times: between two lists, within one, between a list and a subscription; replies late by more than the timer | `ViewSettles`, `WaitRight`, `WaitEnds`; every behaviour can go on until its program is over (deadlock is checked) |
| `exporter` | 1 node with 2 incarnations and counters 0, 1; queue of 2, 4 records; 2 answered pushes, 4 instants, `stale_after` 1; the sidecar pushes logs or metrics | the queue overflows while a batch is posted; a heartbeat of each kind between the two halves of a report; staleness begins between two reports. Logs and metrics share only the stop event and the main thread, whose joins both options pass, so the product of the two shippers would add only interleavings of what does not interact | `BatchesAccounted`, `SeenOnce`, `LastBatchOut`, `ReportsCurrent`, `ExportEnds`. Deadlock is not checked: the process exits |
| `tracing` | 4 nodes, the third with a tracer provider, the first and third with root topics, the second and fourth with a ring; 2 traces, 3 messages, 2 tasks or timers | a trace started at either root that reaches the last node, crossing a node that records spans and nodes that do not, one that keeps hops and one that does not; a task and a timer that outlive their handler, and one of the other; a second trace to be confused with the first | `RecordedWhole`, `FollowsCause`. Deadlock is not checked: the messages run out |

Every property of a passing run has a mutant: a bug of the kind the code could have
(a dropped guard, a missing reset, a swapped order), written beside the definition it
replaces (`Queued_Lifo`, `Rearm_Slow`, `Unwind_NotOnce`, ...), under which
TLC finds the property violated.

## Fairness

Fairness is weak and per action, and only where the runtime gives it.

* Subscription: the loop runs its ready list, due timers reach it, time passes,
  the consumer takes what waits, handlers and hooks end (they are application code;
  the properties say so), and a `stop()` that was called goes on. `Stop` itself is
  fair only after `node.stop()`. Nothing makes a sample arrive or a hook attach.
* Matching: none; its properties are safety, and deadlock is checked.
* NodeLifecycle: awaited threads answer, the timeout of `on_start` fires, the loop
  resumes what is ready, `on_stop` and every `sub.stop()` end. Nothing makes
  `on_start` return or a task end. `StartsAndStopsEnd` therefore rests on `start_timeout`.
* Service: the caller's loop only. A call ends without any help from servers.
* LogPublisher: a thread inside `emit` leaves it, the loop runs wake-ups and drain.
* Exporter: the main thread goes on after Ctrl-C (`JoinEnds`), and nothing else: no post
  ever has to end, since `urlopen`'s timeout is one per read. `ExportEnds` rests on the
  timeouts of the two joins and on the threads being daemons.
* Presence: clocks run (`Tick`), a list's thread ends when its time is up, and the loop
  resumes the wait (`Check`, `ListAgain`). Nothing makes a reply arrive, a node come or
  stay, or a sample be delivered: `WaitEnds` rests on the two timeouts.
* Timer, Publishing, Heartbeat, Tracing: none; their properties are safety.

## The proofs

Eight modules hold the proofs (`HeartbeatProofs` those of `Timer`, `Publishing` and their
composition, `RelayProofs` those of `Presence` and `Matching`, which is why `Matching`'s
definitions carry its name), checked by TLAPS without assumptions beyond the named
ASSUMEs of the modules (kinds and signs of the constants, `None` outside the data,
finitely many threads and calls).

**Subscription** (any capacity, deadline, mode, number of hooks, samples and
instants).
* `TypeCorrect`: `Spec => []TypeOK`, including `Len(queue) <= QueueSize`. `TypeOK` is
  not inductive alone: `TypeInv` adds that without a deadline nothing of the detector
  ever exists (`Inert`; otherwise a check would compute with `None`) and that a hook
  task past its first step has a hook to run (`TasksStarted`). One lemma per action.
  The timers are a bag: `TimerBags` gives what adding and removing a due time does.
* `EverySampleAccounted`: `Spec => []Accounting`. `AccountInv` strengthens it by what
  it needs of the two stores (the slot is empty in queue mode and the queue in latest
  mode). The steps that touch the count are a push, a take and the end of a handler;
  all others are covered by one frame lemma, `AccountFrame`.
* `OneTimerAlways`: `TimerInv` follows the one check from the timer's bag to the ready list
  and back: either the bag holds `handle` and no check is ready, or the bag is empty and
  exactly one check is (`Ahead`), with the samples that landed before it ahead of it
  (`Behind`). `OneTimerArmed` alone is not inductive, since a cancelled check may still
  stand in the ready list while the next one is armed. `SilenceNeverEarly` and
  `StaleEvictsNothing` (action properties) follow from it and from the types.
* `StopIsQuiet`: `QuietInv` says what is over at which stage of `stop()`.
* `IsAMailbox`, the simulation behind the refinement: `MailboxInv` says that the pushes on
  the ready list are newer than what was accepted last (`Rise`), which is what makes a
  push a `Mailbox` arrival; every other step is a take, an end, a close or a stutter.
* `OutageToldOnce`: `OnceInv` follows one outage on its way to one hook. A hook hears of it
  from a task that waits in the ready list, from one that is suspended, or not at all
  any more; `Apart` and `TasksOnce` say that these are never two, `CallsOnce` that what
  a task has before it was not told yet, `Unattached` that a hook that is attached late
  starts from nothing, and `Covered` that without `CancelledError` none is left out.

**NodeLifecycle** (any tasks, flags, number of starts, subscriptions and cancellations).
* The invariant is about the record of a node, whoever holds it: `Paired` (on_start against
  on_stop), `Stands` and `Beside` (where `_amain` stands, and where another's `shutdown()`
  does, tells the state and what the node holds) and `Down` (a stopped node holds nothing but
  what is late: `Empty`), all but the first until a start or the way down is cut short.
  `EndsClean` alone says nothing of a node on its way. `Stands` also says that nothing is late
  in a start, and `Empty` holds from the close of the session on, so that a declaration
  either comes before the teardown's step that takes its kind down or is marked
  (`DeclaredStays`); no step of the way down looks at who declares.
* The way down is one operator for each stage, so it has one lemma for each, from the end to the
  beginning (`FinishDown` to `UnwindDown`): each says what the record that it returns
  kept and lost (`Descends`). `NodeTypeCorrect`, `OnStopAnswers`, `DownIsClean` and
  `DuplicateRefused` (with `Looked`, what the duplicate check was told) follow. What
  `DuplicateRefused` does not say, because the code does not keep it: that a token is seen
  whose reply is late or lost, or one that comes between the query and the declaration.
* `HardwareFirst` (an action property) looks at the steps that ask tasks to end.
* `NodeKeepsContract`: a step changes nothing the contract sees (`Idles`, `Holds`), gives
  back on the way down (`Sinks`), fails a start (`FailsFrom`), shuts down
  (`ShutsDownFrom`), or is cut; each is mapped to its step of `Lifecycle` once.

**Timer** (any period, any lateness).
* The arithmetic is in `SkipLandsNext`: with `behind > 0` the skip
  `behind \div Interval + 1` lands strictly ahead and at most a period away.
* `TimerInv == TypeOK /\ GridAccounting /\ Begun /\ Fresh`: the grid equation alone is
  not inductive, since a body runs only at a point that has come (`Begun`) and the
  counters are zero before the first turn (`Fresh`).
* `TimerTypeCorrect`, `GridKept`, `NextPointAimed` (an action property) and
  `StopPolicyKept` follow.

**Publishing** (any threads, publishers, numbers; the set of threads is finite).
* `PutTypeCorrect`: `TypeOK` with `Placed` (a call that is not idle is of a publisher, else
  its step would use `Nobody`).
* `StepKinds` sorts the steps of a call into four kinds: the message stays on its way, its
  put fails, it lands on the wire, it is counted. Each invariant about the numbers needs
  one lemma for each kind instead of one for each action.
* `PutsAccounted`: `Numbered` says of every number handed out that it is the number of
  a landed message or of a flying call (`Covered`), of one of them only (`Distinct`), and
  of no other (`InRange`). `Counted` relates `sent` to the cardinality of the wire, and adds
  that both histories are finite, without which cardinalities say nothing.
* `FallbacksCounted`: `Fallen` counts the calls that fell back and have not reached the
  transport beside the messages that have. `Pooling` says that how a message travels is open
  while it is in the pool; `Distinct` is needed again, since a message that lands must be
  new for the count to grow. `Tried` says that a thread whose own attempt was decided
  finds it decided: the refusal and the provider are never reset.

**Heartbeat** (all constants).
* `BeatImplementsParts`: every step of the composition is a step of the timer or leaves it
  alone, and the same of the puts. `BeatAccounts` takes over what is proved of
  the two.
* `WindowsCovered` (an action property): `BeatInv` says that the summary of the two
  accumulators is that of the durations heard since the last heartbeat on the bus, but
  for the moment between the transport and the reset (`Sent`), when nothing was
  heard; and, since the loop is in its put (`InItsPut`), that what the draft holds is still
  what it would read now. Without the last a draft could be late. The sums over a set
  of durations are the recursion of `MapThenSumSet`: `SumsExist` shows that it
  defines a function, `SumsMore` and `SumsNone` what one more observation and none make of
  it. Both are inductions over the subsets by their size, made as the search for a least
  counterexample (`LeastOf`, `BySize`), which needs no operator parameter.

**Presence** (any nodes, poll, timeout, number of changes).
* `PresenceTypeCorrect`, and `WaitTruthful` (an action property): `Looked` says that what a
  list found was up at a moment of it, that what it settled otherwise was down at one, and
  that what holds now counts as a moment.
* `ViewsSettle`: `Settled(n)` follows the newest news of a node from zenoh's hands through
  the queue to the view; `SettledOnSample` and `SettledTold` show that a hand-over keeps
  the newest newest. `BeforeWatching` carries it through the gap between the
  list and the subscription.

**Matching** (any hooks, suspending or not, any number of changes).
* `MatchingTypeCorrect`: `TurnOf` says what a task does between two awaits, from the
  first of its hooks that suspends, whose existence needs `SmallestOf`.
* `MatchingInv`, until `undeclare()`: for an unhindered hook, what it was told followed by
  what the tasks in the ready list are going to tell it alternates and ends in `state`
  (`Alternating`), with one lemma each for a task that enters, one that runs and a head that is
  nothing to the hook. `LevelKnown` says that the last edge on its way tells the level, be
  it in zenoh's hands or in the ready list, and `state` if there is none; `InOrder` that a task
  calls an unhindered hook behind none that suspends; `Unborn` that before the status
  was read there is no task, which is why the seed may be given without a look at `state`.
* `LevelSettles` and `EdgesAlternateAlways` (an action property) follow.

**Exporter** (any nodes, queue length, `stale_after`, number of records and pushes).
* `ExporterTypeCorrect` and `RecordsKept` are one induction (`TypeInv`): the counters are
  bounded because they sum up to what was logged, so neither holds without the other.
  `LogInv` adds that the batch is empty while nothing is posted, else a flush would
  overwrite it. `OfferedQueue` says what a bounded deque does to length and order.
* `SeenInOrder`: `OrderInv` orders not the endpoint's log alone but the endpoint's log
  followed by the batch followed by the queue; `Joined` moves that order through the
  concatenation in which a batch is taken in.
* `LastBatchSent`: `FlushInv` says of every stage of the thread after the stop event what
  the queue may still hold, since "done" is reached two ways.
* `ReportsForward` (an action property): `ReportInv` relates the registry, the scrape's
  copy and what each path last reported: each is not older than the next. It is needed
  because a scrape reports its copy, not the registry, and heartbeats come in between.

**Tracing** (any length, any sets of recording nodes, of roots and of nodes with a ring).
* `TracingTypeCorrect`: `TypeOK`, which includes that a ring holds only hops it was given.
* `RecordedEndToEnd`: `OneDecision` says that any two contexts anywhere (a body's context
  variable or span, a message, a subscription's span) with one id have one flag, that
  every id is minted, and that a hop a ring was given is recorded exactly if its trace is
  sampled. Which hops a ring is given the theorem does not say: see `Returns`.
  `DecisionMade` shows that a step that mints an id takes one decision for it.
* `CauseFollowed`: `CauseInv` says that in a body with a cause the context variable is the
  cause and the span is the cause or none, and that a timer has no cause.
  `put` and `call_service` get to the wire from there in two different ways.

**Service** (any servers, any finite set of calls).
* `FirstAnswerDecides` and `PromptAnswerDecides` (an action property) rest on
  `CallerInv`: `Follows` says that the future holds the first reply or none, that the
  outcome was read from the future, and that with the `wait_for` of 3.11 nothing cancels
  the future before the waiting task itself has run.
* `CountersTellAnswers`: `ServerInv` is `Once` (a call has one task on a server, which
  ends once) with `Tallied` (the counters against the cardinalities of the calls that
  ended so). All the ways in which a task ends are one step, `Ends`, so the argument
  about cardinalities is made once, in `EndsStep`.
* `ServiceTypeCorrect`: `TypeOK` bounds the counters by the number of calls, which only
  `Tallied` shows.

**LogPublisher** (any threads, any length of the deque, any number of records).
* `LockInv` (one thread is inside `emit`) comes first, since it turns the count of
  emitting threads into none or one.
* `LogTypeCorrect` and `LogRecordsAccounted`: `AccountInv`. That evictions are counted
  needs `LossCounted`: a thread between the check of `emit` and its append to a deque
  that is full has counted already; the drain task and `close()` only shorten the deque
  meanwhile, and the lock keeps other threads from filling it.
* `FeedClean`: `FeedInv` orders the published records, the one in the drain task's hand,
  the deque and the record inside `emit` among each other.

Model-checked only: liveness (`StopReturns`, `ImplementsFairMailbox`, of which
`IsAMailbox` proves the safety part, `StartsAndStopsEnd`, `CallEnds`, `RecordsFlow`,
`WaitEnds`, `ExportEnds`), which is out of the prover's reach. The runs of the modules
whose `TypeOK` is a theorem for all parameters spend no time on it.

## Divergences

Two runs end in a violation, because the code does something else than a doc or a
comment says; `findings` in `PROJECT.json` quotes them.

* `node_open_fails`: a `zenoh.open` that raises leaves the node "starting", so the
  start that "may be retried" may not (`node.py:345`, `docs/nodes.md:307`).
* `matching_twice`: with two hooks on a publisher, one of which suspends, the other
  can be told the same edge twice or be left on the wrong one (`pubsub.py:241`,
  `docs/nodes.md:376`).

Others were met while modelling. The models contain the behaviour; no run is kept
for them:

* A handler that ends with `CancelledError` ends the consumer of an open
  subscription without a word (`pubsub.py:670` catches `Exception`), and a service
  handler that does so, or whose reply does not encode, sends no reply
  (`service.py:129`, against `docs/contracts.md:134`).
* A handler that answers the cancellation of `stop()` with another exception goes back
  to the consumer's loop, and `stop()` waits for it for ever (`pubsub.py:714`); so does
  `shutdown()`, although teardown "is bounded".
* A busy loop can declare silence while a sample that landed in time waits behind the
  check (`pubsub.py:546`); `NoEarlySilence` states what does hold.
* After a heartbeat the high-water mark is 0 even if samples wait (`node.py:911`).
* Two nodes of one name that start together both pass the duplicate check
  (`node.py:348`), and so does a second node that the reply of the first reaches late or
  never (`node.py:441` gives the query a second and takes silence for a free name), although
  with `allow_duplicates = False` a second node "raises `DuplicateNodeError`"
  (`docs/nodes.md:42`). `NoLateDuplicate` states what does hold: a look-up that was told is
  heeded.
* What a task, a timer, a service handler or any other holder of the node declares while the
  session is being closed, or on a node that is down and has an adopted session, stays on
  the node's lists and is taken down by nobody (`node.py:645-649`, 681-784); with a session
  of the node's own it goes with the session, with an adopted one it stays declared on
  the bus. A failed start therefore need not have "left nothing declared"
  (`docs/nodes.md:307`). `EndsClean` and `Lifecycle` state what does hold.
* A task spawned by a handler while the teardown waits for the others is never
  cancelled (`node.py:626`), and a handler that keeps subscribing while subscriptions
  are being stopped keeps the teardown busy (629): `StartsAndStopsEnd` is checked
  with a bounded number of subscriptions.
* `shutdown()` called while `on_start` runs tears down beside it (`node.py:592`). A
  cancellation that reaches `on_stop` skips the teardown (607). A `stop()` during a start
  that fails ends the retried start (611).
* An edge that is on the loop when `undeclare()` runs calls the hook afterwards
  (`pubsub.py:230`).
* From Python 3.12 on, a reply that the loop has run may lose to the timer of
  `wait_for` (`service.py:213`); `PromptAnswerWins` is stated for 3.11.
* A record whose `put` raises is lost uncounted (`log.py:208`); `RecordsAccounted` counts it
  in `failed`.
* A silence hook that ends with `CancelledError` ends the task that runs the hooks
  (`pubsub.py:649` raises it again), and the hooks behind it never hear of that outage.
  `OutagesTold` says of every outcome that no hook hears of an outage twice, and without
  that outcome that none is left out.
* A thread inside `emit` appends a record after `close()` cleared the deque
  (`log.py:168`).
* A shipper's thread ends without a count when a post raises what `flush` does not
  handle (an endpoint that does not speak HTTP raises `http.client.HTTPException`;
  `otlp_logs.py:157`): neither counter grows any more, although
  `docs/open-telemetry.md:255` wants a pipeline that stopped working to be
  distinguishable. `lost` in `BatchesAccounted` is that batch.
* The join after Ctrl-C may end before the last batch is posted (`cli.py:474`), and a
  record that arrives after the last flush stays in the queue; `LastBatchOut` states
  what does hold.
* A timer made by `every()` in a handler runs all its bodies in that handler's trace
  (`node.py:836`), although "timer bodies run outside any trace"
  (`docs/open-telemetry.md:76`, `docs/nodes.md:258`). The model has it (`Every`);
  `FollowsCause` asks nothing of timers, so it would hold of a code that clears the context
  too.
* A server whose reply raises, or whose handler is cancelled, leaves no hop
  (`service.py:95-110` is not in a `finally`, unlike `pubsub.py:674`), nor does a node with
  `trace_ring = 0`. A sampled trace can so be in some rings of those it passed and not in
  others, although it is to be "recorded end to end or not at all, never half"
  (`trace.py:89-91`). `RecordedWhole` states what does hold, of the hops a ring is given.
* A subscription made inside a span has that span in scope
  of every message without one of its own, and a root topic's publish under a span
  continues the span's trace. `FollowsCause` is about bodies with a cause; `Cause`
  says which those are.

## Abstractions

* Data: a sample is its id, age and whether it decodes; a query, reply or record is
  a member of a small set. Keys, formatting, log throttles and latency statistics are
  left out.
* Subscription: one clock stands for the wall clock and the loop's. Handlers and hooks
  take any time. The consumer and started hook tasks interleave freely with the ready
  list. DELETE samples (ignored by the code) are left out. Hooks attach before `stop()`.
* Matching: registration happens before `undeclare()`; the error count of raising hooks
  and the status that cannot be read (taken as TRUE by the code) are left out.
* NodeLifecycle: subscriptions are a count (their own life is `Subscription`), other
  declarations a flag. The one-callback delay of `stop()` is merged into it. The join
  may end at any time, which covers its timeout. The node is one with `trace_ring`,
  `health_interval` and `publish_logs_at` set, as by default: it always has a heartbeat task,
  publishers and, once it is up, a server. `late` is by kind: a second late publisher changes
  nothing. A foreign `shutdown()` is called once. An `on_start` that swallows the
  timeout's cancellation and the exit codes of `_amain` are left out.
* Presence: keys of nodes that do not parse are left out; one program runs at a time.
* Publishing: what is in a message beside its number, and the limit of the pool's
  warnings, are left out. A thread's put is a call that ends; the interpreter may switch
  threads at the calls a put makes, not inside an increment.
* Heartbeat: of the totals a health message reports only `dropped` is kept, the others are
  read the same way. One subscription and one timer.
* Timer: whole-number time. A cancellation may be swallowed by the body, or wait for
  its next await (`LeaveCall`).
* Service: one call per id. Lost queries are merged into the choice of the servers it
  reaches. zenoh's own query timeout and an exception out of `session.get` are left out.
* LogPublisher: formatters, levels and records that do not render are left out.
  `dropped` may count one record too many (the drain task takes one between the check
  and the append), never one too few.
* Exporter: one scrape at a time. Heartbeats of one node arrive in order; those of two
  incarnations that overlap on the bus are left out. Payloads that do not parse are
  ignored by the code and left out; so are the sidecar's own statistics and the jitter
  of the start time that stands for the incarnation.
* Tracing: a hop that is evicted from its ring later is out of the model, and timers do not
  end. The tracer provider samples by the parent (OpenTelemetry's default), a root
  as it likes. Span ids, the ring's bound, spans the application makes itself and
  malformed traceparents are left out. One subscription and one service per node;
  messages may overtake each other and none is duplicated.
* Not modelled: wiring, configuration, statistics, command line and test harness (no
  run-time state others depend on), OpenTelemetry spans (a library's).

## Plan

Done: the components above, in order of how much of the system rests on them, and proofs
of every safety property that a passing run checks.

Next: `NodeLifecycle` composed with `Subscription` and `Matching`, that is, which hooks may
run after `on_stop`.

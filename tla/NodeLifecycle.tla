---------------------------- MODULE NodeLifecycle ----------------------------
(***************************************************************************)
(* One node (src/zenode/node.py, class Node): start() with its failure     *)
(* path, on_start under start_timeout, stop(), shutdown(), on_stop and the  *)
(* teardown, under every order in which the coroutines, the worker threads  *)
(* they await and the callers can run.  The nodes of the same name in other *)
(* processes are its environment: their tokens come and go at any moment.   *)
(*                                                                         *)
(* A step of this module is what the code does between two awaits.  Two     *)
(* coroutines may work on a node: "main" is _amain (start, wait for stop(), *)
(* shutdown), "other" is a shutdown() that somebody else calls.             *)
(*                                                                         *)
(* What a node declared is kept as: its liveliness token, whether it has    *)
(* publishers, whether it has servers, the number of its subscriptions, and *)
(* its background tasks.  A subscription's own life is module Subscription. *)
(* Whoever holds the node may declare more and spawn at any moment: hooks,  *)
(* handlers, timers and tasks, also those that outlive the teardown, and    *)
(* code outside of the node.                                                *)
(***************************************************************************)
EXTENDS Naturals, FiniteSets

CONSTANTS
    Tasks,              \* background tasks a node may spawn
    Heartbeat,          \* the task of the health timer, one of them
    AllowDuplicates,    \* allow_duplicates
    StartTimeout,       \* start_timeout is set
    Bindings,           \* subscriptions that the bindings of the class make
    OpenMayFail,        \* zenoh.open may raise
    Concurrent,         \* shutdown() may be called beside _amain
    MaxStarts,          \* bound: start() calls that get past its guards
    MaxSubs,            \* bound: subscriptions made by hand
    CutGoesOn,          \* bound: declarations and tasks go on on a node that was cut
    MaxInterrupts       \* bound: cancellations of the coroutines

ASSUME TaskAssumption  == Heartbeat \in Tasks
ASSUME FlagAssumption  == {AllowDuplicates, StartTimeout, OpenMayFail, Concurrent, CutGoesOn} \subseteq BOOLEAN
ASSUME BoundAssumption == {MaxStarts, MaxSubs, MaxInterrupts, Bindings} \subseteq Nat

Coros == {"main", "other"}

\* Where a coroutine stands: at an await, or outside.
Steps == {"new", "opening", "checking", "checked", "onStart", "waiting",
          "onStop", "join", "subs", "closing", "raised", "done"}

Node == [
    state : {"stopped", "starting", "running", "stopping"},
    hasRun : BOOLEAN,           \* __has_run
    entered : BOOLEAN,          \* __entered_on_start
    stop : BOOLEAN,             \* __stop_event is set
    owned : BOOLEAN,            \* __session_owned
    session : BOOLEAN,          \* __session is not None
    token : BOOLEAN,
    publishers : BOOLEAN,
    servers : BOOLEAN,
    subs : Nat,
    tracked : SUBSET Tasks,     \* __tasks
    alive : SUBSET Tasks,       \* tasks that are not over
    asked : SUBSET Tasks,       \* tasks that were cancelled
    at : [Coros -> Steps],
    failing : BOOLEAN,          \* main is in the except branch of start()
    taken : BOOLEAN,            \* what the duplicate check was told
    starts : 0..MaxStarts,      \* start() calls that got past its guards
    \* History, read by no guard but those of the bounds:
    onStarts : 0..MaxStarts,    \* on_start calls
    onStops : 0..MaxStarts,     \* on_stop calls
    made : 0..MaxSubs,          \* subscriptions made by hand
    interrupts : 0..MaxInterrupts,
    late : SUBSET {"publishers", "subscriptions", "servers"},
                                \* kinds declared behind the teardown of them
    cut : BOOLEAN]              \* something left the start or the way down undone

VARIABLES
    node,       \* the node
    rival,      \* the token of another node of its name stands
    before      \* history: ... since before this start(), and no look-up missed it

vars == <<node, rival, before>>

New(owned) == [
    state |-> "stopped", hasRun |-> FALSE, entered |-> FALSE, stop |-> FALSE,
    owned |-> owned, session |-> ~owned, token |-> FALSE, publishers |-> FALSE,
    servers |-> FALSE, subs |-> 0, tracked |-> {}, alive |-> {}, asked |-> {},
    at |-> [c \in Coros |-> "new"], failing |-> FALSE, taken |-> FALSE,
    starts |-> 0, onStarts |-> 0, onStops |-> 0, made |-> 0,
    interrupts |-> 0, late |-> {}, cut |-> FALSE]

Init ==
    /\ node \in {New(TRUE), New(FALSE)}
    /\ rival \in BOOLEAN /\ before = FALSE

Becomes(r) == node' = r /\ UNCHANGED <<rival, before>>

Goto(r, c, step) == [r EXCEPT !.at[c] = step]

-----------------------------------------------------------------------------
(* The way down: on_stop, then the teardown, from its end to its beginning. *)

\* shutdown() returns, or start() re-raises.
Finish(r, c) ==
    Goto([r EXCEPT !.state = "stopped"], c, IF c = "main" /\ r.failing THEN "raised" ELSE "done")

Undeclared_KeepToken(r) == [r EXCEPT !.servers = FALSE, !.publishers = FALSE]
Undeclared(r) == [r EXCEPT !.servers = FALSE, !.publishers = FALSE, !.token = FALSE]

\* Servers, publishers and token go in one step; closing an owned session is awaited.
Retire(r, c) ==
    IF r.session /\ r.owned THEN Goto(Undeclared(r), c, "closing") ELSE Finish(Undeclared(r), c)

AfterJoin(r, c) ==
    LET left == [r EXCEPT !.tracked = {}]
    IN IF r.subs = 0 THEN Retire(left, c) ELSE Goto(left, c, "subs")

\* _teardown up to its first await: every task of the node is cancelled, which
\* does nothing to one that is over.
Teardown(r, c) ==
    IF r.tracked = {} THEN AfterJoin(r, c)
    ELSE Goto([r EXCEPT !.asked = r.tracked \cap r.alive], c, "join")

Unwind_NotOnce(r, c) ==
    IF r.entered THEN Goto([r EXCEPT !.onStops = @ + 1], c, "onStop") ELSE Teardown(r, c)
Unwind_TasksFirst(r, c) ==
    IF r.entered
    THEN Goto([r EXCEPT !.entered = FALSE, !.onStops = @ + 1, !.asked = r.tracked \cap r.alive], c, "onStop")
    ELSE Teardown(r, c)

\* _safe_on_stop and _teardown up to the first await.
Unwind(r, c) ==
    IF r.entered THEN Goto([r EXCEPT !.entered = FALSE, !.onStops = @ + 1], c, "onStop")
    ELSE Teardown(r, c)

\* The except branch of start().
Fail(r) == Unwind([r EXCEPT !.failing = TRUE], "main")

\* shutdown() up to its first await.
Shutdown(r, c) ==
    IF r.state \in {"stopping", "stopped"} THEN Goto(r, c, "done") ELSE Unwind([r EXCEPT !.state = "stopping"], c)

\* on_stop returned or raised an Exception.
OnStopEnds(c) ==
    /\ node.at[c] = "onStop"
    /\ Becomes(Teardown(node, c))

\* asyncio.wait returns: all the tasks are over or shutdown_timeout is.
JoinEnds(c) ==
    /\ node.at[c] = "join"
    /\ Becomes(AfterJoin(node, c))

\* sub.stop() of one more subscription returns.
StopSub(c) ==
    LET r == [node EXCEPT !.subs = IF @ = 0 THEN 0 ELSE @ - 1] IN
    /\ node.at[c] = "subs"
    /\ Becomes(IF r.subs = 0 THEN Retire(r, c) ELSE r)

\* The thread that closes the session is done, with or without an error.
SessionCloses(c) ==
    /\ node.at[c] = "closing"
    /\ Becomes(Finish([node EXCEPT !.session = FALSE], c))

-----------------------------------------------------------------------------
(* start().                                                                 *)

\* What was declared while the node was down is this start's to give back.
Start ==
    /\ node.at["main"] \in {"new", "raised"} /\ node.starts < MaxStarts
    /\ node.state = "stopped" /\ ~node.hasRun
    /\ node' = Goto([node EXCEPT !.state = "starting", !.starts = @ + 1, !.failing = FALSE, !.late = {}],
                    "main", IF node.session THEN "checking" ELSE "opening")
    /\ before' = rival
    /\ UNCHANGED rival

SessionOpens ==
    /\ node.at["main"] = "opening"
    /\ Becomes(Goto([node EXCEPT !.session = TRUE], "main", "checking"))

\* zenoh.open is outside the try block.
SessionOpenFails ==
    /\ OpenMayFail /\ node.at["main"] = "opening"
    /\ Becomes(Goto([node EXCEPT !.cut = TRUE], "main", "raised"))

\* What a liveliness get that gives up after a second says of the other tokens of
\* the name: the reply of one that stands may be late or lost.
Answers == {FALSE, rival}

\* The query runs in a thread; the coroutine sees its answer later.
LookUp ==
    /\ node.at["main"] = "checking"
    /\ \/ /\ node.session
          /\ \E told \in Answers :
                /\ node' = Goto([node EXCEPT !.taken = told], "main", "checked")
                /\ before' = (before /\ told)
          /\ UNCHANGED rival
       \/ Becomes(Fail(node))

Refused_Never(r) == FALSE
Refused(r) == r.taken /\ ~AllowDuplicates

\* The declared publishers, and log and health publishing with their tasks.
Publishing(r) ==
    [r EXCEPT !.publishers = TRUE, !.alive = @ \cup {Heartbeat}, !.tracked = @ \cup {Heartbeat}]

\* Token, publishers, log and health publishing, and the call of on_start; each
\* of them but the last may raise with those before it done.
Announce ==
    LET r == [node EXCEPT !.taken = FALSE]
        t == [r EXCEPT !.token = TRUE]
        p == Publishing(t)
    IN
    /\ node.at["main"] = "checked"
    /\ \/ Becomes(Fail(r))
       \/ /\ ~Refused(node) /\ node.session
          /\ \E q \in {t, [t EXCEPT !.publishers = TRUE], p} : Becomes(Fail(q))
       \/ /\ ~Refused(node) /\ node.session
          /\ Becomes(Goto([p EXCEPT !.entered = TRUE, !.onStarts = @ + 1], "main", "onStart"))

TimesOut_Never(r) == FALSE
TimesOut(r) == StartTimeout

OnStartTimesOut ==
    /\ node.at["main"] = "onStart" /\ TimesOut(node)
    /\ Becomes(Fail(node))

Up_ClearsStop(r) ==
    Goto([r EXCEPT !.subs = @ + Bindings, !.servers = TRUE, !.state = "running",
                   !.hasRun = TRUE, !.stop = FALSE], "main", "waiting")

\* start() returns.
Up(r) ==
    Goto([r EXCEPT !.subs = @ + Bindings, !.servers = TRUE, !.state = "running",
                   !.hasRun = TRUE], "main", "waiting")

\* on_start ends: it raised, or the bindings and the trace service are wired,
\* all of them or some of each kind until one of them raised.
OnStartEnds ==
    LET r == node IN
    /\ r.at["main"] = "onStart"
    /\ \/ Becomes(Fail(r))
       \/ /\ r.session
          /\ \E k \in 0..Bindings, served \in {r.servers, TRUE} :
                Becomes(Fail([r EXCEPT !.subs = @ + k, !.servers = served]))
       \/ r.session /\ Becomes(Up(r))

-----------------------------------------------------------------------------
(* The node's own code, and the callers.                                    *)

\* Servers, publishers and token are behind the teardown, or all of the node is.
Behind(r) == r.state = "stopped" \/ \E c \in Coros : r.at[c] = "closing"

Declared(r, kind) == [r EXCEPT !.late = IF Behind(r) THEN @ \cup {kind} ELSE @]

\* publisher(), subscribe(), serve(), by whoever calls them: they ask for a session,
\* the latter two for the loop of a start() too, and not for a state.
Declare ==
    /\ node.session /\ (node.cut => CutGoesOn)
    /\ \/ Becomes(Declared([node EXCEPT !.publishers = TRUE], "publishers"))
       \/ node.starts > 0 /\ Becomes(Declared([node EXCEPT !.servers = TRUE], "servers"))
       \/ /\ node.starts > 0 /\ node.made < MaxSubs
          /\ Becomes(Declared([node EXCEPT !.subs = @ + 1, !.made = @ + 1], "subscriptions"))

\* spawn(), and every(): a background task.
SpawnTask(t) ==
    /\ t # Heartbeat /\ node.starts > 0 /\ (node.cut => CutGoesOn)
    /\ t \notin node.alive \cup node.tracked
    /\ Becomes([node EXCEPT !.alive = @ \cup {t}, !.tracked = @ \cup {t}])

TaskEnds(t) ==
    /\ t \in node.alive
    /\ Becomes([node EXCEPT !.alive = @ \ {t}, !.asked = @ \ {t}])

\* stop(), from any thread: a subscription or a timer with "stop", a signal.
Stop ==
    /\ ~node.stop
    /\ Becomes([node EXCEPT !.stop = TRUE])

\* run_until_stopped returns in _amain, which goes on to shutdown().
Wake ==
    /\ node.at["main"] = "waiting" /\ node.stop
    /\ Becomes(Shutdown(node, "main"))

\* shutdown() called by somebody else, of a node that runs or beside its start(),
\* which goes on under the shutdown or takes the node down a second time.
OtherShutdown ==
    /\ Concurrent /\ node.at["other"] = "new"
    /\ node.state \notin {"stopping", "stopped"}
    /\ Becomes(Shutdown([node EXCEPT !.cut = @ \/ node.state = "starting"], "other"))

AdoptSession ==
    /\ node.state = "stopped"
    /\ Becomes([node EXCEPT !.session = TRUE, !.owned = FALSE])

\* The other nodes of the name: the first announces itself, the last goes.
RivalComes == ~rival /\ rival' = TRUE /\ UNCHANGED <<node, before>>
RivalGoes  == rival /\ rival' = FALSE /\ before' = FALSE /\ UNCHANGED node

\* A coroutine is cancelled at the await where it stands: outside the try block,
\* inside it, in _amain's own, in the way down (which Exception does not cover), or
\* in sub.stop(), which suppresses it.
Interrupt(c) ==
    LET r == [node EXCEPT !.interrupts = @ + 1]
        at == r.at[c]
    IN
    /\ node.interrupts < MaxInterrupts
    /\ \/ /\ at \in {"opening", "onStop", "join", "closing"}
          /\ Becomes(Goto([r EXCEPT !.cut = TRUE], c, "raised"))
       \/ c = "main" /\ at \in {"checking", "checked", "onStart"} /\ Becomes(Fail(r))
       \/ c = "main" /\ at = "waiting" /\ Becomes(Shutdown(r, "main"))
       \/ at = "subs" /\ Becomes(r)

\* Every coroutine is over: the end of the run, not a deadlock.
Terminated ==
    /\ node.at["main"] \in {"raised", "done"} /\ node.at["other"] \in {"new", "raised", "done"}
    /\ UNCHANGED vars

WayDown(c) == OnStopEnds(c) \/ JoinEnds(c) \/ StopSub(c) \/ SessionCloses(c)

\* What the runtime and the loop do by themselves; on_start need never end.
Progress ==
    \/ SessionOpens \/ SessionOpenFails \/ LookUp \/ Announce \/ OnStartTimesOut
    \/ Wake \/ WayDown("main")

Next ==
    \/ Start \/ Progress \/ OnStartEnds \/ WayDown("other")
    \/ Declare \/ \E t \in Tasks : SpawnTask(t) \/ TaskEnds(t)
    \/ Stop \/ OtherShutdown \/ AdoptSession \/ \E c \in Coros : Interrupt(c)
    \/ RivalComes \/ RivalGoes

Spec == Init /\ [][Next \/ Terminated]_vars

\* Threads answer, timers fire, the loop resumes what is ready, on_stop and every
\* sub.stop() end.  Nothing makes on_start, a task or a caller move.
FairSpec == Spec /\ WF_vars(Progress) /\ WF_vars(WayDown("other"))

-----------------------------------------------------------------------------
(* Correctness.                                                             *)

\* What the fields hold, and that only a task that is not over awaits its cancellation.
TypeOK ==
    /\ node \in Node /\ rival \in BOOLEAN /\ before \in BOOLEAN
    /\ node.asked \subseteq node.alive

Held ==
    (IF node.token THEN {"token"} ELSE {}) \cup (IF node.publishers THEN {"publishers"} ELSE {})
      \cup (IF node.subs > 0 THEN {"subscriptions"} ELSE {})
      \cup (IF node.servers THEN {"servers"} ELSE {})

\* Unless the start or the way down was cut short, a node that is down holds
\* nothing but what was declared behind its teardown, and when every start() and
\* shutdown() is over it is down: wherever the start failed or was cancelled,
\* whoever shut it down, and whatever had been declared by then.
EndsClean ==
    ~node.cut =>
        /\ node.at["main"] \in {"raised", "done"} /\ node.at["other"] \in {"new", "raised", "done"}
             => node.state = "stopped"
        /\ node.state = "stopped" => Held \subseteq node.late /\ (node.owned => ~node.session)

\* on_stop answers each on_start exactly once, over failed starts and retries:
\* never without it, never twice, also when shutdown() races a start and callers
\* cancel; and before the node is down, unless that was cut short.
OnStopPaired ==
    /\ node.onStarts = node.onStops + (IF node.entered THEN 1 ELSE 0)
    /\ node.state = "stopped" /\ ~node.cut => ~node.entered

\* Hardware first: no background task is cancelled before on_stop is over, unless
\* the way down is cut short.
SafedBeforeJoin ==
    [][~(node'.asked \subseteq node.asked) /\ ~node'.cut
             => ~node'.entered /\ \A c \in Coros : node'.at[c] # "onStop"]_vars

\* With allow_duplicates = False a node is not announced beside another of its name
\* that stood before the start() and stood ever since, unless the reply that tells of
\* it came too late or not at all (a token that an earlier start left behind, cut
\* short, was there before).
NoLateDuplicate == ~AllowDuplicates /\ node.token /\ ~node.cut => ~before

\* A start comes to an end, since start_timeout bounds an on_start that does not; and
\* stop() is honoured, also one that came while the node was starting.
StartsAndStopsEnd ==
    /\ node.state = "starting" ~> node.state \in {"running", "stopped"} \/ node.cut
    /\ node.stop /\ node.state # "stopped" ~> node.state = "stopped" \/ node.cut

\* docs/nodes.md:307-308: "A start that *failed* may be retried, since it left
\* nothing declared": start() accepts a node whose last start() raised.
FailedStartRetryable ==
    node.at["main"] = "raised" /\ ~node.hasRun => node.state = "stopped"
===============================================================================

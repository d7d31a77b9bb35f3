------------------------------ MODULE Heartbeat -------------------------------
(***************************************************************************)
(* A node's heartbeat among what it reports on (src/zenode/node.py,         *)
(* _publish_health): the Timer that runs it, the Publishing of a worker     *)
(* thread and of the loop, and a subscription's queue with its latencies    *)
(* (src/zenode/metrics.py, Latency).  The same composition with the timer   *)
(* of an application, whose body is its own, checks Timer under every       *)
(* error policy.                                                            *)
(***************************************************************************)
EXTENDS Timer, Publishing, FiniteSetsExt

CONSTANTS
    Loop,       \* the caller of put that is the loop's thread
    Health,     \* the publisher of the heartbeats, not a pooled one
    QueueSize,  \* maxsize of the subscription's queue
    Durations,  \* what a latency may measure
    Loads       \* bounds: how many samples arrive and how many application messages
                \* are put, beside a timer of which kind

ASSUME LoopAssumption     == Loop \in Callers /\ Health \in Publishers \ Pooled
ASSUME SizeAssumption     == QueueSize \in Nat \ {0}
ASSUME LoadAssumption     == Loads \subseteq [job : {"health", "app"}, puts : Nat, arrivals : Nat]
ASSUME DurationAssumption == Durations \subseteq Nat \ {0} /\ IsFiniteSet(Durations)

VARIABLES
    load,       \* whose timer this is, and the bounds of the run
    depth, peak, dropped, received, \* the subscription: its queue's length and the counters
    busy,       \* its handler runs
    latency,    \* its two Latency accumulators, age and handler_time
    draft,      \* the health message that is being put
    beat,       \* the last health message on the bus
    heard       \* history: how often each duration was observed since beat was drafted

timerVars == vars
queueVars == <<depth, peak, dropped, received, busy>>
beatVars  == <<draft, beat>>
beatingVars == <<load, timerVars, putVars, queueVars, latency, beatVars, heard>>

Accumulators == {"age", "handler"}
Empty        == [count |-> 0, total |-> 0, max |-> 0]

\* Of NodeHealth: the windowed latencies, the mean as total over count, queue_max_depth
\* and dropped.
NoBeat  == [seq |-> 0, window |-> Empty, depth |-> 0, dropped |-> 0]
Nothing == [d \in Durations |-> 0]

BeatInit ==
    /\ Init /\ PutInit
    /\ load \in Loads /\ (load.job = "health" => onError = "log")
    /\ depth = 0 /\ peak = 0 /\ dropped = 0 /\ received = 0 /\ busy = FALSE
    /\ latency = [a \in Accumulators |-> Empty]
    /\ draft = NoBeat /\ beat = NoBeat /\ heard = Nothing

\* No put is under way on the loop: it may run its next callback.
LoopFree == put[Loop].at = "idle"
Beating  == load.job = "health" /\ pc = "body"

-----------------------------------------------------------------------------
(* The subscription, on the loop (pubsub.py).                               *)

\* The queue makes room if it must, and takes the sample; its high-water mark follows.
Arrive ==
    /\ LoopFree /\ received < load.arrivals
    /\ received' = received + 1
    /\ IF depth = QueueSize
       THEN dropped' = dropped + 1 /\ UNCHANGED depth
       ELSE depth' = depth + 1 /\ UNCHANGED dropped
    /\ peak' = Max({peak, depth'})
    /\ UNCHANGED <<load, timerVars, putVars, busy, latency, beatVars, heard>>

Observe(a, d) ==
    /\ latency' = [latency EXCEPT ![a] =
                     [count |-> @.count + 1, total |-> @.total + d, max |-> Max({@.max, d})]]
    /\ heard' = [heard EXCEPT ![d] = @ + 1]

\* The consumer takes a sample, d after its publication, and calls the handler.
Take(d) ==
    /\ LoopFree /\ depth > 0 /\ ~busy
    /\ depth' = depth - 1 /\ busy' = TRUE
    /\ Observe("age", d)
    /\ UNCHANGED <<load, timerVars, putVars, peak, dropped, received, beatVars>>

HandlerEnds(d) ==
    /\ LoopFree /\ busy
    /\ busy' = FALSE
    /\ Observe("handler", d)
    /\ UNCHANGED <<load, timerVars, putVars, depth, peak, dropped, received, beatVars>>

-----------------------------------------------------------------------------
(* Puts of the worker threads, and of what runs on the loop.                *)

Publish(c, p) ==
    /\ c = Loop => LoopFree
    /\ p # Health /\ taken[p] < load.puts
    /\ Put(c, p)
    /\ UNCHANGED <<load, timerVars, queueVars, latency, beatVars, heard>>

\* A raising put of an application goes to its caller, who may catch it.
PutStep(c) ==
    /\ ~(c = Loop /\ Beating)
    /\ Step(c)
    /\ UNCHANGED <<load, timerVars, queueVars, latency, beatVars, heard>>

-----------------------------------------------------------------------------
(* The timer and, as its body, _publish_health.                             *)

\* summarize: the accumulators together.
Summary ==
    [count |-> latency["age"].count + latency["handler"].count,
     total |-> latency["age"].total + latency["handler"].total,
     max   |-> Max({latency[a].max : a \in Accumulators})]

Depth_Instant == depth

\* A queue that filled and drained between two heartbeats still shows.
Depth == peak

\* The body reads everything it reports and takes a number for it, in one stretch.
BeatBegins ==
    /\ LoopFree /\ load.job = "health"
    /\ Wake
    /\ Put(Loop, Health)
    /\ draft' = [seq |-> taken[Health] + 1, window |-> Summary, depth |-> Depth, dropped |-> dropped]
    /\ UNCHANGED <<load, queueVars, latency, beat, heard>>

\* The put goes on; the transport may make it wait, and the loop with it.
BeatGoesOn ==
    /\ Beating
    /\ Encode(Loop) \/ Transmit(Loop)
    /\ ~LoopFree'
    /\ beat' = IF put'[Loop].at = "count" THEN draft ELSE beat
    /\ heard' = IF put'[Loop].at = "count" THEN Nothing ELSE heard
    /\ UNCHANGED <<load, timerVars, queueVars, latency, draft>>

ResetWindow ==
    /\ latency' = [a \in Accumulators |-> Empty]
    /\ peak' = 0

\* put returned: the windows start anew.
BeatSent ==
    /\ Beating
    /\ Count(Loop)
    /\ ResetWindow
    /\ BodyReturns
    /\ UNCHANGED <<load, depth, dropped, received, busy, beatVars, heard>>

BeatFails_Resets ==
    /\ Beating
    /\ Encode(Loop) \/ Transmit(Loop)
    /\ LoopFree'
    /\ BodyRaises
    /\ ResetWindow
    /\ UNCHANGED <<load, depth, dropped, received, busy, beatVars, heard>>

\* put raised: the timer counts an error and the windows go on.
BeatFails ==
    /\ Beating
    /\ Encode(Loop) \/ Transmit(Loop)
    /\ LoopFree'
    /\ BodyRaises
    /\ UNCHANGED <<load, queueVars, latency, beatVars, heard>>

\* The timer's task gets its turn when the loop is free; an application's body
\* may await between its puts.
TimerStep ==
    /\ LoopFree
    /\ \/ Begin \/ EndsCancelled \/ Cancel
       \/ load.job = "app" /\ (Wake \/ BodyReturns \/ BodyRaises \/ PolicyEnds)
    /\ UNCHANGED <<load, putVars, queueVars, latency, beatVars, heard>>

Passing ==
    /\ TimePasses
    /\ UNCHANGED <<load, putVars, queueVars, latency, beatVars, heard>>

\* The bounds are reached and nothing is under way.
Ended ==
    /\ Terminated
    /\ received = load.arrivals /\ depth = 0 /\ ~busy
    /\ \A c \in Callers : put[c].at = "idle"
    /\ UNCHANGED beatingVars

BeatNext ==
    \/ Arrive \/ BeatBegins \/ BeatGoesOn \/ BeatSent \/ BeatFails
    \/ TimerStep \/ Passing \/ Ended
    \/ \E d \in Durations : Take(d) \/ HandlerEnds(d)
    \/ \E c \in Callers : PutStep(c) \/ \E p \in Publishers : Publish(c, p)

BeatSpec == BeatInit /\ [][BeatNext]_beatingVars

-----------------------------------------------------------------------------
(* Correctness.                                                             *)

Observations(h) == MapThenSumSet(LAMBDA d : h[d], Durations)
TimeObserved(h) == MapThenSumSet(LAMBDA d : h[d] * d, Durations)

\* The windowed numbers of a heartbeat cover the interval since the one before it: the
\* mean and the maximum that reach the bus are those of exactly the durations observed
\* since the last heartbeat that did, however many heartbeats were late or raised; and
\* samples are dropped between two heartbeats only if the later one shows a full queue.
BeatsCoverWindow ==
    [][beat' # beat =>
         /\ beat'.window = [count |-> Observations(heard),
                            total |-> TimeObserved(heard),
                            max   |-> Max({0} \cup {d \in Durations : heard[d] > 0})]
         /\ beat'.dropped > beat.dropped => beat'.depth = QueueSize]_beatingVars
==============================================================================

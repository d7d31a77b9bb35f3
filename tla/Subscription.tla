---------------------------- MODULE Subscription ----------------------------
(***************************************************************************)
(* One zenode subscription (src/zenode/pubsub.py, class Subscription): the  *)
(* hand-over from the zenoh worker thread to the asyncio loop, the bounded  *)
(* queue or latest-value slot, the consumer task, the max_age checks, the   *)
(* silence detector with its timer and hook tasks, the heartbeat's reset of *)
(* the queue's high-water mark, and stop().                                 *)
(*                                                                         *)
(* The loop's ready list is explicit, because the order in which callbacks  *)
(* run is what the detector relies on: zenoh appends a push, a due timer    *)
(* appends a check, create_task appends the first step of a hook task, and  *)
(* the loop runs the list first in, first out.  The consumer and the hook   *)
(* tasks that are past their first step interleave freely with it.          *)
(*                                                                         *)
(* One clock stands for both of the code's clocks (the wall clock that ages *)
(* a sample, the monotonic one of the deadline): a skewed sender is a       *)
(* sample whose timestamp lies in the past when it lands.                   *)
(***************************************************************************)
EXTENDS Integers, Sequences, FiniteSets, Bags

CONSTANTS
    None,           \* the code's None
    Mode,           \* "queue" or "latest"
    QueueSize,      \* capacity of the queue
    MaxAge,         \* topic.max_age, or None
    Deadline,       \* seconds without data that make silence, or None
    SilenceLogInterval, \* period of the check while silent
    OnDeadline,     \* "log", "stop" or "callable"
    SilenceHooks,   \* @on_silence bodies
    ResumeHooks,    \* @on_resume bodies
    PolicyHook,     \* the callable given as on_deadline
    Bodies,         \* kinds of payload the senders publish
    Outcomes,       \* how a handler or a hook may end
    Transits,       \* ages a sample may have when it lands; None: no envelope
    MaxSent,        \* bound: samples zenoh delivers
    MaxTime         \* bound: the clock's last instant

Hooks == SilenceHooks \cup ResumeHooks \cup {PolicyHook}

ASSUME ModeAssumption     == Mode \in {"queue", "latest"}
ASSUME QueueAssumption    == QueueSize \in Nat \ {0}
ASSUME MaxAgeAssumption   == MaxAge \in Nat \cup {None}
ASSUME DeadlineAssumption == /\ Deadline \in (Nat \ {0}) \cup {None}
                             /\ SilenceLogInterval \in Nat \ {0}
                             /\ OnDeadline \in {"log", "stop", "callable"}
ASSUME NoneAssumption     == None \notin Int
ASSUME HookAssumption     == SilenceHooks \cap ResumeHooks = {} /\ PolicyHook \notin SilenceHooks \cup ResumeHooks
ASSUME InputAssumption    == /\ Bodies \subseteq {"good", "malformed"}
                             /\ Outcomes \subseteq {"returns", "raises", "cancels", "masks"}
                             /\ Transits \subseteq Int \cup {None}
ASSUME BoundAssumption    == MaxSent \in Nat /\ MaxTime \in Nat

VARIABLES
    now,            \* the clock
    sent,           \* samples zenoh has delivered so far
    ready,          \* the loop's ready list
    queue,          \* _queue
    latest,         \* _latest
    latestReady,    \* _latest_ready
    consumer,       \* the consumer task: idle, busy, cancelling or done
    current,        \* the sample its handler works on
    received, dropped, stale, errors, queuePeak,  \* the public counters
    timers,         \* call_later timers not yet due and not cancelled (a bag of due times)
    handle,         \* _handle: due time of the timer the subscription holds
    lastArrival,    \* _last_arrival
    silent,         \* _silent
    misses,         \* deadline_misses
    silenceHooks, resumeHooks,  \* the hooks attached so far, in order
    hookTasks,      \* hook tasks past their first step
    nodeStop,       \* node.stop() was called
    stopPc,         \* progress of stop(): open, hooks, consumer, closed
    \* History, read by no guard:
    malformed,      \* samples whose payload did not decode
    dispatched,     \* samples whose handler ended
    overwritten,    \* values of latest mode replaced before they were taken
    taken,          \* id of the last sample the consumer took
    usable,         \* last sample that passed the arrival check: its id and time
    told            \* for each hook, the outages it was called for, in order

intakeVars  == <<queue, latest, latestReady, overwritten>>
consumeVars == <<consumer, current, taken, malformed, dispatched>>
counterVars == <<received, dropped, stale, errors, queuePeak>>
silenceVars == <<timers, handle, lastArrival, silent, misses, nodeStop>>
hookVars    == <<silenceHooks, resumeHooks, hookTasks, told>>
vars == <<now, sent, ready, usable, stopPc, intakeVars, consumeVars, counterVars,
          silenceVars, hookVars>>

closed == stopPc # "open"

Sample == [id: Nat, ts: Int \cup {None}, at: Nat, body: Bodies]

\* A hook task: the hooks still to run (the first is the running one once the
\* task has started), the outage they are told of, and a pending cancellation.
HookTask == [hooks: Seq(Hooks), outage: Nat, cancelled: BOOLEAN]

Callback == [cb: {"push"}, sample: Sample]
                \cup [cb: {"check", "cancelled"}]
                \cup [cb: {"hooks"}, task: HookTask]

Push(s)      == [cb |-> "push", sample |-> s]
Check        == [cb |-> "check"]
Cancelled    == [cb |-> "cancelled"]
Spawn(hooks, outage) ==
    [cb |-> "hooks", task |-> [hooks |-> hooks, outage |-> outage, cancelled |-> FALSE]]

\* Handle.cancel(): the ready list skips a cancelled callback.
CancelIn(callbacks, kind) ==
    [i \in DOMAIN callbacks |-> IF callbacks[i].cb = kind THEN Cancelled ELSE callbacks[i]]

Running(kind) == ready # <<>> /\ Head(ready).cb = kind

\* What the consumer has to take, oldest first.
Waiting == IF Mode = "queue" THEN queue ELSE IF latestReady THEN <<latest>> ELSE <<>>

-----------------------------------------------------------------------------
\* The timer that the silence detector starts with.
Armed == IF Deadline = None THEN EmptyBag ELSE SetToBag({Deadline})

Init ==
    /\ now = 0 /\ sent = 0 /\ ready = <<>>
    /\ queue = <<>> /\ latest = None /\ latestReady = FALSE
    /\ consumer = "idle" /\ current = None
    /\ received = 0 /\ dropped = 0 /\ stale = 0 /\ errors = 0 /\ queuePeak = 0
    /\ timers = Armed
    /\ handle = Deadline
    /\ lastArrival = 0 /\ silent = FALSE /\ misses = 0
    /\ silenceHooks = <<>> /\ resumeHooks = <<>> /\ hookTasks = {}
    /\ nodeStop = FALSE /\ stopPc = "open"
    /\ malformed = 0 /\ dispatched = 0 /\ overwritten = 0 /\ taken = 0
    /\ usable = [id |-> 0, at |-> 0]
    /\ told = [h \in Hooks |-> <<>>]

-----------------------------------------------------------------------------
(* The zenoh worker thread, and time.                                       *)

\* A PUT lands: copied out and queued on the loop.
ZenohCallback ==
    /\ stopPc # "closed" /\ sent < MaxSent
    /\ \E transit \in Transits, body \in Bodies :
         ready' = Append(ready, Push([id |-> sent + 1, at |-> now, body |-> body,
                                      ts |-> IF transit = None THEN None ELSE now - transit]))
    /\ sent' = sent + 1
    /\ UNCHANGED <<now, usable, stopPc, intakeVars, consumeVars, counterVars,
                   silenceVars, hookVars>>

Tick ==
    /\ now < MaxTime
    /\ now' = now + 1
    /\ UNCHANGED <<sent, ready, usable, stopPc, intakeVars, consumeVars, counterVars,
                   silenceVars, hookVars>>

\* The loop moves a due timer to its ready list, late by as much as it likes.
TimerDue ==
    /\ \E due \in BagToSet(timers) :
         /\ due <= now
         /\ timers' = timers (-) SetToBag({due})
    /\ ready' = Append(ready, Check)
    /\ UNCHANGED <<now, sent, usable, stopPc, intakeVars, consumeVars, counterVars,
                   handle, lastArrival, silent, misses, nodeStop, hookVars>>

-----------------------------------------------------------------------------
(* The silence detector.                                                    *)

\* _schedule, on the timers that are left.
Schedule(left, delay) ==
    /\ timers' = left (+) SetToBag({now + delay})
    /\ handle' = now + delay

\* self._handle.cancel(): a pending timer is forgotten, one already in the ready
\* list is skipped when its turn comes.
TimersLeft_NotCancelled == timers
ReadyLeft_NotCancelled(callbacks) == callbacks

TimersLeft           == IF handle = None THEN timers ELSE timers (-) SetToBag({handle})
ReadyLeft(callbacks) == IF BagIn(handle, timers) THEN callbacks ELSE CancelIn(callbacks, "check")

StopPolicy_LogOnly == UNCHANGED nodeStop
StopPolicy         == nodeStop' = (nodeStop \/ OnDeadline = "stop")

EnterSilence ==
    /\ silent' = TRUE
    /\ misses' = misses + 1
    /\ ready' = Tail(ready) \o <<Spawn(silenceHooks, misses + 1)>>
                  \o (IF OnDeadline = "callable" THEN <<Spawn(<<PolicyHook>>, misses + 1)>> ELSE <<>>)
    /\ StopPolicy

Rearm_Slow == UNCHANGED <<timers, handle>>

\* The pending wake-up is on the slow schedule of the silence: back to the deadline.
Rearm == Schedule(TimersLeft, Deadline)

LeaveSilence ==
    /\ silent' = FALSE
    /\ Rearm
    /\ ready' = Append(ReadyLeft(Tail(ready)), Spawn(resumeHooks, misses))

Stamp_OnResume == IF silent THEN now ELSE lastArrival
Stamp          == IF Deadline = None THEN lastArrival ELSE now

\* A usable sample landed: any silence ends at once.
MarkArrival ==
    /\ lastArrival' = Stamp
    /\ \/ silent /\ LeaveSilence
       \/ ~silent /\ ready' = Tail(ready) /\ UNCHANGED <<silent, timers, handle>>
    /\ UNCHANGED <<misses, nodeStop>>

\* Lazy timer: it wakes and reschedules itself to what is left of the deadline.
CheckDeadline ==
    LET remaining == Deadline - (now - lastArrival) IN
    /\ Running("check")
    /\ \/ closed /\ handle' = None /\ ready' = Tail(ready)
          /\ UNCHANGED <<timers, silent, misses, nodeStop>>
       \/ ~closed /\ remaining > 0 /\ Schedule(timers, remaining) /\ ready' = Tail(ready)
          /\ UNCHANGED <<silent, misses, nodeStop>>
       \/ ~closed /\ remaining <= 0
          /\ Schedule(timers, IF Deadline > SilenceLogInterval THEN Deadline ELSE SilenceLogInterval)
          /\ \/ ~silent /\ EnterSilence
             \/ silent /\ ready' = Tail(ready) /\ UNCHANGED <<silent, misses, nodeStop>>
    /\ UNCHANGED <<now, sent, usable, stopPc, lastArrival, intakeVars, consumeVars,
                   counterVars, hookVars>>

RunCancelled ==
    /\ Running("cancelled")
    /\ ready' = Tail(ready)
    /\ UNCHANGED <<now, sent, usable, stopPc, intakeVars, consumeVars, counterVars,
                   silenceVars, hookVars>>

-----------------------------------------------------------------------------
(* _push: what the loop does with a sample zenoh handed over.               *)

IsStale(s) == MaxAge # None /\ s.ts # None /\ now - s.ts > MaxAge

Full == Len(queue) = QueueSize

Evictions_Uncounted == 0
Evictions           == IF Full THEN 1 ELSE 0

DropStaleOnArrival_AfterEviction ==
    /\ stale' = stale + 1
    /\ ready' = Tail(ready)
    /\ queue' = IF Full THEN Tail(queue) ELSE queue
    /\ dropped' = dropped + Evictions
    /\ UNCHANGED <<usable, queuePeak, latest, latestReady, overwritten, silenceVars>>

DropStaleOnArrival ==
    /\ stale' = stale + 1
    /\ ready' = Tail(ready)
    /\ UNCHANGED <<usable, dropped, queuePeak, intakeVars, silenceVars>>

\* In latest mode the newest sample replaces the one not taken yet.
StoreLatest(s) ==
    /\ Mode = "latest"
    /\ latest' = s /\ latestReady' = TRUE
    /\ overwritten' = overwritten + (IF latestReady THEN 1 ELSE 0)
    /\ UNCHANGED <<queue, dropped, queuePeak>>

Queued_Lifo(s) == <<s>> \o (IF Full THEN Tail(queue) ELSE queue)

\* A full queue gives up its oldest sample first.
Queued(s) == Append(IF Full THEN Tail(queue) ELSE queue, s)

Enqueue(s) ==
    /\ Mode = "queue"
    /\ queue' = Queued(s)
    /\ dropped' = dropped + Evictions
    /\ queuePeak' = IF Len(queue') > queuePeak THEN Len(queue') ELSE queuePeak
    /\ UNCHANGED <<latest, latestReady, overwritten>>

RunPush ==
    /\ Running("push")
    /\ LET s == Head(ready).sample IN
         \/ /\ closed
            /\ ready' = Tail(ready)
            /\ UNCHANGED <<usable, intakeVars, counterVars, silenceVars>>
         \/ /\ ~closed
            /\ received' = received + 1
            /\ \/ IsStale(s) /\ DropStaleOnArrival
               \/ /\ ~IsStale(s)
                  /\ MarkArrival
                  /\ StoreLatest(s) \/ Enqueue(s)
                  /\ usable' = [id |-> s.id, at |-> now]
                  /\ UNCHANGED stale
            /\ UNCHANGED errors
    /\ UNCHANGED <<now, sent, stopPc, consumeVars, hookVars>>

-----------------------------------------------------------------------------
(* _consume: one turn of the consumer's loop.                               *)

ReadyAfterTake            == FALSE

Consume ==
    /\ consumer = "idle" /\ Waiting # <<>>
    /\ queue' = IF Mode = "queue" THEN Tail(queue) ELSE queue
    /\ latestReady' = ReadyAfterTake
    /\ LET s == Head(Waiting) IN
         /\ taken' = s.id
         /\ \/ /\ IsStale(s)
               /\ stale' = stale + 1
               /\ UNCHANGED <<consumer, current, malformed, errors>>
            \/ /\ ~IsStale(s) /\ s.body = "malformed"
               /\ errors' = errors + 1 /\ malformed' = malformed + 1
               /\ UNCHANGED <<consumer, current, stale>>
            \/ /\ ~IsStale(s) /\ s.body = "good"
               /\ consumer' = "busy" /\ current' = s
               /\ UNCHANGED <<malformed, errors, stale>>
    /\ UNCHANGED <<now, sent, ready, usable, stopPc, latest, overwritten, dispatched,
                   received, dropped, queuePeak, silenceVars, hookVars>>

AfterException_Dead == "done"
AfterException      == "idle"

\* _dispatch returns to the consumer's loop.  Only Exception is caught: a handler
\* that ends with CancelledError, its own or the one stop() sent, ends the task;
\* one that turns the cancellation into another exception does not.
HandlerEnds ==
    /\ consumer \in {"busy", "cancelling"}
    /\ \/ consumer = "busy" /\ "returns" \in Outcomes /\ consumer' = "idle" /\ UNCHANGED errors
       \/ consumer = "busy" /\ "raises" \in Outcomes /\ consumer' = AfterException
          /\ errors' = errors + 1
       \/ consumer = "busy" /\ "cancels" \in Outcomes /\ consumer' = "done" /\ UNCHANGED errors
       \/ consumer = "cancelling" /\ consumer' = "done" /\ UNCHANGED errors
       \/ consumer = "cancelling" /\ "masks" \in Outcomes /\ consumer' = "idle"
          /\ errors' = errors + 1
    /\ current' = None
    /\ dispatched' = dispatched + 1
    /\ UNCHANGED <<now, sent, ready, usable, stopPc, intakeVars, taken, malformed,
                   received, dropped, stale, queuePeak, silenceVars, hookVars>>

-----------------------------------------------------------------------------
(* _run_hooks: the hooks of one edge, one after the other.                  *)

\* The first step of a hook task calls its first hook.
StartTask(t) ==
    IF t.hooks = <<>> THEN UNCHANGED <<hookTasks, told>>
    ELSE /\ hookTasks' = hookTasks \cup {t}
         /\ told' = [told EXCEPT ![Head(t.hooks)] = Append(@, t.outage)]

HooksOf_LiveList(t) == [t EXCEPT !.hooks = IF @ = resumeHooks THEN @ ELSE silenceHooks]

\* The task iterates the tuple it was created with, not the list of hooks.
HooksOf(t) == t

RunHooks ==
    /\ Running("hooks")
    /\ StartTask(HooksOf(Head(ready).task))
    /\ ready' = Tail(ready)
    /\ UNCHANGED <<now, sent, usable, stopPc, intakeVars, consumeVars, counterVars,
                   silenceVars, silenceHooks, resumeHooks>>

\* The running hook of t is over and the loop of _run_hooks goes on.
NextHook(t) ==
    LET rest == [hooks |-> Tail(t.hooks), outage |-> t.outage, cancelled |-> FALSE] IN
    IF rest.hooks = <<>>
        THEN hookTasks' = hookTasks \ {t} /\ UNCHANGED told
        ELSE /\ hookTasks' = (hookTasks \ {t}) \cup {rest}
             /\ told' = [told EXCEPT ![Head(rest.hooks)] = Append(@, t.outage)]

HookEnds(t) ==
    /\ \/ ~t.cancelled /\ "returns" \in Outcomes /\ NextHook(t) /\ UNCHANGED errors
       \/ ~t.cancelled /\ "raises" \in Outcomes /\ NextHook(t) /\ errors' = errors + 1
       \/ t.cancelled /\ "masks" \in Outcomes /\ NextHook(t) /\ errors' = errors + 1
       \/ /\ t.cancelled \/ "cancels" \in Outcomes
          /\ hookTasks' = hookTasks \ {t}
          /\ UNCHANGED <<told, errors>>
    /\ UNCHANGED <<now, sent, ready, usable, stopPc, intakeVars, consumeVars, received,
                   dropped, stale, queuePeak, silenceVars, silenceHooks, resumeHooks>>

LateFire_Never(h) == ready
LateFire(h)       == IF silent THEN Append(ready, Spawn(<<h>>, misses)) ELSE ready

\* _add_silence_hook: a hook attached during an outage is told of it at once.  The
\* start of the node wires the hooks, its teardown stops the subscription later.
AddSilenceHook(h) ==
    /\ ~closed /\ Deadline # None
    /\ \A i \in DOMAIN silenceHooks : silenceHooks[i] # h
    /\ silenceHooks' = Append(silenceHooks, h)
    /\ ready' = LateFire(h)
    /\ UNCHANGED <<now, sent, usable, stopPc, intakeVars, consumeVars, counterVars,
                   silenceVars, resumeHooks, hookTasks, told>>

AddResumeHook(h) ==
    /\ ~closed /\ Deadline # None
    /\ \A i \in DOMAIN resumeHooks : resumeHooks[i] # h
    /\ resumeHooks' = Append(resumeHooks, h)
    /\ UNCHANGED <<now, sent, ready, usable, stopPc, intakeVars, consumeVars, counterVars,
                   silenceVars, silenceHooks, hookTasks, told>>

-----------------------------------------------------------------------------
(* The node's heartbeat, and stop().                                        *)

\* _publish_health reports the high-water mark and starts a new window.
PublishHealth ==
    /\ ~closed
    /\ queuePeak' = 0
    /\ UNCHANGED <<now, sent, ready, usable, stopPc, intakeVars, consumeVars, received,
                   dropped, stale, errors, silenceVars, hookVars>>

\* stop() up to its first await: a task that has not started never will.
Stop ==
    /\ stopPc = "open"
    /\ stopPc' = "hooks"
    /\ timers' = TimersLeft /\ handle' = None
    /\ ready' = CancelIn(ReadyLeft(ready), "hooks")
    /\ hookTasks' = {[t EXCEPT !.cancelled = TRUE] : t \in hookTasks}
    /\ UNCHANGED <<now, sent, usable, intakeVars, consumeVars, counterVars, lastArrival,
                   silent, misses, nodeStop, silenceHooks, resumeHooks, told>>

CancelConsumer_JoinOnly == IF consumer = "busy" THEN "busy" ELSE "done"
CancelConsumer          == IF consumer = "busy" THEN "cancelling" ELSE "done"

\* The hook tasks are over: the consumer is cancelled next.
StopConsumer ==
    /\ stopPc = "hooks" /\ hookTasks = {}
    /\ stopPc' = "consumer"
    /\ consumer' = CancelConsumer
    /\ UNCHANGED <<now, sent, ready, usable, intakeVars, current, taken, malformed,
                   dispatched, counterVars, silenceVars, hookVars>>

\* The consumer is over: the zenoh subscriber goes.
Undeclare ==
    /\ stopPc = "consumer" /\ consumer = "done"
    /\ stopPc' = "closed"
    /\ UNCHANGED <<now, sent, ready, usable, intakeVars, consumeVars, counterVars,
                   silenceVars, hookVars>>

\* Nothing is left to do: the end of the run, not a deadlock.
Terminated == stopPc = "closed" /\ ready = <<>> /\ now = MaxTime /\ UNCHANGED vars

RunReady == RunPush \/ CheckDeadline \/ RunCancelled \/ RunHooks

Next ==
    \/ ZenohCallback \/ Tick \/ TimerDue
    \/ RunReady \/ Consume \/ HandlerEnds
    \/ \E t \in hookTasks : HookEnds(t)
    \/ \E h \in SilenceHooks : AddSilenceHook(h)
    \/ \E h \in ResumeHooks : AddResumeHook(h)
    \/ PublishHealth
    \/ Stop \/ StopConsumer \/ Undeclare
    \/ Terminated

\* The loop runs what is ready, timers come due and time passes, handlers and
\* hooks end, stop() goes on once called.  Nothing makes a sample arrive, a hook
\* be attached or anyone call stop(), except node.stop() once it was called.
Fairness ==
    /\ WF_vars(RunReady) /\ WF_vars(TimerDue) /\ WF_vars(Tick)
    /\ WF_vars(Consume) /\ WF_vars(HandlerEnds)
    /\ WF_vars(\E t \in hookTasks : HookEnds(t))
    /\ WF_vars(nodeStop /\ Stop) /\ WF_vars(StopConsumer) /\ WF_vars(Undeclare)

Spec     == Init /\ [][Next]_vars
FairSpec == Spec /\ Fairness

-----------------------------------------------------------------------------
(* Correctness.                                                             *)

LoopTypeOK ==
    /\ now \in 0..MaxTime /\ sent \in 0..MaxSent
    /\ ready \in Seq(Callback)
    /\ usable \in [id : Nat, at : Nat]
    /\ stopPc \in {"open", "hooks", "consumer", "closed"}

IntakeTypeOK ==
    /\ queue \in Seq(Sample) /\ Len(queue) <= QueueSize
    /\ latest \in Sample \cup {None} /\ latestReady \in BOOLEAN
    /\ latestReady => latest \in Sample
    /\ overwritten \in Nat

ConsumerTypeOK ==
    /\ consumer \in {"idle", "busy", "cancelling", "done"}
    /\ current \in Sample \cup {None}
    /\ taken \in Nat /\ malformed \in Nat /\ dispatched \in Nat

CounterTypeOK ==
    received \in Nat /\ dropped \in Nat /\ stale \in Nat /\ errors \in Nat /\ queuePeak \in 0..QueueSize

SilenceTypeOK ==
    /\ IsABag(timers) /\ BagToSet(timers) \subseteq Nat
    /\ handle \in Nat \cup {None} /\ lastArrival \in Nat
    /\ silent \in BOOLEAN /\ misses \in Nat /\ nodeStop \in BOOLEAN

HookTypeOK ==
    /\ silenceHooks \in Seq(SilenceHooks) /\ resumeHooks \in Seq(ResumeHooks)
    /\ hookTasks \subseteq HookTask
    /\ told \in [Hooks -> Seq(Nat)]

TypeOK == LoopTypeOK /\ IntakeTypeOK /\ ConsumerTypeOK /\ CounterTypeOK /\ SilenceTypeOK /\ HookTypeOK

\* Every sample counted as received is in exactly one place: refused or dropped
\* for its age, evicted or overwritten, malformed, handled, in the handler, or
\* still waiting.  Whatever the order of arrivals, takes, errors and the stop,
\* none is lost without a count and none is counted twice.
Accounting ==
    received = stale + dropped + overwritten + malformed + dispatched
                 + Len(Waiting) + (IF consumer \in {"busy", "cancelling"} THEN 1 ELSE 0)

\* A stale burst evicts nothing: discarding a sample for its age leaves what is
\* waiting alone, but for that sample itself when it is discarded at dequeue.
StaleNeverEvicts ==
    [][stale' > stale => /\ dropped' = dropped /\ overwritten' = overwritten
                         /\ Waiting' \in {Waiting, SubSeq(Waiting, 2, Len(Waiting))}]_vars

\* The places of the ready list where a check waits that was not cancelled.
Checks == {i \in DOMAIN ready : ready[i].cb = "check"}

\* An open subscription with a deadline has exactly one check ahead of it, a timer or
\* a callback that is ready, the one its handle can cancel, and a subscription that is
\* stopping has none: the lazy timer neither dies nor doubles across resumes, late
\* wake-ups and the stop.  While data flows that check is due no later than the deadline
\* of the last usable sample, so an outage right after a resume is not slept through on
\* the slow schedule of the silence before it.
OneTimerArmed ==
    /\ closed \/ Deadline = None => timers = EmptyBag /\ Checks = {} /\ handle = None
    /\ ~closed /\ Deadline # None =>
         /\ handle # None
         /\ \/ timers = SetToBag({handle}) /\ Checks = {}
            \/ timers = EmptyBag /\ \E i \in DOMAIN ready : Checks = {i}
         /\ ~silent => handle <= usable.at + Deadline

\* Silence is declared only when the deadline has passed since the last usable
\* sample, and every sample that landed before the check came due was seen first,
\* however late a busy loop runs the check.
NoEarlySilence ==
    [][~silent /\ silent' =>
         /\ now >= usable.at + Deadline
         /\ \A i \in DOMAIN ready : ready[i].cb = "push" => ready[i].sample.at >= handle]_vars

\* The hooks of t that have not been called yet, started or not.
Pending(h) ==
    \/ \E i \in DOMAIN ready : /\ ready[i].cb = "hooks" /\ ready[i].task.outage = misses
                               /\ h \in {ready[i].task.hooks[k] : k \in DOMAIN ready[i].task.hooks}
    \/ \E t \in hookTasks : /\ t.outage = misses
                            /\ h \in {t.hooks[k] : k \in DOMAIN t.hooks}
Told(h) == \E i \in DOMAIN told[h] : told[h][i] = misses

\* Every hook hears every outage exactly once: no silence hook is called twice for one,
\* even if it was attached between the edge and the hook task of that edge, and while the
\* subscription is silent every attached hook has been called for this outage or is
\* about to be, hooks attached late included, unless hooks end with CancelledError.
OutagesTold ==
    /\ \A h \in SilenceHooks \cup {PolicyHook} :
           \A i, j \in DOMAIN told[h] : told[h][i] = told[h][j] => i = j
    /\ silent /\ ~closed /\ "cancels" \notin Outcomes =>
           \A i \in DOMAIN silenceHooks : Told(silenceHooks[i]) \/ Pending(silenceHooks[i])

\* From the call of stop() nothing is accepted, declared or armed any more; once
\* it returned, no handler and no hook runs.
QuietAfterStop ==
    [][/\ closed => UNCHANGED <<received, silent, misses, nodeStop>> /\ timers' = EmptyBag
       /\ stopPc = "closed" => UNCHANGED <<told, hookTasks, consumer, dispatched, errors>>]_vars

\* stop() returns once called ("Teardown is bounded", docs/nodes.md:310), provided
\* that handlers end and that a cancelled one lets the cancellation through; and with
\* on_deadline="stop" an outage stops the subscription's node, and so the subscription.
StopReturns == closed \/ (OnDeadline = "stop" /\ misses > 0) ~> stopPc = "closed"
=============================================================================

-------------------------------- MODULE Timer --------------------------------
(***************************************************************************)
(* One periodic timer (src/zenode/timers.py, class Timer; Node.every): its  *)
(* grid of points one interval apart, the periods it skips when its body or *)
(* the loop is late, its error policy, and its cancellation.  Times are     *)
(* whole numbers; the clock is the loop's, and time passes wherever the     *)
(* task awaits: in the sleep, in the body, in an error callback.            *)
(***************************************************************************)
EXTENDS Integers

CONSTANTS
    Interval,   \* the period
    MaxTime     \* bound: the clock's last instant

ASSUME IntervalAssumption == Interval \in Nat \ {0}
ASSUME BoundAssumption    == MaxTime \in Nat

VARIABLES
    now,        \* the loop's clock
    nextAt,     \* next_at in run()
    pc,         \* the timer's task: new, sleeping, body, policy or done
    cancelled,  \* the task was cancelled and has not noticed yet
    ticks, overruns, errors,    \* the public counters
    onError,    \* on_error
    nodeStop,   \* node.stop() was called
    origin      \* history: when run() began

vars == <<now, nextAt, pc, cancelled, ticks, overruns, errors, onError, nodeStop, origin>>

Init ==
    /\ now = 0 /\ nextAt = 0 /\ origin = 0
    /\ pc = "new" /\ cancelled = FALSE
    /\ ticks = 0 /\ overruns = 0 /\ errors = 0
    /\ onError \in {"log", "stop", "callable"} /\ nodeStop = FALSE

-----------------------------------------------------------------------------
(* run(): one turn of the loop up to its sleep.                             *)

Missed_Floor(behind) == IF behind > 0 THEN behind \div Interval ELSE 0

\* The periods to skip when the next point is already behind the clock.
Missed(behind) == IF behind > 0 THEN (behind \div Interval) + 1 ELSE 0

OverrunsAfter_Once(missed) == overruns + (IF missed > 0 THEN 1 ELSE 0)
OverrunsAfter(missed)      == overruns + missed

\* Skips what was missed after the point at, and sleeps to the next one.
Aim(at) ==
    LET missed == Missed(now - (at + Interval)) IN
    /\ overruns' = OverrunsAfter(missed)
    /\ nextAt' = at + Interval + missed * Interval
    /\ pc' = "sleeping"

Begin ==
    /\ pc = "new"
    /\ origin' = now
    /\ Aim(now)
    /\ UNCHANGED <<now, cancelled, ticks, errors, onError, nodeStop>>

\* The sleep ends, late by as much as the loop is busy, and the body is called.
Wake ==
    /\ pc = "sleeping" /\ now >= nextAt /\ ~cancelled
    /\ pc' = "body"
    /\ UNCHANGED <<now, nextAt, cancelled, ticks, overruns, errors, onError, nodeStop, origin>>

-----------------------------------------------------------------------------
(* _tick and _on_failure.                                                   *)

\* A cancellation that came meanwhile was swallowed, or, if the running code asked
\* for it itself, waits for the next await.
LeaveCall == cancelled' \in {FALSE, cancelled}

BodyReturns ==
    /\ pc = "body"
    /\ ticks' = ticks + 1 /\ LeaveCall
    /\ Aim(nextAt)
    /\ UNCHANGED <<now, errors, onError, nodeStop, origin>>

StopPolicy_Continues ==
    /\ onError = "stop"
    /\ nodeStop' = TRUE
    /\ Aim(nextAt)

StopPolicy ==
    /\ onError = "stop"
    /\ nodeStop' = TRUE /\ pc' = "done"
    /\ UNCHANGED <<nextAt, overruns>>

\* The body raised an Exception, its answer to a cancellation included.
BodyRaises ==
    /\ pc = "body"
    /\ errors' = errors + 1 /\ LeaveCall
    /\ \/ onError = "log" /\ Aim(nextAt) /\ UNCHANGED nodeStop
       \/ StopPolicy
       \/ onError = "callable" /\ pc' = "policy" /\ UNCHANGED <<nextAt, overruns, nodeStop>>
    /\ UNCHANGED <<now, ticks, onError, origin>>

\* The error callback returned, or raised an Exception.
PolicyEnds ==
    /\ pc = "policy"
    /\ LeaveCall
    /\ Aim(nextAt)
    /\ UNCHANGED <<now, ticks, errors, onError, nodeStop, origin>>

\* A CancelledError, the teardown's or one of the body's own, ends the task.
EndsCancelled ==
    /\ pc \in {"body", "policy"} \/ (pc = "sleeping" /\ cancelled)
    /\ pc' = "done" /\ cancelled' = FALSE
    /\ UNCHANGED <<now, nextAt, ticks, overruns, errors, onError, nodeStop, origin>>

\* cancel(), and the teardown's: a task that has not started or that sleeps ends.
Cancel ==
    /\ pc # "done" /\ ~cancelled
    /\ \/ pc \in {"new", "sleeping"} /\ pc' = "done" /\ UNCHANGED cancelled
       \/ pc \in {"body", "policy"} /\ cancelled' = TRUE /\ UNCHANGED pc
    /\ UNCHANGED <<now, nextAt, ticks, overruns, errors, onError, nodeStop, origin>>

TimePasses ==
    /\ now < MaxTime
    /\ now' = now + 1
    /\ UNCHANGED <<nextAt, pc, cancelled, ticks, overruns, errors, onError, nodeStop, origin>>

\* The bound is reached, or the timer is over.
Terminated ==
    /\ now = MaxTime /\ (pc = "done" \/ (pc = "sleeping" /\ nextAt > now))
    /\ UNCHANGED vars

Next ==
    \/ Begin \/ Wake \/ BodyReturns \/ BodyRaises \/ PolicyEnds \/ EndsCancelled
    \/ Cancel \/ TimePasses \/ Terminated

Spec == Init /\ [][Next]_vars

-----------------------------------------------------------------------------
(* Correctness.                                                             *)

TypeOK ==
    /\ now \in Nat /\ nextAt \in 0..now + Interval /\ origin \in Nat
    /\ pc \in {"new", "sleeping", "body", "policy", "done"} /\ cancelled \in BOOLEAN
    /\ ticks \in Nat /\ overruns \in Nat /\ errors \in Nat
    /\ onError \in {"log", "stop", "callable"} /\ nodeStop \in BOOLEAN

\* The period does not drift: every grid point from run()'s start to the current
\* one was a completed body, a raising body or a counted overrun, and nothing
\* else, however long bodies and error callbacks take and however late the loop is.
GridAccounting ==
    pc \in {"sleeping", "body", "policy"} =>
        nextAt - origin =
            (ticks + errors + overruns + (IF pc = "policy" THEN 0 ELSE 1)) * Interval

\* No burst and no nap too long: when the timer goes to sleep it aims at a point
\* that is not in the past and not more than a period away.
AimsAtNextPoint ==
    [][pc' = "sleeping" /\ pc # "sleeping" => now <= nextAt' /\ nextAt' <= now + Interval]_vars

\* on_error="stop" ends the timer with its first error and stops the node, and no
\* other policy does.
StopsOnError ==
    /\ nodeStop <=> (onError = "stop" /\ errors > 0)
    /\ nodeStop => errors = 1 /\ pc = "done"
==============================================================================

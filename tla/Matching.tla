------------------------------- MODULE Matching -------------------------------
(***************************************************************************)
(* The matching edges of one publisher (src/zenode/pubsub.py, class         *)
(* Publisher: on_matching to undeclare): whether any subscriber listens is  *)
(* a level that zenoh changes at any moment and reports from its worker     *)
(* thread; the publisher turns it into calls of the node's hooks, one task  *)
(* per edge on the asyncio loop.                                            *)
(*                                                                         *)
(* The loop's ready list is explicit, as in module Subscription.  A hook    *)
(* either returns without suspending, and the next one is called in the     *)
(* same step, or it awaits something, and its task interleaves freely with  *)
(* the others from there on.  The error count of raising hooks is left out: *)
(* to the task a hook that raises is one that returns.                      *)
(***************************************************************************)
EXTENDS Naturals, Sequences, FiniteSets

CONSTANTS
    Hooks,          \* the @on_matching bodies of the publisher
    Suspending,     \* those that await something
    MaxFlips        \* bound: changes of the level

ASSUME HookAssumption  == Suspending \subseteq Hooks
ASSUME FlipsAssumption == MaxFlips \in Nat

VARIABLES
    level,          \* whether some subscriber matches, as zenoh knows it
    flips,          \* changes of the level so far
    listener,       \* _matching_listener: none, on or gone
    notices,        \* reports the worker thread has not delivered yet
    registering,    \* on_matching stands between the listener and the status
    hooks,          \* _matching_hooks
    state,          \* _matching_state
    ready,          \* the loop's ready list: edges and first steps of tasks
    tasks,          \* hook tasks suspended in a hook
    fired,          \* tasks created so far
    undeclared,     \* undeclare() was called
    told            \* history: what each hook was called with

zenohVars == <<level, flips, listener, notices>>
matchingVars == <<zenohVars, registering, hooks, state, ready, tasks, fired, undeclared, told>>

\* A task calls its hooks, in order, with the value of its edge.
Task == [nr : Nat, hooks : Seq(Hooks), matching : BOOLEAN, cancelled : BOOLEAN]

Callback == [cb : {"edge"}, matching : BOOLEAN] \cup [cb : {"task"}, task : Task]

Elements(s) == {s[i] : i \in DOMAIN s}

MatchingInit ==
    /\ level \in BOOLEAN /\ flips = 0 /\ listener = "none" /\ notices = <<>>
    /\ registering = FALSE /\ hooks = <<>> /\ state = FALSE
    /\ ready = <<>> /\ tasks = {} /\ fired = 0 /\ undeclared = FALSE
    /\ told = [h \in Hooks |-> <<>>]

-----------------------------------------------------------------------------
(* zenoh.                                                                   *)

\* The first subscriber appears or the last one goes.
Flip ==
    /\ flips < MaxFlips
    /\ level' = ~level /\ flips' = flips + 1
    /\ notices' = IF listener = "on" THEN Append(notices, ~level) ELSE notices
    /\ UNCHANGED <<listener, registering, hooks, state, ready, tasks, fired, undeclared, told>>

\* _matching_event: the worker thread hands the edge to the loop.
MatchingEvent ==
    /\ listener = "on" /\ notices # <<>>
    /\ ready' = Append(ready, [cb |-> "edge", matching |-> Head(notices)])
    /\ notices' = Tail(notices)
    /\ UNCHANGED <<level, flips, listener, registering, hooks, state, tasks, fired, undeclared, told>>

-----------------------------------------------------------------------------
(* The loop.                                                                *)

\* _fire_matching, behind what the ready list still holds.
Fire(rest, called, matching) ==
    /\ fired' = fired + 1
    /\ ready' = Append(rest, [cb |-> "task", task |-> [nr |-> fired + 1, hooks |-> called,
                                                       matching |-> matching, cancelled |-> FALSE]])

FireLate_Never(h) == UNCHANGED <<fired, ready>>
FireLate(h)       == Fire(ready, <<h>>, state)

\* on_matching: zenoh replays the level to a new listener when it is TRUE.
OnMatching(h) ==
    /\ ~registering /\ ~undeclared /\ h \notin Elements(hooks)
    /\ hooks' = Append(hooks, h)
    /\ \/ /\ listener = "none"
          /\ listener' = "on" /\ notices' = IF level THEN <<TRUE>> ELSE <<>>
          /\ registering' = TRUE
          /\ UNCHANGED <<fired, ready>>
       \/ /\ listener # "none"
          /\ FireLate(h)
          /\ UNCHANGED <<listener, notices, registering>>
    /\ UNCHANGED <<level, flips, state, tasks, undeclared, told>>

\* ... and goes on to the status, with zenoh running in between.
ReadStatus ==
    /\ registering
    /\ registering' = FALSE
    /\ state' = level
    /\ Fire(ready, hooks, level)
    /\ UNCHANGED <<zenohVars, hooks, tasks, undeclared, told>>

Running(kind) == ~registering /\ ready # <<>> /\ Head(ready).cb = kind

Repeated_Never(matching) == FALSE
Repeated(matching)       == matching = state

\* _matching_changed: deduped against the seed and the edges so far.
MatchingChanged ==
    LET matching == Head(ready).matching IN
    /\ Running("edge")
    /\ \/ /\ Repeated(matching)
          /\ ready' = Tail(ready)
          /\ UNCHANGED <<state, fired>>
       \/ /\ ~Repeated(matching)
          /\ state' = matching
          /\ Fire(Tail(ready), hooks, matching)
    /\ UNCHANGED <<zenohVars, registering, hooks, tasks, undeclared, told>>


\* What a task that suspends in its i-th hook still has before it.
Left(called, i) == SubSeq(called, i, Len(called))

\* _run_matching_hooks from one await to the next: t calls its hooks up to the
\* first that suspends, or all of them.
Advance(t, others) ==
    LET stops == {i \in DOMAIN t.hooks : t.hooks[i] \in Suspending}
        last  == IF stops = {} THEN Len(t.hooks) ELSE CHOOSE i \in stops : \A j \in stops : i <= j
        now   == Elements(SubSeq(t.hooks, 1, last))
    IN /\ told' = [h \in Hooks |-> IF h \in now THEN Append(told[h], t.matching) ELSE told[h]]
       /\ tasks' = IF stops = {} THEN others
                   ELSE others \cup {[t EXCEPT !.hooks = Left(@, last)]}

RunTask ==
    /\ Running("task")
    /\ ready' = Tail(ready)
    /\ IF Head(ready).task.cancelled THEN UNCHANGED <<told, tasks>>
       ELSE Advance(Head(ready).task, tasks)
    /\ UNCHANGED <<zenohVars, registering, hooks, state, fired, undeclared>>

\* The hook that t awaits ends; the CancelledError of undeclare() ends the task.
HookEnds(t) ==
    /\ ~registering
    /\ IF t.cancelled THEN tasks' = tasks \ {t} /\ UNCHANGED told
       ELSE Advance([t EXCEPT !.hooks = Tail(@)], tasks \ {t})
    /\ UNCHANGED <<zenohVars, registering, hooks, state, ready, fired, undeclared>>

\* undeclare(): listener, then hook tasks, then the publisher, in one step.
Undeclare ==
    /\ ~registering /\ ~undeclared
    /\ undeclared' = TRUE
    /\ listener' = IF listener = "on" THEN "gone" ELSE listener
    /\ tasks' = {[t EXCEPT !.cancelled = TRUE] : t \in tasks}
    /\ ready' = [i \in DOMAIN ready |->
                   IF ready[i].cb = "task" THEN [ready[i] EXCEPT !.task.cancelled = TRUE] ELSE ready[i]]
    /\ UNCHANGED <<level, flips, notices, registering, hooks, state, fired, told>>

\* The level has had its changes and nothing is left to do.
AllSettled ==
    /\ flips = MaxFlips /\ ready = <<>> /\ tasks = {} /\ undeclared
    /\ UNCHANGED matchingVars

RunReady == MatchingChanged \/ RunTask

MatchingNext ==
    \/ Flip \/ MatchingEvent
    \/ \E h \in Hooks : OnMatching(h)
    \/ ReadStatus \/ RunReady \/ \E t \in tasks : HookEnds(t)
    \/ Undeclare \/ AllSettled

MatchingSpec == MatchingInit /\ [][MatchingNext]_matchingVars

-----------------------------------------------------------------------------
(* Correctness.                                                             *)

MatchingTypeOK ==
    /\ level \in BOOLEAN /\ flips \in 0..MaxFlips
    /\ listener \in {"none", "on", "gone"} /\ notices \in Seq(BOOLEAN)
    /\ registering \in BOOLEAN /\ hooks \in Seq(Hooks) /\ state \in BOOLEAN
    /\ ready \in Seq(Callback) /\ fired \in Nat
    /\ tasks \subseteq {t \in Task : t.hooks # <<>> /\ Head(t.hooks) \in Suspending}
    /\ undeclared \in BOOLEAN
    /\ told \in [Hooks -> Seq(BOOLEAN)]

LastTold(h) == told[h][Len(told[h])]

\* The hooks that no suspending hook was registered before: nothing delays them.
Unhindered ==
    {h \in Hooks : \A i \in DOMAIN hooks :
        hooks[i] = h => \A j \in 1..(i - 1) : hooks[j] \notin Suspending}

Alternates(h) == told'[h] # told[h] /\ told[h] # <<>> => LastTold(h)' # LastTold(h)

\* Until undeclare() what an unhindered hook is told alternates, from the seed on,
\* whatever zenoh replays and however its own calls overlap the next edges.
EdgesAlternate == [][~undeclared => \A h \in Unhindered : Alternates(h)]_matchingVars

\* docs/nodes.md:375-377: "a hook that starts hardware is never told to start it
\* twice": any hook, those behind one that suspends included.
NeverToldTwice == [][~undeclared => \A h \in Hooks : Alternates(h)]_matchingVars

Quiet == listener = "on" /\ ~registering /\ notices = <<>> /\ ready = <<>> /\ tasks = {}

\* No edge falls into a gap: when nothing is under way every unhindered hook, one
\* that was registered late included, was last told the level that holds, even if
\* the level changed while on_matching stood between the listener and the status.
SettledOnLevel ==
    Quiet => /\ state = level
             /\ \A h \in Elements(hooks) \cap Unhindered : told[h] # <<>> /\ LastTold(h) = level
===============================================================================

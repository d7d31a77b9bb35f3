----------------------------- MODULE LogPublisher -----------------------------
(***************************************************************************)
(* A node's log records on the bus (src/zenode/log.py, LogPublisher): emit *)
(* on any thread, one bytecode-sized step at a time, the bounded deque, the *)
(* drain task on the loop, and the node's teardown (src/zenode/node.py).    *)
(***************************************************************************)
EXTENDS Naturals, Sequences, FiniteSets

CONSTANTS
    Threads,    \* worker threads that log
    Loop,       \* the loop's thread
    Capacity,   \* maxlen of the deque
    MaxRecords  \* bound: records emitted

ASSUME ThreadAssumption   == Loop \notin Threads
ASSUME CapacityAssumption == Capacity \in Nat \ {0}
ASSUME RecordAssumption   == MaxRecords \in Nat

VARIABLES
    pending,    \* _pending
    dropped,    \* the public counter
    closed,     \* _closed
    step,       \* emit on each thread: out, checked, counted or appended
    record,     \* the record each thread is emitting
    wakes,      \* a _wake.set waits on the loop
    wake,       \* _wake is set
    drain,      \* the drain task: waiting, draining, putting or done
    inHand,     \* the record the drain task took
    publisher,  \* the log publisher is declared
    emitted,    \* history: records that emit accepted
    published,  \* history: records put on the bus, in order
    evicted, failed, cleared    \* history: records lost to the bound, to put, to close

emitVars == <<step, record, emitted>>
lossVars == <<dropped, evicted, failed, cleared>>
vars == <<pending, closed, wakes, wake, drain, inHand, publisher, published, emitVars, lossVars>>

Emitters == Threads \cup {Loop}
Record   == [id : 1..MaxRecords, own : BOOLEAN]   \* own: logged by the publish path
NoRecord == [id |-> 0, own |-> FALSE]

Init ==
    /\ pending = <<>> /\ dropped = 0 /\ closed = FALSE
    /\ step = [t \in Emitters |-> "out"] /\ record = [t \in Emitters |-> NoRecord]
    /\ wakes = FALSE /\ wake = FALSE /\ drain = "waiting" /\ inHand = NoRecord
    /\ publisher = TRUE
    /\ emitted = 0 /\ published = <<>> /\ evicted = 0 /\ failed = 0 /\ cleared = 0

-----------------------------------------------------------------------------
(* emit, under the handler's lock.                                          *)

Locked_Never(t) == step[t] # "out"
\* logging.Handler.handle: one emit at a time.
Locked(t)       == \E u \in Emitters : step[u] # "out"

\* The publish path: code that put calls, in the drain task's context.
InPut(t) == t = Loop /\ drain = "putting"

\* The loop's thread runs one thing at a time, a put's own logging apart.
OnCpu(t) == t = Loop => drain \in {"waiting", "putting", "done"}

Refused(t) == closed \/ InPut(t)

Enter(t) ==
    /\ OnCpu(t) /\ ~Locked(t) /\ ~Refused(t)
    /\ emitted < MaxRecords /\ emitted' = emitted + 1
    /\ record' = [record EXCEPT ![t] = [id |-> emitted + 1, own |-> InPut(t)]]
    /\ step' = [step EXCEPT ![t] = "checked"]
    /\ UNCHANGED <<pending, closed, wakes, wake, drain, inHand, publisher, published, lossVars>>

Full          == Len(pending) = Capacity

CountDrop(t) ==
    /\ step[t] = "checked"
    /\ dropped' = IF Full THEN dropped + 1 ELSE dropped
    /\ step' = [step EXCEPT ![t] = "counted"]
    /\ UNCHANGED <<pending, closed, wakes, wake, drain, inHand, publisher, published,
                   record, emitted, evicted, failed, cleared>>

Appended_Newest(t) == IF Full THEN <<record[t]>> \o Tail(pending) ELSE <<record[t]>> \o pending
\* deque.append with maxlen.
Appended(t)        == Append(IF Full THEN Tail(pending) ELSE pending, record[t])

AppendRecord(t) ==
    /\ step[t] = "counted"
    /\ pending' = Appended(t)
    /\ evicted' = IF Full THEN evicted + 1 ELSE evicted
    /\ step' = [step EXCEPT ![t] = "appended"]
    /\ UNCHANGED <<closed, wakes, wake, drain, inHand, publisher, published,
                   record, emitted, dropped, failed, cleared>>

\* call_soon_threadsafe(_wake.set).
Notify(t) ==
    /\ step[t] = "appended"
    /\ wakes' = TRUE
    /\ step' = [step EXCEPT ![t] = "out"] /\ record' = [record EXCEPT ![t] = NoRecord]
    /\ UNCHANGED <<pending, closed, wake, drain, inHand, publisher, published, emitted, lossVars>>

Emit(t) == Enter(t) \/ CountDrop(t) \/ AppendRecord(t) \/ Notify(t)

-----------------------------------------------------------------------------
(* The loop: the queued wake-ups, and drain.                                *)

\* Nothing else runs on the loop's thread.
LoopFree == step[Loop] = "out" /\ drain \notin {"draining", "putting"}

RunWake ==
    /\ LoopFree /\ wakes
    /\ wakes' = FALSE /\ wake' = TRUE
    /\ UNCHANGED <<pending, closed, drain, inHand, publisher, published, emitVars, lossVars>>

DrainWakes ==
    /\ LoopFree /\ drain = "waiting" /\ wake
    /\ wake' = FALSE /\ drain' = "draining"
    /\ UNCHANGED <<pending, closed, wakes, inHand, publisher, published, emitVars, lossVars>>

Taken        == Tail(pending)

DrainTakes ==
    /\ drain = "draining"
    /\ IF pending = <<>>
       THEN drain' = "waiting" /\ UNCHANGED <<pending, inHand>>
       ELSE drain' = "putting" /\ inHand' = Head(pending) /\ pending' = Taken
    /\ UNCHANGED <<closed, wakes, wake, publisher, published, emitVars, lossVars>>

AfterPut_OnePerWake == drain' = "waiting"
AfterPut            == drain' = "draining"

\* put returns, or raises an Exception that drain swallows.
DrainPuts ==
    /\ drain = "putting" /\ step[Loop] = "out"
    /\ \/ published' = Append(published, inHand) /\ UNCHANGED failed
       \/ failed' = failed + 1 /\ UNCHANGED published
    /\ inHand' = NoRecord /\ AfterPut
    /\ UNCHANGED <<pending, closed, wakes, wake, publisher, emitVars, dropped, evicted, cleared>>

Drain == DrainWakes \/ DrainTakes \/ DrainPuts

-----------------------------------------------------------------------------
(* Teardown: _stop_log_publishing, _join_tasks, undeclare.                  *)

Close ==
    /\ LoopFree /\ ~closed
    /\ closed' = TRUE
    /\ cleared' = cleared + Len(pending) /\ pending' = <<>>
    /\ UNCHANGED <<wakes, wake, drain, inHand, publisher, published, emitVars, dropped, evicted, failed>>

\* The task's next step raises CancelledError, whatever it was woken for.
CancelDrain ==
    /\ LoopFree /\ closed /\ drain = "waiting"
    /\ drain' = "done"
    /\ UNCHANGED <<pending, closed, wakes, wake, inHand, publisher, published, emitVars, lossVars>>

Joined == drain = "done"

UndeclarePublisher ==
    /\ LoopFree /\ Joined /\ publisher
    /\ publisher' = FALSE
    /\ UNCHANGED <<pending, closed, wakes, wake, drain, inHand, published, emitVars, lossVars>>

Next ==
    \/ \E t \in Emitters : Emit(t)
    \/ RunWake \/ Drain \/ Close \/ CancelDrain \/ UndeclarePublisher

\* Threads that log get to the end of emit, and the loop runs what is ready.
Fairness ==
    /\ \A t \in Emitters : WF_vars(CountDrop(t) \/ AppendRecord(t) \/ Notify(t))
    /\ WF_vars(RunWake) /\ WF_vars(Drain)

Spec     == Init /\ [][Next]_vars
FairSpec == Spec /\ Fairness

-----------------------------------------------------------------------------
(* Correctness.                                                             *)

TypeOK ==
    /\ pending \in Seq(Record) /\ Len(pending) <= Capacity
    /\ published \in Seq(Record) /\ inHand \in Record \cup {NoRecord}
    /\ step \in [Emitters -> {"out", "checked", "counted", "appended"}]
    /\ record \in [Emitters -> Record \cup {NoRecord}]
    /\ drain \in {"waiting", "draining", "putting", "done"}
    /\ closed \in BOOLEAN /\ wakes \in BOOLEAN /\ wake \in BOOLEAN /\ publisher \in BOOLEAN
    /\ {emitted, dropped, evicted, failed, cleared} \subseteq 0..MaxRecords

Emitting == {t \in Emitters : step[t] \in {"checked", "counted"}}

\* The bus sees the records in the order they were logged, from whatever threads,
\* and none that the publish path itself logged: a record never begets another.
CleanFeed ==
    /\ \A i, j \in DOMAIN published : i < j => published[i].id < published[j].id
    /\ \A i \in DOMAIN published : ~published[i].own

\* Every accepted record is published, being emitted, waiting, in the drain task's
\* hand, or lost to one of the three causes; none twice.  And the bound discards no
\* record without a count, whatever the drain task takes between the check of emit
\* and its append.  (What is lost to a put that raises, failed, has no counter in the
\* code: dropped says nothing of it.)
RecordsAccounted ==
    /\ emitted = Cardinality(Emitting) + Len(pending) + (IF drain = "putting" THEN 1 ELSE 0)
                  + Len(published) + evicted + failed + cleared
    /\ evicted <= dropped

\* While the publisher is open no record waits for ever, without another to wake it.
RecordsFlow ==
    \A id \in 1..MaxRecords :
        (\E i \in DOMAIN pending : pending[i].id = id)
            ~> closed \/ ~\E i \in DOMAIN pending : pending[i].id = id
===============================================================================

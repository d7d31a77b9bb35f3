------------------------------- MODULE Exporter -------------------------------
(***************************************************************************)
(* The sidecar `zenode export` (src/zenode/cli.py, cmd_export): health and  *)
(* log records come in on zenoh's threads; a registry keeps the newest      *)
(* heartbeat of each node (exporter.py, Registry), HTTP threads render it   *)
(* for scrapes, a thread pushes it (otlp_metrics.py, OtlpMetricShipper),    *)
(* another pushes the log records in batches (otlp_logs.py, OtlpLogShipper),*)
(* and the main thread ends all that on Ctrl-C.                             *)
(*                                                                         *)
(* A step is what a thread does between two points where it blocks or gives *)
(* up a lock.  A heartbeat is the incarnation of its node and the value of  *)
(* its counters, which grow within an incarnation and start at zero in the  *)
(* next; the incarnation is the origin that the push reports.  A record is  *)
(* its number on the bus.  Payloads that do not parse are ignored by both   *)
(* offers and left out.                                                     *)
(***************************************************************************)
EXTENDS Naturals, Sequences, FiniteSets

CONSTANTS
    Nodes,          \* the nodes on the bus
    None,           \* no heartbeat
    Options,        \* what the sidecar may be asked to push, and the bus carries:
                    \* a set of sets of "logs" and "health"
    Capacity,       \* length of the log shipper's queue
    StaleAfter,     \* stale_after
    MaxRecords,     \* bound: log records on the bus
    MaxRuns,        \* bound: incarnations of a node
    MaxCount,       \* bound: value of its counters
    MaxPushes,      \* bound: pushes that are answered
    MaxTime         \* bound: the clock's last instant

ASSUME LimitAssumption  == Capacity \in Nat \ {0} /\ StaleAfter \in Nat
ASSUME OptionAssumption == Options \subseteq SUBSET {"logs", "health"}
ASSUME BoundAssumption  == {MaxRecords, MaxRuns, MaxCount, MaxPushes, MaxTime} \subseteq Nat

Heartbeat == [run : 1..MaxRuns, count : 0..MaxCount]
Sample    == [health : Heartbeat, at : 0..MaxTime]
Paths     == {"scrape", "push"}

ASSUME NoneAssumption == None \notin Heartbeat \cup Sample

VARIABLES
    options,        \* what it pushes: --otlp-logs, --otlp-metrics
    now,            \* the monotonic clock
    samples,        \* _samples of the registry
    page,           \* a scrape under way: the copy of the samples, or None
    pusher,         \* the metric shipper's thread
    begun,          \* when its flush read the clock
    pushed, pushesFailed,
    logged,         \* records that came in on the bus
    pending,        \* _pending of the log shipper
    shipper,        \* its thread; "last" is the post after the stop
    batch,          \* what it posts
    dropped, failed, shipped,
    stop,           \* the stop event
    main,           \* the main thread
    \* History, read by no guard:
    report,         \* for each path, what it last told of each node
    seen,           \* the records the endpoint took in, in order
    lost,           \* records that went down with the shipper's thread
    atStop          \* records that had come in when the stop event was set

registryVars == <<samples>>
scrapeVars   == <<page>>
pushVars     == <<pusher, begun, pushed, pushesFailed>>
logVars      == <<logged, pending, shipper, batch, dropped, failed, shipped, seen, lost>>
mainVars     == <<stop, main, atStop>>
vars == <<options, now, registryVars, scrapeVars, pushVars, logVars, mainVars, report>>

Running == main # "exited"

InitRegistry == samples = [n \in Nodes |-> None] /\ page = None

InitPusher ==
    /\ pusher = IF "health" \in options THEN "waiting" ELSE "off"
    /\ begun = 0 /\ pushed = 0 /\ pushesFailed = 0

InitShipper ==
    /\ shipper = IF "logs" \in options THEN "waiting" ELSE "off"
    /\ logged = 0 /\ pending = <<>> /\ batch = <<>>
    /\ dropped = 0 /\ failed = 0 /\ shipped = 0 /\ seen = <<>> /\ lost = 0

Init ==
    /\ options \in Options /\ now = 0
    /\ InitRegistry /\ InitPusher /\ InitShipper
    /\ stop = FALSE /\ main = "serving" /\ atStop = 0
    /\ report = [p \in Paths |-> [n \in Nodes |-> None]]

Tick ==
    /\ now < MaxTime
    /\ now' = now + 1
    /\ UNCHANGED <<options, registryVars, scrapeVars, pushVars, logVars, mainVars, report>>

-----------------------------------------------------------------------------
(* The registry and its two readers.                                        *)

\* The next heartbeat of a node: its counters grew, or it was started (again).
Beats(n) ==
    IF samples[n] = None THEN {[run |-> 1, count |-> 0]}
    ELSE LET h == samples[n].health IN {[h EXCEPT !.count = @ + 1], [run |-> h.run + 1, count |-> 0]}

\* Registry.offer.
OfferHealth(n) ==
    /\ Running /\ "health" \in options
    /\ \E h \in Beats(n) \cap Heartbeat :
         samples' = [samples EXCEPT ![n] = [health |-> h, at |-> now]]
    /\ UNCHANGED <<options, now, scrapeVars, pushVars, logVars, mainVars, report>>

Current(s, t) == s # None /\ t <= s.at + StaleAfter

\* The heartbeats that are not stale at t.
Live(known, t) == [n \in Nodes |-> IF Current(known[n], t) THEN known[n].health ELSE None]

Nobody == [n \in Nodes |-> None]

\* Registry.render copies the samples under the lock and reads the clock later.
ScrapeBegins ==
    /\ main = "serving" /\ page = None
    /\ page' = samples
    /\ UNCHANGED <<options, now, registryVars, pushVars, logVars, mainVars, report>>

ScrapeEnds ==
    /\ Running /\ page # None
    /\ report' = [report EXCEPT !["scrape"] = Live(page, now)]
    /\ page' = None
    /\ UNCHANGED <<options, now, registryVars, pushVars, logVars, mainVars>>

\* OtlpMetricShipper.run: the interval is over, or the stop event is set.
PushBegins ==
    /\ Running /\ pusher = "waiting"
    /\ pusher' = IF stop THEN "done" ELSE "reading"
    /\ begun' = now
    /\ UNCHANGED <<options, now, registryVars, scrapeVars, pushed, pushesFailed, logVars,
                   mainVars, report>>

Payload_Retried(known, t) == IF pushesFailed > 0 THEN report["push"] ELSE Live(known, t)

\* Every push carries the newest heartbeats, whatever became of the push before it.
Payload(known, t) == Live(known, t)

\* Registry.snapshot has read the clock, takes the lock and filters.
PushReads ==
    LET live == Payload(samples, begun) IN
    /\ Running /\ pusher = "reading"
    /\ \/ live = Nobody /\ pusher' = "waiting" /\ UNCHANGED report
       \/ /\ live # Nobody /\ pushed + pushesFailed < MaxPushes
          /\ pusher' = "posting"
          /\ report' = [report EXCEPT !["push"] = live]
    /\ UNCHANGED <<options, now, registryVars, scrapeVars, begun, pushed, pushesFailed, logVars, mainVars>>

\* The answer is good, or there is an error that flush handles, or one that it does
\* not (an endpoint that does not speak HTTP), which ends the thread.
PushEnds ==
    /\ Running /\ pusher = "posting"
    /\ \/ pusher' = "waiting" /\ pushed' = pushed + 1 /\ UNCHANGED pushesFailed
       \/ pusher' = "waiting" /\ pushesFailed' = pushesFailed + 1 /\ UNCHANGED pushed
       \/ pusher' = "dead" /\ UNCHANGED <<pushed, pushesFailed>>
    /\ UNCHANGED <<options, now, registryVars, scrapeVars, begun, logVars, mainVars, report>>

-----------------------------------------------------------------------------
(* The log shipper.                                                         *)

\* A deque of bounded length.
Offered(r) == Append(IF Len(pending) = Capacity THEN Tail(pending) ELSE pending, r)

OfferLog ==
    /\ Running /\ "logs" \in options /\ logged < MaxRecords
    /\ logged' = logged + 1
    /\ pending' = Offered(logged + 1)
    /\ dropped' = dropped + (IF Len(pending) = Capacity THEN 1 ELSE 0)
    /\ UNCHANGED <<options, now, registryVars, scrapeVars, pushVars, shipper, batch, failed, shipped,
                   seen, lost, mainVars, report>>

AfterStop_NoFlush(left) == "done"

\* The loop of run() ends with one more flush.
AfterStop(left) == IF left = <<>> THEN "done" ELSE "last"

\* flush up to its post: everything queued becomes the batch.
ShipBegins ==
    /\ Running /\ shipper = "waiting"
    /\ shipper' = IF stop THEN AfterStop(pending) ELSE IF pending = <<>> THEN "waiting" ELSE "posting"
    /\ \/ shipper' \in {"posting", "last"} /\ batch' = pending /\ pending' = <<>>
       \/ shipper' \notin {"posting", "last"} /\ UNCHANGED <<batch, pending>>
    /\ UNCHANGED <<options, now, registryVars, scrapeVars, pushVars, logged, dropped, failed, shipped,
                   seen, lost, mainVars, report>>

Refused_Requeues == pending' = batch \o pending /\ UNCHANGED failed
Refused_Uncounted == UNCHANGED <<pending, failed>>

\* Dropped, not retried.
Refused == failed' = failed + Len(batch) /\ UNCHANGED pending

\* An error that flush handles may come after the endpoint took the batch in.
ShipEnds ==
    /\ Running /\ shipper \in {"posting", "last"}
    /\ batch' = <<>>
    /\ \/ /\ shipped' = shipped + Len(batch) /\ seen' = seen \o batch
          /\ UNCHANGED <<pending, failed, lost>>
       \/ /\ Refused /\ seen' \in {seen, seen \o batch}
          /\ UNCHANGED <<shipped, lost>>
       \/ /\ lost' = lost + Len(batch)
          /\ UNCHANGED <<pending, shipped, failed, seen>>
    /\ shipper' = IF lost' > lost THEN "dead" ELSE IF shipper = "last" THEN "done" ELSE "waiting"
    /\ UNCHANGED <<options, now, registryVars, scrapeVars, pushVars, logged, dropped, mainVars, report>>

-----------------------------------------------------------------------------
(* The main thread.                                                         *)

Interrupted ==
    /\ main = "serving"
    /\ main' = "joinLogs" /\ stop' = TRUE /\ atStop' = logged
    /\ UNCHANGED <<options, now, registryVars, scrapeVars, pushVars, logVars, report>>

Over(thread) == thread \in {"off", "done", "dead"}

JoinReturns_Unbounded(thread) == Over(thread)

\* join(timeout=...) returns when the thread is over or the time is.
JoinReturns(thread) == TRUE

\* The threads are daemons: the process does not wait for them.
JoinEnds ==
    /\ \/ main = "joinLogs" /\ JoinReturns(shipper) /\ main' = "joinMetrics"
       \/ main = "joinMetrics" /\ JoinReturns(pusher) /\ main' = "exited"
    /\ UNCHANGED <<options, now, registryVars, scrapeVars, pushVars, logVars, stop, atStop, report>>

Next ==
    \/ Tick
    \/ \E n \in Nodes : OfferHealth(n)
    \/ ScrapeBegins \/ ScrapeEnds
    \/ PushBegins \/ PushReads \/ PushEnds
    \/ OfferLog \/ ShipBegins \/ ShipEnds
    \/ Interrupted \/ JoinEnds

Spec == Init /\ [][Next]_vars

\* The main thread goes on once it is interrupted.  Nothing makes a post end: its
\* timeout is one per read, and an endpoint may answer a byte at a time.
FairSpec == Spec /\ WF_vars(JoinEnds)

-----------------------------------------------------------------------------
(* Correctness.                                                             *)

TypeOK ==
    /\ options \in Options /\ now \in 0..MaxTime /\ begun \in 0..MaxTime
    /\ samples \in [Nodes -> Sample \cup {None}]
    /\ page \in [Nodes -> Sample \cup {None}] \cup {None}
    /\ report \in [Paths -> [Nodes -> Heartbeat \cup {None}]]
    /\ pusher \in {"waiting", "reading", "posting", "off", "done", "dead"}
    /\ shipper \in {"waiting", "posting", "last", "off", "done", "dead"}
    /\ main \in {"serving", "joinLogs", "joinMetrics", "exited"} /\ stop \in BOOLEAN
    /\ pending \in Seq(1..MaxRecords) /\ Len(pending) <= Capacity
    /\ batch \in Seq(1..MaxRecords) /\ seen \in Seq(1..MaxRecords)
    /\ {logged, dropped, failed, shipped, lost, atStop} \subseteq 0..MaxRecords
    /\ {pushed, pushesFailed} \subseteq 0..MaxPushes

\* Every record is waiting, being posted, or counted as shipped, failed or dropped,
\* but for the batch that the death of the thread took along.
BatchesAccounted ==
    logged = Len(pending) + Len(batch) + shipped + failed + dropped + lost

\* The endpoint sees no record twice and none out of order, although it may have
\* taken in a batch whose answer never came.
SeenOnce == \A i, j \in DOMAIN seen : i < j => seen[i] < seen[j]

\* The last batch goes on the way out: when the shipper's thread ended in order,
\* every record that was logged before the stop event has left the queue.
LastBatchOut == shipper = "done" => \A i \in DOMAIN pending : pending[i] > atStop

\* A scrape is answered; a push is posted.
Reports(p) == IF p = "push" THEN pusher = "reading" /\ pusher' = "posting"
                            ELSE page # None /\ page' = None

\* Of the same incarnation with counters as high, or of a later one.
NotOlder(h, g) == g.run < h.run \/ (g.run = h.run /\ g.count <= h.count)

\* Counters reported of a node never fall but with a new origin, and origins do not
\* come back, from one report to the next on either path; and no report tells of a
\* node that had been silent for longer than stale_after when it read the clock.
ReportsCurrent ==
    [][\A p \in Paths, n \in Nodes :
         Reports(p) /\ report'[p][n] # None =>
            /\ report[p][n] # None => NotOlder(report'[p][n], report[p][n])
            /\ (IF p = "push" THEN begun ELSE now) <= samples[n].at + StaleAfter]_vars

\* Ctrl-C ends the process, even if the endpoints never answer.
ExportEnds == stop ~> main = "exited"
===============================================================================

----------------------------- MODULE ExporterProofs -----------------------------
(***************************************************************************)
(* Theorems about Exporter, for every set of nodes and of pushes, every     *)
(* length of the queue, every stale_after and every bound.                  *)
(***************************************************************************)
EXTENDS Exporter, SequenceTheorems, TLAPS

LEMMA Bounds ==
    /\ MaxRecords \in Nat /\ MaxRuns \in Nat /\ MaxCount \in Nat /\ MaxPushes \in Nat /\ MaxTime \in Nat
    /\ None \notin Heartbeat /\ None \notin Sample
BY BoundAssumption, NoneAssumption

USE LimitAssumption, Bounds

(***************************************************************************)
(* The queue of the log shipper.                                            *)
(***************************************************************************)

Ascending(s) == \A i, j \in DOMAIN s : i < j => s[i] < s[j]

\* Every number in s is smaller than every one in t.
Before(s, t) == \A i \in DOMAIN s, j \in DOMAIN t : s[i] < t[j]

\* One record more in the queue of bounded length, and at most the oldest one less.
LEMMA OfferedQueue ==
    ASSUME pending \in Seq(Nat), Len(pending) <= Capacity, NEW r \in Nat
    PROVE  /\ Offered(r) \in Seq(Nat) /\ Len(Offered(r)) <= Capacity
           /\ Len(Offered(r)) + (IF Len(pending) = Capacity THEN 1 ELSE 0) = Len(pending) + 1
           /\ \A i \in DOMAIN Offered(r) :
                 \/ i = Len(Offered(r)) /\ Offered(r)[i] = r
                 \/ i < Len(Offered(r)) /\ \E d \in {0, 1} : i + d \in DOMAIN pending /\ Offered(r)[i] = pending[i + d]
           /\ Ascending(pending) /\ (\A i \in DOMAIN pending : pending[i] < r) => Ascending(Offered(r))
<1>1. \E kept \in Seq(Nat), k \in {0, 1} :
         /\ Offered(r) = Append(kept, r)
         /\ k = (IF Len(pending) = Capacity THEN 1 ELSE 0)
         /\ Len(kept) + k = Len(pending) /\ Len(kept) < Capacity
         /\ \A i \in 1..Len(kept) : kept[i] = pending[i + k]
  <2>1. CASE Len(pending) = Capacity
    <3>1. pending # <<>>
      BY <2>1
    <3>2. /\ Tail(pending) \in Seq(Nat) /\ Len(Tail(pending)) + 1 = Len(pending)
          /\ \A i \in 1..Len(Tail(pending)) : Tail(pending)[i] = pending[i + 1]
      BY <3>1
    <3>. QED
      <4>. WITNESS Tail(pending) \in Seq(Nat), 1 \in {0, 1}
      <4>. QED  BY <2>1, <3>2 DEF Offered
  <2>2. CASE Len(pending) # Capacity
    BY <2>2 DEF Offered
  <2>. QED  BY <2>1, <2>2
<1>2. PICK kept \in Seq(Nat), k \in {0, 1} :
         /\ Offered(r) = Append(kept, r)
         /\ k = (IF Len(pending) = Capacity THEN 1 ELSE 0)
         /\ Len(kept) + k = Len(pending) /\ Len(kept) < Capacity
         /\ \A i \in 1..Len(kept) : kept[i] = pending[i + k]
  BY <1>1
<1>3. /\ Offered(r) \in Seq(Nat) /\ Len(Offered(r)) = Len(kept) + 1
      /\ DOMAIN Offered(r) = 1..(Len(kept) + 1) /\ Len(kept) \in Nat
      /\ \A i \in 1..Len(kept) : Offered(r)[i] = kept[i]
      /\ Offered(r)[Len(kept) + 1] = r
  BY <1>2
<1>4. ASSUME NEW i \in DOMAIN Offered(r)
      PROVE  \/ i = Len(Offered(r)) /\ Offered(r)[i] = r
             \/ i < Len(Offered(r)) /\ i + k \in DOMAIN pending /\ Offered(r)[i] = pending[i + k]
  <2>1. CASE i = Len(kept) + 1
    BY <1>3, <2>1
  <2>2. CASE i \in 1..Len(kept)
    <3>1. Offered(r)[i] = pending[i + k]
      BY <1>2, <1>3, <2>2
    <3>2. i < Len(Offered(r)) /\ i + k \in 1..Len(pending)
      <4>1. i \in Nat /\ Len(kept) \in Nat /\ 1 <= i /\ i <= Len(kept)
        BY <1>3, <2>2
      <4>2. Len(kept) + k = Len(pending) /\ Len(Offered(r)) = Len(kept) + 1 /\ k \in {0, 1}
        BY <1>2, <1>3
      <4>3. i < Len(Offered(r))
        BY <4>1, <4>2
      <4>4. 1 <= i + k /\ i + k <= Len(pending) /\ i + k \in Nat
        BY <4>1, <4>2
      <4>. QED  BY <4>3, <4>4
    <3>. QED  BY <3>1, <3>2
  <2>. QED  BY <1>3, <2>1, <2>2
<1>5. ASSUME Ascending(pending), \A i \in DOMAIN pending : pending[i] < r
      PROVE  Ascending(Offered(r))
  <2>. SUFFICES ASSUME NEW i \in DOMAIN Offered(r), NEW j \in DOMAIN Offered(r), i < j
                PROVE  Offered(r)[i] < Offered(r)[j]
    BY DEF Ascending
  <2>1. i \in Nat /\ j \in Nat /\ j <= Len(Offered(r)) /\ Len(Offered(r)) \in Nat
    BY <1>3
  <2>2. i + k \in DOMAIN pending /\ Offered(r)[i] = pending[i + k]
    BY <1>4, <2>1
  <2>3. CASE j = Len(Offered(r)) /\ Offered(r)[j] = r
    BY <1>5, <2>2, <2>3
  <2>4. CASE j + k \in DOMAIN pending /\ Offered(r)[j] = pending[j + k]
    BY <1>3, <1>5, <2>1, <2>2, <2>4 DEF Ascending
  <2>. QED  BY <1>4, <2>3, <2>4
<1>6. Len(Offered(r)) + (IF Len(pending) = Capacity THEN 1 ELSE 0) = Len(pending) + 1
  BY <1>2, <1>3
<1>7. Len(Offered(r)) <= Capacity
  BY <1>2, <1>3
<1>8. ASSUME NEW i \in DOMAIN Offered(r)
      PROVE  \/ i = Len(Offered(r)) /\ Offered(r)[i] = r
             \/ i < Len(Offered(r)) /\ \E d \in {0, 1} : i + d \in DOMAIN pending /\ Offered(r)[i] = pending[i + d]
  BY <1>3, <1>4
<1>. QED  BY <1>3, <1>5, <1>6, <1>7, <1>8

(***************************************************************************)
(* Type correctness and the account.  The counters are bounded because they  *)
(* sum up to what was logged, so the two are proved together.                *)
(***************************************************************************)

LogType ==
    /\ shipper \in {"waiting", "posting", "last", "off", "done", "dead"}
    /\ pending \in Seq(1..MaxRecords) /\ Len(pending) <= Capacity
    /\ batch \in Seq(1..MaxRecords) /\ seen \in Seq(1..MaxRecords)
    /\ logged \in 0..MaxRecords /\ dropped \in 0..MaxRecords /\ failed \in 0..MaxRecords
    /\ shipped \in 0..MaxRecords /\ lost \in 0..MaxRecords

OtherType ==
    /\ options \in Options /\ now \in 0..MaxTime /\ begun \in 0..MaxTime
    /\ samples \in [Nodes -> Sample \cup {None}]
    /\ page \in [Nodes -> Sample \cup {None}] \cup {None}
    /\ report \in [Paths -> [Nodes -> Heartbeat \cup {None}]]
    /\ pusher \in {"waiting", "reading", "posting", "off", "done", "dead"}
    /\ main \in {"serving", "joinLogs", "joinMetrics", "exited"} /\ stop \in BOOLEAN
    /\ atStop \in 0..MaxRecords /\ pushed \in 0..MaxPushes /\ pushesFailed \in 0..MaxPushes
    /\ pusher = "posting" => pushed + pushesFailed < MaxPushes

LogInv == LogType /\ BatchesAccounted /\ (shipper \notin {"posting", "last"} => batch = <<>>)

TypeInv == OtherType /\ LogInv

LEMMA TypeInvType == TypeInv => TypeOK
BY DEF TypeInv, LogInv, LogType, OtherType, TypeOK

LEMMA InitType == Init => TypeInv
<1>. SUFFICES ASSUME Init PROVE TypeInv
  OBVIOUS
<1>1. OtherType
  <2>1. /\ options \in Options /\ now \in 0..MaxTime /\ begun \in 0..MaxTime
        /\ atStop \in 0..MaxRecords /\ pushed \in 0..MaxPushes /\ pushesFailed \in 0..MaxPushes
        /\ main = "serving" /\ stop = FALSE
    BY DEF Init, InitPusher
  <2>2. pusher \in {"waiting", "off"}
    BY DEF Init, InitPusher
  <2>3. samples \in [Nodes -> Sample \cup {None}] /\ page = None
    BY DEF Init, InitRegistry
  <2>4. report \in [Paths -> [Nodes -> Heartbeat \cup {None}]]
    BY DEF Init
  <2>. QED  BY <2>1, <2>2, <2>3, <2>4 DEF OtherType
<1>2. LogInv
  BY DEF Init, InitShipper, LogInv, LogType, BatchesAccounted
<1>. QED  BY <1>1, <1>2 DEF TypeInv

\* What is read of the registry is a report.
LEMMA LiveType ==
    ASSUME NEW known \in [Nodes -> Sample \cup {None}], NEW t
    PROVE  Live(known, t) \in [Nodes -> Heartbeat \cup {None}]
BY DEF Live, Current, Sample

\* The steps of the registry, its readers, the clock and the main thread.
LEMMA OtherStep ==
    ASSUME OtherType, atStop' \in {atStop, logged}, logged \in 0..MaxRecords, [Next]_vars
    PROVE  OtherType'
<1>1. CASE Tick
  BY <1>1 DEF Tick, OtherType, registryVars, scrapeVars, pushVars, mainVars
<1>2. ASSUME NEW n \in Nodes, OfferHealth(n) PROVE OtherType'
  BY <1>2 DEF OfferHealth, OtherType, Sample, scrapeVars, pushVars, mainVars
<1>3. CASE ScrapeBegins
  BY <1>3 DEF ScrapeBegins, OtherType, registryVars, pushVars, mainVars
<1>4. CASE ScrapeEnds
  <2>1. page \in [Nodes -> Sample \cup {None}]
    BY <1>4 DEF ScrapeEnds, OtherType
  <2>2. report' \in [Paths -> [Nodes -> Heartbeat \cup {None}]]
    BY <1>4, <2>1, LiveType DEF ScrapeEnds, OtherType
  <2>. QED  BY <1>4, <2>2 DEF ScrapeEnds, OtherType, registryVars, pushVars, mainVars
<1>5. CASE PushBegins
  BY <1>5 DEF PushBegins, OtherType, registryVars, scrapeVars, mainVars
<1>6. CASE PushReads
  <2>1. Payload(samples, begun) \in [Nodes -> Heartbeat \cup {None}]
    BY LiveType DEF Payload, OtherType
  <2>2. report' \in [Paths -> [Nodes -> Heartbeat \cup {None}]]
    BY <1>6, <2>1 DEF PushReads, OtherType
  <2>. QED  BY <1>6, <2>2 DEF PushReads, OtherType, registryVars, scrapeVars, mainVars
<1>7. CASE PushEnds
  BY <1>7 DEF PushEnds, OtherType, registryVars, scrapeVars, mainVars
<1>8. CASE Interrupted
  BY <1>8 DEF Interrupted, OtherType, registryVars, scrapeVars, pushVars
<1>9. CASE JoinEnds
  BY <1>9 DEF JoinEnds, OtherType, registryVars, scrapeVars, pushVars
<1>10. CASE OfferLog \/ ShipBegins \/ ShipEnds \/ UNCHANGED vars
  <2>1. UNCHANGED <<options, now, registryVars, scrapeVars, pushVars, mainVars, report>>
    BY <1>10 DEF OfferLog, ShipBegins, ShipEnds, vars
  <2>. QED  BY <2>1 DEF OtherType, registryVars, scrapeVars, pushVars, mainVars
<1>. QED  BY <1>1, <1>2, <1>3, <1>4, <1>5, <1>6, <1>7, <1>8, <1>9, <1>10 DEF Next

LEMMA LogOfferLog == LogInv /\ OfferLog => LogInv'
<1>. SUFFICES ASSUME LogInv, OfferLog PROVE LogInv'
  OBVIOUS
<1>0. /\ pending \in Seq(Nat) /\ Len(pending) <= Capacity /\ Len(pending) \in Nat /\ Len(batch) \in Nat
      /\ logged \in Nat /\ dropped \in Nat /\ failed \in Nat /\ shipped \in Nat /\ lost \in Nat
  BY DEF LogInv, LogType
<1>1. /\ logged' = logged + 1 /\ logged' \in 1..MaxRecords
      /\ pending' = Offered(logged + 1)
      /\ dropped' = dropped + (IF Len(pending) = Capacity THEN 1 ELSE 0)
      /\ UNCHANGED <<shipper, batch, failed, shipped, seen, lost>>
  BY <1>0 DEF OfferLog
<1>2. pending' \in Seq(1..MaxRecords)
  <2>1. pending \in Seq(1..MaxRecords) /\ (Len(pending) = Capacity => pending # <<>>)
    BY DEF LogInv, LogType
  <2>2. logged + 1 \in 1..MaxRecords
    BY <1>1
  <2>3. CASE Len(pending) = Capacity
    BY <1>1, <2>1, <2>2, <2>3 DEF Offered
  <2>4. CASE Len(pending) # Capacity
    BY <1>1, <2>1, <2>2, <2>4 DEF Offered
  <2>. QED  BY <2>3, <2>4
<1>3. Len(pending') <= Capacity /\ Len(pending') + dropped' = Len(pending) + dropped + 1 /\ Len(pending') \in Nat
  <2>1. logged + 1 \in Nat
    BY <1>0
  <2>2. /\ Len(pending') <= Capacity
        /\ Len(pending') + (IF Len(pending) = Capacity THEN 1 ELSE 0) = Len(pending) + 1
    BY <1>0, <1>1, <2>1, OfferedQueue
  <2>3. Len(pending') \in Nat
    BY <1>2
  <2>4. CASE Len(pending) = Capacity
    BY <1>0, <1>1, <2>2, <2>3, <2>4
  <2>5. CASE Len(pending) # Capacity
    BY <1>0, <1>1, <2>2, <2>3, <2>5
  <2>. QED  BY <2>2, <2>3, <2>4, <2>5
<1>4. BatchesAccounted'
  BY <1>0, <1>1, <1>3 DEF LogInv, BatchesAccounted
<1>5. dropped' \in 0..MaxRecords
  <2>1. dropped' \in Nat /\ logged' <= MaxRecords
    BY <1>0, <1>1
  <2>2. logged' = Len(pending') + Len(batch) + shipped + failed + dropped' + lost
    BY <1>1, <1>4 DEF BatchesAccounted
  <2>3. dropped' <= logged'
    BY <1>0, <1>3, <2>1, <2>2
  <2>. QED  BY <1>0, <1>1, <2>1, <2>3
<1>. QED  BY <1>1, <1>2, <1>3, <1>4, <1>5 DEF LogInv, LogType

LEMMA LogShipBegins == LogInv /\ ShipBegins => LogInv'
<1>. SUFFICES ASSUME LogInv, ShipBegins PROVE LogInv'
  OBVIOUS
<1>1. batch = <<>> /\ Len(batch) = 0
  BY DEF ShipBegins, LogInv
<1>2. shipper' \in {"waiting", "posting", "last", "done"}
  BY DEF ShipBegins, AfterStop
<1>3. UNCHANGED <<logged, dropped, failed, shipped, seen, lost>>
  BY DEF ShipBegins
<1>4. CASE shipper' \in {"posting", "last"} /\ batch' = pending /\ pending' = <<>>
  BY <1>1, <1>3, <1>4 DEF LogInv, LogType, BatchesAccounted
<1>5. CASE shipper' \notin {"posting", "last"} /\ UNCHANGED <<batch, pending>>
  BY <1>1, <1>2, <1>3, <1>5 DEF LogInv, LogType, BatchesAccounted
<1>. QED  BY <1>4, <1>5 DEF ShipBegins

LEMMA LogShipEnds == LogInv /\ ShipEnds => LogInv'
<1>. SUFFICES ASSUME LogInv, ShipEnds PROVE LogInv'
  OBVIOUS
<1>0. /\ Len(pending) \in Nat /\ Len(batch) \in Nat /\ logged \in 0..MaxRecords
      /\ dropped \in Nat /\ failed \in Nat /\ shipped \in Nat /\ lost \in Nat
      /\ logged = Len(pending) + Len(batch) + shipped + failed + dropped + lost
  BY DEF LogInv, LogType, BatchesAccounted
<1>1. /\ batch' = <<>> /\ UNCHANGED <<logged, dropped, pending>>
      /\ shipper' \in {"waiting", "done", "dead"}
      /\ seen' \in {seen, seen \o batch}
  BY DEF ShipEnds, Refused
<1>2. \/ shipped' = shipped + Len(batch) /\ UNCHANGED <<failed, lost>>
      \/ failed' = failed + Len(batch) /\ UNCHANGED <<shipped, lost>>
      \/ lost' = lost + Len(batch) /\ UNCHANGED <<shipped, failed>>
  BY DEF ShipEnds, Refused
<1>3. BatchesAccounted'
  BY <1>0, <1>1, <1>2 DEF BatchesAccounted
<1>4. shipped' \in 0..MaxRecords /\ failed' \in 0..MaxRecords /\ lost' \in 0..MaxRecords
  BY <1>0, <1>2
<1>5. seen' \in Seq(1..MaxRecords)
  <2>1. seen \in Seq(1..MaxRecords) /\ batch \in Seq(1..MaxRecords)
    BY DEF LogInv, LogType
  <2>2. seen \o batch \in Seq(1..MaxRecords)
    BY <2>1
  <2>. QED  BY <1>1, <2>1, <2>2
<1>. QED  BY <1>1, <1>3, <1>4, <1>5 DEF LogInv, LogType

\* Every other step leaves the log shipper alone.
LEMMA LogFrame == [Next]_vars => OfferLog \/ ShipBegins \/ ShipEnds \/ UNCHANGED logVars
BY DEF Next, vars, Tick, OfferHealth, ScrapeBegins, ScrapeEnds, PushBegins, PushReads, PushEnds,
       Interrupted, JoinEnds

LEMMA TypeStep == TypeInv /\ [Next]_vars => TypeInv'
<1>. SUFFICES ASSUME TypeInv, [Next]_vars PROVE TypeInv'
  OBVIOUS
<1>1. LogInv'
  <2>1. CASE UNCHANGED logVars
    BY <2>1 DEF logVars, TypeInv, LogInv, LogType, BatchesAccounted
  <2>. QED  BY <2>1, LogFrame, LogOfferLog, LogShipBegins, LogShipEnds DEF TypeInv
<1>2. atStop' \in {atStop, logged}
  BY DEF Next, vars, mainVars, Tick, OfferHealth, ScrapeBegins, ScrapeEnds, PushBegins, PushReads,
         PushEnds, OfferLog, ShipBegins, ShipEnds, Interrupted, JoinEnds
<1>3. OtherType'
  BY <1>2, OtherStep DEF TypeInv, LogInv, LogType
<1>. QED  BY <1>1, <1>3 DEF TypeInv

\* Every state of the sidecar is well typed: the queue keeps its bound, the counters
\* theirs, and what is reported is a heartbeat (exporter.py:323-375,
\* otlp_logs.py:107-171, otlp_metrics.py:123-171, cli.py:400-477).
THEOREM ExporterTypeCorrect == Spec => []TypeOK
BY InitType, TypeStep, TypeInvType, PTL DEF Spec

\* No record is lost without a count, but with the thread (otlp_logs.py:129-171).
THEOREM RecordsKept == Spec => []BatchesAccounted
<1>1. TypeInv => BatchesAccounted
  BY DEF TypeInv, LogInv
<1>. QED  BY <1>1, InitType, TypeStep, PTL DEF Spec

(***************************************************************************)
(* Order.  What was seen comes before the batch, the batch before the queue. *)
(***************************************************************************)

LEMMA Joined ==
    ASSUME NEW s \in Seq(Nat), NEW t \in Seq(Nat), Ascending(s), Ascending(t), Before(s, t)
    PROVE  Ascending(s \o t)
<1>1. /\ Len(s) \in Nat /\ Len(t) \in Nat /\ DOMAIN (s \o t) = 1..(Len(s) + Len(t))
      /\ \A i \in 1..(Len(s) + Len(t)) : (s \o t)[i] = IF i <= Len(s) THEN s[i] ELSE t[i - Len(s)]
  BY ConcatProperties
<1>. SUFFICES ASSUME NEW i \in DOMAIN (s \o t), NEW j \in DOMAIN (s \o t), i < j
              PROVE  (s \o t)[i] < (s \o t)[j]
  BY DEF Ascending
<1>2. CASE j <= Len(s)
  BY <1>1, <1>2 DEF Ascending
<1>3. CASE i <= Len(s) /\ j > Len(s)
  <2>1. i \in DOMAIN s /\ j - Len(s) \in DOMAIN t
    BY <1>1, <1>3
  <2>. QED  BY <1>1, <1>3, <2>1 DEF Before
<1>4. CASE i > Len(s)
  <2>1. i - Len(s) \in DOMAIN t /\ j - Len(s) \in DOMAIN t /\ i - Len(s) < j - Len(s)
    BY <1>1, <1>4
  <2>. QED  BY <1>1, <1>4, <2>1 DEF Ascending
<1>. QED  BY <1>1, <1>2, <1>3, <1>4

LEMMA JoinedBefore ==
    ASSUME NEW s \in Seq(Nat), NEW t \in Seq(Nat), NEW u \in Seq(Nat), Before(s, u), Before(t, u)
    PROVE  Before(s \o t, u)
<1>1. /\ Len(s) \in Nat /\ Len(t) \in Nat /\ DOMAIN (s \o t) = 1..(Len(s) + Len(t))
      /\ \A i \in 1..(Len(s) + Len(t)) : (s \o t)[i] = IF i <= Len(s) THEN s[i] ELSE t[i - Len(s)]
  BY ConcatProperties
<1>. SUFFICES ASSUME NEW i \in DOMAIN (s \o t), NEW j \in DOMAIN u
              PROVE  (s \o t)[i] < u[j]
  BY DEF Before
<1>2. CASE i <= Len(s)
  BY <1>1, <1>2 DEF Before
<1>3. CASE i > Len(s)
  <2>1. i - Len(s) \in DOMAIN t
    BY <1>1, <1>3
  <2>. QED  BY <1>1, <1>3, <2>1 DEF Before
<1>. QED  BY <1>1, <1>2, <1>3

LEMMA LogNumbers ==
    ASSUME TypeInv
    PROVE  /\ seen \in Seq(Nat) /\ batch \in Seq(Nat) /\ pending \in Seq(Nat)
           /\ \A i \in DOMAIN seen : seen[i] \in Nat
           /\ \A i \in DOMAIN batch : batch[i] \in Nat
           /\ \A i \in DOMAIN pending : pending[i] \in Nat
           /\ logged \in Nat /\ atStop \in Nat /\ Len(pending) <= Capacity
<1>1. ASSUME NEW s \in Seq(1..MaxRecords)
      PROVE  s \in Seq(Nat) /\ \A i \in DOMAIN s : s[i] \in Nat
  OBVIOUS
<1>2. seen \in Seq(1..MaxRecords) /\ batch \in Seq(1..MaxRecords) /\ pending \in Seq(1..MaxRecords)
  BY DEF TypeInv, LogInv, LogType
<1>3. logged \in Nat /\ atStop \in Nat /\ Len(pending) <= Capacity
  BY DEF TypeInv, OtherType, LogInv, LogType
<1>. QED  BY <1>1, <1>2, <1>3

AllLogged(s) == \A i \in DOMAIN s : s[i] <= logged

OrderInv ==
    /\ Ascending(seen) /\ Ascending(batch) /\ Ascending(pending)
    /\ Before(seen, batch) /\ Before(seen, pending) /\ Before(batch, pending)
    /\ AllLogged(seen) /\ AllLogged(batch) /\ AllLogged(pending)

LEMMA OrderOfferLog == TypeInv /\ OrderInv /\ OfferLog => OrderInv'
<1>. SUFFICES ASSUME TypeInv, OrderInv, OfferLog PROVE OrderInv'
  OBVIOUS
<1>0. /\ pending \in Seq(Nat) /\ Len(pending) <= Capacity /\ logged \in Nat
      /\ \A i \in DOMAIN seen : seen[i] \in Nat
      /\ \A i \in DOMAIN batch : batch[i] \in Nat
      /\ \A i \in DOMAIN pending : pending[i] \in Nat
  BY LogNumbers
<1>1. logged' = logged + 1 /\ pending' = Offered(logged + 1) /\ UNCHANGED <<batch, seen>>
  BY DEF OfferLog
<1>2. \A i \in DOMAIN pending' :
         \/ pending'[i] = logged + 1
         \/ \E d \in {0, 1} : i + d \in DOMAIN pending /\ pending'[i] = pending[i + d]
  <2>1. logged + 1 \in Nat
    BY <1>0
  <2>. QED  BY <1>0, <1>1, <2>1, OfferedQueue
<1>3. Ascending(pending')
  <2>1. logged + 1 \in Nat /\ \A i \in DOMAIN pending : pending[i] < logged + 1
    BY <1>0 DEF OrderInv, AllLogged
  <2>. QED  BY <1>0, <1>1, <2>1, OfferedQueue DEF OrderInv
<1>4. AllLogged(seen)' /\ AllLogged(batch)' /\ AllLogged(pending)'
  <2>1. AllLogged(seen)' /\ AllLogged(batch)'
    BY <1>0, <1>1 DEF OrderInv, AllLogged
  <2>2. ASSUME NEW i \in DOMAIN pending' PROVE pending'[i] <= logged'
    BY <1>0, <1>1, <1>2 DEF OrderInv, AllLogged
  <2>. QED  BY <2>1, <2>2 DEF AllLogged
<1>5. Before(seen, pending)'
  <2>. SUFFICES ASSUME NEW i \in DOMAIN seen, NEW j \in DOMAIN pending' PROVE seen[i] < pending'[j]
    BY <1>1 DEF Before
  <2>1. seen[i] < logged + 1
    BY <1>0 DEF OrderInv, AllLogged
  <2>. QED  BY <1>2, <2>1 DEF OrderInv, Before
<1>6. Before(batch, pending)'
  <2>. SUFFICES ASSUME NEW i \in DOMAIN batch, NEW j \in DOMAIN pending' PROVE batch[i] < pending'[j]
    BY <1>1 DEF Before
  <2>1. batch[i] < logged + 1
    BY <1>0 DEF OrderInv, AllLogged
  <2>. QED  BY <1>2, <2>1 DEF OrderInv, Before
<1>. QED  BY <1>1, <1>3, <1>4, <1>5, <1>6 DEF OrderInv, Ascending, Before

LEMMA OrderShipBegins == TypeInv /\ OrderInv /\ ShipBegins => OrderInv'
<1>. SUFFICES ASSUME TypeInv, OrderInv, ShipBegins PROVE OrderInv'
  OBVIOUS
<1>1. UNCHANGED <<seen, logged>>
  BY DEF ShipBegins
<1>2. CASE batch' = pending /\ pending' = <<>>
  BY <1>1, <1>2 DEF OrderInv, Ascending, Before, AllLogged
<1>3. CASE UNCHANGED <<batch, pending>>
  BY <1>1, <1>3 DEF OrderInv, Ascending, Before, AllLogged
<1>. QED  BY <1>2, <1>3 DEF ShipBegins

LEMMA OrderShipEnds == TypeInv /\ OrderInv /\ ShipEnds => OrderInv'
<1>. SUFFICES ASSUME TypeInv, OrderInv, ShipEnds PROVE OrderInv'
  OBVIOUS
<1>1. batch' = <<>> /\ UNCHANGED <<logged, pending>> /\ seen' \in {seen, seen \o batch}
  BY DEF ShipEnds, Refused
<1>2. seen \in Seq(Nat) /\ batch \in Seq(Nat) /\ pending \in Seq(Nat) /\ logged \in Nat
  BY LogNumbers
<1>3. CASE seen' = seen
  BY <1>1, <1>3 DEF OrderInv, Ascending, Before, AllLogged
<1>4. CASE seen' = seen \o batch
  <2>1. Ascending(seen')
    BY <1>2, <1>4, Joined DEF OrderInv
  <2>2. Before(seen', pending)
    BY <1>2, <1>4, JoinedBefore DEF OrderInv
  <2>3. \A i \in DOMAIN seen' : seen'[i] <= logged
    <3>1. \A i \in DOMAIN seen' :
             \/ i \in DOMAIN seen /\ seen'[i] = seen[i]
             \/ i - Len(seen) \in DOMAIN batch /\ seen'[i] = batch[i - Len(seen)]
      BY <1>2, <1>4, ConcatProperties
    <3>. QED  BY <3>1 DEF OrderInv, AllLogged
  <2>. QED  BY <1>1, <2>1, <2>2, <2>3 DEF OrderInv, Ascending, Before, AllLogged
<1>. QED  BY <1>1, <1>3, <1>4

LEMMA OrderStep == TypeInv /\ OrderInv /\ [Next]_vars => OrderInv'
<1>1. OrderInv /\ UNCHANGED logVars => OrderInv'
  BY DEF logVars, OrderInv, Ascending, Before, AllLogged
<1>. QED  BY <1>1, LogFrame, OrderOfferLog, OrderShipBegins, OrderShipEnds

LEMMA OrderInit == Init => OrderInv
BY DEF Init, InitShipper, OrderInv, Ascending, Before, AllLogged

\* The endpoint sees the records in order and none twice, although a batch may be
\* counted as failed that it took in (otlp_logs.py:140-165).
THEOREM SeenInOrder == Spec => []SeenOnce
<1>1. Spec => []OrderInv
  BY InitType, TypeStep, OrderInit, OrderStep, PTL DEF Spec
<1>2. OrderInv => SeenOnce
  BY DEF OrderInv, Ascending, SeenOnce
<1>. QED  BY <1>1, <1>2, PTL

(***************************************************************************)
(* The last batch.                                                          *)
(***************************************************************************)

FlushInv ==
    /\ main = "serving" => ~stop
    /\ shipper \in {"last", "done"} => stop /\ \A i \in DOMAIN pending : pending[i] > atStop
    /\ atStop <= logged

LEMMA FlushStep == TypeInv /\ FlushInv /\ [Next]_vars => FlushInv'
<1>. SUFFICES ASSUME TypeInv, FlushInv, [Next]_vars PROVE FlushInv'
  OBVIOUS
<1>0. logged \in Nat /\ atStop \in Nat /\ \A i \in DOMAIN pending : pending[i] \in Nat
  BY LogNumbers
<1>1. CASE OfferLog
  <2>1. /\ logged' = logged + 1 /\ pending' = Offered(logged + 1)
        /\ UNCHANGED <<shipper, main, stop, atStop>>
    BY <1>1 DEF OfferLog, mainVars
  <2>2. \A i \in DOMAIN pending' :
           \/ pending'[i] = logged + 1
           \/ \E d \in {0, 1} : i + d \in DOMAIN pending /\ pending'[i] = pending[i + d]
    <3>1. pending \in Seq(Nat) /\ Len(pending) <= Capacity /\ logged + 1 \in Nat
      BY LogNumbers
    <3>. QED  BY <2>1, <3>1, OfferedQueue
  <2>3. ASSUME shipper \in {"last", "done"}, NEW i \in DOMAIN pending' PROVE pending'[i] > atStop
    BY <1>0, <2>2, <2>3 DEF FlushInv
  <2>. QED  BY <1>0, <2>1, <2>3 DEF FlushInv
<1>2. CASE ShipBegins
  <2>1. UNCHANGED <<logged, main, stop, atStop>> /\ shipper = "waiting"
    BY <1>2 DEF ShipBegins, mainVars
  <2>2. CASE shipper' \in {"posting", "last"} /\ pending' = <<>>
    <3>1. shipper' = "last" => stop
      BY <1>2 DEF ShipBegins, AfterStop
    <3>. QED  BY <2>1, <2>2, <3>1 DEF FlushInv
  <2>3. CASE shipper' \notin {"posting", "last"} /\ UNCHANGED pending
    <3>1. shipper' = "done" => stop /\ pending = <<>>
      BY <1>2, <2>3 DEF ShipBegins, AfterStop
    <3>. QED  BY <2>1, <2>3, <3>1 DEF FlushInv
  <2>. QED  BY <1>2, <2>2, <2>3 DEF ShipBegins
<1>3. CASE ShipEnds
  BY <1>3 DEF ShipEnds, Refused, FlushInv, mainVars
<1>4. CASE Interrupted
  BY <1>0, <1>4 DEF Interrupted, FlushInv, logVars
<1>5. CASE UNCHANGED <<logVars, stop, atStop>> /\ (main' = "serving" => main = "serving")
  BY <1>5 DEF FlushInv, logVars
<1>6. OfferLog \/ ShipBegins \/ ShipEnds \/ Interrupted
        \/ (UNCHANGED <<logVars, stop, atStop>> /\ (main' = "serving" => main = "serving"))
  BY DEF Next, vars, mainVars, Tick, OfferHealth, ScrapeBegins, ScrapeEnds, PushBegins, PushReads,
         PushEnds, JoinEnds
<1>. QED  BY <1>1, <1>2, <1>3, <1>4, <1>5, <1>6

LEMMA FlushInit == Init => FlushInv
BY DEF Init, InitShipper, FlushInv

\* A shipper that ended in order has sent off everything that was logged before the
\* stop (otlp_logs.py:167-171).
THEOREM LastBatchSent == Spec => []LastBatchOut
<1>1. Spec => []FlushInv
  BY InitType, TypeStep, FlushInit, FlushStep, PTL DEF Spec
<1>2. FlushInv => LastBatchOut
  BY DEF FlushInv, LastBatchOut
<1>. QED  BY <1>1, <1>2, PTL

(***************************************************************************)
(* Reports.  What was last told of a node is no newer than what the registry *)
(* knows of it, nor than the copy that a scrape under way works on.          *)
(***************************************************************************)

LEMMA NotOlderOrder ==
    ASSUME NEW f \in Heartbeat, NEW g \in Heartbeat, NEW h \in Heartbeat
    PROVE  /\ NotOlder(f, f)
           /\ NotOlder(h, g) /\ NotOlder(g, f) => NotOlder(h, f)
BY DEF NotOlder, Heartbeat

Knows(n, h) == h # None => samples[n] # None /\ NotOlder(samples[n].health, h)

ReportInv ==
    /\ \A n \in Nodes : samples[n] # None => samples[n].at <= now
    /\ \A p \in Paths, n \in Nodes : Knows(n, report[p][n])
    /\ page # None =>
          \A n \in Nodes :
             /\ page[n] # None => Knows(n, page[n].health) /\ page[n].at <= samples[n].at
             /\ report["scrape"][n] # None =>
                   page[n] # None /\ NotOlder(page[n].health, report["scrape"][n])

\* A heartbeat is no older than the one before it.
LEMMA BeatsForward ==
    ASSUME OtherType, NEW n \in Nodes, NEW h \in Beats(n) \cap Heartbeat, samples[n] # None
    PROVE  samples[n].health \in Heartbeat /\ NotOlder(h, samples[n].health)
<1>1. samples[n].health \in Heartbeat
  BY DEF OtherType, Sample
<1>2. h \in {[samples[n].health EXCEPT !.count = @ + 1], [run |-> samples[n].health.run + 1, count |-> 0]}
  BY DEF Beats
<1>. QED  BY <1>1, <1>2 DEF NotOlder, Heartbeat

\* What is read of the registry is what it knows.
LEMMA LiveKnown ==
    ASSUME NEW known, NEW t, NEW n \in Nodes, Live(known, t)[n] # None
    PROVE  known[n] # None /\ Live(known, t)[n] = known[n].health /\ t <= known[n].at + StaleAfter
BY DEF Live, Current

LEMMA ReportOfferHealth ==
    ASSUME OtherType, ReportInv, NEW n \in Nodes, OfferHealth(n)
    PROVE  ReportInv'
<1>1. PICK h \in Beats(n) \cap Heartbeat : samples' = [samples EXCEPT ![n] = [health |-> h, at |-> now]]
  BY DEF OfferHealth
<1>2. UNCHANGED <<page, report, now>> /\ samples \in [Nodes -> Sample \cup {None}] /\ now \in 0..MaxTime
  BY DEF OfferHealth, scrapeVars, OtherType
<1>3. samples'[n].health = h /\ samples'[n].at = now /\ samples'[n] # None
  <2>1. [health |-> h, at |-> now] \in Sample
    BY <1>2 DEF Sample
  <2>. QED  BY <1>1, <1>2, <2>1
<1>4. \A m \in Nodes : m # n => samples'[m] = samples[m]
  BY <1>1, <1>2
<1>5. ASSUME NEW m \in Nodes, NEW g \in Heartbeat \cup {None}, Knows(m, g) PROVE Knows(m, g)'
  <2>1. CASE m = n /\ g # None
    <3>1. samples[n] # None /\ NotOlder(samples[n].health, g)
      BY <1>5, <2>1 DEF Knows
    <3>2. NotOlder(h, samples[n].health) /\ samples[n].health \in Heartbeat
      BY <3>1, BeatsForward
    <3>3. NotOlder(h, g)
      BY <2>1, <3>1, <3>2, NotOlderOrder
    <3>. QED  BY <1>3, <2>1, <3>3 DEF Knows
  <2>2. CASE m # n \/ g = None
    BY <1>4, <1>5, <2>2 DEF Knows
  <2>. QED  BY <2>1, <2>2
<1>6. ASSUME NEW m \in Nodes, samples[m] # None
      PROVE  samples'[m].at \in Nat /\ samples[m].at \in Nat /\ samples[m].at <= samples'[m].at
  <2>1. samples[m].at \in Nat /\ samples[m].at <= now
    BY <1>2, <1>6 DEF ReportInv, Sample
  <2>. QED  BY <1>2, <1>3, <1>4, <2>1
<1>7. \A p \in Paths, m \in Nodes : Knows(m, report[p][m])'
  <2>1. \A p \in Paths, m \in Nodes : report[p][m] \in Heartbeat \cup {None}
    BY DEF OtherType
  <2>2. \A p \in Paths, m \in Nodes : Knows(m, report[p][m])
    BY DEF ReportInv
  <2>. QED  BY <1>2, <1>5, <2>1, <2>2 DEF Knows
<1>8. ASSUME page # None, NEW m \in Nodes, page[m] # None
      PROVE  Knows(m, page[m].health)' /\ page[m].at <= samples'[m].at
  <2>1. page[m] \in Sample /\ page[m].health \in Heartbeat /\ page[m].at \in Nat
    BY <1>8 DEF OtherType, Sample
  <2>2. Knows(m, page[m].health) /\ page[m].at <= samples[m].at /\ samples[m] # None
    BY <1>8, <2>1 DEF ReportInv, Knows
  <2>3. Knows(m, page[m].health)'
    BY <1>2, <1>5, <2>1, <2>2 DEF Knows
  <2>. QED  BY <1>6, <2>1, <2>2, <2>3
<1>9. ASSUME NEW m \in Nodes, samples'[m] # None PROVE samples'[m].at <= now'
  BY <1>2, <1>3, <1>4, <1>9 DEF ReportInv
<1>. QED  BY <1>2, <1>7, <1>8, <1>9 DEF ReportInv

LEMMA ReportScrapeBegins ==
    ASSUME OtherType, ReportInv, ScrapeBegins
    PROVE  ReportInv'
<1>1. page' = samples /\ UNCHANGED <<samples, report, now>>
  BY DEF ScrapeBegins, registryVars
<1>2. ASSUME NEW n \in Nodes, samples[n] # None
      PROVE  Knows(n, samples[n].health) /\ samples[n].at <= samples[n].at
  <2>1. samples[n].health \in Heartbeat /\ samples[n].at \in Nat
    BY <1>2 DEF OtherType, Sample
  <2>. QED  BY <1>2, <2>1, NotOlderOrder DEF Knows
<1>3. \A n \in Nodes : report["scrape"][n] # None =>
         samples[n] # None /\ NotOlder(samples[n].health, report["scrape"][n])
  BY DEF ReportInv, Knows, Paths
<1>. QED  BY <1>1, <1>2, <1>3 DEF ReportInv, Knows

\* What a scrape that ends tells of a node.
LEMMA ScrapeTells ==
    ASSUME OtherType, ReportInv, ScrapeEnds, NEW n \in Nodes, report'["scrape"][n] # None
    PROVE  /\ Knows(n, report'["scrape"][n])
           /\ report["scrape"][n] # None => NotOlder(report'["scrape"][n], report["scrape"][n])
           /\ now <= samples[n].at + StaleAfter
<1>1. page # None /\ report'["scrape"] = Live(page, now) /\ page \in [Nodes -> Sample \cup {None}]
  BY DEF ScrapeEnds, OtherType, Paths
<1>2. /\ page[n] # None /\ report'["scrape"][n] = page[n].health /\ now <= page[n].at + StaleAfter
  BY <1>1, LiveKnown
<1>3. page[n] \in Sample /\ page[n].health # None /\ page[n].at \in Nat /\ now \in Nat
  BY <1>1, <1>2 DEF Sample, OtherType
<1>4. Knows(n, page[n].health) /\ page[n].at <= samples[n].at
  BY <1>1, <1>2 DEF ReportInv
<1>5. samples[n].at \in Nat
  BY <1>3, <1>4 DEF Knows, OtherType, Sample
<1>6. report["scrape"][n] # None => NotOlder(page[n].health, report["scrape"][n])
  BY <1>1 DEF ReportInv
<1>. QED  BY <1>2, <1>3, <1>4, <1>5, <1>6

\* What a push tells of a node.
LEMMA PushTells ==
    ASSUME OtherType, ReportInv, PushReads, report'["push"] = Payload(samples, begun),
           NEW n \in Nodes, report'["push"][n] # None
    PROVE  /\ Knows(n, report'["push"][n])
           /\ report["push"][n] # None => NotOlder(report'["push"][n], report["push"][n])
           /\ begun <= samples[n].at + StaleAfter
<1>1. samples[n] # None /\ report'["push"][n] = samples[n].health /\ begun <= samples[n].at + StaleAfter
  BY LiveKnown DEF Payload
<1>2. samples[n].health \in Heartbeat
  BY <1>1 DEF OtherType, Sample
<1>3. Knows(n, samples[n].health)
  BY <1>1, <1>2, NotOlderOrder DEF Knows
<1>4. Knows(n, report["push"][n])
  BY DEF ReportInv, Paths
<1>. QED  BY <1>1, <1>3, <1>4 DEF Knows

LEMMA ReportScrapeEnds ==
    ASSUME OtherType, ReportInv, ScrapeEnds
    PROVE  ReportInv'
<1>1. page' = None /\ UNCHANGED <<samples, now>> /\ report'["push"] = report["push"]
  BY DEF ScrapeEnds, registryVars, OtherType, Paths
<1>2. \A n \in Nodes : Knows(n, report'["scrape"][n])
  BY ScrapeTells DEF Knows
<1>3. \A p \in Paths, n \in Nodes : Knows(n, report'[p][n])
  BY <1>1, <1>2 DEF Paths, ReportInv
<1>. QED  BY <1>1, <1>3 DEF ReportInv, Knows

LEMMA ReportPushReads ==
    ASSUME OtherType, ReportInv, PushReads
    PROVE  ReportInv'
<1>1. UNCHANGED <<samples, now, page>> /\ report'["scrape"] = report["scrape"]
  BY DEF PushReads, registryVars, scrapeVars, OtherType, Paths
<1>2. \A n \in Nodes : Knows(n, report'["push"][n])
  <2>1. CASE report' = report
    BY <2>1 DEF ReportInv, Paths
  <2>2. CASE report'["push"] = Payload(samples, begun)
    BY <2>2, PushTells DEF Knows
  <2>. QED  BY <2>1, <2>2 DEF PushReads, OtherType, Paths
<1>3. \A p \in Paths, n \in Nodes : Knows(n, report'[p][n])
  BY <1>1, <1>2 DEF Paths, ReportInv
<1>. QED  BY <1>1, <1>3 DEF ReportInv, Knows

\* Every other step leaves what is known, copied and reported.
LEMMA ReportFrame ==
    [Next]_vars =>
        \/ \E n \in Nodes : OfferHealth(n)
        \/ ScrapeBegins \/ ScrapeEnds \/ PushReads
        \/ UNCHANGED <<samples, page, report>> /\ now' \in {now, now + 1}
                /\ (pusher' = "posting" => pusher # "reading")
BY DEF Next, vars, registryVars, scrapeVars, pushVars, Tick, PushBegins, PushEnds, OfferLog,
       ShipBegins, ShipEnds, Interrupted, JoinEnds

LEMMA ReportStep == OtherType /\ ReportInv /\ [Next]_vars => ReportInv'
<1>. SUFFICES ASSUME OtherType, ReportInv, [Next]_vars PROVE ReportInv'
  OBVIOUS
<1>1. CASE UNCHANGED <<samples, page, report>> /\ now' \in {now, now + 1}
  <2>1. \A n \in Nodes : samples[n] # None => samples[n].at \in Nat /\ samples[n].at <= now /\ now \in Nat
    BY DEF OtherType, Sample, ReportInv
  <2>2. \A n \in Nodes : samples'[n] # None => samples'[n].at <= now'
    BY <1>1, <2>1
  <2>. QED  BY <1>1, <2>2 DEF ReportInv, Knows
<1>. QED  BY <1>1, ReportFrame, ReportOfferHealth, ReportScrapeBegins, ReportScrapeEnds, ReportPushReads

LEMMA ReportInit == Init => ReportInv
BY DEF Init, InitRegistry, ReportInv, Knows

\* No report goes back in time, and none tells of a node that is long silent
\* (exporter.py:334-371, otlp_metrics.py:139-151).
THEOREM ReportsForward == Spec => ReportsCurrent
<1>. DEFINE Told == \A p \in Paths, n \in Nodes :
         Reports(p) /\ report'[p][n] # None =>
            /\ report[p][n] # None => NotOlder(report'[p][n], report[p][n])
            /\ (IF p = "push" THEN begun ELSE now) <= samples[n].at + StaleAfter
<1>1. OtherType /\ ReportInv /\ [Next]_vars => [Told]_vars
  <2>. SUFFICES ASSUME OtherType, ReportInv, [Next]_vars,
                       NEW p \in Paths, NEW n \in Nodes, Reports(p), report'[p][n] # None
                PROVE  /\ report[p][n] # None => NotOlder(report'[p][n], report[p][n])
                       /\ (IF p = "push" THEN begun ELSE now) <= samples[n].at + StaleAfter
    OBVIOUS
  <2>1. CASE p = "scrape"
    <3>1. page # None /\ page' = None
      BY <2>1 DEF Reports
    <3>2. ScrapeEnds
      BY <3>1, ReportFrame DEF OfferHealth, ScrapeBegins, PushReads, scrapeVars
    <3>. QED  BY <2>1, <3>2, ScrapeTells
  <2>2. CASE p = "push"
    <3>1. pusher = "reading" /\ pusher' = "posting"
      BY <2>2 DEF Reports
    <3>2. PushReads
      BY <3>1, ReportFrame DEF OfferHealth, ScrapeBegins, ScrapeEnds, pushVars
    <3>3. report'["push"] = Payload(samples, begun)
      BY <3>1, <3>2 DEF PushReads, OtherType, Paths
    <3>. QED  BY <2>2, <3>2, <3>3, PushTells
  <2>. QED  BY <2>1, <2>2 DEF Paths
<1>2. Spec => [](OtherType /\ ReportInv)
  <2>1. TypeInv => OtherType
    BY DEF TypeInv
  <2>. QED  BY <2>1, InitType, TypeStep, ReportInit, ReportStep, PTL DEF Spec
<1>3. Spec => [][Told]_vars
  BY <1>1, <1>2, PTL DEF Spec
<1>. QED  BY <1>3 DEF ReportsCurrent
================================================================================

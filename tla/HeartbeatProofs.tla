---------------------------- MODULE HeartbeatProofs ----------------------------
(***************************************************************************)
(* Theorems about Timer, for every interval: it accounts for every point of *)
(* its grid, aims at the next one and honours on_error="stop"; about        *)
(* Publishing, for any number of threads, publishers and puts: no number    *)
(* and no fallback is lost between the counters; and about Heartbeat, which *)
(* composes the two: what is proved of them holds of the composition, and   *)
(* each heartbeat covers the window since the one before it.                *)
(***************************************************************************)
EXTENDS Heartbeat, FiniteSetTheorems, WellFoundedInduction, TLAPS

-----------------------------------------------------------------------------
(* Timer.                                                                   *)

Grid == TypeOK /\ GridAccounting

\* The arithmetic of the skip: adding one period more than fit in the delay lands
\* after the clock, and by no more than a period.
LEMMA SkipLandsNext ==
    ASSUME NEW behind \in Int, behind <= 0 => -behind <= Interval
    PROVE  /\ Missed(behind) \in Nat
           /\ Missed(behind) * Interval >= behind
           /\ Missed(behind) * Interval - behind <= Interval
<1>. USE IntervalAssumption
<1>1. CASE behind <= 0
  BY <1>1 DEF Missed
<1>2. CASE behind > 0
  <2>. DEFINE q == behind \div Interval
  <2>1. q \in Int /\ q * Interval <= behind /\ behind < q * Interval + Interval
    BY <1>2
  <2>2. q >= 0
    BY <1>2, <2>1
  <2>. HIDE DEF q
  <2>3. (q + 1) * Interval = q * Interval + Interval /\ q * Interval \in Int
    BY <2>1
  <2>. QED  BY <1>2, <2>1, <2>2, <2>3 DEF Missed, q
<1>. QED  BY <1>1, <1>2

\* What one Aim does, from any point that is not in the future.
LEMMA AimFacts ==
    ASSUME Grid, NEW at \in Nat, at <= now, Aim(at)
    PROVE  /\ overruns' \in Nat /\ nextAt' \in Nat /\ pc' = "sleeping"
           /\ now <= nextAt' /\ nextAt' <= now + Interval
           /\ nextAt' = at + (1 + (overruns' - overruns)) * Interval
<1>. DEFINE behind == now - (at + Interval)
            missed == Missed(behind)
<1>1. behind \in Int /\ (behind <= 0 => -behind <= Interval)
  BY IntervalAssumption DEF Grid, TypeOK
<1>2. missed \in Nat /\ missed * Interval >= behind /\ missed * Interval - behind <= Interval
  BY <1>1, SkipLandsNext
<1>3. overruns' = overruns + missed /\ nextAt' = at + Interval + missed * Interval /\ pc' = "sleeping"
  BY DEF Aim, OverrunsAfter
<1>. HIDE DEF missed
<1>4. missed * Interval \in Nat /\ (1 + missed) * Interval = Interval + missed * Interval
  BY <1>2, IntervalAssumption
<1>5. behind = now - at - Interval
  BY IntervalAssumption DEF Grid, TypeOK
<1>. HIDE DEF behind
<1>6. overruns' - overruns = missed /\ overruns' \in Nat
  BY <1>2, <1>3 DEF Grid, TypeOK
<1>. QED  BY <1>2, <1>3, <1>4, <1>5, <1>6, IntervalAssumption DEF Grid, TypeOK

\* A body or an error callback runs at a point that is not in the future.
Begun == pc \in {"body", "policy"} => nextAt <= now

\* Nothing is counted before run() begins.
Fresh == pc = "new" => ticks = 0 /\ errors = 0 /\ overruns = 0

TimerInv == Grid /\ Begun /\ Fresh

LEMMA InitTimer == Init => TimerInv
<1>. SUFFICES ASSUME Init PROVE TimerInv
  OBVIOUS
<1>1. TypeOK
  <2>1. cancelled \in BOOLEAN /\ nodeStop \in BOOLEAN
    BY Zenon DEF Init
  <2>. QED  BY <2>1, IntervalAssumption DEF Init, TypeOK
<1>. QED  BY <1>1 DEF Init, TimerInv, Grid, Begun, Fresh, GridAccounting

\* One more point is accounted for, after the skipped ones.
LEMMA Distribute ==
    ASSUME NEW a \in Int, NEW b \in Int, NEW k \in Int
    PROVE  (a + b) * k = a * k + b * k
  OBVIOUS

\* A body or an error callback that ends and lets the timer go on.
LEMMA StepOn ==
    ASSUME TimerInv, pc \in {"body", "policy"}, Aim(nextAt),
           UNCHANGED <<now, origin, onError, nodeStop>>, LeaveCall,
           NEW done \in {0, 1}, NEW failed \in {0, 1},
           ticks' = ticks + done, errors' = errors + failed,
           done + failed = (IF pc = "policy" THEN 0 ELSE 1)
    PROVE  TimerInv'
<1>. DEFINE before == ticks + errors + overruns + (done + failed)
            after  == ticks' + errors' + overruns' + 1
            gained == 1 + (overruns' - overruns)
<1>1. /\ overruns' \in Nat /\ nextAt' \in Nat /\ pc' = "sleeping"
      /\ now <= nextAt' /\ nextAt' <= now + Interval
      /\ nextAt' = nextAt + gained * Interval
  <2>1. nextAt \in Nat /\ nextAt <= now
    BY DEF TimerInv, Begun, Grid, TypeOK
  <2>. QED  BY <2>1, AimFacts DEF TimerInv
<1>a. /\ overruns' \in Nat /\ nextAt' \in Nat
      /\ now <= nextAt' /\ nextAt' <= now + Interval
  BY <1>1
<1>2. before \in Int /\ gained \in Int /\ after = before + gained
  <2>1. ticks \in Nat /\ errors \in Nat /\ overruns \in Nat /\ overruns' \in Nat
    BY <1>a DEF TimerInv, Grid, TypeOK
  <2>. QED  BY <2>1
<1>3. nextAt - origin = before * Interval
  BY DEF TimerInv, Grid, GridAccounting
<1>4. after * Interval = before * Interval + gained * Interval
  <2>. HIDE DEF before, after, gained
  <2>. QED  BY <1>2, Distribute, IntervalAssumption
<1>5. gained * Interval \in Int /\ before * Interval \in Int
  BY <1>2, IntervalAssumption
<1>6. nextAt' - origin' = after * Interval
  <2>. HIDE DEF before, after, gained
  <2>. QED  BY <1>1, <1>3, <1>4, <1>5 DEF TimerInv, Grid, TypeOK
<1>7. GridAccounting'
  BY <1>1, <1>6 DEF GridAccounting
<1>8. cancelled' \in BOOLEAN
  BY Zenon DEF LeaveCall, TimerInv, Grid, TypeOK
<1>9. onError' \in {"log", "stop", "callable"} /\ nodeStop' \in BOOLEAN
  BY DEF TimerInv, Grid, TypeOK
<1>10. nextAt' \in 0..now' + Interval /\ now' \in Nat /\ origin' \in Nat
  <2>1. now' = now /\ origin' = origin /\ now \in Nat /\ origin \in Nat
    BY DEF TimerInv, Grid, TypeOK
  <2>. QED  BY <1>a, <2>1, IntervalAssumption
<1>11. TypeOK'
  <2>1. ticks' \in Nat /\ errors' \in Nat
    BY DEF TimerInv, Grid, TypeOK
  <2>. QED  BY <1>1, <1>8, <1>9, <1>10, <2>1 DEF TypeOK
<1>. QED  BY <1>1, <1>7, <1>11 DEF TimerInv, Grid, Begun, Fresh

LEMMA NextTimer == TimerInv /\ [Next]_vars => TimerInv'
<1>. SUFFICES ASSUME TimerInv, [Next]_vars PROVE TimerInv'
  OBVIOUS
<1>. USE IntervalAssumption
<1>1. CASE Begin
  <2>1. now \in Nat /\ now <= now
    BY DEF TimerInv, Grid, TypeOK
  <2>2. /\ overruns' \in Nat /\ nextAt' \in Nat /\ pc' = "sleeping"
        /\ now <= nextAt' /\ nextAt' <= now + Interval
        /\ nextAt' = now + (1 + (overruns' - overruns)) * Interval
    BY <1>1, <2>1, AimFacts DEF Begin, TimerInv
  <2>3. ticks' = 0 /\ errors' = 0 /\ overruns = 0 /\ origin' = now /\ now' = now
    BY <1>1 DEF Begin, TimerInv, Fresh
  <2>. DEFINE points == (1 + (overruns' - overruns)) * Interval
  <2>4. nextAt' - origin' = (ticks' + errors' + overruns' + 1) * Interval
    <3>1. ticks' + errors' + overruns' + 1 = 1 + (overruns' - overruns)
      BY <2>2, <2>3
    <3>2. points \in Int
      BY <2>2, <2>3
    <3>. HIDE DEF points
    <3>3. nextAt' - origin' = points
      BY <2>1, <2>2, <2>3, <3>2 DEF points
    <3>. QED  BY <3>1, <3>3 DEF points
  <2>5. GridAccounting'
    BY <2>2, <2>4 DEF GridAccounting
  <2>6. /\ UNCHANGED <<cancelled, onError, nodeStop>>
        /\ nextAt' \in 0..now' + Interval /\ now' \in Nat /\ origin' \in Nat
        /\ ticks' \in Nat /\ errors' \in Nat /\ overruns' \in Nat
    <3>1. overruns' \in Nat /\ nextAt' \in Nat /\ nextAt' <= now + Interval
      BY <2>2
    <3>. QED  BY <1>1, <2>1, <2>3, <3>1 DEF Begin
  <2>7. TypeOK'
    BY <2>2, <2>6 DEF TimerInv, Grid, TypeOK
  <2>. QED  BY <2>2, <2>5, <2>7 DEF TimerInv, Grid, Begun, Fresh
<1>2. CASE BodyReturns
  BY <1>2, StepOn DEF BodyReturns, TimerInv, Grid, TypeOK
<1>3. CASE BodyRaises
  <2>1. CASE onError = "log" /\ Aim(nextAt) /\ UNCHANGED nodeStop
    BY <1>3, <2>1, StepOn DEF BodyRaises, TimerInv, Grid, TypeOK
  <2>2. ASSUME pc' \in {"policy", "done"}, UNCHANGED <<nextAt, overruns>>, nodeStop' \in BOOLEAN
        PROVE  TimerInv'
    <3>1. cancelled' \in BOOLEAN
      BY <1>3, Zenon DEF BodyRaises, LeaveCall, TimerInv, Grid, TypeOK
    <3>2. /\ UNCHANGED <<now, ticks, onError, origin>> /\ pc = "body"
          /\ errors' = errors + 1
      BY <1>3 DEF BodyRaises
    <3>3. TypeOK'
      BY <2>2, <3>1, <3>2 DEF TimerInv, Grid, TypeOK
    <3>4. ticks' + errors' + overruns' + 0 = ticks + errors + overruns + 1
      BY <2>2, <3>2 DEF TimerInv, Grid, TypeOK
    <3>5. GridAccounting'
      BY <2>2, <3>2, <3>4 DEF TimerInv, Grid, GridAccounting
    <3>. QED  BY <2>2, <3>2, <3>3, <3>5 DEF TimerInv, Grid, Begun, Fresh
  <2>3. CASE StopPolicy
    BY <2>2, <2>3 DEF StopPolicy
  <2>4. CASE onError = "callable" /\ pc' = "policy" /\ UNCHANGED <<nextAt, overruns, nodeStop>>
    <3>1. nodeStop' \in BOOLEAN
      BY <2>4, Zenon DEF TimerInv, Grid, TypeOK
    <3>. QED  BY <2>2, <2>4, <3>1
  <2>. QED  BY <1>3, <2>1, <2>3, <2>4 DEF BodyRaises
<1>4. CASE PolicyEnds
  BY <1>4, StepOn DEF PolicyEnds, TimerInv, Grid, TypeOK
<1>5. CASE Wake
  BY <1>5 DEF Wake, TimerInv, Grid, Begun, Fresh, TypeOK, GridAccounting
<1>6. CASE EndsCancelled
  BY <1>6 DEF EndsCancelled, TimerInv, Grid, Begun, Fresh, TypeOK, GridAccounting
<1>7. CASE Cancel
  BY <1>7 DEF Cancel, TimerInv, Grid, Begun, Fresh, TypeOK, GridAccounting
<1>8. CASE TimePasses
  BY <1>8 DEF TimePasses, TimerInv, Grid, Begun, Fresh, TypeOK, GridAccounting
<1>9. CASE UNCHANGED vars
  BY <1>9 DEF vars, TimerInv, Grid, Begun, Fresh, TypeOK, GridAccounting
<1>. QED  BY <1>1, <1>2, <1>3, <1>4, <1>5, <1>6, <1>7, <1>8, <1>9 DEF Next, Terminated
-----------------------------------------------------------------------------

\* The variables keep their types: the counters never go below zero, and the next
\* point is never more than a period ahead of the clock (run, timers.py).
THEOREM TimerTypeCorrect == Spec => []TypeOK
<1>1. TimerInv => TypeOK
  BY DEF TimerInv, Grid
<1>. QED  BY <1>1, InitTimer, NextTimer, PTL DEF Spec

\* For every period, the grid does not drift: each of its points since run() began
\* was a completed body, a raising body or a counted overrun.
THEOREM GridKept == Spec => []GridAccounting
<1>1. TimerInv => GridAccounting
  BY DEF TimerInv, Grid
<1>. QED  BY <1>1, InitTimer, NextTimer, PTL DEF Spec

\* For every period and however late the loop is, a timer that goes to sleep aims
\* at a point that is not past and at most one period away.
THEOREM NextPointAimed == Spec => AimsAtNextPoint
<1>1. ASSUME TimerInv, [Next]_vars, pc' = "sleeping", pc # "sleeping"
      PROVE  now <= nextAt' /\ nextAt' <= now + Interval
  <2>1. now \in Nat /\ now <= now /\ nextAt \in Nat
    BY <1>1, IntervalAssumption DEF TimerInv, Grid, TypeOK
  <2>2. ASSUME NEW at \in Nat, at <= now, Aim(at)
        PROVE  now <= nextAt' /\ nextAt' <= now + Interval
    BY <1>1, <2>2, AimFacts DEF TimerInv
  <2>3. CASE Begin
    BY <2>1, <2>2, <2>3 DEF Begin
  <2>4. pc \in {"body", "policy"} => nextAt <= now
    BY <1>1 DEF TimerInv, Begun
  <2>5. CASE BodyReturns
    BY <2>1, <2>2, <2>4, <2>5 DEF BodyReturns
  <2>6. CASE BodyRaises
    BY <1>1, <2>1, <2>2, <2>4, <2>6 DEF BodyRaises, StopPolicy
  <2>7. CASE PolicyEnds
    BY <2>1, <2>2, <2>4, <2>7 DEF PolicyEnds
  <2>8. CASE Wake \/ EndsCancelled \/ Cancel \/ TimePasses \/ UNCHANGED vars
    BY <1>1, <2>8 DEF Wake, EndsCancelled, Cancel, TimePasses, vars
  <2>. QED  BY <1>1, <2>3, <2>5, <2>6, <2>7, <2>8 DEF Next, Terminated
<1>2. TimerInv /\ [Next]_vars
        => [pc' = "sleeping" /\ pc # "sleeping"
              => now <= nextAt' /\ nextAt' <= now + Interval]_vars
  BY <1>1
<1>. QED  BY <1>2, InitTimer, NextTimer, PTL DEF Spec, AimsAtNextPoint

\* on_error="stop" ends the timer with its first error and stops the node, and no
\* other policy does (_on_failure, timers.py).
THEOREM StopPolicyKept == Spec => []StopsOnError
<1>1. Init => StopsOnError
  BY DEF Init, StopsOnError
<1>2. TimerInv /\ StopsOnError /\ [Next]_vars => StopsOnError'
  <2>. SUFFICES ASSUME TimerInv, StopsOnError, [Next]_vars PROVE StopsOnError'
    OBVIOUS
  <2>1. errors \in Nat /\ onError \in {"log", "stop", "callable"}
    BY DEF TimerInv, Grid, TypeOK
  <2>2. CASE BodyRaises
    BY <2>1, <2>2 DEF BodyRaises, StopPolicy, StopsOnError
  <2>3. CASE ~BodyRaises
    <3>1. nodeStop' = nodeStop /\ errors' = errors /\ onError' = onError
      BY <2>3 DEF Next, Begin, Wake, BodyReturns, PolicyEnds, EndsCancelled, Cancel,
                  TimePasses, Terminated, vars
    <3>2. nodeStop => pc' = "done"
      BY <2>3 DEF Next, Begin, Wake, BodyReturns, PolicyEnds, EndsCancelled, Cancel,
                  TimePasses, Terminated, vars, StopsOnError
    <3>. QED  BY <3>1, <3>2 DEF StopsOnError
  <2>. QED  BY <2>2, <2>3
<1>. QED  BY <1>1, <1>2, InitTimer, NextTimer, PTL DEF Spec

-----------------------------------------------------------------------------
(* Publishing.                                                              *)

USE PooledAssumption, PutsAssumption

-----------------------------------------------------------------------------
(* Type correctness.                                                        *)

LEMMA IdleType == Idle \in Call
BY DEF Idle, Call, Stages, Carriages

LEMMA PutTypeInit == PutInit => PutTypeOK
<1>. SUFFICES ASSUME PutInit PROVE PutTypeOK
  OBVIOUS
<1>1. put \in [Callers -> Call]
  BY IdleType DEF PutInit
<1>2. taken \in [Publishers -> Nat] /\ sent \in [Publishers -> Nat] /\ decided \in [Callers -> Nat]
  BY DEF PutInit
<1>3. /\ provider \in BOOLEAN /\ unavailable \in BOOLEAN /\ fallbacks \in Nat
      /\ wire \in SUBSET Message /\ raised \in SUBSET Message
  BY DEF PutInit
<1>. QED  BY <1>1, <1>2, <1>3 DEF PutTypeOK

LEMMA CarriedType == ASSUME PutTypeOK, NEW c \in Callers, put[c].pub \in Publishers
                     PROVE  Carried(c) \in Message
BY DEF PutTypeOK, Carried, Call, Message

\* A call that is not idle is a put on some publisher.
Placed == \A c \in Callers : put[c] = Idle \/ (put[c].at # "idle" /\ put[c].pub \in Publishers)

LEMMA RaisesType == ASSUME PutTypeOK, NEW c \in Callers, put[c].pub \in Publishers, Raises(c)
                    PROVE  put' \in [Callers -> Call] /\ raised' \in SUBSET Message
BY IdleType, CarriedType DEF PutTypeOK, Raises

LEMMA GoesType == ASSUME PutTypeOK, NEW c \in Callers, NEW stage \in Stages, Goes(c, stage)
                  PROVE  put' \in [Callers -> Call]
<1>1. [put[c] EXCEPT !.at = stage] \in Call
  BY DEF PutTypeOK, Call
<1>. QED  BY <1>1 DEF PutTypeOK, Goes

\* A message that leaves the pool, in a buffer or without one.
LEMMA CarryType == ASSUME PutTypeOK, NEW c \in Callers, NEW by \in Carriages,
                          Leaves(c, by)
                   PROVE  put' \in [Callers -> Call]
<1>. DEFINE call == [put[c] EXCEPT !.at = "wire", !.by = by]
<1>1. call \in Call
  BY DEF PutTypeOK, Call, Stages
<1>2. put' = [put EXCEPT ![c] = call] /\ put \in [Callers -> Call]
  BY DEF PutTypeOK, Leaves
<1>. HIDE DEF call
<1>. QED  BY <1>1, <1>2

LEMMA FallBackType == ASSUME PutTypeOK, NEW c \in Callers, FallBack(c)
                      PROVE  put' \in [Callers -> Call] /\ fallbacks' \in Nat
<1>1. "plain" \in Carriages
  BY DEF Carriages
<1>. QED  BY <1>1, CarryType DEF PutTypeOK, FallBack

LEMMA PutTypeStep == PutTypeOK /\ Placed /\ [PutNext]_putVars => PutTypeOK'
<1>. SUFFICES ASSUME PutTypeOK, Placed, [PutNext]_putVars PROVE PutTypeOK'
  OBVIOUS
<1>. USE DEF Stages
<1>1. ASSUME NEW c \in Callers, NEW p \in Publishers, Put(c, p)
      PROVE  PutTypeOK'
  BY <1>1 DEF PutTypeOK, Put, Call, Carriages
<1>2. ASSUME NEW c \in Callers, Step(c)
      PROVE  PutTypeOK'
  <2>1. put[c].at # "idle" /\ put[c].pub \in Publishers
    BY <1>2 DEF Placed, Idle, Step, Encode, TestPool, CreateProvider, Provide, Allocate, Transmit, Count
  <2>2. CASE Encode(c)
    BY <2>1, <2>2, GoesType, RaisesType DEF PutTypeOK, Encode
  <2>3. CASE TestPool(c)
    BY <2>3, GoesType DEF PutTypeOK, TestPool
  <2>4. CASE CreateProvider(c)
    <3>1. put' \in [Callers -> Call] /\ raised' \in SUBSET Message
      BY <2>1, <2>4, GoesType, RaisesType DEF CreateProvider, PutTypeOK
    <3>2. provider' \in BOOLEAN /\ unavailable' \in BOOLEAN /\ decided' \in [Callers -> Nat]
      <4>1. provider' \in BOOLEAN /\ unavailable' \in BOOLEAN
        <5>. provider \in BOOLEAN /\ unavailable \in BOOLEAN
          BY DEF PutTypeOK
        <5>. QED  BY <2>4 DEF CreateProvider
      <4>2. decided' = [decided EXCEPT ![c] = @ + 1] \/ decided' = decided
        BY <2>4 DEF CreateProvider
      <4>. QED  BY <4>1, <4>2 DEF PutTypeOK
    <3>. QED  BY <2>4, <3>1, <3>2 DEF PutTypeOK, CreateProvider
  <2>5. CASE Provide(c)
    BY <2>5, GoesType, FallBackType DEF PutTypeOK, Provide
  <2>6. CASE Allocate(c)
    <3>1. CASE Leaves(c, "shared") /\ UNCHANGED <<fallbacks, raised>>
      BY <2>6, <3>1, CarryType DEF PutTypeOK, Allocate, Carriages
    <3>2. CASE FallBack(c) /\ UNCHANGED raised
      BY <2>6, <3>2, FallBackType DEF PutTypeOK, Allocate
    <3>3. CASE Raises(c) /\ UNCHANGED fallbacks
      BY <2>1, <2>6, <3>3, RaisesType DEF PutTypeOK, Allocate
    <3>. QED  BY <2>6, <3>1, <3>2, <3>3 DEF Allocate
  <2>7. CASE Transmit(c)
    BY <2>1, <2>7, CarriedType, GoesType, RaisesType DEF PutTypeOK, Transmit
  <2>8. CASE Count(c)
    BY <2>1, <2>8, IdleType DEF PutTypeOK, Count
  <2>. QED  BY <1>2, <2>2, <2>3, <2>4, <2>5, <2>6, <2>7, <2>8 DEF Step
<1>3. CASE UNCHANGED putVars
  BY <1>3 DEF PutTypeOK, putVars
<1>. QED  BY <1>1, <1>2, <1>3 DEF PutNext

-----------------------------------------------------------------------------
(* The kinds of step a call makes.                                          *)

Flying(c) == put[c].at \notin {"idle", "count"}
Others(c) == \A d \in Callers \ {c} : put'[d] = put[d]

\* The message stays where it is: on its way to the transport.
Stays(c) == /\ Flying(c) /\ put'[c].at \notin {"idle", "count"}
            /\ put'[c].pub = put[c].pub /\ put'[c].seq = put[c].seq /\ Others(c)
            /\ UNCHANGED <<taken, sent, wire, raised>>

Fails(c) == Flying(c) /\ Raises(c) /\ UNCHANGED <<taken, sent, wire, fallbacks>>

Lands(c) == /\ put[c].at = "wire" /\ Goes(c, "count") /\ wire' = wire \cup {Carried(c)}
            /\ UNCHANGED <<taken, sent, raised, fallbacks>>

\* What a step along the way leaves of the call.
LEMMA GoesFacts == ASSUME PutTypeOK, NEW c \in Callers, NEW stage, Goes(c, stage)
                   PROVE  put'[c].at = stage /\ put'[c].pub = put[c].pub /\ put'[c].seq = put[c].seq
                          /\ put'[c].by = put[c].by /\ Others(c)
BY DEF PutTypeOK, Goes, Others, Call

LEMMA CarryFacts == ASSUME PutTypeOK, NEW c \in Callers, NEW by,
                           Leaves(c, by)
                    PROVE  put'[c].at = "wire" /\ put'[c].pub = put[c].pub /\ put'[c].seq = put[c].seq
                           /\ put'[c].by = by /\ Others(c)
BY DEF PutTypeOK, Leaves, Others, Call

LEMMA StepKinds == ASSUME PutTypeOK, NEW c \in Callers, Step(c)
                   PROVE  Stays(c) \/ Fails(c) \/ Lands(c) \/ Count(c)
<1>. USE DEF Flying, Stays, Fails, Lands
<1>1. CASE Encode(c)
  BY <1>1, GoesFacts DEF Encode
<1>2. CASE TestPool(c)
  BY <1>2, GoesFacts DEF TestPool
<1>3. CASE CreateProvider(c)
  BY <1>3, GoesFacts DEF CreateProvider
<1>4. CASE Provide(c)
  BY <1>4, GoesFacts, CarryFacts DEF Provide, FallBack
<1>5. CASE Allocate(c)
  BY <1>5, CarryFacts DEF Allocate, FallBack
<1>6. CASE Transmit(c)
  BY <1>6 DEF Transmit
<1>. QED  BY <1>1, <1>2, <1>3, <1>4, <1>5, <1>6 DEF Step

LEMMA PlacedInit == PutInit => Placed
<1>. SUFFICES ASSUME PutInit, NEW c \in Callers PROVE put[c] = Idle
  BY DEF Placed
<1>. QED  BY DEF PutInit

LEMMA PlacedStep == PutTypeOK /\ Placed /\ [PutNext]_putVars => Placed'
<1>. SUFFICES ASSUME PutTypeOK, Placed, [PutNext]_putVars PROVE Placed'
  OBVIOUS
<1>1. ASSUME NEW c \in Callers, NEW p \in Publishers, Put(c, p)
      PROVE  Placed'
  BY <1>1 DEF PutTypeOK, Placed, Put
<1>2. ASSUME NEW c \in Callers, Step(c)
      PROVE  Placed'
  <2>1. Stays(c) \/ Fails(c) \/ Lands(c) \/ Count(c)
    BY <1>2, StepKinds
  <2>2. CASE Stays(c)
    BY <2>2 DEF PutTypeOK, Placed, Stays, Others, Flying, Idle
  <2>3. CASE Fails(c) \/ Count(c)
    <3>1. put' = [put EXCEPT ![c] = Idle] /\ put \in [Callers -> Call]
      BY <2>3 DEF PutTypeOK, Fails, Raises, Count
    <3>. QED  BY <3>1 DEF Placed
  <2>4. CASE Lands(c)
    BY <2>4 DEF PutTypeOK, Placed, Lands, Goes, Idle, Call
  <2>. QED  BY <2>1, <2>2, <2>3, <2>4
<1>3. CASE UNCHANGED putVars
  BY <1>3 DEF Placed, putVars
<1>. QED  BY <1>1, <1>2, <1>3 DEF PutNext

\* The state keeps its types: every message and every call is of a publisher
\* (pubsub.py:127-155, shm.py:81-140).
THEOREM PutTypeCorrect == PutSpec => []PutTypeOK
<1>. QED  BY PutTypeInit, PutTypeStep, PlacedInit, PlacedStep, PTL DEF PutSpec

-----------------------------------------------------------------------------
(* The numbers.                                                             *)

Landed == wire \cup raised

\* Every number is where it must be: the numbers of landed messages and of calls in
\* flight were handed out, and each that was is that of one message or of one call.
InRange  == /\ \A m \in Landed : m.seq \in 1..taken[m.pub]
            /\ \A c \in Callers : Flying(c) => put[c].seq \in 1..taken[put[c].pub]
Covered  == \A p \in Publishers : \A k \in 1..taken[p] :
                \/ \E m \in Landed : m.pub = p /\ m.seq = k
                \/ \E c \in Callers : Flying(c) /\ put[c].pub = p /\ put[c].seq = k
Distinct == /\ \A c \in Callers, m \in Landed :
                    Flying(c) => ~(m.pub = put[c].pub /\ m.seq = put[c].seq)
            /\ \A c, d \in Callers : Flying(c) /\ Flying(d) /\ put[c].pub = put[d].pub
                    /\ put[c].seq = put[d].seq => c = d
            /\ \A m, n \in Landed : m.pub = n.pub /\ m.seq = n.seq => m = n
            /\ wire \cap raised = {}

Numbered == InRange /\ Covered /\ Distinct

LEMMA NumberedInit == PutInit => Numbered
<1>. SUFFICES ASSUME PutInit PROVE Numbered
  OBVIOUS
<1>1. Landed = {} /\ \A c \in Callers : ~Flying(c)
  BY DEF PutInit, Landed, Flying, Idle
<1>2. \A p \in Publishers : taken[p] = 0
  BY DEF PutInit
<1>. QED  BY <1>1, <1>2 DEF Numbered, InRange, Covered, Distinct, Landed

\* A put takes the next number.
LEMMA NumberedPut == ASSUME PutTypeOK, Numbered, NEW c \in Callers, NEW p \in Publishers, Put(c, p)
                     PROVE  Numbered'
<1>1. /\ ~Flying(c) /\ taken' = [taken EXCEPT ![p] = @ + 1] /\ taken \in [Publishers -> Nat]
      /\ Flying(c)' /\ put'[c].pub = p /\ put'[c].seq = taken[p] + 1
      /\ \A d \in Callers \ {c} : put'[d] = put[d]
      /\ wire' = wire /\ raised' = raised /\ Landed' = Landed
  BY DEF PutTypeOK, Put, Flying, Landed
<1>2. \A d \in Callers \ {c} : Flying(d)' <=> Flying(d)
  BY <1>1 DEF Flying
<1>3. \A m \in Landed : m.pub \in Publishers /\ m.seq \in Nat
  BY DEF PutTypeOK, Landed, Message
<1>4. \A d \in Callers : put[d].pub \in Publishers \cup {Nobody} /\ put[d].seq \in Nat
  BY DEF PutTypeOK, Call
<1>5. InRange'
  <2>1. ASSUME NEW m \in Landed PROVE m.seq \in 1..taken'[m.pub]
    BY <1>1, <1>3 DEF Numbered, InRange
  <2>2. ASSUME NEW d \in Callers, Flying(d)' PROVE put'[d].seq \in 1..taken'[put'[d].pub]
    BY <1>1, <1>2, <1>4, <2>2 DEF Numbered, InRange
  <2>. QED  BY <1>1, <2>1, <2>2 DEF InRange
<1>6. Covered'
  <2>. SUFFICES ASSUME NEW q \in Publishers, NEW k \in 1..taken'[q]
                PROVE  \/ \E m \in Landed : m.pub = q /\ m.seq = k
                       \/ \E d \in Callers : Flying(d)' /\ put'[d].pub = q /\ put'[d].seq = k
    BY <1>1 DEF Covered
  <2>1. CASE q = p /\ k = taken[p] + 1
    BY <1>1, <2>1
  <2>2. CASE ~(q = p /\ k = taken[p] + 1)
    <3>1. k \in 1..taken[q]
      BY <1>1, <2>2
    <3>2. CASE \E m \in Landed : m.pub = q /\ m.seq = k
      BY <3>2
    <3>3. CASE \E d \in Callers : Flying(d) /\ put[d].pub = q /\ put[d].seq = k
      <4>1. PICK d \in Callers : Flying(d) /\ put[d].pub = q /\ put[d].seq = k
        BY <3>3
      <4>. QED  BY <1>1, <1>2, <4>1
    <3>. QED  BY <3>1, <3>2, <3>3 DEF Numbered, Covered
  <2>. QED  BY <2>1, <2>2
<1>7. Distinct'
  <2>1. ASSUME NEW m \in Landed, m.pub = p PROVE m.seq # taken[p] + 1
    BY <1>1, <1>3, <2>1 DEF Numbered, InRange
  <2>2. ASSUME NEW d \in Callers, Flying(d), put[d].pub = p PROVE put[d].seq # taken[p] + 1
    BY <1>1, <1>4, <2>2 DEF Numbered, InRange
  <2>3. ASSUME NEW d \in Callers, NEW m \in Landed, Flying(d)'
        PROVE  ~(m.pub = put'[d].pub /\ m.seq = put'[d].seq)
    BY <1>1, <1>2, <2>1, <2>3 DEF Numbered, Distinct
  <2>4. ASSUME NEW d \in Callers, NEW e \in Callers, Flying(d)', Flying(e)',
               put'[d].pub = put'[e].pub, put'[d].seq = put'[e].seq
        PROVE  d = e
    BY <1>1, <1>2, <2>2, <2>4 DEF Numbered, Distinct
  <2>. QED  BY <1>1, <2>3, <2>4 DEF Numbered, Distinct
<1>. QED  BY <1>5, <1>6, <1>7 DEF Numbered

\* A step along the way changes no number.
LEMMA NumberedStays == ASSUME PutTypeOK, Numbered, NEW c \in Callers, Stays(c)
                       PROVE  Numbered'
<1>1. \A d \in Callers : /\ Flying(d)' <=> Flying(d)
                         /\ put'[d].pub = put[d].pub /\ put'[d].seq = put[d].seq
  BY DEF Stays, Others, Flying
<1>2. taken' = taken /\ Landed' = Landed /\ wire' = wire /\ raised' = raised
  BY DEF Stays, Landed
<1>3. InRange'
  BY <1>1, <1>2 DEF Numbered, InRange
<1>4. Covered'
  <2>. SUFFICES ASSUME NEW q \in Publishers, NEW k \in 1..taken[q]
                PROVE  \/ \E m \in Landed : m.pub = q /\ m.seq = k
                       \/ \E d \in Callers : Flying(d)' /\ put'[d].pub = q /\ put'[d].seq = k
    BY <1>2 DEF Covered
  <2>. QED  BY <1>1 DEF Numbered, Covered
<1>5. Distinct'
  BY <1>1, <1>2 DEF Numbered, Distinct
<1>. QED  BY <1>3, <1>4, <1>5 DEF Numbered

\* A message that lands, on the wire or in the hands of the caller, takes the number of
\* its call along.
LEMMA NumberedEnds ==
    ASSUME PutTypeOK, Numbered, NEW c \in Callers, Flying(c), ~Flying(c)', Others(c), taken' = taken,
           \/ wire' = wire \cup {Carried(c)} /\ raised' = raised
           \/ raised' = raised \cup {Carried(c)} /\ wire' = wire
    PROVE  Numbered'
<1> DEFINE new == Carried(c)
<1>1. Landed' = Landed \cup {new}
  BY DEF Landed
<1>2. new.pub = put[c].pub /\ new.seq = put[c].seq
  BY DEF Carried
<1>3. \A m \in Landed : ~(m.pub = new.pub /\ m.seq = new.seq)
  BY <1>2 DEF Numbered, Distinct
<1>4. \A d \in Callers : Flying(d)' <=> (Flying(d) /\ d # c)
  BY DEF Others, Flying
<1>5. \A d \in Callers : d # c => put'[d] = put[d]
  BY DEF Others
<1>6. new \notin Landed
  BY <1>3
<1>7. wire' \cap raised' = {}
  BY <1>6 DEF Numbered, Distinct, Landed
<1>. HIDE DEF new
<1>8. InRange'
  BY <1>1, <1>2, <1>4, <1>5 DEF Numbered, InRange
<1>9. Covered'
  <2>. SUFFICES ASSUME NEW q \in Publishers, NEW k \in 1..taken[q]
                PROVE  \/ \E m \in Landed' : m.pub = q /\ m.seq = k
                       \/ \E d \in Callers : Flying(d)' /\ put'[d].pub = q /\ put'[d].seq = k
    BY DEF Covered
  <2>1. CASE \E m \in Landed : m.pub = q /\ m.seq = k
    BY <1>1, <2>1
  <2>2. CASE \E d \in Callers : Flying(d) /\ put[d].pub = q /\ put[d].seq = k
    <3>1. PICK d \in Callers : Flying(d) /\ put[d].pub = q /\ put[d].seq = k
      BY <2>2
    <3>. QED  BY <1>1, <1>2, <1>4, <1>5, <3>1
  <2>. QED  BY <2>1, <2>2 DEF Numbered, Covered
<1>10. Distinct'
  <2>1. ASSUME NEW d \in Callers, NEW m \in Landed', Flying(d)'
        PROVE  ~(m.pub = put'[d].pub /\ m.seq = put'[d].seq)
    BY <1>1, <1>2, <1>4, <1>5, <2>1 DEF Numbered, Distinct
  <2>2. ASSUME NEW d \in Callers, NEW e \in Callers, Flying(d)', Flying(e)',
               put'[d].pub = put'[e].pub, put'[d].seq = put'[e].seq
        PROVE  d = e
    BY <1>4, <1>5, <2>2 DEF Numbered, Distinct
  <2>3. ASSUME NEW m \in Landed', NEW n \in Landed', m.pub = n.pub, m.seq = n.seq
        PROVE  m = n
    BY <1>1, <1>3, <2>3 DEF Numbered, Distinct
  <2>. QED  BY <1>7, <2>1, <2>2, <2>3 DEF Distinct
<1>. QED  BY <1>8, <1>9, <1>10 DEF Numbered

\* What Fails and Lands have in common.
LEMMA EndsFacts == ASSUME PutTypeOK, NEW c \in Callers, Fails(c) \/ Lands(c)
                   PROVE  /\ Flying(c) /\ ~Flying(c)' /\ Others(c) /\ taken' = taken
                          /\ \/ wire' = wire \cup {Carried(c)} /\ raised' = raised
                             \/ raised' = raised \cup {Carried(c)} /\ wire' = wire
<1>1. CASE Fails(c)
  <2>1. put' = [put EXCEPT ![c] = Idle] /\ put \in [Callers -> Call] /\ Idle.at = "idle"
    BY <1>1 DEF Fails, Raises, PutTypeOK, Idle
  <2>2. ~Flying(c)' /\ Others(c)
    BY <2>1 DEF Flying, Others
  <2>. QED  BY <1>1, <2>2 DEF Fails, Raises
<1>2. CASE Lands(c)
  BY <1>2, GoesFacts DEF Lands, Flying
<1>. QED  BY <1>1, <1>2

LEMMA NumberedStep == PutTypeOK /\ Numbered /\ [PutNext]_putVars => Numbered'
<1>. SUFFICES ASSUME PutTypeOK, Numbered, [PutNext]_putVars PROVE Numbered'
  OBVIOUS
<1>1. ASSUME NEW c \in Callers, NEW p \in Publishers, Put(c, p)
      PROVE  Numbered'
  BY <1>1, NumberedPut
<1>2. ASSUME NEW c \in Callers, Step(c)
      PROVE  Numbered'
  <2>1. CASE Stays(c)
    BY <2>1, NumberedStays
  <2>2. CASE Fails(c) \/ Lands(c)
    BY <2>2, EndsFacts, NumberedEnds
  <2>3. CASE Count(c)
    <3>1. put' = [put EXCEPT ![c] = Idle] /\ put \in [Callers -> Call] /\ Idle.at = "idle" /\ ~Flying(c)
      BY <2>3 DEF Count, PutTypeOK, Idle, Flying
    <3>2. \A d \in Callers : /\ Flying(d)' <=> Flying(d)
                             /\ Flying(d) => put'[d] = put[d]
      BY <3>1 DEF Flying
    <3>3. taken' = taken /\ wire' = wire /\ raised' = raised /\ Landed' = Landed
      BY <2>3 DEF Count, Landed
    <3>4. InRange' /\ Distinct'
      BY <3>2, <3>3 DEF Numbered, InRange, Distinct
    <3>5. Covered'
      <4>. SUFFICES ASSUME NEW q \in Publishers, NEW k \in 1..taken[q]
                    PROVE  \/ \E m \in Landed : m.pub = q /\ m.seq = k
                           \/ \E d \in Callers : Flying(d)' /\ put'[d].pub = q /\ put'[d].seq = k
        BY <3>3 DEF Covered
      <4>. QED  BY <3>2 DEF Numbered, Covered
    <3>. QED  BY <3>4, <3>5 DEF Numbered
  <2>. QED  BY <1>2, <2>1, <2>2, <2>3, StepKinds
<1>3. CASE UNCHANGED putVars
  BY <1>3 DEF Numbered, InRange, Covered, Distinct, Landed, Flying, putVars
<1>. QED  BY <1>1, <1>2, <1>3 DEF PutNext

-----------------------------------------------------------------------------
(* The counter of sent messages.                                            *)

OnWire(p) == {m \in wire : m.pub = p}

Counted ==
    /\ IsFiniteSet(wire) /\ IsFiniteSet(raised)
    /\ \A p \in Publishers : Cardinality(OnWire(p)) = sent[p] + Cardinality(Counting(p))

LEMMA CountingFinite == ASSUME NEW p \in Publishers
                        PROVE  IsFiniteSet(Counting(p)) /\ Cardinality(Counting(p)) \in Nat
BY FiniteCallers, FS_Subset, FS_CardinalityType DEF Counting, UnderWay

LEMMA CountedInit == PutInit => Counted
<1>. SUFFICES ASSUME PutInit PROVE Counted
  OBVIOUS
<1>1. \A p \in Publishers : OnWire(p) = {} /\ Counting(p) = {} /\ sent[p] = 0
  <2>1. \A c \in Callers : put[c].at = "idle"
    BY DEF PutInit, Idle
  <2>2. wire = {} /\ \A p \in Publishers : sent[p] = 0
    BY DEF PutInit
  <2>. QED  BY <2>1, <2>2 DEF OnWire, Counting, UnderWay
<1>2. wire = {} /\ raised = {}
  BY DEF PutInit
<1>. QED  BY <1>1, <1>2, FS_EmptySet DEF Counted

\* A step that neither puts on the wire nor counts.
LEMMA CountedSame ==
    ASSUME Counted, wire' = wire, sent' = sent, IsFiniteSet(raised'),
           \A p \in Publishers : Counting(p)' = Counting(p)
    PROVE  Counted'
<1>1. \A p \in Publishers : OnWire(p)' = OnWire(p)
  BY DEF OnWire
<1>. QED  BY <1>1 DEF Counted

LEMMA CountedLands == ASSUME PutTypeOK, Placed, Numbered, Counted, NEW c \in Callers, Lands(c)
                      PROVE  Counted'
<1> DEFINE q == put[c].pub
           new == Carried(c)
<1>1. q \in Publishers /\ new.pub = q /\ new \notin wire
  <2>1. put[c].at = "wire" /\ Idle.at = "idle"
    BY DEF Lands, Idle
  <2>2. Flying(c)
    BY <2>1 DEF Flying
  <2>. QED  BY <2>1, <2>2 DEF Placed, Carried, Numbered, Distinct, Landed
<1>2. wire' = wire \cup {new} /\ sent' = sent /\ raised' = raised
  BY DEF Lands
<1>3. put'[c].at = "count" /\ put'[c].pub = q /\ put[c].at = "wire" /\ Others(c)
  BY GoesFacts DEF Lands
<1>. HIDE DEF q, new
<1>4. IsFiniteSet(wire') /\ IsFiniteSet(raised')
  BY <1>2, FS_AddElement DEF Counted
<1>5. ASSUME NEW p \in Publishers
      PROVE  Cardinality(OnWire(p)') = sent'[p] + Cardinality(Counting(p)')
  <2>1. CASE p = q
    <3>1. OnWire(p)' = OnWire(p) \cup {new} /\ new \notin OnWire(p)
      BY <1>1, <1>2, <2>1 DEF OnWire
    <3>2. Counting(p)' = Counting(p) \cup {c} /\ c \notin Counting(p)
      BY <1>3, <2>1 DEF Counting, UnderWay, Others
    <3>3. IsFiniteSet(OnWire(p)) /\ IsFiniteSet(Counting(p))
      BY FS_Subset, CountingFinite DEF Counted, OnWire
    <3>4. Cardinality(OnWire(p)') = Cardinality(OnWire(p)) + 1
      BY <3>1, <3>3, FS_AddElement
    <3>5. Cardinality(Counting(p)') = Cardinality(Counting(p)) + 1
      BY <3>2, <3>3, FS_AddElement
    <3>6. Cardinality(Counting(p)) \in Nat /\ sent[p] \in Nat
      BY CountingFinite DEF PutTypeOK
    <3>. QED  BY <1>2, <3>4, <3>5, <3>6 DEF Counted
  <2>2. CASE p # q
    <3>1. OnWire(p)' = OnWire(p)
      BY <1>1, <1>2, <2>2 DEF OnWire
    <3>2. Counting(p)' = Counting(p)
      <4>1. put[c].at # "count" /\ put'[c].pub # p
        BY <1>3, <2>2
      <4>2. \A d \in Callers : (put'[d].pub = p /\ put'[d].at = "count") <=> (put[d].pub = p /\ put[d].at = "count")
        BY <1>3, <4>1 DEF Others
      <4>. QED  BY <4>2 DEF Counting, UnderWay
    <3>. QED  BY <1>2, <3>1, <3>2 DEF Counted
  <2>. QED  BY <2>1, <2>2
<1>. QED  BY <1>4, <1>5 DEF Counted

LEMMA CountedCount == ASSUME PutTypeOK, Placed, Counted, NEW c \in Callers, Count(c)
                      PROVE  Counted'
<1> DEFINE q == put[c].pub
<1>1. put[c].at = "count" /\ q \in Publishers /\ Idle.at = "idle" /\ Idle.pub = Nobody
  BY DEF Count, Placed, Idle
<1>2. wire' = wire /\ raised' = raised /\ sent' = [sent EXCEPT ![q] = @ + 1]
      /\ put' = [put EXCEPT ![c] = Idle] /\ put \in [Callers -> Call] /\ sent \in [Publishers -> Nat]
  BY DEF Count, PutTypeOK
<1>. HIDE DEF q
<1>3. \A p \in Publishers : OnWire(p)' = OnWire(p)
  BY <1>2 DEF OnWire
<1>4. ASSUME NEW p \in Publishers
      PROVE  Cardinality(OnWire(p)) = sent'[p] + Cardinality(Counting(p)')
  <2>1. CASE p = q
    <3>1. Counting(p)' = Counting(p) \ {c}
      BY <1>1, <1>2 DEF Counting, UnderWay
    <3>2. c \in Counting(p)
      BY <1>1, <2>1 DEF Counting, UnderWay, q
    <3>3. Cardinality(Counting(p)') = Cardinality(Counting(p)) - 1
      BY <3>1, <3>2, CountingFinite, FS_RemoveElement
    <3>4. sent'[p] = sent[p] + 1 /\ sent[p] \in Nat /\ Cardinality(Counting(p)) \in Nat
      BY <1>2, <2>1, CountingFinite
    <3>. QED  BY <3>3, <3>4 DEF Counted
  <2>2. CASE p # q
    <3>1. c \notin Counting(p)
      BY <2>2 DEF Counting, UnderWay, q
    <3>2. Counting(p)' = Counting(p)
      BY <1>1, <1>2, <3>1 DEF Counting, UnderWay
    <3>. QED  BY <1>2, <2>2, <3>2 DEF Counted
  <2>. QED  BY <2>1, <2>2
<1>. QED  BY <1>2, <1>3, <1>4 DEF Counted

LEMMA CountedStep == PutTypeOK /\ Placed /\ Numbered /\ Counted /\ [PutNext]_putVars => Counted'
<1>. SUFFICES ASSUME PutTypeOK, Placed, Numbered, Counted, [PutNext]_putVars PROVE Counted'
  OBVIOUS
<1>1. ASSUME NEW c \in Callers, NEW p \in Publishers, Put(c, p)
      PROVE  Counted'
  <2>1. put[c].at = "idle" /\ put'[c].at = "encode" /\ Others(c)
    BY <1>1 DEF Put, PutTypeOK, Others
  <2>2. \A q \in Publishers : Counting(q)' = Counting(q)
    BY <2>1 DEF Counting, UnderWay, Others
  <2>. QED  BY <1>1, <2>2, CountedSame DEF Put, Counted
<1>2. ASSUME NEW c \in Callers, Step(c)
      PROVE  Counted'
  <2>1. CASE Stays(c)
    <3>1. \A q \in Publishers : Counting(q)' = Counting(q)
      BY <2>1 DEF Counting, UnderWay, Stays, Flying, Others
    <3>. QED  BY <2>1, <3>1, CountedSame DEF Stays, Counted
  <2>2. CASE Fails(c)
    <3>1. put[c].at # "count" /\ put' = [put EXCEPT ![c] = Idle] /\ put \in [Callers -> Call]
          /\ Idle.at = "idle"
      BY <2>2 DEF Fails, Flying, Raises, PutTypeOK, Idle
    <3>2. \A q \in Publishers : Counting(q)' = Counting(q)
      BY <3>1 DEF Counting, UnderWay
    <3>3. IsFiniteSet(raised')
      BY <2>2, FS_AddElement DEF Fails, Raises, Counted
    <3>. QED  BY <2>2, <3>2, <3>3, CountedSame DEF Fails
  <2>3. CASE Lands(c)
    BY <2>3, CountedLands
  <2>4. CASE Count(c)
    BY <2>4, CountedCount
  <2>. QED  BY <1>2, <2>1, <2>2, <2>3, <2>4, StepKinds
<1>3. CASE UNCHANGED putVars
  <2>1. \A q \in Publishers : Counting(q)' = Counting(q)
    BY <1>3 DEF Counting, UnderWay, putVars
  <2>. QED  BY <1>3, <2>1, CountedSame DEF putVars, Counted
<1>. QED  BY <1>1, <1>2, <1>3 DEF PutNext

LEMMA Accounts == PutTypeOK /\ Placed /\ Numbered /\ Counted => WireAccounted
<1>. SUFFICES ASSUME PutTypeOK, Placed, Numbered, Counted, NEW p \in Publishers
              PROVE  LET flying == {put[c].seq : c \in BeforeWire(p)}
                         landed == Numbers(wire \cup raised, p) IN
                     /\ landed \cup flying = 1..taken[p]
                     /\ landed \cap flying = {}
                     /\ \A c, d \in BeforeWire(p) : put[c].seq = put[d].seq => c = d
                     /\ \A m, n \in wire \cup raised : m.pub = p /\ n.pub = p /\ m.seq = n.seq => m = n
                     /\ wire \cap raised = {}
                     /\ Cardinality({m \in wire : m.pub = p}) = sent[p] + Cardinality(Counting(p))
  BY DEF WireAccounted
<1> DEFINE flying == {put[c].seq : c \in BeforeWire(p)}
           landed == Numbers(wire \cup raised, p)
<1>1. \A c \in Callers : c \in BeforeWire(p) <=> Flying(c) /\ put[c].pub = p
  <2>1. Idle.at = "idle" /\ Idle.pub = Nobody /\ Nobody # p
    BY DEF Idle
  <2>. QED  BY <2>1 DEF Placed, BeforeWire, UnderWay, Flying
<1>2. BeforeWire(p) \subseteq Callers
  BY DEF BeforeWire, UnderWay
<1>3. \A k : k \in flying <=> \E c \in Callers : Flying(c) /\ put[c].pub = p /\ put[c].seq = k
  BY <1>1, <1>2
<1>4. \A k : k \in landed <=> \E m \in Landed : m.pub = p /\ m.seq = k
  BY DEF Numbers, Landed
<1>. HIDE DEF flying, landed
<1>5. landed \cup flying = 1..taken[p]
  BY <1>3, <1>4 DEF Numbered, InRange, Covered
<1>6. landed \cap flying = {}
  BY <1>3, <1>4 DEF Numbered, Distinct
<1>7. \A c, d \in BeforeWire(p) : put[c].seq = put[d].seq => c = d
  BY <1>1, <1>2 DEF Numbered, Distinct
<1>8. \A m, n \in wire \cup raised : m.pub = p /\ n.pub = p /\ m.seq = n.seq => m = n
  BY DEF Numbered, Distinct, Landed
<1>9. wire \cap raised = {} /\ Cardinality({m \in wire : m.pub = p}) = sent[p] + Cardinality(Counting(p))
  BY DEF Numbered, Distinct, Counted, OnWire
<1>. QED  BY <1>5, <1>6, <1>7, <1>8, <1>9 DEF flying, landed

\* However the threads that put interleave and whatever fails under them, every number
\* is accounted for and sent is the number of messages on the wire (pubsub.py:127-155).
THEOREM PutsAccounted == PutSpec => []WireAccounted
<1>. QED
  BY PutTypeInit, PutTypeStep, PlacedInit, PlacedStep, NumberedInit, NumberedStep, CountedInit,
     CountedStep, Accounts, PTL DEF PutSpec

-----------------------------------------------------------------------------
(* The pool.                                                                *)

\* Only a message of a pooled topic is in the pool, and how it travels is open there.
Pooling == \A c \in Callers :
    /\ put[c].at \in {"test", "create", "provide", "alloc"}
            => put[c].pub \in Pooled /\ put[c].by = "undecided"
    /\ put[c].at = "encode" => (put[c].pub \in Pooled <=> put[c].by = "undecided")

\* Whoever made an attempt of its own finds it decided, and goes past the creation.
Tried == \A c \in Callers :
    /\ decided[c] <= 1
    /\ decided[c] > 0 => provider \/ unavailable
    /\ put[c].at = "create" => decided[c] = 0

LEMMA PoolingTriedInit == PutInit => Pooling /\ Tried
<1>. SUFFICES ASSUME PutInit, NEW c \in Callers
              PROVE  put[c].at = "idle" /\ decided[c] = 0
  BY DEF Pooling, Tried
<1>. QED  BY DEF PutInit, Idle

\* A call that ends is idle, and nobody else moves.
LEMMA IdleFacts == ASSUME PutTypeOK, NEW c \in Callers, put' = [put EXCEPT ![c] = Idle]
                   PROVE  put'[c].at = "idle" /\ Others(c)
BY DEF PutTypeOK, Others, Idle

LEMMA PoolingStep == PutTypeOK /\ Pooling /\ [PutNext]_putVars => Pooling'
<1>. SUFFICES ASSUME PutTypeOK, Pooling, [PutNext]_putVars PROVE Pooling'
  OBVIOUS
<1>1. ASSUME NEW c \in Callers, NEW p \in Publishers, Put(c, p)
      PROVE  Pooling'
  BY <1>1 DEF PutTypeOK, Pooling, Put
<1>2. ASSUME NEW c \in Callers, Step(c)
      PROVE  Pooling'
  <2>1. CASE Encode(c)
    BY <2>1, GoesFacts, IdleFacts DEF Encode, Raises, Pooling, Others
  <2>2. CASE TestPool(c)
    BY <2>2, GoesFacts DEF TestPool, Pooling, Others
  <2>3. CASE CreateProvider(c)
    BY <2>3, GoesFacts, IdleFacts DEF CreateProvider, Raises, Pooling, Others
  <2>4. CASE Provide(c)
    BY <2>4, GoesFacts, CarryFacts DEF Provide, FallBack, Pooling, Others
  <2>5. CASE Allocate(c)
    BY <2>5, CarryFacts, IdleFacts DEF Allocate, FallBack, Raises, Pooling, Others
  <2>6. CASE Transmit(c)
    BY <2>6, GoesFacts, IdleFacts DEF Transmit, Raises, Pooling, Others
  <2>7. CASE Count(c)
    <3>1. put'[c].at = "idle" /\ Others(c)
      BY <2>7, IdleFacts DEF Count
    <3>. QED  BY <3>1 DEF Pooling, Others
  <2>. QED  BY <1>2, <2>1, <2>2, <2>3, <2>4, <2>5, <2>6, <2>7 DEF Step
<1>3. CASE UNCHANGED putVars
  BY <1>3 DEF Pooling, putVars
<1>. QED  BY <1>1, <1>2, <1>3 DEF PutNext

\* Any step that creates nothing.
LEMMA TriedSame == ASSUME Tried, UNCHANGED <<provider, unavailable, decided>>,
                          \A c \in Callers : put'[c].at = "create" => put[c].at = "create" \/ decided[c] = 0
                   PROVE  Tried'
BY DEF Tried

LEMMA TriedStep == PutTypeOK /\ Tried /\ [PutNext]_putVars => Tried'
<1>. SUFFICES ASSUME PutTypeOK, Tried, [PutNext]_putVars PROVE Tried'
  OBVIOUS
<1>1. ASSUME NEW c \in Callers, NEW p \in Publishers, Put(c, p)
      PROVE  Tried'
  BY <1>1, TriedSame DEF PutTypeOK, Put
<1>2. ASSUME NEW c \in Callers, Step(c)
      PROVE  Tried'
  <2>1. CASE Encode(c)
    BY <2>1, GoesFacts, IdleFacts, TriedSame DEF Encode, Raises, Others
  <2>2. CASE TestPool(c)
    <3>1. ~(provider \/ unavailable) => decided[c] = 0
      BY DEF Tried, PutTypeOK
    <3>. QED  BY <2>2, <3>1, GoesFacts, TriedSame DEF TestPool, Others
  <2>3. CASE CreateProvider(c)
    <3>1. CASE Raises(c) /\ UNCHANGED <<provider, unavailable, decided>>
      BY <3>1, IdleFacts, TriedSame DEF Raises, Others
    <3>2. CASE decided' = [decided EXCEPT ![c] = @ + 1] /\ Goes(c, "provide")
      <4>1. provider' \/ unavailable'
        BY <2>3, <3>2, GoesFacts, IdleFacts DEF CreateProvider, Raises
      <4>2. decided'[c] = 1 /\ \A d \in Callers : d # c => decided'[d] = decided[d]
        BY <2>3, <3>2 DEF CreateProvider, Tried, PutTypeOK
      <4>3. put'[c].at = "provide" /\ Others(c)
        BY <3>2, GoesFacts
      <4>. QED  BY <4>1, <4>2, <4>3 DEF Tried, Others
    <3>. QED  BY <2>3, <3>1, <3>2 DEF CreateProvider
  <2>4. CASE Provide(c)
    BY <2>4, GoesFacts, CarryFacts, TriedSame DEF Provide, FallBack, Others
  <2>5. CASE Allocate(c)
    BY <2>5, CarryFacts, IdleFacts, TriedSame DEF Allocate, FallBack, Raises, Others
  <2>6. CASE Transmit(c)
    BY <2>6, GoesFacts, IdleFacts, TriedSame DEF Transmit, Raises, Others
  <2>7. CASE Count(c)
    BY <2>7, IdleFacts, TriedSame DEF Count, Others
  <2>. QED  BY <1>2, <2>1, <2>2, <2>3, <2>4, <2>5, <2>6, <2>7 DEF Step
<1>3. CASE UNCHANGED putVars
  BY <1>3, TriedSame DEF putVars
<1>. QED  BY <1>1, <1>2, <1>3 DEF PutNext

\* fallbacks counts the messages that fell back, and those about to.
Fallen == fallbacks = Cardinality(FellBack(Landed)) + Cardinality(FallingBack)

LEMMA FallFinite == ASSUME Counted
                    PROVE  /\ IsFiniteSet(FellBack(Landed)) /\ Cardinality(FellBack(Landed)) \in Nat
                           /\ IsFiniteSet(FallingBack) /\ Cardinality(FallingBack) \in Nat
<1>1. IsFiniteSet(Landed)
  BY FS_Union DEF Counted, Landed
<1>. QED  BY <1>1, FiniteCallers, FS_Subset, FS_CardinalityType DEF FellBack, FallingBack

\* A step of c that neither puts it among the calls that fall back nor takes it away.
LEMMA FallenSame ==
    ASSUME Fallen, NEW c \in Callers, Others(c), c \notin FallingBack, c \notin FallingBack',
           fallbacks' = fallbacks, FellBack(Landed)' = FellBack(Landed)
    PROVE  Fallen'
<1>1. FallingBack' = FallingBack
  BY DEF FallingBack, Others
<1>. QED  BY <1>1 DEF Fallen

\* A put that raises before the transport has nothing that fell back.
LEMMA FellBackRaises ==
    ASSUME NEW c \in Callers, Raises(c), wire' = wire, ~(put[c].pub \in Pooled /\ put[c].by = "plain")
    PROVE  FellBack(Landed)' = FellBack(Landed)
<1> DEFINE new == Carried(c)
<1>1. ~(new.pub \in Pooled /\ new.by = "plain")
  BY DEF Carried
<1>2. Landed' = Landed \cup {new}
  BY DEF Raises, Landed
<1>. HIDE DEF new
<1>. QED  BY <1>1, <1>2 DEF FellBack

\* Falling back counts the call.
LEMMA FallenBack ==
    ASSUME PutTypeOK, Counted, Fallen, NEW c \in Callers, FallBack(c), put[c].at # "wire",
           put[c].pub \in Pooled, wire' = wire, raised' = raised
    PROVE  Fallen'
<1>1. put'[c].at = "wire" /\ put'[c].pub = put[c].pub /\ put'[c].by = "plain" /\ Others(c)
  BY CarryFacts DEF FallBack
<1>2. FallingBack' = FallingBack \cup {c} /\ c \notin FallingBack
  <2>1. \A d \in Callers : d \in FallingBack' <=> d \in FallingBack \/ d = c
    BY <1>1 DEF FallingBack, Others
  <2>. QED  BY <2>1 DEF FallingBack
<1>3. FellBack(Landed)' = FellBack(Landed)
  BY DEF FellBack, Landed
<1>4. Cardinality(FallingBack') = Cardinality(FallingBack) + 1
  BY <1>2, FallFinite, FS_AddElement
<1>. QED  BY <1>3, <1>4, FallFinite DEF Fallen, FallBack

\* At the transport a message that fell back moves from the calls to what has landed.
LEMMA FallenTransmit ==
    ASSUME PutTypeOK, Numbered, Counted, Fallen, NEW c \in Callers, Transmit(c)
    PROVE  Fallen'
<1> DEFINE new == Carried(c)
<1>1. Flying(c) /\ put[c].at = "wire" /\ fallbacks' = fallbacks
  BY DEF Transmit, Flying
<1>2. Landed' = Landed \cup {new}
  BY DEF Transmit, Raises, Landed
<1>3. Others(c) /\ put'[c].at # "wire"
  BY GoesFacts, IdleFacts DEF Transmit, Raises
<1>4. new.pub = put[c].pub /\ new.by = put[c].by /\ new \notin Landed
  BY <1>1 DEF Carried, Numbered, Distinct
<1>. HIDE DEF new
<1>5. CASE c \in FallingBack
  <2>1. FellBack(Landed)' = FellBack(Landed) \cup {new} /\ new \notin FellBack(Landed)
    BY <1>2, <1>4, <1>5 DEF FellBack, FallingBack
  <2>2. FallingBack' = FallingBack \ {c}
    BY <1>3 DEF FallingBack, Others
  <2>3. Cardinality(FellBack(Landed)') = Cardinality(FellBack(Landed)) + 1
    BY <2>1, FallFinite, FS_AddElement
  <2>4. Cardinality(FallingBack') = Cardinality(FallingBack) - 1
    BY <1>5, <2>2, FallFinite, FS_RemoveElement
  <2>. QED  BY <1>1, <2>3, <2>4, FallFinite DEF Fallen
<1>6. CASE c \notin FallingBack
  <2>1. FellBack(Landed)' = FellBack(Landed)
    BY <1>1, <1>2, <1>4, <1>6 DEF FellBack, FallingBack
  <2>2. c \notin FallingBack'
    BY <1>3 DEF FallingBack
  <2>. QED  BY <1>1, <1>3, <1>6, <2>1, <2>2, FallenSame
<1>. QED  BY <1>5, <1>6

LEMMA FallenStep ==
    PutTypeOK /\ Numbered /\ Counted /\ Pooling /\ Fallen /\ [PutNext]_putVars => Fallen'
<1>. SUFFICES ASSUME PutTypeOK, Numbered, Counted, Pooling, Fallen, [PutNext]_putVars PROVE Fallen'
  OBVIOUS
<1>1. ASSUME NEW c \in Callers, NEW p \in Publishers, Put(c, p)
      PROVE  Fallen'
  <2>1. put[c].at = "idle" /\ put'[c].at = "encode" /\ Others(c)
    BY <1>1 DEF Put, PutTypeOK, Others
  <2>2. FellBack(Landed)' = FellBack(Landed) /\ fallbacks' = fallbacks
    BY <1>1 DEF Put, FellBack, Landed
  <2>. QED  BY <2>1, <2>2, FallenSame DEF FallingBack
<1>2. ASSUME NEW c \in Callers, Step(c)
      PROVE  Fallen'
  <2>1. CASE Encode(c)
    <3>1. put[c].at = "encode" /\ fallbacks' = fallbacks /\ wire' = wire
      BY <2>1 DEF Encode
    <3>2. put[c].pub \in Pooled <=> put[c].by = "undecided"
      BY <3>1 DEF Pooling
    <3>3. CASE Raises(c)
      BY <3>1, <3>2, <3>3, FellBackRaises, IdleFacts, FallenSame DEF Raises, FallingBack
    <3>4. CASE Goes(c, IF put[c].pub \in Pooled THEN "test" ELSE "wire") /\ raised' = raised
      <4>1. FellBack(Landed)' = FellBack(Landed)
        BY <3>1, <3>4 DEF FellBack, Landed
      <4>2. Others(c) /\ c \notin FallingBack /\ c \notin FallingBack'
        BY <3>1, <3>4, GoesFacts DEF FallingBack
      <4>. QED  BY <3>1, <4>1, <4>2, FallenSame
    <3>. QED  BY <2>1, <3>3, <3>4 DEF Encode
  <2>2. CASE TestPool(c)
    <3>1. FellBack(Landed)' = FellBack(Landed) /\ fallbacks' = fallbacks
      BY <2>2 DEF TestPool, FellBack, Landed
    <3>2. Others(c) /\ c \notin FallingBack /\ c \notin FallingBack'
      BY <2>2, GoesFacts DEF TestPool, FallingBack
    <3>. QED  BY <3>1, <3>2, FallenSame
  <2>3. CASE CreateProvider(c)
    <3>1. fallbacks' = fallbacks /\ wire' = wire /\ put[c].at = "create" /\ put[c].by = "undecided"
      BY <2>3 DEF CreateProvider, Pooling
    <3>2. CASE Raises(c)
      BY <3>1, <3>2, FellBackRaises, IdleFacts, FallenSame DEF Raises, FallingBack
    <3>3. CASE Goes(c, "provide") /\ raised' = raised
      <4>1. FellBack(Landed)' = FellBack(Landed)
        BY <3>1, <3>3 DEF FellBack, Landed
      <4>2. Others(c) /\ c \notin FallingBack /\ c \notin FallingBack'
        BY <3>1, <3>3, GoesFacts DEF FallingBack
      <4>. QED  BY <3>1, <4>1, <4>2, FallenSame
    <3>. QED  BY <2>3, <3>2, <3>3 DEF CreateProvider
  <2>4. CASE Provide(c)
    <3>1. put[c].at = "provide" /\ wire' = wire /\ raised' = raised /\ put[c].pub \in Pooled
      BY <2>4 DEF Provide, Pooling
    <3>2. CASE FallBack(c)
      BY <3>1, <3>2, FallenBack
    <3>3. CASE Goes(c, "alloc") /\ fallbacks' = fallbacks
      <4>1. FellBack(Landed)' = FellBack(Landed)
        BY <3>1 DEF FellBack, Landed
      <4>2. Others(c) /\ c \notin FallingBack /\ c \notin FallingBack'
        BY <3>1, <3>3, GoesFacts DEF FallingBack
      <4>. QED  BY <3>3, <4>1, <4>2, FallenSame
    <3>. QED  BY <2>4, <3>2, <3>3 DEF Provide
  <2>5. CASE Allocate(c)
    <3>1. /\ put[c].at = "alloc" /\ wire' = wire
          /\ put[c].pub \in Pooled /\ put[c].by = "undecided"
      BY <2>5 DEF Allocate, Pooling
    <3>2. CASE Leaves(c, "shared") /\ fallbacks' = fallbacks /\ raised' = raised
      <4>1. FellBack(Landed)' = FellBack(Landed)
        BY <3>1, <3>2 DEF FellBack, Landed
      <4>2. Others(c) /\ c \notin FallingBack /\ c \notin FallingBack'
        BY <3>1, <3>2, CarryFacts DEF FallingBack
      <4>. QED  BY <3>2, <4>1, <4>2, FallenSame
    <3>3. CASE FallBack(c) /\ raised' = raised
      BY <3>1, <3>3, FallenBack
    <3>4. CASE Raises(c) /\ fallbacks' = fallbacks
      BY <3>1, <3>4, FellBackRaises, IdleFacts, FallenSame DEF Raises, FallingBack
    <3>. QED  BY <2>5, <3>2, <3>3, <3>4 DEF Allocate
  <2>6. CASE Transmit(c)
    BY <2>6, FallenTransmit
  <2>7. CASE Count(c)
    <3>1. FellBack(Landed)' = FellBack(Landed) /\ fallbacks' = fallbacks /\ put[c].at = "count"
      BY <2>7 DEF Count, FellBack, Landed
    <3>2. Others(c) /\ c \notin FallingBack /\ c \notin FallingBack'
      BY <2>7, <3>1, IdleFacts DEF Count, FallingBack
    <3>. QED  BY <3>1, <3>2, FallenSame
  <2>. QED  BY <1>2, <2>1, <2>2, <2>3, <2>4, <2>5, <2>6, <2>7 DEF Step
<1>3. CASE UNCHANGED putVars
  BY <1>3 DEF Fallen, FellBack, FallingBack, Landed, putVars
<1>. QED  BY <1>1, <1>2, <1>3 DEF PutNext

LEMMA FallenInit == PutInit => Fallen
<1>. SUFFICES ASSUME PutInit PROVE Fallen
  OBVIOUS
<1>1. \A c \in Callers : put[c].at = "idle"
  BY DEF PutInit, Idle
<1>2. FellBack(Landed) = {} /\ FallingBack = {} /\ fallbacks = 0
  BY <1>1 DEF PutInit, FellBack, Landed, FallingBack
<1>. QED  BY <1>2, FS_EmptySet DEF Fallen

\* Every message of a pooled topic that left without a buffer is counted, in whatever
\* order threads test, create and use the pool, and no thread tries it twice
\* (shm.py:81-140).
THEOREM FallbacksCounted == PutSpec => []PoolDegrades
<1>1. Tried /\ Fallen => PoolDegrades
  BY DEF Tried, Fallen, PoolDegrades, Landed
<1>. QED
  BY <1>1, PutTypeInit, PutTypeStep, PlacedInit, PlacedStep, NumberedInit, NumberedStep, CountedInit,
     CountedStep, PoolingTriedInit, PoolingStep, TriedStep, FallenInit, FallenStep, PTL DEF PutSpec

-----------------------------------------------------------------------------
(* The composition with the timer.                                          *)

\* Any step of the composition is a step of the timer or leaves it alone, and the same
\* of the puts.
LEMMA BeatStep == [BeatNext]_beatingVars => [Next]_vars /\ [PutNext]_putVars
<1>. SUFFICES ASSUME [BeatNext]_beatingVars PROVE [Next]_vars /\ [PutNext]_putVars
  OBVIOUS
<1>. USE LoopAssumption DEF timerVars
<1>1. CASE Arrive
  BY <1>1 DEF Arrive
<1>2. ASSUME NEW d \in Durations, Take(d) \/ HandlerEnds(d)
      PROVE  [Next]_vars /\ [PutNext]_putVars
  BY <1>2 DEF Take, HandlerEnds
<1>3. ASSUME NEW c \in Callers, NEW p \in Publishers, Publish(c, p)
      PROVE  [Next]_vars /\ [PutNext]_putVars
  BY <1>3 DEF Publish, PutNext
<1>4. ASSUME NEW c \in Callers, PutStep(c)
      PROVE  [Next]_vars /\ [PutNext]_putVars
  BY <1>4 DEF PutStep, PutNext
<1>5. CASE BeatBegins
  BY <1>5 DEF BeatBegins, Next, PutNext
<1>6. CASE BeatGoesOn
  BY <1>6 DEF BeatGoesOn, PutNext, Step
<1>7. CASE BeatSent
  BY <1>7 DEF BeatSent, Next, PutNext, Step
<1>8. CASE BeatFails
  BY <1>8 DEF BeatFails, Next, PutNext, Step
<1>9. CASE TimerStep
  BY <1>9 DEF TimerStep, Next
<1>10. CASE Passing
  BY <1>10 DEF Passing, Next
<1>11. CASE Ended \/ UNCHANGED beatingVars
  BY <1>11 DEF Ended, beatingVars
<1>. QED
  BY <1>1, <1>2, <1>3, <1>4, <1>5, <1>6, <1>7, <1>8, <1>9, <1>10, <1>11 DEF BeatNext

\* The composition implements both of its parts: _publish_health changes neither what
\* the timer that runs it does nor what a put does (node.py:871-911, timers.py:82-137,
\* pubsub.py:127-155).
THEOREM BeatImplementsParts == BeatSpec => Spec /\ PutSpec
<1>1. BeatInit => Init /\ PutInit
  BY DEF BeatInit
<1>. QED  BY <1>1, BeatStep, PTL DEF BeatSpec, Spec, PutSpec

\* So the heartbeat's grid, every number and every fallback are accounted for while they
\* share the loop with a subscription and with worker threads.
THEOREM BeatAccounts == BeatSpec => [](GridAccounting /\ WireAccounted /\ PoolDegrades)
<1>. QED  BY BeatImplementsParts, GridKept, PutsAccounted, FallbacksCounted, PTL

-----------------------------------------------------------------------------
(* What a window holds.                                                     *)

ChosenOf(s) == CHOOSE x \in s : TRUE

\* g gives the sum of f over every set of durations: the recursion of MapThenSumSet.
Sums(f, g) == g = [s \in SUBSET Durations |-> IF s = {} THEN 0 ELSE f[ChosenOf(s)] + g[s \ {ChosenOf(s)}]]

\* A nonempty set of numbers has a least one.
LEMMA LeastOf == ASSUME NEW S \in SUBSET Nat, S # {}
                 PROVE  \E i \in S : \A j \in S : i <= j
<1>. DEFINE R == {p \in Nat \X Nat : p[1] < p[2]}
<1>1. IsWellFoundedOn(R, Nat)
  BY NatLessThanWellFounded DEF OpToRel
<1>. HIDE DEF R
<1>2. PICK x \in S : \A y \in S : ~ (<<y, x>> \in R)
  BY <1>1, WFMin
<1>3. \A y \in S : ~ (y < x)
  BY <1>2 DEF R
<1>. QED  BY <1>3

\* What the recursion takes away from a set.
LEMMA OneLess ==
    /\ {} \in SUBSET Durations /\ Cardinality({}) = 0 /\ Cardinality(Durations) \in Nat
    /\ \A s \in SUBSET Durations :
           /\ Cardinality(s) \in Nat /\ Cardinality(s) <= Cardinality(Durations)
           /\ Cardinality(s) = 0 => s = {}
           /\ s # {} => /\ ChosenOf(s) \in s /\ s \ {ChosenOf(s)} \in SUBSET Durations
                        /\ Cardinality(s \ {ChosenOf(s)}) = Cardinality(s) - 1
<1>1. ASSUME NEW s \in SUBSET Durations
      PROVE  /\ Cardinality(s) \in Nat /\ Cardinality(s) <= Cardinality(Durations)
             /\ Cardinality(s) = 0 => s = {}
             /\ s # {} => /\ ChosenOf(s) \in s /\ s \ {ChosenOf(s)} \in SUBSET Durations
                          /\ Cardinality(s \ {ChosenOf(s)}) = Cardinality(s) - 1
  <2>1. IsFiniteSet(s) /\ Cardinality(s) <= Cardinality(Durations)
    BY DurationAssumption, FS_Subset
  <2>2. Cardinality(s) \in Nat /\ (Cardinality(s) = 0 => s = {})
    BY <2>1, FS_CardinalityType, FS_EmptySet
  <2>3. s # {} => ChosenOf(s) \in s
    BY DEF ChosenOf
  <2>4. s # {} => Cardinality(s \ {ChosenOf(s)}) = Cardinality(s) - 1
    BY <2>1, <2>3, FS_RemoveElement
  <2>. QED  BY <2>1, <2>2, <2>3, <2>4
<1>. QED  BY <1>1, DurationAssumption, FS_EmptySet, FS_CardinalityType

\* The recursion defines a function: there is one for the sets up to every size.
LEMMA SumsExist == ASSUME NEW f PROVE \E g : Sums(f, g)
<1>. DEFINE Level(n)   == {s \in SUBSET Durations : Cardinality(s) <= n}
            UpTo(n, g) == g = [s \in Level(n) |-> IF s = {} THEN 0 ELSE f[ChosenOf(s)] + g[s \ {ChosenOf(s)}]]
            Bad        == {n \in Nat : ~ \E g : UpTo(n, g)}
<1>1. \E g : UpTo(0, g)
  <2>. DEFINE g == [s \in Level(0) |-> 0]
  <2>1. ASSUME NEW s \in Level(0) PROVE s = {}
    <3>1. s \in SUBSET Durations /\ Cardinality(s) <= 0
      OBVIOUS
    <3>2. Cardinality(s) \in Nat /\ (Cardinality(s) = 0 => s = {})
      BY <3>1, OneLess
    <3>. QED  BY <3>1, <3>2
  <2>2. UpTo(0, g)
    BY <2>1
  <2>. QED  BY <2>2
<1>2. ASSUME NEW n \in Nat \ {0}, NEW g, UpTo(n - 1, g)
      PROVE  \E h : UpTo(n, h)
  <2>. DEFINE step(s) == IF s = {} THEN 0 ELSE f[ChosenOf(s)] + g[s \ {ChosenOf(s)}]
              h       == [s \in Level(n) |-> step(s)]
  <2>1. ASSUME NEW s \in Level(n), s # {}
        PROVE  h[s \ {ChosenOf(s)}] = g[s \ {ChosenOf(s)}]
    <3>. DEFINE t == s \ {ChosenOf(s)}
    <3>1. t \in Level(n - 1) /\ t \in Level(n)
      BY <2>1, OneLess
    <3>. HIDE DEF t, Level
    <3>2. g[t] = step(t)
      BY <1>2, <3>1
    <3>3. h[t] = step(t)
      BY <3>1
    <3>. QED  BY <3>2, <3>3 DEF t
  <2>. HIDE DEF Level
  <2>2. UpTo(n, h)
    BY <2>1
  <2>. QED  BY <2>2
<1>. HIDE DEF UpTo
<1>3. Bad = {}
  <2>. SUFFICES ASSUME Bad # {} PROVE FALSE
    OBVIOUS
  <2>1. PICK n \in Bad : \A m \in Bad : n <= m
    BY LeastOf
  <2>2. n # 0 /\ n \in Nat
    BY <1>1, <2>1
  <2>3. n - 1 \notin Bad /\ n - 1 \in Nat
    BY <2>1, <2>2
  <2>. QED  BY <1>2, <2>1, <2>2, <2>3
<1>4. PICK g : UpTo(Cardinality(Durations), g)
  BY <1>3, OneLess
<1>5. Level(Cardinality(Durations)) = SUBSET Durations
  BY OneLess
<1>. QED  BY <1>4, <1>5 DEF UpTo, Sums

\* What holds of the empty set, and of a set if of what the recursion leaves of it, holds
\* of every set.
LEMMA BySize ==
    ASSUME NEW P, {} \in P, \A s \in SUBSET Durations : s # {} /\ s \ {ChosenOf(s)} \in P => s \in P
    PROVE  Durations \in P
<1>. DEFINE Bad == {Cardinality(s) : s \in (SUBSET Durations) \ P}
<1>1. Bad \in SUBSET Nat
  <2>1. \A s \in SUBSET Durations : Cardinality(s) \in Nat
    BY OneLess
  <2>. QED  BY <2>1
<1>2. Bad = {}
  <2>. SUFFICES ASSUME Bad # {} PROVE FALSE
    OBVIOUS
  <2>. DEFINE B == Bad
  <2>1. PICK n \in B : \A m \in B : n <= m
    <3>. HIDE DEF B
    <3>. QED  BY <1>1, LeastOf DEF B
  <2>2. PICK s \in (SUBSET Durations) \ P : n = Cardinality(s)
    BY <2>1
  <2>. DEFINE t == s \ {ChosenOf(s)}
  <2>3. t \in SUBSET Durations /\ Cardinality(t) = n - 1 /\ n \in Nat /\ t \notin P
    BY <2>2, OneLess
  <2>4. Cardinality(t) \in B
    BY <2>3
  <2>5. n <= Cardinality(t)
    <3>. HIDE DEF B
    <3>. QED  BY <2>1, <2>4
  <2>. QED  BY <2>3, <2>5
<1>. QED  BY <1>2

\* e is f with k more at d.
MoreAt(e, f, d, k) == \A x \in Durations : e[x] = f[x] + (IF x = d THEN k ELSE 0)

LEMMA SumsMore ==
    ASSUME NEW f \in [Durations -> Nat], NEW d \in Durations, NEW k \in Nat,
           NEW e, MoreAt(e, f, d, k),
           NEW g, Sums(f, g), NEW h, Sums(e, h)
    PROVE  g[Durations] \in Nat /\ h[Durations] = g[Durations] + k
<1>. DEFINE more(s) == IF d \in s THEN k ELSE 0
            P       == {s \in SUBSET Durations : g[s] \in Nat /\ h[s] = g[s] + more(s)}
<1>1. /\ \A s \in SUBSET Durations : g[s] = IF s = {} THEN 0 ELSE f[ChosenOf(s)] + g[s \ {ChosenOf(s)}]
      /\ \A s \in SUBSET Durations : h[s] = IF s = {} THEN 0 ELSE e[ChosenOf(s)] + h[s \ {ChosenOf(s)}]
  BY DEF Sums
<1>2. \A x \in Durations : f[x] \in Nat /\ e[x] = f[x] + (IF x = d THEN k ELSE 0)
  BY DEF MoreAt
<1>3. {} \in P
  <2>1. g[{}] = 0 /\ h[{}] = 0
    BY <1>1, OneLess
  <2>. QED  BY <2>1
<1>4. ASSUME NEW s \in SUBSET Durations, s # {}, s \ {ChosenOf(s)} \in P
      PROVE  s \in P
  <2>. DEFINE x == ChosenOf(s)
              t == s \ {x}
  <2>1. x \in s /\ x \in Durations
    BY <1>4, OneLess
  <2>2. g[s] = f[x] + g[t] /\ h[s] = e[x] + h[t]
    BY <1>1, <1>4
  <2>3. x = d => more(t) = 0 /\ more(s) = k
    BY <2>1
  <2>4. x # d => more(t) = more(s)
    BY <2>1
  <2>5. more(t) \in Nat /\ more(s) \in Nat /\ g[t] \in Nat /\ h[t] = g[t] + more(t)
    BY <1>4
  <2>6. f[x] \in Nat /\ e[x] = f[x] + (IF x = d THEN k ELSE 0)
    BY <1>2, <2>1
  <2>7. g[s] \in Nat /\ h[s] = g[s] + more(s)
    <3>. HIDE DEF x, t, more
    <3>1. CASE x = d
      BY <2>2, <2>3, <2>5, <2>6, <3>1
    <3>2. CASE x # d
      BY <2>2, <2>4, <2>5, <2>6, <3>2
    <3>. QED  BY <3>1, <3>2
  <2>. QED  BY <2>7
<1>5. Durations \in P
  <2>. HIDE DEF P
  <2>. QED  BY <1>3, <1>4, BySize
<1>. QED  BY <1>5

LEMMA SumsNone ==
    ASSUME NEW f, \A d \in Durations : f[d] = 0, NEW g, Sums(f, g)
    PROVE  g[Durations] = 0
<1>. DEFINE P == {s \in SUBSET Durations : g[s] = 0}
<1>1. \A s \in SUBSET Durations : g[s] = IF s = {} THEN 0 ELSE f[ChosenOf(s)] + g[s \ {ChosenOf(s)}]
  BY DEF Sums
<1>2. {} \in P
  BY <1>1, OneLess
<1>3. ASSUME NEW s \in SUBSET Durations, s # {}, s \ {ChosenOf(s)} \in P
      PROVE  s \in P
  <2>1. ChosenOf(s) \in Durations
    BY <1>3, OneLess
  <2>. QED  BY <1>1, <1>3, <2>1
<1>4. Durations \in P
  <2>. HIDE DEF P
  <2>. QED  BY <1>2, <1>3, BySize
<1>. QED  BY <1>4

\* The two sums of a window are such sums.
LEMMA ObservationsSum == ASSUME NEW h PROVE \E g : Sums(h, g) /\ Observations(h) = g[Durations]
<1>1. Sums(h, CHOOSE g : Sums(h, g))
  BY SumsExist
<1>2. Observations(h) = (CHOOSE g : Sums(h, g))[Durations]
  BY DEF Observations, MapThenSumSet, MapThenFoldSet, Sums, ChosenOf
<1>. QED  BY <1>1, <1>2

Weighed(h) == [d \in Durations |-> h[d] * d]
LEMMA TimeSum == ASSUME NEW h PROVE \E g : Sums(Weighed(h), g) /\ TimeObserved(h) = g[Durations]
<1>. DEFINE Weighs(g) == g = [s \in SUBSET Durations |-> IF s = {} THEN 0
                                ELSE (h[ChosenOf(s)] * ChosenOf(s)) + g[s \ {ChosenOf(s)}]]
            G == CHOOSE g : Weighs(g)
<1>1. TimeObserved(h) = G[Durations]
  BY DEF TimeObserved, MapThenSumSet, MapThenFoldSet, ChosenOf
<1>2. \A s \in SUBSET Durations : s # {} => Weighed(h)[ChosenOf(s)] = h[ChosenOf(s)] * ChosenOf(s)
  BY OneLess DEF Weighed
<1>3. \A g : Weighs(g) <=> Sums(Weighed(h), g)
  <2>. SUFFICES ASSUME NEW g PROVE Weighs(g) <=> Sums(Weighed(h), g)
    OBVIOUS
  <2>1. [s \in SUBSET Durations |-> IF s = {} THEN 0 ELSE (h[ChosenOf(s)] * ChosenOf(s)) + g[s \ {ChosenOf(s)}]]
        = [s \in SUBSET Durations |-> IF s = {} THEN 0 ELSE Weighed(h)[ChosenOf(s)] + g[s \ {ChosenOf(s)}]]
    BY <1>2
  <2>. QED  BY <2>1 DEF Sums
<1>. HIDE DEF Weighs
<1>4. Weighs(G)
  BY <1>3, SumsExist
<1>. QED  BY <1>1, <1>3, <1>4

-----------------------------------------------------------------------------
(* What a heartbeat covers.                                                 *)

Greatest(m, S) == m \in S /\ \A n \in S : m >= n
HeardOf(h)     == {0} \cup {d \in Durations : h[d] > 0}

\* The windows w sums up are those of the durations in h.
Agrees(w, h) ==
    /\ w.count = Observations(h) /\ w.total = TimeObserved(h)
    /\ Greatest(w.max, HeardOf(h))

\* The heartbeat is on the bus and its windows are not reset yet.
Sent == Beating /\ put[Loop].at = "count"

Windows == [count : Nat, total : Nat, max : Nat]
BeatTypes ==
    /\ depth \in 0..QueueSize /\ peak \in 0..QueueSize /\ dropped \in Nat /\ beat.dropped \in Nat
    /\ latency \in [Accumulators -> Windows] /\ heard \in [Durations -> Nat]

\* While the body of the heartbeat runs the loop is in its put, and what was read holds.
InItsPut ==
    Beating => /\ put[Loop].pub = Health /\ put[Loop].at \in {"encode", "wire", "count"}
               /\ draft.window = Summary /\ draft.depth = peak /\ draft.dropped = dropped

Covers ==
    /\ Sent => heard = Nothing /\ beat.dropped = dropped
    /\ ~Sent => Agrees(Summary, heard) /\ (dropped > beat.dropped => peak = QueueSize)

BeatInv == BeatTypes /\ InItsPut /\ Covers

LEMMA MaxIs == ASSUME NEW S \in SUBSET Nat, NEW m, Greatest(m, S) PROVE Max(S) = m
<1>1. m \in S /\ \A n \in S : m >= n
  BY DEF Greatest
<1>2. \A x \in S : (\A y \in S : x >= y) => x = m
  BY <1>1
<1>3. Max(S) \in S /\ \A y \in S : Max(S) >= y
  BY <1>1 DEF Max
<1>. QED  BY <1>2, <1>3

LEMMA MaxPair == ASSUME NEW a \in Nat, NEW b \in Nat
                 PROVE  Max({a, b}) \in {a, b} /\ Max({a, b}) >= a /\ Max({a, b}) >= b
<1>1. CASE a >= b
  <2>1. Greatest(a, {a, b})
    BY <1>1 DEF Greatest
  <2>. QED  BY <1>1, <2>1, MaxIs
<1>2. CASE b >= a
  <2>1. Greatest(b, {a, b})
    BY <1>2 DEF Greatest
  <2>. QED  BY <1>2, <2>1, MaxIs
<1>. QED  BY <1>1, <1>2

LEMMA AgreesMore ==
    ASSUME NEW h \in [Durations -> Nat], NEW d \in Durations, NEW w, NEW v, Agrees(w, h), w.max \in Nat,
           v.count = w.count + 1, v.total = w.total + d, v.max \in {w.max, d}, v.max >= w.max, v.max >= d
    PROVE  Agrees(v, [h EXCEPT ![d] = @ + 1])
<1>. DEFINE e == [h EXCEPT ![d] = @ + 1]
<1>0. d \in Nat \ {0} /\ Durations \subseteq Nat \ {0} /\ 1 \in Nat
  BY DurationAssumption
<1>1. e \in [Durations -> Nat] /\ \A x \in Durations : e[x] = h[x] + (IF x = d THEN 1 ELSE 0) /\ h[x] \in Nat
  OBVIOUS
<1>2. Observations(e) = Observations(h) + 1
  <2>1. PICK g : Sums(h, g) /\ Observations(h) = g[Durations]
    BY ObservationsSum
  <2>2. PICK f : Sums(e, f) /\ Observations(e) = f[Durations]
    BY ObservationsSum
  <2>3. MoreAt(e, h, d, 1)
    BY <1>1 DEF MoreAt
  <2>. HIDE DEF e
  <2>4. f[Durations] = g[Durations] + 1
    BY <1>0, <2>1, <2>2, <2>3, SumsMore
  <2>. QED  BY <2>1, <2>2, <2>4
<1>3. TimeObserved(e) = TimeObserved(h) + d
  <2>1. PICK g : Sums(Weighed(h), g) /\ TimeObserved(h) = g[Durations]
    BY TimeSum
  <2>2. PICK f : Sums(Weighed(e), f) /\ TimeObserved(e) = f[Durations]
    BY TimeSum
  <2>3. Weighed(h) \in [Durations -> Nat]
    <3>1. \A x \in Durations : h[x] * x \in Nat
      BY <1>0
    <3>. QED  BY <3>1 DEF Weighed
  <2>4. MoreAt(Weighed(e), Weighed(h), d, d)
    <3>1. ASSUME NEW x \in Durations PROVE Weighed(e)[x] = Weighed(h)[x] + (IF x = d THEN d ELSE 0)
      <4>0. Weighed(e)[x] = e[x] * x /\ Weighed(h)[x] = h[x] * x
        BY DEF Weighed
      <4>1. x \in Nat /\ h[x] \in Nat
        BY <1>0
      <4>2. \A n, m \in Nat : (n + 1) * m = (n * m) + m
        OBVIOUS
      <4>3. CASE x = d
        <5>1. e[x] = h[x] + 1
          BY <1>1, <4>3
        <5>2. e[x] * x = (h[x] * x) + x
          BY <4>1, <4>2, <5>1
        <5>. HIDE DEF e
        <5>. QED  BY <4>0, <4>3, <5>2
      <4>4. CASE x # d
        <5>1. e[x] = h[x]
          BY <1>1, <4>4
        <5>2. h[x] * x \in Nat
          BY <4>1
        <5>. HIDE DEF e
        <5>3. Weighed(e)[x] = Weighed(h)[x] /\ Weighed(h)[x] \in Nat
          BY <4>0, <5>1, <5>2
        <5>. QED  BY <4>4, <5>3
      <4>. QED  BY <4>3, <4>4
    <3>. QED  BY <3>1 DEF MoreAt
  <2>. HIDE DEF e
  <2>5. f[Durations] = g[Durations] + d
    BY <1>0, <2>1, <2>2, <2>3, <2>4, SumsMore
  <2>. QED  BY <2>1, <2>2, <2>5
<1>4. HeardOf(e) = HeardOf(h) \cup {d}
  BY <1>1 DEF HeardOf
<1>5. \A n \in HeardOf(h) : n \in Nat
  <2>. HIDE DEF e
  <2>. QED  BY <1>0 DEF HeardOf
<1>. HIDE DEF e
<1>6. Greatest(v.max, HeardOf(e))
  <2>1. w.max \in HeardOf(h) /\ \A n \in HeardOf(h) : w.max >= n
    BY DEF Greatest, Agrees
  <2>2. v.max \in HeardOf(e)
    BY <1>4, <2>1
  <2>3. v.max \in Nat
    BY <1>0
  <2>4. \A n \in HeardOf(e) : v.max >= n
    BY <1>0, <1>4, <1>5, <2>1, <2>3
  <2>. QED  BY <2>2, <2>4 DEF Greatest
<1>. QED  BY <1>2, <1>3, <1>6 DEF Agrees, e

LEMMA AgreesNone == Agrees(Empty, Nothing)
<1>1. \A d \in Durations : Nothing[d] = 0 /\ Weighed(Nothing)[d] = 0
  BY DurationAssumption DEF Nothing, Weighed
<1>2. Observations(Nothing) = 0
  BY <1>1, ObservationsSum, SumsNone
<1>3. TimeObserved(Nothing) = 0
  BY <1>1, TimeSum, SumsNone
<1>4. HeardOf(Nothing) = {0}
  BY <1>1 DEF HeardOf
<1>. QED  BY <1>2, <1>3, <1>4 DEF Agrees, Empty, Greatest

\* The summary of two accumulators.
Two(a, b) == [count |-> a.count + b.count, total |-> a.total + b.total, max |-> Max({a.max, b.max})]

LEMMA TwoIs == ASSUME NEW a \in Windows, NEW b \in Windows
               PROVE  /\ Two(a, b) \in Windows
                      /\ Two(a, b).count = a.count + b.count /\ Two(a, b).total = a.total + b.total
                      /\ Two(a, b).max \in {a.max, b.max}
                      /\ Two(a, b).max >= a.max /\ Two(a, b).max >= b.max
<1>1. /\ a.count \in Nat /\ a.total \in Nat /\ a.max \in Nat
      /\ b.count \in Nat /\ b.total \in Nat /\ b.max \in Nat
  BY DEF Windows
<1>2. Max({a.max, b.max}) \in {a.max, b.max} /\ Max({a.max, b.max}) >= a.max /\ Max({a.max, b.max}) >= b.max
  BY <1>1, MaxPair
<1>3. /\ Two(a, b).count = a.count + b.count /\ Two(a, b).total = a.total + b.total
      /\ Two(a, b).max = Max({a.max, b.max})
  BY DEF Two
<1>4. Two(a, b) \in Windows
  <2>1. a.count + b.count \in Nat /\ a.total + b.total \in Nat /\ Max({a.max, b.max}) \in Nat
    BY <1>1, <1>2
  <2>. QED  BY <2>1 DEF Two, Windows
<1>. QED  BY <1>2, <1>3, <1>4

LEMMA SummaryIs == Summary = Two(latency["age"], latency["handler"])
<1>1. {latency[a].max : a \in Accumulators} = {latency["age"].max, latency["handler"].max}
  BY DEF Accumulators
<1>. QED  BY <1>1 DEF Summary, Two

\* One more observation in either accumulator.
Longer(w, d) == [count |-> w.count + 1, total |-> w.total + d, max |-> Max({w.max, d})]

LEMMA LongerIs == ASSUME NEW w \in Windows, NEW d \in Nat
                  PROVE  /\ Longer(w, d) \in Windows
                         /\ Longer(w, d).count = w.count + 1 /\ Longer(w, d).total = w.total + d
                         /\ Longer(w, d).max \in {w.max, d}
                         /\ Longer(w, d).max >= w.max /\ Longer(w, d).max >= d
<1>1. w.count \in Nat /\ w.total \in Nat /\ w.max \in Nat
  BY DEF Windows
<1>2. Max({w.max, d}) \in {w.max, d} /\ Max({w.max, d}) >= w.max /\ Max({w.max, d}) >= d
  BY <1>1, MaxPair
<1>3. /\ Longer(w, d).count = w.count + 1 /\ Longer(w, d).total = w.total + d
      /\ Longer(w, d).max = Max({w.max, d})
  BY DEF Longer
<1>4. Longer(w, d) \in Windows
  <2>1. w.count + 1 \in Nat /\ w.total + d \in Nat /\ Max({w.max, d}) \in Nat
    BY <1>1, <1>2
  <2>. QED  BY <2>1 DEF Longer, Windows
<1>. QED  BY <1>2, <1>3, <1>4

\* With the observation in one of two accumulators their summary has it too.
LEMMA TwoLonger ==
    ASSUME NEW a \in Windows, NEW b \in Windows, NEW d \in Nat,
           NEW v, v \in {Two(Longer(a, d), b), Two(a, Longer(b, d))}
    PROVE  /\ v.count = Two(a, b).count + 1 /\ v.total = Two(a, b).total + d
           /\ v.max \in {Two(a, b).max, d} /\ v.max >= Two(a, b).max /\ v.max >= d
<1>1. /\ a.count \in Nat /\ a.total \in Nat /\ a.max \in Nat
      /\ b.count \in Nat /\ b.total \in Nat /\ b.max \in Nat
  BY DEF Windows
<1>. DEFINE A == Longer(a, d)
            B == Longer(b, d)
            w == Two(a, b)
<1>2. /\ w.count = a.count + b.count /\ w.total = a.total + b.total
      /\ w.max \in {a.max, b.max} /\ w.max >= a.max /\ w.max >= b.max
  BY TwoIs
<1>3. /\ A \in Windows /\ A.count = a.count + 1 /\ A.total = a.total + d
      /\ A.max \in {a.max, d} /\ A.max >= a.max /\ A.max >= d
  BY LongerIs
<1>4. /\ B \in Windows /\ B.count = b.count + 1 /\ B.total = b.total + d
      /\ B.max \in {b.max, d} /\ B.max >= b.max /\ B.max >= d
  BY LongerIs
<1>. HIDE DEF A, B, w
<1>5. CASE v = Two(A, b)
  <2>1. /\ v.count = A.count + b.count /\ v.total = A.total + b.total
        /\ v.max \in {A.max, b.max} /\ v.max >= A.max /\ v.max >= b.max
    BY <1>3, <1>5, TwoIs
  <2>. QED  BY <1>1, <1>2, <1>3, <2>1 DEF w
<1>6. CASE v = Two(a, B)
  <2>1. /\ v.count = a.count + B.count /\ v.total = a.total + B.total
        /\ v.max \in {a.max, B.max} /\ v.max >= a.max /\ v.max >= B.max
    BY <1>4, <1>6, TwoIs
  <2>. QED  BY <1>1, <1>2, <1>4, <2>1 DEF w
<1>. QED  BY <1>5, <1>6 DEF A, B

LEMMA ObserveAgrees ==
    ASSUME BeatTypes, Agrees(Summary, heard), NEW a \in Accumulators, NEW d \in Durations, Observe(a, d)
    PROVE  /\ latency' \in [Accumulators -> Windows] /\ heard' \in [Durations -> Nat]
           /\ Agrees(Summary', heard')
<1>. DEFINE L == latency["age"]
            H == latency["handler"]
<1>0. d \in Nat /\ a \in {"age", "handler"}
  BY DurationAssumption DEF Accumulators
<1>1. L \in Windows /\ H \in Windows /\ latency \in [Accumulators -> Windows] /\ heard \in [Durations -> Nat]
  BY DEF BeatTypes, Accumulators
<1>2. latency' = [latency EXCEPT ![a] = Longer(latency[a], d)] /\ heard' = [heard EXCEPT ![d] = @ + 1]
  BY DEF Observe, Longer
<1>3. Longer(latency[a], d) \in Windows
  BY <1>0, <1>1, LongerIs
<1>4. latency' \in [Accumulators -> Windows] /\ heard' \in [Durations -> Nat]
  BY <1>1, <1>2, <1>3
<1>5. Summary' \in {Two(Longer(L, d), H), Two(L, Longer(H, d))}
  <2>1. Summary' = Two(latency'["age"], latency'["handler"])
    <3>1. {latency'[x].max : x \in Accumulators} = {latency'["age"].max, latency'["handler"].max}
      BY DEF Accumulators
    <3>. QED  BY <3>1 DEF Summary, Two
  <2>2. CASE a = "age"
    <3>1. latency'["age"] = Longer(L, d) /\ latency'["handler"] = H
      BY <1>1, <1>2, <2>2 DEF Accumulators
    <3>. QED  BY <2>1, <3>1
  <2>3. CASE a = "handler"
    <3>1. latency'["handler"] = Longer(H, d) /\ latency'["age"] = L
      BY <1>1, <1>2, <2>3 DEF Accumulators
    <3>. QED  BY <2>1, <3>1
  <2>. QED  BY <1>0, <2>2, <2>3
<1>6. Summary = Two(L, H)
  BY SummaryIs
<1>. DEFINE v == Summary'
            w == Two(L, H)
<1>7. /\ v.count = w.count + 1 /\ v.total = w.total + d
      /\ v.max \in {w.max, d} /\ v.max >= w.max /\ v.max >= d
  <2>1. v \in {Two(Longer(L, d), H), Two(L, Longer(H, d))}
    BY <1>5
  <2>. HIDE DEF v, L, H
  <2>. QED  BY <1>0, <1>1, <2>1, TwoLonger
<1>8. w.max \in Nat /\ Agrees(w, heard)
  <2>1. w \in Windows
    BY <1>1, TwoIs
  <2>. QED  BY <1>6, <2>1 DEF Windows
<1>9. Agrees(v, [heard EXCEPT ![d] = @ + 1])
  <2>. HIDE DEF v, w
  <2>. QED  BY <1>1, <1>7, <1>8, AgreesMore
<1>. QED  BY <1>2, <1>4, <1>9

-----------------------------------------------------------------------------
(* The steps of the composition.                                            *)

\* A step of another caller leaves the loop's call where it is.
LEMMA StepElsewhere ==
    ASSUME PutTypeOK, NEW c \in Callers, c # Loop, Step(c) \/ \E p \in Publishers : Put(c, p)
    PROVE  put'[Loop] = put[Loop]
<1>1. put \in [Callers -> Call] /\ Loop \in Callers
  BY LoopAssumption DEF PutTypeOK
<1>2. \E call : put' = [put EXCEPT ![c] = call]
  BY DEF Step, Put, Encode, TestPool, CreateProvider, Provide, Allocate, Transmit, Count, Goes, Raises,
         Leaves, FallBack
<1>. QED  BY <1>1, <1>2

\* What the loop's own step does to a put of the heartbeat, which uses no pool.
LEMMA BeatPut ==
    ASSUME PutTypeOK, put[Loop].pub = Health, put[Loop].at \in {"encode", "wire", "count"},
           Encode(Loop) \/ Transmit(Loop)
    PROVE  /\ put[Loop].at \in {"encode", "wire"}
           /\ ~LoopFree' => put'[Loop].pub = Health /\ put'[Loop].at \in {"wire", "count"}
<1>1. put \in [Callers -> Call] /\ Loop \in Callers /\ Health \in Publishers \ Pooled
  BY LoopAssumption DEF PutTypeOK
<1>2. put[Loop].at \in {"encode", "wire"}
  BY DEF Encode, Transmit
<1>3. ASSUME Raises(Loop) PROVE LoopFree'
  BY <1>1, <1>3 DEF Raises, Idle, LoopFree
<1>4. ASSUME NEW stage, Goes(Loop, stage) PROVE put'[Loop].pub = Health /\ put'[Loop].at = stage
  <2>. DEFINE call == [put[Loop] EXCEPT !.at = stage]
  <2>1. put[Loop] \in Call
    BY <1>1
  <2>2. call.pub = Health /\ call.at = stage
    BY <2>1 DEF Call
  <2>3. put' = [put EXCEPT ![Loop] = call]
    BY <1>4 DEF Goes
  <2>. HIDE DEF call
  <2>. QED  BY <1>1, <2>2, <2>3
<1>5. Raises(Loop) \/ Goes(Loop, "wire") \/ Goes(Loop, "count")
  BY <1>1 DEF Encode, Transmit
<1>. QED  BY <1>2, <1>3, <1>4, <1>5

\* The loop is not free while the body of the heartbeat runs.
LEMMA FreeNotBeating == BeatInv /\ LoopFree => ~Beating
BY DEF BeatInv, InItsPut, LoopFree

LEMMA Frame ==
    ASSUME BeatInv, put'[Loop] = put[Loop],
           UNCHANGED <<load, pc, depth, peak, dropped, latency, heard, draft, beat>>
    PROVE  BeatInv'
<1>1. Summary' = Summary
  BY DEF Summary
<1>2. Beating' = Beating /\ Sent' = Sent
  BY DEF Beating, Sent
<1>3. BeatTypes' /\ InItsPut'
  BY <1>1, <1>2 DEF BeatInv, BeatTypes, InItsPut
<1>4. Agrees(Summary', heard') = Agrees(Summary, heard)
  BY <1>1
<1>5. Covers'
  BY <1>2, <1>4 DEF BeatInv, Covers
<1>. QED  BY <1>3, <1>5 DEF BeatInv

\* The windows go on, and the heartbeat's body does not run or runs no more.
LEMMA WindowsGoOn ==
    ASSUME BeatInv, ~Sent, ~Beating', UNCHANGED <<depth, peak, dropped, latency, heard, beat>>
    PROVE  BeatInv'
<1>1. Summary' = Summary
  BY DEF Summary
<1>2. Agrees(Summary', heard') = Agrees(Summary, heard)
  BY <1>1
<1>3. ~Sent'
  BY DEF Sent
<1>. QED  BY <1>2, <1>3 DEF BeatInv, BeatTypes, InItsPut, Covers

LEMMA ArriveKeeps == BeatInv /\ Arrive => BeatInv'
<1>. SUFFICES ASSUME BeatInv, Arrive PROVE BeatInv'
  OBVIOUS
<1>1. ~Beating /\ ~Beating' /\ ~Sent /\ ~Sent'
  <2>1. ~Beating
    BY FreeNotBeating DEF Arrive
  <2>. QED  BY <2>1 DEF Arrive, timerVars, vars, Beating, Sent
<1>2. /\ depth \in 0..QueueSize /\ peak \in 0..QueueSize /\ dropped \in Nat /\ beat.dropped \in Nat
      /\ QueueSize \in Nat
  BY SizeAssumption DEF BeatInv, BeatTypes
<1>3. /\ depth' \in 0..QueueSize /\ dropped' \in Nat
      /\ dropped' # dropped => depth' = QueueSize
  BY <1>2 DEF Arrive
<1>4. peak' \in {peak, depth'} /\ peak' >= peak /\ peak' >= depth'
  BY <1>2, <1>3, MaxPair DEF Arrive
<1>5. peak' \in 0..QueueSize /\ (dropped' > beat.dropped => peak' = QueueSize)
  <2>1. dropped > beat.dropped => peak = QueueSize
    BY <1>1 DEF BeatInv, Covers
  <2>. QED  BY <1>2, <1>3, <1>4, <2>1
<1>6. latency' = latency /\ heard' = heard /\ beat' = beat
  BY DEF Arrive, beatVars
<1>7. Summary' = Summary
  BY <1>6 DEF Summary
<1>8. Agrees(Summary', heard')
  BY <1>1, <1>6, <1>7 DEF BeatInv, Covers
<1>. QED  BY <1>1, <1>2, <1>3, <1>5, <1>6, <1>8 DEF BeatInv, BeatTypes, InItsPut, Covers

LEMMA ObserveKeeps ==
    ASSUME BeatInv, LoopFree, NEW a \in Accumulators, NEW d \in Durations, Observe(a, d),
           UNCHANGED <<load, pc, peak, dropped, beat>>, depth' \in 0..QueueSize
    PROVE  BeatInv'
<1>1. ~Beating /\ ~Beating' /\ ~Sent /\ ~Sent'
  BY FreeNotBeating DEF Beating, Sent
<1>2. Agrees(Summary, heard) /\ (dropped > beat.dropped => peak = QueueSize)
  BY <1>1 DEF BeatInv, Covers
<1>3. latency' \in [Accumulators -> Windows] /\ heard' \in [Durations -> Nat] /\ Agrees(Summary', heard')
  BY <1>2, ObserveAgrees DEF BeatInv
<1>. QED  BY <1>1, <1>2, <1>3 DEF BeatInv, BeatTypes, InItsPut, Covers

LEMMA BeginsKeeps == ASSUME PutTypeOK, BeatInv, BeatBegins PROVE BeatInv'
<1>1. ~Beating /\ ~Sent
  BY FreeNotBeating DEF BeatBegins, Sent
<1>2. put'[Loop].pub = Health /\ put'[Loop].at = "encode"
  BY LoopAssumption DEF BeatBegins, Put, PutTypeOK
<1>3. UNCHANGED <<depth, peak, dropped, latency, beat, heard>>
  BY DEF BeatBegins, queueVars
<1>4. Summary' = Summary
  BY <1>3 DEF Summary
<1>5. draft'.window = Summary' /\ draft'.depth = peak' /\ draft'.dropped = dropped'
  BY <1>3, <1>4 DEF BeatBegins, Depth
<1>6. Agrees(Summary', heard') = Agrees(Summary, heard)
  BY <1>3, <1>4
<1>7. ~Sent'
  BY <1>2 DEF Sent
<1>. QED  BY <1>1, <1>2, <1>3, <1>5, <1>6, <1>7 DEF BeatInv, BeatTypes, InItsPut, Covers

\* The step that puts a heartbeat on the bus, and the one before it.
LEMMA GoesOnKeeps == ASSUME PutTypeOK, BeatInv, BeatGoesOn PROVE BeatInv'
<1>1. Beating /\ Beating'
  BY DEF BeatGoesOn, Beating, timerVars, vars
<1>2. /\ put[Loop].pub = Health /\ put[Loop].at \in {"encode", "wire", "count"}
      /\ draft.window = Summary /\ draft.depth = peak /\ draft.dropped = dropped
  BY <1>1 DEF BeatInv, InItsPut
<1>3. /\ put[Loop].at \in {"encode", "wire"}
      /\ put'[Loop].pub = Health /\ put'[Loop].at \in {"wire", "count"}
  BY <1>2, BeatPut DEF BeatGoesOn
<1>4. UNCHANGED <<depth, peak, dropped, latency, draft>>
  BY DEF BeatGoesOn, queueVars
<1>5. Summary' = Summary
  BY <1>4 DEF Summary
<1>6. InItsPut'
  BY <1>2, <1>3, <1>4, <1>5 DEF InItsPut
<1>7. ~Sent
  BY <1>3 DEF Sent
<1>8. CASE put'[Loop].at = "count"
  <2>1. Sent' /\ beat' = draft /\ heard' = Nothing
    BY <1>1, <1>8 DEF Sent, BeatGoesOn
  <2>2. Nothing \in [Durations -> Nat]
    BY DEF Nothing
  <2>. QED  BY <1>2, <1>4, <1>6, <2>1, <2>2 DEF BeatInv, BeatTypes, Covers
<1>9. CASE put'[Loop].at # "count"
  <2>1. ~Sent' /\ beat' = beat /\ heard' = heard
    BY <1>9 DEF Sent, BeatGoesOn
  <2>2. Agrees(Summary', heard') = Agrees(Summary, heard)
    BY <1>5, <2>1
  <2>. QED  BY <1>4, <1>6, <1>7, <2>1, <2>2 DEF BeatInv, BeatTypes, Covers
<1>. QED  BY <1>8, <1>9

\* Empty windows have an empty summary.
LEMMA EmptySummary == Two(Empty, Empty) = Empty /\ [a \in Accumulators |-> Empty] \in [Accumulators -> Windows]
<1>1. Max({0, 0}) = 0
  BY MaxPair
<1>2. Empty \in Windows
  BY DEF Empty, Windows
<1>. QED  BY <1>1, <1>2 DEF Two, Empty

LEMMA SentKeeps == ASSUME BeatInv, BeatSent PROVE BeatInv'
<1>1. Sent
  BY DEF BeatSent, Count, Sent
<1>2. heard' = Nothing /\ beat' = beat /\ beat.dropped = dropped /\ UNCHANGED <<depth, dropped>>
  BY <1>1 DEF BeatSent, BeatInv, Covers, beatVars
<1>3. latency' = [a \in Accumulators |-> Empty] /\ peak' = 0
  BY DEF BeatSent, ResetWindow
<1>4. ~Beating' /\ ~Sent'
  BY DEF BeatSent, BodyReturns, Aim, Beating, Sent
<1>5. Summary' = Empty /\ latency' \in [Accumulators -> Windows]
  <2>1. {latency'[a].max : a \in Accumulators} = {latency'["age"].max, latency'["handler"].max}
    BY DEF Accumulators
  <2>2. Summary' = Two(latency'["age"], latency'["handler"])
    BY <2>1 DEF Summary, Two
  <2>3. latency'["age"] = Empty /\ latency'["handler"] = Empty
    BY <1>3 DEF Accumulators
  <2>. QED  BY <1>3, <2>2, <2>3, EmptySummary
<1>6. Agrees(Summary', heard')
  BY <1>2, <1>5, AgreesNone
<1>7. heard' \in [Durations -> Nat] /\ peak' \in 0..QueueSize
  BY <1>2, <1>3, SizeAssumption DEF Nothing
<1>. QED  BY <1>2, <1>4, <1>5, <1>6, <1>7 DEF BeatInv, BeatTypes, InItsPut, Covers

LEMMA FailsKeeps == ASSUME PutTypeOK, BeatInv, BeatFails PROVE BeatInv'
<1>1. ~Sent
  BY BeatPut DEF BeatFails, BeatInv, InItsPut, Sent
<1>2. ~Beating'
  BY DEF BeatFails, BodyRaises, StopPolicy, Aim, Beating
<1>. QED  BY <1>1, <1>2, WindowsGoOn DEF BeatFails, queueVars, beatVars

LEMMA TimerStepKeeps == ASSUME BeatInv, TimerStep PROVE BeatInv'
<1>1. ~Beating /\ ~Sent
  BY FreeNotBeating DEF TimerStep, Sent
<1>2. ~Beating'
  <2>1. load' = load
    BY DEF TimerStep
  <2>2. CASE load.job = "app"
    BY <2>1, <2>2 DEF Beating
  <2>3. CASE Begin \/ EndsCancelled \/ Cancel
    BY <1>1, <2>1, <2>3 DEF Begin, EndsCancelled, Cancel, Aim, Beating
  <2>. QED  BY <2>2, <2>3 DEF TimerStep
<1>. QED  BY <1>1, <1>2, WindowsGoOn DEF TimerStep, queueVars, beatVars

\* A put of a worker thread, or of the loop when no heartbeat is being put.
LEMMA OtherPutKeeps ==
    ASSUME PutTypeOK, BeatInv, NEW c \in Callers, c = Loop => ~Beating,
           Step(c) \/ \E p \in Publishers : Put(c, p),
           UNCHANGED <<load, timerVars, queueVars, latency, beatVars, heard>>
    PROVE  BeatInv'
<1>1. UNCHANGED <<load, pc, depth, peak, dropped, latency, heard, draft, beat>>
  BY DEF timerVars, vars, queueVars, beatVars
<1>2. CASE c = Loop
  <2>1. ~Sent /\ ~Beating'
    BY <1>1, <1>2 DEF Sent, Beating
  <2>. QED  BY <1>1, <2>1, WindowsGoOn
<1>3. CASE c # Loop
  BY <1>1, <1>3, StepElsewhere, Frame
<1>. QED  BY <1>2, <1>3

LEMMA BeatInvInit == BeatInit => BeatInv
<1>. SUFFICES ASSUME BeatInit PROVE BeatInv
  OBVIOUS
<1>1. /\ depth = 0 /\ peak = 0 /\ dropped = 0 /\ beat = NoBeat /\ heard = Nothing /\ pc = "new"
      /\ latency = [a \in Accumulators |-> Empty]
  BY DEF BeatInit, Init
<1>2. Summary = Empty /\ latency \in [Accumulators -> Windows]
  <2>1. latency["age"] = Empty /\ latency["handler"] = Empty
    BY <1>1 DEF Accumulators
  <2>. QED  BY <1>1, <2>1, SummaryIs, EmptySummary
<1>3. ~Beating /\ ~Sent
  BY <1>1 DEF Beating, Sent
<1>4. beat.dropped = 0
  BY <1>1 DEF NoBeat
<1>5. heard \in [Durations -> Nat]
  BY <1>1 DEF Nothing
<1>6. Agrees(Summary, heard)
  BY <1>1, <1>2, AgreesNone
<1>7. 0 \in 0..QueueSize /\ 0 \in Nat
  BY SizeAssumption
<1>. QED  BY <1>1, <1>2, <1>3, <1>4, <1>5, <1>6, <1>7 DEF BeatInv, BeatTypes, InItsPut, Covers

LEMMA BeatNextKeeps == PutTypeOK /\ BeatInv /\ [BeatNext]_beatingVars => BeatInv'
<1>. SUFFICES ASSUME PutTypeOK, BeatInv, [BeatNext]_beatingVars PROVE BeatInv'
  OBVIOUS
<1>1. CASE \E d \in Durations : Take(d) \/ HandlerEnds(d)
  <2>1. PICK d \in Durations : Take(d) \/ HandlerEnds(d)
    BY <1>1
  <2>2. depth \in 0..QueueSize /\ QueueSize \in Nat
    BY SizeAssumption DEF BeatInv, BeatTypes
  <2>3. CASE Take(d)
    BY <2>2, <2>3, ObserveKeeps DEF Take, timerVars, vars, beatVars, Accumulators
  <2>4. CASE HandlerEnds(d)
    BY <2>2, <2>4, ObserveKeeps DEF HandlerEnds, timerVars, vars, beatVars, Accumulators
  <2>. QED  BY <2>1, <2>3, <2>4
<1>2. CASE \E c \in Callers : PutStep(c) \/ \E p \in Publishers : Publish(c, p)
  <2>1. PICK c \in Callers : PutStep(c) \/ \E p \in Publishers : Publish(c, p)
    BY <1>2
  <2>2. CASE PutStep(c)
    BY <2>2, OtherPutKeeps DEF PutStep
  <2>3. CASE \E p \in Publishers : Publish(c, p)
    BY <2>3, FreeNotBeating, OtherPutKeeps DEF Publish
  <2>. QED  BY <2>1, <2>2, <2>3
<1>3. CASE Passing \/ Ended \/ UNCHANGED beatingVars
  <2>1. /\ UNCHANGED <<load, pc, depth, peak, dropped, latency, heard, draft, beat>>
        /\ put' = put
    BY <1>3 DEF Passing, Ended, TimePasses, beatingVars, timerVars, vars, putVars, queueVars, beatVars
  <2>. QED  BY <2>1, Frame
<1>. QED  BY <1>1, <1>2, <1>3, ArriveKeeps, BeginsKeeps, GoesOnKeeps, SentKeeps, FailsKeeps, TimerStepKeeps
          DEF BeatNext

\* A heartbeat that reaches the bus carries what was observed since the one before it.
LEMMA BeatCovers ==
    ASSUME PutTypeOK, BeatInv, [BeatNext]_beatingVars, beat' # beat
    PROVE  /\ beat'.window = [count |-> Observations(heard), total |-> TimeObserved(heard),
                              max |-> Max({0} \cup {d \in Durations : heard[d] > 0})]
           /\ beat'.dropped > beat.dropped => beat'.depth = QueueSize
<1>1. BeatGoesOn /\ beat' = draft
  <2>1. BeatGoesOn
    BY DEF BeatNext, Arrive, Take, HandlerEnds, Publish, PutStep, BeatBegins, BeatSent, BeatFails, TimerStep,
           Passing, Ended, beatingVars, beatVars
  <2>. QED  BY <2>1 DEF BeatGoesOn
<1>2. Beating
  BY <1>1 DEF BeatGoesOn
<1>3. /\ put[Loop].pub = Health /\ put[Loop].at \in {"encode", "wire", "count"}
      /\ draft.window = Summary /\ draft.depth = peak /\ draft.dropped = dropped
  BY <1>2 DEF BeatInv, InItsPut
<1>4. ~Sent
  BY <1>1, <1>3, BeatPut DEF BeatGoesOn, Sent
<1>5. Agrees(Summary, heard) /\ (dropped > beat.dropped => peak = QueueSize)
  BY <1>4 DEF BeatInv, Covers
<1>6. HeardOf(heard) \in SUBSET Nat
  <2>1. \A n \in HeardOf(heard) : n \in Nat
    BY DurationAssumption DEF HeardOf
  <2>. QED  BY <2>1
<1>7. Max(HeardOf(heard)) = Summary.max
  BY <1>5, <1>6, MaxIs DEF Agrees
<1>8. Summary = [count |-> Summary.count, total |-> Summary.total, max |-> Summary.max]
  BY DEF Summary
<1>9. Summary = [count |-> Observations(heard), total |-> TimeObserved(heard), max |-> Max(HeardOf(heard))]
  BY <1>5, <1>7, <1>8 DEF Agrees
<1>. QED  BY <1>1, <1>3, <1>5, <1>9 DEF HeardOf

\* For any durations and any number of samples, threads and puts: the windowed count, total
\* and maximum of a heartbeat that reaches the bus are those of exactly the durations observed
\* since the last one that did, and a heartbeat that tells of dropped samples tells of a full
\* queue (_publish_health, node.py:871-911; Latency, metrics.py).
THEOREM WindowsCovered == BeatSpec => BeatsCoverWindow
<1>1. BeatSpec => []PutTypeOK
  BY BeatImplementsParts, PutTypeCorrect, PTL
<1>2. PutTypeOK /\ BeatInv /\ [BeatNext]_beatingVars
        => [beat' # beat =>
              /\ beat'.window = [count |-> Observations(heard), total |-> TimeObserved(heard),
                                 max |-> Max({0} \cup {d \in Durations : heard[d] > 0})]
              /\ beat'.dropped > beat.dropped => beat'.depth = QueueSize]_beatingVars
  BY BeatCovers
<1>. QED  BY <1>1, <1>2, BeatInvInit, BeatNextKeeps, PTL DEF BeatSpec, BeatsCoverWindow
===============================================================================

--------------------------- MODULE SubscriptionProofs ---------------------------
(***************************************************************************)
(* Theorems about Subscription, for every mode, capacity, deadline, age     *)
(* limit and set of hooks.                                                  *)
(***************************************************************************)
EXTENDS SubscriptionRefinement, SequenceTheorems, TLAPS

(***************************************************************************)
(* Bags of timers and ready lists.                                          *)
(***************************************************************************)

\* One timer more, or one less, is again a bag of instants.
LEMMA TimerBags ==
    ASSUME NEW B, IsABag(B), BagToSet(B) \subseteq Nat, NEW d \in Nat
    PROVE  /\ IsABag(B (+) SetToBag({d})) /\ BagToSet(B (+) SetToBag({d})) \subseteq Nat
           /\ IsABag(B (-) SetToBag({d})) /\ BagToSet(B (-) SetToBag({d})) \subseteq Nat
<1>1. IsABag(B (+) SetToBag({d})) /\ BagToSet(B (+) SetToBag({d})) \subseteq Nat
  BY DEF IsABag, BagToSet, BagIn, SetToBag, (+)
<1>2. IsABag(B (-) SetToBag({d})) /\ BagToSet(B (-) SetToBag({d})) \subseteq Nat
  BY DEF IsABag, BagToSet, BagIn, SetToBag, (-)
<1>. QED  BY <1>1, <1>2

LEMMA InitialTimers ==
    ASSUME NEW d \in Nat
    PROVE  /\ IsABag(SetToBag({d})) /\ BagToSet(SetToBag({d})) \subseteq Nat
           /\ IsABag(EmptyBag) /\ BagToSet(EmptyBag) \subseteq Nat
BY DEF IsABag, BagToSet, SetToBag, EmptyBag

\* Cancelling callbacks leaves a ready list of the same length.
LEMMA CancelInType ==
    ASSUME NEW s \in Seq(Callback), NEW kind
    PROVE  CancelIn(s, kind) \in Seq(Callback)
<1>1. Cancelled \in Callback
  BY DEF Cancelled, Callback
<1>2. DOMAIN s = 1..Len(s) /\ Len(s) \in Nat /\ \A i \in 1..Len(s) : s[i] \in Callback
  OBVIOUS
<1>3. CancelIn(s, kind) \in [1..Len(s) -> Callback]
  BY <1>1, <1>2 DEF CancelIn
<1>. QED  BY <1>2, <1>3, SeqDef

USE ModeAssumption, QueueAssumption, MaxAgeAssumption, DeadlineAssumption, NoneAssumption,
    HookAssumption, InputAssumption, BoundAssumption

(***************************************************************************)
(* Type correctness.                                                        *)
(***************************************************************************)

\* Without a deadline the detector never stirs; a started task has a hook to run.
Inert == Deadline = None =>
            /\ timers = EmptyBag /\ ~silent
            /\ \A i \in DOMAIN ready : ready[i].cb # "check"
TasksStarted == \A t \in hookTasks : t.hooks # <<>>

TypeInv == TypeOK /\ Inert /\ TasksStarted

LEMMA TypeInit == Init => TypeInv
<1>. SUFFICES ASSUME Init PROVE TypeInv
  OBVIOUS
<1>1. IsABag(timers) /\ BagToSet(timers) \subseteq Nat
  BY InitialTimers DEF Init, Armed
<1>2. TypeOK
  <2>1. LoopTypeOK /\ IntakeTypeOK
    <3>1. LoopTypeOK
       BY DEF Init, LoopTypeOK
    <3>2. queue \in Seq(Sample) /\ Len(queue) <= QueueSize
       BY DEF Init
    <3>3. IntakeTypeOK
       BY <3>2 DEF Init, IntakeTypeOK
    <3>. QED BY <3>1, <3>3
  <2>2. ConsumerTypeOK /\ CounterTypeOK
    BY DEF Init, ConsumerTypeOK, CounterTypeOK
  <2>3. SilenceTypeOK
    BY <1>1 DEF Init, Armed, SilenceTypeOK
  <2>4. HookTypeOK
    BY DEF Init, HookTypeOK
  <2>. QED  BY <2>1, <2>2, <2>3, <2>4 DEF TypeOK
<1>3. Inert /\ TasksStarted
  BY DEF Init, Armed, Inert, TasksStarted
<1>. QED  BY <1>2, <1>3 DEF TypeInv

\* The callback at the head of the ready list, and what is left behind it.
LEMMA ReadyHead ==
    ASSUME TypeInv, ready # <<>>
    PROVE  /\ Head(ready) \in Callback /\ Tail(ready) \in Seq(Callback)
           /\ Inert => (Deadline = None => \A i \in DOMAIN Tail(ready) : Tail(ready)[i].cb # "check")
<1>1. ready \in Seq(Callback) /\ Inert
  BY DEF TypeInv, TypeOK, LoopTypeOK
<1>2. Head(ready) \in Callback /\ Tail(ready) \in Seq(Callback) /\ Len(ready) \in Nat \ {0}
  BY <1>1
<1>3. \A i \in DOMAIN Tail(ready) : i + 1 \in DOMAIN ready /\ Tail(ready)[i] = ready[i + 1]
  BY <1>1, <1>2
<1>. QED  BY <1>1, <1>2, <1>3 DEF Inert

LEMMA TypeZenohCallback == TypeInv /\ ZenohCallback => TypeInv'
<1>. SUFFICES ASSUME TypeInv, ZenohCallback PROVE TypeInv'
  OBVIOUS
<1>1. PICK transit \in Transits, body \in Bodies :
         ready' = Append(ready, Push([id |-> sent + 1, at |-> now, body |-> body,
                                      ts |-> IF transit = None THEN None ELSE now - transit]))
  BY DEF ZenohCallback
<1>. DEFINE c == Push([id |-> sent + 1, at |-> now, body |-> body,
                       ts |-> IF transit = None THEN None ELSE now - transit])
<1>2. c \in Callback /\ c.cb = "push"
  BY DEF TypeInv, TypeOK, LoopTypeOK, Push, Callback, Sample
<1>3. ready' \in Seq(Callback) /\ \A i \in DOMAIN ready' : ready'[i] = c \/ (i \in DOMAIN ready /\ ready'[i] = ready[i])
  BY <1>1, <1>2 DEF TypeInv, TypeOK, LoopTypeOK
<1>4. TypeOK'
  BY <1>3 DEF TypeInv, TypeOK, LoopTypeOK, IntakeTypeOK, ConsumerTypeOK, CounterTypeOK, SilenceTypeOK, HookTypeOK, ZenohCallback, intakeVars, consumeVars, counterVars, silenceVars, hookVars
<1>5. Inert' /\ TasksStarted'
  BY <1>2, <1>3 DEF TypeInv, Inert, TasksStarted, ZenohCallback, silenceVars, hookVars
<1>. QED  BY <1>4, <1>5 DEF TypeInv

LEMMA TypeTick == TypeInv /\ Tick => TypeInv'
BY DEF Tick, Inert, TasksStarted, TypeInv, TypeOK, LoopTypeOK, IntakeTypeOK, ConsumerTypeOK, CounterTypeOK,
              SilenceTypeOK, HookTypeOK, intakeVars, consumeVars, counterVars, silenceVars, hookVars

LEMMA TypeTimerDue == TypeInv /\ TimerDue => TypeInv'
<1>. SUFFICES ASSUME TypeInv, TimerDue PROVE TypeInv'
  OBVIOUS
<1>1. PICK due \in BagToSet(timers) : timers' = timers (-) SetToBag({due})
  BY DEF TimerDue
<1>2. IsABag(timers') /\ BagToSet(timers') \subseteq Nat
  BY <1>1, TimerBags DEF TypeInv, TypeOK, SilenceTypeOK
<1>3. Deadline # None
  BY <1>1 DEF TypeInv, Inert, EmptyBag, SetToBag, BagToSet
<1>4. ready' \in Seq(Callback)
  BY DEF TimerDue, TypeInv, TypeOK, LoopTypeOK, Check, Callback
<1>. QED  BY <1>2, <1>3, <1>4 DEF TimerDue, Inert, TasksStarted, TypeInv, TypeOK, LoopTypeOK, IntakeTypeOK, ConsumerTypeOK, CounterTypeOK,
              SilenceTypeOK, HookTypeOK, intakeVars, consumeVars, counterVars, silenceVars, hookVars

LEMMA TypeRunCancelled == TypeInv /\ RunCancelled => TypeInv'
BY ReadyHead DEF RunCancelled, Running, Inert, TasksStarted, TypeInv, TypeOK, LoopTypeOK, IntakeTypeOK, ConsumerTypeOK, CounterTypeOK,
              SilenceTypeOK, HookTypeOK, intakeVars, consumeVars, counterVars, silenceVars, hookVars

LEMMA TypeConsume == TypeInv /\ Consume => TypeInv'
<1>. SUFFICES ASSUME TypeInv, Consume PROVE TypeInv'
  OBVIOUS
<1>1. Head(Waiting) \in Sample
  BY DEF Consume, Waiting, TypeInv, TypeOK, IntakeTypeOK
<1>2. queue' \in Seq(Sample) /\ Len(queue') <= QueueSize
  BY DEF Consume, Waiting, TypeInv, TypeOK, IntakeTypeOK
<1>3. Head(Waiting).id \in Nat
  BY <1>1 DEF Sample
<1>4. IntakeTypeOK'
  BY <1>2 DEF Consume, ReadyAfterTake, TypeInv, TypeOK, IntakeTypeOK
<1>5. ConsumerTypeOK' /\ CounterTypeOK'
  BY <1>1, <1>3 DEF Consume, TypeInv, TypeOK, ConsumerTypeOK, CounterTypeOK
<1>. QED  BY <1>4, <1>5 DEF Consume, Inert, TasksStarted, TypeInv, TypeOK, LoopTypeOK,
                            SilenceTypeOK, HookTypeOK, silenceVars, hookVars

LEMMA TypeHandlerEnds == TypeInv /\ HandlerEnds => TypeInv'
BY DEF HandlerEnds, AfterException, Inert, TasksStarted, TypeInv, TypeOK, LoopTypeOK, IntakeTypeOK, ConsumerTypeOK, CounterTypeOK,
              SilenceTypeOK, HookTypeOK, intakeVars, consumeVars, counterVars, silenceVars, hookVars

LEMMA TypePublishHealth == TypeInv /\ PublishHealth => TypeInv'
BY DEF PublishHealth, Inert, TasksStarted, TypeInv, TypeOK, LoopTypeOK, IntakeTypeOK, ConsumerTypeOK, CounterTypeOK,
              SilenceTypeOK, HookTypeOK, intakeVars, consumeVars, counterVars, silenceVars, hookVars

LEMMA TypeStopConsumer == TypeInv /\ StopConsumer => TypeInv'
BY DEF StopConsumer, CancelConsumer, Inert, TasksStarted, TypeInv, TypeOK, LoopTypeOK, IntakeTypeOK, ConsumerTypeOK, CounterTypeOK,
              SilenceTypeOK, HookTypeOK, intakeVars, consumeVars, counterVars, silenceVars, hookVars

LEMMA TypeUndeclare == TypeInv /\ Undeclare => TypeInv'
BY DEF Undeclare, Inert, TasksStarted, TypeInv, TypeOK, LoopTypeOK, IntakeTypeOK, ConsumerTypeOK, CounterTypeOK,
              SilenceTypeOK, HookTypeOK, intakeVars, consumeVars, counterVars, silenceVars, hookVars

\* A new hook task is a callback like any other.
LEMMA SpawnType ==
    ASSUME NEW hooks \in Seq(Hooks), NEW n \in Nat
    PROVE  Spawn(hooks, n) \in Callback /\ Spawn(hooks, n).cb # "check"
BY DEF Spawn, Callback, HookTask

LEMMA HookLists ==
    TypeInv => silenceHooks \in Seq(Hooks) /\ resumeHooks \in Seq(Hooks)
BY SeqMonotonic DEF Hooks, TypeInv, TypeOK, HookTypeOK

LEMMA TypeCheckDeadline == TypeInv /\ CheckDeadline => TypeInv'
<1>. SUFFICES ASSUME TypeInv, CheckDeadline PROVE TypeInv'
  OBVIOUS
<1>. DEFINE delay == IF Deadline > SilenceLogInterval THEN Deadline ELSE SilenceLogInterval
<1>1. ready # <<>> /\ Head(ready).cb = "check" /\ ready \in Seq(Callback)
  BY DEF CheckDeadline, Running, TypeInv, TypeOK, LoopTypeOK
<1>2. Head(ready).cb = ready[1].cb /\ 1 \in DOMAIN ready
  BY <1>1
<1>3. Deadline \in Nat \ {0} /\ delay \in Nat
  BY <1>1, <1>2 DEF TypeInv, Inert
<1>4. Tail(ready) \in Seq(Callback)
  BY <1>1
<1>5. /\ IsABag(timers') /\ BagToSet(timers') \subseteq Nat
      /\ handle' \in Nat \cup {None}
  <2>. DEFINE remaining == Deadline - (now - lastArrival)
  <2>0. IsABag(timers) /\ BagToSet(timers) \subseteq Nat /\ now \in Nat /\ lastArrival \in Nat
    BY DEF TypeInv, TypeOK, SilenceTypeOK, LoopTypeOK
  <2>1. CASE closed
    BY <2>1, <2>0 DEF CheckDeadline
  <2>2. CASE ~closed /\ remaining > 0
    <3>1. now + remaining \in Nat
      BY <2>0, <2>2, <1>3
    <3>. QED  BY <2>2, <3>1, <2>0, TimerBags DEF CheckDeadline, Schedule
  <2>3. CASE ~closed /\ remaining <= 0
    <3>1. now + delay \in Nat
      BY <2>0, <1>3
    <3>. HIDE DEF delay
    <3>2. Schedule(timers, delay)
      BY <2>3, <2>0, <1>3 DEF CheckDeadline, delay
    <3>. QED  BY <3>1, <3>2, <2>0, TimerBags DEF Schedule
  <2>. QED  BY <2>1, <2>2, <2>3, <2>0, <1>3
<1>6. ready' \in Seq(Callback)
  <2>1. Spawn(silenceHooks, misses + 1) \in Callback /\ Spawn(<<PolicyHook>>, misses + 1) \in Callback
    <3>1. <<PolicyHook>> \in Seq(Hooks) /\ misses + 1 \in Nat
      BY DEF Hooks, TypeInv, TypeOK, SilenceTypeOK
    <3>. QED  BY <3>1, SpawnType, HookLists
  <2>2. CASE EnterSilence
    <3>. DEFINE a == <<Spawn(silenceHooks, misses + 1)>>
                b == IF OnDeadline = "callable" THEN <<Spawn(<<PolicyHook>>, misses + 1)>> ELSE <<>>
    <3>1. a \in Seq(Callback) /\ b \in Seq(Callback)
      BY <2>1
    <3>2. ready' = (Tail(ready) \o a) \o b
      BY <2>2 DEF EnterSilence
    <3>. QED  BY <1>4, <3>1, <3>2, ConcatProperties
  <2>3. CASE ready' = Tail(ready)
    BY <1>4, <2>3
  <2>. QED  BY <2>2, <2>3 DEF CheckDeadline
<1>7. silent' \in BOOLEAN /\ misses' \in Nat /\ nodeStop' \in BOOLEAN
  <2>1. CASE EnterSilence
    <3>1. silent' = TRUE /\ misses' = misses + 1 /\ nodeStop' = (nodeStop \/ OnDeadline = "stop")
      BY <2>1 DEF EnterSilence, StopPolicy
    <3>2. nodeStop' \in BOOLEAN
      BY <3>1, Zenon
    <3>. QED  BY <3>1, <3>2 DEF TypeInv, TypeOK, SilenceTypeOK
  <2>2. CASE UNCHANGED <<silent, misses, nodeStop>>
    BY <2>2 DEF TypeInv, TypeOK, SilenceTypeOK
  <2>. QED  BY <2>1, <2>2 DEF CheckDeadline
<1>8. TypeOK'
  BY <1>5, <1>6, <1>7 DEF CheckDeadline, TypeInv, TypeOK, LoopTypeOK, IntakeTypeOK, ConsumerTypeOK, CounterTypeOK,
              SilenceTypeOK, HookTypeOK, intakeVars, consumeVars, counterVars, silenceVars, hookVars
<1>9. Inert' /\ TasksStarted'
  BY <1>3 DEF CheckDeadline, TypeInv, Inert, TasksStarted, hookVars
<1>. QED  BY <1>8, <1>9 DEF TypeInv

\* Cancelling the handle leaves a bag of timers and a ready list.
LEMMA CancelHandle ==
    ASSUME TypeInv, NEW s \in Seq(Callback)
    PROVE  /\ IsABag(TimersLeft) /\ BagToSet(TimersLeft) \subseteq Nat
           /\ ReadyLeft(s) \in Seq(Callback)
<1>1. IsABag(TimersLeft) /\ BagToSet(TimersLeft) \subseteq Nat
  BY TimerBags DEF TimersLeft, TypeInv, TypeOK, SilenceTypeOK
<1>2. ReadyLeft(s) \in Seq(Callback)
  BY CancelInType DEF ReadyLeft
<1>. QED  BY <1>1, <1>2

LEMMA TypeRunPush == TypeInv /\ RunPush => TypeInv'
<1>. SUFFICES ASSUME TypeInv, RunPush PROVE TypeInv'
  OBVIOUS
<1>. DEFINE s == Head(ready).sample
<1>0. ready \in Seq(Callback) /\ ready # <<>> /\ Tail(ready) \in Seq(Callback)
  BY DEF RunPush, Running, TypeInv, TypeOK, LoopTypeOK
<1>1. s \in Sample
  <2>1. Head(ready) \in Callback /\ Head(ready).cb = "push"
    BY <1>0 DEF RunPush, Running
  <2>. QED  BY <2>1 DEF Callback
<1>2. CASE closed
  <2>0. /\ ready' = Tail(ready)
        /\ UNCHANGED <<now, sent, stopPc, usable, consumeVars, hookVars, intakeVars, counterVars, silenceVars>>
    BY <1>2 DEF RunPush
  <2>1. TypeOK'
    BY <2>0, <1>0 DEF TypeInv, TypeOK, LoopTypeOK, IntakeTypeOK, ConsumerTypeOK, CounterTypeOK,
              SilenceTypeOK, HookTypeOK, intakeVars, consumeVars, counterVars, silenceVars, hookVars
  <2>2. Inert' /\ TasksStarted'
    BY <1>0, <1>2, ReadyHead DEF RunPush, TypeInv, Inert, TasksStarted, silenceVars, hookVars
  <2>. QED  BY <2>1, <2>2 DEF TypeInv
<1>3. CASE ~closed /\ IsStale(s)
  <2>0. /\ ready' = Tail(ready) /\ received' = received + 1 /\ stale' = stale + 1
        /\ UNCHANGED <<now, sent, stopPc, usable, consumeVars, hookVars, dropped, errors,
                       queuePeak, intakeVars, silenceVars>>
    BY <1>3 DEF RunPush, DropStaleOnArrival
  <2>1. TypeOK'
    BY <2>0, <1>0 DEF TypeInv, TypeOK, LoopTypeOK, IntakeTypeOK, ConsumerTypeOK, CounterTypeOK,
              SilenceTypeOK, HookTypeOK, intakeVars, consumeVars, counterVars, silenceVars, hookVars
  <2>2. Inert' /\ TasksStarted'
    BY <1>0, <1>3, ReadyHead DEF RunPush, DropStaleOnArrival, TypeInv, Inert, TasksStarted, silenceVars, hookVars
  <2>. QED  BY <2>1, <2>2 DEF TypeInv
<1>4. CASE ~closed /\ ~IsStale(s)
  <2>0. /\ MarkArrival
        /\ StoreLatest(s) \/ Enqueue(s)
        /\ received' = received + 1 /\ UNCHANGED <<now, sent, stopPc, stale, errors, consumeVars, hookVars>>
        /\ usable' = [id |-> s.id, at |-> now]
    BY <1>4 DEF RunPush
  <2>1. IntakeTypeOK' /\ CounterTypeOK'
    <3>1. queue \in Seq(Sample) /\ Len(queue) \in Nat /\ Len(queue) <= QueueSize
      BY DEF TypeInv, TypeOK, IntakeTypeOK
    <3>2. Queued(s) \in Seq(Sample) /\ Len(Queued(s)) <= QueueSize /\ Len(Queued(s)) \in Nat
      BY <3>1, <1>1 DEF Queued, Full
    <3>3. CASE Enqueue(s)
      BY <3>2, <3>3, <2>0 DEF Enqueue, Evictions, TypeInv, TypeOK, IntakeTypeOK, CounterTypeOK
    <3>4. CASE StoreLatest(s)
      BY <1>1, <3>4, <2>0 DEF StoreLatest, TypeInv, TypeOK, IntakeTypeOK, CounterTypeOK
    <3>. QED  BY <2>0, <3>3, <3>4
  <2>2. SilenceTypeOK' /\ ready' \in Seq(Callback) /\ Inert'
    <3>1. CASE silent
      <4>0. Deadline \in Nat /\ now + Deadline \in Nat /\ Deadline # None
        BY <3>1 DEF TypeInv, TypeOK, LoopTypeOK, Inert
      <4>1. LeaveSilence
        BY <3>1, <2>0 DEF MarkArrival
      <4>2. IsABag(timers') /\ BagToSet(timers') \subseteq Nat /\ handle' \in Nat
        BY <4>0, <4>1, <1>0, CancelHandle, TimerBags DEF LeaveSilence, Rearm, Schedule
      <4>3. ready' \in Seq(Callback)
        <5>1. Spawn(resumeHooks, misses) \in Callback
          BY SpawnType, HookLists DEF TypeInv, TypeOK, SilenceTypeOK
        <5>2. ReadyLeft(Tail(ready)) \in Seq(Callback)
          BY <1>0, CancelHandle
        <5>3. ready' = Append(ReadyLeft(Tail(ready)), Spawn(resumeHooks, misses))
          BY <4>1 DEF LeaveSilence
        <5>. QED  BY <5>1, <5>2, <5>3, AppendProperties
      <4>4. silent' = FALSE /\ UNCHANGED <<misses, nodeStop>> /\ lastArrival' = now
        BY <4>0, <4>1, <2>0 DEF LeaveSilence, MarkArrival, Stamp
      <4>5. SilenceTypeOK'
        <5>1. silent' \in BOOLEAN /\ nodeStop' \in BOOLEAN /\ misses' \in Nat
          BY <4>4 DEF TypeInv, TypeOK, SilenceTypeOK
        <5>2. lastArrival' \in Nat
          BY <4>4 DEF TypeInv, TypeOK, LoopTypeOK
        <5>. QED  BY <4>2, <5>1, <5>2 DEF SilenceTypeOK
      <4>. QED  BY <4>0, <4>3, <4>5 DEF Inert
    <3>2. CASE ~silent
      <4>1. ready' = Tail(ready) /\ UNCHANGED <<silent, timers, handle, misses, nodeStop>>
        BY <3>2, <2>0 DEF MarkArrival
      <4>2. lastArrival' \in Nat
        BY <2>0 DEF MarkArrival, Stamp, TypeInv, TypeOK, LoopTypeOK, SilenceTypeOK
      <4>3. SilenceTypeOK'
        BY <4>1, <4>2 DEF TypeInv, TypeOK, SilenceTypeOK
      <4>. QED  BY <4>1, <4>3, <1>0, ReadyHead DEF Inert, TypeInv
    <3>. QED  BY <3>1, <3>2
  <2>3. LoopTypeOK'
    BY <2>0, <2>2, <1>1 DEF TypeInv, TypeOK, LoopTypeOK, Sample
  <2>4. ConsumerTypeOK' /\ HookTypeOK' /\ TasksStarted'
    BY <2>0 DEF TypeInv, TypeOK, ConsumerTypeOK, HookTypeOK, TasksStarted, consumeVars, hookVars
  <2>. QED  BY <2>1, <2>2, <2>3, <2>4 DEF TypeInv, TypeOK
<1>. QED  BY <1>2, <1>3, <1>4

LEMMA TypeRunHooks == TypeInv /\ RunHooks => TypeInv'
<1>. SUFFICES ASSUME TypeInv, RunHooks PROVE TypeInv'
  OBVIOUS
<1>. DEFINE t == Head(ready).task
<1>1. Tail(ready) \in Seq(Callback) /\ t \in HookTask /\ ready # <<>>
  <2>1. ready # <<>> /\ Head(ready).cb = "hooks"
    BY DEF RunHooks, Running
  <2>. QED  BY <2>1, ReadyHead DEF Callback
<1>2. HookTypeOK' /\ TasksStarted'
  <2>1. CASE t.hooks = <<>>
    BY <2>1 DEF RunHooks, StartTask, HooksOf, TypeInv, TypeOK, HookTypeOK, TasksStarted
  <2>2. CASE t.hooks # <<>>
    <3>1. t.hooks \in Seq(Hooks) /\ t.outage \in Nat /\ Head(t.hooks) \in Hooks
      BY <1>1, <2>2 DEF HookTask
    <3>2. hookTasks' = hookTasks \cup {t}
      BY <2>2 DEF RunHooks, StartTask, HooksOf
    <3>3. told' = [told EXCEPT ![Head(t.hooks)] = Append(@, t.outage)]
      BY <2>2 DEF RunHooks, StartTask, HooksOf
    <3>4. told' \in [Hooks -> Seq(Nat)]
      BY <3>1, <3>3 DEF TypeInv, TypeOK, HookTypeOK
    <3>. QED  BY <1>1, <2>2, <3>2, <3>4 DEF RunHooks, TypeInv, TypeOK, HookTypeOK, TasksStarted
  <2>. QED  BY <2>1, <2>2
<1>3. LoopTypeOK' /\ IntakeTypeOK' /\ ConsumerTypeOK' /\ CounterTypeOK' /\ SilenceTypeOK'
  BY <1>1 DEF RunHooks, TypeInv, TypeOK, LoopTypeOK, IntakeTypeOK, ConsumerTypeOK, CounterTypeOK,
              SilenceTypeOK, intakeVars, consumeVars, counterVars, silenceVars
<1>4. Inert'
  BY <1>1, ReadyHead DEF RunHooks, TypeInv, Inert, silenceVars
<1>. QED  BY <1>2, <1>3, <1>4 DEF TypeInv, TypeOK

LEMMA TypeHookEnds == ASSUME NEW t \in hookTasks PROVE TypeInv /\ HookEnds(t) => TypeInv'
<1>. SUFFICES ASSUME TypeInv, HookEnds(t) PROVE TypeInv'
  OBVIOUS
<1>1. t \in HookTask /\ t.hooks # <<>>
  BY DEF TypeInv, TypeOK, HookTypeOK, TasksStarted
<1>. DEFINE rest == [hooks |-> Tail(t.hooks), outage |-> t.outage, cancelled |-> FALSE]
<1>2. rest \in HookTask /\ t.outage \in Nat
  BY <1>1 DEF HookTask
<1>3. HookTypeOK' /\ TasksStarted'
  <2>1. CASE hookTasks' = hookTasks \ {t} /\ UNCHANGED told
    BY <2>1 DEF HookEnds, TypeInv, TypeOK, HookTypeOK, TasksStarted
  <2>2. CASE /\ rest.hooks # <<>> /\ hookTasks' = (hookTasks \ {t}) \cup {rest}
             /\ told' = [told EXCEPT ![Head(rest.hooks)] = Append(@, t.outage)]
    <3>1. Head(rest.hooks) \in Hooks
      BY <1>2, <2>2 DEF HookTask
    <3>2. told' \in [Hooks -> Seq(Nat)]
      <4>1. told \in [Hooks -> Seq(Nat)]
        BY DEF TypeInv, TypeOK, HookTypeOK
      <4>. DEFINE h == Head(rest.hooks)
                  w == Append(told[h], t.outage)
      <4>2. h \in Hooks /\ told' = [told EXCEPT ![h] = w]
        BY <2>2, <3>1
      <4>. HIDE DEF h
      <4>3. w \in Seq(Nat)
        BY <1>2, <4>1, <4>2
      <4>. HIDE DEF w
      <4>. QED  BY <4>1, <4>2, <4>3
    <3>. QED  BY <1>2, <2>2, <3>2 DEF HookEnds, TypeInv, TypeOK, HookTypeOK, TasksStarted
  <2>. QED  BY <2>1, <2>2 DEF HookEnds, NextHook
<1>4. CounterTypeOK'
  BY DEF HookEnds, TypeInv, TypeOK, CounterTypeOK
<1>. QED  BY <1>3, <1>4 DEF HookEnds, TypeInv, TypeOK, LoopTypeOK, IntakeTypeOK, ConsumerTypeOK,
                            SilenceTypeOK, Inert, intakeVars, consumeVars, silenceVars

LEMMA TypeAddSilenceHook == ASSUME NEW h \in SilenceHooks PROVE TypeInv /\ AddSilenceHook(h) => TypeInv'
<1>. SUFFICES ASSUME TypeInv, AddSilenceHook(h) PROVE TypeInv'
  OBVIOUS
<1>1. Deadline # None
  BY DEF AddSilenceHook
<1>2. Spawn(<<h>>, misses) \in Callback
  <2>1. <<h>> \in Seq(Hooks) /\ misses \in Nat
    BY DEF Hooks, TypeInv, TypeOK, SilenceTypeOK
  <2>. QED  BY <2>1, SpawnType
<1>3. ready' \in Seq(Callback)
  BY <1>2 DEF AddSilenceHook, LateFire, TypeInv, TypeOK, LoopTypeOK
<1>4. silenceHooks' \in Seq(SilenceHooks)
  BY DEF AddSilenceHook, TypeInv, TypeOK, HookTypeOK
<1>. QED  BY <1>1, <1>3, <1>4 DEF AddSilenceHook, Inert, TasksStarted, TypeInv, TypeOK, LoopTypeOK,
             IntakeTypeOK, ConsumerTypeOK, CounterTypeOK, SilenceTypeOK, HookTypeOK, intakeVars,
             consumeVars, counterVars, silenceVars

LEMMA TypeAddResumeHook == ASSUME NEW h \in ResumeHooks PROVE TypeInv /\ AddResumeHook(h) => TypeInv'
<1>. SUFFICES ASSUME TypeInv, AddResumeHook(h) PROVE TypeInv'
  OBVIOUS
<1>1. resumeHooks' \in Seq(ResumeHooks)
  BY DEF AddResumeHook, TypeInv, TypeOK, HookTypeOK
<1>. QED  BY <1>1 DEF AddResumeHook, Inert, TasksStarted, TypeInv, TypeOK, LoopTypeOK,
             IntakeTypeOK, ConsumerTypeOK, CounterTypeOK, SilenceTypeOK, HookTypeOK, intakeVars,
             consumeVars, counterVars, silenceVars

LEMMA TypeStop == TypeInv /\ Stop => TypeInv'
<1>. SUFFICES ASSUME TypeInv, Stop PROVE TypeInv'
  OBVIOUS
<1>1. ready' \in Seq(Callback) /\ IsABag(timers') /\ BagToSet(timers') \subseteq Nat
  BY CancelHandle, CancelInType DEF Stop, TypeInv, TypeOK, LoopTypeOK
<1>2. hookTasks' \subseteq HookTask /\ TasksStarted'
  BY DEF Stop, TypeInv, TypeOK, HookTypeOK, HookTask, TasksStarted
<1>3. Inert'
  <2>. SUFFICES ASSUME Deadline = None PROVE Inert'
    BY DEF Inert
  <2>1. timers' = EmptyBag /\ ~silent'
    BY DEF Stop, TimersLeft, TypeInv, Inert, EmptyBag, SetToBag, (-)
  <2>2. \A i \in DOMAIN ready' : ready'[i].cb # "check"
    BY DEF Stop, ReadyLeft, CancelIn, Cancelled, TypeInv, Inert
  <2>. QED  BY <2>1, <2>2 DEF Inert
<1>4. LoopTypeOK' /\ SilenceTypeOK' /\ HookTypeOK'
  BY <1>1, <1>2 DEF Stop, TypeInv, TypeOK, LoopTypeOK, SilenceTypeOK, HookTypeOK
<1>. QED  BY <1>2, <1>3, <1>4 DEF Stop, TypeInv, TypeOK, IntakeTypeOK, ConsumerTypeOK, CounterTypeOK,
             intakeVars, consumeVars, counterVars

LEMMA TypeStep == TypeInv /\ [Next]_vars => TypeInv'
<1>. SUFFICES ASSUME TypeInv, [Next]_vars PROVE TypeInv'
  OBVIOUS
<1>1. CASE RunReady
  BY <1>1, TypeRunPush, TypeCheckDeadline, TypeRunCancelled, TypeRunHooks DEF RunReady
<1>2. CASE Terminated \/ UNCHANGED vars
  <2>1. UNCHANGED vars
    BY <1>2 DEF Terminated
  <2>2. LoopTypeOK' /\ IntakeTypeOK' /\ ConsumerTypeOK' /\ CounterTypeOK'
    BY <2>1 DEF vars, TypeInv, TypeOK, LoopTypeOK, IntakeTypeOK, ConsumerTypeOK, CounterTypeOK,
                intakeVars, consumeVars, counterVars
  <2>3. SilenceTypeOK' /\ HookTypeOK' /\ Inert' /\ TasksStarted'
    BY <2>1 DEF vars, TypeInv, TypeOK, SilenceTypeOK, HookTypeOK, Inert, TasksStarted,
                silenceVars, hookVars
  <2>. QED  BY <2>2, <2>3 DEF TypeInv, TypeOK
<1>. QED  BY <1>1, <1>2, TypeZenohCallback, TypeTick, TypeTimerDue, TypeConsume, TypeHandlerEnds,
             TypeHookEnds, TypeAddSilenceHook, TypeAddResumeHook, TypePublishHealth, TypeStop,
             TypeStopConsumer, TypeUndeclare DEF Next

\* Every state of a subscription is well typed: counters, queue within its
\* capacity, timers, hook tasks (pubsub.py:272-721).
THEOREM TypeCorrect == Spec => []TypeOK
<1>1. Spec => []TypeInv
  BY TypeInit, TypeStep, PTL DEF Spec
<1>2. TypeInv => TypeOK
  BY DEF TypeInv
<1>. QED  BY <1>1, <1>2, PTL

(***************************************************************************)
(* Accounting.  A value waits in the latest slot only in latest mode, and    *)
(* only stop() cancels the consumer; with that the equation is inductive.   *)
(***************************************************************************)

AccountInv == /\ Accounting
              /\ Mode = "queue" => ~latestReady
              /\ consumer = "cancelling" => stopPc \in {"consumer", "closed"}

\* The step that hands a sample over counts it once and puts it in one place.
LEMMA AccountRunPush == TypeInv /\ AccountInv /\ RunPush => AccountInv'
<1>. SUFFICES ASSUME TypeInv, AccountInv, RunPush PROVE AccountInv'
  OBVIOUS
<1>. DEFINE s == Head(ready).sample
<1>0. /\ received \in Nat /\ stale \in Nat /\ dropped \in Nat /\ overwritten \in Nat
      /\ malformed \in Nat /\ dispatched \in Nat /\ latestReady \in BOOLEAN
      /\ queue \in Seq(Sample) /\ Len(queue) <= QueueSize /\ Len(queue) \in Nat
  BY DEF TypeInv, TypeOK, IntakeTypeOK, ConsumerTypeOK, CounterTypeOK
<1>1. UNCHANGED <<consumer, malformed, dispatched, stopPc>>
  BY DEF RunPush, consumeVars
<1>2. CASE closed
  BY <1>1, <1>2 DEF RunPush, AccountInv, Accounting, Waiting, intakeVars, counterVars
<1>3. CASE ~closed /\ IsStale(s)
  <2>1. /\ received' = received + 1 /\ stale' = stale + 1
        /\ UNCHANGED <<stopPc, dropped, overwritten, queue, latest, latestReady>>
    BY <1>3 DEF RunPush, DropStaleOnArrival, intakeVars
  <2>2. UNCHANGED Waiting /\ Len(Waiting) \in Nat
    BY <1>0, <2>1 DEF Waiting
  <2>. QED  BY <1>0, <1>1, <2>1, <2>2 DEF AccountInv, Accounting
<1>4. CASE ~closed /\ ~IsStale(s)
  <2>0. received' = received + 1 /\ UNCHANGED stale /\ (StoreLatest(s) \/ Enqueue(s))
    BY <1>4 DEF RunPush
  <2>1. CASE StoreLatest(s)
    <3>1. Mode = "latest" /\ latestReady' = TRUE /\ UNCHANGED dropped
          /\ overwritten' = overwritten + (IF latestReady THEN 1 ELSE 0)
      BY <2>1 DEF StoreLatest
    <3>2. Len(Waiting') = 1 /\ Len(Waiting) = IF latestReady THEN 1 ELSE 0
      BY <3>1 DEF Waiting
    <3>. QED  BY <1>0, <1>1, <2>0, <3>1, <3>2 DEF AccountInv, Accounting
  <2>2. CASE Enqueue(s)
    <3>1. /\ Mode = "queue" /\ queue' = Queued(s) /\ dropped' = dropped + Evictions
          /\ UNCHANGED <<latestReady, overwritten>>
      BY <2>2 DEF Enqueue
    <3>2. Len(Queued(s)) + Evictions = Len(queue) + 1 /\ Evictions \in Nat
      <4>1. CASE Full
        BY <1>0, <4>1 DEF Full, Queued, Evictions
      <4>2. CASE ~Full
        BY <1>0, <4>2 DEF Full, Queued, Evictions
      <4>. QED  BY <4>1, <4>2
    <3>. QED  BY <1>0, <1>1, <2>0, <3>1, <3>2 DEF AccountInv, Accounting, Waiting
  <2>. QED  BY <2>0, <2>1, <2>2
<1>. QED  BY <1>2, <1>3, <1>4

LEMMA AccountConsume == TypeInv /\ AccountInv /\ Consume => AccountInv'
<1>. SUFFICES ASSUME TypeInv, AccountInv, Consume PROVE AccountInv'
  OBVIOUS
<1>0. /\ received \in Nat /\ stale \in Nat /\ dropped \in Nat /\ overwritten \in Nat
      /\ malformed \in Nat /\ dispatched \in Nat /\ latestReady \in BOOLEAN
      /\ queue \in Seq(Sample) /\ Len(queue) \in Nat
  BY DEF TypeInv, TypeOK, IntakeTypeOK, ConsumerTypeOK, CounterTypeOK
<1>1. /\ consumer = "idle" /\ Waiting # <<>> /\ latestReady' = FALSE
      /\ UNCHANGED <<received, dropped, overwritten, dispatched>>
  BY DEF Consume, ReadyAfterTake
<1>2. Len(Waiting) \in Nat /\ Len(Waiting') \in Nat /\ Len(Waiting) = Len(Waiting') + 1
  BY <1>0, <1>1 DEF Consume, Waiting
<1>3. \/ stale' = stale + 1 /\ UNCHANGED <<malformed, consumer>>
      \/ malformed' = malformed + 1 /\ UNCHANGED <<stale, consumer>>
      \/ consumer' = "busy" /\ UNCHANGED <<malformed, stale>>
  BY DEF Consume
<1>4. Accounting'
  BY <1>0, <1>1, <1>2, <1>3 DEF AccountInv, Accounting
<1>. QED  BY <1>1, <1>3, <1>4 DEF AccountInv

LEMMA AccountHandlerEnds == TypeInv /\ AccountInv /\ HandlerEnds => AccountInv'
<1>. SUFFICES ASSUME TypeInv, AccountInv, HandlerEnds PROVE AccountInv'
  OBVIOUS
<1>1. /\ consumer \in {"busy", "cancelling"} /\ consumer' \in {"idle", "done"}
      /\ dispatched' = dispatched + 1
      /\ UNCHANGED <<received, stale, dropped, malformed, queue, latest, latestReady, overwritten>>
  BY DEF HandlerEnds, AfterException, intakeVars
<1>2. UNCHANGED Waiting
  BY <1>1 DEF Waiting
<1>3. /\ received \in Nat /\ stale \in Nat /\ dropped \in Nat /\ overwritten \in Nat
      /\ malformed \in Nat /\ dispatched \in Nat /\ Len(Waiting) \in Nat
  BY DEF TypeInv, TypeOK, IntakeTypeOK, ConsumerTypeOK, CounterTypeOK, Waiting
<1>. QED  BY <1>1, <1>2, <1>3 DEF AccountInv, Accounting

\* Every other step leaves the equation's terms alone.
LEMMA AccountFrame ==
    ASSUME AccountInv, UNCHANGED <<intakeVars, received, stale, dropped, malformed, dispatched>>,
           UNCHANGED consumer,
           stopPc' # stopPc => stopPc = "open" \/ stopPc' = "closed"
    PROVE  AccountInv'
BY DEF AccountInv, Accounting, Waiting, intakeVars

LEMMA AccountStep == TypeInv /\ AccountInv /\ [Next]_vars => AccountInv'
<1>. SUFFICES ASSUME TypeInv, AccountInv, [Next]_vars PROVE AccountInv'
  OBVIOUS
<1>1. CASE RunPush \/ Consume \/ HandlerEnds
  BY <1>1, AccountRunPush, AccountConsume, AccountHandlerEnds
<1>2. CASE ZenohCallback \/ Tick \/ TimerDue
  BY <1>2, AccountFrame DEF ZenohCallback, Tick, TimerDue, consumeVars, counterVars
<1>3. CASE CheckDeadline \/ RunCancelled \/ RunHooks
  BY <1>3, AccountFrame DEF CheckDeadline, RunCancelled, RunHooks, consumeVars, counterVars
<1>4. CASE \E t \in hookTasks : HookEnds(t)
  BY <1>4, AccountFrame DEF HookEnds, consumeVars
<1>5. CASE (\E h \in SilenceHooks : AddSilenceHook(h)) \/ (\E h \in ResumeHooks : AddResumeHook(h))
  BY <1>5, AccountFrame DEF AddSilenceHook, AddResumeHook, consumeVars, counterVars
<1>6. CASE PublishHealth \/ Stop \/ Undeclare \/ Terminated \/ UNCHANGED vars
  BY <1>6, AccountFrame DEF PublishHealth, Stop, Undeclare, Terminated, vars, consumeVars, counterVars
<1>7. CASE StopConsumer
  <2>1. consumer # "cancelling"
    BY <1>7 DEF StopConsumer, AccountInv
  <2>2. (consumer' \in {"busy", "cancelling"}) <=> (consumer \in {"busy", "cancelling"})
    BY <1>7, <2>1 DEF StopConsumer, CancelConsumer
  <2>3. UNCHANGED Waiting
    BY <1>7 DEF StopConsumer, Waiting, intakeVars
  <2>. QED  BY <1>7, <2>2, <2>3 DEF StopConsumer, AccountInv, Accounting, intakeVars, counterVars
<1>. QED  BY <1>1, <1>2, <1>3, <1>4, <1>5, <1>6, <1>7 DEF Next, RunReady

LEMMA AccountInit == Init => AccountInv
BY DEF Init, AccountInv, Accounting, Waiting

\* No sample is lost without a count and none is counted twice, whatever the
\* interleaving of arrivals, takes, heartbeats, hooks and stop() (pubsub.py:379-456).
THEOREM EverySampleAccounted == Spec => []Accounting
<1>1. AccountInv => Accounting
  BY DEF AccountInv
<1>. QED  BY <1>1, TypeInit, TypeStep, AccountInit, AccountStep, PTL DEF Spec

(***************************************************************************)
(* The lazy timer.  Either it is armed for its handle and no check is in    *)
(* the ready list, or it has come due and one check is, in front of every   *)
(* sample that landed since.                                                *)
(***************************************************************************)

Clean(s)  == \A i \in DOMAIN s : s[i].cb # "check"
Single(s) == \E i \in DOMAIN s : s[i].cb = "check" /\ \A j \in DOMAIN s : s[j].cb = "check" => j = i

\* No sample that landed before h is behind a check.
Behind(s, h) ==
    \A i, j \in DOMAIN s : i < j /\ s[i].cb = "check" /\ s[j].cb = "push" => s[j].sample.at >= h

Ahead ==
    \/ timers = SetToBag({handle}) /\ Clean(ready)
    \/ timers = EmptyBag /\ Single(ready) /\ handle <= now /\ Behind(ready, handle)

TimerInv ==
    /\ usable.at <= now
    /\ Deadline # None => lastArrival = usable.at
    /\ closed \/ Deadline = None => timers = EmptyBag /\ Clean(ready) /\ handle = None
    /\ ~closed /\ Deadline # None =>
         handle \in Nat /\ Ahead /\ (~silent => handle <= usable.at + Deadline)

LEMMA OneTimer ==
    ASSUME NEW d
    PROVE  /\ EmptyBag (+) SetToBag({d}) = SetToBag({d})
           /\ SetToBag({d}) (-) SetToBag({d}) = EmptyBag
           /\ EmptyBag (-) SetToBag({d}) = EmptyBag
           /\ BagToSet(SetToBag({d})) = {d} /\ BagToSet(EmptyBag) = {}
           /\ \A e : (BagIn(e, SetToBag({d})) <=> e = d) /\ ~BagIn(e, EmptyBag)
<1>1. BagToSet(SetToBag({d})) = {d} /\ BagToSet(EmptyBag) = {}
  BY DEF BagToSet, SetToBag, EmptyBag
<1>2. EmptyBag (+) SetToBag({d}) = SetToBag({d})
  BY DEF SetToBag, EmptyBag, (+)
<1>3. SetToBag({d}) (-) SetToBag({d}) = EmptyBag
  BY DEF SetToBag, EmptyBag, (-)
<1>4. EmptyBag (-) SetToBag({d}) = EmptyBag
  BY DEF SetToBag, EmptyBag, (-)
<1>. QED  BY <1>1, <1>2, <1>3, <1>4 DEF BagIn

\* The ready list moves on by a callback that is no check.
LEMMA TailKeeps ==
    ASSUME NEW s \in Seq(Callback), s # <<>>, Head(s).cb # "check"
    PROVE  /\ Clean(s) => Clean(Tail(s))
           /\ Single(s) => Single(Tail(s))
           /\ \A h : Behind(s, h) => Behind(Tail(s), h)
<1>1. /\ \A i \in DOMAIN Tail(s) : i + 1 \in DOMAIN s /\ Tail(s)[i] = s[i + 1] /\ i \in Nat
      /\ \A i \in DOMAIN s : i # 1 => i - 1 \in DOMAIN Tail(s) /\ i \in Nat
      /\ s[1].cb # "check"
  OBVIOUS
<1>2. Clean(s) => Clean(Tail(s))
  BY <1>1 DEF Clean
<1>3. ASSUME Single(s) PROVE Single(Tail(s))
  <2>1. PICK i \in DOMAIN s : s[i].cb = "check" /\ \A j \in DOMAIN s : s[j].cb = "check" => j = i
    BY <1>3 DEF Single
  <2>2. i # 1 /\ i - 1 \in DOMAIN Tail(s) /\ Tail(s)[i - 1] = s[i]
    BY <1>1, <2>1
  <2>3. \A j \in DOMAIN Tail(s) : Tail(s)[j].cb = "check" => j = i - 1
    BY <1>1, <2>1
  <2>. QED  BY <2>1, <2>2, <2>3 DEF Single
<1>4. \A h : Behind(s, h) => Behind(Tail(s), h)
  BY <1>1 DEF Behind
<1>. QED  BY <1>2, <1>3, <1>4

\* ... or by the check.
LEMMA TailTakes ==
    ASSUME NEW s \in Seq(Callback), s # <<>>, Head(s).cb = "check"
    PROVE  /\ ~Clean(s)
           /\ Single(s) => Clean(Tail(s))
           /\ \A h : Behind(s, h) => \A j \in DOMAIN s : s[j].cb = "push" => s[j].sample.at >= h
<1>1. /\ \A i \in DOMAIN Tail(s) : i + 1 \in DOMAIN s /\ Tail(s)[i] = s[i + 1] /\ i \in Nat \ {0}
      /\ \A i \in DOMAIN s : i # 1 => 1 < i
      /\ 1 \in DOMAIN s /\ s[1].cb = "check"
  OBVIOUS
<1>2. Single(s) => Clean(Tail(s))
  BY <1>1 DEF Single, Clean
<1>3. \A h : Behind(s, h) => \A j \in DOMAIN s : s[j].cb = "push" => s[j].sample.at >= h
  BY <1>1 DEF Behind
<1>. QED  BY <1>1, <1>2, <1>3 DEF Clean

LEMMA AppendKeeps ==
    ASSUME NEW s \in Seq(Callback), NEW c \in Callback, c.cb # "check"
    PROVE  /\ Clean(s) => Clean(Append(s, c))
           /\ Single(s) => Single(Append(s, c))
           /\ \A h : Behind(s, h) /\ (c.cb = "push" => c.sample.at >= h) => Behind(Append(s, c), h)
<1>1. /\ \A i \in DOMAIN s : i \in DOMAIN Append(s, c) /\ Append(s, c)[i] = s[i]
      /\ \A i \in DOMAIN Append(s, c) : i \in DOMAIN s \/ Append(s, c)[i] = c
  OBVIOUS
<1>2. Clean(s) => Clean(Append(s, c))
  BY <1>1 DEF Clean
<1>3. Single(s) => Single(Append(s, c))
  BY <1>1 DEF Single
<1>4. \A h : Behind(s, h) /\ (c.cb = "push" => c.sample.at >= h) => Behind(Append(s, c), h)
  BY <1>1 DEF Behind
<1>. QED  BY <1>2, <1>3, <1>4

LEMMA AppendCheck ==
    ASSUME NEW s \in Seq(Callback), Clean(s)
    PROVE  Single(Append(s, Check)) /\ \A h : Behind(Append(s, Check), h)
<1>. DEFINE a == Append(s, Check)
<1>1. /\ \A i \in DOMAIN a : i = Len(s) + 1 \/ (i \in DOMAIN s /\ a[i] = s[i])
      /\ Len(s) + 1 \in DOMAIN a /\ a[Len(s) + 1] = Check /\ Len(s) \in Nat
      /\ \A i \in DOMAIN a : i \in Nat /\ i <= Len(s) + 1
  OBVIOUS
<1>. HIDE DEF a
<1>2. \A i \in DOMAIN a : a[i].cb = "check" <=> i = Len(s) + 1
  BY <1>1 DEF Clean, Check
<1>3. Single(a)
  BY <1>1, <1>2 DEF Single
<1>4. \A h : Behind(a, h)
  BY <1>1, <1>2 DEF Behind
<1>. QED  BY <1>3, <1>4 DEF a

LEMMA CancelKeeps ==
    ASSUME NEW s \in Seq(Callback)
    PROVE  /\ Clean(CancelIn(s, "check"))
           /\ Clean(s) => Clean(CancelIn(s, "hooks"))
BY DEF Clean, CancelIn, Cancelled


\* A step that leaves the detector alone.
LEMMA TimerFrame ==
    ASSUME TypeInv, TimerInv, UNCHANGED <<timers, handle, lastArrival, usable, silent, closed>>,
           now' \in Nat, now' >= now,
           Clean(ready) => Clean(ready'), Single(ready) => Single(ready'),
           handle <= now /\ Behind(ready, handle) => Behind(ready', handle)
    PROVE  TimerInv'
<1>1. now \in Nat /\ usable.at \in Nat
  BY DEF TypeInv, TypeOK, LoopTypeOK
<1>2. ~closed /\ Deadline # None => Ahead'
  <2>1. CASE timers = SetToBag({handle}) /\ Clean(ready)
    BY <2>1 DEF Ahead
  <2>2. CASE ~closed /\ Deadline # None /\ timers = EmptyBag /\ Single(ready) /\ handle <= now /\ Behind(ready, handle)
    BY <1>1, <2>2 DEF Ahead, TimerInv
  <2>. QED  BY <2>1, <2>2 DEF TimerInv, Ahead
<1>. QED  BY <1>1, <1>2 DEF TimerInv

LEMMA TimerArrival == TypeInv /\ TimerInv /\ ZenohCallback => TimerInv'
<1>. SUFFICES ASSUME TypeInv, TimerInv, ZenohCallback PROVE TimerInv'
  OBVIOUS
<1>1. PICK transit \in Transits, body \in Bodies :
         ready' = Append(ready, Push([id |-> sent + 1, at |-> now, body |-> body,
                                      ts |-> IF transit = None THEN None ELSE now - transit]))
  BY DEF ZenohCallback
<1>. DEFINE c == Push([id |-> sent + 1, at |-> now, body |-> body,
                       ts |-> IF transit = None THEN None ELSE now - transit])
<1>2. c \in Callback /\ c.cb # "check" /\ c.sample.at = now /\ ready \in Seq(Callback) /\ now \in Nat
  BY DEF TypeInv, TypeOK, LoopTypeOK, Push, Callback, Sample
<1>. HIDE DEF c
<1>3. UNCHANGED <<now, timers, handle, lastArrival, usable, silent, closed>>
  BY DEF ZenohCallback, silenceVars, closed
<1>4. /\ Clean(ready) => Clean(ready')
      /\ Single(ready) => Single(ready')
      /\ handle <= now /\ Behind(ready, handle) => Behind(ready', handle)
  BY <1>1, <1>2, AppendKeeps DEF c
<1>. QED  BY <1>2, <1>3, <1>4, TimerFrame

LEMMA TimerDueKeeps == TypeInv /\ TimerInv /\ TimerDue => TimerInv'
<1>. SUFFICES ASSUME TypeInv, TimerInv, TimerDue PROVE TimerInv'
  OBVIOUS
<1>1. PICK due \in BagToSet(timers) : due <= now /\ timers' = timers (-) SetToBag({due})
  BY DEF TimerDue
<1>2. timers # EmptyBag
  BY <1>1, OneTimer
<1>3. ~closed /\ Deadline # None /\ timers = SetToBag({handle}) /\ Clean(ready)
  BY <1>2 DEF TimerInv, Ahead
<1>4. due = handle /\ timers' = EmptyBag
  <2>1. due = handle
    <3>1. BagToSet(SetToBag({handle})) = {handle}
      BY OneTimer
    <3>. QED  BY <1>1, <1>3, <3>1
  <2>2. timers' = SetToBag({handle}) (-) SetToBag({handle})
    BY <1>1, <1>3, <2>1
  <2>. QED  BY <2>1, <2>2, OneTimer
<1>5. ready \in Seq(Callback) /\ ready' = Append(ready, Check)
  BY DEF TimerDue, TypeInv, TypeOK, LoopTypeOK
<1>6. Single(ready') /\ Behind(ready', handle)
  BY <1>3, <1>5, AppendCheck
<1>7. UNCHANGED <<now, handle, lastArrival, usable, silent, closed>>
  BY DEF TimerDue, closed
<1>. QED  BY <1>1, <1>3, <1>4, <1>6, <1>7 DEF TimerInv, Ahead

\* A check that runs is the one check, and the sample of every push that is ready
\* landed after it came due.
LEMMA CheckRuns ==
    ASSUME TypeInv, TimerInv, CheckDeadline
    PROVE  /\ ready \in Seq(Callback) /\ Tail(ready) \in Seq(Callback)
           /\ ~closed /\ Deadline \in Nat \ {0} /\ timers = EmptyBag
           /\ handle \in Nat /\ handle <= now
           /\ Clean(Tail(ready)) /\ lastArrival = usable.at
           /\ \A j \in DOMAIN ready : ready[j].cb = "push" => ready[j].sample.at >= handle
<1>1. ready \in Seq(Callback) /\ ready # <<>> /\ Head(ready).cb = "check" /\ Tail(ready) \in Seq(Callback)
  BY DEF CheckDeadline, Running, TypeInv, TypeOK, LoopTypeOK
<1>2. ~Clean(ready)
  BY <1>1, TailTakes
<1>. QED  BY <1>1, <1>2, TailTakes DEF TimerInv, Ahead

LEMMA TimerCheck == TypeInv /\ TimerInv /\ CheckDeadline => TimerInv'
<1>. SUFFICES ASSUME TypeInv, TimerInv, CheckDeadline PROVE TimerInv'
  OBVIOUS
<1>. DEFINE delay == IF Deadline > SilenceLogInterval THEN Deadline ELSE SilenceLogInterval
            remaining == Deadline - (now - lastArrival)
<1>0. now \in Nat /\ usable.at \in Nat /\ misses \in Nat
  BY DEF TypeInv, TypeOK, LoopTypeOK, SilenceTypeOK
<1>1. /\ Tail(ready) \in Seq(Callback) /\ Clean(Tail(ready))
      /\ ~closed /\ Deadline \in Nat \ {0} /\ timers = EmptyBag /\ lastArrival = usable.at
  BY CheckRuns
<1>2. UNCHANGED <<now, usable, lastArrival, closed>>
  BY DEF CheckDeadline, closed
<1>3. ASSUME NEW d \in Nat, Schedule(timers, d)
      PROVE  handle' = now + d /\ timers' = SetToBag({handle'})
  BY <1>1, <1>3, OneTimer DEF Schedule
<1>4. CASE remaining > 0
  <2>1. Schedule(timers, remaining) /\ ready' = Tail(ready)
    BY <1>0, <1>1, <1>4 DEF CheckDeadline
  <2>2. remaining \in Nat /\ now + remaining = usable.at + Deadline
    BY <1>0, <1>1, <1>4
  <2>. HIDE DEF remaining
  <2>3. handle' = usable.at + Deadline /\ timers' = SetToBag({handle'})
    BY <1>3, <2>1, <2>2
  <2>. QED  BY <1>0, <1>1, <1>2, <2>1, <2>3 DEF TimerInv, Ahead
<1>5. CASE ~(remaining > 0)
  <2>1. Schedule(timers, delay) /\ (EnterSilence \/ (silent /\ ready' = Tail(ready) /\ UNCHANGED silent))
    BY <1>0, <1>1, <1>5 DEF CheckDeadline
  <2>2. silent'
    <3>1. CASE EnterSilence
      BY <3>1 DEF EnterSilence
    <3>2. CASE silent /\ silent' = silent
      BY <3>2
    <3>. QED  BY <2>1, <3>1, <3>2
  <2>3. delay \in Nat
    BY <1>1
  <2>. HIDE DEF delay
  <2>4. handle' \in Nat /\ timers' = SetToBag({handle'})
    BY <1>0, <1>3, <2>1, <2>3
  <2>5. Clean(ready')
    <3>1. CASE EnterSilence
      <4>. DEFINE a == Spawn(silenceHooks, misses + 1)
                  p == Spawn(<<PolicyHook>>, misses + 1)
      <4>1. <<PolicyHook>> \in Seq(Hooks)
        BY DEF Hooks
      <4>2. a \in Callback /\ a.cb # "check" /\ p \in Callback /\ p.cb # "check"
        <5>1. misses + 1 \in Nat /\ silenceHooks \in Seq(Hooks)
          BY <1>0, HookLists
        <5>. QED  BY <4>1, <5>1, SpawnType
      <4>3. ready' = Append(Tail(ready), a) \/ ready' = Append(Append(Tail(ready), a), p)
        <5>1. ready' = Tail(ready) \o <<a>> \o (IF OnDeadline = "callable" THEN <<p>> ELSE <<>>)
          BY <3>1 DEF EnterSilence
        <5>. HIDE DEF a, p
        <5>2. Tail(ready) \o <<a>> \o <<p>> = Append(Append(Tail(ready), a), p)
              /\ Tail(ready) \o <<a>> \o <<>> = Append(Tail(ready), a)
          BY <1>1, <4>2
        <5>. QED  BY <5>1, <5>2
      <4>. HIDE DEF a, p
      <4>4. Append(Tail(ready), a) \in Seq(Callback)
        BY <1>1, <4>2
      <4>5. Clean(Append(Tail(ready), a))
        BY <1>1, <4>2, AppendKeeps
      <4>. QED  BY <4>2, <4>3, <4>4, <4>5, AppendKeeps
    <3>. QED  BY <1>1, <2>1, <3>1
  <2>. QED  BY <1>0, <1>1, <1>2, <2>2, <2>4, <2>5 DEF TimerInv, Ahead
<1>. QED  BY <1>4, <1>5


\* Cancelling the handle of an open subscription leaves no check, wherever it was.
LEMMA HandleCancelled ==
    ASSUME TypeInv, TimerInv, ~closed, NEW s \in Seq(Callback), Clean(ready) => Clean(s)
    PROVE  TimersLeft = EmptyBag /\ Clean(ReadyLeft(s)) /\ ReadyLeft(s) \in Seq(Callback)
<1>0. ReadyLeft(s) \in Seq(Callback)
  BY CancelHandle
<1>1. CASE Deadline = None
  BY <1>0, <1>1, CancelKeeps DEF TimerInv, TimersLeft, ReadyLeft
<1>2. CASE Deadline # None /\ timers = SetToBag({handle}) /\ Clean(ready)
  <2>1. handle # None
    BY <1>2 DEF TimerInv
  <2>. QED  BY <1>0, <1>2, <2>1, OneTimer DEF TimersLeft, ReadyLeft
<1>3. CASE Deadline # None /\ timers = EmptyBag
  <2>1. handle # None
    BY <1>3 DEF TimerInv
  <2>. QED  BY <1>0, <1>3, <2>1, OneTimer, CancelKeeps DEF TimersLeft, ReadyLeft
<1>. QED  BY <1>1, <1>2, <1>3 DEF TimerInv, Ahead

LEMMA TimerPush == TypeInv /\ TimerInv /\ RunPush => TimerInv'
<1>. SUFFICES ASSUME TypeInv, TimerInv, RunPush PROVE TimerInv'
  OBVIOUS
<1>. DEFINE s == Head(ready).sample
<1>0. /\ ready \in Seq(Callback) /\ ready # <<>> /\ Head(ready).cb = "push"
      /\ now \in Nat /\ usable.at \in Nat /\ misses \in Nat
  BY DEF RunPush, Running, TypeInv, TypeOK, LoopTypeOK, SilenceTypeOK
<1>1. /\ Clean(ready) => Clean(Tail(ready))
      /\ Single(ready) => Single(Tail(ready))
      /\ Behind(ready, handle) => Behind(Tail(ready), handle)
      /\ Tail(ready) \in Seq(Callback)
  BY <1>0, TailKeeps
<1>2. UNCHANGED <<now, closed>>
  BY DEF RunPush, closed
<1>3. CASE closed \/ IsStale(s)
  <2>1. ready' = Tail(ready) /\ UNCHANGED <<timers, handle, lastArrival, usable, silent>>
    BY <1>3 DEF RunPush, DropStaleOnArrival, silenceVars
  <2>. QED  BY <1>0, <1>1, <1>2, <2>1, TimerFrame
<1>4. CASE ~closed /\ ~IsStale(s)
  <2>0. MarkArrival /\ usable' = [id |-> s.id, at |-> now]
    BY <1>4 DEF RunPush
  <2>1. usable'.at = now /\ (Deadline # None => lastArrival' = now)
    BY <2>0 DEF MarkArrival, Stamp
  <2>2. CASE ~silent
    <3>1. ready' = Tail(ready) /\ UNCHANGED <<silent, timers, handle>>
      BY <2>0, <2>2 DEF MarkArrival
    <3>2. Deadline # None => Ahead'
      BY <1>1, <1>2, <1>4, <3>1 DEF TimerInv, Ahead
    <3>3. Deadline # None => handle <= now + Deadline
      BY <1>0, <1>4, <2>2 DEF TimerInv
    <3>. QED  BY <1>0, <1>1, <1>2, <1>4, <2>1, <3>1, <3>2, <3>3 DEF TimerInv
  <2>3. CASE silent
    <3>1. Deadline \in Nat \ {0}
      BY <2>3 DEF TypeInv, Inert
    <3>2. TimersLeft = EmptyBag /\ Clean(ReadyLeft(Tail(ready))) /\ ReadyLeft(Tail(ready)) \in Seq(Callback)
      BY <1>1, <1>4, HandleCancelled
    <3>3. /\ ~silent' /\ handle' = now + Deadline /\ timers' = SetToBag({handle'})
          /\ ready' = Append(ReadyLeft(Tail(ready)), Spawn(resumeHooks, misses))
      BY <2>0, <2>3, <3>2, OneTimer DEF MarkArrival, LeaveSilence, Rearm, Schedule
    <3>4. Spawn(resumeHooks, misses) \in Callback /\ Spawn(resumeHooks, misses).cb # "check"
      BY <1>0, SpawnType, HookLists
    <3>5. Clean(ready')
      BY <3>2, <3>3, <3>4, AppendKeeps
    <3>. QED  BY <1>0, <1>2, <1>4, <2>1, <3>1, <3>3, <3>5 DEF TimerInv, Ahead
  <2>. QED  BY <2>2, <2>3
<1>. QED  BY <1>3, <1>4

LEMMA TimerStop == TypeInv /\ TimerInv /\ Stop => TimerInv'
<1>. SUFFICES ASSUME TypeInv, TimerInv, Stop PROVE TimerInv'
  OBVIOUS
<1>1. ready \in Seq(Callback) /\ ~closed /\ closed'
  BY DEF Stop, closed, TypeInv, TypeOK, LoopTypeOK
<1>2. TimersLeft = EmptyBag /\ Clean(ReadyLeft(ready)) /\ ReadyLeft(ready) \in Seq(Callback)
  BY <1>1, HandleCancelled
<1>3. Clean(CancelIn(ReadyLeft(ready), "hooks"))
  BY <1>2, CancelKeeps
<1>. QED  BY <1>1, <1>2, <1>3 DEF Stop, TimerInv

LEMMA TimerStep == TypeInv /\ TimerInv /\ [Next]_vars => TimerInv'
<1>. SUFFICES ASSUME TypeInv, TimerInv, [Next]_vars PROVE TimerInv'
  OBVIOUS
<1>0. now \in Nat /\ ready \in Seq(Callback)
  BY DEF TypeInv, TypeOK, LoopTypeOK
<1>1. CASE RunCancelled \/ RunHooks
  <2>1. /\ ready # <<>> /\ Head(ready).cb # "check" /\ ready' = Tail(ready)
        /\ UNCHANGED <<now, timers, handle, lastArrival, usable, silent, closed>>
    BY <1>1 DEF RunCancelled, RunHooks, Running, silenceVars, closed
  <2>. QED  BY <1>0, <2>1, TailKeeps, TimerFrame
<1>2. CASE \E h \in SilenceHooks : AddSilenceHook(h)
  <2>1. PICK h \in SilenceHooks : AddSilenceHook(h)
    BY <1>2
  <2>2. Spawn(<<h>>, misses) \in Callback /\ Spawn(<<h>>, misses).cb = "hooks"
    <3>1. <<h>> \in Seq(Hooks) /\ misses \in Nat
      BY DEF Hooks, TypeInv, TypeOK, SilenceTypeOK
    <3>. QED  BY <3>1, SpawnType DEF Spawn
  <2>3. ready' = ready \/ ready' = Append(ready, Spawn(<<h>>, misses))
    BY <2>1 DEF AddSilenceHook, LateFire
  <2>4. UNCHANGED <<now, timers, handle, lastArrival, usable, silent, closed>>
    BY <2>1 DEF AddSilenceHook, silenceVars, closed
  <2>5. /\ Clean(ready) => Clean(ready')
        /\ Single(ready) => Single(ready')
        /\ Behind(ready, handle) => Behind(ready', handle)
    <3>. DEFINE c == Spawn(<<h>>, misses)
    <3>1. c \in Callback /\ c.cb # "check" /\ c.cb # "push"
      BY <2>2
    <3>2. ready' = ready \/ ready' = Append(ready, c)
      BY <2>3
    <3>. HIDE DEF c
    <3>. QED  BY <1>0, <3>1, <3>2, AppendKeeps
  <2>. QED  BY <1>0, <2>4, <2>5, TimerFrame
<1>3. CASE Tick
  <2>1. now' = now + 1 /\ UNCHANGED <<ready, timers, handle, lastArrival, usable, silent, closed>>
    BY <1>3 DEF Tick, silenceVars, closed
  <2>. QED  BY <1>0, <2>1, TimerFrame
<1>4. CASE Consume \/ HandlerEnds \/ PublishHealth \/ Terminated \/ UNCHANGED vars
  <2>1. UNCHANGED <<now, ready, timers, handle, lastArrival, usable, silent, closed>>
    BY <1>4 DEF Consume, HandlerEnds, PublishHealth, Terminated, vars, silenceVars, closed
  <2>. QED  BY <1>0, <2>1, TimerFrame
<1>5. CASE StopConsumer \/ Undeclare
  <2>1. UNCHANGED <<now, ready, timers, handle, lastArrival, usable, silent>> /\ closed /\ closed'
    BY <1>5 DEF StopConsumer, Undeclare, silenceVars, closed
  <2>. QED  BY <2>1 DEF TimerInv
<1>6. CASE \/ \E t \in hookTasks : HookEnds(t)
           \/ \E h \in ResumeHooks : AddResumeHook(h)
  <2>1. UNCHANGED <<now, ready, timers, handle, lastArrival, usable, silent, closed>>
    BY <1>6 DEF HookEnds, AddResumeHook, silenceVars, closed
  <2>. QED  BY <1>0, <2>1, TimerFrame
<1>. QED
  BY <1>1, <1>2, <1>3, <1>4, <1>5, <1>6, TimerArrival, TimerDueKeeps, TimerCheck, TimerPush, TimerStop
    DEF Next, RunReady

LEMMA TimerInit == Init => TimerInv
<1>. SUFFICES ASSUME Init PROVE TimerInv
  OBVIOUS
<1>1. Clean(ready)
  BY DEF Init, Clean
<1>2. CASE Deadline = None
  BY <1>1, <1>2 DEF Init, TimerInv, Armed
<1>3. CASE Deadline # None
  BY <1>1, <1>3 DEF Init, TimerInv, Armed, Ahead, closed
<1>. QED  BY <1>2, <1>3

\* An open subscription with a deadline has exactly one check ahead of it, in time
\* for the deadline while data flows, and a stopping one has none, across resumes,
\* late wake-ups and stop() (pubsub.py:352-368, 520-624).
THEOREM OneTimerAlways == Spec => []OneTimerArmed
<1>1. TypeInv /\ TimerInv => OneTimerArmed
  <2>. SUFFICES ASSUME TypeInv, TimerInv PROVE OneTimerArmed
    OBVIOUS
  <2>1. Clean(ready) => Checks = {}
    BY DEF Clean, Checks
  <2>2. Single(ready) => \E i \in DOMAIN ready : Checks = {i}
    BY DEF Single, Checks
  <2>. QED  BY <2>1, <2>2 DEF OneTimerArmed, TimerInv, Ahead
<1>. QED  BY <1>1, TypeInit, TypeStep, TimerInit, TimerStep, PTL DEF Spec

\* Silence is declared only when the deadline has passed since the last usable sample,
\* with every sample that landed before the check came due seen first (pubsub.py:576-624).
THEOREM SilenceNeverEarly == Spec => NoEarlySilence
<1>1. TypeInv /\ TimerInv /\ [Next]_vars =>
        [~silent /\ silent' =>
           /\ now >= usable.at + Deadline
           /\ \A i \in DOMAIN ready : ready[i].cb = "push" => ready[i].sample.at >= handle]_vars
  <2>. SUFFICES ASSUME TypeInv, TimerInv, Next, ~silent, silent'
                PROVE  /\ now >= usable.at + Deadline
                       /\ \A i \in DOMAIN ready : ready[i].cb = "push" => ready[i].sample.at >= handle
    OBVIOUS
  <2>1. CheckDeadline
    BY DEF Next, ZenohCallback, Tick, TimerDue, RunReady, RunPush, DropStaleOnArrival, MarkArrival, LeaveSilence,
           RunCancelled, RunHooks, Consume, HandlerEnds, HookEnds, AddSilenceHook, AddResumeHook,
           PublishHealth, Stop, StopConsumer, Undeclare, Terminated, vars, silenceVars
  <2>2. now \in Nat /\ usable.at \in Nat
    BY DEF TypeInv, TypeOK, LoopTypeOK
  <2>3. now >= usable.at + Deadline
    <3>1. ~closed /\ Deadline \in Nat /\ lastArrival = usable.at
      BY <2>1, CheckRuns
    <3>2. Deadline - (now - lastArrival) <= 0
      BY <2>1, <3>1 DEF CheckDeadline
    <3>. QED  BY <2>2, <3>1, <3>2
  <2>. QED  BY <2>1, <2>3, CheckRuns
<1>. QED  BY <1>1, TypeInit, TypeStep, TimerInit, TimerStep, PTL DEF Spec, NoEarlySilence



(***************************************************************************)
(* Stale samples, and the quiet after stop().                               *)
(***************************************************************************)

LEMMA StaleStep ==
    ASSUME TypeInv, Next, stale' > stale
    PROVE  /\ dropped' = dropped /\ overwritten' = overwritten
           /\ Waiting' \in {Waiting, SubSeq(Waiting, 2, Len(Waiting))}
<1>0. stale \in Nat /\ queue \in Seq(Sample)
  BY DEF TypeInv, TypeOK, CounterTypeOK, IntakeTypeOK
<1>1. RunPush \/ Consume
  BY <1>0 DEF Next, ZenohCallback, Tick, TimerDue, RunReady, CheckDeadline, RunCancelled, RunHooks,
         HandlerEnds, HookEnds, AddSilenceHook, AddResumeHook, PublishHealth, Stop, StopConsumer,
         Undeclare, Terminated, vars, counterVars
<1>2. CASE RunPush
  <2>1. DropStaleOnArrival
    BY <1>0, <1>2 DEF RunPush, counterVars
  <2>2. Waiting' = Waiting
    BY <2>1 DEF DropStaleOnArrival, intakeVars, Waiting
  <2>. QED  BY <2>1, <2>2 DEF DropStaleOnArrival, intakeVars
<1>3. CASE Consume
  <2>1. Waiting # <<>> /\ ~latestReady' /\ queue' = IF Mode = "queue" THEN Tail(queue) ELSE queue
    BY <1>3 DEF Consume, ReadyAfterTake
  <2>2. Waiting' = SubSeq(Waiting, 2, Len(Waiting))
    <3>1. CASE Mode = "queue"
      BY <1>0, <2>1, <3>1 DEF Waiting
    <3>2. CASE Mode # "queue"
      <4>1. Waiting' = <<>> /\ Waiting = <<latest>>
        BY <2>1, <3>2 DEF Waiting
      <4>. QED  BY <4>1
    <3>. QED  BY <3>1, <3>2
  <2>. QED  BY <1>3, <2>2 DEF Consume
<1>. QED  BY <1>1, <1>2, <1>3

\* Discarding a sample for its age, on arrival or at dequeue, evicts nothing else
\* (pubsub.py:397-407, 436-446).
THEOREM StaleEvictsNothing == Spec => StaleNeverEvicts
<1>1. TypeInv /\ [Next]_vars =>
        [stale' > stale => /\ dropped' = dropped /\ overwritten' = overwritten
                           /\ Waiting' \in {Waiting, SubSeq(Waiting, 2, Len(Waiting))}]_vars
  BY StaleStep
<1>. QED  BY <1>1, TypeInit, TypeStep, PTL DEF Spec, StaleNeverEvicts

\* What is over when stop() has come that far: no hook task is ready to start, none
\* runs, and the consumer is done.
QuietInv ==
    /\ closed => \A i \in DOMAIN ready : ready[i].cb # "hooks"
    /\ stopPc \in {"consumer", "closed"} => hookTasks = {}
    /\ stopPc = "closed" => consumer = "done"

LEMMA QuietReady ==
    ASSUME TypeInv, QuietInv, Next
    PROVE  closed' => \A i \in DOMAIN ready' : ready'[i].cb # "hooks"
<1>. SUFFICES ASSUME closed' PROVE \A i \in DOMAIN ready' : ready'[i].cb # "hooks"
  OBVIOUS
<1>0. ready \in Seq(Callback)
  BY DEF TypeInv, TypeOK, LoopTypeOK
<1>1. CASE Stop
  <2>1. ready' = CancelIn(ReadyLeft(ready), "hooks")
    BY <1>1 DEF Stop
  <2>. QED  BY <2>1 DEF CancelIn, Cancelled
<1>2. CASE ~Stop
  <2>0. closed /\ \A i \in DOMAIN ready : ready[i].cb # "hooks"
    BY <1>2 DEF Next, ZenohCallback, Tick, TimerDue, RunReady, RunPush, CheckDeadline, RunCancelled, RunHooks,
       Consume, HandlerEnds, HookEnds, AddSilenceHook, AddResumeHook, PublishHealth, StopConsumer,
       Undeclare, Terminated, vars, closed, QuietInv
  <2>1. CASE RunReady
    <3>1. ready # <<>> /\ ready' = Tail(ready)
      BY <2>0, <2>1 DEF RunReady, RunPush, CheckDeadline, RunCancelled, RunHooks, Running
    <3>2. \A i \in DOMAIN Tail(ready) : i + 1 \in DOMAIN ready /\ Tail(ready)[i] = ready[i + 1]
      BY <1>0, <3>1
    <3>. QED  BY <2>0, <3>1, <3>2
  <2>2. CASE ZenohCallback
    <3>1. PICK s : ready' = Append(ready, Push(s))
      BY <2>2 DEF ZenohCallback
    <3>. QED  BY <1>0, <2>0, <3>1 DEF Push
  <2>3. CASE TimerDue
    BY <1>0, <2>0, <2>3 DEF TimerDue, Check
  <2>4. CASE ready' = ready
    BY <2>0, <2>4
  <2>. QED
    BY <1>2, <2>0, <2>1, <2>2, <2>3, <2>4 DEF Next, Tick, Consume, HandlerEnds, HookEnds, AddSilenceHook, AddResumeHook,
       PublishHealth, StopConsumer, Undeclare, Terminated, vars
<1>. QED  BY <1>1, <1>2

LEMMA QuietStep == TypeInv /\ QuietInv /\ [Next]_vars => QuietInv'
<1>. SUFFICES ASSUME TypeInv, QuietInv, [Next]_vars PROVE QuietInv'
  OBVIOUS
<1>0. CASE UNCHANGED vars
  BY <1>0 DEF vars, QuietInv, closed, consumeVars, hookVars
<1>1. CASE Next
  <2>1. stopPc' \in {"consumer", "closed"} => hookTasks' = {}
    <3>. SUFFICES ASSUME stopPc' \in {"consumer", "closed"} PROVE hookTasks' = {}
      OBVIOUS
    <3>1. CASE RunHooks
      <4>1. ready \in Seq(Callback) /\ ready # <<>> /\ Head(ready).cb = "hooks" /\ closed
        BY <3>1 DEF RunHooks, Running, closed, TypeInv, TypeOK, LoopTypeOK
      <4>2. 1 \in DOMAIN ready /\ ready[1].cb = "hooks"
        BY <4>1
      <4>. QED  BY <4>1, <4>2 DEF QuietInv
    <3>2. CASE ~RunHooks
      BY <1>1, <3>2 DEF Next, ZenohCallback, Tick, TimerDue, RunReady, RunPush, CheckDeadline, RunCancelled,
         Consume, HandlerEnds, HookEnds, AddSilenceHook, AddResumeHook, PublishHealth, Stop, StopConsumer,
         Undeclare, Terminated, vars, hookVars, QuietInv
    <3>. QED  BY <3>1, <3>2
  <2>2. stopPc' = "closed" => consumer' = "done"
    BY <1>1 DEF Next, ZenohCallback, Tick, TimerDue, RunReady, RunPush, CheckDeadline, RunCancelled, RunHooks,
       Consume, HandlerEnds, HookEnds, AddSilenceHook, AddResumeHook, PublishHealth, Stop, StopConsumer,
       Undeclare, Terminated, vars, consumeVars, QuietInv
  <2>. QED  BY <1>1, <2>1, <2>2, QuietReady DEF QuietInv
<1>. QED  BY <1>0, <1>1

\* From the call of stop() nothing is accepted, declared or armed any more, and once it
\* returned no handler and no hook runs (pubsub.py:626-656).
THEOREM StopIsQuiet == Spec => QuietAfterStop
<1>1. TypeInv /\ TimerInv /\ QuietInv /\ TimerInv' /\ [Next]_vars =>
        [/\ closed => UNCHANGED <<received, silent, misses, nodeStop>> /\ timers' = EmptyBag
         /\ stopPc = "closed" => UNCHANGED <<told, hookTasks, consumer, dispatched, errors>>]_vars
  <2>. SUFFICES ASSUME TypeInv, TimerInv, QuietInv, TimerInv', Next
                PROVE  /\ closed => UNCHANGED <<received, silent, misses, nodeStop>> /\ timers' = EmptyBag
                       /\ stopPc = "closed" => UNCHANGED <<told, hookTasks, consumer, dispatched, errors>>
    OBVIOUS
  <2>1. closed => closed'
    BY DEF Next, ZenohCallback, Tick, TimerDue, RunReady, RunPush, CheckDeadline, RunCancelled, RunHooks,
       Consume, HandlerEnds, HookEnds, AddSilenceHook, AddResumeHook, PublishHealth, Stop, StopConsumer,
       Undeclare, Terminated, vars, closed
  <2>2. closed => timers' = EmptyBag
    BY <2>1 DEF TimerInv
  <2>3. closed => UNCHANGED <<received, silent, misses, nodeStop>>
    BY DEF Next, ZenohCallback, Tick, TimerDue, RunReady, RunPush, CheckDeadline, RunCancelled, RunHooks,
       Consume, HandlerEnds, HookEnds, AddSilenceHook, AddResumeHook, PublishHealth, Stop, StopConsumer,
       Undeclare, Terminated, vars, closed, counterVars, silenceVars
  <2>4. ASSUME stopPc = "closed" PROVE UNCHANGED <<told, hookTasks, consumer, dispatched, errors>>
    <3>1. hookTasks = {} /\ consumer = "done" /\ closed
      BY <2>4 DEF QuietInv, closed
    <3>2. ~RunHooks
      <4>. SUFFICES ASSUME RunHooks PROVE FALSE
        OBVIOUS
      <4>1. ready \in Seq(Callback) /\ ready # <<>> /\ Head(ready).cb = "hooks"
        BY DEF RunHooks, Running, TypeInv, TypeOK, LoopTypeOK
      <4>2. 1 \in DOMAIN ready /\ ready[1].cb = "hooks"
        BY <4>1
      <4>. QED  BY <3>1, <4>2 DEF QuietInv
    <3>. QED
      BY <2>4, <3>1, <3>2 DEF Next, ZenohCallback, Tick, TimerDue, RunReady, RunPush, CheckDeadline, RunCancelled,
         Consume, HandlerEnds, HookEnds, AddSilenceHook, AddResumeHook, PublishHealth, Stop, StopConsumer,
         Undeclare, Terminated, vars, counterVars, consumeVars, hookVars
  <2>. QED  BY <2>2, <2>3, <2>4
<1>2. Init => QuietInv
  BY DEF Init, QuietInv, closed
<1>. QED  BY <1>1, <1>2, TypeInit, TypeStep, TimerInit, TimerStep, QuietStep, PTL DEF Spec, QuietAfterStop



(***************************************************************************)
(* A subscription is a mailbox.  Samples reach the loop in the order zenoh   *)
(* numbered them, so each one that enters is newer than the last.           *)
(***************************************************************************)

\* The pushes of s are numbered upwards, above low and up to high.
Rise(s, low, high) ==
    /\ \A i \in DOMAIN s : s[i].cb = "push" => s[i].sample.id > low /\ s[i].sample.id <= high
    /\ \A i, j \in DOMAIN s : i < j /\ s[i].cb = "push" /\ s[j].cb = "push" => s[i].sample.id < s[j].sample.id

MailboxInv ==
    /\ Rise(ready, usable.id, sent) /\ usable.id <= sent
    /\ \A i \in DOMAIN Waiting : Waiting[i].id > 0
    /\ consumer \in {"busy", "cancelling"} => current \in Sample /\ current.id > 0

LEMMA RiseTail ==
    ASSUME NEW s \in Seq(Callback), s # <<>>, NEW low \in Nat, NEW high \in Nat, Rise(s, low, high)
    PROVE  /\ Rise(Tail(s), low, high)
           /\ Head(s).cb = "push" => /\ Head(s).sample.id > low /\ Head(s).sample.id <= high
                                     /\ Rise(Tail(s), Head(s).sample.id, high)
<1>1. /\ \A i \in DOMAIN Tail(s) : i + 1 \in DOMAIN s /\ Tail(s)[i] = s[i + 1] /\ i \in Nat \ {0}
      /\ 1 \in DOMAIN s /\ Head(s) = s[1]
  OBVIOUS
<1>2. Rise(Tail(s), low, high)
  BY <1>1 DEF Rise
<1>3. ASSUME Head(s).cb = "push"
      PROVE  /\ Head(s).sample.id > low /\ Head(s).sample.id <= high
             /\ Rise(Tail(s), Head(s).sample.id, high)
  <2>1. \A i \in DOMAIN Tail(s) : Tail(s)[i].cb = "push" =>
          Tail(s)[i].sample.id > Head(s).sample.id /\ Tail(s)[i].sample.id <= high
    <3>. SUFFICES ASSUME NEW i \in DOMAIN Tail(s), Tail(s)[i].cb = "push"
                  PROVE  Tail(s)[i].sample.id > Head(s).sample.id /\ Tail(s)[i].sample.id <= high
      OBVIOUS
    <3>1. i + 1 \in DOMAIN s /\ 1 < i + 1 /\ Tail(s)[i] = s[i + 1]
      BY <1>1
    <3>2. s[i + 1] \in Callback /\ s[1] \in Callback
      BY <1>1, <3>1
    <3>3. s[i + 1].sample.id \in Nat /\ s[1].sample.id \in Nat
      BY <1>1, <1>3, <3>1, <3>2 DEF Callback, Sample
    <3>4. s[1].sample.id < s[i + 1].sample.id /\ s[i + 1].sample.id <= high
      BY <1>1, <1>3, <3>1 DEF Rise
    <3>. QED  BY <1>1, <3>1, <3>3, <3>4
  <2>. QED  BY <1>1, <1>2, <1>3, <2>1 DEF Rise
<1>. QED  BY <1>2, <1>3

LEMMA RiseAppend ==
    ASSUME NEW s \in Seq(Callback), NEW c \in Callback, NEW low \in Nat, NEW high \in Nat, Rise(s, low, high)
    PROVE  /\ c.cb # "push" => Rise(Append(s, c), low, high)
           /\ c.cb = "push" /\ low <= high /\ c.sample.id = high + 1 => Rise(Append(s, c), low, high + 1)
<1>1. /\ \A i \in DOMAIN s : i \in DOMAIN Append(s, c) /\ Append(s, c)[i] = s[i] /\ i < Len(s) + 1
      /\ \A i \in DOMAIN Append(s, c) : (i \in DOMAIN s /\ Append(s, c)[i] = s[i]) \/ (i = Len(s) + 1 /\ Append(s, c)[i] = c)
      /\ \A i \in DOMAIN s : s[i] \in Callback /\ i \in Nat
      /\ Len(s) \in Nat
  OBVIOUS
<1>2. ASSUME c.cb # "push" PROVE Rise(Append(s, c), low, high)
  BY <1>1, <1>2 DEF Rise
<1>3. ASSUME c.cb = "push", low <= high, c.sample.id = high + 1 PROVE Rise(Append(s, c), low, high + 1)
  <2>1. \A i \in DOMAIN s : s[i].cb = "push" => s[i].sample.id \in Nat
    BY <1>1 DEF Callback, Sample
  <2>. DEFINE a == Append(s, c)
  <2>. HIDE DEF a
  <2>2. /\ \A i \in DOMAIN a : (i \in DOMAIN s /\ a[i] = s[i] /\ i < Len(s) + 1) \/ (i = Len(s) + 1 /\ a[i] = c)
        /\ \A i \in DOMAIN s : i \in Nat
    BY <1>1 DEF a
  <2>3. \A i \in DOMAIN a : a[i].cb = "push" => a[i].sample.id > low /\ a[i].sample.id <= high + 1
    BY <1>3, <2>1, <2>2 DEF Rise
  <2>4. ASSUME NEW i \in DOMAIN a, NEW j \in DOMAIN a, i < j, a[i].cb = "push", a[j].cb = "push"
        PROVE  a[i].sample.id < a[j].sample.id
    <3>1. CASE j \in DOMAIN s /\ a[j] = s[j] /\ j < Len(s) + 1
      <4>1. i \in DOMAIN s /\ a[i] = s[i]
        BY <1>1, <2>2, <2>4, <3>1
      <4>. QED  BY <2>4, <3>1, <4>1 DEF Rise
    <3>2. CASE j = Len(s) + 1 /\ a[j] = c
      <4>1. i \in DOMAIN s /\ a[i] = s[i]
        BY <1>1, <2>2, <2>4, <3>2
      <4>2. s[i].sample.id <= high /\ s[i].sample.id \in Nat
        BY <2>1, <2>4, <4>1 DEF Rise
      <4>. QED  BY <1>3, <3>2, <4>1, <4>2
    <3>. QED  BY <2>2, <3>1, <3>2
  <2>. QED  BY <2>3, <2>4 DEF Rise, a
<1>. QED  BY <1>2, <1>3

LEMMA RiseCancel ==
    ASSUME NEW s, NEW kind, NEW low, NEW high, Rise(s, low, high)
    PROVE  Rise(CancelIn(s, kind), low, high)
<1>1. \A i \in DOMAIN CancelIn(s, kind) : i \in DOMAIN s /\
        (CancelIn(s, kind)[i].cb = "push" => CancelIn(s, kind)[i] = s[i])
  BY DEF CancelIn, Cancelled
<1>. QED  BY <1>1 DEF Rise


LEMMA MailboxCheck ==
    ASSUME TypeInv, MailboxInv, CheckDeadline
    PROVE  Rise(ready', usable.id, sent)
<1>0. /\ ready \in Seq(Callback) /\ ready # <<>> /\ Tail(ready) \in Seq(Callback)
      /\ usable.id \in Nat /\ sent \in Nat /\ misses \in Nat
  BY DEF CheckDeadline, Running, TypeInv, TypeOK, LoopTypeOK, SilenceTypeOK
<1>1. Rise(Tail(ready), usable.id, sent)
  BY <1>0, RiseTail DEF MailboxInv
<1>2. CASE EnterSilence
  <2>. DEFINE a == Spawn(silenceHooks, misses + 1)
              p == Spawn(<<PolicyHook>>, misses + 1)
              b == Append(Tail(ready), a)
  <2>1. a \in Callback /\ a.cb # "push" /\ p \in Callback /\ p.cb # "push"
    <3>1. <<PolicyHook>> \in Seq(Hooks) /\ misses + 1 \in Nat /\ silenceHooks \in Seq(Hooks)
      BY <1>0, HookLists DEF Hooks
    <3>. QED  BY <3>1, SpawnType DEF Spawn
  <2>2. ready' = b \/ ready' = Append(b, p)
    <3>1. ready' = Tail(ready) \o <<a>> \o (IF OnDeadline = "callable" THEN <<p>> ELSE <<>>)
      BY <1>2 DEF EnterSilence
    <3>. HIDE DEF a, p
    <3>2. Tail(ready) \o <<a>> \o <<p>> = Append(Append(Tail(ready), a), p)
          /\ Tail(ready) \o <<a>> \o <<>> = Append(Tail(ready), a)
      BY <1>0, <2>1
    <3>. QED  BY <3>1, <3>2 DEF b
  <2>. HIDE DEF a, p
  <2>3. b \in Seq(Callback) /\ Rise(b, usable.id, sent)
    <3>1. b \in Seq(Callback)
      BY <1>0, <2>1
    <3>2. Rise(b, usable.id, sent)
      BY <1>0, <1>1, <2>1, RiseAppend
    <3>. QED  BY <3>1, <3>2
  <2>. HIDE DEF b
  <2>4. Rise(Append(b, p), usable.id, sent)
    BY <1>0, <2>1, <2>3, RiseAppend
  <2>. QED  BY <2>2, <2>3, <2>4
<1>3. CASE ready' = Tail(ready)
  BY <1>1, <1>3
<1>. QED  BY <1>2, <1>3 DEF CheckDeadline

LEMMA MailboxPush ==
    ASSUME TypeInv, MailboxInv, RunPush
    PROVE  /\ Rise(ready', usable'.id, sent) /\ usable'.id <= sent
           /\ Head(ready).sample \in Sample /\ Head(ready).sample.id > usable.id
<1>. DEFINE s == Head(ready).sample
<1>0. /\ ready \in Seq(Callback) /\ ready # <<>> /\ Tail(ready) \in Seq(Callback) /\ Head(ready).cb = "push"
      /\ Head(ready) \in Callback /\ usable.id \in Nat /\ sent \in Nat /\ misses \in Nat
  BY DEF RunPush, Running, TypeInv, TypeOK, LoopTypeOK, SilenceTypeOK
<1>1. s \in Sample /\ s.id \in Nat
  BY <1>0 DEF Callback, Sample
<1>2. /\ Rise(Tail(ready), usable.id, sent)
      /\ s.id > usable.id /\ s.id <= sent /\ Rise(Tail(ready), s.id, sent)
  BY <1>0, RiseTail DEF MailboxInv
<1>3. CASE closed \/ IsStale(s)
  <2>1. ready' = Tail(ready) /\ usable' = usable
    BY <1>3 DEF RunPush, DropStaleOnArrival
  <2>. QED  BY <1>1, <1>2, <2>1 DEF MailboxInv
<1>4. CASE ~closed /\ ~IsStale(s)
  <2>1. MarkArrival /\ usable'.id = s.id
    BY <1>4 DEF RunPush
  <2>2. CASE ready' = Tail(ready)
    BY <1>1, <1>2, <2>1, <2>2
  <2>3. CASE LeaveSilence
    <3>. DEFINE l == ReadyLeft(Tail(ready))
                c == Spawn(resumeHooks, misses)
    <3>1. ready' = Append(l, c)
      BY <2>3 DEF LeaveSilence
    <3>2. l \in Seq(Callback)
      BY <1>0, CancelHandle
    <3>3. Rise(l, s.id, sent)
      BY <1>2, RiseCancel DEF ReadyLeft
    <3>4. c \in Callback /\ c.cb # "push"
      BY <1>0, SpawnType, HookLists DEF Spawn
    <3>. HIDE DEF l, c, s
    <3>5. Rise(Append(l, c), s.id, sent)
      BY <1>0, <1>1, <3>2, <3>3, <3>4, RiseAppend
    <3>6. Rise(ready', usable'.id, sent)
      BY <2>1, <3>1, <3>5
    <3>7. s \in Sample /\ s.id > usable.id /\ usable'.id <= sent
      BY <1>1, <1>2, <2>1
    <3>. QED  BY <3>6, <3>7 DEF s
  <2>. QED  BY <2>1, <2>2, <2>3 DEF MarkArrival
<1>. QED  BY <1>3, <1>4

LEMMA MailboxRise ==
    ASSUME TypeInv, MailboxInv, Next
    PROVE  Rise(ready', usable'.id, sent') /\ usable'.id <= sent'
<1>0. /\ ready \in Seq(Callback) /\ usable.id \in Nat /\ sent \in Nat /\ misses \in Nat
      /\ Rise(ready, usable.id, sent) /\ usable.id <= sent
  BY DEF TypeInv, TypeOK, LoopTypeOK, SilenceTypeOK, MailboxInv
<1>1. CASE ZenohCallback
  <2>1. PICK transit \in Transits, body \in Bodies :
           ready' = Append(ready, Push([id |-> sent + 1, at |-> now, body |-> body,
                                        ts |-> IF transit = None THEN None ELSE now - transit]))
    BY <1>1 DEF ZenohCallback
  <2>. DEFINE c == Push([id |-> sent + 1, at |-> now, body |-> body,
                         ts |-> IF transit = None THEN None ELSE now - transit])
  <2>2. c \in Callback /\ c.cb = "push" /\ c.sample.id = sent + 1
    BY <1>0 DEF TypeInv, TypeOK, LoopTypeOK, Push, Callback, Sample
  <2>3. ready' = Append(ready, c) /\ sent' = sent + 1 /\ usable' = usable
    BY <1>1, <2>1 DEF ZenohCallback
  <2>. HIDE DEF c
  <2>4. Rise(Append(ready, c), usable.id, sent + 1)
    BY <1>0, <2>2, RiseAppend
  <2>. QED  BY <1>0, <2>3, <2>4
<1>2. CASE TimerDue
  <2>1. Check \in Callback /\ Check.cb # "push"
    BY DEF Check, Callback
  <2>2. Rise(Append(ready, Check), usable.id, sent)
    BY <1>0, <2>1, RiseAppend
  <2>. QED  BY <1>0, <1>2, <2>2 DEF TimerDue
<1>3. CASE RunPush
  BY <1>0, <1>3, MailboxPush DEF RunPush
<1>4. CASE CheckDeadline
  BY <1>0, <1>4, MailboxCheck DEF CheckDeadline
<1>5. CASE RunCancelled \/ RunHooks
  <2>1. ready # <<>> /\ ready' = Tail(ready) /\ UNCHANGED <<sent, usable>>
    BY <1>5 DEF RunCancelled, RunHooks, Running
  <2>2. Rise(Tail(ready), usable.id, sent)
    BY <1>0, <2>1, RiseTail
  <2>. QED  BY <1>0, <2>1, <2>2
<1>6. CASE \E h \in SilenceHooks : AddSilenceHook(h)
  <2>1. PICK h \in SilenceHooks : AddSilenceHook(h)
    BY <1>6
  <2>. DEFINE c == Spawn(<<h>>, misses)
  <2>2. c \in Callback /\ c.cb # "push"
    <3>1. <<h>> \in Seq(Hooks)
      BY DEF Hooks
    <3>. QED  BY <1>0, <3>1, SpawnType DEF Spawn
  <2>3. (ready' = ready \/ ready' = Append(ready, c)) /\ UNCHANGED <<sent, usable>>
    BY <2>1 DEF AddSilenceHook, LateFire
  <2>. HIDE DEF c
  <2>4. Rise(Append(ready, c), usable.id, sent)
    BY <1>0, <2>2, RiseAppend
  <2>. QED  BY <1>0, <2>3, <2>4
<1>7. CASE Stop
  BY <1>0, <1>7, RiseCancel DEF Stop, ReadyLeft
<1>8. CASE UNCHANGED <<ready, usable, sent>>
  BY <1>0, <1>8
<1>. QED
  BY <1>1, <1>2, <1>3, <1>4, <1>5, <1>6, <1>7, <1>8 DEF Next, RunReady, Tick, Consume, HandlerEnds, HookEnds,
     AddResumeHook, PublishHealth, StopConsumer, Undeclare, Terminated, vars


\* What waits or is worked on has a number, which the mailbox's 0 for "none" is not.
LEMMA MailboxNumbers ==
    ASSUME TypeInv, AccountInv, MailboxInv, Next
    PROVE  /\ \A i \in DOMAIN Waiting' : Waiting'[i].id > 0
           /\ consumer' \in {"busy", "cancelling"} => current' \in Sample /\ current'.id > 0
<1>0. /\ queue \in Seq(Sample) /\ latestReady \in BOOLEAN /\ usable.id \in Nat
      /\ latestReady => latest \in Sample
  BY DEF TypeInv, TypeOK, IntakeTypeOK, LoopTypeOK
<1>1. CASE RunPush
  <2>. DEFINE s == Head(ready).sample
  <2>1. s \in Sample /\ s.id > 0 /\ UNCHANGED <<consumer, current>>
    <3>1. s \in Sample /\ s.id > usable.id
      BY <1>1, MailboxPush
    <3>. QED  BY <1>0, <1>1, <3>1 DEF RunPush, consumeVars, Sample
  <2>. HIDE DEF s
  <2>2. CASE UNCHANGED intakeVars
    BY <2>1, <2>2 DEF MailboxInv, Waiting, intakeVars
  <2>3. CASE StoreLatest(s)
    BY <1>0, <2>1, <2>3 DEF StoreLatest, MailboxInv, Waiting
  <2>4. CASE Enqueue(s)
    <3>1. Mode = "queue" /\ queue' = Queued(s)
      BY <2>4 DEF Enqueue
    <3>. DEFINE q == IF Full THEN Tail(queue) ELSE queue
    <3>2. q \in Seq(Sample) /\ \A i \in DOMAIN q : q[i].id > 0
      <4>1. CASE Full
        <5>1. /\ queue # <<>> /\ q = Tail(queue)
          BY <1>0, <4>1 DEF Full
        <5>2. \A i \in DOMAIN Tail(queue) : i + 1 \in DOMAIN queue /\ Tail(queue)[i] = queue[i + 1]
          BY <1>0, <5>1
        <5>. QED  BY <1>0, <3>1, <5>1, <5>2 DEF MailboxInv, Waiting
      <4>2. CASE ~Full
        BY <1>0, <3>1, <4>2 DEF MailboxInv, Waiting
      <4>. QED  BY <4>1, <4>2
    <3>3. Waiting' = Append(q, s)
      BY <3>1 DEF Waiting, Queued
    <3>. HIDE DEF q
    <3>. QED  BY <2>1, <3>2, <3>3 DEF MailboxInv
  <2>. QED  BY <1>1, <2>2, <2>3, <2>4 DEF RunPush, DropStaleOnArrival, s
<1>2. CASE Consume
  <2>1. Waiting # <<>> /\ ~latestReady' /\ queue' = (IF Mode = "queue" THEN Tail(queue) ELSE queue)
        /\ consumer = "idle" /\ (consumer' = "idle" \/ (consumer' = "busy" /\ current' = Head(Waiting)))
    BY <1>2 DEF Consume, ReadyAfterTake
  <2>2. Waiting \in Seq(Sample)
    BY <1>0 DEF Waiting
  <2>3. Waiting' = Tail(Waiting)
    BY <1>0, <2>1 DEF Waiting
  <2>4. /\ \A i \in DOMAIN Tail(Waiting) : i + 1 \in DOMAIN Waiting /\ Tail(Waiting)[i] = Waiting[i + 1]
        /\ 1 \in DOMAIN Waiting /\ Head(Waiting) = Waiting[1] /\ Head(Waiting) \in Sample
    BY <2>1, <2>2
  <2>. QED  BY <2>1, <2>3, <2>4 DEF MailboxInv
<1>3. CASE HandlerEnds
  BY <1>3 DEF HandlerEnds, AfterException, MailboxInv, Waiting, intakeVars
<1>4. CASE StopConsumer
  BY <1>4 DEF StopConsumer, CancelConsumer, MailboxInv, Waiting, intakeVars
<1>5. CASE UNCHANGED <<intakeVars, consumer, current>>
  BY <1>5 DEF MailboxInv, Waiting, intakeVars
<1>. QED
  BY <1>1, <1>2, <1>3, <1>4, <1>5 DEF Next, ZenohCallback, Tick, TimerDue, RunReady, CheckDeadline, RunCancelled,
     RunHooks, HookEnds, AddSilenceHook, AddResumeHook, PublishHealth, Stop, Undeclare, Terminated, vars, consumeVars

LEMMA MailboxStep == TypeInv /\ AccountInv /\ MailboxInv /\ [Next]_vars => MailboxInv'
<1>. SUFFICES ASSUME TypeInv, AccountInv, MailboxInv, [Next]_vars PROVE MailboxInv'
  OBVIOUS
<1>1. CASE Next
  BY <1>1, MailboxRise, MailboxNumbers DEF MailboxInv
<1>2. CASE UNCHANGED vars
  BY <1>2 DEF vars, MailboxInv, Waiting, intakeVars, consumeVars
<1>. QED  BY <1>1, <1>2

\* The numbers of a sequence of samples, as the mailbox sees it.
Ids(w) == [i \in DOMAIN w |-> w[i].id]

LEMMA IdsOf ==
    ASSUME NEW w \in Seq(Sample)
    PROVE  /\ Ids(w) \in Seq(Nat) /\ Len(Ids(w)) = Len(w) /\ (Ids(w) = <<>> <=> w = <<>>)
           /\ \A s \in Sample : Ids(Append(w, s)) = Append(Ids(w), s.id)
           /\ w # <<>> => Ids(Tail(w)) = Tail(Ids(w)) /\ Head(Ids(w)) = Head(w).id
<1>0. Len(w) \in Nat /\ DOMAIN w = 1..Len(w) /\ \A i \in 1..Len(w) : w[i].id \in Nat
  <2>1. Len(w) \in Nat /\ DOMAIN w = 1..Len(w) /\ \A i \in 1..Len(w) : w[i] \in Sample
    OBVIOUS
  <2>. QED  BY <2>1 DEF Sample
<1>1. Ids(w) \in [1..Len(w) -> Nat]
  BY <1>0 DEF Ids
<1>2. Ids(w) \in Seq(Nat) /\ Len(Ids(w)) = Len(w)
  BY <1>0, <1>1, SeqDef
<1>3. Ids(w) = <<>> <=> w = <<>>
  BY <1>0, <1>2
<1>4. ASSUME NEW s \in Sample PROVE Ids(Append(w, s)) = Append(Ids(w), s.id)
  <2>. DEFINE a == Append(w, s)
              b == Append(Ids(w), s.id)
  <2>1. s.id \in Nat
    BY DEF Sample
  <2>2. DOMAIN a = 1..(Len(w) + 1) /\ a[Len(w) + 1] = s /\ \A i \in 1..Len(w) : a[i] = w[i]
    BY <1>0
  <2>3. DOMAIN b = 1..(Len(w) + 1) /\ b[Len(w) + 1] = s.id /\ \A i \in 1..Len(w) : b[i] = w[i].id
    <3>1. \A i \in 1..Len(w) : Ids(w)[i] = w[i].id
      BY <1>0 DEF Ids
    <3>. QED  BY <1>0, <1>2, <2>1, <3>1
  <2>4. b \in Seq(Nat)
    BY <1>2, <2>1
  <2>. HIDE DEF a, b
  <2>5. \A i \in 1..(Len(w) + 1) : b[i] = a[i].id
    BY <1>0, <2>2, <2>3
  <2>6. Ids(a) = [i \in 1..(Len(w) + 1) |-> a[i].id]
    BY <2>2 DEF Ids
  <2>7. b = [i \in 1..(Len(w) + 1) |-> b[i]]
    BY <2>3, <2>4
  <2>8. Ids(a) = b
    BY <2>5, <2>6, <2>7
  <2>. QED  BY <2>8 DEF a, b
<1>5. ASSUME w # <<>> PROVE Ids(Tail(w)) = Tail(Ids(w)) /\ Head(Ids(w)) = Head(w).id
  <2>. DEFINE a == Tail(w)
              b == Tail(Ids(w))
  <2>1. DOMAIN a = 1..(Len(w) - 1) /\ \A i \in 1..(Len(w) - 1) : a[i] = w[i + 1]
    BY <1>0, <1>5
  <2>2. DOMAIN b = 1..(Len(w) - 1) /\ \A i \in 1..(Len(w) - 1) : b[i] = Ids(w)[i + 1]
    BY <1>0, <1>2, <1>5
  <2>3. b \in Seq(Nat)
    BY <1>2, <1>3, <1>5
  <2>4. \A i \in 1..(Len(w) - 1) : Ids(w)[i + 1] = w[i + 1].id
    BY <1>0 DEF Ids
  <2>. HIDE DEF a, b
  <2>5. Ids(a) = [i \in 1..(Len(w) - 1) |-> a[i].id]
    BY <2>1 DEF Ids
  <2>6. b = [i \in 1..(Len(w) - 1) |-> b[i]]
    BY <2>2, <2>3
  <2>7. Ids(a) = b
    BY <2>1, <2>2, <2>4, <2>5, <2>6
  <2>8. Head(Ids(w)) = Head(w).id
    BY <1>0, <1>2, <1>5 DEF Ids
  <2>. QED  BY <2>7, <2>8 DEF a, b
<1>. QED  BY <1>2, <1>3, <1>4, <1>5


LEMMA WaitingType == TypeInv => Waiting \in Seq(Sample)
BY DEF TypeInv, TypeOK, IntakeTypeOK, Waiting

\* The variables of the mailbox after a step, by those of the subscription.
Working == IF consumer \in {"busy", "cancelling"} THEN current.id ELSE 0
MailboxSame == UNCHANGED <<Ids(Waiting), Working, usable.id, ~closed>>

LEMMA SameMaps == MailboxSame => UNCHANGED Abstract!vars
BY DEF MailboxSame, Ids, Working, Abstract!vars

LEMMA PushMaps ==
    ASSUME TypeInv, MailboxInv, RunPush
    PROVE  [Abstract!Next]_Abstract!vars
<1>. DEFINE s == Head(ready).sample
            cap == IF Mode = "queue" THEN QueueSize ELSE 1
            q == IF Len(Waiting) = cap THEN Tail(Waiting) ELSE Waiting
<1>0. /\ s \in Sample /\ s.id > usable.id /\ s.id \in Nat /\ Waiting \in Seq(Sample)
      /\ queue \in Seq(Sample) /\ latestReady \in BOOLEAN
  BY MailboxPush, WaitingType DEF Sample, TypeInv, TypeOK, IntakeTypeOK
<1>1. UNCHANGED <<consumer, current, stopPc>>
  BY DEF RunPush, consumeVars
<1>2. CASE closed \/ IsStale(s)
  <2>1. UNCHANGED <<queue, latest, latestReady, usable>>
    BY <1>2 DEF RunPush, DropStaleOnArrival, intakeVars
  <2>. QED  BY <1>1, <2>1, SameMaps DEF MailboxSame, Ids, Waiting, Working, closed
<1>3. CASE ~closed /\ ~IsStale(s)
  <2>1. usable' = [id |-> s.id, at |-> now] /\ (StoreLatest(s) \/ Enqueue(s))
    BY <1>3 DEF RunPush
  <2>. HIDE DEF s
  <2>2. Waiting' = Append(q, s)
    <3>1. CASE StoreLatest(s)
      <4>1. Waiting' = <<s>> /\ Mode = "latest"
        BY <3>1 DEF StoreLatest, Waiting
      <4>2. q = <<>>
        BY <4>1 DEF Waiting
      <4>. QED  BY <4>1, <4>2
    <3>2. CASE Enqueue(s)
      BY <3>2 DEF Enqueue, Queued, Full, Waiting
    <3>. QED  BY <2>1, <3>1, <3>2
  <2>3. q \in Seq(Sample) /\ Ids(q) = IF Len(Ids(Waiting)) = cap THEN Tail(Ids(Waiting)) ELSE Ids(Waiting)
    <3>1. cap \in Nat \ {0} /\ Len(Ids(Waiting)) = Len(Waiting)
      BY <1>0, IdsOf
    <3>2. CASE Len(Waiting) = cap
      <4>1. Waiting # <<>>
        BY <3>1, <3>2
      <4>. QED  BY <1>0, <3>1, <3>2, <4>1, IdsOf
    <3>3. CASE Len(Waiting) # cap
      BY <1>0, <3>1, <3>3
    <3>. QED  BY <3>2, <3>3
  <2>4. Ids(Waiting)' = Append(IF Len(Ids(Waiting)) = cap THEN Tail(Ids(Waiting)) ELSE Ids(Waiting), s.id)
    <3>1. Ids(Waiting') = Append(Ids(q), s.id)
      <4>. HIDE DEF q
      <4>. QED  BY <1>0, <2>2, <2>3, IdsOf
    <3>2. Ids(Waiting)' = Ids(Waiting')
      BY DEF Ids
    <3>. QED  BY <2>3, <3>1, <3>2
  <2>5. usable'.id = s.id /\ usable'.id \in Nat /\ usable'.id > usable.id
    BY <1>0, <2>1
  <2>6. Working' = Working /\ (~closed)' = ~closed /\ ~closed
    BY <1>1, <1>3 DEF Working, closed
  <2>7. Abstract!Enter
    BY <2>4, <2>5, <2>6 DEF Abstract!Enter, Ids, Working
  <2>. QED  BY <2>7 DEF Abstract!Next
<1>. QED  BY <1>2, <1>3

LEMMA ConsumeMaps ==
    ASSUME TypeInv, MailboxInv, Consume
    PROVE  Abstract!Next
<1>0. Waiting \in Seq(Sample) /\ Waiting # <<>> /\ queue \in Seq(Sample)
  BY WaitingType DEF Consume, TypeInv, TypeOK, IntakeTypeOK
<1>1. Waiting' = Tail(Waiting)
  BY <1>0 DEF Consume, ReadyAfterTake, Waiting
<1>2. /\ Ids(Waiting) # <<>> /\ Ids(Tail(Waiting)) = Tail(Ids(Waiting))
      /\ Head(Ids(Waiting)) = Head(Waiting).id
  BY <1>0, IdsOf
<1>3. Ids(Waiting)' = Tail(Ids(Waiting))
  BY <1>1, <1>2 DEF Ids
<1>4. Working = 0 /\ (Working' = 0 \/ Working' = Head(Ids(Waiting)))
      /\ usable'.id = usable.id /\ (~closed)' = ~closed
  BY <1>2 DEF Consume, Working, closed
<1>. QED  BY <1>2, <1>3, <1>4 DEF Abstract!Next, Abstract!Discard, Abstract!Begin, Ids, Working

LEMMA EndMaps ==
    ASSUME TypeInv, MailboxInv, HandlerEnds
    PROVE  Abstract!Next
<1>1. Working # 0 /\ Working' = 0
  BY DEF HandlerEnds, AfterException, MailboxInv, Sample, Working
<1>2. UNCHANGED <<Ids(Waiting), usable.id, ~closed>>
  BY DEF HandlerEnds, intakeVars, Waiting, Ids, closed
<1>. QED  BY <1>1, <1>2 DEF Abstract!Next, Abstract!End, Ids, Working

LEMMA StopMaps == TypeInv /\ Stop => Abstract!Next
<1>. SUFFICES ASSUME TypeInv, Stop PROVE Abstract!Next
  OBVIOUS
<1>1. UNCHANGED <<Ids(Waiting), Working, usable.id>> /\ ~closed /\ closed'
  BY DEF Stop, intakeVars, consumeVars, Waiting, Ids, Working, closed
<1>2. ~closed = TRUE /\ (~closed)' = FALSE
  BY <1>1
<1>. QED  BY <1>1, <1>2 DEF Abstract!Next, Abstract!Close, Ids, Working

LEMMA SimulationStep ==
    TypeInv /\ AccountInv /\ MailboxInv /\ [Next]_vars => [Abstract!Next]_Abstract!vars
<1>. SUFFICES ASSUME TypeInv, AccountInv, MailboxInv, [Next]_vars PROVE [Abstract!Next]_Abstract!vars
  OBVIOUS
<1>1. CASE RunPush
  BY <1>1, PushMaps
<1>2. CASE Consume \/ HandlerEnds \/ Stop
  BY <1>2, ConsumeMaps, EndMaps, StopMaps
<1>3. CASE StopConsumer
  <2>1. Working' = Working
    BY <1>3 DEF StopConsumer, CancelConsumer, AccountInv, Working
  <2>2. MailboxSame
    BY <1>3, <2>1 DEF StopConsumer, MailboxSame, intakeVars, Waiting, Ids, closed
  <2>. QED  BY <2>2, SameMaps
<1>4. CASE UNCHANGED <<intakeVars, consumer, current, usable, closed>>
  <2>1. MailboxSame
    BY <1>4 DEF MailboxSame, intakeVars, Waiting, Ids, Working
  <2>. QED  BY <2>1, SameMaps
<1>. QED
  BY <1>1, <1>2, <1>3, <1>4 DEF Next, ZenohCallback, Tick, TimerDue, RunReady, CheckDeadline, RunCancelled, RunHooks,
     HookEnds, AddSilenceHook, AddResumeHook, PublishHealth, Undeclare, Terminated, vars, consumeVars, closed

LEMMA MailboxInit == Init => Abstract!Init /\ MailboxInv
<1>. SUFFICES ASSUME Init PROVE Abstract!Init /\ MailboxInv
  OBVIOUS
<1>1. Waiting = <<>> /\ ~closed = TRUE
  BY DEF Init, Waiting, closed
<1>2. Ids(Waiting) = <<>>
  <2>1. <<>> \in Seq(Sample)
    OBVIOUS
  <2>. QED  BY <1>1, <2>1, IdsOf
<1>3. Abstract!Init
  BY <1>1, <1>2 DEF Init, Abstract!Init, Ids
<1>4. MailboxInv
  BY <1>1 DEF Init, MailboxInv, Rise
<1>. QED  BY <1>3, <1>4

\* In either mode, at any capacity, the handler gets the samples of a mailbox: in
\* order, one at a time, the oldest given up first, and none after stop()
\* (pubsub.py:379-456, 626-656).
THEOREM IsAMailbox == Spec => ImplementsMailbox
BY TypeInit, TypeStep, AccountInit, AccountStep, MailboxInit, MailboxStep, SimulationStep, PTL
  DEF Spec, ImplementsMailbox, Abstract!Spec



(***************************************************************************)
(* Each outage is told once.  For each outage a hook is called, still to be  *)
(* called by one task, or neither; a hook that is not attached yet is        *)
(* nowhere, so that attaching it late calls it first.                       *)
(***************************************************************************)

\* The hooks that a silence calls.
Watch == SilenceHooks \cup {PolicyHook}

In(x, s)    == \E k \in DOMAIN s : s[k] = x
Distinct(s) == \A i, j \in DOMAIN s : s[i] = s[j] => i = j

\* h is in a task of the ready list s for outage n; in a started task; was called.
Waits(s, h, n) == \E i \in DOMAIN s : s[i].cb = "hooks" /\ s[i].task.outage = n /\ In(h, s[i].task.hooks)
Runs(h, n)     == \E t \in hookTasks : t.outage = n /\ In(h, t.hooks)
Heard(h, n)    == In(n, told[h])

\* The tasks of s are fresh and of outages up to m, and no hook is in two of them
\* for one outage.
Sane(s, m) ==
    \A i \in DOMAIN s : s[i].cb = "hooks" =>
        Distinct(s[i].task.hooks) /\ s[i].task.outage <= m /\ ~s[i].task.cancelled
Apart(s) ==
    \A i, j \in DOMAIN s :
        i # j /\ s[i].cb = "hooks" /\ s[j].cb = "hooks" /\ s[i].task.outage = s[j].task.outage =>
            \A h \in Watch : ~(In(h, s[i].task.hooks) /\ In(h, s[j].task.hooks))

ReadyOnce == Sane(ready, misses) /\ Apart(ready)
TasksOnce ==
    /\ \A t \in hookTasks : /\ Distinct(t.hooks) /\ t.outage <= misses /\ (t.cancelled => closed)
                            /\ Heard(Head(t.hooks), t.outage)
    /\ \A t \in hookTasks, h \in Watch : In(h, Tail(t.hooks)) => ~Heard(h, t.outage)
    /\ \A t, u \in hookTasks : t # u /\ t.outage = u.outage =>
           \A h \in Watch : ~(In(h, t.hooks) /\ In(h, u.hooks))
CallsOnce ==
    /\ \A h \in Watch : Distinct(told[h]) /\ \A n \in Nat : Heard(h, n) => n <= misses
    /\ \A h \in Watch, n \in Nat : Waits(ready, h, n) => ~Heard(h, n) /\ ~Runs(h, n)
Unattached ==
    \A h \in SilenceHooks : ~In(h, silenceHooks) =>
        \A n \in Nat : ~Heard(h, n) /\ ~Waits(ready, h, n) /\ ~Runs(h, n)
Covered ==
    "cancels" \notin Outcomes /\ silent /\ ~closed =>
        \A h \in SilenceHooks : In(h, silenceHooks) =>
            Heard(h, misses) \/ Waits(ready, h, misses) \/ Runs(h, misses)

OnceInv ==
    /\ Distinct(silenceHooks) /\ Distinct(resumeHooks)
    /\ ReadyOnce /\ TasksOnce /\ CallsOnce /\ Unattached /\ Covered

LEMMA InAppend ==
    ASSUME NEW T, NEW s \in Seq(T), NEW x \in T
    PROVE  /\ \A y : In(y, Append(s, x)) <=> In(y, s) \/ y = x
           /\ Distinct(s) /\ ~In(x, s) => Distinct(Append(s, x))
<1>1. /\ \A i \in DOMAIN s : i \in DOMAIN Append(s, x) /\ Append(s, x)[i] = s[i]
      /\ \A i \in DOMAIN Append(s, x) : (i \in DOMAIN s /\ Append(s, x)[i] = s[i]) \/ (i = Len(s) + 1 /\ Append(s, x)[i] = x)
      /\ Len(s) + 1 \in DOMAIN Append(s, x) /\ Append(s, x)[Len(s) + 1] = x
  OBVIOUS
<1>2. \A y : In(y, Append(s, x)) <=> In(y, s) \/ y = x
  BY <1>1 DEF In
<1>3. Distinct(s) /\ ~In(x, s) => Distinct(Append(s, x))
  BY <1>1 DEF In, Distinct
<1>. QED  BY <1>2, <1>3

LEMMA InTail ==
    ASSUME NEW T, NEW s \in Seq(T), s # <<>>
    PROVE  /\ \A y : In(y, s) <=> In(y, Tail(s)) \/ y = Head(s)
           /\ Distinct(s) => Distinct(Tail(s)) /\ ~In(Head(s), Tail(s))
<1>1. /\ \A i \in DOMAIN Tail(s) : i + 1 \in DOMAIN s /\ Tail(s)[i] = s[i + 1] /\ i \in Nat \ {0}
      /\ \A i \in DOMAIN s : i \in Nat /\ (i # 1 => i - 1 \in DOMAIN Tail(s) /\ Tail(s)[i - 1] = s[i])
      /\ 1 \in DOMAIN s /\ Head(s) = s[1]
  OBVIOUS
<1>2. \A y : In(y, s) <=> In(y, Tail(s)) \/ y = Head(s)
  <2>. TAKE y
  <2>1. ASSUME In(y, s) PROVE In(y, Tail(s)) \/ y = Head(s)
    BY <1>1, <2>1 DEF In
  <2>2. ASSUME In(y, Tail(s)) PROVE In(y, s)
    BY <1>1, <2>2 DEF In
  <2>3. ASSUME y = Head(s) PROVE In(y, s)
    BY <1>1, <2>3 DEF In
  <2>. QED  BY <2>1, <2>2, <2>3
<1>3. ASSUME Distinct(s) PROVE Distinct(Tail(s)) /\ ~In(Head(s), Tail(s))
  <2>1. Distinct(Tail(s))
    <3>. SUFFICES ASSUME NEW i \in DOMAIN Tail(s), NEW j \in DOMAIN Tail(s), Tail(s)[i] = Tail(s)[j]
                  PROVE  i = j
      BY DEF Distinct
    <3>1. i + 1 = j + 1
      BY <1>1, <1>3 DEF Distinct
    <3>. QED  BY <1>1, <3>1
  <2>2. ~In(Head(s), Tail(s))
    <3>. SUFFICES ASSUME NEW i \in DOMAIN Tail(s), Tail(s)[i] = Head(s) PROVE FALSE
      BY DEF In
    <3>1. i + 1 = 1 /\ i # 0 /\ i \in Nat
      BY <1>1, <1>3 DEF Distinct
    <3>. QED  BY <3>1
  <2>. QED  BY <2>1, <2>2
<1>. QED  BY <1>2, <1>3

\* A callback of another kind enters or leaves.
LEMMA OthersEnter ==
    ASSUME NEW s \in Seq(Callback), NEW c \in Callback, c.cb # "hooks"
    PROVE  /\ \A m : Sane(s, m) => Sane(Append(s, c), m)
           /\ Apart(s) => Apart(Append(s, c))
           /\ \A h, n : Waits(Append(s, c), h, n) <=> Waits(s, h, n)
<1>1. /\ \A i \in DOMAIN s : i \in DOMAIN Append(s, c) /\ Append(s, c)[i] = s[i]
      /\ \A i \in DOMAIN Append(s, c) : Append(s, c)[i].cb = "hooks" => i \in DOMAIN s
  OBVIOUS
<1>2. \A m : Sane(s, m) => Sane(Append(s, c), m)
  BY <1>1 DEF Sane
<1>3. Apart(s) => Apart(Append(s, c))
  <2>. SUFFICES ASSUME Apart(s) PROVE Apart(Append(s, c))
    OBVIOUS
  <2>. DEFINE a == Append(s, c)
  <2>. HIDE DEF a
  <2>1. \A i \in DOMAIN a : a[i].cb = "hooks" => i \in DOMAIN s /\ a[i] = s[i]
    BY <1>1 DEF a
  <2>2. Apart(a)
    BY <2>1 DEF Apart
  <2>. QED  BY <2>2 DEF a
<1>4. \A h, n : Waits(Append(s, c), h, n) <=> Waits(s, h, n)
  BY <1>1 DEF Waits
<1>. QED  BY <1>2, <1>3, <1>4

LEMMA HeadLeaves ==
    ASSUME NEW s \in Seq(Callback), s # <<>>
    PROVE  /\ \A m : Sane(s, m) => Sane(Tail(s), m)
           /\ Apart(s) => Apart(Tail(s))
           /\ \A h, n : Waits(Tail(s), h, n) => Waits(s, h, n)
           /\ Head(s).cb # "hooks" => \A h, n : Waits(s, h, n) => Waits(Tail(s), h, n)
           /\ Head(s).cb = "hooks" =>
                /\ \A m : Sane(s, m) => /\ Distinct(Head(s).task.hooks) /\ Head(s).task.outage <= m
                                        /\ ~Head(s).task.cancelled
                /\ \A h, n : Waits(s, h, n) <=>
                     Waits(Tail(s), h, n) \/ (Head(s).task.outage = n /\ In(h, Head(s).task.hooks))
                /\ Apart(s) => \A h \in Watch : In(h, Head(s).task.hooks) => ~Waits(Tail(s), h, Head(s).task.outage)
<1>1. /\ \A i \in DOMAIN Tail(s) : i + 1 \in DOMAIN s /\ Tail(s)[i] = s[i + 1] /\ i \in Nat \ {0}
      /\ \A i \in DOMAIN s : i \in Nat /\ (i # 1 => i - 1 \in DOMAIN Tail(s) /\ Tail(s)[i - 1] = s[i])
      /\ 1 \in DOMAIN s /\ Head(s) = s[1]
  OBVIOUS
<1>. DEFINE a == Tail(s)
<1>2. \A m : Sane(s, m) => Sane(a, m)
  BY <1>1 DEF Sane
<1>3. Apart(s) => Apart(a)
  <2>. SUFFICES ASSUME Apart(s), NEW i \in DOMAIN a, NEW j \in DOMAIN a, i # j,
                       a[i].cb = "hooks", a[j].cb = "hooks", a[i].task.outage = a[j].task.outage,
                       NEW h \in Watch
                PROVE  ~(In(h, a[i].task.hooks) /\ In(h, a[j].task.hooks))
    BY DEF Apart
  <2>1. i + 1 # j + 1 /\ i + 1 \in DOMAIN s /\ j + 1 \in DOMAIN s /\ a[i] = s[i + 1] /\ a[j] = s[j + 1]
    BY <1>1
  <2>. HIDE DEF a
  <2>. QED  BY <2>1 DEF Apart
<1>4. ASSUME NEW h, NEW n, Waits(a, h, n) PROVE Waits(s, h, n)
  BY <1>1, <1>4 DEF Waits
<1>5. ASSUME NEW h, NEW n, Waits(s, h, n)
      PROVE  Waits(a, h, n) \/ (Head(s).cb = "hooks" /\ Head(s).task.outage = n /\ In(h, Head(s).task.hooks))
  <2>1. PICK i \in DOMAIN s : s[i].cb = "hooks" /\ s[i].task.outage = n /\ In(h, s[i].task.hooks)
    BY <1>5 DEF Waits
  <2>2. CASE i = 1
    BY <1>1, <2>1, <2>2
  <2>3. CASE i # 1
    BY <1>1, <2>1, <2>3 DEF Waits
  <2>. QED  BY <2>2, <2>3
<1>6. ASSUME Head(s).cb = "hooks", NEW h, NEW n, Head(s).task.outage = n, In(h, Head(s).task.hooks)
      PROVE  Waits(s, h, n)
  BY <1>1, <1>6 DEF Waits
<1>7. ASSUME Head(s).cb = "hooks", Apart(s), NEW h \in Watch, In(h, Head(s).task.hooks)
      PROVE  ~Waits(a, h, Head(s).task.outage)
  <2>. SUFFICES ASSUME NEW i \in DOMAIN a, a[i].cb = "hooks", a[i].task.outage = Head(s).task.outage,
                       In(h, a[i].task.hooks)
                PROVE  FALSE
    BY DEF Waits
  <2>1. i + 1 # 1 /\ i + 1 \in DOMAIN s /\ 1 \in DOMAIN s /\ a[i] = s[i + 1] /\ Head(s) = s[1]
    BY <1>1
  <2>. HIDE DEF a
  <2>. QED  BY <1>7, <2>1 DEF Apart
<1>8. Head(s).cb = "hooks" => \A m : Sane(s, m) => /\ Distinct(Head(s).task.hooks) /\ Head(s).task.outage <= m
                                                    /\ ~Head(s).task.cancelled
  BY <1>1 DEF Sane
<1>. HIDE DEF a
<1>. QED  BY <1>2, <1>3, <1>4, <1>5, <1>6, <1>7, <1>8 DEF a


\* A hook task is created: its hooks wait for their outage, besides all that did.
LEMMA SpawnEnters ==
    ASSUME NEW s \in Seq(Callback), NEW hooks \in Seq(Hooks), NEW n \in Nat
    PROVE  /\ Append(s, Spawn(hooks, n)) \in Seq(Callback)
           /\ \A m : Sane(s, m) /\ Distinct(hooks) /\ n <= m => Sane(Append(s, Spawn(hooks, n)), m)
           /\ Apart(s) /\ (\A h \in Watch : In(h, hooks) => ~Waits(s, h, n)) => Apart(Append(s, Spawn(hooks, n)))
           /\ \A h, k : Waits(Append(s, Spawn(hooks, n)), h, k) <=> Waits(s, h, k) \/ (k = n /\ In(h, hooks))
<1>. DEFINE c == Spawn(hooks, n)
            a == Append(s, c)
<1>1. c \in Callback
  BY DEF Spawn, Callback, HookTask
<1>2. c.cb = "hooks" /\ c.task.hooks = hooks /\ c.task.outage = n /\ ~c.task.cancelled
  BY DEF Spawn
<1>. HIDE DEF c
<1>3. /\ \A i \in DOMAIN s : i \in DOMAIN a /\ a[i] = s[i]
      /\ \A i \in DOMAIN a : (i \in DOMAIN s /\ a[i] = s[i]) \/ (i = Len(s) + 1 /\ a[i] = c)
      /\ Len(s) + 1 \in DOMAIN a /\ a[Len(s) + 1] = c
  BY <1>1
<1>4. a \in Seq(Callback)
  BY <1>1
<1>. HIDE DEF a
<1>5. ASSUME NEW m, Sane(s, m), Distinct(hooks), n <= m PROVE Sane(a, m)
  BY <1>2, <1>3, <1>5 DEF Sane
<1>6. ASSUME Apart(s), \A h \in Watch : In(h, hooks) => ~Waits(s, h, n) PROVE Apart(a)
  <2>. SUFFICES ASSUME NEW i \in DOMAIN a, NEW j \in DOMAIN a, i # j,
                       a[i].cb = "hooks", a[j].cb = "hooks", a[i].task.outage = a[j].task.outage,
                       NEW h \in Watch, In(h, a[i].task.hooks), In(h, a[j].task.hooks)
                PROVE  FALSE
    BY DEF Apart
  <2>1. CASE a[i] = s[i] /\ i \in DOMAIN s /\ a[j] = s[j] /\ j \in DOMAIN s
    BY <1>6, <2>1 DEF Apart
  <2>2. CASE a[i] = s[i] /\ i \in DOMAIN s /\ a[j] = c
    BY <1>2, <1>6, <2>2 DEF Waits
  <2>3. CASE a[i] = c /\ a[j] = s[j] /\ j \in DOMAIN s
    BY <1>2, <1>6, <2>3 DEF Waits
  <2>. QED  BY <1>3, <2>1, <2>2, <2>3
<1>7. ASSUME NEW h, NEW k PROVE Waits(a, h, k) <=> Waits(s, h, k) \/ (k = n /\ In(h, hooks))
  <2>1. ASSUME Waits(s, h, k) PROVE Waits(a, h, k)
    BY <1>3, <2>1 DEF Waits
  <2>2. ASSUME k = n, In(h, hooks) PROVE Waits(a, h, k)
    BY <1>2, <1>3, <2>2 DEF Waits
  <2>3. ASSUME Waits(a, h, k) PROVE Waits(s, h, k) \/ (k = n /\ In(h, hooks))
    BY <1>2, <1>3, <2>3 DEF Waits
  <2>. QED  BY <2>1, <2>2, <2>3
<1>. QED  BY <1>4, <1>5, <1>6, <1>7 DEF a, c

\* A cancelled check disturbs no hook task; after a stop none waits.
LEMMA CancelledTasks ==
    ASSUME NEW s \in Seq(Callback)
    PROVE  /\ \A m : Sane(s, m) => Sane(CancelIn(s, "check"), m)
           /\ Apart(s) => Apart(CancelIn(s, "check"))
           /\ \A h, n : Waits(CancelIn(s, "check"), h, n) <=> Waits(s, h, n)
           /\ \A m : Sane(CancelIn(s, "hooks"), m)
           /\ Apart(CancelIn(s, "hooks"))
           /\ \A h, n : ~Waits(CancelIn(s, "hooks"), h, n)
<1>. DEFINE a == CancelIn(s, "check")
            b == CancelIn(s, "hooks")
<1>1. /\ \A i \in DOMAIN a : i \in DOMAIN s /\ (a[i].cb = "hooks" => a[i] = s[i])
      /\ \A i \in DOMAIN s : i \in DOMAIN a /\ (s[i].cb = "hooks" => a[i] = s[i])
  BY DEF CancelIn, Cancelled
<1>2. \A i \in DOMAIN b : b[i].cb # "hooks"
  BY DEF CancelIn, Cancelled
<1>. HIDE DEF a, b
<1>3. \A m : Sane(s, m) => Sane(a, m)
  BY <1>1 DEF Sane
<1>4. Apart(s) => Apart(a)
  BY <1>1 DEF Apart
<1>5. \A h, n : Waits(a, h, n) <=> Waits(s, h, n)
  BY <1>1 DEF Waits
<1>6. (\A m : Sane(b, m)) /\ Apart(b) /\ \A h, n : ~Waits(b, h, n)
  BY <1>2 DEF Sane, Apart, Waits
<1>. QED  BY <1>3, <1>4, <1>5, <1>6 DEF a, b

LEMMA SaneLater ==
    ASSUME NEW s \in Seq(Callback), NEW m \in Nat, Sane(s, m)
    PROVE  Sane(s, m + 1)
<1>. SUFFICES ASSUME NEW i \in DOMAIN s, s[i].cb = "hooks" PROVE s[i].task.outage <= m + 1
  BY DEF Sane
<1>1. s[i] \in Callback
  OBVIOUS
<1>2. s[i].task.outage \in Nat
  BY <1>1 DEF Callback, HookTask
<1>. QED  BY <1>2 DEF Sane


\* A step that calls no hook and creates no task keeps the account, whatever other
\* callbacks it adds to the ready list or takes from it.
LEMMA OnceFrame ==
    ASSUME OnceInv, UNCHANGED <<misses, told, hookTasks, silenceHooks>>, Distinct(resumeHooks'),
           Sane(ready', misses), Apart(ready'),
           \A h, n : Waits(ready', h, n) => Waits(ready, h, n),
           closed => closed', silent' /\ ~closed' => silent,
           ~closed' => \A h, n : Waits(ready, h, n) => Waits(ready', h, n)
    PROVE  OnceInv'
<1>1. \A h, n : Heard(h, n)' <=> Heard(h, n)
  BY DEF Heard
<1>2. \A h, n : Runs(h, n)' <=> Runs(h, n)
  BY DEF Runs
<1>3. ReadyOnce' /\ Distinct(silenceHooks)' /\ Distinct(resumeHooks)'
  BY DEF OnceInv, ReadyOnce
<1>4. TasksOnce'
  BY <1>1 DEF OnceInv, TasksOnce
<1>5. CallsOnce'
  BY <1>1, <1>2 DEF OnceInv, CallsOnce
<1>6. Unattached'
  BY <1>1, <1>2 DEF OnceInv, Unattached
<1>7. Covered'
  BY <1>1, <1>2 DEF OnceInv, Covered
<1>. QED  BY <1>3, <1>4, <1>5, <1>6, <1>7 DEF OnceInv

\* Zenoh or a timer adds a callback that is no hook task.
LEMMA OnceArrival == TypeInv /\ OnceInv /\ (ZenohCallback \/ TimerDue) => OnceInv'
<1>. SUFFICES ASSUME TypeInv, OnceInv, ZenohCallback \/ TimerDue PROVE OnceInv'
  OBVIOUS
<1>1. ready \in Seq(Callback)
  BY DEF TypeInv, TypeOK, LoopTypeOK
<1>2. PICK c \in Callback : c.cb # "hooks" /\ ready' = Append(ready, c)
  <2>1. CASE ZenohCallback
    <3>1. PICK transit \in Transits, body \in Bodies :
              ready' = Append(ready, Push([id |-> sent + 1, at |-> now, body |-> body,
                                           ts |-> IF transit = None THEN None ELSE now - transit]))
      BY <2>1 DEF ZenohCallback
    <3>2. /\ Push([id |-> sent + 1, at |-> now, body |-> body,
                   ts |-> IF transit = None THEN None ELSE now - transit]) \in Callback
          /\ Push([id |-> sent + 1, at |-> now, body |-> body,
                   ts |-> IF transit = None THEN None ELSE now - transit]).cb # "hooks"
      BY DEF TypeInv, TypeOK, LoopTypeOK, Push, Callback, Sample
    <3>. QED  BY <3>1, <3>2
  <2>2. CASE TimerDue
    BY <2>2 DEF TimerDue, Check, Callback
  <2>. QED  BY <2>1, <2>2
<1>3. UNCHANGED <<misses, told, hookTasks, silenceHooks, resumeHooks, silent, stopPc>>
  BY DEF ZenohCallback, TimerDue, silenceVars, hookVars
<1>4. Sane(ready, misses) /\ Apart(ready) /\ Distinct(resumeHooks')
  BY <1>3 DEF OnceInv, ReadyOnce
<1>. QED  BY <1>1, <1>2, <1>3, <1>4, OthersEnter, OnceFrame DEF closed

\* The rest of the subscription: the ready list stays, or loses a callback that is no
\* hook task.
LEMMA OnceElsewhere ==
    ASSUME TypeInv, OnceInv,
           UNCHANGED <<misses, told, hookTasks, silenceHooks, resumeHooks>>,
           closed => closed', silent' => silent,
           ready' = ready \/ (ready # <<>> /\ Head(ready).cb # "hooks" /\ ready' = Tail(ready))
    PROVE  OnceInv'
<1>1. ready \in Seq(Callback)
  BY DEF TypeInv, TypeOK, LoopTypeOK
<1>2. Sane(ready, misses) /\ Apart(ready) /\ Distinct(resumeHooks')
  BY DEF OnceInv, ReadyOnce
<1>3. CASE ready' = ready
  BY <1>2, <1>3, OnceFrame
<1>4. CASE ready # <<>> /\ Head(ready).cb # "hooks" /\ ready' = Tail(ready)
  BY <1>1, <1>2, <1>4, HeadLeaves, OnceFrame
<1>. QED  BY <1>3, <1>4

\* A usable sample ends a silence: the resume hooks wait for their call, no hook of
\* a silence is among them.
LEMMA OncePush == TypeInv /\ OnceInv /\ RunPush => OnceInv'
<1>. SUFFICES ASSUME TypeInv, OnceInv, RunPush PROVE OnceInv'
  OBVIOUS
<1>1. ready \in Seq(Callback) /\ ready # <<>> /\ Head(ready).cb # "hooks" /\ misses \in Nat
  BY DEF TypeInv, TypeOK, LoopTypeOK, SilenceTypeOK, RunPush, Running
<1>2. Tail(ready) \in Seq(Callback)
  BY <1>1
<1>3. UNCHANGED <<told, hookTasks, silenceHooks, resumeHooks, stopPc>>
  BY DEF RunPush, hookVars
<1>4. CASE ready' = Tail(ready) /\ UNCHANGED <<silent, misses>>
  BY <1>1, <1>3, <1>4, OnceElsewhere DEF closed
<1>5. CASE LeaveSilence /\ UNCHANGED misses
  <2>. DEFINE left == ReadyLeft(Tail(ready))
  <2>1. Sane(ready, misses) /\ Apart(ready) /\ Distinct(resumeHooks)
    BY DEF OnceInv, ReadyOnce
  <2>2. /\ left \in Seq(Callback) /\ Sane(left, misses) /\ Apart(left)
        /\ \A h, n : Waits(left, h, n) <=> Waits(ready, h, n)
    <3>1. /\ Sane(Tail(ready), misses) /\ Apart(Tail(ready))
          /\ \A h, n : Waits(Tail(ready), h, n) <=> Waits(ready, h, n)
      BY <1>1, <2>1, HeadLeaves
    <3>. QED  BY <1>2, <3>1, CancelledTasks, CancelInType DEF ReadyLeft
  <2>3. resumeHooks \in Seq(Hooks) /\ \A h \in Watch : ~In(h, resumeHooks)
    BY DEF TypeInv, TypeOK, HookTypeOK, Hooks, Watch, In
  <2>4. ready' = Append(left, Spawn(resumeHooks, misses)) /\ ~silent'
    BY <1>5 DEF LeaveSilence
  <2>. HIDE DEF left
  <2>5. /\ Sane(ready', misses) /\ Apart(ready')
        /\ \A h, k : Waits(ready', h, k) <=> Waits(left, h, k) \/ (k = misses /\ In(h, resumeHooks))
    BY <1>1, <2>1, <2>2, <2>3, <2>4, SpawnEnters
  <2>6. \A h \in Watch : \A n : Waits(ready', h, n) <=> Waits(ready, h, n)
    BY <2>2, <2>3, <2>5
  <2>7. \A h, n : (Heard(h, n)' <=> Heard(h, n)) /\ (Runs(h, n)' <=> Runs(h, n))
    BY <1>3 DEF Heard, Runs
  <2>8. SilenceHooks \subseteq Watch
    BY DEF Watch
  <2>9. ReadyOnce' /\ Distinct(silenceHooks)' /\ Distinct(resumeHooks)'
    BY <1>3, <1>5, <2>5 DEF OnceInv, ReadyOnce
  <2>10. TasksOnce'
    BY <1>3, <1>5, <2>7 DEF OnceInv, TasksOnce, closed
  <2>11. CallsOnce'
    BY <1>3, <1>5, <2>6, <2>7 DEF OnceInv, CallsOnce
  <2>12. Unattached'
    BY <1>3, <2>6, <2>7, <2>8 DEF OnceInv, Unattached
  <2>13. Covered'
    BY <2>4 DEF Covered
  <2>. QED  BY <2>9, <2>10, <2>11, <2>12, <2>13 DEF OnceInv
<1>6. \/ ready' = Tail(ready) /\ UNCHANGED <<silent, misses>>
      \/ LeaveSilence /\ UNCHANGED misses
  BY DEF RunPush, MarkArrival, DropStaleOnArrival, silenceVars
<1>. QED  BY <1>4, <1>5, <1>6


\* A new outage: no hook has heard of it, and the attached ones wait for it.
LEMMA OnceSilence == TypeInv /\ OnceInv /\ ready # <<>> /\ Head(ready).cb # "hooks" /\ EnterSilence
                       /\ UNCHANGED <<told, hookTasks, silenceHooks, resumeHooks, stopPc>> => OnceInv'
<1>. SUFFICES ASSUME TypeInv, OnceInv, ready # <<>>, Head(ready).cb # "hooks", EnterSilence,
                     UNCHANGED <<told, hookTasks, silenceHooks, resumeHooks, stopPc>>
              PROVE  OnceInv'
  OBVIOUS
<1>. DEFINE m    == misses + 1
            rest == Tail(ready)
            one  == Append(rest, Spawn(silenceHooks, m))
            two  == Append(one, Spawn(<<PolicyHook>>, m))
<1>1. ready \in Seq(Callback) /\ rest \in Seq(Callback) /\ misses \in Nat /\ m \in Nat
  BY DEF TypeInv, TypeOK, LoopTypeOK, SilenceTypeOK
<1>2. /\ silenceHooks \in Seq(SilenceHooks) /\ silenceHooks \in Seq(Hooks)
      /\ <<PolicyHook>> \in Seq(Hooks) /\ PolicyHook \in Watch /\ SilenceHooks \subseteq Watch
  BY DEF TypeInv, TypeOK, HookTypeOK, Hooks, Watch
<1>3. misses' = m /\ silent' /\ ready' \in {one, two}
  <2>1. \A x : rest \o <<x>> = Append(rest, x)
    BY <1>1
  <2>2. \A x, y : (rest \o <<x>>) \o <<y>> = Append(Append(rest, x), y)
    BY <1>1
  <2>3. \A x : (rest \o <<x>>) \o <<>> = Append(rest, x)
    BY <1>1
  <2>. QED  BY <2>1, <2>2, <2>3 DEF EnterSilence
<1>4. Sane(rest, m) /\ Apart(rest) /\ \A h, n : Waits(rest, h, n) <=> Waits(ready, h, n)
  <2>1. Sane(ready, misses) /\ Apart(ready)
    BY DEF OnceInv, ReadyOnce
  <2>2. Sane(rest, misses) /\ Apart(rest) /\ \A h, n : Waits(rest, h, n) <=> Waits(ready, h, n)
    BY <1>1, <2>1, HeadLeaves
  <2>. HIDE DEF rest
  <2>. QED  BY <1>1, <2>2, SaneLater
<1>5. \A h : ~Waits(ready, h, m)
  <2>. SUFFICES ASSUME NEW i \in DOMAIN ready, ready[i].cb = "hooks", ready[i].task.outage = m PROVE FALSE
    BY DEF Waits
  <2>. QED  BY <1>1 DEF OnceInv, ReadyOnce, Sane
<1>6. \A h \in Watch : ~Heard(h, m) /\ ~Runs(h, m)
  <2>1. \A h \in Watch : ~Heard(h, m)
    BY <1>1 DEF OnceInv, CallsOnce
  <2>2. \A h : ~Runs(h, m)
    BY <1>1 DEF OnceInv, TasksOnce, Runs
  <2>. QED  BY <2>1, <2>2
<1>7. Distinct(silenceHooks) /\ ~In(PolicyHook, silenceHooks)
  BY <1>2 DEF OnceInv, In
<1>8. Distinct(<<PolicyHook>>) /\ \A h : In(h, <<PolicyHook>>) <=> h = PolicyHook
  BY DEF Distinct, In
<1>9. /\ one \in Seq(Callback) /\ Sane(one, m) /\ Apart(one)
      /\ \A h, k : Waits(one, h, k) <=> Waits(ready, h, k) \/ (k = m /\ In(h, silenceHooks))
  <2>. HIDE DEF m, rest
  <2>. QED  BY <1>1, <1>2, <1>4, <1>5, <1>7, SpawnEnters
<1>10. /\ Sane(two, m) /\ Apart(two)
       /\ \A h, k : Waits(two, h, k) <=> Waits(one, h, k) \/ (k = m /\ h = PolicyHook)
  <2>1. ~Waits(one, PolicyHook, m)
    BY <1>5, <1>7, <1>9
  <2>. DEFINE p == <<PolicyHook>>
  <2>2. p \in Seq(Hooks) /\ Distinct(p) /\ m <= m /\ \A h \in Watch : In(h, p) => ~Waits(one, h, m)
    BY <1>1, <1>2, <1>8, <2>1
  <2>. HIDE DEF one, m, p
  <2>3. /\ Sane(two, m) /\ Apart(two)
        /\ \A h, k : Waits(two, h, k) <=> Waits(one, h, k) \/ (k = m /\ In(h, p))
    BY <1>1, <1>9, <2>2, SpawnEnters DEF p
  <2>. QED  BY <1>8, <2>3 DEF p
<1>. HIDE DEF one, two, m
<1>11. ReadyOnce' /\ Distinct(silenceHooks)' /\ Distinct(resumeHooks)'
  BY <1>3, <1>9, <1>10 DEF OnceInv, ReadyOnce
<1>12. /\ \A h, n : (Heard(h, n)' <=> Heard(h, n)) /\ (Runs(h, n)' <=> Runs(h, n))
       /\ \A h, n : Waits(ready, h, n) => Waits(ready', h, n)
       /\ \A h, n : Waits(ready', h, n) => Waits(ready, h, n) \/ (n = m /\ (In(h, silenceHooks) \/ h = PolicyHook))
       /\ \A h : In(h, silenceHooks) => Waits(ready', h, m)
  BY <1>3, <1>9, <1>10 DEF Heard, Runs
<1>13. TasksOnce'
  <2>1. \A t \in hookTasks : t.outage <= m
    BY <1>1 DEF m, OnceInv, TasksOnce, TypeInv, TypeOK, HookTypeOK, HookTask
  <2>. QED  BY <1>3, <1>12, <2>1 DEF OnceInv, TasksOnce, closed
<1>14. CallsOnce'
  <2>1. \A n \in Nat : n <= misses => n <= m
    BY <1>1 DEF m
  <2>2. \A h \in Watch : Distinct(told'[h]) /\ \A n \in Nat : Heard(h, n)' => n <= misses'
    BY <1>3, <1>12, <2>1 DEF OnceInv, CallsOnce
  <2>3. \A h \in Watch, n \in Nat : Waits(ready', h, n) => ~Heard(h, n)' /\ ~Runs(h, n)'
    BY <1>6, <1>12 DEF OnceInv, CallsOnce
  <2>. QED  BY <2>2, <2>3 DEF CallsOnce
<1>15. Unattached'
  BY <1>2, <1>12 DEF OnceInv, Unattached, Watch
<1>16. Covered'
  BY <1>3, <1>12 DEF Covered
<1>. QED  BY <1>11, <1>13, <1>14, <1>15, <1>16 DEF OnceInv

LEMMA OnceCheck == TypeInv /\ OnceInv /\ CheckDeadline => OnceInv'
<1>. SUFFICES ASSUME TypeInv, OnceInv, CheckDeadline PROVE OnceInv'
  OBVIOUS
<1>1. /\ ready # <<>> /\ Head(ready).cb # "hooks"
      /\ UNCHANGED <<told, hookTasks, silenceHooks, resumeHooks, stopPc>>
  BY DEF CheckDeadline, Running, hookVars
<1>2. EnterSilence \/ (ready' = Tail(ready) /\ UNCHANGED <<silent, misses>>)
  BY DEF CheckDeadline
<1>3. CASE EnterSilence
  BY <1>1, <1>3, OnceSilence
<1>4. CASE ready' = Tail(ready) /\ UNCHANGED <<silent, misses>>
  BY <1>1, <1>4, OnceElsewhere DEF closed
<1>. QED  BY <1>2, <1>3, <1>4


\* A hook is called for an outage it had not heard of.
LEMMA CallHears ==
    ASSUME TypeInv, NEW g \in Hooks, NEW n \in Nat, told' = [told EXCEPT ![g] = Append(@, n)]
    PROVE  /\ \A h \in Hooks : \A k : Heard(h, k)' <=> Heard(h, k) \/ (h = g /\ k = n)
           /\ \A h \in Hooks : Distinct(told[h]) /\ (h = g => ~Heard(h, n)) => Distinct(told'[h])
<1>1. told \in [Hooks -> Seq(Nat)]
  BY DEF TypeInv, TypeOK, HookTypeOK
<1>2. told'[g] = Append(told[g], n) /\ \A h \in Hooks : h # g => told'[h] = told[h]
  BY <1>1
<1>3. told[g] \in Seq(Nat)
  BY <1>1
<1>4. (\A k : Heard(g, k)' <=> Heard(g, k) \/ k = n) /\ (Distinct(told[g]) /\ ~Heard(g, n) => Distinct(told'[g]))
  BY <1>2, <1>3, InAppend DEF Heard
<1>. QED  BY <1>2, <1>4 DEF Heard

\* A task that is done leaves: nothing waits for it any more, unless it was cancelled.
LEMMA OnceTaskEnds ==
    ASSUME TypeInv, OnceInv, NEW t \in hookTasks, hookTasks' = hookTasks \ {t},
           UNCHANGED <<ready, misses, silent, told, silenceHooks, resumeHooks, stopPc>>,
           "cancels" \in Outcomes \/ closed \/ Tail(t.hooks) = <<>>
    PROVE  OnceInv'
<1>1. \A h, n : Heard(h, n)' <=> Heard(h, n)
  BY DEF Heard
<1>2. /\ \A h, n : Runs(h, n)' => Runs(h, n)
      /\ \A h, n : Runs(h, n) => Runs(h, n)' \/ (n = t.outage /\ In(h, t.hooks))
  BY DEF Runs
<1>3. ReadyOnce' /\ Distinct(silenceHooks)' /\ Distinct(resumeHooks)'
  BY DEF OnceInv, ReadyOnce
<1>4. TasksOnce'
  BY <1>1 DEF OnceInv, TasksOnce, closed
<1>5. CallsOnce'
  BY <1>1, <1>2 DEF OnceInv, CallsOnce
<1>6. Unattached'
  BY <1>1, <1>2 DEF OnceInv, Unattached
<1>7. Covered'
  <2>1. Tail(t.hooks) = <<>> => \A h : In(h, t.hooks) => Heard(h, t.outage)
    <3>1. t.hooks \in Seq(Hooks) /\ t.hooks # <<>>
      BY DEF TypeInv, TypeOK, HookTypeOK, HookTask, TasksStarted
    <3>2. Tail(t.hooks) = <<>> => \A h : In(h, t.hooks) => h = Head(t.hooks)
      <4>. DEFINE rest == Tail(t.hooks)
      <4>1. \A h : In(h, t.hooks) <=> In(h, rest) \/ h = Head(t.hooks)
        BY <3>1, InTail
      <4>. HIDE DEF rest
      <4>2. rest = <<>> => \A h : ~In(h, rest)
        BY DEF In
      <4>3. rest = <<>> => \A h : In(h, t.hooks) => h = Head(t.hooks)
        BY <4>1, <4>2
      <4>. QED  BY <4>3 DEF rest
    <3>3. Heard(Head(t.hooks), t.outage)
      BY DEF OnceInv, TasksOnce
    <3>. QED  BY <3>2, <3>3
  <2>. QED  BY <1>1, <1>2, <2>1 DEF OnceInv, Covered, closed
<1>. QED  BY <1>3, <1>4, <1>5, <1>6, <1>7 DEF OnceInv

\* A task calls its first hook: it waited, so it had not heard of the outage.
LEMMA OnceStart == TypeInv /\ OnceInv /\ RunHooks => OnceInv'
<1>. SUFFICES ASSUME TypeInv, OnceInv, RunHooks PROVE OnceInv'
  OBVIOUS
<1>. DEFINE t == Head(ready).task
            n == t.outage
            g == Head(t.hooks)
<1>1. /\ ready \in Seq(Callback) /\ ready # <<>> /\ Head(ready).cb = "hooks" /\ ready' = Tail(ready)
      /\ UNCHANGED <<misses, silent, silenceHooks, resumeHooks, stopPc>>
  BY DEF TypeInv, TypeOK, LoopTypeOK, RunHooks, Running, silenceVars
<1>2. t \in HookTask /\ n \in Nat /\ t.hooks \in Seq(Hooks)
  <2>1. Head(ready) \in Callback
    BY <1>1
  <2>. QED  BY <1>1, <2>1 DEF Callback, HookTask
<1>3. Sane(ready, misses) /\ Apart(ready)
  BY DEF OnceInv, ReadyOnce
<1>4. /\ Sane(ready', misses) /\ Apart(ready')
      /\ \A h, k : Waits(ready, h, k) <=> Waits(ready', h, k) \/ (n = k /\ In(h, t.hooks))
      /\ \A h \in Watch : In(h, t.hooks) => ~Waits(ready', h, n)
      /\ Distinct(t.hooks) /\ n <= misses /\ ~t.cancelled
  BY <1>1, <1>3, HeadLeaves
<1>5. StartTask(t)
  BY DEF RunHooks, HooksOf
<1>. HIDE DEF t, n
<1>6. CASE t.hooks = <<>>
  <2>1. UNCHANGED <<hookTasks, told>>
    BY <1>5, <1>6 DEF StartTask
  <2>2. \A h : ~In(h, t.hooks)
    BY <1>6 DEF In
  <2>3. Distinct(resumeHooks')
    BY <1>1 DEF OnceInv
  <2>. QED  BY <1>1, <1>4, <2>1, <2>2, <2>3, OnceFrame DEF closed
<1>7. CASE t.hooks # <<>>
  <2>1. /\ hookTasks' = hookTasks \cup {t} /\ g \in Hooks /\ told' = [told EXCEPT ![g] = Append(@, n)]
        /\ In(g, t.hooks)
    BY <1>2, <1>5, <1>7, InTail DEF StartTask, n
  <2>2. /\ \A h : In(h, t.hooks) <=> In(h, Tail(t.hooks)) \/ h = g
        /\ ~In(g, Tail(t.hooks))
    BY <1>2, <1>4, <1>7, InTail
  <2>. HIDE DEF g
  <2>3. /\ \A h \in Hooks : \A k : Heard(h, k)' <=> Heard(h, k) \/ (h = g /\ k = n)
        /\ \A h \in Hooks : Distinct(told[h]) /\ (h = g => ~Heard(h, n)) => Distinct(told'[h])
    BY <1>2, <2>1, CallHears
  <2>4. \A h, k : Runs(h, k)' <=> Runs(h, k) \/ (k = n /\ In(h, t.hooks))
    BY <2>1 DEF Runs, n
  <2>5. \A h \in Watch : In(h, t.hooks) => ~Heard(h, n) /\ ~Runs(h, n)
    BY <1>2, <1>4 DEF OnceInv, CallsOnce
  <2>6. Watch \subseteq Hooks /\ SilenceHooks \subseteq Watch
    BY DEF Watch, Hooks
  <2>7. ReadyOnce' /\ Distinct(silenceHooks)' /\ Distinct(resumeHooks)'
    BY <1>1, <1>4 DEF OnceInv, ReadyOnce
  <2>8. TasksOnce'
    <3>1. ASSUME NEW u \in hookTasks'
          PROVE  /\ Distinct(u.hooks) /\ u.outage <= misses' /\ (u.cancelled => closed')
                 /\ Heard(Head(u.hooks), u.outage)'
      <4>1. CASE u = t
        BY <1>1, <1>4, <2>1, <2>3, <4>1 DEF g, n
      <4>2. CASE u \in hookTasks
        <5>1. Head(u.hooks) \in Hooks
          <6>1. u.hooks \in Seq(Hooks) /\ u.hooks # <<>>
            BY <4>2 DEF TypeInv, TypeOK, HookTypeOK, HookTask, TasksStarted
          <6>. QED  BY <6>1
        <5>. QED  BY <1>1, <2>3, <4>2, <5>1 DEF OnceInv, TasksOnce, closed
      <4>. QED  BY <2>1, <4>1, <4>2
    <3>2. ASSUME NEW u \in hookTasks', NEW h \in Watch, In(h, Tail(u.hooks)) PROVE ~Heard(h, u.outage)'
      <4>1. CASE u = t
        BY <2>2, <2>3, <2>5, <2>6, <3>2, <4>1 DEF n
      <4>2. CASE u \in hookTasks
        <5>1. ~Heard(h, u.outage)
          BY <3>2, <4>2 DEF OnceInv, TasksOnce
        <5>2. In(h, u.hooks)
          <6>1. u.hooks \in Seq(Hooks) /\ u.hooks # <<>>
            BY <4>2 DEF TypeInv, TypeOK, HookTypeOK, HookTask, TasksStarted
          <6>. QED  BY <3>2, <6>1, InTail
        <5>3. ~(h = g /\ u.outage = n)
          BY <2>1, <2>5, <4>2, <5>2 DEF Runs
        <5>. QED  BY <2>3, <2>6, <5>1, <5>3
      <4>. QED  BY <2>1, <4>1, <4>2
    <3>3. ASSUME NEW u \in hookTasks', NEW v \in hookTasks', u # v, u.outage = v.outage, NEW h \in Watch,
                 In(h, u.hooks), In(h, v.hooks)
          PROVE  FALSE
      <4>1. CASE u \in hookTasks /\ v \in hookTasks
        BY <3>3, <4>1 DEF OnceInv, TasksOnce
      <4>2. CASE u = t /\ v \in hookTasks
        BY <2>5, <3>3, <4>2 DEF Runs, n
      <4>3. CASE u \in hookTasks /\ v = t
        BY <2>5, <3>3, <4>3 DEF Runs, n
      <4>. QED  BY <2>1, <3>3, <4>1, <4>2, <4>3
    <3>. QED  BY <3>1, <3>2, <3>3 DEF TasksOnce
  <2>9. CallsOnce'
    <3>1. \A h \in Watch : Distinct(told'[h]) /\ \A k \in Nat : Heard(h, k)' => k <= misses'
      BY <1>1, <1>4, <2>1, <2>3, <2>5, <2>6 DEF OnceInv, CallsOnce
    <3>2. \A h \in Watch, k \in Nat : Waits(ready', h, k) => ~Heard(h, k)' /\ ~Runs(h, k)'
      BY <1>4, <2>1, <2>3, <2>4, <2>6 DEF OnceInv, CallsOnce
    <3>. QED  BY <3>1, <3>2 DEF CallsOnce
  <2>10. Unattached'
    <3>1. \A h \in SilenceHooks : ~In(h, silenceHooks) => ~In(h, t.hooks)
      BY <1>2, <1>4 DEF OnceInv, Unattached
    <3>. QED  BY <1>1, <1>4, <2>1, <2>3, <2>4, <2>6, <3>1 DEF OnceInv, Unattached
  <2>11. Covered'
    BY <1>1, <1>4, <2>3, <2>4, <2>6 DEF OnceInv, Covered, closed
  <2>. QED  BY <2>7, <2>8, <2>9, <2>10, <2>11 DEF OnceInv
<1>. QED  BY <1>6, <1>7


\* A task calls its next hook: no other task has it for that outage.
LEMMA OnceNext ==
    ASSUME TypeInv, OnceInv, NEW t \in hookTasks, NextHook(t), closed \/ ~t.cancelled,
           UNCHANGED <<ready, misses, silent, silenceHooks, resumeHooks, stopPc>>
    PROVE  OnceInv'
<1>. DEFINE r == [hooks |-> Tail(t.hooks), outage |-> t.outage, cancelled |-> FALSE]
            n == t.outage
            g == Head(Tail(t.hooks))
<1>1. t \in HookTask /\ n \in Nat /\ t.hooks \in Seq(Hooks) /\ t.hooks # <<>>
  BY DEF TypeInv, TypeOK, HookTypeOK, HookTask, TasksStarted
<1>2. r.hooks = Tail(t.hooks) /\ r.outage = n /\ ~r.cancelled
  OBVIOUS
<1>3. CASE Tail(t.hooks) = <<>>
  <2>1. hookTasks' = hookTasks \ {t} /\ UNCHANGED told
    BY <1>3 DEF NextHook
  <2>. QED  BY <1>3, <2>1, OnceTaskEnds
<1>4. CASE Tail(t.hooks) # <<>>
  <2>1. hookTasks' = (hookTasks \ {t}) \cup {r} /\ told' = [told EXCEPT ![g] = Append(@, n)]
    BY <1>4 DEF NextHook
  <2>. HIDE DEF r
  <2>2. r.hooks \in Seq(Hooks)
    BY <1>1, <1>2
  <2>3. g \in Hooks /\ g = Head(r.hooks)
    BY <1>2, <1>4, <2>2
  <2>4. Distinct(t.hooks) /\ n <= misses
    BY DEF OnceInv, TasksOnce
  <2>5. \A h : In(h, t.hooks) <=> In(h, r.hooks) \/ h = Head(t.hooks)
    BY <1>1, <1>2, InTail
  <2>6. Distinct(r.hooks)
    BY <1>1, <1>2, <2>4, InTail
  <2>7. /\ \A h : In(h, r.hooks) <=> In(h, Tail(r.hooks)) \/ h = g
        /\ ~In(g, Tail(r.hooks))
    BY <1>2, <1>4, <2>2, <2>3, <2>6, InTail
  <2>. HIDE DEF g, n
  <2>8. /\ \A h \in Hooks : \A k : Heard(h, k)' <=> Heard(h, k) \/ (h = g /\ k = n)
        /\ \A h \in Hooks : Distinct(told[h]) /\ (h = g => ~Heard(h, n)) => Distinct(told'[h])
    BY <1>1, <2>1, <2>3, CallHears
  <2>9. /\ \A h, k : Runs(h, k)' => Runs(h, k)
        /\ \A h, k : Runs(h, k) => Runs(h, k)' \/ (k = n /\ h = Head(t.hooks))
        /\ \A h : In(h, t.hooks) => Runs(h, n)
    <3>1. \A h : In(h, t.hooks) => Runs(h, n)
      BY DEF Runs, n
    <3>2. ASSUME NEW h, NEW k, Runs(h, k)' PROVE Runs(h, k)
      <4>1. PICK u \in hookTasks' : u.outage = k /\ In(h, u.hooks)
        BY <3>2 DEF Runs
      <4>2. CASE u = r
        BY <1>2, <2>5, <3>1, <4>1, <4>2
      <4>3. CASE u \in hookTasks
        BY <4>1, <4>3 DEF Runs
      <4>. QED  BY <2>1, <4>2, <4>3
    <3>3. ASSUME NEW h, NEW k, Runs(h, k) PROVE Runs(h, k)' \/ (k = n /\ h = Head(t.hooks))
      <4>1. PICK u \in hookTasks : u.outage = k /\ In(h, u.hooks)
        BY <3>3 DEF Runs
      <4>2. CASE u = t
        <5>1. In(h, r.hooks) => Runs(h, k)'
          BY <1>2, <2>1, <4>1, <4>2 DEF Runs, n
        <5>. QED  BY <2>5, <4>1, <4>2, <5>1 DEF n
      <4>3. CASE u # t
        BY <2>1, <4>1, <4>3 DEF Runs
      <4>. QED  BY <4>2, <4>3
    <3>. QED  BY <3>1, <3>2, <3>3
  <2>10. \A h \in Watch : In(h, r.hooks) => ~Heard(h, n)
    BY <1>2 DEF OnceInv, TasksOnce, n
  <2>11. Watch \subseteq Hooks /\ SilenceHooks \subseteq Watch
    BY DEF Watch, Hooks
  <2>12. ReadyOnce' /\ Distinct(silenceHooks)' /\ Distinct(resumeHooks)'
    BY DEF OnceInv, ReadyOnce
  <2>13. TasksOnce'
    <3>1. ASSUME NEW u \in hookTasks'
          PROVE  /\ Distinct(u.hooks) /\ u.outage <= misses' /\ (u.cancelled => closed')
                 /\ Heard(Head(u.hooks), u.outage)'
      <4>1. CASE u = r
        BY <1>2, <2>3, <2>4, <2>6, <2>8, <4>1
      <4>2. CASE u \in hookTasks
        <5>1. Head(u.hooks) \in Hooks
          <6>1. u.hooks \in Seq(Hooks) /\ u.hooks # <<>>
            BY <4>2 DEF TypeInv, TypeOK, HookTypeOK, HookTask, TasksStarted
          <6>. QED  BY <6>1
        <5>. QED  BY <2>8, <4>2, <5>1 DEF OnceInv, TasksOnce, closed
      <4>. QED  BY <2>1, <4>1, <4>2
    <3>2. ASSUME NEW u \in hookTasks', NEW h \in Watch, In(h, Tail(u.hooks)) PROVE ~Heard(h, u.outage)'
      <4>1. CASE u = r
        BY <1>2, <2>7, <2>8, <2>10, <2>11, <3>2, <4>1
      <4>2. CASE u \in hookTasks /\ u # t
        <5>1. ~Heard(h, u.outage)
          BY <3>2, <4>2 DEF OnceInv, TasksOnce
        <5>2. In(h, u.hooks)
          <6>1. u.hooks \in Seq(Hooks) /\ u.hooks # <<>>
            BY <4>2 DEF TypeInv, TypeOK, HookTypeOK, HookTask, TasksStarted
          <6>. QED  BY <3>2, <6>1, InTail
        <5>3. ~(h = g /\ u.outage = n)
          <6>1. In(g, t.hooks)
            BY <2>5, <2>7
          <6>. QED  BY <4>2, <5>2, <6>1 DEF OnceInv, TasksOnce, n
        <5>. QED  BY <2>8, <2>11, <5>1, <5>3
      <4>. QED  BY <2>1, <4>1, <4>2
    <3>3. ASSUME NEW u \in hookTasks', NEW v \in hookTasks', u # v, u.outage = v.outage, NEW h \in Watch,
                 In(h, u.hooks), In(h, v.hooks)
          PROVE  FALSE
      <4>1. CASE u \in hookTasks /\ v \in hookTasks
        BY <3>3, <4>1 DEF OnceInv, TasksOnce
      <4>2. CASE u = r /\ v \in hookTasks \ {t}
        <5>1. In(h, t.hooks) /\ t.outage = v.outage
          BY <1>2, <2>5, <3>3, <4>2 DEF n
        <5>. QED  BY <3>3, <4>2, <5>1 DEF OnceInv, TasksOnce
      <4>3. CASE u \in hookTasks \ {t} /\ v = r
        <5>1. In(h, t.hooks) /\ t.outage = u.outage
          BY <1>2, <2>5, <3>3, <4>3 DEF n
        <5>. QED  BY <3>3, <4>3, <5>1 DEF OnceInv, TasksOnce
      <4>. QED  BY <2>1, <3>3, <4>1, <4>2, <4>3
    <3>. QED  BY <3>1, <3>2, <3>3 DEF TasksOnce
  <2>14. CallsOnce'
    <3>1. \A h \in Watch : Distinct(told'[h]) /\ \A k \in Nat : Heard(h, k)' => k <= misses'
      BY <2>4, <2>7, <2>8, <2>10, <2>11 DEF OnceInv, CallsOnce
    <3>2. \A h \in Watch, k \in Nat : Waits(ready', h, k) => ~Heard(h, k)' /\ ~Runs(h, k)'
      BY <2>5, <2>7, <2>8, <2>9, <2>11 DEF OnceInv, CallsOnce
    <3>. QED  BY <3>1, <3>2 DEF CallsOnce
  <2>15. Unattached'
    <3>1. \A h \in SilenceHooks : ~In(h, silenceHooks) => ~Runs(h, n)
      BY <1>1 DEF OnceInv, Unattached, n
    <3>. QED  BY <2>5, <2>7, <2>8, <2>9, <2>11, <3>1 DEF OnceInv, Unattached
  <2>16. Covered'
    <3>1. Heard(Head(t.hooks), n)
      BY DEF OnceInv, TasksOnce, n
    <3>. QED  BY <2>8, <2>9, <2>11, <3>1 DEF OnceInv, Covered, closed
  <2>. QED  BY <2>12, <2>13, <2>14, <2>15, <2>16 DEF OnceInv
<1>. QED  BY <1>3, <1>4

LEMMA OnceHook == TypeInv /\ OnceInv /\ (\E t \in hookTasks : HookEnds(t)) => OnceInv'
<1>. SUFFICES ASSUME TypeInv, OnceInv, NEW t \in hookTasks, HookEnds(t) PROVE OnceInv'
  OBVIOUS
<1>1. UNCHANGED <<ready, misses, silent, silenceHooks, resumeHooks, stopPc>>
  BY DEF HookEnds, silenceVars
<1>2. t.cancelled => closed
  BY DEF OnceInv, TasksOnce
<1>3. CASE NextHook(t)
  BY <1>1, <1>2, <1>3, OnceNext DEF TypeInv, TypeOK, HookTypeOK, HookTask
<1>4. CASE (t.cancelled \/ "cancels" \in Outcomes) /\ hookTasks' = hookTasks \ {t} /\ UNCHANGED told
  BY <1>1, <1>2, <1>4, OnceTaskEnds
<1>. QED  BY <1>3, <1>4 DEF HookEnds


\* A hook attached late is in no task and has heard of nothing: it waits once.
LEMMA OnceAttach == TypeInv /\ OnceInv /\ (\E h \in SilenceHooks : AddSilenceHook(h)) => OnceInv'
<1>. SUFFICES ASSUME TypeInv, OnceInv, NEW g \in SilenceHooks, AddSilenceHook(g) PROVE OnceInv'
  OBVIOUS
<1>1. /\ ready \in Seq(Callback) /\ silenceHooks \in Seq(SilenceHooks) /\ misses \in Nat
      /\ <<g>> \in Seq(Hooks) /\ SilenceHooks \subseteq Watch
  BY DEF TypeInv, TypeOK, LoopTypeOK, SilenceTypeOK, HookTypeOK, Hooks, Watch
<1>2. /\ ~In(g, silenceHooks) /\ silenceHooks' = Append(silenceHooks, g)
      /\ UNCHANGED <<misses, silent, told, hookTasks, resumeHooks, stopPc>>
  BY DEF AddSilenceHook, In, silenceVars
<1>3. /\ \A h : In(h, silenceHooks') <=> In(h, silenceHooks) \/ h = g
      /\ Distinct(silenceHooks')
  BY <1>1, <1>2, InAppend DEF OnceInv
<1>4. Sane(ready, misses) /\ Apart(ready)
  BY DEF OnceInv, ReadyOnce
<1>5. \A n \in Nat : ~Heard(g, n) /\ ~Waits(ready, g, n) /\ ~Runs(g, n)
  BY <1>2 DEF OnceInv, Unattached
<1>6. /\ Sane(ready', misses) /\ Apart(ready')
      /\ \A h, n : Waits(ready', h, n) <=> Waits(ready, h, n) \/ (silent /\ n = misses /\ h = g)
  <2>1. CASE ~silent
    BY <1>4, <2>1 DEF AddSilenceHook, LateFire
  <2>2. CASE silent
    <3>. DEFINE p == <<g>>
    <3>1. ready' = Append(ready, Spawn(p, misses))
      BY <2>2 DEF AddSilenceHook, LateFire
    <3>2. Distinct(p) /\ \A h : In(h, p) <=> h = g
      BY DEF Distinct, In
    <3>. HIDE DEF p
    <3>3. p \in Seq(Hooks) /\ misses <= misses
      BY <1>1 DEF p
    <3>4. /\ Sane(ready', misses) /\ Apart(ready')
          /\ \A h, n : Waits(ready', h, n) <=> Waits(ready, h, n) \/ (n = misses /\ In(h, p))
      BY <1>1, <1>4, <1>5, <3>1, <3>2, <3>3, SpawnEnters
    <3>. QED  BY <2>2, <3>2, <3>4
  <2>. QED  BY <2>1, <2>2
<1>7. \A h, n : (Heard(h, n)' <=> Heard(h, n)) /\ (Runs(h, n)' <=> Runs(h, n))
  BY <1>2 DEF Heard, Runs
<1>8. ReadyOnce' /\ Distinct(silenceHooks)' /\ Distinct(resumeHooks)'
  BY <1>2, <1>3, <1>6 DEF OnceInv, ReadyOnce
<1>9. TasksOnce'
  BY <1>2, <1>7 DEF OnceInv, TasksOnce, closed
<1>10. CallsOnce'
  <2>1. \A h \in Watch : Distinct(told'[h]) /\ \A n \in Nat : Heard(h, n)' => n <= misses'
    BY <1>2, <1>7 DEF OnceInv, CallsOnce
  <2>2. \A h \in Watch, n \in Nat : Waits(ready', h, n) => ~Heard(h, n)' /\ ~Runs(h, n)'
    BY <1>5, <1>6, <1>7 DEF OnceInv, CallsOnce
  <2>. QED  BY <2>1, <2>2 DEF CallsOnce
<1>11. Unattached'
  BY <1>3, <1>6, <1>7 DEF OnceInv, Unattached
<1>12. Covered'
  BY <1>2, <1>3, <1>6, <1>7 DEF OnceInv, Covered, closed
<1>. QED  BY <1>8, <1>9, <1>10, <1>11, <1>12 DEF OnceInv

\* stop() drops every task that has not started and cancels the others.
LEMMA OnceStop == TypeInv /\ OnceInv /\ Stop => OnceInv'
<1>. SUFFICES ASSUME TypeInv, OnceInv, Stop PROVE OnceInv'
  OBVIOUS
<1>1. UNCHANGED <<misses, told, silenceHooks, resumeHooks>> /\ closed'
  BY DEF Stop, closed
<1>2. /\ Sane(ready', misses) /\ Apart(ready')
      /\ \A h, n : ~Waits(ready', h, n)
  <2>1. ReadyLeft(ready) \in Seq(Callback)
    BY CancelInType DEF TypeInv, TypeOK, LoopTypeOK, ReadyLeft
  <2>. QED  BY <2>1, CancelledTasks DEF Stop
<1>3. \A t \in hookTasks' : /\ t.cancelled
                            /\ \E u \in hookTasks : t = [u EXCEPT !.cancelled = TRUE]
                                                    /\ t.hooks = u.hooks /\ t.outage = u.outage
  <2>1. hookTasks' = {[u EXCEPT !.cancelled = TRUE] : u \in hookTasks}
    BY DEF Stop
  <2>2. \A u \in hookTasks : u \in [hooks: Seq(Hooks), outage: Nat, cancelled: BOOLEAN]
    BY DEF TypeInv, TypeOK, HookTypeOK, HookTask
  <2>3. ASSUME NEW u \in hookTasks, NEW t, t = [u EXCEPT !.cancelled = TRUE]
        PROVE  t.cancelled /\ t.hooks = u.hooks /\ t.outage = u.outage
    BY <2>2, <2>3
  <2>. QED  BY <2>1, <2>3
<1>4. \A h, n : (Heard(h, n)' <=> Heard(h, n)) /\ (Runs(h, n)' => Runs(h, n))
  BY <1>1, <1>3 DEF Heard, Runs
<1>5. ReadyOnce' /\ Distinct(silenceHooks)' /\ Distinct(resumeHooks)'
  BY <1>1, <1>2 DEF OnceInv, ReadyOnce
<1>6. TasksOnce'
  <2>1. ASSUME NEW t \in hookTasks'
        PROVE  /\ Distinct(t.hooks) /\ t.outage <= misses' /\ (t.cancelled => closed')
               /\ Heard(Head(t.hooks), t.outage)'
               /\ \A h \in Watch : In(h, Tail(t.hooks)) => ~Heard(h, t.outage)'
    <3>1. PICK u \in hookTasks : t.hooks = u.hooks /\ t.outage = u.outage
      BY <1>3
    <3>. QED  BY <1>1, <1>4, <3>1 DEF OnceInv, TasksOnce
  <2>2. ASSUME NEW t \in hookTasks', NEW v \in hookTasks', t # v, t.outage = v.outage, NEW h \in Watch,
               In(h, t.hooks), In(h, v.hooks)
        PROVE  FALSE
    <3>1. PICK u \in hookTasks : t = [u EXCEPT !.cancelled = TRUE] /\ t.hooks = u.hooks /\ t.outage = u.outage
      BY <1>3
    <3>2. PICK w \in hookTasks : v = [w EXCEPT !.cancelled = TRUE] /\ v.hooks = w.hooks /\ v.outage = w.outage
      BY <1>3
    <3>. QED  BY <2>2, <3>1, <3>2 DEF OnceInv, TasksOnce
  <2>. QED  BY <2>1, <2>2 DEF TasksOnce
<1>7. CallsOnce'
  BY <1>1, <1>2, <1>4 DEF OnceInv, CallsOnce
<1>8. Unattached'
  BY <1>1, <1>2, <1>4 DEF OnceInv, Unattached
<1>9. Covered'
  BY <1>1 DEF Covered
<1>. QED  BY <1>5, <1>6, <1>7, <1>8, <1>9 DEF OnceInv

LEMMA OnceStep == TypeInv /\ OnceInv /\ [Next]_vars => OnceInv'
<1>. SUFFICES ASSUME TypeInv, OnceInv, [Next]_vars PROVE OnceInv'
  OBVIOUS
<1>1. CASE ZenohCallback \/ TimerDue
  BY <1>1, OnceArrival
<1>2. CASE Tick \/ Consume \/ HandlerEnds \/ PublishHealth \/ StopConsumer \/ Undeclare
  BY <1>2, OnceElsewhere DEF Tick, Consume, HandlerEnds, PublishHealth, StopConsumer, Undeclare, closed, silenceVars, hookVars
<1>3. CASE RunCancelled
  BY <1>3, OnceElsewhere DEF RunCancelled, Running, closed, silenceVars, hookVars
<1>4. CASE RunPush \/ CheckDeadline \/ RunHooks
  BY <1>4, OncePush, OnceCheck, OnceStart
<1>5. CASE \E t \in hookTasks : HookEnds(t)
  BY <1>5, OnceHook
<1>6. CASE \E h \in SilenceHooks : AddSilenceHook(h)
  BY <1>6, OnceAttach
<1>7. CASE \E h \in ResumeHooks : AddResumeHook(h)
  <2>1. PICK h \in ResumeHooks : AddResumeHook(h)
    BY <1>7
  <2>2. UNCHANGED <<ready, misses, told, hookTasks, silenceHooks, silent, stopPc>>
    BY <2>1 DEF AddResumeHook, silenceVars
  <2>3. resumeHooks \in Seq(ResumeHooks) /\ ~In(h, resumeHooks) /\ resumeHooks' = Append(resumeHooks, h)
    BY <2>1 DEF AddResumeHook, In, TypeInv, TypeOK, HookTypeOK
  <2>4. Distinct(resumeHooks')
    BY <2>3, InAppend DEF OnceInv
  <2>5. Sane(ready, misses) /\ Apart(ready)
    BY DEF OnceInv, ReadyOnce
  <2>. QED  BY <2>2, <2>4, <2>5, OnceFrame DEF closed
<1>8. CASE Stop
  BY <1>8, OnceStop
<1>9. CASE Terminated \/ UNCHANGED vars
  BY <1>9, OnceElsewhere DEF Terminated, vars, closed, silenceVars, hookVars
<1>. QED  BY <1>1, <1>2, <1>3, <1>4, <1>5, <1>6, <1>7, <1>8, <1>9 DEF Next, RunReady

LEMMA OnceInit == Init => OnceInv
<1>. SUFFICES ASSUME Init PROVE OnceInv
  OBVIOUS
<1>1. ready = <<>> /\ hookTasks = {} /\ silenceHooks = <<>> /\ resumeHooks = <<>> /\ ~silent
      /\ told = [h \in Hooks |-> <<>>]
  BY DEF Init
<1>2. /\ \A h \in Hooks : Distinct(told[h]) /\ \A n : ~Heard(h, n)
      /\ \A h, n : ~Waits(ready, h, n) /\ ~Runs(h, n)
  BY <1>1 DEF Distinct, Heard, In, Waits, Runs
<1>3. Watch \subseteq Hooks /\ SilenceHooks \subseteq Hooks
  BY DEF Watch, Hooks
<1>4. Distinct(silenceHooks) /\ Distinct(resumeHooks) /\ ReadyOnce
  BY <1>1 DEF Distinct, ReadyOnce, Sane, Apart
<1>5. TasksOnce /\ CallsOnce /\ Unattached /\ Covered
  BY <1>1, <1>2, <1>3 DEF TasksOnce, CallsOnce, Unattached, Covered
<1>. QED  BY <1>4, <1>5 DEF OnceInv

\* Every silence hook, whenever it was attached, and the on_deadline callable hear of an
\* outage at most once; and unless hooks end with CancelledError, every attached hook
\* has heard of the present outage or is about to (_run_hooks, _add_silence_hook,
\* _check_deadline).
THEOREM OutageToldOnce == Spec => []OutagesTold
<1>1. TypeInv /\ OnceInv => OutagesTold
  <2>. SUFFICES ASSUME TypeInv, OnceInv PROVE OutagesTold
    OBVIOUS
  <2>1. \A h \in SilenceHooks \cup {PolicyHook} :
            \A i, j \in DOMAIN told[h] : told[h][i] = told[h][j] => i = j
    BY DEF OnceInv, CallsOnce, Distinct, Watch
  <2>2. ASSUME silent /\ ~closed, "cancels" \notin Outcomes, NEW i \in DOMAIN silenceHooks
        PROVE  Told(silenceHooks[i]) \/ Pending(silenceHooks[i])
    <3>1. silenceHooks[i] \in SilenceHooks /\ In(silenceHooks[i], silenceHooks)
      BY DEF TypeInv, TypeOK, HookTypeOK, In
    <3>2. \/ Heard(silenceHooks[i], misses) \/ Waits(ready, silenceHooks[i], misses)
          \/ Runs(silenceHooks[i], misses)
      BY <2>2, <3>1 DEF OnceInv, Covered
    <3>3. Heard(silenceHooks[i], misses) => Told(silenceHooks[i])
      BY DEF Heard, In, Told
    <3>4. Waits(ready, silenceHooks[i], misses) => Pending(silenceHooks[i])
      BY DEF Waits, In, Pending
    <3>5. Runs(silenceHooks[i], misses) => Pending(silenceHooks[i])
      BY DEF Runs, In, Pending
    <3>. QED  BY <3>2, <3>3, <3>4, <3>5
  <2>. QED  BY <2>1, <2>2 DEF OutagesTold
<1>. QED  BY <1>1, TypeInit, TypeStep, OnceInit, OnceStep, PTL DEF Spec


=================================================================================

--------------------------- MODULE LogPublisherProofs ---------------------------
(***************************************************************************)
(* Theorems about LogPublisher, for every set of threads, every length of   *)
(* the deque and every number of records.                                   *)
(***************************************************************************)
EXTENDS LogPublisher, FiniteSetTheorems, SequenceTheorems, TLAPS

USE CapacityAssumption, RecordAssumption

-----------------------------------------------------------------------------
(* The handler's lock: one thread at most is inside emit.                   *)

Steps == {"out", "checked", "counted", "appended"}

LockInv ==
    /\ step \in [Emitters -> Steps]
    /\ \A t, u \in Emitters : step[t] # "out" /\ step[u] # "out" => t = u

\* Emitting has one member or none.
LEMMA EmittingOne ==
    ASSUME LockInv
    PROVE  /\ Emitting = {} => Cardinality(Emitting) = 0
           /\ Emitting # {} => Cardinality(Emitting) = 1
<1>1. CASE Emitting = {}
  BY <1>1, FS_EmptySet
<1>2. ASSUME Emitting # {}
      PROVE  Cardinality(Emitting) = 1
  <2>1. PICK t \in Emitters : t \in Emitting
    BY <1>2 DEF Emitting
  <2>2. Emitting = {t}
    BY <2>1 DEF Emitting, LockInv
  <2>. QED  BY <2>2, FS_Singleton
<1>. QED  BY <1>1, <1>2

LEMMA LockStep == LockInv /\ [Next]_vars => LockInv'
<1>. SUFFICES ASSUME LockInv, [Next]_vars PROVE LockInv'
  OBVIOUS
<1>1. ASSUME NEW t \in Emitters, Enter(t)
      PROVE  LockInv'
  BY <1>1 DEF LockInv, Steps, Enter, Locked
<1>2. ASSUME NEW t \in Emitters, CountDrop(t) \/ AppendRecord(t) \/ Notify(t)
      PROVE  LockInv'
  BY <1>2 DEF LockInv, Steps, CountDrop, AppendRecord, Notify
<1>3. CASE UNCHANGED step
  BY <1>3 DEF LockInv
<1>4. \/ \E t \in Emitters : Emit(t)
      \/ UNCHANGED step
  BY DEF Next, RunWake, Drain, DrainWakes, DrainTakes, DrainPuts, Close, CancelDrain,
         UndeclarePublisher, emitVars, vars
<1>. QED  BY <1>1, <1>2, <1>3, <1>4 DEF Emit

LEMMA LockInit == Init => LockInv
BY DEF Init, LockInv, Steps

-----------------------------------------------------------------------------
(* Type correctness and the account.  Each counter is bounded because the    *)
(* counters sum up to the records emitted, so the two are proved together.   *)

BusType ==
    /\ pending \in Seq(Record) /\ Len(pending) <= Capacity
    /\ published \in Seq(Record) /\ inHand \in Record \cup {NoRecord}
    /\ record \in [Emitters -> Record \cup {NoRecord}]
    /\ drain \in {"waiting", "draining", "putting", "done"}
    /\ closed \in BOOLEAN /\ wakes \in BOOLEAN /\ wake \in BOOLEAN /\ publisher \in BOOLEAN
    /\ emitted \in 0..MaxRecords
    /\ dropped \in Nat /\ evicted \in Nat /\ failed \in Nat /\ cleared \in Nat

InEmit == IF Emitting = {} THEN 0 ELSE 1
InHand == IF drain = "putting" THEN 1 ELSE 0

\* What is on its way into the deque or in the drain task's hand is a record.
Carried ==
    /\ \A t \in Emitting : record[t] \in Record
    /\ drain = "putting" => inHand \in Record

Account == emitted = InEmit + Len(pending) + InHand + Len(published) + evicted + failed + cleared

\* A thread that is about to append to a full deque has counted the loss, and
\* each thread counts for the record it carries.
LossCounted ==
    /\ evicted <= dropped
    /\ \A t \in Emitters : step[t] = "counted" /\ Full => evicted + 1 <= dropped
    /\ dropped <= emitted
    /\ \A t \in Emitters : step[t] = "checked" => dropped + 1 <= emitted

AccountInv == LockInv /\ BusType /\ Carried /\ Account /\ LossCounted

LEMMA AccountInvImplies == AccountInv => TypeOK /\ RecordsAccounted
<1>. SUFFICES ASSUME AccountInv PROVE TypeOK /\ RecordsAccounted
  OBVIOUS
<1>1. RecordsAccounted
  BY EmittingOne DEF AccountInv, Account, InEmit, InHand, LossCounted, RecordsAccounted
<1>2. Len(pending) \in Nat /\ Len(published) \in Nat /\ InEmit \in Nat /\ InHand \in Nat
  BY DEF AccountInv, BusType, InEmit, InHand
<1>3. evicted <= emitted /\ failed <= emitted /\ cleared <= emitted /\ dropped <= emitted
  BY <1>2 DEF AccountInv, BusType, Account, LossCounted
<1>4. {emitted, dropped, evicted, failed, cleared} \subseteq 0..MaxRecords
  BY <1>3 DEF AccountInv, BusType
<1>. QED  BY <1>1, <1>4 DEF AccountInv, BusType, LockInv, Steps, TypeOK

LEMMA AccountInit == Init => AccountInv
<1>. SUFFICES ASSUME Init PROVE AccountInv
  OBVIOUS
<1>1. Emitting = {} /\ Len(pending) = 0 /\ Len(published) = 0
  BY DEF Init, Emitting
<1>2. BusType
  <2>1. <<>> \in Seq(Record) /\ Len(<<>>) <= Capacity
    OBVIOUS
  <2>2. pending \in Seq(Record) /\ Len(pending) <= Capacity /\ published \in Seq(Record)
    BY <2>1 DEF Init
  <2>3. inHand \in Record \cup {NoRecord} /\ record \in [Emitters -> Record \cup {NoRecord}]
    BY DEF Init
  <2>4. /\ closed \in BOOLEAN /\ wakes \in BOOLEAN /\ wake \in BOOLEAN /\ publisher \in BOOLEAN
        /\ drain \in {"waiting", "draining", "putting", "done"}
    BY DEF Init
  <2>5. /\ emitted \in 0..MaxRecords
        /\ dropped \in Nat /\ evicted \in Nat /\ failed \in Nat /\ cleared \in Nat
    BY DEF Init
  <2>. QED  BY <2>2, <2>3, <2>4, <2>5 DEF BusType
<1>3. Carried /\ Account /\ LossCounted
  BY <1>1 DEF Init, Carried, Account, InEmit, InHand, LossCounted
<1>. QED  BY <1>2, <1>3, LockInit DEF AccountInv

\* The record that emit appends, and at most the oldest one less.
LEMMA AppendedQueue ==
    ASSUME BusType, NEW t \in Emitters, record[t] \in Record
    PROVE  /\ Appended(t) \in Seq(Record) /\ Len(Appended(t)) <= Capacity
           /\ Len(Appended(t)) = (IF Full THEN Len(pending) ELSE Len(pending) + 1)
           /\ \E k \in {0, 1} : \A i \in DOMAIN Appended(t) :
                 \/ i = Len(Appended(t)) /\ Appended(t)[i] = record[t]
                 \/ i < Len(Appended(t)) /\ i + k \in DOMAIN pending /\ Appended(t)[i] = pending[i + k]
<1>1. CASE Full
  <2>1. pending # <<>> /\ pending \in Seq(Record) /\ Len(pending) = Capacity
    BY <1>1 DEF Full, BusType
  <2>2. /\ Tail(pending) \in Seq(Record) /\ Len(Tail(pending)) = Len(pending) - 1
        /\ \A i \in 1..Len(Tail(pending)) : Tail(pending)[i] = pending[i + 1]
    BY <2>1
  <2>3. Appended(t) = Append(Tail(pending), record[t])
    BY <1>1 DEF Appended
  <2>4. /\ Appended(t) \in Seq(Record) /\ Len(Appended(t)) = Len(pending)
        /\ \A i \in 1..Len(Tail(pending)) : Appended(t)[i] = Tail(pending)[i]
        /\ Appended(t)[Len(pending)] = record[t]
    BY <2>1, <2>2, <2>3
  <2>5. ASSUME NEW i \in DOMAIN Appended(t)
        PROVE  \/ i = Len(Appended(t)) /\ Appended(t)[i] = record[t]
               \/ i < Len(Appended(t)) /\ i + 1 \in DOMAIN pending /\ Appended(t)[i] = pending[i + 1]
    <3>1. i \in 1..Len(pending) /\ Len(pending) \in Nat
      BY <2>1, <2>4
    <3>2. CASE i = Len(pending)
      BY <2>4, <3>2
    <3>3. CASE i < Len(pending)
      <4>1. i \in 1..Len(Tail(pending))
        BY <2>2, <3>1, <3>3
      <4>2. i + 1 \in 1..Len(pending)
        BY <3>1, <3>3
      <4>. QED  BY <2>1, <2>2, <2>4, <3>3, <4>1, <4>2
    <3>. QED  BY <3>1, <3>2, <3>3
  <2>. QED  BY <1>1, <2>1, <2>4, <2>5
<1>2. CASE ~Full
  <2>1. pending \in Seq(Record) /\ Len(pending) < Capacity /\ Len(pending) \in Nat
    BY <1>2 DEF Full, BusType
  <2>2. Appended(t) = Append(pending, record[t])
    BY <1>2 DEF Appended
  <2>3. /\ Appended(t) \in Seq(Record) /\ Len(Appended(t)) = Len(pending) + 1
        /\ \A i \in 1..Len(pending) : Appended(t)[i] = pending[i]
        /\ Appended(t)[Len(pending) + 1] = record[t]
        /\ DOMAIN Appended(t) = 1..(Len(pending) + 1)
    BY <2>1, <2>2
  <2>4. ASSUME NEW i \in DOMAIN Appended(t)
        PROVE  \/ i = Len(Appended(t)) /\ Appended(t)[i] = record[t]
               \/ i < Len(Appended(t)) /\ i + 0 \in DOMAIN pending /\ Appended(t)[i] = pending[i + 0]
    BY <2>1, <2>3
  <2>. QED  BY <1>2, <2>1, <2>3, <2>4
<1>. QED  BY <1>1, <1>2

\* The steps of emit.  At most one thread is past the check, so what the others
\* have counted does not matter.
LEMMA AccountEnter == ASSUME AccountInv, NEW t \in Emitters, Enter(t), LockInv' PROVE AccountInv'
<1>1. \A u \in Emitters : step[u] = "out"
  BY DEF Enter, Locked
<1>2. /\ emitted' = emitted + 1 /\ emitted < MaxRecords
      /\ step' = [step EXCEPT ![t] = "checked"]
      /\ record' = [record EXCEPT ![t] = [id |-> emitted + 1, own |-> InPut(t)]]
      /\ UNCHANGED <<pending, drain, inHand, published, dropped, evicted, failed, cleared,
                     closed, wakes, wake, publisher>>
  BY DEF Enter, lossVars
<1>3. [id |-> emitted + 1, own |-> InPut(t)] \in Record
  <2>1. emitted + 1 \in 1..MaxRecords
    BY <1>2 DEF AccountInv, BusType
  <2>2. InPut(t) \in BOOLEAN
    BY DEF InPut
  <2>. QED  BY <2>1, <2>2 DEF Record
<1>4. Emitting = {} /\ Emitting' = {t}
  BY <1>1, <1>2 DEF Emitting, AccountInv, LockInv
<1>5. BusType'
  BY <1>2, <1>3 DEF AccountInv, BusType
<1>6. Carried'
  BY <1>2, <1>3, <1>4 DEF AccountInv, BusType, Carried
<1>7. Account'
  <2>1. InEmit = 0 /\ InEmit' = 1 /\ InHand' = InHand /\ InHand \in Nat
    BY <1>2, <1>4 DEF InEmit, InHand
  <2>. QED  BY <1>2, <2>1 DEF AccountInv, Account, BusType
<1>8. LossCounted'
  BY <1>1, <1>2 DEF AccountInv, LossCounted, BusType, LockInv
<1>. QED  BY <1>5, <1>6, <1>7, <1>8 DEF AccountInv

LEMMA AccountCountDrop ==
    ASSUME AccountInv, NEW t \in Emitters, CountDrop(t), LockInv' PROVE AccountInv'
<1>1. /\ step[t] = "checked" /\ step' = [step EXCEPT ![t] = "counted"]
      /\ dropped' = IF Full THEN dropped + 1 ELSE dropped
      /\ UNCHANGED <<pending, drain, inHand, published, record, emitted, evicted, failed, cleared,
                     closed, wakes, wake, publisher>>
  BY DEF CountDrop
<1>2. Emitting' = Emitting
  BY <1>1 DEF Emitting, AccountInv, LockInv
<1>3. BusType' /\ Carried' /\ Account'
  <2>1. dropped' \in Nat
    BY <1>1 DEF AccountInv, BusType
  <2>2. BusType'
    BY <1>1, <2>1 DEF AccountInv, BusType
  <2>3. Carried' /\ Account'
    BY <1>1, <1>2 DEF AccountInv, Carried, Account, InEmit, InHand
  <2>. QED  BY <2>2, <2>3
<1>4. LossCounted'
  <2>1. dropped + 1 <= emitted /\ evicted <= dropped /\ Full' = Full
    BY <1>1 DEF AccountInv, LossCounted, Full
  <2>2. \A u \in Emitters : u # t => step'[u] = "out"
    BY <1>1 DEF AccountInv, LockInv
  <2>3. step'[t] = "counted"
    BY <1>1 DEF AccountInv, LockInv
  <2>4. dropped \in Nat /\ evicted \in Nat /\ emitted \in Nat
    BY DEF AccountInv, BusType
  <2>. QED  BY <1>1, <2>1, <2>2, <2>3, <2>4 DEF LossCounted
<1>. QED  BY <1>3, <1>4 DEF AccountInv

LEMMA AccountAppendRecord ==
    ASSUME AccountInv, NEW t \in Emitters, AppendRecord(t), LockInv' PROVE AccountInv'
<1>1. /\ step[t] = "counted" /\ step' = [step EXCEPT ![t] = "appended"]
      /\ pending' = Appended(t)
      /\ evicted' = IF Full THEN evicted + 1 ELSE evicted
      /\ UNCHANGED <<drain, inHand, published, record, emitted, dropped, failed, cleared,
                     closed, wakes, wake, publisher>>
  BY DEF AppendRecord
<1>2. \A u \in Emitters : u # t => step'[u] = "out" /\ step[u] = "out"
  BY <1>1 DEF AccountInv, LockInv
<1>3. step'[t] = "appended" /\ t \in Emitting /\ Emitting' = {}
  BY <1>1, <1>2 DEF AccountInv, LockInv, Emitting
<1>4. record[t] \in Record
  BY <1>3 DEF AccountInv, Carried
<1>5. /\ pending' \in Seq(Record) /\ Len(pending') <= Capacity
      /\ Len(pending') = (IF Full THEN Len(pending) ELSE Len(pending) + 1)
  BY <1>1, <1>4, AppendedQueue DEF AccountInv
<1>6. /\ evicted \in Nat /\ dropped \in Nat /\ emitted \in Nat /\ failed \in Nat /\ cleared \in Nat
      /\ Len(pending) \in Nat /\ Len(published) \in Nat
  BY DEF AccountInv, BusType
<1>7. BusType'
  BY <1>1, <1>5, <1>6 DEF AccountInv, BusType
<1>8. Carried'
  BY <1>1, <1>3 DEF AccountInv, Carried
<1>9. Account'
  <2>1. InEmit = 1 /\ InEmit' = 0 /\ InHand' = InHand /\ InHand \in Nat
    BY <1>1, <1>3 DEF InEmit, InHand
  <2>2. emitted = 1 + Len(pending) + InHand + Len(published) + evicted + failed + cleared
    BY <2>1 DEF AccountInv, Account
  <2>3. Len(pending') + evicted' = Len(pending) + 1 + evicted
    BY <1>1, <1>5, <1>6
  <2>4. evicted' \in Nat /\ Len(pending') \in Nat
    BY <1>1, <1>5, <1>6
  <2>. QED  BY <1>1, <1>6, <2>1, <2>2, <2>3, <2>4 DEF Account
<1>10. LossCounted'
  BY <1>1, <1>2, <1>3, <1>6 DEF AccountInv, LossCounted
<1>. QED  BY <1>7, <1>8, <1>9, <1>10 DEF AccountInv

LEMMA AccountNotify == ASSUME AccountInv, NEW t \in Emitters, Notify(t), LockInv' PROVE AccountInv'
<1>1. /\ step[t] = "appended" /\ step' = [step EXCEPT ![t] = "out"]
      /\ record' = [record EXCEPT ![t] = NoRecord] /\ wakes' = TRUE
      /\ UNCHANGED <<pending, drain, inHand, published, emitted, dropped, evicted, failed, cleared,
                     closed, wake, publisher>>
  BY DEF Notify, lossVars
<1>2. Emitting' = Emitting /\ t \notin Emitting
  BY <1>1 DEF Emitting, AccountInv, LockInv
<1>3. BusType' /\ Carried' /\ Account'
  <2>1. BusType'
    BY <1>1 DEF AccountInv, BusType
  <2>2. Carried'
    BY <1>1, <1>2 DEF AccountInv, BusType, Carried, Emitting
  <2>. QED  BY <1>1, <1>2, <2>1, <2>2 DEF AccountInv, Account, InEmit, InHand
<1>4. LossCounted'
  BY <1>1 DEF AccountInv, LossCounted, LockInv, Full
<1>. QED  BY <1>3, <1>4 DEF AccountInv

\* The steps of the loop.  Emitting and the losses counted stay as they are.
LEMMA AccountDrainTakes == AccountInv /\ DrainTakes /\ LockInv' => AccountInv'
<1>. SUFFICES ASSUME AccountInv, DrainTakes, LockInv' PROVE AccountInv'
  OBVIOUS
<1>1. /\ drain = "draining" /\ Emitting' = Emitting
      /\ UNCHANGED <<step, record, emitted, published, dropped, evicted, failed, cleared,
                     closed, wakes, wake, publisher>>
  BY DEF DrainTakes, emitVars, lossVars, Emitting
<1>2. /\ evicted \in Nat /\ dropped \in Nat /\ emitted \in Nat /\ failed \in Nat /\ cleared \in Nat
      /\ Len(pending) \in Nat /\ Len(published) \in Nat /\ InEmit \in Nat
      /\ pending \in Seq(Record) /\ Len(pending) <= Capacity
  BY DEF AccountInv, BusType, InEmit
<1>3. CASE pending = <<>>
  <2>1. drain' = "waiting" /\ UNCHANGED <<pending, inHand>>
    BY <1>3 DEF DrainTakes
  <2>. QED
    BY <1>1, <2>1 DEF AccountInv, BusType, Carried, Account, LossCounted, InEmit, InHand, Full
<1>4. CASE pending # <<>>
  <2>1. drain' = "putting" /\ inHand' = Head(pending) /\ pending' = Tail(pending)
    BY <1>4 DEF DrainTakes, Taken
  <2>2. /\ inHand' \in Record /\ pending' \in Seq(Record) /\ Len(pending') + 1 = Len(pending)
        /\ Len(pending') \in Nat
    BY <1>2, <1>4, <2>1
  <2>3. BusType'
    BY <1>1, <1>2, <2>1, <2>2 DEF AccountInv, BusType
  <2>4. Carried'
    BY <1>1, <2>2 DEF AccountInv, Carried
  <2>5. Account'
    <3>1. InHand = 0 /\ InHand' = 1 /\ InEmit' = InEmit
      BY <1>1, <2>1 DEF InHand, InEmit
    <3>. QED  BY <1>1, <1>2, <2>2, <3>1 DEF AccountInv, Account
  <2>6. LossCounted'
    <3>1. ~Full'
      BY <1>2, <2>2 DEF Full
    <3>. QED  BY <1>1, <3>1 DEF AccountInv, LossCounted
  <2>. QED  BY <2>3, <2>4, <2>5, <2>6 DEF AccountInv
<1>. QED  BY <1>3, <1>4

LEMMA AccountDrainPuts == AccountInv /\ DrainPuts /\ LockInv' => AccountInv'
<1>. SUFFICES ASSUME AccountInv, DrainPuts, LockInv' PROVE AccountInv'
  OBVIOUS
<1>1. /\ drain = "putting" /\ drain' = "draining" /\ inHand' = NoRecord /\ Emitting' = Emitting
      /\ UNCHANGED <<pending, step, record, emitted, dropped, evicted, cleared,
                     closed, wakes, wake, publisher>>
  BY DEF DrainPuts, AfterPut, emitVars, Emitting
<1>2. /\ evicted \in Nat /\ dropped \in Nat /\ emitted \in Nat /\ failed \in Nat /\ cleared \in Nat
      /\ Len(pending) \in Nat /\ Len(published) \in Nat /\ InEmit \in Nat
      /\ published \in Seq(Record) /\ inHand \in Record
  BY <1>1 DEF AccountInv, BusType, Carried, InEmit
<1>3. /\ published' \in Seq(Record) /\ failed' \in Nat /\ Len(published') \in Nat
      /\ Len(published') + failed' = Len(published) + failed + 1
  <2>1. CASE published' = Append(published, inHand) /\ UNCHANGED failed
    BY <1>2, <2>1
  <2>2. CASE failed' = failed + 1 /\ UNCHANGED published
    BY <1>2, <2>2
  <2>. QED  BY <2>1, <2>2 DEF DrainPuts
<1>4. BusType'
  BY <1>1, <1>3 DEF AccountInv, BusType
<1>5. Carried'
  BY <1>1 DEF AccountInv, Carried
<1>6. Account'
  <2>1. InHand = 1 /\ InHand' = 0 /\ InEmit' = InEmit
    BY <1>1 DEF InHand, InEmit
  <2>. QED  BY <1>1, <1>2, <1>3, <2>1 DEF AccountInv, Account
<1>7. LossCounted'
  BY <1>1 DEF AccountInv, LossCounted, Full
<1>. QED  BY <1>4, <1>5, <1>6, <1>7 DEF AccountInv

LEMMA AccountClose == AccountInv /\ Close /\ LockInv' => AccountInv'
<1>. SUFFICES ASSUME AccountInv, Close, LockInv' PROVE AccountInv'
  OBVIOUS
<1>1. /\ closed' = TRUE /\ cleared' = cleared + Len(pending) /\ pending' = <<>> /\ Emitting' = Emitting
      /\ UNCHANGED <<drain, inHand, published, step, record, emitted, dropped, evicted, failed,
                     wakes, wake, publisher>>
  BY DEF Close, emitVars, Emitting
<1>2. /\ evicted \in Nat /\ dropped \in Nat /\ emitted \in Nat /\ failed \in Nat /\ cleared \in Nat
      /\ Len(pending) \in Nat /\ Len(published) \in Nat /\ InEmit \in Nat /\ InHand \in Nat
  BY DEF AccountInv, BusType, InEmit, InHand
<1>3. /\ pending' \in Seq(Record) /\ Len(pending') = 0 /\ cleared' \in Nat
  BY <1>1, <1>2
<1>4. BusType'
  BY <1>1, <1>3 DEF AccountInv, BusType
<1>5. Carried'
  BY <1>1 DEF AccountInv, Carried
<1>6. Account'
  <2>1. InHand' = InHand /\ InEmit' = InEmit
    BY <1>1 DEF InHand, InEmit
  <2>. QED  BY <1>1, <1>2, <1>3, <2>1 DEF AccountInv, Account
<1>7. LossCounted'
  <2>1. ~Full'
    BY <1>3 DEF Full
  <2>. QED  BY <1>1, <2>1 DEF AccountInv, LossCounted
<1>. QED  BY <1>4, <1>5, <1>6, <1>7 DEF AccountInv

\* The wake-ups, the end of the drain task and of the publisher move no record.
LEMMA AccountFrame ==
    ASSUME AccountInv, LockInv',
           RunWake \/ DrainWakes \/ CancelDrain \/ UndeclarePublisher \/ UNCHANGED vars
    PROVE  AccountInv'
<1>1. /\ Emitting' = Emitting
      /\ UNCHANGED <<pending, inHand, published, step, record, emitted, dropped, evicted, failed, cleared,
                     closed>>
  BY DEF RunWake, DrainWakes, CancelDrain, UndeclarePublisher, vars, emitVars, lossVars, Emitting
<1>2. /\ drain' \in {"waiting", "draining", "putting", "done"}
      /\ (drain' = "putting" <=> drain = "putting")
  BY DEF AccountInv, BusType, RunWake, DrainWakes, CancelDrain, UndeclarePublisher, vars
<1>3. wakes' \in BOOLEAN /\ wake' \in BOOLEAN /\ publisher' \in BOOLEAN
  BY DEF AccountInv, BusType, RunWake, DrainWakes, CancelDrain, UndeclarePublisher, vars
<1>4. BusType'
  BY <1>1, <1>2, <1>3 DEF AccountInv, BusType
<1>5. Carried' /\ Account' /\ LossCounted'
  BY <1>1, <1>2 DEF AccountInv, Carried, Account, LossCounted, InEmit, InHand, Full
<1>. QED  BY <1>4, <1>5 DEF AccountInv

LEMMA AccountStep == AccountInv /\ [Next]_vars => AccountInv'
<1>. SUFFICES ASSUME AccountInv, [Next]_vars PROVE AccountInv'
  OBVIOUS
<1>. LockInv'
  BY LockStep DEF AccountInv
<1>1. ASSUME NEW t \in Emitters, Emit(t)
      PROVE  AccountInv'
  BY <1>1, AccountEnter, AccountCountDrop, AccountAppendRecord, AccountNotify DEF Emit
<1>2. CASE Drain
  BY <1>2, AccountDrainTakes, AccountDrainPuts, AccountFrame DEF Drain
<1>3. CASE RunWake \/ CancelDrain \/ UndeclarePublisher \/ UNCHANGED vars
  BY <1>3, AccountFrame
<1>. QED  BY <1>1, <1>2, <1>3, AccountClose DEF Next

LEMMA AccountAlways == Spec => []AccountInv
BY AccountInit, AccountStep, PTL DEF Spec

\* The state keeps its types, the bound of the deque and of every counter included.
THEOREM LogTypeCorrect == Spec => []TypeOK
<1>1. AccountInv => TypeOK
  BY AccountInvImplies
<1>. QED  BY <1>1, AccountAlways, PTL

\* Every record that emit accepted is on its way, published or in one of the losses,
\* and the deque discards none uncounted, whatever runs between emit's check and its
\* append.
THEOREM LogRecordsAccounted == Spec => []RecordsAccounted
<1>1. AccountInv => RecordsAccounted
  BY AccountInvImplies
<1>. QED  BY <1>1, AccountAlways, PTL

-----------------------------------------------------------------------------
(* Order, and no feedback.  Published records, the one in the drain task's   *)
(* hand, the deque and the one inside emit follow each other.                *)

Ascending(s) == \A i, j \in DOMAIN s : i < j => s[i].id < s[j].id

\* Every record of s was logged before number n, or after it.
UpTo(s, n)  == \A i \in DOMAIN s : s[i].id < n
After(s, n) == \A i \in DOMAIN s : n < s[i].id

Foreign(s) == \A i \in DOMAIN s : ~s[i].own

FeedInv ==
    /\ Ascending(published) /\ Ascending(pending)
    /\ \A i \in DOMAIN pending : UpTo(published, pending[i].id)
    /\ drain = "putting" => UpTo(published, inHand.id) /\ After(pending, inHand.id)
    /\ \A t \in Emitting :
          /\ UpTo(published, record[t].id) /\ UpTo(pending, record[t].id)
          /\ drain = "putting" => inHand.id < record[t].id
          /\ record[t].id <= emitted
    /\ UpTo(published, emitted + 1) /\ UpTo(pending, emitted + 1)
    /\ drain = "putting" => inHand.id <= emitted

ForeignInv ==
    /\ Foreign(published) /\ Foreign(pending)
    /\ drain = "putting" => ~inHand.own
    /\ \A t \in Emitting : ~record[t].own

LEMMA FeedInit == Init => FeedInv /\ ForeignInv
<1>. SUFFICES ASSUME Init PROVE FeedInv /\ ForeignInv
  OBVIOUS
<1>1. Emitting = {} /\ DOMAIN published = {} /\ DOMAIN pending = {} /\ drain # "putting"
  BY DEF Init, Emitting
<1>. QED  BY <1>1 DEF FeedInv, ForeignInv, Ascending, UpTo, After, Foreign

\* The numbers that are compared.
LEMMA FeedNumbers ==
    ASSUME AccountInv
    PROVE  /\ pending \in Seq(Record) /\ published \in Seq(Record) /\ emitted \in Nat
           /\ \A i \in DOMAIN pending : pending[i].id \in Nat
           /\ \A i \in DOMAIN published : published[i].id \in Nat
           /\ drain = "putting" => inHand.id \in Nat
           /\ \A t \in Emitting : record[t] \in Record /\ record[t].id \in Nat
<1>1. \A r \in Record : r.id \in Nat
  BY DEF Record
<1>2. pending \in Seq(Record) /\ published \in Seq(Record) /\ emitted \in Nat
  BY DEF AccountInv, BusType
<1>3. /\ \A i \in DOMAIN pending : pending[i] \in Record
      /\ \A i \in DOMAIN published : published[i] \in Record
  BY <1>2
<1>. QED  BY <1>1, <1>2, <1>3 DEF AccountInv, Carried

LEMMA FeedEnter ==
    ASSUME AccountInv, FeedInv, ForeignInv, NEW t \in Emitters, Enter(t) PROVE FeedInv' /\ ForeignInv'
<1>1. /\ emitted' = emitted + 1 /\ step' = [step EXCEPT ![t] = "checked"]
      /\ record' = [record EXCEPT ![t] = [id |-> emitted + 1, own |-> InPut(t)]]
      /\ UNCHANGED <<pending, drain, inHand, published>>
      /\ ~InPut(t) /\ \A u \in Emitters : step[u] = "out"
  BY DEF Enter, Refused, Locked
<1>2. Emitting' = {t}
  BY <1>1 DEF Emitting, AccountInv, LockInv
<1>3. record'[t].id = emitted + 1 /\ ~record'[t].own
  BY <1>1 DEF AccountInv, BusType
<1>4. emitted \in Nat
  BY FeedNumbers
<1>5. ForeignInv'
  BY <1>1, <1>2, <1>3 DEF ForeignInv, Foreign
<1>6. /\ Ascending(published)' /\ Ascending(pending)'
      /\ \A i \in DOMAIN pending' : UpTo(published', pending'[i].id)
      /\ drain' = "putting" => UpTo(published', inHand'.id) /\ After(pending', inHand'.id)
  BY <1>1 DEF FeedInv, Ascending
<1>7. /\ UpTo(published', emitted + 1) /\ UpTo(pending', emitted + 1)
      /\ drain' = "putting" => inHand'.id < emitted + 1
  BY <1>1, <1>4, FeedNumbers DEF FeedInv
<1>8. UpTo(published', emitted' + 1) /\ UpTo(pending', emitted' + 1)
  BY <1>1, <1>4, <1>7, FeedNumbers DEF UpTo
<1>9. drain' = "putting" => inHand'.id <= emitted'
  BY <1>1, <1>4, FeedNumbers DEF FeedInv
<1>. QED  BY <1>1, <1>2, <1>3, <1>4, <1>5, <1>6, <1>7, <1>8, <1>9 DEF FeedInv

LEMMA FeedAppendRecord ==
    ASSUME AccountInv, FeedInv, ForeignInv, NEW t \in Emitters, AppendRecord(t), Emitting' = {}
    PROVE  FeedInv' /\ ForeignInv'
<1>1. /\ step[t] = "counted" /\ pending' = Appended(t)
      /\ UNCHANGED <<drain, inHand, published, record, emitted>>
  BY DEF AppendRecord
<1>2. t \in Emitting /\ record[t] \in Record /\ record[t].id \in Nat
  BY <1>1, FeedNumbers DEF Emitting
<1>3. PICK k \in {0, 1} : \A i \in DOMAIN pending' :
         \/ i = Len(pending') /\ pending'[i] = record[t]
         \/ i < Len(pending') /\ i + k \in DOMAIN pending /\ pending'[i] = pending[i + k]
  BY <1>1, <1>2, AppendedQueue DEF AccountInv
<1>4. \A i \in DOMAIN pending' : pending'[i] = record[t] \/ \E j \in DOMAIN pending : pending'[i] = pending[j]
  BY <1>3
<1>5. /\ UpTo(published, record[t].id) /\ UpTo(pending, record[t].id) /\ record[t].id <= emitted
      /\ drain = "putting" => inHand.id < record[t].id
  BY <1>2 DEF FeedInv
<1>6. Ascending(pending')
  <2>1. pending' \in Seq(Record)
    BY <1>1, <1>2, AppendedQueue DEF AccountInv
  <2>. SUFFICES ASSUME NEW i \in DOMAIN pending', NEW j \in DOMAIN pending', i < j
                PROVE  pending'[i].id < pending'[j].id
    BY DEF Ascending
  <2>2. i \in Nat /\ j \in Nat /\ j <= Len(pending') /\ Len(pending') \in Nat
    BY <2>1
  <2>3. i + k \in DOMAIN pending /\ pending'[i] = pending[i + k]
    BY <1>3, <2>2
  <2>4. CASE pending'[j] = record[t]
    BY <1>5, <2>3, <2>4 DEF UpTo
  <2>5. CASE j + k \in DOMAIN pending /\ pending'[j] = pending[j + k]
    <3>1. i + k < j + k
      BY <2>2
    <3>. QED  BY <2>3, <2>5, <3>1 DEF FeedInv, Ascending
  <2>. QED  BY <1>3, <2>4, <2>5
<1>7. \A i \in DOMAIN pending' : UpTo(published, pending'[i].id)
  BY <1>4, <1>5 DEF FeedInv
<1>8. drain = "putting" => After(pending', inHand.id)
  BY <1>4, <1>5 DEF FeedInv, After
<1>9. UpTo(pending', emitted + 1)
  <2>1. record[t].id < emitted + 1
    BY <1>2, <1>5, FeedNumbers
  <2>. QED  BY <1>4, <2>1 DEF FeedInv, UpTo
<1>10. FeedInv'
  BY <1>1, <1>6, <1>7, <1>8, <1>9 DEF FeedInv
<1>11. ForeignInv'
  BY <1>1, <1>2, <1>4 DEF ForeignInv, Foreign
<1>. QED  BY <1>10, <1>11

LEMMA FeedDrainTakes ==
    AccountInv /\ FeedInv /\ ForeignInv /\ DrainTakes => FeedInv' /\ ForeignInv'
<1>. SUFFICES ASSUME AccountInv, FeedInv, ForeignInv, DrainTakes PROVE FeedInv' /\ ForeignInv'
  OBVIOUS
<1>1. drain = "draining" /\ Emitting' = Emitting /\ UNCHANGED <<record, emitted, published>>
  BY DEF DrainTakes, emitVars, Emitting
<1>2. CASE pending = <<>>
  <2>1. drain' = "waiting" /\ UNCHANGED <<pending, inHand>>
    BY <1>2 DEF DrainTakes
  <2>. QED  BY <1>1, <2>1 DEF FeedInv, ForeignInv, Ascending, Foreign
<1>3. CASE pending # <<>>
  <2>1. inHand' = Head(pending) /\ pending' = Tail(pending)
    BY <1>3 DEF DrainTakes, Taken
  <2>2. 1 \in DOMAIN pending /\ inHand' = pending[1] /\ pending \in Seq(Record)
    BY <1>3, <2>1, FeedNumbers
  <2>3. \A i \in DOMAIN pending' : i + 1 \in DOMAIN pending /\ pending'[i] = pending[i + 1] /\ i \in Nat /\ 0 < i
    BY <1>3, <2>1, <2>2
  <2>4. Ascending(pending')
    BY <2>3 DEF FeedInv, Ascending
  <2>5. After(pending', inHand'.id)
    <3>1. \A i \in DOMAIN pending' : 1 < i + 1
      BY <2>3
    <3>. QED  BY <2>2, <2>3, <3>1 DEF FeedInv, Ascending, After
  <2>6. \A n : UpTo(pending, n) => UpTo(pending', n) /\ inHand'.id < n
    BY <2>2, <2>3 DEF UpTo
  <2>7. /\ \A i \in DOMAIN pending' : UpTo(published, pending'[i].id)
        /\ UpTo(published, inHand'.id)
    BY <2>2, <2>3 DEF FeedInv
  <2>8. inHand'.id <= emitted
    BY <2>2, <2>6, FeedNumbers DEF FeedInv
  <2>9. FeedInv'
    BY <1>1, <2>4, <2>5, <2>6, <2>7, <2>8 DEF FeedInv
  <2>10. ForeignInv'
    BY <1>1, <2>2, <2>3 DEF ForeignInv, Foreign
  <2>. QED  BY <2>9, <2>10
<1>. QED  BY <1>2, <1>3

LEMMA FeedDrainPuts ==
    AccountInv /\ FeedInv /\ ForeignInv /\ DrainPuts => FeedInv' /\ ForeignInv'
<1>. SUFFICES ASSUME AccountInv, FeedInv, ForeignInv, DrainPuts PROVE FeedInv' /\ ForeignInv'
  OBVIOUS
<1>1. /\ drain = "putting" /\ drain' = "draining" /\ Emitting' = Emitting
      /\ UNCHANGED <<pending, record, emitted>>
  BY DEF DrainPuts, AfterPut, emitVars, Emitting
<1>2. CASE UNCHANGED published
  BY <1>1, <1>2 DEF FeedInv, ForeignInv, Ascending, Foreign
<1>3. CASE published' = Append(published, inHand)
  <2>1. /\ published \in Seq(Record) /\ inHand \in Record
    BY <1>1 DEF AccountInv, BusType, Carried
  <2>2. /\ DOMAIN published = 1..Len(published) /\ DOMAIN published' = 1..(Len(published) + 1)
        /\ Len(published) \in Nat
        /\ \A i \in DOMAIN published : published'[i] = published[i]
        /\ published'[Len(published) + 1] = inHand
    BY <1>3, <2>1
  <2>3. \A i \in DOMAIN published' : i \in DOMAIN published \/ i = Len(published) + 1
    BY <2>2
  <2>4. \A n : UpTo(published, n) /\ inHand.id < n => UpTo(published', n)
    BY <2>2, <2>3 DEF UpTo
  <2>5. Ascending(published')
    <3>. SUFFICES ASSUME NEW i \in DOMAIN published', NEW j \in DOMAIN published', i < j
                  PROVE  published'[i].id < published'[j].id
      BY DEF Ascending
    <3>1. i \in DOMAIN published
      BY <2>2
    <3>2. CASE j \in DOMAIN published
      BY <2>2, <3>1, <3>2 DEF FeedInv, Ascending
    <3>3. CASE j = Len(published) + 1
      BY <1>1, <2>2, <3>1, <3>3 DEF FeedInv, UpTo
    <3>. QED  BY <2>3, <3>2, <3>3
  <2>6. inHand.id < emitted + 1
    BY <1>1, FeedNumbers DEF FeedInv
  <2>7. FeedInv'
    BY <1>1, <2>4, <2>5, <2>6 DEF FeedInv, After, Ascending
  <2>8. ForeignInv'
    BY <1>1, <2>2, <2>3 DEF ForeignInv, Foreign
  <2>. QED  BY <2>7, <2>8
<1>. QED  BY <1>2, <1>3 DEF DrainPuts

LEMMA FeedClose == FeedInv /\ ForeignInv /\ Close => FeedInv' /\ ForeignInv'
<1>. SUFFICES ASSUME FeedInv, ForeignInv, Close PROVE FeedInv' /\ ForeignInv'
  OBVIOUS
<1>1. /\ Emitting' = Emitting /\ DOMAIN pending' = {}
      /\ UNCHANGED <<drain, inHand, published, record, emitted>>
  BY DEF Close, emitVars, Emitting
<1>. QED  BY <1>1 DEF FeedInv, ForeignInv, Ascending, UpTo, After, Foreign

\* Any other step moves no record, but perhaps out of emit.
LEMMA FeedFrame ==
    ASSUME AccountInv, FeedInv, ForeignInv,
           \/ \E t \in Emitters : CountDrop(t) \/ Notify(t)
           \/ RunWake \/ DrainWakes \/ CancelDrain \/ UndeclarePublisher \/ UNCHANGED vars
    PROVE  FeedInv' /\ ForeignInv'
<1>1. UNCHANGED <<pending, inHand, published, emitted>>
  BY DEF CountDrop, Notify, RunWake, DrainWakes, CancelDrain, UndeclarePublisher, vars, emitVars
<1>2. drain' = "putting" => drain = "putting"
  BY DEF CountDrop, Notify, RunWake, DrainWakes, CancelDrain, UndeclarePublisher, vars
<1>3. \A u \in Emitting' : u \in Emitting /\ record'[u] = record[u]
  <2>. SUFFICES ASSUME NEW u \in Emitting' PROVE u \in Emitting /\ record'[u] = record[u]
    OBVIOUS
  <2>1. ASSUME NEW t \in Emitters, CountDrop(t)
        PROVE  u \in Emitting /\ record'[u] = record[u]
    BY <2>1 DEF CountDrop, Emitting, AccountInv, LockInv
  <2>2. ASSUME NEW t \in Emitters, Notify(t)
        PROVE  u \in Emitting /\ record'[u] = record[u]
    BY <2>2 DEF Notify, Emitting, AccountInv, LockInv, BusType
  <2>3. CASE UNCHANGED <<step, record>>
    BY <2>3 DEF Emitting
  <2>4. \/ \E t \in Emitters : CountDrop(t) \/ Notify(t)
        \/ UNCHANGED <<step, record>>
    BY DEF RunWake, DrainWakes, CancelDrain, UndeclarePublisher, vars, emitVars
  <2>. QED  BY <2>1, <2>2, <2>3, <2>4
<1>. QED  BY <1>1, <1>2, <1>3 DEF FeedInv, ForeignInv, Ascending, Foreign

LEMMA FeedStep ==
    AccountInv /\ AccountInv' /\ FeedInv /\ ForeignInv /\ [Next]_vars => FeedInv' /\ ForeignInv'
<1>. SUFFICES ASSUME AccountInv, AccountInv', FeedInv, ForeignInv, [Next]_vars
              PROVE  FeedInv' /\ ForeignInv'
  OBVIOUS
<1>1. ASSUME NEW t \in Emitters, AppendRecord(t)
      PROVE  FeedInv' /\ ForeignInv'
  <2>1. Emitting' = {}
    BY <1>1 DEF AppendRecord, Emitting, AccountInv, LockInv
  <2>. QED  BY <1>1, <2>1, FeedAppendRecord
<1>2. ASSUME NEW t \in Emitters, Emit(t)
      PROVE  FeedInv' /\ ForeignInv'
  BY <1>1, <1>2, FeedEnter, FeedFrame DEF Emit
<1>3. CASE Drain
  BY <1>3, FeedDrainTakes, FeedDrainPuts, FeedFrame DEF Drain
<1>4. CASE RunWake \/ CancelDrain \/ UndeclarePublisher \/ UNCHANGED vars
  BY <1>4, FeedFrame
<1>. QED  BY <1>2, <1>3, <1>4, FeedClose DEF Next

\* The bus sees the records in the order they were logged, and none that the
\* publish path logged itself.
THEOREM FeedClean == Spec => []CleanFeed
<1>1. Spec => [](FeedInv /\ ForeignInv)
  BY FeedInit, FeedStep, AccountAlways, PTL DEF Spec
<1>2. FeedInv /\ ForeignInv => CleanFeed
  BY DEF FeedInv, ForeignInv, Ascending, Foreign, CleanFeed
<1>. QED  BY <1>1, <1>2, PTL
=================================================================================

------------------------------ MODULE RelayProofs ------------------------------
(***************************************************************************)
(* Theorems about the two relays of what zenoh knows to those who wait for  *)
(* it: Presence, for every set of nodes, every poll and timeout and any     *)
(* number of changes; and Matching, for any hooks, suspending or not, and   *)
(* any number of changes of the level.                                      *)
(***************************************************************************)
EXTENDS Presence, Matching, SequenceTheorems, WellFoundedInduction, TLAPS

USE WantedAssumption, TimeAssumption, BoundAssumption, HookAssumption, FlipsAssumption

-----------------------------------------------------------------------------
(* Type correctness.                                                        *)

\* What comes off the front of a sequence, and what is left.
LEMMA FrontOff == ASSUME NEW S, NEW s \in Seq(S), s # <<>>
                  PROVE  Head(s) \in S /\ Tail(s) \in Seq(S)
BY HeadTailProperties

LEMMA PresenceTypeInit == Init => TypeOK
BY DEF Init, TypeOK, Up

LEMMA PresenceTypeStep == TypeOK /\ [Next]_vars => TypeOK'
<1>. SUFFICES ASSUME TypeOK, [Next]_vars PROVE TypeOK'
  OBVIOUS
<1>1. ASSUME NEW n \in Nodes, Change(n)
      PROVE  TypeOK'
  <2>1. up'[n] \in BOOLEAN /\ up' \in [Nodes -> BOOLEAN] /\ changes' \in 0..MaxChanges
    BY <1>1 DEF TypeOK, Change
  <2>2. samples' \in [Nodes -> Seq(BOOLEAN)]
    <3>1. Append(samples[n], ~up[n]) \in Seq(BOOLEAN)
      BY DEF TypeOK
    <3>. QED  BY <1>1, <3>1 DEF TypeOK, Change
  <2>3. seenUp' \subseteq Nodes /\ seenDown' \subseteq Nodes /\ stale' \subseteq Nodes
    BY <1>1 DEF TypeOK, Change
  <2>. QED  BY <1>1, <2>1, <2>2, <2>3 DEF TypeOK, Change, waitVars
<1>2. ASSUME NEW n \in Nodes, Answer(n)
      PROVE  TypeOK'
  BY <1>2 DEF TypeOK, Answer, netVars, waitVars, viewVars
<1>3. ASSUME NEW n \in Nodes, OnSample(n)
      PROVE  TypeOK'
  <2>1. Head(samples[n]) \in BOOLEAN /\ Tail(samples[n]) \in Seq(BOOLEAN)
    <3>1. samples[n] \in Seq(BOOLEAN) /\ samples[n] # <<>>
      BY <1>3 DEF TypeOK, OnSample
    <3>. QED  BY <3>1, FrontOff
  <2>2. queued' \in Seq([name : Nodes, alive : BOOLEAN])
    BY <1>3, <2>1 DEF TypeOK, OnSample
  <2>3. samples' \in [Nodes -> Seq(BOOLEAN)]
    BY <1>3, <2>1 DEF TypeOK, OnSample
  <2>. QED  BY <1>3, <2>2, <2>3 DEF TypeOK, OnSample, netVars, waitVars, listVars
<1>4. CASE Tick
  BY <1>4 DEF TypeOK, Tick, netVars, listVars, viewVars
<1>5. CASE ListEnds
  <2>1. CASE client = "wait_for_nodes" /\ pc' = "checking" /\ UNCHANGED view
    BY <1>5, <2>1 DEF TypeOK, ListEnds, netVars, waitVars, listVars
  <2>2. CASE pc' \in {"stopped", "declaring"} /\ view' = [n \in Nodes |-> n \in names]
    <3>1. \A n \in Nodes : (n \in names) \in BOOLEAN
      OBVIOUS
    <3>2. view' \in [Nodes -> BOOLEAN]
      BY <2>2, <3>1, Zenon
    <3>. QED  BY <1>5, <2>2, <3>2 DEF TypeOK, ListEnds, netVars, waitVars, listVars
  <2>. QED  BY <1>5, <2>1, <2>2 DEF ListEnds
<1>6. CASE Check
  BY <1>6 DEF TypeOK, Check, netVars, listVars, viewVars
<1>7. CASE ListAgain
  BY <1>7 DEF TypeOK, ListAgain, LeftNow, Found, Up, netVars, viewVars
<1>8. CASE WaitCancelled \/ Stop
  BY <1>8 DEF TypeOK, WaitCancelled, Stop, netVars, waitVars, listVars, viewVars
<1>9. CASE DeclareSubscriber
  <2>1. Replay \in [Nodes -> Seq(BOOLEAN)]
    <3>1. <<TRUE>> \in Seq(BOOLEAN) /\ <<>> \in Seq(BOOLEAN)
      OBVIOUS
    <3>2. \A n \in Nodes : (IF up[n] THEN <<TRUE>> ELSE <<>>) \in Seq(BOOLEAN)
      BY <3>1, Zenon
    <3>. QED  BY <3>2, Zenon DEF Replay
  <2>. QED  BY <1>9, <2>1 DEF TypeOK, DeclareSubscriber, netVars, waitVars, listVars
<1>10. CASE Told
  <2>1. Head(queued) \in [name : Nodes, alive : BOOLEAN] /\ Tail(queued) \in Seq([name : Nodes, alive : BOOLEAN])
    <3>1. queued \in Seq([name : Nodes, alive : BOOLEAN]) /\ queued # <<>>
      BY <1>10 DEF TypeOK, Told
    <3>. QED  BY <3>1, FrontOff
  <2>2. view' \in [Nodes -> BOOLEAN]
    BY <1>10, <2>1 DEF TypeOK, Told
  <2>. QED  BY <1>10, <2>1, <2>2 DEF TypeOK, Told, netVars, waitVars, listVars
<1>11. CASE UNCHANGED vars
  BY <1>11 DEF TypeOK, vars, netVars, waitVars, listVars, viewVars
<1>. QED
  BY <1>1, <1>2, <1>3, <1>4, <1>5, <1>6, <1>7, <1>8, <1>9, <1>10, <1>11 DEF Next, Terminated

\* The state keeps its types: the timers never run below zero, and what is on its way
\* to a watcher stays sequences of samples (presence.py, node.py:854-867, cli.py:531-565).
THEOREM PresenceTypeCorrect == Spec => []TypeOK
<1>. QED  BY PresenceTypeInit, PresenceTypeStep, PTL DEF Spec

-----------------------------------------------------------------------------
(* wait_for_nodes.                                                          *)

\* What the list knows: a node that it found was up since it began, one that it
\* settled otherwise was down, and so was or is what the network holds now.
Looked ==
    /\ names \subseteq seenUp
    /\ Nodes \ (asked \cup names) \subseteq seenDown
    /\ \A n \in Nodes : n \in (IF up[n] THEN seenUp ELSE seenDown)

LEMMA LookedStep == TypeOK /\ Looked /\ [Next]_vars => Looked'
<1>. SUFFICES ASSUME TypeOK, Looked, [Next]_vars PROVE Looked'
  OBVIOUS
<1>1. ASSUME NEW n \in Nodes, Change(n)
      PROVE  Looked'
  BY <1>1 DEF TypeOK, Looked, Change
<1>2. ASSUME NEW n \in Nodes, Answer(n)
      PROVE  Looked'
  BY <1>2 DEF TypeOK, Looked, Answer, netVars
<1>3. CASE ListAgain
  BY <1>3 DEF TypeOK, Looked, ListAgain, Found, Up, netVars
<1>4. CASE UNCHANGED <<netVars, listVars>>
  BY <1>4 DEF Looked, netVars, listVars
<1>5. \/ \E n \in Nodes : Change(n) \/ Answer(n)
      \/ ListAgain
      \/ UNCHANGED <<netVars, listVars>>
  BY DEF Next, OnSample, Tick, ListEnds, Check, WaitCancelled, DeclareSubscriber, Told, Stop,
         Terminated, vars, netVars, listVars
<1>. QED  BY <1>1, <1>2, <1>3, <1>4, <1>5

LEMMA LookedInit == Init => Looked
BY DEF Init, Looked, Up

\* wait_for_nodes tells the truth about its last look, whatever the nodes do between
\* any two of its steps (node.py:858-867).
THEOREM WaitTruthful == Spec => WaitRight
<1>1. TypeOK /\ Looked /\ [Next]_vars
        => [/\ pc' = "returned" /\ pc # pc' => Wanted \subseteq seenUp
            /\ pc' = "raised" /\ pc # pc' => left = 0 /\ Wanted \cap (seenDown \cup asked) # {}]_vars
  <2>. SUFFICES ASSUME TypeOK, Looked, Next, pc # pc', pc' \in {"returned", "raised"}
                PROVE  /\ pc' = "returned" => Wanted \subseteq seenUp
                       /\ pc' = "raised" => left = 0 /\ Wanted \cap (seenDown \cup asked) # {}
    OBVIOUS
  <2>1. Check
    BY DEF Next, Change, Answer, OnSample, Tick, ListEnds, ListAgain, WaitCancelled,
           DeclareSubscriber, Told, Stop, Terminated, vars
  <2>2. CASE Wanted \subseteq names
    BY <2>1, <2>2 DEF Check, Looked
  <2>3. CASE ~(Wanted \subseteq names)
    BY <2>1, <2>3 DEF Check, Looked
  <2>. QED  BY <2>2, <2>3
<1>. QED
  BY <1>1, PresenceTypeInit, PresenceTypeStep, LookedInit, LookedStep, PTL DEF Spec, WaitRight

-----------------------------------------------------------------------------
(* PresenceWatcher and the command.                                         *)

\* Which program is where; nothing is on its way before the subscriber is declared, and
\* what the list printed is right of the nodes that answered and have not changed since.
BeforeWatching ==
    /\ pc \in {"checking", "sleeping"} => client = "wait_for_nodes"
    /\ pc = "declaring" => client # "wait_for_nodes"
    /\ client = "watcher" => pc \in {"declaring", "watching", "stopped"}
    /\ asked \cap names = {}
    /\ pc \in {"listing", "checking", "sleeping", "declaring"}
            => queued = <<>> /\ \A n \in Nodes : samples[n] = <<>>
    /\ pc = "declaring" /\ client = "watcher" => \A n \in Nodes : view[n] = FALSE
    /\ pc = "declaring" /\ client = "command" => \A n \in Nodes : view[n] <=> n \in names
    /\ pc \in {"listing", "declaring"} /\ client = "command"
            => \A n \in Nodes \ stale : up[n] <=> n \in names

LEMMA BeforeWatchingStep == TypeOK /\ BeforeWatching /\ [Next]_vars => BeforeWatching'
<1>. SUFFICES ASSUME TypeOK, BeforeWatching, [Next]_vars PROVE BeforeWatching'
  OBVIOUS
<1>1. ASSUME NEW n \in Nodes, Change(n)
      PROVE  BeforeWatching'
  BY <1>1 DEF TypeOK, BeforeWatching, Change, Watching, waitVars
<1>2. ASSUME NEW n \in Nodes, Answer(n)
      PROVE  BeforeWatching'
  BY <1>2 DEF TypeOK, BeforeWatching, Answer, netVars, waitVars, viewVars
<1>3. ASSUME NEW n \in Nodes, OnSample(n)
      PROVE  BeforeWatching'
  BY <1>3 DEF TypeOK, BeforeWatching, OnSample, Watching, netVars, waitVars, listVars
<1>4. CASE ListEnds
  BY <1>4 DEF TypeOK, BeforeWatching, ListEnds, netVars, waitVars, listVars
<1>5. CASE ListAgain
  BY <1>5 DEF TypeOK, BeforeWatching, ListAgain, Found, netVars, viewVars
<1>6. CASE Tick \/ Check \/ WaitCancelled \/ Stop
  BY <1>6 DEF TypeOK, BeforeWatching, Tick, Check, WaitCancelled, Stop, Watching,
              netVars, waitVars, listVars, viewVars
<1>7. CASE DeclareSubscriber
  BY <1>7 DEF TypeOK, BeforeWatching, DeclareSubscriber, netVars, waitVars, listVars
<1>8. CASE Told
  BY <1>8 DEF TypeOK, BeforeWatching, Told, netVars, waitVars, listVars
<1>9. CASE UNCHANGED vars
  BY <1>9 DEF BeforeWatching, vars, netVars, waitVars, listVars, viewVars
<1>. QED
  BY <1>1, <1>2, <1>3, <1>4, <1>5, <1>6, <1>7, <1>8, <1>9 DEF Next, Terminated

LEMMA BeforeWatchingInit == Init => BeforeWatching
BY DEF Init, BeforeWatching

\* A declared subscriber starts from the tokens that are live, or from the list.
LEMMA SettledDeclared == ASSUME TypeOK, BeforeWatching, DeclareSubscriber, NEW n \in Nodes \ stale'
                         PROVE  Settled(n)'
<1>1. queued' = <<>> /\ up' = up /\ view' = view /\ up[n] \in BOOLEAN /\ view[n] \in BOOLEAN
  BY DEF TypeOK, BeforeWatching, DeclareSubscriber, netVars
<1>2. CASE client = "watcher"
  <2>1. samples'[n] = (IF up[n] THEN <<TRUE>> ELSE <<>>)
    BY <1>2 DEF DeclareSubscriber, Replay
  <2>2. view[n] = FALSE
    BY <1>2 DEF DeclareSubscriber, BeforeWatching
  <2>3. CASE up[n]
    BY <1>1, <2>1, <2>3 DEF Settled
  <2>4. CASE ~up[n]
    BY <1>1, <2>1, <2>2, <2>4 DEF Settled
  <2>. QED  BY <2>3, <2>4
<1>3. CASE client = "command"
  <2>1. samples'[n] = <<>> /\ stale' = stale
    BY <1>3 DEF DeclareSubscriber, BeforeWatching
  <2>2. (view[n] <=> n \in names) /\ (up[n] <=> n \in names)
    BY <1>3, <2>1 DEF DeclareSubscriber, BeforeWatching
  <2>. QED  BY <1>1, <2>1, <2>2 DEF Settled
<1>. QED  BY <1>2, <1>3 DEF DeclareSubscriber

\* A change sends its own sample.
LEMMA SettledChange == ASSUME TypeOK, Watching, NEW m \in Nodes, Change(m), NEW n \in Nodes \ stale',
                              n \notin stale => Settled(n)
                       PROVE  Settled(n)'
<1>1. samples[n] \in Seq(BOOLEAN) /\ up[n] \in BOOLEAN
  BY DEF TypeOK
<1>2. CASE n = m
  <2>1. samples'[n] = Append(samples[n], ~up[n]) /\ up'[n] = ~up[n]
    BY <1>2 DEF TypeOK, Change
  <2>2. samples'[n] # <<>> /\ samples'[n][Len(samples'[n])] = ~up[n]
    BY <1>1, <2>1
  <2>. QED  BY <2>1, <2>2 DEF Settled
<1>3. CASE n # m
  BY <1>3 DEF TypeOK, Change, Settled, Newest
<1>. QED  BY <1>2, <1>3

\* The newest sample stays the newest on its way through the queue.
LEMMA SettledOnSample == ASSUME TypeOK, NEW m \in Nodes, OnSample(m), NEW n \in Nodes, Settled(n)
                         PROVE  Settled(n)'
<1> DEFINE e == [name |-> m, alive |-> Head(samples[m])]
<1>1. /\ samples[m] \in Seq(BOOLEAN) /\ samples[m] # <<>>
      /\ samples' = [samples EXCEPT ![m] = Tail(@)] /\ samples \in [Nodes -> Seq(BOOLEAN)]
      /\ queued' = Append(queued, e) /\ up' = up /\ view' = view
  BY DEF TypeOK, OnSample, netVars
<1>2. queued \in Seq([name : Nodes, alive : BOOLEAN]) /\ e \in [name : Nodes, alive : BOOLEAN]
  BY <1>1, FrontOff DEF TypeOK
<1>3. /\ DOMAIN queued = 1..Len(queued) /\ DOMAIN queued' = 1..(Len(queued) + 1)
      /\ queued'[Len(queued) + 1] = e
      /\ \A i \in 1..Len(queued) : queued'[i] = queued[i]
      /\ Len(queued) \in Nat
  <2>. HIDE DEF e
  <2>. QED  BY <1>1, <1>2
<1>4. CASE n = m
  <2>1. CASE Tail(samples[n]) # <<>>
    <3>1. /\ samples'[n] = Tail(samples[n])
          /\ Tail(samples[n])[Len(Tail(samples[n]))] = samples[n][Len(samples[n])]
      BY <1>1, <1>4, <2>1
    <3>. QED  BY <1>1, <1>4, <2>1, <3>1 DEF Settled
  <2>2. CASE Tail(samples[n]) = <<>>
    <3>1. samples'[n] = <<>> /\ Head(samples[n]) = samples[n][Len(samples[n])]
      <4>1. samples'[n] = <<>>
        BY <1>1, <1>4, <2>2
      <4>2. samples[n] \in Seq(BOOLEAN) /\ samples[n] # <<>>
        BY <1>1, <1>4
      <4>3. Len(samples[n]) = 1 /\ Head(samples[n]) = samples[n][1]
        <5>1. Len(Tail(samples[n])) = Len(samples[n]) - 1
          BY <4>2, HeadTailProperties
        <5>3. Head(samples[n]) = samples[n][1]
          BY <4>2
        <5>2. Len(Tail(samples[n])) = 0 /\ Len(samples[n]) \in Nat
          <6>1. \A s \in Seq(BOOLEAN) : s = <<>> => Len(s) = 0
            OBVIOUS
          <6>2. Tail(samples[n]) \in Seq(BOOLEAN)
            BY <4>2, FrontOff
          <6>3. Len(Tail(samples[n])) = 0
            BY <2>2, <6>1, <6>2
          <6>. QED  BY <4>2, <6>3
        <5>. QED  BY <5>1, <5>2, <5>3
      <4>. QED  BY <4>1, <4>3
    <3>2. e.alive = up[n] /\ e.name = n
      BY <1>1, <1>4, <3>1 DEF Settled
    <3>3. ASSUME NEW i \in DOMAIN queued', queued'[i].name = n, Newest(i)'
          PROVE  queued'[i].alive = up[n]
      <4>1. i = Len(queued) + 1
        <5>. HIDE DEF e
        <5>. QED  BY <1>3, <3>2, <3>3 DEF Newest
      <4>. QED  BY <1>3, <3>2, <4>1
    <3>4. \E i \in DOMAIN queued' : queued'[i].name = n
      <4>. HIDE DEF e
      <4>. QED  BY <1>3, <3>2
    <3>. QED  BY <1>1, <3>1, <3>3, <3>4 DEF Settled
  <2>. QED  BY <2>1, <2>2
<1>5. CASE n # m
  <2>1. samples'[n] = samples[n] /\ e.name # n
    BY <1>1, <1>5
  <2>2. (\E i \in DOMAIN queued' : queued'[i].name = n) <=> (\E i \in DOMAIN queued : queued[i].name = n)
    <3>. HIDE DEF e
    <3>. QED  BY <1>3, <2>1
  <2>3. ASSUME NEW i \in DOMAIN queued', queued'[i].name = n, Newest(i)'
        PROVE  i \in DOMAIN queued /\ queued[i].name = n /\ Newest(i) /\ queued'[i] = queued[i]
    <3>. HIDE DEF e
    <3>. QED  BY <1>3, <2>1, <2>3 DEF Newest
  <2>. QED  BY <1>1, <2>1, <2>2, <2>3 DEF Settled
<1>. QED  BY <1>4, <1>5

\* What is told last is what came last.
LEMMA SettledTold == ASSUME TypeOK, Told, NEW n \in Nodes, Settled(n)
                     PROVE  Settled(n)'
<1>1. /\ queued # <<>> /\ queued' = Tail(queued) /\ up' = up /\ samples' = samples
      /\ view' = [view EXCEPT ![Head(queued).name] = Head(queued).alive]
      /\ queued \in Seq([name : Nodes, alive : BOOLEAN]) /\ view \in [Nodes -> BOOLEAN]
  BY DEF TypeOK, Told, netVars
<1>2. /\ DOMAIN queued = 1..Len(queued) /\ Len(queued) \in Nat /\ Len(queued) > 0
      /\ DOMAIN queued' = 1..(Len(queued) - 1)
      /\ \A i \in 1..(Len(queued) - 1) : queued'[i] = queued[i + 1]
      /\ Head(queued) = queued[1]
  BY <1>1
<1>3. ASSUME NEW i \in DOMAIN queued', Newest(i)'
      PROVE  i + 1 \in DOMAIN queued /\ queued[i + 1] = queued'[i] /\ Newest(i + 1)
  <2>1. ASSUME NEW j \in DOMAIN queued, j > i + 1
        PROVE  queued[j].name # queued[i + 1].name
    <3>1. j - 1 \in DOMAIN queued' /\ j - 1 > i /\ queued'[j - 1] = queued[j]
      BY <1>2, <2>1
    <3>. QED  BY <1>2, <1>3, <3>1 DEF Newest
  <2>. QED  BY <1>2, <2>1 DEF Newest
<1>4. CASE samples[n] # <<>>
  BY <1>1, <1>4 DEF Settled
<1>5. CASE samples[n] = <<>> /\ \E i \in DOMAIN queued' : queued'[i].name = n
  <2>1. \E i \in DOMAIN queued : queued[i].name = n
    <3>1. PICK i \in DOMAIN queued' : queued'[i].name = n
      BY <1>5
    <3>2. i + 1 \in DOMAIN queued /\ queued[i + 1].name = n
      BY <1>2, <3>1
    <3>. QED  BY <3>2
  <2>. QED  BY <1>1, <1>3, <1>5, <2>1 DEF Settled
<1>6. CASE samples[n] = <<>> /\ ~\E i \in DOMAIN queued' : queued'[i].name = n
  <2>1. ASSUME NEW j \in DOMAIN queued, j > 1
        PROVE  queued[j].name # n
    <3>1. j - 1 \in DOMAIN queued' /\ queued'[j - 1] = queued[j]
      BY <1>2, <2>1
    <3>. QED  BY <1>6, <3>1
  <2>2. CASE queued[1].name = n
    <3>1. 1 \in DOMAIN queued /\ Newest(1)
      BY <1>2, <2>1, <2>2 DEF Newest
    <3>2. queued[1].alive = up[n]
      BY <1>6, <2>2, <3>1 DEF Settled
    <3>3. view'[n] = queued[1].alive
      BY <1>1, <1>2, <2>2
    <3>. QED  BY <1>1, <1>6, <3>2, <3>3 DEF Settled
  <2>3. CASE queued[1].name # n
    <3>1. ~\E i \in DOMAIN queued : queued[i].name = n
      BY <1>2, <2>1, <2>3
    <3>2. view'[n] = view[n]
      BY <1>1, <1>2, <2>3
    <3>. QED  BY <1>1, <1>6, <3>1, <3>2 DEF Settled
  <2>. QED  BY <2>2, <2>3
<1>. QED  BY <1>4, <1>5, <1>6

LEMMA ViewStep == TypeOK /\ BeforeWatching /\ ViewSettles /\ [Next]_vars => ViewSettles'
<1>. SUFFICES ASSUME TypeOK, BeforeWatching, ViewSettles, [Next]_vars, Watching',
                     NEW n \in Nodes \ stale'
              PROVE  Settled(n)'
  BY DEF ViewSettles
<1>1. CASE \E m \in Nodes : Change(m)
  <2>1. PICK m \in Nodes : Change(m)
    BY <1>1
  <2>2. Watching
    BY <2>1 DEF Change, Watching
  <2>. QED  BY <2>1, <2>2, SettledChange DEF ViewSettles
<1>2. CASE \E m \in Nodes : OnSample(m)
  <2>1. PICK m \in Nodes : OnSample(m)
    BY <1>2
  <2>2. Watching /\ stale' = stale
    BY <2>1 DEF OnSample
  <2>. QED  BY <2>1, <2>2, SettledOnSample DEF ViewSettles
<1>3. CASE Told
  <2>1. Watching /\ stale' = stale
    BY <1>3 DEF Told, Watching
  <2>. QED  BY <1>3, <2>1, SettledTold DEF ViewSettles
<1>4. CASE DeclareSubscriber
  BY <1>4, SettledDeclared
<1>5. CASE Watching /\ UNCHANGED <<netVars, viewVars, stale>>
  BY <1>5 DEF ViewSettles, Settled, Newest, netVars, viewVars
<1>6. \/ \E m \in Nodes : Change(m) \/ OnSample(m)
      \/ Told \/ DeclareSubscriber
      \/ Watching /\ UNCHANGED <<netVars, viewVars, stale>>
  BY DEF Next, Answer, Tick, ListEnds, Check, ListAgain, WaitCancelled, Stop, Terminated,
         Watching, Over, vars, netVars, viewVars
<1>. QED  BY <1>1, <1>2, <1>3, <1>4, <1>5, <1>6

\* A program that watches ends up with the state of every node that it can know of, in
\* whatever order joins, leaves, answers and deliveries fall (presence.py:27-52,
\* cli.py:531-565).
THEOREM ViewsSettle == Spec => []ViewSettles
<1>1. Init => ViewSettles
  BY DEF Init, ViewSettles, Watching
<1>. QED
  BY <1>1, PresenceTypeInit, PresenceTypeStep, BeforeWatchingInit, BeforeWatchingStep, ViewStep,
     PTL DEF Spec

-----------------------------------------------------------------------------
(* Matching: what waits for one hook.                                       *)

In(x, s) == \E k \in DOMAIN s : s[k] = x

\* The places of the ready list s with a task that calls h, and the value it calls it with.
Mine(s, h)  == {i \in DOMAIN s : s[i].cb = "task" /\ In(h, s[i].task.hooks)}
Value(s, i) == s[i].task.matching
Last(w)     == w[Len(w)]

\* What h was told (w) and what the tasks of s are going to tell it change at every turn,
\* up to the value v.
Alternating(s, h, w, v) ==
    /\ \A i, j \in Mine(s, h) :
           i < j /\ (\A k \in Mine(s, h) : ~(i < k /\ k < j)) => Value(s, i) # Value(s, j)
    /\ w # <<>> => \A i \in Mine(s, h) : (\A k \in Mine(s, h) : i <= k) => Value(s, i) # Last(w)
    /\ \A i \in Mine(s, h) : (\A k \in Mine(s, h) : k <= i) => Value(s, i) = v
    /\ Mine(s, h) = {} => w # <<>> /\ Last(w) = v

LEMMA TailPlaces ==
    ASSUME NEW T, NEW s \in Seq(T), s # <<>>
    PROVE  /\ \A i \in DOMAIN Tail(s) : i \in Nat \ {0} /\ i + 1 \in DOMAIN s /\ Tail(s)[i] = s[i + 1]
           /\ \A i \in DOMAIN s : i \in Nat \ {0} /\ (i # 1 => i - 1 \in DOMAIN Tail(s) /\ Tail(s)[i - 1] = s[i])
           /\ 1 \in DOMAIN s /\ Head(s) = s[1] /\ Tail(s) \in Seq(T)
OBVIOUS

LEMMA AppendPlaces ==
    ASSUME NEW T, NEW s \in Seq(T), NEW x \in T
    PROVE  /\ Append(s, x) \in Seq(T) /\ Len(s) \in Nat
           /\ \A i \in DOMAIN s : i \in Nat \ {0} /\ i < Len(s) + 1 /\ i \in DOMAIN Append(s, x) /\ Append(s, x)[i] = s[i]
           /\ \A i \in DOMAIN Append(s, x) : (i \in DOMAIN s /\ Append(s, x)[i] = s[i]) \/ i = Len(s) + 1
           /\ Len(s) + 1 \in DOMAIN Append(s, x) /\ Append(s, x)[Len(s) + 1] = x
OBVIOUS

\* The tasks of the tail stand one place before where they stood.
LEMMA MineTail ==
    ASSUME NEW T, NEW s \in Seq(T), s # <<>>, NEW h
    PROVE  /\ \A i \in Mine(Tail(s), h) : i \in Nat \ {0} /\ i + 1 \in Mine(s, h) /\ Value(Tail(s), i) = Value(s, i + 1)
           /\ \A i \in Mine(s, h) : i \in Nat \ {0} /\ (i # 1 => i - 1 \in Mine(Tail(s), h) /\ Value(Tail(s), i - 1) = Value(s, i))
BY TailPlaces DEF Mine, Value

\* The head has left without a word to h.
LEMMA AlternatingTail ==
    ASSUME NEW T, NEW s \in Seq(T), s # <<>>, NEW h, NEW w, NEW v, Alternating(s, h, w, v), 1 \notin Mine(s, h)
    PROVE  Alternating(Tail(s), h, w, v)
<1>. DEFINE r == Tail(s)
<1>1. /\ \A i \in Mine(r, h) : i \in Nat \ {0} /\ i + 1 \in Mine(s, h) /\ Value(r, i) = Value(s, i + 1)
      /\ \A i \in Mine(s, h) : i \in Nat \ {0} /\ i - 1 \in Mine(r, h) /\ Value(r, i - 1) = Value(s, i)
  BY MineTail
<1>. HIDE DEF r
<1>2. ASSUME NEW i \in Mine(r, h), NEW j \in Mine(r, h), i < j, \A k \in Mine(r, h) : ~(i < k /\ k < j)
      PROVE  Value(r, i) # Value(r, j)
  <2>1. \A k \in Mine(s, h) : ~(i + 1 < k /\ k < j + 1)
    BY <1>1, <1>2
  <2>. QED  BY <1>1, <1>2, <2>1 DEF Alternating
<1>3. ASSUME w # <<>>, NEW i \in Mine(r, h), \A k \in Mine(r, h) : i <= k
      PROVE  Value(r, i) # Last(w)
  <2>1. \A k \in Mine(s, h) : i + 1 <= k
    BY <1>1, <1>3
  <2>. QED  BY <1>1, <1>3, <2>1 DEF Alternating
<1>4. ASSUME NEW i \in Mine(r, h), \A k \in Mine(r, h) : k <= i
      PROVE  Value(r, i) = v
  <2>1. \A k \in Mine(s, h) : k <= i + 1
    BY <1>1, <1>4
  <2>. QED  BY <1>1, <1>4, <2>1 DEF Alternating
<1>5. Mine(r, h) = {} => w # <<>> /\ Last(w) = v
  BY <1>1 DEF Alternating
<1>. QED  BY <1>2, <1>3, <1>4, <1>5 DEF Alternating, r

\* The head has told h its value, which is another than the one before.
LEMMA AlternatingTold ==
    ASSUME NEW T, NEW s \in Seq(T), s # <<>>, NEW h, NEW w \in Seq(BOOLEAN), NEW v, Alternating(s, h, w, v),
           1 \in Mine(s, h), Value(s, 1) \in BOOLEAN
    PROVE  /\ Alternating(Tail(s), h, Append(w, Value(s, 1)), v)
           /\ w # <<>> => Value(s, 1) # Last(w)
<1>. DEFINE r == Tail(s)
            u == Append(w, Value(s, 1))
<1>1. /\ \A i \in Mine(r, h) : i \in Nat \ {0} /\ i + 1 \in Mine(s, h) /\ Value(r, i) = Value(s, i + 1)
      /\ \A i \in Mine(s, h) : i \in Nat \ {0} /\ (i # 1 => i - 1 \in Mine(r, h) /\ Value(r, i - 1) = Value(s, i))
  BY MineTail
<1>2. u # <<>> /\ Last(u) = Value(s, 1)
  BY DEF Last
<1>. HIDE DEF r, u
<1>3. ASSUME NEW i \in Mine(r, h), NEW j \in Mine(r, h), i < j, \A k \in Mine(r, h) : ~(i < k /\ k < j)
      PROVE  Value(r, i) # Value(r, j)
  <2>1. \A k \in Mine(s, h) : ~(i + 1 < k /\ k < j + 1)
    BY <1>1, <1>3
  <2>. QED  BY <1>1, <1>3, <2>1 DEF Alternating
<1>4. ASSUME NEW i \in Mine(r, h), \A k \in Mine(r, h) : i <= k
      PROVE  Value(r, i) # Last(u)
  <2>1. 1 < i + 1 /\ \A k \in Mine(s, h) : ~(1 < k /\ k < i + 1)
    BY <1>1, <1>4
  <2>. QED  BY <1>1, <1>2, <1>4, <2>1 DEF Alternating
<1>5. ASSUME NEW i \in Mine(r, h), \A k \in Mine(r, h) : k <= i
      PROVE  Value(r, i) = v
  <2>1. \A k \in Mine(s, h) : k <= i + 1
    BY <1>1, <1>5
  <2>. QED  BY <1>1, <1>5, <2>1 DEF Alternating
<1>6. ASSUME Mine(r, h) = {} PROVE Last(u) = v
  <2>1. \A k \in Mine(s, h) : k <= 1
    BY <1>1, <1>6
  <2>. QED  BY <1>2, <2>1 DEF Alternating
<1>7. w # <<>> => Value(s, 1) # Last(w)
  BY <1>1 DEF Alternating
<1>. QED  BY <1>2, <1>3, <1>4, <1>5, <1>6, <1>7 DEF Alternating, r, u

\* Another callback has entered at the end, one that is nothing to h.
LEMMA AlternatingOther ==
    ASSUME NEW T, NEW s \in Seq(T), NEW x \in T, NEW h, NEW w, NEW v, Alternating(s, h, w, v),
           ~(x.cb = "task" /\ In(h, x.task.hooks))
    PROVE  Alternating(Append(s, x), h, w, v)
<1>. DEFINE r == Append(s, x)
<1>1. Mine(r, h) = Mine(s, h) /\ \A i \in Mine(s, h) : Value(r, i) = Value(s, i)
  BY AppendPlaces DEF Mine, Value
<1>. HIDE DEF r
<1>. QED  BY <1>1 DEF Alternating, r

\* A task with a new value has entered: what comes next to h follows what came last.
LEMMA AlternatingFire ==
    ASSUME NEW T, NEW s \in Seq(T), NEW x \in T, NEW h, NEW w, NEW v,
           (Alternating(s, h, w, v) /\ x.task.matching # v) \/ (Mine(s, h) = {} /\ w = <<>>),
           x.cb = "task", In(h, x.task.hooks)
    PROVE  Alternating(Append(s, x), h, w, x.task.matching)
<1>. DEFINE r == Append(s, x)
            n == Len(s) + 1
<1>1. /\ Mine(r, h) = Mine(s, h) \cup {n} /\ \A i \in Mine(s, h) : i \in Nat /\ i < n /\ Value(r, i) = Value(s, i)
      /\ n \in Nat /\ Value(r, n) = x.task.matching
  BY AppendPlaces DEF Mine, Value
<1>. HIDE DEF r, n
<1>2. ASSUME NEW i \in Mine(r, h), NEW j \in Mine(r, h), i < j, \A k \in Mine(r, h) : ~(i < k /\ k < j)
      PROVE  Value(r, i) # Value(r, j)
  <2>1. CASE j = n
    <3>1. i \in Mine(s, h) /\ \A k \in Mine(s, h) : k <= i
      BY <1>1, <1>2, <2>1
    <3>. QED  BY <1>1, <2>1, <3>1 DEF Alternating
  <2>2. CASE j # n
    <3>1. i \in Mine(s, h) /\ j \in Mine(s, h) /\ \A k \in Mine(s, h) : ~(i < k /\ k < j)
      BY <1>1, <1>2, <2>2
    <3>. QED  BY <1>1, <1>2, <3>1 DEF Alternating
  <2>. QED  BY <2>1, <2>2
<1>3. ASSUME w # <<>>, NEW i \in Mine(r, h), \A k \in Mine(r, h) : i <= k
      PROVE  Value(r, i) # Last(w)
  <2>1. CASE i = n
    <3>1. Mine(s, h) = {}
      <4>. SUFFICES ASSUME NEW k \in Mine(s, h) PROVE FALSE
        OBVIOUS
      <4>1. k \in Mine(r, h) /\ k \in Nat /\ k < n /\ n \in Nat
        BY <1>1
      <4>2. n <= k
        BY <1>3, <2>1, <4>1
      <4>. QED  BY <4>1, <4>2
    <3>. QED  BY <1>1, <1>3, <2>1, <3>1 DEF Alternating
  <2>2. CASE i # n
    BY <1>1, <1>3, <2>2 DEF Alternating
  <2>. QED  BY <2>1, <2>2
<1>4. ASSUME NEW i \in Mine(r, h), \A k \in Mine(r, h) : k <= i
      PROVE  Value(r, i) = x.task.matching
  BY <1>1, <1>4
<1>5. Mine(r, h) # {}
  BY <1>1
<1>. QED  BY <1>2, <1>3, <1>4, <1>5 DEF Alternating, r


-----------------------------------------------------------------------------
(* Matching: type correctness.                                              *)

\* A nonempty set of numbers has a least one.
LEMMA SmallestOf ==
    ASSUME NEW S \in SUBSET Nat, S # {}
    PROVE  \E i \in S : \A j \in S : i <= j
<1>. DEFINE R == {p \in Nat \X Nat : p[1] < p[2]}
<1>1. IsWellFoundedOn(R, Nat)
  BY NatLessThanWellFounded DEF OpToRel
<1>. HIDE DEF R
<1>2. PICK x \in S : \A y \in S : ~ (<<y, x>> \in R)
  BY <1>1, WFMin
<1>3. \A y \in S : ~ (y < x)
  BY <1>2 DEF R
<1>. QED  BY <1>3

\* q is what is left of p.
Suffix(q, p) == \E n \in Nat : \A i \in DOMAIN q : i + n \in DOMAIN p /\ q[i] = p[i + n]

\* What a turn of a task does: it tells its value to hooks of the task only, once each, to
\* every one that no suspending hook of the task precedes, and what it leaves starts with
\* a hook that suspends.
LEMMA TurnOf ==
    ASSUME NEW t \in Task, NEW others, Advance(t, others), told \in [Hooks -> Seq(BOOLEAN)]
    PROVE  /\ told' \in [Hooks -> Seq(BOOLEAN)]
           /\ \A h \in Hooks : told'[h] # told[h] => told'[h] = Append(told[h], t.matching) /\ In(h, t.hooks)
           /\ \A i \in DOMAIN t.hooks : (\A j \in 1..(i - 1) : t.hooks[j] \notin Suspending) =>
                  told'[t.hooks[i]] = Append(told[t.hooks[i]], t.matching)
           /\ \/ tasks' = others
              \/ \E r \in Task : /\ tasks' = others \cup {r}
                                 /\ r.hooks # <<>> /\ Head(r.hooks) \in Suspending
                                 /\ r.cancelled = t.cancelled /\ Suffix(r.hooks, t.hooks)
<1>. DEFINE stops == {i \in DOMAIN t.hooks : t.hooks[i] \in Suspending}
            last  == IF stops = {} THEN Len(t.hooks) ELSE CHOOSE i \in stops : \A j \in stops : i <= j
            now   == Elements(SubSeq(t.hooks, 1, last))
            r     == [t EXCEPT !.hooks = Left(@, last)]
<1>1. /\ told' = [h \in Hooks |-> IF h \in now THEN Append(told[h], t.matching) ELSE told[h]]
      /\ tasks' = IF stops = {} THEN others ELSE others \cup {r}
  BY DEF Advance
<1>2. t.hooks \in Seq(Hooks) /\ t.matching \in BOOLEAN
  BY DEF Task
<1>3. stops \subseteq 1..Len(t.hooks) /\ Len(t.hooks) \in Nat
  BY <1>2
<1>4. stops # {} => last \in stops /\ \A j \in stops : last <= j
  <2>1. stops \in SUBSET Nat
    BY <1>3
  <2>. HIDE DEF stops
  <2>2. stops # {} => \E i \in stops : \A j \in stops : i <= j
    BY <2>1, SmallestOf
  <2>. QED  BY <2>2
<1>5. last \in 0..Len(t.hooks)
  BY <1>3, <1>4
<1>. HIDE DEF last
<1>6. \A h : h \in now <=> \E i \in 1..last : h = t.hooks[i]
  <2>1. Len(SubSeq(t.hooks, 1, last)) = last /\ \A i \in 1..last : SubSeq(t.hooks, 1, last)[i] = t.hooks[i]
    BY <1>2, <1>5
  <2>2. DOMAIN SubSeq(t.hooks, 1, last) = 1..last
    BY <1>2, <1>5
  <2>. QED  BY <2>1, <2>2 DEF Elements
<1>. HIDE DEF now
<1>7. told' \in [Hooks -> Seq(BOOLEAN)]
  <2>1. \A h \in Hooks : Append(told[h], t.matching) \in Seq(BOOLEAN)
    BY <1>2
  <2>. QED  BY <1>1, <2>1
<1>8. ASSUME NEW h \in Hooks, told'[h] # told[h]
      PROVE  told'[h] = Append(told[h], t.matching) /\ In(h, t.hooks)
  <2>1. h \in now /\ told'[h] = Append(told[h], t.matching)
    BY <1>1, <1>8
  <2>2. PICK i \in 1..last : h = t.hooks[i]
    BY <1>6, <2>1
  <2>3. i \in DOMAIN t.hooks
    BY <1>2, <1>5, <2>2
  <2>. QED  BY <2>1, <2>2, <2>3 DEF In
<1>9. ASSUME NEW i \in DOMAIN t.hooks, \A j \in 1..(i - 1) : t.hooks[j] \notin Suspending
      PROVE  told'[t.hooks[i]] = Append(told[t.hooks[i]], t.matching)
  <2>1. i \in 1..Len(t.hooks) /\ t.hooks[i] \in Hooks
    BY <1>2
  <2>2. i <= last
    <3>1. CASE stops = {}
      BY <2>1, <3>1 DEF last
    <3>2. CASE stops # {}
      <4>1. last \in 1..Len(t.hooks) /\ t.hooks[last] \in Suspending
        BY <1>3, <1>4, <3>2
      <4>. QED  BY <1>9, <2>1, <4>1
    <3>. QED  BY <3>1, <3>2
  <2>3. t.hooks[i] \in now
    BY <1>5, <1>6, <2>1, <2>2
  <2>. QED  BY <1>1, <2>1, <2>3
<1>10. ASSUME stops # {}
       PROVE  /\ r \in Task /\ r.hooks # <<>> /\ Head(r.hooks) \in Suspending
              /\ r.cancelled = t.cancelled /\ Suffix(r.hooks, t.hooks)
  <2>1. last \in 1..Len(t.hooks) /\ t.hooks[last] \in Suspending
    BY <1>3, <1>4, <1>10
  <2>. DEFINE q == SubSeq(t.hooks, last, Len(t.hooks))
  <2>2. /\ q \in Seq(Hooks) /\ Len(q) = Len(t.hooks) - last + 1
        /\ \A i \in 1..Len(q) : q[i] = t.hooks[last + i - 1]
    BY <1>2, <2>1, SubSeqProperties
  <2>3. /\ r \in Task /\ r.hooks = q /\ r.cancelled = t.cancelled
    BY <2>2 DEF Left, Task
  <2>. HIDE DEF q
  <2>4. q # <<>> /\ Head(q) = t.hooks[last]
    BY <1>3, <2>1, <2>2
  <2>5. Suffix(q, t.hooks)
    <3>1. last - 1 \in Nat
      BY <1>3, <2>1
    <3>2. ASSUME NEW i \in DOMAIN q
          PROVE  i + (last - 1) \in DOMAIN t.hooks /\ q[i] = t.hooks[i + (last - 1)]
      <4>1. i \in 1..Len(q) /\ DOMAIN t.hooks = 1..Len(t.hooks)
        BY <1>2, <2>2
      <4>2. i + (last - 1) = last + i - 1 /\ i + (last - 1) \in 1..Len(t.hooks)
        BY <1>3, <2>1, <2>2, <4>1
      <4>. QED  BY <2>2, <4>1, <4>2
    <3>. QED  BY <3>1, <3>2 DEF Suffix
  <2>. QED  BY <2>1, <2>3, <2>4, <2>5
<1>11. \/ tasks' = others
       \/ \E q \in Task : /\ tasks' = others \cup {q}
                          /\ q.hooks # <<>> /\ Head(q.hooks) \in Suspending
                          /\ q.cancelled = t.cancelled /\ Suffix(q.hooks, t.hooks)
  <2>. HIDE DEF stops, r
  <2>. QED  BY <1>1, <1>10
<1>. QED  BY <1>7, <1>8, <1>9, <1>11

LEMMA FiredTask ==
    ASSUME NEW rest \in Seq(Callback), NEW called \in Seq(Hooks), NEW matching \in BOOLEAN, fired \in Nat,
           Fire(rest, called, matching)
    PROVE  \E c \in Callback : /\ ready' = Append(rest, c) /\ ready' \in Seq(Callback) /\ fired' \in Nat
                               /\ c.cb = "task" /\ c.task.hooks = called /\ c.task.matching = matching
                               /\ ~c.task.cancelled
<1>. DEFINE t == [nr |-> fired + 1, hooks |-> called, matching |-> matching, cancelled |-> FALSE]
            c == [cb |-> "task", task |-> t]
<1>1. t \in Task
  BY DEF Task
<1>2. c \in Callback
  BY <1>1 DEF Callback
<1>3. ready' = Append(rest, c) /\ fired' \in Nat
  BY DEF Fire
<1>4. Append(rest, c) \in Seq(Callback)
  BY <1>2
<1>. QED  BY <1>2, <1>3, <1>4


LEMMA MatchingTypeInit == MatchingInit => MatchingTypeOK
<1>1. <<>> \in Seq(BOOLEAN) /\ <<>> \in Seq(Hooks) /\ <<>> \in Seq(Callback)
  OBVIOUS
<1>2. [h \in Hooks |-> <<>>] \in [Hooks -> Seq(BOOLEAN)]
  BY <1>1
<1>3. {} \subseteq {t \in Task : t.hooks # <<>> /\ Head(t.hooks) \in Suspending}
  OBVIOUS
<1>. SUFFICES ASSUME MatchingInit PROVE MatchingTypeOK
  OBVIOUS
<1>4. level \in BOOLEAN /\ registering \in BOOLEAN /\ state \in BOOLEAN /\ undeclared \in BOOLEAN
  BY DEF MatchingInit
<1>5. flips = 0 /\ MaxFlips \in Nat /\ 0 \in 0..MaxFlips
  BY DEF MatchingInit
<1>. QED  BY <1>1, <1>2, <1>3, <1>4, <1>5 DEF MatchingInit, MatchingTypeOK

\* The head of the ready list, and the task that goes on.
LEMMA ReadyHead ==
    ASSUME MatchingTypeOK, ready # <<>>
    PROVE  /\ Head(ready) \in Callback /\ Tail(ready) \in Seq(Callback)
           /\ Head(ready).cb = "edge" => Head(ready).matching \in BOOLEAN
           /\ Head(ready).cb = "task" => Head(ready).task \in Task
<1>1. Head(ready) \in Callback /\ Tail(ready) \in Seq(Callback)
  BY DEF MatchingTypeOK
<1>. QED  BY <1>1 DEF Callback

LEMMA TaskGoesOn ==
    ASSUME NEW t \in Task, t.hooks # <<>>
    PROVE  /\ [t EXCEPT !.hooks = Tail(@)] \in Task
           /\ [t EXCEPT !.hooks = Tail(@)].hooks = Tail(t.hooks)
           /\ [t EXCEPT !.hooks = Tail(@)].cancelled = t.cancelled
<1>1. t.hooks \in Seq(Hooks)
  BY DEF Task
<1>2. Tail(t.hooks) \in Seq(Hooks)
  BY <1>1
<1>. QED  BY <1>2 DEF Task

LEMMA CancelledTasks ==
    ASSUME MatchingTypeOK
    PROVE  /\ \A t \in tasks : /\ [t EXCEPT !.cancelled = TRUE] \in Task
                               /\ [t EXCEPT !.cancelled = TRUE].hooks = t.hooks
           /\ [i \in DOMAIN ready |->
                 IF ready[i].cb = "task" THEN [ready[i] EXCEPT !.task.cancelled = TRUE] ELSE ready[i]] \in Seq(Callback)
<1>1. \A t \in Task : [t EXCEPT !.cancelled = TRUE] \in Task /\ [t EXCEPT !.cancelled = TRUE].hooks = t.hooks
  BY DEF Task
<1>2. \A i \in DOMAIN ready : (IF ready[i].cb = "task" THEN [ready[i] EXCEPT !.task.cancelled = TRUE] ELSE ready[i]) \in Callback
  <2>. SUFFICES ASSUME NEW i \in DOMAIN ready, ready[i].cb = "task"
                PROVE  [ready[i] EXCEPT !.task.cancelled = TRUE] \in Callback
    BY DEF MatchingTypeOK
  <2>1. ready[i] \in [cb : {"task"}, task : Task]
    <3>1. ready[i] \in Callback
      BY DEF MatchingTypeOK
    <3>. QED  BY <3>1 DEF Callback
  <2>2. [ready[i].task EXCEPT !.cancelled = TRUE] \in Task
    BY <1>1, <2>1
  <2>3. [ready[i] EXCEPT !.task.cancelled = TRUE] \in [cb : {"task"}, task : Task]
    BY <2>1, <2>2
  <2>. QED  BY <2>3 DEF Callback
<1>3. ready \in Seq(Callback)
  BY DEF MatchingTypeOK
<1>4. DOMAIN ready = 1..Len(ready) /\ Len(ready) \in Nat
  BY <1>3
<1>5. [i \in DOMAIN ready |->
         IF ready[i].cb = "task" THEN [ready[i] EXCEPT !.task.cancelled = TRUE] ELSE ready[i]] \in [1..Len(ready) -> Callback]
  BY <1>2, <1>4
<1>6. \A f \in [1..Len(ready) -> Callback] : f \in Seq(Callback)
  BY <1>4, SeqDef
<1>7. tasks \subseteq Task
  BY DEF MatchingTypeOK
<1>. QED  BY <1>1, <1>5, <1>6, <1>7

LEMMA MatchingTypeStep == MatchingTypeOK /\ [MatchingNext]_matchingVars => MatchingTypeOK'
<1>. SUFFICES ASSUME MatchingTypeOK, [MatchingNext]_matchingVars PROVE MatchingTypeOK'
  OBVIOUS
<1>1. CASE Flip
  <2>1. level' \in BOOLEAN /\ flips' \in 0..MaxFlips
    BY <1>1 DEF MatchingTypeOK, Flip
  <2>2. notices' \in Seq(BOOLEAN)
    <3>1. notices \in Seq(BOOLEAN) /\ (~level) \in BOOLEAN
      BY DEF MatchingTypeOK
    <3>2. Append(notices, ~level) \in Seq(BOOLEAN)
      BY <3>1, AppendProperties
    <3>. QED  BY <1>1, <3>1, <3>2 DEF Flip
  <2>. QED  BY <1>1, <2>1, <2>2 DEF MatchingTypeOK, Flip
<1>2. CASE MatchingEvent
  <2>1. notices \in Seq(BOOLEAN) /\ notices # <<>> /\ ready \in Seq(Callback)
    BY <1>2 DEF MatchingTypeOK, MatchingEvent
  <2>2. Head(notices) \in BOOLEAN /\ Tail(notices) \in Seq(BOOLEAN)
    BY <2>1
  <2>3. [cb |-> "edge", matching |-> Head(notices)] \in Callback
    BY <2>2 DEF Callback
  <2>4. ready' \in Seq(Callback) /\ notices' \in Seq(BOOLEAN)
    BY <1>2, <2>1, <2>2, <2>3 DEF MatchingEvent
  <2>. QED  BY <1>2, <2>4 DEF MatchingTypeOK, MatchingEvent
<1>3. ASSUME NEW h \in Hooks, OnMatching(h) PROVE MatchingTypeOK'
  <2>1. hooks' \in Seq(Hooks)
    BY <1>3 DEF MatchingTypeOK, OnMatching
  <2>2. listener' \in {"none", "on", "gone"} /\ notices' \in Seq(BOOLEAN) /\ registering' \in BOOLEAN
    <3>1. <<TRUE>> \in Seq(BOOLEAN) /\ <<>> \in Seq(BOOLEAN)
      OBVIOUS
    <3>. QED  BY <1>3, <3>1 DEF MatchingTypeOK, OnMatching
  <2>3. ready' \in Seq(Callback) /\ fired' \in Nat
    <3>1. CASE UNCHANGED <<fired, ready>>
      BY <3>1 DEF MatchingTypeOK
    <3>2. CASE Fire(ready, <<h>>, state)
      <4>1. <<h>> \in Seq(Hooks)
        OBVIOUS
      <4>. QED  BY <3>2, <4>1, FiredTask DEF MatchingTypeOK
    <3>. QED  BY <1>3, <3>1, <3>2 DEF OnMatching, FireLate
  <2>. QED  BY <1>3, <2>1, <2>2, <2>3 DEF MatchingTypeOK, OnMatching
<1>4. CASE ReadStatus
  <2>1. ready' \in Seq(Callback) /\ fired' \in Nat
    BY <1>4, FiredTask DEF MatchingTypeOK, ReadStatus
  <2>. QED  BY <1>4, <2>1 DEF MatchingTypeOK, ReadStatus, zenohVars
<1>5. CASE MatchingChanged
  <2>1. ready # <<>> /\ Head(ready).cb = "edge"
    BY <1>5 DEF MatchingChanged, Running
  <2>2. Tail(ready) \in Seq(Callback) /\ Head(ready).matching \in BOOLEAN
    BY <2>1, ReadyHead
  <2>3. ready' \in Seq(Callback) /\ fired' \in Nat /\ state' \in BOOLEAN
    <3>1. CASE ready' = Tail(ready) /\ UNCHANGED <<state, fired>>
      BY <2>2, <3>1 DEF MatchingTypeOK
    <3>2. CASE state' = Head(ready).matching /\ Fire(Tail(ready), hooks, Head(ready).matching)
      BY <2>2, <3>2, FiredTask DEF MatchingTypeOK
    <3>. QED  BY <1>5, <3>1, <3>2 DEF MatchingChanged
  <2>. QED  BY <1>5, <2>3 DEF MatchingTypeOK, MatchingChanged, zenohVars
<1>6. CASE RunTask
  <2>1. ready # <<>> /\ Head(ready).cb = "task"
    BY <1>6 DEF RunTask, Running
  <2>2. Tail(ready) \in Seq(Callback) /\ Head(ready).task \in Task
    BY <2>1, ReadyHead
  <2>3. /\ told' \in [Hooks -> Seq(BOOLEAN)]
        /\ tasks' \subseteq {t \in Task : t.hooks # <<>> /\ Head(t.hooks) \in Suspending}
    <3>1. CASE UNCHANGED <<told, tasks>>
      BY <3>1 DEF MatchingTypeOK
    <3>2. CASE Advance(Head(ready).task, tasks)
      BY <2>2, <3>2, TurnOf DEF MatchingTypeOK
    <3>. QED  BY <1>6, <3>1, <3>2 DEF RunTask
  <2>. QED  BY <1>6, <2>2, <2>3 DEF MatchingTypeOK, RunTask, zenohVars
<1>7. ASSUME NEW t \in tasks, HookEnds(t) PROVE MatchingTypeOK'
  <2>1. t \in Task /\ t.hooks # <<>>
    BY DEF MatchingTypeOK
  <2>2. [t EXCEPT !.hooks = Tail(@)] \in Task
    BY <2>1, TaskGoesOn
  <2>3. /\ told' \in [Hooks -> Seq(BOOLEAN)]
        /\ tasks' \subseteq {u \in Task : u.hooks # <<>> /\ Head(u.hooks) \in Suspending}
    <3>1. CASE tasks' = tasks \ {t} /\ UNCHANGED told
      BY <3>1 DEF MatchingTypeOK
    <3>2. CASE Advance([t EXCEPT !.hooks = Tail(@)], tasks \ {t})
      <4>. DEFINE u == [t EXCEPT !.hooks = Tail(@)]
      <4>1. u \in Task /\ Advance(u, tasks \ {t}) /\ told \in [Hooks -> Seq(BOOLEAN)]
        BY <2>2, <3>2 DEF MatchingTypeOK
      <4>. HIDE DEF u
      <4>2. /\ told' \in [Hooks -> Seq(BOOLEAN)]
            /\ \/ tasks' = tasks \ {t}
               \/ \E r \in Task : /\ tasks' = (tasks \ {t}) \cup {r}
                                  /\ r.hooks # <<>> /\ Head(r.hooks) \in Suspending
        BY <4>1, TurnOf
      <4>. QED  BY <4>2 DEF MatchingTypeOK
    <3>. QED  BY <1>7, <3>1, <3>2 DEF HookEnds
  <2>. QED  BY <1>7, <2>3 DEF MatchingTypeOK, HookEnds, zenohVars
<1>8. CASE Undeclare
  <2>1. ready' \in Seq(Callback)
    BY <1>8, CancelledTasks DEF Undeclare
  <2>2. tasks' \subseteq {t \in Task : t.hooks # <<>> /\ Head(t.hooks) \in Suspending}
    BY <1>8, CancelledTasks DEF Undeclare, MatchingTypeOK
  <2>. QED  BY <1>8, <2>1, <2>2 DEF MatchingTypeOK, Undeclare
<1>9. CASE AllSettled \/ UNCHANGED matchingVars
  BY <1>9 DEF AllSettled, matchingVars, zenohVars, MatchingTypeOK
<1>. QED
  BY <1>1, <1>2, <1>3, <1>4, <1>5, <1>6, <1>7, <1>8, <1>9 DEF MatchingNext, RunReady

\* The state keeps its types: what is suspended is suspended in a hook of its task that
\* awaits something (on_matching to undeclare).
THEOREM MatchingTypeCorrect == MatchingSpec => []MatchingTypeOK
BY MatchingTypeInit, MatchingTypeStep, PTL DEF MatchingSpec


-----------------------------------------------------------------------------
(* Matching: the level, the tasks and the hooks.                            *)

\* The last edge on its way tells the level: in zenoh's hands, or in the ready list.
Edges(s) == {i \in DOMAIN s : s[i].cb = "edge"}
LastWord(s, waiting, lvl) ==
    /\ waiting # <<>> => Last(waiting) = lvl
    /\ waiting = <<>> => \A i \in Edges(s) : (\A k \in Edges(s) : k <= i) => s[i].matching = lvl
LevelKnown ==
    listener = "on" => /\ LastWord(ready, notices, level)
                       /\ notices = <<>> /\ Edges(ready) = {} /\ ~registering => state = level

\* A task calls hooks of the publisher, an unhindered one behind none that suspends.
InOrder(t) ==
    /\ ~t.cancelled /\ Elements(t.hooks) \subseteq Elements(hooks)
    /\ \A i \in DOMAIN t.hooks : t.hooks[i] \in Unhindered => \A j \in 1..(i - 1) : t.hooks[j] \notin Suspending
TasksInOrder ==
    /\ \A i \in DOMAIN ready : ready[i].cb = "task" => InOrder(ready[i].task)
    /\ \A t \in tasks : InOrder(t)

\* Until the status was read no task exists, and without a listener nothing does.
Unborn ==
    /\ registering \/ listener = "none" =>
         (\A i \in DOMAIN ready : ready[i].cb = "edge") /\ tasks = {} /\ \A h \in Hooks : told[h] = <<>>
    /\ registering => listener = "on"
    /\ listener = "none" => ready = <<>> /\ notices = <<>> /\ hooks = <<>>
    /\ listener # "gone"

HooksOnce == /\ \A i, j \in DOMAIN hooks : hooks[i] = hooks[j] => i = j
             /\ \A h \in Hooks \ Elements(hooks) : told[h] = <<>>

Following == \A h \in Unhindered \cap Elements(hooks) : Alternating(ready, h, told[h], state)

MatchingInv ==
    /\ undeclared => listener # "on"
    /\ ~undeclared => Unborn /\ LevelKnown /\ TasksInOrder /\ HooksOnce /\ (~registering => Following)

LEMMA MatchingInvInit == MatchingInit => MatchingInv
<1>. SUFFICES ASSUME MatchingInit PROVE MatchingInv
  OBVIOUS
<1>1. ready = <<>> /\ hooks = <<>> /\ tasks = {} /\ listener = "none" /\ notices = <<>> /\ ~registering /\ ~undeclared
      /\ told = [h \in Hooks |-> <<>>]
  BY DEF MatchingInit
<1>2. Unborn /\ LevelKnown /\ TasksInOrder
  BY <1>1 DEF Unborn, LevelKnown, TasksInOrder
<1>3. Elements(hooks) = {} /\ HooksOnce
  BY <1>1 DEF Elements, HooksOnce
<1>. QED  BY <1>1, <1>2, <1>3 DEF MatchingInv, Following

\* What enters or leaves beside the edges.
LEMMA EdgesAppend ==
    ASSUME NEW T, NEW s \in Seq(T), NEW x \in T, x.cb # "edge"
    PROVE  Edges(Append(s, x)) = Edges(s) /\ \A i \in Edges(s) : Append(s, x)[i] = s[i]
BY AppendPlaces DEF Edges

LEMMA EdgesTail ==
    ASSUME NEW T, NEW s \in Seq(T), s # <<>>
    PROVE  /\ \A i \in Edges(Tail(s)) : i \in Nat \ {0} /\ i + 1 \in Edges(s) /\ Tail(s)[i] = s[i + 1]
           /\ \A i \in Edges(s) : i \in Nat \ {0} /\ (i # 1 => i - 1 \in Edges(Tail(s)))
           /\ Head(s).cb = "edge" <=> 1 \in Edges(s)
           /\ Head(s) = s[1]
BY TailPlaces DEF Edges

LEMMA LastWordTail ==
    ASSUME NEW T, NEW s \in Seq(T), s # <<>>, NEW waiting, NEW lvl, LastWord(s, waiting, lvl)
    PROVE  /\ LastWord(Tail(s), waiting, lvl)
           /\ Head(s).cb # "edge" /\ Edges(Tail(s)) = {} => Edges(s) = {}
           /\ Head(s).cb = "edge" /\ Edges(Tail(s)) = {} /\ waiting = <<>> => Head(s).matching = lvl
<1>. DEFINE r == Tail(s)
<1>1. /\ \A i \in Edges(r) : i \in Nat \ {0} /\ i + 1 \in Edges(s) /\ r[i] = s[i + 1]
      /\ \A i \in Edges(s) : i \in Nat \ {0} /\ (i # 1 => i - 1 \in Edges(r))
      /\ Head(s).cb = "edge" <=> 1 \in Edges(s)
      /\ Head(s) = s[1]
  BY EdgesTail
<1>. HIDE DEF r
<1>2. ASSUME waiting = <<>>, NEW i \in Edges(r), \A k \in Edges(r) : k <= i
      PROVE  r[i].matching = lvl
  <2>1. \A k \in Edges(s) : k <= i + 1
    BY <1>1, <1>2
  <2>. QED  BY <1>1, <1>2, <2>1 DEF LastWord
<1>3. Head(s).cb # "edge" /\ Edges(r) = {} => Edges(s) = {}
  BY <1>1
<1>4. ASSUME Head(s).cb = "edge", Edges(r) = {}, waiting = <<>>
      PROVE  Head(s).matching = lvl
  <2>1. 1 \in Edges(s) /\ \A k \in Edges(s) : k <= 1
    BY <1>1, <1>4
  <2>. QED  BY <1>1, <1>4, <2>1 DEF LastWord
<1>5. waiting # <<>> => Last(waiting) = lvl
  BY DEF LastWord
<1>. QED  BY <1>2, <1>3, <1>4, <1>5 DEF LastWord, r

\* What is left of a task in order is in order.
LEMMA SuffixInOrder ==
    ASSUME NEW t \in Task, NEW r \in Task, InOrder(t), Suffix(r.hooks, t.hooks), r.cancelled = t.cancelled
    PROVE  InOrder(r)
<1>1. PICK n \in Nat : \A i \in DOMAIN r.hooks : i + n \in DOMAIN t.hooks /\ r.hooks[i] = t.hooks[i + n]
  BY DEF Suffix
<1>2. r.hooks \in Seq(Hooks) /\ t.hooks \in Seq(Hooks)
  BY DEF Task
<1>3. Elements(r.hooks) \subseteq Elements(hooks)
  BY <1>1 DEF InOrder, Elements
<1>4. ASSUME NEW i \in DOMAIN r.hooks, r.hooks[i] \in Unhindered, NEW j \in 1..(i - 1)
      PROVE  r.hooks[j] \notin Suspending
  <2>1. DOMAIN r.hooks = 1..Len(r.hooks) /\ Len(r.hooks) \in Nat
    BY <1>2
  <2>2. j \in DOMAIN r.hooks /\ i \in Nat
    BY <2>1
  <2>3. j + n \in 1..((i + n) - 1)
    BY <2>1, <2>2
  <2>4. t.hooks[j + n] \notin Suspending
    BY <1>1, <1>4, <2>3 DEF InOrder
  <2>. QED  BY <1>1, <2>2, <2>4
<1>. QED  BY <1>3, <1>4 DEF InOrder


\* Which hooks are unhindered and which tasks are in order depends on the hooks only.
LEMMA SameHooks ==
    ASSUME UNCHANGED hooks
    PROVE  /\ Unhindered' = Unhindered /\ Elements(hooks)' = Elements(hooks)
           /\ \A t \in Task : InOrder(t)' <=> InOrder(t)
<1>1. Unhindered' = Unhindered /\ Elements(hooks)' = Elements(hooks)
  BY DEF Unhindered, Elements
<1>. QED  BY <1>1 DEF InOrder, Elements

\* The tasks of a well-typed state.
LEMMA ReadyTasks ==
    ASSUME MatchingTypeOK
    PROVE  /\ \A i \in DOMAIN ready : ready[i].cb = "task" => ready[i].task \in Task
           /\ \A i \in DOMAIN ready : ready[i].cb = "task" \/ ready[i].cb = "edge"
           /\ tasks \subseteq Task
<1>1. \A i \in DOMAIN ready : ready[i] \in Callback
  BY DEF MatchingTypeOK
<1>2. \A c \in Callback : (c.cb = "task" /\ c.task \in Task) \/ c.cb = "edge"
  BY DEF Callback
<1>. QED  BY <1>1, <1>2 DEF MatchingTypeOK

\* A step that touches neither tasks nor hooks.
LEMMA TasksUntouched ==
    ASSUME MatchingTypeOK, UNCHANGED <<hooks, ready, tasks, told, state>>, TasksInOrder, HooksOnce
    PROVE  TasksInOrder' /\ HooksOnce' /\ (Following => Following')
<1>1. /\ Unhindered' = Unhindered /\ Elements(hooks)' = Elements(hooks)
      /\ \A t \in Task : InOrder(t)' <=> InOrder(t)
  BY SameHooks
<1>2. TasksInOrder'
  BY <1>1, ReadyTasks DEF TasksInOrder
<1>3. HooksOnce'
  BY <1>1 DEF HooksOnce
<1>4. Following => Following'
  BY <1>1 DEF Following
<1>. QED  BY <1>2, <1>3, <1>4

LEMMA FlipMatching == ASSUME MatchingTypeOK, MatchingInv, Flip PROVE MatchingInv'
<1>1. /\ UNCHANGED <<hooks, ready, tasks, told, state>>
      /\ UNCHANGED <<listener, registering, undeclared>>
  BY DEF Flip
<1>2. level' = ~level /\ notices' = IF listener = "on" THEN Append(notices, ~level) ELSE notices
  BY DEF Flip
<1>3. ASSUME ~undeclared PROVE Unborn'
  BY <1>1, <1>2, <1>3 DEF MatchingInv, Unborn
<1>4. ASSUME listener = "on" PROVE notices' # <<>> /\ Last(notices') = level'
  <2>1. notices \in Seq(BOOLEAN) /\ notices' = Append(notices, ~level)
    BY <1>2, <1>4 DEF MatchingTypeOK
  <2>. QED  BY <1>2, <2>1 DEF Last
<1>5. LevelKnown'
  BY <1>1, <1>4 DEF LevelKnown, LastWord
<1>. QED  BY <1>1, <1>3, <1>5, TasksUntouched DEF MatchingInv

\* A callback has entered: the tasks are in order if the new one is.
LEMMA EnteredInOrder ==
    ASSUME MatchingTypeOK, TasksInOrder, UNCHANGED hooks, tasks' = tasks, NEW rest \in Seq(Callback), NEW c \in Callback,
           \A i \in DOMAIN rest : \E k \in DOMAIN ready : rest[i] = ready[k],
           ready' = Append(rest, c), c.cb = "task" => InOrder(c.task)
    PROVE  TasksInOrder'
<1>1. \A t \in Task : InOrder(t)' <=> InOrder(t)
  BY SameHooks
<1>2. ASSUME NEW i \in DOMAIN ready', ready'[i].cb = "task", NEW t, t = ready'[i].task PROVE InOrder(t)'
  <2>1. t \in Task
    <3>1. ready' \in Seq(Callback)
      BY AppendPlaces
    <3>2. ready'[i] \in Callback
      BY <3>1
    <3>. QED  BY <1>2, <3>2 DEF Callback
  <2>2. (i \in DOMAIN rest /\ ready'[i] = rest[i]) \/ ready'[i] = c
    BY AppendPlaces
  <2>3. InOrder(t)
    BY <1>2, <2>2 DEF TasksInOrder
  <2>. QED  BY <1>1, <2>1, <2>3
<1>3. ASSUME NEW t \in tasks' PROVE InOrder(t)'
  BY <1>1, <1>3, ReadyTasks DEF TasksInOrder
<1>. QED  BY <1>2, <1>3 DEF TasksInOrder

LEMMA EventMatching == ASSUME MatchingTypeOK, MatchingInv, MatchingEvent PROVE MatchingInv'
<1>. DEFINE x == [cb |-> "edge", matching |-> Head(notices)]
<1>1. /\ UNCHANGED <<level, listener, registering, hooks, state, tasks, told, undeclared>>
      /\ listener = "on" /\ notices # <<>> /\ ready' = Append(ready, x) /\ notices' = Tail(notices)
  BY DEF MatchingEvent
<1>2. notices \in Seq(BOOLEAN) /\ ready \in Seq(Callback) /\ Head(notices) \in BOOLEAN
  BY <1>1 DEF MatchingTypeOK
<1>3. x \in Callback /\ x.cb = "edge" /\ x.matching = Head(notices)
  BY <1>2 DEF Callback
<1>. HIDE DEF x
<1>4. ~undeclared /\ Unborn /\ LevelKnown /\ TasksInOrder /\ HooksOnce /\ (~registering => Following)
  BY <1>1 DEF MatchingInv
<1>5. Unborn'
  <2>1. registering => \A i \in DOMAIN ready' : ready'[i].cb = "edge"
    <3>1. \A i \in DOMAIN ready' : (i \in DOMAIN ready /\ ready'[i] = ready[i]) \/ ready'[i] = x
      BY <1>1, <1>2, <1>3, AppendPlaces
    <3>. QED  BY <1>3, <1>4, <3>1 DEF Unborn
  <2>. QED  BY <1>1, <1>4, <2>1 DEF Unborn
<1>6. LevelKnown'
  <2>1. Last(notices) = level
    BY <1>1, <1>4 DEF LevelKnown, LastWord
  <2>2. Tail(notices) # <<>> => Last(Tail(notices)) = Last(notices)
    BY <1>1, <1>2 DEF Last
  <2>3. Tail(notices) = <<>> => Head(notices) = Last(notices)
    BY <1>1, <1>2 DEF Last
  <2>4. Len(ready) + 1 \in Edges(ready') /\ ready'[Len(ready) + 1] = x
    BY <1>1, <1>2, <1>3, AppendPlaces DEF Edges
  <2>5. ASSUME NEW i \in Edges(ready'), \A k \in Edges(ready') : k <= i PROVE ready'[i] = x
    <3>1. Len(ready) + 1 <= i
      BY <2>4, <2>5
    <3>2. i = Len(ready) + 1
      BY <1>1, <1>2, <1>3, <3>1, AppendPlaces DEF Edges
    <3>. QED  BY <2>4, <3>2
  <2>6. LastWord(ready', notices', level')
    BY <1>1, <1>3, <2>1, <2>2, <2>3, <2>5 DEF LastWord
  <2>. QED  BY <2>4, <2>6 DEF LevelKnown
<1>7. TasksInOrder'
  BY <1>1, <1>2, <1>3, <1>4, EnteredInOrder
<1>8. HooksOnce'
  BY <1>1, <1>4, SameHooks DEF HooksOnce
<1>9. ASSUME ~registering PROVE Following'
  <2>. SUFFICES ASSUME NEW h \in Unhindered \cap Elements(hooks) PROVE Alternating(ready', h, told[h], state)
    BY <1>1, SameHooks DEF Following
  <2>1. Alternating(ready, h, told[h], state)
    BY <1>4, <1>9 DEF Following
  <2>. DEFINE w == told[h]
  <2>. HIDE DEF w
  <2>2. Alternating(ready, h, w, state)
    BY <2>1 DEF w
  <2>3. Alternating(Append(ready, x), h, w, state)
    BY <1>2, <1>3, <2>2, AlternatingOther
  <2>. QED  BY <1>1, <2>3 DEF w
<1>. QED  BY <1>1, <1>4, <1>5, <1>6, <1>7, <1>8, <1>9 DEF MatchingInv

\* The first hook starts the listener.
LEMMA ListenMatching ==
    ASSUME MatchingTypeOK, MatchingInv, NEW h \in Hooks, OnMatching(h), listener = "none"
    PROVE  MatchingInv'
<1>1. /\ hooks' = Append(hooks, h) /\ listener' = "on" /\ registering' = TRUE
      /\ notices' = IF level THEN <<TRUE>> ELSE <<>>
      /\ UNCHANGED <<level, state, ready, tasks, told, undeclared>> /\ ~undeclared
  BY DEF OnMatching
<1>2. ready = <<>> /\ tasks = {} /\ hooks = <<>> /\ \A x \in Hooks : told[x] = <<>>
  BY <1>1 DEF MatchingInv, Unborn
<1>3. Unborn'
  BY <1>1, <1>2 DEF Unborn
<1>4. LevelKnown'
  <2>1. level => notices' # <<>> /\ Last(notices') = level
    BY <1>1 DEF MatchingTypeOK, Last
  <2>2. ~level => notices' = <<>>
    BY <1>1
  <2>3. level \in BOOLEAN
    BY DEF MatchingTypeOK
  <2>4. ~level => LastWord(ready', notices', level')
    BY <1>1, <1>2, <2>2 DEF LastWord, Edges
  <2>5. level => LastWord(ready', notices', level')
    BY <1>1, <2>1 DEF LastWord
  <2>. QED  BY <1>1, <2>3, <2>4, <2>5 DEF LevelKnown
<1>5. TasksInOrder'
  BY <1>1, <1>2 DEF TasksInOrder
<1>6. HooksOnce'
  <2>1. DOMAIN Append(hooks, h) = 1..1
    BY <1>2
  <2>. QED  BY <1>1, <1>2, <2>1 DEF HooksOnce
<1>. QED  BY <1>1, <1>3, <1>4, <1>5, <1>6 DEF MatchingInv

\* A late hook is told the level, the one before it what it is told already.
LEMMA LateMatching ==
    ASSUME MatchingTypeOK, MatchingInv, NEW h \in Hooks, OnMatching(h), listener # "none"
    PROVE  MatchingInv'
<1>1. /\ hooks' = Append(hooks, h) /\ ~registering /\ ~undeclared /\ h \notin Elements(hooks)
      /\ UNCHANGED <<level, listener, notices, registering, state, tasks, told, undeclared>>
      /\ Fire(ready, <<h>>, state)
  BY DEF OnMatching, FireLate
<1>2. Unborn /\ LevelKnown /\ TasksInOrder /\ HooksOnce /\ Following /\ listener = "on"
  BY <1>1 DEF MatchingInv, Unborn, MatchingTypeOK
<1>3. ready \in Seq(Callback) /\ hooks \in Seq(Hooks) /\ <<h>> \in Seq(Hooks) /\ state \in BOOLEAN /\ fired \in Nat
  BY DEF MatchingTypeOK
<1>4. PICK c \in Callback : /\ ready' = Append(ready, c) /\ ready' \in Seq(Callback)
                            /\ c.cb = "task" /\ c.task.hooks = <<h>> /\ c.task.matching = state
                            /\ ~c.task.cancelled
  <2>. DEFINE q == <<h>>
              v == state
  <2>1. q \in Seq(Hooks) /\ v \in BOOLEAN /\ Fire(ready, q, v)
    BY <1>1, <1>3
  <2>. HIDE DEF q, v
  <2>2. \E c \in Callback : /\ ready' = Append(ready, c) /\ ready' \in Seq(Callback)
                            /\ c.cb = "task" /\ c.task.hooks = q /\ c.task.matching = v
                            /\ ~c.task.cancelled
    BY <1>3, <2>1, FiredTask
  <2>. QED  BY <2>2 DEF q, v
<1>5. /\ \A i \in DOMAIN hooks : i \in DOMAIN hooks' /\ hooks'[i] = hooks[i]
      /\ \A i \in DOMAIN hooks' : (i \in DOMAIN hooks /\ hooks'[i] = hooks[i]) \/ (i = Len(hooks) + 1 /\ hooks'[i] = h)
      /\ Len(hooks) + 1 \in DOMAIN hooks'
  BY <1>1, <1>3, AppendPlaces
<1>6. Elements(hooks') = Elements(hooks) \cup {h}
  BY <1>1, <1>5 DEF Elements
<1>7. Unhindered' \subseteq Unhindered
  <2>. SUFFICES ASSUME NEW g \in Hooks, \A i \in DOMAIN hooks' : hooks'[i] = g => \A j \in 1..(i - 1) : hooks'[j] \notin Suspending,
                       NEW i \in DOMAIN hooks, hooks[i] = g, NEW j \in 1..(i - 1)
                PROVE  hooks[j] \notin Suspending
    BY DEF Unhindered
  <2>1. j \in DOMAIN hooks
    BY <1>3
  <2>. QED  BY <1>5, <2>1
<1>8. \A t : InOrder(t) => InOrder(t)'
  BY <1>6, <1>7 DEF InOrder
<1>9. ASSUME NEW t, t = c.task PROVE InOrder(t)'
  <2>1. Elements(<<h>>) = {h} /\ DOMAIN <<h>> = {1} /\ 1..(1 - 1) = {}
    BY DEF Elements
  <2>2. t.hooks = <<h>> /\ ~t.cancelled
    BY <1>4, <1>9
  <2>. QED  BY <1>6, <2>1, <2>2 DEF InOrder
<1>10. TasksInOrder'
  <2>1. ASSUME NEW i \in DOMAIN ready', ready'[i].cb = "task", NEW t, t = ready'[i].task PROVE InOrder(t)'
    <3>1. (i \in DOMAIN ready /\ ready'[i] = ready[i]) \/ ready'[i] = c
      BY <1>3, <1>4, AppendPlaces
    <3>2. CASE ready'[i] = c
      BY <1>9, <2>1, <3>2
    <3>3. CASE i \in DOMAIN ready /\ ready'[i] = ready[i]
      <4>1. InOrder(t)
        BY <1>2, <2>1, <3>3 DEF TasksInOrder
      <4>. QED  BY <1>8, <4>1
    <3>. QED  BY <3>1, <3>2, <3>3
  <2>2. \A t \in tasks' : InOrder(t)'
    BY <1>1, <1>2, <1>8 DEF TasksInOrder
  <2>. QED  BY <2>1, <2>2 DEF TasksInOrder
<1>11. Unborn'
  BY <1>1, <1>2 DEF Unborn
<1>12. LevelKnown'
  <2>1. Edges(ready') = Edges(ready) /\ \A i \in Edges(ready) : ready'[i] = ready[i]
    BY <1>3, <1>4, EdgesAppend
  <2>2. LastWord(ready', notices', level')
    BY <1>1, <1>2, <2>1 DEF LevelKnown, LastWord
  <2>. QED  BY <1>1, <1>2, <2>1, <2>2 DEF LevelKnown
<1>13. HooksOnce'
  <2>1. \A i, j \in DOMAIN hooks' : hooks'[i] = hooks'[j] => i = j
    BY <1>1, <1>2, <1>5 DEF HooksOnce, Elements
  <2>. QED  BY <1>1, <1>2, <1>6, <2>1 DEF HooksOnce
<1>14. Following'
  <2>. SUFFICES ASSUME NEW g \in Unhindered, g \in Elements(hooks) \cup {h} PROVE Alternating(ready', g, told[g], state)
    BY <1>1, <1>6, <1>7 DEF Following
  <2>. DEFINE w == told[g]
              v == state
  <2>1. In(h, <<h>>) /\ (In(g, <<h>>) => g = h)
    BY DEF In
  <2>2. CASE g = h
    <3>1. w = <<>>
      BY <1>1, <1>2, <2>2 DEF HooksOnce
    <3>2. Mine(ready, g) = {}
      BY <1>1, <1>2, <2>2 DEF Mine, In, TasksInOrder, InOrder, Elements
    <3>. HIDE DEF w
    <3>3. Alternating(Append(ready, c), g, w, c.task.matching)
      BY <1>3, <1>4, <2>1, <2>2, <3>1, <3>2, AlternatingFire
    <3>. QED  BY <1>4, <3>3 DEF w
  <2>3. CASE g # h
    <3>1. Alternating(ready, g, w, v)
      BY <1>2, <2>3 DEF Following
    <3>2. ~(c.cb = "task" /\ In(g, c.task.hooks))
      BY <1>4, <2>1, <2>3
    <3>. HIDE DEF w, v
    <3>3. Alternating(Append(ready, c), g, w, v)
      BY <1>3, <3>1, <3>2, AlternatingOther
    <3>. QED  BY <1>4, <3>3 DEF w, v
  <2>. QED  BY <2>2, <2>3
<1>. QED  BY <1>1, <1>2, <1>10, <1>11, <1>12, <1>13, <1>14 DEF MatchingInv

\* A task that calls all the hooks.
LEMMA WholeInOrder == ASSUME NEW t, t.hooks = hooks, ~t.cancelled PROVE InOrder(t)
<1>1. ASSUME NEW i \in DOMAIN hooks, hooks[i] \in Unhindered, NEW j \in 1..(i - 1) PROVE hooks[j] \notin Suspending
  BY <1>1 DEF Unhindered
<1>. QED  BY <1>1 DEF InOrder

LEMMA StatusMatching == ASSUME MatchingTypeOK, MatchingInv, ReadStatus PROVE MatchingInv'
<1>1. /\ registering /\ registering' = FALSE /\ state' = level /\ Fire(ready, hooks, level)
      /\ UNCHANGED <<level, listener, notices, hooks, tasks, told, undeclared>>
  BY DEF ReadStatus, zenohVars
<1>. SUFFICES ASSUME ~undeclared PROVE MatchingInv'
  BY <1>1 DEF MatchingInv
<1>2. Unborn /\ LevelKnown /\ TasksInOrder /\ HooksOnce
  BY DEF MatchingInv
<1>3. /\ listener = "on" /\ tasks = {} /\ \A x \in Hooks : told[x] = <<>>
      /\ \A i \in DOMAIN ready : ready[i].cb = "edge"
  BY <1>1, <1>2 DEF Unborn
<1>4. ready \in Seq(Callback) /\ hooks \in Seq(Hooks) /\ level \in BOOLEAN /\ fired \in Nat
  BY DEF MatchingTypeOK
<1>5. PICK c \in Callback : /\ ready' = Append(ready, c) /\ ready' \in Seq(Callback)
                            /\ c.cb = "task" /\ c.task.hooks = hooks /\ c.task.matching = level
                            /\ ~c.task.cancelled
  BY <1>1, <1>4, FiredTask
<1>6. Unborn'
  BY <1>1, <1>3 DEF Unborn
<1>7. LevelKnown'
  <2>1. Edges(ready') = Edges(ready) /\ \A i \in Edges(ready) : ready'[i] = ready[i]
    BY <1>4, <1>5, EdgesAppend
  <2>2. LastWord(ready', notices', level')
    BY <1>1, <1>2, <1>3, <2>1 DEF LevelKnown, LastWord
  <2>. QED  BY <1>1, <2>2 DEF LevelKnown
<1>8. TasksInOrder'
  <2>1. InOrder(c.task)
    BY <1>5, WholeInOrder
  <2>. QED  BY <1>1, <1>2, <1>4, <1>5, <2>1, EnteredInOrder
<1>9. HooksOnce'
  BY <1>1, <1>2, SameHooks DEF HooksOnce
<1>10. Following'
  <2>. SUFFICES ASSUME NEW g \in Unhindered \cap Elements(hooks) PROVE Alternating(ready', g, told[g], level)
    BY <1>1, SameHooks DEF Following
  <2>. DEFINE w == told[g]
  <2>1. w = <<>> /\ Mine(ready, g) = {}
    BY <1>3 DEF Unhindered, Mine
  <2>2. In(g, c.task.hooks)
    BY <1>5 DEF In, Elements
  <2>. HIDE DEF w
  <2>3. Alternating(Append(ready, c), g, w, c.task.matching)
    BY <1>4, <1>5, <2>1, <2>2, AlternatingFire
  <2>. QED  BY <1>5, <2>3 DEF w
<1>. QED  BY <1>1, <1>6, <1>7, <1>8, <1>9, <1>10 DEF MatchingInv

\* An edge that changes nothing goes; one that does brings a task to every hook.
LEMMA ChangedMatching == ASSUME MatchingTypeOK, MatchingInv, MatchingChanged PROVE MatchingInv'
<1>. DEFINE m == Head(ready).matching
<1>1. /\ ~registering /\ ready # <<>> /\ Head(ready).cb = "edge"
      /\ UNCHANGED <<level, listener, notices, registering, hooks, tasks, told, undeclared>>
      /\ \/ m = state /\ ready' = Tail(ready) /\ state' = state
         \/ m # state /\ state' = m /\ Fire(Tail(ready), hooks, m)
  BY DEF MatchingChanged, Running, Repeated, zenohVars
<1>. SUFFICES ASSUME ~undeclared PROVE MatchingInv'
  BY <1>1 DEF MatchingInv
<1>2. Unborn /\ LevelKnown /\ TasksInOrder /\ HooksOnce /\ Following
  BY <1>1 DEF MatchingInv
<1>3. listener = "on"
  BY <1>1, <1>2 DEF Unborn, MatchingTypeOK
<1>4. ready \in Seq(Callback) /\ Tail(ready) \in Seq(Callback) /\ hooks \in Seq(Hooks) /\ m \in BOOLEAN /\ fired \in Nat
  BY <1>1, ReadyHead DEF MatchingTypeOK
<1>5. /\ \A i \in DOMAIN Tail(ready) : \E k \in DOMAIN ready : Tail(ready)[i] = ready[k]
      /\ Head(ready) = ready[1]
  BY <1>1, <1>4, TailPlaces
<1>6. LastWord(Tail(ready), notices, level) /\ (Edges(Tail(ready)) = {} /\ notices = <<>> => m = level)
  BY <1>1, <1>2, <1>3, <1>4, LastWordTail DEF LevelKnown
<1>7. \A g \in Unhindered \cap Elements(hooks) : Alternating(Tail(ready), g, told[g], state)
  <2>. SUFFICES ASSUME NEW g \in Unhindered \cap Elements(hooks) PROVE Alternating(Tail(ready), g, told[g], state)
    OBVIOUS
  <2>. DEFINE w == told[g]
              v == state
  <2>1. Alternating(ready, g, w, v)
    BY <1>2 DEF Following
  <2>2. 1 \notin Mine(ready, g)
    BY <1>1, <1>5 DEF Mine
  <2>. HIDE DEF w, v
  <2>3. Alternating(Tail(ready), g, w, v)
    BY <1>1, <1>4, <2>1, <2>2, AlternatingTail
  <2>. QED  BY <2>3 DEF w, v
<1>. HIDE DEF m
<1>8. Unborn'
  BY <1>1, <1>3 DEF Unborn
<1>9. HooksOnce'
  BY <1>1, <1>2, SameHooks DEF HooksOnce
<1>10. CASE m = state /\ ready' = Tail(ready) /\ state' = state
  <2>1. LevelKnown'
    BY <1>1, <1>6, <1>10 DEF LevelKnown
  <2>2. TasksInOrder'
    <3>1. ASSUME NEW i \in DOMAIN ready', ready'[i].cb = "task", NEW t, t = ready'[i].task PROVE InOrder(t)'
      <4>1. PICK k \in DOMAIN ready : ready'[i] = ready[k]
        BY <1>5, <1>10
      <4>2. InOrder(t) /\ t \in Task
        BY <1>2, <3>1, <4>1, ReadyTasks DEF TasksInOrder
      <4>. QED  BY <1>1, <4>2, SameHooks
    <3>2. \A t \in tasks' : InOrder(t)'
      BY <1>1, <1>2, SameHooks, ReadyTasks DEF TasksInOrder
    <3>. QED  BY <3>1, <3>2 DEF TasksInOrder
  <2>3. Following'
    BY <1>1, <1>7, <1>10, SameHooks DEF Following
  <2>. QED  BY <1>1, <1>8, <1>9, <2>1, <2>2, <2>3 DEF MatchingInv
<1>11. CASE m # state /\ state' = m /\ Fire(Tail(ready), hooks, m)
  <2>. DEFINE r == Tail(ready)
  <2>1. /\ r \in Seq(Callback) /\ \A i \in DOMAIN r : \E k \in DOMAIN ready : r[i] = ready[k]
        /\ Fire(r, hooks, m)
    BY <1>4, <1>5, <1>11
  <2>2. LastWord(r, notices, level) /\ (Edges(r) = {} /\ notices = <<>> => m = level)
    BY <1>6
  <2>3. \A g \in Unhindered \cap Elements(hooks) : Alternating(r, g, told[g], state)
    BY <1>7
  <2>. HIDE DEF r
  <2>4. PICK c \in Callback : /\ ready' = Append(r, c) /\ ready' \in Seq(Callback)
                              /\ c.cb = "task" /\ c.task.hooks = hooks /\ c.task.matching = m
                              /\ ~c.task.cancelled
    BY <1>4, <2>1, FiredTask
  <2>5. LevelKnown'
    <3>1. Edges(ready') = Edges(r) /\ \A i \in Edges(r) : ready'[i] = r[i]
      BY <2>1, <2>4, EdgesAppend
    <3>2. LastWord(ready', notices', level')
      BY <1>1, <2>2, <3>1 DEF LastWord
    <3>. QED  BY <1>1, <1>11, <2>2, <3>1, <3>2 DEF LevelKnown
  <2>6. TasksInOrder'
    <3>1. InOrder(c.task)
      BY <2>4, WholeInOrder
    <3>. QED  BY <1>1, <1>2, <2>1, <2>4, <3>1, EnteredInOrder
  <2>7. Following'
    <3>. SUFFICES ASSUME NEW g \in Unhindered \cap Elements(hooks) PROVE Alternating(ready', g, told[g], m)
      BY <1>1, <1>11, SameHooks DEF Following
    <3>. DEFINE w == told[g]
                v == state
    <3>1. Alternating(r, g, w, v) /\ c.task.matching # v
      BY <1>11, <2>3, <2>4
    <3>2. In(g, c.task.hooks)
      BY <2>4 DEF In, Elements
    <3>. HIDE DEF w, v
    <3>3. Alternating(Append(r, c), g, w, c.task.matching)
      BY <2>1, <2>4, <3>1, <3>2, AlternatingFire
    <3>. QED  BY <2>4, <3>3 DEF w
  <2>. QED  BY <1>1, <1>8, <1>9, <2>5, <2>6, <2>7 DEF MatchingInv
<1>. QED  BY <1>1, <1>10, <1>11

\* The task at the head tells an unhindered hook of its all at once, and no other one.
LEMMA TurnTold ==
    ASSUME MatchingTypeOK, TasksInOrder, ~undeclared, RunTask, NEW g \in Unhindered \cap Elements(hooks),
           Alternating(ready, g, told[g], state)
    PROVE  /\ Alternating(Tail(ready), g, told'[g], state)
           /\ told'[g] # told[g] /\ told[g] # <<>> => Last(told'[g]) # Last(told[g])
<1>. DEFINE t == Head(ready).task
            w == told[g]
            v == state
<1>1. ready # <<>> /\ Head(ready).cb = "task" /\ ready \in Seq(Callback) /\ g \in Hooks
  BY DEF RunTask, Running, MatchingTypeOK, Unhindered
<1>2. t \in Task /\ Tail(ready) \in Seq(Callback)
  BY <1>1, ReadyHead
<1>3. 1 \in DOMAIN ready /\ Head(ready) = ready[1]
  BY <1>1, TailPlaces
<1>4. InOrder(t)
  BY <1>1, <1>3 DEF TasksInOrder
<1>5. Advance(t, tasks)
  BY <1>4 DEF RunTask, InOrder
<1>6. /\ told \in [Hooks -> Seq(BOOLEAN)] /\ w \in Seq(BOOLEAN) /\ t.matching \in BOOLEAN
      /\ t.hooks \in Seq(Hooks)
  BY <1>1, <1>2 DEF MatchingTypeOK, Task
<1>7. Alternating(ready, g, w, v)
  OBVIOUS
<1>8. 1 \in Mine(ready, g) <=> In(g, t.hooks)
  BY <1>1, <1>3 DEF Mine
<1>9. Value(ready, 1) = t.matching
  BY <1>3 DEF Value
<1>. HIDE DEF t, w, v
<1>10. CASE In(g, t.hooks)
  <2>1. PICK i \in DOMAIN t.hooks : t.hooks[i] = g
    BY <1>10 DEF In
  <2>2. \A j \in 1..(i - 1) : t.hooks[j] \notin Suspending
    BY <1>4, <2>1 DEF InOrder
  <2>3. \A k \in DOMAIN t.hooks : (\A j \in 1..(k - 1) : t.hooks[j] \notin Suspending) =>
            told'[t.hooks[k]] = Append(told[t.hooks[k]], t.matching)
    BY <1>2, <1>5, <1>6, TurnOf
  <2>4. told'[g] = Append(w, t.matching)
    BY <2>1, <2>2, <2>3 DEF w
  <2>5. /\ Alternating(Tail(ready), g, Append(w, Value(ready, 1)), v)
        /\ w # <<>> => Value(ready, 1) # Last(w)
    BY <1>1, <1>6, <1>7, <1>8, <1>9, <1>10, AlternatingTold
  <2>6. Last(Append(w, t.matching)) = t.matching
    BY <1>6 DEF Last
  <2>. QED  BY <1>9, <2>4, <2>5, <2>6 DEF w, v
<1>11. CASE ~In(g, t.hooks)
  <2>1. \A h \in Hooks : told'[h] # told[h] => In(h, t.hooks)
    BY <1>2, <1>5, <1>6, TurnOf
  <2>2. told'[g] = w
    BY <1>1, <1>11, <2>1 DEF w
  <2>3. Alternating(Tail(ready), g, w, v)
    BY <1>1, <1>7, <1>8, <1>11, AlternatingTail
  <2>. QED  BY <2>2, <2>3 DEF w, v
<1>. QED  BY <1>10, <1>11

LEMMA RunTaskMatching == ASSUME MatchingTypeOK, MatchingInv, RunTask PROVE MatchingInv'
<1>. DEFINE t == Head(ready).task
<1>1. /\ ~registering /\ ready # <<>> /\ Head(ready).cb = "task" /\ ready' = Tail(ready)
      /\ UNCHANGED <<level, listener, notices, registering, hooks, state, undeclared>>
  BY DEF RunTask, Running, zenohVars
<1>. SUFFICES ASSUME ~undeclared PROVE MatchingInv'
  BY <1>1 DEF MatchingInv
<1>2. Unborn /\ LevelKnown /\ TasksInOrder /\ HooksOnce /\ Following
  BY <1>1 DEF MatchingInv
<1>3. listener = "on"
  BY <1>1, <1>2 DEF Unborn, MatchingTypeOK
<1>4. t \in Task /\ Tail(ready) \in Seq(Callback) /\ ready \in Seq(Callback) /\ told \in [Hooks -> Seq(BOOLEAN)]
  BY <1>1, ReadyHead DEF MatchingTypeOK
<1>5. /\ \A i \in DOMAIN Tail(ready) : \E k \in DOMAIN ready : Tail(ready)[i] = ready[k]
      /\ 1 \in DOMAIN ready /\ Head(ready) = ready[1]
  BY <1>1, <1>4, TailPlaces
<1>6. InOrder(t)
  BY <1>1, <1>2, <1>5 DEF TasksInOrder
<1>7. Advance(t, tasks)
  BY <1>6 DEF RunTask, InOrder
<1>. HIDE DEF t
<1>8. /\ \A h \in Hooks : told'[h] # told[h] => In(h, t.hooks)
      /\ \/ tasks' = tasks
         \/ \E r \in Task : /\ tasks' = tasks \cup {r}
                            /\ r.cancelled = t.cancelled /\ Suffix(r.hooks, t.hooks)
  BY <1>4, <1>7, TurnOf
<1>9. Unborn'
  BY <1>1, <1>3 DEF Unborn
<1>10. LevelKnown'
  <2>1. LastWord(Tail(ready), notices, level) /\ (Edges(Tail(ready)) = {} => Edges(ready) = {})
    BY <1>1, <1>2, <1>3, <1>4, LastWordTail DEF LevelKnown
  <2>. QED  BY <1>1, <1>2, <2>1 DEF LevelKnown
<1>11. TasksInOrder'
  <2>1. ASSUME NEW i \in DOMAIN ready', ready'[i].cb = "task", NEW u, u = ready'[i].task PROVE InOrder(u)'
    <3>1. PICK k \in DOMAIN ready : ready'[i] = ready[k]
      BY <1>1, <1>5
    <3>2. InOrder(u) /\ u \in Task
      BY <1>2, <2>1, <3>1, ReadyTasks DEF TasksInOrder
    <3>. QED  BY <1>1, <3>2, SameHooks
  <2>2. ASSUME NEW u \in tasks' PROVE InOrder(u) /\ u \in Task
    <3>1. CASE u \in tasks
      BY <1>2, <3>1, ReadyTasks DEF TasksInOrder
    <3>2. CASE u \notin tasks
      <4>1. u \in Task /\ u.cancelled = t.cancelled /\ Suffix(u.hooks, t.hooks)
        BY <1>8, <2>2, <3>2
      <4>. QED  BY <1>4, <1>6, <4>1, SuffixInOrder
    <3>. QED  BY <3>1, <3>2
  <2>3. \A u \in tasks' : InOrder(u)'
    BY <1>1, <2>2, SameHooks
  <2>. QED  BY <2>1, <2>3 DEF TasksInOrder
<1>12. HooksOnce'
  <2>1. \A h \in Hooks \ Elements(hooks) : told'[h] = told[h]
    BY <1>6, <1>8 DEF In, Elements, InOrder
  <2>. QED  BY <1>1, <1>2, <2>1, SameHooks DEF HooksOnce
<1>13. Following'
  <2>. SUFFICES ASSUME NEW g \in Unhindered \cap Elements(hooks) PROVE Alternating(Tail(ready), g, told'[g], state)
    BY <1>1, SameHooks DEF Following
  <2>. QED  BY <1>2, TurnTold DEF Following
<1>. QED  BY <1>1, <1>9, <1>10, <1>11, <1>12, <1>13 DEF MatchingInv

\* The end of a hook reaches hooks that stand behind one that suspends.
LEMMA EndTold ==
    ASSUME MatchingTypeOK, TasksInOrder, NEW t \in tasks, HookEnds(t)
    PROVE  /\ \A g \in Hooks : told'[g] # told[g] => g \in Elements(hooks) \ Unhindered
           /\ \A u \in tasks' : InOrder(u) /\ u \in Task
<1>. DEFINE u == [t EXCEPT !.hooks = Tail(@)]
<1>1. t \in Task /\ t.hooks # <<>> /\ Head(t.hooks) \in Suspending /\ told \in [Hooks -> Seq(BOOLEAN)]
  BY DEF MatchingTypeOK
<1>2. InOrder(t) /\ t.hooks \in Seq(Hooks)
  BY <1>1 DEF TasksInOrder, Task
<1>3. u \in Task /\ u.hooks = Tail(t.hooks) /\ u.cancelled = t.cancelled
  BY <1>1, TaskGoesOn
<1>4. Advance(u, tasks \ {t})
  BY <1>2 DEF HookEnds, InOrder
<1>5. /\ \A i \in DOMAIN Tail(t.hooks) : i \in Nat \ {0} /\ i + 1 \in DOMAIN t.hooks /\ Tail(t.hooks)[i] = t.hooks[i + 1]
      /\ Head(t.hooks) = t.hooks[1]
  BY <1>1, <1>2, TailPlaces
<1>. HIDE DEF u
<1>6. Suffix(u.hooks, t.hooks)
  BY <1>3, <1>5 DEF Suffix
<1>7. InOrder(u)
  BY <1>1, <1>2, <1>3, <1>6, SuffixInOrder
<1>8. /\ \A h \in Hooks : told'[h] # told[h] => In(h, u.hooks)
      /\ \/ tasks' = tasks \ {t}
         \/ \E r \in Task : /\ tasks' = (tasks \ {t}) \cup {r}
                            /\ r.cancelled = u.cancelled /\ Suffix(r.hooks, u.hooks)
  BY <1>1, <1>3, <1>4, TurnOf
<1>9. ASSUME NEW g \in Hooks, told'[g] # told[g] PROVE g \in Elements(hooks) \ Unhindered
  <2>1. PICK i \in DOMAIN u.hooks : u.hooks[i] = g
    BY <1>8, <1>9 DEF In
  <2>2. i + 1 \in DOMAIN t.hooks /\ t.hooks[i + 1] = g /\ i \in Nat \ {0} /\ t.hooks[1] \in Suspending
    BY <1>1, <1>3, <1>5, <2>1
  <2>3. 1 \in 1..((i + 1) - 1)
    BY <2>2
  <2>. QED  BY <1>2, <2>2, <2>3 DEF InOrder, Elements
<1>10. ASSUME NEW r \in tasks' PROVE InOrder(r) /\ r \in Task
  <2>1. CASE r \in tasks
    BY <2>1, ReadyTasks DEF TasksInOrder
  <2>2. CASE r \notin tasks
    <3>1. r \in Task /\ r.cancelled = u.cancelled /\ Suffix(r.hooks, u.hooks)
      BY <1>8, <1>10, <2>2
    <3>. QED  BY <1>3, <1>7, <3>1, SuffixInOrder
  <2>. QED  BY <2>1, <2>2
<1>. QED  BY <1>9, <1>10

LEMMA HookEndsMatching == ASSUME MatchingTypeOK, MatchingInv, NEW t \in tasks, HookEnds(t) PROVE MatchingInv'
<1>1. ~registering /\ UNCHANGED <<level, listener, notices, registering, hooks, state, ready, undeclared>>
  BY DEF HookEnds, zenohVars
<1>. SUFFICES ASSUME ~undeclared PROVE MatchingInv'
  BY <1>1 DEF MatchingInv
<1>2. Unborn /\ LevelKnown /\ TasksInOrder /\ HooksOnce /\ Following
  BY <1>1 DEF MatchingInv
<1>3. /\ \A g \in Hooks : told'[g] # told[g] => g \in Elements(hooks) \ Unhindered
      /\ \A u \in tasks' : InOrder(u) /\ u \in Task
  BY <1>2, EndTold
<1>4. Unborn'
  <2>1. listener # "none"
    BY <1>2 DEF Unborn
  <2>. QED  BY <1>1, <1>2, <2>1 DEF Unborn
<1>5. LevelKnown'
  BY <1>1, <1>2 DEF LevelKnown
<1>6. TasksInOrder'
  BY <1>1, <1>2, <1>3, SameHooks, ReadyTasks DEF TasksInOrder
<1>7. HooksOnce'
  BY <1>1, <1>2, <1>3, SameHooks DEF HooksOnce
<1>8. Following'
  <2>1. Unhindered \subseteq Hooks
    BY DEF Unhindered
  <2>. QED  BY <1>1, <1>2, <1>3, <2>1, SameHooks DEF Following
<1>. QED  BY <1>1, <1>4, <1>5, <1>6, <1>7, <1>8 DEF MatchingInv

LEMMA MatchingInvStep == MatchingTypeOK /\ MatchingInv /\ [MatchingNext]_matchingVars => MatchingInv'
<1>. SUFFICES ASSUME MatchingTypeOK, MatchingInv, [MatchingNext]_matchingVars PROVE MatchingInv'
  OBVIOUS
<1>1. CASE Undeclare
  <2>1. undeclared' /\ listener' # "on"
    BY <1>1 DEF Undeclare
  <2>. QED  BY <2>1 DEF MatchingInv
<1>2. CASE AllSettled \/ UNCHANGED matchingVars
  <2>1. UNCHANGED <<level, listener, notices, registering, undeclared>> /\ UNCHANGED <<hooks, ready, tasks, told, state>>
    BY <1>2 DEF AllSettled, matchingVars, zenohVars
  <2>2. ~undeclared => Unborn' /\ LevelKnown'
    BY <2>1 DEF MatchingInv, Unborn, LevelKnown
  <2>. QED  BY <2>1, <2>2, TasksUntouched DEF MatchingInv
<1>3. ASSUME NEW h \in Hooks, OnMatching(h) PROVE MatchingInv'
  BY <1>3, ListenMatching, LateMatching
<1>4. ASSUME NEW t \in tasks, HookEnds(t) PROVE MatchingInv'
  BY <1>4, HookEndsMatching
<1>. QED
  BY <1>1, <1>2, <1>3, <1>4, FlipMatching, EventMatching, StatusMatching, ChangedMatching, RunTaskMatching
  DEF MatchingNext, RunReady

LEMMA MatchingInvAlways == MatchingSpec => []MatchingInv
BY MatchingTypeInit, MatchingInvInit, MatchingTypeStep, MatchingInvStep, PTL DEF MatchingSpec

\* No edge falls into a gap: when nothing is under way the publisher holds zenoh's level and
\* every hook nothing delays was last told it, one registered late or while the level changed
\* between the listener and the status included (on_matching, _matching_changed).
THEOREM LevelSettles == MatchingSpec => []SettledOnLevel
<1>1. ASSUME MatchingInv, Quiet PROVE state = level /\ \A h \in Elements(hooks) \cap Unhindered : told[h] # <<>> /\ LastTold(h) = level
  <2>1. ~undeclared /\ ~registering /\ listener = "on" /\ notices = <<>> /\ ready = <<>>
    BY <1>1 DEF MatchingInv, Quiet
  <2>2. LevelKnown /\ Following
    BY <1>1, <2>1 DEF MatchingInv
  <2>3. Edges(ready) = {} /\ \A h : Mine(ready, h) = {}
    BY <2>1 DEF Edges, Mine
  <2>4. state = level
    BY <2>1, <2>2, <2>3 DEF LevelKnown
  <2>5. \A h \in Elements(hooks) \cap Unhindered : told[h] # <<>> /\ LastTold(h) = state
    BY <2>2, <2>3 DEF Following, Alternating, LastTold, Last
  <2>. QED  BY <2>4, <2>5
<1>2. MatchingInv => SettledOnLevel
  BY <1>1 DEF SettledOnLevel
<1>. QED  BY <1>2, MatchingInvAlways, PTL

\* A hook nothing delays is told a change every time, from the seed on, however many edges
\* wait behind it and whatever the other hooks of the publisher await (_run_matching_hooks).
THEOREM EdgesAlternateAlways == MatchingSpec => EdgesAlternate
<1>1. MatchingTypeOK /\ MatchingInv /\ [MatchingNext]_matchingVars
        => [~undeclared => \A h \in Unhindered : Alternates(h)]_matchingVars
  <2>. SUFFICES ASSUME MatchingTypeOK, MatchingInv, MatchingNext, ~undeclared, NEW h \in Unhindered,
                       told'[h] # told[h], told[h] # <<>>
                PROVE  Last(told'[h]) # Last(told[h])
    BY DEF Alternates, LastTold, Last
  <2>1. TasksInOrder /\ h \in Hooks /\ h \in Elements(hooks) /\ (~registering => Following)
    BY DEF MatchingInv, HooksOnce, Unhindered
  <2>2. CASE RunTask
    <3>1. Alternating(ready, h, told[h], state)
      BY <2>1, <2>2 DEF RunTask, Running, Following
    <3>. QED  BY <2>1, <2>2, <3>1, TurnTold
  <2>3. ASSUME NEW t \in tasks, HookEnds(t) PROVE FALSE
    BY <2>1, <2>3, EndTold
  <2>4. CASE UNCHANGED told
    BY <2>4
  <2>5. RunTask \/ UNCHANGED told \/ \E t \in tasks : HookEnds(t)
    BY DEF MatchingNext, RunReady, Flip, MatchingEvent, OnMatching, ReadStatus, MatchingChanged, Undeclare,
           AllSettled, matchingVars, zenohVars
  <2>. QED  BY <2>2, <2>3, <2>4, <2>5
<1>. QED  BY <1>1, MatchingTypeCorrect, MatchingInvAlways, PTL DEF MatchingSpec, EdgesAlternate

===============================================================================

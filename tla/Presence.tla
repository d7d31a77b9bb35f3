------------------------------- MODULE Presence -------------------------------
(***************************************************************************)
(* Who is up, as the liveliness tokens say (src/zenode/presence.py), seen   *)
(* by one of three programs: a node that waits for others in                *)
(* wait_for_nodes (src/zenode/node.py), a PresenceWatcher, and the command  *)
(* "zenode nodes --watch" (src/zenode/cli.py).  Nodes join and leave at any *)
(* moment, also between a question and its answers.  There is no clock:     *)
(* a timer is the time that is left to it, and it may be noticed late.      *)
(***************************************************************************)
EXTENDS Naturals, Sequences

CONSTANTS
    Nodes,      \* the names that may hold a token
    Wanted,     \* those that wait_for_nodes was called with
    Poll,       \* poll
    Timeout,    \* timeout
    MaxChanges  \* bound: tokens declared and retracted

ASSUME WantedAssumption == Wanted \subseteq Nodes
ASSUME TimeAssumption   == Poll \in Nat \ {0} /\ Timeout \in Nat
ASSUME BoundAssumption  == MaxChanges \in Nat

VARIABLES
    up,         \* up[n]: the network holds a token of n
    changes,    \* how often that changed
    client,     \* which program this is
    pc,         \* where it is
    left,       \* time left to the deadline
    timer,      \* time left to the list's timeout or to the sleep
    asked,      \* the list: nodes whose presence no reply has settled yet
    names,      \* the list's result
    samples,    \* samples[n]: what zenoh has yet to deliver of n
    queued,     \* the loop's ready list, or the command's queue of events
    view,       \* what the program was told last of each node
    seenUp,     \* history: nodes that held a token at a moment of the last list
    seenDown,   \* history: nodes that did not at a moment of it
    stale       \* history: nodes whose last change no answer and no sample tells

netVars  == <<up, changes>>
waitVars == <<left, timer>>
listVars == <<asked, names, seenUp, seenDown>>
viewVars == <<samples, queued, view>>
vars     == <<netVars, client, pc, waitVars, listVars, viewVars, stale>>

Up       == {n \in Nodes : up[n]}
Watching == pc = "watching"
Over     == pc \in {"returned", "raised", "cancelled", "stopped"}

Init ==
    /\ up \in [Nodes -> BOOLEAN] /\ changes = 0
    /\ client \in {"wait_for_nodes", "watcher", "command"}
    /\ pc = IF client = "watcher" THEN "declaring" ELSE "listing"
    /\ left = Timeout /\ timer = 2 * Poll
    /\ asked = Nodes /\ names = {} /\ seenUp = Up /\ seenDown = Nodes \ Up
    /\ samples = [n \in Nodes |-> <<>>] /\ queued = <<>>
    /\ view = [n \in Nodes |-> FALSE] /\ stale = Nodes

-----------------------------------------------------------------------------
(* The network, and time.                                                   *)

\* A node declares its token, or it is retracted, by the node or by its death.
\* A subscriber gets a sample.
Change(n) ==
    /\ changes < MaxChanges
    /\ changes' = changes + 1
    /\ up' = [up EXCEPT ![n] = ~@]
    /\ seenUp' = IF up[n] THEN seenUp ELSE seenUp \cup {n}
    /\ seenDown' = IF up[n] THEN seenDown \cup {n} ELSE seenDown
    /\ IF Watching
       THEN samples' = [samples EXCEPT ![n] = Append(@, ~up[n])] /\ stale' = stale \ {n}
       ELSE stale' = stale \cup {n} /\ UNCHANGED samples
    /\ UNCHANGED <<client, pc, waitVars, asked, names, queued, view>>

\* One reply of the list, or the certainty that n sends none.
Answer(n) ==
    /\ pc = "listing" /\ n \in asked
    /\ asked' = asked \ {n}
    /\ names' = IF up[n] THEN names \cup {n} ELSE names
    /\ stale' = stale \ {n}
    /\ UNCHANGED <<netVars, client, pc, waitVars, seenUp, seenDown, viewVars>>

Tick ==
    /\ left > 0 \/ timer > 0
    /\ left' = IF left > 0 THEN left - 1 ELSE 0
    /\ timer' = IF timer > 0 THEN timer - 1 ELSE 0
    /\ UNCHANGED <<netVars, client, pc, listVars, viewVars, stale>>

\* list_nodes returns what came in before its timeout; the command prints it.
ListEnds ==
    /\ pc = "listing" /\ (asked = {} \/ timer = 0)
    /\ \/ client = "wait_for_nodes" /\ pc' = "checking" /\ UNCHANGED view
       \/ /\ client = "command"
          /\ pc' \in {"stopped", "declaring"}      \* the latter with --watch
          /\ view' = [n \in Nodes |-> n \in names]
    /\ UNCHANGED <<netVars, client, waitVars, listVars, samples, queued, stale>>

-----------------------------------------------------------------------------
(* wait_for_nodes.                                                          *)

Check ==
    /\ pc = "checking"
    /\ \/ Wanted \subseteq names /\ pc' = "returned" /\ UNCHANGED timer
       \/ ~(Wanted \subseteq names) /\ left = 0 /\ pc' = "raised" /\ UNCHANGED timer
       \/ ~(Wanted \subseteq names) /\ left > 0 /\ pc' = "sleeping" /\ timer' = Poll
    /\ UNCHANGED <<netVars, client, left, listVars, viewVars, stale>>

Found_Kept == names
Found      == {}

LeftNow_Anew == Timeout
LeftNow      == left

\* The next list asks everyone again.
ListAgain ==
    /\ pc = "sleeping" /\ timer = 0
    /\ pc' = "listing" /\ timer' = 2 * Poll /\ left' = LeftNow
    /\ asked' = Nodes /\ names' = Found
    /\ seenUp' = Up /\ seenDown' = Nodes \ Up
    /\ UNCHANGED <<netVars, client, viewVars, stale>>

\* The caller is cancelled where it awaits (a start timeout); the list's thread
\* runs on by itself.
WaitCancelled ==
    /\ client = "wait_for_nodes" /\ pc \in {"listing", "sleeping"}
    /\ pc' = "cancelled"
    /\ UNCHANGED <<netVars, client, waitVars, listVars, viewVars, stale>>

-----------------------------------------------------------------------------
(* PresenceWatcher and cmd_nodes.                                           *)

Replay_None == [n \in Nodes |-> <<>>]
Replay      == [n \in Nodes |-> IF up[n] THEN <<TRUE>> ELSE <<>>]

\* With history=True zenoh replays the live tokens; the command asks for changes only.
DeclareSubscriber ==
    /\ pc = "declaring"
    /\ pc' = "watching"
    /\ \/ client = "watcher" /\ samples' = Replay /\ stale' = {}
       \/ client = "command" /\ UNCHANGED <<samples, stale>>
    /\ UNCHANGED <<netVars, client, waitVars, listVars, queued, view>>

\* zenoh's thread hands a sample on; the samples of one node keep their order.
OnSample(n) ==
    /\ Watching /\ samples[n] # <<>>
    /\ queued' = Append(queued, [name |-> n, alive |-> Head(samples[n])])
    /\ samples' = [samples EXCEPT ![n] = Tail(@)]
    /\ UNCHANGED <<netVars, client, pc, waitVars, listVars, view, stale>>

\* The callback runs on the loop, or the command prints the event.
Told ==
    /\ queued # <<>> /\ (client = "command" => Watching)
    /\ view' = [view EXCEPT ![Head(queued).name] = Head(queued).alive]
    /\ queued' = Tail(queued)
    /\ UNCHANGED <<netVars, client, pc, waitVars, listVars, samples, stale>>

\* stop(): what is on the loop already still reaches the callback.  Ctrl-C.
Stop ==
    /\ Watching
    /\ pc' = "stopped"
    /\ UNCHANGED <<netVars, client, waitVars, listVars, viewVars, stale>>

Terminated == Over /\ UNCHANGED vars

Next ==
    \/ \E n \in Nodes : Change(n) \/ Answer(n) \/ OnSample(n)
    \/ Tick \/ ListEnds \/ Check \/ ListAgain \/ WaitCancelled
    \/ DeclareSubscriber \/ Told \/ Stop \/ Terminated

\* Clocks run, the list's thread is scheduled, and the loop runs what is due.
Fairness == WF_vars(Tick) /\ WF_vars(ListEnds) /\ WF_vars(Check) /\ WF_vars(ListAgain)

Spec     == Init /\ [][Next]_vars
FairSpec == Spec /\ Fairness

-----------------------------------------------------------------------------
(* Correctness.                                                             *)

TypeOK ==
    /\ up \in [Nodes -> BOOLEAN] /\ changes \in 0..MaxChanges
    /\ client \in {"wait_for_nodes", "watcher", "command"}
    /\ pc \in {"listing", "checking", "sleeping", "returned", "raised", "cancelled",
               "declaring", "watching", "stopped"}
    /\ left \in 0..Timeout /\ timer \in 0..(2 * Poll)
    /\ asked \subseteq Nodes /\ names \subseteq Nodes
    /\ seenUp \subseteq Nodes /\ seenDown \subseteq Nodes /\ stale \subseteq Nodes
    /\ samples \in [Nodes -> Seq(BOOLEAN)]
    /\ queued \in Seq([name : Nodes, alive : BOOLEAN]) /\ view \in [Nodes -> BOOLEAN]

\* wait_for_nodes tells the truth about its last look: it returns only if every node
\* it waits for held its token at some moment since the list that it returns on began,
\* so never on a node seen by an earlier list and gone since; and it raises TimeoutError
\* only if the time is up and one of them was absent at some moment of that list, or
\* did not answer in time.
WaitRight ==
    [][/\ pc' = "returned" /\ pc # pc' => Wanted \subseteq seenUp
       /\ pc' = "raised" /\ pc # pc' => left = 0 /\ Wanted \cap (seenDown \cup asked) # {}]_vars

\* wait_for_nodes ends whatever the nodes do: it returns, raises or is cancelled, even
\* if they come and go between any two looks and no answer ever comes.
WaitEnds == client = "wait_for_nodes" ~> Over

\* Entry i of the queue is the last of its node.
Newest(i) == \A j \in DOMAIN queued : j > i => queued[j].name # queued[i].name

\* What n's newest news says, on its way or told already, is what the network holds.
Settled(n) ==
    IF samples[n] # <<>> THEN samples[n][Len(samples[n])] = up[n]
    ELSE IF \E i \in DOMAIN queued : queued[i].name = n
    THEN \A i \in DOMAIN queued : queued[i].name = n /\ Newest(i) => queued[i].alive = up[n]
    ELSE view[n] = up[n]

\* No change falls between two stools: a program that watches is told, once what is
\* on its way has arrived, the state of every node, the ones that changed while the
\* subscriber was being declared included.  Only the command may be wrong, about a node
\* that has not changed since it watches and that changed after its answer or gave none.
ViewSettles == Watching => \A n \in Nodes \ stale : Settled(n)
===============================================================================

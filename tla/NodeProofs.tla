------------------------------ MODULE NodeProofs ------------------------------
(***************************************************************************)
(* Theorems about NodeLifecycle, for any tasks, flags and bounds: a node    *)
(* that goes down holds nothing but what was declared behind its teardown,  *)
(* on_stop answers on_start, hardware is safe before a task is cancelled, a *)
(* duplicate that the look-up was told of is not announced beside, and the  *)
(* node keeps the contract of Lifecycle.                                    *)
(***************************************************************************)
EXTENDS NodeRefinement, TLAPS

-----------------------------------------------------------------------------
(* The inductive invariant, of a node's record.                             *)

\* Before on_start, in it or running; and on the way down.
Rising  == {"opening", "checking", "checked"}
Falling == {"onStop", "join", "subs", "closing"}

\* on_start has no answer yet only where main can still give it, or where a second
\* shutdown() let main go home without it.
Paired(r) ==
    /\ r.onStarts = r.onStops + (IF r.entered THEN 1 ELSE 0)
    /\ r.entered => r.at["main"] \in {"onStart", "waiting", "done"}
    /\ r.onStarts <= r.starts
    /\ r.at["main"] \in Rising => r.onStarts < r.starts

\* Nothing is declared but what was declared behind the teardown.
Empty(r) ==
    /\ ~r.token
    /\ r.publishers => "publishers" \in r.late
    /\ r.servers => "servers" \in r.late
    /\ r.subs # 0 => "subscriptions" \in r.late

\* What main has taken down, or is about to, by the state that says so.
Leaving(r) == r.state = IF r.failing THEN "starting" ELSE "stopping"

\* Where main stands tells the state and what the node holds.
Stands(r) ==
    LET at == r.at["main"] IN
    /\ at \in {"new", "raised"} => r.state = "stopped"
    /\ at \in Rising => r.state = "starting"
    /\ at = "onStart" => r.state = "starting" /\ r.entered
    /\ at \in Rising \cup {"onStart"} => ~r.hasRun /\ r.late = {}
    /\ at \in Rising \cup {"onStart", "waiting"} => ~r.failing
    /\ at = "onStart" => r.token /\ r.publishers
    /\ at \in Falling => Leaving(r)
    /\ at = "closing" => Empty(r)
    /\ at \notin {"waiting", "done"} => r.at["other"] = "new"

\* ... and so does another's shutdown(), of which main sees nothing but the state.
Beside(r) ==
    LET at == r.at["main"] IN
    /\ r.at["other"] = "new" => /\ at = "waiting" => r.state = "running" /\ r.entered
                                /\ at = "done" => r.state = "stopped"
    /\ r.at["other"] # "new" => ~r.failing /\ r.at["other"] \in Falling \cup {"done"}
    /\ r.at["other"] \in Falling => r.state = "stopping" /\ ~r.entered
    /\ r.at["other"] = "closing" => Empty(r)
    /\ r.at["other"] = "done" => r.state = "stopped"

Down(r) == r.state = "stopped" => Empty(r) /\ ~r.entered /\ (r.owned => ~r.session)

Sound(r) == ~r.cut => Stands(r) /\ Beside(r) /\ Down(r)

\* The duplicate check saw a token that stood all along, and had its way.
Looked ==
    /\ before => rival
    /\ node.at["main"] = "checked" /\ before => node.taken
    /\ ~AllowDuplicates /\ node.token /\ ~node.cut => ~before

Good(r) == r \in Node /\ r.asked \subseteq r.alive /\ Paired(r) /\ Sound(r)

NodeInv == Good(node) /\ rival \in BOOLEAN /\ before \in BOOLEAN /\ Looked

-----------------------------------------------------------------------------
(* The way down, as functions on the record.                                *)

\* c takes r down; on_stop is behind it.
Departs(r, c) ==
    /\ r \in Node /\ r.asked \subseteq r.alive /\ Paired(r)
    /\ ~r.cut => /\ Leaving(r)
                 /\ c = "main" => r.at["other"] = "new"
                 /\ c # "main" => ~r.failing /\ r.at["main"] \in {"waiting", "done"}
Leaves(r, c) == Departs(r, c) /\ (c = "main" \/ ~r.cut => ~r.entered)

\* What the way down from r to q leaves alone, and where it can lead.
Descends(r, c, q) ==
    /\ q.cut = r.cut /\ q.hasRun = r.hasRun /\ q.taken = r.taken /\ q.state \in {r.state, "stopped"}
    /\ q.token => r.token
    /\ q.entered => r.entered /\ r.cut /\ c # "main"
    /\ c = "main" => q.at["main"] \in Falling \cup {"raised", "done"}
    /\ c # "main" => q.at["main"] = r.at["main"]

LEMMA GotoNode ==
    ASSUME NEW r \in Node, NEW c \in Coros, NEW step \in Steps
    PROVE  Goto(r, c, step) \in Node
BY DEF Goto, Node

LEMMA FinishDown ==
    ASSUME NEW r, NEW c \in Coros, Leaves(r, c), Empty(r), r.owned => ~r.session
    PROVE  Good(Finish(r, c)) /\ Descends(r, c, Finish(r, c)) /\ Finish(r, c).asked = r.asked
<1>1. [r EXCEPT !.state = "stopped"] \in Node
  BY DEF Leaves, Departs, Node
<1>2. Finish(r, c) \in Node
  BY <1>1, GotoNode DEF Finish, Steps
<1>. QED
  BY <1>2 DEF Finish, Goto, Good, Descends, Leaves, Departs, Paired, Sound, Stands, Beside, Down, Empty, Leaving, Rising, Falling, Node, Coros

LEMMA UndeclaredNode == ASSUME NEW r \in Node PROVE Undeclared(r) \in Node
<1>1. ASSUME NEW s \in Node PROVE [s EXCEPT !.servers = FALSE] \in Node
  BY <1>1 DEF Node
<1>2. ASSUME NEW s \in Node PROVE [s EXCEPT !.publishers = FALSE] \in Node
  BY <1>2 DEF Node
<1>3. ASSUME NEW s \in Node PROVE [s EXCEPT !.token = FALSE] \in Node
  BY <1>3 DEF Node
<1>. DEFINE s == [r EXCEPT !.servers = FALSE]
            p == [s EXCEPT !.publishers = FALSE]
<1>4. s \in Node
  BY <1>1
<1>5. p \in Node
  BY <1>2, <1>4
<1>6. Undeclared(r) = [p EXCEPT !.token = FALSE]
  BY DEF Undeclared
<1>. HIDE DEF p
<1>. QED  BY <1>3, <1>5, <1>6

LEMMA UndeclaredDown ==
    ASSUME NEW r, NEW c \in Coros, Leaves(r, c), r.subs = 0
    PROVE  /\ Leaves(Undeclared(r), c) /\ Empty(Undeclared(r))
           /\ Undeclared(r) \in Node /\ \A q : Descends(Undeclared(r), c, q) => Descends(r, c, q)
           /\ Undeclared(r).asked = r.asked /\ Undeclared(r).owned = r.owned
           /\ Undeclared(r).session = r.session
<1>1. Undeclared(r) \in Node
  BY UndeclaredNode DEF Leaves, Departs
<1>. QED  BY <1>1 DEF Undeclared, Leaves, Departs, Leaving, Paired, Empty, Descends, Node

LEMMA RetireDown ==
    ASSUME NEW r, NEW c \in Coros, Leaves(r, c), r.subs = 0
    PROVE  Good(Retire(r, c)) /\ Descends(r, c, Retire(r, c)) /\ Retire(r, c).asked = r.asked
<1>. DEFINE u == Undeclared(r)
<1>0. /\ Leaves(u, c) /\ Empty(u) /\ u \in Node /\ \A q : Descends(u, c, q) => Descends(r, c, q)
      /\ u.asked = r.asked /\ u.owned = r.owned /\ u.session = r.session
  BY UndeclaredDown
<1>1. CASE r.session /\ r.owned
  <2>1. Retire(r, c) = Goto(u, c, "closing") /\ Goto(u, c, "closing") \in Node
    BY <1>0, <1>1, GotoNode DEF Retire, Steps
  <2>. HIDE DEF u
  <2>2. Good(Goto(u, c, "closing")) /\ Descends(u, c, Goto(u, c, "closing")) /\ Goto(u, c, "closing").asked = u.asked
    BY <1>0, <2>1 DEF Goto, Good, Descends, Leaves, Departs, Paired, Sound, Stands, Beside, Down, Empty, Leaving, Rising, Falling, Node, Coros
  <2>. QED  BY <1>0, <2>1, <2>2
<1>2. CASE ~(r.session /\ r.owned)
  <2>1. Retire(r, c) = Finish(u, c) /\ (u.owned => ~u.session)
    BY <1>0, <1>2 DEF Retire
  <2>. HIDE DEF u
  <2>. QED  BY <1>0, <2>1, FinishDown
<1>. QED  BY <1>1, <1>2

LEMMA AfterJoinDown ==
    ASSUME NEW r, NEW c \in Coros, Leaves(r, c)
    PROVE  Good(AfterJoin(r, c)) /\ Descends(r, c, AfterJoin(r, c)) /\ AfterJoin(r, c).asked = r.asked
<1>. DEFINE u == [r EXCEPT !.tracked = {}]
<1>0. /\ Leaves(u, c) /\ u \in Node /\ u.asked = r.asked /\ u.subs = r.subs
      /\ \A q : Descends(u, c, q) => Descends(r, c, q)
  <2>1. u \in Node
    BY DEF Leaves, Departs, Node
  <2>. QED  BY <2>1 DEF Leaves, Departs, Leaving, Paired, Descends, Node
<1>1. AfterJoin(r, c) = IF r.subs = 0 THEN Retire(u, c) ELSE Goto(u, c, "subs")
  BY DEF AfterJoin
<1>. HIDE DEF u
<1>2. CASE r.subs = 0
  BY <1>0, <1>1, <1>2, RetireDown
<1>3. CASE r.subs # 0
  <2>1. Goto(u, c, "subs") \in Node
    BY <1>0, GotoNode DEF Steps
  <2>2. Good(Goto(u, c, "subs")) /\ Descends(u, c, Goto(u, c, "subs")) /\ Goto(u, c, "subs").asked = u.asked
    BY <1>0, <2>1 DEF Goto, Good, Descends, Leaves, Departs, Paired, Sound, Stands, Beside, Down, Empty, Leaving, Rising, Falling, Node, Coros
  <2>. QED  BY <1>0, <1>1, <1>3, <2>2
<1>. QED  BY <1>2, <1>3

LEMMA TeardownDown ==
    ASSUME NEW r, NEW c \in Coros, Leaves(r, c)
    PROVE  Good(Teardown(r, c)) /\ Descends(r, c, Teardown(r, c))
<1>. DEFINE u == [r EXCEPT !.asked = r.tracked \cap r.alive]
<1>1. CASE r.tracked = {}
  BY <1>1, AfterJoinDown DEF Teardown
<1>2. CASE r.tracked # {}
  <2>0. /\ Leaves(u, c) /\ u \in Node /\ \A q : Descends(u, c, q) => Descends(r, c, q)
    <3>1. u \in Node
      BY DEF Leaves, Departs, Node
    <3>. QED  BY <3>1 DEF Leaves, Departs, Leaving, Paired, Descends, Node
  <2>1. Teardown(r, c) = Goto(u, c, "join")
    BY <1>2 DEF Teardown
  <2>. HIDE DEF u
  <2>2. Goto(u, c, "join") \in Node
    BY <2>0, GotoNode DEF Steps
  <2>3. Good(Goto(u, c, "join")) /\ Descends(u, c, Goto(u, c, "join"))
    BY <2>0, <2>2 DEF Goto, Good, Descends, Leaves, Departs, Paired, Sound, Stands, Beside, Down, Empty, Leaving, Rising, Falling, Node, Coros
  <2>. QED  BY <2>0, <2>1, <2>3
<1>. QED  BY <1>1, <1>2

\* on_stop is called by who finds it owed, and only then is nothing else done.
LEMMA UnwindDown ==
    ASSUME NEW r, NEW c \in Coros, Departs(r, c)
    PROVE  /\ Good(Unwind(r, c)) /\ Descends(r, c, Unwind(r, c))
           /\ r.entered => /\ Unwind(r, c).state = r.state /\ Unwind(r, c).subs = r.subs
                           /\ Unwind(r, c).token = r.token /\ Unwind(r, c).servers = r.servers
                           /\ Unwind(r, c).publishers = r.publishers /\ Unwind(r, c).asked = r.asked
                           /\ Unwind(r, c).late = r.late
           /\ c = "main" /\ ~r.entered => Unwind(r, c).at["main"] # "onStop"
<1>1. CASE r.entered
  <2>. DEFINE u == [r EXCEPT !.entered = FALSE, !.onStops = @ + 1]
  <2>1. r.onStops + 1 \in 0..MaxStarts
    BY <1>1, BoundAssumption DEF Departs, Paired, Node
  <2>2. u \in Node
    BY <2>1 DEF Departs, Node
  <2>3. Goto(u, c, "onStop") \in Node
    BY <2>2, GotoNode DEF Steps
  <2>4. Unwind(r, c) = Goto(u, c, "onStop")
    BY <1>1 DEF Unwind
  <2>. QED
    BY <1>1, <2>1, <2>3, <2>4 DEF Goto, Good, Descends, Departs, Paired, Sound, Stands, Beside, Down, Empty, Leaving, Rising, Falling, Node, Coros
<1>2. CASE ~r.entered
  <2>1. Unwind(r, c) = Teardown(r, c) /\ Leaves(r, c)
    BY <1>2 DEF Unwind, Leaves
  <2>2. Good(Teardown(r, c)) /\ Descends(r, c, Teardown(r, c))
    BY <2>1, TeardownDown
  <2>3. c = "main" => Teardown(r, c).at["main"] # "onStop"
    BY DEF Teardown, AfterJoin, Retire, Finish, Goto, Undeclared, Leaves, Departs, Node, Coros
  <2>. QED  BY <1>2, <2>1, <2>2, <2>3
<1>. QED  BY <1>1, <1>2

\* A step down from the node: main's, or that of a shutdown() beside it.
LEMMA DownKeeps ==
    ASSUME NodeInv, NEW r, NEW c \in Coros, NEW q, Good(q), Descends(r, c, q), Becomes(q),
           r.cut => node.cut \/ c = "other", node.cut => r.cut, r.token => node.token,
           c = "other" => r.at["main"] = node.at["main"] /\ r.taken = node.taken
    PROVE  NodeInv'
BY DEF Becomes, NodeInv, Looked, Descends, Falling, Coros

\* start() fails: where main stands before on_start, in it, or wiring.
Fails(r) ==
    /\ r \in Node /\ r.asked \subseteq r.alive /\ Paired(r)
    /\ ~r.cut => r.at["other"] = "new" /\ r.state = "starting"

LEMMA FailDown ==
    ASSUME NEW r, Fails(r)
    PROVE  /\ Good(Fail(r)) /\ Descends(r, "main", Fail(r))
           /\ r.entered => /\ Fail(r).state = r.state /\ Fail(r).subs = r.subs /\ Fail(r).asked = r.asked
                           /\ Fail(r).token = r.token /\ Fail(r).servers = r.servers
                           /\ Fail(r).publishers = r.publishers
           /\ ~r.entered => Fail(r).at["main"] # "onStop"
<1>. DEFINE f == [r EXCEPT !.failing = TRUE]
<1>1. f \in Node
  BY DEF Fails, Node
<1>2. /\ Departs(f, "main") /\ \A q : Descends(f, "main", q) => Descends(r, "main", q)
      /\ f.entered = r.entered /\ f.state = r.state /\ f.subs = r.subs /\ f.asked = r.asked
      /\ f.token = r.token /\ f.servers = r.servers /\ f.publishers = r.publishers
  BY <1>1 DEF Fails, Departs, Leaving, Paired, Descends, Node
<1>3. Fail(r) = Unwind(f, "main")
  BY DEF Fail
<1>. HIDE DEF f
<1>. QED  BY <1>2, <1>3, UnwindDown DEF Coros

LEMMA ShutdownDown ==
    ASSUME NEW r, NEW c \in Coros, r \in Node, r.asked \subseteq r.alive, Paired(r),
           r.state \notin {"stopping", "stopped"},
           ~r.cut => /\ ~r.failing
                     /\ c = "main" => r.at["other"] = "new"
                     /\ c # "main" => r.at["main"] = "waiting"
    PROVE  /\ Good(Shutdown(r, c)) /\ Descends([r EXCEPT !.state = "stopping"], c, Shutdown(r, c))
           /\ r.entered => /\ Shutdown(r, c).state = "stopping" /\ Shutdown(r, c).subs = r.subs
                           /\ Shutdown(r, c).token = r.token /\ Shutdown(r, c).servers = r.servers
                           /\ Shutdown(r, c).publishers = r.publishers /\ Shutdown(r, c).asked = r.asked
                           /\ Shutdown(r, c).late = r.late
           /\ c = "main" /\ ~r.entered => Shutdown(r, c).at["main"] # "onStop"
<1>. DEFINE f == [r EXCEPT !.state = "stopping"]
<1>1. f \in Node
  BY DEF Node
<1>2. /\ Departs(f, c)
      /\ f.entered = r.entered /\ f.state = "stopping" /\ f.subs = r.subs /\ f.asked = r.asked
      /\ f.late = r.late
      /\ f.token = r.token /\ f.servers = r.servers /\ f.publishers = r.publishers
  BY <1>1 DEF Departs, Leaving, Paired, Node
<1>3. Shutdown(r, c) = Unwind(f, c)
  BY DEF Shutdown
<1>. HIDE DEF f
<1>4. /\ Good(Unwind(f, c)) /\ Descends(f, c, Unwind(f, c))
      /\ r.entered => /\ Unwind(f, c).state = "stopping" /\ Unwind(f, c).subs = r.subs
                      /\ Unwind(f, c).token = r.token /\ Unwind(f, c).servers = r.servers
                      /\ Unwind(f, c).publishers = r.publishers /\ Unwind(f, c).asked = r.asked
                      /\ Unwind(f, c).late = r.late
      /\ c = "main" /\ ~r.entered => Unwind(f, c).at["main"] # "onStop"
  BY <1>2, UnwindDown
<1>. QED  BY <1>3, <1>4 DEF f

-----------------------------------------------------------------------------
(* Every step keeps the invariant.                                          *)

\* A step that neither moves a coroutine nor touches what the invariant relates.
Stays(q) ==
    /\ q.at = node.at /\ q.state = node.state /\ q.entered = node.entered /\ q.token = node.token
    /\ q.failing = node.failing /\ q.hasRun = node.hasRun /\ q.cut = node.cut /\ q.taken = node.taken
    /\ q.starts = node.starts /\ q.onStarts = node.onStarts /\ q.onStops = node.onStops
    /\ node.publishers => q.publishers

LEMMA StayKeeps ==
    ASSUME NodeInv, NEW q, Becomes(q), q \in Node, q.asked \subseteq q.alive, Stays(q),
           ~node.cut =>
             /\ Behind(node) => (Empty(node) => Empty(q))
             /\ ~Behind(node) => q.late = node.late
             /\ node.state = "stopped" => (q.owned => ~q.session)
    PROVE  NodeInv'
<1>1. Good(q)
  <2>1. CASE node.cut
    BY <2>1 DEF Stays, NodeInv, Good, Paired, Sound
  <2>2. CASE ~node.cut
    <3>1. Stands(node) /\ Beside(node) /\ Down(node) /\ Paired(node)
      BY <2>2 DEF NodeInv, Good, Sound
    <3>2. node.at["main"] = "closing" \/ node.at["other"] = "closing" \/ node.state = "stopped" => Behind(node)
      BY DEF Behind, Coros
    <3>3. Down(q)
      BY <2>2, <3>1, <3>2 DEF Down, Stays
    <3>4. Stands(q)
      <4>1. node.at["main"] \in Rising \cup {"onStart"} => ~Behind(node)
        BY <3>1 DEF Stands, Behind, Rising, Coros
      <4>. QED  BY <2>2, <3>1, <3>2, <4>1 DEF Stands, Stays, Leaving, Rising
    <3>5. Beside(q)
      BY <2>2, <3>1, <3>2 DEF Beside, Stays
    <3>. QED  BY <3>1, <3>3, <3>4, <3>5 DEF Good, Sound, Paired, Stays
  <2>. QED  BY <2>1, <2>2
<1>2. rival' = rival /\ before' = before /\ node' = q
  BY DEF Becomes
<1>. QED  BY <1>1, <1>2 DEF Stays, NodeInv, Looked

LEMMA NodeInit == Init => NodeInv
<1>. SUFFICES ASSUME Init PROVE NodeInv
  OBVIOUS
<1>1. PICK owned \in BOOLEAN : node = New(owned)
  BY DEF Init
<1>. DEFINE r == New(owned)
<1>2. r \in Node
  BY BoundAssumption DEF New, Node, Coros, Steps
<1>3. /\ r.at["main"] = "new" /\ r.at["other"] = "new" /\ r.state = "stopped" /\ ~r.entered
      /\ ~r.token /\ ~r.publishers /\ ~r.servers /\ r.subs = 0 /\ (r.owned => ~r.session)
      /\ r.onStarts = 0 /\ r.onStops = 0 /\ r.starts = 0 /\ r.asked = {} /\ r.late = {} /\ ~r.cut
  BY DEF New, Coros
<1>. HIDE DEF r
<1>4. Good(r)
  BY <1>2, <1>3 DEF Good, Paired, Sound, Stands, Beside, Down, Empty, Rising, Falling, Coros
<1>5. rival \in BOOLEAN /\ before = FALSE
  BY DEF Init
<1>. QED  BY <1>1, <1>3, <1>4, <1>5 DEF r, NodeInv, Looked

LEMMA StartKeeps == NodeInv /\ Start => NodeInv'
<1>. SUFFICES ASSUME NodeInv, Start PROVE NodeInv'
  OBVIOUS
<1>. DEFINE r == [node EXCEPT !.state = "starting", !.starts = @ + 1, !.failing = FALSE, !.late = {}]
            step == IF node.session THEN "checking" ELSE "opening"
<1>1. node.starts + 1 \in 0..MaxStarts
  BY BoundAssumption DEF Start, NodeInv, Good, Node
<1>2. r \in Node
  BY <1>1 DEF NodeInv, Good, Node
<1>3. Goto(r, "main", step) \in Node
  <2>1. step \in Steps
    BY DEF Steps
  <2>. HIDE DEF r, step
  <2>. QED  BY <1>2, <2>1, GotoNode DEF Coros
<1>4. Good(Goto(r, "main", step))
  BY <1>1, <1>3 DEF Goto, Start, NodeInv, Good, Paired, Sound, Stands, Beside, Down, Empty, Leaving, Rising, Falling, Node, Coros
<1>5. node' = Goto(r, "main", step) /\ before' = rival /\ rival' = rival
  BY DEF Start
<1>6. /\ Goto(r, "main", step).at["main"] # "checked"
      /\ Goto(r, "main", step).token = node.token /\ Goto(r, "main", step).cut = node.cut
  BY DEF Goto, NodeInv, Good, Node, Coros
<1>7. node.token => node.cut
  BY DEF Start, NodeInv, Good, Sound, Down, Empty
<1>. QED  BY <1>4, <1>5, <1>6, <1>7 DEF NodeInv, Looked

LEMMA OpenKeeps == NodeInv /\ (SessionOpens \/ SessionOpenFails) => NodeInv'
<1>. SUFFICES ASSUME NodeInv, SessionOpens \/ SessionOpenFails PROVE NodeInv'
  OBVIOUS
<1>1. CASE SessionOpens
  <2>. DEFINE q == Goto([node EXCEPT !.session = TRUE], "main", "checking")
  <2>1. [node EXCEPT !.session = TRUE] \in Node
    BY DEF NodeInv, Good, Node
  <2>2. q \in Node
    BY <2>1, GotoNode DEF Coros, Steps
  <2>3. Good(q)
    BY <1>1, <2>2 DEF SessionOpens, Goto, NodeInv, Good, Paired, Sound, Stands, Beside, Down, Empty, Leaving, Rising, Falling, Node, Coros
  <2>4. q.at["main"] # "checked" /\ q.token = node.token /\ q.cut = node.cut
    BY DEF Goto, NodeInv, Good, Node, Coros
  <2>. QED  BY <1>1, <2>3, <2>4 DEF SessionOpens, Becomes, NodeInv, Looked
<1>2. CASE SessionOpenFails
  <2>. DEFINE q == Goto([node EXCEPT !.cut = TRUE], "main", "raised")
  <2>1. [node EXCEPT !.cut = TRUE] \in Node
    BY DEF NodeInv, Good, Node
  <2>2. q \in Node
    BY <2>1, GotoNode DEF Coros, Steps
  <2>3. Good(q) /\ q.at["main"] # "checked" /\ q.cut
    BY <1>2, <2>2 DEF SessionOpenFails, Goto, NodeInv, Good, Paired, Sound, Rising, Node, Coros
  <2>. QED  BY <1>2, <2>3 DEF SessionOpenFails, Becomes, NodeInv, Looked
<1>. QED  BY <1>1, <1>2

\* A failure before on_start, inside it, or in the wiring behind it.
LEMMA FailKeeps ==
    ASSUME NodeInv, node.at["main"] \in Rising \cup {"onStart"}, NEW r \in Node,
           r.asked \subseteq r.alive, r.at = node.at, r.state = node.state, r.entered = node.entered,
           r.cut = node.cut, r.starts = node.starts, r.onStarts = node.onStarts, r.onStops = node.onStops,
           r.token => node.token \/ ~before \/ AllowDuplicates,
           Becomes(Fail(r))
    PROVE  NodeInv'
<1>1. Fails(r)
  BY DEF Fails, NodeInv, Good, Paired, Sound, Stands, Rising, Falling
<1>2. Good(Fail(r)) /\ Descends(r, "main", Fail(r))
  BY <1>1, FailDown
<1>. QED  BY <1>2 DEF NodeInv, Looked, Becomes, Descends, Falling

LEMMA LookUpKeeps == NodeInv /\ LookUp => NodeInv'
<1>. SUFFICES ASSUME NodeInv, LookUp PROVE NodeInv'
  OBVIOUS
<1>1. ASSUME NEW told \in Answers, node' = Goto([node EXCEPT !.taken = told], "main", "checked"),
             before' = (before /\ told), rival' = rival
      PROVE  NodeInv'
  <2>. DEFINE r == [node EXCEPT !.taken = told]
              q == Goto(r, "main", "checked")
  <2>0. told \in BOOLEAN
    BY DEF Answers, NodeInv
  <2>1. r \in Node
    BY <2>0 DEF NodeInv, Good, Node
  <2>2. q \in Node
    BY <2>1, GotoNode DEF Coros, Steps
  <2>3. Good(q)
    BY <2>2 DEF LookUp, Goto, NodeInv, Good, Paired, Sound, Stands, Beside, Down, Empty, Leaving, Rising, Falling, Node, Coros
  <2>4. q.taken = told /\ q.token = node.token /\ q.cut = node.cut
    BY DEF Goto, NodeInv, Good, Node, Coros
  <2>. HIDE DEF q
  <2>5. node' = q
    BY <1>1 DEF q
  <2>. QED  BY <1>1, <2>0, <2>3, <2>4, <2>5 DEF NodeInv, Looked
<1>2. CASE Becomes(Fail(node))
  BY <1>2, FailKeeps DEF LookUp, NodeInv, Good, Rising
<1>. QED  BY <1>1, <1>2 DEF LookUp

\* What has been done when a start fails before on_start.
LEMMA AnnouncedNode ==
    ASSUME NEW n \in Node
    PROVE  LET r == [n EXCEPT !.taken = FALSE]
               t == [r EXCEPT !.token = TRUE]
           IN  /\ r \in Node /\ t \in Node /\ [t EXCEPT !.publishers = TRUE] \in Node
               /\ Publishing(t) \in Node
<1>. DEFINE r == [n EXCEPT !.taken = FALSE]
            t == [r EXCEPT !.token = TRUE]
<1>1. r \in Node
  BY DEF Node
<1>2. t \in Node
  <2>. HIDE DEF r
  <2>. QED  BY <1>1 DEF Node
<1>. HIDE DEF t
<1>3. [t EXCEPT !.publishers = TRUE] \in Node
  BY <1>2 DEF Node
<1>4. Publishing(t) \in Node
  <2>1. t.alive \cup {Heartbeat} \in SUBSET Tasks /\ t.tracked \cup {Heartbeat} \in SUBSET Tasks
    BY <1>2, TaskAssumption DEF Node
  <2>. QED  BY <1>2, <2>1 DEF Publishing, Node
<1>. QED  BY <1>1, <1>2, <1>3, <1>4 DEF t

\* What it can fail from: the fields on_start and the way down ask for are as they were.
AsBefore(q) ==
    /\ q \in Node /\ node.alive \subseteq q.alive /\ q.asked = node.asked /\ q.at = node.at
    /\ q.state = node.state /\ q.entered = node.entered /\ q.cut = node.cut /\ q.starts = node.starts
    /\ q.onStarts = node.onStarts /\ q.onStops = node.onStops /\ q.hasRun = node.hasRun

LEMMA AnnouncedFrom ==
    ASSUME NodeInv, NEW q,
           LET r == [node EXCEPT !.taken = FALSE]
               t == [r EXCEPT !.token = TRUE]
           IN  q \in {r, t, [t EXCEPT !.publishers = TRUE], Publishing(t)}
    PROVE  AsBefore(q)
<1>. DEFINE r == [node EXCEPT !.taken = FALSE]
            t == [r EXCEPT !.token = TRUE]
<1>0. node \in Node /\ q \in Node
  BY AnnouncedNode DEF NodeInv, Good
<1>1. CASE q = r
  BY <1>0, <1>1 DEF AsBefore, Node
<1>2. CASE q = t \/ q = [t EXCEPT !.publishers = TRUE]
  BY <1>0, <1>2 DEF AsBefore, Node
<1>3. CASE q = Publishing(t)
  BY <1>0, <1>3 DEF AsBefore, Publishing, Node
<1>. QED  BY <1>1, <1>2, <1>3

LEMMA AnnounceKeeps == NodeInv /\ Announce => NodeInv'
<1>. SUFFICES ASSUME NodeInv, Announce PROVE NodeInv'
  OBVIOUS
<1>. DEFINE r == [node EXCEPT !.taken = FALSE]
            t == [r EXCEPT !.token = TRUE]
            p == Publishing(t)
            e == [p EXCEPT !.entered = TRUE, !.onStarts = @ + 1]
            q == Goto(e, "main", "onStart")
<1>0. /\ node.at["main"] = "checked" /\ node \in Node /\ node.onStarts < node.starts
      /\ node.asked \subseteq node.alive
  BY DEF Announce, NodeInv, Good, Paired, Rising
<1>1. r.token = node.token
  BY <1>0 DEF Node
<1>2. ~Refused(node) => ~before \/ AllowDuplicates
  BY <1>0 DEF Refused, NodeInv, Looked
<1>3. ASSUME NEW f \in {r, t, [t EXCEPT !.publishers = TRUE], p}, Becomes(Fail(f)),
             f.token => node.token \/ ~before \/ AllowDuplicates
      PROVE  NodeInv'
  <2>1. AsBefore(f)
    BY <1>3, AnnouncedFrom
  <2>. QED  BY <1>0, <1>3, <2>1, FailKeeps DEF AsBefore, Rising
<1>4. CASE Becomes(Fail(r))
  BY <1>1, <1>3, <1>4
<1>5. CASE ~Refused(node) /\ \E f \in {t, [t EXCEPT !.publishers = TRUE], p} : Becomes(Fail(f))
  BY <1>2, <1>3, <1>5
<1>6. CASE ~Refused(node) /\ Becomes(q)
  <2>1. p \in Node
    BY <1>0, AnnouncedNode
  <2>2. node.onStarts + 1 \in 0..MaxStarts
    BY <1>0, BoundAssumption DEF Node
  <2>3. p.onStarts = node.onStarts
    BY <1>0 DEF Publishing, Node
  <2>4. e \in Node
    <3>. HIDE DEF p
    <3>. QED  BY <2>1, <2>2, <2>3 DEF Node
  <2>5. q \in Node
    <3>. HIDE DEF e
    <3>. QED  BY <2>4, GotoNode DEF Coros, Steps
  <2>6. Good(q)
    BY <1>0, <2>5 DEF Publishing, Goto, NodeInv, Good, Paired, Sound, Stands, Beside, Down, Leaving, Rising, Falling, Node, Coros
  <2>7. q.at["main"] # "checked" /\ q.cut = node.cut
    BY <1>0 DEF Publishing, Goto, Node, Coros
  <2>. QED  BY <1>2, <1>6, <2>6, <2>7 DEF Becomes, NodeInv, Looked
<1>. QED  BY <1>4, <1>5, <1>6 DEF Announce

LEMMA WiredFrom ==
    ASSUME node \in Node, NEW k \in 0..Bindings, NEW served \in {node.servers, TRUE}
    PROVE  LET r == [node EXCEPT !.subs = @ + k, !.servers = served]
           IN  AsBefore(r) /\ r.token = node.token
<1>1. Bindings \in Nat /\ node.subs \in Nat /\ node.servers \in BOOLEAN
  BY BoundAssumption DEF Node
<1>2. node.subs + k \in Nat
  BY <1>1
<1>3. served \in BOOLEAN
  BY <1>1
<1>. QED  BY <1>2, <1>3 DEF AsBefore, Node

LEMMA OnStartKeeps == NodeInv /\ (OnStartTimesOut \/ OnStartEnds) => NodeInv'
<1>. SUFFICES ASSUME NodeInv, OnStartTimesOut \/ OnStartEnds PROVE NodeInv'
  OBVIOUS
<1>0. node.at["main"] = "onStart" /\ node \in Node /\ node.asked \subseteq node.alive
  BY DEF OnStartTimesOut, OnStartEnds, NodeInv, Good
<1>1. CASE Becomes(Fail(node))
  BY <1>0, <1>1, FailKeeps
<1>2. ASSUME NEW k \in 0..Bindings, NEW served \in {node.servers, TRUE},
             Becomes(Fail([node EXCEPT !.subs = @ + k, !.servers = served]))
      PROVE  NodeInv'
  <2>. DEFINE r == [node EXCEPT !.subs = @ + k, !.servers = served]
  <2>1. AsBefore(r) /\ r.token = node.token
    BY <1>0, WiredFrom
  <2>. HIDE DEF r
  <2>2. Becomes(Fail(r))
    BY <1>2 DEF r
  <2>. QED  BY <1>0, <2>1, <2>2, FailKeeps DEF AsBefore
<1>3. CASE Becomes(Up(node))
  <2>. DEFINE r == [node EXCEPT !.subs = @ + Bindings, !.servers = TRUE, !.state = "running", !.hasRun = TRUE]
  <2>1. node.subs + Bindings \in Nat
    BY <1>0, BoundAssumption DEF Node
  <2>2. r \in Node
    BY <1>0, <2>1 DEF Node
  <2>3. Up(node) \in Node
    <3>1. Up(node) = Goto(r, "main", "waiting")
      BY DEF Up
    <3>. HIDE DEF r
    <3>. QED  BY <2>2, <3>1, GotoNode DEF Coros, Steps
  <2>4. Good(Up(node)) /\ Up(node).at["main"] # "checked" /\ Up(node).token = node.token /\ Up(node).cut = node.cut
    BY <1>0, <2>3 DEF Up, Goto, NodeInv, Good, Paired, Sound, Stands, Beside, Down, Leaving, Rising, Falling, Node, Coros
  <2>. QED  BY <1>3, <2>4 DEF Becomes, NodeInv, Looked
<1>. QED  BY <1>1, <1>2, <1>3 DEF OnStartTimesOut, OnStartEnds

\* What a coroutine that is on its way down finds.
LEMMA OnItsWay ==
    ASSUME NodeInv, NEW c \in Coros, node.at[c] \in Falling
    PROVE  Leaves(node, c)
<1>1. Departs(node, c)
  BY DEF NodeInv, Good, Sound, Stands, Beside, Departs, Leaving, Falling, Coros
<1>2. c = "main" \/ ~node.cut => ~node.entered
  BY DEF NodeInv, Good, Paired, Sound, Beside, Falling, Coros
<1>. QED  BY <1>1, <1>2 DEF Leaves

LEMMA WayDownKeeps == ASSUME NodeInv, NEW c \in Coros, WayDown(c) PROVE NodeInv'
<1>0. /\ node.at[c] \in Falling /\ node \in Node /\ Leaves(node, c)
  BY OnItsWay DEF WayDown, OnStopEnds, JoinEnds, StopSub, SessionCloses, Falling, NodeInv, Good
<1>1. CASE OnStopEnds(c)
  BY <1>0, <1>1, TeardownDown, DownKeeps DEF OnStopEnds
<1>2. CASE JoinEnds(c)
  BY <1>0, <1>2, AfterJoinDown, DownKeeps DEF JoinEnds
<1>3. CASE StopSub(c)
  <2>. DEFINE r == [node EXCEPT !.subs = IF @ = 0 THEN 0 ELSE @ - 1]
  <2>1. r \in Node
    <3>1. (IF node.subs = 0 THEN 0 ELSE node.subs - 1) \in Nat
      BY <1>0 DEF Node
    <3>. QED  BY <1>0, <3>1 DEF Node
  <2>2. Leaves(r, c) /\ r.cut = node.cut /\ r.token = node.token /\ r.at = node.at /\ r.taken = node.taken
    BY <1>0, <2>1 DEF Leaves, Departs, Leaving, Paired, Node
  <2>3. CASE r.subs = 0 /\ Becomes(Retire(r, c))
    <3>. HIDE DEF r
    <3>. QED  BY <1>0, <2>2, <2>3, RetireDown, DownKeeps
  <2>4. CASE Becomes(r)
    <3>1. /\ Stays(r) /\ r.asked = node.asked /\ r.alive = node.alive /\ r.owned = node.owned
          /\ r.publishers = node.publishers /\ r.servers = node.servers /\ r.session = node.session
          /\ r.late = node.late /\ (r.subs # 0 => node.subs # 0)
      BY <1>0 DEF Stays, Node
    <3>. HIDE DEF r
    <3>2. node.asked \subseteq node.alive
      BY DEF NodeInv, Good
    <3>3. Empty(node) => Empty(r)
      BY <2>2, <3>1 DEF Empty
    <3>4. ~node.cut => (node.state = "stopped" => (node.owned => ~node.session))
      BY DEF NodeInv, Good, Sound, Down
    <3>. QED  BY <2>1, <2>2, <2>4, <3>1, <3>2, <3>3, <3>4, StayKeeps
  <2>. QED  BY <1>3, <2>3, <2>4 DEF StopSub
<1>4. CASE SessionCloses(c)
  <2>. DEFINE r == [node EXCEPT !.session = FALSE]
  <2>1. r \in Node
    BY <1>0 DEF Node
  <2>2. /\ Leaves(r, c) /\ r.cut = node.cut /\ r.token = node.token /\ r.at = node.at /\ r.taken = node.taken
        /\ ~r.session /\ r.publishers = node.publishers /\ r.servers = node.servers /\ r.subs = node.subs
        /\ r.late = node.late
    BY <1>0, <2>1 DEF Leaves, Departs, Leaving, Paired, Node
  <2>. HIDE DEF r
  <2>3. Becomes(Finish(r, c))
    BY <1>4 DEF SessionCloses, r
  <2>4. CASE ~node.cut
    <3>1. Empty(r)
      BY <1>0, <1>4, <2>2, <2>4 DEF SessionCloses, Empty, NodeInv, Good, Sound, Stands, Beside, Coros
    <3>. QED  BY <1>0, <2>2, <2>3, <3>1, FinishDown, DownKeeps
  <2>5. CASE node.cut
    <3>. DEFINE f == [r EXCEPT !.state = "stopped"]
                step == IF c = "main" /\ r.failing THEN "raised" ELSE "done"
    <3>1. f \in Node
      BY <2>1 DEF Node
    <3>2. Finish(r, c) \in Node
      <4>1. step \in Steps
        BY DEF Steps
      <4>2. Finish(r, c) = Goto(f, c, step)
        BY DEF Finish
      <4>. HIDE DEF f, step
      <4>. QED  BY <3>1, <4>1, <4>2, GotoNode
    <3>3. Good(Finish(r, c)) /\ Descends(r, c, Finish(r, c))
      BY <2>1, <2>2, <2>5, <3>2
        DEF Finish, Goto, Good, Descends, Leaves, Departs, Paired, Sound, Rising, Falling, Node, Coros
    <3>. QED  BY <1>0, <2>2, <2>3, <3>3, DownKeeps
  <2>. QED  BY <2>4, <2>5
<1>. QED  BY <1>1, <1>2, <1>3, <1>4 DEF WayDown

\* A declaration is recorded as late where the teardown would not find it.
LEMMA DeclaredStays ==
    ASSUME NodeInv, NEW q \in Node, NEW kind \in {"publishers", "servers", "subscriptions"},
           q.late = node.late, Stays(q), q.asked = node.asked, q.alive = node.alive,
           q.owned = node.owned, q.session = node.session,
           kind # "publishers" => q.publishers = node.publishers,
           kind # "servers" => q.servers = node.servers,
           kind # "subscriptions" => q.subs = node.subs,
           Becomes(Declared(q, kind))
    PROVE  NodeInv'
<1>. DEFINE d == [q EXCEPT !.late = @ \cup {kind}]
<1>0. node \in Node /\ node.asked \subseteq node.alive
      /\ (~node.cut => (node.state = "stopped" => (node.owned => ~node.session)))
  BY DEF NodeInv, Good, Sound, Down
<1>1. Behind(q) = Behind(node)
  BY DEF Behind, Stays
<1>2. CASE Behind(node)
  <2>1. d \in Node
    BY DEF Node
  <2>2. /\ Stays(d) /\ d.asked = node.asked /\ d.alive = node.alive /\ d.owned = node.owned
        /\ d.session = node.session /\ d.late = node.late \cup {kind} /\ d.token = node.token
        /\ d.publishers = q.publishers /\ d.servers = q.servers /\ d.subs = q.subs
    BY DEF Stays, Node
  <2>3. Becomes(d)
    BY <1>1, <1>2 DEF Declared
  <2>. HIDE DEF d
  <2>4. Empty(node) => Empty(d)
    BY <2>2 DEF Empty
  <2>. QED  BY <1>0, <1>2, <2>1, <2>2, <2>3, <2>4, StayKeeps
<1>3. CASE ~Behind(node)
  <2>0. node.state # "stopped"
    BY <1>3 DEF Behind
  <2>1. [q EXCEPT !.late = @] = q
    BY DEF Node
  <2>2. Becomes(q)
    BY <1>1, <1>3, <2>1 DEF Declared
  <2>. QED  BY <1>0, <1>3, <2>0, <2>2, StayKeeps
<1>. QED  BY <1>2, <1>3

LEMMA DeclareKeeps == NodeInv /\ Declare => NodeInv'
<1>. SUFFICES ASSUME NodeInv, Declare PROVE NodeInv'
  OBVIOUS
<1>0. node \in Node
  BY DEF NodeInv, Good
<1>1. CASE node.made < MaxSubs /\ Becomes(Declared([node EXCEPT !.subs = @ + 1, !.made = @ + 1], "subscriptions"))
  <2>. DEFINE q == [node EXCEPT !.subs = @ + 1, !.made = @ + 1]
  <2>1. node.subs + 1 \in Nat /\ node.made + 1 \in 0..MaxSubs
    BY <1>0, <1>1, BoundAssumption DEF Node
  <2>2. q \in Node
    BY <1>0, <2>1 DEF Node
  <2>3. /\ Stays(q) /\ q.asked = node.asked /\ q.alive = node.alive /\ q.late = node.late
        /\ q.owned = node.owned /\ q.session = node.session /\ q.publishers = node.publishers
        /\ q.servers = node.servers
    BY <1>0 DEF Stays, Node
  <2>4. Becomes(Declared(q, "subscriptions"))
    BY <1>1
  <2>. HIDE DEF q
  <2>. QED  BY <2>2, <2>3, <2>4, DeclaredStays
<1>2. CASE Becomes(Declared([node EXCEPT !.publishers = TRUE], "publishers"))
  <2>. DEFINE q == [node EXCEPT !.publishers = TRUE]
  <2>1. q \in Node
    BY <1>0 DEF Node
  <2>2. /\ Stays(q) /\ q.asked = node.asked /\ q.alive = node.alive /\ q.late = node.late
        /\ q.owned = node.owned /\ q.session = node.session /\ q.servers = node.servers
        /\ q.subs = node.subs
    BY <1>0 DEF Stays, Node
  <2>3. Becomes(Declared(q, "publishers"))
    BY <1>2
  <2>. HIDE DEF q
  <2>. QED  BY <2>1, <2>2, <2>3, DeclaredStays
<1>3. CASE Becomes(Declared([node EXCEPT !.servers = TRUE], "servers"))
  <2>. DEFINE q == [node EXCEPT !.servers = TRUE]
  <2>1. q \in Node
    BY <1>0 DEF Node
  <2>2. /\ Stays(q) /\ q.asked = node.asked /\ q.alive = node.alive /\ q.late = node.late
        /\ q.owned = node.owned /\ q.session = node.session /\ q.publishers = node.publishers
        /\ q.subs = node.subs
    BY <1>0 DEF Stays, Node
  <2>3. Becomes(Declared(q, "servers"))
    BY <1>3
  <2>. HIDE DEF q
  <2>. QED  BY <2>1, <2>2, <2>3, DeclaredStays
<1>. QED  BY <1>1, <1>2, <1>3 DEF Declare

LEMMA TaskKeeps == ASSUME NodeInv, NEW t \in Tasks, SpawnTask(t) \/ TaskEnds(t) PROVE NodeInv'
<1>0. node \in Node /\ node.asked \subseteq node.alive
  BY DEF NodeInv, Good
<1>1. ~node.cut => (node.state = "stopped" => (node.owned => ~node.session))
  BY DEF NodeInv, Good, Sound, Down
<1>2. CASE SpawnTask(t)
  <2>. DEFINE q == [node EXCEPT !.alive = @ \cup {t}, !.tracked = @ \cup {t}]
  <2>1. q \in Node
    BY <1>0 DEF Node
  <2>2. Stays(q) /\ q.asked = node.asked /\ q.alive = node.alive \cup {t}
        /\ q.publishers = node.publishers /\ q.servers = node.servers /\ q.subs = node.subs
        /\ q.owned = node.owned /\ q.session = node.session /\ q.late = node.late
    BY <1>0 DEF Stays, Node
  <2>3. Becomes(q)
    BY <1>2 DEF SpawnTask
  <2>. HIDE DEF q
  <2>4. Empty(node) => Empty(q)
    BY <2>2 DEF Empty, Stays
  <2>. QED  BY <1>0, <1>1, <2>1, <2>2, <2>3, <2>4, StayKeeps
<1>3. CASE TaskEnds(t)
  <2>. DEFINE q == [node EXCEPT !.alive = @ \ {t}, !.asked = @ \ {t}]
  <2>1. q \in Node
    BY <1>0 DEF Node
  <2>2. Stays(q) /\ q.asked = node.asked \ {t} /\ q.alive = node.alive \ {t}
        /\ q.publishers = node.publishers /\ q.servers = node.servers /\ q.subs = node.subs
        /\ q.owned = node.owned /\ q.session = node.session /\ q.late = node.late
    BY <1>0 DEF Stays, Node
  <2>3. Becomes(q)
    BY <1>3 DEF TaskEnds
  <2>. HIDE DEF q
  <2>4. Empty(node) => Empty(q)
    BY <2>2 DEF Empty, Stays
  <2>. QED  BY <1>0, <1>1, <2>1, <2>2, <2>3, <2>4, StayKeeps
<1>. QED  BY <1>2, <1>3

LEMMA CallerKeeps == NodeInv /\ (Stop \/ AdoptSession) => NodeInv'
<1>. SUFFICES ASSUME NodeInv, Stop \/ AdoptSession PROVE NodeInv'
  OBVIOUS
<1>0. node \in Node /\ node.asked \subseteq node.alive
  BY DEF NodeInv, Good
<1>1. ~node.cut => (node.state = "stopped" => (node.owned => ~node.session))
  BY DEF NodeInv, Good, Sound, Down
<1>2. CASE Stop
  <2>. DEFINE q == [node EXCEPT !.stop = TRUE]
  <2>1. q \in Node
    BY <1>0 DEF Node
  <2>2. Stays(q) /\ q.asked = node.asked /\ q.alive = node.alive
        /\ q.publishers = node.publishers /\ q.servers = node.servers /\ q.subs = node.subs
        /\ q.owned = node.owned /\ q.session = node.session /\ q.late = node.late
    BY <1>0 DEF Stays, Node
  <2>3. Becomes(q)
    BY <1>2 DEF Stop
  <2>. HIDE DEF q
  <2>4. Empty(node) => Empty(q)
    BY <2>2 DEF Empty, Stays
  <2>. QED  BY <1>0, <1>1, <2>1, <2>2, <2>3, <2>4, StayKeeps
<1>3. CASE AdoptSession
  <2>. DEFINE q == [node EXCEPT !.session = TRUE, !.owned = FALSE]
  <2>1. q \in Node
    BY <1>0 DEF Node
  <2>2. Stays(q) /\ q.asked = node.asked /\ q.alive = node.alive
        /\ q.publishers = node.publishers /\ q.servers = node.servers /\ q.subs = node.subs /\ ~q.owned
        /\ q.late = node.late
    BY <1>0 DEF Stays, Node
  <2>3. Becomes(q)
    BY <1>3 DEF AdoptSession
  <2>. HIDE DEF q
  <2>4. Empty(node) => Empty(q)
    BY <2>2 DEF Empty, Stays
  <2>. QED  BY <1>0, <1>1, <2>1, <2>2, <2>3, <2>4, StayKeeps
<1>. QED  BY <1>2, <1>3

\* The node as a caller finds it, but for a cancellation more.
Twin(r) ==
    /\ r \in Node /\ r.asked = node.asked /\ r.alive = node.alive /\ r.at = node.at
    /\ r.state = node.state /\ r.entered = node.entered /\ r.cut = node.cut /\ r.starts = node.starts
    /\ r.failing = node.failing /\ r.onStarts = node.onStarts /\ r.onStops = node.onStops
    /\ r.hasRun = node.hasRun /\ r.taken = node.taken /\ r.token = node.token
    /\ r.publishers = node.publishers /\ r.servers = node.servers /\ r.subs = node.subs
    /\ r.late = node.late /\ r.owned = node.owned /\ r.session = node.session

\* _amain goes on to shutdown(), after stop() or a cancellation; a shutdown() that
\* another has begun leaves it nothing to do.
LEMMA AmainKeeps ==
    ASSUME NodeInv, node.at["main"] = "waiting", NEW r, Twin(r), Becomes(Shutdown(r, "main"))
    PROVE  NodeInv'
<1>0. /\ r \in Node /\ r.asked \subseteq r.alive /\ Paired(r) /\ Sound(r)
      /\ r.at["main"] = "waiting" /\ r.token = node.token /\ r.cut = node.cut
  BY DEF Twin, NodeInv, Good, Paired, Sound, Stands, Beside, Down, Empty, Leaving
<1>1. CASE r.state \in {"stopping", "stopped"}
  <2>. DEFINE q == Goto(r, "main", "done")
  <2>1. Shutdown(r, "main") = q
    BY <1>1 DEF Shutdown
  <2>2. q \in Node
    BY <1>0, GotoNode DEF Coros, Steps
  <2>3. q.at["main"] = "done" /\ q.at["other"] = r.at["other"] /\ q.token = r.token /\ q.cut = r.cut
    BY <1>0 DEF Goto, Node, Coros
  <2>4. Good(q)
    BY <1>0, <1>1, <2>2 DEF Goto, Good, Paired, Sound, Stands, Beside, Down, Empty, Leaving, Rising, Falling, Node, Coros
  <2>. HIDE DEF q
  <2>. QED  BY <1>0, <2>1, <2>3, <2>4 DEF Becomes, NodeInv, Looked
<1>2. CASE r.state \notin {"stopping", "stopped"}
  <2>. DEFINE f == [r EXCEPT !.state = "stopping"]
  <2>0. ~r.cut => ~r.failing /\ r.at["other"] = "new"
    BY <1>0, <1>2 DEF Sound, Stands, Beside
  <2>1. Good(Shutdown(r, "main")) /\ Descends(f, "main", Shutdown(r, "main"))
    BY <1>0, <1>2, <2>0, ShutdownDown DEF Coros
  <2>2. f.cut = r.cut /\ f.token = r.token
    BY <1>0 DEF Node
  <2>. HIDE DEF f
  <2>. QED  BY <1>0, <2>1, <2>2, DownKeeps DEF Coros
<1>. QED  BY <1>1, <1>2

\* What another's shutdown() begins with.
LEMMA OtherFrom ==
    ASSUME NodeInv, OtherShutdown
    PROVE  \E r \in Node :
             /\ Becomes(Shutdown(r, "other")) /\ node.state \notin {"stopping", "stopped"}
             /\ r.cut = (node.cut \/ node.state = "starting")
             /\ r.asked = node.asked /\ r.asked \subseteq r.alive /\ r.at = node.at /\ r.state = node.state
             /\ r.token = node.token /\ r.taken = node.taken /\ r.hasRun = node.hasRun
             /\ r.publishers = node.publishers /\ r.servers = node.servers /\ r.subs = node.subs
             /\ r.late = node.late /\ r.entered = node.entered /\ Paired(r)
             /\ ~r.cut => ~r.failing /\ r.at["main"] = "waiting" /\ r.state = "running" /\ r.entered
<1>. DEFINE r == [node EXCEPT !.cut = @ \/ node.state = "starting"]
<1>1. node \in Node /\ node.asked \subseteq node.alive /\ Paired(node) /\ Sound(node)
  BY DEF NodeInv, Good
<1>2. node.at["other"] = "new" /\ node.state \notin {"stopping", "stopped"}
  BY DEF OtherShutdown
<1>3. (node.cut \/ node.state = "starting") \in BOOLEAN
  BY <1>1 DEF Node
<1>4. /\ r \in Node /\ r.asked = node.asked /\ r.alive = node.alive /\ r.at = node.at
      /\ r.state = node.state /\ r.cut = (node.cut \/ node.state = "starting")
      /\ r.token = node.token /\ r.taken = node.taken /\ r.hasRun = node.hasRun
      /\ r.publishers = node.publishers /\ r.servers = node.servers /\ r.subs = node.subs
      /\ r.late = node.late /\ r.entered = node.entered /\ r.failing = node.failing
      /\ r.onStarts = node.onStarts /\ r.onStops = node.onStops /\ r.starts = node.starts
  BY <1>1, <1>3 DEF Node
<1>5. Becomes(Shutdown(r, "other"))
  BY DEF OtherShutdown
<1>. HIDE DEF r
<1>6. ASSUME ~r.cut
      PROVE  ~r.failing /\ r.at["main"] = "waiting" /\ r.state = "running" /\ r.entered
  <2>1. ~node.cut /\ node.state = "running"
    BY <1>1, <1>2, <1>4, <1>6 DEF Node
  <2>2. Stands(node) /\ Beside(node)
    BY <1>1, <2>1 DEF Sound
  <2>3. node.at["main"] \in Steps
    BY <1>1 DEF Node, Coros
  <2>4. node.at["main"] = "waiting"
    BY <1>2, <2>1, <2>2, <2>3 DEF Stands, Beside, Leaving, Rising, Falling, Steps
  <2>. QED  BY <1>2, <1>4, <2>2, <2>4 DEF Stands, Beside
<1>7. Paired(r)
  BY <1>1, <1>4 DEF Paired
<1>. QED  BY <1>1, <1>2, <1>4, <1>5, <1>6, <1>7

LEMMA OtherKeeps == NodeInv /\ OtherShutdown => NodeInv'
<1>. SUFFICES ASSUME NodeInv, OtherShutdown PROVE NodeInv'
  OBVIOUS
<1>1. PICK r \in Node :
        /\ Becomes(Shutdown(r, "other")) /\ node.state \notin {"stopping", "stopped"}
        /\ r.cut = (node.cut \/ node.state = "starting")
        /\ r.asked \subseteq r.alive /\ r.at = node.at /\ r.state = node.state
        /\ r.token = node.token /\ r.taken = node.taken /\ Paired(r)
        /\ ~r.cut => ~r.failing /\ r.at["main"] = "waiting"
  BY OtherFrom
<1>. DEFINE f == [r EXCEPT !.state = "stopping"]
<1>2. f.cut = r.cut /\ f.token = r.token /\ f.at = r.at /\ f.taken = r.taken
  BY DEF Node
<1>3. Good(Shutdown(r, "other")) /\ Descends(f, "other", Shutdown(r, "other"))
  BY <1>1, ShutdownDown DEF Coros
<1>. HIDE DEF f
<1>. QED  BY <1>1, <1>2, <1>3, DownKeeps DEF Coros

LEMMA InterruptKeeps == ASSUME NodeInv, NEW c \in Coros, Interrupt(c) PROVE NodeInv'
<1>. DEFINE r == [node EXCEPT !.interrupts = @ + 1]
<1>0. node \in Node /\ node.asked \subseteq node.alive
  BY DEF NodeInv, Good
<1>1. node.interrupts + 1 \in 0..MaxInterrupts
  BY <1>0, BoundAssumption DEF Interrupt, Node
<1>2. Twin(r) /\ Stays(r)
  BY <1>0, <1>1 DEF Twin, Stays, Node
<1>. DEFINE at == node.at[c]
            q == Goto([r EXCEPT !.cut = TRUE], c, "raised")
<1>3. \/ at \in {"opening", "onStop", "join", "closing"} /\ Becomes(q)
      \/ c = "main" /\ at \in {"checking", "checked", "onStart"} /\ Becomes(Fail(r))
      \/ c = "main" /\ at = "waiting" /\ Becomes(Shutdown(r, "main"))
      \/ Becomes(r)
  BY <1>0 DEF Interrupt, Node
<1>4. CASE at \in {"opening", "onStop", "join", "closing"} /\ Becomes(q)
  <2>1. q \in Node
    <3>1. [r EXCEPT !.cut = TRUE] \in Node
      BY <1>2 DEF Twin, Node
    <3>. QED  BY <3>1, GotoNode DEF Coros, Steps
  <2>2. q.at["main"] \in {node.at["main"], "raised"} /\ q.cut /\ q.entered = node.entered
        /\ q.asked = node.asked /\ q.alive = node.alive /\ q.starts = node.starts
        /\ q.onStarts = node.onStarts /\ q.onStops = node.onStops /\ q.taken = node.taken
        /\ (c = "main" => q.at["main"] = "raised") /\ (c # "main" => q.at["main"] = node.at["main"])
    BY <1>0 DEF Goto, Node, Coros
  <2>. HIDE DEF q
  <2>3. c = "main" => ~node.entered
    BY <1>4 DEF NodeInv, Good, Paired
  <2>4. Good(q)
    BY <1>0, <2>1, <2>2, <2>3 DEF Good, NodeInv, Paired, Sound, Rising
  <2>. QED  BY <1>4, <2>2, <2>4 DEF Becomes, NodeInv, Looked
<1>. HIDE DEF r
<1>5. CASE c = "main" /\ at \in {"checking", "checked", "onStart"} /\ Becomes(Fail(r))
  BY <1>0, <1>2, <1>5, FailKeeps DEF Twin, Rising
<1>6. CASE c = "main" /\ at = "waiting" /\ Becomes(Shutdown(r, "main"))
  BY <1>2, <1>6, AmainKeeps
<1>7. CASE Becomes(r)
  <2>1. ~node.cut => (node.state = "stopped" => (node.owned => ~node.session))
    BY DEF NodeInv, Good, Sound, Down
  <2>2. Empty(node) => Empty(r)
    BY <1>2 DEF Twin, Empty
  <2>. QED  BY <1>0, <1>2, <1>7, <2>1, <2>2, StayKeeps DEF Twin
<1>. QED  BY <1>3, <1>4, <1>5, <1>6, <1>7

LEMMA NodeStep == NodeInv /\ [Next \/ Terminated]_vars => NodeInv'
<1>. SUFFICES ASSUME NodeInv, [Next \/ Terminated]_vars PROVE NodeInv'
  OBVIOUS
<1>1. CASE Progress
  <2>1. CASE Wake
    <3>1. Twin(node)
      BY DEF Twin, NodeInv, Good
    <3>. QED  BY <2>1, <3>1, AmainKeeps DEF Wake
  <2>2. CASE WayDown("main")
    BY <2>2, WayDownKeeps DEF Coros
  <2>3. CASE SessionOpens \/ SessionOpenFails \/ LookUp \/ Announce \/ OnStartTimesOut
    BY <2>3, OpenKeeps, LookUpKeeps, AnnounceKeeps, OnStartKeeps
  <2>. QED  BY <1>1, <2>1, <2>2, <2>3 DEF Progress
<1>2. CASE WayDown("other")
  <2>1. "other" \in Coros
    BY DEF Coros
  <2>. QED  BY <1>2, <2>1, WayDownKeeps
<1>3. CASE RivalComes \/ RivalGoes
  <2>1. node' = node /\ Good(node)
    BY <1>3 DEF RivalComes, RivalGoes, NodeInv
  <2>2. CASE RivalComes
    BY <2>1, <2>2 DEF RivalComes, NodeInv, Looked
  <2>3. CASE RivalGoes
    BY <2>1, <2>3 DEF RivalGoes, NodeInv, Looked
  <2>. QED  BY <1>3, <2>2, <2>3
<1>4. CASE Terminated \/ UNCHANGED vars
  BY <1>4 DEF Terminated, vars, NodeInv, Looked
<1>5. CASE \E t \in Tasks : SpawnTask(t) \/ TaskEnds(t)
  BY <1>5, TaskKeeps
<1>6. CASE Start \/ OnStartEnds \/ Declare
  BY <1>6, StartKeeps, OnStartKeeps, DeclareKeeps
<1>7. CASE Stop \/ OtherShutdown \/ AdoptSession \/ \E c \in Coros : Interrupt(c)
  BY <1>7, CallerKeeps, OtherKeeps, InterruptKeeps
<1>. QED  BY <1>1, <1>2, <1>3, <1>4, <1>5, <1>6, <1>7 DEF Next

\* The record keeps its types, no counter exceeds the starts, and only a task that is
\* not over has a cancellation pending (node.py:223-848).
THEOREM NodeTypeCorrect == Spec => []TypeOK
<1>1. NodeInv => TypeOK
  BY DEF NodeInv, Good, TypeOK
<1>. QED  BY <1>1, NodeInit, NodeStep, PTL DEF Spec

\* on_stop answers each on_start exactly once, over any number of failed starts,
\* retries, cancellations and shutdowns (node.py:362-377, 595-608).
THEOREM OnStopAnswers == Spec => []OnStopPaired
<1>1. NodeInv => OnStopPaired
  BY DEF NodeInv, Good, Paired, Sound, Down, OnStopPaired
<1>. QED  BY <1>1, NodeInit, NodeStep, PTL DEF Spec

\* A node that is down holds nothing but what was declared behind its teardown,
\* wherever its start failed, and whoever declared what until then, unless the start
\* or the way down was cut short (node.py:372-379, 591-673).
THEOREM DownIsClean == Spec => []EndsClean
<1>1. NodeInv => EndsClean
  <2>. SUFFICES ASSUME NodeInv, ~node.cut PROVE EndsClean
    BY DEF EndsClean
  <2>1. node \in Node /\ Stands(node) /\ Beside(node) /\ Down(node)
    BY DEF NodeInv, Good, Sound
  <2>2. node.at["main"] \in {"raised", "done"} /\ node.at["other"] \in {"new", "raised", "done"}
          => node.state = "stopped"
    BY <2>1 DEF Stands, Beside, Falling
  <2>3. node.state = "stopped" => Held \subseteq node.late /\ (node.owned => ~node.session)
    BY <2>1 DEF Down, Empty, Held, Node
  <2>. QED  BY <2>2, <2>3 DEF EndsClean
<1>. QED  BY <1>1, NodeInit, NodeStep, PTL DEF Spec

\* A node with allow_duplicates = False is not announced beside one that stood
\* all along, unless the reply of the liveliness query that tells of it was late or
\* missing (node.py:347-350, 431-451).
THEOREM DuplicateRefused == Spec => []NoLateDuplicate
<1>1. NodeInv => NoLateDuplicate
  BY DEF NodeInv, Looked, NoLateDuplicate
<1>. QED  BY <1>1, NodeInit, NodeStep, PTL DEF Spec

-----------------------------------------------------------------------------
(* Hardware first.                                                          *)

\* A cancellation of the tasks on the way down, as the record shows it.
Safe(r, q) == ~(q.asked \subseteq r.asked) /\ ~q.cut => ~q.entered /\ \A c \in Coros : q.at[c] # "onStop"

LEMMA WayDownSafe == ASSUME NodeInv, NEW c \in Coros, WayDown(c) PROVE Safe(node, node')
<1>0. /\ node.at[c] \in Falling /\ node \in Node /\ Leaves(node, c)
  BY OnItsWay DEF WayDown, OnStopEnds, JoinEnds, StopSub, SessionCloses, Falling, NodeInv, Good
<1>1. CASE OnStopEnds(c)
  <2>1. node' = Teardown(node, c) /\ Descends(node, c, Teardown(node, c))
    BY <1>0, <1>1, TeardownDown DEF OnStopEnds, Becomes
  <2>2. Teardown(node, c).at[c] # "onStop"
    BY <1>0 DEF Teardown, AfterJoin, Retire, Finish, Goto, Undeclared, Node
  <2>3. \A d \in Coros : d # c => Teardown(node, c).at[d] = node.at[d]
    BY <1>0 DEF Teardown, AfterJoin, Retire, Finish, Goto, Undeclared, Node
  <2>4. ~node.cut => \A d \in Coros : d # c => node.at[d] # "onStop"
    BY <1>0 DEF Leaves, Departs, Coros
  <2>. QED  BY <1>0, <2>1, <2>2, <2>3, <2>4 DEF Safe, Descends
<1>2. CASE JoinEnds(c)
  BY <1>0, <1>2, AfterJoinDown DEF JoinEnds, Becomes, Safe
<1>3. CASE StopSub(c)
  <2>. DEFINE r == [node EXCEPT !.subs = IF @ = 0 THEN 0 ELSE @ - 1]
  <2>1. r \in Node
    <3>1. (IF node.subs = 0 THEN 0 ELSE node.subs - 1) \in Nat
      BY <1>0 DEF Node
    <3>. QED  BY <1>0, <3>1 DEF Node
  <2>2. Leaves(r, c) /\ r.asked = node.asked
    BY <1>0, <2>1 DEF Leaves, Departs, Leaving, Paired, Node
  <2>3. node' = r \/ (r.subs = 0 /\ node' = Retire(r, c))
    BY <1>3 DEF StopSub, Becomes
  <2>. HIDE DEF r
  <2>. QED  BY <2>2, <2>3, RetireDown DEF Safe
<1>4. CASE SessionCloses(c)
  <2>1. node'.asked = node.asked
    BY <1>0, <1>4 DEF SessionCloses, Becomes, Finish, Goto, Node
  <2>. QED  BY <2>1 DEF Safe
<1>. QED  BY <1>1, <1>2, <1>3, <1>4 DEF WayDown

LEMMA FailSafe == ASSUME NEW r, Fails(r), r.asked = node.asked, node' = Fail(r) PROVE Safe(node, node')
<1>1. Good(Fail(r)) /\ Descends(r, "main", Fail(r))
  BY FailDown
<1>2. ~r.cut => Fail(r).at["other"] = "new"
  BY DEF Fails, Fail, Unwind, Teardown, AfterJoin, Retire, Finish, Undeclared, Goto, Node, Coros
<1>. QED  BY <1>1, <1>2, FailDown DEF Safe, Descends, Coros

LEMMA ShutdownSafe ==
    ASSUME NEW r \in Node, NEW c \in Coros, r.asked = node.asked, r.asked \subseteq r.alive, Paired(r),
           r.state \notin {"stopping", "stopped"} /\ ~r.cut => ~r.failing /\ r.entered,
           r.state \notin {"stopping", "stopped"} /\ ~r.cut /\ c = "main" => r.at["other"] = "new",
           r.state \notin {"stopping", "stopped"} /\ ~r.cut /\ c # "main" => r.at["main"] = "waiting",
           node' = Shutdown(r, c)
    PROVE  Safe(node, node')
<1>1. CASE r.state \in {"stopping", "stopped"}
  <2>1. node'.asked = node.asked
    BY <1>1 DEF Shutdown, Goto, Node
  <2>. QED  BY <2>1 DEF Safe
<1>2. CASE r.state \notin {"stopping", "stopped"}
  <2>. DEFINE f == [r EXCEPT !.state = "stopping"]
  <2>0. f.cut = r.cut /\ f.entered = r.entered
    BY DEF Node
  <2>1. Descends(f, c, node') /\ (r.entered => node'.asked = r.asked)
    BY <1>2, ShutdownDown
  <2>. HIDE DEF f
  <2>. QED  BY <1>2, <2>0, <2>1 DEF Safe, Descends
<1>. QED  BY <1>1, <1>2

\* What the failures of a start begin with.
LEMMA StartFails ==
    ASSUME NodeInv, node.at["main"] \in Rising \cup {"onStart"}, NEW r, AsBefore(r)
    PROVE  Fails(r)
BY DEF Fails, AsBefore, NodeInv, Good, Paired, Sound, Stands, Rising, Falling

\* Every way in which start() fails: from the node as it was, with some of its
\* declarations done, or with a cancellation more.
FailsFrom(r) == Fails(r) /\ AsBefore(r) /\ node' = Fail(r) /\ node.at["main"] \in Rising \cup {"onStart"}

\* A step that changes neither the state nor a cancellation; what it does to the
\* declarations is said where it matters.
Idles == /\ node'.asked \subseteq node.asked /\ node'.state = node.state
         /\ node'.hasRun = node.hasRun /\ node'.cut = node.cut
Holds == /\ node'.token = node.token /\ node'.publishers = node.publishers
         /\ node'.servers = node.servers /\ node'.subs = node.subs /\ node'.late = node.late

LEMMA FailingSteps ==
    ASSUME NodeInv
    PROVE  /\ LookUp => Idles \/ \E r : FailsFrom(r)
           /\ Announce => Idles \/ \E r : FailsFrom(r)
           /\ OnStartTimesOut => \E r : FailsFrom(r)
           /\ OnStartEnds => node' = Up(node) \/ \E r : FailsFrom(r)
<1>0. node \in Node /\ node.asked \subseteq node.alive
  BY DEF NodeInv, Good
<1>1. ASSUME NEW r, AsBefore(r), Becomes(Fail(r)), node.at["main"] \in Rising \cup {"onStart"}
      PROVE  FailsFrom(r)
  BY <1>1, StartFails DEF FailsFrom, Becomes
<1>2. AsBefore(node)
  BY <1>0 DEF AsBefore
<1>3. LookUp => Idles \/ \E r : FailsFrom(r)
  <2>. SUFFICES ASSUME LookUp PROVE Idles \/ \E r : FailsFrom(r)
    OBVIOUS
  <2>1. CASE Becomes(Fail(node))
    BY <1>1, <1>2, <2>1 DEF LookUp, Rising
  <2>2. ASSUME NEW told \in Answers, node' = Goto([node EXCEPT !.taken = told], "main", "checked")
        PROVE  Idles
    BY <1>0, <2>2 DEF Goto, Idles, Node
  <2>. QED  BY <2>1, <2>2 DEF LookUp
<1>4. Announce => Idles \/ \E r : FailsFrom(r)
  <2>. SUFFICES ASSUME Announce PROVE Idles \/ \E r : FailsFrom(r)
    OBVIOUS
  <2>. DEFINE n == [node EXCEPT !.taken = FALSE]
              t == [n EXCEPT !.token = TRUE]
  <2>1. ASSUME NEW f \in {n, t, [t EXCEPT !.publishers = TRUE], Publishing(t)}, Becomes(Fail(f))
        PROVE  \E r : FailsFrom(r)
    <3>1. AsBefore(f)
      BY <2>1, AnnouncedFrom
    <3>. HIDE DEF t, n
    <3>. QED  BY <1>1, <2>1, <3>1 DEF Announce, Rising
  <2>2. CASE Becomes(Goto([Publishing(t) EXCEPT !.entered = TRUE, !.onStarts = @ + 1], "main", "onStart"))
    BY <1>0, <2>2 DEF Becomes, Publishing, Goto, Idles, Node
  <2>. QED  BY <2>1, <2>2 DEF Announce
<1>5. OnStartTimesOut => \E r : FailsFrom(r)
  BY <1>1, <1>2 DEF OnStartTimesOut
<1>6. OnStartEnds => node' = Up(node) \/ \E r : FailsFrom(r)
  <2>. SUFFICES ASSUME OnStartEnds PROVE node' = Up(node) \/ \E r : FailsFrom(r)
    OBVIOUS
  <2>1. node.at["main"] = "onStart"
    BY DEF OnStartEnds
  <2>2. ASSUME NEW k \in 0..Bindings, NEW served \in {node.servers, TRUE},
               Becomes(Fail([node EXCEPT !.subs = @ + k, !.servers = served]))
        PROVE  \E r : FailsFrom(r)
    <3>1. AsBefore([node EXCEPT !.subs = @ + k, !.servers = served])
      BY <1>0, WiredFrom
    <3>. QED  BY <1>1, <2>1, <2>2, <3>1
  <2>. QED  BY <1>1, <1>2, <2>1, <2>2 DEF OnStartEnds, Becomes
<1>. QED  BY <1>3, <1>4, <1>5, <1>6

\* _amain goes on to shutdown(), from the node or with one cancellation more.
ShutsDownFrom(r) == node.at["main"] = "waiting" /\ Twin(r) /\ node' = Shutdown(r, "main")

LEMMA InterruptCases ==
    ASSUME NodeInv, NEW c \in Coros, Interrupt(c)
    PROVE  \/ node'.cut /\ node'.asked = node.asked
           \/ \E r : FailsFrom(r)
           \/ \E r : ShutsDownFrom(r)
           \/ Idles /\ Holds
<1>. DEFINE r == [node EXCEPT !.interrupts = @ + 1]
            at == node.at[c]
<1>0. node \in Node /\ node.asked \subseteq node.alive
  BY DEF NodeInv, Good
<1>1. node.interrupts + 1 \in 0..MaxInterrupts
  BY <1>0, BoundAssumption DEF Interrupt, Node
<1>2. Twin(r) /\ AsBefore(r)
  BY <1>0, <1>1 DEF Twin, AsBefore, Node
<1>3. CASE Becomes(Goto([r EXCEPT !.cut = TRUE], c, "raised"))
  BY <1>0, <1>3 DEF Becomes, Goto, Node
<1>4. at = r.at[c]
  BY <1>0 DEF Node
<1>. HIDE DEF r
<1>5. CASE c = "main" /\ at \in {"checking", "checked", "onStart"} /\ Becomes(Fail(r))
  BY <1>2, <1>5, StartFails DEF FailsFrom, Becomes, Rising
<1>6. CASE c = "main" /\ at = "waiting" /\ Becomes(Shutdown(r, "main"))
  BY <1>2, <1>6 DEF ShutsDownFrom, Becomes
<1>7. CASE Becomes(r)
  BY <1>2, <1>7 DEF Becomes, Idles, Holds, Twin
<1>. QED  BY <1>3, <1>4, <1>5, <1>6, <1>7 DEF Interrupt, r

\* The other steps leave the tasks that were cancelled alone, or let one of them end.
LEMMA OwnSteps ==
    ASSUME NodeInv
    PROVE  /\ Declare => /\ Idles /\ Held \subseteq Held'
                         /\ ~Behind(node) => node'.late = node.late
           /\ \A t \in Tasks : SpawnTask(t) \/ TaskEnds(t) => Idles /\ Holds
           /\ SessionOpens \/ Stop \/ AdoptSession => Idles /\ Holds
           /\ SessionOpenFails => node'.cut /\ node'.asked = node.asked
<1>0. node \in Node
  BY DEF NodeInv, Good
<1>1. ASSUME Declare
      PROVE  Idles /\ Held \subseteq Held' /\ (~Behind(node) => node'.late = node.late)
  <2>1. ASSUME NEW q \in Node, NEW kind, Becomes(Declared(q, kind)), q.late = node.late,
               q.state = node.state, q.at = node.at, q.asked = node.asked, q.hasRun = node.hasRun,
               q.cut = node.cut, q.token = node.token, node.publishers => q.publishers,
               node.servers => q.servers, node.subs > 0 => q.subs > 0
        PROVE  Idles /\ Held \subseteq Held' /\ (~Behind(node) => node'.late = node.late)
    <3>1. /\ node'.state = q.state /\ node'.asked = q.asked /\ node'.hasRun = q.hasRun
          /\ node'.cut = q.cut /\ node'.token = q.token /\ node'.publishers = q.publishers
          /\ node'.servers = q.servers /\ node'.subs = q.subs /\ (~Behind(q) => node'.late = q.late)
      BY <2>1 DEF Becomes, Declared, Node
    <3>2. Behind(q) = Behind(node)
      BY <2>1 DEF Behind
    <3>. QED  BY <2>1, <3>1, <3>2 DEF Idles, Held
  <2>2. CASE node.made < MaxSubs /\ Becomes(Declared([node EXCEPT !.subs = @ + 1, !.made = @ + 1], "subscriptions"))
    <3>. DEFINE q == [node EXCEPT !.subs = @ + 1, !.made = @ + 1]
    <3>1. node.subs + 1 \in Nat /\ node.made + 1 \in 0..MaxSubs
      BY <1>0, <2>2, BoundAssumption DEF Node
    <3>2. q \in Node
      BY <1>0, <3>1 DEF Node
    <3>3. /\ q.late = node.late /\ q.state = node.state /\ q.at = node.at /\ q.asked = node.asked
          /\ q.hasRun = node.hasRun /\ q.cut = node.cut /\ q.token = node.token
          /\ q.publishers = node.publishers /\ q.servers = node.servers /\ q.subs > 0
      BY <1>0 DEF Node
    <3>. HIDE DEF q
    <3>4. Becomes(Declared(q, "subscriptions"))
      BY <2>2 DEF q
    <3>. QED  BY <2>1, <3>2, <3>3, <3>4
  <2>3. CASE Becomes(Declared([node EXCEPT !.publishers = TRUE], "publishers"))
    <3>. DEFINE q == [node EXCEPT !.publishers = TRUE]
    <3>1. /\ q \in Node /\ q.late = node.late /\ q.state = node.state /\ q.at = node.at
          /\ q.asked = node.asked /\ q.hasRun = node.hasRun /\ q.cut = node.cut
          /\ q.token = node.token /\ q.publishers /\ q.servers = node.servers /\ q.subs = node.subs
      BY <1>0 DEF Node
    <3>. HIDE DEF q
    <3>2. Becomes(Declared(q, "publishers"))
      BY <2>3 DEF q
    <3>. QED  BY <2>1, <3>1, <3>2
  <2>4. CASE Becomes(Declared([node EXCEPT !.servers = TRUE], "servers"))
    <3>. DEFINE q == [node EXCEPT !.servers = TRUE]
    <3>1. /\ q \in Node /\ q.late = node.late /\ q.state = node.state /\ q.at = node.at
          /\ q.asked = node.asked /\ q.hasRun = node.hasRun /\ q.cut = node.cut
          /\ q.token = node.token /\ q.publishers = node.publishers /\ q.servers /\ q.subs = node.subs
      BY <1>0 DEF Node
    <3>. HIDE DEF q
    <3>2. Becomes(Declared(q, "servers"))
      BY <2>4 DEF q
    <3>. QED  BY <2>1, <3>1, <3>2
  <2>. QED  BY <1>1, <2>2, <2>3, <2>4 DEF Declare
<1>2. ASSUME NEW t \in Tasks, SpawnTask(t) \/ TaskEnds(t) PROVE Idles /\ Holds
  <2>1. CASE SpawnTask(t)
    BY <1>0, <2>1 DEF SpawnTask, Becomes, Idles, Holds, Node
  <2>2. CASE TaskEnds(t)
    <3>1. node'.asked = node.asked \ {t}
      BY <1>0, <2>2 DEF TaskEnds, Becomes, Node
    <3>2. node'.state = node.state /\ node'.hasRun = node.hasRun /\ node'.cut = node.cut /\ Holds
      BY <1>0, <2>2 DEF TaskEnds, Becomes, Holds, Node
    <3>. QED  BY <3>1, <3>2 DEF Idles
  <2>. QED  BY <1>2, <2>1, <2>2
<1>3. SessionOpens \/ Stop \/ AdoptSession => Idles /\ Holds
  BY <1>0 DEF SessionOpens, Stop, AdoptSession, Becomes, Goto, Idles, Holds, Node
<1>4. SessionOpenFails => node'.cut /\ node'.asked = node.asked
  BY <1>0 DEF SessionOpenFails, Becomes, Goto, Node
<1>. QED  BY <1>1, <1>2, <1>3, <1>4

LEMMA ShutsDownSafe == ASSUME NodeInv, NEW r, ShutsDownFrom(r) PROVE Safe(node, node')
<1>1. /\ r \in Node /\ r.asked \subseteq r.alive /\ Paired(r) /\ r.asked = node.asked
      /\ r.state \notin {"stopping", "stopped"} /\ ~r.cut =>
           ~r.failing /\ r.entered /\ r.at["other"] = "new"
  BY DEF ShutsDownFrom, Twin, NodeInv, Good, Paired, Sound, Stands, Beside
<1>. QED  BY <1>1, ShutdownSafe DEF ShutsDownFrom, Coros

LEMMA WakeCase == NodeInv /\ Wake => ShutsDownFrom(node)
BY DEF Wake, Becomes, ShutsDownFrom, Twin, NodeInv, Good

LEMMA OtherSafe == NodeInv /\ OtherShutdown => Safe(node, node')
<1>. SUFFICES ASSUME NodeInv, OtherShutdown PROVE Safe(node, node')
  OBVIOUS
<1>1. PICK r \in Node :
        /\ Becomes(Shutdown(r, "other")) /\ r.asked = node.asked /\ r.asked \subseteq r.alive
        /\ Paired(r)
        /\ ~r.cut => ~r.failing /\ r.at["main"] = "waiting" /\ r.entered
  BY OtherFrom
<1>. QED  BY <1>1, ShutdownSafe DEF Becomes, Coros

LEMMA SafeStep == NodeInv /\ [Next \/ Terminated]_vars => Safe(node, node')
<1>. SUFFICES ASSUME NodeInv, [Next \/ Terminated]_vars PROVE Safe(node, node')
  OBVIOUS
<1>0. node \in Node
  BY DEF NodeInv, Good
<1>1. ASSUME NEW r, FailsFrom(r) PROVE Safe(node, node')
  BY <1>1, FailSafe DEF FailsFrom, AsBefore
<1>2. node'.asked \subseteq node.asked => Safe(node, node')
  BY DEF Safe
<1>3. CASE LookUp \/ Announce \/ OnStartTimesOut \/ OnStartEnds
  <2>1. node' = Up(node) => node'.asked = node.asked
    BY <1>0 DEF Up, Goto, Node
  <2>. QED  BY <1>1, <1>2, <1>3, <2>1, FailingSteps DEF Idles
<1>4. CASE Wake
  BY <1>4, WakeCase, ShutsDownSafe
<1>5. CASE WayDown("main") \/ WayDown("other")
  BY <1>5, WayDownSafe DEF Coros
<1>6. ASSUME NEW c \in Coros, Interrupt(c) PROVE Safe(node, node')
  BY <1>1, <1>2, <1>6, InterruptCases, ShutsDownSafe DEF Idles
<1>7. CASE OtherShutdown
  BY <1>7, OtherSafe
<1>8. CASE Start \/ RivalComes \/ RivalGoes \/ Terminated \/ UNCHANGED vars
  BY <1>0, <1>2, <1>8 DEF Start, Goto, RivalComes, RivalGoes, Terminated, vars, Node
<1>9. CASE \/ Declare \/ (\E t \in Tasks : SpawnTask(t) \/ TaskEnds(t))
           \/ SessionOpens \/ Stop \/ AdoptSession \/ SessionOpenFails
  BY <1>2, <1>9, OwnSteps DEF Idles
<1>. QED  BY <1>3, <1>4, <1>5, <1>6, <1>7, <1>8, <1>9 DEF Next, Progress

\* Hardware first: no background task is cancelled before on_stop is over, unless
\* the way down is cut short (node.py:595-673).
THEOREM HardwareFirst == Spec => SafedBeforeJoin
<1>1. NodeInv /\ [Next \/ Terminated]_vars
        => [~(node'.asked \subseteq node.asked) /\ ~node'.cut
              => ~node'.entered /\ \A c \in Coros : node'.at[c] # "onStop"]_vars
  BY SafeStep DEF Safe
<1>. QED  BY <1>1, NodeInit, NodeStep, PTL DEF Spec, SafedBeforeJoin

-----------------------------------------------------------------------------
(* The node keeps the contract of Lifecycle.                                *)

\* Everything a failed start or the way down does to the state: it stays, or the
\* node is down.
Sinks == /\ node'.state \in {node.state, "stopped"} /\ node'.hasRun = node.hasRun
         /\ node'.cut = node.cut

LEMMA WayDownSinks == ASSUME NodeInv, NEW c \in Coros, WayDown(c) PROVE Sinks
<1>0. node \in Node /\ Leaves(node, c)
  BY OnItsWay DEF WayDown, OnStopEnds, JoinEnds, StopSub, SessionCloses, Falling, NodeInv, Good
<1>1. CASE OnStopEnds(c)
  BY <1>0, <1>1, TeardownDown DEF OnStopEnds, Becomes, Descends, Sinks
<1>2. CASE JoinEnds(c)
  BY <1>0, <1>2, AfterJoinDown DEF JoinEnds, Becomes, Descends, Sinks
<1>3. CASE StopSub(c)
  <2>. DEFINE r == [node EXCEPT !.subs = IF @ = 0 THEN 0 ELSE @ - 1]
  <2>1. r \in Node
    <3>1. (IF node.subs = 0 THEN 0 ELSE node.subs - 1) \in Nat
      BY <1>0 DEF Node
    <3>. QED  BY <1>0, <3>1 DEF Node
  <2>2. Leaves(r, c) /\ r.state = node.state /\ r.hasRun = node.hasRun /\ r.cut = node.cut
    BY <1>0, <2>1 DEF Leaves, Departs, Leaving, Paired, Node
  <2>3. node' = r \/ (r.subs = 0 /\ node' = Retire(r, c))
    BY <1>3 DEF StopSub, Becomes
  <2>. HIDE DEF r
  <2>. QED  BY <2>2, <2>3, RetireDown DEF Descends, Sinks
<1>4. CASE SessionCloses(c)
  BY <1>0, <1>4 DEF SessionCloses, Becomes, Finish, Goto, Sinks, Node
<1>. QED  BY <1>1, <1>2, <1>3, <1>4 DEF WayDown

LEMMA FailSinks ==
    ASSUME NodeInv, NEW r, FailsFrom(r)
    PROVE  Sinks /\ (~node.cut => node.state = "starting")
<1>1. Fails(r) /\ AsBefore(r) /\ node' = Fail(r)
  BY DEF FailsFrom
<1>2. Descends(r, "main", Fail(r))
  BY <1>1, FailDown
<1>3. ~r.cut => r.state = "starting"
  BY <1>1 DEF Fails
<1>. QED  BY <1>1, <1>2, <1>3 DEF AsBefore, Descends, Sinks

\* A shutdown() that finds the node running begins its way down.
Departing == /\ node'.cut = node.cut /\ node'.hasRun = node.hasRun
             /\ ~node.cut => node.state = "running" /\ node'.state = "stopping" /\ Holds

LEMMA ShutdownGoes ==
    ASSUME NodeInv, NEW c \in Coros, NEW r \in Node, r.asked \subseteq r.alive, Paired(r),
           r.state \notin {"stopping", "stopped"}, r.cut = node.cut, r.hasRun = node.hasRun,
           ~r.cut => /\ ~r.failing /\ r.entered /\ node.state = "running"
                     /\ c = "main" => r.at["other"] = "new"
                     /\ c # "main" => r.at["main"] = "waiting",
           r.token = node.token, r.publishers = node.publishers, r.servers = node.servers,
           r.subs = node.subs, r.late = node.late, node' = Shutdown(r, c)
    PROVE  Departing
<1>. DEFINE f == [r EXCEPT !.state = "stopping"]
<1>1. /\ Descends(f, c, node')
      /\ r.entered => /\ node'.state = "stopping" /\ node'.subs = r.subs
                      /\ node'.token = r.token /\ node'.servers = r.servers
                      /\ node'.publishers = r.publishers /\ node'.late = r.late
  BY ShutdownDown
<1>2. f.cut = r.cut /\ f.hasRun = r.hasRun
  BY DEF Node
<1>. HIDE DEF f
<1>. QED  BY <1>1, <1>2 DEF Descends, Departing, Holds

LEMMA ShutsDownGoes ==
    ASSUME NodeInv, NEW r, ShutsDownFrom(r)
    PROVE  (Idles /\ Holds) \/ Departing
<1>0. /\ r \in Node /\ r.asked \subseteq r.alive /\ Paired(r) /\ node' = Shutdown(r, "main")
      /\ r.state \notin {"stopping", "stopped"} /\ ~r.cut =>
           ~r.failing /\ r.at["other"] = "new" /\ node.state = "running" /\ r.entered
  BY DEF ShutsDownFrom, Twin, NodeInv, Good, Paired, Sound, Stands, Beside
<1>1. CASE r.state \in {"stopping", "stopped"}
  <2>1. node' = Goto(r, "main", "done")
    BY <1>0, <1>1 DEF Shutdown
  <2>. QED  BY <1>0, <2>1 DEF Goto, ShutsDownFrom, Twin, Idles, Holds, Node
<1>2. CASE r.state \notin {"stopping", "stopped"}
  BY <1>0, <1>2, ShutdownGoes DEF ShutsDownFrom, Twin, Coros
<1>. QED  BY <1>1, <1>2

\* What a step may be to the outside, by what it does to the record.
Own == Held \ node.late

LEMMA OwnKinds == Own' \in SUBSET Contract!Kinds
BY DEF Own, Held, Contract!Kinds

\* A node that is down has nothing of its own.
LEMMA DownOwnsNothing == NodeInv /\ ~node.cut /\ node.state = "stopped" => Own = {}
BY DEF NodeInv, Good, Sound, Down, Empty, Own, Held, Node

LEMMA IdlesMaps ==
    ASSUME NodeInv, NodeInv', Idles, ~node.cut /\ node.state = "running" => Own \subseteq Own'
    PROVE  [Contract!Next]_Contract!vars
<1>1. CASE ~node.cut
  <2>1. node'.cut = node.cut /\ node'.state = node.state /\ node'.hasRun = node.hasRun
    BY DEF Idles
  <2>2. node.state # "cut"
    BY DEF NodeInv, Good, Node
  <2>3. CASE node.state = "stopped"
    <3>1. Own = {}
      BY <1>1, <2>3, DownOwnsNothing
    <3>2. Own' = {}
      BY <1>1, <2>1, <2>3 DEF NodeInv, Good, Sound, Down, Empty, Own, Held, Node
    <3>. QED  BY <1>1, <2>1, <3>1, <3>2 DEF Contract!vars, Own
  <2>4. CASE node.state # "stopped"
    BY <1>1, <2>1, <2>2, <2>4, OwnKinds DEF Contract!Next, Contract!Hold, Own
  <2>. QED  BY <2>3, <2>4
<1>2. CASE node.cut
  BY <1>2 DEF Idles, Contract!vars
<1>. QED  BY <1>1, <1>2

LEMMA SinksMaps ==
    ASSUME NodeInv, NodeInv', Sinks, ~node.cut => node.state \in {"starting", "stopping"}
    PROVE  [Contract!Next]_Contract!vars
<1>1. CASE node.cut
  BY <1>1 DEF Sinks, Contract!vars
<1>2. CASE ~node.cut /\ node'.state = node.state
  BY <1>2, OwnKinds DEF Sinks, Contract!Next, Contract!Hold, Own
<1>3. CASE ~node.cut /\ node'.state = "stopped"
  <2>1. Own' = {}
    BY <1>3 DEF Sinks, NodeInv, Good, Sound, Down, Empty, Own, Held, Node
  <2>. QED  BY <1>3, <2>1 DEF Sinks, Contract!Next, Contract!BeDown, Own
<1>. QED  BY <1>1, <1>2, <1>3 DEF Sinks

LEMMA CutMaps == NodeInv /\ node'.cut => [Contract!Next]_Contract!vars
<1>. SUFFICES ASSUME NodeInv, node'.cut PROVE [Contract!Next]_Contract!vars
  OBVIOUS
<1>1. node.state # "cut" /\ node.cut \in BOOLEAN
  BY DEF NodeInv, Good, Node
<1>2. CASE ~node.cut
  BY <1>1, <1>2 DEF Contract!Next, Contract!Cut
<1>3. CASE node.cut
  BY <1>3 DEF Contract!vars
<1>. QED  BY <1>2, <1>3

LEMMA HoldsMaps == NodeInv /\ Idles /\ Holds => [Contract!Next]_Contract!vars
BY DEF Idles, Holds, Held, Contract!vars

LEMMA DepartingMaps == NodeInv /\ Departing => [Contract!Next]_Contract!vars
<1>. SUFFICES ASSUME NodeInv, Departing PROVE [Contract!Next]_Contract!vars
  OBVIOUS
<1>1. CASE node.cut
  BY <1>1, CutMaps DEF Departing
<1>2. CASE ~node.cut
  <2>1. Held' = Held /\ node'.late = node.late
    BY <1>2 DEF Departing, Holds, Held
  <2>. QED  BY <1>2, <2>1 DEF Departing, Contract!Next, Contract!GoDown
<1>. QED  BY <1>1, <1>2

LEMMA OtherMaps == NodeInv /\ OtherShutdown => [Contract!Next]_Contract!vars
<1>. SUFFICES ASSUME NodeInv, OtherShutdown PROVE [Contract!Next]_Contract!vars
  OBVIOUS
<1>1. PICK r \in Node :
        /\ Becomes(Shutdown(r, "other")) /\ node.state \notin {"stopping", "stopped"}
        /\ r.cut = (node.cut \/ node.state = "starting")
        /\ r.asked \subseteq r.alive /\ r.state = node.state
        /\ r.token = node.token /\ r.hasRun = node.hasRun
        /\ r.publishers = node.publishers /\ r.servers = node.servers /\ r.subs = node.subs
        /\ r.late = node.late /\ Paired(r)
        /\ ~r.cut => ~r.failing /\ r.at["main"] = "waiting" /\ r.state = "running" /\ r.entered
  BY OtherFrom
<1>2. CASE r.cut
  <2>. DEFINE f == [r EXCEPT !.state = "stopping"]
  <2>1. Descends(f, "other", Shutdown(r, "other"))
    BY <1>1, <1>2, ShutdownDown DEF Coros
  <2>2. f.cut
    BY <1>2 DEF Node
  <2>. HIDE DEF f
  <2>. QED  BY <1>1, <2>1, <2>2, CutMaps DEF Descends, Becomes
<1>3. CASE ~r.cut
  <2>1. node.cut \in BOOLEAN /\ r.cut \in BOOLEAN
    BY DEF NodeInv, Good, Node
  <2>2. Departing
    BY <1>1, <1>3, <2>1, ShutdownGoes DEF Becomes, Coros
  <2>. QED  BY <2>2, DepartingMaps
<1>. QED  BY <1>2, <1>3

LEMMA ShutsDownMaps == ASSUME NodeInv, NEW r, ShutsDownFrom(r) PROVE [Contract!Next]_Contract!vars
BY ShutsDownGoes, HoldsMaps, DepartingMaps

LEMMA StartMaps == NodeInv /\ Start => [Contract!Next]_Contract!vars
<1>. SUFFICES ASSUME NodeInv, Start PROVE [Contract!Next]_Contract!vars
  OBVIOUS
<1>1. /\ node.state = "stopped" /\ ~node.hasRun /\ node'.state = "starting" /\ node'.hasRun = node.hasRun
      /\ node'.cut = node.cut
  BY DEF Start, Goto, NodeInv, Good, Node
<1>2. CASE node.cut
  BY <1>1, <1>2, CutMaps
<1>3. CASE ~node.cut
  BY <1>1, <1>3, OwnKinds DEF Contract!Next, Contract!Start, Own
<1>. QED  BY <1>2, <1>3

LEMMA UpMaps ==
    ASSUME NodeInv, node.at["main"] = "onStart", node' = Up(node)
    PROVE  [Contract!Next]_Contract!vars
<1>1. /\ node'.state = "running" /\ node'.hasRun /\ node'.cut = node.cut /\ node'.servers
      /\ node'.token = node.token /\ node'.publishers = node.publishers /\ node'.late = node.late
  BY DEF Up, Goto, NodeInv, Good, Node
<1>2. CASE node.cut
  BY <1>1, <1>2, CutMaps
<1>3. CASE ~node.cut
  <2>1. node.state = "starting" /\ node.token /\ node.publishers /\ node.late = {}
    BY <1>3 DEF NodeInv, Good, Sound, Stands
  <2>2. {"token", "publishers", "servers"} \subseteq Own'
    BY <1>1, <2>1 DEF Own, Held
  <2>. QED  BY <1>1, <1>3, <2>1, <2>2, OwnKinds DEF Contract!Next, Contract!ComeUp, Own
<1>. QED  BY <1>2, <1>3

LEMMA DeclareMaps == NodeInv /\ Declare => [Contract!Next]_Contract!vars
<1>. SUFFICES ASSUME NodeInv, Declare PROVE [Contract!Next]_Contract!vars
  OBVIOUS
<1>1. ~node.cut /\ node.state = "running" => ~Behind(node)
  BY DEF Behind, NodeInv, Good, Sound, Stands, Beside, Leaving, Falling, Coros
<1>2. Idles /\ Held \subseteq Held' /\ (~Behind(node) => node'.late = node.late)
  BY OwnSteps
<1>3. NodeInv'
  BY DeclareKeeps
<1>. QED  BY <1>1, <1>2, <1>3, IdlesMaps DEF Own

LEMMA StepMaps == NodeInv /\ [Next \/ Terminated]_vars => [Contract!Next]_Contract!vars
<1>. SUFFICES ASSUME NodeInv, [Next \/ Terminated]_vars PROVE [Contract!Next]_Contract!vars
  OBVIOUS
<1>0. node \in Node /\ NodeInv'
  BY NodeStep DEF NodeInv, Good
<1>1. ASSUME NEW r, FailsFrom(r) PROVE [Contract!Next]_Contract!vars
  BY <1>0, <1>1, FailSinks, SinksMaps
<1>2. CASE LookUp \/ Announce \/ OnStartTimesOut \/ OnStartEnds
  <2>1. CASE \E r : FailsFrom(r)
    BY <1>1, <2>1
  <2>2. CASE OnStartEnds /\ node' = Up(node)
    BY <2>2, UpMaps DEF OnStartEnds
  <2>3. CASE (LookUp \/ Announce) /\ Idles
    <3>1. ~node.cut => node.state = "starting"
      BY <2>3 DEF LookUp, Announce, NodeInv, Good, Sound, Stands, Rising
    <3>2. CASE node.cut
      BY <2>3, <3>2, CutMaps DEF Idles
    <3>3. CASE ~node.cut
      BY <1>0, <2>3, <3>1, <3>3, IdlesMaps
    <3>. QED  BY <3>2, <3>3
  <2>. QED  BY <1>2, <2>1, <2>2, <2>3, FailingSteps
<1>3. CASE Wake
  BY <1>3, WakeCase, ShutsDownMaps
<1>4. ASSUME NEW c \in Coros, WayDown(c) PROVE [Contract!Next]_Contract!vars
  <2>1. ~node.cut => node.state \in {"starting", "stopping"}
    BY <1>4 DEF WayDown, OnStopEnds, JoinEnds, StopSub, SessionCloses, NodeInv, Good, Sound, Stands, Beside, Leaving, Falling, Coros
  <2>. QED  BY <1>0, <1>4, <2>1, WayDownSinks, SinksMaps
<1>5. ASSUME NEW c \in Coros, Interrupt(c) PROVE [Contract!Next]_Contract!vars
  <2>1. CASE \E r : FailsFrom(r)
    BY <1>1, <2>1
  <2>2. CASE \E r : ShutsDownFrom(r)
    BY <2>2, ShutsDownMaps
  <2>3. CASE node'.cut \/ (Idles /\ Holds)
    BY <2>3, CutMaps, HoldsMaps
  <2>. QED  BY <1>5, <2>1, <2>2, <2>3, InterruptCases
<1>6. CASE OtherShutdown \/ SessionOpenFails
  BY <1>6, OtherMaps, OwnSteps, CutMaps
<1>7. CASE (\E t \in Tasks : SpawnTask(t) \/ TaskEnds(t)) \/ SessionOpens \/ Stop \/ AdoptSession
  BY <1>7, OwnSteps, HoldsMaps
<1>8. CASE Start \/ Declare
  BY <1>8, StartMaps, DeclareMaps
<1>9. CASE RivalComes \/ RivalGoes \/ Terminated \/ UNCHANGED vars
  <2>1. Idles /\ Holds
    BY <1>9 DEF RivalComes, RivalGoes, Terminated, vars, Idles, Holds
  <2>. QED  BY <2>1, HoldsMaps
<1>. QED  BY <1>2, <1>3, <1>4, <1>5, <1>6, <1>7, <1>8, <1>9 DEF Next, Progress, Coros

LEMMA InitMaps == Init => Contract!Init
<1>. SUFFICES ASSUME Init PROVE Contract!Init
  OBVIOUS
<1>1. /\ node.state = "stopped" /\ node.cut = FALSE /\ node.hasRun = FALSE /\ node.token = FALSE
      /\ node.publishers = FALSE /\ node.servers = FALSE /\ node.subs = 0
      /\ node.late = {}
  BY DEF Init, New
<1>. QED  BY <1>1 DEF Contract!Init, Held

\* Whatever fails and whatever is declared meanwhile by whom, a node goes up once, keeps
\* what it came up with while it runs, and has given everything back when it is down but
\* what was declared behind its teardown, unless its start or its way down is cut short
\* (node.py:223-848).
THEOREM NodeKeepsContract == Spec => ImplementsLifecycle
BY InitMaps, NodeInit, NodeStep, StepMaps, PTL DEF Spec, ImplementsLifecycle, Contract!Spec


===============================================================================

----------------------------- MODULE TracingProofs -----------------------------
(***************************************************************************)
(* Theorems about Tracing, for every pipeline, every choice of the nodes    *)
(* that record spans and of those that root traces, and every bound.        *)
(***************************************************************************)
EXTENDS Tracing, TLAPS

USE PipelineAssumption, BoundAssumption, NoneAssumption

(***************************************************************************)
(* Type correctness.                                                        *)
(***************************************************************************)

\* A fresh trace is one of the model within the bound, and no context at all is none.
LEMMA FreshType ==
    ASSUME TypeOK
    PROVE  /\ \A t \in Fresh : t.id = minted + 1 /\ t \in [id : Nat, sampled : BOOLEAN]
           /\ \A t \in Fresh : t.id <= MaxTraces => t \in Trace
           /\ None \notin Fresh \cup Trace
<1>1. minted \in Nat /\ MaxTraces \in Nat
  BY DEF TypeOK
<1>2. \A t \in Fresh : t.id = minted + 1 /\ t \in [id : Nat, sampled : BOOLEAN]
  BY <1>1 DEF Fresh
<1>3. \A t \in Fresh : t.id <= MaxTraces => t \in Trace
  BY <1>1 DEF Fresh, Trace
<1>4. Trace \subseteq [id : Nat, sampled : BOOLEAN]
  BY <1>1 DEF Trace
<1>. QED  BY <1>2, <1>3, <1>4

\* The span a publish runs in, and what it sends, come from the body or are fresh.
LEMMA PutSends ==
    ASSUME NEW b, NEW decided \in Decision(b), NEW span \in ProducerSpans(b, decided), decided # None
    PROVE  Outgoing(b.node, span, decided) \in ({b.tp, b.span} \ {None}) \cup Fresh
<1>1. decided \in {b.tp} \cup Fresh
  BY DEF Decision
<1>2. span \in {b.span, decided} \cup Fresh
  BY DEF ProducerSpans
<1>. QED  BY <1>1, <1>2 DEF Outgoing, Active

LEMMA CallSends ==
    ASSUME NEW b
    PROVE  Outgoing(b.node, b.span, b.tp) \in {b.tp, b.span}
BY DEF Outgoing, Active

LEMMA TypeSends ==
    ASSUME TypeOK, NEW b \in bodies, NEW kind \in {"sample", "query"}, NEW tp \in Trace \cup {None},
           Sends(b, kind, tp)
    PROVE  TypeOK'
<1>1. b \in Body /\ b.node \in Nodes
  BY DEF TypeOK, Body
<1>2. [to |-> b.node + 1, kind |-> kind, tp |-> tp, cause |-> b.cause] \in Message
  BY <1>1 DEF Sends, Message, Body, Nodes
<1>3. minted' \in 0..MaxTraces
  BY DEF Sends, TypeOK, Trace
<1>. QED  BY <1>2, <1>3 DEF Sends, TypeOK

LEMMA TypePut == ASSUME TypeOK, NEW b \in bodies, Put(b) PROVE TypeOK'
<1>. DEFINE Stamp(decided, span) == IF decided = None THEN None ELSE Outgoing(b.node, span, decided)
<1>1. PICK decided \in Decision(b) : \E span \in ProducerSpans(b, decided) :
        /\ Stamp(decided, span) # None => Stamp(decided, span).id <= MaxTraces
        /\ Sends(b, "sample", Stamp(decided, span))
  BY DEF Put
<1>2. PICK span \in ProducerSpans(b, decided) :
        /\ Stamp(decided, span) # None => Stamp(decided, span).id <= MaxTraces
        /\ Sends(b, "sample", Stamp(decided, span))
  BY <1>1
<1>. DEFINE tp == Stamp(decided, span)
<1>3. b.tp \in Trace \cup {None} /\ b.span \in Trace \cup {None}
  BY DEF TypeOK, Body
<1>4. CASE decided = None
  BY <1>2, <1>4, TypeSends
<1>5. CASE decided # None
  <2>1. tp \in Trace \cup Fresh
    BY <1>3, <1>5, PutSends
  <2>2. tp # None
    BY <2>1, FreshType
  <2>3. tp \in Trace
    BY <1>2, <2>1, <2>2, FreshType
  <2>. QED  BY <1>2, <2>3, TypeSends
<1>. QED  BY <1>4, <1>5

LEMMA TypeStep == TypeOK /\ [Next]_vars => TypeOK'
<1>. SUFFICES ASSUME TypeOK, [Next]_vars PROVE TypeOK'
  OBVIOUS
<1>1. CASE UNCHANGED vars
  BY <1>1 DEF vars, TypeOK
<1>2. ASSUME NEW b \in bodies, Put(b) PROVE TypeOK'
  BY <1>2, TypePut
<1>3. ASSUME NEW b \in bodies, Call(b) PROVE TypeOK'
  <2>1. Outgoing(b.node, b.span, b.tp) \in Trace \cup {None}
    BY <1>3, CallSends DEF TypeOK, Body
  <2>. QED  BY <1>3, <2>1, TypeSends DEF Call
<1>4. ASSUME NEW b \in bodies, Returns(b) PROVE TypeOK'
  <2>1. b \in Body /\ b.node \in Nodes /\ (b.tp # None => b.tp.id \in 1..MaxTraces)
    BY DEF TypeOK, Body, Trace
  <2>2. offered' \subseteq Nodes \X (1..MaxTraces)
    BY <1>4, <2>1 DEF Returns, Record, TypeOK
  <2>3. recorded' \subseteq offered'
    BY <1>4 DEF Returns, Record, Recordable, TypeOK
  <2>. QED  BY <1>4, <2>2, <2>3 DEF Returns, TypeOK
<1>5. ASSUME NEW b \in bodies, Spawn(b) \/ Every(b) PROVE TypeOK'
  <2>1. /\ [b EXCEPT !.kind = "task", !.cause = b.cause] \in Body
        /\ [b EXCEPT !.kind = "timer", !.cause = None] \in Body
    BY DEF TypeOK, Body
  <2>2. spawned + 1 \in 0..MaxSpawned /\ UNCHANGED <<minted, wire, base, sent, offered, recorded>>
    BY <1>5 DEF Spawn, Every, Begins, TypeOK
  <2>. QED  BY <1>5, <2>1, <2>2 DEF Spawn, Every, Begins, Copied, TypeOK
<1>6. ASSUME NEW b \in bodies, Subscribe(b) PROVE TypeOK'
  <2>1. b.span \in Trace \cup {None}
    BY DEF TypeOK, Body
  <2>. QED  BY <1>6, <2>1 DEF Subscribe, TypeOK
<1>7. ASSUME NEW b \in bodies, Using(b) PROVE TypeOK'
  <2>. DEFINE made == [id |-> minted + 1, sampled |-> TRUE]
  <2>1. made \in Trace
    BY <1>7 DEF Using, Trace, TypeOK
  <2>2. [b EXCEPT !.kind = "task", !.tp = made, !.cause = IF b.span = None THEN made ELSE None] \in Body
    BY <2>1 DEF TypeOK, Body
  <2>. QED  BY <1>7, <2>2 DEF Using, Begins, TypeOK
<1>8. ASSUME NEW m \in wire, Dispatch(m) \/ Serve(m) PROVE TypeOK'
  <2>1. m \in Message /\ m.to \in Nodes /\ base[m.to] \in Trace \cup {None}
    BY DEF TypeOK, Message
  <2>2. \A kind \in {"handler", "server"}, outer \in Trace \cup {None} : Runs(m, kind, outer) \in Body
    BY <2>1 DEF Runs, SpanFor, Cause, Message, Body
  <2>. QED  BY <1>8, <2>1, <2>2 DEF Dispatch, Serve, TypeOK
<1>. QED  BY <1>1, <1>2, <1>3, <1>4, <1>5, <1>6, <1>7, <1>8 DEF Next

LEMMA TypeInit == Init => TypeOK
BY DEF Init, TypeOK, Timer, Body, Nodes

\* Every state of the pipeline is well typed, and a recorded hop is one that its ring
\* was given (trace.py:172-202, otel.py:77-177).
THEOREM TracingTypeCorrect == Spec => []TypeOK
BY TypeInit, TypeStep, PTL DEF Spec

(***************************************************************************)
(* One decision for each trace.  Handlers of a trace can be long over and    *)
(* messages of it still under way, so the invariant is about the contexts    *)
(* that are still somewhere as well as about the hops that were offered.     *)
(***************************************************************************)

Contexts ==
    ({b.tp : b \in bodies} \cup {b.span : b \in bodies} \cup {m.tp : m \in wire}
        \cup {base[n] : n \in Nodes}) \ {None}

OneDecision ==
    /\ \A t \in Contexts : t.id <= minted
    /\ \A t, u \in Contexts : t.id = u.id => t.sampled = u.sampled
    /\ \A h \in offered : h[2] <= minted
    /\ \A h \in offered, t \in Contexts : t.id = h[2] => (t.sampled <=> h \in recorded)
    /\ RecordedWhole

LEMMA ContextsType == TypeOK => Contexts \subseteq Trace
BY DEF TypeOK, Contexts, Body, Message

\* A step that makes no trace, and ends no handler, keeps the decision.
LEMMA DecisionKept ==
    ASSUME TypeOK, OneDecision, Contexts' \subseteq Contexts,
           UNCHANGED <<minted, offered, recorded>>
    PROVE  OneDecision'
BY DEF OneDecision, RecordedWhole

\* So does one that makes a fresh one.
LEMMA DecisionMade ==
    ASSUME TypeOK, OneDecision, NEW made \in [id : Nat, sampled : BOOLEAN],
           Contexts' \subseteq Contexts \cup {made}, made.id = minted + 1, minted' = made.id,
           UNCHANGED <<offered, recorded>>
    PROVE  OneDecision'
<1>1. minted \in Nat /\ Contexts \subseteq Trace /\ offered \subseteq Nodes \X (1..MaxTraces)
  BY ContextsType DEF TypeOK
<1>2. \A t \in Contexts : t.id \in Nat
  BY <1>1 DEF Trace
<1>3. \A h \in offered : h[2] \in Nat
  BY <1>1
<1>. QED  BY <1>1, <1>2, <1>3 DEF OneDecision, RecordedWhole

\* The contexts of a body are contexts.
LEMMA BodyContexts ==
    ASSUME NEW b \in bodies
    PROVE  {b.tp, b.span} \ {None} \subseteq Contexts
BY DEF Contexts

LEMMA DecisionSends ==
    ASSUME TypeOK, OneDecision, NEW b \in bodies, NEW kind, NEW tp \in Contexts \cup {None} \cup Fresh,
           Sends(b, kind, tp)
    PROVE  OneDecision'
<1>1. minted \in Nat /\ Contexts \subseteq Trace
  BY ContextsType DEF TypeOK
<1>2. Contexts' \subseteq Contexts \cup ({tp} \ {None})
  BY DEF Sends, Contexts
<1>3. CASE tp \in Contexts \cup {None}
  <2>1. Contexts' \subseteq Contexts
    BY <1>2, <1>3
  <2>2. tp # None => tp.id \in Nat /\ tp.id <= minted
    BY <1>1, <1>3 DEF Trace, OneDecision
  <2>3. minted' = minted
    BY <1>1, <2>2 DEF Sends
  <2>. QED  BY <1>1, <2>1, <2>3, DecisionKept DEF Sends
<1>4. CASE tp \in Fresh
  <2>1. tp \in [id : Nat, sampled : BOOLEAN] /\ tp.id = minted + 1 /\ tp # None
    BY <1>4, FreshType
  <2>2. minted' = tp.id
    BY <1>1, <2>1 DEF Sends
  <2>. QED  BY <1>2, <2>1, <2>2, DecisionMade DEF Sends
<1>. QED  BY <1>3, <1>4

LEMMA DecisionReturns ==
    ASSUME TypeOK, OneDecision, NEW b \in bodies, Returns(b)
    PROVE  OneDecision'
<1>1. Contexts' \subseteq Contexts /\ UNCHANGED minted
  BY DEF Returns, Contexts
<1>2. minted \in Nat /\ Contexts \subseteq Trace
  BY ContextsType DEF TypeOK
<1>3. CASE UNCHANGED <<offered, recorded>>
  BY <1>1, <1>2, <1>3, DecisionKept
<1>4. CASE b.tp # None /\ Record(b)
  <2>. DEFINE hop == <<b.node, b.tp.id>>
  <2>1. b.tp \in Contexts /\ b.tp.id <= minted
    BY <1>4, BodyContexts DEF OneDecision
  <2>2. \A t \in Contexts : t.id = hop[2] => t.sampled = b.tp.sampled
    BY <2>1 DEF OneDecision
  <2>3. \A h \in offered : h[2] = hop[2] => (b.tp.sampled <=> h \in recorded)
    BY <2>1 DEF OneDecision
  <2>4. /\ offered' = offered \cup {hop}
        /\ recorded' = IF b.tp.sampled THEN recorded \cup {hop} ELSE recorded
    BY <1>4 DEF Record, Recordable
  <2>5. hop \in recorded' <=> b.tp.sampled
    <3>1. hop \in recorded => hop \in offered
      BY DEF TypeOK
    <3>. QED  BY <2>3, <2>4, <3>1
  <2>6. \A h \in offered : h # hop => (h \in recorded' <=> h \in recorded)
    BY <2>4
  <2>7. \A h \in offered' : h[2] = hop[2] => (h \in recorded' <=> b.tp.sampled)
    BY <2>3, <2>4, <2>5, <2>6
  <2>8. RecordedWhole'
    BY <2>4, <2>6, <2>7 DEF OneDecision, RecordedWhole
  <2>9. \A h \in offered', t \in Contexts' : t.id = h[2] => (t.sampled <=> h \in recorded')
    BY <1>1, <2>2, <2>4, <2>6, <2>7 DEF OneDecision
  <2>10. \A h \in offered' : h[2] <= minted'
    BY <1>1, <2>1, <2>4 DEF OneDecision
  <2>. QED  BY <1>1, <2>8, <2>9, <2>10 DEF OneDecision
<1>. QED  BY <1>3, <1>4 DEF Returns, Record, Recordable

LEMMA DecisionStep == TypeOK /\ OneDecision /\ [Next]_vars => OneDecision'
<1>. SUFFICES ASSUME TypeOK, OneDecision, [Next]_vars PROVE OneDecision'
  OBVIOUS
<1>0. minted \in Nat
  BY DEF TypeOK
<1>1. CASE UNCHANGED vars
  BY <1>1 DEF vars, OneDecision, RecordedWhole, Contexts
<1>2. ASSUME NEW b \in bodies, Put(b) PROVE OneDecision'
  <2>. DEFINE Stamp(decided, span) == IF decided = None THEN None ELSE Outgoing(b.node, span, decided)
  <2>1. PICK decided \in Decision(b) : \E span \in ProducerSpans(b, decided) :
          Sends(b, "sample", Stamp(decided, span))
    BY <1>2 DEF Put
  <2>2. PICK span \in ProducerSpans(b, decided) : Sends(b, "sample", Stamp(decided, span))
    BY <2>1
  <2>3. Stamp(decided, span) \in Contexts \cup {None} \cup Fresh
    BY PutSends, BodyContexts
  <2>. QED  BY <2>2, <2>3, DecisionSends
<1>3. ASSUME NEW b \in bodies, Call(b) PROVE OneDecision'
  <2>1. Outgoing(b.node, b.span, b.tp) \in Contexts \cup {None} \cup Fresh
    BY CallSends, BodyContexts
  <2>. QED  BY <1>3, <2>1, DecisionSends DEF Call
<1>4. ASSUME NEW b \in bodies, Returns(b) PROVE OneDecision'
  BY <1>4, DecisionReturns
<1>5. ASSUME NEW b \in bodies, Spawn(b) \/ Every(b) PROVE OneDecision'
  <2>1. PICK c : c.tp = b.tp /\ c.span = b.span /\ bodies' = bodies \cup {c}
    <3>1. /\ [b EXCEPT !.kind = "task", !.cause = b.cause].tp = b.tp
          /\ [b EXCEPT !.kind = "task", !.cause = b.cause].span = b.span
          /\ [b EXCEPT !.kind = "timer", !.cause = None].tp = b.tp
          /\ [b EXCEPT !.kind = "timer", !.cause = None].span = b.span
      BY DEF TypeOK, Body
    <3>. QED  BY <1>5, <3>1 DEF Spawn, Every, Begins, Copied
  <2>2. UNCHANGED <<minted, wire, base, offered, recorded>>
    BY <1>5 DEF Spawn, Every
  <2>3. Contexts' \subseteq Contexts
    BY <2>1, <2>2 DEF Contexts
  <2>. QED  BY <1>0, <2>2, <2>3, DecisionKept
<1>6. ASSUME NEW b \in bodies, Subscribe(b) PROVE OneDecision'
  <2>1. Contexts' \subseteq Contexts
    BY <1>6, BodyContexts DEF Subscribe, Contexts, TypeOK
  <2>. QED  BY <1>0, <1>6, <2>1, DecisionKept DEF Subscribe
<1>7. ASSUME NEW b \in bodies, Using(b) PROVE OneDecision'
  <2>. DEFINE made == [id |-> minted + 1, sampled |-> TRUE]
  <2>. DEFINE begun == [b EXCEPT !.kind = "task", !.tp = made, !.cause = IF b.span = None THEN made ELSE None]
  <2>0. begun.tp = made /\ begun.span = b.span /\ bodies' = bodies \cup {begun}
    BY <1>7 DEF Using, Begins, TypeOK, Body
  <2>1. Contexts' \subseteq Contexts \cup {made}
    BY <1>7, <2>0 DEF Using, Contexts
  <2>2. made \in [id : Nat, sampled : BOOLEAN] /\ made.id = minted + 1 /\ minted' = made.id
    BY <1>0, <1>7 DEF Using
  <2>. QED  BY <1>7, <2>1, <2>2, DecisionMade DEF Using
<1>8. ASSUME NEW m \in wire, Dispatch(m) \/ Serve(m) PROVE OneDecision'
  <2>1. m \in Message /\ m.to \in Nodes
    BY DEF TypeOK, Message
  <2>2. \A kind, outer : /\ Runs(m, kind, outer).tp = m.tp
                         /\ Runs(m, kind, outer).span \in {m.tp, outer}
    BY DEF Runs, SpanFor
  <2>3. m.tp \in Contexts \cup {None} /\ base[m.to] \in Contexts \cup {None}
    BY <2>1 DEF Contexts
  <2>4. Contexts' \subseteq Contexts
    BY <1>8, <2>2, <2>3 DEF Dispatch, Serve, Contexts
  <2>. QED  BY <1>0, <1>8, <2>4, DecisionKept DEF Dispatch, Serve
<1>. QED  BY <1>1, <1>2, <1>3, <1>4, <1>5, <1>6, <1>7, <1>8 DEF Next

LEMMA DecisionInit == Init => OneDecision
BY DEF Init, OneDecision, RecordedWhole, Contexts, Timer

\* Of the hops of a trace that the nodes give to their rings all are kept or none is:
\* the decision is taken once, at its root (trace.py:86-100, 184-186, pubsub.py:127-145).
\* Which hops are given to a ring it does not say.
THEOREM RecordedEndToEnd == Spec => []RecordedWhole
<1>1. Spec => []OneDecision
  BY TypeInit, TypeStep, DecisionInit, DecisionStep, PTL DEF Spec
<1>2. OneDecision => RecordedWhole
  BY DEF OneDecision
<1>. QED  BY <1>1, <1>2, PTL

(***************************************************************************)
(* Causes.                                                                  *)
(***************************************************************************)

CauseInv ==
    /\ \A b \in bodies : b.cause # None => b.tp = b.cause /\ b.span \in {None, b.cause}
    /\ \A b \in bodies : b.kind = "timer" => b.cause = None
    /\ FollowsCause

LEMMA CauseSends ==
    ASSUME CauseInv, NEW b \in bodies, NEW kind, NEW tp, Sends(b, kind, tp),
           b.cause # None => tp = b.cause
    PROVE  CauseInv'
BY DEF Sends, CauseInv, FollowsCause

LEMMA CauseStep == TypeOK /\ CauseInv /\ [Next]_vars => CauseInv'
<1>. SUFFICES ASSUME TypeOK, CauseInv, [Next]_vars PROVE CauseInv'
  OBVIOUS
<1>1. CASE UNCHANGED vars
  BY <1>1 DEF vars, CauseInv, FollowsCause
<1>2. ASSUME NEW b \in bodies, Put(b) PROVE CauseInv'
  <2>. DEFINE Stamp(decided, span) == IF decided = None THEN None ELSE Outgoing(b.node, span, decided)
  <2>1. PICK decided \in Decision(b) : \E span \in ProducerSpans(b, decided) :
          Sends(b, "sample", Stamp(decided, span))
    BY <1>2 DEF Put
  <2>2. PICK span \in ProducerSpans(b, decided) : Sends(b, "sample", Stamp(decided, span))
    BY <2>1
  <2>3. b.cause # None => Stamp(decided, span) = b.cause
    <3>. SUFFICES ASSUME b.cause # None PROVE Stamp(decided, span) = b.cause
      OBVIOUS
    <3>1. b.tp = b.cause /\ b.span \in {None, b.cause}
      BY DEF CauseInv
    <3>2. decided = b.cause
      BY <3>1 DEF Decision
    <3>3. span \in {None, b.cause}
      BY <3>1, <3>2 DEF ProducerSpans
    <3>. QED  BY <3>2, <3>3 DEF Outgoing, Active
  <2>. QED  BY <2>2, <2>3, CauseSends
<1>3. ASSUME NEW b \in bodies, Call(b) PROVE CauseInv'
  <2>1. b.cause # None => Outgoing(b.node, b.span, b.tp) = b.cause
    BY DEF CauseInv, Outgoing, Active
  <2>. QED  BY <1>3, <2>1, CauseSends DEF Call
<1>4. ASSUME NEW b \in bodies, Returns(b) \/ Subscribe(b) PROVE CauseInv'
  BY <1>4 DEF Returns, Subscribe, CauseInv, FollowsCause
<1>5. ASSUME NEW b \in bodies, Spawn(b) \/ Every(b) PROVE CauseInv'
  BY <1>5 DEF Spawn, Every, Begins, Copied, CauseInv, FollowsCause, TypeOK, Body
<1>6. ASSUME NEW b \in bodies, Using(b) PROVE CauseInv'
  BY <1>6 DEF Using, Begins, CauseInv, FollowsCause, TypeOK, Body
<1>7. ASSUME NEW m \in wire, Dispatch(m) \/ Serve(m) PROVE CauseInv'
  <2>1. \A kind, outer : LET b == Runs(m, kind, outer) IN
          /\ b.cause # None => b.tp = b.cause /\ b.span \in {None, b.cause}
          /\ b.kind = kind
    BY DEF Runs, Cause
  <2>. QED  BY <1>7, <2>1 DEF Dispatch, Serve, CauseInv, FollowsCause
<1>. QED  BY <1>1, <1>2, <1>3, <1>4, <1>5, <1>6, <1>7 DEF Next

LEMMA CauseInit == Init => CauseInv
BY DEF Init, CauseInv, FollowsCause, Timer

\* What a handler, a server, or a task that they spawn sends is in the trace of the
\* message that it was started for (pubsub.py:127-145, 655-690, service.py:89-110,
\* node.py:830-848); what a timer sends is nobody's.
THEOREM CauseFollowed == Spec => []FollowsCause
<1>1. Spec => []CauseInv
  BY TypeInit, TypeStep, CauseInit, CauseStep, PTL DEF Spec
<1>2. CauseInv => FollowsCause
  BY DEF CauseInv
<1>. QED  BY <1>1, <1>2, PTL
================================================================================

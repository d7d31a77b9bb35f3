-------------------------------- MODULE Tracing --------------------------------
(***************************************************************************)
(* Which trace a message belongs to (src/zenode/trace.py, otel.py, and      *)
(* their callers put, _dispatch, _handle, call_service, spawn and every).   *)
(* A pipeline of nodes: node n publishes a topic and serves a service that  *)
(* node n + 1 subscribes to and calls are made of in the same direction.    *)
(*                                                                         *)
(* A trace context is its id and its sampled flag; the id of a span within  *)
(* its trace is left out.  What code runs in, a body, has two contexts: the *)
(* traceparent of zenode's context variable and OpenTelemetry's current     *)
(* span.  asyncio copies both when a task is created.  At a node without a  *)
(* tracer provider OpenTelemetry passes contexts through and names none.    *)
(***************************************************************************)
EXTENDS Naturals, FiniteSets

CONSTANTS
    None,           \* no trace context
    Length,         \* nodes of the pipeline
    Recording,      \* the nodes that have a tracer provider
    Roots,          \* the nodes whose topic is declared with trace=True
    Ringed,         \* the nodes that keep hops: trace_ring is not 0
    MaxTraces,      \* bound: trace ids
    MaxSent,        \* bound: messages
    MaxSpawned      \* bound: tasks and timers that are started from other bodies

Nodes == 1..Length
Trace == [id : 1..MaxTraces, sampled : BOOLEAN]

ASSUME PipelineAssumption == Length \in Nat \ {0} /\ Recording \cup Roots \cup Ringed \subseteq 1..Length
ASSUME BoundAssumption    == {MaxTraces, MaxSent, MaxSpawned} \subseteq Nat
ASSUME NoneAssumption     == None \notin [id : Nat, sampled : BOOLEAN]

\* A running piece of application code and its contexts.  The cause is history: the
\* trace of the message that it was started for or that using() gave it, or None.
Body == [node : Nodes, kind : {"timer", "handler", "server", "task"},
         tp : Trace \cup {None}, span : Trace \cup {None}, cause : Trace \cup {None}]

Message == [to : Nodes, kind : {"sample", "query"}, tp : Trace \cup {None}, cause : Trace \cup {None}]

VARIABLES
    minted,         \* trace ids in use
    bodies,         \* what runs
    wire,           \* messages under way; they may overtake each other
    base,           \* for each node the span its subscription was made in
    sent, spawned,  \* counts for the bounds
    \* History, read by no guard:
    offered,        \* node and trace id of each hop that a ring was given
    recorded        \* those that it took

vars == <<minted, bodies, wire, base, sent, spawned, offered, recorded>>

Timer(n) == [node |-> n, kind |-> "timer", tp |-> None, span |-> None, cause |-> None]

Init ==
    /\ minted = 0 /\ sent = 0 /\ spawned = 0
    /\ bodies = {Timer(n) : n \in Nodes}
    /\ wire = {} /\ base = [n \in Nodes |-> None]
    /\ offered = {} /\ recorded = {}

-----------------------------------------------------------------------------
(* Going out.                                                               *)

\* active_traceparent(): a span in scope names its trace.
Active(n, span) == IF n \in Recording THEN span ELSE None

\* outgoing(): the span in scope, else what the caller was going to stamp.
Outgoing(n, span, fallback) == IF Active(n, span) # None THEN span ELSE fallback

\* An unsampled trace must not reach OpenTelemetry, nor the ring.
Recordable(tp) == tp # None /\ tp.sampled

\* A trace of its own; with trace_ratio between 0 and 1 the flag may be either.
Fresh == {[id |-> minted + 1, sampled |-> flag] : flag \in BOOLEAN}

Decision_AtEveryRoot(b) ==
    IF b.tp # None /\ b.node \in Roots THEN {[b.tp EXCEPT !.sampled = flag] : flag \in BOOLEAN}
    ELSE IF b.tp # None THEN {b.tp} ELSE IF b.node \in Roots THEN Fresh ELSE {None}

\* Continue the trace of the body; without one only a root topic starts one.
Decision(b) == IF b.tp # None THEN {b.tp} ELSE IF b.node \in Roots THEN Fresh ELSE {None}

\* producer_span: the span that the publish runs in.  It is a child of the span in
\* scope, else of the wire context, else a root, whose trace the provider makes and
\* samples as it likes; an unsampled message records nothing.
ProducerSpans(b, tp) ==
    IF b.node \notin Recording \/ ~Recordable(tp) THEN {b.span}
    ELSE IF b.span # None THEN {b.span}
    ELSE IF b.tp # None THEN {tp} ELSE Fresh

Sends(b, kind, tp) ==
    /\ b.node < Length /\ sent < MaxSent
    /\ wire' = wire \cup {[to |-> b.node + 1, kind |-> kind, tp |-> tp, cause |-> b.cause]}
    /\ sent' = sent + 1
    /\ minted' = IF tp # None /\ tp.id > minted THEN tp.id ELSE minted
    /\ UNCHANGED <<bodies, base, spawned, offered, recorded>>

\* Publisher.put.
Put(b) ==
    \E decided \in Decision(b) : \E span \in ProducerSpans(b, decided) :
        LET tp == IF decided = None THEN None ELSE Outgoing(b.node, span, decided) IN
        /\ tp # None => tp.id <= MaxTraces
        /\ Sends(b, "sample", tp)

\* call_service.
Call(b) == Sends(b, "query", Outgoing(b.node, b.span, b.tp))

-----------------------------------------------------------------------------
(* Coming in.                                                               *)

SpanFor(n, tp, outer) == IF n \in Recording /\ Recordable(tp) THEN tp ELSE outer

\* A span that a subscription was made in is in scope of the messages that have
\* no span of their own.
Cause(n, tp, outer) == IF SpanFor(n, tp, outer) \in {tp, None} THEN tp ELSE None

Runs(m, kind, outer) ==
    [node |-> m.to, kind |-> kind, tp |-> m.tp, span |-> SpanFor(m.to, m.tp, outer),
     cause |-> Cause(m.to, m.tp, outer)]

\* _dispatch: in the consumer's task, one message at a time.
Dispatch(m) ==
    /\ m \in wire /\ m.kind = "sample"
    /\ \A b \in bodies : b.node = m.to => b.kind # "handler"
    /\ bodies' = bodies \cup {Runs(m, "handler", base[m.to])}
    /\ wire' = wire \ {m}
    /\ UNCHANGED <<minted, base, sent, spawned, offered, recorded>>

\* ServiceServer._handle: in a task of its own, made on a callback of a zenoh thread.
Serve(m) ==
    /\ m \in wire /\ m.kind = "query"
    /\ bodies' = bodies \cup {Runs(m, "server", None)}
    /\ wire' = wire \ {m}
    /\ UNCHANGED <<minted, base, sent, spawned, offered, recorded>>

\* TraceRing.record: the ring takes the hop if its trace is sampled.
Record(b) ==
    /\ offered' = IF b.tp = None THEN offered ELSE offered \cup {<<b.node, b.tp.id>>}
    /\ recorded' = IF Recordable(b.tp) THEN recorded \cup {<<b.node, b.tp.id>>} ELSE recorded

\* A body returns, raises or is cancelled.  A handler that does is a hop, however it
\* ends; a server is one only if its reply went out.
Returns(b) ==
    /\ b \in bodies /\ b.kind # "timer"
    /\ bodies' = bodies \ {b}
    /\ \/ b.kind \in {"handler", "server"} /\ b.node \in Ringed /\ Record(b)
       \/ /\ b.kind \in {"task", "server"} \/ b.node \notin Ringed
          /\ UNCHANGED <<offered, recorded>>
    /\ UNCHANGED <<minted, wire, base, sent, spawned>>

Begins(b) ==
    /\ spawned < MaxSpawned
    /\ bodies' = bodies \cup {b} /\ spawned' = spawned + 1

Copied_Empty(b) == Timer(b.node)

\* create_task copies the contexts, whatever becomes of the body that made the task.
Copied(b) == b

\* spawn(): the task goes on with what the body was started for.
Spawn(b) ==
    /\ Begins([Copied(b) EXCEPT !.kind = "task", !.cause = b.cause])
    /\ UNCHANGED <<minted, wire, base, sent, offered, recorded>>

\* every(): the timer's bodies run in the copy too, but a tick is caused by the clock.
Every(b) ==
    /\ Begins([Copied(b) EXCEPT !.kind = "timer", !.cause = None])
    /\ UNCHANGED <<minted, wire, base, sent, offered, recorded>>

\* subscribe() from a body: the consumer's task is made in its contexts.  The
\* traceparent is replaced for each message, the span is not.
Subscribe(b) ==
    /\ base' = [base EXCEPT ![b.node] = b.span]
    /\ UNCHANGED <<minted, bodies, wire, sent, spawned, offered, recorded>>

\* using(new_traceparent()) in a timer's body.  A span in scope goes before it, and
\* then what is sent is not the new trace's.
Using(b) ==
    /\ b.kind = "timer" /\ minted < MaxTraces
    /\ LET made == [id |-> minted + 1, sampled |-> TRUE] IN
       Begins([b EXCEPT !.kind = "task", !.tp = made, !.cause = IF b.span = None THEN made ELSE None])
    /\ minted' = minted + 1
    /\ UNCHANGED <<wire, base, sent, offered, recorded>>

Next ==
    \/ \E b \in bodies : Put(b) \/ Call(b) \/ Returns(b) \/ Spawn(b) \/ Every(b) \/ Subscribe(b) \/ Using(b)
    \/ \E m \in wire : Dispatch(m) \/ Serve(m)

Spec == Init /\ [][Next]_vars

-----------------------------------------------------------------------------
(* Correctness.                                                             *)

TypeOK ==
    /\ minted \in 0..MaxTraces /\ sent \in 0..MaxSent /\ spawned \in 0..MaxSpawned
    /\ bodies \subseteq Body /\ wire \subseteq Message
    /\ base \in [Nodes -> Trace \cup {None}]
    /\ recorded \subseteq offered /\ offered \subseteq Nodes \X (1..MaxTraces)

\* The decision to record a trace is taken once, at its root (root_traceparent): of
\* the hops of a trace that a ring is given, on whichever nodes, all are kept or none
\* is, whichever of the nodes sample, have a tracer provider or root traces of their
\* own.  A node without a ring and a call without a reply give none.
RecordedWhole ==
    \A h, g \in offered : h[2] = g[2] => (h \in recorded <=> g \in recorded)

\* What a handler, or a task that it spawns, sends carries the trace of the message it
\* was started for, across nodes that record spans and nodes that do not, and what is
\* sent under using() carries the trace given there.
FollowsCause ==
    \A m \in wire : m.cause # None => m.tp = m.cause
================================================================================

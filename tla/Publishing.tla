------------------------------ MODULE Publishing ------------------------------
(***************************************************************************)
(* What a put does (src/zenode/pubsub.py, Publisher.put and _publish) and   *)
(* the shared-memory pool it draws on (src/zenode/shm.py, ShmPool), called  *)
(* by any number of threads at once.  An action ends where another thread   *)
(* may run: at a call.  A lone += on a counter is one step: no thread       *)
(* switch falls between its load and its store under the interpreter lock.  *)
(***************************************************************************)
EXTENDS Naturals, FiniteSets

CONSTANTS
    Callers,    \* the threads that call put, the loop's among them
    Publishers, \* one for each topic
    Pooled,     \* those of a topic with shm=True on a transport with shared memory
    Nobody,     \* no publisher
    MaxPuts     \* bound: numbers a publisher hands out

ASSUME PooledAssumption == Pooled \subseteq Publishers /\ Nobody \notin Publishers
ASSUME FiniteCallers    == IsFiniteSet(Callers)
ASSUME PutsAssumption   == MaxPuts \in Nat

VARIABLES
    taken,      \* taken[p]: the last number _seq handed out
    sent,       \* sent[p]: the public counter
    put,        \* put[c]: where the call of caller c is
    provider,   \* the pool has a _provider
    unavailable,\* _unavailable
    fallbacks,  \* the public counter
    wire,       \* history: messages handed to the transport
    raised,     \* history: messages whose put raised
    decided     \* history: decided[c]: creations by c that ended in a provider or a refusal

putVars == <<taken, sent, put, provider, unavailable, fallbacks, wire, raised, decided>>

\* Where a call is: about to encode; in the pool, at its test, creating a provider,
\* reading the provider, allocating; at the transport; past it, at the counter.
Stages    == {"idle", "encode", "test", "create", "provide", "alloc", "wire", "count"}

\* How a message travels: not decided yet, in a shared buffer, or as plain bytes.
Carriages == {"undecided", "shared", "plain"}
Message   == [pub : Publishers, seq : Nat, by : Carriages]
Call      == [at : Stages, pub : Publishers \cup {Nobody}, seq : Nat, by : Carriages]

Idle       == [at |-> "idle", pub |-> Nobody, seq |-> 0, by |-> "undecided"]
Carried(c) == [pub |-> put[c].pub, seq |-> put[c].seq, by |-> put[c].by]

PutInit ==
    /\ taken = [p \in Publishers |-> 0] /\ sent = [p \in Publishers |-> 0]
    /\ put = [c \in Callers |-> Idle]
    /\ provider = FALSE /\ unavailable = FALSE /\ fallbacks = 0
    /\ wire = {} /\ raised = {} /\ decided = [c \in Callers |-> 0]

Goes(c, stage) == put' = [put EXCEPT ![c].at = stage]

\* The call of c ends with an exception, which the caller of put gets.
Raises(c) ==
    /\ put' = [put EXCEPT ![c] = Idle]
    /\ raised' = raised \cup {Carried(c)}

\* The call of c comes out of the pool, with a buffer or without.
Leaves(c, by) == put' = [put EXCEPT ![c] = [@ EXCEPT !.at = "wire", !.by = by]]

-----------------------------------------------------------------------------
(* put and _publish.                                                        *)

\* put: the number is taken before anything that may fail.
Put(c, p) ==
    /\ put[c].at = "idle" /\ taken[p] < MaxPuts
    /\ taken' = [taken EXCEPT ![p] = @ + 1]
    /\ put' = [put EXCEPT ![c] = [at |-> "encode", pub |-> p, seq |-> taken[p] + 1,
                                  by |-> IF p \in Pooled THEN "undecided" ELSE "plain"]]
    /\ UNCHANGED <<sent, provider, unavailable, fallbacks, wire, raised, decided>>

\* The envelope and the value are encoded; the codec may refuse the value.
Encode(c) ==
    /\ put[c].at = "encode"
    /\ \/ /\ Goes(c, IF put[c].pub \in Pooled THEN "test" ELSE "wire")
          /\ UNCHANGED raised
       \/ Raises(c)
    /\ UNCHANGED <<taken, sent, provider, unavailable, fallbacks, wire, decided>>

Transmit_Swallows(c) ==
    /\ put[c].at = "wire"
    /\ wire' \in {wire, wire \cup {Carried(c)}}
    /\ Goes(c, "count")
    /\ UNCHANGED <<taken, sent, provider, unavailable, fallbacks, raised, decided>>

\* The transport takes the sample, or raises: the session is closed.
Transmit(c) ==
    /\ put[c].at = "wire"
    /\ \/ /\ wire' = wire \cup {Carried(c)}
          /\ Goes(c, "count")
          /\ UNCHANGED raised
       \/ Raises(c) /\ UNCHANGED wire
    /\ UNCHANGED <<taken, sent, provider, unavailable, fallbacks, decided>>

Count(c) ==
    /\ put[c].at = "count"
    /\ sent' = [sent EXCEPT ![put[c].pub] = @ + 1]
    /\ put' = [put EXCEPT ![c] = Idle]
    /\ UNCHANGED <<taken, provider, unavailable, fallbacks, wire, raised, decided>>

-----------------------------------------------------------------------------
(* ShmPool.buffer and _provider_or_none.                                    *)

\* Two threads may both find that nothing was tried yet.
TestPool(c) ==
    /\ put[c].at = "test"
    /\ Goes(c, IF provider \/ unavailable THEN "provide" ELSE "create")
    /\ UNCHANGED <<taken, sent, provider, unavailable, fallbacks, wire, raised, decided>>

CreateProvider_Retries(c) ==
    /\ put[c].at = "create"
    /\ provider' \in BOOLEAN
    /\ decided' = [decided EXCEPT ![c] = @ + 1]
    /\ Goes(c, "provide")
    /\ UNCHANGED <<taken, sent, unavailable, fallbacks, wire, raised>>

\* KeyboardInterrupt and SystemExit are not swallowed and leave nothing latched.
CreateProvider(c) ==
    /\ put[c].at = "create"
    /\ \/ /\ \/ provider' = TRUE /\ UNCHANGED unavailable
             \/ unavailable' = TRUE /\ UNCHANGED provider
          /\ decided' = [decided EXCEPT ![c] = @ + 1]
          /\ Goes(c, "provide")
          /\ UNCHANGED raised
       \/ Raises(c) /\ UNCHANGED <<provider, unavailable, decided>>
    /\ UNCHANGED <<taken, sent, fallbacks, wire>>

FallBack(c) == fallbacks' = fallbacks + 1 /\ Leaves(c, "plain")

\* What _provider_or_none returns is read after the test and the creation.
Provide(c) ==
    /\ put[c].at = "provide"
    /\ IF provider THEN Goes(c, "alloc") /\ UNCHANGED fallbacks ELSE FallBack(c)
    /\ UNCHANGED <<taken, sent, provider, unavailable, wire, raised, decided>>

\* The buffer is allocated and filled, or the pool is full, or zenoh panics.
Allocate(c) ==
    /\ put[c].at = "alloc"
    /\ \/ Leaves(c, "shared") /\ UNCHANGED <<fallbacks, raised>>
       \/ FallBack(c) /\ UNCHANGED raised
       \/ Raises(c) /\ UNCHANGED fallbacks
    /\ UNCHANGED <<taken, sent, provider, unavailable, wire, decided>>

\* One step of a call that is under way.
Step(c) ==
    \/ Encode(c) \/ TestPool(c) \/ CreateProvider(c) \/ Provide(c) \/ Allocate(c)
    \/ Transmit(c) \/ Count(c)

PutNext == \E c \in Callers : Step(c) \/ \E p \in Publishers : Put(c, p)

PutSpec == PutInit /\ [][PutNext]_putVars

-----------------------------------------------------------------------------
(* Correctness.                                                             *)

PutTypeOK ==
    /\ taken \in [Publishers -> Nat] /\ sent \in [Publishers -> Nat]
    /\ put \in [Callers -> Call] /\ decided \in [Callers -> Nat]
    /\ provider \in BOOLEAN /\ unavailable \in BOOLEAN /\ fallbacks \in Nat
    /\ wire \in SUBSET Message /\ raised \in SUBSET Message

UnderWay(p)   == {c \in Callers : put[c].pub = p}
BeforeWire(p) == {c \in UnderWay(p) : put[c].at # "count"}
Counting(p)   == {c \in UnderWay(p) : put[c].at = "count"}
Numbers(S, p) == {m.seq : m \in {x \in S : x.pub = p}}

\* Messages of a pooled topic that go without a buffer: done, or about to be put.
FellBack(S)   == {m \in S : m.pub \in Pooled /\ m.by = "plain"}
FallingBack   == {c \in Callers : put[c].pub \in Pooled /\ put[c].at = "wire" /\ put[c].by = "plain"}

\* A gap in the numbers that subscribers see is never silent here: every number a
\* publisher handed out is on the wire, belongs to a put that raised to its caller, or
\* to one that is still under way, to exactly one of them, and sent counts the messages
\* on the wire but for those about to be counted.
WireAccounted ==
    \A p \in Publishers :
        LET flying == {put[c].seq : c \in BeforeWire(p)}
            landed == Numbers(wire \cup raised, p) IN
        /\ landed \cup flying = 1..taken[p]
        /\ landed \cap flying = {}
        /\ \A c, d \in BeforeWire(p) : put[c].seq = put[d].seq => c = d
        /\ \A m, n \in wire \cup raised : m.pub = p /\ n.pub = p /\ m.seq = n.seq => m = n
        /\ wire \cap raised = {}
        /\ Cardinality({m \in wire : m.pub = p}) = sent[p] + Cardinality(Counting(p))

\* Shared memory degrades in the open: on a topic with shm=True every message that
\* left the pool without a buffer is counted in fallbacks, and nothing else is; and
\* however many threads find the pool untried at once, none makes a second attempt
\* to create its provider after one of its own was decided.
PoolDegrades ==
    /\ fallbacks = Cardinality(FellBack(wire \cup raised)) + Cardinality(FallingBack)
    /\ \A c \in Callers : decided[c] <= 1
==============================================================================

------------------------------- MODULE Service -------------------------------
(***************************************************************************)
(* Request and reply (src/zenode/service.py): ServiceServer's tasks on the *)
(* loops of the nodes that serve one key, and call_service on the loop of  *)
(* a caller, with its future, its timeout and the replies that come late,  *)
(* twice or not at all.  A server's node may be torn down meanwhile.       *)
(***************************************************************************)
EXTENDS Naturals, Sequences, FiniteSets

CONSTANTS
    Servers,    \* nodes that serve the key
    Calls       \* calls of one caller

ASSUME FiniteCalls == IsFiniteSet(Calls)

VARIABLES
    newer,      \* wait_for is that of Python 3.12 or later, rather than that of 3.11
    server,     \* a server's queryable and session: serving, undeclared or closed
    task,       \* _handle of one call on one server
    ending,     \* history: how that call's handler ended
    answer,     \* history: what was sent for it
    served, errors,     \* the server's counters
    net,        \* replies under way
    ready,      \* the caller loop's ready list
    pc,         \* call_service
    future,     \* its future
    timer,      \* wait_for's timer: off, armed or due
    cancelling, \* who has cancelled the calling task
    first       \* history: the first reply the caller's loop ran

serverVars == <<newer, server, task, ending, answer, served, errors>>
callerVars == <<ready, pc, future, timer, cancelling, first>>
vars == <<serverVars, net, callerVars>>

Reply == [server : Servers, call : Calls, kind : {"ok", "err"}]
Entry == [what : {"ok", "err", "timer", "wake"}, call : Calls]

Init ==
    /\ newer \in BOOLEAN
    /\ server = [s \in Servers |-> "serving"]
    /\ task = [s \in Servers |-> [c \in Calls |-> "none"]]
    /\ ending = [s \in Servers |-> [c \in Calls |-> "none"]]
    /\ answer = [s \in Servers |-> [c \in Calls |-> "none"]]
    /\ served = [s \in Servers |-> 0] /\ errors = [s \in Servers |-> 0]
    /\ net = {} /\ ready = <<>>
    /\ pc = [c \in Calls |-> "idle"] /\ future = [c \in Calls |-> "pending"]
    /\ timer = [c \in Calls |-> "off"] /\ cancelling = [c \in Calls |-> "no"]
    /\ first = [c \in Calls |-> "none"]

-----------------------------------------------------------------------------
(* The caller: call_service and asyncio.wait_for.                           *)

Arm_Never(c) == UNCHANGED timer
Arm(c)       == timer' = [timer EXCEPT ![c] = "armed"]

\* The query reaches some of the servers, whose worker threads put it on their loops.
Call(c) ==
    /\ pc[c] = "idle"
    /\ pc' = [pc EXCEPT ![c] = "waiting"] /\ Arm(c)
    /\ \E reached \in SUBSET {s \in Servers : server[s] = "serving"} :
          task' = [s \in Servers |->
                     [task[s] EXCEPT ![c] = IF s \in reached THEN "queued" ELSE @]]
    /\ UNCHANGED <<newer, server, ending, answer, served, errors, net, ready, future, cancelling, first>>

\* _on_reply, on a worker thread.
OnReply(r) ==
    /\ net' = net \ {r}
    /\ ready' = Append(ready, [what |-> r.kind, call |-> r.call])
    /\ UNCHANGED <<serverVars, pc, future, timer, cancelling, first>>

Lost(r) == net' = net \ {r} /\ UNCHANGED <<serverVars, callerVars>>

TimerDue(c) ==
    /\ timer[c] = "armed"
    /\ timer' = [timer EXCEPT ![c] = "due"]
    /\ ready' = Append(ready, [what |-> "timer", call |-> c])
    /\ UNCHANGED <<serverVars, net, pc, future, cancelling, first>>

Wake(c) == [what |-> "wake", call |-> c]

\* The calling task's next step is on the loop, once.
Waking(c, list) ==
    IF \E i \in DOMAIN list : list[i] = Wake(c) THEN list ELSE Append(list, Wake(c))

Running(what, c) == ready # <<>> /\ Head(ready) = [what |-> what, call |-> c]

Done_Unchecked(c) == pc[c] # "waiting"
Done_OnceDue(c)   == future[c] # "pending" \/ timer[c] = "due"
\* future.done()
Done(c)           == future[c] # "pending"

\* _resolve and _reject.
Settle(kind, c) ==
    /\ Running(kind, c)
    /\ first' = [first EXCEPT ![c] = IF @ = "none" THEN kind ELSE @]
    /\ \/ Done(c) /\ ready' = Tail(ready) /\ UNCHANGED future
       \/ /\ ~Done(c)
          /\ future' = [future EXCEPT ![c] = IF kind = "ok" THEN "result" ELSE "error"]
          /\ ready' = Waking(c, Tail(ready))
    /\ UNCHANGED <<serverVars, net, pc, timer, cancelling>>

\* A cancellation cancels the pending future under it, and is noticed at the wake.
CancelTask(c, by, list) ==
    /\ cancelling' = [cancelling EXCEPT ![c] = by]
    /\ future' = [future EXCEPT ![c] = IF @ = "pending" /\ newer THEN "cancelled" ELSE @]
    /\ ready' = Waking(c, list)

RunTimer(c) ==
    /\ Running("timer", c)
    /\ \/ pc[c] = "waiting" /\ newer /\ cancelling[c] = "no" /\ CancelTask(c, "timer", Tail(ready))
       \/ pc[c] = "waiting" /\ newer /\ cancelling[c] # "no" /\ ready' = Tail(ready) /\ UNCHANGED <<future, cancelling>>
       \/ pc[c] = "waiting" /\ ~newer /\ ready' = Waking(c, Tail(ready)) /\ UNCHANGED <<future, cancelling>>
       \/ pc[c] # "waiting" /\ ready' = Tail(ready) /\ UNCHANGED <<future, cancelling>>
    /\ UNCHANGED <<serverVars, net, pc, timer, first>>

\* Somebody cancels the task that called.
Interrupt(c) ==
    /\ pc[c] = "waiting" /\ cancelling[c] # "outside"
    /\ CancelTask(c, "outside", ready)
    /\ UNCHANGED <<serverVars, net, pc, timer, first>>

Answered(c) == future[c] \in {"result", "error"} /\ (cancelling[c] = "no" \/ ~newer)

\* wait_for returns: with the answer, undecodable or not, or without one.
RunWake(c) ==
    /\ Running("wake", c) /\ pc[c] = "waiting"
    /\ \E outcome \in {"returned", "undecodable", "failed", "cancelled", "timeout"} :
          /\ CASE outcome \in {"returned", "undecodable"} -> Answered(c) /\ future[c] = "result"
               [] outcome = "failed"    -> Answered(c) /\ future[c] = "error"
               [] outcome = "cancelled" -> ~Answered(c) /\ cancelling[c] = "outside"
               [] outcome = "timeout"   -> ~Answered(c) /\ cancelling[c] # "outside"
          /\ pc' = [pc EXCEPT ![c] = outcome]
    /\ future' = [future EXCEPT ![c] = IF @ = "pending" THEN "cancelled" ELSE @]
    /\ timer' = [timer EXCEPT ![c] = "off"]
    /\ ready' = Tail(ready)
    /\ UNCHANGED <<serverVars, net, cancelling, first>>

-----------------------------------------------------------------------------
(* The server: _handle and _reply, one task for each query.                 *)

\* query.reply or reply_err, which raises on a closed session.
Send(s, c, kind) ==
    IF server[s] = "closed"
    THEN answer' = [answer EXCEPT ![s][c] = "unsent"] /\ UNCHANGED net
    ELSE /\ answer' = [answer EXCEPT ![s][c] = kind]
         /\ net' = net \cup {[server |-> s, call |-> c, kind |-> kind]}

Finished(s, c, how) ==
    /\ task' = [task EXCEPT ![s][c] = "done"]
    /\ ending' = [ending EXCEPT ![s][c] = how]

CountServed_First(s) == served' = [served EXCEPT ![s] = @ + 1]
CountServed(s) == served' = [served EXCEPT ![s] = IF server[s] = "closed" THEN @ ELSE @ + 1]

CountError(s)       == errors' = [errors EXCEPT ![s] = @ + 1]

\* No payload, or one that does not decode: refused before the handler is called.
Refuse(s, c) ==
    /\ task[s][c] = "queued"
    /\ Finished(s, c, "refused") /\ Send(s, c, "err")
    /\ UNCHANGED errors \/ CountError(s)
    /\ UNCHANGED <<newer, server, served, callerVars>>

Handle(s, c) ==
    /\ task[s][c] = "queued"
    /\ task' = [task EXCEPT ![s][c] = "handling"]
    /\ UNCHANGED <<newer, server, ending, answer, served, errors, net, callerVars>>

HandlerReturns(s, c) ==
    /\ task[s][c] = "handling"
    /\ Finished(s, c, "returned") /\ Send(s, c, "ok") /\ CountServed(s)
    /\ UNCHANGED <<newer, server, errors, callerVars>>

HandlerRaises(s, c) ==
    /\ task[s][c] = "handling"
    /\ Finished(s, c, "raised") /\ CountError(s) /\ Send(s, c, "err")
    /\ UNCHANGED <<newer, server, served, callerVars>>

\* A CancelledError out of the handler, or a reply its codec refuses, leaves _reply
\* through its finally alone: nothing is sent, counted or logged.
HandlerBreaks(s, c) ==
    /\ task[s][c] = "handling"
    /\ \E how \in {"cancelled", "unencodable"} : Finished(s, c, how)
    /\ UNCHANGED <<newer, server, answer, served, errors, net, callerVars>>

\* The node's teardown: the queryable first, the session last.
Undeclare(s) ==
    /\ server[s] = "serving" /\ server' = [server EXCEPT ![s] = "undeclared"]
    /\ UNCHANGED <<newer, task, ending, answer, served, errors, net, callerVars>>

CloseSession(s) ==
    /\ server[s] = "undeclared" /\ server' = [server EXCEPT ![s] = "closed"]
    /\ UNCHANGED <<newer, task, ending, answer, served, errors, net, callerVars>>

-----------------------------------------------------------------------------

CallerLoop(c) == Settle("ok", c) \/ Settle("err", c) \/ RunTimer(c) \/ RunWake(c)

Serve(s, c) ==
    Refuse(s, c) \/ Handle(s, c) \/ HandlerReturns(s, c) \/ HandlerRaises(s, c) \/ HandlerBreaks(s, c)

Next ==
    \/ \E c \in Calls : Call(c) \/ TimerDue(c) \/ Interrupt(c) \/ CallerLoop(c)
    \/ \E r \in net : OnReply(r) \/ Lost(r)
    \/ \E s \in Servers, c \in Calls : Serve(s, c)
    \/ \E s \in Servers : Undeclare(s) \/ CloseSession(s)

\* The caller's loop runs what is ready, and its timers come due.  Nothing is
\* assumed of servers, handlers or the network.
Fairness == \A c \in Calls : WF_vars(CallerLoop(c)) /\ WF_vars(TimerDue(c))

Spec     == Init /\ [][Next]_vars
FairSpec == Spec /\ Fairness

-----------------------------------------------------------------------------
(* Correctness.                                                             *)

TypeOK ==
    /\ newer \in BOOLEAN
    /\ server \in [Servers -> {"serving", "undeclared", "closed"}]
    /\ task \in [Servers -> [Calls -> {"none", "queued", "handling", "done"}]]
    /\ ending \in [Servers -> [Calls -> {"none", "refused", "returned", "raised", "cancelled", "unencodable"}]]
    /\ answer \in [Servers -> [Calls -> {"none", "ok", "err", "unsent"}]]
    /\ served \in [Servers -> 0..Cardinality(Calls)] /\ errors \in [Servers -> 0..Cardinality(Calls)]
    /\ net \subseteq Reply /\ ready \in Seq(Entry)
    /\ pc \in [Calls -> {"idle", "waiting", "returned", "undecodable", "failed", "cancelled", "timeout"}]
    /\ future \in [Calls -> {"pending", "result", "error", "cancelled"}]
    /\ timer \in [Calls -> {"off", "armed", "due"}]
    /\ cancelling \in [Calls -> {"no", "timer", "outside"}]
    /\ first \in [Calls -> {"none", "ok", "err"}]

\* When several nodes serve the key, or a reply comes after the timeout, the call
\* ends with the first reply its loop saw and no later one changes that.
FirstAnswerWins ==
    \A c \in Calls :
        /\ pc[c] \in {"returned", "undecodable"} => first[c] = "ok"
        /\ pc[c] = "failed" => first[c] = "err"

\* served counts the replies that were sent, also when the session closed under the
\* handler, and errors the handlers that raised and the requests refused as bad.
CountersMatchAnswers ==
    \A s \in Servers :
        LET Ended(hows) == {c \in Calls : ending[s][c] \in hows} IN
        /\ served[s] = Cardinality({c \in Calls : answer[s][c] = "ok"})
        /\ Cardinality(Ended({"raised"})) <= errors[s]
        /\ errors[s] <= Cardinality(Ended({"raised", "refused"}))

\* Whoever serves, and whatever is lost, a call ends.
CallEnds == \A c \in Calls : pc[c] = "waiting" ~> pc[c] # "waiting"

\* ServiceTimeout means that no reply arrived in time: none was on the caller's loop
\* before the timer (the docstring of call_service).  It holds with the wait_for of
\* Python 3.11; from 3.12 on the timer may win over a reply the loop has just run.
PromptAnswerWins ==
    [][\A c \in Calls : ~newer /\ pc[c] = "waiting" /\ pc'[c] = "timeout" => first[c] = "none"]_vars
==============================================================================

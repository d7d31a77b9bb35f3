---------------------------- MODULE ServiceProofs -----------------------------
(***************************************************************************)
(* Theorems about Service, for any number of servers and of calls: what a   *)
(* caller gets is the first reply it saw, and the counters tell the replies. *)
(***************************************************************************)
EXTENDS Service, FiniteSetTheorems, SequenceTheorems, TLAPS

-----------------------------------------------------------------------------
(* The caller.                                                              *)

CallerTypes ==
    /\ newer \in BOOLEAN
    /\ pc \in [Calls -> {"idle", "waiting", "returned", "undecodable", "failed", "cancelled", "timeout"}]
    /\ future \in [Calls -> {"pending", "result", "error", "cancelled"}]
    /\ cancelling \in [Calls -> {"no", "timer", "outside"}]
    /\ first \in [Calls -> {"none", "ok", "err"}]

\* The future holds the first reply, if it holds one, and the outcome follows it.
Follows == \A c \in Calls :
    /\ future[c] = "pending" => first[c] = "none"
    /\ future[c] = "result" => first[c] = "ok"
    /\ future[c] = "error" => first[c] = "err"
    /\ pc[c] \in {"returned", "undecodable"} => future[c] = "result"
    /\ pc[c] = "failed" => future[c] = "error"
    /\ ~newer /\ pc[c] \in {"idle", "waiting"} => future[c] # "cancelled"

CallerInv == CallerTypes /\ Follows

LEMMA CallerInit == Init => CallerInv
<1>. SUFFICES ASSUME Init PROVE CallerInv
  OBVIOUS
<1>1. newer \in BOOLEAN
  BY DEF Init
<1>2. /\ pc = [c \in Calls |-> "idle"] /\ future = [c \in Calls |-> "pending"]
      /\ cancelling = [c \in Calls |-> "no"] /\ first = [c \in Calls |-> "none"]
  BY DEF Init
<1>. QED  BY <1>1, <1>2 DEF CallerInv, CallerTypes, Follows

\* What everything but the caller's own steps leaves alone.
callVars == <<newer, pc, future, cancelling, first>>

LEMMA CallerStep == CallerInv /\ [Next]_vars => CallerInv'
<1>. SUFFICES ASSUME CallerInv, [Next]_vars PROVE CallerInv'
  OBVIOUS
<1>. USE DEF CallerInv, CallerTypes, Follows
<1>1. ASSUME NEW c \in Calls, Call(c)
      PROVE  CallerInv'
  BY <1>1 DEF Call
<1>2. ASSUME NEW c \in Calls, NEW kind \in {"ok", "err"}, Settle(kind, c)
      PROVE  CallerInv'
  <2>1. newer' = newer /\ pc' = pc /\ cancelling' = cancelling
    BY <1>2 DEF Settle, serverVars
  <2>2. first' = [first EXCEPT ![c] = IF @ = "none" THEN kind ELSE @]
    BY <1>2 DEF Settle
  <2>3. CASE future[c] # "pending" /\ future' = future
    <3>1. CASE future[c] \in {"result", "error"}
      BY <2>1, <2>2, <2>3, <3>1
    <3>2. CASE future[c] = "cancelled"
      BY <2>1, <2>2, <2>3, <3>2
    <3>. QED  BY <2>3, <3>1, <3>2
  <2>4. CASE /\ future[c] = "pending"
             /\ future' = [future EXCEPT ![c] = IF kind = "ok" THEN "result" ELSE "error"]
    BY <2>1, <2>2, <2>4
  <2>. QED  BY <1>2, <2>3, <2>4 DEF Settle, Done
<1>3. ASSUME NEW c \in Calls, NEW by \in {"timer", "outside"}, NEW list, CancelTask(c, by, list), pc[c] = "waiting",
             UNCHANGED <<newer, pc, first>>
      PROVE  CallerInv'
  BY <1>3 DEF CancelTask
<1>4. ASSUME NEW c \in Calls, RunTimer(c)
      PROVE  CallerInv'
  <2>1. CASE pc[c] = "waiting" /\ CancelTask(c, "timer", Tail(ready))
    BY <1>3, <1>4, <2>1 DEF RunTimer, serverVars
  <2>2. CASE UNCHANGED <<future, cancelling>>
    BY <1>4, <2>2 DEF RunTimer, serverVars
  <2>. QED  BY <1>4, <2>1, <2>2 DEF RunTimer
<1>5. ASSUME NEW c \in Calls, Interrupt(c)
      PROVE  CallerInv'
  BY <1>3, <1>5 DEF Interrupt, serverVars
<1>6. ASSUME NEW c \in Calls, RunWake(c)
      PROVE  CallerInv'
  <2>1. PICK outcome \in {"returned", "undecodable", "failed", "cancelled", "timeout"} :
          /\ outcome \in {"returned", "undecodable"} => future[c] = "result"
          /\ outcome = "failed" => future[c] = "error"
          /\ pc' = [pc EXCEPT ![c] = outcome]
    BY <1>6 DEF RunWake
  <2>2. /\ future' = [future EXCEPT ![c] = IF @ = "pending" THEN "cancelled" ELSE @]
        /\ newer' = newer /\ cancelling' = cancelling /\ first' = first
    BY <1>6 DEF RunWake, serverVars
  <2>. QED  BY <2>1, <2>2
<1>7. CASE UNCHANGED callVars
  BY <1>7 DEF callVars
<1>8. ASSUME NEW c \in Calls, TimerDue(c) PROVE UNCHANGED callVars
  BY <1>8 DEF TimerDue, serverVars, callVars
<1>9. ASSUME NEW r, OnReply(r) \/ Lost(r) PROVE UNCHANGED callVars
  BY <1>9 DEF OnReply, Lost, serverVars, callerVars, callVars
<1>10. ASSUME NEW s \in Servers, NEW c \in Calls, Serve(s, c) PROVE UNCHANGED callVars
  BY <1>10 DEF Serve, Refuse, Handle, HandlerReturns, HandlerRaises, HandlerBreaks, callerVars, callVars
<1>11. ASSUME NEW s \in Servers, Undeclare(s) \/ CloseSession(s) PROVE UNCHANGED callVars
  BY <1>11 DEF Undeclare, CloseSession, callerVars, callVars
<1>12. CASE UNCHANGED vars
  BY <1>7, <1>12 DEF vars, serverVars, callerVars, callVars
<1>. QED
  BY <1>1, <1>2, <1>4, <1>5, <1>6, <1>7, <1>8, <1>9, <1>10, <1>11, <1>12 DEF Next, CallerLoop

\* The first reply decides, however many servers answer and whenever the timeout and a
\* cancellation fall (service.py:177-216).
THEOREM FirstAnswerDecides == Spec => []FirstAnswerWins
<1>1. CallerInv => FirstAnswerWins
  BY DEF CallerInv, Follows, FirstAnswerWins
<1>. QED  BY <1>1, CallerInit, CallerStep, PTL DEF Spec

\* With the wait_for of Python 3.11, ServiceTimeout means that no reply was on the loop
\* (service.py:204-216).
THEOREM PromptAnswerDecides == Spec => PromptAnswerWins
<1>1. ASSUME CallerInv, Next, NEW c \in Calls, ~newer, pc[c] = "waiting", pc'[c] = "timeout"
      PROVE  first[c] = "none"
  <2>1. future[c] \notin {"result", "error"}
    <3>1. RunWake(c)
      <4>1. ASSUME NEW d \in Calls, Call(d) PROVE pc'[c] # "timeout"
        BY <1>1, <4>1 DEF Call, CallerInv, CallerTypes
      <4>2. ASSUME NEW d \in Calls, TimerDue(d) \/ Interrupt(d) \/ Settle("ok", d) \/ Settle("err", d) \/ RunTimer(d)
            PROVE  pc' = pc
        BY <4>2 DEF TimerDue, Interrupt, Settle, RunTimer
      <4>3. ASSUME NEW d \in Calls, RunWake(d), d # c PROVE pc'[c] = pc[c]
        BY <4>3 DEF RunWake, CallerInv, CallerTypes
      <4>4. ASSUME NEW r, OnReply(r) \/ Lost(r) PROVE pc' = pc
        BY <4>4 DEF OnReply, Lost, callerVars
      <4>5. ASSUME NEW s \in Servers, NEW d \in Calls, Serve(s, d) PROVE pc' = pc
        BY <4>5 DEF Serve, Refuse, Handle, HandlerReturns, HandlerRaises, HandlerBreaks, callerVars
      <4>6. ASSUME NEW s \in Servers, Undeclare(s) \/ CloseSession(s) PROVE pc' = pc
        BY <4>6 DEF Undeclare, CloseSession, callerVars
      <4>. QED  BY <1>1, <4>1, <4>2, <4>3, <4>4, <4>5, <4>6 DEF Next, CallerLoop
    <3>2. PICK outcome \in {"returned", "undecodable", "failed", "cancelled", "timeout"} :
            /\ outcome = "timeout" => ~Answered(c)
            /\ pc' = [pc EXCEPT ![c] = outcome]
      BY <3>1 DEF RunWake
    <3>3. outcome = "timeout"
      BY <1>1, <3>2 DEF CallerInv, CallerTypes
    <3>. QED  BY <1>1, <3>2, <3>3 DEF Answered
  <2>2. future[c] = "pending"
    BY <1>1, <2>1 DEF CallerInv, CallerTypes, Follows
  <2>. QED  BY <1>1, <2>2 DEF CallerInv, Follows
<1>2. CallerInv /\ [Next]_vars
        => [\A c \in Calls : ~newer /\ pc[c] = "waiting" /\ pc'[c] = "timeout" => first[c] = "none"]_vars
  BY <1>1
<1>. QED  BY <1>2, CallerInit, CallerStep, PTL DEF Spec, PromptAnswerWins

-----------------------------------------------------------------------------
(* The servers.                                                             *)

ServerTypes ==
    /\ server \in [Servers -> {"serving", "undeclared", "closed"}]
    /\ task \in [Servers -> [Calls -> {"none", "queued", "handling", "done"}]]
    /\ ending \in [Servers -> [Calls -> {"none", "refused", "returned", "raised", "cancelled", "unencodable"}]]
    /\ answer \in [Servers -> [Calls -> {"none", "ok", "err", "unsent"}]]
    /\ served \in [Servers -> Nat] /\ errors \in [Servers -> Nat]
    /\ pc \in [Calls -> {"idle", "waiting", "returned", "undecodable", "failed", "cancelled", "timeout"}]

\* A call has one task on a server, which ends and answers once.
Once == \A s \in Servers, c \in Calls :
    /\ pc[c] = "idle" => task[s][c] = "none"
    /\ task[s][c] # "done" => ending[s][c] = "none" /\ answer[s][c] = "none"

Sent(s)      == {c \in Calls : answer[s][c] = "ok"}
Failures(s)  == {c \in Calls : ending[s][c] \in {"raised"}}
Refusals(s)  == {c \in Calls : ending[s][c] \in {"raised", "refused"}}

Tallied == \A s \in Servers :
    /\ served[s] = Cardinality(Sent(s))
    /\ Cardinality(Failures(s)) <= errors[s] /\ errors[s] <= Cardinality(Refusals(s))

ServerInv == ServerTypes /\ Once /\ Tallied

LEMMA CallSets == ASSUME NEW s
                  PROVE  /\ IsFiniteSet(Sent(s)) /\ Cardinality(Sent(s)) \in Nat
                         /\ IsFiniteSet(Failures(s)) /\ Cardinality(Failures(s)) \in Nat
                         /\ IsFiniteSet(Refusals(s)) /\ Cardinality(Refusals(s)) \in Nat
BY FiniteCalls, FS_Subset, FS_CardinalityType DEF Sent, Failures, Refusals

LEMMA ServerInit == Init => ServerInv
<1>. SUFFICES ASSUME Init PROVE ServerInv
  OBVIOUS
<1>1. \A s \in Servers, c \in Calls : task[s][c] = "none" /\ ending[s][c] = "none" /\ answer[s][c] = "none"
  BY DEF Init
<1>2. ServerTypes
  BY DEF Init, ServerTypes
<1>3. \A s \in Servers : Sent(s) = {} /\ Failures(s) = {} /\ Refusals(s) = {} /\ served[s] = 0 /\ errors[s] = 0
  BY <1>1 DEF Init, Sent, Failures, Refusals
<1>4. Tallied
  BY <1>3, FS_EmptySet DEF Tallied
<1>. QED  BY <1>1, <1>2, <1>4 DEF ServerInv, Once

\* What the servers' steps alone change.
tallyVars == <<ending, answer, served, errors>>

LEMMA TalliedSame == Tallied /\ UNCHANGED tallyVars => Tallied'
BY DEF Tallied, tallyVars, Sent, Failures, Refusals

\* A task of s for c ends: how, with which answer, and which counter grows.
Ends(s, c, how, sent, s1, e1) ==
    /\ task' = [task EXCEPT ![s][c] = "done"] /\ ending' = [ending EXCEPT ![s][c] = how]
    /\ answer' = [answer EXCEPT ![s][c] = sent]
    /\ served' = [served EXCEPT ![s] = @ + s1] /\ errors' = [errors EXCEPT ![s] = @ + e1]
    /\ UNCHANGED <<server, pc>>

LEMMA EndsStep ==
    ASSUME ServerInv, NEW s \in Servers, NEW c \in Calls, task[s][c] \in {"queued", "handling"},
           NEW how \in {"refused", "returned", "raised", "cancelled", "unencodable"},
           NEW sent \in {"none", "ok", "err", "unsent"}, NEW s1 \in {0, 1}, NEW e1 \in {0, 1},
           Ends(s, c, how, sent, s1, e1),
           s1 = 1 <=> sent = "ok",
           e1 = 1 => how \in {"raised", "refused"}, how = "raised" => e1 = 1
    PROVE  ServerInv'
<1>1. /\ ending[s][c] = "none" /\ answer[s][c] = "none" /\ pc[c] # "idle"
  BY DEF ServerInv, Once
<1>2. ServerTypes'
  BY DEF ServerInv, ServerTypes, Ends
<1>3. Once'
  BY <1>1 DEF ServerInv, ServerTypes, Once, Ends
<1>4. ASSUME NEW z \in Servers, z # s
      PROVE  /\ served'[z] = Cardinality(Sent(z)')
             /\ Cardinality(Failures(z)') <= errors'[z] /\ errors'[z] <= Cardinality(Refusals(z)')
  <2>1. Sent(z)' = Sent(z) /\ Failures(z)' = Failures(z) /\ Refusals(z)' = Refusals(z)
    BY <1>4 DEF Sent, Failures, Refusals, Ends, ServerInv, ServerTypes
  <2>2. served'[z] = served[z] /\ errors'[z] = errors[z]
    BY <1>4 DEF Ends, ServerInv, ServerTypes
  <2>. QED  BY <2>1, <2>2 DEF ServerInv, Tallied
<1>5. served'[s] = Cardinality(Sent(s)')
  <2>1. Sent(s)' = (IF sent = "ok" THEN Sent(s) \cup {c} ELSE Sent(s)) /\ c \notin Sent(s)
    BY <1>1 DEF Sent, Ends, ServerInv, ServerTypes
  <2>2. served'[s] = served[s] + s1 /\ served[s] = Cardinality(Sent(s))
    BY DEF Ends, ServerInv, ServerTypes, Tallied
  <2>3. Cardinality(Sent(s) \cup {c}) = Cardinality(Sent(s)) + 1
    BY <2>1, CallSets, FS_AddElement
  <2>. QED  BY <2>1, <2>2, <2>3, CallSets
<1>6. Cardinality(Failures(s)') <= errors'[s] /\ errors'[s] <= Cardinality(Refusals(s)')
  <2>1. /\ Failures(s)' = (IF how = "raised" THEN Failures(s) \cup {c} ELSE Failures(s)) /\ c \notin Failures(s)
        /\ Refusals(s)' = (IF how \in {"raised", "refused"} THEN Refusals(s) \cup {c} ELSE Refusals(s))
        /\ c \notin Refusals(s)
    BY <1>1 DEF Failures, Refusals, Ends, ServerInv, ServerTypes
  <2>2. /\ errors'[s] = errors[s] + e1 /\ errors[s] \in Nat
        /\ Cardinality(Failures(s)) <= errors[s] /\ errors[s] <= Cardinality(Refusals(s))
    BY DEF Ends, ServerInv, ServerTypes, Tallied
  <2>3. /\ Cardinality(Failures(s) \cup {c}) = Cardinality(Failures(s)) + 1
        /\ Cardinality(Refusals(s) \cup {c}) = Cardinality(Refusals(s)) + 1
    BY <2>1, CallSets, FS_AddElement
  <2>4. Cardinality(Failures(s)) \in Nat /\ Cardinality(Refusals(s)) \in Nat
    BY CallSets
  <2>5. Cardinality(Failures(s)') <= errors'[s]
    BY <2>1, <2>2, <2>3, <2>4
  <2>6. errors'[s] <= Cardinality(Refusals(s)')
    BY <2>1, <2>2, <2>3, <2>4
  <2>. QED  BY <2>5, <2>6
<1>7. Tallied'
  BY <1>4, <1>5, <1>6 DEF Tallied
<1>. QED  BY <1>2, <1>3, <1>7 DEF ServerInv

LEMMA ServeStep == ASSUME ServerInv, NEW s \in Servers, NEW c \in Calls, Serve(s, c)
                   PROVE  ServerInv'
<1>0. /\ errors = [errors EXCEPT ![s] = @ + 0] /\ served = [served EXCEPT ![s] = @ + 0]
      /\ answer[s][c] = "none" \/ task[s][c] = "done" 
  BY DEF ServerInv, ServerTypes, Once
<1>1. CASE Refuse(s, c)
  <2>1. PICK sent \in {"err", "unsent"} : answer' = [answer EXCEPT ![s][c] = sent]
    BY <1>1 DEF Refuse, Send
  <2>2. PICK e1 \in {0, 1} : errors' = [errors EXCEPT ![s] = @ + e1]
    BY <1>0, <1>1 DEF Refuse, CountError
  <2>3. Ends(s, c, "refused", sent, 0, e1)
    BY <1>0, <1>1, <2>1, <2>2 DEF Refuse, Finished, Ends, callerVars
  <2>. QED  BY <1>1, <2>3, EndsStep DEF Refuse
<1>2. CASE Handle(s, c)
  <2>1. ServerTypes' /\ Once'
    BY <1>2 DEF Handle, ServerInv, ServerTypes, Once, callerVars
  <2>. QED  BY <1>2, <2>1, TalliedSame DEF Handle, ServerInv, tallyVars
<1>3. CASE HandlerReturns(s, c)
  <2>1. CASE server[s] = "closed"
    <3>1. Ends(s, c, "returned", "unsent", 0, 0)
      <4>1. served' = [served EXCEPT ![s] = @ + 0]
        BY <1>0, <1>3, <2>1 DEF HandlerReturns, CountServed, ServerInv, ServerTypes
      <4>. QED  BY <1>0, <1>3, <2>1, <4>1 DEF HandlerReturns, Finished, Send, Ends, callerVars
    <3>. QED  BY <1>3, <3>1, EndsStep DEF HandlerReturns
  <2>2. CASE server[s] # "closed"
    <3>1. Ends(s, c, "returned", "ok", 1, 0)
      <4>1. served' = [served EXCEPT ![s] = @ + 1]
        BY <1>3, <2>2 DEF HandlerReturns, CountServed, ServerInv, ServerTypes
      <4>. QED  BY <1>0, <1>3, <2>2, <4>1 DEF HandlerReturns, Finished, Send, Ends, callerVars
    <3>. QED  BY <1>3, <3>1, EndsStep DEF HandlerReturns
  <2>. QED  BY <2>1, <2>2
<1>4. CASE HandlerRaises(s, c)
  <2>1. PICK sent \in {"err", "unsent"} : answer' = [answer EXCEPT ![s][c] = sent]
    BY <1>4 DEF HandlerRaises, Send
  <2>2. Ends(s, c, "raised", sent, 0, 1)
    BY <1>0, <1>4, <2>1 DEF HandlerRaises, CountError, Finished, Ends, callerVars
  <2>. QED  BY <1>4, <2>2, EndsStep DEF HandlerRaises
<1>5. CASE HandlerBreaks(s, c)
  <2>1. PICK how \in {"cancelled", "unencodable"} : Finished(s, c, how)
    BY <1>5 DEF HandlerBreaks
  <2>2. answer' = [answer EXCEPT ![s][c] = "none"]
    BY <1>0, <1>5 DEF HandlerBreaks, ServerInv, ServerTypes
  <2>3. Ends(s, c, how, "none", 0, 0)
    BY <1>0, <1>5, <2>1, <2>2 DEF HandlerBreaks, Finished, Ends, callerVars
  <2>. QED  BY <1>5, <2>3, EndsStep DEF HandlerBreaks
<1>. QED  BY <1>1, <1>2, <1>3, <1>4, <1>5 DEF Serve

LEMMA ServerStep == ServerInv /\ [Next]_vars => ServerInv'
<1>. SUFFICES ASSUME ServerInv, [Next]_vars PROVE ServerInv'
  OBVIOUS
<1>1. ASSUME NEW c \in Calls, Call(c)
      PROVE  ServerInv'
  <2>1. PICK reached \in SUBSET Servers :
          task' = [s \in Servers |-> [task[s] EXCEPT ![c] = IF s \in reached THEN "queued" ELSE @]]
    BY <1>1 DEF Call
  <2>2. /\ pc' = [pc EXCEPT ![c] = "waiting"] /\ pc[c] = "idle"
        /\ UNCHANGED <<server, ending, answer, served, errors>>
    BY <1>1 DEF Call
  <2>3. ServerTypes'
    BY <2>1, <2>2 DEF ServerInv, ServerTypes
  <2>4. Once'
    BY <2>1, <2>2 DEF ServerInv, ServerTypes, Once
  <2>. QED  BY <2>2, <2>3, <2>4, TalliedSame DEF ServerInv, tallyVars
<1>2. ASSUME UNCHANGED <<server, task, tallyVars>>,
             pc' \in [Calls -> {"idle", "waiting", "returned", "undecodable", "failed", "cancelled", "timeout"}],
             \A c \in Calls : pc'[c] = "idle" => pc[c] = "idle"
      PROVE  ServerInv'
  <2>1. ServerTypes' /\ Once'
    BY <1>2 DEF ServerInv, ServerTypes, Once, tallyVars
  <2>. QED  BY <1>2, <2>1, TalliedSame DEF ServerInv
<1>3. ASSUME NEW c \in Calls, RunWake(c)
      PROVE  ServerInv'
  <2>1. PICK outcome \in {"returned", "undecodable", "failed", "cancelled", "timeout"} :
          pc' = [pc EXCEPT ![c] = outcome]
    BY <1>3 DEF RunWake
  <2>. QED  BY <1>2, <1>3, <2>1 DEF RunWake, serverVars, tallyVars, ServerInv, ServerTypes
<1>4. ASSUME NEW c \in Calls, TimerDue(c) \/ Interrupt(c) \/ Settle("ok", c) \/ Settle("err", c) \/ RunTimer(c)
      PROVE  ServerInv'
  <2>1. pc' = pc /\ UNCHANGED serverVars
    BY <1>4 DEF TimerDue, Interrupt, Settle, RunTimer
  <2>. QED  BY <1>2, <2>1 DEF serverVars, tallyVars, ServerInv, ServerTypes
<1>5. ASSUME NEW r, OnReply(r) \/ Lost(r)
      PROVE  ServerInv'
  <2>1. pc' = pc /\ UNCHANGED serverVars
    BY <1>5 DEF OnReply, Lost, callerVars
  <2>. QED  BY <1>2, <2>1 DEF serverVars, tallyVars, ServerInv, ServerTypes
<1>6. ASSUME NEW s \in Servers, Undeclare(s) \/ CloseSession(s)
      PROVE  ServerInv'
  <2>1. UNCHANGED <<task, tallyVars, pc>>
    BY <1>6 DEF Undeclare, CloseSession, callerVars, tallyVars
  <2>2. server' \in [Servers -> {"serving", "undeclared", "closed"}]
    BY <1>6 DEF Undeclare, CloseSession, ServerInv, ServerTypes
  <2>3. ServerTypes' /\ Once'
    BY <2>1, <2>2 DEF tallyVars, ServerInv, ServerTypes, Once
  <2>. QED  BY <2>1, <2>3, TalliedSame DEF ServerInv
<1>7. CASE UNCHANGED vars
  BY <1>2, <1>7 DEF vars, serverVars, callerVars, tallyVars, ServerInv, ServerTypes
<1>. QED
  BY <1>1, <1>3, <1>4, <1>5, <1>6, <1>7, ServeStep DEF Next, CallerLoop

\* served counts the replies sent and errors the failures, also when a session closes
\* under a handler (service.py:85-148).
THEOREM CountersTellAnswers == Spec => []CountersMatchAnswers
<1>1. ServerInv => CountersMatchAnswers
  BY DEF ServerInv, Tallied, CountersMatchAnswers, Sent, Failures, Refusals
<1>. QED  BY <1>1, ServerInit, ServerStep, PTL DEF Spec

-----------------------------------------------------------------------------
(* Type correctness.                                                        *)

LEMMA NetStep == ASSUME TypeOK, ServerInv, [Next]_vars
                 PROVE  net' \subseteq Reply /\ ready' \in Seq(Entry) /\ timer' \in [Calls -> {"off", "armed", "due"}]
<1>. USE DEF TypeOK
<1>1. \A what \in {"ok", "err", "timer", "wake"}, c \in Calls : [what |-> what, call |-> c] \in Entry
  BY DEF Entry
<1>2. ready # <<>> => Tail(ready) \in Seq(Entry)
  OBVIOUS
<1>3. ASSUME NEW c \in Calls, NEW list \in Seq(Entry) PROVE Waking(c, list) \in Seq(Entry)
  <2>1. Append(list, Wake(c)) \in Seq(Entry)
    BY <1>1 DEF Wake
  <2>. QED  BY <2>1 DEF Waking
<1>4. ASSUME NEW c \in Calls, Call(c)
      PROVE  net' = net /\ ready' = ready /\ timer' \in [Calls -> {"off", "armed", "due"}]
  BY <1>4 DEF Call, Arm
<1>5. ASSUME NEW c \in Calls, TimerDue(c)
      PROVE  net' = net /\ ready' \in Seq(Entry) /\ timer' \in [Calls -> {"off", "armed", "due"}]
  <2>1. Append(ready, [what |-> "timer", call |-> c]) \in Seq(Entry)
    BY <1>1
  <2>. QED  BY <1>5, <2>1 DEF TimerDue
<1>6. ASSUME NEW c \in Calls, Interrupt(c) \/ Settle("ok", c) \/ Settle("err", c) \/ RunTimer(c)
      PROVE  net' = net /\ ready' \in Seq(Entry) /\ timer' = timer
  <2>1. CASE Interrupt(c)
    BY <1>3, <2>1 DEF Interrupt, CancelTask
  <2>2. ASSUME NEW what \in {"ok", "err", "timer"}, Running(what, c),
               ready' = Tail(ready) \/ ready' = Waking(c, Tail(ready))
        PROVE  ready' \in Seq(Entry)
    <3>1. Tail(ready) \in Seq(Entry)
      BY <1>2, <2>2 DEF Running
    <3>. QED  BY <1>3, <2>2, <3>1
  <2>3. CASE Settle("ok", c) \/ Settle("err", c)
    BY <2>2, <2>3 DEF Settle
  <2>4. CASE RunTimer(c)
    BY <2>2, <2>4 DEF RunTimer, CancelTask
  <2>. QED  BY <1>6, <2>1, <2>3, <2>4
<1>7. ASSUME NEW c \in Calls, RunWake(c)
      PROVE  net' = net /\ ready' \in Seq(Entry) /\ timer' \in [Calls -> {"off", "armed", "due"}]
  BY <1>2, <1>7 DEF RunWake, Running
<1>8. ASSUME NEW r \in net, OnReply(r) \/ Lost(r)
      PROVE  net' \subseteq Reply /\ ready' \in Seq(Entry) /\ timer' = timer
  <2>1. [what |-> r.kind, call |-> r.call] \in Entry
    BY DEF Reply, Entry
  <2>2. Append(ready, [what |-> r.kind, call |-> r.call]) \in Seq(Entry)
    BY <2>1
  <2>. QED  BY <1>8, <2>2 DEF OnReply, Lost, callerVars
<1>9. ASSUME NEW s \in Servers, NEW c \in Calls, Serve(s, c)
      PROVE  net' \subseteq Reply /\ ready' = ready /\ timer' = timer
  <2>1. \A kind \in {"ok", "err"} : [server |-> s, call |-> c, kind |-> kind] \in Reply
    BY DEF Reply
  <2>. QED
    BY <1>9, <2>1 DEF Serve, Refuse, Handle, HandlerReturns, HandlerRaises, HandlerBreaks, Send, callerVars
<1>10. ASSUME NEW s \in Servers, Undeclare(s) \/ CloseSession(s)
       PROVE  net' = net /\ ready' = ready /\ timer' = timer
  BY <1>10 DEF Undeclare, CloseSession, callerVars
<1>11. CASE UNCHANGED vars
  BY <1>11 DEF vars, callerVars
<1>. QED
  BY <1>4, <1>5, <1>6, <1>7, <1>8, <1>9, <1>10, <1>11 DEF Next, CallerLoop

\* No more replies or failures are counted than there are calls.
Bounded == served \in [Servers -> 0..Cardinality(Calls)] /\ errors \in [Servers -> 0..Cardinality(Calls)]

LEMMA TallyBounds == ServerInv => Bounded
<1>. SUFFICES ASSUME ServerInv PROVE Bounded
  OBVIOUS
<1>1. ASSUME NEW s \in Servers
      PROVE  served[s] \in 0..Cardinality(Calls) /\ errors[s] \in 0..Cardinality(Calls)
  <2>1. Cardinality(Sent(s)) <= Cardinality(Calls) /\ Cardinality(Refusals(s)) <= Cardinality(Calls)
    BY FiniteCalls, FS_Subset DEF Sent, Refusals
  <2>2. Cardinality(Calls) \in Nat /\ Cardinality(Refusals(s)) \in Nat
    BY FiniteCalls, FS_CardinalityType, CallSets
  <2>3. /\ served[s] = Cardinality(Sent(s)) /\ errors[s] <= Cardinality(Refusals(s))
        /\ served[s] \in Nat /\ errors[s] \in Nat
    BY DEF ServerInv, ServerTypes, Tallied
  <2>. QED  BY <2>1, <2>2, <2>3
<1>. QED  BY <1>1 DEF ServerInv, ServerTypes, Bounded

LEMMA ServiceTypeInit == Init => TypeOK
<1>. SUFFICES ASSUME Init PROVE TypeOK
  OBVIOUS
<1>1. CallerTypes /\ ServerInv
  BY CallerInit, ServerInit DEF CallerInv
<1>2. net = {} /\ ready \in Seq(Entry) /\ timer \in [Calls -> {"off", "armed", "due"}]
  BY DEF Init
<1>. QED  BY <1>1, <1>2, TallyBounds DEF Bounded, CallerTypes, ServerInv, ServerTypes, TypeOK

LEMMA ServiceTypeStep == TypeOK /\ CallerInv /\ ServerInv /\ [Next]_vars => TypeOK'
<1>. SUFFICES ASSUME TypeOK, CallerInv, ServerInv, [Next]_vars PROVE TypeOK'
  OBVIOUS
<1>1. CallerInv' /\ ServerInv'
  BY CallerStep, ServerStep
<1>2. Bounded'
  BY <1>1, TallyBounds, PTL
<1>3. net' \subseteq Reply /\ ready' \in Seq(Entry) /\ timer' \in [Calls -> {"off", "armed", "due"}]
  BY NetStep
<1>. QED  BY <1>1, <1>2, <1>3 DEF Bounded, CallerInv, CallerTypes, ServerInv, ServerTypes, TypeOK

\* The state keeps its types; no counter exceeds the number of calls (service.py:56-216).
THEOREM ServiceTypeCorrect == Spec => []TypeOK
<1>. QED
  BY ServiceTypeInit, ServiceTypeStep, CallerInit, CallerStep, ServerInit, ServerStep, PTL DEF Spec

===============================================================================

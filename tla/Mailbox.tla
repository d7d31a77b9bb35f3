-------------------------------- MODULE Mailbox --------------------------------
(***************************************************************************)
(* What a subscription promises its handler, whichever mode it runs in: a   *)
(* mailbox of fixed capacity that prefers new samples to old ones.  Samples *)
(* enter in order, the oldest gives way when there is no room, the handler  *)
(* gets one at a time, oldest first, and what waits is not left waiting.    *)
(* "latest" mode is the mailbox of capacity one.                            *)
(***************************************************************************)
EXTENDS Naturals, Sequences

CONSTANT Capacity   \* a positive number

VARIABLES
    waiting,    \* the ids of the samples in the mailbox, oldest first
    active,     \* the id the handler works on, 0 if none
    newest,     \* the id of the last sample that entered
    open        \* samples are accepted

vars == <<waiting, active, newest, open>>

Init == waiting = <<>> /\ active = 0 /\ newest = 0 /\ open = TRUE

Enter ==
    /\ open
    /\ newest' \in Nat /\ newest' > newest
    /\ waiting' = Append(IF Len(waiting) = Capacity THEN Tail(waiting) ELSE waiting, newest')
    /\ UNCHANGED <<active, open>>

\* A sample that is not worth the handler's time.
Discard ==
    /\ waiting # <<>> /\ active = 0
    /\ waiting' = Tail(waiting)
    /\ UNCHANGED <<active, newest, open>>

Begin ==
    /\ waiting # <<>> /\ active = 0
    /\ active' = Head(waiting)
    /\ waiting' = Tail(waiting)
    /\ UNCHANGED <<newest, open>>

End ==
    /\ active # 0
    /\ active' = 0
    /\ UNCHANGED <<waiting, newest, open>>

Close ==
    /\ open
    /\ open' = FALSE
    /\ UNCHANGED <<waiting, active, newest>>

Next == Enter \/ Discard \/ Begin \/ End \/ Close

Spec == Init /\ [][Next]_vars

\* While the mailbox is open its owner keeps taking and finishing samples.
FairSpec == Spec /\ WF_vars(open /\ (Discard \/ Begin)) /\ WF_vars(open /\ End)
===============================================================================

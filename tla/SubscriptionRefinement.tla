------------------------- MODULE SubscriptionRefinement -------------------------
(***************************************************************************)
(* A subscription is a mailbox: the refinement mapping from the code-level  *)
(* state of Subscription to that of Mailbox.                                *)
(***************************************************************************)
EXTENDS Subscription

Abstract == INSTANCE Mailbox WITH
    Capacity <- IF Mode = "queue" THEN QueueSize ELSE 1,
    waiting  <- [i \in DOMAIN Waiting |-> Waiting[i].id],
    active   <- IF consumer \in {"busy", "cancelling"} THEN current.id ELSE 0,
    newest   <- usable.id,
    open     <- ~closed

\* In either mode the handler sees the mailbox's behaviour and nothing else:
\* in order, one at a time, the oldest given up first.
ImplementsMailbox == Abstract!Spec

\* ... and it keeps taking samples until stop() is called.
ImplementsFairMailbox == Abstract!FairSpec
=================================================================================

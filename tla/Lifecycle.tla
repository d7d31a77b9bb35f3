-------------------------------- MODULE Lifecycle --------------------------------
(***************************************************************************)
(* What a node promises the outside: it goes up, holds declarations only    *)
(* between going up and being down, gives everything back whichever way it  *)
(* goes down, and never comes back after it ran.                            *)
(***************************************************************************)

VARIABLES
    phase,      \* stopped, starting, running, stopping, or cut
    used,       \* it has been running
    holding     \* the kinds of declarations that are its own to give back

vars == <<phase, used, holding>>

Kinds == {"token", "publishers", "subscriptions", "servers"}

Init == phase = "stopped" /\ used = FALSE /\ holding = {}

\* What others declared on a node that was down is its own from now on.
Start ==
    /\ phase = "stopped" /\ ~used
    /\ phase' = "starting" /\ holding' \in SUBSET Kinds
    /\ UNCHANGED used

\* Before it is down a node declares and gives back as it likes, but while it
\* runs it keeps what it came up with.
Hold ==
    /\ phase \notin {"stopped", "cut"}
    /\ holding' \in SUBSET Kinds
    /\ phase = "running" => holding \subseteq holding'
    /\ UNCHANGED <<phase, used>>

ComeUp ==
    /\ phase = "starting"
    /\ phase' = "running" /\ used' = TRUE
    /\ holding' \in SUBSET Kinds
    /\ {"token", "publishers", "servers"} \subseteq holding'

GoDown ==
    /\ phase = "running"
    /\ phase' = "stopping"
    /\ UNCHANGED <<used, holding>>

\* A failed start and a shutdown end the same way: with nothing held.
BeDown ==
    /\ phase \in {"starting", "stopping"}
    /\ phase' = "stopped" /\ holding' = {}
    /\ UNCHANGED used

\* A start or a way down that is cut short ends the promise.
Cut ==
    /\ phase # "cut"
    /\ phase' = "cut" /\ used' = TRUE /\ holding' = {}

Next == Start \/ Hold \/ ComeUp \/ GoDown \/ BeDown \/ Cut

Spec == Init /\ [][Next]_vars
==================================================================================

---------------------------- MODULE NodeRefinement ----------------------------
(***************************************************************************)
(* A node keeps the contract of module Lifecycle as long as its start and   *)
(* its way down are not cut short.                                          *)
(***************************************************************************)
EXTENDS NodeLifecycle

Contract == INSTANCE Lifecycle WITH
    phase   <- IF node.cut THEN "cut" ELSE node.state,
    used    <- node.cut \/ node.hasRun,
    holding <- IF node.cut THEN {} ELSE Held \ node.late

\* Whatever fails and whatever is declared meanwhile, a node goes through the
\* phases of its contract, and when it is down it has given back all but what was
\* declared behind its teardown.
ImplementsLifecycle == Contract!Spec
===============================================================================

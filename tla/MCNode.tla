-------------------------------- MODULE MCNode --------------------------------
(* Instances of NodeLifecycle for TLC: each cfg gives the constants.          *)
EXTENDS NodeRefinement
===============================================================================

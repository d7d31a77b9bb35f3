------------------------------ MODULE MCMatching ------------------------------
(* Instances of Matching for TLC: each cfg gives the constants.               *)
EXTENDS Matching
===============================================================================

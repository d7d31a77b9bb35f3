------------------------------ MODULE MCPresence ------------------------------
(* Instances of Presence for TLC: each cfg gives the constants.              *)
EXTENDS Presence
===============================================================================

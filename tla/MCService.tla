------------------------------ MODULE MCService ------------------------------
(* Instances of Service for TLC: the cfg gives the servers and the calls.    *)
EXTENDS Service
==============================================================================

---------------------------- MODULE MCLogPublisher ----------------------------
(* Instances of LogPublisher for TLC: the cfg gives the threads that log, the *)
(* length of the deque and the bound on records.                              *)
EXTENDS LogPublisher
===============================================================================

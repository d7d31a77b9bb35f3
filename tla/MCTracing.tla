------------------------------- MODULE MCTracing -------------------------------
(* An instance of Tracing for TLC: the cfg gives the constants.               *)
EXTENDS Tracing
================================================================================

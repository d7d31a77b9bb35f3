----------------------------- MODULE MCHeartbeat ------------------------------
(* Instances of Heartbeat for TLC: each cfg gives the constants.             *)
EXTENDS Heartbeat

\* The timer by itself under every policy, the heartbeat over a busy queue, the
\* heartbeat beside threads that put, and a little of each.
Mixed ==
    {[job |-> "app",    puts |-> 1, arrivals |-> 0],
     [job |-> "health", puts |-> 0, arrivals |-> 3],
     [job |-> "health", puts |-> 2, arrivals |-> 0],
     [job |-> "health", puts |-> 1, arrivals |-> 1]}
==============================================================================

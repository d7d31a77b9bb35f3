---------------------------- MODULE MCSubscription ----------------------------
(* Instances of Subscription for TLC: each cfg gives the constants.          *)
EXTENDS SubscriptionRefinement
===============================================================================

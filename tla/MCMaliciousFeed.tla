-------------------------- MODULE MCMaliciousFeed ---------------------------
(* MaliciousFeed for TLC: three processes. *)
EXTENDS MaliciousFeed

=============================================================================

--------------------------- MODULE MCTrustedFeed ---------------------------
(* TrustedFeed for TLC: a process with two threads and one with one. *)
EXTENDS TrustedFeed

CONSTANTS t1, t2, t3, p1, p2

MCProcessOf == [t \in {t1, t2, t3} |-> IF t = t3 THEN p2 ELSE p1]

=============================================================================

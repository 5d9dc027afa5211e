------------------------ MODULE MCVerdictLifecycle ------------------------
(***************************************************************************)
(* VerdictLifecycle for TLC.  Processes and domains are model values.      *)
(***************************************************************************)
EXTENDS VerdictLifecycle, TLC

CONSTANTS d1, d2, p1, w1, w2, t1, a1

(* The two workers run the same code and are named in no definition. *)
WorkerSymmetry == Permutations({w1, w2})

=============================================================================

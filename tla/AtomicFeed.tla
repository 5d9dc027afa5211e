----------------------------- MODULE AtomicFeed -----------------------------
(***************************************************************************)
(* What an update of the malicious feed promises to the lookups: one       *)
(* published database that expires and is replaced as a whole, and that    *)
(* is only ever lost to a crash.                                           *)
(***************************************************************************)

VARIABLES feed,   \* what is published: "none", "stale" or "current"
          lost    \* the published database has been lost to a crash

vars == <<feed, lost>>

Init == feed \in {"none", "stale", "current"} /\ lost = FALSE

Publish == feed' = "current" /\ UNCHANGED lost

Expire == feed = "current" /\ feed' = "stale" /\ UNCHANGED lost

Lose == feed' = "none" /\ lost' = TRUE

Next == Publish \/ Expire \/ Lose

Spec == Init /\ [][Next]_vars

=============================================================================

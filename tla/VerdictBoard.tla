---------------------------- MODULE VerdictBoard ----------------------------
(***************************************************************************)
(* What the verdict tables promise to whoever reads them, with no process, *)
(* no cache and no provider in sight: what has been said about a domain,   *)
(* the verdict that stands, and whether its review is closed.              *)
(***************************************************************************)

CONSTANT Domains

VARIABLES flagged, vouched,   \* domains that somebody has called malicious, clean
          malicious, clean,   \* domains with a verdict
          purged,             \* domains that have been malicious for too long
          review              \* "none", "open", or the verdict that closed it

vars == <<flagged, vouched, malicious, clean, purged, review>>

Init ==
  /\ flagged = {} /\ vouched = {}
  /\ malicious = {} /\ clean = {} /\ purged = {}
  /\ review = [d \in Domains |-> "none"]

(* A domain that is not under review has no review to close. *)
Close(d, verdict) ==
  review' = IF review[d] = "none" THEN review ELSE [review EXCEPT ![d] = verdict]

(* What is said may become a verdict at once, later or, after a failure,   *)
(* never.                                                                  *)
Flag(d) ==
  /\ flagged' = flagged \cup {d}
  /\ malicious' \in {malicious, malicious \cup {d}}
  /\ UNCHANGED <<vouched, clean, purged, review>>

Vouch(d) ==
  /\ vouched' = vouched \cup {d}
  /\ UNCHANGED <<flagged, malicious, clean, purged, review>>

Condemn(d) ==
  /\ d \in flagged /\ malicious' = malicious \cup {d}
  /\ UNCHANGED <<flagged, vouched, clean, purged, review>>

(* A review is closed as malicious while the verdict stands. *)
CloseMalicious(d) ==
  /\ d \in malicious /\ Close(d, "malicious")
  /\ UNCHANGED <<flagged, vouched, malicious, clean, purged>>

(* The verdict and the review at once, and nothing ever takes it back. *)
Clear(d) ==
  /\ vouched' \in {vouched, vouched \cup {d}} /\ d \in vouched'
  /\ clean' = clean \cup {d} /\ Close(d, "clean")
  /\ UNCHANGED <<flagged, malicious, purged>>

(* Nothing was found, or nobody could be asked. *)
Open(d) ==
  /\ review' = [review EXCEPT ![d] = "open"]
  /\ UNCHANGED <<flagged, vouched, malicious, clean, purged>>

Purge(S) ==
  /\ malicious' = malicious \ S /\ purged' = purged \cup S
  /\ UNCHANGED <<flagged, vouched, clean, review>>

Next ==
  \/ \E d \in Domains : \/ Flag(d) \/ Vouch(d) \/ Condemn(d)
                        \/ CloseMalicious(d) \/ Clear(d) \/ Open(d)
  \/ \E S \in SUBSET malicious : Purge(S)

Spec == Init /\ [][Next]_vars

-----------------------------------------------------------------------------

(* Nothing stands or is closed without its reason. *)
Sound ==
  /\ clean \subseteq vouched /\ malicious \subseteq flagged
  /\ \A d \in Domains :
       /\ review[d] = "malicious" => d \in malicious \cup purged
       /\ review[d] = "clean" => d \in clean

=============================================================================

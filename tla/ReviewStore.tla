---------------------------- MODULE ReviewStore ----------------------------
(***************************************************************************)
(* The PostgreSQL tables that hold what DNSNetra knows about a domain, and *)
(* the repository functions that write them.  Each operator below is one   *)
(* database transaction (one `with get_connection()` block).               *)
(*                                                                         *)
(* Timestamps are abstracted to the two comparisons the code makes with    *)
(* them: next_check_at <= NOW() and updated_at <= NOW() - 15 minutes.      *)
(* Time passes in ElapseToDue and ElapseToStale, at any moment.            *)
(***************************************************************************)
EXTENDS Naturals, FiniteSets

CONSTANTS Domains,    \* normalized domain names
          BatchSize   \* LIMIT of one claim

ASSUME BatchAssumption == BatchSize \in Nat \ {0}

VARIABLES reputation,     \* rows of reputation_domains
          reviewedClean,  \* rows of reviewed_clean_domains
          review          \* rows of daily_review_domains

storeVars == <<reputation, reviewedClean, review>>

Terminal == {"malicious", "clean"}
Awaiting == {"review_needed", "external_lookup_failed"}
ReviewStatus == Terminal \cup Awaiting \cup {"processing"}

Row == [status : ReviewStatus \cup {"absent"}, due : BOOLEAN, stale : BOOLEAN]
NoRow == [status |-> "absent", due |-> FALSE, stale |-> FALSE]

StoreTypeOK ==
  /\ reputation \in SUBSET Domains
  /\ reviewedClean \in SUBSET Domains
  /\ review \in [Domains -> Row]

StoreInit ==
  /\ reputation = {}
  /\ reviewedClean = {}
  /\ review = [d \in Domains |-> NoRow]

HasRow(d) == review[d].status # "absent"
Known(d) == d \in reputation \cup reviewedClean

-----------------------------------------------------------------------------

(* UPDATE ... WHERE domain = d: nothing happens when there is no row. *)
UpdateRow(d, row) ==
  review' = IF HasRow(d) THEN [review EXCEPT ![d] = row] ELSE review

StoreMalicious(d) ==
  /\ reputation' = reputation \cup {d}
  /\ UNCHANGED <<reviewedClean, review>>

(* The second transaction of promote_to_malicious. *)
MarkMalicious(d) ==
  /\ UpdateRow(d, [review[d] EXCEPT !.status = "malicious", !.stale = FALSE])
  /\ UNCHANGED <<reputation, reviewedClean>>

PromoteToClean(d) ==
  /\ reviewedClean' = reviewedClean \cup {d}
  /\ UpdateRow(d, [review[d] EXCEPT !.status = "clean", !.stale = FALSE])
  /\ UNCHANGED reputation

UpsertReviewNeeded(d) ==
  /\ review' = [review EXCEPT ![d] =
                  [status |-> "review_needed", due |-> FALSE, stale |-> FALSE]]
  /\ UNCHANGED <<reputation, reviewedClean>>

(* Mutant: the status models.py lists but no query of the worker selects. *)
RecordApiFailureAsError(d) ==
  /\ UpdateRow(d, [status |-> "error", due |-> FALSE, stale |-> FALSE])
  /\ UNCHANGED <<reputation, reviewedClean>>

RecordApiFailure(d) ==
  /\ UpdateRow(d, [status |-> "external_lookup_failed",
                   due |-> FALSE, stale |-> FALSE])
  /\ UNCHANGED <<reputation, reviewedClean>>

RecordReviewObservation(d) ==
  /\ UpdateRow(d, [review[d] EXCEPT !.stale = FALSE])
  /\ UNCHANGED <<reputation, reviewedClean>>

(* Mutant: a claim that never takes over a stale processing row. *)
ClaimableUnlessProcessing ==
  {d \in Domains : review[d].status \in Awaiting /\ review[d].due}

Claimable ==
  {d \in Domains : \/ review[d].status \in Awaiting /\ review[d].due
                   \/ review[d].status = "processing" /\ review[d].stale}

(* What one LIMIT BatchSize claim may take; FOR UPDATE SKIP LOCKED makes   *)
(* the claim one atomic step.                                              *)
ClaimBatches ==
  IF Cardinality(Claimable) <= BatchSize
  THEN {Claimable}
  ELSE {S \in SUBSET Claimable : Cardinality(S) = BatchSize}

ClaimForProcessing(S) ==
  /\ review' = [d \in Domains |->
                  IF d \in S
                  THEN [review[d] EXCEPT !.status = "processing", !.stale = FALSE]
                  ELSE review[d]]
  /\ UNCHANGED <<reputation, reviewedClean>>

RecoverStaleProcessing ==
  /\ \E d \in Domains : review[d].status = "processing" /\ review[d].stale
  /\ review' = [d \in Domains |->
                  IF review[d].status = "processing" /\ review[d].stale
                  THEN [review[d] EXCEPT !.status = "review_needed", !.stale = FALSE]
                  ELSE review[d]]
  /\ UNCHANGED <<reputation, reviewedClean>>

(* cleanup_old_domains: rows whose last_seen is older than the threshold. *)
CleanupOldDomains(S) ==
  /\ S # {}
  /\ reputation' = reputation \ S
  /\ UNCHANGED <<reviewedClean, review>>

-----------------------------------------------------------------------------

(* The clock passes next_check_at. *)
ElapseToDue(d) ==
  /\ HasRow(d)
  /\ ~review[d].due
  /\ review' = [review EXCEPT ![d].due = TRUE]
  /\ UNCHANGED <<reputation, reviewedClean>>

(* 15 minutes pass since updated_at; only a processing row is asked. *)
ElapseToStale(d) ==
  /\ review[d].status = "processing"
  /\ ~review[d].stale
  /\ review' = [review EXCEPT ![d].stale = TRUE]
  /\ UNCHANGED <<reputation, reviewedClean>>

=============================================================================

-------------------------- MODULE VerdictLifecycle --------------------------
(***************************************************************************)
(* How a domain gets its verdict, and how verdicts are revised.            *)
(*                                                                         *)
(* Four kinds of process work on the tables of ReviewStore at once:        *)
(*   Pipelines  DetectionPipeline.evaluate, in a live or a batch process   *)
(*   Workers    DailyReviewWorker.run_once, in the review daemon           *)
(*   Triggers   POST /{domain}/trigger, a re-investigation asked by an     *)
(*              analyst, with an engine and a cache of its own             *)
(*   Admins     POST /{domain}/verdict and the CLI verdict command         *)
(* Every database transaction, feed lookup and provider round trip is a    *)
(* step of its own, so the processes interleave between any two of them.   *)
(* The answer of the two online providers is an input; Correlation says    *)
(* how it is computed.                                                     *)
(***************************************************************************)
EXTENDS ReviewStore

CONSTANTS Pipelines, Workers, Triggers, Admins,
          None,          \* no domain in hand
          MaxFaults      \* bound on faults and failed writes

ASSUME FaultAssumption == MaxFaults \in Nat
ASSUME NoneAssumption == None \notin Domains

Investigators == Pipelines \cup Workers \cup Triggers
Processes == Investigators \cup Admins

ASSUME DisjointAssumption ==
  /\ Pipelines \cap (Workers \cup Triggers \cup Admins) = {}
  /\ Workers \cap (Triggers \cup Admins) = {}
  /\ Triggers \cap Admins = {}

VARIABLES
  pc,         \* the step each process is about to take
  job,        \* the domain each process has in hand
  batch,      \* domains a worker has claimed and not yet started
  isNew,      \* pipeline: review_record is None
  decision,   \* the ThreatDecision of the investigation in hand
  l1,         \* DetectionPipeline.l1_cache, one per pipeline process
  memory,     \* CorrelationEngine._cache, one per investigator
  faults      \* faults and failed writes so far

VARIABLES     \* history, read by the properties only
  flagged,    \* domains the providers or an admin called malicious
  vouched,    \* domains a provider had a record of, or an admin cleared
  purged,     \* domains cleanup_old_domains once removed
  knownSince  \* domains a pipeline found known when it took them, and
              \* that have stayed known since

local == <<pc, job, batch, isNew, decision, l1, memory, faults>>
history == <<flagged, vouched, purged, knownSince>>
vars == <<reputation, reviewedClean, review, pc, job, batch, isNew, decision,
          l1, memory, faults, flagged, vouched, purged, knownSince>>

Outcomes == {"malicious", "clean", "inconclusive", "unavailable"}
Steps == {"idle", "reputation", "feeds", "reviewedClean", "dailyReview",
          "observe", "engine", "providers", "record", "status", "fallback"}

TypeOK ==
  /\ StoreTypeOK
  /\ pc \in [Processes -> Steps]
  /\ job \in [Processes -> Domains \cup {None}]
  /\ batch \in [Workers -> SUBSET Domains]
  /\ isNew \in [Pipelines -> BOOLEAN]
  /\ decision \in [Processes -> Outcomes \cup {"none"}]
  /\ l1 \in [Pipelines -> [Domains -> {"none", "malicious", "clean"}]]
  /\ memory \in [Investigators -> [Domains -> Outcomes \cup {"none"}]]
  /\ faults \in 0..MaxFaults
  /\ flagged \in SUBSET Domains
  /\ vouched \in SUBSET Domains
  /\ purged \in SUBSET Domains
  /\ knownSince \in [Pipelines -> SUBSET Domains]

Init ==
  /\ StoreInit
  /\ pc = [i \in Processes |-> "idle"]
  /\ job = [i \in Processes |-> None]
  /\ batch = [w \in Workers |-> {}]
  /\ isNew = [p \in Pipelines |-> FALSE]
  /\ decision = [i \in Processes |-> "none"]
  /\ l1 = [p \in Pipelines |-> [d \in Domains |-> "none"]]
  /\ memory = [i \in Investigators |-> [d \in Domains |-> "none"]]
  /\ faults = 0
  /\ flagged = {}
  /\ vouched = {}
  /\ purged = {}
  /\ knownSince = [p \in Pipelines |-> {}]

-----------------------------------------------------------------------------
(* Control of one process. *)

At(i, step) == pc[i] = step
Goto(i, step) == pc' = [pc EXCEPT ![i] = step]

Take(i, d, step) == Goto(i, step) /\ job' = [job EXCEPT ![i] = d]

Fault == faults < MaxFaults /\ faults' = faults + 1

Finish(i) ==
  /\ Goto(i, "idle")
  /\ job' = [job EXCEPT ![i] = None]
  /\ decision' = [decision EXCEPT ![i] = "none"]

(* _populate_l1: a pipeline ends with its verdict cached; others have no L1. *)
PopulateL1(i, verdict) ==
  l1' = IF i \in Pipelines THEN [l1 EXCEPT ![i][job[i]] = verdict] ELSE l1

-----------------------------------------------------------------------------
(* DetectionPipeline.evaluate, up to the investigation. *)

(* The L1 cache: a hit is answered at once and changes nothing. *)
Evaluate(p, d) ==
  /\ At(p, "idle")
  /\ l1[p][d] = "none"
  /\ Take(p, d, "reputation")
  /\ knownSince' = [knownSince EXCEPT ![p] = IF Known(d) THEN {d} ELSE {}]
  /\ UNCHANGED <<storeVars, batch, isNew, decision, l1, memory, faults,
                 flagged, vouched, purged>>

(* Mutant: the trusted feed is looked up before the reputation table. *)
CheckReputationAfterTrusted(p) ==
  /\ At(p, "reputation")
  /\ \/ PopulateL1(p, "clean") /\ Finish(p)
     \/ /\ job[p] \in reputation
        /\ PopulateL1(p, "malicious") /\ Finish(p)
     \/ /\ job[p] \notin reputation
        /\ Goto(p, "feeds") /\ UNCHANGED <<job, decision, l1>>
  /\ UNCHANGED <<storeVars, batch, isNew, memory, faults, history>>

(* Step A. *)
CheckReputation(p) ==
  /\ At(p, "reputation")
  /\ IF job[p] \in reputation
       THEN PopulateL1(p, "malicious") /\ Finish(p)
       ELSE Goto(p, "feeds") /\ UNCHANGED <<job, decision, l1>>
  /\ UNCHANGED <<storeVars, batch, isNew, memory, faults, history>>

(* Steps B and C.  The feeds change daily; what they hold is an input.     *)
CheckFeeds(p) ==
  /\ At(p, "feeds")
  /\ \/ \E verdict \in {"clean", "malicious"} :
          PopulateL1(p, verdict) /\ Finish(p)
     \/ Goto(p, "reviewedClean") /\ UNCHANGED <<job, decision, l1>>
  /\ UNCHANGED <<storeVars, batch, isNew, memory, faults, history>>

(* Mutant: Step D is left out. *)
SkipReviewedClean(p) ==
  /\ At(p, "reviewedClean")
  /\ Goto(p, "dailyReview")
  /\ UNCHANGED <<storeVars, job, decision, l1, batch, isNew, memory, faults,
                 history>>

(* Step D. *)
CheckReviewedClean(p) ==
  /\ At(p, "reviewedClean")
  /\ IF job[p] \in reviewedClean
       THEN PopulateL1(p, "clean") /\ Finish(p)
       ELSE Goto(p, "dailyReview") /\ UNCHANGED <<job, decision, l1>>
  /\ UNCHANGED <<storeVars, batch, isNew, memory, faults, history>>

(* Step E: only next_check_at decides, whatever the status of the row. *)
CheckDailyReview(p) ==
  /\ At(p, "dailyReview")
  /\ isNew' = [isNew EXCEPT ![p] = ~HasRow(job[p])]
  /\ Goto(p, IF HasRow(job[p]) /\ ~review[job[p]].due THEN "observe" ELSE "engine")
  /\ UNCHANGED <<storeVars, job, batch, decision, l1, memory, faults, history>>

ObserveReview(p) ==
  /\ At(p, "observe")
  /\ RecordReviewObservation(job[p])
  /\ Finish(p)
  /\ UNCHANGED <<batch, isNew, l1, memory, faults, history>>

-----------------------------------------------------------------------------
(* CorrelationEngine.evaluate, shared by every investigator. *)

(* The two-layer cache: memory first, then reputation_domains, whose hit   *)
(* is promoted to memory.                                                  *)
ConsultCache(i) ==
  LET d == job[i]
      cached == IF memory[i][d] # "none" THEN memory[i][d]
                ELSE IF d \in reputation THEN "malicious" ELSE "none"
  IN /\ At(i, "engine")
     /\ memory' = [memory EXCEPT ![i][d] = cached]
     /\ decision' = [decision EXCEPT ![i] = cached]
     /\ Goto(i, IF cached = "none" THEN "providers" ELSE "record")
     /\ UNCHANGED <<storeVars, job, batch, isNew, l1, faults, history>>

(* An error of the second layer counts as a miss. *)
CacheDatabaseFails(i) ==
  /\ At(i, "engine")
  /\ memory[i][job[i]] = "none"
  /\ Fault
  /\ Goto(i, "providers")
  /\ UNCHANGED <<storeVars, job, batch, isNew, decision, l1, memory, history>>

(* The providers answer.  Whatever they say is cached; a malicious         *)
(* decision is also stored, and an error of that store is swallowed.       *)
QueryProviders(i, outcome) ==
  LET d == job[i]
  IN /\ At(i, "providers")
     /\ memory' = [memory EXCEPT ![i][d] = outcome]
     /\ decision' = [decision EXCEPT ![i] = outcome]
     /\ Goto(i, "record")
     /\ flagged' = IF outcome = "malicious" THEN flagged \cup {d} ELSE flagged
     /\ vouched' = IF outcome = "clean" THEN vouched \cup {d} ELSE vouched
     /\ \/ outcome = "malicious" /\ StoreMalicious(d)
        \/ UNCHANGED storeVars
     /\ UNCHANGED <<job, batch, isNew, l1, faults, purged, knownSince>>

(* evaluate raises: nothing is cached and the caller sees a failed lookup. *)
EngineRaises(i) ==
  /\ At(i, "providers")
  /\ decision' = [decision EXCEPT ![i] = "unavailable"]
  /\ Goto(i, "record")
  /\ UNCHANGED <<storeVars, job, batch, isNew, l1, memory, faults, history>>

-----------------------------------------------------------------------------
(* What the caller does with the decision. *)

(* All providers failed: a pipeline records it only for a domain that is   *)
(* already under review.                                                   *)
RecordFailure(i) ==
  /\ At(i, "record")
  /\ decision[i] = "unavailable"
  /\ IF i \in Pipelines /\ isNew[i] THEN UNCHANGED storeVars
                                    ELSE RecordApiFailure(job[i])
  /\ Finish(i)
  /\ UNCHANGED <<batch, isNew, l1, memory, faults, history>>

(* Mutant: the status is written first, the verdict in a second step. *)
RecordMaliciousStatusFirst(i) ==
  /\ At(i, "record")
  /\ decision[i] = "malicious"
  /\ MarkMalicious(job[i])
  /\ Goto(i, "status")
  /\ UNCHANGED <<job, batch, isNew, decision, l1, memory, faults, history>>

(* promote_to_malicious is two transactions: the store ... *)
RecordMalicious(i) ==
  /\ At(i, "record")
  /\ decision[i] = "malicious"
  /\ StoreMalicious(job[i])
  /\ Goto(i, "status")
  /\ UNCHANGED <<job, batch, isNew, decision, l1, memory, faults, history>>

(* ... and the status of the review row. *)
RecordMaliciousStatus(i) ==
  /\ At(i, "status")
  /\ MarkMalicious(job[i])
  /\ PopulateL1(i, "malicious")
  /\ Finish(i)
  /\ UNCHANGED <<batch, isNew, memory, faults, history>>

RecordClean(i) ==
  /\ At(i, "record")
  /\ decision[i] = "clean"
  /\ PromoteToClean(job[i])
  /\ PopulateL1(i, "clean")
  /\ Finish(i)
  /\ UNCHANGED <<batch, isNew, memory, faults, history>>

(* Mutant: nothing found is taken for clean. *)
RecordInconclusiveAsClean(i) ==
  /\ At(i, "record")
  /\ decision[i] = "inconclusive"
  /\ PromoteToClean(job[i])
  /\ Finish(i)
  /\ UNCHANGED <<batch, isNew, l1, memory, faults, history>>

RecordInconclusive(i) ==
  /\ At(i, "record")
  /\ decision[i] = "inconclusive"
  /\ UpsertReviewNeeded(job[i])
  /\ Finish(i)
  /\ UNCHANGED <<batch, isNew, l1, memory, faults, history>>

(* A step at a table or a feed fails.  The exception leaves evaluate or    *)
(* the request handler; run_once catches it and records an API failure.    *)
StorageSteps == Steps \ {"idle", "engine", "providers", "fallback"}

StorageRaises(i) ==
  /\ pc[i] \in StorageSteps
  /\ Fault
  /\ IF i \in Workers THEN Goto(i, "fallback") /\ UNCHANGED <<job, decision>>
                      ELSE Finish(i)
  /\ UNCHANGED <<storeVars, batch, isNew, l1, memory, history>>

(* That second write may fail too, and is then dropped. *)
RecordFallback(w) ==
  /\ At(w, "fallback")
  /\ \/ RecordApiFailure(job[w]) /\ UNCHANGED faults
     \/ UNCHANGED storeVars /\ Fault
  /\ Finish(w)
  /\ UNCHANGED <<batch, isNew, l1, memory, history>>

-----------------------------------------------------------------------------
(* The review worker, the analyst's trigger and the admin override. *)

Claim(w) ==
  /\ At(w, "idle")
  /\ batch[w] = {}
  /\ Claimable # {}
  /\ \E S \in ClaimBatches :
       /\ ClaimForProcessing(S)
       /\ batch' = [batch EXCEPT ![w] = S]
  /\ UNCHANGED <<pc, job, isNew, decision, l1, memory, faults, history>>

(* The claimed domains are investigated one after the other, with no       *)
(* further look at their rows.                                             *)
StartNext(w) ==
  /\ At(w, "idle")
  /\ \E d \in batch[w] :
       /\ batch' = [batch EXCEPT ![w] = @ \ {d}]
       /\ Take(w, d, "engine")
  /\ UNCHANGED <<storeVars, isNew, decision, l1, memory, faults, history>>

(* The request builds a new engine, so it starts with an empty cache. *)
Trigger(t, d) ==
  /\ At(t, "idle")
  /\ Take(t, d, "engine")
  /\ memory' = [memory EXCEPT ![t] = [x \in Domains |-> "none"]]
  /\ UNCHANGED <<storeVars, batch, isNew, decision, l1, faults, history>>

AdminClean(a, d) ==
  /\ At(a, "idle")
  /\ PromoteToClean(d)
  /\ vouched' = vouched \cup {d}
  /\ UNCHANGED <<local, flagged, purged, knownSince>>

AdminMalicious(a, d) ==
  /\ At(a, "idle")
  /\ StoreMalicious(d)
  /\ flagged' = flagged \cup {d}
  /\ Take(a, d, "status")
  /\ UNCHANGED <<batch, isNew, decision, l1, memory, faults,
                 vouched, purged, knownSince>>

-----------------------------------------------------------------------------
(* The environment: time, faults, maintenance. *)

(* A cache entry outlives its TTL; get deletes it when it next looks. *)
ExpireL1(p, d) ==
  /\ l1[p][d] # "none"
  /\ l1' = [l1 EXCEPT ![p][d] = "none"]
  /\ UNCHANGED <<storeVars, pc, job, batch, isNew, decision, memory, faults,
                 history>>

ExpireMemory(i, d) ==
  /\ memory[i][d] # "none"
  /\ memory' = [memory EXCEPT ![i][d] = "none"]
  /\ UNCHANGED <<storeVars, pc, job, batch, isNew, decision, l1, faults,
                 history>>

(* A process dies and is started again: all it held in memory is gone. *)
Crash(i) ==
  /\ Fault
  /\ Finish(i)
  /\ batch' = IF i \in Workers THEN [batch EXCEPT ![i] = {}] ELSE batch
  /\ l1' = IF i \in Pipelines
             THEN [l1 EXCEPT ![i] = [d \in Domains |-> "none"]] ELSE l1
  /\ memory' = IF i \in Investigators
                 THEN [memory EXCEPT ![i] = [d \in Domains |-> "none"]]
                 ELSE memory
  /\ UNCHANGED <<storeVars, isNew, history>>

(* A row that promote_to_malicious has just stored is not 180 days old. *)
JustStored == {job[i] : i \in {j \in Processes : pc[j] = "status"}}

CleanupReputation(S) ==
  /\ S \in SUBSET (reputation \ JustStored)
  /\ CleanupOldDomains(S)
  /\ purged' = purged \cup S
  /\ knownSince' = [p \in Pipelines |-> knownSince[p] \ (S \ reviewedClean)]
  /\ UNCHANGED <<local, flagged, vouched>>

RecoverStale == RecoverStaleProcessing /\ UNCHANGED <<local, history>>

Elapse(d) ==
  /\ ElapseToDue(d) \/ ElapseToStale(d)
  /\ UNCHANGED <<local, history>>

-----------------------------------------------------------------------------

PipelineStep(p) ==
  \/ CheckReputation(p) \/ CheckFeeds(p) \/ CheckReviewedClean(p)
  \/ CheckDailyReview(p) \/ ObserveReview(p)

InvestigationStep(i) ==
  \/ ConsultCache(i) \/ CacheDatabaseFails(i) \/ EngineRaises(i)
  \/ \E outcome \in Outcomes : QueryProviders(i, outcome)

RecordStep(i) ==
  \/ RecordFailure(i) \/ RecordMalicious(i) \/ RecordMaliciousStatus(i)
  \/ RecordClean(i) \/ RecordInconclusive(i) \/ StorageRaises(i)

WorkerStep(w) ==
  Claim(w) \/ StartNext(w) \/ RecordFallback(w)
  \/ InvestigationStep(w) \/ RecordStep(w)

AdminStep(a) == RecordMaliciousStatus(a) \/ StorageRaises(a)

Environment ==
  \/ \E p \in Pipelines, d \in Domains : ExpireL1(p, d)
  \/ \E i \in Investigators, d \in Domains : ExpireMemory(i, d)
  \/ \E i \in Processes : Crash(i)
  \/ \E S \in SUBSET Domains : CleanupReputation(S)
  \/ RecoverStale
  \/ \E d \in Domains : Elapse(d)

Next ==
  \/ \E p \in Pipelines, d \in Domains : Evaluate(p, d)
  \/ \E p \in Pipelines : PipelineStep(p)
  \/ \E i \in Pipelines \cup Triggers : InvestigationStep(i) \/ RecordStep(i)
  \/ \E w \in Workers : WorkerStep(w)
  \/ \E t \in Triggers, d \in Domains : Trigger(t, d)
  \/ \E a \in Admins, d \in Domains : AdminClean(a, d) \/ AdminMalicious(a, d)
  \/ \E a \in Admins : AdminStep(a)
  \/ Environment

Spec == Init /\ [][Next]_vars

(* run_daemon loops for ever: a worker that can take a step takes it, and  *)
(* the clock does not stand still.  A pipeline finishes what it started    *)
(* and its cache entries expire.  Nothing makes a query, an analyst or an  *)
(* admin act.                                                              *)
Fairness ==
  /\ \A w \in Workers : WF_vars(WorkerStep(w))
  /\ \A p \in Pipelines :
       WF_vars(PipelineStep(p) \/ InvestigationStep(p) \/ RecordStep(p))
  /\ \A p \in Pipelines, d \in Domains : WF_vars(ExpireL1(p, d))
  /\ \A d \in Domains : WF_vars(Elapse(d))

FairSpec == Spec /\ Fairness

-----------------------------------------------------------------------------
(* Safety. *)

(* No verdict without evidence: a domain is in reviewed_clean_domains only *)
(* if a provider had a record of it or an admin cleared it, and in         *)
(* reputation_domains only if the weighted score or an admin called it     *)
(* malicious.  In particular a failed lookup, or one that found nothing,   *)
(* never makes a domain clean, however it travels through the engine's     *)
(* cache and the retries.                                                  *)
VerdictsEvidenced ==
  /\ reviewedClean \subseteq vouched
  /\ reputation \subseteq flagged

(* A review row that says malicious or clean is backed by the table that   *)
(* DetectionPipeline.evaluate reads: the two transactions of               *)
(* promote_to_malicious, an exception or a crash between them, and any     *)
(* other process at work never leave a terminal status with no verdict     *)
(* behind it (unless cleanup_old_domains has removed the verdict since).   *)
StatusBacked ==
  \A d \in Domains :
    /\ review[d].status = "malicious" => d \in reputation \cup purged
    /\ review[d].status = "clean" => d \in reviewedClean

(* What the readers of the tables see of a review. *)
Review(d) ==
  LET s == review[d].status
  IN  IF s = "absent" THEN "none" ELSE IF s \in Terminal THEN s ELSE "open"

Board == INSTANCE VerdictBoard
           WITH malicious <- reputation, clean <- reviewedClean,
                review <- [d \in Domains |-> Review(d)]

(* Pipelines, workers, triggers and admins, with their caches, claims and  *)
(* transactions, do at the tables what VerdictBoard allows: whatever one   *)
(* of them decided on, and however long ago it read it, each write is one  *)
(* step there, a clean verdict and its review are one write, and a review  *)
(* is closed as malicious only while the verdict stands.                   *)
ImplementsBoard == Board!Spec

(* The contract of evaluate, "do not reprocess a domain that DNSNetra      *)
(* already knows": a pipeline never asks the online providers about a      *)
(* domain that has been in the verdict tables since the query came in.     *)
(* (A worker does not look at them and may.)                               *)
PipelineNeverReprocesses ==
  \A p \in Pipelines : At(p, "providers") => job[p] \notin knownSince[p]

-----------------------------------------------------------------------------
(* Liveness. *)

OpenReview(d) == review[d].status \in Awaiting \cup {"processing"}

(* A review that has come due is eventually closed or rescheduled, though  *)
(* its worker may crash with the row in processing, the providers may fail *)
(* and any write may raise.                                                *)
ReviewsResolved ==
  \A d \in Domains :
    (OpenReview(d) /\ review[d].due) ~> (~OpenReview(d) \/ ~review[d].due)

(* Once a domain stays in reputation_domains every pipeline stops          *)
(* answering clean from its L1 cache for good: an entry written by an      *)
(* evaluation that raced with the promotion expires, and no later          *)
(* evaluation can write another.                                           *)
MaliciousConverges ==
  \A p \in Pipelines, d \in Domains :
    <>[](d \in reputation) => <>[](l1[p][d] # "clean")

=============================================================================

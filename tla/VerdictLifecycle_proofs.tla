----------------------- MODULE VerdictLifecycle_proofs -----------------------
(***************************************************************************)
(* Proofs about VerdictLifecycle, for any sets of domains and processes.   *)
(***************************************************************************)
EXTENDS VerdictLifecycle, TLAPS

(* A process that is not idle has a domain in hand; an idle one has no     *)
(* decision left over from the domain before.                              *)
HandsFull ==
  \A i \in Processes :
    IF At(i, "idle") THEN decision[i] = "none" ELSE job[i] \in Domains

Typed == TypeOK /\ HandsFull

(* Evidence travels with the decision: through an engine's memory, through *)
(* the decision in hand and into the tables.                               *)
MemoryEvidenced ==
  \A i \in Investigators, d \in Domains :
    /\ memory[i][d] = "clean" => d \in vouched
    /\ memory[i][d] = "malicious" => d \in flagged

DecisionEvidenced ==
  \A i \in Processes :
    /\ decision[i] = "clean" => job[i] \in vouched
    /\ decision[i] = "malicious" => job[i] \in flagged

EvidenceInv == VerdictsEvidenced /\ MemoryEvidenced /\ DecisionEvidenced

(* Between its two transactions promote_to_malicious has its verdict. *)
StoredBeforeStatus ==
  \A i \in Processes : At(i, "status") => job[i] \in reputation

BackedInv == StatusBacked /\ StoredBeforeStatus

(* A pipeline that has passed Step A on a domain known since the query     *)
(* came in is about to find it in reviewed_clean_domains.                  *)
KnownSound ==
  \A p \in Pipelines : knownSince[p] \subseteq reputation \cup reviewedClean

StoppedInTime ==
  \A p \in Pipelines : job[p] \in knownSince[p] =>
    /\ pc[p] \in {"feeds", "reviewedClean"} => job[p] \in reviewedClean
    /\ pc[p] \notin {"dailyReview", "observe", "engine", "providers"}

NoReprocessInv == KnownSound /\ StoppedInTime

-----------------------------------------------------------------------------
(* Types. *)

(* Every repository transaction keeps the types of the tables. *)
LEMMA RowTyped ==
  ASSUME StoreTypeOK, NEW d \in Domains
  PROVE  /\ [status |-> "external_lookup_failed", due |-> FALSE, stale |-> FALSE] \in Row
         /\ [status |-> "review_needed", due |-> FALSE, stale |-> FALSE] \in Row
         /\ \A s \in ReviewStatus :
              [review[d] EXCEPT !.status = s, !.stale = FALSE] \in Row
         /\ \A b \in BOOLEAN : [review[d] EXCEPT !.stale = b] \in Row
         /\ \A b \in BOOLEAN : [review[d] EXCEPT !.due = b] \in Row
  BY DEF StoreTypeOK, Row, ReviewStatus, Terminal, Awaiting

LEMMA UpdateTyped ==
  ASSUME StoreTypeOK, NEW d \in Domains, NEW row \in Row, UpdateRow(d, row)
  PROVE  review' \in [Domains -> Row]
  BY DEF StoreTypeOK, UpdateRow

LEMMA StoreTyped ==
  ASSUME StoreTypeOK, NEW d \in Domains,
         \/ StoreMalicious(d) \/ MarkMalicious(d) \/ PromoteToClean(d)
         \/ UpsertReviewNeeded(d) \/ RecordApiFailure(d)
         \/ RecordReviewObservation(d) \/ ElapseToDue(d) \/ ElapseToStale(d)
  PROVE  StoreTypeOK'
<1> "malicious" \in ReviewStatus /\ "clean" \in ReviewStatus
  BY DEF ReviewStatus, Terminal
<1>1. CASE StoreMalicious(d)
  BY <1>1 DEF StoreMalicious, StoreTypeOK
<1>2. CASE MarkMalicious(d)
  BY <1>2, RowTyped, UpdateTyped DEF MarkMalicious, StoreTypeOK
<1>3. CASE PromoteToClean(d)
  BY <1>3, RowTyped, UpdateTyped DEF PromoteToClean, StoreTypeOK
<1>4. CASE UpsertReviewNeeded(d)
  BY <1>4, RowTyped DEF UpsertReviewNeeded, StoreTypeOK
<1>5. CASE RecordApiFailure(d)
  BY <1>5, RowTyped, UpdateTyped DEF RecordApiFailure, StoreTypeOK
<1>6. CASE RecordReviewObservation(d)
  BY <1>6, RowTyped, UpdateTyped DEF RecordReviewObservation, StoreTypeOK
<1>7. CASE ElapseToDue(d) \/ ElapseToStale(d)
  BY <1>7, RowTyped DEF ElapseToDue, ElapseToStale, StoreTypeOK
<1> QED BY <1>1, <1>2, <1>3, <1>4, <1>5, <1>6, <1>7

LEMMA SweepTyped ==
  ASSUME StoreTypeOK,
         RecoverStaleProcessing \/ \E S \in ClaimBatches : ClaimForProcessing(S)
  PROVE  StoreTypeOK'
<1> "processing" \in ReviewStatus /\ "review_needed" \in ReviewStatus
  BY DEF ReviewStatus, Awaiting
<1>1. CASE RecoverStaleProcessing
  BY <1>1, RowTyped DEF RecoverStaleProcessing, StoreTypeOK
<1>2. CASE \E S \in ClaimBatches : ClaimForProcessing(S)
  <2>1. PICK S \in ClaimBatches : ClaimForProcessing(S)
    BY <1>2
  <2>2. \A d \in Domains : review[d] \in Row
    BY DEF StoreTypeOK
  <2>3. \A d \in Domains :
          [review[d] EXCEPT !.status = "processing", !.stale = FALSE] \in Row
    BY RowTyped
  <2> QED BY <2>1, <2>2, <2>3 DEF ClaimForProcessing, StoreTypeOK
<1> QED BY <1>1, <1>2

(* A process that is done is idle with empty hands; the others keep theirs. *)
ControlTyped ==
  /\ pc \in [Processes -> Steps]
  /\ job \in [Processes -> Domains \cup {None}]
  /\ decision \in [Processes -> Outcomes \cup {"none"}]
  /\ HandsFull

LEMMA FinishTyped ==
  ASSUME ControlTyped, NEW i \in Processes, Finish(i)
  PROVE  ControlTyped'
  BY DEF ControlTyped, HandsFull, Finish, Goto, At, Steps

LEMMA PopulateTyped ==
  ASSUME TypeOK, NEW i \in Processes, job[i] \in Domains,
         NEW v \in {"malicious", "clean"}, PopulateL1(i, v)
  PROVE  l1' \in [Pipelines -> [Domains -> {"none", "malicious", "clean"}]]
  BY DEF TypeOK, PopulateL1

(* Every step keeps the types and the hands. *)
LEMMA TypedStep == Typed /\ [Next]_vars => Typed'
<1> SUFFICES ASSUME Typed, [Next]_vars PROVE Typed'
  OBVIOUS
<1>c. ControlTyped
  BY DEF Typed, ControlTyped, TypeOK
<1>1. ASSUME NEW p \in Pipelines, NEW d \in Domains, Evaluate(p, d)
      PROVE  Typed'
  BY <1>1
     DEF Evaluate, Take, Typed, TypeOK, StoreTypeOK, HandsFull, At, Goto,
         storeVars, Steps
<1>2. ASSUME NEW p \in Pipelines, CheckReputation(p)
      PROVE  Typed'
  BY <1>2, <1>c, FinishTyped, PopulateTyped
     DEF CheckReputation, Typed, TypeOK, HandsFull, At, storeVars, history,
         Investigators, Processes, Goto, Steps, StoreTypeOK, ControlTyped
<1>3. ASSUME NEW p \in Pipelines, CheckFeeds(p)
      PROVE  Typed'
  <2>1. CASE \E v \in {"clean", "malicious"} : PopulateL1(p, v) /\ Finish(p)
    <3>1. PICK v \in {"malicious", "clean"} : PopulateL1(p, v) /\ Finish(p)
      BY <2>1
    <3> QED BY <1>3, <1>c, <3>1, FinishTyped, PopulateTyped
              DEF CheckFeeds, Typed, TypeOK, StoreTypeOK, HandsFull, ControlTyped,
                  At, storeVars, history, Investigators, Processes
  <2>2. CASE ~ \E v \in {"clean", "malicious"} : PopulateL1(p, v) /\ Finish(p)
    BY <1>3, <2>2
       DEF CheckFeeds, Typed, TypeOK, StoreTypeOK, HandsFull, ControlTyped, Goto,
           At, Steps, storeVars, history, Investigators, Processes
  <2> QED BY <2>1, <2>2
<1>4. ASSUME NEW p \in Pipelines, CheckReviewedClean(p)
      PROVE  Typed'
  BY <1>4, <1>c, FinishTyped, PopulateTyped
     DEF CheckReviewedClean, Typed, TypeOK, HandsFull, At, storeVars, history,
         Investigators, Processes, Goto, Steps, StoreTypeOK, ControlTyped
<1>5. ASSUME NEW p \in Pipelines, CheckDailyReview(p)
      PROVE  Typed'
  BY <1>5
     DEF CheckDailyReview, Typed, TypeOK, StoreTypeOK, HandsFull, At, Goto,
         storeVars, history, Steps
<1>6. ASSUME NEW p \in Pipelines, ObserveReview(p)
      PROVE  Typed'
  BY <1>6, <1>c, FinishTyped, StoreTyped
     DEF ObserveReview, Typed, TypeOK, HandsFull, At, history, Investigators,
         Processes, ControlTyped
<1>7. ASSUME NEW i \in Investigators, ConsultCache(i)
      PROVE  Typed'
  BY <1>7
     DEF ConsultCache, Typed, TypeOK, StoreTypeOK, HandsFull, At, Goto,
         storeVars, history, Processes, Steps, Outcomes
<1>8. ASSUME NEW i \in Investigators, CacheDatabaseFails(i)
      PROVE  Typed'
  BY <1>8, FaultAssumption
     DEF CacheDatabaseFails, Fault, Typed, TypeOK, StoreTypeOK, HandsFull, At,
         Goto, storeVars, history, Processes, Steps
<1>9. ASSUME NEW i \in Investigators, NEW outcome \in Outcomes, QueryProviders(i, outcome)
      PROVE  Typed'
  BY <1>9
     DEF QueryProviders, StoreMalicious, Typed, TypeOK, StoreTypeOK,
         HandsFull, At, Goto, storeVars, Processes, Steps
<1>10. ASSUME NEW i \in Investigators, EngineRaises(i)
       PROVE  Typed'
  BY <1>10
     DEF EngineRaises, Typed, TypeOK, StoreTypeOK, HandsFull, At, Goto,
         storeVars, history, Steps, Outcomes
<1>11. ASSUME NEW i \in Investigators, RecordFailure(i)
       PROVE  Typed'
  BY <1>11, <1>c, FinishTyped, StoreTyped
     DEF RecordFailure, Typed, TypeOK, HandsFull, storeVars, history,
         Processes, StoreTypeOK, ControlTyped
<1>12. ASSUME NEW i \in Investigators, RecordMalicious(i)
       PROVE  Typed'
  BY <1>12
     DEF RecordMalicious, StoreMalicious, Typed, TypeOK, StoreTypeOK,
         HandsFull, At, Goto, history, Processes, Steps
<1>13. ASSUME NEW i \in Processes, RecordMaliciousStatus(i)
       PROVE  Typed'
  BY <1>13, <1>c, FinishTyped, StoreTyped, PopulateTyped
     DEF RecordMaliciousStatus, Typed, TypeOK, HandsFull, At, history,
         ControlTyped
<1>14. ASSUME NEW i \in Investigators, RecordClean(i)
       PROVE  Typed'
  BY <1>14, <1>c, FinishTyped, StoreTyped, PopulateTyped
     DEF RecordClean, Typed, TypeOK, HandsFull, history, Processes,
         ControlTyped
<1>15. ASSUME NEW i \in Investigators, RecordInconclusive(i)
       PROVE  Typed'
  BY <1>15, <1>c, FinishTyped, StoreTyped
     DEF RecordInconclusive, Typed, TypeOK, HandsFull, history, Processes,
         ControlTyped
<1>16. ASSUME NEW i \in Processes, StorageRaises(i)
       PROVE  Typed'
  <2>1. CASE Finish(i)
    BY <1>16, <2>1, <1>c, FinishTyped, FaultAssumption
       DEF StorageRaises, Typed, TypeOK, StoreTypeOK, HandsFull, ControlTyped,
           Fault, storeVars, history
  <2>2. CASE ~Finish(i)
    <3>1. faults' \in 0..MaxFaults
      BY <1>16, FaultAssumption DEF StorageRaises, Fault, Typed, TypeOK
    <3>2. Goto(i, "fallback") /\ UNCHANGED <<job, decision>>
      BY <1>16, <2>2 DEF StorageRaises
    <3>3. ControlTyped'
      BY <1>16, <1>c, <3>2
         DEF StorageRaises, StorageSteps, ControlTyped, HandsFull, Goto, At, Steps
    <3> QED BY <1>16, <3>1, <3>3
              DEF StorageRaises, Typed, TypeOK, StoreTypeOK, ControlTyped,
                  storeVars, history
  <2> QED BY <2>1, <2>2
<1>17. ASSUME NEW w \in Workers, RecordFallback(w)
       PROVE  Typed'
  BY <1>17, FaultAssumption, <1>c, FinishTyped, StoreTyped
     DEF RecordFallback, Typed, TypeOK, HandsFull, At, storeVars, history,
         Investigators, Processes, Fault, StoreTypeOK, ControlTyped
<1>18. ASSUME NEW w \in Workers, Claim(w)
       PROVE  Typed'
  <2>1. PICK S \in ClaimBatches :
          ClaimForProcessing(S) /\ batch' = [batch EXCEPT ![w] = S]
    BY <1>18 DEF Claim
  <2>2. S \subseteq Domains
    BY DEF ClaimBatches, Claimable
  <2>3. StoreTypeOK'
    BY <2>1, SweepTyped DEF Typed, TypeOK
  <2> QED BY <1>18, <2>1, <2>2, <2>3
            DEF Claim, history, Typed, TypeOK, HandsFull, At, Processes,
                Investigators
<1>19. ASSUME NEW w \in Workers, StartNext(w)
       PROVE  Typed'
  BY <1>19
     DEF StartNext, Take, Typed, TypeOK, StoreTypeOK, HandsFull, At, Goto,
         storeVars, history, Investigators, Processes, Steps
<1>20. ASSUME NEW t \in Triggers, NEW d \in Domains, Trigger(t, d)
       PROVE  Typed'
  BY <1>20
     DEF Trigger, Take, history, Typed, TypeOK, StoreTypeOK, HandsFull, At, Goto,
         storeVars, Steps
<1>21. ASSUME NEW a \in Admins, NEW d \in Domains, AdminClean(a, d)
       PROVE  Typed'
  BY <1>21, StoreTyped
     DEF AdminClean, Typed, TypeOK, HandsFull, At, local
<1>22. ASSUME NEW a \in Admins, NEW d \in Domains, AdminMalicious(a, d)
       PROVE  Typed'
  BY <1>22
     DEF AdminMalicious, Take, StoreMalicious, Typed, TypeOK, StoreTypeOK,
         HandsFull, At, Goto, Steps
<1>23. ASSUME NEW p \in Pipelines, NEW d \in Domains, ExpireL1(p, d)
       PROVE  Typed'
  BY <1>23
     DEF ExpireL1, Typed, TypeOK, StoreTypeOK, HandsFull, At, storeVars,
         history
<1>24. ASSUME NEW i \in Investigators, NEW d \in Domains, ExpireMemory(i, d)
       PROVE  Typed'
  BY <1>24
     DEF ExpireMemory, Typed, TypeOK, StoreTypeOK, HandsFull, At, storeVars,
         history
<1>25. ASSUME NEW i \in Processes, Crash(i)
       PROVE  Typed'
  BY <1>25, FaultAssumption
     DEF Crash, Fault, Finish, Typed, TypeOK, StoreTypeOK, HandsFull, At,
         Goto, storeVars, history, Steps
<1>26. ASSUME NEW S \in SUBSET Domains, CleanupReputation(S)
       PROVE  Typed'
  BY <1>26
     DEF CleanupReputation, CleanupOldDomains, Typed, TypeOK, StoreTypeOK,
         HandsFull, At, local
<1>27. ASSUME RecoverStale
       PROVE  Typed'
  BY <1>27, SweepTyped
     DEF RecoverStale, Typed, TypeOK, HandsFull, At, history, local
<1>28. ASSUME NEW d \in Domains, Elapse(d)
       PROVE  Typed'
  BY <1>28, StoreTyped
     DEF Elapse, Typed, TypeOK, HandsFull, At, history, local
<1>29. CASE UNCHANGED vars
  BY <1>29
     DEF vars, Typed, TypeOK, StoreTypeOK, HandsFull, At
<1> QED
  BY <1>1, <1>2, <1>3, <1>4, <1>5, <1>6, <1>7, <1>8, <1>9, <1>10, <1>11,
     <1>12, <1>13, <1>14, <1>15, <1>16, <1>17, <1>18, <1>19, <1>20, <1>21,
     <1>22, <1>23, <1>24, <1>25, <1>26, <1>27, <1>28, <1>29
     DEF Next, PipelineStep, InvestigationStep, RecordStep, WorkerStep,
         AdminStep, Environment, Investigators, Processes

LEMMA InitTyped == Init => Typed
  BY NoneAssumption, FaultAssumption
     DEF Init, StoreInit, Typed, TypeOK, StoreTypeOK, HandsFull, At, Steps, Row,
         NoRow

(* Every variable stays within its type: no transaction, cache or process  *)
(* step of the verdict machinery ever leaves a value the code has no       *)
(* branch for, and no process works without a domain in hand.              *)
THEOREM TypeCorrect == Spec => []TypeOK
<1>1. Init => Typed
  BY InitTyped
<1>2. Typed /\ [Next]_vars => Typed'
  BY TypedStep
<1>3. Typed => TypeOK
  BY DEF Typed
<1> QED BY <1>1, <1>2, <1>3, PTL DEF Spec

-----------------------------------------------------------------------------
(* Evidence. *)

(* No step brings a verdict into a cache, a hand or a table without evidence. *)
LEMMA EvidenceStep == Typed /\ EvidenceInv /\ [Next]_vars => EvidenceInv'
<1> SUFFICES ASSUME Typed, EvidenceInv, [Next]_vars PROVE EvidenceInv'
  OBVIOUS
<1>1. ASSUME NEW p \in Pipelines, NEW d \in Domains, Evaluate(p, d)
      PROVE  EvidenceInv'
  BY <1>1
     DEF Evaluate, Take, Typed, HandsFull, storeVars, EvidenceInv,
         VerdictsEvidenced, MemoryEvidenced, DecisionEvidenced
<1>2. ASSUME NEW p \in Pipelines, CheckReputation(p)
      PROVE  EvidenceInv'
  BY <1>2
     DEF CheckReputation, Finish, Typed, TypeOK, storeVars, history,
         EvidenceInv, VerdictsEvidenced, MemoryEvidenced, DecisionEvidenced
<1>3. ASSUME NEW p \in Pipelines, CheckFeeds(p)
      PROVE  EvidenceInv'
  BY <1>3
     DEF CheckFeeds, Finish, Typed, TypeOK, storeVars, history, EvidenceInv,
         VerdictsEvidenced, MemoryEvidenced, DecisionEvidenced
<1>4. ASSUME NEW p \in Pipelines, CheckReviewedClean(p)
      PROVE  EvidenceInv'
  BY <1>4
     DEF CheckReviewedClean, Finish, Typed, TypeOK, storeVars, history,
         EvidenceInv, VerdictsEvidenced, MemoryEvidenced, DecisionEvidenced
<1>5. ASSUME NEW p \in Pipelines, CheckDailyReview(p)
      PROVE  EvidenceInv'
  BY <1>5
     DEF CheckDailyReview, storeVars, history, EvidenceInv, VerdictsEvidenced,
         MemoryEvidenced, DecisionEvidenced
<1>6. ASSUME NEW p \in Pipelines, ObserveReview(p)
      PROVE  EvidenceInv'
  BY <1>6
     DEF ObserveReview, RecordReviewObservation, Finish, Typed, TypeOK,
         history, EvidenceInv, VerdictsEvidenced, MemoryEvidenced,
         DecisionEvidenced
<1>7. ASSUME NEW i \in Investigators, ConsultCache(i)
      PROVE  EvidenceInv'
  BY <1>7
     DEF ConsultCache, Typed, HandsFull, At, storeVars, history, EvidenceInv,
         VerdictsEvidenced, MemoryEvidenced, DecisionEvidenced
<1>8. ASSUME NEW i \in Investigators, CacheDatabaseFails(i)
      PROVE  EvidenceInv'
  BY <1>8
     DEF CacheDatabaseFails, storeVars, history, EvidenceInv,
         VerdictsEvidenced, MemoryEvidenced, DecisionEvidenced
<1>9. ASSUME NEW i \in Investigators, NEW outcome \in Outcomes, QueryProviders(i, outcome)
      PROVE  EvidenceInv'
  BY <1>9
     DEF QueryProviders, StoreMalicious, storeVars, EvidenceInv,
         VerdictsEvidenced, MemoryEvidenced, DecisionEvidenced
<1>10. ASSUME NEW i \in Investigators, EngineRaises(i)
       PROVE  EvidenceInv'
  BY <1>10
     DEF EngineRaises, storeVars, history, EvidenceInv, VerdictsEvidenced,
         MemoryEvidenced, DecisionEvidenced
<1>11. ASSUME NEW i \in Investigators, RecordFailure(i)
       PROVE  EvidenceInv'
  BY <1>11
     DEF RecordFailure, RecordApiFailure, Finish, storeVars, history,
         EvidenceInv, VerdictsEvidenced, MemoryEvidenced, DecisionEvidenced
<1>12. ASSUME NEW i \in Investigators, RecordMalicious(i)
       PROVE  EvidenceInv'
  BY <1>12
     DEF RecordMalicious, StoreMalicious, history, Processes, EvidenceInv,
         VerdictsEvidenced, MemoryEvidenced, DecisionEvidenced
<1>13. ASSUME NEW i \in Processes, RecordMaliciousStatus(i)
       PROVE  EvidenceInv'
  BY <1>13
     DEF RecordMaliciousStatus, MarkMalicious, Finish, Typed, TypeOK, history,
         EvidenceInv, VerdictsEvidenced, MemoryEvidenced, DecisionEvidenced
<1>14. ASSUME NEW i \in Investigators, RecordClean(i)
       PROVE  EvidenceInv'
  BY <1>14
     DEF RecordClean, PromoteToClean, Finish, Typed, TypeOK, history,
         Processes, EvidenceInv, VerdictsEvidenced, MemoryEvidenced,
         DecisionEvidenced
<1>15. ASSUME NEW i \in Investigators, RecordInconclusive(i)
       PROVE  EvidenceInv'
  BY <1>15
     DEF RecordInconclusive, UpsertReviewNeeded, Finish, history, EvidenceInv,
         VerdictsEvidenced, MemoryEvidenced, DecisionEvidenced
<1>16. ASSUME NEW i \in Processes, StorageRaises(i)
       PROVE  EvidenceInv'
  BY <1>16
     DEF StorageRaises, Finish, Typed, TypeOK, storeVars, history,
         EvidenceInv, VerdictsEvidenced, MemoryEvidenced, DecisionEvidenced
<1>17. ASSUME NEW w \in Workers, RecordFallback(w)
       PROVE  EvidenceInv'
  BY <1>17
     DEF RecordFallback, RecordApiFailure, Finish, Typed, TypeOK, storeVars,
         history, EvidenceInv, VerdictsEvidenced, MemoryEvidenced,
         DecisionEvidenced
<1>18. ASSUME NEW w \in Workers, Claim(w)
       PROVE  EvidenceInv'
  BY <1>18
     DEF Claim, ClaimForProcessing, history, EvidenceInv, VerdictsEvidenced,
         MemoryEvidenced, DecisionEvidenced
<1>19. ASSUME NEW w \in Workers, StartNext(w)
       PROVE  EvidenceInv'
  BY <1>19
     DEF StartNext, Take, Typed, HandsFull, storeVars, history, EvidenceInv,
         VerdictsEvidenced, MemoryEvidenced, DecisionEvidenced
<1>20. ASSUME NEW t \in Triggers, NEW d \in Domains, Trigger(t, d)
       PROVE  EvidenceInv'
  BY <1>20
     DEF Trigger, Take, history, Typed, HandsFull, storeVars, EvidenceInv,
         VerdictsEvidenced, MemoryEvidenced, DecisionEvidenced
<1>21. ASSUME NEW a \in Admins, NEW d \in Domains, AdminClean(a, d)
       PROVE  EvidenceInv'
  BY <1>21
     DEF AdminClean, PromoteToClean, local, EvidenceInv, VerdictsEvidenced,
         MemoryEvidenced, DecisionEvidenced
<1>22. ASSUME NEW a \in Admins, NEW d \in Domains, AdminMalicious(a, d)
       PROVE  EvidenceInv'
  BY <1>22
     DEF AdminMalicious, Take, StoreMalicious, Typed, HandsFull, EvidenceInv,
         VerdictsEvidenced, MemoryEvidenced, DecisionEvidenced
<1>23. ASSUME NEW p \in Pipelines, NEW d \in Domains, ExpireL1(p, d)
       PROVE  EvidenceInv'
  BY <1>23
     DEF ExpireL1, storeVars, history, EvidenceInv, VerdictsEvidenced,
         MemoryEvidenced, DecisionEvidenced
<1>24. ASSUME NEW i \in Investigators, NEW d \in Domains, ExpireMemory(i, d)
       PROVE  EvidenceInv'
  BY <1>24
     DEF ExpireMemory, storeVars, history, EvidenceInv, VerdictsEvidenced,
         MemoryEvidenced, DecisionEvidenced
<1>25. ASSUME NEW i \in Processes, Crash(i)
       PROVE  EvidenceInv'
  BY <1>25
     DEF Crash, Finish, Typed, TypeOK, storeVars, history, EvidenceInv,
         VerdictsEvidenced, MemoryEvidenced, DecisionEvidenced
<1>26. ASSUME NEW S \in SUBSET Domains, CleanupReputation(S)
       PROVE  EvidenceInv'
  BY <1>26
     DEF CleanupReputation, CleanupOldDomains, local, EvidenceInv,
         VerdictsEvidenced, MemoryEvidenced, DecisionEvidenced
<1>27. ASSUME RecoverStale
       PROVE  EvidenceInv'
  BY <1>27
     DEF RecoverStale, RecoverStaleProcessing, local, history, EvidenceInv,
         VerdictsEvidenced, MemoryEvidenced, DecisionEvidenced
<1>28. ASSUME NEW d \in Domains, Elapse(d)
       PROVE  EvidenceInv'
  BY <1>28
     DEF Elapse, ElapseToDue, ElapseToStale, local, history, EvidenceInv,
         VerdictsEvidenced, MemoryEvidenced, DecisionEvidenced
<1>29. CASE UNCHANGED vars
  BY <1>29
     DEF vars, EvidenceInv, VerdictsEvidenced, MemoryEvidenced,
         DecisionEvidenced
<1> QED
  BY <1>1, <1>2, <1>3, <1>4, <1>5, <1>6, <1>7, <1>8, <1>9, <1>10, <1>11,
     <1>12, <1>13, <1>14, <1>15, <1>16, <1>17, <1>18, <1>19, <1>20, <1>21,
     <1>22, <1>23, <1>24, <1>25, <1>26, <1>27, <1>28, <1>29
     DEF Next, PipelineStep, InvestigationStep, RecordStep, WorkerStep,
         AdminStep, Environment, Investigators, Processes

(* No verdict without evidence, for any number of pipelines, workers,      *)
(* triggers and admins: a failed or empty lookup never makes a domain      *)
(* clean, however it travels through the engine's cache and the retries.   *)
THEOREM VerdictsAlwaysEvidenced == Spec => []VerdictsEvidenced
<1>1. Init => Typed /\ EvidenceInv
  BY InitTyped
     DEF Init, StoreInit, EvidenceInv, VerdictsEvidenced, MemoryEvidenced,
         DecisionEvidenced, Investigators, Processes
<1>2. Typed /\ EvidenceInv /\ [Next]_vars => (Typed /\ EvidenceInv)'
  BY TypedStep, EvidenceStep
<1>3. EvidenceInv => VerdictsEvidenced
  BY DEF EvidenceInv
<1> QED BY <1>1, <1>2, <1>3, PTL DEF Spec

-----------------------------------------------------------------------------
(* Status and verdict. *)

LEMMA ApiFailureStatus ==
  ASSUME StoreTypeOK, NEW d \in Domains, RecordApiFailure(d), NEW x \in Domains
  PROVE  review'[x].status \in {"external_lookup_failed", review[x].status}
  BY DEF StoreTypeOK, RecordApiFailure, UpdateRow

(* No step leaves a terminal status without its verdict. *)
LEMMA BackedStep == Typed /\ BackedInv /\ [Next]_vars => BackedInv'
<1> SUFFICES ASSUME Typed, BackedInv, [Next]_vars PROVE BackedInv'
  OBVIOUS
<1>1. ASSUME NEW p \in Pipelines, NEW d \in Domains, Evaluate(p, d)
      PROVE  BackedInv'
  BY <1>1
     DEF Evaluate, Take, At, Goto, storeVars, BackedInv, StatusBacked,
         StoredBeforeStatus
<1>2. ASSUME NEW p \in Pipelines, CheckReputation(p)
      PROVE  BackedInv'
  BY <1>2
     DEF CheckReputation, Finish, Typed, TypeOK, At, Goto, storeVars, history,
         BackedInv, StatusBacked, StoredBeforeStatus
<1>3. ASSUME NEW p \in Pipelines, CheckFeeds(p)
      PROVE  BackedInv'
  BY <1>3
     DEF CheckFeeds, Finish, Typed, TypeOK, At, Goto, storeVars, history,
         BackedInv, StatusBacked, StoredBeforeStatus
<1>4. ASSUME NEW p \in Pipelines, CheckReviewedClean(p)
      PROVE  BackedInv'
  BY <1>4
     DEF CheckReviewedClean, Finish, Typed, TypeOK, At, Goto, storeVars,
         history, BackedInv, StatusBacked, StoredBeforeStatus
<1>5. ASSUME NEW p \in Pipelines, CheckDailyReview(p)
      PROVE  BackedInv'
  BY <1>5
     DEF CheckDailyReview, At, Goto, storeVars, history, BackedInv,
         StatusBacked, StoredBeforeStatus
<1>6. ASSUME NEW p \in Pipelines, ObserveReview(p)
      PROVE  BackedInv'
  BY <1>6
     DEF ObserveReview, RecordReviewObservation, UpdateRow, Finish, At, Goto,
         history, BackedInv, StatusBacked, StoredBeforeStatus
<1>7. ASSUME NEW i \in Investigators, ConsultCache(i)
      PROVE  BackedInv'
  BY <1>7
     DEF ConsultCache, At, Goto, storeVars, history, BackedInv, StatusBacked,
         StoredBeforeStatus
<1>8. ASSUME NEW i \in Investigators, CacheDatabaseFails(i)
      PROVE  BackedInv'
  BY <1>8
     DEF CacheDatabaseFails, At, Goto, storeVars, history, BackedInv,
         StatusBacked, StoredBeforeStatus
<1>9. ASSUME NEW i \in Investigators, NEW outcome \in Outcomes, QueryProviders(i, outcome)
      PROVE  BackedInv'
  BY <1>9
     DEF QueryProviders, StoreMalicious, At, Goto, storeVars, BackedInv,
         StatusBacked, StoredBeforeStatus
<1>10. ASSUME NEW i \in Investigators, EngineRaises(i)
       PROVE  BackedInv'
  BY <1>10
     DEF EngineRaises, At, Goto, storeVars, history, BackedInv, StatusBacked,
         StoredBeforeStatus
<1>11. ASSUME NEW i \in Investigators, RecordFailure(i)
       PROVE  BackedInv'
  <2>1. ASSUME NEW x \in Domains
        PROVE  review'[x].status \in {"external_lookup_failed", review[x].status}
    <3>1. job[i] \in Domains
      BY <1>11 DEF RecordFailure, Typed, HandsFull, At, Investigators, Processes
    <3>2. CASE RecordApiFailure(job[i])
      BY <3>1, <3>2, ApiFailureStatus DEF Typed, TypeOK
    <3>3. CASE UNCHANGED storeVars
      BY <3>3 DEF storeVars
    <3> QED BY <1>11, <3>2, <3>3 DEF RecordFailure
  <2>2. UNCHANGED <<reputation, reviewedClean, purged>>
    BY <1>11 DEF RecordFailure, RecordApiFailure, storeVars, history
  <2>3. StoredBeforeStatus'
    BY <1>11, <2>2 DEF RecordFailure, Finish, Goto, At, BackedInv, StoredBeforeStatus,
                      Typed, TypeOK
  <2> QED BY <2>1, <2>2, <2>3 DEF BackedInv, StatusBacked
<1>12. ASSUME NEW i \in Investigators, RecordMalicious(i)
       PROVE  BackedInv'
  BY <1>12
     DEF RecordMalicious, StoreMalicious, At, Goto, history, BackedInv,
         StatusBacked, StoredBeforeStatus
<1>13. ASSUME NEW i \in Processes, RecordMaliciousStatus(i)
       PROVE  BackedInv'
  BY <1>13
     DEF RecordMaliciousStatus, MarkMalicious, UpdateRow, Finish, Typed,
         TypeOK, At, Goto, history, BackedInv, StatusBacked,
         StoredBeforeStatus
<1>14. ASSUME NEW i \in Investigators, RecordClean(i)
       PROVE  BackedInv'
  BY <1>14
     DEF RecordClean, PromoteToClean, UpdateRow, Finish, At, Goto, history,
         BackedInv, StatusBacked, StoredBeforeStatus
<1>15. ASSUME NEW i \in Investigators, RecordInconclusive(i)
       PROVE  BackedInv'
  BY <1>15
     DEF RecordInconclusive, UpsertReviewNeeded, Finish, At, Goto, history,
         BackedInv, StatusBacked, StoredBeforeStatus
<1>16. ASSUME NEW i \in Processes, StorageRaises(i)
       PROVE  BackedInv'
  BY <1>16
     DEF StorageRaises, Finish, Typed, TypeOK, At, Goto, storeVars, history,
         BackedInv, StatusBacked, StoredBeforeStatus
<1>17. ASSUME NEW w \in Workers, RecordFallback(w)
       PROVE  BackedInv'
  <2>1. ASSUME NEW x \in Domains
        PROVE  review'[x].status \in {"external_lookup_failed", review[x].status}
    <3>1. job[w] \in Domains
      BY <1>17 DEF RecordFallback, Typed, HandsFull, At, Investigators, Processes
    <3>2. CASE RecordApiFailure(job[w])
      BY <3>1, <3>2, ApiFailureStatus DEF Typed, TypeOK
    <3>3. CASE UNCHANGED storeVars
      BY <3>3 DEF storeVars
    <3> QED BY <1>17, <3>2, <3>3 DEF RecordFallback
  <2>2. UNCHANGED <<reputation, reviewedClean, purged>>
    BY <1>17 DEF RecordFallback, RecordApiFailure, storeVars, history
  <2>3. StoredBeforeStatus'
    BY <1>17, <2>2 DEF RecordFallback, Finish, Goto, At, BackedInv, StoredBeforeStatus,
                      Typed, TypeOK
  <2> QED BY <2>1, <2>2, <2>3 DEF BackedInv, StatusBacked
<1>18. ASSUME NEW w \in Workers, Claim(w)
       PROVE  BackedInv'
  <2>1. PICK S \in ClaimBatches : ClaimForProcessing(S)
    BY <1>18 DEF Claim
  <2>2. ASSUME NEW x \in Domains
        PROVE  review'[x].status \in {"processing", review[x].status}
    <3>1. review[x] \in Row
      BY DEF Typed, TypeOK, StoreTypeOK
    <3>2. [review[x] EXCEPT !.status = "processing", !.stale = FALSE].status
            = "processing"
      BY <3>1 DEF Row
    <3> QED BY <2>1, <3>2 DEF ClaimForProcessing
  <2>3. UNCHANGED <<reputation, reviewedClean, purged, pc, job>>
    BY <1>18, <2>1 DEF Claim, ClaimForProcessing, history
  <2> QED BY <2>2, <2>3 DEF BackedInv, StatusBacked, StoredBeforeStatus, At
<1>19. ASSUME NEW w \in Workers, StartNext(w)
       PROVE  BackedInv'
  BY <1>19
     DEF StartNext, Take, At, Goto, storeVars, history, BackedInv, StatusBacked,
         StoredBeforeStatus
<1>20. ASSUME NEW t \in Triggers, NEW d \in Domains, Trigger(t, d)
       PROVE  BackedInv'
  BY <1>20
     DEF Trigger, Take, history, At, Goto, storeVars, BackedInv, StatusBacked,
         StoredBeforeStatus
<1>21. ASSUME NEW a \in Admins, NEW d \in Domains, AdminClean(a, d)
       PROVE  BackedInv'
  BY <1>21
     DEF AdminClean, PromoteToClean, UpdateRow, At, local, BackedInv,
         StatusBacked, StoredBeforeStatus
<1>22. ASSUME NEW a \in Admins, NEW d \in Domains, AdminMalicious(a, d)
       PROVE  BackedInv'
  BY <1>22
     DEF AdminMalicious, Take, StoreMalicious, Typed, TypeOK, At, Goto, BackedInv,
         StatusBacked, StoredBeforeStatus
<1>23. ASSUME NEW p \in Pipelines, NEW d \in Domains, ExpireL1(p, d)
       PROVE  BackedInv'
  BY <1>23
     DEF ExpireL1, At, storeVars, history, BackedInv, StatusBacked,
         StoredBeforeStatus
<1>24. ASSUME NEW i \in Investigators, NEW d \in Domains, ExpireMemory(i, d)
       PROVE  BackedInv'
  BY <1>24
     DEF ExpireMemory, At, storeVars, history, BackedInv, StatusBacked,
         StoredBeforeStatus
<1>25. ASSUME NEW i \in Processes, Crash(i)
       PROVE  BackedInv'
  BY <1>25
     DEF Crash, Finish, Typed, TypeOK, At, Goto, storeVars, history,
         BackedInv, StatusBacked, StoredBeforeStatus
<1>26. ASSUME NEW S \in SUBSET Domains, CleanupReputation(S)
       PROVE  BackedInv'
  BY <1>26
     DEF CleanupReputation, CleanupOldDomains, At, local, BackedInv,
         StatusBacked, StoredBeforeStatus, JustStored
<1>27. ASSUME RecoverStale
       PROVE  BackedInv'
  <2>1. \A d \in Domains : review'[d].status \in {review[d].status, "review_needed"}
    <3>1. \A d \in Domains : review[d] \in Row
      BY DEF Typed, TypeOK, StoreTypeOK
    <3>2. \A d \in Domains :
            [review[d] EXCEPT !.status = "review_needed", !.stale = FALSE].status
              = "review_needed"
      BY <3>1 DEF Row
    <3> QED BY <1>27, <3>2 DEF RecoverStale, RecoverStaleProcessing
  <2>2. UNCHANGED <<reputation, reviewedClean, pc, job, purged>>
    BY <1>27 DEF RecoverStale, RecoverStaleProcessing, local, history
  <2> QED BY <2>1, <2>2 DEF BackedInv, StatusBacked, StoredBeforeStatus, At
<1>28. ASSUME NEW d \in Domains, Elapse(d)
       PROVE  BackedInv'
  <2>1. ASSUME NEW x \in Domains
        PROVE  review'[x].status = review[x].status
    <3>1. review[x] \in Row /\ review[d] \in Row
      BY DEF Typed, TypeOK, StoreTypeOK
    <3>2. \/ review' = [review EXCEPT ![d].due = TRUE]
          \/ review' = [review EXCEPT ![d].stale = TRUE]
      BY <1>28 DEF Elapse, ElapseToDue, ElapseToStale
    <3>3. /\ [review[d] EXCEPT !.due = TRUE].status = review[d].status
          /\ [review[d] EXCEPT !.stale = TRUE].status = review[d].status
      BY <3>1 DEF Row
    <3>4. review \in [Domains -> Row]
      BY DEF Typed, TypeOK, StoreTypeOK
    <3> QED BY <3>2, <3>3, <3>4
  <2>2. UNCHANGED <<reputation, reviewedClean, purged, pc, job>>
    BY <1>28 DEF Elapse, ElapseToDue, ElapseToStale, local, history
  <2> QED BY <2>1, <2>2 DEF BackedInv, StatusBacked, StoredBeforeStatus, At
<1>29. CASE UNCHANGED vars
  BY <1>29
     DEF vars, At, BackedInv, StatusBacked, StoredBeforeStatus
<1> QED
  BY <1>1, <1>2, <1>3, <1>4, <1>5, <1>6, <1>7, <1>8, <1>9, <1>10, <1>11,
     <1>12, <1>13, <1>14, <1>15, <1>16, <1>17, <1>18, <1>19, <1>20, <1>21,
     <1>22, <1>23, <1>24, <1>25, <1>26, <1>27, <1>28, <1>29
     DEF Next, PipelineStep, InvestigationStep, RecordStep, WorkerStep,
         AdminStep, Environment, Investigators, Processes

(* promote_to_malicious keeps its promise across its two transactions: a   *)
(* row that says malicious or clean has its verdict in the verdict tables. *)
THEOREM StatusAlwaysBacked == Spec => []StatusBacked
<1>1. Init => Typed /\ BackedInv
  BY InitTyped
     DEF Init, StoreInit, NoRow, BackedInv, StatusBacked, StoredBeforeStatus, At
<1>2. Typed /\ BackedInv /\ [Next]_vars => (Typed /\ BackedInv)'
  BY TypedStep, BackedStep
<1>3. BackedInv => StatusBacked
  BY DEF BackedInv
<1> QED BY <1>1, <1>2, <1>3, PTL DEF Spec

-----------------------------------------------------------------------------
(* No reprocessing. *)

(* No step takes a pipeline past Step D with a domain it should have known. *)
LEMMA NoReprocessStep == Typed /\ NoReprocessInv /\ [Next]_vars => NoReprocessInv'
<1> SUFFICES ASSUME Typed, NoReprocessInv, [Next]_vars PROVE NoReprocessInv'
  OBVIOUS
<1>1. ASSUME NEW p \in Pipelines, NEW d \in Domains, Evaluate(p, d)
      PROVE  NoReprocessInv'
  <2>1. /\ pc' = [pc EXCEPT ![p] = "reputation"]
        /\ job' = [job EXCEPT ![p] = d]
        /\ knownSince' = [knownSince EXCEPT ![p] = IF Known(d) THEN {d} ELSE {}]
        /\ UNCHANGED <<reputation, reviewedClean>>
    BY <1>1 DEF Evaluate, Take, Goto, storeVars
  <2>2. pc' \in [Processes -> Steps] /\ pc'[p] = "reputation"
    BY <2>1 DEF Typed, TypeOK, Steps, Processes, Investigators
  <2>3. KnownSound'
    BY <2>1 DEF Typed, TypeOK, NoReprocessInv, KnownSound, Known
  <2>4. ASSUME NEW q \in Pipelines, q # p
        PROVE  job'[q] = job[q] /\ pc'[q] = pc[q] /\ knownSince'[q] = knownSince[q]
    BY <2>1, <2>4 DEF Typed, TypeOK, Processes, Investigators
  <2>5. StoppedInTime'
    BY <2>1, <2>2, <2>4 DEF NoReprocessInv, StoppedInTime
  <2> QED BY <2>3, <2>5 DEF NoReprocessInv
<1>2. ASSUME NEW p \in Pipelines, CheckReputation(p)
      PROVE  NoReprocessInv'
  <2>1. \/ /\ job' = job /\ pc' = [pc EXCEPT ![p] = "feeds"]
           /\ job[p] \notin reputation
        \/ job' = [job EXCEPT ![p] = None] /\ pc' = [pc EXCEPT ![p] = "idle"]
    BY <1>2 DEF CheckReputation, Finish, Goto
  <2>2. UNCHANGED <<reputation, reviewedClean, knownSince>>
    BY <1>2 DEF CheckReputation, storeVars, history
  <2>3. /\ pc \in [Processes -> Steps] /\ job \in [Processes -> Domains \cup {None}]
        /\ Pipelines \subseteq Processes
    BY DEF Typed, TypeOK, Processes, Investigators
  <2> QED
    BY <2>1, <2>2, <2>3 DEF NoReprocessInv, KnownSound, StoppedInTime
<1>3. ASSUME NEW p \in Pipelines, CheckFeeds(p)
      PROVE  NoReprocessInv'
  BY <1>3
     DEF CheckFeeds, Finish, Typed, TypeOK, At, Goto, storeVars, history,
         Investigators, Processes, NoReprocessInv, KnownSound, StoppedInTime
<1>4. ASSUME NEW p \in Pipelines, CheckReviewedClean(p)
      PROVE  NoReprocessInv'
  BY <1>4, DisjointAssumption
     DEF CheckReviewedClean, PopulateL1, Finish, Typed, TypeOK, StoreTypeOK,
         HandsFull, At, Goto, storeVars, history, Investigators, Processes,
         NoReprocessInv, KnownSound, StoppedInTime
<1>5. ASSUME NEW p \in Pipelines, CheckDailyReview(p)
      PROVE  NoReprocessInv'
  BY <1>5
     DEF CheckDailyReview, At, Goto, storeVars, history, NoReprocessInv,
         KnownSound, StoppedInTime
<1>6. ASSUME NEW p \in Pipelines, ObserveReview(p)
      PROVE  NoReprocessInv'
  BY <1>6
     DEF ObserveReview, RecordReviewObservation, Finish, Typed, TypeOK, Goto,
         history, NoReprocessInv, KnownSound, StoppedInTime
<1>7. ASSUME NEW i \in Investigators, ConsultCache(i)
      PROVE  NoReprocessInv'
  BY <1>7
     DEF ConsultCache, At, Goto, storeVars, history, NoReprocessInv,
         KnownSound, StoppedInTime
<1>8. ASSUME NEW i \in Investigators, CacheDatabaseFails(i)
      PROVE  NoReprocessInv'
  BY <1>8
     DEF CacheDatabaseFails, At, Goto, storeVars, history, NoReprocessInv,
         KnownSound, StoppedInTime
<1>9. ASSUME NEW i \in Investigators, NEW outcome \in Outcomes, QueryProviders(i, outcome)
      PROVE  NoReprocessInv'
  BY <1>9
     DEF QueryProviders, StoreMalicious, Goto, storeVars, NoReprocessInv,
         KnownSound, StoppedInTime
<1>10. ASSUME NEW i \in Investigators, EngineRaises(i)
       PROVE  NoReprocessInv'
  BY <1>10
     DEF EngineRaises, Goto, storeVars, history, NoReprocessInv, KnownSound,
         StoppedInTime
<1>11. ASSUME NEW i \in Investigators, RecordFailure(i)
       PROVE  NoReprocessInv'
  BY <1>11
     DEF RecordFailure, RecordApiFailure, Finish, Typed, TypeOK, Goto,
         storeVars, history, NoReprocessInv, KnownSound, StoppedInTime
<1>12. ASSUME NEW i \in Investigators, RecordMalicious(i)
       PROVE  NoReprocessInv'
  BY <1>12
     DEF RecordMalicious, StoreMalicious, Goto, history, NoReprocessInv,
         KnownSound, StoppedInTime
<1>13. ASSUME NEW i \in Processes, RecordMaliciousStatus(i)
       PROVE  NoReprocessInv'
  BY <1>13
     DEF RecordMaliciousStatus, MarkMalicious, Finish, Typed, TypeOK, Goto,
         history, NoReprocessInv, KnownSound, StoppedInTime
<1>14. ASSUME NEW i \in Investigators, RecordClean(i)
       PROVE  NoReprocessInv'
  BY <1>14
     DEF RecordClean, PromoteToClean, Finish, Typed, TypeOK, Goto, history,
         NoReprocessInv, KnownSound, StoppedInTime
<1>15. ASSUME NEW i \in Investigators, RecordInconclusive(i)
       PROVE  NoReprocessInv'
  BY <1>15
     DEF RecordInconclusive, UpsertReviewNeeded, Finish, Typed, TypeOK, Goto,
         history, NoReprocessInv, KnownSound, StoppedInTime
<1>16. ASSUME NEW i \in Processes, StorageRaises(i)
       PROVE  NoReprocessInv'
  BY <1>16, DisjointAssumption
     DEF StorageRaises, StorageSteps, Fault, Finish, Typed, TypeOK,
         StoreTypeOK, HandsFull, At, Goto, storeVars, history, Investigators,
         Processes, NoReprocessInv, KnownSound, StoppedInTime
<1>17. ASSUME NEW w \in Workers, RecordFallback(w)
       PROVE  NoReprocessInv'
  BY <1>17, DisjointAssumption
     DEF RecordFallback, RecordApiFailure, Finish, Goto, storeVars, history,
         NoReprocessInv, KnownSound, StoppedInTime
<1>18. ASSUME NEW w \in Workers, Claim(w)
       PROVE  NoReprocessInv'
  BY <1>18
     DEF Claim, ClaimForProcessing, history, NoReprocessInv, KnownSound,
         StoppedInTime
<1>19. ASSUME NEW w \in Workers, StartNext(w)
       PROVE  NoReprocessInv'
  BY <1>19, DisjointAssumption
     DEF StartNext, Take, Goto, storeVars, history, NoReprocessInv, KnownSound,
         StoppedInTime
<1>20. ASSUME NEW t \in Triggers, NEW d \in Domains, Trigger(t, d)
       PROVE  NoReprocessInv'
  BY <1>20, DisjointAssumption
     DEF Trigger, Take, history, Goto, storeVars, NoReprocessInv, KnownSound,
         StoppedInTime, Known
<1>21. ASSUME NEW a \in Admins, NEW d \in Domains, AdminClean(a, d)
       PROVE  NoReprocessInv'
  BY <1>21
     DEF AdminClean, PromoteToClean, local, NoReprocessInv, KnownSound,
         StoppedInTime
<1>22. ASSUME NEW a \in Admins, NEW d \in Domains, AdminMalicious(a, d)
       PROVE  NoReprocessInv'
  BY <1>22, DisjointAssumption
     DEF AdminMalicious, Take, StoreMalicious, Goto, NoReprocessInv, KnownSound,
         StoppedInTime
<1>23. ASSUME NEW p \in Pipelines, NEW d \in Domains, ExpireL1(p, d)
       PROVE  NoReprocessInv'
  BY <1>23
     DEF ExpireL1, storeVars, history, NoReprocessInv, KnownSound,
         StoppedInTime
<1>24. ASSUME NEW i \in Investigators, NEW d \in Domains, ExpireMemory(i, d)
       PROVE  NoReprocessInv'
  BY <1>24
     DEF ExpireMemory, storeVars, history, NoReprocessInv, KnownSound,
         StoppedInTime
<1>25. ASSUME NEW i \in Processes, Crash(i)
       PROVE  NoReprocessInv'
  BY <1>25
     DEF Crash, Finish, Typed, TypeOK, Goto, storeVars, history,
         NoReprocessInv, KnownSound, StoppedInTime
<1>26. ASSUME NEW S \in SUBSET Domains, CleanupReputation(S)
       PROVE  NoReprocessInv'
  BY <1>26
     DEF CleanupReputation, CleanupOldDomains, local, Investigators,
         Processes, NoReprocessInv, KnownSound, StoppedInTime
<1>27. ASSUME RecoverStale
       PROVE  NoReprocessInv'
  BY <1>27
     DEF RecoverStale, RecoverStaleProcessing, local, history, NoReprocessInv,
         KnownSound, StoppedInTime
<1>28. ASSUME NEW d \in Domains, Elapse(d)
       PROVE  NoReprocessInv'
  BY <1>28
     DEF Elapse, ElapseToDue, ElapseToStale, local, history, NoReprocessInv,
         KnownSound, StoppedInTime
<1>29. CASE UNCHANGED vars
  BY <1>29
     DEF vars, NoReprocessInv, KnownSound, StoppedInTime
<1> QED
  BY <1>1, <1>2, <1>3, <1>4, <1>5, <1>6, <1>7, <1>8, <1>9, <1>10, <1>11,
     <1>12, <1>13, <1>14, <1>15, <1>16, <1>17, <1>18, <1>19, <1>20, <1>21,
     <1>22, <1>23, <1>24, <1>25, <1>26, <1>27, <1>28, <1>29
     DEF Next, PipelineStep, InvestigationStep, RecordStep, WorkerStep,
         AdminStep, Environment, Investigators, Processes

(* DetectionPipeline.evaluate never asks the online providers about a      *)
(* domain that has been known since the query came in, whatever the other  *)
(* processes and the retention cleanup do to the tables meanwhile.         *)
THEOREM PipelineStopsAtKnownDomains == Spec => []PipelineNeverReprocesses
<1>1. Init => Typed /\ NoReprocessInv
  BY InitTyped
     DEF Init, StoreInit, NoReprocessInv, KnownSound, StoppedInTime, Processes,
         Investigators
<1>2. Typed /\ NoReprocessInv /\ [Next]_vars => (Typed /\ NoReprocessInv)'
  BY TypedStep, NoReprocessStep
<1>3. NoReprocessInv => PipelineNeverReprocesses
  BY DEF NoReprocessInv, StoppedInTime, PipelineNeverReprocesses, At
<1> QED BY <1>1, <1>2, <1>3, PTL DEF Spec

-----------------------------------------------------------------------------
(* The board.  A process that stores a verdict has the evidence for it, and *)
(* one that closes a review has its verdict: with EvidenceInv and BackedInv *)
(* each step is a move of the board or leaves it alone.                     *)

Reviews == [d \in Domains |-> Review(d)]

Shown == <<flagged, vouched, reputation, reviewedClean, purged>>

LEMMA ReviewsRemain ==
  ASSUME \A d \in Domains : review'[d].status = review[d].status
  PROVE  Reviews' = Reviews
BY DEF Reviews, Review

LEMMA RowsHaveStatus ==
  ASSUME StoreTypeOK, NEW d \in Domains
  PROVE  /\ review \in [Domains -> Row]
         /\ review[d].status \in ReviewStatus \cup {"absent"}
         /\ \A s, b :
              [review[d] EXCEPT !.status = s, !.stale = b].status = s
         /\ \A b : [review[d] EXCEPT !.stale = b].status = review[d].status
         /\ \A b : [review[d] EXCEPT !.due = b].status = review[d].status
BY DEF StoreTypeOK, Row

LEMMA BoardCloses ==
  ASSUME StoreTypeOK, NEW d \in Domains, NEW verdict \in Terminal,
         UpdateRow(d, [review[d] EXCEPT !.status = verdict, !.stale = FALSE])
  PROVE  Board!Close(d, verdict)
<1>1. CASE HasRow(d)
  <2>1. review' = [review EXCEPT ![d] =
                     [review[d] EXCEPT !.status = verdict, !.stale = FALSE]]
    BY <1>1 DEF UpdateRow
  <2>2. review'[d].status = verdict /\ \A x \in Domains : x # d => review'[x] = review[x]
    BY <2>1, RowsHaveStatus
  <2>3. Reviews' = [Reviews EXCEPT ![d] = verdict]
    BY <2>2 DEF Reviews, Review, Terminal
  <2>4. Reviews[d] # "none"
    BY <1>1 DEF Reviews, Review, HasRow, Terminal
  <2> QED BY <2>3, <2>4 DEF Board!Close, Reviews
<1>2. CASE ~HasRow(d)
  <2>1. review' = review /\ Reviews[d] = "none"
    BY <1>2 DEF UpdateRow, HasRow, Reviews, Review
  <2>2. Reviews' = Reviews
    BY <2>1, ReviewsRemain
  <2> QED BY <2>1, <2>2 DEF Board!Close, Reviews
<1> QED BY <1>1, <1>2

(* The row of a domain that nothing was found about. *)
LEMMA BoardOpens ==
  ASSUME StoreTypeOK, NEW d \in Domains, RecordApiFailure(d) \/ UpsertReviewNeeded(d),
         UNCHANGED <<flagged, vouched, purged>>
  PROVE  Board!Open(d) \/ UNCHANGED <<Shown, Reviews>>
<1>1. UNCHANGED Shown
  BY DEF RecordApiFailure, UpsertReviewNeeded, Shown
<1>2. CASE review' = review
  BY <1>1, <1>2, ReviewsRemain
<1>3. CASE review' # review
  <2>1. \/ review' = [review EXCEPT ![d] =
                        [status |-> "external_lookup_failed", due |-> FALSE, stale |-> FALSE]]
        \/ review' = [review EXCEPT ![d] =
                        [status |-> "review_needed", due |-> FALSE, stale |-> FALSE]]
    BY <1>3 DEF RecordApiFailure, UpsertReviewNeeded, UpdateRow
  <2>2. /\ review'[d].status \in Awaiting
        /\ \A x \in Domains : x # d => review'[x] = review[x]
    BY <2>1, RowsHaveStatus DEF Awaiting
  <2>3. Reviews' = [Reviews EXCEPT ![d] = "open"]
    BY <2>2 DEF Reviews, Review, Terminal, Awaiting
  <2> QED BY <1>1, <2>3 DEF Board!Open, Reviews, Shown
<1> QED BY <1>2, <1>3

(* Claims, recovery and the clock move an open review about. *)
LEMMA OpenStaysOpen ==
  ASSUME StoreTypeOK,
         \/ \E S \in ClaimBatches : ClaimForProcessing(S)
         \/ RecoverStaleProcessing
         \/ \E d \in Domains : ElapseToDue(d) \/ ElapseToStale(d) \/ RecordReviewObservation(d)
  PROVE  Reviews' = Reviews
<1>1. ASSUME NEW S \in ClaimBatches, ClaimForProcessing(S) PROVE Reviews' = Reviews
  <2>1. S \subseteq Claimable
    BY DEF ClaimBatches
  <2> SUFFICES ASSUME NEW x \in Domains PROVE Review(x)' = Review(x)
    BY DEF Reviews
  <2>2. CASE x \in S
    <3>1. review'[x].status = "processing"
      BY <1>1, <2>2, RowsHaveStatus DEF ClaimForProcessing
    <3>2. review[x].status \in Awaiting \cup {"processing"}
      BY <2>1, <2>2 DEF Claimable
    <3> QED BY <3>1, <3>2 DEF Review, Awaiting, Terminal
  <2>3. CASE x \notin S
    BY <1>1, <2>3 DEF ClaimForProcessing, Review
  <2> QED BY <2>2, <2>3
<1>2. CASE RecoverStaleProcessing
  <2> SUFFICES ASSUME NEW x \in Domains PROVE Review(x)' = Review(x)
    BY DEF Reviews
  <2>1. CASE review[x].status = "processing" /\ review[x].stale
    <3>1. review'[x].status = "review_needed"
      BY <1>2, <2>1, RowsHaveStatus DEF RecoverStaleProcessing
    <3> QED BY <2>1, <3>1 DEF Review, Terminal
  <2>2. CASE ~(review[x].status = "processing" /\ review[x].stale)
    BY <1>2, <2>2 DEF RecoverStaleProcessing, Review
  <2> QED BY <2>1, <2>2
<1>3. ASSUME NEW d \in Domains,
             ElapseToDue(d) \/ ElapseToStale(d) \/ RecordReviewObservation(d)
      PROVE  Reviews' = Reviews
  <2>1. \/ review' = [review EXCEPT ![d].due = TRUE]
        \/ review' = [review EXCEPT ![d].stale = TRUE]
        \/ review' = [review EXCEPT ![d] = [review[d] EXCEPT !.stale = FALSE]]
        \/ review' = review
    BY <1>3 DEF ElapseToDue, ElapseToStale, RecordReviewObservation, UpdateRow
  <2>2. /\ review \in [Domains -> Row]
        /\ [review[d] EXCEPT !.due = TRUE].status = review[d].status
        /\ [review[d] EXCEPT !.stale = TRUE].status = review[d].status
        /\ [review[d] EXCEPT !.stale = FALSE].status = review[d].status
    BY RowsHaveStatus
  <2>3. \A x \in Domains : review'[x].status = review[x].status
    BY <2>1, <2>2
  <2> QED BY <2>3, ReviewsRemain
<1> QED BY <1>1, <1>2, <1>3

BoardInv == Typed /\ EvidenceInv /\ BackedInv

LEMMA StepMoves == BoardInv /\ [Next]_vars => [Board!Next]_Board!vars
<1> SUFFICES ASSUME BoardInv, [Next]_vars
             PROVE  Board!Next \/ UNCHANGED <<Shown, Reviews>>
  BY DEF Board!vars, Shown, Reviews
<1>t. /\ StoreTypeOK
      /\ \A i \in Processes : ~At(i, "idle") => job[i] \in Domains
  BY DEF BoardInv, Typed, TypeOK, HandsFull
<1>a. ASSUME UNCHANGED Shown, UNCHANGED review PROVE UNCHANGED <<Shown, Reviews>>
  BY <1>a, ReviewsRemain
<1>1. ASSUME NEW i \in Investigators, NEW outcome \in Outcomes, QueryProviders(i, outcome)
      PROVE  Board!Next \/ UNCHANGED <<Shown, Reviews>>
  <2>1. job[i] \in Domains
    BY <1>1, <1>t DEF QueryProviders, At, Investigators, Processes
  <2>2. UNCHANGED <<reviewedClean, review, purged>> /\ Reviews' = Reviews
    BY <1>1, ReviewsRemain DEF QueryProviders, StoreMalicious, storeVars
  <2>3. CASE outcome = "malicious"
    <3>1. /\ flagged' = flagged \cup {job[i]} /\ vouched' = vouched
          /\ reputation' \in {reputation, reputation \cup {job[i]}}
      BY <1>1, <2>3 DEF QueryProviders, StoreMalicious, storeVars
    <3> QED BY <2>1, <2>2, <3>1 DEF Board!Next, Board!Flag, Reviews
  <2>4. CASE outcome = "clean"
    <3>1. vouched' = vouched \cup {job[i]} /\ UNCHANGED <<flagged, reputation>>
      BY <1>1, <2>4 DEF QueryProviders, storeVars
    <3> QED BY <2>1, <2>2, <3>1 DEF Board!Next, Board!Vouch, Reviews
  <2>5. CASE outcome \notin {"malicious", "clean"}
    BY <1>1, <1>a, <2>5 DEF QueryProviders, storeVars, Shown
  <2> QED BY <2>3, <2>4, <2>5
<1>2. ASSUME NEW i \in Investigators, RecordMalicious(i) PROVE Board!Next
  <2>1. job[i] \in Domains /\ job[i] \in flagged
    BY <1>2, <1>t
       DEF RecordMalicious, At, Investigators, Processes, BoardInv, EvidenceInv,
           DecisionEvidenced
  <2>2. Reviews' = Reviews
    BY <1>2, ReviewsRemain DEF RecordMalicious, StoreMalicious
  <2> QED
    BY <1>2, <2>1, <2>2
       DEF RecordMalicious, StoreMalicious, history, Board!Next, Board!Condemn, Reviews
<1>3. ASSUME NEW i \in Processes, RecordMaliciousStatus(i) PROVE Board!Next
  <2>1. job[i] \in Domains /\ job[i] \in reputation
    BY <1>3, <1>t DEF RecordMaliciousStatus, At, BoardInv, BackedInv, StoredBeforeStatus
  <2>2. Board!Close(job[i], "malicious")
    BY <1>3, <1>t, <2>1, BoardCloses DEF RecordMaliciousStatus, MarkMalicious, Terminal
  <2> QED
    BY <1>3, <2>1, <2>2
       DEF RecordMaliciousStatus, MarkMalicious, history, Board!Next, Board!CloseMalicious
<1>4. ASSUME NEW i \in Investigators, RecordClean(i) PROVE Board!Next
  <2>1. job[i] \in Domains /\ job[i] \in vouched
    BY <1>4, <1>t
       DEF RecordClean, At, Investigators, Processes, BoardInv, EvidenceInv,
           DecisionEvidenced
  <2>2. Board!Close(job[i], "clean")
    BY <1>4, <1>t, <2>1, BoardCloses DEF RecordClean, PromoteToClean, Terminal
  <2> QED
    BY <1>4, <2>1, <2>2
       DEF RecordClean, PromoteToClean, history, Board!Next, Board!Clear
<1>5. ASSUME NEW a \in Admins, NEW d \in Domains, AdminClean(a, d) PROVE Board!Next
  <2>1. Board!Close(d, "clean")
    BY <1>5, <1>t, BoardCloses DEF AdminClean, PromoteToClean, Terminal
  <2> QED
    BY <1>5, <2>1 DEF AdminClean, PromoteToClean, Board!Next, Board!Clear
<1>6. ASSUME NEW a \in Admins, NEW d \in Domains, AdminMalicious(a, d) PROVE Board!Next
  <2>1. Reviews' = Reviews
    BY <1>6, ReviewsRemain DEF AdminMalicious, StoreMalicious
  <2> QED
    BY <1>6, <2>1 DEF AdminMalicious, StoreMalicious, Board!Next, Board!Flag, Reviews
<1>7. ASSUME NEW i \in Processes, job[i] \in Domains,
             RecordApiFailure(job[i]) \/ UpsertReviewNeeded(job[i]),
             UNCHANGED <<flagged, vouched, purged>>
      PROVE  Board!Next \/ UNCHANGED <<Shown, Reviews>>
  <2>1. Board!Open(job[i]) \/ UNCHANGED <<Shown, Reviews>>
    BY <1>7, <1>t, BoardOpens
  <2> QED BY <1>7, <2>1 DEF Board!Next
<1>8. ASSUME NEW i \in Investigators, RecordFailure(i)
      PROVE  Board!Next \/ UNCHANGED <<Shown, Reviews>>
  <2>1. i \in Processes /\ job[i] \in Domains /\ UNCHANGED <<flagged, vouched, purged>>
    BY <1>8, <1>t DEF RecordFailure, At, Investigators, Processes, history
  <2> QED BY <1>8, <1>7, <1>a, <2>1 DEF RecordFailure, storeVars, Shown
<1>9. ASSUME NEW i \in Investigators, RecordInconclusive(i)
      PROVE  Board!Next \/ UNCHANGED <<Shown, Reviews>>
  <2>1. i \in Processes /\ job[i] \in Domains /\ UNCHANGED <<flagged, vouched, purged>>
    BY <1>9, <1>t DEF RecordInconclusive, At, Investigators, Processes, history
  <2> QED BY <1>9, <1>7, <2>1 DEF RecordInconclusive
<1>10. ASSUME NEW w \in Workers, RecordFallback(w)
       PROVE  Board!Next \/ UNCHANGED <<Shown, Reviews>>
  <2>1. w \in Processes /\ job[w] \in Domains /\ UNCHANGED <<flagged, vouched, purged>>
    BY <1>10, <1>t DEF RecordFallback, At, Investigators, Processes, history
  <2> QED BY <1>10, <1>7, <1>a, <2>1 DEF RecordFallback, storeVars, Shown
<1>11. ASSUME NEW p \in Pipelines, ObserveReview(p) PROVE UNCHANGED <<Shown, Reviews>>
  <2>1. job[p] \in Domains
    BY <1>11, <1>t DEF ObserveReview, At, Investigators, Processes
  <2> QED
    BY <1>11, <1>t, <2>1, OpenStaysOpen
       DEF ObserveReview, RecordReviewObservation, history, Shown
<1>12. ASSUME NEW w \in Workers, Claim(w) PROVE UNCHANGED <<Shown, Reviews>>
  BY <1>12, <1>t, OpenStaysOpen DEF Claim, ClaimForProcessing, history, Shown
<1>13. CASE RecoverStale
  BY <1>13, <1>t, OpenStaysOpen DEF RecoverStale, RecoverStaleProcessing, history, Shown
<1>14. ASSUME NEW d \in Domains, Elapse(d) PROVE UNCHANGED <<Shown, Reviews>>
  BY <1>14, <1>t, OpenStaysOpen DEF Elapse, ElapseToDue, ElapseToStale, history, Shown
<1>15. ASSUME NEW S \in SUBSET Domains, CleanupReputation(S) PROVE Board!Next
  <2>1. S \in SUBSET reputation /\ Reviews' = Reviews
    BY <1>15, ReviewsRemain DEF CleanupReputation, CleanupOldDomains
  <2> QED
    BY <1>15, <2>1
       DEF CleanupReputation, CleanupOldDomains, Board!Next, Board!Purge, Reviews
<1>16. ASSUME NEW p \in Pipelines,
              CheckReputation(p) \/ CheckFeeds(p) \/ CheckReviewedClean(p) \/ CheckDailyReview(p)
       PROVE  UNCHANGED <<Shown, Reviews>>
  BY <1>16, <1>a
     DEF CheckReputation, CheckFeeds, CheckReviewedClean, CheckDailyReview, storeVars,
         history, Shown
<1>17. ASSUME NEW i \in Investigators, ConsultCache(i) \/ CacheDatabaseFails(i) \/ EngineRaises(i)
       PROVE  UNCHANGED <<Shown, Reviews>>
  BY <1>17, <1>a
     DEF ConsultCache, CacheDatabaseFails, EngineRaises, storeVars, history, Shown
<1>18. ASSUME NEW i \in Processes, StorageRaises(i) \/ Crash(i)
       PROVE  UNCHANGED <<Shown, Reviews>>
  BY <1>18, <1>a DEF StorageRaises, Crash, storeVars, history, Shown
<1>19. ASSUME NEW i \in Processes, NEW d \in Domains,
              Evaluate(i, d) \/ Trigger(i, d) \/ ExpireL1(i, d) \/ ExpireMemory(i, d)
       PROVE  UNCHANGED <<Shown, Reviews>>
  BY <1>19, <1>a DEF Evaluate, Trigger, ExpireL1, ExpireMemory, storeVars, history, Shown
<1>20. ASSUME NEW w \in Workers, StartNext(w) PROVE UNCHANGED <<Shown, Reviews>>
  BY <1>20, <1>a DEF StartNext, storeVars, history, Shown
<1>21. CASE UNCHANGED vars
  BY <1>21, <1>a DEF vars, Shown
<1> QED
  BY <1>1, <1>2, <1>3, <1>4, <1>5, <1>6, <1>8, <1>9, <1>10, <1>11, <1>12, <1>13,
     <1>14, <1>15, <1>16, <1>17, <1>18, <1>19, <1>20, <1>21
     DEF Next, PipelineStep, InvestigationStep, RecordStep, WorkerStep,
         AdminStep, Environment, Investigators, Processes

(* Any number of pipelines, workers, triggers and admins, whatever they    *)
(* have cached, claimed or read before, move the tables only as the board  *)
(* allows.                                                                 *)
THEOREM ProcessesImplementBoard == Spec => ImplementsBoard
<1>1. Init => BoardInv /\ Board!Init
  <2> SUFFICES ASSUME Init PROVE BoardInv /\ Board!Init
    OBVIOUS
  <2>1. BoardInv
    BY InitTyped
       DEF Init, StoreInit, NoRow, BoardInv, EvidenceInv, VerdictsEvidenced,
           MemoryEvidenced, DecisionEvidenced, Investigators, Processes, BackedInv,
           StatusBacked, StoredBeforeStatus, At
  <2>2. Reviews = [d \in Domains |-> "none"]
    BY DEF Init, StoreInit, NoRow, Reviews, Review
  <2> QED BY <2>1, <2>2 DEF Init, StoreInit, Board!Init, Reviews
<1>2. BoardInv /\ [Next]_vars => BoardInv'
  BY TypedStep, EvidenceStep, BackedStep DEF BoardInv
<1> QED
  BY <1>1, <1>2, StepMoves, PTL DEF Spec, ImplementsBoard, Board!Spec

(* The moves of the board alone are enough for a reader: whatever makes    *)
(* them, no verdict stands and no review is closed without its reason.     *)
THEOREM BoardStaysSound == Board!Spec => []Board!Sound
<1>1. Board!Init => Board!Sound
  BY DEF Board!Init, Board!Sound
<1>2. Board!Sound /\ [Board!Next]_Board!vars => Board!Sound'
  <2> SUFFICES ASSUME Board!Sound, [Board!Next]_Board!vars PROVE Board!Sound'
    OBVIOUS
  <2>1. ASSUME NEW d \in Domains,
               Board!Flag(d) \/ Board!Vouch(d) \/ Board!Condemn(d)
        PROVE  Board!Sound'
    BY <2>1 DEF Board!Flag, Board!Vouch, Board!Condemn, Board!Sound
  <2>2. ASSUME NEW d \in Domains, Board!CloseMalicious(d) PROVE Board!Sound'
    BY <2>2 DEF Board!CloseMalicious, Board!Close, Board!Sound
  <2>3. ASSUME NEW d \in Domains, Board!Clear(d) PROVE Board!Sound'
    BY <2>3 DEF Board!Clear, Board!Close, Board!Sound
  <2>4. ASSUME NEW d \in Domains, Board!Open(d) PROVE Board!Sound'
    BY <2>4 DEF Board!Open, Board!Sound
  <2>5. ASSUME NEW S \in SUBSET reputation, Board!Purge(S) PROVE Board!Sound'
    BY <2>5 DEF Board!Purge, Board!Sound
  <2>6. CASE UNCHANGED Board!vars
    BY <2>6 DEF Board!vars, Board!Sound
  <2> QED BY <2>1, <2>2, <2>3, <2>4, <2>5, <2>6 DEF Board!Next
<1> QED BY <1>1, <1>2, PTL DEF Board!Spec

=============================================================================

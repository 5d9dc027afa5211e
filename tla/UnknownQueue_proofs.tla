------------------------- MODULE UnknownQueue_proofs -------------------------
(***************************************************************************)
(* Proofs about UnknownQueue, for any domains, any number of runs that     *)
(* overlap and any number of faults.                                       *)
(***************************************************************************)
EXTENDS UnknownQueue, FiniteSetTheorems, TLAPS

Listing == {"claim", "evaluate", "store", "mark"}

(* A run has one row of its list in its hands, or none. *)
InHand ==
  \A r \in Runs :
    IF pc[r] \in {"evaluate", "store", "mark"}
    THEN \E d \in todo[r] : current[r] = {d}
    ELSE current[r] = {}

NoList == \A r \in Runs : pc[r] \in {"idle", "profile", "filter", "list"} => todo[r] = {}

(* A row that is not shared is on one list, and still open there. *)
OneList ==
  \A r, q \in Runs, d \in Domains \ shared :
    pc[r] \in Listing /\ pc[q] \in Listing /\ d \in todo[r] /\ d \in todo[q] => r = q

ListedOpen ==
  \A r \in Runs, d \in Domains \ shared :
    pc[r] \in Listing /\ d \in todo[r] => status[d] \in {"NEW", "PROCESSING"}

DecisionIsAnswer ==
  \A r \in Runs, d \in Domains \ shared :
    pc[r] = "store" /\ d \in current[r] => answer[d] = decision[r]

IInv ==
  /\ TypeOK /\ InHand /\ NoList /\ OneList /\ ListedOpen
  /\ DecisionIsAnswer /\ OutcomeIsLastAnswer

LEMMA InitInv == Init => IInv
  BY QueueAssumption DEF Init, IInv, TypeOK, InHand, NoList, OneList, ListedOpen,
     DecisionIsAnswer, OutcomeIsLastAnswer, Steps, Statuses, Outcomes, Decisions,
     Listing, Absent

LEMMA FaultBounded ==
  ASSUME faults \in 0..MaxFaults, Fault
  PROVE  faults' \in 0..MaxFaults
  BY QueueAssumption DEF Fault

(* The parts of the invariant after one step of a run. *)
LEMMA StepInv ==
  ASSUME IInv, NEW r \in Runs, Work(r) \/ Fail(r)
  PROVE  IInv'
<1> USE DEF IInv, TypeOK, InHand, NoList, OneList, ListedOpen, DecisionIsAnswer,
      OutcomeIsLastAnswer, Steps, Statuses, Outcomes, Decisions, Listing, Absent, Goto
<1>1. CASE Begin(r)
  BY <1>1 DEF Begin
<1>2. CASE UpsertChunk(r)
  BY <1>2 DEF UpsertChunk, Chunks, SeenAgain
<1>3. CASE Persisted(r)
  BY <1>3 DEF Persisted
<1>4. CASE List(r)
  BY <1>4 DEF List, Listed, New
<1>5. CASE Claim(r)
  <2>1. PICK d \in todo[r] : /\ current' = [current EXCEPT ![r] = {d}]
                             /\ status' = [status EXCEPT ![d] = "PROCESSING"]
    BY <1>5 DEF Claim
  <2>2. /\ d \in Domains /\ pc[r] = "claim" /\ pc' = [pc EXCEPT ![r] = "evaluate"]
        /\ UNCHANGED <<todo, decision, faults, answer, shared>>
    BY <1>5 DEF Claim
  <2>3. TypeOK' /\ InHand' /\ NoList'
    BY <2>1, <2>2
  <2>4. OneList' /\ ListedOpen'
    BY <2>1, <2>2
  <2>5. DecisionIsAnswer'
    BY <2>1, <2>2
  <2>6. OutcomeIsLastAnswer'
    BY <2>1, <2>2
  <2> QED
    BY <2>3, <2>4, <2>5, <2>6
<1>6. CASE Finish(r)
  BY <1>6 DEF Finish, End
<1>7. CASE Evaluate(r)
  BY <1>7 DEF Evaluate
<1>8. CASE Store(r)
  BY <1>8 DEF Store, Settle, Outcome
<1>9. CASE MarkError(r)
  <2>1. CASE Settle(r, "ERROR")
    BY <1>9, <2>1 DEF MarkError, Settle
  <2>2. CASE End(r) /\ UNCHANGED status
    BY <1>9, <2>2 DEF MarkError, End
  <2> QED
    BY <1>9, <2>1, <2>2 DEF MarkError
<1>10. CASE UpsertChunkFails(r)
  BY <1>10, FaultBounded DEF UpsertChunkFails, Chunks
<1>11. CASE ListFails(r)
  BY <1>11, FaultBounded DEF ListFails, End
<1>12. CASE ClaimFails(r)
  BY <1>12, FaultBounded DEF ClaimFails
<1>13. CASE EvaluateFails(r)
  BY <1>13, FaultBounded DEF EvaluateFails
<1>14. CASE StoreFails(r)
  BY <1>14, FaultBounded DEF StoreFails
<1>15. CASE Crash(r)
  BY <1>15, FaultBounded DEF Crash, End
<1>16. CASE Profile(r)
  BY <1>16 DEF Profile
<1>17. CASE ProfileFails(r)
  BY <1>17, FaultBounded DEF ProfileFails, End
<1>18. CASE LongLog(r)
  BY <1>18 DEF LongLog, End
<1>19. CASE NothingUnknown(r)
  BY <1>19 DEF NothingUnknown, End
<1>20. CASE SelectUnknown(r)
  BY <1>20 DEF SelectUnknown
<1> HIDE DEF IInv
<1> QED
  BY <1>16, <1>17, <1>18, <1>19, <1>20, <1>1, <1>2, <1>3, <1>4, <1>5, <1>6, <1>7, <1>8,
     <1>9, <1>10, <1>11, <1>12, <1>13, <1>14, <1>15
     DEF Work, Fail

LEMMA NextInv == IInv /\ [Next]_vars => IInv'
<1> SUFFICES ASSUME IInv, [Next]_vars PROVE IInv'
  OBVIOUS
<1>1. CASE UNCHANGED vars
  BY <1>1 DEF vars, IInv, TypeOK, InHand, NoList, OneList, ListedOpen,
     DecisionIsAnswer, OutcomeIsLastAnswer
<1>2. CASE Next
  BY <1>2, StepInv DEF Next
<1> QED
  BY <1>1, <1>2

LEMMA Invariant == Spec => []IInv
BY InitInv, NextInv, PTL DEF Spec

(* The variables keep their types. *)
THEOREM TypeCorrect == Spec => []TypeOK
<1>1. IInv => TypeOK
  BY DEF IInv
<1> QED
  BY <1>1, Invariant, PTL

(* What a row says is what the providers said last, unless two runs had it *)
(* on their lists at once.                                                 *)
THEOREM OutcomesAreAnswers == Spec => []OutcomeIsLastAnswer
<1>1. IInv => OutcomeIsLastAnswer
  BY DEF IInv
<1> QED
  BY <1>1, Invariant, PTL

-----------------------------------------------------------------------------

LEMMA StepIsFinal ==
  ASSUME IInv, NEW r \in Runs, Work(r) \/ Fail(r), NEW d \in Domains \ shared,
         status[d] \in {"CLEAN", "MALICIOUS"}
  PROVE  status'[d] = status[d]
<1> USE DEF IInv, TypeOK, InHand, ListedOpen, Listing
<1>1. CASE Claim(r)
  BY <1>1 DEF Claim
<1>2. CASE Store(r)
  BY <1>2 DEF Store, Settle
<1>3. CASE MarkError(r)
  BY <1>3 DEF MarkError, Settle
<1>4. CASE UpsertChunk(r)
  BY <1>4 DEF UpsertChunk, SeenAgain, Absent
<1>5. CASE \/ Begin(r) \/ Profile(r) \/ LongLog(r) \/ NothingUnknown(r) \/ SelectUnknown(r)
           \/ Persisted(r) \/ List(r) \/ Finish(r) \/ Evaluate(r) \/ Fail(r)
  BY <1>5
     DEF Begin, Profile, LongLog, NothingUnknown, SelectUnknown, Persisted, List, Finish,
         Evaluate, Fail, ProfileFails, UpsertChunkFails, ListFails, ClaimFails,
         EvaluateFails, StoreFails, Crash
<1> QED
  BY <1>1, <1>2, <1>3, <1>4, <1>5 DEF Work

(* CLEAN and MALICIOUS are final unless two runs had the row listed. *)
THEOREM VerdictsAreFinal == Spec => VerdictIsFinal
<1> DEFINE Final == \A d \in Domains \ shared :
      status[d] \in {"CLEAN", "MALICIOUS"} => status'[d] = status[d]
<1>1. IInv /\ [Next]_vars => [Final]_vars
  BY StepIsFinal DEF Next
<1> QED
  BY <1>1, Invariant, PTL DEF Spec, VerdictIsFinal

-----------------------------------------------------------------------------

LEMMA Shrinks ==
  ASSUME NEW S, IsFiniteSet(S), NEW T, T \subseteq S
  PROVE  IsFiniteSet(T) /\ Cardinality(T) <= Cardinality(S)
  BY FS_Subset

LEMMA Grows ==
  ASSUME NEW S, IsFiniteSet(S), NEW T, NEW x, T \subseteq S \cup {x}
  PROVE  IsFiniteSet(T) /\ Cardinality(T) <= Cardinality(S) + 1
<1>0. Cardinality(S) \in Nat
  BY FS_CardinalityType
<1>1. IsFiniteSet(S \cup {x}) /\ Cardinality(S \cup {x}) <= Cardinality(S) + 1
  BY <1>0, FS_AddElement
<1>2. IsFiniteSet(T) /\ Cardinality(T) <= Cardinality(S \cup {x})
  BY <1>1, Shrinks
<1> QED
  BY <1>1, <1>2, FS_CardinalityType

LEMMA Moves ==
  ASSUME NEW S, IsFiniteSet(S), NEW T, NEW x \in S, NEW y, T \subseteq (S \ {x}) \cup {y}
  PROVE  IsFiniteSet(T) /\ Cardinality(T) <= Cardinality(S)
<1>1. IsFiniteSet(S \ {x}) /\ Cardinality(S \ {x}) = Cardinality(S) - 1
  BY FS_RemoveElement
<1>2. IsFiniteSet(T) /\ Cardinality(T) <= Cardinality(S \ {x}) + 1
  BY <1>1, Grows
<1> QED
  BY <1>1, <1>2, FS_CardinalityType

(* Every stranded row, and every run that is about to strand one, has a    *)
(* fault of its own.                                                       *)
Marking == {r \in Runs : pc[r] = "mark"}
Charges == Stranded \cup Marking
Charged == IsFiniteSet(Charges) /\ Cardinality(Charges) <= faults

LEMMA InitCharged == Init => Charged
<1> SUFFICES ASSUME Init PROVE Charged
  OBVIOUS
<1>1. Charges = {}
  BY DEF Init, Charges, Stranded, Marking, Absent
<1> QED
  BY <1>1, FS_EmptySet DEF Init, Charged

LEMMA StepCharged ==
  ASSUME IInv, Charged, NEW r \in Runs, Work(r) \/ Fail(r)
  PROVE  Charged'
<1>1. faults \in Nat /\ Cardinality(Charges) \in Nat
  <2>1. faults \in Nat
    BY QueueAssumption DEF IInv, TypeOK
  <2>2. Cardinality(Charges) \in Nat
    BY FS_CardinalityType DEF Charged
  <2> QED
    BY <2>1, <2>2
<1>2. ASSUME UNCHANGED faults, Charges' \subseteq Charges PROVE Charged'
  BY <1>1, <1>2, Shrinks, FS_CardinalityType DEF Charged
<1>3. ASSUME faults' = faults + 1, NEW x, Charges' \subseteq Charges \cup {x} PROVE Charged'
  <2>1. IsFiniteSet(Charges') /\ Cardinality(Charges') <= Cardinality(Charges) + 1
    BY <1>3, Grows DEF Charged
  <2>2. Cardinality(Charges') \in Nat
    BY <2>1, FS_CardinalityType
  <2> QED
    BY <1>1, <1>3, <2>1, <2>2 DEF Charged
<1> USE DEF IInv, TypeOK, InHand, Goto, Charges, Stranded, Marking
<1>4. CASE UpsertChunk(r)
  <2>1. UNCHANGED faults /\ Charges' \subseteq Charges
    BY <1>4 DEF UpsertChunk, SeenAgain, Absent
  <2> QED
    BY <2>1, <1>2
<1>5. CASE Claim(r)
  <2>1. UNCHANGED faults /\ Charges' \subseteq Charges
    BY <1>5 DEF Claim
  <2> QED
    BY <2>1, <1>2
<1>6. CASE Store(r)
  <2>1. UNCHANGED faults /\ Charges' \subseteq Charges
    BY <1>6 DEF Store, Settle, Outcome, Decisions
  <2> QED
    BY <2>1, <1>2
<1>7. CASE \/ Begin(r) \/ Profile(r) \/ LongLog(r) \/ NothingUnknown(r) \/ SelectUnknown(r)
           \/ Persisted(r) \/ List(r) \/ Finish(r) \/ Evaluate(r)
  <2>1. UNCHANGED faults /\ Charges' \subseteq Charges
    BY <1>7
       DEF Begin, Profile, LongLog, NothingUnknown, SelectUnknown, Persisted, List, Finish,
           End, Evaluate
  <2> QED
    BY <2>1, <1>2
<1>8. CASE MarkError(r)
  <2>1. PICK d \in todo[r] : current[r] = {d}
    BY <1>8 DEF MarkError
  <2>2. UNCHANGED faults /\ r \in Charges /\ d \in Domains
    BY <1>8 DEF MarkError
  <2>3. Charges' \subseteq (Charges \ {r}) \cup {d}
    <3>1. CASE Settle(r, "ERROR")
      BY <1>8, <2>1, <3>1, QueueAssumption DEF MarkError, Settle
    <3>2. CASE End(r) /\ UNCHANGED status
      BY <1>8, <2>1, <3>2, QueueAssumption DEF MarkError, End
    <3> QED
      BY <1>8, <3>1, <3>2 DEF MarkError
  <2>4. IsFiniteSet(Charges)' /\ Cardinality(Charges)' <= Cardinality(Charges)
    BY <2>2, <2>3, Moves DEF Charged
  <2> QED
    BY <2>2, <2>4, <1>1, FS_CardinalityType DEF Charged
<1>9. CASE ProfileFails(r) \/ UpsertChunkFails(r) \/ ListFails(r)
  <2>1. faults' = faults + 1 /\ Charges' \subseteq Charges \cup {r}
    BY <1>9 DEF ProfileFails, UpsertChunkFails, ListFails, End, Fault
  <2> QED
    BY <2>1, <1>3
<1>10. CASE ClaimFails(r) \/ EvaluateFails(r) \/ StoreFails(r)
  <2>1. faults' = faults + 1 /\ Charges' \subseteq Charges \cup {r}
    BY <1>10 DEF ClaimFails, EvaluateFails, StoreFails, Fault
  <2> QED
    BY <2>1, <1>3
<1>11. CASE Crash(r)
  <2>1. PICK x : current[r] \subseteq {x}
    OBVIOUS
  <2>2. faults' = faults + 1 /\ Charges' \subseteq Charges \cup {x}
    BY <1>11, <2>1 DEF Crash, End, Fault
  <2> QED
    BY <2>2, <1>3
<1> QED
  BY <1>4, <1>5, <1>6, <1>7, <1>8, <1>9, <1>10, <1>11 DEF Work, Fail

LEMMA NextCharged == IInv /\ Charged /\ [Next]_vars => Charged'
<1> SUFFICES ASSUME IInv, Charged, [Next]_vars PROVE Charged'
  OBVIOUS
<1>1. CASE UNCHANGED vars
  BY <1>1 DEF vars, Charged, Charges, Stranded, Marking
<1>2. CASE Next
  BY <1>2, StepCharged DEF Next
<1> QED
  BY <1>1, <1>2

(* A fault strands at most one row. *)
THEOREM StrandedIsBounded == Spec => []StrandedBound
<1>1. IInv /\ Charged => StrandedBound
  <2> SUFFICES ASSUME IInv, Charged PROVE Cardinality(Stranded) <= faults
    BY DEF StrandedBound
  <2>1. Cardinality(Stranded) <= Cardinality(Charges) /\ IsFiniteSet(Stranded)
    BY Shrinks DEF Charged, Charges
  <2>2. faults \in Nat
    BY QueueAssumption DEF IInv, TypeOK
  <2> QED
    BY <2>1, <2>2, FS_CardinalityType DEF Charged
<1> QED
  BY <1>1, InitInv, InitCharged, NextInv, NextCharged, PTL DEF Spec

-----------------------------------------------------------------------------
(* The questions.  A row that is not shared and about which a run has an   *)
(* answer in hand is in processing.                                        *)

ClaimedProcessing ==
  \A r \in Runs, d \in Domains \ shared :
    pc[r] \in {"evaluate", "store"} /\ d \in current[r] => status[d] = "PROCESSING"

(* Nobody else has the row that a run has on its list. *)
LEMMA OnlyHolder ==
  ASSUME IInv, NEW r \in Runs, NEW q \in Runs, NEW d \in Domains \ shared,
         pc[r] \in Listing, d \in todo[r],
         pc[q] \in {"evaluate", "store", "mark"}, d \in current[q]
  PROVE  q = r
BY DEF IInv, InHand, OneList, Listing

LEMMA ClaimedStep ==
  ASSUME IInv, ClaimedProcessing, NEW r \in Runs, Work(r) \/ Fail(r)
  PROVE  ClaimedProcessing'
<1> SUFFICES ASSUME NEW q \in Runs, NEW d \in Domains, d \notin shared',
                    pc'[q] \in {"evaluate", "store"}, d \in current'[q]
             PROVE  status'[d] = "PROCESSING"
  BY DEF ClaimedProcessing
<1> USE DEF IInv, TypeOK, InHand, Goto, Listing
<1>1. CASE Claim(r)
  BY <1>1 DEF Claim, ClaimedProcessing
<1>2. CASE Store(r) \/ MarkError(r)
  <2>1. q # r /\ pc[q] = pc'[q] /\ current[q] = current'[q]
    BY <1>2 DEF Store, MarkError, Settle, End
  <2>2. d \notin shared /\ d \notin current[r]
    BY <1>2, <2>1, OnlyHolder DEF Store, MarkError
  <2>3. status'[d] = status[d]
    BY <1>2, <2>2 DEF Store, MarkError, Settle
  <2> QED BY <2>1, <2>2, <2>3 DEF ClaimedProcessing
<1>3. CASE UpsertChunk(r)
  <2>1. q \in Runs /\ UNCHANGED <<pc, current, shared>> /\ status[d] = "PROCESSING"
    BY <1>3 DEF UpsertChunk, ClaimedProcessing
  <2> QED BY <1>3, <2>1 DEF UpsertChunk, SeenAgain, Absent
<1>4. CASE List(r)
  BY <1>4 DEF List, Listed, ClaimedProcessing
<1>5. CASE \/ Begin(r) \/ Profile(r) \/ LongLog(r) \/ NothingUnknown(r) \/ SelectUnknown(r)
           \/ Persisted(r) \/ Finish(r) \/ Evaluate(r)
  BY <1>5
     DEF Begin, Profile, LongLog, NothingUnknown, SelectUnknown, Persisted, Finish, End,
         Evaluate, ClaimedProcessing
<1>6. CASE Fail(r)
  BY <1>6
     DEF Fail, ProfileFails, UpsertChunkFails, ListFails, ClaimFails, EvaluateFails,
         StoreFails, Crash, End, ClaimedProcessing
<1> QED BY <1>1, <1>2, <1>3, <1>4, <1>5, <1>6 DEF Work

QuestionsNow == [d \in Domains |-> Question(d)]

(* What a row's question depends on. *)
LEMMA QuestionRemains ==
  ASSUME NEW d \in Domains, status'[d] = status[d], shared' = shared,
         Answered(d)' <=> Answered(d)
  PROVE  Question(d)' = Question(d)
BY DEF Question

LEMMA AllRemain ==
  ASSUME shared' = shared,
         \A d \in Domains : status'[d] = status[d] /\ (Answered(d)' <=> Answered(d))
  PROVE  QuestionsNow' = QuestionsNow
BY QuestionRemains DEF QuestionsNow

(* A step of a run that has no answer in hand, before or after. *)
LEMMA AnswersRemain ==
  ASSUME IInv, NEW r \in Runs, pc[r] # "store", pc'[r] # "store",
         \A q \in Runs \ {r} : pc'[q] = pc[q] /\ current'[q] = current[q]
  PROVE  \A d \in Domains : Answered(d)' <=> Answered(d)
BY DEF Answered

(* The rows that a run has on its list, if nobody else has. *)
LEMMA OpenWhileListed ==
  ASSUME IInv, NEW r \in Runs, NEW d \in Domains \ shared,
         pc[r] \in Listing \ {"store"}, d \in todo[r]
  PROVE  ~Answered(d) /\ Question(d) = "open"
<1>1. ~Answered(d)
  BY OnlyHolder DEF Answered
<1>2. status[d] \in {"NEW", "PROCESSING"}
  BY DEF IInv, ListedOpen
<1> QED BY <1>1, <1>2 DEF Question, Absent

(* Steps that no reader of the rows can see. *)
LEMMA HiddenSteps ==
  ASSUME IInv, NEW r \in Runs,
         \/ Begin(r) \/ Profile(r) \/ LongLog(r) \/ NothingUnknown(r) \/ SelectUnknown(r)
         \/ Persisted(r) \/ Finish(r)
         \/ ProfileFails(r) \/ UpsertChunkFails(r) \/ ListFails(r) \/ ClaimFails(r)
         \/ EvaluateFails(r)
  PROVE  UNCHANGED <<QuestionsNow, answer>>
<1>1. /\ pc[r] # "store" /\ pc'[r] # "store"
      /\ UNCHANGED <<status, answer, shared>>
      /\ \A q \in Runs \ {r} : pc'[q] = pc[q] /\ current'[q] = current[q]
  BY DEF IInv, TypeOK, Goto, End, Begin, Profile, LongLog, NothingUnknown, SelectUnknown,
         Persisted, Finish, ProfileFails, UpsertChunkFails, ListFails, ClaimFails, EvaluateFails
<1> QED BY <1>1, AnswersRemain, AllRemain

LEMMA ClaimHidden ==
  ASSUME IInv, NEW r \in Runs, Claim(r) PROVE UNCHANGED <<QuestionsNow, answer>>
<1>1. PICK d \in todo[r] : status' = [status EXCEPT ![d] = "PROCESSING"]
  BY DEF Claim
<1>2. /\ d \in Domains /\ pc[r] = "claim" /\ pc'[r] # "store" /\ UNCHANGED <<answer, shared>>
      /\ \A q \in Runs \ {r} : pc'[q] = pc[q] /\ current'[q] = current[q]
  BY <1>1 DEF Claim, IInv, TypeOK, Goto
<1>3. \A x \in Domains : Answered(x)' <=> Answered(x)
  BY <1>2, AnswersRemain
<1>4. ASSUME NEW x \in Domains PROVE Question(x)' = Question(x)
  <2>1. CASE x # d
    BY <1>1, <1>2, <1>3, <2>1, QuestionRemains DEF IInv, TypeOK
  <2>2. CASE x = d /\ d \in shared
    BY <1>2, <2>2 DEF Question
  <2>3. CASE x = d /\ d \notin shared
    <3>1. ~Answered(d) /\ Question(d) = "open"
      BY <1>2, <2>3, OpenWhileListed DEF Listing
    <3>2. status'[d] = "PROCESSING" /\ ~Answered(d)'
      BY <1>1, <1>2, <1>3, <3>1 DEF IInv, TypeOK
    <3>3. Question(d)' = "open"
      BY <1>2, <2>3, <3>2 DEF Question, Absent
    <3> QED BY <2>3, <3>1, <3>3
  <2> QED BY <2>1, <2>2, <2>3
<1> QED BY <1>2, <1>4 DEF QuestionsNow

LEMMA MarkErrorHidden ==
  ASSUME IInv, NEW r \in Runs, MarkError(r) PROVE UNCHANGED <<QuestionsNow, answer>>
<1>1. PICK d \in todo[r] : current[r] = {d}
  BY DEF MarkError, IInv, InHand
<1>2. /\ d \in Domains /\ pc[r] = "mark" /\ pc'[r] # "store" /\ UNCHANGED <<answer, shared>>
      /\ \A q \in Runs \ {r} : pc'[q] = pc[q] /\ current'[q] = current[q]
      /\ \A x \in Domains : x # d => status'[x] = status[x]
      /\ status'[d] \in {"ERROR", status[d]}
  BY <1>1 DEF MarkError, Settle, End, IInv, TypeOK, Goto
<1>3. \A x \in Domains : Answered(x)' <=> Answered(x)
  BY <1>2, AnswersRemain
<1>4. ASSUME NEW x \in Domains PROVE Question(x)' = Question(x)
  <2>1. CASE x # d \/ status'[d] = status[d]
    BY <1>2, <1>3, <2>1, QuestionRemains
  <2>2. CASE x = d /\ d \in shared
    BY <1>2, <2>2 DEF Question
  <2>3. CASE x = d /\ d \notin shared /\ status'[d] = "ERROR"
    <3>1. ~Answered(d) /\ Question(d) = "open"
      BY <1>2, <2>3, OpenWhileListed DEF Listing
    <3>2. Question(d)' = "open"
      BY <1>2, <1>3, <2>3, <3>1 DEF Question, Absent
    <3> QED BY <2>3, <3>1, <3>2
  <2> QED BY <1>2, <2>1, <2>2, <2>3
<1> QED BY <1>2, <1>4 DEF QuestionsNow

LEMMA UpsertSees ==
  ASSUME IInv, ClaimedProcessing, NEW r \in Runs, UpsertChunk(r)
  PROVE  \E S \in SUBSET Domains : Questions!See(S)
<1>1. PICK C \in Chunks(r) :
        status' = [d \in Domains |-> IF d \in C THEN SeenAgain(status[d]) ELSE status[d]]
  BY DEF UpsertChunk
<1>2. /\ C \in SUBSET Domains /\ UNCHANGED <<pc, current, answer, shared>>
  BY DEF Chunks, UpsertChunk, IInv, TypeOK
<1>3. \A d \in Domains : Answered(d)' <=> Answered(d)
  BY <1>2 DEF Answered
<1>4. \A d \in Domains \ shared : Answered(d) => status[d] = "PROCESSING"
  BY DEF Answered, ClaimedProcessing
<1>5. ASSUME NEW d \in Domains
      PROVE  Question(d)' = IF d \in C /\ Question(d) \in {"absent", "review"}
                            THEN "open" ELSE Question(d)
  <2>1. CASE d \in shared
    BY <1>2, <2>1 DEF Question
  <2>2. CASE d \notin shared /\ status'[d] = status[d]
    <3>1. Question(d)' = Question(d)
      BY <1>2, <1>3, <2>2, QuestionRemains
    <3>2. d \in C => status[d] \notin {Absent, "REVIEW_NEEDED"}
      BY <1>1, <2>2 DEF SeenAgain, Absent
    <3> QED BY <2>2, <3>1, <3>2 DEF Question
  <2>3. CASE d \notin shared /\ status'[d] # status[d]
    <3>1. /\ d \in C /\ status'[d] = "NEW"
          /\ status[d] \in {Absent, "REVIEW_NEEDED", "ERROR"}
      BY <1>1, <2>3 DEF SeenAgain
    <3>2. ~Answered(d)
      BY <1>4, <2>3, <3>1 DEF Absent
    <3>3. Question(d)' = "open"
      BY <1>2, <1>3, <2>3, <3>1, <3>2 DEF Question, Absent
    <3>4. Question(d) \in {"absent", "review", "open"}
      BY <2>3, <3>1, <3>2 DEF Question, Absent
    <3> QED BY <3>1, <3>3, <3>4
  <2> QED BY <2>1, <2>2, <2>3
<1>6. QuestionsNow' = [d \in Domains |->
        IF d \in C /\ QuestionsNow[d] \in {"absent", "review"} THEN "open"
        ELSE QuestionsNow[d]]
  BY <1>5 DEF QuestionsNow
<1> QED BY <1>2, <1>6 DEF Questions!See, QuestionsNow

LEMMA ListContends ==
  ASSUME IInv, ClaimedProcessing, NEW r \in Runs, List(r)
  PROVE  \E S \in SUBSET Domains : Questions!Contend(S)
<1> DEFINE S == shared' \ shared
<1>1. /\ shared \subseteq shared' /\ S \in SUBSET Domains /\ S \subseteq New
      /\ UNCHANGED <<status, current, answer>>
      /\ pc[r] = "list" /\ pc'[r] = "claim" /\ \A q \in Runs \ {r} : pc'[q] = pc[q]
  BY DEF List, Listed, New, IInv, TypeOK, Goto
<1>2. \A d \in Domains : Answered(d)' <=> Answered(d)
  BY <1>1, AnswersRemain
<1>3. \A d \in S : Question(d) = "open"
  <2> SUFFICES ASSUME NEW d \in S PROVE Question(d) = "open"
    OBVIOUS
  <2>1. d \in Domains \ shared /\ status[d] = "NEW"
    BY <1>1 DEF New
  <2>2. ~Answered(d)
    BY <2>1 DEF Answered, ClaimedProcessing
  <2> QED BY <2>1, <2>2 DEF Question, Absent
<1>4. \A d \in Domains : Question(d)' = IF d \in S THEN "contended" ELSE Question(d)
  BY <1>1, <1>2 DEF Question
<1>5. QuestionsNow' = [d \in Domains |-> IF d \in S THEN "contended" ELSE QuestionsNow[d]]
  BY <1>4 DEF QuestionsNow
<1>6. \A d \in S : QuestionsNow[d] = "open"
  BY <1>1, <1>3 DEF QuestionsNow
<1> HIDE DEF S
<1> QED BY <1>1, <1>5, <1>6 DEF Questions!Contend, QuestionsNow

LEMMA EvaluateAsks ==
  ASSUME IInv, NEW r \in Runs, Evaluate(r)
  PROVE  \E d \in Domains : Questions!Ask(d) \/ Questions!AskContended(d)
<1>1. PICK d \in todo[r] : current[r] = {d}
  BY DEF Evaluate, IInv, InHand
<1>2. PICK a \in Decisions :
        answer' = [x \in Domains |-> IF x \in current[r] THEN a ELSE answer[x]]
  BY DEF Evaluate
<1>3. /\ d \in Domains /\ answer' = [answer EXCEPT ![d] = a] /\ answer' \in [Domains -> Decisions]
      /\ UNCHANGED <<status, current, shared>>
      /\ pc[r] = "evaluate" /\ pc'[r] = "store" /\ \A q \in Runs \ {r} : pc'[q] = pc[q]
  BY <1>1, <1>2 DEF Evaluate, IInv, TypeOK, Goto
<1>4. \A x \in Domains : x # d => (Answered(x)' <=> Answered(x))
  BY <1>1, <1>3 DEF Answered
<1>5. \A x \in Domains : x # d => Question(x)' = Question(x)
  BY <1>3, <1>4, QuestionRemains
<1>6. CASE d \in shared
  <2>1. Question(d)' = "contended" /\ Question(d) = "contended"
    BY <1>3, <1>6 DEF Question
  <2>2. QuestionsNow' = QuestionsNow /\ QuestionsNow[d] = "contended"
    BY <1>3, <1>5, <2>1 DEF QuestionsNow
  <2>3. Questions!AskContended(d)
    BY <1>3, <2>2 DEF Questions!AskContended, QuestionsNow, Decisions, IInv, TypeOK
  <2> QED BY <1>3, <2>3
<1>7. CASE d \notin shared
  <2>1. Question(d) = "open" /\ status[d] \in {"NEW", "PROCESSING"}
    BY <1>1, <1>3, <1>7, OpenWhileListed DEF Listing, IInv, ListedOpen
  <2>2. Answered(d)'
    BY <1>1, <1>3 DEF Answered
  <2>3. Question(d)' = "answered"
    BY <1>3, <1>7, <2>1, <2>2 DEF Question, Absent
  <2>4. QuestionsNow' = [QuestionsNow EXCEPT ![d] = "answered"] /\ QuestionsNow[d] = "open"
    BY <1>3, <1>5, <2>1, <2>3 DEF QuestionsNow
  <2>5. Questions!Ask(d)
    BY <1>3, <2>4 DEF Questions!Ask, QuestionsNow, Decisions
  <2> QED BY <1>3, <2>5
<1> QED BY <1>6, <1>7

(* A run that puts down the row it has an answer about. *)
LEMMA PutDown ==
  ASSUME IInv, ClaimedProcessing, NEW r \in Runs, NEW d \in Domains, current[r] = {d},
         pc[r] = "store", pc'[r] # "store", shared' = shared,
         \A q \in Runs \ {r} : pc'[q] = pc[q] /\ current'[q] = current[q],
         \A x \in Domains : x # d => status'[x] = status[x]
  PROVE  /\ \A x \in Domains : x # d => Question(x)' = Question(x)
         /\ d \in shared => Question(d)' = Question(d)
         /\ d \notin shared => Question(d) = "answered" /\ ~Answered(d)'
<1>1. \A x \in Domains : x # d => (Answered(x)' <=> Answered(x))
  BY DEF Answered
<1>2. \A x \in Domains : x # d => Question(x)' = Question(x)
  BY <1>1, QuestionRemains
<1>3. d \in shared => Question(d)' = Question(d)
  BY DEF Question
<1>4. ASSUME d \notin shared PROVE Question(d) = "answered" /\ ~Answered(d)'
  <2>1. Answered(d) /\ status[d] = "PROCESSING" /\ d \in todo[r]
    BY <1>4 DEF Answered, ClaimedProcessing, IInv, InHand
  <2>2. Question(d) = "answered"
    BY <1>4, <2>1 DEF Question, Absent
  <2>3. \A q \in Runs : pc[q] = "store" /\ d \in current[q] => q = r
    BY <1>4, <2>1, OnlyHolder DEF Listing
  <2>4. ~Answered(d)'
    BY <2>3 DEF Answered
  <2> QED BY <2>2, <2>4
<1> QED BY <1>2, <1>3, <1>4

LEMMA StoreSettles ==
  ASSUME IInv, ClaimedProcessing, NEW r \in Runs, Store(r)
  PROVE  \/ \E d \in Domains : Questions!Settle(d)
         \/ UNCHANGED <<QuestionsNow, answer>>
<1>1. PICK d \in todo[r] : current[r] = {d}
  BY DEF Store, IInv, InHand
<1>2. /\ d \in Domains /\ pc[r] = "store" /\ pc'[r] # "store" /\ UNCHANGED <<answer, shared>>
      /\ \A q \in Runs \ {r} : pc'[q] = pc[q] /\ current'[q] = current[q]
      /\ \A x \in Domains : x # d => status'[x] = status[x]
      /\ status'[d] = Outcome(decision[r])
  BY <1>1 DEF Store, Settle, IInv, TypeOK, Goto
<1>3. /\ \A x \in Domains : x # d => Question(x)' = Question(x)
      /\ d \in shared => Question(d)' = Question(d)
      /\ d \notin shared => Question(d) = "answered" /\ ~Answered(d)'
  BY <1>1, <1>2, PutDown
<1>4. CASE d \in shared
  BY <1>2, <1>3, <1>4 DEF QuestionsNow
<1>5. CASE d \notin shared
  <2>1. decision[r] = answer[d] /\ answer[d] \in Decisions
    BY <1>1, <1>2, <1>5 DEF IInv, TypeOK, DecisionIsAnswer
  <2>2. Question(d)' = CASE answer[d] = "malicious" -> "malicious"
                         [] answer[d] = "evidence"  -> "clean"
                         [] answer[d] = "nothing"   -> "review"
    BY <1>2, <1>3, <1>5, <2>1 DEF Question, Outcome, Absent, Decisions
  <2>3. /\ QuestionsNow[d] = "answered"
        /\ QuestionsNow' = [QuestionsNow EXCEPT ![d] =
              CASE answer[d] = "malicious" -> "malicious"
                [] answer[d] = "evidence"  -> "clean"
                [] answer[d] = "nothing"   -> "review"]
    BY <1>2, <1>3, <1>5, <2>2 DEF QuestionsNow
  <2>4. Questions!Settle(d)
    BY <1>2, <2>3 DEF Questions!Settle, QuestionsNow
  <2> QED BY <1>2, <2>4
<1> QED BY <1>4, <1>5

LEMMA LossDrops ==
  ASSUME IInv, ClaimedProcessing, NEW r \in Runs, StoreFails(r) \/ Crash(r)
  PROVE  \/ \E d \in Domains : Questions!Drop(d)
         \/ UNCHANGED <<QuestionsNow, answer>>
<1>1. /\ pc'[r] # "store" /\ UNCHANGED <<status, answer, shared>>
      /\ \A q \in Runs \ {r} : pc'[q] = pc[q] /\ current'[q] = current[q]
  BY DEF StoreFails, Crash, End, IInv, TypeOK, Goto
<1>2. CASE pc[r] # "store"
  BY <1>1, <1>2, AnswersRemain, AllRemain
<1>3. CASE pc[r] = "store"
  <2>1. PICK d \in todo[r] : current[r] = {d}
    BY <1>3 DEF IInv, InHand
  <2>2. d \in Domains
    BY DEF IInv, TypeOK
  <2>3. /\ \A x \in Domains : x # d => Question(x)' = Question(x)
        /\ d \in shared => Question(d)' = Question(d)
        /\ d \notin shared => Question(d) = "answered" /\ ~Answered(d)'
    BY <1>1, <1>3, <2>1, <2>2, PutDown
  <2>4. CASE d \in shared
    BY <1>1, <2>3, <2>4 DEF QuestionsNow
  <2>5. CASE d \notin shared
    <3>1. status[d] = "PROCESSING"
      BY <1>3, <2>1, <2>2, <2>5 DEF ClaimedProcessing
    <3>2. Question(d)' = "open"
      BY <1>1, <2>3, <2>5, <3>1 DEF Question, Absent
    <3>3. QuestionsNow[d] = "answered" /\ QuestionsNow' = [QuestionsNow EXCEPT ![d] = "open"]
      BY <2>2, <2>3, <2>5, <3>2 DEF QuestionsNow
    <3>4. Questions!Drop(d)
      BY <1>1, <3>3 DEF Questions!Drop, QuestionsNow
    <3> QED BY <2>2, <3>4
  <2> QED BY <2>4, <2>5
<1> QED BY <1>2, <1>3

LEMMA StepQuestions ==
  IInv /\ ClaimedProcessing /\ [Next]_vars => [Questions!Next]_Questions!vars
<1> SUFFICES ASSUME IInv, ClaimedProcessing, [Next]_vars
             PROVE  Questions!Next \/ UNCHANGED <<QuestionsNow, answer>>
  BY DEF Questions!vars, QuestionsNow
<1>1. CASE UNCHANGED vars
  <2>1. \A d \in Domains : Answered(d)' <=> Answered(d)
    BY <1>1 DEF vars, Answered
  <2> QED BY <1>1, <2>1, AllRemain DEF vars
<1>2. ASSUME NEW r \in Runs, Work(r) \/ Fail(r)
      PROVE  Questions!Next \/ UNCHANGED <<QuestionsNow, answer>>
  <2>1. CASE UpsertChunk(r)
    BY <2>1, UpsertSees DEF Questions!Next
  <2>2. CASE List(r)
    BY <2>2, ListContends DEF Questions!Next
  <2>3. CASE Evaluate(r)
    BY <2>3, EvaluateAsks DEF Questions!Next
  <2>4. CASE Store(r)
    BY <2>4, StoreSettles DEF Questions!Next
  <2>5. CASE StoreFails(r) \/ Crash(r)
    BY <2>5, LossDrops DEF Questions!Next
  <2> QED
    BY <1>2, <2>1, <2>2, <2>3, <2>4, <2>5, HiddenSteps, ClaimHidden, MarkErrorHidden
       DEF Work, Fail
<1> QED BY <1>1, <1>2 DEF Next

(* Any number of runs, however they overlap and fail, answer questions: a  *)
(* row that only one of them had listed is asked about while it is open,   *)
(* once for each answer that is stored or lost, and ends as that answer    *)
(* says.                                                                   *)
THEOREM RunsAnswerQuestions == Spec => ImplementsQuestions
<1>1. Init => ClaimedProcessing /\ Questions!Init
  <2> SUFFICES ASSUME Init PROVE ClaimedProcessing /\ Questions!Init
    OBVIOUS
  <2>1. \A d \in Domains : Question(d) \in {"absent", "open"}
    BY DEF Init, Question, Answered, Absent
  <2> QED BY <2>1 DEF Init, ClaimedProcessing, Questions!Init, QuestionsNow
<1>2. IInv /\ ClaimedProcessing /\ [Next]_vars => ClaimedProcessing'
  <2>1. ClaimedProcessing /\ UNCHANGED vars => ClaimedProcessing'
    BY DEF vars, ClaimedProcessing
  <2> QED BY <2>1, ClaimedStep DEF Next
<1> QED
  BY <1>1, <1>2, Invariant, StepQuestions, PTL
     DEF Spec, ImplementsQuestions, Questions!Spec

(* The questions alone are enough for a reader of the table: whoever asks  *)
(* and settles them, a verdict on an uncontended domain is the one of the  *)
(* last answer about it.                                                   *)
THEOREM QuestionsStaySound == Questions!Spec => []Questions!Sound
<1> DEFINE Functions ==
      /\ QuestionsNow = [d \in Domains |-> QuestionsNow[d]]
      /\ answer \in [Domains -> {"malicious", "evidence", "nothing"}]
<1>1. Questions!Init => Functions /\ Questions!Sound
  BY DEF Questions!Init, Questions!Sound, QuestionsNow
<1>2. Functions /\ Questions!Sound /\ [Questions!Next]_Questions!vars
        => (Functions /\ Questions!Sound)'
  <2> SUFFICES ASSUME Functions, Questions!Sound, [Questions!Next]_Questions!vars
               PROVE  (Functions /\ Questions!Sound)'
    OBVIOUS
  <2>1. ASSUME NEW S \in SUBSET Domains, Questions!See(S) \/ Questions!Contend(S)
        PROVE  (Functions /\ Questions!Sound)'
    BY <2>1 DEF Questions!See, Questions!Contend, Questions!Sound, QuestionsNow
  <2>2. ASSUME NEW d \in Domains, Questions!Ask(d) PROVE (Functions /\ Questions!Sound)'
    BY <2>2 DEF Questions!Ask, Questions!Sound, QuestionsNow
  <2>3. ASSUME NEW d \in Domains, Questions!Settle(d) PROVE (Functions /\ Questions!Sound)'
    <3> DEFINE Ended == CASE answer[d] = "malicious" -> "malicious"
                          [] answer[d] = "evidence"  -> "clean"
                          [] answer[d] = "nothing"   -> "review"
    <3>1. QuestionsNow' = [QuestionsNow EXCEPT ![d] = Ended] /\ answer' = answer
          /\ QuestionsNow[d] = "answered"
      BY <2>3 DEF Questions!Settle, QuestionsNow
    <3>2. \A x \in Domains :
            /\ QuestionsNow[x] = "malicious" => answer[x] = "malicious"
            /\ QuestionsNow[x] = "clean" => answer[x] = "evidence"
      BY DEF Questions!Sound, QuestionsNow
    <3>3. /\ Ended = "malicious" => answer[d] = "malicious"
          /\ Ended = "clean" => answer[d] = "evidence"
      OBVIOUS
    <3> HIDE DEF Ended
    <3>4. \A x \in Domains :
            /\ QuestionsNow'[x] = "malicious" => answer'[x] = "malicious"
            /\ QuestionsNow'[x] = "clean" => answer'[x] = "evidence"
      BY <3>1, <3>2, <3>3
    <3>5. QuestionsNow' = [x \in Domains |-> QuestionsNow'[x]]
      BY <3>1
    <3> QED BY <3>1, <3>4, <3>5 DEF Questions!Sound, QuestionsNow
  <2>4. ASSUME NEW d \in Domains, Questions!Drop(d) PROVE (Functions /\ Questions!Sound)'
    BY <2>4 DEF Questions!Drop, Questions!Sound, QuestionsNow
  <2>5. ASSUME NEW d \in Domains, Questions!AskContended(d)
        PROVE  (Functions /\ Questions!Sound)'
    BY <2>5 DEF Questions!AskContended, Questions!Sound, QuestionsNow
  <2>6. CASE UNCHANGED Questions!vars
    BY <2>6 DEF Questions!vars, Questions!Sound, QuestionsNow
  <2> QED BY <2>1, <2>2, <2>3, <2>4, <2>5, <2>6 DEF Questions!Next
<1> QED BY <1>1, <1>2, PTL DEF Questions!Spec

=============================================================================

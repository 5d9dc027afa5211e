---------------------- MODULE RollupAggregator_proofs ----------------------
(***************************************************************************)
(* Proofs about RollupAggregator, for any history and any sessions.        *)
(***************************************************************************)
EXTENDS RollupAggregator, FiniteSetTheorems, WellFoundedInduction, TLAPS

-----------------------------------------------------------------------------
(* Sets of ids. *)

LEMMA IdsFinite ==
  ASSUME NEW S \in SUBSET Ids
  PROVE  IsFiniteSet(S) /\ Cardinality(S) \in Nat
<1>1. IsFiniteSet(Ids)
  BY EventAssumption, FS_Interval DEF Ids
<1> QED BY <1>1, FS_Subset, FS_CardinalityType

(* A nonempty set of ids has a largest. *)
LEMMA MaxOfIds ==
  ASSUME NEW S \in SUBSET Ids, S # {}
  PROVE  Max(S) \in S /\ \A e \in S : e <= Max(S)
<1> DEFINE R == OpToRel(<, Nat)
           T == {n \in Nat : \E e \in S : n = MaxEvents - e}
<1>1. \A e \in S : e \in Nat /\ e <= MaxEvents /\ MaxEvents - e \in T
  BY EventAssumption DEF Ids
<1>2. T # {} /\ T \subseteq Nat
  BY <1>1
<1>3. PICK n \in T : \A m \in T : ~(<<m, n>> \in R)
  <2> HIDE DEF T
  <2> QED BY <1>2, NatLessThanWellFounded, WFMin
<1>4. \A m \in T : n <= m
  <2>1. ASSUME NEW m \in T, m < n PROVE <<m, n>> \in R
    <3> DEFINE mn == <<m, n>>
    <3>1. mn \in Nat \X Nat /\ mn[1] < mn[2]
      BY <2>1, <1>2
    <3> QED BY <3>1 DEF OpToRel
  <2>2. \A m \in T : ~(m < n)
    BY <1>3, <2>1
  <2>3. n \in Nat /\ \A m \in T : m \in Nat
    BY <1>2
  <2> HIDE DEF T
  <2> QED BY <2>2, <2>3
<1>5. PICK e \in S : n = MaxEvents - e
  OBVIOUS
<1>6. \A f \in S : f <= e
  BY <1>1, <1>4, <1>5, EventAssumption
<1>7. \E m \in S : \A f \in S : m >= f
  BY <1>1, <1>5, <1>6
<1> QED BY <1>1, <1>7 DEF Max

(* The rows a LIMIT lets through are no more than it says. *)
LEMMA LimitHolds ==
  ASSUME NEW S \in SUBSET Ids, NEW n \in Nat
  PROVE  /\ FirstRows(S, n) \subseteq S
         /\ Cardinality(FirstRows(S, n)) <= n
<1> DEFINE F == FirstRows(S, n)
<1>1. F \subseteq S
  BY DEF FirstRows
<1>2. CASE F = {}
  BY <1>1, <1>2, FS_EmptySet
<1>3. CASE F # {}
  <2> DEFINE m == Max(F)
             G == {f \in S : f <= m}
  <2>1. m \in F /\ \A e \in F : e <= m
    BY <1>1, <1>3, MaxOfIds
  <2>2. F \subseteq G
    BY <1>1, <2>1
  <2>3. Cardinality(G) <= n
    BY <2>1 DEF FirstRows
  <2>4. IsFiniteSet(G) /\ Cardinality(G) \in Nat
    BY IdsFinite
  <2>5. Cardinality(F) <= Cardinality(G) /\ Cardinality(F) \in Nat
    BY <2>2, <2>4, FS_Subset, <1>1, IdsFinite
  <2> HIDE DEF F, G
  <2>6. Cardinality(F) <= n
    BY <2>3, <2>4, <2>5
  <2> QED BY <1>1, <2>6 DEF F
<1> QED BY <1>2, <1>3

(* The counts of two sets with nothing in common add up. *)
LEMMA CountsTyped ==
  ASSUME NEW S \in SUBSET Ids
  PROVE  HourlyCounts(S) \in [HourlyKeys -> Nat] /\ DailyCounts(S) \in [DailyKeys -> Nat]
<1>1. \A k \in HourlyKeys : Cardinality({e \in S : InHourly(e, k)}) \in Nat
  <2> TAKE k \in HourlyKeys
  <2> {e \in S : InHourly(e, k)} \in SUBSET Ids
    OBVIOUS
  <2> QED BY IdsFinite
<1>2. \A k \in DailyKeys : Cardinality({e \in S : InDaily(e, k)}) \in Nat
  <2> TAKE k \in DailyKeys
  <2> {e \in S : InDaily(e, k)} \in SUBSET Ids
    OBVIOUS
  <2> QED BY IdsFinite
<1> QED BY <1>1, <1>2 DEF HourlyCounts, DailyCounts

LEMMA CardinalityAdds ==
  ASSUME NEW S \in SUBSET Ids, NEW T \in SUBSET Ids, S \cap T = {}
  PROVE  Cardinality(S \cup T) = Cardinality(S) + Cardinality(T)
<1>1. IsFiniteSet(S) /\ IsFiniteSet(T) /\ Cardinality(S) \in Nat /\ Cardinality(T) \in Nat
  BY IdsFinite
<1> QED BY <1>1, FS_Union, FS_EmptySet

LEMMA CountsAdd ==
  ASSUME NEW S \in SUBSET Ids, NEW T \in SUBSET Ids, S \cap T = {}
  PROVE  /\ HourlyCounts(S \cup T)
              = [k \in HourlyKeys |-> HourlyCounts(S)[k] + HourlyCounts(T)[k]]
         /\ DailyCounts(S \cup T)
              = [k \in DailyKeys |-> DailyCounts(S)[k] + DailyCounts(T)[k]]
<1>1. ASSUME NEW k \in HourlyKeys
      PROVE  HourlyCounts(S \cup T)[k] = HourlyCounts(S)[k] + HourlyCounts(T)[k]
  <2> DEFINE Part(X) == {e \in X : InHourly(e, k)}
  <2>1. /\ Part(S) \in SUBSET Ids /\ Part(T) \in SUBSET Ids
        /\ Part(S) \cap Part(T) = {} /\ Part(S \cup T) = Part(S) \cup Part(T)
    OBVIOUS
  <2>2. Cardinality(Part(S \cup T)) = Cardinality(Part(S)) + Cardinality(Part(T))
    BY <2>1, CardinalityAdds
  <2> QED BY <2>2 DEF HourlyCounts
<1>2. ASSUME NEW k \in DailyKeys
      PROVE  DailyCounts(S \cup T)[k] = DailyCounts(S)[k] + DailyCounts(T)[k]
  <2> DEFINE Part(X) == {e \in X : InDaily(e, k)}
  <2>1. /\ Part(S) \in SUBSET Ids /\ Part(T) \in SUBSET Ids
        /\ Part(S) \cap Part(T) = {} /\ Part(S \cup T) = Part(S) \cup Part(T)
    OBVIOUS
  <2>2. Cardinality(Part(S \cup T)) = Cardinality(Part(S)) + Cardinality(Part(T))
    BY <2>1, CardinalityAdds
  <2> QED BY <2>2 DEF DailyCounts
<1>3. HourlyCounts(S \cup T) = [k \in HourlyKeys |-> HourlyCounts(S \cup T)[k]]
  BY DEF HourlyCounts
<1>4. DailyCounts(S \cup T) = [k \in DailyKeys |-> DailyCounts(S \cup T)[k]]
  BY DEF DailyCounts
<1> QED BY <1>1, <1>2, <1>3, <1>4

-----------------------------------------------------------------------------
(* Types. *)

LEMMA InitTyped == Init => TypeOK
<1> SUFFICES ASSUME Init PROVE TypeOK
  OBVIOUS
<1>1. hourly \in [HourlyKeys -> Nat] /\ daily \in [DailyKeys -> Nat]
  BY CountsTyped DEF Init
<1>2. {} \in Batches
  BY FS_EmptySet, SizeAssumption DEF Batches
<1>3. /\ 1 \in 1..(MaxEvents + 1) /\ 0 \in 0..MaxEvents
      /\ 0 \in 0..MaxFaults /\ 0 \in 0..MaxRebuilds
  BY EventAssumption, SizeAssumption
<1> QED BY <1>1, <1>2, <1>3 DEF Init, TypeOK, Steps

LEMMA BatchTyped ==
  ASSUME TypeOK, NEW a \in Aggregators
  PROVE  FirstRows(RowsAbove(current[a]), BatchSize) \in Batches
<1>1. RowsAbove(current[a]) \in SUBSET Ids
  BY DEF TypeOK, RowsAbove
<1>2. BatchSize \in Nat
  BY SizeAssumption
<1> QED BY <1>1, <1>2, LimitHolds DEF Batches

LEMMA MarkTyped ==
  ASSUME TypeOK, NEW a \in Aggregators, batch[a] # {}
  PROVE  Max(batch[a]) \in 0..MaxEvents
<1>1. batch[a] \in SUBSET Ids
  BY DEF TypeOK, Batches
<1>2. Max(batch[a]) \in Ids
  BY <1>1, MaxOfIds
<1> QED BY <1>2, EventAssumption DEF Ids

LEMMA AddTyped ==
  ASSUME TypeOK, NEW S \in SUBSET Ids, NEW m \in 0..MaxEvents, AddToRollups(S, m)
  PROVE  /\ mark' \in 0..MaxEvents /\ processed' \in Nat
         /\ hourly' \in [HourlyKeys -> Nat] /\ daily' \in [DailyKeys -> Nat]
         /\ counted' \in SUBSET Ids
<1>1. Cardinality(S) \in Nat /\ processed \in Nat
  BY IdsFinite DEF TypeOK
<1>2. processed' \in Nat
  BY <1>1 DEF AddToRollups
<1>3. hourly' \in [HourlyKeys -> Nat]
  <2>1. \A k \in HourlyKeys : hourly[k] \in Nat /\ HourlyCounts(S)[k] \in Nat
    BY CountsTyped DEF TypeOK
  <2> QED BY <2>1 DEF AddToRollups
<1>4. daily' \in [DailyKeys -> Nat]
  <2>1. \A k \in DailyKeys : daily[k] \in Nat /\ DailyCounts(S)[k] \in Nat
    BY CountsTyped DEF TypeOK
  <2> QED BY <2>1 DEF AddToRollups
<1> QED BY <1>2, <1>3, <1>4 DEF AddToRollups, TypeOK

(* A session that applies has rows to apply, all above the watermark it    *)
(* goes by, which is the table's: nobody else has worked since, because it *)
(* holds the lock.                                                         *)
Working == Steps \ {"idle", "rerun"}

HoldsLock == \A a \in Aggregators : pc[a] \in Working => lock = a

WatermarkCurrent ==
  \A a \in Aggregators : pc[a] \in {"fetch", "apply"} => current[a] = mark

BatchAhead ==
  \A a \in Aggregators : pc[a] = "apply" =>
    batch[a] # {} /\ \A e \in batch[a] : e > mark

SessionInv == TypeOK /\ HoldsLock /\ WatermarkCurrent /\ BatchAhead

(* The sessions' own steps, apart from the tables they write. *)
LEMMA TypedStep == SessionInv /\ [Next]_vars => TypeOK'
<1> SUFFICES ASSUME SessionInv, [Next]_vars PROVE TypeOK'
  OBVIOUS
<1> USE EventAssumption, SizeAssumption
<1>t. TypeOK
  BY DEF SessionInv
<1>1. ASSUME NEW w \in Writers, Insert(w) PROVE TypeOK'
  <2>1. nextId \in Ids /\ nextId + 1 \in 1..(MaxEvents + 1)
    BY <1>1, <1>t DEF Insert, TypeOK, Ids
  <2> QED
    BY <1>1, <1>t, <2>1 DEF Insert, TypeOK, tables, control, bounds
<1>2. ASSUME NEW w \in Writers, Commit(w) \/ Abort(w) PROVE TypeOK'
  BY <1>2, <1>t DEF Commit, Abort, TypeOK, tables, control, bounds
<1>3. ASSUME NEW cutoff \in Hours, CleanupOldHistory(cutoff) PROVE TypeOK'
  BY <1>3, <1>t DEF CleanupOldHistory, TypeOK, tables, control, bounds
<1>4. ASSUME NEW a \in Aggregators, RunIncremental(a) \/ Locked(a) PROVE TypeOK'
  BY <1>4, <1>t DEF RunIncremental, Locked, AcquireLock, Goto, TypeOK, Steps,
     feed, tables, bounds
<1>5. ASSUME NEW a \in Aggregators, ReadWatermark(a) PROVE TypeOK'
  BY <1>5, <1>t DEF ReadWatermark, Goto, TypeOK, Steps, feed, tables, bounds
<1>6. ASSUME NEW a \in Aggregators, FetchBatch(a) PROVE TypeOK'
  <2>1. batch' \in [Aggregators -> Batches]
    BY <1>6, <1>t, BatchTyped DEF FetchBatch, TypeOK
  <2> QED
    BY <1>6, <1>t, <2>1 DEF FetchBatch, Goto, TypeOK, Steps, feed, tables, bounds
<1>7. ASSUME NEW a \in Aggregators, ApplyBatch(a) PROVE TypeOK'
  <2>1. batch[a] # {} /\ batch[a] \in SUBSET Ids
    BY <1>7, <1>t DEF ApplyBatch, SessionInv, BatchAhead, TypeOK, Batches
  <2>2. Max(batch[a]) \in 0..MaxEvents
    BY <1>t, <2>1, MarkTyped
  <2>3. {} \in Batches
    BY FS_EmptySet DEF Batches
  <2>4. AddToRollups(batch[a], Max(batch[a]))
    BY <1>7 DEF ApplyBatch
  <2>5. /\ current' \in [Aggregators -> 0..MaxEvents]
        /\ batch' \in [Aggregators -> Batches]
        /\ pc' \in [Aggregators -> Steps]
        /\ UNCHANGED <<feed, lock, bounds>>
    BY <1>7, <1>t, <2>2, <2>3 DEF ApplyBatch, Goto, TypeOK, Steps
  <2> QED
    BY <1>t, <2>1, <2>2, <2>4, <2>5, AddTyped DEF TypeOK, feed, bounds
<1>8. ASSUME NEW a \in Aggregators, Finish(a) \/ ReleaseBeforeRerun(a) PROVE TypeOK'
  BY <1>8, <1>t DEF Finish, ReleaseBeforeRerun, ReleaseLock, Goto, TypeOK,
     Steps, feed, tables, bounds
<1>9. ASSUME NEW a \in Aggregators, RunRebuild(a) PROVE TypeOK'
  <2>1. rebuilds' \in 0..MaxRebuilds
    BY <1>9, <1>t DEF RunRebuild, TypeOK
  <2> QED
    BY <1>9, <1>t, <2>1 DEF RunRebuild, AcquireLock, Goto, TypeOK, Steps, feed, tables
<1>10. ASSUME NEW a \in Aggregators, Truncate(a) PROVE TypeOK'
  BY <1>10, <1>t, CountsTyped DEF Truncate, Goto, TypeOK, Steps, feed, bounds
<1>11. ASSUME NEW a \in Aggregators, Crash(a) PROVE TypeOK'
  <2>1. faults' \in 0..MaxFaults
    BY <1>11, <1>t DEF Crash, TypeOK
  <2>2. {} \in Batches
    BY FS_EmptySet DEF Batches
  <2> QED
    BY <1>11, <1>t, <2>1, <2>2 DEF Crash, Goto, TypeOK, Steps, feed, tables
<1>12. CASE UNCHANGED vars
  BY <1>12, <1>t DEF vars, TypeOK
<1> QED
  BY <1>1, <1>2, <1>3, <1>4, <1>5, <1>6, <1>7, <1>8, <1>9, <1>10, <1>11, <1>12
     DEF Next, Step

(* Every step keeps the sessions apart. *)
LEMMA SessionStep == SessionInv /\ [Next]_vars => SessionInv'
<1> SUFFICES ASSUME SessionInv, [Next]_vars PROVE SessionInv'
  OBVIOUS
<1>t. TypeOK /\ TypeOK'
  BY TypedStep DEF SessionInv
<1>n. pc \in [Aggregators -> Steps] /\ NoOne \notin Aggregators
  BY <1>t, SizeAssumption DEF TypeOK
<1> USE DEF SessionInv, HoldsLock, WatermarkCurrent, BatchAhead, Working, Steps, Goto
<1>1. CASE UNCHANGED <<mark, lock, pc, current, batch>>
  BY <1>1, <1>t
<1>2. ASSUME NEW a \in Aggregators, RunIncremental(a) \/ RunRebuild(a)
      PROVE  SessionInv'
  BY <1>2, <1>t, <1>n DEF RunIncremental, RunRebuild, AcquireLock, tables
<1>3. ASSUME NEW a \in Aggregators, Locked(a) PROVE SessionInv'
  BY <1>3, <1>t, <1>n DEF Locked, tables
<1>4. ASSUME NEW a \in Aggregators, ReadWatermark(a) PROVE SessionInv'
  BY <1>4, <1>t, <1>n DEF ReadWatermark, TypeOK, tables
<1>5. ASSUME NEW a \in Aggregators, FetchBatch(a) PROVE SessionInv'
  <2>1. \A e \in FirstRows(RowsAbove(current[a]), BatchSize) : e > current[a]
    BY DEF FirstRows, RowsAbove
  <2>2. pc[a] = "fetch" /\ current[a] = mark
    BY <1>5 DEF FetchBatch
  <2>3. /\ batch' = [batch EXCEPT ![a] = FirstRows(RowsAbove(current[a]), BatchSize)]
        /\ pc' = [pc EXCEPT ![a] = IF FirstRows(RowsAbove(current[a]), BatchSize) = {}
                                     THEN "release" ELSE "apply"]
        /\ UNCHANGED <<mark, lock, current>>
    BY <1>5 DEF FetchBatch, tables
  <2> HIDE DEF Steps
  <2> QED BY <1>t, <1>n, <2>1, <2>2, <2>3 DEF TypeOK
<1>6. ASSUME NEW a \in Aggregators, ApplyBatch(a) PROVE SessionInv'
  <2>1. /\ pc[a] = "apply" /\ pc' = [pc EXCEPT ![a] = "fetch"]
        /\ mark' = Max(batch[a]) /\ current' = [current EXCEPT ![a] = Max(batch[a])]
        /\ batch' = [batch EXCEPT ![a] = {}] /\ lock' = lock
    BY <1>6 DEF ApplyBatch, AddToRollups
  <2>2. \A b \in Aggregators \ {a} : pc[b] \notin Working
    BY <2>1, <1>n
  <2> QED BY <1>t, <1>n, <2>1, <2>2 DEF TypeOK
<1>7. ASSUME NEW a \in Aggregators, Finish(a) \/ ReleaseBeforeRerun(a)
      PROVE  SessionInv'
  <2>1. \A b \in Aggregators \ {a} : pc[b] \notin Working
    BY <1>7, <1>n DEF Finish, ReleaseBeforeRerun
  <2> QED
    BY <1>7, <1>t, <1>n, <2>1 DEF Finish, ReleaseBeforeRerun, ReleaseLock, tables
<1>8. ASSUME NEW a \in Aggregators, Truncate(a) PROVE SessionInv'
  <2>1. \A b \in Aggregators \ {a} : pc[b] \notin Working
    BY <1>8, <1>n DEF Truncate
  <2> QED BY <1>8, <1>t, <1>n, <2>1 DEF Truncate
<1>9. ASSUME NEW a \in Aggregators, Crash(a) PROVE SessionInv'
  <2>1. /\ pc' = [pc EXCEPT ![a] = "idle"] /\ batch' = [batch EXCEPT ![a] = {}]
        /\ lock' = IF lock = a THEN NoOne ELSE lock
        /\ UNCHANGED <<mark, current>>
    BY <1>9 DEF Crash, tables
  <2> QED BY <1>t, <1>n, <2>1 DEF TypeOK
<1>10. ASSUME \/ \E w \in Writers : Insert(w) \/ Commit(w) \/ Abort(w)
              \/ \E cutoff \in Hours : CleanupOldHistory(cutoff)
              \/ UNCHANGED vars
       PROVE  UNCHANGED <<mark, lock, pc, current, batch>>
  BY <1>10 DEF Insert, Commit, Abort, CleanupOldHistory, tables, control, vars
<1> QED
  BY <1>1, <1>2, <1>3, <1>4, <1>5, <1>6, <1>7, <1>8, <1>9, <1>10 DEF Next, Step

LEMMA InitSession == Init => SessionInv
BY InitTyped DEF Init, SessionInv, HoldsLock, WatermarkCurrent, BatchAhead, Working

(* Every variable of the aggregator stays within its type. *)
THEOREM TypeCorrect == Spec => []TypeOK
<1>1. Spec => []SessionInv
  BY InitSession, SessionStep, PTL DEF Spec
<1> QED
  BY <1>1, PTL DEF SessionInv

-----------------------------------------------------------------------------
(* The refinement. *)

(* The tables are the exact counts of the events counted, none of which is *)
(* above the watermark.                                                    *)
BelowMark == \A e \in counted : e <= mark
ViewInv == View!Exact /\ BelowMark

(* Both modules count in the same way. *)
LEMMA SameEvents == View!Ids = Ids /\ View!HourlyKeys = HourlyKeys /\ View!DailyKeys = DailyKeys
BY DEF View!Ids, Ids, View!HourlyKeys, HourlyKeys, View!DailyKeys, DailyKeys,
       View!Hours, Hours, View!Days, Days, View!DomainNames, DomainNames,
       View!Verdicts, Verdicts

LEMMA SameVerdict == ASSUME NEW e PROVE View!VerdictOf(e) = VerdictOf(e)
BY DEF View!VerdictOf, VerdictOf, View!Canonical, Canonical

LEMMA SameCardinality == ASSUME NEW S PROVE View!Cardinality(S) = Cardinality(S)
BY Zenon DEF View!Cardinality, Cardinality

LEMMA SameCounts ==
  ASSUME NEW S
  PROVE  View!HourlyCounts(S) = HourlyCounts(S) /\ View!DailyCounts(S) = DailyCounts(S)
<1>1. \A k : {e \in S : View!InHourly(e, k)} = {e \in S : InHourly(e, k)}
  BY SameVerdict DEF View!InHourly, InHourly
<1>2. \A k : {e \in S : View!InDaily(e, k)} = {e \in S : InDaily(e, k)}
  BY SameVerdict DEF View!InDaily, InDaily
<1> QED
  BY <1>1, <1>2, SameEvents, SameCardinality
     DEF View!HourlyCounts, HourlyCounts, View!DailyCounts, DailyCounts

LEMMA ShownExactly ==
  View!Exact <=> /\ processed = Cardinality(counted)
                 /\ hourly = HourlyCounts(counted) /\ daily = DailyCounts(counted)
BY SameCounts, SameCardinality DEF View!Exact

LEMMA InitView == Init => ViewInv /\ View!Init
BY FS_EmptySet, ShownExactly DEF Init, ViewInv, BelowMark, View!Init

(* A step that leaves the tables alone is a stutter of the view. *)
ShownVars == <<counted, mark, processed, hourly, daily>>

LEMMA StutterStep ==
  ASSUME ViewInv, UNCHANGED ShownVars
  PROVE  ViewInv' /\ UNCHANGED View!vars
BY DEF ViewInv, BelowMark, View!Exact, ShownVars, View!vars

LEMMA AbsorbStep ==
  ASSUME SessionInv, ViewInv, NEW a \in Aggregators, ApplyBatch(a)
  PROVE  ViewInv' /\ \E S \in SUBSET View!Ids : View!Absorb(S)
<1> DEFINE S == batch[a]
<1>1. /\ S # {} /\ S \in SUBSET Ids /\ \A e \in S : e > mark
  BY DEF ApplyBatch, SessionInv, BatchAhead, TypeOK, Batches
<1>2. /\ Max(S) \in S /\ \A e \in S : e <= Max(S)
  BY <1>1, MaxOfIds
<1>3. AddToRollups(S, Max(S))
  BY DEF ApplyBatch
<1>4. /\ counted \in SUBSET Ids /\ mark \in Nat
      /\ \A e \in Ids : e \in Nat
  BY EventAssumption DEF SessionInv, TypeOK, Ids
<1>5. counted \cap S = {}
  BY <1>1, <1>4 DEF ViewInv, BelowMark
<1>6. /\ processed = Cardinality(counted)
      /\ hourly = HourlyCounts(counted) /\ daily = DailyCounts(counted)
  BY ShownExactly DEF ViewInv
<1>7. /\ counted' = counted \cup S /\ mark' = Max(S)
      /\ processed' = Cardinality(counted \cup S)
      /\ hourly' = HourlyCounts(counted \cup S)
      /\ daily' = DailyCounts(counted \cup S)
  BY <1>1, <1>3, <1>4, <1>5, <1>6, CardinalityAdds, CountsAdd DEF AddToRollups
<1>8. BelowMark'
  <2>1. \A e \in counted : e <= mark /\ mark < Max(S) /\ e \in Nat /\ Max(S) \in Nat
    BY <1>1, <1>2, <1>4 DEF ViewInv, BelowMark
  <2>2. \A e \in counted \cup S : e <= Max(S)
    <3> HIDE DEF S
    <3> QED BY <1>2, <1>4, <2>1
  <2> QED BY <1>7, <2>2 DEF BelowMark
<1>9. View!Exact'
  BY <1>7, SameCounts, SameCardinality DEF View!Exact
<1>10. ViewInv'
  BY <1>8, <1>9 DEF ViewInv
<1>11. View!Absorb(S)
  BY <1>1, <1>2, <1>4, <1>7, <1>9 DEF View!Absorb
<1> QED BY <1>1, <1>10, <1>11, SameEvents

LEMMA ResetStep ==
  ASSUME ViewInv, NEW a \in Aggregators, Truncate(a)
  PROVE  ViewInv' /\ View!Reset
BY FS_EmptySet, SameCounts, SameCardinality
   DEF Truncate, ViewInv, BelowMark, View!Reset, View!Exact

(* Every step of the aggregator is a step of the view or a stutter. *)
LEMMA ViewStep ==
  SessionInv /\ ViewInv /\ [Next]_vars => ViewInv' /\ [View!Next]_View!vars
<1> SUFFICES ASSUME SessionInv, ViewInv, [Next]_vars
             PROVE  ViewInv' /\ [View!Next]_View!vars
  OBVIOUS
<1>1. ASSUME NEW a \in Aggregators, ApplyBatch(a)
      PROVE  ViewInv' /\ View!Next
  BY <1>1, AbsorbStep DEF View!Next
<1>2. ASSUME NEW a \in Aggregators, Truncate(a)
      PROVE  ViewInv' /\ View!Next
  BY <1>2, ResetStep DEF View!Next
<1>3. ASSUME NEW a \in Aggregators,
             \/ RunIncremental(a) \/ Locked(a) \/ ReadWatermark(a) \/ FetchBatch(a)
             \/ Finish(a) \/ ReleaseBeforeRerun(a) \/ RunRebuild(a) \/ Crash(a)
      PROVE  UNCHANGED ShownVars
  BY <1>3 DEF RunIncremental, Locked, ReadWatermark, FetchBatch, Finish,
     ReleaseBeforeRerun, RunRebuild, Crash, tables, ShownVars
<1>4. ASSUME \/ \E w \in Writers : Insert(w) \/ Commit(w) \/ Abort(w)
             \/ \E cutoff \in Hours : CleanupOldHistory(cutoff)
             \/ UNCHANGED vars
      PROVE  UNCHANGED ShownVars
  BY <1>4 DEF Insert, Commit, Abort, CleanupOldHistory, tables, vars, ShownVars
<1>5. CASE UNCHANGED ShownVars
  BY <1>5, StutterStep
<1> QED
  BY <1>1, <1>2, <1>3, <1>4, <1>5 DEF Next, Step

(* "Idempotent incremental aggregation": the aggregator implements the     *)
(* view.  Whatever sessions, rebuilds and crashes do, the rollups are the  *)
(* exact counts of a set of events to which no batch adds an event twice.  *)
THEOREM AggregatorImplementsView == Spec => ImplementsView
<1>1. Init => SessionInv /\ ViewInv /\ View!Init
  BY InitSession, InitView
<1>2. SessionInv /\ ViewInv /\ [Next]_vars
        => (SessionInv /\ ViewInv)' /\ [View!Next]_View!vars
  BY SessionStep, ViewStep
<1> QED
  BY <1>1, <1>2, PTL DEF Spec, ImplementsView, View!Spec

-----------------------------------------------------------------------------
(* While rows become visible in the order of their ids, nothing is skipped. *)

(* What is still in a transaction is newer than the watermark and than     *)
(* every fetched row, and a fetched batch has no holes.                    *)
WritersAhead ==
  /\ mark < nextId /\ \A h \in history : h < nextId
  /\ \A w \in Writers : \A e \in open[w] : e < nextId /\ mark < e

BatchComplete ==
  \A a \in Aggregators : pc[a] = "apply" => \A b \in batch[a] :
    /\ b < nextId
    /\ \A w \in Writers : \A e \in open[w] : b < e
    /\ \A h \in history : h <= b => h \in counted \cup batch[a]

OrderedInv == WritersAhead /\ BatchComplete /\ NothingSkipped

(* ORDER BY id: a row is fetched only with all those before it. *)
LEMMA FirstRowsClosed ==
  ASSUME NEW S \in SUBSET Ids, NEW n \in Nat,
         NEW b \in FirstRows(S, n), NEW e \in S, e <= b
  PROVE  e \in FirstRows(S, n)
<1> DEFINE Upto(x) == {f \in S : f <= x}
<1>1. b \in S /\ Cardinality(Upto(b)) <= n
  BY DEF FirstRows
<1>2. \A x \in Ids : x \in Nat
  BY EventAssumption DEF Ids
<1>3. Upto(e) \subseteq Upto(b)
  BY <1>1, <1>2
<1>4. /\ IsFiniteSet(Upto(b)) /\ Cardinality(Upto(b)) \in Nat
      /\ Cardinality(Upto(e)) \in Nat
  BY IdsFinite
<1>5. Cardinality(Upto(e)) <= Cardinality(Upto(b))
  BY <1>3, <1>4, FS_Subset
<1> HIDE DEF Upto
<1>6. Cardinality(Upto(e)) <= n
  BY <1>1, <1>4, <1>5
<1> QED BY <1>6 DEF FirstRows, Upto

LEMMA OrderedStep ==
  SessionInv /\ OrderedInv /\ OrderedCommits /\ [Next]_vars => OrderedInv'
<1> SUFFICES ASSUME SessionInv, OrderedInv, OrderedCommits, [Next]_vars PROVE OrderedInv'
  OBVIOUS
<1>t. /\ nextId \in Nat /\ mark \in Nat
      /\ \A w \in Writers : open[w] \subseteq Ids
      /\ history \subseteq Ids /\ \A e \in Ids : e \in Nat /\ 0 < e
      /\ open \in [Writers -> SUBSET Ids] /\ pc \in [Aggregators -> Steps]
      /\ batch \in [Aggregators -> SUBSET Ids]
  BY EventAssumption DEF SessionInv, TypeOK, Batches, Ids
<1>i. WritersAhead /\ BatchComplete /\ NothingSkipped
  BY DEF OrderedInv
<1>1. ASSUME NEW v \in Writers, Insert(v) PROVE OrderedInv'
  <2>1. /\ nextId' = nextId + 1
        /\ \A w \in Writers : open'[w] \subseteq open[w] \cup {nextId}
        /\ UNCHANGED <<history, mark, counted, pc, batch>>
    BY <1>1, <1>t DEF Insert, tables, control
  <2> QED
    BY <2>1, <1>t, <1>i DEF OrderedInv, WritersAhead, BatchComplete, NothingSkipped
<1>2. ASSUME NEW v \in Writers, Commit(v) PROVE OrderedInv'
  <2>1. /\ history' = history \cup open[v]
        /\ \A w \in Writers : open'[w] \subseteq open[w]
        /\ UNCHANGED <<nextId, mark, counted, pc, batch>>
    BY <1>2, <1>t DEF Commit, tables, control
  <2> QED
    BY <2>1, <1>t, <1>i DEF OrderedInv, WritersAhead, BatchComplete, NothingSkipped
<1>3. ASSUME \/ \E v \in Writers : Abort(v)
             \/ \E cutoff \in Hours : CleanupOldHistory(cutoff)
             \/ UNCHANGED vars
      PROVE  OrderedInv'
  <2>1. /\ history' \subseteq history /\ \A w \in Writers : open'[w] \subseteq open[w]
        /\ UNCHANGED <<nextId, mark, counted, pc, batch>>
    BY <1>3, <1>t DEF Abort, CleanupOldHistory, tables, control, vars
  <2> QED
    BY <2>1, <1>t, <1>i DEF OrderedInv, WritersAhead, BatchComplete, NothingSkipped
<1>f. ASSUME UNCHANGED <<nextId, open, history, mark, counted>>,
             \A a \in Aggregators :
               pc'[a] = "apply" => pc[a] = "apply" /\ batch'[a] = batch[a]
      PROVE  OrderedInv'
  BY <1>f, <1>i DEF OrderedInv, WritersAhead, BatchComplete, NothingSkipped
<1>4. ASSUME NEW a \in Aggregators,
             \/ RunIncremental(a) \/ Locked(a) \/ ReadWatermark(a) \/ Finish(a)
             \/ ReleaseBeforeRerun(a) \/ RunRebuild(a) \/ Crash(a)
      PROVE  OrderedInv'
  <2>1. /\ UNCHANGED <<nextId, open, history, mark, counted>>
        /\ \E step \in Steps \ {"apply"} : pc' = [pc EXCEPT ![a] = step]
        /\ batch' = batch \/ batch' = [batch EXCEPT ![a] = {}]
    BY <1>4 DEF RunIncremental, Locked, ReadWatermark, Finish, RunRebuild,
       ReleaseBeforeRerun, Crash, AcquireLock, ReleaseLock, Goto, Steps, feed, tables
  <2> QED BY <2>1, <1>t, <1>f
<1>5. ASSUME NEW a \in Aggregators, FetchBatch(a) PROVE OrderedInv'
  <2> DEFINE rows == FirstRows(RowsAbove(mark), BatchSize)
  <2>1. /\ UNCHANGED <<nextId, open, history, mark, counted>>
        /\ batch' = [batch EXCEPT ![a] = rows]
        /\ \E step \in Steps : pc' = [pc EXCEPT ![a] = step]
    BY <1>5 DEF FetchBatch, Goto, Steps, SessionInv, WatermarkCurrent, feed, tables
  <2>2. rows \subseteq history
    BY DEF FirstRows, RowsAbove
  <2>3. ASSUME NEW b \in rows, NEW h \in history, h <= b
        PROVE  h \in counted \cup rows
    <3>1. CASE h <= mark
      BY <3>1, <1>i DEF NothingSkipped
    <3>2. CASE ~(h <= mark)
      <4>1. h \in RowsAbove(mark)
        BY <3>2, <1>t DEF RowsAbove
      <4>2. RowsAbove(mark) \in SUBSET Ids /\ BatchSize \in Nat
        BY <1>t, SizeAssumption DEF RowsAbove
      <4> QED BY <4>1, <4>2, <2>3, FirstRowsClosed
    <3> QED BY <3>1, <3>2
  <2>4. \A b \in rows : b < nextId /\ \A w \in Writers : \A e \in open[w] : b < e
    BY <2>2, <1>i DEF WritersAhead, OrderedCommits
  <2> HIDE DEF rows
  <2>5. BatchComplete'
    BY <2>1, <2>3, <2>4, <1>t, <1>i DEF BatchComplete
  <2>6. WritersAhead' /\ NothingSkipped'
    BY <2>1, <1>i DEF WritersAhead, NothingSkipped
  <2> QED BY <2>5, <2>6 DEF OrderedInv
<1>6. ASSUME NEW a \in Aggregators, ApplyBatch(a) \/ Truncate(a)
      PROVE  BatchComplete'
  <2>1. /\ pc[a] \in {"apply", "truncate"}
        /\ \E step \in {"fetch", "unlock"} : pc' = [pc EXCEPT ![a] = step]
    BY <1>6 DEF ApplyBatch, Truncate, Goto
  <2>2. \A b \in Aggregators \ {a} : pc[b] # "apply"
    BY <2>1 DEF SessionInv, HoldsLock, Working, Steps
  <2> QED BY <2>1, <2>2, <1>t DEF BatchComplete
<1>7. ASSUME NEW a \in Aggregators, ApplyBatch(a) PROVE OrderedInv'
  <2>1. /\ UNCHANGED <<nextId, open, history>> /\ mark' = Max(batch[a])
        /\ counted' = counted \cup batch[a] /\ pc[a] = "apply"
    BY <1>7 DEF ApplyBatch, AddToRollups, feed
  <2>2. Max(batch[a]) \in batch[a]
    BY <2>1, <1>t, MaxOfIds DEF SessionInv, BatchAhead
  <2>3. WritersAhead' /\ NothingSkipped'
    BY <2>1, <2>2, <1>t, <1>i DEF WritersAhead, BatchComplete, NothingSkipped
  <2> QED BY <1>6, <1>7, <2>3 DEF OrderedInv
<1>8. ASSUME NEW a \in Aggregators, Truncate(a) PROVE OrderedInv'
  <2>1. UNCHANGED <<nextId, open, history>> /\ mark' = 0
    BY <1>8 DEF Truncate, feed
  <2>2. WritersAhead' /\ NothingSkipped'
    BY <2>1, <1>t, <1>i DEF WritersAhead, NothingSkipped
  <2> QED BY <1>6, <1>8, <2>2 DEF OrderedInv
<1> QED
  BY <1>1, <1>2, <1>3, <1>4, <1>5, <1>7, <1>8 DEF Next, Step

(* With any number of writers: as long as rows become visible in the order *)
(* of their ids, every row up to the watermark is in the rollups, for any  *)
(* number of sessions, rebuilds and crashes and whatever retention takes.  *)
THEOREM OrderedCommitsSkipNothing ==
  Spec /\ []OrderedCommits => []NothingSkipped
<1>1. Init => SessionInv /\ OrderedInv
  BY InitSession
     DEF Init, OrderedInv, WritersAhead, BatchComplete, NothingSkipped
<1>2. SessionInv /\ OrderedInv /\ OrderedCommits /\ [Next]_vars
        => (SessionInv /\ OrderedInv)'
  BY SessionStep, OrderedStep
<1>3. OrderedInv => NothingSkipped
  BY DEF OrderedInv
<1> QED
  BY <1>1, <1>2, <1>3, PTL DEF Spec

(* A single connection commits what it has inserted in the order of ids.   *)
OwnAhead ==
  /\ \A h \in history : h < nextId
  /\ \A w \in Writers : \A e \in open[w] : e < nextId

LEMMA OneWriterStep ==
  ASSUME NEW w, Writers = {w}
  PROVE  SessionInv /\ OwnAhead /\ OrderedCommits /\ [Next]_vars
           => (OwnAhead /\ OrderedCommits)'
<1> SUFFICES ASSUME SessionInv, OwnAhead, OrderedCommits, [Next]_vars
             PROVE  (OwnAhead /\ OrderedCommits)'
  OBVIOUS
<1>t. /\ nextId \in Nat /\ open[w] \subseteq Ids
      /\ history \subseteq Ids /\ \A e \in Ids : e \in Nat
      /\ open \in [Writers -> SUBSET Ids]
  BY EventAssumption DEF SessionInv, TypeOK, Ids
<1>1. CASE Insert(w)
  <2>1. /\ nextId' = nextId + 1 /\ open'[w] = open[w] \cup {nextId}
        /\ history' = history
    BY <1>1, <1>t DEF Insert
  <2> QED BY <2>1, <1>t DEF OwnAhead, OrderedCommits
<1>2. CASE Commit(w)
  <2>1. /\ history' = history \cup open[w] /\ open'[w] = {} /\ nextId' = nextId
    BY <1>2, <1>t DEF Commit
  <2> QED BY <2>1, <1>t DEF OwnAhead, OrderedCommits
<1>3. CASE /\ history' \subseteq history /\ open'[w] \subseteq open[w]
           /\ nextId' = nextId
  BY <1>3, <1>t DEF OwnAhead, OrderedCommits
<1>4. CASE Abort(w)
  BY <1>3, <1>4, <1>t DEF Abort
<1>5. CASE \E cutoff \in Hours : CleanupOldHistory(cutoff)
  BY <1>3, <1>5 DEF CleanupOldHistory
<1>6. CASE UNCHANGED <<nextId, open, history>>
  BY <1>3, <1>6
<1> QED
  BY <1>1, <1>2, <1>4, <1>5, <1>6
     DEF Next, Step, vars, feed, RunIncremental, Locked, ReadWatermark, FetchBatch,
         ApplyBatch, Finish, Truncate, ReleaseBeforeRerun, RunRebuild, Crash

(* While a single connection writes the history, every row up to the       *)
(* watermark is in the rollups.                                            *)
THEOREM OneWriterSkipsNothing ==
  ASSUME NEW w, Writers = {w} PROVE Spec => []NothingSkipped
<1>1. Init => SessionInv /\ OwnAhead /\ OrderedCommits
  BY InitSession DEF Init, OwnAhead, OrderedCommits
<1>2. SessionInv /\ OwnAhead /\ OrderedCommits /\ [Next]_vars
        => (SessionInv /\ OwnAhead /\ OrderedCommits)'
  BY SessionStep, OneWriterStep
<1>3. Spec => []OrderedCommits
  BY <1>1, <1>2, PTL DEF Spec
<1> QED
  BY <1>3, OrderedCommitsSkipNothing, PTL

=============================================================================

------------------------ MODULE MaliciousFeed_proofs ------------------------
(***************************************************************************)
(* Proofs about MaliciousFeed, for any number of processes and any bounds. *)
(***************************************************************************)
EXTENDS MaliciousFeed, TLAPS

(* Whoever stands inside the locked part of perform_update has the lock.   *)
HoldersLock == \A p \in Procs : pc[p] \in Updating => lock = {p}

(* After validation the new file is whole, or somebody's cleanup took it.  *)
NewIsWhole ==
  \A p \in Procs : pc[p] \in {"drop backup", "move aside", "move in"} =>
    file["new"] \in {"absent", "current"}

NoOldBackup == \A p \in Procs : pc[p] = "move aside" => file["backup"] = "absent"

NothingInPlace == \A p \in Procs : pc[p] = "move in" => file["live"] \notin Populated

IInv == TypeOK /\ HoldersLock /\ NewIsWhole /\ NoOldBackup /\ NothingInPlace

LEMMA InitInv == Init => IInv
<1> SUFFICES ASSUME Init PROVE IInv
  OBVIOUS
<1>1. PICK first \in {"absent"} \cup Populated :
        file = [f \in Files |-> IF f = "live" THEN first ELSE "absent"]
  BY DEF Init
<1>2. file \in [Files -> Contents]
  BY <1>1 DEF Files, Contents, Populated
<1>3. TypeOK
  <2>1. pc \in [Procs -> Steps] /\ lock \subseteq Procs /\ (\A p \in lock : lock = {p})
    BY DEF Init, Steps
  <2>2. faults \in 0..MaxFaults /\ ages \in 0..MaxAges
    BY FeedAssumption DEF Init
  <2>3. lost \in BOOLEAN
    BY DEF Init
  <2> QED
    BY <1>2, <2>1, <2>2, <2>3 DEF TypeOK
<1> QED
  BY <1>3 DEF Init, IInv, HoldersLock, NewIsWhole, NoOldBackup, NothingInPlace, Updating

LEMMA FaultBounded ==
  ASSUME faults \in 0..MaxFaults, Fault
  PROVE  faults' \in 0..MaxFaults
  BY FeedAssumption DEF Fault

LEMMA AgeBounded ==
  ASSUME ages \in 0..MaxAges, Age
  PROVE  ages' \in 0..MaxAges
  BY FeedAssumption DEF Age

LEMMA ConnectsNew ==
  ASSUME file \in [Files -> Contents],
         file' = file \/ \E c \in Contents : file' = [file EXCEPT !["new"] = c]
  PROVE  file' \in [Files -> Contents] /\ file'["live"] = file["live"]
  BY DEF Files

LEMMA NextInv == IInv /\ [Next]_vars => IInv'
<1> SUFFICES ASSUME IInv, [Next]_vars PROVE IInv'
  OBVIOUS
<1> USE FeedAssumption DEF IInv, TypeOK, HoldersLock, NewIsWhole, NoOldBackup,
      NothingInPlace, Steps, Updating, Files, Contents, Populated, Goto
<1>1. ASSUME NEW p \in Procs, Start(p) PROVE IInv'
  BY <1>1 DEF Start
<1>2. ASSUME NEW p \in Procs, ReadAge(p) PROVE IInv'
  BY <1>2 DEF ReadAge, Connect
<1>3. ASSUME NEW p \in Procs, CheckAndRefresh(p) PROVE IInv'
  BY <1>3 DEF CheckAndRefresh, Connect
<1>4. ASSUME NEW p \in Procs, Query(p) PROVE IInv'
  BY <1>4 DEF Query, Connect
<1>5. ASSUME NEW p \in Procs, AcquireLock(p) PROVE IInv'
  <2>1. TypeOK'
    BY <1>5 DEF AcquireLock
  <2>2. HoldersLock'
    BY <1>5 DEF AcquireLock
  <2>3. NewIsWhole' /\ NoOldBackup' /\ NothingInPlace'
    BY <1>5 DEF AcquireLock
  <2> QED
    BY <2>1, <2>2, <2>3
<1>6. ASSUME NEW p \in Procs, Download(p) PROVE IInv'
  <2>1. PICK s \in {"build", "release"} : pc' = [pc EXCEPT ![p] = s]
    BY <1>6 DEF Download
  <2>2. pc[p] = "download" /\ UNCHANGED <<file, lock, ages, lost>>
    BY <1>6 DEF Download
  <2>3. faults' \in 0..MaxFaults
    BY <1>6, FaultBounded DEF Download
  <2> QED
    BY <2>1, <2>2, <2>3
<1>7. ASSUME NEW p \in Procs, BuildStart(p) PROVE IInv'
  BY <1>7 DEF BuildStart
<1>8. ASSUME NEW p \in Procs, BuildFill(p) PROVE IInv'
  <2>1. PICK s \in {"validate", "release"} : pc' = [pc EXCEPT ![p] = s]
    BY <1>8 DEF BuildFill
  <2>2. file' \in [Files -> Contents] /\ file'["live"] = file["live"]
    <3>1. \/ file' = file
          \/ \E c \in Contents : file' = [file EXCEPT !["new"] = c]
      BY <1>8 DEF BuildFill, Connect
    <3>2. file \in [Files -> Contents]
      OBVIOUS
    <3> QED
      BY <3>1, <3>2, ConnectsNew
  <2>3. pc[p] = "fill" /\ UNCHANGED <<lock, faults, ages, lost>>
    BY <1>8 DEF BuildFill
  <2>4. TypeOK'
    BY <2>1, <2>2, <2>3
  <2>5. \A q \in Procs : pc'[q] \notin {"move aside", "move in", "drop backup"}
    BY <2>1, <2>3
  <2>6. HoldersLock'
    BY <2>1, <2>3
  <2> QED
    BY <2>4, <2>5, <2>6
<1>9. ASSUME NEW p \in Procs, Validate(p) PROVE IInv'
  BY <1>9 DEF Validate
<1>10. ASSUME NEW p \in Procs, DropStaleBackup(p) PROVE IInv'
  BY <1>10 DEF DropStaleBackup
<1>11. ASSUME NEW p \in Procs, MoveAside(p) PROVE IInv'
  BY <1>11 DEF MoveAside
<1>12. ASSUME NEW p \in Procs, MoveIn(p) PROVE IInv'
  <2>1. TypeOK'
    <3>1. file' \in [Files -> Contents] /\ pc' \in [Procs -> Steps]
      <4>1. pc' \in [Procs -> Steps]
        BY <1>12 DEF MoveIn
      <4>2. Restored \in [Files -> Contents]
        BY DEF Restored
      <4>3. [file EXCEPT !["live"] = file["new"], !["new"] = "absent"] \in [Files -> Contents]
        OBVIOUS
      <4> QED
        BY <1>12, <4>1, <4>2, <4>3 DEF MoveIn
    <3>2. lock' \subseteq Procs /\ (\A q \in lock' : lock' = {q})
      BY <1>12 DEF MoveIn, Restored
    <3>3. faults' \in 0..MaxFaults /\ ages' \in 0..MaxAges
      BY <1>12, FaultBounded DEF MoveIn, Restored
    <3>4. lost' = lost
      BY <1>12 DEF MoveIn
    <3> QED
      BY <3>1, <3>2, <3>3, <3>4
  <2>2. HoldersLock'
    BY <1>12 DEF MoveIn, Restored
  <2>3. NewIsWhole' /\ NoOldBackup' /\ NothingInPlace'
    <3>1. \A q \in Procs : pc'[q] \notin {"move aside", "move in", "drop backup"}
      BY <1>12 DEF MoveIn
    <3> QED
      BY <3>1
  <2> QED
    BY <2>1, <2>2, <2>3
<1>13. ASSUME NEW p \in Procs, Finish(p) PROVE IInv'
  BY <1>13 DEF Finish
<1>14. ASSUME NEW p \in Procs, Release(p) PROVE IInv'
  BY <1>14 DEF Release
<1>15. ASSUME NEW p \in Procs, Cleanup(p) PROVE IInv'
  BY <1>15 DEF Cleanup
<1>16. ASSUME NEW p \in Procs, RefreshByHand(p) PROVE IInv'
  BY <1>16 DEF RefreshByHand
<1>17. ASSUME NEW p \in Procs, AcquireTimesOut(p) PROVE IInv'
  <2>1. TypeOK'
    <3>1. file' \in [Files -> Contents] /\ pc' \in [Procs -> Steps]
      BY <1>17 DEF AcquireTimesOut
    <3>2. lock' \subseteq Procs /\ (\A q \in lock' : lock' = {q})
      BY <1>17 DEF AcquireTimesOut
    <3>3. faults' \in 0..MaxFaults /\ ages' \in 0..MaxAges
      BY <1>17, FaultBounded DEF AcquireTimesOut
    <3>4. lost' \in BOOLEAN
      BY <1>17 DEF AcquireTimesOut
    <3> QED
      BY <3>1, <3>2, <3>3, <3>4
  <2>2. HoldersLock'
    BY <1>17 DEF AcquireTimesOut
  <2>3. NewIsWhole' /\ NoOldBackup' /\ NothingInPlace'
    BY <1>17 DEF AcquireTimesOut
  <2> QED
    BY <2>1, <2>2, <2>3
<1>18. ASSUME NEW p \in Procs, Crash(p) PROVE IInv'
  <2>1. TypeOK'
    <3>1. file' \in [Files -> Contents] /\ pc' \in [Procs -> Steps]
      BY <1>18 DEF Crash
    <3>2. lock' \subseteq Procs /\ (\A q \in lock' : lock' = {q})
      BY <1>18 DEF Crash
    <3>3. faults' \in 0..MaxFaults /\ ages' \in 0..MaxAges
      BY <1>18, FaultBounded DEF Crash
    <3>4. lost' \in BOOLEAN
      BY <1>18 DEF Crash
    <3> QED
      BY <3>1, <3>2, <3>3, <3>4
  <2>2. HoldersLock'
    BY <1>18 DEF Crash
  <2>3. NewIsWhole' /\ NoOldBackup' /\ NothingInPlace'
    BY <1>18 DEF Crash
  <2> QED
    BY <2>1, <2>2, <2>3
<1>19. CASE Age
  <2>1. TypeOK'
    <3>1. file' \in [Files -> Contents] /\ pc' \in [Procs -> Steps]
      BY <1>19 DEF Age
    <3>2. lock' \subseteq Procs /\ (\A q \in lock' : lock' = {q})
      BY <1>19 DEF Age
    <3>3. faults' \in 0..MaxFaults /\ ages' \in 0..MaxAges
      BY <1>19, AgeBounded DEF Age
    <3>4. lost' \in BOOLEAN
      BY <1>19 DEF Age
    <3> QED
      BY <3>1, <3>2, <3>3, <3>4
  <2>2. HoldersLock' /\ NewIsWhole' /\ NoOldBackup' /\ NothingInPlace'
    BY <1>19 DEF Age
  <2> QED
    BY <2>1, <2>2
<1>20. CASE UNCHANGED vars
  <2>1. TypeOK'
    BY <1>20 DEF vars
  <2>2. HoldersLock' /\ NewIsWhole' /\ NoOldBackup' /\ NothingInPlace'
    BY <1>20 DEF vars
  <2> QED
    BY <2>1, <2>2
<1> QED
  BY <1>1, <1>2, <1>3, <1>4, <1>5, <1>6, <1>7, <1>8, <1>9, <1>10, <1>11, <1>12, <1>13,
     <1>14, <1>15, <1>16, <1>17, <1>18, <1>19, <1>20
  DEF Next, Lookup, PerformUpdate

LEMMA Invariance == Spec => []IInv
  BY InitInv, NextInv, PTL DEF Spec

(* Type correctness: the files, the lock and the steps of every process.   *)
THEOREM TypeCorrect == Spec => []TypeOK
<1>1. IInv => TypeOK
  BY DEF IInv
<1> QED
  BY <1>1, Invariance, PTL

(* The two renames are in one hand, and can be undone.                     *)
THEOREM SwapAlwaysRecoverable == Spec => []SwapRecoverable
<1>1. IInv => SwapRecoverable
  BY DEF IInv, HoldersLock, NewIsWhole, NothingInPlace, SwapRecoverable, Updating
<1> QED
  BY <1>1, Invariance, PTL

-----------------------------------------------------------------------------
(***************************************************************************)
(* perform_update implements AtomicFeed.                                   *)
(***************************************************************************)

(* A step that leaves the mapped database alone.                           *)
Same == UNCHANGED <<Feed, lost>>

(* A step of a process that neither is nor goes between the renames leaves *)
(* the mapped database alone, if it does not touch a published one.        *)
LEMMA AwayFromSwap ==
  ASSUME IInv, NEW p \in Procs, pc[p] # "move in",
         NEW s \in Steps \ {"move in"}, pc' = [pc EXCEPT ![p] = s],
         Swapping => file'["backup"] = file["backup"],
         \/ file'["live"] = file["live"]
         \/ file["live"] \notin Populated /\ file'["live"] \notin Populated
  PROVE  Feed' = Feed
<1>1. Swapping' <=> Swapping
  BY DEF IInv, TypeOK, Swapping
<1> QED
  BY <1>1 DEF Feed, Logical

(* Nobody but the process at hand can stand between the renames while that *)
(* process is in the locked part.                                          *)
LEMMA OnlyOneUpdating ==
  ASSUME IInv, NEW p \in Procs, pc[p] \in Updating, NEW q \in Procs, pc[q] = "move in"
  PROVE  q = p
  BY DEF IInv, HoldersLock, Updating

LEMMA InitMaps == Init => Replacement!Init
<1> SUFFICES ASSUME Init PROVE Replacement!Init
  OBVIOUS
<1>1. ~Swapping
  BY DEF Init, Swapping
<1> QED
  BY <1>1 DEF Init, Replacement!Init, Feed, Logical, Populated

LEMMA StepMaps == IInv /\ [Next]_vars => [Replacement!Next]_Replacement!vars
<1> SUFFICES ASSUME IInv, [Next]_vars PROVE [Replacement!Next]_Replacement!vars
  OBVIOUS
<1> USE DEF Goto
<1>a. ASSUME Same PROVE [Replacement!Next]_Replacement!vars
  BY <1>a DEF Same, Replacement!vars
<1>1. ASSUME NEW p \in Procs, Lookup(p) \/ RefreshByHand(p) PROVE Same
  <2>1. CASE Start(p)
    BY <2>1, AwayFromSwap DEF Start, Same, IInv, TypeOK, Files, Populated, Steps
  <2>2. CASE ReadAge(p) \/ CheckAndRefresh(p) \/ Query(p)
    BY <2>2, AwayFromSwap
    DEF ReadAge, CheckAndRefresh, Query, Connect, Same, IInv, TypeOK, Files, Populated, Steps
  <2>3. CASE RefreshByHand(p)
    BY <2>3, AwayFromSwap DEF RefreshByHand, Same, Steps
  <2> QED
    BY <1>1, <2>1, <2>2, <2>3 DEF Lookup
<1>2. ASSUME NEW p \in Procs,
             \/ AcquireLock(p) \/ AcquireTimesOut(p) \/ Download(p) \/ BuildStart(p)
             \/ BuildFill(p) \/ Validate(p) \/ Release(p) \/ Cleanup(p)
      PROVE  Same
  <2>1. CASE AcquireLock(p) \/ AcquireTimesOut(p) \/ Download(p) \/ Validate(p) \/ Release(p)
    BY <2>1, AwayFromSwap
    DEF AcquireLock, AcquireTimesOut, Download, Validate, Release, Same, Steps, Updating
  <2>2. CASE BuildStart(p) \/ BuildFill(p) \/ Cleanup(p)
    BY <2>2, AwayFromSwap
    DEF BuildStart, BuildFill, Cleanup, Connect, Same, IInv, TypeOK, Files, Steps, Updating
  <2> QED
    BY <1>2, <2>1, <2>2
<1>3. ASSUME NEW p \in Procs, DropStaleBackup(p) \/ Finish(p) PROVE Same
  <2>1. ~Swapping
    BY <1>3, OnlyOneUpdating DEF DropStaleBackup, Finish, Swapping, Updating
  <2> QED
    BY <1>3, <2>1, AwayFromSwap
    DEF DropStaleBackup, Finish, Same, IInv, TypeOK, Files, Steps, Updating
<1>4. ASSUME NEW p \in Procs, MoveAside(p) PROVE Same
  <2>1. ~Swapping
    BY <1>4, OnlyOneUpdating DEF MoveAside, Swapping, Updating
  <2>2. Swapping'
    BY <1>4 DEF MoveAside, Swapping, IInv, TypeOK
  <2>3. file'["backup"] = file["live"]
    BY <1>4 DEF MoveAside, IInv, TypeOK, Files, NoOldBackup
  <2> QED
    BY <1>4, <2>1, <2>2, <2>3 DEF MoveAside, Same, Feed, Logical
<1>5. ASSUME NEW p \in Procs, MoveIn(p) PROVE [Replacement!Next]_Replacement!vars
  <2>1. Swapping /\ ~Swapping'
    BY <1>5, OnlyOneUpdating DEF MoveIn, Swapping, Updating, IInv, TypeOK
  <2>2. CASE file'["live"] = "current"
    BY <1>5, <2>1, <2>2
    DEF MoveIn, Feed, Logical, Populated, Replacement!Next, Replacement!Publish
  <2>3. CASE file' = Restored
    <3>1. Feed' = Feed
      BY <2>1, <2>3 DEF Restored, Feed, Logical, IInv, TypeOK, NothingInPlace, Files, Populated,
                        Swapping
    <3> QED
      BY <1>5, <3>1 DEF MoveIn, Replacement!vars
  <2> QED
    BY <1>5, <2>2, <2>3 DEF MoveIn, IInv, TypeOK, NewIsWhole, Files
<1>6. ASSUME NEW p \in Procs, Crash(p) PROVE [Replacement!Next]_Replacement!vars
  <2>1. CASE pc[p] # "move in"
    <3>1. Feed' = Feed
      BY <1>6, <2>1, AwayFromSwap DEF Crash, Steps
    <3> QED
      BY <1>6, <2>1, <3>1 DEF Crash, Replacement!vars, IInv, TypeOK
  <2>2. CASE pc[p] = "move in"
    <3>1. ~Swapping'
      BY <1>6, <2>2, OnlyOneUpdating DEF Crash, Swapping, Updating, IInv, TypeOK
    <3>2. file'["live"] \notin Populated
      BY <1>6, <2>2 DEF Crash, IInv, NothingInPlace
    <3>3. Feed' = "none"
      BY <3>1, <3>2 DEF Feed, Logical
    <3> QED
      BY <1>6, <2>2, <3>3 DEF Crash, Replacement!Next, Replacement!Lose
  <2> QED
    BY <2>1, <2>2
<1>7. CASE Age
  <2>1. ~Swapping \/ Swapping
    OBVIOUS
  <2>2. ~Swapping
    BY <1>7 DEF Age, Swapping, IInv, NothingInPlace, Populated
  <2>3. ~Swapping'
    BY <1>7, <2>2 DEF Age, Swapping
  <2> QED
    BY <1>7, <2>2, <2>3
    DEF Age, Feed, Logical, Populated, IInv, TypeOK, Files, Replacement!Next, Replacement!Expire
<1>8. CASE UNCHANGED vars
  BY <1>8, <1>a DEF vars, Same, Feed, Logical, Swapping
<1> QED
  BY <1>a, <1>1, <1>2, <1>3, <1>4, <1>5, <1>6, <1>7, <1>8 DEF Next, Lookup, PerformUpdate

(* The update of the feed is one publication as far as the lookups' data   *)
(* are concerned, and only a death between the renames loses them.         *)
THEOREM UpdateImplementsAtomicFeed == Spec => ReplacedAsAWhole
  BY InitMaps, StepMaps, Invariance, PTL DEF Spec, ReplacedAsAWhole, Replacement!Spec

=============================================================================

------------------------- MODULE TrustedFeed_proofs -------------------------
(***************************************************************************)
(* Proofs about TrustedFeed, for any threads and processes and any refresh *)
(* interval.                                                               *)
(***************************************************************************)
EXTENDS TrustedFeed, TLAPS

Held == {"recheck", "download", "replace", "release"}

(* The lock file belongs to the one thread that is inside ensure_updated.  *)
LockHeld == \A t \in Threads : lock = t <=> pc[t] \in Held

(* What is on disk, open or prepared is in order with the clock; the next  *)
(* look of a process is never later than the list on disk allows.          *)
Ordered ==
  /\ database <= clock
  /\ \A t \in Threads : asked[t] <= clock /\ connection[t] <= database
  /\ \A p \in Processes : nextCheck[p] # None =>
       database # None /\ nextCheck[p] <= database + REFRESH_INTERVAL

(* Whoever updates has seen the list due, and has built a newer one. *)
Updating ==
  \A t \in Threads :
    /\ pc[t] \in {"download", "replace"} => Due(database)
    /\ pc[t] = "replace" => asked[t] <= prepared[t] /\ database <= prepared[t] /\ prepared[t] <= clock

(* A lookup that is past its update finds a list that is fresh enough. *)
Ready ==
  \A t \in Threads :
    /\ pc[t] = "refresh" \/ (pc[t] = "release" /\ ~failed[t]) \/ (pc[t] = "query" /\ connection[t] = None)
         => database # None /\ asked[t] < database + REFRESH_INTERVAL
    /\ pc[t] = "query" => nextCheck[ProcessOf[t]] # None
    /\ pc[t] \notin {"idle", "query"} => connection[t] = None

(* The list that a thread of its own process has open lasts until the next *)
(* look of the process.                                                    *)
OpenFresh ==
  \A t \in Threads : Alone(t) /\ connection[t] # None =>
    /\ nextCheck[ProcessOf[t]] # None
    /\ nextCheck[ProcessOf[t]] <= connection[t] + REFRESH_INTERVAL
    /\ pc[t] = "query" => asked[t] < connection[t] + REFRESH_INTERVAL

IInv == TypeOK /\ LockHeld /\ Ordered /\ Updating /\ Ready /\ OpenFresh

LEMMA Numbers ==
  /\ REFRESH_INTERVAL \in Nat /\ REFRESH_INTERVAL > 0
  /\ MaxClock \in Nat /\ MaxFaults \in Nat
  /\ \A t \in Threads : ProcessOf[t] \in Processes
  BY FeedAssumption

LEMMA InitInvariant == Init => IInv
<1> SUFFICES ASSUME Init PROVE IInv
  OBVIOUS
<1>1. TypeOK
  BY Numbers DEF Init, TypeOK, Stamps, None
<1>2. LockHeld
  BY HolderAssumption DEF Init, LockHeld, Held
<1>3. Ordered /\ Updating /\ Ready /\ OpenFresh
  BY Numbers DEF Init, Ordered, Updating, Ready, OpenFresh, None
<1>4. QED
  BY <1>1, <1>2, <1>3 DEF IInv

LEMMA FaultBounded ==
  ASSUME TypeOK, faults < MaxFaults, faults' = faults + 1
  PROVE  faults' \in 0..MaxFaults
  BY Numbers DEF TypeOK

LEMMA EnsureReadyKeeps ==
  ASSUME IInv, NEW t \in Threads, EnsureReady(t)
  PROVE  IInv'
<1> USE Numbers
<1>1. TypeOK'
  BY DEF IInv, TypeOK, EnsureReady, Goto, Stamps
<1>2. LockHeld'
  BY DEF IInv, TypeOK, LockHeld, Held, EnsureReady, Goto
<1>3. Ordered'
  BY DEF IInv, TypeOK, Ordered, EnsureReady, Goto, None, Stamps
<1>4. Updating'
  BY DEF IInv, TypeOK, Updating, EnsureReady, Goto, Due
<1>5. Ready'
  BY DEF IInv, TypeOK, Ready, Ordered, EnsureReady, Goto, CheckDue, None, Stamps
<1>6. OpenFresh'
  BY DEF IInv, TypeOK, OpenFresh, EnsureReady, Goto, CheckDue, None, Stamps, Alone
<1>7. QED
  BY <1>1, <1>2, <1>3, <1>4, <1>5, <1>6 DEF IInv

LEMMA AcquireLockKeeps ==
  ASSUME IInv, NEW t \in Threads, AcquireLock(t)
  PROVE  IInv'
<1> USE Numbers
<1>1. TypeOK'
  BY DEF IInv, TypeOK, AcquireLock, Goto, locals
<1>2. LockHeld'
  BY HolderAssumption DEF IInv, TypeOK, LockHeld, Held, AcquireLock, Goto
<1>3. Ordered'
  BY DEF IInv, Ordered, AcquireLock, locals
<1>4. Updating' /\ Ready' /\ OpenFresh'
  BY DEF IInv, TypeOK, Updating, Ready, OpenFresh, AcquireLock, Goto, locals, Due, Alone
<1>5. QED
  BY <1>1, <1>2, <1>3, <1>4 DEF IInv

LEMMA RecheckKeeps ==
  ASSUME IInv, NEW t \in Threads, Recheck(t)
  PROVE  IInv'
<1> USE Numbers
<1>1. TypeOK'
  BY DEF IInv, TypeOK, Recheck, Goto, locals
<1>2. LockHeld'
  BY DEF IInv, TypeOK, LockHeld, Held, Recheck, Goto
<1>3. Ordered'
  BY DEF IInv, Ordered, Recheck, locals
<1>4. Updating'
  BY DEF IInv, TypeOK, Updating, Recheck, Goto, locals, Due
<1>5. Ready'
  BY DEF IInv, TypeOK, Ready, Ordered, Recheck, Goto, locals, Due, Stamps, None
<1>6. OpenFresh'
  BY DEF IInv, TypeOK, OpenFresh, Recheck, Goto, locals, Alone
<1>7. QED
  BY <1>1, <1>2, <1>3, <1>4, <1>5, <1>6 DEF IInv

LEMMA DownloadKeeps ==
  ASSUME IInv, NEW t \in Threads, Download(t)
  PROVE  IInv'
<1> USE Numbers
<1>1. TypeOK'
  BY DEF IInv, TypeOK, Download, Goto, Stamps
<1>2. LockHeld'
  BY DEF IInv, TypeOK, LockHeld, Held, Download, Goto
<1>3. Ordered'
  BY DEF IInv, Ordered, Download
<1>4. Updating'
  BY DEF IInv, TypeOK, Ordered, Updating, Download, Goto, Due, Stamps, None
<1>5. Ready' /\ OpenFresh'
  BY DEF IInv, TypeOK, Ready, OpenFresh, Download, Goto, Alone
<1>6. QED
  BY <1>1, <1>2, <1>3, <1>4, <1>5 DEF IInv

LEMMA UpdateFailsKeeps ==
  ASSUME IInv, NEW t \in Threads, UpdateFails(t)
  PROVE  IInv'
<1> USE Numbers
<1>1. TypeOK'
  <2>1. faults' \in 0..MaxFaults
    BY FaultBounded DEF IInv, UpdateFails
  <2>2. QED
    BY <2>1 DEF IInv, TypeOK, UpdateFails, Goto, Stamps
<1>2. LockHeld'
  BY DEF IInv, TypeOK, LockHeld, Held, UpdateFails, Goto
<1>3. Ordered'
  BY DEF IInv, Ordered, UpdateFails
<1>4. Updating' /\ Ready' /\ OpenFresh'
  BY DEF IInv, TypeOK, Updating, Ready, OpenFresh, UpdateFails, Goto, Due, Alone
<1>5. QED
  BY <1>1, <1>2, <1>3, <1>4 DEF IInv

LEMMA ReplaceGrows ==
  ASSUME IInv, NEW t \in Threads, Replace(t)
  PROVE  /\ database' = prepared[t] /\ database' \in 0..MaxClock
         /\ database <= database' /\ asked[t] <= database' /\ database' <= clock
         /\ database \in Stamps
  BY Numbers DEF IInv, TypeOK, Updating, Replace, Stamps, None

LEMMA ReplaceKeeps ==
  ASSUME IInv, NEW t \in Threads, Replace(t)
  PROVE  IInv'
<1> USE Numbers
<1>a. /\ database' \in 0..MaxClock /\ database \in Int
      /\ database <= database' /\ asked[t] <= database' /\ database' <= clock
  BY ReplaceGrows DEF Stamps, None
<1>1. TypeOK'
  BY <1>a DEF IInv, TypeOK, Replace, Goto, Stamps
<1>2. LockHeld'
  BY DEF IInv, TypeOK, LockHeld, Held, Replace, Goto
<1>3. Ordered'
  <2>1. \A u \in Threads : asked[u] <= clock /\ connection[u] <= database'
    BY <1>a DEF IInv, TypeOK, Ordered, Stamps, None
  <2>2. \A p \in Processes : nextCheck[p] # None => nextCheck[p] <= database' + REFRESH_INTERVAL
    BY <1>a DEF IInv, TypeOK, Ordered, None
  <2>3. database' # None
    BY <1>a DEF None
  <2>4. QED
    BY <1>a, <2>1, <2>2, <2>3 DEF Ordered, Replace
<1>4. Updating'
  <2>1. \A u \in Threads : u # t => pc[u] \notin Held
    BY DEF IInv, LockHeld, Replace, Held
  <2>2. \A u \in Threads : pc'[u] \notin {"download", "replace"}
    BY <2>1 DEF IInv, TypeOK, Replace, Goto, Held
  <2>3. QED
    BY <2>2 DEF Updating
<1>5. Ready'
  <2>1. database' # None /\ asked[t] < database' + REFRESH_INTERVAL
    BY <1>a DEF IInv, TypeOK, None
  <2>2. \A u \in Threads : asked[u] < database + REFRESH_INTERVAL =>
                            asked[u] < database' + REFRESH_INTERVAL
    BY <1>a DEF IInv, TypeOK
  <2>3. connection[t] = None /\ pc'[t] = "release"
    BY DEF IInv, TypeOK, Ready, Replace, Goto
  <2>4. \A u \in Threads : u # t => pc'[u] = pc[u]
    BY DEF IInv, TypeOK, Replace, Goto
  <2>5. QED
    BY <2>1, <2>2, <2>3, <2>4 DEF IInv, Ready, Replace
<1>6. OpenFresh'
  BY DEF IInv, TypeOK, OpenFresh, Replace, Goto, Alone
<1>7. QED
  BY <1>1, <1>2, <1>3, <1>4, <1>5, <1>6 DEF IInv

LEMMA ReleaseKeeps ==
  ASSUME IInv, NEW t \in Threads, Release(t)
  PROVE  IInv'
<1> USE Numbers
<1>1. TypeOK'
  BY DEF IInv, TypeOK, Release, Goto
<1>2. LockHeld'
  <2>1. \A u \in Threads : u # t => pc[u] \notin Held
    BY DEF IInv, LockHeld, Release, Held
  <2>2. \A u \in Threads : pc'[u] \notin Held
    BY <2>1 DEF IInv, TypeOK, Release, Goto, Held
  <2>3. QED
    BY <2>2, HolderAssumption DEF LockHeld, Release
<1>3. Ordered'
  BY DEF IInv, Ordered, Release
<1>4. Updating' /\ Ready' /\ OpenFresh'
  BY DEF IInv, TypeOK, Updating, Ready, OpenFresh, Release, Goto, Due, Alone
<1>5. QED
  BY <1>1, <1>2, <1>3, <1>4 DEF IInv

LEMMA RefreshKeeps ==
  ASSUME IInv, NEW t \in Threads, Refresh(t)
  PROVE  IInv'
<1> USE Numbers
<1>1. /\ database \in 0..MaxClock /\ connection[t] = None
      /\ nextCheck' = [nextCheck EXCEPT ![ProcessOf[t]] = database + REFRESH_INTERVAL]
  BY DEF IInv, TypeOK, Ready, Refresh, Stamps
<1>2. TypeOK'
  BY <1>1 DEF IInv, TypeOK, Refresh, Goto, locals
<1>3. LockHeld'
  BY DEF IInv, TypeOK, LockHeld, Held, Refresh, Goto
<1>4. Ordered'
  BY <1>1 DEF IInv, TypeOK, Ordered, Refresh, locals, None
<1>5. Updating'
  BY DEF IInv, TypeOK, Updating, Refresh, Goto, Due, locals
<1>6. Ready'
  BY <1>1 DEF IInv, TypeOK, Ready, Refresh, Goto, locals, None
<1>7. OpenFresh'
  <2>1. \A u \in Threads : Alone(u) /\ u # t => ProcessOf[u] # ProcessOf[t]
    BY DEF Alone
  <2>2. \A u \in Threads : Alone(u) /\ u # t =>
          nextCheck'[ProcessOf[u]] = nextCheck[ProcessOf[u]] /\ pc'[u] = pc[u]
    BY <1>1, <2>1 DEF IInv, TypeOK, Refresh, Goto
  <2>3. QED
    BY <1>1, <2>2 DEF IInv, OpenFresh, Refresh, locals, Alone
<1>8. QED
  BY <1>2, <1>3, <1>4, <1>5, <1>6, <1>7 DEF IInv

LEMMA QueryKeeps ==
  ASSUME IInv, NEW t \in Threads, Query(t)
  PROVE  IInv'
<1> USE Numbers
<1>1. TypeOK'
  BY DEF IInv, TypeOK, Query, Goto, locals
<1>2. LockHeld'
  BY DEF IInv, TypeOK, LockHeld, Held, Query, Goto
<1>3. Ordered'
  BY DEF IInv, TypeOK, Ordered, Query, locals, Stamps, None
<1>4. Updating'
  BY DEF IInv, TypeOK, Updating, Query, Goto, Due, locals
<1>5. Ready'
  BY DEF IInv, TypeOK, Ready, Query, Goto, locals
<1>6. OpenFresh'
  BY DEF IInv, TypeOK, OpenFresh, Ordered, Ready, Query, Goto, locals, Alone
<1>7. QED
  BY <1>1, <1>2, <1>3, <1>4, <1>5, <1>6 DEF IInv

LEMMA TickKeeps ==
  ASSUME IInv, Tick
  PROVE  IInv'
<1> USE Numbers
<1>1. clock \in Nat /\ clock' = clock + 1 /\ clock' \in 0..MaxClock
  BY DEF IInv, TypeOK, Tick
<1>2. TypeOK'
  BY <1>1 DEF IInv, TypeOK, Tick, locals
<1>3. LockHeld'
  BY DEF IInv, LockHeld, Tick
<1>4. Ordered'
  BY <1>1 DEF IInv, TypeOK, Ordered, Tick, locals, Stamps, None
<1>5. Updating'
  BY <1>1 DEF IInv, TypeOK, Updating, Tick, locals, Due, Stamps, None
<1>6. Ready' /\ OpenFresh'
  BY DEF IInv, Ready, OpenFresh, Tick, locals, Alone
<1>7. QED
  BY <1>2, <1>3, <1>4, <1>5, <1>6 DEF IInv

LEMMA CrashKeeps ==
  ASSUME IInv, NEW p \in Processes, Crash(p)
  PROVE  IInv'
<1> USE Numbers
<1>1. TypeOK'
  <2>1. faults' \in 0..MaxFaults
    BY FaultBounded DEF IInv, Crash
  <2>2. /\ pc' \in [Threads -> {"idle", "lock", "recheck", "download", "replace", "release",
                                "refresh", "query"}]
        /\ connection' \in [Threads -> Stamps] /\ prepared' \in [Threads -> Stamps]
        /\ failed' \in [Threads -> BOOLEAN]
    BY DEF IInv, TypeOK, Crash, Stamps
  <2>3. QED
    BY <2>1, <2>2 DEF IInv, TypeOK, Crash
<1>2. \A t \in Threads : ProcessOf[t] # p =>
        /\ pc'[t] = pc[t] /\ connection'[t] = connection[t]
        /\ prepared'[t] = prepared[t] /\ failed'[t] = failed[t]
        /\ nextCheck'[ProcessOf[t]] = nextCheck[ProcessOf[t]]
  BY DEF IInv, TypeOK, Crash
<1>3. \A t \in Threads : ProcessOf[t] = p => pc'[t] = "idle" /\ connection'[t] = None
  BY DEF Crash
<1>4. LockHeld'
  <2>1. ASSUME NEW t \in Threads, ProcessOf[t] = p PROVE lock' = t <=> pc'[t] \in Held
    BY <1>3, <2>1, HolderAssumption DEF Crash, Held
  <2>2. ASSUME NEW t \in Threads, ProcessOf[t] # p PROVE lock' = t <=> pc'[t] \in Held
    BY <1>2, <2>2, HolderAssumption DEF IInv, LockHeld, Crash
  <2>3. QED
    BY <2>1, <2>2 DEF LockHeld
<1>5. Ordered'
  BY <1>2, <1>3 DEF IInv, TypeOK, Ordered, Crash, None, Stamps
<1>6. Updating'
  BY <1>2, <1>3 DEF IInv, Updating, Crash, Due
<1>7. Ready'
  BY <1>2, <1>3 DEF IInv, Ready, Crash
<1>8. OpenFresh'
  BY <1>2, <1>3 DEF IInv, OpenFresh, Crash, Alone
<1>9. QED
  BY <1>1, <1>4, <1>5, <1>6, <1>7, <1>8 DEF IInv

(* Every step of the specification keeps the invariant. *)
LEMMA StepInvariant == IInv /\ [Next]_vars => IInv'
<1> SUFFICES ASSUME IInv, [Next]_vars PROVE IInv'
  OBVIOUS
<1>1. CASE UNCHANGED vars
  BY <1>1 DEF vars, locals, IInv, TypeOK, LockHeld, Ordered, Updating, Ready, OpenFresh, Due, Alone
<1>2. QED
  BY <1>1, EnsureReadyKeeps, AcquireLockKeeps, RecheckKeeps, DownloadKeeps, UpdateFailsKeeps,
     ReplaceKeeps, ReleaseKeeps, RefreshKeeps, QueryKeeps, TickKeeps, CrashKeeps DEF Next, Lookup

THEOREM Invariant == Spec => []IInv
  BY InitInvariant, StepInvariant, PTL DEF Spec

(* The clock, the lists and the lock stay within their types. *)
THEOREM TypeCorrect == Spec => []TypeOK
<1>1. IInv => TypeOK
  BY DEF IInv
<1>2. QED
  BY Invariant, <1>1, PTL

(* Only the rename of an update touches the list on disk. *)
LEMMA OnlyReplaceWrites ==
  ASSUME Next, database' # database
  PROVE  \E t \in Threads : Replace(t)
  BY DEF Next, Lookup, EnsureReady, AcquireLock, Recheck, Download, UpdateFails, Release, Refresh,
         Query, Tick, Crash

(* The list on disk is never taken away and never replaced by an older one *)
(* by updaters that found it due at the same time.                         *)
THEOREM ListsNeverAge == Spec => NeverOlder
<1> DEFINE A == database # None => database' >= database
<1>1. IInv /\ [Next]_vars => [A]_vars
  <2> SUFFICES ASSUME IInv, Next PROVE database' >= database
    OBVIOUS
  <2>1. database \in Int
    BY Numbers DEF IInv, TypeOK, Stamps, None
  <2>2. CASE database' # database
    <3>1. PICK t \in Threads : Replace(t)
      BY <2>2, OnlyReplaceWrites
    <3>2. QED
      BY <2>1, <3>1, ReplaceGrows
  <2>3. QED
    BY <2>1, <2>2
<1>2. QED
  BY <1>1, Invariant, PTL DEF Spec, NeverOlder

(* A list is replaced only when it is due, whoever else was waiting.       *)
THEOREM UpdatesAreNeeded == Spec => OnlyStaleReplaced
<1> DEFINE A == database' # database => Due(database)
<1>1. IInv /\ [Next]_vars => [A]_vars
  <2> SUFFICES ASSUME IInv, Next, database' # database PROVE Due(database)
    OBVIOUS
  <2>1. PICK t \in Threads : Replace(t)
    BY OnlyReplaceWrites
  <2>2. QED
    BY <2>1 DEF IInv, Updating, Replace
<1>2. QED
  BY <1>1, Invariant, PTL DEF Spec, OnlyStaleReplaced

(* A thread that is alone in its process never answers from a list that    *)
(* was due when its lookup began.                                          *)
THEOREM AnswersAreFresh == Spec => AnswersFresh
<1> DEFINE A == \A t \in Threads :
       Alone(t) /\ pc[t] = "query" /\ pc'[t] = "idle" /\ faults' = faults =>
         connection'[t] # None /\ connection'[t] + REFRESH_INTERVAL > asked[t]
<1>1. IInv /\ [Next]_vars => [A]_vars
  <2> SUFFICES ASSUME IInv, Next, NEW t \in Threads,
                      Alone(t), pc[t] = "query", pc'[t] = "idle", faults' = faults
               PROVE  connection'[t] # None /\ connection'[t] + REFRESH_INTERVAL > asked[t]
    OBVIOUS
  <2>1. pc \in [Threads -> {"idle", "lock", "recheck", "download", "replace", "release",
                            "refresh", "query"}]
    BY DEF IInv, TypeOK
  <2>2. ~\E u \in Threads : UpdateFails(u)
    BY Numbers DEF UpdateFails, IInv, TypeOK
  <2>3. ~\E p \in Processes : Crash(p)
    BY Numbers DEF Crash, IInv, TypeOK
  <2>4. Query(t)
    BY <2>1, <2>2, <2>3 DEF Next, Lookup, EnsureReady, AcquireLock, Recheck, Download, Replace,
                            Release, Refresh, Query, Tick, Goto
  <2>5. connection[t] \in Int /\ database \in Int /\ asked[t] \in Int
    BY Numbers DEF IInv, TypeOK, Stamps, None
  <2>6. connection'[t] = IF connection[t] = None THEN database ELSE connection[t]
    BY <2>4 DEF Query, IInv, TypeOK
  <2>7. QED
    BY <2>5, <2>6, Numbers DEF IInv, Ready, OpenFresh
<1>2. QED
  BY <1>1, Invariant, PTL DEF Spec, AnswersFresh

=============================================================================

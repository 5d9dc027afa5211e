-------------------------- MODULE RollupAggregator --------------------------
(***************************************************************************)
(* The incremental aggregator: a single-row watermark, a PostgreSQL        *)
(* session lock, and batches of history rows that are added to the rollups *)
(* in one transaction with the watermark.  Next to the aggregators run     *)
(* the writers of domain_query_history (the live and the batch pipeline)   *)
(* and its retention cleanup.                                              *)
(***************************************************************************)
EXTENDS RollupEvents, FiniteSetsExt

CONSTANTS Aggregators,   \* sessions: the --loop process, a manual run
          Writers,       \* connections that insert history rows
          NoOne,         \* the lock is free
          BatchSize,     \* DEFAULT_BATCH_SIZE
          MaxFaults,     \* bound on crashes and failed statements
          MaxRebuilds    \* bound on --rebuild

ASSUME SizeAssumption ==
  /\ BatchSize \in Nat \ {0}
  /\ MaxFaults \in Nat /\ MaxRebuilds \in Nat
  /\ NoOne \notin Aggregators

VARIABLES
  nextId,     \* the BIGSERIAL sequence of domain_query_history
  open,       \* rows each writer has inserted and not committed
  history,    \* committed rows
  mark, processed, hourly, daily,   \* the aggregator's own tables
  lock,       \* the session that holds the advisory lock
  pc,         \* the step each aggregator is about to take
  current,    \* its current_watermark
  batch,      \* the rows it has fetched
  faults, rebuilds

VARIABLES     \* history variables, read by the properties only
  counted     \* events added to the rollups since they were last emptied

tables == <<mark, processed, hourly, daily, counted>>
feed == <<nextId, open, history>>
control == <<lock, pc, current, batch>>
bounds == <<faults, rebuilds>>
vars == <<nextId, open, history, mark, processed, hourly, daily, lock, pc,
          current, batch, faults, rebuilds, counted>>

Steps == {"idle", "rerun", "watermark", "fetch", "apply", "release",
          "truncate", "unlock"}
Batches == {S \in SUBSET Ids : Cardinality(S) <= BatchSize}

TypeOK ==
  /\ nextId \in 1..(MaxEvents + 1)
  /\ open \in [Writers -> SUBSET Ids]
  /\ history \in SUBSET Ids
  /\ mark \in 0..MaxEvents
  /\ processed \in Nat
  /\ hourly \in [HourlyKeys -> Nat]
  /\ daily \in [DailyKeys -> Nat]
  /\ lock \in Aggregators \cup {NoOne}
  /\ pc \in [Aggregators -> Steps]
  /\ current \in [Aggregators -> 0..MaxEvents]
  /\ batch \in [Aggregators -> Batches]
  /\ faults \in 0..MaxFaults
  /\ rebuilds \in 0..MaxRebuilds
  /\ counted \in SUBSET Ids

Init ==
  /\ nextId = 1
  /\ open = [w \in Writers |-> {}]
  /\ history = {}
  /\ mark = 0
  /\ processed = 0
  /\ hourly = HourlyCounts({})
  /\ daily = DailyCounts({})
  /\ lock = NoOne
  /\ pc = [a \in Aggregators |-> "idle"]
  /\ current = [a \in Aggregators |-> 0]
  /\ batch = [a \in Aggregators |-> {}]
  /\ faults = 0
  /\ rebuilds = 0
  /\ counted = {}

-----------------------------------------------------------------------------
(* The writers.  An id is taken from the sequence when the row is          *)
(* inserted and becomes visible when its transaction commits.              *)

Insert(w) ==
  /\ nextId <= MaxEvents
  /\ open' = [open EXCEPT ![w] = @ \cup {nextId}]
  /\ nextId' = nextId + 1
  /\ UNCHANGED <<history, tables, control, bounds>>

Commit(w) ==
  /\ open[w] # {}
  /\ history' = history \cup open[w]
  /\ open' = [open EXCEPT ![w] = {}]
  /\ UNCHANGED <<nextId, tables, control, bounds>>

(* A rollback leaves a gap in the ids. *)
Abort(w) ==
  /\ open[w] # {}
  /\ open' = [open EXCEPT ![w] = {}]
  /\ UNCHANGED <<nextId, history, tables, control, bounds>>

(* cleanup_old_history: the cutoff is an hour that has passed. *)
CleanupOldHistory(cutoff) ==
  /\ history' = {e \in history : HourOf[e] >= cutoff}
  /\ UNCHANGED <<nextId, open, tables, control, bounds>>

-----------------------------------------------------------------------------
(* run_incremental *)

Goto(a, step) == pc' = [pc EXCEPT ![a] = step]

(* Mutant: the answer of pg_try_advisory_lock is ignored. *)
AcquireRegardless(a, next) == lock' = a /\ Goto(a, next)

AcquireLock(a, next) == lock = NoOne /\ lock' = a /\ Goto(a, next)

RunIncremental(a) ==
  /\ pc[a] \in {"idle", "rerun"}
  /\ AcquireLock(a, "watermark")
  /\ UNCHANGED <<feed, tables, current, batch, bounds>>

(* After a rebuild the lock may be taken by another session: "locked". *)
Locked(a) ==
  /\ pc[a] = "rerun"
  /\ lock # NoOne
  /\ Goto(a, "idle")
  /\ UNCHANGED <<feed, tables, lock, current, batch, bounds>>

ReadWatermark(a) ==
  /\ pc[a] = "watermark"
  /\ current' = [current EXCEPT ![a] = mark]
  /\ Goto(a, "fetch")
  /\ UNCHANGED <<feed, tables, lock, batch, bounds>>

(* ORDER BY id ASC LIMIT n *)
FirstRows(S, n) == {e \in S : Cardinality({f \in S : f <= e}) <= n}
RowsAbove(m) == {e \in history : e > m}

(* Mutant: one row more than the LIMIT. *)
FetchOneMore(a) ==
  LET rows == FirstRows(RowsAbove(current[a]), BatchSize + 1)
  IN /\ pc[a] = "fetch"
     /\ batch' = [batch EXCEPT ![a] = rows]
     /\ Goto(a, IF rows = {} THEN "release" ELSE "apply")
     /\ UNCHANGED <<feed, tables, lock, current, bounds>>

FetchBatch(a) ==
  LET rows == FirstRows(RowsAbove(current[a]), BatchSize)
  IN /\ pc[a] = "fetch"
     /\ batch' = [batch EXCEPT ![a] = rows]
     /\ Goto(a, IF rows = {} THEN "release" ELSE "apply")
     /\ UNCHANGED <<feed, tables, lock, current, bounds>>

(* The additive upserts and the watermark, in one transaction. *)
AddToRollups(S, newMark) ==
  /\ hourly' = [k \in HourlyKeys |-> hourly[k] + HourlyCounts(S)[k]]
  /\ daily' = [k \in DailyKeys |-> daily[k] + DailyCounts(S)[k]]
  /\ mark' = newMark
  /\ processed' = processed + Cardinality(S)
  /\ counted' = counted \cup S

(* Mutant: the watermark jumps to MAX(id) of the history. *)
ApplyBatchToMaxId(a) ==
  LET newMark == Max(history \cup batch[a])
  IN /\ pc[a] = "apply"
     /\ AddToRollups(batch[a], newMark)
     /\ current' = [current EXCEPT ![a] = newMark]
     /\ batch' = [batch EXCEPT ![a] = {}]
     /\ Goto(a, "fetch")
     /\ UNCHANGED <<feed, lock, bounds>>

ApplyBatch(a) ==
  LET newMark == Max(batch[a])
  IN /\ pc[a] = "apply"
     /\ AddToRollups(batch[a], newMark)
     /\ current' = [current EXCEPT ![a] = newMark]
     /\ batch' = [batch EXCEPT ![a] = {}]
     /\ Goto(a, "fetch")
     /\ UNCHANGED <<feed, lock, bounds>>

(* Mutant: the session stays open and keeps the lock. *)
ReleaseNothing(a, next) == Goto(a, next) /\ UNCHANGED lock

ReleaseLock(a, next) == Goto(a, next) /\ lock' = NoOne

Finish(a) ==
  /\ pc[a] = "release"
  /\ ReleaseLock(a, "idle")
  /\ UNCHANGED <<feed, tables, current, batch, bounds>>

-----------------------------------------------------------------------------
(* run_rebuild *)

RunRebuild(a) ==
  /\ rebuilds < MaxRebuilds
  /\ rebuilds' = rebuilds + 1
  /\ pc[a] = "idle"
  /\ AcquireLock(a, "truncate")
  /\ UNCHANGED <<feed, tables, current, batch, faults>>

Truncate(a) ==
  /\ pc[a] = "truncate"
  /\ hourly' = HourlyCounts({})
  /\ daily' = DailyCounts({})
  /\ mark' = 0
  /\ processed' = 0
  /\ counted' = {}
  /\ Goto(a, "unlock")
  /\ UNCHANGED <<feed, lock, current, batch, bounds>>

(* The lock is released before run_incremental takes it again. *)
ReleaseBeforeRerun(a) ==
  /\ pc[a] = "unlock"
  /\ ReleaseLock(a, "rerun")
  /\ UNCHANGED <<feed, tables, current, batch, bounds>>

-----------------------------------------------------------------------------
(* A statement raises or the process dies: the open transaction is rolled  *)
(* back and closing the connection frees the lock.  The next run of the    *)
(* process starts from the tables.                                         *)
Crash(a) ==
  /\ faults < MaxFaults
  /\ faults' = faults + 1
  /\ pc[a] # "idle"
  /\ Goto(a, "idle")
  /\ lock' = IF lock = a THEN NoOne ELSE lock
  /\ batch' = [batch EXCEPT ![a] = {}]
  /\ UNCHANGED <<feed, tables, current, rebuilds>>

Step(a) ==
  \/ RunIncremental(a) \/ Locked(a) \/ ReadWatermark(a) \/ FetchBatch(a)
  \/ ApplyBatch(a) \/ Finish(a) \/ Truncate(a) \/ ReleaseBeforeRerun(a)

Next ==
  \/ \E a \in Aggregators : Step(a) \/ RunRebuild(a) \/ Crash(a)
  \/ \E w \in Writers : Insert(w) \/ Commit(w) \/ Abort(w)
  \/ \E cutoff \in Hours : CleanupOldHistory(cutoff)

Spec == Init /\ [][Next]_vars

(* run_aggregation --loop calls run_incremental for ever. *)
FairSpec == Spec /\ \A a \in Aggregators : WF_vars(Step(a))

-----------------------------------------------------------------------------

(* "Idempotent incremental aggregation": whatever the interleaving of      *)
(* sessions, rebuilds and crashes, the tables and total_events_processed   *)
(* are the exact counts of a set of events that no batch adds to twice and *)
(* that grows in the order of the ids.                                     *)
View == INSTANCE RollupView WITH counted <- counted, mark <- mark, processed <- processed,
                                 hourly <- hourly, daily <- daily
ImplementsView == View!Spec

(* Every raw row up to the watermark is in the rollups ("raw == rollup").  *)
(* It holds while one connection writes the history.  With two, a row      *)
(* whose id was taken earlier may commit after the watermark has passed    *)
(* it, and no incremental run will ever fetch it.                          *)
NothingSkipped == \A e \in history : e <= mark => e \in counted

(* What NothingSkipped needs of the writers, and nothing in the code gives  *)
(* it: no open transaction has a row with a lower id than a visible one.   *)
OrderedCommits == \A w \in Writers : \A e \in open[w] : \A h \in history : h < e

Pending == RowsAbove(mark)

(* A committed row above the watermark is eventually behind it or removed, *)
(* though sessions crash, rebuilds reset the watermark and only one        *)
(* session at a time may work.                                             *)
PendingAbsorbed ==
  \A e \in Ids : e \in Pending ~> e \notin Pending

=============================================================================

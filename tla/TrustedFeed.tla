---------------------------- MODULE TrustedFeed ----------------------------
(***************************************************************************)
(* The list of trusted domains: a SQLite file that every lookup keeps      *)
(* fresh.  A lookup that finds the list due takes a lock file, looks       *)
(* again, downloads and builds a new list beside the old one and renames   *)
(* it into place.  The time of the next look is kept per process, the open *)
(* connection per thread; a connection reads the file it has opened, even  *)
(* after another one has taken its name.  Lists are told apart by the time *)
(* they were downloaded at; what is in them is left out.                   *)
(***************************************************************************)
EXTENDS Integers

CONSTANTS Threads, Processes,
          ProcessOf,          \* the process of each thread
          REFRESH_INTERVAL,
          MaxClock,           \* bound on the clock
          MaxFaults           \* bound on failed updates and on crashes

ASSUME FeedAssumption ==
  /\ ProcessOf \in [Threads -> Processes]
  /\ REFRESH_INTERVAL \in Nat \ {0}
  /\ MaxClock \in Nat /\ MaxFaults \in Nat

None == -1
Stamps == {None} \cup 0..MaxClock
Free == "free"
Orphan == "orphan"     \* the lock file of a process that has died

ASSUME HolderAssumption == Free \notin Threads /\ Orphan \notin Threads

VARIABLES clock,
          database,   \* the list on disk
          lock,       \* the thread whose lock file is on disk
          nextCheck,  \* _NEXT_UPDATE_CHECK of each process
          connection, \* the list that each thread has open
          pc,
          asked,      \* when the lookup of each thread looked at the clock
          prepared,   \* the list that each thread has built
          failed,     \* whether the update of each thread has raised
          faults

locals == <<asked, prepared, failed>>
vars == <<clock, database, lock, nextCheck, connection, pc, locals, faults>>

TypeOK ==
  /\ clock \in 0..MaxClock
  /\ database \in Stamps
  /\ lock \in Threads \cup {Free, Orphan}
  /\ nextCheck \in [Processes -> {None} \cup 0..(MaxClock + REFRESH_INTERVAL)]
  /\ connection \in [Threads -> Stamps]
  /\ pc \in [Threads -> {"idle", "lock", "recheck", "download", "replace", "release",
                         "refresh", "query"}]
  /\ asked \in [Threads -> 0..MaxClock]
  /\ prepared \in [Threads -> Stamps]
  /\ failed \in [Threads -> BOOLEAN]
  /\ faults \in 0..MaxFaults

Due(stamp) == stamp = None \/ clock >= stamp + REFRESH_INTERVAL

Init ==
  /\ clock = 0
  /\ database \in {None, 0}
  /\ lock = Free
  /\ nextCheck = [p \in Processes |-> None]
  /\ connection = [t \in Threads |-> None]
  /\ pc = [t \in Threads |-> "idle"]
  /\ asked = [t \in Threads |-> 0]
  /\ prepared = [t \in Threads |-> None]
  /\ failed = [t \in Threads |-> FALSE]
  /\ faults = 0

Goto(t, step) == pc' = [pc EXCEPT ![t] = step]

-----------------------------------------------------------------------------
(* A lookup *)

CheckDue(t) ==
  \/ database = None
  \/ nextCheck[ProcessOf[t]] = None
  \/ clock >= nextCheck[ProcessOf[t]]

(* Mutant: the connection stays open over a refresh. *)
ReadyKeepsOpen(t) ==
  /\ pc[t] = "idle" /\ Goto(t, IF CheckDue(t) THEN "lock" ELSE "query")
  /\ asked' = [asked EXCEPT ![t] = clock]
  /\ UNCHANGED <<clock, database, lock, nextCheck, connection, prepared, failed, faults>>

(* _ensure_database_ready: a thread closes only its own connection. *)
EnsureReady(t) ==
  /\ pc[t] = "idle"
  /\ asked' = [asked EXCEPT ![t] = clock]
  /\ IF CheckDue(t)
       THEN Goto(t, "lock") /\ connection' = [connection EXCEPT ![t] = None]
       ELSE Goto(t, "query") /\ UNCHANGED connection
  /\ UNCHANGED <<clock, database, lock, nextCheck, prepared, failed, faults>>

(* Mutant: the lock file is opened, whether or not it is there. *)
AcquireAnyway(t) ==
  /\ pc[t] = "lock" /\ lock # Orphan /\ Goto(t, "recheck")
  /\ lock' = t
  /\ UNCHANGED <<clock, database, nextCheck, connection, locals, faults>>

(* UpdateLock.__enter__: while the file exists, sleep and try again. *)
AcquireLock(t) ==
  /\ pc[t] = "lock" /\ lock = Free /\ Goto(t, "recheck")
  /\ lock' = t
  /\ UNCHANGED <<clock, database, nextCheck, connection, locals, faults>>

(* Mutant: whoever has waited for the lock updates. *)
RecheckNever(t) ==
  /\ pc[t] = "recheck" /\ Goto(t, "download")
  /\ UNCHANGED <<clock, database, lock, nextCheck, connection, locals, faults>>

(* ensure_updated looks again: another process may have updated meanwhile. *)
Recheck(t) ==
  /\ pc[t] = "recheck" /\ Goto(t, IF Due(database) THEN "download" ELSE "release")
  /\ UNCHANGED <<clock, database, lock, nextCheck, connection, locals, faults>>

(* download_latest_tranco, create_trusted_domains_database and             *)
(* validate_database: the list is stamped with the end of its download.    *)
Download(t) ==
  /\ pc[t] = "download" /\ Goto(t, "replace")
  /\ prepared' = [prepared EXCEPT ![t] = clock]
  /\ UNCHANGED <<clock, database, lock, nextCheck, connection, asked, failed, faults>>

UpdateFails(t) ==
  /\ pc[t] \in {"download", "replace"} /\ Goto(t, "release")
  /\ failed' = [failed EXCEPT ![t] = TRUE]
  /\ prepared' = [prepared EXCEPT ![t] = None]
  /\ faults < MaxFaults /\ faults' = faults + 1
  /\ UNCHANGED <<clock, database, lock, nextCheck, connection, asked>>

(* replace_database: one rename puts the new list in place. *)
Replace(t) ==
  /\ pc[t] = "replace" /\ Goto(t, "release")
  /\ database' = prepared[t]
  /\ prepared' = [prepared EXCEPT ![t] = None]
  /\ UNCHANGED <<clock, lock, nextCheck, connection, asked, failed, faults>>

(* Mutant: an update that raises leaves the lock file where it is. *)
ReleaseOnSuccess(t) ==
  /\ pc[t] = "release" /\ Goto(t, IF failed[t] THEN "idle" ELSE "refresh")
  /\ lock' = IF failed[t] THEN lock ELSE Free
  /\ failed' = [failed EXCEPT ![t] = FALSE]
  /\ UNCHANGED <<clock, database, nextCheck, connection, asked, prepared, faults>>

(* UpdateLock.__exit__; an update that raised ends the lookup. *)
Release(t) ==
  /\ pc[t] = "release" /\ Goto(t, IF failed[t] THEN "idle" ELSE "refresh")
  /\ lock' = Free
  /\ failed' = [failed EXCEPT ![t] = FALSE]
  /\ UNCHANGED <<clock, database, nextCheck, connection, asked, prepared, faults>>

(* _refresh_next_update_check *)
Refresh(t) ==
  /\ pc[t] = "refresh" /\ Goto(t, "query")
  /\ nextCheck' = [nextCheck EXCEPT ![ProcessOf[t]] =
       IF database = None THEN clock ELSE database + REFRESH_INTERVAL]
  /\ UNCHANGED <<clock, database, lock, connection, locals, faults>>

(* The thread opens the list unless it still has one open, and answers. *)
Query(t) ==
  /\ pc[t] = "query" /\ Goto(t, "idle")
  /\ connection' = [connection EXCEPT ![t] = IF @ = None THEN database ELSE @]
  /\ UNCHANGED <<clock, database, lock, nextCheck, locals, faults>>

-----------------------------------------------------------------------------
(* Around the lookups *)

Tick ==
  /\ clock < MaxClock /\ clock' = clock + 1
  /\ UNCHANGED <<database, lock, nextCheck, connection, pc, locals, faults>>

(* A process dies and starts again; its lock file stays. *)
Crash(p) ==
  /\ \E t \in Threads : ProcessOf[t] = p /\ pc[t] # "idle"
  /\ faults < MaxFaults /\ faults' = faults + 1
  /\ pc' = [t \in Threads |-> IF ProcessOf[t] = p THEN "idle" ELSE pc[t]]
  /\ connection' = [t \in Threads |-> IF ProcessOf[t] = p THEN None ELSE connection[t]]
  /\ prepared' = [t \in Threads |-> IF ProcessOf[t] = p THEN None ELSE prepared[t]]
  /\ nextCheck' = [nextCheck EXCEPT ![p] = None]
  /\ lock' = IF \E t \in Threads : lock = t /\ ProcessOf[t] = p THEN Orphan ELSE lock
  /\ failed' = [t \in Threads |-> failed[t] /\ ProcessOf[t] # p]
  /\ UNCHANGED <<clock, database, asked>>

-----------------------------------------------------------------------------

Lookup(t) ==
  \/ AcquireLock(t) \/ Recheck(t) \/ Download(t) \/ UpdateFails(t) \/ Replace(t)
  \/ Release(t) \/ Refresh(t) \/ Query(t)

Next ==
  \/ \E t \in Threads : EnsureReady(t) \/ Lookup(t)
  \/ Tick
  \/ \E p \in Processes : Crash(p)

Spec == Init /\ [][Next]_vars

(* A lookup that has begun goes on; nothing makes one begin, or time pass. *)
FairSpec == Spec /\ \A t \in Threads : WF_vars(Lookup(t))

-----------------------------------------------------------------------------

(* The list on disk never goes away and is never replaced by an older one, *)
(* however many processes find it due at once.                             *)
NeverOlder == [][database # None => database' >= database]_vars

(* A list is replaced only once it is due: of several processes that find  *)
(* it due, one downloads it and the others take it from there.             *)
OnlyStaleReplaced == [][database' # database => Due(database)]_vars

Alone(t) == \A u \in Threads : ProcessOf[u] = ProcessOf[t] => u = t

(* A thread that is alone in its process answers from a list that was not  *)
(* due when the lookup began.  Threads that share a process have no such   *)
(* bound: a refresh by one of them moves the next look of the others, who  *)
(* keep the file they had open.                                            *)
AnswersFresh ==
  [][\A t \in Threads :
       Alone(t) /\ pc[t] = "query" /\ pc'[t] = "idle" /\ faults' = faults =>
         connection'[t] # None /\ connection'[t] + REFRESH_INTERVAL > asked[t]]_vars

(* A lookup ends, unless a process has died with the lock: then whoever    *)
(* finds the list due waits for good.                                      *)
LookupsEnd == \A t \in Threads : pc[t] # "idle" ~> pc[t] = "idle" \/ lock = Orphan

=============================================================================

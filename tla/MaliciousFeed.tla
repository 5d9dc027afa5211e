--------------------------- MODULE MaliciousFeed ----------------------------
(***************************************************************************)
(* The local database of malicious domains. Every process looks domains up *)
(* in it, and the lookup that finds it older than a day replaces it: under *)
(* a file lock it downloads the feed, builds and validates a new database  *)
(* beside the live one, moves the live one aside and the new one in, in    *)
(* two renames. The cleanup at the end of perform_update runs outside the  *)
(* lock, and in the processes that never got it.                           *)
(* sqlite3.connect creates the file it does not find. A process is one     *)
(* thread of lookups: flock excludes threads as it does processes. WAL     *)
(* sidecar files, and a restore that fails as well, are left out.          *)
(***************************************************************************)
EXTENDS Naturals

CONSTANTS Procs,        \* processes that look domains up
          MaxFaults,    \* bound on crashes, timeouts and failed downloads or moves
          MaxAges       \* bound on how often the live database comes of age

ASSUME FeedAssumption == MaxFaults \in Nat /\ MaxAges \in Nat

Files == {"live", "backup", "new"}
Populated == {"stale", "current"}
Contents == {"absent",    \* no such file
             "empty",     \* a file that sqlite3.connect has just created
             "blank"}     \* the tables, no rows, last_update = ''
            \cup Populated

VARIABLES file,     \* what is at DB_PATH, at DB_PATH.bak and at DB_PATH.new
          lock,     \* holders of the file lock
          pc,       \* where each process stands
          faults, ages,
          lost      \* history: a process died with the live database moved aside

vars == <<file, lock, pc, faults, ages, lost>>

Updating == {"download", "build", "fill", "validate", "drop backup",
             "move aside", "move in", "finish", "release"}
Steps == {"down", "idle", "refresh", "lock", "cleanup", "query"} \cup Updating

TypeOK ==
  /\ file \in [Files -> Contents]
  /\ lock \subseteq Procs /\ (\A p \in lock : lock = {p})
  /\ pc \in [Procs -> Steps]
  /\ faults \in 0..MaxFaults
  /\ ages \in 0..MaxAges
  /\ lost \in BOOLEAN

Init ==
  /\ \E first \in {"absent"} \cup Populated :
       file = [f \in Files |-> IF f = "live" THEN first ELSE "absent"]
  /\ lock = {}
  /\ pc = [p \in Procs |-> "down"]
  /\ faults = 0 /\ ages = 0 /\ lost = FALSE

Goto(p, step) == pc' = [pc EXCEPT ![p] = step]

Fault == faults < MaxFaults /\ faults' = faults + 1

(* connecting to a path creates the file *)
Connect(f) == IF file[f] = "absent" THEN [file EXCEPT ![f] = "empty"] ELSE file

(* MaliciousDBManager.__init__ in the first lookup of a process *)
Start(p) ==
  /\ pc[p] = "down" /\ Goto(p, "idle")
  /\ file' = IF file["live"] = "absent" THEN [file EXCEPT !["live"] = "blank"] ELSE file
  /\ UNCHANGED <<lock, faults, ages, lost>>

(* Mutant: an update is due only to a database without an age. *)
ReadNoAge(p) ==
  /\ pc[p] = "idle"
  /\ Goto(p, IF file["live"] \in Populated THEN "query" ELSE "refresh")
  /\ file' = Connect("live")
  /\ UNCHANGED <<lock, faults, ages, lost>>

(* a lookup asks for an update when last_update is there and a day old *)
ReadAge(p) ==
  /\ pc[p] = "idle"
  /\ Goto(p, IF file["live"] = "stale" THEN "refresh" ELSE "query")
  /\ file' = Connect("live")
  /\ UNCHANGED <<lock, faults, ages, lost>>

(* refresh_database_if_needed, which other programs may call *)
RefreshByHand(p) ==
  /\ pc[p] = "idle" /\ Goto(p, "refresh")
  /\ UNCHANGED <<file, lock, faults, ages, lost>>

(* check_and_refresh reads the age again; no age at all asks for an update *)
CheckAndRefresh(p) ==
  /\ pc[p] = "refresh"
  /\ Goto(p, IF file["live"] = "current" THEN "query" ELSE "lock")
  /\ file' = Connect("live")
  /\ UNCHANGED <<lock, faults, ages, lost>>

(* Mutant: no lock is asked for. *)
AcquireAnyway(p) ==
  /\ pc[p] = "lock"
  /\ lock' = lock \cup {p} /\ Goto(p, "download")
  /\ UNCHANGED <<file, faults, ages, lost>>

AcquireLock(p) ==
  /\ pc[p] = "lock" /\ lock = {}
  /\ lock' = lock \cup {p} /\ Goto(p, "download")
  /\ UNCHANGED <<file, faults, ages, lost>>

(* Mutant: a timeout is taken for a lock that somebody forgot. *)
AcquireOnTimeout(p) ==
  /\ pc[p] = "lock" /\ lock # {} /\ Fault
  /\ Goto(p, "download")
  /\ UNCHANGED <<file, lock, ages, lost>>

AcquireTimesOut(p) ==
  /\ pc[p] = "lock" /\ lock # {} /\ Fault
  /\ Goto(p, "cleanup")
  /\ UNCHANGED <<file, lock, ages, lost>>

Download(p) ==
  /\ pc[p] = "download"
  /\ \/ Goto(p, "build") /\ UNCHANGED faults
     \/ Goto(p, "release") /\ Fault
  /\ UNCHANGED <<file, lock, ages, lost>>

(* build_new_database: the file, its tables, then rows and metadata *)
BuildStart(p) ==
  /\ pc[p] = "build" /\ Goto(p, "fill")
  /\ file' = [file EXCEPT !["new"] = "blank"]
  /\ UNCHANGED <<lock, faults, ages, lost>>

BuildFill(p) ==
  /\ pc[p] = "fill"
  /\ \/ /\ file["new"] = "blank"
        /\ file' = [file EXCEPT !["new"] = "current"] /\ Goto(p, "validate")
     \/ /\ file["new"] # "blank"
        /\ file' = Connect("new") /\ Goto(p, "release")
  /\ UNCHANGED <<lock, faults, ages, lost>>

Validate(p) ==
  /\ pc[p] = "validate"
  /\ Goto(p, IF file["new"] = "current" THEN "drop backup" ELSE "release")
  /\ UNCHANGED <<file, lock, faults, ages, lost>>

DropStaleBackup(p) ==
  /\ pc[p] = "drop backup" /\ Goto(p, "move aside")
  /\ file' = [file EXCEPT !["backup"] = "absent"]
  /\ UNCHANGED <<lock, faults, ages, lost>>

MoveAside(p) ==
  /\ pc[p] = "move aside" /\ Goto(p, "move in")
  /\ file' = IF file["live"] = "absent" THEN file
             ELSE [file EXCEPT !["live"] = "absent", !["backup"] = file["live"]]
  /\ UNCHANGED <<lock, faults, ages, lost>>

(* Mutant: a failed move is not undone. *)
NotRestored == file

Restored == IF file["backup"] = "absent" THEN file
            ELSE [file EXCEPT !["live"] = file["backup"], !["backup"] = "absent"]

MoveIn(p) ==
  /\ pc[p] = "move in"
  /\ \/ /\ file["new"] # "absent"
        /\ file' = [file EXCEPT !["live"] = file["new"], !["new"] = "absent"]
        /\ Goto(p, "finish") /\ UNCHANGED faults
     \/ /\ file' = Restored /\ Goto(p, "release")
        /\ IF file["new"] = "absent" THEN UNCHANGED faults ELSE Fault
  /\ UNCHANGED <<lock, ages, lost>>

Finish(p) ==
  /\ pc[p] = "finish" /\ Goto(p, "release")
  /\ file' = [file EXCEPT !["backup"] = "absent"]
  /\ UNCHANGED <<lock, faults, ages, lost>>

Release(p) ==
  /\ pc[p] = "release" /\ Goto(p, "cleanup")
  /\ lock' = lock \ {p}
  /\ UNCHANGED <<file, faults, ages, lost>>

(* the finally of perform_update *)
Cleanup(p) ==
  /\ pc[p] = "cleanup" /\ Goto(p, "query")
  /\ file' = [file EXCEPT !["new"] = "absent"]
  /\ UNCHANGED <<lock, faults, ages, lost>>

Query(p) ==
  /\ pc[p] = "query" /\ Goto(p, "idle")
  /\ file' = Connect("live")
  /\ UNCHANGED <<lock, faults, ages, lost>>

(* the kernel drops the lock of a process that dies *)
Crash(p) ==
  /\ pc[p] # "down" /\ Fault
  /\ Goto(p, "down")
  /\ lock' = lock \ {p}
  /\ lost' = (lost \/ pc[p] = "move in")
  /\ UNCHANGED <<file, ages>>

Age ==
  /\ ages < MaxAges /\ file["live"] = "current"
  /\ file' = [file EXCEPT !["live"] = "stale"]
  /\ ages' = ages + 1
  /\ UNCHANGED <<lock, pc, faults, lost>>

Lookup(p) == Start(p) \/ ReadAge(p) \/ CheckAndRefresh(p) \/ Query(p)

PerformUpdate(p) ==
  \/ AcquireLock(p) \/ Download(p) \/ BuildStart(p) \/ BuildFill(p) \/ Validate(p)
  \/ DropStaleBackup(p) \/ MoveAside(p) \/ MoveIn(p) \/ Finish(p) \/ Release(p)
  \/ Cleanup(p)

Next ==
  \/ \E p \in Procs : Lookup(p) \/ PerformUpdate(p)
  \/ \E p \in Procs : RefreshByHand(p) \/ AcquireTimesOut(p) \/ Crash(p)
  \/ Age

Spec == Init /\ [][Next]_vars

(***************************************************************************)
(* Lookups keep coming, and a process that is neither killed nor waiting   *)
(* for the lock goes on. The lock is polled: a waiter that finds it free   *)
(* infinitely often gets it.                                               *)
(***************************************************************************)
FairSpec == Spec /\ \A p \in Procs : WF_vars(Lookup(p)) /\ SF_vars(PerformUpdate(p))

-----------------------------------------------------------------------------
(***************************************************************************)
(* Properties                                                              *)
(***************************************************************************)

Swapping == \E p \in Procs : pc[p] = "move in"

(* The database that the lookups have, or would have if the two renames    *)
(* were one.                                                               *)
Logical == IF Swapping THEN file["backup"] ELSE file["live"]
Feed == IF Logical \in Populated THEN Logical ELSE "none"

(* perform_update replaces the database as a whole: in spite of the lock   *)
(* that times out, of cleanups outside it and of failed moves, the         *)
(* database that lookups have, or would have between the renames, only     *)
(* changes by being published or by coming of age, until a process dies    *)
(* between the two renames.                                                *)
Replacement == INSTANCE AtomicFeed
  WITH feed <- Feed, lost <- lost
ReplacedAsAWhole == Replacement!Spec

(* The two renames are never in two hands, and whoever stands between them *)
(* still has the old database to go back to unless there was none worth    *)
(* keeping; the file it is about to move in has been validated or is gone. *)
SwapRecoverable ==
  \A p \in Procs : pc[p] = "move in" =>
    /\ lock = {p}
    /\ file["new"] \in {"absent", "current"}
    /\ file["live"] \notin Populated

(* A cleanup is about to delete a file that another process is building.   *)
CleanupBesideBuild ==
  \E p, q \in Procs : pc[p] = "cleanup" /\ pc[q] \in Updating \ {"download", "finish", "release"}

(* A database that is a day old is replaced, whatever failed before,       *)
(* unless a process dies between the renames, or updates keep destroying   *)
(* each other: perform_update cleans up after it has released the lock, so *)
(* one that failed can delete the file that the next one has just built.   *)
StaleIsReplaced ==
  <>[]~CleanupBesideBuild => (file["live"] = "stale" ~> (file["live"] = "current" \/ lost))

=============================================================================

--------------------------- MODULE ClientProfiles ---------------------------
(***************************************************************************)
(* client_profiles and client_history.  process_query counts one DNS query *)
(* in both tables in one transaction; cleanup_old_records deletes the old  *)
(* history rows and then the profiles that have no history left, in one    *)
(* transaction of its own.  PostgreSQL runs them at READ COMMITTED: a      *)
(* statement sees what was committed when it began, waits for the rows     *)
(* that another transaction has written, and looks at such a row again     *)
(* before it acts on it, but runs a subquery on what it saw when it began. *)
(* The verdict counters go the way of total_queries; times are reduced to  *)
(* whether they lie within the retention period.                           *)
(***************************************************************************)
EXTENDS Naturals, FiniteSets

CONSTANTS Clients, Domains,
          Writers,      \* processes that call process_query
          MaxQueries,   \* bound on the queries
          MaxFailures     \* bound on failed transactions

ASSUME ProfilesAssumption ==
  /\ MaxQueries \in Nat /\ MaxFailures \in Nat
  /\ Clients # {} /\ Domains # {}

Ages == {"recent", "old"}
Rows == Clients \X Domains     \* the key of a history row
NoProfile == [total |-> 0, unique |-> 0]
NoRow == [visits |-> 0, lastSeen |-> "old"]
Profiles == [total : Nat, unique : Nat]
Visits == [visits : Nat, lastSeen : Ages]
Events == [row : Rows, age : Ages]

VARIABLES profile, history,   \* the committed tables
          stage, event, isNew,   \* each writer, the query in its hands, is_new_domain
          cleaner,            \* where the cleanup stands
          listed,             \* rows its statement has still to visit
          goneRows, goneProfiles,   \* what it has deleted and not committed
          queries, failures

VARIABLES forgotten,  \* history: visits and rows of a profile that cleanups deleted
          overtaken   \* history: clients with a commit since the cleanup looked

tables == <<profile, history, forgotten>>
writers == <<stage, event, isNew>>
cleanup == <<cleaner, listed, goneRows, goneProfiles>>
CPvars == <<profile, history, forgotten, stage, event, isNew, cleaner, listed, goneRows,
          goneProfiles, queries, failures, overtaken>>

CPTypeOK ==
  /\ profile \in [Clients -> Profiles]
  /\ history \in [Rows -> Visits]
  /\ stage \in [Writers -> {"idle", "profile", "history", "commit"}]
  /\ event \in [Writers -> Events]
  /\ isNew \in [Writers -> BOOLEAN]
  /\ cleaner \in {"idle", "history", "profiles"}
  /\ listed \in SUBSET (Rows \cup Clients)
  /\ goneRows \in SUBSET Rows
  /\ goneProfiles \in SUBSET Clients
  /\ queries \in 0..MaxQueries
  /\ failures \in 0..MaxFailures
  /\ forgotten \in [Clients -> [visits : Nat, rows : Nat]]
  /\ overtaken \in SUBSET Clients

Nothing == [visits |-> 0, rows |-> 0]

CPInit ==
  /\ profile = [c \in Clients |-> NoProfile]
  /\ history = [x \in Rows |-> NoRow]
  /\ stage = [w \in Writers |-> "idle"]
  /\ event \in [Writers -> {CHOOSE e \in Events : TRUE}]
  /\ isNew = [w \in Writers |-> FALSE]
  /\ cleaner = "idle"
  /\ listed = {} /\ goneRows = {} /\ goneProfiles = {}
  /\ queries = 0 /\ failures = 0
  /\ forgotten = [c \in Clients |-> Nothing]
  /\ overtaken = {}

Failure == failures < MaxFailures /\ failures' = failures + 1
Enter(w, at) == stage' = [stage EXCEPT ![w] = at]

RowsOf(c) == {x \in Rows : x[1] = c /\ history[x] # NoRow}
VisitsIn(R) == UNION {{x} \X (1..history[x].visits) : x \in R}
Row(w) == event[w].row
Client(w) == Row(w)[1]

(* Whose uncommitted changes keep others from a row. *)
HoldsProfile(w, c) == stage[w] \in {"history", "commit"} /\ Client(w) = c
HoldsRow(w, x) == stage[w] = "commit" /\ Row(w) = x

-----------------------------------------------------------------------------
(* process_query *)

(* The time of an event is that of its log line, which may be long ago. *)
Begin(w) ==
  /\ stage[w] = "idle" /\ Enter(w, "profile")
  /\ queries < MaxQueries /\ queries' = queries + 1
  /\ \E e \in Events : event' = [event EXCEPT ![w] = e]
  /\ UNCHANGED <<tables, isNew, cleanup, failures, overtaken>>

UpsertProfile(w) ==
  /\ stage[w] = "profile" /\ Enter(w, "history")
  /\ \A v \in Writers : ~HoldsProfile(v, Client(w))
  /\ Client(w) \notin goneProfiles
  /\ UNCHANGED <<tables, event, isNew, cleanup, queries, failures, overtaken>>

UpsertHistory(w) ==
  /\ stage[w] = "history" /\ Enter(w, "commit")
  /\ Row(w) \notin goneRows
  /\ isNew' = [isNew EXCEPT ![w] = (history[Row(w)] = NoRow)]
  /\ UNCHANGED <<tables, event, cleanup, queries, failures, overtaken>>

Counted(p, new) ==
  [total |-> p.total + 1, unique |-> p.unique + IF new THEN 1 ELSE 0]

(* GREATEST: an event that comes late does not make the row older. *)
Visited(v, age) ==
  [visits |-> v.visits + 1, lastSeen |-> IF age = "recent" THEN age ELSE v.lastSeen]

CommitQuery(w) ==
  /\ stage[w] = "commit" /\ Enter(w, "idle")
  /\ profile' = [profile EXCEPT ![Client(w)] = Counted(@, isNew[w])]
  /\ history' = [history EXCEPT ![Row(w)] = Visited(@, event[w].age)]
  /\ isNew' = [isNew EXCEPT ![w] = FALSE]
  /\ overtaken' = IF cleaner = "profiles" THEN overtaken \cup {Client(w)} ELSE overtaken
  /\ UNCHANGED <<forgotten, event, cleanup, queries, failures>>

(* pool.connection() rolls back on the way out of an exception *)
Rollback(w) ==
  /\ Enter(w, "idle")
  /\ isNew' = [isNew EXCEPT ![w] = FALSE]
  /\ UNCHANGED <<tables, event, cleanup, queries, overtaken>>

QueryFails(w) == stage[w] # "idle" /\ Failure /\ Rollback(w)

-----------------------------------------------------------------------------
(* cleanup_old_records *)

Cleaner(step, L, R, C) ==
  /\ cleaner' = step /\ listed' = L
  /\ goneRows' = R /\ goneProfiles' = C

Old(x) == history[x] # NoRow /\ history[x].lastSeen = "old"

BeginCleanup ==
  /\ cleaner = "idle"
  /\ Cleaner("history", {x \in Rows : Old(x)}, {}, {})
  /\ UNCHANGED <<tables, writers, queries, failures, overtaken>>

(* Mutant: a row that somebody was writing is not looked at again. *)
DeleteRowListed ==
  /\ cleaner = "history"
  /\ \E x \in listed :
       /\ \A w \in Writers : ~HoldsRow(w, x)
       /\ Cleaner("history", listed \ {x}, goneRows \cup {x}, {})
  /\ UNCHANGED <<tables, writers, queries, failures, overtaken>>

(* A row is deleted when it is still old once nobody writes it. *)
DeleteRow ==
  /\ cleaner = "history"
  /\ \E x \in listed :
       /\ \A w \in Writers : ~HoldsRow(w, x)
       /\ Cleaner("history", listed \ {x}, goneRows \cup (IF Old(x) THEN {x} ELSE {}), {})
  /\ UNCHANGED <<tables, writers, queries, failures, overtaken>>

(* Mutant: the two statements in the other order: the second one does not  *)
(* see what the first one has deleted.                                     *)
BeginProfilesFirst ==
  /\ cleaner = "history" /\ listed = {}
  /\ Cleaner("profiles",
             {c \in Clients : profile[c] # NoProfile /\ RowsOf(c) = {}},
             goneRows, {})
  /\ overtaken' = {}
  /\ UNCHANGED <<tables, writers, queries, failures>>

(* the second statement: profiles without history, as far as it can see *)
BeginProfiles ==
  /\ cleaner = "history" /\ listed = {}
  /\ Cleaner("profiles",
             {c \in Clients : profile[c] # NoProfile /\ RowsOf(c) \subseteq goneRows},
             goneRows, {})
  /\ overtaken' = {}
  /\ UNCHANGED <<tables, writers, queries, failures>>

(* Mutant: the foreign key does not cascade. *)
DeleteProfileOnly ==
  /\ cleaner = "profiles"
  /\ \E c \in listed :
       /\ \A w \in Writers : ~HoldsProfile(w, c)
       /\ Cleaner("profiles", listed \ {c}, goneRows, goneProfiles \cup {c})
  /\ UNCHANGED <<tables, writers, queries, failures, overtaken>>

(* ON DELETE CASCADE takes what history the profile has by then. *)
DeleteProfile ==
  /\ cleaner = "profiles"
  /\ \E c \in listed :
       /\ \A w \in Writers : ~HoldsProfile(w, c)
       /\ Cleaner("profiles", listed \ {c}, goneRows \cup RowsOf(c), goneProfiles \cup {c})
  /\ UNCHANGED <<tables, writers, queries, failures, overtaken>>

GoneOf(c) == {x \in goneRows : x[1] = c}

(* Mutant: the transaction of the cleanup is never ended. *)
CommitNever ==
  /\ cleaner = "profiles" /\ listed = {}
  /\ UNCHANGED CPvars

CommitCleanup ==
  /\ cleaner = "profiles" /\ listed = {}
  /\ profile' = [c \in Clients |-> IF c \in goneProfiles THEN NoProfile ELSE profile[c]]
  /\ history' = [x \in Rows |-> IF x \in goneRows THEN NoRow ELSE history[x]]
  /\ forgotten' = [c \in Clients |->
       IF c \in goneProfiles THEN Nothing
       ELSE [visits |-> forgotten[c].visits + Cardinality(VisitsIn(GoneOf(c))),
             rows |-> forgotten[c].rows + Cardinality(GoneOf(c))]]
  /\ Cleaner("idle", {}, {}, {})
  /\ overtaken' = {}
  /\ UNCHANGED <<writers, queries, failures>>

RollbackCleanup ==
  /\ Cleaner("idle", {}, {}, {})
  /\ overtaken' = {}
  /\ UNCHANGED <<tables, writers, queries>>

CleanupFails == cleaner # "idle" /\ Failure /\ RollbackCleanup

-----------------------------------------------------------------------------
(* PostgreSQL and the calendar *)

(* A query holds its profile and waits for a history row that the cleanup  *)
(* has deleted, and the cleanup waits for the profile: PostgreSQL ends one *)
(* of the two transactions.                                                *)
Deadlocked(w) ==
  /\ stage[w] = "history" /\ Row(w) \in goneRows
  /\ cleaner = "profiles" /\ Client(w) \in listed

BreakDeadlock(w) ==
  /\ Deadlocked(w)
  /\ Rollback(w) \/ RollbackCleanup
  /\ UNCHANGED failures

(* Retention passes a row; the cutoff of a cleanup is that of its start. *)
Age(x) ==
  /\ cleaner = "idle" /\ history[x] # NoRow
  /\ history' = [history EXCEPT ![x].lastSeen = "old"]
  /\ UNCHANGED <<profile, forgotten, writers, cleanup, queries, failures, overtaken>>

-----------------------------------------------------------------------------

Query(w) == UpsertProfile(w) \/ UpsertHistory(w) \/ CommitQuery(w)
Cleanup == DeleteRow \/ BeginProfiles \/ DeleteProfile \/ CommitCleanup

CPNext ==
  \/ \E w \in Writers : Begin(w) \/ Query(w) \/ QueryFails(w) \/ BreakDeadlock(w)
  \/ BeginCleanup \/ Cleanup \/ CleanupFails
  \/ \E x \in Rows : Age(x)

CPSpec == CPInit /\ [][CPNext]_CPvars

(* Both go on while they can, and PostgreSQL looks for deadlocks.  A       *)
(* cleanup is a matter of once a day: a query that one of them keeps from  *)
(* a row is not passed over when it has ended, hence strong fairness.      *)
CPFairSpec ==
  /\ CPSpec
  /\ WF_CPvars(Cleanup)
  /\ \A w \in Writers : SF_CPvars(Query(w)) /\ WF_CPvars(BreakDeadlock(w))

-----------------------------------------------------------------------------

(* What the readers of the two tables are promised. *)
Ledger == INSTANCE ClientLedger

(* Locks, rechecks and statements that see less than the tables hold make  *)
(* no difference to the readers of the tables: each commit is one query    *)
(* counted in both, or a cleanup that leaves no client without history.    *)
ImplementsLedger == Ledger!Spec

(* The counters of a profile are exactly its history and what cleanups     *)
(* have deleted of it since the profile was created, however queries,      *)
(* cleanups, waits, deadlocks and rollbacks interleave.  A profile that is *)
(* deleted takes its history along.                                        *)
CountersAddUp ==
  \A c \in Clients :
    IF profile[c] = NoProfile THEN RowsOf(c) = {}
    ELSE /\ profile[c].total = Cardinality(VisitsIn(RowsOf(c))) + forgotten[c].visits
         /\ profile[c].unique = Cardinality(RowsOf(c)) + forgotten[c].rows

(* A cleanup removes a row within the retention period only together with  *)
(* the profile of a client that had no such row when the cleanup looked,   *)
(* and for which a query was committed while it was under way.             *)
RecentIsKept ==
  [][\A x \in Rows :
       history[x] # NoRow /\ ~Old(x) /\ history'[x] = NoRow => x[1] \in overtaken]_CPvars

(* A query is counted or fails; it never waits for a cleanup for ever.     *)
QueriesEnd == \A w \in Writers : stage[w] # "idle" ~> stage[w] = "idle"

=============================================================================

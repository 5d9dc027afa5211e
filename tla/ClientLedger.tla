---------------------------- MODULE ClientLedger ----------------------------
(***************************************************************************)
(* What client profiling promises to the readers of its two tables: a      *)
(* query is counted in both at once, and a cleanup takes, in one moment,   *)
(* old rows and the clients that are left without any.                     *)
(***************************************************************************)
EXTENDS Naturals

CONSTANTS Clients, Domains

VARIABLES profile, history

vars == <<profile, history>>

Rows == Clients \X Domains
NoProfile == [total |-> 0, unique |-> 0]
NoRow == [visits |-> 0, lastSeen |-> "old"]

RowsOf(c) == {x \in Rows : x[1] = c /\ history[x] # NoRow}

Init ==
  /\ profile = [c \in Clients |-> NoProfile]
  /\ history = [x \in Rows |-> NoRow]

(* A client's domain is new exactly when the table does not have the row.  *)
Count(x, age) ==
  /\ profile' = [profile EXCEPT
       ![x[1]] = [total |-> @.total + 1,
                  unique |-> @.unique + (IF history[x] = NoRow THEN 1 ELSE 0)]]
  /\ history' = [history EXCEPT
       ![x] = [visits |-> @.visits + 1,
               lastSeen |-> IF "recent" \in {age, @.lastSeen} THEN "recent" ELSE "old"]]

Age(x) ==
  /\ history[x] # NoRow
  /\ history' = [history EXCEPT ![x].lastSeen = "old"]
  /\ UNCHANGED profile

(* The clients that R leaves without history, with or without a profile.   *)
Left(R) == {c \in Clients : RowsOf(c) \subseteq R}

(* A row that is not old goes only with all the others of its client.      *)
Forget(R) ==
  /\ \A x \in R : history[x] # NoRow
  /\ \A x \in R : history[x].lastSeen = "old" \/ x[1] \in Left(R)
  /\ profile' = [c \in Clients |-> IF c \in Left(R) THEN NoProfile ELSE profile[c]]
  /\ history' = [x \in Rows |-> IF x \in R THEN NoRow ELSE history[x]]

Next ==
  \/ \E x \in Rows : Age(x) \/ \E age \in {"recent", "old"} : Count(x, age)
  \/ \E R \in SUBSET Rows : Forget(R)

Spec == Init /\ [][Next]_vars

=============================================================================

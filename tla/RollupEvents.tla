---------------------------- MODULE RollupEvents ----------------------------
(***************************************************************************)
(* The rows of domain_query_history and what a set of them adds up to in   *)
(* telemetry_hourly_rollup and telemetry_daily_domain_rollup.  A row is    *)
(* named by its BIGSERIAL id; what it holds is given by constants.         *)
(***************************************************************************)
EXTENDS Naturals, FiniteSets

CONSTANTS MaxEvents,   \* bound on the ids
          HourOf,      \* bucket_time of an event
          DomainOf,    \* its domain, stripped and lowered
          LabelOf,     \* its final_label, stripped and lowered
          DayOf        \* bucket_date of an hour

Ids == 1..MaxEvents
Hours == DOMAIN DayOf
Days == {DayOf[h] : h \in Hours}
DomainNames == {DomainOf[e] : e \in Ids}

ASSUME EventAssumption ==
  /\ MaxEvents \in Nat
  /\ Hours \subseteq Nat
  /\ \A e \in Ids : HourOf[e] \in Hours

Verdicts == {"Malicious", "Benign", "Review Needed", "Unknown"}

Canonical(label) ==
  CASE label = "malicious" -> "Malicious"
    [] label \in {"benign", "clean", "trusted"} -> "Benign"
    [] label \in {"suspicious", "review needed", "review_needed"} -> "Review Needed"
    [] OTHER -> "Unknown"

VerdictOf(e) == Canonical(LabelOf[e])

HourlyKeys == Hours \X (Verdicts \cup {"total"})
DailyKeys == Days \X DomainNames \X Verdicts

InHourly(e, k) == HourOf[e] = k[1] /\ k[2] \in {"total", VerdictOf(e)}
InDaily(e, k) == <<DayOf[HourOf[e]], DomainOf[e], VerdictOf(e)>> = k

(* hourly_map and daily_domain_map of one batch. *)
HourlyCounts(S) == [k \in HourlyKeys |-> Cardinality({e \in S : InHourly(e, k)})]
DailyCounts(S) == [k \in DailyKeys |-> Cardinality({e \in S : InDaily(e, k)})]

=============================================================================

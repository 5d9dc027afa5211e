----------------------------- MODULE RollupView -----------------------------
(***************************************************************************)
(* What the rollups promise: a materialized view.  At every moment the two *)
(* tables are the exact counts of one set of events, which grows in the    *)
(* order of their ids and never takes an event twice, until a rebuild      *)
(* empties it.                                                             *)
(***************************************************************************)
EXTENDS RollupEvents

VARIABLES counted,    \* the events behind the tables
          mark,       \* telemetry_aggregation_state.last_processed_id
          processed,  \* telemetry_aggregation_state.total_events_processed
          hourly,     \* telemetry_hourly_rollup, 0 where there is no row
          daily       \* telemetry_daily_domain_rollup, likewise

vars == <<counted, mark, processed, hourly, daily>>

Exact ==
  /\ processed = Cardinality(counted)
  /\ hourly = HourlyCounts(counted)
  /\ daily = DailyCounts(counted)

Init == counted = {} /\ mark = 0 /\ Exact

Absorb(S) ==
  /\ S # {}
  /\ \A e \in S : mark < e
  /\ mark' \in S
  /\ \A e \in S : e <= mark'
  /\ counted' = counted \cup S
  /\ Exact'

Reset == counted' = {} /\ mark' = 0 /\ Exact'

Next == Reset \/ \E S \in SUBSET Ids : Absorb(S)

Spec == Init /\ [][Next]_vars

=============================================================================

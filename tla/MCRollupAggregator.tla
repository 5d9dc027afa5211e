------------------------- MODULE MCRollupAggregator -------------------------
(***************************************************************************)
(* RollupAggregator for TLC: four rows in two hours of two days, two       *)
(* domains, three canonical verdicts and two raw labels of one verdict.    *)
(* No row is in the third hour, so retention can remove everything.        *)
(***************************************************************************)
EXTENDS RollupAggregator

CONSTANTS a1, a2, w1, w2

MCHourOf == [e \in 1..4 |-> IF e <= 3 THEN 1 ELSE 2]
MCDayOf == [h \in 1..3 |-> IF h = 1 THEN 1 ELSE 2]
MCDomainOf == [e \in 1..4 |-> IF e = 2 THEN "b.example" ELSE "a.example"]
MCLabelOf == <<"clean", "malicious", "trusted", "unlabelled">>

=============================================================================

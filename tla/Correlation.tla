---------------------------- MODULE Correlation ----------------------------
(***************************************************************************)
(* How the answers of the two online providers become one ThreatDecision,  *)
(* and what the callers read in it.  Weights and threshold are hundredths, *)
(* so that 0.60 >= 0.60 is exact, as it is for the defaults of the code.   *)
(***************************************************************************)
EXTENDS Naturals

CONSTANTS WeightVT, WeightOTX, Threshold

ASSUME WeightAssumption ==
  /\ WeightVT \in Nat /\ WeightOTX \in Nat /\ Threshold \in Nat
  /\ WeightVT + WeightOTX = 100

Providers == {"VirusTotal", "AlienVault OTX"}
Weight == [v \in Providers |-> IF v = "VirusTotal" THEN WeightVT ELSE WeightOTX]

(* VirusTotal: 404 is "notFound"; absent or all-zero statistics, every     *)
(* HTTP error and an exhausted key pool are "unavailable".                 *)
VirusTotalAnswers == {"malicious", "clean", "notFound", "unavailable"}

(* OTX: any pulse is malicious, none is not found: it never says clean. *)
OTXAnswers == {"malicious", "notFound", "unavailable"}

Answers ==
  {a \in [Providers -> VirusTotalAnswers] : a["AlienVault OTX"] \in OTXAnswers}

-----------------------------------------------------------------------------

Flagging(a) == {v \in Providers : a[v] = "malicious"}

(* WeightedScorer.calculate *)
Score(a) ==
  LET Counted(v) == IF v \in Flagging(a) THEN Weight[v] ELSE 0
  IN  Counted("VirusTotal") + Counted("AlienVault OTX")

IsMalicious(a) == Score(a) >= Threshold

(* all(pr.unavailable for pr in provider_results) *)
AllFailed(a) == \A v \in Providers : a[v] = "unavailable"

(* ThreatDecision.has_intelligence *)
HasIntelligence(a) == \E v \in Providers : a[v] \notin {"unavailable", "notFound"}

(* The order of the tests in DetectionPipeline.evaluate and in             *)
(* DailyReviewWorker.process_domain_investigation.                         *)
Outcome(a) ==
  CASE AllFailed(a) -> "unavailable"
    [] ~AllFailed(a) /\ IsMalicious(a) -> "malicious"
    [] ~AllFailed(a) /\ ~IsMalicious(a) /\ HasIntelligence(a) -> "clean"
    [] OTHER -> "inconclusive"

=============================================================================

------------------------- MODULE ReviewRetry_proofs -------------------------
(***************************************************************************)
(* Proofs about ReviewRetry, for any TTLs, intervals and weights.  The     *)
(* bounds on an outage rest on a threshold above zero: at zero, answers    *)
(* that all failed would be cached as a malicious decision.                *)
(***************************************************************************)
EXTENDS ReviewRetry, TLAPS

(* The only entry that has no answer is the empty one, and an entry is     *)
(* from the last time the providers were asked.                            *)
Remembered ==
  /\ memory.answers # {} => lastAsked = memory.at /\ memory.at <= now

(* A row whose lookup failed was retried in time, and its retry is set by  *)
(* the hour the failed answers were cached at.                             *)
Retried ==
  status = "external_lookup_failed" =>
    /\ memory.answers # {}
    /\ now <= nextCheck
    /\ nextCheck <= memory.at + TtlClean + RetryInterval

(* An investigation whose providers all failed leaves its row so. *)
FailureSeen ==
  \A a \in used.answers : AllFailed(a) => status = "external_lookup_failed" /\ used = memory

IInv == TypeOK /\ Remembered

OutageInv == Retried /\ FailureSeen

LEMMA Numbers ==
  /\ TtlMalicious \in Nat /\ TtlClean \in Nat /\ RetryInterval \in Nat /\ ReviewInterval \in Nat
  /\ TtlMalicious > 0 /\ TtlClean > 0 /\ RetryInterval > 0 /\ ReviewInterval > 0
  /\ Horizon \in Nat
  BY IntervalAssumption

LEMMA FreshFields ==
  ASSUME NEW a, NEW at
  PROVE  Fresh(a, at).at = at /\ Fresh(a, at).answers = {a}
  BY DEF Fresh

LEMMA NoEntryFields == NoEntry.at = 0 /\ NoEntry.answers = {}
  BY DEF NoEntry

LEMMA EntryFields ==
  ASSUME NEW e \in Entries
  PROVE  e.at \in 0..Horizon /\ e.answers \in SUBSET Answers
  BY Numbers, FreshFields, NoEntryFields DEF Entries

LEMMA TtlType ==
  ASSUME NEW a
  PROVE  TtlOfAnswers(a) \in Nat
  BY Numbers DEF TtlOfAnswers

(* Providers that all failed flag nothing, so their score is zero. *)
LEMMA FailureIsNotMalicious ==
  ASSUME Threshold > 0, NEW a \in Answers, AllFailed(a)
  PROVE  TtlOfAnswers(a) = TtlClean
<1>1. Flagging(a) = {}
  BY DEF Flagging, AllFailed
<1>2. Score(a) = 0
  BY <1>1 DEF Score
<1>3. ~IsMalicious(a)
  BY <1>2, WeightAssumption DEF IsMalicious
<1>4. QED
  BY <1>3 DEF TtlOfAnswers

LEMMA OutcomeIsFailure ==
  ASSUME NEW a
  PROVE  /\ Outcome(a) \in {"unavailable", "malicious", "clean", "inconclusive"}
         /\ AllFailed(a) <=> Outcome(a) = "unavailable"
  BY DEF Outcome

(* What one investigation does to the row. *)
LEMMA RescheduleTypes ==
  ASSUME TypeOK, NEW a, Reschedule(a)
  PROVE  /\ status' \in {"review_needed", "external_lookup_failed", "malicious", "clean"}
         /\ nextCheck' \in 0..(Horizon + RetryInterval + ReviewInterval)
<1>1. CASE Outcome(a) = "unavailable"
  BY <1>1, Numbers DEF TypeOK, Reschedule
<1>2. CASE Outcome(a) = "inconclusive"
  BY <1>2, Numbers DEF TypeOK, Reschedule
<1>3. CASE Outcome(a) \in {"malicious", "clean"}
  BY <1>3 DEF TypeOK, Reschedule
<1>4. QED
  BY <1>1, <1>2, <1>3, OutcomeIsFailure

LEMMA EngineTypes ==
  ASSUME IInv, NEW a \in Answers, EngineEvaluate(a)
  PROVE  /\ memory' \in Entries /\ used' \in Entries /\ lastAsked' \in {Never} \cup 0..Horizon
         /\ used' = memory' /\ memory'.answers = {a}
         /\ lastAsked' = memory'.at
         /\ memory'.at <= now
         /\ now - memory'.at <= TtlOfAnswers(a)
<1>1. CASE memory.answers = {a} /\ Hit(a) /\ used' = memory /\ UNCHANGED <<memory, lastAsked>>
  BY <1>1 DEF IInv, TypeOK, Remembered, Hit
<1>2. CASE memory' = Fresh(a, now) /\ used' = memory' /\ lastAsked' = now
  <2>1. memory' \in Entries
    BY <1>2 DEF IInv, TypeOK, Entries
  <2>2. memory'.at = now /\ memory'.answers = {a}
    BY <1>2, FreshFields
  <2>3. now \in 0..Horizon /\ now - now <= TtlOfAnswers(a)
    BY TtlType, Numbers DEF IInv, TypeOK
  <2>4. QED
    BY <1>2, <2>1, <2>2, <2>3, Numbers
<1>3. QED
  BY <1>1, <1>2 DEF EngineEvaluate

LEMMA InitInvariant == Init => IInv /\ OutageInv
<1> SUFFICES ASSUME Init PROVE IInv /\ OutageInv
  OBVIOUS
<1>1. IInv
  BY Numbers, NoEntryFields DEF Init, IInv, TypeOK, Entries, Remembered, Never
<1>2. OutageInv
  BY NoEntryFields DEF Init, OutageInv, Retried, FailureSeen
<1>3. QED
  BY <1>1, <1>2

LEMMA StepInvariant == IInv /\ [Next]_vars => IInv'
<1> SUFFICES ASSUME IInv, [Next]_vars PROVE IInv'
  OBVIOUS
<1>1. CASE Investigate
  <2>1. PICK a \in Answers : EngineEvaluate(a) /\ Reschedule(a)
    BY <1>1 DEF Investigate
  <2>2. now' = now
    BY <1>1 DEF Investigate
  <2>3. TypeOK'
    BY <2>1, <2>2, EngineTypes, RescheduleTypes DEF IInv, TypeOK
  <2>4. Remembered'
    BY <2>1, <2>2, EngineTypes DEF Remembered
  <2>5. QED
    BY <2>3, <2>4 DEF IInv
<1>2. CASE Hour
  <2>1. now' \in 0..Horizon /\ now <= now'
    BY <1>2, Numbers DEF Hour, IInv, TypeOK
  <2>2. TypeOK'
    BY <1>2, <2>1 DEF Hour, IInv, TypeOK
  <2>3. memory.at \in 0..Horizon /\ now \in Nat /\ now' \in Nat
    BY <2>1, EntryFields, Numbers DEF IInv, TypeOK
  <2>4. Remembered'
    BY <1>2, <2>1, <2>3 DEF Hour, IInv, Remembered
  <2>5. QED
    BY <2>2, <2>4 DEF IInv
<1>3. CASE UNCHANGED vars
  BY <1>3 DEF vars, IInv, TypeOK, Remembered
<1>4. QED
  BY <1>1, <1>2, <1>3 DEF Next

THEOREM Invariant == Spec => []IInv
<1>1. Init => IInv
  BY InitInvariant
<1>2. QED
  BY <1>1, StepInvariant, PTL DEF Spec

(* The clock, the cache entry and the row stay within their types. *)
THEOREM TypeCorrect == Spec => []TypeOK
<1>1. IInv => TypeOK
  BY DEF IInv
<1>2. QED
  BY Invariant, <1>1, PTL

(* However often the cache answers in between, no investigation acts on    *)
(* what the providers said longer ago than the TTL of that verdict.  The   *)
(* test of a hit speaks of the entry alone; Remembered ties the entry to   *)
(* the last time the providers were asked.                                 *)
THEOREM DecisionsAreFresh == Spec => DecisionsFresh
<1> DEFINE A == \A a \in used'.answers : now' = now => now - lastAsked' <= TtlOfAnswers(a)
<1>1. IInv /\ [Next]_vars => [A]_vars
  <2> SUFFICES ASSUME IInv, Next, ~UNCHANGED vars, now' = now, NEW a \in used'.answers
               PROVE  now - lastAsked' <= TtlOfAnswers(a)
    OBVIOUS
  <2>1. ~Hour
    BY Numbers DEF Hour, IInv, TypeOK
  <2>2. PICK b \in Answers : EngineEvaluate(b)
    BY <2>1 DEF Next, Investigate
  <2>3. used'.answers = {b} /\ lastAsked' = memory'.at /\ now - memory'.at <= TtlOfAnswers(b)
    BY <2>2, EngineTypes
  <2>4. QED
    BY <2>3
<1>2. QED
  BY <1>1, Invariant, PTL DEF Spec, DecisionsFresh

-----------------------------------------------------------------------------
(* An outage of both providers *)

LEMMA OutageStep ==
  ASSUME Threshold > 0, IInv, OutageInv, [Next]_vars
  PROVE  OutageInv'
<1>1. CASE Investigate
  <2>1. PICK a \in Answers : EngineEvaluate(a) /\ Reschedule(a)
    BY <1>1 DEF Investigate
  <2>2. now' = now /\ now \in 0..Horizon
    BY <1>1 DEF Investigate, IInv, TypeOK
  <2>3. /\ used' = memory' /\ memory'.answers = {a} /\ memory'.at <= now
        /\ now - memory'.at <= TtlOfAnswers(a) /\ memory'.at \in 0..Horizon
    BY <2>1, EngineTypes, EntryFields
  <2>4. Outcome(a) = "unavailable" <=> status' = "external_lookup_failed"
    <3>1. CASE Outcome(a) = "unavailable"
      BY <2>1, <3>1 DEF Reschedule
    <3>2. CASE Outcome(a) = "inconclusive"
      BY <2>1, <3>2 DEF Reschedule
    <3>3. CASE Outcome(a) \in {"malicious", "clean"}
      BY <2>1, <3>3 DEF Reschedule
    <3>4. QED
      BY <3>1, <3>2, <3>3, OutcomeIsFailure
  <2>5. FailureSeen'
    BY <2>3, <2>4, OutcomeIsFailure DEF FailureSeen
  <2>6. ASSUME Outcome(a) = "unavailable"
        PROVE  now <= nextCheck' /\ nextCheck' <= memory'.at + TtlClean + RetryInterval
    <3>1. nextCheck' = now + RetryInterval
      BY <2>1, <2>6 DEF Reschedule
    <3>2. TtlOfAnswers(a) = TtlClean
      BY <2>6, OutcomeIsFailure, FailureIsNotMalicious
    <3>3. QED
      BY <2>2, <2>3, <3>1, <3>2, Numbers
  <2>7. Retried'
    BY <2>2, <2>3, <2>4, <2>6 DEF Retried
  <2>8. QED
    BY <2>5, <2>7 DEF OutageInv
<1>2. CASE Hour
  <2>1. now' = now + 1 /\ now \in Nat /\ nextCheck \in Nat
    BY <1>2, Numbers DEF Hour, IInv, TypeOK
  <2>2. status = "external_lookup_failed" => now' <= nextCheck
    BY <1>2, <2>1 DEF Hour, IsDue
  <2>3. Retried'
    BY <1>2, <2>2 DEF Hour, OutageInv, Retried
  <2>4. FailureSeen'
    BY <1>2 DEF Hour, OutageInv, FailureSeen
  <2>5. QED
    BY <2>3, <2>4 DEF OutageInv
<1>3. CASE UNCHANGED vars
  BY <1>3 DEF vars, OutageInv, Retried, FailureSeen
<1>4. QED
  BY <1>1, <1>2, <1>3 DEF Next

LEMMA OutageInvariant ==
  ASSUME Threshold > 0
  PROVE  Spec => [](IInv /\ OutageInv)
<1>1. Init => IInv /\ OutageInv
  BY InitInvariant
<1>2. (IInv /\ OutageInv) /\ [Next]_vars => (IInv /\ OutageInv)'
  BY StepInvariant, OutageStep
<1>3. QED
  BY <1>1, <1>2, PTL DEF Spec

(* In an outage a domain is really asked about again within the clean TTL  *)
(* plus one retry interval, whatever the intervals are.                    *)
THEOREM OutagesAreRetried == Threshold > 0 => (Spec => []OutageRetryBound)
<1> SUFFICES ASSUME Threshold > 0 PROVE Spec => []OutageRetryBound
  OBVIOUS
<1>1. IInv /\ OutageInv => OutageRetryBound
  <2> SUFFICES ASSUME IInv, OutageInv, status = "external_lookup_failed"
               PROVE  now - lastAsked <= TtlClean + RetryInterval
    BY DEF OutageRetryBound
  <2>1. lastAsked = memory.at /\ now <= nextCheck /\ nextCheck <= memory.at + TtlClean + RetryInterval
    BY DEF IInv, OutageInv, Remembered, Retried
  <2>2. memory.at \in Int /\ now \in Int /\ nextCheck \in Int
    BY EntryFields, Numbers DEF IInv, TypeOK
  <2>3. QED
    BY <2>1, <2>2, Numbers
<1>2. QED
  BY <1>1, OutageInvariant, PTL

(* An outage closes no row and puts none off: the row stays failed, to be  *)
(* retried within the clean TTL and the retry interval.                    *)
THEOREM OutagesCloseNothing == Threshold > 0 => (Spec => []OutageNeverCloses)
<1> SUFFICES ASSUME Threshold > 0 PROVE Spec => []OutageNeverCloses
  OBVIOUS
<1>1. IInv /\ OutageInv => OutageNeverCloses
  <2> SUFFICES ASSUME IInv, OutageInv, NEW a \in used.answers, AllFailed(a)
               PROVE  /\ status = "external_lookup_failed"
                      /\ nextCheck - used.at <= TtlClean + 2 * RetryInterval
    BY DEF OutageNeverCloses
  <2>1. status = "external_lookup_failed" /\ used = memory
    BY DEF OutageInv, FailureSeen
  <2>2. nextCheck <= memory.at + TtlClean + RetryInterval
    BY <2>1 DEF OutageInv, Retried
  <2>3. memory.at \in Int /\ nextCheck \in Int
    BY EntryFields, Numbers DEF IInv, TypeOK
  <2>4. QED
    BY <2>1, <2>2, <2>3, Numbers
<1>2. QED
  BY <1>1, OutageInvariant, PTL

-----------------------------------------------------------------------------

LEMMA WeightsOf ==
  Weight["VirusTotal"] = WeightVT /\ Weight["AlienVault OTX"] = WeightOTX
  BY Zenon DEF Weight, Providers

(* The weights of those that flag, added up. *)
LEMMA ScoreAdds ==
  ASSUME NEW a
  PROVE  LET VT == "VirusTotal" \in Flagging(a)
             OTX == "AlienVault OTX" \in Flagging(a)
         IN  /\ VT /\ OTX => Score(a) = 100
             /\ VT /\ ~OTX => Score(a) = WeightVT
             /\ ~VT /\ OTX => Score(a) = WeightOTX
             /\ ~VT /\ ~OTX => Score(a) = 0
<1> DEFINE VT == "VirusTotal" \in Flagging(a)
           OTX == "AlienVault OTX" \in Flagging(a)
<1>1. Score(a) = (IF VT THEN WeightVT ELSE 0) + (IF OTX THEN WeightOTX ELSE 0)
  BY WeightsOf, Zenon DEF Score
<1>2. WeightVT + 0 = WeightVT /\ 0 + WeightOTX = WeightOTX /\ 0 + 0 = 0
  BY WeightAssumption
<1> HIDE DEF VT, OTX
<1>3. VT /\ OTX => Score(a) = WeightVT + WeightOTX
  BY <1>1, Zenon
<1>4. VT /\ ~OTX => Score(a) = WeightVT + 0
  BY <1>1, Zenon
<1>5. ~VT /\ OTX => Score(a) = 0 + WeightOTX
  BY <1>1, Zenon
<1>6. ~VT /\ ~OTX => Score(a) = 0 + 0
  BY <1>1, Zenon
<1>7. QED
  BY <1>2, <1>3, <1>4, <1>5, <1>6, WeightAssumption DEF VT, OTX

LEMMA ScoreType ==
  ASSUME NEW a
  PROVE  Score(a) \in 0..100
<1>1. Score(a) = 100 \/ Score(a) = WeightVT \/ Score(a) = WeightOTX \/ Score(a) = 0
  BY ScoreAdds, Zenon
<1>2. WeightVT \in 0..100 /\ WeightOTX \in 0..100
  BY WeightAssumption
<1>3. QED
  BY <1>1, <1>2

(* A verdict of malicious needs a score at the threshold and nothing else, *)
(* unless the threshold is zero: then an outage reaches it as well, and    *)
(* only the test of all-failed before it keeps the outage from being one.  *)
LEMMA MaliciousByScore ==
  ASSUME Threshold > 0, NEW a \in Answers
  PROVE  Outcome(a) = "malicious" <=> IsMalicious(a)
<1>1. AllFailed(a) => ~IsMalicious(a)
  <2>1. AllFailed(a) => Flagging(a) = {}
    BY DEF AllFailed, Flagging
  <2>2. Flagging(a) = {} => Score(a) = 0
    BY DEF Score
  <2>3. QED
    BY <2>1, <2>2, WeightAssumption DEF IsMalicious
<1>2. QED
  BY <1>1 DEF Outcome

(* However the weights and the threshold are set, one more provider that   *)
(* flags a domain never turns a malicious verdict into another:            *)
(* WeightedScorer.calculate and the order of the tests in its two callers. *)
THEOREM FlagsNeverAbsolve ==
  ASSUME Threshold > 0,
         NEW a \in Answers, NEW b \in Answers,
         Flagging(a) \subseteq Flagging(b),
         Outcome(a) = "malicious"
  PROVE  Outcome(b) = "malicious"
<1>1. Score(a) <= Score(b)
  <2>1. /\ "VirusTotal" \in Flagging(a) => "VirusTotal" \in Flagging(b)
        /\ "AlienVault OTX" \in Flagging(a) => "AlienVault OTX" \in Flagging(b)
    BY Zenon
  <2>2. Score(a) = Score(b) \/ Score(a) = 0 \/ Score(b) = 100
    BY <2>1, ScoreAdds, Zenon
  <2>3. QED
    BY <2>2, ScoreType
<1>2. Score(a) >= Threshold
  BY MaliciousByScore DEF IsMalicious
<1>3. Score(b) >= Threshold
  BY <1>1, <1>2, ScoreType, WeightAssumption
<1>4. QED
  BY <1>3, MaliciousByScore DEF IsMalicious

(* A domain that only one provider flags is malicious exactly if the       *)
(* weight of that provider reaches the threshold by itself; if not, it is  *)
(* recorded as CLEAN, not as inconclusive, because has_intelligence counts *)
(* the flag as a record of the domain (pipeline.py, scheduler.py).         *)
THEOREM LoneFlagNeedsWeight ==
  ASSUME Threshold > 0,
         NEW a \in Answers, NEW v \in Providers,
         Flagging(a) = {v}
  PROVE  Outcome(a) = IF Weight[v] >= Threshold THEN "malicious" ELSE "clean"
<1>1. Score(a) = Weight[v]
  <2>1. CASE v = "VirusTotal"
    <3>1. "VirusTotal" \in Flagging(a) /\ "AlienVault OTX" \notin Flagging(a)
      BY <2>1
    <3>2. QED
      BY <2>1, <3>1, ScoreAdds, WeightsOf, WeightAssumption
  <2>2. CASE v = "AlienVault OTX"
    <3>1. "AlienVault OTX" \in Flagging(a) /\ "VirusTotal" \notin Flagging(a)
      BY <2>2
    <3>2. QED
      BY <2>2, <3>1, ScoreAdds, WeightsOf, WeightAssumption
  <2>3. QED
    BY <2>1, <2>2 DEF Providers
<1>2. a[v] = "malicious"
  BY DEF Flagging
<1>3. ~AllFailed(a) /\ HasIntelligence(a)
  BY <1>2 DEF AllFailed, HasIntelligence
<1>4. QED
  BY <1>1, <1>3, MaliciousByScore DEF Outcome, IsMalicious

(* A clean verdict is never the absence of an answer: some provider has a  *)
(* record of the domain, and together those that flag it stay below the    *)
(* threshold.                                                              *)
THEOREM CleanNeedsRecord ==
  ASSUME NEW a \in Answers, Outcome(a) = "clean"
  PROVE  /\ \E v \in Providers : a[v] \in {"clean", "malicious"}
         /\ Score(a) < Threshold
<1>1. ~AllFailed(a) /\ ~IsMalicious(a) /\ HasIntelligence(a)
  BY DEF Outcome
<1>2. PICK v \in Providers : a[v] \notin {"unavailable", "notFound"}
  BY <1>1 DEF HasIntelligence
<1>3. a[v] \in VirusTotalAnswers
  BY DEF Answers
<1>4. a[v] \in {"clean", "malicious"}
  BY <1>2, <1>3 DEF VirusTotalAnswers
<1>5. Score(a) < Threshold
  BY <1>1, ScoreType, WeightAssumption DEF IsMalicious
<1>6. QED
  BY <1>4, <1>5

=============================================================================

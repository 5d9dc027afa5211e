---------------------------- MODULE ReviewRetry ----------------------------
(***************************************************************************)
(* One domain under review against the clock: the engine's in-memory cache *)
(* with its two TTLs in front of the providers, and the review worker that *)
(* retries and reschedules.  Times are hours, as in the code.              *)
(***************************************************************************)
EXTENDS Correlation, Integers

CONSTANTS TtlMalicious, TtlClean,   \* CACHE_TTL_MALICIOUS, CACHE_TTL_CLEAN
          RetryInterval,            \* DEFAULT_RETRY_INTERVAL_HOURS
          ReviewInterval,           \* DEFAULT_REVIEW_INTERVAL_DAYS in hours
          Horizon                   \* bound on the clock

ASSUME IntervalAssumption ==
  /\ TtlMalicious \in Nat \ {0} /\ TtlClean \in Nat \ {0}
  /\ RetryInterval \in Nat \ {0} /\ ReviewInterval \in Nat \ {0}
  /\ Horizon \in Nat

VARIABLES now,        \* hours
          memory,     \* the cache entry of the domain
          status,     \* status of its row in daily_review_domains
          nextCheck,  \* its next_check_at
          lastAsked,  \* history: when the providers were last asked
          used        \* history: the answers the last investigation used

vars == <<now, memory, status, nextCheck, lastAsked, used>>

NoEntry == [at |-> 0, answers |-> {}]
Never == 0 - 1
Fresh(a, at) == [at |-> at, answers |-> {a}]
Entries == {NoEntry} \cup {Fresh(a, at) : a \in Answers, at \in 0..Horizon}

TypeOK ==
  /\ now \in 0..Horizon
  /\ memory \in Entries
  /\ status \in {"review_needed", "external_lookup_failed", "malicious", "clean"}
  /\ nextCheck \in 0..(Horizon + RetryInterval + ReviewInterval)
  /\ lastAsked \in {Never} \cup 0..Horizon
  /\ used \in Entries

(* A row that has just been found inconclusive and comes due at hour 0. *)
Init ==
  /\ now = 0
  /\ memory = NoEntry
  /\ status = "review_needed"
  /\ nextCheck = 0
  /\ lastAsked = Never
  /\ used = NoEntry

-----------------------------------------------------------------------------

IsDue == /\ status \in {"review_needed", "external_lookup_failed"}
         /\ nextCheck <= now

TtlOfAnswers(a) == IF IsMalicious(a) THEN TtlMalicious ELSE TtlClean

(* _get_from_memory: hit while now - timestamp > ttl is false. *)
(* Mutant: an entry is served for twice its TTL. *)
HitUntilTwiceTtl(a) == now - memory.at <= 2 * TtlOfAnswers(a)
Hit(a) == now - memory.at <= TtlOfAnswers(a)

(* Mutant: an entry that is read again counts as new. *)
EngineEvaluateRenewing(a) ==
  \/ /\ memory.answers = {a}
     /\ Hit(a)
     /\ memory' = Fresh(a, now)
     /\ used' = memory'
     /\ UNCHANGED lastAsked
  \/ /\ \A c \in memory.answers : ~Hit(c)
     /\ memory' = Fresh(a, now)
     /\ used' = memory'
     /\ lastAsked' = now

(* CorrelationEngine.evaluate: the cached answers, or those of a new query *)
(* that is cached whatever it is.                                          *)
EngineEvaluate(a) ==
  \/ /\ memory.answers = {a}
     /\ Hit(a)
     /\ used' = memory
     /\ UNCHANGED <<memory, lastAsked>>
  \/ /\ \A c \in memory.answers : ~Hit(c)
     /\ memory' = Fresh(a, now)
     /\ used' = memory'
     /\ lastAsked' = now

(* Mutant: a failed lookup leaves the row with the name of the outcome. *)
RescheduleByOutcome(a) ==
  /\ status' = IF Outcome(a) = "inconclusive" THEN "review_needed" ELSE Outcome(a)
  /\ nextCheck' = CASE Outcome(a) = "unavailable" -> now + RetryInterval
                    [] Outcome(a) = "inconclusive" -> now + ReviewInterval
                    [] OTHER -> nextCheck

(* Mutant: a failed lookup is put off like an inconclusive one. *)
RescheduleLate(a) ==
  CASE Outcome(a) = "unavailable" ->
         status' = "external_lookup_failed" /\ nextCheck' = now + ReviewInterval
    [] Outcome(a) = "inconclusive" ->
         status' = "review_needed" /\ nextCheck' = now + ReviewInterval
    [] OTHER -> status' = Outcome(a) /\ UNCHANGED nextCheck

Reschedule(a) ==
  CASE Outcome(a) = "unavailable" ->
         status' = "external_lookup_failed" /\ nextCheck' = now + RetryInterval
    [] Outcome(a) = "inconclusive" ->
         status' = "review_needed" /\ nextCheck' = now + ReviewInterval
    [] OTHER -> status' = Outcome(a) /\ UNCHANGED nextCheck

(* The worker investigates the due row. *)
Investigate ==
  /\ IsDue
  /\ \E a \in Answers : EngineEvaluate(a) /\ Reschedule(a)
  /\ UNCHANGED now

(* An hour passes.  The daemon polls every minute: no hour passes over a   *)
(* due row.                                                                *)
Hour ==
  /\ ~IsDue
  /\ now < Horizon
  /\ now' = now + 1
  /\ UNCHANGED <<memory, status, nextCheck, lastAsked, used>>

Next == Investigate \/ Hour
Spec == Init /\ [][Next]_vars

-----------------------------------------------------------------------------

(* Whatever an investigation acts on, the providers were really asked no   *)
(* longer ago than the TTL of that verdict, however many retries the cache *)
(* has answered since: neither a hit, nor what the retry rule does with    *)
(* its answer, stands in for asking.                                       *)
DecisionsFresh ==
  [][\A a \in used'.answers : now' = now => now - lastAsked' <= TtlOfAnswers(a)]_vars

(* While its lookups fail, a domain is really asked about again within the *)
(* clean TTL plus one retry interval of the last time.                     *)
OutageRetryBound ==
  status = "external_lookup_failed" => now - lastAsked <= TtlClean + RetryInterval

(* A row is closed as clean or malicious, or put off for the review        *)
(* interval, only on the word of a provider that was reached.              *)
OutageNeverCloses ==
  \A a \in used.answers : AllFailed(a) =>
    /\ status = "external_lookup_failed"
    /\ nextCheck - used.at <= TtlClean + 2 * RetryInterval

=============================================================================

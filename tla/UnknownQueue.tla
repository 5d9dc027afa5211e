---------------------------- MODULE UnknownQueue ----------------------------
(***************************************************************************)
(* The queue of domains that no local source knows.  A run of the batch    *)
(* pipeline profiles its log; if the log has rows that neither Tranco nor  *)
(* URLhaus knows, it stores those marked unknown chunk by chunk, lists the *)
(* rows that are NEW, and asks the online providers about one after the    *)
(* other, all in one try block: what raises ends the run here.             *)
(* Runs may overlap, and each works from the list it read at the start.    *)
(* A status update that carries an error text writes the text into a JSONB *)
(* column: unless the text happens to be JSON the update fails too, and    *)
(* the run gives up with the row left PROCESSING.                          *)
(***************************************************************************)
EXTENDS FiniteSets, Integers

CONSTANTS Domains,
          Runs,        \* runs of the pipeline that may overlap
          ChunkSize,   \* DEFAULT_BATCH_SIZE
          MaxFaults    \* bound on crashes, failed statements and lookups

ASSUME QueueAssumption ==
  /\ Domains \cap Runs = {}
  /\ ChunkSize \in Nat \ {0}
  /\ MaxFaults \in Nat

Outcomes == {"MALICIOUS", "CLEAN", "REVIEW_NEEDED"}
Statuses == {"NEW", "PROCESSING", "ERROR"} \cup Outcomes
Absent == "absent"

Decisions == {"malicious",   \* decision.malicious
              "evidence",    \* not malicious, and has_intelligence
              "nothing"}     \* no provider had a record or could be reached

Steps == {"idle", "profile", "filter", "persist", "list", "claim", "evaluate", "store", "mark"}

VARIABLES status,     \* unknown_domains.status, or Absent
          pc,         \* where each run stands
          todo,       \* what it has still to persist or, later, to evaluate
          current,    \* at most one domain, the one in its hands
          decision,   \* the answer it was given, until it is stored
          faults

VARIABLES answer,     \* history: the last answer about each domain
          shared      \* history: domains that two runs had listed at once

run == <<pc, todo, current, decision>>
vars == <<status, pc, todo, current, decision, faults, answer, shared>>

TypeOK ==
  /\ status \in [Domains -> Statuses \cup {Absent}]
  /\ pc \in [Runs -> Steps]
  /\ todo \in [Runs -> SUBSET Domains]
  /\ current \in [Runs -> SUBSET Domains]
  /\ decision \in [Runs -> Decisions]
  /\ faults \in 0..MaxFaults
  /\ answer \in [Domains -> Decisions]
  /\ shared \in SUBSET Domains

(* The table may hold rows that an earlier release left to be processed. *)
Init ==
  /\ status \in [Domains -> {Absent, "NEW"}]
  /\ pc = [r \in Runs |-> "idle"]
  /\ todo = [r \in Runs |-> {}]
  /\ current = [r \in Runs |-> {}]
  /\ decision = [r \in Runs |-> "nothing"]
  /\ faults = 0
  /\ answer = [d \in Domains |-> "nothing"]
  /\ shared = {}

Goto(r, step) == pc' = [pc EXCEPT ![r] = step]
Fault == faults < MaxFaults /\ faults' = faults + 1

(* the end of a run, whatever ends it *)
End(r) ==
  /\ Goto(r, "idle")
  /\ todo' = [todo EXCEPT ![r] = {}]
  /\ current' = [current EXCEPT ![r] = {}]
  /\ decision' = [decision EXCEPT ![r] = "nothing"]

-----------------------------------------------------------------------------
(* The rows of one log. *)

Begin(r) ==
  /\ pc[r] = "idle" /\ Goto(r, "profile")
  /\ UNCHANGED <<status, todo, current, decision, faults, answer, shared>>

Profile(r) ==
  /\ pc[r] = "profile" /\ Goto(r, "filter")
  /\ UNCHANGED <<status, todo, current, decision, faults, answer, shared>>

(* insert_history_batch returns the ids of its last page alone: a log of   *)
(* more rows than a page ends every run that is given it here, no fault.   *)
LongLog(r) ==
  /\ pc[r] = "profile" /\ End(r)
  /\ UNCHANGED <<status, faults, answer, shared>>

ProfileFails(r) ==
  /\ pc[r] = "profile" /\ End(r) /\ Fault
  /\ UNCHANGED <<status, answer, shared>>

(* Every row is a trusted or a known malicious one: the queue is left alone. *)
NothingUnknown(r) ==
  /\ pc[r] = "filter" /\ End(r)
  /\ UNCHANGED <<status, faults, answer, shared>>

(* S is what the other rows mark as ti_source 'unknown'.  The labeller in  *)
(* the repository marks nothing so, and with it S is always empty.         *)
SelectUnknown(r) ==
  /\ pc[r] = "filter" /\ Goto(r, "persist")
  /\ \E S \in SUBSET Domains : todo' = [todo EXCEPT ![r] = S]
  /\ UNCHANGED <<status, current, decision, faults, answer, shared>>

(* Mutant: a verdict is reopened like every other row. *)
SeenAgainReopens(s) == IF s = "PROCESSING" THEN s ELSE "NEW"

(* _status_reset_case_sql *)
SeenAgain(s) == IF s \in {Absent, "REVIEW_NEEDED", "ERROR"} THEN "NEW" ELSE s

Chunks(r) == {C \in SUBSET todo[r] : Cardinality(C) \in 1..ChunkSize}

UpsertChunk(r) ==
  /\ pc[r] = "persist"
  /\ \E C \in Chunks(r) :
       /\ todo' = [todo EXCEPT ![r] = @ \ C]
       /\ status' = [d \in Domains |-> IF d \in C THEN SeenAgain(status[d]) ELSE status[d]]
  /\ UNCHANGED <<pc, current, decision, faults, answer, shared>>

(* The other chunks are stored all the same; the batch is cleared. *)
UpsertChunkFails(r) ==
  /\ pc[r] = "persist" /\ Fault
  /\ \E C \in Chunks(r) : todo' = [todo EXCEPT ![r] = @ \ C]
  /\ UNCHANGED <<status, pc, current, decision, answer, shared>>

Persisted(r) ==
  /\ pc[r] = "persist" /\ todo[r] = {} /\ Goto(r, "list")
  /\ UNCHANGED <<status, todo, current, decision, faults, answer, shared>>

-----------------------------------------------------------------------------
(* UnknownDomainProcessor.process *)

New == {d \in Domains : status[d] = "NEW"}

Listed(r, S) ==
  /\ todo' = [todo EXCEPT ![r] = S]
  /\ shared' = shared \cup
       {d \in S : \E q \in Runs \ {r} : d \in todo[q] /\ pc[q] # "persist"}

(* Mutant: a run waits for the rows that somebody is processing. *)
ListUnlessBusy(r) ==
  /\ pc[r] = "list"
  /\ IF \E d \in Domains : status[d] = "PROCESSING" THEN Listed(r, {}) ELSE Listed(r, New)
  /\ Goto(r, "claim")
  /\ UNCHANGED <<status, current, decision, faults, answer>>

List(r) ==
  /\ pc[r] = "list" /\ Listed(r, New) /\ Goto(r, "claim")
  /\ UNCHANGED <<status, current, decision, faults, answer>>

ListFails(r) ==
  /\ pc[r] = "list" /\ End(r) /\ Fault
  /\ UNCHANGED <<status, answer, shared>>

(* Mutant: the whole list is claimed at once. *)
ClaimAll(r) ==
  /\ pc[r] = "claim" /\ Goto(r, "evaluate")
  /\ \E d \in todo[r] : current' = [current EXCEPT ![r] = {d}]
  /\ status' = [d \in Domains |-> IF d \in todo[r] THEN "PROCESSING" ELSE status[d]]
  /\ UNCHANGED <<todo, decision, faults, answer, shared>>

(* The status is not looked at again: the row is what the list says. *)
Claim(r) ==
  /\ pc[r] = "claim" /\ Goto(r, "evaluate")
  /\ \E d \in todo[r] :
       /\ current' = [current EXCEPT ![r] = {d}]
       /\ status' = [status EXCEPT ![d] = "PROCESSING"]
  /\ UNCHANGED <<todo, decision, faults, answer, shared>>

ClaimFails(r) ==
  /\ pc[r] = "claim" /\ Goto(r, "mark") /\ Fault
  /\ \E d \in todo[r] : current' = [current EXCEPT ![r] = {d}]
  /\ UNCHANGED <<status, todo, decision, answer, shared>>

Finish(r) ==
  /\ pc[r] = "claim" /\ todo[r] = {} /\ End(r)
  /\ UNCHANGED <<status, faults, answer, shared>>

Evaluate(r) ==
  /\ pc[r] = "evaluate" /\ Goto(r, "store")
  /\ \E a \in Decisions :
       /\ decision' = [decision EXCEPT ![r] = a]
       /\ answer' = [d \in Domains |-> IF d \in current[r] THEN a ELSE answer[d]]
  /\ UNCHANGED <<status, todo, current, faults, shared>>

EvaluateFails(r) ==
  /\ pc[r] = "evaluate" /\ Goto(r, "mark") /\ Fault
  /\ UNCHANGED <<status, todo, current, decision, answer, shared>>

(* Mutant: whatever is not malicious is clean. *)
OutcomeBinary(a) == IF a = "malicious" THEN "MALICIOUS" ELSE "CLEAN"

Outcome(a) == CASE a = "malicious" -> "MALICIOUS"
                [] a = "evidence"  -> "CLEAN"
                [] a = "nothing"   -> "REVIEW_NEEDED"

(* the row in hand takes a status, and the run turns to the next one *)
Settle(r, s) ==
  /\ status' = [d \in Domains |-> IF d \in current[r] THEN s ELSE status[d]]
  /\ todo' = [todo EXCEPT ![r] = @ \ current[r]]
  /\ current' = [current EXCEPT ![r] = {}]
  /\ decision' = [decision EXCEPT ![r] = "nothing"]
  /\ Goto(r, "claim")

Store(r) ==
  /\ pc[r] = "store" /\ Settle(r, Outcome(decision[r]))
  /\ UNCHANGED <<faults, answer, shared>>

StoreFails(r) ==
  /\ pc[r] = "store" /\ Goto(r, "mark") /\ Fault
  /\ UNCHANGED <<status, todo, current, decision, answer, shared>>

(* Mutant: a domain that could not be asked about is put up for review.    *)
MarkErrorForReview(r) ==
  /\ pc[r] = "mark"
  /\ Settle(r, "REVIEW_NEEDED") \/ (End(r) /\ UNCHANGED status)
  /\ UNCHANGED <<faults, answer, shared>>

(* update_status(ERROR, str(exc)), with a text that is JSON or is not *)
MarkError(r) ==
  /\ pc[r] = "mark"
  /\ Settle(r, "ERROR") \/ (End(r) /\ UNCHANGED status)
  /\ UNCHANGED <<faults, answer, shared>>

Crash(r) ==
  /\ pc[r] # "idle" /\ End(r) /\ Fault
  /\ UNCHANGED <<status, answer, shared>>

-----------------------------------------------------------------------------

Work(r) ==
  \/ Begin(r) \/ Profile(r) \/ LongLog(r) \/ NothingUnknown(r)
  \/ SelectUnknown(r) \/ UpsertChunk(r) \/ Persisted(r)
  \/ List(r) \/ Claim(r) \/ Finish(r) \/ Evaluate(r) \/ Store(r) \/ MarkError(r)

Fail(r) ==
  \/ ProfileFails(r) \/ UpsertChunkFails(r) \/ ListFails(r) \/ ClaimFails(r)
  \/ EvaluateFails(r) \/ StoreFails(r) \/ Crash(r)

Next == \E r \in Runs : Work(r) \/ Fail(r)

Spec == Init /\ [][Next]_vars

(* The pipeline is started again and again; a run that is going goes on. *)
FairSpec == Spec /\ \A r \in Runs : WF_vars(Work(r))

-----------------------------------------------------------------------------

(* rows that are being processed by nobody: nothing ever resets them *)
Stranded == {d \in Domains : status[d] = "PROCESSING" /\ \A r \in Runs : d \notin current[r]}

(* Each crash, failed statement or failed lookup leaves at most one row    *)
(* PROCESSING for good, however long the list was that its run had read,   *)
(* and whatever the other runs do to the same rows.                        *)
StrandedBound == Cardinality(Stranded) <= faults

(* A row that only one run at a time had on its list says what the         *)
(* providers said last: clean only on evidence, malicious only on a        *)
(* malicious answer, through failures and re-sightings.                    *)
OutcomeIsLastAnswer ==
  \A d \in Domains \ shared :
    /\ status[d] = "MALICIOUS" => answer[d] = "malicious"
    /\ status[d] = "CLEAN" => answer[d] = "evidence"
    /\ status[d] = "REVIEW_NEEDED" => answer[d] = "nothing"

Answered(d) == \E r \in Runs : pc[r] = "store" /\ d \in current[r]

Question(d) ==
  CASE d \in shared -> "contended"
    [] d \notin shared /\ status[d] = Absent -> "absent"
    [] d \notin shared /\ status[d] = "MALICIOUS" -> "malicious"
    [] d \notin shared /\ status[d] = "CLEAN" -> "clean"
    [] d \notin shared /\ status[d] = "REVIEW_NEEDED" -> "review"
    [] OTHER -> IF Answered(d) THEN "answered" ELSE "open"

Questions == INSTANCE OpenQuestions WITH question <- [d \in Domains |-> Question(d)]

(* Chunks, claims, errors and deaths aside, a row is one open question:    *)
(* the providers are asked about it while it is open and not again before  *)
(* the answer is stored or lost, and the row ends as that answer says.     *)
ImplementsQuestions == Questions!Spec

(* CLEAN and MALICIOUS are final, but for a row that two runs had listed   *)
(* at once: being seen again in a log does not reopen it.                  *)
VerdictIsFinal ==
  [][\A d \in Domains \ shared :
       status[d] \in {"CLEAN", "MALICIOUS"} => status'[d] = status[d]]_vars

(* A NEW row leaves the queue, also one that a run which died had listed   *)
(* or stored, as long as runs go on to come whose log is no longer than a  *)
(* page and has a row that no local source knows: only they list the queue. *)
LogsReachTheQueue == []<>(\E r \in Runs : pc[r] = "persist")

QueueMoves ==
  LogsReachTheQueue => \A d \in Domains : status[d] = "NEW" ~> status[d] # "NEW"

=============================================================================

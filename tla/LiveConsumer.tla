---------------------------- MODULE LiveConsumer ----------------------------
(***************************************************************************)
(* The live pipeline: one Kafka consumer that takes the messages of one    *)
(* partition in order, filters duplicates in memory, writes every event    *)
(* to five stores one after the other, and commits the offset by hand.     *)
(* The stores are the dataset CSV (a buffered file), domain_query_history, *)
(* domain_profiles, client_profiles and the feature CSV; all of them only  *)
(* ever add, so a message that is taken twice is counted twice.            *)
(* What an event is counted as is the business of VerdictLifecycle.        *)
(***************************************************************************)
EXTENDS Naturals

CONSTANTS MaxOffset,   \* bound on the messages of the topic
          KeyOf,       \* _dedup_key of each message, or Malformed
          Malformed,
          MaxFaults,   \* bound on crashes, failed writes and failed commits
          MaxStops     \* bound on signals and idle timeouts

Offsets == 1..MaxOffset

ASSUME ConsumerAssumption ==
  /\ MaxOffset \in Nat /\ MaxFaults \in Nat /\ MaxStops \in Nat
  /\ DOMAIN KeyOf = Offsets

Keys == {KeyOf[o] : o \in Offsets} \ {Malformed}
Tables == {"history", "profiles", "clients", "features"}
Steps == {"down", "poll", "dataset", "commit"} \cup Tables

VARIABLES
  logEnd,      \* offset of the newest message
  committed,   \* the group's committed offset, 0 before the first commit
  pc,          \* the step the process is about to take
  position,    \* offset of the message the consumer hands out next
  seen,        \* _PipelineStats._seen
  profiling,   \* profiling_enabled
  stopping,    \* the signal handler has closed the consumer
  buffer,      \* how often each event is in the buffer of the dataset CSV
  file,        \* how often it is in the dataset CSV on disk
  rows,        \* how often it is in each of the other stores
  faults, stops

VARIABLES      \* history, read by the properties only
  starts,      \* lives of the process
  written,     \* messages write_event returned for
  excused      \* messages that raised, or came before the group's first start

broker == <<logEnd, committed>>
process == <<pc, position, seen, profiling, stopping>>
stores == <<buffer, file, rows>>
bounds == <<faults, stops>>
ghosts == <<starts, written, excused>>
vars == <<logEnd, committed, pc, position, seen, profiling, stopping, buffer,
          file, rows, faults, stops, starts, written, excused>>

None == [k \in Keys |-> 0]

TypeOK ==
  /\ logEnd \in 0..MaxOffset
  /\ committed \in 0..(MaxOffset + 1)
  /\ pc \in Steps
  /\ position \in 1..(MaxOffset + 1)
  /\ seen \in SUBSET Keys
  /\ profiling \in BOOLEAN
  /\ stopping \in BOOLEAN
  /\ buffer \in [Keys -> Nat]
  /\ file \in [Keys -> Nat]
  /\ rows \in [Tables -> [Keys -> Nat]]
  /\ faults \in 0..MaxFaults
  /\ stops \in 0..MaxStops
  /\ starts \in Nat
  /\ written \in SUBSET Offsets
  /\ excused \in SUBSET Offsets

Init ==
  /\ logEnd = 0
  /\ committed = 0
  /\ pc = "down"
  /\ position = 1
  /\ seen = {}
  /\ profiling = FALSE
  /\ stopping = FALSE
  /\ buffer = None
  /\ file = None
  /\ rows = [s \in Tables |-> None]
  /\ faults = 0
  /\ stops = 0
  /\ starts = 0
  /\ written = {}
  /\ excused = {}

Fault == faults < MaxFaults /\ faults' = faults + 1 /\ UNCHANGED stops
Goto(step) == pc' = step /\ UNCHANGED <<position, seen, profiling, stopping>>

-----------------------------------------------------------------------------
(* The broker. *)

(* Fluent Bit publishes a message. *)
Produce ==
  /\ logEnd < MaxOffset
  /\ logEnd' = logEnd + 1
  /\ UNCHANGED <<committed, process, stores, bounds, ghosts>>

(* Where the group resumes: its committed offset, or auto_offset_reset =   *)
(* "latest", which passes over everything published so far.                *)
Resume ==
  IF committed = 0
  THEN position' = logEnd + 1 /\ excused' = excused \cup 1..logEnd
  ELSE position' = committed /\ UNCHANGED excused

(* The group takes the partition away between two polls and gives it back. *)
Rebalance ==
  /\ pc = "poll"
  /\ Resume
  /\ UNCHANGED <<broker, pc, seen, profiling, stopping, stores, bounds,
                 starts, written>>

-----------------------------------------------------------------------------
(* main *)

(* Mutant: the consumer always starts at the end of the log. *)
StartAtLatest ==
  /\ pc = "down"
  /\ pc' = "poll"
  /\ position' = logEnd + 1
  /\ seen' = {}
  /\ stopping' = FALSE
  /\ profiling' = TRUE
  /\ starts' = starts + 1
  /\ UNCHANGED <<broker, stores, bounds, written, excused>>

(* Without its database pools the process runs with profiling off. *)
Start ==
  /\ pc = "down"
  /\ pc' = "poll"
  /\ Resume
  /\ seen' = {}
  /\ stopping' = FALSE
  /\ \/ profiling' = TRUE /\ UNCHANGED bounds
     \/ profiling' = FALSE /\ Fault
  /\ starts' = starts + 1
  /\ UNCHANGED <<broker, stores, written>>

Current == position - 1   \* the message in hand
Event == KeyOf[Current]

(* Mutant: the duplicate filter looks, but does not remember. *)
ReceiveUnmarked ==
  /\ pc = "poll" /\ ~stopping
  /\ position <= logEnd
  /\ position' = position + 1
  /\ pc' = IF KeyOf[position] \in seen \cup {Malformed} THEN "commit" ELSE "dataset"
  /\ UNCHANGED <<broker, seen, profiling, stopping, stores, bounds, ghosts>>

(* Mutant: auto-commit, the offset is committed when the message is taken. *)
ReceiveCommitting ==
  /\ pc = "poll" /\ ~stopping
  /\ position <= logEnd
  /\ position' = position + 1
  /\ committed' = position + 1
  /\ IF KeyOf[position] \in seen \cup {Malformed}
       THEN pc' = "commit" /\ UNCHANGED seen
       ELSE pc' = "dataset" /\ seen' = seen \cup {KeyOf[position]}
  /\ UNCHANGED <<logEnd, profiling, stopping, stores, bounds, ghosts>>

(* The next message: a malformed one and a duplicate are only counted.     *)
(* The key is remembered before anything is done with the event.           *)
Receive ==
  /\ pc = "poll" /\ ~stopping
  /\ position <= logEnd
  /\ position' = position + 1
  /\ IF KeyOf[position] \in seen \cup {Malformed}
       THEN pc' = "commit" /\ UNCHANGED seen
       ELSE pc' = "dataset" /\ seen' = seen \cup {KeyOf[position]}
  /\ UNCHANGED <<broker, profiling, stopping, stores, bounds, ghosts>>

(* _process_record, one store after the other. *)
WriteDataset ==
  /\ pc = "dataset"
  /\ buffer' = [buffer EXCEPT ![Event] = @ + 1]
  /\ written' = written \cup {Current}
  /\ Goto(IF profiling THEN "history" ELSE "features")
  /\ UNCHANGED <<broker, file, rows, bounds, starts, excused>>

(* The only failure that leaves _process_record: the loop logs it and      *)
(* turns to the next message.                                              *)
WriteDatasetFails ==
  /\ pc = "dataset"
  /\ Fault
  /\ Goto("poll")
  /\ excused' = excused \cup {Current}
  /\ UNCHANGED <<broker, stores, starts, written>>

After == [s \in Tables |-> CASE s = "history" -> "profiles"
                             [] s = "profiles" -> "clients"
                             [] s = "clients" -> "features"
                             [] s = "features" -> "commit"]

Add(s) ==
  /\ pc = s
  /\ rows' = [rows EXCEPT ![s][Event] = @ + 1]
  /\ Goto(After[s])
  /\ UNCHANGED <<broker, buffer, file, bounds, ghosts>>

(* Mutant: an error of the history insert does not keep the profile back. *)
AddFailsAlone(s) ==
  /\ pc = s
  /\ Fault
  /\ Goto(After[s])
  /\ UNCHANGED <<broker, stores, ghosts>>

(* A transaction fails: the error is logged and swallowed.  The history    *)
(* and the domain profile are two transactions of one call.                *)
AddFails(s) ==
  /\ pc = s
  /\ Fault
  /\ Goto(IF s = "history" THEN "clients" ELSE After[s])
  /\ UNCHANGED <<broker, stores, ghosts>>

(* Mutant: one offset too far. *)
CommitNextOffset ==
  /\ pc = "commit" /\ ~stopping
  /\ committed' = position + 1
  /\ Goto("poll")
  /\ UNCHANGED <<logEnd, stores, bounds, ghosts>>

Commit ==
  /\ pc = "commit" /\ ~stopping
  /\ committed' = position
  /\ Goto("poll")
  /\ UNCHANGED <<logEnd, stores, bounds, ghosts>>

(* A closed consumer has left the group and cannot commit. *)
CommitFails ==
  /\ pc = "commit"
  /\ \/ stopping /\ UNCHANGED bounds
     \/ ~stopping /\ Fault
  /\ Goto("poll")
  /\ UNCHANGED <<broker, stores, ghosts>>

(* The file object writes its buffer out when it is full. *)
FlushBuffer ==
  /\ file' = [k \in Keys |-> file[k] + buffer[k]]
  /\ buffer' = None

Flush ==
  /\ buffer # None
  /\ FlushBuffer
  /\ UNCHANGED <<broker, process, rows, bounds, ghosts>>

-----------------------------------------------------------------------------
(* The end of a life. *)

(* SIGTERM in the middle of a message closes the consumer under it. *)
Signal ==
  /\ pc \notin {"down", "poll"} /\ ~stopping
  /\ stops < MaxStops
  /\ stops' = stops + 1
  /\ stopping' = TRUE
  /\ UNCHANGED <<broker, pc, position, seen, profiling, stores, faults, ghosts>>

(* The loop ends: on a signal, or after an hour without a message. *)
Exit ==
  /\ pc = "poll"
  /\ \/ stopping /\ UNCHANGED stops
     \/ ~stopping /\ stops < MaxStops /\ stops' = stops + 1
  /\ FlushBuffer
  /\ Goto("down")
  /\ UNCHANGED <<broker, rows, faults, ghosts>>

Crash ==
  /\ pc # "down"
  /\ Fault
  /\ buffer' = None
  /\ Goto("down")
  /\ UNCHANGED <<broker, file, rows, ghosts>>

-----------------------------------------------------------------------------

Work ==
  \/ Receive \/ WriteDataset \/ WriteDatasetFails \/ Commit \/ CommitFails
  \/ \E s \in Tables : Add(s) \/ AddFails(s)

Next == Produce \/ Rebalance \/ Start \/ Work \/ Flush \/ Signal \/ Exit \/ Crash

Spec == Init /\ [][Next]_vars

(* The loop runs as long as there are messages.  Nothing in the repository *)
(* starts the process again by itself; an operator who runs start_all.sh   *)
(* does.                                                                   *)
FairSpec == Spec /\ WF_vars(Work) /\ WF_vars(Start) /\ WF_vars(stopping /\ Exit)

-----------------------------------------------------------------------------

SameEvent(o) == {p \in Offsets : KeyOf[p] = KeyOf[o]}

(* The event of a message has been written, or there was nothing to write: *)
(* it is malformed, its processing raised, or the group started after it.  *)
Settled(o) ==
  \/ KeyOf[o] = Malformed
  \/ SameEvent(o) \cap (written \cup excused) # {}

(* The committed offset never passes a message that is not settled:        *)
(* whatever crashes, rebalances, failed commits and signals do, an event   *)
(* is only left behind after write_event has returned for it once, in this *)
(* life of the process or in an earlier one.                               *)
CommittedSettled == \A o \in Offsets : o < committed => Settled(o)

(* In one life of the process no event is counted twice in any store: a    *)
(* message that comes again after a rebalance or a failed commit, and a    *)
(* second message with the same key, are stopped by the duplicate filter.  *)
CountedOncePerLife ==
  \A k \in Keys :
    /\ file[k] + buffer[k] <= starts
    /\ \A s \in Tables : rows[s][k] <= starts

(* A domain profile never counts a query that is not in the history, on    *)
(* any path through failed transactions, crashes and repeated messages.    *)
ProfilesFollowHistory ==
  \A k \in Keys : rows["profiles"][k] <= rows["history"][k]

(* Once the group has a committed offset, every message published is       *)
(* eventually settled, through crashes, signals and idle timeouts.         *)
MessagesSettle ==
  \A o \in Offsets :
    (committed \in 1..o /\ o <= logEnd) ~> Settled(o)

=============================================================================

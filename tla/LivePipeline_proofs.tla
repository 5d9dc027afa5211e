------------------------ MODULE LivePipeline_proofs ------------------------
(***************************************************************************)
(* Proofs about the live pipeline: LiveConsumer, for any topic, keys and   *)
(* numbers of faults, and ClientProfiles, which its client step calls, for *)
(* any clients, domains, writers and numbers of queries and failures.      *)
(***************************************************************************)
EXTENDS LiveConsumer, ClientProfiles, FiniteSetTheorems, TLAPS

InHand == pc \notin {"down", "poll"}   \* a message has been taken

(* There is a message in hand while one is processed, and the position is  *)
(* never beyond the end of the log or behind the commit.                   *)
PositionSound ==
  /\ InHand => position > 1
  /\ position <= logEnd + 1
  /\ committed <= position

Typed == TypeOK /\ PositionSound

-----------------------------------------------------------------------------
(* Types. *)

(* The arithmetic of offsets. *)
LEMMA OffsetsTyped ==
  ASSUME Typed
  PROVE  /\ MaxOffset \in Nat /\ logEnd \in 0..MaxOffset
         /\ committed \in 0..(logEnd + 1) /\ position \in 1..(logEnd + 1)
         /\ committed <= position
<1>1. /\ MaxOffset \in Nat /\ logEnd \in 0..MaxOffset
      /\ committed \in 0..(MaxOffset + 1) /\ position \in 1..(MaxOffset + 1)
      /\ position <= logEnd + 1 /\ committed <= position
  BY ConsumerAssumption DEF Typed, TypeOK, PositionSound
<1> QED BY <1>1

LEMMA ResumeTyped ==
  ASSUME Typed, Resume, UNCHANGED broker
  PROVE  /\ position' \in 1..(MaxOffset + 1)
         /\ position' <= logEnd' + 1 /\ committed' <= position'
         /\ excused' \in SUBSET Offsets
<1>1. /\ position' = IF committed = 0 THEN logEnd + 1 ELSE committed
      /\ logEnd' = logEnd /\ committed' = committed
  BY DEF Resume, broker
<1>2. position' \in 1..(MaxOffset + 1) /\ position' <= logEnd' + 1
      /\ committed' <= position'
  BY <1>1, OffsetsTyped
<1>3. 1..logEnd \subseteq Offsets
  BY OffsetsTyped DEF Offsets
<1>4. excused' \in SUBSET Offsets
  BY <1>3 DEF Resume, Typed, TypeOK
<1> QED BY <1>2, <1>4

LEMMA CurrentTyped == ASSUME Typed, InHand PROVE Current \in Offsets
<1>1. position > 1
  BY DEF Typed, PositionSound
<1> QED BY <1>1, OffsetsTyped DEF Current, Offsets

LEMMA InitTyped == Init => Typed
<1> SUFFICES ASSUME Init PROVE Typed
  OBVIOUS
<1>1. None \in [Keys -> Nat]
  BY DEF None
<1>2. rows \in [Tables -> [Keys -> Nat]]
  BY <1>1 DEF Init
<1>3. /\ 0 \in 0..MaxOffset /\ 0 \in 0..(MaxOffset + 1)
      /\ 1 \in 1..(MaxOffset + 1) /\ 0 \in 0..MaxFaults /\ 0 \in 0..MaxStops
  BY ConsumerAssumption
<1>4. TypeOK
  BY <1>1, <1>2, <1>3 DEF Init, TypeOK, Steps
<1>5. PositionSound
  BY DEF Init, PositionSound, InHand
<1> QED BY <1>4, <1>5 DEF Typed

LEMMA FlushTyped ==
  ASSUME Typed, FlushBuffer
  PROVE  file' \in [Keys -> Nat] /\ buffer' \in [Keys -> Nat]
BY DEF Typed, TypeOK, FlushBuffer, None

(* Whatever is counted, the counts stay numbers. *)
LEMMA CountTyped ==
  ASSUME NEW f \in [Keys -> Nat], NEW e
  PROVE  [f EXCEPT ![e] = @ + 1] \in [Keys -> Nat]
<1>1. CASE e \in Keys
  BY <1>1
<1>2. CASE e \notin Keys
  <2>1. [f EXCEPT ![e] = @ + 1] = [k \in Keys |-> f[k]]
    BY <1>2
  <2> QED BY <2>1
<1> QED BY <1>1, <1>2

(* Every step keeps the types and the position sound. *)
LEMMA TypedStep == Typed /\ [Next]_vars => Typed'
<1> SUFFICES ASSUME Typed, [Next]_vars PROVE Typed'
  OBVIOUS
<1> USE ConsumerAssumption
<1>1. CASE Produce
  <2>1. /\ logEnd' \in 0..MaxOffset /\ position' <= logEnd' + 1
        /\ position' = position /\ committed' = committed
    BY <1>1, OffsetsTyped DEF Produce, process
  <2> QED
    BY <1>1, <2>1
       DEF Produce, Typed, TypeOK, PositionSound, InHand, process, stores,
           bounds, ghosts
<1>2. CASE Rebalance
  <2>1. Resume /\ UNCHANGED broker
    BY <1>2 DEF Rebalance, broker
  <2> QED
    BY <1>2, <2>1, ResumeTyped
       DEF Rebalance, Typed, TypeOK, PositionSound, InHand, broker, stores, bounds
<1>3. CASE Start
  <2>1. Resume /\ UNCHANGED broker
    BY <1>3 DEF Start, broker
  <2>2. /\ pc' = "poll" /\ seen' = {} /\ stopping' = FALSE
        /\ starts' = starts + 1 /\ UNCHANGED <<logEnd, stores, written>>
    BY <1>3 DEF Start, broker
  <2>3. profiling' \in BOOLEAN
    BY <1>3, Zenon DEF Start
  <2>4. faults' \in 0..MaxFaults /\ stops' \in 0..MaxStops
    <3>1. faults \in 0..MaxFaults /\ stops \in 0..MaxStops
      BY DEF Typed, TypeOK
    <3>2. UNCHANGED <<faults, stops>> \/ Fault
      BY <1>3 DEF Start, bounds
    <3> QED BY <3>1, <3>2 DEF Fault
  <2>5. starts' \in Nat
    BY <2>2 DEF Typed, TypeOK
  <2>6. TypeOK'
    BY <2>1, <2>2, <2>3, <2>4, <2>5, ResumeTyped
       DEF Typed, TypeOK, Steps, broker, stores
  <2>7. PositionSound'
    BY <2>1, <2>2, ResumeTyped DEF PositionSound, InHand
  <2> QED BY <2>6, <2>7 DEF Typed
<1>4. CASE Receive
  <2>1. /\ position \in Offsets /\ position' = position + 1
        /\ position' \in 1..(MaxOffset + 1) /\ position' > 1
        /\ position' <= logEnd + 1 /\ committed <= position'
    BY <1>4, OffsetsTyped DEF Receive, Offsets
  <2>2. seen' \in SUBSET Keys /\ pc' \in {"commit", "dataset"}
    BY <1>4, <2>1 DEF Receive, Keys, Typed, TypeOK
  <2> QED
    BY <1>4, <2>1, <2>2
       DEF Receive, Typed, TypeOK, PositionSound, InHand, Steps, broker, stores,
           bounds, ghosts
<1>5. CASE WriteDataset
  BY <1>5, CurrentTyped, CountTyped
     DEF WriteDataset, Goto, Typed, TypeOK, PositionSound, InHand, Steps,
         Tables, broker, bounds
<1>6. CASE WriteDatasetFails
  BY <1>6, CurrentTyped
     DEF WriteDatasetFails, Goto, Fault, Typed, TypeOK, PositionSound, InHand,
         Steps, broker, stores
<1>7. ASSUME NEW s \in Tables, Add(s)
      PROVE  Typed'
  <2>1. InHand /\ After[s] \in Steps \ {"down", "poll"}
    BY <1>7 DEF Add, InHand, Tables, Steps, After
  <2>2. rows' \in [Tables -> [Keys -> Nat]]
    <3>1. rows[s] \in [Keys -> Nat]
      BY DEF Typed, TypeOK
    <3>2. [rows[s] EXCEPT ![Event] = @ + 1] \in [Keys -> Nat]
      BY <3>1, CountTyped
    <3> QED BY <1>7, <3>2 DEF Add, Typed, TypeOK
  <2> QED
    BY <1>7, <2>1, <2>2
       DEF Add, Goto, Typed, TypeOK, PositionSound, InHand, broker, bounds, ghosts
<1>8. ASSUME NEW s \in Tables, AddFails(s)
      PROVE  Typed'
  <2>1. InHand /\ After[s] \in Steps \ {"down", "poll"}
    BY <1>8 DEF AddFails, InHand, Tables, Steps, After
  <2> QED
    BY <1>8, <2>1
       DEF AddFails, Goto, Fault, Typed, TypeOK, PositionSound, InHand, Steps,
           Tables, broker, stores, ghosts
<1>9. CASE Commit \/ CommitFails
  BY <1>9
     DEF Commit, CommitFails, Goto, Fault, Typed, TypeOK, PositionSound, InHand,
         Steps, broker, stores, bounds, ghosts
<1>10. CASE Flush
  BY <1>10, FlushTyped
     DEF Flush, Typed, TypeOK, PositionSound, InHand, broker, process, bounds, ghosts
<1>11. CASE Signal
  BY <1>11
     DEF Signal, Typed, TypeOK, PositionSound, InHand, broker, stores, ghosts
<1>12. CASE Exit
  BY <1>12, FlushTyped
     DEF Exit, Goto, Typed, TypeOK, PositionSound, InHand, Steps, broker, ghosts
<1>13. CASE Crash
  BY <1>13
     DEF Crash, Goto, Fault, None, Typed, TypeOK, PositionSound, InHand, Steps,
         broker, ghosts
<1>14. CASE UNCHANGED vars
  BY <1>14 DEF vars, Typed, TypeOK, PositionSound, InHand
<1> QED
  BY <1>1, <1>2, <1>3, <1>4, <1>5, <1>6, <1>7, <1>8, <1>9, <1>10, <1>11, <1>12,
     <1>13, <1>14
     DEF Next, Work

(* Every variable of the consumer stays within its type. *)
THEOREM TypeCorrect == Spec => []TypeOK
<1>1. Spec => []Typed
  BY InitTyped, TypedStep, PTL DEF Spec
<1> QED
  BY <1>1, PTL DEF Typed

-----------------------------------------------------------------------------
(* The commit. *)

(* A message the position has passed is settled, unless it is in hand and  *)
(* not yet written.                                                        *)
Unwritten(o) == pc = "dataset" /\ o = Current

PassedSettled ==
  pc # "down" => \A o \in Offsets : o < position => Unwritten(o) \/ Settled(o)

(* So is every message whose key the duplicate filter remembers. *)
SeenSettled ==
  pc # "down" => \A o \in Offsets : KeyOf[o] \in seen =>
                   \/ KeyOf[o] = KeyOf[Current] /\ pc = "dataset"
                   \/ Settled(o)

SettledInv == CommittedSettled /\ PassedSettled /\ SeenSettled

LEMMA InitSettled == Init => SettledInv
BY DEF Init, SettledInv, CommittedSettled, PassedSettled, SeenSettled, Offsets

(* What is settled stays settled, and what is written or excused settles   *)
(* its whole event.                                                        *)
LEMMA SettledStays ==
  ASSUME NEW o \in Offsets, Settled(o), [Next]_vars PROVE Settled(o)'
<1>1. written \subseteq written' /\ excused \subseteq excused'
  BY DEF Next, Work, Produce, Rebalance, Resume, Start, Receive, WriteDataset,
         WriteDatasetFails, Add, AddFails, Commit, CommitFails, Flush, Signal,
         Exit, Crash, vars, ghosts
<1> QED BY <1>1 DEF Settled, SameEvent

LEMMA EventSettled ==
  ASSUME NEW o \in Offsets, NEW p \in Offsets, KeyOf[o] = KeyOf[p],
         p \in written \cup excused
  PROVE  Settled(o)
BY DEF Settled, SameEvent

(* The group resumes at a position below which everything is settled. *)
LEMMA ResumeSettled ==
  ASSUME Typed, CommittedSettled, [Next]_vars, Resume,
         NEW o \in Offsets, o < position'
  PROVE  Settled(o)'
<1>1. CASE committed = 0
  <2>1. o \in excused'
    BY <1>1, OffsetsTyped DEF Resume, Offsets
  <2> QED BY <2>1 DEF Settled, SameEvent
<1>2. CASE committed # 0
  BY <1>2, SettledStays DEF Resume, CommittedSettled
<1> QED BY <1>1, <1>2

(* Every step keeps the passed, the remembered and the committed messages  *)
(* settled.                                                                *)
LEMMA SettledStep == Typed /\ SettledInv /\ [Next]_vars => SettledInv'
<1> SUFFICES ASSUME Typed, SettledInv, [Next]_vars PROVE SettledInv'
  OBVIOUS
<1>s. \A o \in Offsets : Settled(o) => Settled(o)'
  BY SettledStays
<1>k. /\ committed' = committed => CommittedSettled'
      /\ pc' # "dataset" => \A o \in Offsets : ~Unwritten(o)'
  BY <1>s DEF SettledInv, CommittedSettled, Unwritten
<1>f. ASSUME pc # "dataset" \/ pc' = "down", pc' # "dataset",
             UNCHANGED <<committed, position, seen>>, pc = "down" => pc' = "down"
      PROVE  SettledInv'
  BY <1>f, <1>s, <1>k
     DEF SettledInv, PassedSettled, SeenSettled, Unwritten, CommittedSettled
<1>1. CASE Produce \/ Flush \/ Signal \/ UNCHANGED vars
  <2>1. UNCHANGED <<committed, pc, position, seen, written, excused>>
    BY <1>1 DEF Produce, Flush, Signal, process, broker, ghosts, vars
  <2> QED
    BY <2>1, <1>s, <1>k
       DEF SettledInv, PassedSettled, SeenSettled, Unwritten, Current
<1>2. CASE Rebalance
  <2>1. /\ Resume /\ committed' = committed /\ pc = "poll" /\ pc' = "poll"
        /\ seen' = seen
    BY <1>2 DEF Rebalance, broker
  <2> QED
    BY <2>1, <1>s, <1>k, ResumeSettled
       DEF SettledInv, PassedSettled, SeenSettled, Typed
<1>3. CASE Start
  <2>1. /\ Resume /\ committed' = committed /\ pc' = "poll" /\ seen' = {}
    BY <1>3 DEF Start, broker
  <2> QED
    BY <2>1, <1>s, <1>k, ResumeSettled
       DEF SettledInv, PassedSettled, SeenSettled, Typed
<1>4. CASE Receive
  <2>1. /\ position \in Offsets /\ position' = position + 1
        /\ Current' = position /\ committed' = committed /\ pc = "poll"
    BY <1>4, OffsetsTyped DEF Receive, Offsets, Current, broker
  <2>2. \A o \in Offsets : o < position' => o < position \/ o = position
    BY <2>1, OffsetsTyped DEF Offsets
  <2>3. CASE KeyOf[position] \in seen \cup {Malformed}
    <3>1. pc' = "commit" /\ seen' = seen
      BY <1>4, <2>3 DEF Receive
    <3>2. Settled(position)
      BY <2>1, <2>3 DEF SettledInv, SeenSettled, Settled
    <3> QED
      BY <2>1, <2>2, <3>1, <3>2, <1>s, <1>k
         DEF SettledInv, PassedSettled, SeenSettled, Unwritten
  <2>4. CASE KeyOf[position] \notin seen \cup {Malformed}
    <3>1. pc' = "dataset" /\ seen' = seen \cup {KeyOf[position]}
      BY <1>4, <2>4 DEF Receive
    <3> QED
      BY <2>1, <2>2, <3>1, <1>s, <1>k
         DEF SettledInv, PassedSettled, SeenSettled, Unwritten
  <2> QED BY <2>3, <2>4
<1>5. CASE WriteDataset \/ WriteDatasetFails
  <2>1. /\ pc = "dataset" /\ pc' \notin {"dataset", "down"}
        /\ UNCHANGED <<committed, position, seen>>
        /\ Current \in written' \cup excused'
    BY <1>5 DEF WriteDataset, WriteDatasetFails, Goto, broker
  <2>2. \A o \in Offsets : KeyOf[o] = KeyOf[Current] => Settled(o)'
    BY <2>1, CurrentTyped DEF Settled, SameEvent, InHand
  <2> QED
    BY <2>1, <2>2, <1>s, <1>k
       DEF SettledInv, PassedSettled, SeenSettled, Unwritten
<1>6. CASE \E s \in Tables : Add(s) \/ AddFails(s)
  <2>1. PICK s \in Tables : Add(s) \/ AddFails(s)
    BY <1>6
  <2>2. /\ pc \notin {"dataset", "down"} /\ pc' # "dataset"
        /\ UNCHANGED <<committed, position, seen>>
    BY <2>1 DEF Add, AddFails, Tables, After, Goto, broker
  <2> QED BY <2>2, <1>f
<1>7. CASE Commit
  <2>1. /\ pc = "commit" /\ pc' = "poll" /\ committed' = position
        /\ UNCHANGED <<position, seen>>
    BY <1>7 DEF Commit, Goto
  <2> QED
    BY <2>1, <1>s, <1>k
       DEF SettledInv, CommittedSettled, PassedSettled, SeenSettled, Unwritten
<1>8. CASE CommitFails \/ Exit \/ Crash
  <2>1. /\ pc # "dataset" \/ pc' = "down"
        /\ pc' # "dataset" /\ (pc = "down" => pc' = "down")
        /\ UNCHANGED <<committed, position, seen>>
    BY <1>8 DEF CommitFails, Exit, Crash, Goto, broker
  <2> QED BY <2>1, <1>f
<1> QED
  BY <1>1, <1>2, <1>3, <1>4, <1>5, <1>6, <1>7, <1>8 DEF Next, Work

(* The committed offset never passes a message whose event was not         *)
(* written, was not malformed, did not raise and was published after the   *)
(* group first started.                                                    *)
THEOREM CommitsOnlySettled == Spec => []CommittedSettled
<1>1. Init => Typed /\ SettledInv
  BY InitTyped, InitSettled
<1>2. Typed /\ SettledInv /\ [Next]_vars => (Typed /\ SettledInv)'
  BY TypedStep, SettledStep
<1> QED
  BY <1>1, <1>2, PTL DEF Spec, SettledInv

-----------------------------------------------------------------------------
(* The event in hand. *)

Writing == {"dataset"} \cup Tables

(* An event is remembered while it is written. *)
EventRemembered == pc \in Writing => Event \in seen

LEMMA EventTyped == ASSUME Typed, EventRemembered, pc \in Writing PROVE Event \in Keys
BY DEF Typed, TypeOK, EventRemembered

(* Every step keeps the event in hand remembered. *)
LEMMA EventStep == Typed /\ EventRemembered /\ [Next]_vars => EventRemembered'
<1> SUFFICES ASSUME Typed, EventRemembered, [Next]_vars PROVE EventRemembered'
  OBVIOUS
<1> USE DEF EventRemembered, Writing, Tables, Event, Current
<1>1. CASE Produce \/ Flush \/ Signal \/ UNCHANGED vars
  BY <1>1 DEF Produce, Flush, Signal, process, vars
<1>2. CASE Rebalance \/ Start \/ Commit \/ CommitFails \/ Exit \/ Crash
  BY <1>2 DEF Rebalance, Start, Commit, CommitFails, Exit, Crash, Goto
<1>3. CASE Receive
  <2>1. CASE KeyOf[position] \in seen \cup {Malformed}
    BY <1>3, <2>1 DEF Receive
  <2>2. CASE KeyOf[position] \notin seen \cup {Malformed}
    <3>1. position' - 1 = position
      BY <1>3, OffsetsTyped DEF Receive
    <3> QED BY <1>3, <2>2, <3>1 DEF Receive
  <2> QED BY <2>1, <2>2
<1>4. CASE WriteDataset \/ WriteDatasetFails
  BY <1>4 DEF WriteDataset, WriteDatasetFails, Goto
<1>5. ASSUME NEW s \in Tables, Add(s) \/ AddFails(s) PROVE EventRemembered'
  BY <1>5 DEF Add, AddFails, Goto
<1> QED BY <1>1, <1>2, <1>3, <1>4, <1>5 DEF Next, Work

-----------------------------------------------------------------------------
(* The history and the domain profiles. *)

(* When the profile's turn comes the history is one query ahead of it. *)
HistoryAhead ==
  pc = "profiles" => rows["profiles"][Event] < rows["history"][Event]

FollowInv == EventRemembered /\ ProfilesFollowHistory /\ HistoryAhead

LEMMA InitFollow == Init => FollowInv
<1> SUFFICES ASSUME Init PROVE FollowInv
  OBVIOUS
<1>1. \A s \in Tables, k \in Keys : rows[s][k] = 0
  BY DEF Init, None
<1>2. "profiles" \in Tables /\ "history" \in Tables
  BY DEF Tables
<1>3. pc = "down"
  BY DEF Init
<1> QED
  BY <1>1, <1>2, <1>3
     DEF FollowInv, ProfilesFollowHistory, HistoryAhead, EventRemembered,
         Writing, Tables

(* Every step keeps the profiles behind the history. *)
LEMMA FollowStep == Typed /\ FollowInv /\ [Next]_vars => FollowInv'
<1> SUFFICES ASSUME Typed, FollowInv, [Next]_vars PROVE FollowInv'
  OBVIOUS
<1>t. "profiles" \in Tables /\ "history" \in Tables
  BY DEF Tables
<1>n. \A s \in Tables, k \in Keys : rows[s][k] \in Nat
  BY DEF Typed, TypeOK
<1>e. EventRemembered'
  BY EventStep DEF FollowInv
<1>f. ASSUME rows' = rows, pc' # "profiles" \/ UNCHANGED <<pc, position>>
      PROVE  FollowInv'
  BY <1>e, <1>f DEF FollowInv, ProfilesFollowHistory, HistoryAhead, Event, Current
<1>1. CASE Produce \/ Flush \/ Signal \/ UNCHANGED vars
  <2>1. UNCHANGED <<rows, pc, position>>
    BY <1>1 DEF Produce, Flush, Signal, process, stores, vars
  <2> QED BY <2>1, <1>f
<1>2. CASE \/ Rebalance \/ Start \/ Receive \/ WriteDataset \/ WriteDatasetFails
           \/ Commit \/ CommitFails \/ Exit \/ Crash
  <2>1. rows' = rows /\ pc' # "profiles"
    BY <1>2 DEF Rebalance, Start, Receive, WriteDataset, WriteDatasetFails,
       Commit, CommitFails, Exit, Crash, Goto, stores
  <2> QED BY <2>1, <1>f
<1>3. ASSUME NEW s \in Tables, AddFails(s) PROVE FollowInv'
  <2>1. rows' = rows /\ pc' # "profiles"
    BY <1>3 DEF AddFails, Goto, After, Tables, stores
  <2> QED BY <2>1, <1>f
<1>4. ASSUME NEW s \in Tables, Add(s) PROVE FollowInv'
  <2>1. /\ pc = s /\ pc' = After[s] /\ Event' = Event
        /\ Event \in Keys
    BY <1>4, EventTyped DEF Add, Goto, Event, Current, FollowInv, Writing
  <2>2. \A u \in Tables, k \in Keys :
          rows'[u][k] = IF u = s /\ k = Event THEN rows[u][k] + 1 ELSE rows[u][k]
    BY <1>4, <2>1 DEF Add, Typed, TypeOK
  <2>3. ProfilesFollowHistory'
    BY <2>1, <2>2, <1>t, <1>n DEF FollowInv, ProfilesFollowHistory, HistoryAhead
  <2>4. HistoryAhead'
    <3>1. After[s] = "profiles" => s = "history"
      BY DEF After, Tables
    <3> QED
      BY <2>1, <2>2, <3>1, <1>t, <1>n
         DEF FollowInv, ProfilesFollowHistory, HistoryAhead
  <2> QED BY <1>e, <2>3, <2>4 DEF FollowInv
<1> QED BY <1>1, <1>2, <1>3, <1>4 DEF Next, Work

(* No profile ever counts a query that is not in the history. *)
THEOREM ProfilesStayBehind == Spec => []ProfilesFollowHistory
<1>1. Init => Typed /\ FollowInv
  BY InitTyped, InitFollow
<1>2. Typed /\ FollowInv /\ [Next]_vars => (Typed /\ FollowInv)'
  BY TypedStep, FollowStep
<1> QED
  BY <1>1, <1>2, PTL DEF Spec, FollowInv

-----------------------------------------------------------------------------
(* Counted once. *)

(* The steps at which the table has still to take the event in hand. *)
Upto == [s \in Tables |->
  CASE s = "history" -> {"dataset", "history"}
    [] s = "profiles" -> {"dataset", "history", "profiles"}
    [] s = "clients" -> {"dataset", "history", "profiles", "clients"}
    [] s = "features" -> Writing]

(* This life has not counted the event in the table, or in the dataset:    *)
(* the filter does not know it, or it is in hand and the turn of the store *)
(* has not come.                                                           *)
Uncounted(s, k) == k \notin seen \/ (pc \in Upto[s] /\ k = Event)
Unrecorded(k) == k \notin seen \/ (pc = "dataset" /\ k = Event)

(* Such an event was counted in earlier lives only. *)
EarlierOnly ==
  pc # "down" => \A k \in Keys :
    /\ Unrecorded(k) => file[k] + buffer[k] < starts
    /\ \A s \in Tables : Uncounted(s, k) => rows[s][k] < starts

OnceInv == EventRemembered /\ CountedOncePerLife /\ EarlierOnly

LEMMA InitOnce == Init => OnceInv
<1> SUFFICES ASSUME Init PROVE OnceInv
  OBVIOUS
<1>1. /\ pc = "down" /\ starts = 0
      /\ \A k \in Keys : file[k] = 0 /\ buffer[k] = 0
      /\ \A k \in Keys, s \in Tables : rows[s][k] = 0
  BY DEF Init, None
<1> QED
  BY <1>1
     DEF OnceInv, CountedOncePerLife, EarlierOnly, EventRemembered, Writing, Tables

(* The buffer is written out without a change to what is in both.          *)
LEMMA FlushKeeps ==
  ASSUME Typed, FlushBuffer, NEW k \in Keys
  PROVE  file'[k] + buffer'[k] = file[k] + buffer[k]
<1>1. file'[k] = file[k] + buffer[k] /\ buffer'[k] = 0
  BY DEF FlushBuffer, None
<1>2. file[k] \in Nat /\ buffer[k] \in Nat
  BY DEF Typed, TypeOK
<1> QED BY <1>1, <1>2

(* Every step counts an event only if this life has not counted it yet.    *)
LEMMA OnceStep == Typed /\ OnceInv /\ [Next]_vars => OnceInv'
<1> SUFFICES ASSUME Typed, OnceInv, [Next]_vars PROVE OnceInv'
  OBVIOUS
<1>e. EventRemembered'
  BY EventStep DEF OnceInv
<1>n. /\ starts \in Nat
      /\ \A k \in Keys : file[k] \in Nat /\ buffer[k] \in Nat
      /\ \A k \in Keys, s \in Tables : rows[s][k] \in Nat
  BY DEF Typed, TypeOK
(* A step that counts nothing and leaves no event uncounted that it found  *)
(* counted.                                                                *)
<1>f. ASSUME UNCHANGED <<starts, rows>>,
             \A k \in Keys : file'[k] + buffer'[k] <= file[k] + buffer[k],
             \A k \in Keys : file'[k] + buffer'[k] \in Nat,
             pc = "down" => pc' = "down",
             pc' # "down" => \A k \in Keys :
               /\ Unrecorded(k)' => Unrecorded(k)
               /\ \A s \in Tables : Uncounted(s, k)' => Uncounted(s, k)
      PROVE  OnceInv'
  <2>1. CountedOncePerLife'
    BY <1>f, <1>n DEF OnceInv, CountedOncePerLife
  <2>2. EarlierOnly'
    BY <1>f, <1>n DEF OnceInv, EarlierOnly
  <2> QED BY <1>e, <2>1, <2>2 DEF OnceInv
<1>1. CASE Produce \/ Flush \/ Signal \/ UNCHANGED vars
  <2>1. UNCHANGED <<starts, rows, pc, position, seen>>
    BY <1>1 DEF Produce, Flush, Signal, process, stores, ghosts, vars
  <2>2. FlushBuffer \/ UNCHANGED <<file, buffer>>
    BY <1>1 DEF Produce, Flush, Signal, stores, vars
  <2>3. \A k \in Keys : file'[k] + buffer'[k] = file[k] + buffer[k]
    BY <2>2, FlushKeeps
  <2> QED
    BY <1>f, <1>n, <2>1, <2>3 DEF Unrecorded, Uncounted, Event, Current
<1>2. CASE Rebalance \/ Commit \/ CommitFails
  <2>1. /\ UNCHANGED <<starts, rows, file, buffer, seen>>
        /\ pc \in {"poll", "commit"} /\ pc' = "poll"
    BY <1>2 DEF Rebalance, Commit, CommitFails, Goto, stores, ghosts
  <2>2. \A s \in Tables : "poll" \notin Upto[s]
    BY DEF Upto, Tables, Writing
  <2> QED BY <1>f, <1>n, <2>1, <2>2 DEF Unrecorded, Uncounted
<1>3. CASE Start
  <2>1. /\ UNCHANGED <<rows, file, buffer>> /\ starts' = starts + 1
    BY <1>3 DEF Start, stores
  <2> QED
    BY <1>e, <1>n, <2>1 DEF OnceInv, CountedOncePerLife, EarlierOnly
<1>4. CASE Receive
  <2>1. /\ UNCHANGED <<starts, rows, file, buffer>> /\ pc = "poll"
        /\ Event' = KeyOf[position]
    <3>1. position' - 1 = position
      BY <1>4, OffsetsTyped DEF Receive
    <3> QED BY <1>4, <3>1 DEF Receive, stores, ghosts, Event, Current
  <2>2. CASE KeyOf[position] \in seen \cup {Malformed}
    <3>1. pc' = "commit" /\ seen' = seen
      BY <1>4, <2>2 DEF Receive
    <3>2. \A s \in Tables : "commit" \notin Upto[s]
      BY DEF Upto, Tables, Writing
    <3> QED BY <1>f, <1>n, <2>1, <3>1, <3>2 DEF Unrecorded, Uncounted
  <2>3. CASE KeyOf[position] \notin seen \cup {Malformed}
    <3>1. seen' = seen \cup {KeyOf[position]} /\ pc' = "dataset"
      BY <1>4, <2>3 DEF Receive
    <3> QED BY <1>f, <1>n, <2>1, <2>3, <3>1 DEF Unrecorded, Uncounted
  <2> QED BY <2>2, <2>3
<1>5. CASE WriteDataset
  <2>1. /\ UNCHANGED <<starts, rows, file, seen>> /\ pc = "dataset"
        /\ pc' \in {"history", "features"} /\ Event' = Event /\ Event \in Keys
        /\ Event \in seen
    BY <1>5, EventTyped
       DEF WriteDataset, Goto, ghosts, Event, Current, OnceInv, EventRemembered, Writing
  <2>2. \A k \in Keys : buffer'[k] = IF k = Event THEN buffer[k] + 1 ELSE buffer[k]
    BY <1>5 DEF WriteDataset, Typed, TypeOK
  <2>3. file[Event] + buffer[Event] < starts
    BY <2>1 DEF OnceInv, EarlierOnly, Unrecorded
  <2>4. CountedOncePerLife'
    BY <1>n, <2>1, <2>2, <2>3 DEF OnceInv, CountedOncePerLife
  <2>5. \A s \in Tables, k \in Keys : Uncounted(s, k)' => Uncounted(s, k)
    BY <2>1 DEF Uncounted, Upto, Tables, Writing
  <2>6. \A k \in Keys : Unrecorded(k)' => Unrecorded(k) /\ k # Event
    BY <2>1 DEF Unrecorded
  <2>7. EarlierOnly'
    BY <2>1, <2>2, <2>5, <2>6 DEF OnceInv, EarlierOnly
  <2> QED BY <1>e, <2>4, <2>7 DEF OnceInv
<1>6. CASE WriteDatasetFails
  <2>1. /\ UNCHANGED <<starts, rows, file, buffer, seen>>
        /\ pc = "dataset" /\ pc' = "poll"
    BY <1>6 DEF WriteDatasetFails, Goto, stores
  <2>2. \A s \in Tables : "poll" \notin Upto[s]
    BY DEF Upto, Tables, Writing
  <2> QED BY <1>f, <1>n, <2>1, <2>2 DEF Unrecorded, Uncounted
<1>7. ASSUME NEW s \in Tables, Add(s) PROVE OnceInv'
  <2>1. /\ UNCHANGED <<starts, file, buffer, seen>> /\ pc = s /\ pc' = After[s]
        /\ Event' = Event /\ Event \in Keys /\ Event \in seen
    BY <1>7, EventTyped
       DEF Add, Goto, ghosts, Event, Current, OnceInv, EventRemembered, Writing
  <2>2. \A u \in Tables, k \in Keys :
          rows'[u][k] = IF u = s /\ k = Event THEN rows[u][k] + 1 ELSE rows[u][k]
    BY <1>7, <2>1 DEF Add, Typed, TypeOK
  <2>3. s \in Upto[s] /\ s # "down"
    BY DEF Upto, Tables, Writing
  <2>4. rows[s][Event] < starts
    BY <2>1, <2>3 DEF OnceInv, EarlierOnly, Uncounted
  <2>5. CountedOncePerLife'
    BY <1>n, <2>1, <2>2, <2>4 DEF OnceInv, CountedOncePerLife
  <2>6. \A u \in Tables, k \in Keys :
          Uncounted(u, k)' => Uncounted(u, k) /\ ~(u = s /\ k = Event)
    <3>1. \A u \in Tables : After[s] \in Upto[u] => s \in Upto[u] /\ u # s
      BY DEF After, Upto, Tables, Writing
    <3> QED BY <2>1, <3>1 DEF Uncounted
  <2>7. \A k \in Keys : Unrecorded(k)' => Unrecorded(k)
    <3>1. After[s] # "dataset"
      BY DEF After, Tables
    <3> QED BY <2>1, <3>1 DEF Unrecorded
  <2>8. EarlierOnly'
    BY <2>1, <2>2, <2>3, <2>6, <2>7 DEF OnceInv, EarlierOnly
  <2> QED BY <1>e, <2>5, <2>8 DEF OnceInv
<1>8. ASSUME NEW s \in Tables, AddFails(s) PROVE OnceInv'
  <2>1. /\ UNCHANGED <<starts, rows, file, buffer, seen>> /\ Event' = Event
        /\ pc = s /\ pc' = IF s = "history" THEN "clients" ELSE After[s]
    BY <1>8 DEF AddFails, Goto, stores, ghosts, Event, Current
  <2>2. \A u \in Tables : pc' \in Upto[u] => s \in Upto[u]
    BY <2>1 DEF After, Upto, Tables, Writing
  <2>3. pc' # "dataset" /\ pc # "down"
    BY <2>1 DEF After, Tables
  <2> QED BY <1>f, <1>n, <2>1, <2>2, <2>3 DEF Unrecorded, Uncounted
<1>9. CASE Exit
  <2>1. /\ UNCHANGED <<starts, rows>> /\ FlushBuffer /\ pc' = "down"
    BY <1>9 DEF Exit, Goto, ghosts
  <2>2. \A k \in Keys : file'[k] + buffer'[k] = file[k] + buffer[k]
    BY <2>1, FlushKeeps
  <2> QED BY <1>f, <1>n, <2>1, <2>2
<1>10. CASE Crash
  <2>1. /\ UNCHANGED <<starts, rows, file>> /\ pc' = "down"
        /\ \A k \in Keys : buffer'[k] = 0
    BY <1>10 DEF Crash, Goto, None, ghosts
  <2> QED BY <1>f, <1>n, <2>1
<1> QED
  BY <1>1, <1>2, <1>3, <1>4, <1>5, <1>6, <1>7, <1>8, <1>9, <1>10 DEF Next, Work

(* However often a message comes again within one life of the process, no  *)
(* store counts its event twice in that life.                              *)
THEOREM EventsCountOncePerLife == Spec => []CountedOncePerLife
<1>1. Init => Typed /\ OnceInv
  BY InitTyped, InitOnce
<1>2. Typed /\ OnceInv /\ [Next]_vars => (Typed /\ OnceInv)'
  BY TypedStep, OnceStep
<1> QED
  BY <1>1, <1>2, PTL DEF Spec, OnceInv

-----------------------------------------------------------------------------
(* Client profiles: the inductive invariant. *)

Holding == {"history", "commit"}   \* the stages with the profile locked

(* One writer at a time holds a profile. *)
OneHolder ==
  \A v, w \in Writers :
    stage[v] \in Holding /\ stage[w] \in Holding /\ Client(v) = Client(w) => v = w

(* What a query is about to add to is not being deleted, and whether its   *)
(* domain is new has not changed since it looked.                          *)
QuerySound ==
  \A w \in Writers :
    /\ stage[w] \in Holding => Client(w) \notin goneProfiles
    /\ stage[w] = "commit" => /\ Row(w) \notin goneRows
                              /\ isNew[w] = (history[Row(w)] = NoRow)

(* The cleanup lists rows first, then profiles. *)
ListSound ==
  /\ cleaner = "idle" => listed = {} /\ goneRows = {} /\ goneProfiles = {}
  /\ cleaner = "history" => listed \subseteq Rows /\ goneProfiles = {}
  /\ cleaner = "profiles" => listed \subseteq Clients
  /\ cleaner # "profiles" => overtaken = {}

(* The cleanup has deleted rows that exist, and only old ones unless a     *)
(* query has overtaken it; a profile goes with all its rows, and only a    *)
(* query can have given a listed profile a row that is not deleted.        *)
GoneSound ==
  /\ \A x \in goneRows : history[x] # NoRow /\ (Old(x) \/ x[1] \in overtaken)
  /\ \A c \in goneProfiles : RowsOf(c) \subseteq goneRows
  /\ cleaner = "profiles" => \A c \in listed \ overtaken : RowsOf(c) \subseteq goneRows

RowsVisited == \A x \in Rows : history[x] # NoRow => history[x].visits > 0

LocksInv ==
  CPTypeOK /\ OneHolder /\ QuerySound /\ ListSound /\ GoneSound /\ RowsVisited

LEMMA NoRowTyped ==
  NoRow \in Visits /\ NoProfile \in Profiles /\ Nothing \in [visits : Nat, rows : Nat]
BY DEF NoRow, Visits, Ages, NoProfile, Profiles, Nothing

LEMMA InitLocks == CPInit => LocksInv
<1> SUFFICES ASSUME CPInit PROVE LocksInv
  OBVIOUS
<1>1. event \in [Writers -> Events]
  <2>1. PICK c \in Clients, d \in Domains : TRUE
    BY ProfilesAssumption
  <2>2. [row |-> <<c, d>>, age |-> "old"] \in Events
    BY DEF Events, Rows, Ages
  <2>3. (CHOOSE e \in Events : TRUE) \in Events
    BY <2>2
  <2> QED BY <2>3 DEF CPInit
<1>2. CPTypeOK
  BY <1>1, NoRowTyped, ProfilesAssumption DEF CPInit, CPTypeOK
<1>3. OneHolder /\ QuerySound /\ ListSound /\ GoneSound /\ RowsVisited
  BY DEF CPInit, OneHolder, QuerySound, ListSound, GoneSound, RowsVisited, Holding
<1> QED BY <1>2, <1>3 DEF LocksInv

(* The types of a query. *)
LEMMA QueryTyped ==
  ASSUME CPTypeOK, NEW w \in Writers
  PROVE  /\ Row(w) \in Rows /\ Client(w) \in Clients /\ event[w].age \in Ages
         /\ isNew[w] \in BOOLEAN
BY DEF CPTypeOK, Events, Row, Client, Rows

LEMMA FailureBounded ==
  ASSUME CPTypeOK, Failure PROVE failures' \in 0..MaxFailures
BY ProfilesAssumption DEF CPTypeOK, Failure

(* What a visit makes of a row. *)
LEMMA VisitedTyped ==
  ASSUME NEW v \in Visits, NEW a \in Ages
  PROVE  Visited(v, a) \in Visits /\ Visited(v, a).visits = v.visits + 1
         /\ Visited(v, a) # NoRow
BY DEF Visited, Visits, NoRow

(* A transaction that ends without effect gives up its locks. *)
LEMMA RollbackKeeps ==
  ASSUME LocksInv, NEW w \in Writers, Rollback(w), failures' \in 0..MaxFailures
  PROVE  LocksInv'
<1>1. /\ UNCHANGED <<profile, history, forgotten, event, cleaner, listed, goneRows,
                    goneProfiles, queries, overtaken>>
      /\ stage' = [stage EXCEPT ![w] = "idle"]
      /\ isNew' = [isNew EXCEPT ![w] = FALSE]
  BY DEF Rollback, Enter, tables, cleanup
<1>2. CPTypeOK'
  BY <1>1 DEF LocksInv, CPTypeOK
<1>3. OneHolder'
  BY <1>1 DEF LocksInv, CPTypeOK, OneHolder, Holding, Client, Row
<1>4. QuerySound'
  BY <1>1 DEF LocksInv, CPTypeOK, QuerySound, Holding, Client, Row
<1>5. ListSound' /\ GoneSound' /\ RowsVisited'
  BY <1>1 DEF LocksInv, ListSound, GoneSound, RowsVisited, RowsOf, Old
<1> QED BY <1>2, <1>3, <1>4, <1>5 DEF LocksInv

LEMMA RollbackCleanupKeeps ==
  ASSUME LocksInv, RollbackCleanup, failures' \in 0..MaxFailures
  PROVE  LocksInv'
<1>1. /\ UNCHANGED <<profile, history, forgotten, stage, event, isNew, queries>>
      /\ cleaner' = "idle" /\ listed' = {} /\ goneRows' = {} /\ goneProfiles' = {}
      /\ overtaken' = {}
  BY DEF RollbackCleanup, Cleaner, tables, writers
<1>2. CPTypeOK' /\ ListSound' /\ GoneSound'
  BY <1>1 DEF LocksInv, CPTypeOK, ListSound, GoneSound
<1>3. OneHolder' /\ QuerySound' /\ RowsVisited'
  BY <1>1 DEF LocksInv, OneHolder, QuerySound, RowsVisited, Holding, Client, Row
<1> QED BY <1>2, <1>3 DEF LocksInv

(* process_query. *)
LEMMA BeginKeeps ==
  ASSUME LocksInv, NEW w \in Writers, Begin(w) PROVE LocksInv'
<1>1. /\ UNCHANGED <<profile, history, forgotten, isNew, cleaner, listed, goneRows,
                    goneProfiles, failures, overtaken>>
      /\ stage[w] = "idle" /\ stage' = [stage EXCEPT ![w] = "profile"]
      /\ queries < MaxQueries /\ queries' = queries + 1
  BY DEF Begin, Enter, tables, cleanup
<1>2. PICK e \in Events : event' = [event EXCEPT ![w] = e]
  BY DEF Begin
<1>3. queries' \in 0..MaxQueries
  BY <1>1, ProfilesAssumption DEF LocksInv, CPTypeOK
<1>4. CPTypeOK'
  BY <1>1, <1>2, <1>3 DEF LocksInv, CPTypeOK
<1>5. \A v \in Writers : stage'[v] \in Holding =>
        v # w /\ stage'[v] = stage[v] /\ event'[v] = event[v]
  BY <1>1, <1>2 DEF LocksInv, CPTypeOK, Holding
<1>6. OneHolder' /\ QuerySound'
  BY <1>1, <1>5 DEF LocksInv, OneHolder, QuerySound, Holding, Client, Row
<1>7. ListSound' /\ GoneSound' /\ RowsVisited'
  BY <1>1 DEF LocksInv, ListSound, GoneSound, RowsVisited, RowsOf, Old
<1> QED BY <1>4, <1>6, <1>7 DEF LocksInv

LEMMA UpsertProfileKeeps ==
  ASSUME LocksInv, NEW w \in Writers, UpsertProfile(w) PROVE LocksInv'
<1>1. /\ UNCHANGED <<profile, history, forgotten, event, isNew, cleaner, listed,
                    goneRows, goneProfiles, queries, failures, overtaken>>
      /\ stage' = [stage EXCEPT ![w] = "history"]
      /\ \A v \in Writers : ~HoldsProfile(v, Client(w))
      /\ Client(w) \notin goneProfiles
  BY DEF UpsertProfile, Enter, tables, cleanup
<1>2. CPTypeOK'
  BY <1>1 DEF LocksInv, CPTypeOK
<1>3. OneHolder'
  BY <1>1 DEF LocksInv, CPTypeOK, OneHolder, HoldsProfile, Holding, Client, Row
<1>4. QuerySound'
  BY <1>1 DEF LocksInv, CPTypeOK, QuerySound, Holding, Client, Row
<1>5. ListSound' /\ GoneSound' /\ RowsVisited'
  BY <1>1 DEF LocksInv, ListSound, GoneSound, RowsVisited, RowsOf, Old
<1> QED BY <1>2, <1>3, <1>4, <1>5 DEF LocksInv

LEMMA UpsertHistoryKeeps ==
  ASSUME LocksInv, NEW w \in Writers, UpsertHistory(w) PROVE LocksInv'
<1>1. /\ UNCHANGED <<profile, history, forgotten, event, cleaner, listed,
                    goneRows, goneProfiles, queries, failures, overtaken>>
      /\ stage[w] = "history" /\ stage' = [stage EXCEPT ![w] = "commit"]
      /\ isNew' = [isNew EXCEPT ![w] = (history[Row(w)] = NoRow)]
      /\ Row(w) \notin goneRows
  BY DEF UpsertHistory, Enter, tables, cleanup
<1>2. isNew' \in [Writers -> BOOLEAN]
  BY <1>1, Zenon DEF LocksInv, CPTypeOK
<1>3. CPTypeOK'
  BY <1>1, <1>2 DEF LocksInv, CPTypeOK
<1>4. \A v \in Writers : stage'[v] \in Holding => stage[v] \in Holding
  BY <1>1 DEF LocksInv, CPTypeOK, Holding
<1>5. OneHolder'
  BY <1>1, <1>4 DEF LocksInv, OneHolder, Client, Row
<1>6. QuerySound'
  <2> SUFFICES ASSUME NEW v \in Writers
               PROVE  /\ stage'[v] \in Holding => Client(v) \notin goneProfiles
                      /\ stage'[v] = "commit" => /\ Row(v) \notin goneRows
                                                 /\ isNew'[v] = (history[Row(v)] = NoRow)
    BY <1>1 DEF QuerySound, Client, Row
  <2>1. stage'[v] \in Holding => Client(v) \notin goneProfiles
    BY <1>4 DEF LocksInv, QuerySound
  <2>2. CASE v = w
    <3>1. isNew'[v] = (history[Row(v)] = NoRow)
      BY <1>1, <2>2, Zenon DEF LocksInv, CPTypeOK
    <3> QED BY <1>1, <2>1, <2>2, <3>1, Zenon
  <2>3. CASE v # w
    <3>1. stage'[v] = stage[v] /\ isNew'[v] = isNew[v]
      BY <1>1, <2>3 DEF LocksInv, CPTypeOK
    <3> QED BY <2>1, <3>1, Zenon DEF LocksInv, QuerySound
  <2> QED BY <2>2, <2>3
<1>7. ListSound' /\ GoneSound' /\ RowsVisited'
  BY <1>1 DEF LocksInv, ListSound, GoneSound, RowsVisited, RowsOf, Old
<1> QED BY <1>3, <1>5, <1>6, <1>7 DEF LocksInv

(* The commit of a query adds a visit to one row, which nobody deletes.    *)
LEMMA CommitQueryHistory ==
  ASSUME LocksInv, NEW w \in Writers, CommitQuery(w)
  PROVE  /\ Row(w) \in Rows /\ Row(w) \notin goneRows
         /\ Client(w) = Row(w)[1] /\ Client(w) \in Clients
         /\ history' \in [Rows -> Visits]
         /\ history'[Row(w)] # NoRow
         /\ history'[Row(w)].visits = history[Row(w)].visits + 1
         /\ \A x \in Rows : x # Row(w) => history'[x] = history[x]
         /\ UNCHANGED <<goneRows, goneProfiles, listed, cleaner>>
<1>1. /\ Row(w) \in Rows /\ Client(w) \in Clients /\ event[w].age \in Ages
  BY QueryTyped DEF LocksInv
<1>2. history[Row(w)] \in Visits
  BY <1>1 DEF LocksInv, CPTypeOK
<1>3. history' = [history EXCEPT ![Row(w)] = Visited(history[Row(w)], event[w].age)]
  BY DEF CommitQuery
<1>4. /\ Visited(history[Row(w)], event[w].age) \in Visits
      /\ Visited(history[Row(w)], event[w].age) # NoRow
      /\ Visited(history[Row(w)], event[w].age).visits = history[Row(w)].visits + 1
  BY <1>1, <1>2, VisitedTyped
<1>5. /\ stage[w] = "commit" /\ UNCHANGED <<goneRows, goneProfiles, listed, cleaner>>
  BY DEF CommitQuery, cleanup
<1>6. Row(w) \notin goneRows
  BY <1>5 DEF LocksInv, QuerySound
<1>7. /\ history'[Row(w)] = Visited(history[Row(w)], event[w].age)
      /\ \A x \in Rows : x # Row(w) => history'[x] = history[x]
      /\ history' \in [Rows -> Visits]
  BY <1>1, <1>3, <1>4 DEF LocksInv, CPTypeOK
<1> QED BY <1>1, <1>4, <1>5, <1>6, <1>7 DEF Client

LEMMA CountedTyped ==
  ASSUME NEW p \in Profiles, NEW new \in BOOLEAN
  PROVE  /\ Counted(p, new) \in Profiles
         /\ Counted(p, new).total = p.total + 1
         /\ Counted(p, new).unique = p.unique + IF new THEN 1 ELSE 0
BY DEF Counted, Profiles

LEMMA CommitQueryKeeps ==
  ASSUME LocksInv, NEW w \in Writers, CommitQuery(w) PROVE LocksInv'
<1>h. /\ Row(w) \in Rows /\ Row(w) \notin goneRows
      /\ Client(w) = Row(w)[1] /\ Client(w) \in Clients
      /\ history' \in [Rows -> Visits]
      /\ history'[Row(w)] # NoRow
      /\ history'[Row(w)].visits = history[Row(w)].visits + 1
      /\ \A x \in Rows : x # Row(w) => history'[x] = history[x]
  BY CommitQueryHistory
<1>1. /\ UNCHANGED <<forgotten, event, cleaner, listed, goneRows, goneProfiles,
                    queries, failures>>
      /\ stage[w] = "commit" /\ stage' = [stage EXCEPT ![w] = "idle"]
      /\ isNew' = [isNew EXCEPT ![w] = FALSE]
      /\ profile' = [profile EXCEPT ![Client(w)] = Counted(@, isNew[w])]
      /\ overtaken' = IF cleaner = "profiles" THEN overtaken \cup {Client(w)}
                                              ELSE overtaken
  BY DEF CommitQuery, Enter, cleanup
<1>2. profile' \in [Clients -> Profiles]
  <2>1. profile[Client(w)] \in Profiles /\ isNew[w] \in BOOLEAN
    BY <1>h DEF LocksInv, CPTypeOK
  <2>2. Counted(profile[Client(w)], isNew[w]) \in Profiles
    BY <2>1, CountedTyped
  <2> QED BY <1>1, <1>h, <2>2 DEF LocksInv, CPTypeOK
<1>3. isNew' \in [Writers -> BOOLEAN]
  BY <1>1, Zenon DEF LocksInv, CPTypeOK
<1>4. overtaken' \in SUBSET Clients /\ overtaken \subseteq overtaken'
  BY <1>1, <1>h DEF LocksInv, CPTypeOK
<1>5. CPTypeOK'
  BY <1>1, <1>2, <1>3, <1>4, <1>h DEF LocksInv, CPTypeOK
(* The others who hold a profile hold another one. *)
<1>6. \A v \in Writers : stage'[v] \in Holding =>
        /\ v # w /\ stage'[v] = stage[v] /\ isNew'[v] = isNew[v]
        /\ Row(v) # Row(w) /\ Row(v) \in Rows
  <2> SUFFICES ASSUME NEW v \in Writers, stage'[v] \in Holding
               PROVE  /\ v # w /\ stage'[v] = stage[v] /\ isNew'[v] = isNew[v]
                      /\ Row(v) # Row(w) /\ Row(v) \in Rows
    OBVIOUS
  <2>1. v # w
    BY <1>1 DEF LocksInv, CPTypeOK, Holding
  <2>2. stage'[v] = stage[v] /\ isNew'[v] = isNew[v]
    BY <1>1, <2>1 DEF LocksInv, CPTypeOK
  <2>3. Client(v) # Client(w)
    BY <1>1, <2>1, <2>2 DEF LocksInv, OneHolder, Holding
  <2> QED BY <2>1, <2>2, <2>3, QueryTyped DEF Client, LocksInv
<1>7. OneHolder'
  BY <1>1, <1>6 DEF LocksInv, OneHolder, Client, Row
<1>8. QuerySound'
  <2> SUFFICES ASSUME NEW v \in Writers, stage'[v] \in Holding
               PROVE  /\ Client(v) \notin goneProfiles
                      /\ stage'[v] = "commit" => /\ Row(v) \notin goneRows
                                                 /\ isNew'[v] = (history'[Row(v)] = NoRow)
    BY <1>1 DEF QuerySound, Client, Row, Holding
  <2>1. /\ stage'[v] = stage[v] /\ isNew'[v] = isNew[v]
        /\ history'[Row(v)] = history[Row(v)]
    BY <1>6, <1>h
  <2> QED BY <2>1, Zenon DEF LocksInv, QuerySound
<1>9. ListSound'
  BY <1>1 DEF LocksInv, ListSound
<1>10. GoneSound'
  <2>1. \A x \in goneRows : history'[x] = history[x]
    BY <1>h DEF LocksInv, CPTypeOK
  <2>2. \A c \in Clients : c # Client(w) => RowsOf(c)' = RowsOf(c)
    BY <1>h DEF RowsOf
  <2>3. \A x \in goneRows : history'[x] # NoRow /\ (Old(x)' \/ x[1] \in overtaken')
    BY <2>1, <1>4 DEF LocksInv, GoneSound, Old
  <2>4. \A c \in goneProfiles : RowsOf(c)' \subseteq goneRows
    <3>1. Client(w) \notin goneProfiles
      BY <1>1 DEF LocksInv, QuerySound, Holding
    <3> QED BY <3>1, <2>2 DEF LocksInv, GoneSound, CPTypeOK
  <2>5. cleaner = "profiles" =>
          \A c \in listed \ overtaken' : RowsOf(c)' \subseteq goneRows
    <3>1. cleaner = "profiles" => Client(w) \in overtaken' /\ listed \subseteq Clients
      BY <1>1 DEF LocksInv, ListSound
    <3> QED BY <3>1, <2>2, <1>4 DEF LocksInv, GoneSound
  <2> QED BY <1>1, <2>3, <2>4, <2>5 DEF GoneSound
<1>11. RowsVisited'
  <2>1. history[Row(w)].visits \in Nat
    BY <1>h DEF LocksInv, CPTypeOK, Visits
  <2> QED BY <1>h, <2>1 DEF LocksInv, RowsVisited
<1> QED BY <1>5, <1>7, <1>8, <1>9, <1>10, <1>11 DEF LocksInv

(* cleanup_old_records. *)
LEMMA BeginCleanupKeeps == ASSUME LocksInv, BeginCleanup PROVE LocksInv'
<1>1. /\ UNCHANGED <<profile, history, forgotten, stage, event, isNew, queries,
                    failures, overtaken>>
      /\ cleaner = "idle" /\ cleaner' = "history" /\ goneRows' = {}
      /\ goneProfiles' = {} /\ listed' = {x \in Rows : Old(x)}
  BY DEF BeginCleanup, Cleaner, tables, writers
<1>2. CPTypeOK' /\ ListSound' /\ GoneSound'
  BY <1>1 DEF LocksInv, CPTypeOK, ListSound, GoneSound
<1>3. OneHolder' /\ QuerySound' /\ RowsVisited'
  BY <1>1 DEF LocksInv, OneHolder, QuerySound, RowsVisited, Holding, Client, Row
<1> QED BY <1>2, <1>3 DEF LocksInv

LEMMA DeleteRowKeeps == ASSUME LocksInv, DeleteRow PROVE LocksInv'
<1>1. PICK x \in listed :
        /\ \A w \in Writers : ~HoldsRow(w, x)
        /\ Cleaner("history", listed \ {x}, goneRows \cup (IF Old(x) THEN {x} ELSE {}), {})
  BY DEF DeleteRow
<1>2. /\ UNCHANGED <<profile, history, forgotten, stage, event, isNew, queries,
                    failures, overtaken>>
      /\ cleaner = "history" /\ cleaner' = "history" /\ goneProfiles' = {}
      /\ listed' = listed \ {x}
      /\ goneRows' = goneRows \cup (IF Old(x) THEN {x} ELSE {})
  BY <1>1 DEF DeleteRow, Cleaner, tables, writers
<1>3. x \in Rows /\ goneProfiles = {}
  BY <1>2 DEF LocksInv, ListSound
<1>4. \A y \in goneRows' : y \in goneRows \/ (y = x /\ Old(x))
  BY <1>2
<1>5. CPTypeOK'
  BY <1>2, <1>3 DEF LocksInv, CPTypeOK
<1>6. OneHolder' /\ RowsVisited' /\ ListSound'
  BY <1>2 DEF LocksInv, OneHolder, RowsVisited, ListSound, Client, Row
<1>7. QuerySound'
  <2>1. \A w \in Writers : stage[w] = "commit" => Row(w) # x
    BY <1>1 DEF HoldsRow
  <2> QED BY <1>2, <1>4, <2>1 DEF LocksInv, QuerySound, Client, Row
<1>8. GoneSound'
  BY <1>2, <1>4 DEF LocksInv, GoneSound, RowsOf, Old
<1> QED BY <1>5, <1>6, <1>7, <1>8 DEF LocksInv

LEMMA BeginProfilesKeeps == ASSUME LocksInv, BeginProfiles PROVE LocksInv'
<1>1. /\ UNCHANGED <<profile, history, forgotten, stage, event, isNew, queries,
                    failures, goneRows>>
      /\ cleaner = "history" /\ cleaner' = "profiles" /\ goneProfiles' = {}
      /\ overtaken' = {}
      /\ listed' = {c \in Clients : profile[c] # NoProfile /\ RowsOf(c) \subseteq goneRows}
  BY DEF BeginProfiles, Cleaner, tables, writers
<1>2. CPTypeOK' /\ ListSound'
  BY <1>1 DEF LocksInv, CPTypeOK, ListSound
<1>3. OneHolder' /\ QuerySound' /\ RowsVisited'
  BY <1>1 DEF LocksInv, OneHolder, QuerySound, RowsVisited, Holding, Client, Row
<1>4. GoneSound'
  <2>1. \A x \in goneRows : history[x] # NoRow /\ Old(x)
    BY <1>1 DEF LocksInv, ListSound, GoneSound
  <2> QED BY <1>1, <2>1 DEF GoneSound, RowsOf, Old
<1> QED BY <1>2, <1>3, <1>4 DEF LocksInv

LEMMA DeleteProfileKeeps == ASSUME LocksInv, DeleteProfile PROVE LocksInv'
<1>1. PICK c \in listed :
        /\ \A w \in Writers : ~HoldsProfile(w, c)
        /\ Cleaner("profiles", listed \ {c}, goneRows \cup RowsOf(c), goneProfiles \cup {c})
  BY DEF DeleteProfile
<1>2. /\ UNCHANGED <<profile, history, forgotten, stage, event, isNew, queries,
                    failures, overtaken>>
      /\ cleaner = "profiles" /\ cleaner' = "profiles"
      /\ goneProfiles' = goneProfiles \cup {c}
      /\ listed' = listed \ {c}
      /\ goneRows' = goneRows \cup RowsOf(c)
  BY <1>1 DEF DeleteProfile, Cleaner, tables, writers
<1>3. c \in Clients /\ RowsOf(c) \subseteq Rows
  BY <1>2 DEF LocksInv, ListSound, RowsOf
<1>4. CPTypeOK' /\ ListSound'
  BY <1>2, <1>3 DEF LocksInv, CPTypeOK, ListSound
<1>5. OneHolder' /\ RowsVisited'
  BY <1>2 DEF LocksInv, OneHolder, RowsVisited, Client, Row
<1>6. QuerySound'
  <2>1. \A w \in Writers : stage[w] \in Holding => Client(w) # c
    BY <1>1 DEF HoldsProfile, Holding
  <2>2. \A w \in Writers : stage[w] \in Holding => Row(w) \notin RowsOf(c)
    BY <2>1 DEF RowsOf, Client
  <2> QED BY <1>2, <2>1, <2>2 DEF LocksInv, QuerySound, Holding, Client, Row
<1>7. GoneSound'
  <2>1. \A x \in RowsOf(c) : history[x] # NoRow /\ x[1] = c
    BY DEF RowsOf
  <2>2. \A x \in RowsOf(c) \ goneRows : x[1] \in overtaken
    BY <1>2, <2>1 DEF LocksInv, GoneSound
  <2>3. \A x \in goneRows' : history[x] # NoRow /\ (Old(x) \/ x[1] \in overtaken)
    BY <1>2, <2>1, <2>2 DEF LocksInv, GoneSound
  <2> QED BY <1>2, <2>3 DEF LocksInv, GoneSound, RowsOf, Old
<1> QED BY <1>4, <1>5, <1>6, <1>7 DEF LocksInv

LEMMA AgeKeeps == ASSUME LocksInv, NEW x \in Rows, Age(x) PROVE LocksInv'
<1>1. /\ UNCHANGED <<profile, forgotten, stage, event, isNew, cleaner, listed, goneRows,
                    goneProfiles, queries, failures, overtaken>>
      /\ cleaner = "idle" /\ history[x] # NoRow
      /\ history' = [history EXCEPT ![x].lastSeen = "old"]
  BY DEF Age, writers, cleanup
<1>2. /\ history' \in [Rows -> Visits]
      /\ \A y \in Rows : history'[y].visits = history[y].visits
      /\ \A y \in Rows : history'[y] = NoRow <=> history[y] = NoRow
  <2>1. history[x] \in Visits /\ history[x].visits > 0
    BY <1>1 DEF LocksInv, CPTypeOK, RowsVisited
  <2>2. /\ history'[x] \in Visits /\ history'[x].visits = history[x].visits
        /\ history'[x] # NoRow
    BY <1>1, <2>1 DEF LocksInv, CPTypeOK, Visits, Ages, NoRow
  <2>3. \A y \in Rows : y # x => history'[y] = history[y]
    BY <1>1 DEF LocksInv, CPTypeOK
  <2>4. history' \in [Rows -> Visits]
    BY <1>1, <2>2, <2>3 DEF LocksInv, CPTypeOK
  <2> QED BY <1>1, <2>2, <2>3, <2>4
<1>3. CPTypeOK'
  BY <1>1, <1>2 DEF LocksInv, CPTypeOK
<1>4. OneHolder' /\ RowsVisited' /\ ListSound' /\ GoneSound'
  BY <1>1, <1>2
     DEF LocksInv, OneHolder, RowsVisited, ListSound, GoneSound, Client, Row
<1>5. QuerySound'
  <2>1. \A w \in Writers : (history'[Row(w)] = NoRow) = (history[Row(w)] = NoRow)
    BY <1>2, QueryTyped DEF LocksInv
  <2> QED BY <1>1, <2>1 DEF LocksInv, QuerySound, Holding, Client, Row
<1> QED BY <1>3, <1>4, <1>5 DEF LocksInv

-----------------------------------------------------------------------------
(* Client profiles: the ledger. *)

(* A profile starts from nothing, and has finitely many rows and visits.   *)
NewIsEmpty == \A c \in Clients : profile[c] = NoProfile => forgotten[c] = Nothing

RowsFinite ==
  \A c \in Clients : IsFiniteSet(RowsOf(c)) /\ IsFiniteSet(VisitsIn(RowsOf(c)))

LedgerInv == CountersAddUp /\ NewIsEmpty /\ RowsFinite

LEMMA VisitsMembers ==
  ASSUME NEW R, NEW v
  PROVE  v \in VisitsIn(R) <=> \E x \in R : \E i \in 1..history[x].visits : v = <<x, i>>
BY DEF VisitsIn

(* The visits of the rows that are left are those that do not belong to    *)
(* the others.                                                             *)
LEMMA VisitsSplit ==
  ASSUME NEW R, NEW S
  PROVE  /\ VisitsIn(R \ S) = VisitsIn(R) \ VisitsIn(S)
         /\ S \subseteq R => VisitsIn(S) \subseteq VisitsIn(R)
<1>1. ASSUME NEW v PROVE v \in VisitsIn(R \ S) <=> v \in VisitsIn(R) \ VisitsIn(S)
  BY VisitsMembers
<1>2. ASSUME S \subseteq R, NEW v \in VisitsIn(S) PROVE v \in VisitsIn(R)
  BY <1>2, VisitsMembers
<1> QED BY <1>1, <1>2

(* A part of a finite set leaves the difference of the cardinalities.      *)
LEMMA PartTaken ==
  ASSUME NEW S, IsFiniteSet(S), NEW T \in SUBSET S
  PROVE  /\ IsFiniteSet(S \ T)
         /\ Cardinality(S) \in Nat /\ Cardinality(T) \in Nat
         /\ Cardinality(S \ T) \in Nat
         /\ Cardinality(S \ T) + Cardinality(T) = Cardinality(S)
<1>1. S \cap T = T
  OBVIOUS
<1>2. IsFiniteSet(T)
  BY FS_Subset
<1>3. /\ IsFiniteSet(S \ T)
      /\ Cardinality(S \ T) = Cardinality(S) - Cardinality(T)
  BY <1>1, FS_Difference
<1>4. /\ Cardinality(S) \in Nat /\ Cardinality(T) \in Nat
      /\ Cardinality(S \ T) \in Nat
  BY <1>2, <1>3, FS_CardinalityType
<1> QED BY <1>3, <1>4

LEMMA InitLedger == CPInit => LedgerInv
<1> SUFFICES ASSUME CPInit PROVE LedgerInv
  OBVIOUS
<1>1. ASSUME NEW c \in Clients
      PROVE  /\ profile[c] = NoProfile /\ forgotten[c] = Nothing
             /\ RowsOf(c) = {} /\ VisitsIn(RowsOf(c)) = {}
  BY DEF CPInit, RowsOf, VisitsIn
<1> QED BY <1>1, FS_EmptySet DEF LedgerInv, CountersAddUp, NewIsEmpty, RowsFinite

(* Steps that leave profiles, rows and visits alone. *)
LEMMA LedgerUnchanged ==
  ASSUME LedgerInv, UNCHANGED <<profile, history, forgotten>> PROVE LedgerInv'
<1>1. \A c \in Clients :
        RowsOf(c)' = RowsOf(c) /\ VisitsIn(RowsOf(c))' = VisitsIn(RowsOf(c))
  BY DEF RowsOf, VisitsIn
<1> QED BY <1>1 DEF LedgerInv, CountersAddUp, NewIsEmpty, RowsFinite

(* A row that grows old keeps its visits. *)
LEMMA AgeLedger ==
  ASSUME LocksInv, LedgerInv, NEW x \in Rows, Age(x) PROVE LedgerInv'
<1>1. /\ UNCHANGED <<profile, forgotten>>
      /\ history[x] # NoRow
      /\ history' = [history EXCEPT ![x].lastSeen = "old"]
  BY DEF Age
<1>2. \A y \in Rows : /\ history'[y].visits = history[y].visits
                      /\ history'[y] = NoRow <=> history[y] = NoRow
  <2>1. history[x] \in Visits /\ history[x].visits > 0
    BY <1>1 DEF LocksInv, CPTypeOK, RowsVisited
  <2>2. history'[x].visits = history[x].visits /\ history'[x] # NoRow
    BY <1>1, <2>1 DEF LocksInv, CPTypeOK, Visits, Ages, NoRow
  <2>3. \A y \in Rows : y # x => history'[y] = history[y]
    BY <1>1 DEF LocksInv, CPTypeOK
  <2> QED BY <1>1, <2>2, <2>3
<1>3. \A c \in Clients :
        RowsOf(c)' = RowsOf(c) /\ VisitsIn(RowsOf(c))' = VisitsIn(RowsOf(c))
  BY <1>2 DEF RowsOf, VisitsIn
<1> QED BY <1>1, <1>3 DEF LedgerInv, CountersAddUp, NewIsEmpty, RowsFinite

(* A query adds one visit, and one row if its domain is new. *)
LEMMA CommitQueryLedger ==
  ASSUME LocksInv, LedgerInv, NEW w \in Writers, CommitQuery(w) PROVE LedgerInv'
<1>p. PICK r \in Rows, k \in Clients : r = Row(w) /\ k = Client(w)
  BY CommitQueryHistory
<1>n. PICK n \in Nat : n = history[r].visits + 1
  BY DEF LocksInv, CPTypeOK, Visits
<1>h. /\ k = r[1]
      /\ history'[r] # NoRow /\ history'[r].visits = n
      /\ \A x \in Rows : x # r => history'[x] = history[x]
  BY <1>p, <1>n, CommitQueryHistory
<1>1. /\ UNCHANGED forgotten /\ stage[w] = "commit"
      /\ profile' = [profile EXCEPT ![k] = Counted(@, isNew[w])]
      /\ profile[k] \in Profiles /\ isNew[w] \in BOOLEAN
      /\ history[r] \in Visits /\ forgotten[k] \in [visits : Nat, rows : Nat]
  BY <1>p DEF CommitQuery, LocksInv, CPTypeOK
<1>2. isNew[w] <=> history[r] = NoRow
  BY <1>p, <1>1 DEF LocksInv, QuerySound
<1>3. /\ RowsOf(k)' = RowsOf(k) \cup {r}
      /\ r \in RowsOf(k) <=> ~isNew[w]
  BY <1>h, <1>2 DEF RowsOf
<1>4. /\ VisitsIn(RowsOf(k))' = VisitsIn(RowsOf(k)) \cup {<<r, n>>}
      /\ <<r, n>> \notin VisitsIn(RowsOf(k))
  <2>1. n \in Nat /\ n > 0
    BY <1>n, <1>1 DEF Visits
  <2>2. r \notin RowsOf(k) => n = 1
    BY <1>n, <1>2, <1>3 DEF NoRow
  <2>3. ASSUME NEW v
        PROVE  v \in VisitsIn(RowsOf(k))' <=> v \in VisitsIn(RowsOf(k)) \cup {<<r, n>>}
    <3>1. v \in VisitsIn(RowsOf(k))' <=>
            \E x \in RowsOf(k)' : \E i \in 1..history'[x].visits : v = <<x, i>>
      BY DEF VisitsIn
    <3>2. v \in VisitsIn(RowsOf(k)) <=>
            \E x \in RowsOf(k) : \E i \in 1..history[x].visits : v = <<x, i>>
      BY DEF VisitsIn
    <3>3. \A i : i \in 1..n <=> i \in 1..(n - 1) \/ i = n
      BY <2>1
    <3>4. \A x \in RowsOf(k) : x # r => history'[x].visits = history[x].visits
      BY <1>h DEF RowsOf
    <3>5. history[r].visits = n - 1
      BY <1>n, <1>1 DEF Visits
    <3>6. ASSUME v \in VisitsIn(RowsOf(k))'
          PROVE  v \in VisitsIn(RowsOf(k)) \cup {<<r, n>>}
      <4>1. PICK x \in RowsOf(k)' : \E i \in 1..history'[x].visits : v = <<x, i>>
        BY <3>1, <3>6
      <4>2. CASE x # r
        BY <4>1, <4>2, <1>3, <3>2, <3>4
      <4>3. CASE x = r
        <5>1. PICK i \in 1..n : v = <<r, i>>
          BY <4>1, <4>3, <1>h
        <5>2. CASE i = n
          BY <5>1, <5>2
        <5>3. CASE i # n
          <6>1. i \in 1..(n - 1)
            BY <3>3, <5>3
          <6>2. r \in RowsOf(k)
            BY <2>2, <6>1
          <6> QED BY <3>2, <3>5, <5>1, <6>1, <6>2
        <5> QED BY <5>2, <5>3
      <4> QED BY <4>2, <4>3
    <3>7. ASSUME v \in VisitsIn(RowsOf(k)) \cup {<<r, n>>}
          PROVE  v \in VisitsIn(RowsOf(k))'
      <4>1. CASE v = <<r, n>>
        BY <4>1, <1>h, <1>3, <2>1, <3>1
      <4>2. CASE v \in VisitsIn(RowsOf(k))
        <5>1. PICK x \in RowsOf(k) : \E i \in 1..history[x].visits : v = <<x, i>>
          BY <3>2, <4>2
        <5>2. \E i \in 1..history'[x].visits : v = <<x, i>>
          BY <5>1, <3>3, <3>4, <3>5, <1>h
        <5> QED BY <1>3, <3>1, <5>1, <5>2
      <4> QED BY <3>7, <4>1, <4>2
    <3> QED BY <3>6, <3>7
  <2>4. <<r, n>> \notin VisitsIn(RowsOf(k))
    <3> SUFFICES ASSUME <<r, n>> \in VisitsIn(RowsOf(k)) PROVE FALSE
      OBVIOUS
    <3>1. PICK x \in RowsOf(k) : \E i \in 1..history[x].visits : <<r, n>> = <<x, i>>
      BY VisitsMembers
    <3>2. n \in 1..history[r].visits
      BY <3>1
    <3> QED BY <1>n, <1>1, <3>2 DEF Visits
  <2> QED BY <2>3, <2>4
<1>5. /\ IsFiniteSet(RowsOf(k)) /\ IsFiniteSet(VisitsIn(RowsOf(k)))
  BY DEF LedgerInv, RowsFinite
<1>6. /\ IsFiniteSet(RowsOf(k)') /\ IsFiniteSet(VisitsIn(RowsOf(k))')
      /\ Cardinality(RowsOf(k)')
           = Cardinality(RowsOf(k)) + IF isNew[w] THEN 1 ELSE 0
      /\ Cardinality(VisitsIn(RowsOf(k))') = Cardinality(VisitsIn(RowsOf(k))) + 1
      /\ Cardinality(RowsOf(k)) \in Nat /\ Cardinality(VisitsIn(RowsOf(k))) \in Nat
  <2>1. /\ Cardinality(RowsOf(k)) \in Nat /\ Cardinality(VisitsIn(RowsOf(k))) \in Nat
    BY <1>5, FS_CardinalityType
  <2>2. /\ IsFiniteSet(RowsOf(k)')
        /\ Cardinality(RowsOf(k)')
             = IF r \in RowsOf(k) THEN Cardinality(RowsOf(k)) ELSE Cardinality(RowsOf(k)) + 1
    BY <1>3, <1>5, FS_AddElement
  <2>3. /\ IsFiniteSet(VisitsIn(RowsOf(k))')
        /\ Cardinality(VisitsIn(RowsOf(k))') = Cardinality(VisitsIn(RowsOf(k))) + 1
    BY <1>4, <1>5, FS_AddElement
  <2> QED BY <1>3, <2>1, <2>2, <2>3
<1>7. /\ profile'[k] \in Profiles
      /\ profile'[k].total = profile[k].total + 1
      /\ profile'[k].unique = profile[k].unique + IF isNew[w] THEN 1 ELSE 0
      /\ \A c \in Clients : c # k => profile'[c] = profile[c]
  BY <1>h, <1>1, CountedTyped DEF LocksInv, CPTypeOK
<1>8. profile'[k] # NoProfile
  BY <1>1, <1>7 DEF NoProfile, Profiles
(* What the counters were before: a new profile counts from nothing. *)
<1>9. /\ profile[k].total = Cardinality(VisitsIn(RowsOf(k))) + forgotten[k].visits
      /\ profile[k].unique = Cardinality(RowsOf(k)) + forgotten[k].rows
  <2>1. CASE profile[k] = NoProfile
    <3>1. RowsOf(k) = {} /\ VisitsIn(RowsOf(k)) = {}
      BY <1>h, <2>1 DEF LedgerInv, CountersAddUp, VisitsIn
    <3>2. forgotten[k] = Nothing
      BY <1>h, <2>1 DEF LedgerInv, NewIsEmpty
    <3> QED BY <2>1, <3>1, <3>2, FS_EmptySet DEF NoProfile, Nothing
  <2>2. CASE profile[k] # NoProfile
    BY <1>h, <2>2 DEF LedgerInv, CountersAddUp
  <2> QED BY <2>1, <2>2
<1>10. /\ profile'[k].total = Cardinality(VisitsIn(RowsOf(k))') + forgotten[k].visits
       /\ profile'[k].unique = Cardinality(RowsOf(k)') + forgotten[k].rows
  BY <1>1, <1>6, <1>7, <1>9 DEF Profiles
<1>11. \A c \in Clients : c # k =>
         RowsOf(c)' = RowsOf(c) /\ VisitsIn(RowsOf(c))' = VisitsIn(RowsOf(c))
  <2>1. ASSUME NEW c \in Clients, c # k
        PROVE  RowsOf(c)' = RowsOf(c) /\ \A x \in RowsOf(c) : history'[x] = history[x]
    BY <1>h, <2>1 DEF RowsOf
  <2> QED BY <2>1 DEF VisitsIn
<1>12. CountersAddUp'
  <2> SUFFICES ASSUME NEW c \in Clients
               PROVE  (IF profile[c] = NoProfile THEN RowsOf(c) = {}
                       ELSE /\ profile[c].total = Cardinality(VisitsIn(RowsOf(c))) + forgotten[c].visits
                            /\ profile[c].unique = Cardinality(RowsOf(c)) + forgotten[c].rows)'
    BY DEF CountersAddUp
  <2>1. CASE c = k
    BY <1>1, <1>8, <1>10, <2>1
  <2>2. CASE c # k
    BY <1>1, <1>7, <1>11, <2>2 DEF LedgerInv, CountersAddUp
  <2> QED BY <2>1, <2>2
<1>13. NewIsEmpty'
  BY <1>1, <1>7, <1>8 DEF LedgerInv, NewIsEmpty
<1>14. RowsFinite'
  BY <1>6, <1>11 DEF LedgerInv, RowsFinite
<1> QED BY <1>12, <1>13, <1>14 DEF LedgerInv

(* The commit of a cleanup leaves each profile the rows that were not      *)
(* deleted, with their visits.                                             *)
LEMMA CommitCleanupRows ==
  ASSUME LocksInv, CommitCleanup, NEW c \in Clients
  PROVE  /\ RowsOf(c)' = RowsOf(c) \ GoneOf(c)
         /\ VisitsIn(RowsOf(c))' = VisitsIn(RowsOf(c)) \ VisitsIn(GoneOf(c))
         /\ GoneOf(c) \in SUBSET RowsOf(c)
         /\ VisitsIn(GoneOf(c)) \in SUBSET VisitsIn(RowsOf(c))
         /\ c \in goneProfiles => RowsOf(c)' = {}
<1>1. history' = [x \in Rows |-> IF x \in goneRows THEN NoRow ELSE history[x]]
  BY DEF CommitCleanup
<1>2. GoneOf(c) \in SUBSET RowsOf(c)
  BY DEF GoneOf, RowsOf, LocksInv, GoneSound, CPTypeOK
<1>3. /\ RowsOf(c)' = RowsOf(c) \ GoneOf(c)
      /\ \A x \in RowsOf(c) \ GoneOf(c) : history'[x] = history[x]
  BY <1>1 DEF RowsOf, GoneOf
<1>4. VisitsIn(RowsOf(c))' = VisitsIn(RowsOf(c) \ GoneOf(c))
  BY <1>3 DEF VisitsIn
<1>5. c \in goneProfiles => RowsOf(c) \subseteq GoneOf(c)
  BY DEF LocksInv, GoneSound, GoneOf, RowsOf
<1> QED BY <1>2, <1>3, <1>4, <1>5, VisitsSplit

LEMMA CommitCleanupForgets ==
  ASSUME LocksInv, LedgerInv, CommitCleanup, NEW c \in Clients
  PROVE  /\ forgotten'[c] \in [visits : Nat, rows : Nat]
         /\ c \in goneProfiles => forgotten'[c] = Nothing
         /\ c \notin goneProfiles =>
              /\ forgotten'[c].visits = forgotten[c].visits + Cardinality(VisitsIn(GoneOf(c)))
              /\ forgotten'[c].rows = forgotten[c].rows + Cardinality(GoneOf(c))
<1>1. IsFiniteSet(RowsOf(c)) /\ IsFiniteSet(VisitsIn(RowsOf(c)))
  BY DEF LedgerInv, RowsFinite
<1>2. Cardinality(GoneOf(c)) \in Nat /\ Cardinality(VisitsIn(GoneOf(c))) \in Nat
  BY <1>1, CommitCleanupRows, PartTaken
<1>3. forgotten[c] \in [visits : Nat, rows : Nat]
  BY DEF LocksInv, CPTypeOK
<1>4. forgotten'[c] =
        IF c \in goneProfiles THEN Nothing
        ELSE [visits |-> forgotten[c].visits + Cardinality(VisitsIn(GoneOf(c))),
              rows |-> forgotten[c].rows + Cardinality(GoneOf(c))]
  BY DEF CommitCleanup
<1> QED BY <1>2, <1>3, <1>4, NoRowTyped

LEMMA CommitCleanupKeeps ==
  ASSUME LocksInv, LedgerInv, CommitCleanup PROVE LocksInv'
<1>1. /\ UNCHANGED <<stage, event, isNew, queries, failures>>
      /\ cleaner = "profiles" /\ cleaner' = "idle" /\ listed' = {}
      /\ goneRows' = {} /\ goneProfiles' = {} /\ overtaken' = {}
      /\ profile' = [c \in Clients |-> IF c \in goneProfiles THEN NoProfile ELSE profile[c]]
      /\ history' = [x \in Rows |-> IF x \in goneRows THEN NoRow ELSE history[x]]
  BY DEF CommitCleanup, Cleaner, writers
<1>2. forgotten' \in [Clients -> [visits : Nat, rows : Nat]]
  <2>1. \A c \in Clients : forgotten'[c] \in [visits : Nat, rows : Nat]
    BY CommitCleanupForgets
  <2> DEFINE F(c) == IF c \in goneProfiles THEN Nothing
                     ELSE [visits |-> forgotten[c].visits + Cardinality(VisitsIn(GoneOf(c))),
                           rows |-> forgotten[c].rows + Cardinality(GoneOf(c))]
  <2>2. forgotten' = [c \in Clients |-> F(c)]
    BY DEF CommitCleanup
  <2> HIDE DEF F
  <2> QED BY <2>1, <2>2
<1>3. CPTypeOK'
  <2>1. profile' \in [Clients -> Profiles] /\ history' \in [Rows -> Visits]
    BY <1>1, NoRowTyped DEF LocksInv, CPTypeOK
  <2> QED BY <1>1, <1>2, <2>1 DEF LocksInv, CPTypeOK
<1>4. OneHolder' /\ ListSound' /\ GoneSound'
  BY <1>1 DEF LocksInv, OneHolder, ListSound, GoneSound, Client, Row
<1>5. RowsVisited'
  BY <1>1 DEF LocksInv, RowsVisited
<1>6. QuerySound'
  <2> SUFFICES ASSUME NEW w \in Writers, stage[w] = "commit"
               PROVE  isNew[w] = (history'[Row(w)] = NoRow)
    BY <1>1 DEF QuerySound, Client, Row
  <2>1. history'[Row(w)] = history[Row(w)]
    <3>1. Row(w) \in Rows /\ Row(w) \notin goneRows
      BY QueryTyped DEF LocksInv, QuerySound
    <3> QED BY <1>1, <3>1
  <2> QED BY <2>1, Zenon DEF LocksInv, QuerySound
<1> QED BY <1>3, <1>4, <1>5, <1>6 DEF LocksInv

LEMMA CommitCleanupLedger ==
  ASSUME LocksInv, LedgerInv, CommitCleanup PROVE LedgerInv'
<1> SUFFICES ASSUME NEW c \in Clients
             PROVE  /\ (IF profile[c] = NoProfile THEN RowsOf(c) = {}
                         ELSE /\ profile[c].total
                                   = Cardinality(VisitsIn(RowsOf(c))) + forgotten[c].visits
                              /\ profile[c].unique
                                   = Cardinality(RowsOf(c)) + forgotten[c].rows)'
                    /\ profile'[c] = NoProfile => forgotten'[c] = Nothing
                    /\ IsFiniteSet(RowsOf(c))' /\ IsFiniteSet(VisitsIn(RowsOf(c)))'
  BY DEF LedgerInv, CountersAddUp, NewIsEmpty, RowsFinite
<1> DEFINE R == RowsOf(c)   V == VisitsIn(R)   G == GoneOf(c)   D == VisitsIn(G)
<1>1. /\ RowsOf(c)' = R \ G /\ VisitsIn(RowsOf(c))' = V \ D
      /\ G \in SUBSET R /\ D \in SUBSET V
      /\ c \in goneProfiles => RowsOf(c)' = {}
  BY CommitCleanupRows
<1>2. IsFiniteSet(R) /\ IsFiniteSet(V)
  BY DEF LedgerInv, RowsFinite
<1>3. /\ IsFiniteSet(R \ G) /\ IsFiniteSet(V \ D)
      /\ Cardinality(R) \in Nat /\ Cardinality(G) \in Nat /\ Cardinality(R \ G) \in Nat
      /\ Cardinality(V) \in Nat /\ Cardinality(D) \in Nat /\ Cardinality(V \ D) \in Nat
      /\ Cardinality(R \ G) + Cardinality(G) = Cardinality(R)
      /\ Cardinality(V \ D) + Cardinality(D) = Cardinality(V)
  BY <1>1, <1>2, PartTaken
<1>4. profile'[c] = IF c \in goneProfiles THEN NoProfile ELSE profile[c]
  BY DEF CommitCleanup
<1>5. CASE c \in goneProfiles
  BY <1>1, <1>3, <1>4, <1>5, CommitCleanupForgets
<1>6. CASE c \notin goneProfiles /\ profile[c] = NoProfile
  <2>1. R = {}
    BY <1>6 DEF LedgerInv, CountersAddUp
  <2>2. G = {} /\ D = {}
    BY <1>1, <2>1 DEF VisitsIn
  <2>3. forgotten[c] = Nothing
    BY <1>6 DEF LedgerInv, NewIsEmpty
  <2>4. forgotten'[c] = Nothing
    <3>1. /\ forgotten'[c] \in [visits : Nat, rows : Nat]
          /\ forgotten'[c].visits = forgotten[c].visits + Cardinality(D)
          /\ forgotten'[c].rows = forgotten[c].rows + Cardinality(G)
      BY <1>6, CommitCleanupForgets
    <3>2. forgotten'[c].visits = 0 /\ forgotten'[c].rows = 0
      BY <2>2, <2>3, <3>1, FS_EmptySet DEF Nothing
    <3> QED BY <3>1, <3>2 DEF Nothing
  <2> QED BY <1>1, <1>3, <1>4, <1>6, <2>1, <2>4
<1>7. CASE c \notin goneProfiles /\ profile[c] # NoProfile
  <2>1. /\ profile[c].total = Cardinality(V) + forgotten[c].visits
        /\ profile[c].unique = Cardinality(R) + forgotten[c].rows
    BY <1>7 DEF LedgerInv, CountersAddUp
  <2>2. /\ forgotten'[c].visits = forgotten[c].visits + Cardinality(D)
        /\ forgotten'[c].rows = forgotten[c].rows + Cardinality(G)
        /\ forgotten[c].visits \in Nat /\ forgotten[c].rows \in Nat
    BY <1>7, CommitCleanupForgets DEF LocksInv, CPTypeOK
  <2>3. /\ profile[c].total = Cardinality(V \ D) + forgotten'[c].visits
        /\ profile[c].unique = Cardinality(R \ G) + forgotten'[c].rows
    BY <1>3, <2>1, <2>2
  <2> QED BY <1>1, <1>3, <1>4, <1>7, <2>3
<1> QED BY <1>5, <1>6, <1>7

(* Every step of a query, a cleanup or the calendar keeps the locks and    *)
(* the ledger.                                                             *)
LEMMA ProfilesStep ==
  LocksInv /\ LedgerInv /\ [CPNext]_CPvars => (LocksInv /\ LedgerInv)'
<1> SUFFICES ASSUME LocksInv, LedgerInv, [CPNext]_CPvars
             PROVE  LocksInv' /\ LedgerInv'
  OBVIOUS
<1>1. ASSUME NEW w \in Writers, Begin(w) PROVE LocksInv' /\ LedgerInv'
  BY <1>1, BeginKeeps, LedgerUnchanged DEF Begin, tables
<1>2. ASSUME NEW w \in Writers, UpsertProfile(w) PROVE LocksInv' /\ LedgerInv'
  BY <1>2, UpsertProfileKeeps, LedgerUnchanged DEF UpsertProfile, tables
<1>3. ASSUME NEW w \in Writers, UpsertHistory(w) PROVE LocksInv' /\ LedgerInv'
  BY <1>3, UpsertHistoryKeeps, LedgerUnchanged DEF UpsertHistory, tables
<1>4. ASSUME NEW w \in Writers, CommitQuery(w) PROVE LocksInv' /\ LedgerInv'
  BY <1>4, CommitQueryKeeps, CommitQueryLedger
<1>5. ASSUME NEW w \in Writers, QueryFails(w) PROVE LocksInv' /\ LedgerInv'
  <2>1. Rollback(w) /\ failures' \in 0..MaxFailures
    BY <1>5, FailureBounded DEF QueryFails, LocksInv
  <2> QED BY <2>1, RollbackKeeps, LedgerUnchanged DEF Rollback, tables
<1>6. ASSUME NEW w \in Writers, BreakDeadlock(w) PROVE LocksInv' /\ LedgerInv'
  <2>1. (Rollback(w) \/ RollbackCleanup) /\ failures' \in 0..MaxFailures
    BY <1>6 DEF BreakDeadlock, LocksInv, CPTypeOK
  <2>2. CASE Rollback(w)
    BY <2>1, <2>2, RollbackKeeps, LedgerUnchanged DEF Rollback, tables
  <2>3. CASE RollbackCleanup
    BY <2>1, <2>3, RollbackCleanupKeeps, LedgerUnchanged DEF RollbackCleanup, tables
  <2> QED BY <2>1, <2>2, <2>3
<1>7. CASE BeginCleanup
  BY <1>7, BeginCleanupKeeps, LedgerUnchanged DEF BeginCleanup, tables
<1>8. CASE DeleteRow
  BY <1>8, DeleteRowKeeps, LedgerUnchanged DEF DeleteRow, tables
<1>9. CASE BeginProfiles
  BY <1>9, BeginProfilesKeeps, LedgerUnchanged DEF BeginProfiles, tables
<1>10. CASE DeleteProfile
  BY <1>10, DeleteProfileKeeps, LedgerUnchanged DEF DeleteProfile, tables
<1>11. CASE CommitCleanup
  BY <1>11, CommitCleanupKeeps, CommitCleanupLedger
<1>12. CASE CleanupFails
  <2>1. RollbackCleanup /\ failures' \in 0..MaxFailures
    BY <1>12, FailureBounded DEF CleanupFails, LocksInv
  <2> QED BY <2>1, RollbackCleanupKeeps, LedgerUnchanged DEF RollbackCleanup, tables
<1>13. ASSUME NEW x \in Rows, Age(x) PROVE LocksInv' /\ LedgerInv'
  BY <1>13, AgeKeeps, AgeLedger
<1>14. CASE UNCHANGED CPvars
  <2>1. LedgerInv'
    BY <1>14, LedgerUnchanged DEF CPvars
  <2>2. LocksInv'
    BY <1>14
       DEF CPvars, LocksInv, CPTypeOK, OneHolder, QuerySound, ListSound, GoneSound,
           RowsVisited, RowsOf, Old, Client, Row
  <2> QED BY <2>1, <2>2
<1> QED
  BY <1>1, <1>2, <1>3, <1>4, <1>5, <1>6, <1>7, <1>8, <1>9, <1>10, <1>11, <1>12,
     <1>13, <1>14
     DEF CPNext, Query, Cleanup

LEMMA ProfilesInvariance == CPSpec => [](LocksInv /\ LedgerInv)
BY InitLocks, InitLedger, ProfilesStep, PTL DEF CPSpec

(* Every variable of the client profiles stays within its type. *)
THEOREM ProfilesTypeCorrect == CPSpec => []CPTypeOK
BY ProfilesInvariance, PTL DEF LocksInv

(* The counters of every client are its history and what cleanups have     *)
(* deleted of it, however queries and cleanups interleave.                 *)
THEOREM CountersAlwaysAddUp == CPSpec => []CountersAddUp
BY ProfilesInvariance, PTL DEF LedgerInv

(* Only a query that was committed while the cleanup was at the profiles   *)
(* can make it delete a row within the retention period.                   *)
THEOREM RecentRowsAreKept == CPSpec => RecentIsKept
<1> DEFINE Kept == \A x \in Rows :
      history[x] # NoRow /\ ~Old(x) /\ history'[x] = NoRow => x[1] \in overtaken
<1>1. LocksInv /\ [CPNext]_CPvars => [Kept]_CPvars
  <2> SUFFICES ASSUME LocksInv, CPNext, NEW x \in Rows,
                      history[x] # NoRow, ~Old(x), history'[x] = NoRow
               PROVE  x[1] \in overtaken
    OBVIOUS
  <2>1. ASSUME NEW w \in Writers, CommitQuery(w) PROVE FALSE
    BY <2>1, CommitQueryHistory
  <2>2. ASSUME NEW y \in Rows, Age(y) PROVE FALSE
    <3>1. history'[y].visits = history[y].visits /\ history[y].visits > 0
      BY <2>2 DEF Age, LocksInv, CPTypeOK, Visits, RowsVisited
    <3>2. y = x
      BY <2>2 DEF Age, LocksInv, CPTypeOK
    <3> QED BY <3>1, <3>2 DEF NoRow
  <2>3. CASE CommitCleanup
    <3>1. x \in goneRows
      BY <2>3 DEF CommitCleanup
    <3> QED BY <3>1 DEF LocksInv, GoneSound
  <2>4. history' # history
    OBVIOUS
  <2> QED
    BY <2>1, <2>2, <2>3, <2>4
       DEF CPNext, Query, Cleanup, Begin, UpsertProfile, UpsertHistory, QueryFails,
           BreakDeadlock, Rollback, BeginCleanup, DeleteRow, BeginProfiles,
           DeleteProfile, CleanupFails, RollbackCleanup, tables
<1> QED
  BY <1>1, ProfilesInvariance, PTL DEF CPSpec, RecentIsKept

-----------------------------------------------------------------------------
(* What the readers of the two tables are promised.  A cleanup takes a row *)
(* because it is old or with its profile; its second statement has missed  *)
(* no profile that the deleted rows leave without history; and no other    *)
(* profile is without history.                                             *)

GoneAlone == \A x \in goneRows : Old(x) \/ x[1] \in goneProfiles

ListComplete ==
  cleaner = "profiles" =>
    \A c \in Clients :
      profile[c] # NoProfile /\ RowsOf(c) \subseteq goneRows => c \in listed \cup goneProfiles

HaveHistory == \A c \in Clients : profile[c] # NoProfile => RowsOf(c) # {}

LeftInv == GoneAlone /\ ListComplete /\ HaveHistory

(* Steps that change neither the tables nor what is to be deleted. *)
LEMMA LeftUnchanged ==
  ASSUME LeftInv, UNCHANGED <<profile, history, cleanup>> PROVE LeftInv'
BY DEF LeftInv, GoneAlone, ListComplete, HaveHistory, RowsOf, Old, cleanup

(* Steps of the cleanup before it is at the profiles. *)
LEMMA LeftBefore ==
  ASSUME LeftInv, UNCHANGED <<profile, history>>, cleaner' # "profiles",
         \A x \in goneRows' : Old(x)
  PROVE  LeftInv'
BY DEF LeftInv, GoneAlone, ListComplete, HaveHistory, RowsOf, Old

LEMMA CommitQueryLeft ==
  ASSUME LocksInv, LeftInv, NEW w \in Writers, CommitQuery(w) PROVE LeftInv'
<1>p. PICK k \in Clients, r \in Rows : k = Client(w) /\ r = Row(w) /\ k = r[1]
  BY CommitQueryHistory
<1>h. /\ r \notin goneRows /\ history'[r] # NoRow
      /\ \A x \in Rows : x # r => history'[x] = history[x]
      /\ UNCHANGED <<goneRows, goneProfiles, listed, cleaner>>
  BY <1>p, CommitQueryHistory
<1>1. /\ goneRows \subseteq Rows
      /\ \A c \in Clients : c # k => profile'[c] = profile[c]
  BY <1>p DEF LocksInv, CPTypeOK, CommitQuery
<1>2. \A c \in Clients : c # k => RowsOf(c)' = RowsOf(c)
  BY <1>p, <1>h DEF RowsOf
<1>3. r \in RowsOf(k)'
  BY <1>p, <1>h DEF RowsOf
<1>4. GoneAlone'
  BY <1>h, <1>1 DEF LeftInv, GoneAlone, Old
<1>5. ListComplete'
  BY <1>h, <1>1, <1>2, <1>3 DEF LeftInv, ListComplete
<1>6. HaveHistory'
  BY <1>1, <1>2, <1>3 DEF LeftInv, HaveHistory
<1> QED BY <1>4, <1>5, <1>6 DEF LeftInv

LEMMA DeleteProfileLeft ==
  ASSUME LocksInv, LeftInv, DeleteProfile PROVE LeftInv'
<1>1. PICK c \in listed :
        Cleaner("profiles", listed \ {c}, goneRows \cup RowsOf(c), goneProfiles \cup {c})
  BY DEF DeleteProfile
<1>2. /\ UNCHANGED <<profile, history>> /\ cleaner = "profiles"
      /\ goneProfiles' = goneProfiles \cup {c} /\ listed' = listed \ {c}
      /\ goneRows' = goneRows \cup RowsOf(c)
  BY <1>1 DEF DeleteProfile, Cleaner, tables
<1>3. c \in Clients /\ \A x \in RowsOf(c) : x[1] = c
  BY <1>2 DEF LocksInv, ListSound, RowsOf
<1>4. \A b \in Clients : RowsOf(b)' = RowsOf(b)
  BY <1>2 DEF RowsOf
<1>5. GoneAlone'
  BY <1>2, <1>3 DEF LeftInv, GoneAlone, Old
<1>6. ListComplete'
  <2> SUFFICES ASSUME NEW b \in Clients, profile[b] # NoProfile, b # c,
                      RowsOf(b) \subseteq goneRows \cup RowsOf(c)
               PROVE  b \in listed \cup goneProfiles
    BY <1>2, <1>4 DEF ListComplete
  <2>1. RowsOf(b) \subseteq goneRows
    BY <1>3 DEF RowsOf
  <2> QED BY <1>2, <2>1 DEF LeftInv, ListComplete
<1>7. HaveHistory'
  BY <1>2, <1>4 DEF LeftInv, HaveHistory
<1> QED BY <1>5, <1>6, <1>7 DEF LeftInv

LEMMA CommitCleanupLeft ==
  ASSUME LocksInv, LeftInv, CommitCleanup PROVE LeftInv'
<1>1. /\ cleaner = "profiles" /\ listed = {} /\ cleaner' = "idle" /\ goneRows' = {}
      /\ profile' = [c \in Clients |-> IF c \in goneProfiles THEN NoProfile ELSE profile[c]]
  BY DEF CommitCleanup, Cleaner
<1>2. HaveHistory'
  <2> SUFFICES ASSUME NEW c \in Clients, profile'[c] # NoProfile PROVE RowsOf(c)' # {}
    BY DEF HaveHistory
  <2>1. c \notin goneProfiles /\ profile[c] # NoProfile
    BY <1>1
  <2>2. PICK x \in RowsOf(c) : x \notin goneRows
    BY <1>1, <2>1 DEF LeftInv, ListComplete
  <2>3. x \in RowsOf(c)'
    BY <2>2, CommitCleanupRows DEF GoneOf
  <2> QED BY <2>3
<1> QED BY <1>1, <1>2 DEF LeftInv, GoneAlone, ListComplete

LEMMA AgeLeft == ASSUME LocksInv, LeftInv, NEW x \in Rows, Age(x) PROVE LeftInv'
<1>1. /\ UNCHANGED <<profile, cleaner, goneRows>> /\ cleaner = "idle" /\ goneRows = {}
  BY DEF Age, cleanup, LocksInv, ListSound
<1>2. history'[x] # NoRow
  <2>1. history[x] \in Visits /\ history[x].visits > 0
    BY DEF Age, LocksInv, CPTypeOK, RowsVisited
  <2> QED BY <2>1 DEF Age, LocksInv, CPTypeOK, Visits, NoRow
<1>3. \A y \in Rows : history[y] # NoRow => history'[y] # NoRow
  BY <1>2 DEF Age, LocksInv, CPTypeOK
<1>4. \A c \in Clients : RowsOf(c) \subseteq RowsOf(c)'
  BY <1>3 DEF RowsOf
<1> QED BY <1>1, <1>4 DEF LeftInv, GoneAlone, ListComplete, HaveHistory

LEMMA LeftStep ==
  LocksInv /\ LeftInv /\ [CPNext]_CPvars => LeftInv'
<1> SUFFICES ASSUME LocksInv, LeftInv, [CPNext]_CPvars PROVE LeftInv'
  OBVIOUS
<1>1. ASSUME NEW w \in Writers, Begin(w) PROVE LeftInv'
  BY <1>1, LeftUnchanged DEF Begin, tables
<1>2. ASSUME NEW w \in Writers, UpsertProfile(w) PROVE LeftInv'
  BY <1>2, LeftUnchanged DEF UpsertProfile, tables
<1>3. ASSUME NEW w \in Writers, UpsertHistory(w) PROVE LeftInv'
  BY <1>3, LeftUnchanged DEF UpsertHistory, tables
<1>4. ASSUME NEW w \in Writers, CommitQuery(w) PROVE LeftInv'
  BY <1>4, CommitQueryLeft
<1>5. ASSUME NEW w \in Writers, Rollback(w) PROVE LeftInv'
  BY <1>5, LeftUnchanged DEF Rollback, tables
<1>6. CASE RollbackCleanup
  BY <1>6, LeftBefore DEF RollbackCleanup, Cleaner, tables
<1>7. CASE BeginCleanup
  BY <1>7, LeftBefore DEF BeginCleanup, Cleaner, tables
<1>8. CASE DeleteRow
  <2>1. PICK x \in listed :
          Cleaner("history", listed \ {x}, goneRows \cup (IF Old(x) THEN {x} ELSE {}), {})
    BY <1>8 DEF DeleteRow
  <2>2. /\ cleaner = "history" /\ cleaner' = "history" /\ UNCHANGED <<profile, history>>
        /\ \A y \in goneRows' : y \in goneRows \/ Old(y)
    BY <1>8, <2>1 DEF DeleteRow, Cleaner, tables
  <2>3. \A y \in goneRows : Old(y)
    BY <2>2 DEF LeftInv, GoneAlone, LocksInv, ListSound
  <2> QED BY <2>2, <2>3, LeftBefore
<1>9. CASE BeginProfiles
  <2>1. /\ UNCHANGED <<profile, history, goneRows>> /\ cleaner = "history"
        /\ listed' = {c \in Clients : profile[c] # NoProfile /\ RowsOf(c) \subseteq goneRows}
    BY <1>9 DEF BeginProfiles, Cleaner, tables
  <2>2. goneProfiles = {}
    BY <2>1 DEF LocksInv, ListSound
  <2> QED
    BY <2>1, <2>2 DEF LeftInv, GoneAlone, ListComplete, HaveHistory, RowsOf, Old
<1>10. CASE DeleteProfile
  BY <1>10, DeleteProfileLeft
<1>11. CASE CommitCleanup
  BY <1>11, CommitCleanupLeft
<1>12. ASSUME NEW x \in Rows, Age(x) PROVE LeftInv'
  BY <1>12, AgeLeft
<1>13. CASE UNCHANGED CPvars
  BY <1>13, LeftUnchanged DEF CPvars, cleanup
<1> QED
  BY <1>1, <1>2, <1>3, <1>4, <1>5, <1>6, <1>7, <1>8, <1>9, <1>10, <1>11, <1>12, <1>13
     DEF CPNext, Query, Cleanup, QueryFails, BreakDeadlock, CleanupFails

(* Each commit of a query is one count, and each commit of a cleanup       *)
(* forgets the clients that the deleted rows leave without history.        *)
LEMMA LedgerNames ==
  /\ Ledger!Rows = Rows /\ Ledger!NoProfile = NoProfile /\ Ledger!NoRow = NoRow
  /\ \A c : Ledger!RowsOf(c) = RowsOf(c)
BY DEF Ledger!Rows, Rows, Ledger!NoProfile, NoProfile, Ledger!NoRow, NoRow,
       Ledger!RowsOf, RowsOf

LEMMA InitCounts == CPInit => Ledger!Init
BY LedgerNames DEF CPInit, Ledger!Init

LEMMA CommitQueryCounts ==
  ASSUME LocksInv, NEW w \in Writers, CommitQuery(w)
  PROVE  Ledger!Count(Row(w), event[w].age)
<1>1. /\ Row(w) \in Rows /\ Client(w) = Row(w)[1] /\ event[w].age \in Ages
      /\ history[Row(w)].lastSeen \in Ages
  BY QueryTyped DEF LocksInv, CPTypeOK, Visits, Client
<1>2. isNew[w] = (history[Row(w)] = NoRow)
  BY Zenon DEF CommitQuery, LocksInv, QuerySound
<1>3. profile' = [profile EXCEPT
        ![Row(w)[1]] = [total |-> @.total + 1,
                        unique |-> @.unique + (IF history[Row(w)] = NoRow THEN 1 ELSE 0)]]
  BY <1>1, <1>2 DEF CommitQuery, Counted
<1>4. history' = [history EXCEPT
        ![Row(w)] = [visits |-> @.visits + 1,
                     lastSeen |-> IF "recent" \in {event[w].age, @.lastSeen}
                                  THEN "recent" ELSE "old"]]
  <2>1. Visited(history[Row(w)], event[w].age)
          = [visits |-> history[Row(w)].visits + 1,
             lastSeen |-> IF "recent" \in {event[w].age, history[Row(w)].lastSeen}
                          THEN "recent" ELSE "old"]
    BY <1>1 DEF Visited, Ages
  <2> QED BY <2>1 DEF CommitQuery
<1> QED BY <1>3, <1>4, LedgerNames DEF Ledger!Count

LEMMA CommitCleanupIsForget ==
  ASSUME LocksInv, LeftInv, CommitCleanup PROVE Ledger!Forget(goneRows)
<1>1. /\ cleaner = "profiles" /\ listed = {}
      /\ profile' = [c \in Clients |-> IF c \in goneProfiles THEN NoProfile ELSE profile[c]]
      /\ history' = [x \in Rows |-> IF x \in goneRows THEN NoRow ELSE history[x]]
  BY DEF CommitCleanup
<1>2. Ledger!Left(goneRows) = {c \in Clients : RowsOf(c) \subseteq goneRows}
  BY LedgerNames DEF Ledger!Left
<1>3. goneProfiles \subseteq Ledger!Left(goneRows)
  BY <1>2 DEF LocksInv, GoneSound, CPTypeOK
<1>4. \A c \in Ledger!Left(goneRows) : c \in goneProfiles \/ profile[c] = NoProfile
  BY <1>1, <1>2 DEF LeftInv, ListComplete
<1>5. \A x \in goneRows :
        /\ history[x] # NoRow
        /\ history[x].lastSeen = "old" \/ x[1] \in Ledger!Left(goneRows)
  BY <1>3 DEF LocksInv, GoneSound, LeftInv, GoneAlone, Old
<1>6. profile' = [c \in Clients |->
                   IF c \in Ledger!Left(goneRows) THEN NoProfile ELSE profile[c]]
  BY <1>1, <1>3, <1>4
<1> QED BY <1>1, <1>5, <1>6, LedgerNames DEF Ledger!Forget

LEMMA StepCounts ==
  LocksInv /\ LeftInv /\ [CPNext]_CPvars => [Ledger!Next]_Ledger!vars
<1> SUFFICES ASSUME LocksInv, LeftInv, [CPNext]_CPvars
             PROVE  Ledger!Next \/ UNCHANGED <<profile, history>>
  BY DEF Ledger!vars
<1>1. ASSUME NEW w \in Writers, CommitQuery(w) PROVE Ledger!Next
  <2>1. Row(w) \in Rows /\ event[w].age \in {"recent", "old"}
    BY QueryTyped DEF LocksInv, Ages
  <2> QED BY <1>1, <2>1, CommitQueryCounts, LedgerNames DEF Ledger!Next
<1>2. CASE CommitCleanup
  <2>1. goneRows \in SUBSET Rows
    BY DEF LocksInv, CPTypeOK
  <2> QED BY <1>2, <2>1, CommitCleanupIsForget, LedgerNames DEF Ledger!Next
<1>3. ASSUME NEW x \in Rows, Age(x) PROVE Ledger!Next
  BY <1>3, LedgerNames DEF Age, Ledger!Age, Ledger!Next
<1> QED
  BY <1>1, <1>2, <1>3
     DEF CPNext, Query, Cleanup, Begin, UpsertProfile, UpsertHistory, QueryFails,
         BreakDeadlock, Rollback, BeginCleanup, DeleteRow, BeginProfiles,
         DeleteProfile, CleanupFails, RollbackCleanup, tables, CPvars

(* The transactions of queries and cleanups, statement by statement and    *)
(* with their locks, are queries counted and rows forgotten in one step:   *)
(* at the readers' tables no interleaving of them can be told apart.       *)
THEOREM ProfilesImplementLedger == CPSpec => ImplementsLedger
<1>1. CPInit => LeftInv
  BY DEF CPInit, LeftInv, GoneAlone, ListComplete, HaveHistory
<1> QED
  BY <1>1, InitCounts, ProfilesInvariance, LeftStep, StepCounts, PTL
     DEF CPSpec, ImplementsLedger, Ledger!Spec

=============================================================================

# DNSNetra in TLA+

DNSNetra takes the DNS query log of an organisation from Kafka or from files,
gives every queried domain a verdict, and keeps histories, profiles and rollups
of the queries for a dashboard. This directory models the parts of it where
processes, transactions and time meet. Paths below are relative to `src/`.

## The system

| Component | State it keeps | Operations | Module |
|---|---|---|---|
| Detection pipeline `labeler/pipeline.py` | L1 cache per process | `evaluate`: L1, reputation table, trusted feed, malicious feed, reviewed-clean table, review row, providers; then one of four outcomes | `VerdictLifecycle` |
| Review store `labeler/intel/daily_review/repository.py` | `daily_review_domains`, `reviewed_clean_domains` | promote to clean or malicious, reschedule, record a failure, claim, recover stale claims | `ReviewStore`, `VerdictBoard` |
| Review worker `.../scheduler.py` | the batch it has claimed | `run_once`, `run_daemon` | `VerdictLifecycle`, `ReviewRetry` |
| Review API and CLI `api/routes/daily_review.py`, `.../cli.py` | none | verdict override, trigger; listings | `VerdictLifecycle` |
| Reputation store `labeler/intel/reputation/` | `reputation_domains` | store, look up, retention cleanup | `ReviewStore` |
| Correlation engine `labeler/intel/correlation/`, `intel/cache/` | memory cache per engine | ask the providers, score, cache, store malicious decisions | `Correlation`, `ReviewRetry`, `VerdictLifecycle` |
| Providers `labeler/intel/providers/` | key cooldowns and quotas | look-ups with retries and key rotation | answers in `Correlation` |
| Live pipeline `run_live_pipeline.py`, `bind converter/csv_writer.py` | Kafka offset, duplicate filter, dataset and feature files | consume, write five stores, commit, shut down | `LiveConsumer` |
| Domain profiling `domain_profiling/` | `domain_query_history`, `domain_profiles` | batch insert, upsert of counters, retention cleanup | seen by `RollupAggregator`, `LiveConsumer`, `UnknownQueue` |
| Client profiling `client_profiling/` | `client_profiles` and its history | one transaction per query, retention cleanup | `ClientProfiles`, `ClientLedger`; seen by `LiveConsumer` |
| Aggregator `aggregator/engine.py`, `run_aggregation.py` | two rollup tables, watermark, advisory lock | `run_incremental`, `run_rebuild`, `--loop` | `RollupEvents`, `RollupView`, `RollupAggregator` |
| Trusted feed `labeler/intel/{manager,updater,lock,database,downloader}.py` | SQLite file, lock file, next look per process, connection per thread | look up, refresh | `TrustedFeed` |
| Malicious feed `labeler/intel/malicious/` | SQLite file, its backup, the file being built, `flock` | look up, refresh, swap | `MaliciousFeed`, `AtomicFeed` |
| Unknown domain repository, batch pipeline `unknown_domain_repository/`, `run_pipeline.py`, `labeler/intel/unknown_domain_processor.py` | `unknown_domains` | profile a log, persist its unknown domains, list the new ones, evaluate, set the status | `UnknownQueue`, `OpenQuestions` |
| Users and sessions `api/routes/users.py`, `api/{auth,sessions,rbac,user_admin_policy}.py` | `dashboard_users`, `sessions` | log in and out, create, update, approve, disable, enable, revoke | `UserAdmin` |
| Login throttle, captcha, rate limits, heuristics, reporting, time engine, parsers, dashboard | attempt counters, files, none, or read-only | sequential or pure | not modelled |

How they interact. The live consumer calls the detection pipeline for each
message and then writes the dataset file, the history, the profiles and the
feature file, each in its own transaction or write. The pipeline, the review
daemon, API requests and a cron job share the verdict tables; nothing but
single transactions orders them. The engine has one cache per process, and so
has the pipeline. The aggregator reads the history that the live and the batch
pipeline write and that retention cleanup deletes. A lookup in either feed replaces
the feed's file when it has come of age, whichever process it runs in. The batch
pipeline asks the same engine about the domains no feed knows. Every API request
authenticates by a session row and reads the account it is about in one
transaction, writes it in another and revokes its sessions in a third.

What is hard. Several processes decide on one domain at once, on state they
read earlier (five stores, one after the other; a batch of claims taken fifteen
minutes ago). Two-transaction operations may stop half-way. Failed answers are
cached. Every counter is additive, so redelivery, a crash between two writes or
a second session counts twice unless something stops it. Ids of history rows
become visible out of order. Files are swapped by renames under locks that time out,
or that outlive their holder. Requests decide on roles that have changed by the
time they write.

What makes them correct. Verdicts have evidence; a closed review has its
verdict row; the pipeline does not ask about a known domain; a due review is
closed or rescheduled; no outage closes a review; the rollups are the exact
counts of a set of events; a message is passed over only when it is settled. A feed is
replaced as a whole and never by an older one; a fault costs the queue of unknown
domains one row and no more; client counters agree with client history; the last
principal stays, and who was removed has no session left.

## Modules

**ReviewStore** — the three verdict tables, one operator per transaction of the
two repositories. A review row is its status and two facts about its
timestamps, the only ones a query compares: `next_check_at` has passed (`due`)
and `updated_at` is older than the stale limit (`stale`). `Elapse*`
is the clock. `Mutant` operators next to a definition are used by the mutation
tests only.

**VerdictLifecycle** — composes the store with four kinds of process. `pc` is
the place in the code; each transaction, feed look-up and provider round trip
is an action, so processes interleave between any two. `l1` and `memory` are
the caches; expiry is an action that may strike an entry at any time, which
covers every TTL. `StorageRaises` is an exception at a table or feed, which
leaves `evaluate`, or which `run_once` turns into an API failure
(`RecordFallback`). `Crash` loses everything a process holds in memory. The
four outcomes of an investigation are an input here; `Correlation` computes
them. History variables (`flagged`, `vouched`, `purged`, `knownSince`) record
what happened and are read by no action.

**VerdictBoard** — what all those processes promise a reader of the verdict tables:
a handful of moves (evidence arrives; a verdict is stored, for which there must be
evidence; a review is opened, closed once its verdict stands, or cleared together
with one; retention purges). It has no processes, no caches, no claims and no clock.
`VerdictLifecycle!ImplementsBoard` is the refinement: `malicious` is
`reputation_domains`, `clean` is `reviewed_clean_domains`, and `review` the status of
the review row, as far as a reader tells the statuses apart (`Review`).

**Correlation** — the answers a provider can give, the weighted score, and the
order in which callers test the decision. **ReviewRetry** — one row under
review and one engine cache against a clock in hours: what hourly retries do
when failures are cached for six hours.

**RollupEvents / RollupView / RollupAggregator** — events by id; the abstract
promise, a materialized view whose tables are the exact counts of a growing set
of events; and the aggregator with its sessions, lock, watermark, batches and
rebuild, next to writers (ids are taken at insert, seen at commit) and
retention cleanup. `RollupAggregator!ImplementsView` is the refinement, the
abstract variables being the aggregator's own tables and the history variable
`counted`.

**LiveConsumer** — one consumer on one partition: the position, the committed
offset, the duplicate filter, the five writes of an event, and the end of a
life by signal, idle timeout or crash. A message is its duplicate key.

**MaliciousFeed / AtomicFeed** — three files (live, backup, new), each absent,
empty, without rows, stale or current; the `flock`, and where each process
stands in a lookup or in `perform_update`. Every file operation is an
action, so processes meet between any two, and any of them may fail or be the
last thing a process does. `AtomicFeed` is the promise of the docstring
(`updater.py:224`, "Atomically replace production database"): one feed,
published, expiring, or lost to a crash. `MaliciousFeed!ReplacedAsAWhole` is the
refinement; between the renames the abstract feed is the backup.

**TrustedFeed** — one list on disk, the lock file (which a dead process leaves
behind), the time of the next look per process and the open connection per thread.
A list is the time it was downloaded at.

**UnknownQueue** — the status of each domain and the runs of the batch pipeline,
each with the list it has read and the one domain in its hands. One `try` block
encloses a whole run, so a step that raises ends it (`End`). Three things keep a run
from the queue: a fault, a log longer than a page of `insert_history_batch`
(`LongLog`, no fault: it may happen in every run) and a log all of whose rows are
trusted or known malicious (`NothingUnknown`). Which rows are marked `unknown` is an
input (`SelectUnknown`): `domain_persistence.py:81` asks for a `ti_source` that the
labeller of this commit never writes, so that today the set is empty and the queue
holds what earlier releases stored; `Init` has such rows. The outcome is computed
from the three kinds of decision the processor tells apart. **OpenQuestions** is its promise:
a domain is a question, asked while it is open, settled once by the answer, open again
if the answer is lost, and never asked again after a verdict; a question that two runs
have listed is contended, and nothing is promised about it.
`UnknownQueue!ImplementsQuestions` is the refinement; whether a claimed row is still
open or already answered is read off the runs (`Answered`).

**ClientProfiles** — `process_query` and `cleanup_old_records` statement by
statement. What a transaction has changed keeps others from the row until it
commits (`HoldsProfile`, `HoldsRow`, `goneRows`, `goneProfiles`); statements
choose their rows by a snapshot and look again once they have the lock, as
PostgreSQL does under READ COMMITTED; a cycle of waits is broken by rolling one back.
`forgotten` records what cleanups have deleted. **ClientLedger** is the promise: a query
is counted in both tables at once, and a cleanup takes, in one moment, old rows and the
clients left without any. `ClientProfiles!ImplementsLedger` is the refinement, with the
committed tables as they are. (The `CP` in its names keeps them apart from those of
`LiveConsumer`, next to which they are proved.)

**UserAdmin** — accounts, sessions and requests. A handler authenticates, reads its
target, writes in one transaction and revokes in the next; logins check the
account and make the session in two steps. A session is `since` or `before`: made
before the account was last disabled or demoted.

The `MC*` modules give the constants their values for TLC. Each `.cfg` is one
run.

## Runs

| Run | Checks | Instance |
|---|---|---|
| `verdict_safety` | types, `ImplementsBoard`, `PipelineNeverReprocesses` | one domain, pipeline, worker and admin; one fault |
| `verdict_workers` | `VerdictsEvidenced`, `StatusBacked` | one domain, two workers, a trigger |
| `verdict_liveness` | `ReviewsResolved`, `MaliciousConverges` | one domain, one pipeline, one worker; one fault |
| `retry_clock` | types, `OutageRetryBound`, `OutageNeverCloses`, `DecisionsFresh` | the code's TTLs and intervals, a review interval shortened to 30 h, 70 hours |
| `rollup_pass` | types, `NothingSkipped`, `ImplementsView`, `PendingAbsorbed` | two sessions, one writer, four events, batches of two, one crash, one rebuild |
| `live_pass` | types, `CommittedSettled`, `CountedOncePerLife`, `ProfilesFollowHistory`, `MessagesSettle` | four messages (one repeated, one malformed), two faults, one stop |
| `malicious_feed` | types, `SwapRecoverable`, `ReplacedAsAWhole`, `StaleIsReplaced` | three processes, two faults, the feed comes of age twice |
| `unknown_queue` | `StrandedBound`, `OutcomeIsLastAnswer`, `ImplementsQuestions`, `VerdictIsFinal`, `QueueMoves` | two domains, two runs, chunks of one, one fault |
| `client_profiles` | `CountersAddUp`, `ImplementsLedger`, `RecentIsKept`, `QueriesEnd` | one client, two domains, two writers, four queries, a cleanup, one fault |
| `user_admin` | `RemovedIsRevoked`, `LastPrincipalKept`, `DisabledStaysOut` | two accounts, two handlers, four requests, one death |
| `trusted_feed` | `NeverOlder`, `OnlyStaleReplaced`, `AnswersFresh`, `LookupsEnd` | three threads in two processes, an interval of two, a clock to three, one fault |

These eleven pass. One more run ends in a violation, a disagreement between the code
and what the repository says of it, recorded under `findings`: `rollup_skipped` shows
that with two writers a row that commits late is never aggregated.

Known behaviour that the models show and no property forbids:

- A worker asks the providers about domains that are already reviewed clean: it never
  looks at the verdict tables, and a late `upsert_review_needed` reopens a row.
- A claim goes stale 15 minutes after it was taken, however much of the batch is still
  ahead, so two workers may investigate one domain at once (`verdict_workers` has it, and
  shows that the tables stay consistent).
- A rebuild recounts the rows that are left: what retention has deleted is gone from the
  rollups too.
- History and domain profile are two transactions; when the second fails the profile
  stays behind for good (`ProfilesFollowHistory` is the direction that does hold).
- A clean override (`api/routes/daily_review.py:242`) leaves the row of
  `reputation_domains`, which every reader looks at first, so it changes nothing for
  the next query.
- A failed lookup is cached for six hours like an answer, so the hourly retries of
  that time do not reach the providers (`correlation/engine.py:240`).
- A domain that OTX alone flags stays below the threshold and is promoted to clean.
- A crash of the live pipeline loses dataset rows that were buffered when their
  message was committed; a signal in the middle of a message closes the consumer before
  the commit, and the next life counts the message again.
- The malicious feed: `perform_update` cleans up outside the lock and can delete the file
  that the next updater is building (that update then fails and the old database
  stays or is put back). A death between the renames leaves no live database; a lookup then
  creates an empty file, answers "not malicious" and, having no `last_update` to go
  by, never refreshes it. So does a first install until somebody refreshes by hand.
- The trusted feed: a process that dies inside the lock leaves the lock file, and
  whoever finds the list due afterwards waits for good. A refresh by one thread moves
  the next look of its whole process while the others keep the old file open. A
  failed refresh raises out of `is_trusted`, and each later lookup tries again.
- The unknown queue: nothing ever resets `processing`, and the text of an exception is
  written to a JSONB column, which refuses it, so a failed evaluation ends the run with the
  row still `processing` and the rest of the list `new`. Overlapping runs overwrite
  each other's verdicts. A log of more than a thousand rows inserts its history and
  then raises, in every run that is given one: no profiles, and the queue is not
  listed. Nor is it for a log whose rows are all trusted or known malicious
  (`run_pipeline.py:192`), however many rows are waiting. Nothing new is queued either:
  `domain_persistence.py:81` stores the rows whose `ti_source` is `unknown`, and the
  labeller writes no such value. The live pipeline makes a
  processor and never calls it.
- Client profiles: a cleanup that waits for a profile which a query has just counted deletes
  it with the new history (`RecentIsKept` says when). The two transactions take their
  locks in opposite orders, and PostgreSQL ends one of them.
- Users: a target promoted between the read and the transaction is judged by its old
  role, and can be the last super administrator (`api/routes/users.py:463`, against
  the docstring at 142). A death between commit and revocation leaves the sessions of a
  disabled account, and a login past its check makes one; neither passes
  `get_session_and_user` while the account is disabled, both do once it is enabled again.

**Bounds, and why they are enough.** Domains never interact except through a
batch of claims, whose domains are taken one at a time, so one domain shows
every race on a row; two exceed seven million states, and the safety
properties are proved for any number. Two sessions of a kind are what a lock or a claim
can get wrong. One fault anywhere shows every half-done operation; the live
consumer gets two, so that a failed commit can meet a later crash. In the
rollup instances the events fall in two hours, two days and two domains, and a
batch is smaller than the backlog, so `LIMIT` cuts; four events let one batch
end where the other begins. In `ReviewRetry` the horizon of 70 hours holds two
TTLs of a malicious decision and two shortened review intervals; the proportions (retry
well under clean TTL, TTLs well under the review interval) are those of the code.
Three processes let one hold the feed's lock, one wait for it and one clean up;
with two faults a failed update can meet a death. Two overlapping runs and chunks of one
let a run list what another has half stored. One client is all two transactions
can fight over; four queries refill a row that a cleanup has marked. Two accounts and
two handlers hold a request on each other; the fourth request can enable again what
the third disabled. A clock of three passes an interval of two with an hour to
spare, and one process with two threads beside one with one has both kinds of
neighbour.
Deadlock is checked everywhere but in `ReviewRetry` (the row is closed and the horizon
reached), `UserAdmin` (the requests are used up) and `TrustedFeed` (everyone waits for
an orphaned lock file), where the system really stops.

**Fairness.** `verdict_liveness` assumes that the worker's loop runs
(`run_daemon` loops for ever; an operator must start it, `start_all.sh` does
not), that a pipeline finishes the query it has begun, that cache entries
expire and that time passes. Nothing makes queries, triggers or admins act, and
nothing makes providers answer well. The order in which claims are taken
(`ORDER BY next_check_at`) is left open, so with more than one domain a
due row could be starved by the model and not by the code: liveness is checked
with one domain. `rollup_pass` assumes that each session's next step is taken
(`run_aggregation.py --loop`), but not that it gets the lock at a given time.
For both the fairness only matters to the liveness property; it does not narrow the
reachable states the invariants range over.
`live_pass` assumes that the loop takes the messages that are there and that a
stopped process is started again; there is no supervisor in the repository, so
that last one is an assumption on the operator.
`malicious_feed` assumes that lookups keep coming (the live pipeline makes one per
message) and that a waiter who finds the polled lock free again and again gets it
(strong fairness of an update's steps); faults are bounded and never required.
`StaleIsReplaced` is conditional on cleanups ceasing to meet builds, which nothing in
the code brings about. `unknown_queue` assumes that the batch pipeline is started again and
goes on, which its operator sees to. What logs it is given nothing decides: `QueueMoves`
is conditional on runs that get as far as the queue (`LogsReachTheQueue`), as runs over
long logs or over known domains alone do not. `client_profiles` assumes that statements are executed
once their row is free, that PostgreSQL finds deadlocks, and, since a cleanup is a daily
matter, that no query is passed over each time one ends (strong fairness).
`trusted_feed` assumes only that a thread in a lookup goes on.

Every property of a passing run has a mutant: a plausible bug in one mapped
definition under which TLC finds the property violated.

## Proofs

`VerdictLifecycle_proofs` proves, for any sets of domains and processes and any fault
bound (assuming only that the sets of processes are disjoint and that `None`
is not a domain):

- `TypeCorrect`. `TypeOK` is not inductive alone: an action that indexes a
  function with `job[i]` needs a domain there. `Typed` adds `HandsFull`: a process
  that is not idle has a domain in hand, an idle one no decision.
- `VerdictsAlwaysEvidenced`. The invariant follows the evidence through the
  engine's memory (`MemoryEvidenced`) and the decision in hand
  (`DecisionEvidenced`) into the tables.
- `StatusAlwaysBacked`. Between the two transactions of `promote_to_malicious`
  the verdict is already stored (`StoredBeforeStatus`); retention does not
  remove a row that was stored a moment ago (`JustStored`), which is the one
  timing assumption: 180 days against one statement.
- `PipelineStopsAtKnownDomains`. What `knownSince` holds is in one of the two
  verdict tables (`KnownSound`), and once a pipeline has passed the reputation table
  it is in the one still to be read (`StoppedInTime`).

- `ProcessesImplementBoard`, the refinement of `VerdictBoard`. It needs the evidence
  and the backing invariants above: a `promote_to_malicious` is `Condemn` only because
  the decision in hand has evidence, and its second transaction is `CloseMalicious` only
  because the first has stored the verdict and nothing has purged it since.
- `BoardStaysSound`, about `VerdictBoard` alone: its moves leave no verdict without
  evidence and no closed review without its verdict. With the refinement this is the
  argument for the tables in two lines.

Each of the first four is an inductive invariant: `Init` establishes it, one lemma with one step
per action shows `Next` keeps it, PTL closes the argument. The type lemmas of the
store (`StoreTyped`, `SweepTyped`) and of control (`FinishTyped`,
`PopulateTyped`) are cited throughout.

`RollupAggregator_proofs` proves, for any history, sessions, batch size, rebuilds and
crashes:

- `AggregatorImplementsView`, the refinement of `RollupView`. A session that works
  holds the lock (`HoldsLock`), so the watermark it goes by is the table's
  (`WatermarkCurrent`) and its batch lies above it (`BatchAhead`); everything counted
  lies below (`BelowMark`), so the batch is disjoint from it and the counts add up
  (`CountsAdd`). A batch is an `Absorb` of the view, a truncation its `Reset`, every
  other step a stutter.
- `OrderedCommitsSkipNothing`: beside any number of writers no row is missed as long as
  rows become visible in the order of their ids (`OrderedCommits`). What is still in a
  transaction is then newer than the watermark (`WritersAhead`), and a fetched batch has
  no holes (`BatchComplete`, from `FirstRowsClosed`: `ORDER BY id LIMIT n`).
- `OneWriterSkipsNothing`: a single connection commits in that order. Two do not have
  to, and `rollup_skipped` is TLC's counterexample, so the first theorem names
  what a repair could ensure.
- `TypeCorrect`. The library has no theorem that a set of ids has a largest;
  `MaxOfIds` derives it from the well-foundedness of `<`, and `LimitHolds` and
  `MarkTyped` rest on it.

`LivePipeline_proofs` proves, for any topic, keys and bounds, about `LiveConsumer`:

- `CommitsOnlySettled`. A commit takes the position, so the invariant is about the
  position: what it has passed is settled, except the message in hand that is not yet
  written (`PassedSettled`); a message the duplicate filter skips is settled because
  the filter's keys are (`SeenSettled`); a new life starts at the commit, for
  which the property itself is the hypothesis (`ResumeSettled`).
- `ProfilesStayBehind`. Between its two transactions `process_dataframe` has the
  history one query ahead (`HistoryAhead`).
- `EventsCountOncePerLife`. No store counts an event more often than the process has
  been started. An event the filter does not have has been counted by earlier lives
  only; the one in hand has still its own count to come in the stores after the
  present step (`EarlierOnly`). Counting each event by itself keeps this free of sums.
- `TypeCorrect`, with `PositionSound`: a message is in hand while one is processed.

and, for any clients, domains, writers and faults, about `ClientProfiles`:

- `CountersAlwaysAddUp` and `ProfilesTypeCorrect`. The sums over the rows of a client are
  cardinalities (`VisitsIn`, `RowsOf`), so that the theorems about finite sets apply to
  them. The invariant is in two parts. `LocksInv`: one writer holds a profile
  (`OneHolder`), what a query is about to add to is not being deleted and what it has seen
  of it still holds (`QuerySound`), the cleanup deletes old rows, and a profile only with
  all its rows, unless a query has overtaken it (`GoneSound`). `LedgerInv`: the property
  itself, with a client that has no profile owing nothing (`NewIsEmpty`).
- `RecentRowsAreKept`, the action property, from the same invariant.
- `ProfilesImplementLedger`, the refinement of `ClientLedger`. `CommitQuery` is its
  `Count` and `CommitCleanup` its `Forget`, for which `LeftInv` says that a row goes
  because it is old or with its profile (`GoneAlone`), that no profile which is left without
  history has been missed (`ListComplete`), and that no other is without it (`HaveHistory`).

`MaliciousFeed_proofs` proves, for any number of processes and faults:

- `SwapAlwaysRecoverable`. Whoever is inside the locked part has the lock alone
  (`HoldersLock`), although waiting for it times out; after validation the new file is
  whole or gone, whoever cleans up (`NewIsWhole`); an old backup is gone before
  the live file is moved (`NoOldBackup`); and nothing comes in its place in between but
  what a reader's `connect` creates (`NothingInPlace`).
- `UpdateImplementsAtomicFeed`, the refinement of `AtomicFeed`. `MoveIn` publishes,
  `Age` expires, a crash between the renames loses; every other step leaves the
  abstract feed alone, which takes `OnlyOneUpdating` and `AwayFromSwap`.

`TrustedFeed_proofs`, for any threads, processes and intervals: `ListsNeverAge`,
`UpdatesAreNeeded`, `AnswersAreFresh`. The invariant has the lock (`LockHeld`), the order
of all times with the clock (`Ordered`), what an updater has seen under the lock
(`Updating`), what a lookup past its update may rely on (`Ready`), and, for a thread
that is alone in its process, that the next look comes before its open list is due
(`OpenFresh`).

`UnknownQueue_proofs`, for any domains, runs and faults: `OutcomesAreAnswers` and
`VerdictsAreFinal` rest on a row that is not shared being on one list (`OneList`), still
open there (`ListedOpen`), with the decision in hand its last answer. `StrandedIsBounded`
charges each stranded row to a fault: a run strands at most the one it has in hand, and
only by a faulty step. `RunsAnswerQuestions` is the refinement of `OpenQuestions`: a
claimed row is in processing unless it is shared (`ClaimedProcessing`), and a row that is
not shared is in the hands of one run, so that a step of another changes no question.
`QuestionsStaySound` is about the abstract module alone: a verdict is the one of the last
answer.

`UserAdmin_proofs`, for any users and handlers: `PrincipalsAreKept` and
`ApprovalsDoNotReopen` (only the commit of a request to activate an account does) are proved step by step from `IInv` (types, and `Shape`: what an
enabling or disabling request carries). A commit that keeps to `PrincipalRemains`
leaves a super administrator, and a request that may skip the check does not lower a
privileged account unless the role it read is out of date. `RemovalsRevoke` is inductive
together with `IInv`. `SerialRequestsKeepASuperAdmin` says what the exception in
`PrincipalsAreKept` costs: where requests are served one at a time (one handler) a
transaction sees the account that was read (`ReadsCurrent`), and there is always an
active super administrator.

`ReviewRetry_proofs`, for any TTLs, intervals and weights: `DecisionsAreFresh`, which
measures a decision's age from when the providers were last asked, where a hit goes by
the entry's own hour: `Remembered` says the two are the same, so no hit has renewed it;
and, for a threshold above zero, `OutagesAreRetried` and `OutagesCloseNothing`, from
`Retried` (the retry of a failed row is due within the TTL of the failure plus one
interval) and `FailureSeen`. At a threshold of zero a failed lookup would score as malicious.
About the scorer and its callers (`Correlation`), for all weights and every pair of
answers: `FlagsNeverAbsolve` (one more flag never takes a malicious verdict back),
`LoneFlagNeedsWeight` (a domain that one provider flags is malicious exactly if that weight
reaches the threshold, and otherwise recorded as clean, never as inconclusive) and
`CleanNeedsRecord` (no clean verdict comes from the absence of answers).

Everything rests on the named `ASSUME`s of the modules (sizes are naturals, sets of
processes are disjoint, hours are naturals) and on the theorems of the proof library
about finite sets and well-founded relations.
The types of `ClientProfiles`, `UnknownQueue`, `UserAdmin` and `TrustedFeed` are proved
and are not repeated as invariants of the runs. Each strengthened invariant was checked
with TLC on the instance of its run before it was proved.

Only model-checked: liveness (`ReviewsResolved`, `MaliciousConverges`, `PendingAbsorbed`,
`MessagesSettle`, `StaleIsReplaced`, `QueueMoves`, `QueriesEnd`, `LookupsEnd`), because the
prover does not reason about fairness or `ENABLED`. Every safety property of a passing
run, state invariant, action property or refinement, is a theorem; `NothingSkipped` is one
while commits are ordered, since otherwise it is false, as `rollup_skipped` shows.

## Not modelled, and why

- Heuristics and labels: they colour an inconclusive verdict's text and score
  and lead to no state change. Domain parsing, enrichment and feature extraction:
  data, no control.
- An engine without any configured provider returns an uncached decision with
  no result; callers treat it as inconclusive. It is an inconclusive answer whose
  cache entry expires at once.
- `record_observation` and the other counters on verdict rows: no decision
  reads them.
- `max_batches` of the aggregator is used by tests only; a missing state row
  makes the code return an error and does not occur after `initialize_schema`.
- Kafka: one partition, which is all the ordering the consumer relies on. What a
  rebalance and a commit after `close` do is external behaviour: the group
  resumes at its committed offset; a consumer that has left the group cannot commit.
- A labelling exception in the live pipeline labels the query "Benign"
  (`run_live_pipeline.py:700`); `LiveConsumer` does not look at labels.
- `process_line` (file ingestion in the live pipeline) has no caller.
- Provider keys (`key_manager.py`): rotation and cooldown happen inside one lookup and
  decide only whether its answer is unavailable, which is an input of `Correlation`. A
  rate limit that arrives after a key was banned for a day shortens the ban, because
  `mark_rate_limited` overwrites; nothing but the rate of failures depends on it.
- Login throttle, captcha, API rate limits, password reset codes and temporary
  passwords: counters against a clock and secrets, on the way to the one fact `UserAdmin`
  keeps, that a login was accepted. Expired sessions are a log-out nobody asked for.
- SQLite's WAL files, the parsing of feeds and what is in them.
- Columns of profiles that no control depends on (per-verdict counters, last domain,
  `first_seen`), and the label reconciliation of `update_final_labels_batch`.
- Reports, investigation, dashboard queries and `wipe_data.py`: reads of the tables, or
  a maintenance script run by hand on a stopped system. The time engine and the parsers
  are pure. `dns/` is an older copy of the program beside vendored material; the modules
  describe the current one at the top of the repository.

## Plan

Built, in this order: `ReviewStore`, `VerdictLifecycle`, `Correlation` and
`ReviewRetry`, the three rollup modules, `LiveConsumer`, `MaliciousFeed` with
`AtomicFeed`, `UnknownQueue`, `ClientProfiles`, `UserAdmin`, `TrustedFeed`, and the abstract
`ClientLedger`, `VerdictBoard` and `OpenQuestions`.

The set of runs is kept to a dozen, so that it stays quick to repeat: a module has one
passing run that checks its safety, its refinement and its liveness together. A
divergence of code and docs that is no longer run by itself is listed above under known
behaviour.

Open, in the order of their worth:

1. The label reconciliation of domain profiling against the invariants that
   `investigation/service.py` raises on.
2. Provider keys under concurrent lookups, composed with `Correlation`.
3. The login throttle and the reset codes, once a property is worth stating about them.

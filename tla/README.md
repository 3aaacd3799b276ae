# Verification of the reliability layer

TLA+ models, TLC configurations and TLAPS proofs for `self-hosted/reliability/` of
`poh-pr-agents`: the service that takes GitHub webhooks, runs pr-agent on pull requests
and must never end in silence. The modules are written from the Python source; line numbers
refer to files in `self-hosted/reliability/` unless a path is given.

## 1. The system

Three kinds of process (`self-hosted/docker-compose.yml`), each restarted when it dies,
share one volume with two SQLite files (WAL, `busy_timeout` 5 s):

    GitHub --webhook--> ingress --record_received--> reliability.db  (events, claims, reconcile, seq,
                           |                              ^  ^        jobs, chunk_findings)
                           +----enqueue---> queue.db      |  |
                                             ^  |         |  |
                     sweeper --enqueue-------+  +-lease-> worker x N --analyze--> gateway --> pr-agent --> GitHub
                        +------transition, reconcile------+                                      ^
                        +------------------------ escalation / failure comment -------------------+

| Component | State it keeps | Operations | Talks to |
|---|---|---|---|
| Durable queue (`queue.py`) | `messages`, `dead_letters`, `partition_service`; a connection and a `threading.Lock` per process | `enqueue`, `lease` (+ poison-guard), `ack`, `nack`, `defer` | ingress, worker, sweeper through `queue.db` |
| State store (`state.py`) | `events`, `claims`, `reconcile`, `seq`, `jobs`, `chunk_findings` | `record_received`, `transition`, `increment_attempt`, `already_done`, `in_flight`, `stale`, `try_claim`, `release_claim`, counters; `create_job`, `record_chunk_finding`, `job_all_reported`, `try_start_reduce`, `job_findings` | all processes through `reliability.db` |
| Ingress (`ingress.py`, `app.py`, `webhook.py`) | none; its connection may keep a transaction open | `handle_webhook`: parse, enrich, `record_received`, `schedule` | state store, queue |
| Supervisor (`supervisor.py`) | none | `process`: dedup, claim, attempt, outcome | state store, gateway |
| Worker (`worker.py`) | the lease in hand; abandoned threads | `run_once`, `handle_lease`, `run_with_timeout`, dead-letter path | queue, supervisor, notifier |
| Sweeper (`sweeper.py`, `_adapter`, `_runner`) | rows of one SELECT, list of open PRs | `sweep`: stale rows, reconciliation, escalation | state store, queue, GitHub |
| LLM gateway (`gateway.py`) | breaker per provider, token bucket, per worker process | `Gateway.run` | pr-agent |
| Map-reduce (`mapreduce_worker.py`, `mapreduce.py`, `reduce.py`, `ack.py`, `chunk_review.py`) | rows of `jobs`, `chunk_findings`; chunk and reduce messages | `route_and_fanout`, `_handle_chunk`, `_progress_and_maybe_reduce`, `_handle_reduce` | queue, state store, model, GitHub |
| Chunk planning (`chunking.py`, `sizing.py`) | none (pure) | `classify`, `plan_chunks` | map-reduce |
| GitHub client, notifier (`github_client.py`, `notifier.py`) | none; the comments are its state | `upsert_comment`, listings | GitHub, tokens |
| Installation tokens (`token.py`, `analyze_adapter.py`) | one cache and lock per process | `get`, `_exchange` | GitHub client, analysis |
| Autoscale, metrics, Sentry, logging, Issue reports, quality evaluation, load test | counters | — | — |

**Hard behaviours.** SQL statements of several processes interleave (a SELECT decides, a
later UPDATE writes); leases time out while their worker is alive; `run_with_timeout` cannot
stop a thread, so an abandoned analysis goes on and may publish; a worker, the sweeper or a
webhook call dies between any two writes, and the two databases are never written in one
transaction; the sweeper works on a snapshot; a message can exist twice; backpressure must
not look like failure; the fan-in of a large review is a race that one worker has to win;
webhooks are lost, doubled and overtaken by what the author does next; comments on GitHub are
read page by page and changed by several processes with no lock; a token may run out under the
analysis that uses it.

**What makes each part correct.** Queue: exclusive leases, nothing lost, one fate per
message, bounded receives. Pipeline: one analysis per business key at a time, DONE means that
an analysis has returned, terminal is final, no false alarm, no silent death, every event ends, every
key is answered. Map-reduce: one fan-out, one reduce, complete reviews, every job answered. Gateway:
bounded rate, cheap outages, no failure hidden behind an outage. Planner: every file in one place,
chunks fit, budget kept. Intake: every head that stays up for review is answered, whatever happened to its webhooks, and reconciliation is bounded. Publication: a token outlives the
attempt that took it, the last comment of a marker is never deleted, duplicates heal. The hazards are listed with their lines in `PROJECT.json`.

## 2. Modules

| Module | Models | Interaction |
|---|---|---|
| `WorkQueue` | what a work queue promises: a put message is taken by at most one worker at a time and is finally acked, dead or pending | abstract specification of `DurableQueue` |
| `DurableQueue` | `queue.py`, one action per SQL statement or transaction | refines `WorkQueue` |
| `DurableQueueProofs` | theorems about `DurableQueue` | extends it and TLAPS |
| `Pipeline` | ingress, worker, supervisor, sweeper and their tables | uses the queue at the granularity `DurableQueue` justifies: a call is one step and a lease in force is nobody else's |
| `PipelineProofs` | theorems about `Pipeline`: types, what DONE and DEAD_LETTER promise, custody, terminal states | extends it and TLAPS |
| `PipelineOutcomeProofs` | theorems about `Pipeline`: claims, alarms, who is dead-lettered | extends `PipelineProofs` |
| `MapReduce` | the review of one large pull request in parts | same queue granularity; leases may be outlived |
| `MapReduceProofs` | theorems about `MapReduce` | extends it and TLAPS |
| `Gateway` | one worker's breakers, bucket and pool | its outcomes are the three conclusions of an analysis in `Pipeline` |
| `GatewayProofs` | theorems about `Gateway` | extends it and TLAPS |
| `Chunking` | `classify` and `plan_chunks` | its chunks are the constant `Chunk` of `MapReduce` |
| `ChunkingProofs` | theorems about `Chunking`, and the lemmas on sums and sorting they need | extends it, FiniteSetTheorems, FunctionTheorems, WellFoundedInduction and TLAPS |
| `Intake` | the pull request and its author, webhooks, `webhook.py`, ingress, what the sweeper lists and reconciles, the write lock of `reliability.db` | an event of `Intake` that is queued ends as `Pipeline` shows |
| `IntakeProofs` | theorems about `Intake` | extends it, FiniteSetTheorems and TLAPS |
| `TokenCache` | `token.py` and the token of an attempt | its threads are those of `Pipeline`'s workers |
| `CommentUpsert` | `upsert_comment`, request by request | the comment of `Pipeline`, `MapReduce` and `Intake`, which is one step there |
| `Publication` | their composition: every request takes a token first | `TokenCache` and `CommentUpsert` |
| `PublicationProofs` | theorems about `Publication` | extends it, FiniteSetTheorems, WellFoundedInduction and TLAPS |
| `MCDurableQueue`, `MCPipeline`, `MCPublication` | symmetry sets, and the homes of the threads, for TLC | |

Definitions ending in a word like `Always`, `Twice` or `Early` and marked *mutant* are
deliberately wrong variants of the definition next to them. They are not used by any
specification: each property was seen to fail when its definition is replaced by one of them
(the pairs are in `PROJECT.json`).

### 2.1 DurableQueue

`messages` is the table (0 for SQL NULL), `deadLetters`, `lastServed`, `lastId` the other
tables and AUTOINCREMENT, `lastToken` the source of new lease tokens. Per process: `op` is the
queue call it is in with what that call has read, `hold` the `Lease` its caller works on.
`lease()` is `LeaseStart` (clock, :83), `LeasePick` (:86-99), `LeaseRead` (:100-102) and
`LeaseClaim` (:125-141) or `LeaseBury` (:106-118); `nack()` and `defer()` are `SettleRead`
and `NackWrite` or `DeferWrite`; `ack()` and `enqueue()` are one statement. `writer` is the
process that has left a write transaction open (the DELETE of the poison-guard that matched no
row, :107-118): other writers then fail (`WriteRefused`, the process dies and is restarted).
`Crash` is possible anywhere. With `Pauses = FALSE` a call of the queue and the work on a lease
end within the visibility timeout, which `resolve_timeouts` (worker.py:180-199) arranges for
events (TASK < VISIBILITY); with `TRUE` a process may stall as long as it likes.
The clock is an integer; equality at a deadline is included, as in the SQL.

### 2.2 Pipeline

`events`, `claims`, `cycles` are the tables; `queue` has up to `MaxCopies` messages per
delivery, each with its receives; `ingress` the deliveries recorded and not yet enqueued;
`main[w]` the main thread of a worker (`handle_lease`), `thread[<<w, "own">>]` and
`thread[<<w, "orphan">>]` the thread that runs `process()` and one it has abandoned; `sweep` the
pass of the sweeper with the rows its SELECT returned; `returned` the keys an analysis of which has
returned to `process()`, `comments` those with a failure or escalation comment. Every committed
statement is an action, so any two processes interleave between statements, and `IngressCrash`,
`WorkerCrash` and `SweepCrash` may come between them; a GitHub or database error that escapes
`run_forever` or `sweep` is such a crash.

Time is abstracted to what it orders: a row becomes stale (`Age`) only while nobody works on it
(TASK < STALE_DEADLINE); a lease lapses only when its worker is gone, which is `Pauses = FALSE` of
`DurableQueue`. A pass of the sweeper may begin at any moment (`SweepStart`; every
SWEEP_INTERVAL, sweeper_runner.py:72-81), also when a stale row has a message in the queue or in somebody's hands:
because the backlog is longer than the deadline, because a worker has just leased it and not yet written
to the row, or because the pass before has enqueued a QUEUED row, whose `updated_at` it does not touch
(sweeper.py:80-87). `Overtakes` names those passes and the history variable `overtaken` counts them;
`abandoned` remembers that an analysis has been left to an orphaned thread. Several properties are stated up
to one of these two events, because they are false afterwards (section 4).

`attempts` saturates at `MaxAttempts` and `cycles` at `MaxCycles + 1`, beyond which the code does not
distinguish them. `transition` is one step although it reads and writes: see the module's
comment. pr-agent is external and modelled as the caller sees it: `analyze` returns (`AnalysisReturns`), raises,
or is held back; after a timeout its thread may still return. A normal return says nothing about GitHub:
pr-agent may swallow an error (sweeper.py:6-8, analyze_adapter.py:26-28), and a `/review` that is routed to
map-reduce returns after the fan-out (worker.py:251-257). What is then published is the subject of `Intake`
(`Complete`, `activity`) and of `MapReduce`.

### 2.3 MapReduce

`job` is the row of `jobs`, `findings` the table `chunk_findings`, `queue` one message per
delivery of the event, per chunk, and for the reduce; `work[w]` the program counter of a worker.
The counters `done_chunks` are not kept: the code counts the findings again with every report,
and so does `Reported`. Chunks and reduce run without `run_with_timeout`, so with
`Overruns = TRUE` a lease may lapse under a worker that goes on. The model may answer a chunk with the empty
string (chunk_review.py:61); `synthesize` then names the chunk neither among the reviewed nor among the missing
(reduce.py:30-31, 40), which is what `review` keeps. `blank` are the chunks that have once been reported so.
`mishaps` counts deaths, refused writes and lapses, `faults` refused calls while planning, `refused`
refusals of the review.

### 2.4 Gateway and Chunking

`Gateway` has the real arithmetic of bucket and cool-down over integer time; a call takes up to
`AttemptTimeout`. `spent` and `outage` are history variables for the properties: calls begun at
each instant, and the run of consecutive failures of each provider. `Chunking` runs the loop of
`plan_chunks` file by file over every diff of a bounded size, with the real token formula; path
patterns are abstracted to the kind of a file (core, tests, config, docs, generated). The token
counters `cur_tokens` and `spent` are the sums `Weight` of the files they stand for, and the sort is
the list in which every file is `Before` the next (`Sorted`), which its key makes unique.

### 2.5 Intake

`pr` is the pull request (head, open, draft, stop label), `wire` the webhooks GitHub has sent with the
labels their payload shows, `events` the rows, each with the head of its business key, `hand` the
delivery between `record_received` and `schedule`, `cycles` the table `reconcile`, `sweep` the pass of
the sweeper, `answered` and `activity` what the bot has said. A webhook that is never received is
lost; one that is received twice is a duplicate. `Parsed` is `parse_events` with `enrich_events`: the
head of a comment's event is the one the branch has when the comment is treated. `holding` is the
write lock: `record_received` (state.py:144-158) catches the IntegrityError of a duplicate without a
rollback, so the transaction its INSERT opened stays open until ingress commits for a later
webhook or is restarted, and every other process's write fails after `busy_timeout` (`Refused`,
`Drop`). Workers are reduced to the outcomes `Pipeline` shows. `Completed` is looked up anew in each pass, as
`has_completed_review` is, and `Forget` lets the bot's comments go away again (a deleted comment; sweeper.py:110-112
anticipates an answer that flaps); `lost` counts how often. New deliveries take the next
free id (`NewHook`, `NewRecon`), for ids are interchangeable.

### 2.6 TokenCache, CommentUpsert and Publication

`cache` holds for each process the expiry it believes in and the true one, which differ when `expires_at`
cannot be read; `exchanging` the threads inside `_exchange`, each with the lock of its process;
`attempt` the analysis of each thread with the expiry of the token it took. `comments` tells for every
comment id whether it is unused, somebody else's, the bot's with the marker (and which call wrote its
body), or deleted; `upsert` the call of each thread with the page it reads and the matches it
has. A page is what GitHub shows at the moment of the request, so a deletion between two pages
shifts comments past the reader. PATCH and DELETE of a comment that is gone raise (`Gone`), because
urllib raises for 404, and a failing request ends the call anywhere. In `Publication` each
request takes a token by `get()` first, an exchange being steps of its own.

## 3. Runs

| Run | Question | Bounds | Properties |
|---|---|---|---|
| `DurableQueue` | is it an exclusive at-least-once queue? | 2 processes, 2 messages in 1-2 partitions, 2 receives, 3 ticks, visibility 2 | `TypeOK`, `ExclusiveLease`, `OneFate`, `AttemptsBounded`, `LeaseRespected`, `ImplementsWorkQueue` |
| `DurableQueueStalls` | what survives workers that outlive their leases? | 3 processes, 1 message, visibility 1, stalls | `NothingLost`, `OneCurrentHolder` |
| `Pipeline` | do claim, graph and counters agree with what happened? | 1 webhook and 1 reconcile event of one key, 2 messages of each, 2 workers, sweeper at any moment, 2 attempts, 1 crash anywhere, webhook analyses that time out, up to `Explored` | `TypeOK`, `OneAnalysisPerKey`, `NoFalseAlarm`, `DeadOnlyAfterFailure`, `TerminalIsFinal` |
| `PipelineLive` | does every event end and every key get an answer? | 1 worker, webhook and reconcile event, sweeper with 1 pass that overtakes a waiting message, 1 crash anywhere, fairness | `NoSilentDeath`, `DoneMeansReturned`, `EveryEventEnds`, `EveryKeyAnswered` |
| `MapReduce` | are fan-out and fan-in exactly once, reviews complete, live jobs answered? | 2 deliveries of the event, 2 chunks, 2 workers, overruns, 2 receives, empty answers, 1 mishap, 2 refused calls, fairness | `TypeOK`, `ReduceOnce`, `FanOutOnce`, `ReviewAccountsForAll`, `ChunkTracked`, `EveryLiveJobAnswered` |
| `Gateway` | rate, outage cost, honest verdicts | 2 providers, threshold 2, reset 2, bucket 2, 6 ticks | `TypeOK`, `RateBounded`, `OutageIsCheap`, `OpenIsJustified`, `OutageMeansAllOpen` |
| `Chunking` | is a plan complete and within budget? | every diff of up to 3 files, 5 kinds, 3 sizes, 3 total budgets | `TypeOK`, `EveryFileAccounted`, `ChunksFit`, `BudgetKept` |
| `Publication` | do tokens last and comments stay? | 1 worker with a main thread and an analysis, 1 other caller, pages of 2, 3 comments, 3 ticks, 1 failed request | `TypeOK`, `PaidWorkIsDelivered`, `NeverSilenced`, `ExchangedOnlyWhenStale`, `HealsToOne` |
| `Intake` | is every head that stays up for review answered? | 2 webhooks, 3 reconcile events, 2 heads, 2 changes by people (deleted comments included), 1 cycle, verify on, 1 crash, fairness | `TypeOK`, `ReconcileBounded`, `EveryHeadAnswered` |
| `DurableQueueLateNack` | expected violation | as `DurableQueue`, with stalls | `LeaseRespected` |
| `PipelineRequeue` | expected violation | 1 webhook event, 2 workers, 1 overtaking pass, no crash | `NeverAnalysedTwice` |
| `MapReduceLost` | expected violation | 1 worker, 1 crash, fairness | `EveryJobAnswered` |

**Why the bounds are enough.** Every race in this code is between two actors over one row, key
or job, and most between two statements of one call and one step of somebody else: two
processes, one row and one spare (a second message, a reconcile event, a second chunk) produce
them, and a third process in `DurableQueueStalls` lets a lease change hands twice under a
stalled one. Two receives reach both the retry and the exhausted branch; visibility 2 in 3 ticks
reaches grant, expiry, re-grant. One crash puts a crash between any two statements. In
`PipelineLive` one attempt is enough to reach the poison-guard and both dead-letter paths; the
reconcile event and the webhook event can be in flight for one key, so the loser of the claim is
covered; with `MaxCopies = 1` its second message enters the queue when the first has left. `Explored`
(MCPipeline) ends the exploration of `Pipeline` at the first overtaking pass, beyond which its four conditional
properties say nothing, and follows abandoned analyses among webhook events only, for the size of the instance;
`PipelineLive` and `PipelineRequeue` go on beyond an overtaking pass, and the theorems of section 5 cover
the rest. In `MapReduce` two refusals
against two receives let a review be refused until its message is dead-lettered. In `Gateway` six ticks allow threshold, cool-down, failed probe and a second cool-down.
Files of 40, 52 and 148 tokens against a chunk of 100 and totals of 100 and 190 reach every
branch of the packing loop. In `Publication` a page of two and three comments allow a second page, a
shift and a duplicate; the token lives three ticks (or is believed to live two) with a margin of one,
so it is fresh, within the margin and expired. In `Intake` two heads let one be overtaken by a
push and its events be in flight at the same time as those of the next, two webhooks allow a
duplicate and a late one, and one cycle reaches reconciliation, escalation and the silence after it; a vanished result
starts a second round, and the third reconcile event leaves one for the other head.

**Symmetry** is used for the processes and partitions of the queue runs and the workers of the
safety runs of `Pipeline`, which the specifications never compare, and in no liveness run.

**Deadlock** is checked where the system never rests: with the bounds of the queue, pipeline and
gateway something is always possible (a worker polls, the sweeper sweeps; when the queue's clock
has reached `MaxTime` a worker can still begin `lease`). In `Intake` the
sweeper always sweeps again. `CHECK_DEADLOCK FALSE` is set for `MapReduce*` (all messages handled: the
workers of this module have nothing else to poll for), `Chunking` (a plan is finished) and
`Publication` (its clock and its comment ids run out).

**Fairness** (`FairSpec`).

- `Pipeline`: weak fairness of what the operating system schedules and compose restarts, per process:
  `Schedule` of ingress, `MainStep` with `Plan` of every worker, `SweepStart` and `SweepStep` of the sweeper,
  which sleeps SWEEP_INTERVAL and goes on, and `Age` of every row, for time passes. A message has strong fairness of
  being leased or buried: `lease` serves the longest-waiting partition and the oldest message in
  it (queue.py:90-94), so one that keeps being available is reached although other work makes workers
  busy in between. Nothing obliges the gateway to let an analysis through, and an abandoned thread has no fairness.
  That outages end (`OutagesEnd`, strong fairness of `Conclude`) is not part of `FairSpec` but the
  antecedent of `EveryEventEnds` and `EveryKeyAnswered`: in an outage without end the event is deferred for ever.
- `MapReduce`: the same; some message that waits is taken (weak fairness).
- `Intake`: weak fairness of `Schedule`, `Work`, `SweepStart` and `SweepStep`, strong fairness of `List`,
  for a listing that is tried in every pass finally succeeds. No webhook has to arrive, and the author
  has to do nothing.

Crashes have no fairness and are bounded: a process that crashes for ever finishes nothing.
`EveryEventEnds`, `EveryKeyAnswered` and `EveryHeadAnswered` hold with the crash included.
`EveryLiveJobAnswered` and `ChunkTracked` promise nothing once a worker has died, was refused a write or outlived
a lease (`MapReduceLost` shows why), and the first nothing for a review that GitHub refuses `MaxAttempts` times.

## 4. What the runs show

The queue implements the abstract work queue as long as workers respect their leases, with crashes
anywhere; when they do not, messages still do not disappear and at most one holder's token is
valid. Until a pass of the sweeper takes up a row whose message is still outstanding, and as long as no
analysis is abandoned at a timeout, a business key is analysed once at a time across replicas, crashes and
reconciliation, and no failure comment appears for a webhook event that is DONE; up to such a pass, abandoned
analyses included, backpressure never dead-letters an event and nothing revives a finished one. DONE
is never recorded unless an analysis of the key has returned, orphaned threads and second copies included;
that the result is on GitHub does not follow (below). One crash of any process is survived: if outages end,
every event ends and every key is answered, and so is every head of a branch that stays open for review,
although no webhook ever arrives for it, unless ingress holds the write lock for ever. Reconciliation starts
at most `max_cycles` events for a head, and as many again each time the bot's comments have vanished.
A published review accounts for every chunk of its job that did not come back empty.
Overlapping upserts may leave two comments or lose the words of one, but never remove the last,
and the next call that runs alone heals the rest. Threads that miss a token together exchange once.

Three things the repository promises do not hold, each shown by a run (`findings` in
`PROJECT.json` quotes the promise):

1. `DurableQueueLateNack`: `nack` and `defer` check the token in a SELECT and write by id
   (queue.py:156-168, 178-188). A stall between the two releases somebody else's lease.
2. `PipelineRequeue`: the sweeper takes up a stale RECEIVED row whose message a worker has just leased, moves it to
   QUEUED and enqueues it again (sweeper.py:85-87); two messages of one delivery pass the re-entrant claim
   together. A row that is already QUEUED gets a further copy with every pass.
3. `MapReduceLost`: a crash between `create_job` and the last chunk (mapreduce_worker.py:55-57)
   leaves a job that nothing finishes; the sweeper sees the event DONE.

**Known disagreements without a run of their own.** The first group is reproduced by changing one
constant or by an obvious property of the module named; the second was met while reading the code and
is outside what the modules keep.

- `NoSilentDeath` without its `crashes = 0`: a crash, or a GitHub error, between the dead-letter of the
  row and the comment (worker.py:134-142, sweeper.py:74-76). For an open pull request reconciliation
  starts afresh, so `EveryKeyAnswered` still holds; for a closed one, or after a failed escalation
  comment (sweeper.py:100-107, the counter is committed first), К-1 does not.
- DONE without anything on GitHub: `process()` marks DONE on any normal return of `analyze`
  (supervisor.py:65-66, 78). The repository knows of the swallowed failure (sweeper.py:6-8, sweeper_adapter.py:4-8,
  analyze_adapter.py:26-28); only `make_github_review_verifier` looks for it, as `Intake` does with `Verify`.
  A large `/review` is DONE after its fan-out, before any chunk is reviewed (worker.py:251-257).
- A prolonged outage: gateway.py:8-10 and ARCHITECTURE.md:155 promise an escalation by the sweeper after
  `max_cycles`, but a deferred event stays in flight, and for a key in flight the sweeper goes on to the next
  (sweeper.py:98) without counting a cycle. `EveryKeyAnswered` without `OutagesEnd` fails.
- `DeadOnlyAfterFailure` without `overtaken = 0`: `increment_attempt` runs before the analysis
  (supervisor.py:64), so an event that was only held back by the gateway and then waits past the stale deadline can
  be dead-lettered by the sweeper's attempt counter, against ARCHITECTURE.md:213.
- `NoFalseAlarm` without `overtaken = 0`: with two messages of one delivery in hand, the second analysis finds the row
  DONE, raises, is nacked and finally posts the failure comment. `TerminalIsFinal` without it: a second
  message of an event that is being buried lets `_drive_to_done` take DEAD_LETTER to QUEUED (supervisor.py:28-32).
- `OneAnalysisPerKey` without `~abandoned`: the orphaned thread of a timed-out attempt goes on
  while the retry runs (worker.py:45-46 says it ends by itself).
- `_drive_to_done` of a row in PROCESSING tries PROCESSING -> QUEUED and raises
  (supervisor.py:30-32); the worker nacks and the event ends by another way.
- A reconcile event redelivered after DONE runs the claim path, raises, and after its last receive
  posts a failure comment under a published review (`NoFalseAlarm` is stated for webhook events).
- `MapReduceLost` also fails for a crash between `try_start_reduce` and the enqueue of the reduce.
- `EveryLiveJobAnswered` without `refused >= MaxAttempts`: a reduce message whose post GitHub refuses as often as it is
  received is dead-lettered (mapreduce_worker.py:106-114), no review appears and nobody announces it, against К-2
  (ARCHITECTURE.md:120).
- `ReviewAccountsForAll` without `blank`: a chunk the model answered with no text is in neither list of the
  review (reduce.py:30-31, 40), which counts it as not ready, against reduce.py:3-5.
- `ReconcileBounded` without `Restarts`: `clear_reconcile` (sweeper.py:96) forgets the cycles of a head as soon as it
  looks completed; comments that come and go make the number of events of a head unbounded.
- `ChunkTracked` with overruns: a lease that lapses at the last receive lets the poison-guard bury
  a chunk that nobody reports.
- `EveryHeadAnswered` without `[]holding`: a duplicate delivery that is the last webhook leaves
  `reliability.db` locked (state.py:144-158). Workers nack and finally die in `_drive_to_dead_letter`, the
  message is gone, and the sweeper's writes fail too.
- `EveryHeadAnswered` with `Verify`: `has_bot_activity` takes any comment of the bot for a result, an
  escalation of an earlier head included.
- Stop labels: webhook.py:19-26 and :80-82 say that nothing runs while the label is on the pull
  request, but `parse_open_prs` (sweeper_adapter.py:29-42) leaves out drafts only, so `List` goes on to
  reconcile it. The other way round, sweeper_adapter.py:32-34 says that webhooks wait for the end of a draft,
  and `parse_events` does not look at it.
- `Gone`: the DELETE or PATCH of a comment another caller has removed raises out of
  `upsert_comment`, and out of the worker's or sweeper's loop. A PATCH to a duplicate that another call
  deletes loses its body.

- Chunk reviews call the model without the gateway (worker.py:242): `RateBounded` is about the gateway's calls
  only.
- `gateway.py:171-173`: with two providers, out of tokens after the first has failed, `run` raises
  `RateLimited`, although a provider was called (comment at :157-158). The pool in `worker.py` has one.
- `chunking.py:110-112`: after an overflow smaller, less important files are still packed, against
  "остаток (низший приоритет)" in the comment.
- `queue.py:107-118`: an idle process may hold the write lock of `queue.db`.
- `_handle_reduce` (mapreduce_worker.py:110) publishes without `overflow_files` and
  `failed_files`, which reduce.py:3-5 and ack.py:51-52 promise to list; `ReviewAccountsForAll` holds
  for the chunks, not for files the plan left out.
- `resolve_masked_repos` and the listing of a fixed list of repositories are not guarded: one repository that
  fails ends the pass for all. Repository names that differ in case make different business keys.
- `enrich_events` drops a comment's command when the head cannot be fetched (webhook.py:62-72): its
  author gets no answer unless reconciliation is configured with that command.
- The token is put into pr-agent's global settings (analyze_adapter.py:55), which an abandoned thread
  shares with the next attempt; the margin of 660 s covers ATTEMPT_TIMEOUT by convention only.
- A worker's threads use one sqlite3 connection without a lock (state.py:84); `last_served` may go
  backwards (queue.py:134-138) when a slow call commits last.

## 5. Proofs

Each `...Proofs` module proves theorems about the module it extends, for every value of the constants that
satisfies the module's `...Assumption`. Where a theorem needs more, its statement says so.

| theorem | statement | needs |
|---|---|---|
| **DurableQueueProofs** | | |
| `TypeCorrect` | `[]TypeOK`: also, no row has an id that AUTOINCREMENT has not given | |
| `NothingIsLost` | `[]NothingLost`: pending, acknowledged or dead-lettered, never gone | |
| `OneTokenIsCurrent` | `[]OneCurrentHolder`: `ack` accepts at most one of the tokens held for a message | |
| `LeasesAreExclusive` | `[]ExclusiveLease`: no two processes work on one message | `~Pauses` |
| `LeasesAreRespected` | `LeaseRespected`: only the holder ends a lease in force | `~Pauses` |
| `EveryMessageHasOneFate` | `[]OneFate`: exactly one of pending, acknowledged, dead | `~Pauses` |
| `ReceivesAreBounded` | `[]AttemptsBounded`: no row counts more than `MaxAttempts` receives | `~Pauses` |
| `QueueImplementsWorkQueue` | `ImplementsWorkQueue`: the refinement of `WorkQueue` | `~Pauses` |
| **PipelineProofs** | | |
| `TypeCorrect` | `[]TypeOK`: also, a recorded event has its business key | |
| `DoneHasReturned` | `[]DoneMeansReturned`: DONE means that an analysis of the key has returned | |
| `DeathsAreAnnounced` | `[]NoSilentDeath`: without a crash every dead letter has its comment | |
| `TerminalsAreFinal` | `TerminalIsFinal`: nothing revives a finished event before a pass overtakes a message | |
| **PipelineOutcomeProofs** | | |
| `DeadHaveFailed` | `[]DeadOnlyAfterFailure`: before that, a deferral never leads to the dead letters | |
| `KeysAreAnalysedOnce` | `[]OneAnalysisPerKey`: before that, and if nothing is abandoned, one analysis per business key at a time | |
| `AlarmsAreTrue` | `[]NoFalseAlarm`: under the same conditions no failure comment for a webhook event that is DONE | |
| **MapReduceProofs** | | |
| `TypeCorrect` | `[]TypeOK` | |
| `ReduceIsUnique` | `[]ReduceOnce`: at most one reduce is ever started | |
| `FanOutIsUnique` | `[]FanOutOnce`: no chunk is enqueued twice | |
| `ReviewIsComplete` | `[]ReviewAccountsForAll`: a published review accounts for every chunk that did not come back empty | |
| `ChunksAreTracked` | `[]ChunkTracked`: without a mishap no chunk gets lost | |
| **GatewayProofs** | | |
| `TypeCorrect` | `[]TypeOK`: the bucket neither overflows nor goes below zero | |
| `CircuitsAreHonest` | `[]OpenIsJustified`: open exactly after `Threshold` failures in a row | |
| `OutagesAreReal` | `OutageMeansAllOpen`: a deferral as outage means every circuit is open | |
| `OutagesAreCheap` | `[]OutageIsCheap`: one probe per `ResetTimeout` | |
| `RateIsBounded` | `[]RateBounded`: over any interval at most a full bucket and what flows in | |
| **ChunkingProofs** | | |
| `TypeCorrect` | `[]TypeOK`: also, no chunk is empty | |
| `NoFileIsLost` | `[]EveryFileAccounted`: every reviewable file is in one chunk, once, or overflow | |
| `ChunksAreCalls` | `[]ChunksFit`: a chunk of several files fits one call of the model | |
| `TotalIsKept` | `[]BudgetKept`: what a plan spends stays within the total budget | |
| **IntakeProofs** | | |
| `TypeCorrect` | `[]TypeOK` | |
| `ReconciliationIsBounded` | `[]ReconcileBounded`: at most `MaxCycles` events per head, and as many again per loss of its comments | |
| **PublicationProofs** | | |
| `TokensOutliveAttempts` | `[]PaidWorkIsDelivered`: an attempt's token is valid to its end | |
| `NoSuperfluousExchange` | `ExchangedOnlyWhenStale`: threads that miss together exchange once | |
| `CommentsStay` | `[]NeverSilenced`: the last comment of a marker is never deleted | |
| `DuplicatesHeal` | `HealsToOne`: an undisturbed call that ends normally leaves its own comment only | |
| `TypeCorrect` | `[]TypeOK`: also, no listing asks for a page past the one after the last comment | |

**DurableQueue.** `~Pauses` says that no process outlives its own lease, which `resolve_timeouts()` is there
for; the first three theorems hold with stalls too. `ExclusiveLease` is not inductive: a process about to
run the UPDATE of `lease` could
take a row that somebody holds. `QueueInv` adds `CallInv` (a process in `lease` holds nothing; one
in `nack` or `defer` settles the lease it holds; a call's clock reading is not in the future) and
`LeaseInv` (a lease in a worker's hands is the one in the table, with its token and deadline, and
has not run out; a call is younger than the visibility timeout). The WHERE clause of the UPDATE
compares with a clock value of the past, so it cannot match a row whose lease has not run out: that
protects the holder. `~Pauses` is needed in `Tick` only, for time to stop before a deadline that
somebody holds; `DurableQueueLateNack` shows what happens without. `Frame` is the lemma for
the steps that neither grant a lease nor let time pass.

The other theorems rest on `QueueInv` and a small invariant each. `FateInv` adds to `OneFate` that
ids in `dead_letters` and among the acknowledged have been given, so that a new id is in neither; the
nack that buries by id alone is sound because the row is still its holder's (`LeaseInv`).
`AttemptsInv` says why a threshold compared with an old read is not passed: a row without a
token has a receive left (`ReceiveLeft`), and when the WHERE clause of a `lease` call can match an
expired lease, that lease had already run out when the call read the clock, so nobody has taken the
row since and its counter is not above the one read (`ReadInv`). `TokenInv` (every token is new) needs neither. The
refinement maps `LeaseClaim` to `Take`, `LeaseBury` to `Bury`, `Ack`, the writes of `nack` and
`defer`, and a crash with a lease in hand to `Settle`; every SELECT is a stutter.

**Pipeline.** The theorems assume nothing about time: three hold at any time, the other four say what holds until a
pass has taken up a row with a message outstanding (`overtaken = 0`), two of them also until an analysis is
abandoned (`~abandoned`). The proofs carry their invariant under that condition (`CalmCare`, `CalmFlow`, `CalmAlarm`,
`CalmFate`): the history variables never go back, so a step that ends in a calm state began in one.

`ShapeInv` holds whatever the timing: types, `HandsInv` (a worker waits, has a message leased that no other
worker has, or buries one), `AwaitedInv` (the main thread waits for its own thread, which works on the same
delivery; an orphan is past the start of an analysis) and `RecordedInv` (whatever somebody works on has a row);
`ReadInv` adds that the rows of one SELECT are of different events. The effect predicates `ThreadDoes`,
`MainDoes` and `SweeperDoes` say once what a step of a process may change, so that the later proofs have one
case per process and not one per statement. `ResultInv` gives `DoneHasReturned`: for whoever is on the way to DONE,
also an abandoned thread and also `_drive_to_done` for a sibling, an analysis of the key has returned
(`SaysInv`). `Announces` gives `DeathsAreAnnounced`: whoever dead-letters is at once the one who will
comment, and stays so until it has, unless it crashes.

`Custody` needs `overtaken = 0`: a delivery is with nobody, or in exactly one place, ingress, one message, one
worker's hands, or the sweeper's. A pass that overtakes nothing reads only rows that are with nobody, so what the sweeper read
of a row is still true when its turn comes, and what it enqueues is the only message. `LifeInv` adds that nobody
is about to requeue a dead-lettered event: an abandoned thread is past the only place where that could
happen, and the sweeper has the event in hand. That is `TerminalsAreFinal`. `PipelineRequeue` shows that
after an overtaking pass `Custody` fails.

`OrphanInv` says what an abandoned thread costs: its event has a failure, or its main thread is about to
count one. So `ClaimInv`, that a thread past `try_claim` holds the claim of its key and finds its event
PROCESSING when it analyses, can be stated for every event that is `Clean`, without a failure unless nothing has been
abandoned: at most one thread works on such an event (`OnlyMine`), and a claim is taken over only
from a holder whose event is terminal (`Takes`). While nothing is abandoned every event is clean, and two analyses of one key
would both be its claim: `KeysAreAnalysedOnce`. `AlarmInv` follows a webhook event that is not DONE from
`already_done` to the comment, through the main thread from `nack` to `notify`.

`FateInv` is what backpressure comes down to. An event without a failed attempt has counted no attempt or is done
(`Excused`), or was held back by the gateway and keeps its claim, its state PROCESSING and its message
(`HeldBack`), whose receive count is that of its lease; so its message never comes to the poison-guard, no main
thread buries it, and no row the sweeper has read of it was over its attempts: `StaleRows` can only
contain it once its message is gone, and then it is excused (`Unfailed`). `EndsInv` says that a thread that frees its
claim to ack has seen DONE and one that frees it to nack has seen a failure. That needs `ClaimInv` for clean events
only, which is why `DeadHaveFailed` holds although other analyses are abandoned.

**MapReduce.** `MapInv` joins types, what a worker's place says about its lease (`LeaseInv`) and about the
job (`WorkInv`: who is past `create_job` has a row, who is past the fan-in has all findings).
`ReduceInv` says that while the row is not REDUCING nobody has started a reduce, and that the one who flips it
starts one, which is the compare-and-set of `try_start_reduce`; `FanInv` says the same of the one planner that is
between `create_job` and its last enqueue. `ReportInv` carries the completeness through the
reduce: once all chunks have findings they keep having them, for findings are only replaced.
`TrackInv` says where a chunk that was sent is: it has a finding, a message with a receive left or
leased by somebody, or a worker that is about to record it as failed. `ReviewAccountsForAll` excepts the chunks in `blank`, which only grows
and contains every chunk whose finding is empty. No bound is assumed, and crashes, refused
calls and outlived leases are included; `ChunkTracked` itself excludes them, and `MapReduceLost` shows why.

**Gateway.** `CircuitInv` relates a breaker to the failures it stands for: a closed one has counted them all,
and they are fewer than the threshold; another was opened by the last of them, and is half open only when it has
cooled down since. `CallInv` says that nobody calls through an open circuit, that a probe began after
the cool-down, and that a call that has not failed anywhere has passed over open circuits only, which is what makes
`GatewayCircuitOpen` honest: circuits cool down only when they are looked at.

`RateBounded` is about every interval, and the bucket knows only its last refill. `RateInv` keeps an account
between the two: nothing is begun after the last refill (`Settled`), and for every instant before it, what
is in the bucket and what was begun since came out of one full bucket and the flow (`Funded`). A refill that
overflows gives up tokens and a late one makes up for the time, so both keep the account; a call moves one from
the bucket to what was begun. Sums over intervals are differences of `UpTo`, a recursive function; what
it does (`TotalsGrow`, `TotalsRest`) is shown by taking the least instant at which it would fail, for
the library's induction theorem takes an operator the provers cannot instantiate.

**Chunking.** `PlacesInv` says where a file is while the loop runs: still in the list, in the chunk being filled, in a
closed chunk, or skipped, in one place and there once; together the places are the reviewable files. `FitInv` adds that the
chunk being filled fits too, without which the flush before the next file could not be trusted. Two facts
about data carry the rest. The weight of a set is `SumFunctionOnSet`, a fold of the community modules that takes the members in
some order; `SumTakesAnyMember` and `SumAddsMember` show that adding a file to a set adds its tokens,
which is what the code's running counters do. And a finite set of files can be sorted (`CanBeSorted`), so that the
`CHOOSE` of `Sorted` has a value that lists each file once (`SortingWorks`). Both go by the size of the set, again with
the least counterexample (`CountingUp`). `DiffOK` is all that is assumed of a diff: finitely many
files, each of a kind and a size.

**Intake.** The counter in `reconcile` is cleared for a head that has a completed review, so the events it
counts and the events that exist part ways. `CountInv` says of every head that its reconcile events, with
the one about to be recorded, are covered by the counter and a `Budget` of `MaxCycles` for each time comments
vanished; or the head is completed and nobody is about to start an event for it, and they are at most `MaxCycles` more
than the budget. A completed head stays so and the sweeper does not come to count for it again, until
`Forget`: then the counter covers nothing, and the budget has grown by what it may have forgotten.

**Publication.** `TokenInv`: a process never believes in a token beyond its true expiry, and the token of an
attempt outlives its beginning by the timeout; it needs `AttemptTimeout <= Margin < Fallback <= Life`,
which is `TokenAssumption` and in the code a matter of convention (token.py:35). `ExchangeInv`: at most
one thread of a process is in `_exchange`, and only while the cached token is stale. `CommentsStay` rests on the order
of ids: a list is read in ascending order, so the smallest marked comment that exists is the first match of every
caller that has read that far (`FirstInv`, `FoundInv`), and only matches after the first are deleted.
`HealsToOne` speaks of a call that nobody disturbs from its first page to its end. `Healing` says what it has
found out: while it lists, it has found every marked comment of the pages it has read, where a comment's page is counted
by `Position`, the number of comments before it; when it posts there is none, when it patches it knows
them all, and while it deletes what is left is its own and the ones still to go. The lemmas on `Position` show that a
page that is not full is the last one, and that comments that are added come after those already read.

**Only model-checked.** The four liveness properties (`EveryEventEnds`, `EveryKeyAnswered`, `EveryLiveJobAnswered`,
`EveryHeadAnswered`), deadlock freedom and the three counterexamples: fairness and ENABLED are outside the
prover's reach. Every other property of a passing run is a theorem. The conditions of the four properties of `Pipeline`
named above are needed, for they fail without them (section 4).

## 6. Not modelled

- The GitHub client's HTTP, its paginated listings of repositories, pull requests and commands, and the
  expansion of repository masks: reads whose failures are the failure steps of the callers.
  `upsert_comment`, which writes, is modelled.
- The token cache of a process holds one installation per repository owner; one is modelled.
- JSON field extraction of `webhook.py` (what it decides is modelled), the HMAC check.
- `TieredGateway` selects one of two independent gateways; autoscaling is a pure function that no process calls.
- Metrics, logs, Sentry, reports to the Issue cycle: they never raise and change nothing here. Quality evaluation
  and load test are offline tools.
- pr-agent itself, its global settings, and the sqlite3 connection that a worker's threads share.
- Texts of comments and prompts.

SQLite is taken to serialise writers and to make a committed transaction durable. The write lock of
`reliability.db` that a duplicate delivery leaves behind is modelled in `Intake` only, that of
`queue.db` in `DurableQueue` only.

## 7. Plan

1. What still holds of claims after an overtaking pass or with abandoned analyses: that an event with a failure has at
   most one thread besides its orphan, and what that bounds.
2. Partition fairness of `lease` as a bound, with the per-PR partitions of map-reduce.
3. A listing of several repositories in `Intake`, with stop labels in what the sweeper lists.

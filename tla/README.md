# Verification of the Solr seeder

The repository holds a two-core Solr stack (one leader, two followers, metrics
and traces) and the program that feeds it: a Go *seeder* that generates random
movies and books and posts them to Solr in batches until it is told to stop.
This directory models the parts of it whose correctness depends on
interleavings, failures and boundaries, checks the models with TLC on small
instances and proves the most important results with TLAPS for all instances.

All paths below are relative to `src/`; `runner/`, `solr/`, `stats/`, `retry/`,
`telemetry/`, `config/` and `generator/` are packages under
`app/internal/seeder/`.

## 1. Inventory

| Component | State it keeps | Operations | Talks to |
|---|---|---|---|
| pipeline (`runner/runner.go`, `runner/worker.go`) | two channels of batches, two producers' batches, each worker's job and attempt, three contexts | `Run`, `produce`, `worker`, `sendWithRetry`, `logProgress` | client, stats, telemetry, retry |
| Solr client (`solr/client.go`) | none between calls | `PostBatch`, `IsRetryable`, `FailureType` | Solr over HTTP |
| stats (`stats/stats.go`) | six atomic counters per core | `Inc...`, `Snapshot` | read by the progress log |
| retry (`retry/backoff.go`) | none | `Duration`, `Wait` | timers, context |
| telemetry (`telemetry/telemetry.go`) | per-core gauges (queue depth, workers, in flight), instruments, metrics server, exporters | `New`, `Start...`, `SetQueueDepth`, `Record...`, `Shutdown` | Prometheus, OTLP collector |
| configuration (`config/config.go`) | none | `Load`, `validate` | environment, flags |
| generator (`generator/*.go`) | a random source, a document counter | `Generate`, `weightedYear`, `pickDistinct`, `checksumISBN13`, `nextID` | pipeline |
| command (`cmd/seeder/main.go`) | signal context, exit code | `main` | all of the above |
| Solr leader and followers (`solr/configsets`, external program) | update log, index versions, soft and hard commits | `/update`, `/replication` (polling) | client, each other |
| replication scripts (`scripts/replication`) | none | `check-index-versions.sh`, `wait-for-replication.sh` | Solr |
| core creation (`docker/solr/initdb`, `scripts/solr`) | files of the data volume | `10-precreate-cores.sh`, `recreate-cores.sh` | Solr containers |
| stack start-up (`docker-compose.yml`, `Makefile`, other scripts) | health of containers | `wait-for-stack.sh`, `smoke-test.sh` | Docker |
| observability configuration, schemas | none (data for other programs) | - | - |

What is hard in it:

* **Concurrency.** Producers, workers, the coordinator and the progress log run
  as goroutines over bounded channels, `select`s with several ready branches,
  and three contexts. Several of the orders in which they can run are never
  produced by a test.
* **Shutdown in two stages.** The signal stops the producers, which flush or
  drop what they hold; the workers drain the channels; a timer may cancel them
  first. Each stage races the next.
* **Failure.** Requests fail by status, by transport, by timeout and by
  cancellation, at three points of an exchange; some are retried, some are not.
* **Observation.** Counters and gauges are read while they change.
* **Boundaries.** Status classes, the response limit, the last attempt, the
  backoff's cap, the channel's capacity.

What makes each component correct:

* pipeline: no document is lost or held twice; batches are taken in order;
  the counters tell what happened; a clean shutdown leaves nothing behind;
  after the forced one no further batch is sent; the shutdown always ends.
* client: success means the documents were accepted, a retry is made exactly
  when it may help, and the three classifications of an error agree.
* stats: a snapshot taken while workers count is off by a bounded amount.
* retry: the wait grows, is capped and never negative.
* telemetry: gauges return to what they measure once the goroutines are idle;
  set-up and shutdown release what they acquired, in every partial failure.
* configuration: what `validate` accepts is what the pipeline assumes.
* generator: ids are unique, years in range, checksums right, loops finite.
* replication: followers show only states the leader had, never go back, and
  catch up; a check that reports equality means what it says.
* core creation: the same result from every state an interrupted run can leave.

`PROJECT.json` lists the hazards line by line, with the properties that cover
them.

## 2. Modules

| Module | Models | Depends on |
|---|---|---|
| `SolrClient` | `PostBatch` and the classification of its error, as operators over an *exchange* (everything the client can observe of one request) | |
| `SolrClientCheck` | one client that meets arbitrary exchanges, with the client's properties | `SolrClient` |
| `SeederPipeline` | `Run`, `produce`, `worker`, `sendWithRetry` | `SolrClient` |
| `DocumentLedger` | the abstract specification: what the seeder promises for each document | |
| `SeederPipelineLedger` | the refinement mapping from the pipeline to the ledger | `SeederPipeline`, `DocumentLedger` |
| `SeederTelemetry` | the pipeline with the telemetry calls of its goroutines: counters, latency histogram, gauges | `SeederPipeline` |
| `SeederProgress` | the pipeline with `logProgress`, the loads of `Snapshot` and the final totals | `SeederPipeline` |
| `SeederProcess` | `main`, `telemetry.New`, `Manager.Shutdown`, signals; the pipeline is one step of it | |
| `SeederConfig` | `config.Load`: environment, flags, `validate` | |
| `RetryBackoff` | `retry.Duration` over integers, and the waits of one batch, for every configuration `Load` accepts | `SeederConfig` |
| `DocumentGenerator` | the two generators over several runs of the program | |
| `SolrReplication` | leader, followers, a batch of the seeder, the smoke test and its scripts | |
| `CoreInit` | the start of a Solr container on its volume | |
| `...Proofs` | the theorems about the module each is named after; `SeederPipelineProofs` also has those about the ledger | that module; telemetry and progress build on the pipeline |
| `SendRetryProofs` | the theorems about the client, the configuration and the backoff | `SolrClientCheck`, `RetryBackoff` |
| `MC...` | constants for TLC | the module each is named after |

### The pipeline's state and actions

| Model | Code |
|---|---|
| `phase` | where `Run` stands: waiting for the signal (`runner.go:133`), for the producers (`:140`), for the workers (`:152`), for the canceled workers (`:162`), returned |
| `forced` | `forceCtx` is done. `Stopped` says the same of `producerCtx` |
| `prod[c]`, `batch[c]` | the position of the producer in its loop, and its batch |
| `queue[c]` | the channel, with `Capacity(c)` = two batches per worker; it is closed when the producer has returned |
| `pc[w]`, `job[w]`, `attempt[w]` | a worker's position, its job and the attempt of `sendWithRetry` |
| `stats[c]` | the counters of `stats.CoreStats` |
| `settled[c]` | history variable: the documents that were sent, failed, canceled or dropped |

Documents are numbers in the order of generation. Each action runs from one
blocking point of a goroutine to the next: `KeepGoing` and `Generate` are the
two halves of the producer's loop, between which the signal may arrive;
`SendBatch` and `SendInterrupted` are the branches of its blocking `select`;
`StopEmpty`, `FlushPartial` and `DropPartial` its three ways out. A worker
takes a job (`ReceiveJob`), the exchange ends by itself, by timeout or by
cancellation (`PostEnds`, `RequestTimeout`, `RequestCanceled`), and `AfterPost`
is the loop body of `sendWithRetry` behind `PostBatch`: `Succeed`,
`GiveUpCanceled`, `GiveUp` or `ScheduleRetry`. Where two branches of a `select`
are ready, both actions are enabled.

Two details of the code shape the model. A worker may pick a job although
`forceCtx` is done, because a `select` chooses among its ready branches at
random; the request it starts then can only be canceled (`pc = "doomed"`). And
`batchCtx.Err() != nil` is tested after the exchange, so that a failure that
has nothing to do with the shutdown is settled as canceled when it arrives
after `forceCancel`.

### Abstractions

* Time: timers fire at any moment while they run. That the request timeout is
  usually shorter than the shutdown timeout is therefore not used.
* One step per blocking point: a counter is incremented in the same step as
  the operation it counts. Only the progress log can see the difference, and
  `SeederProgress` takes those steps apart.
* Telemetry is left out of the pipeline and added by `SeederTelemetry`, which is
  proved to implement the pipeline without it: `Run` is in fact also called
  without telemetry (`runner_test.go`). The progress log is added by
  `SeederProgress`; all other logging is left out.
* `MaxDocs` bounds the number of documents per core. It stops the producer in
  front of the select (`KeepGoing`), as an arbitrarily slow generator would,
  and not in the middle of a batch.

### The client

An exchange records how far `httpClient.Do` got, the status, how reading the
first 4096 bytes ended, what the document says and whether it fits into those
bytes. `PostBatch` maps it to `NoError` or to a `ClientError` whose `Err` keeps
the only thing the callers look for in the wrapped chain: `context.Canceled`,
`context.DeadlineExceeded` or something else. `net/http` and `encoding/json`
are not under `src/`; the fields of the exchange are what the code uses of them.

### Telemetry

`SeederTelemetry` gives each goroutine a list `calls[a]`: the telemetry calls it
makes after its last step, in the order of the code. It takes its next step when
the list is empty. So a call is a step of its own, with all others running in
between: `Track` adds to `activeWorkers` or `inFlight`, `Count` to a counter,
`EvaluateLen` evaluates the argument of `SetQueueDepth` and `Store` stores it.
`Measure` adds to the latency histogram.

Two calls, `doneRequest` and `RecordRequestDuration`, lie between the return of
`PostBatch` and the decision of `sendWithRetry`, which the pipeline takes in one
step. So that step is three here: `PostReturns` puts what the exchange came to
into `result[w]`, the two calls follow (`AfterPostBatch`), and `TelAfterPost` looks
at the result, and at the context as it is by then. Between them others send,
drop and count, and `forceCancel` may strike; the histogram is then ahead of the
counters. The look at result and context and the counting it leads to are one
step, as in the pipeline.

A request is begun by the step of the pipeline and registered by the call after
it; when `forceCancel` comes in between, the model lets the exchange still end
in every way, which the code does not. Left out: spans, the batch-size
histogram (it is recorded with `batchesSent`), the shutdown counter, and the
three loads of a scrape.

### The process

`at` in `SeederProcess` is the position in `main`, with each fallible step of
`New` and each call of `Shutdown` a position of its own. A failing step of `New`
releases what the code releases, and `main` exits. The variables say what is
running (`tp`, `mp`, `server`), who receives a signal (`notified`), and whether a
scrape is open, which `server.Shutdown` waits for. Scrapes begin and end, the
server fails and signals arrive at any time. `expired` is the end of the context of
`Shutdown`. `Run` is the passage from `run` over `drain` to `stop`; that it ends is
`ShutdownCompletes` of the pipeline. Spans are left out: whether one is delivered
is decided by the queue of the batch processor (`telemetry/telemetry.go:96`), a
library that drops what does not fit.

### The progress log

`SeederProgress` adds the goroutine of `logProgress` to the pipeline. `logger`
is the core it reads, `line` what it has loaded of it. `LoadNext` is one
`Load` of `Snapshot`; only the three counters that are related to each other are
loaded in steps of their own, the rest of a line is read in `LogLine`.
`IncSuccessfulRequest` is two `Add`s: after the first, `owed[w]` is what the
worker still has to add, and it takes no other step before. The tail of `Run` is
split: `StopLogs` follows the wait for the workers, `LogFinalTotals` the wait
for the logger, which may still be in the middle of a line or take one more
tick. `shown` keeps the last line of each core.

### The configuration and the backoff

`SeederConfig` reads the whole environment in one step (`ReadEnvironment`), one
argument after the other (`ParseArgument`), and validates. A text is unset, not
parsable, or a value. What `validate` looks at or changes in a value is part of
it: a word has its padding and its case, a URL its kind, its trailing slashes
and its padding, a fraction may be NaN. Durations count quarters of a second.
`Valid` is the conjunction of the checks; which error message comes first is
left out.

In `RetryBackoff` the jitter and the random number are fractions with the
denominator `Scale`. `Duration` is the set of the values the function may
return: one for each random number, or two for a value beyond `MaxInt`, which
converts to the smallest integer on one processor and to the largest on another.
`AtLeastZero` is the clamp of `retry/backoff.go:25-27`: it looks at the float before
the conversion and so lets that smallest integer pass.

### The generator

An id is the prefix, the clock and the counter of its kind; the run it is from
is a history field. The clock moves, stands still or is set back (`Pass`), and
the program is started again (`Restart`), which takes longer than one tick of
the clock. A document is filled in the order of the struct literal (`Begin`,
`Isbn`, `Year`, `CastOne`), and every random draw is a choice. A draw from an
empty range is the panic it is in Go. `CastOne` stands for the rounds of
`pickDistinct` up to the next new name. The two generators share the clock
only and are interleaved at whole documents.

### Replication

A version of a core is a position in `commits[c]`, the first of which is the
empty index. The leader holds `index[c]` and the update log `ulog[c]`; a crash
takes it back to its last commit, and its restart replays the log. `HardCommit`
is the automatic commit; the smoke test's posts commit by themselves. A
follower polls, fetches (`fetching`) and installs; a fetch fails when the leader
is gone or has deleted the files, which it may once there is a newer commit.
The seeder's batch is one batch with its attempts: a request may be applied
long after the worker has given it up (`wire`), and a request that was applied
may be answered too late. An answer already on its way when the leader crashes
may still arrive. The smoke test posts to each core, reads back, and
then `ReadVersion` asks one node after the other, where every answer may be
missing, `CheckCore` compares, goes on to the next core or starts again.

Solr itself is not under `src/`. What the model says of it (a log that
survives the process, replay, the overwriting of ids, commits that survive) is
what the configuration and the scripts rely on. Left out: soft commits and
searchers (a follower's searcher is taken to open with the installation), and a
crash of the machine, which may lose the log.

### The start of a container

`CoreInit` has one step per file of `rm -rf` and `cp -a`, and `Stop` is enabled
at all of them. A file is represented by the image it comes from, so that a
left-over and a stale version are both visible. The index of a core is left out:
the start touches configuration only, and `recreate-cores.sh` deletes all of it.
`precreate-core` is not under `src/`; the model assumes that it copies the
configuration and writes `core.properties` last, or leaves an existing directory
alone.

## 3. Runs

| Run | Instance | Question |
|---|---|---|
| `pipeline_queue` | 1 core, 1 worker, batches of 2, 9 documents, 2 attempts, pause after a batch | the whole life of a batch, including a producer blocked with a *full* batch on a full channel when the signal arrives; does the shutdown end, are queued batches taken |
| `telemetry` | 1 core, 2 workers, batches of 2, 3 documents, pause after a batch | do gauges, counters and histogram tell the truth, do workers that hold results still do what the pipeline does, do two workers of one channel keep the ledger |
| `progress` | 2 cores with one worker each, batches of 2, 3 movies and 2 books, one attempt, one tick | how far a line may be off; does the shutdown join producers, workers and log |
| `telemetry_depth` | 1 core, 1 worker, batches of 1, 3 documents | violated: is the queue depth current when nobody is about to store it |
| `client` | all exchanges, all status codes 0..999 | success, retry, classification |
| `process` | with and without telemetry | every failure of `New`, every moment of a signal, every outcome of `Shutdown` |
| `backoff` | each setting with texts on both sides of its checks, by environment and up to two arguments; related settings in pairs; 8 limits with 2 or 5 attempts and jitters in tenths, durations up to 100 | what `Load` accepts, and all sequences of waits of a batch |
| `config_ratio` | same | violated: is an accepted sample ratio between 0 and 1 |
| `generator` | 3 documents, 2 runs, 3 readings of the clock, 4 actors, the present year 1985 | ids, panics, casts, years, check digits |
| `replication` | 2 cores, leader and one follower, 2 attempts, 2 crashes, 2 tries of the check | is an acknowledged batch kept once, does convergence mean anything, does it come |
| `core_init` | 2 cores, 2 images, the second with a file less, 3 starts | does an interrupted start leave anything behind |

The bounds. A channel holds two batches per worker, so with one worker a full
channel, a job in the worker's hands and a full batch in the producer's hands
are 4 batches: 8 documents with batches of 2, and 9 leave one over for a partial
batch. Two attempts distinguish the first, a repeated and the last attempt.
Four answers (success, overload, refusal, broken connection) reach every branch
behind `PostBatch` that a timeout or a cancellation does not. The workers of one
core are interchangeable, which `telemetry` uses as symmetry; no liveness run
does. In `progress` one core generates more documents than a batch and the other
exactly one, so that a drop, a short batch and a full one meet the log, whose
single tick reads both cores between any two steps of the others.
In `telemetry` three documents are a full batch and a short one, one for each
worker. A jitter in tenths has values on both sides of the third that `NeverShortensBelowMax` is
about; the limits lie on both sides of half the largest duration. In `generator`
three documents are one more than the kinds and than the runs, so that two of a
kind, two of a run and two over a restart are compared. In `replication` one
follower leaves room for two cores and two crashes, of one node or of both; the
scripts treat the followers alike, and what they conclude is proved for any
number of them (section 4). Deadlock is not checked where the model
ends: `Run` returns, the process exits, the last attempt has failed, the last
start or the script is over.

### Properties

* `DocsAccounted`: every generated document is in exactly one place.
* `OldestFirst`: batches are taken in the order of generation, what is dropped
  is the newest, and only the last batch of a core may be short.
* `StatsExact`: the counters against the history: documents and batches sent,
  failures per batch, at most one drop, at most `RetryAttempts - 1` retries per
  batch.
* `CleanExit`: when `Run` returns nothing is in flight, and if the timer did not
  strike, generated = sent + failed + dropped.
* `FinalTotalsStable`: after `Run` has returned nothing counts any more.
* `OnlyInFlightIsSent`: what was not out in a request when `forceCancel` was called
  is never counted as sent: not a batch still taken from the channel, not one in
  its backoff, not one whose request fails and could be tried again.
* `ImplementsLedger`: the pipeline implements `DocumentLedger`.
* `ShutdownCompletes`, `QueuedIsTaken`: liveness.
* `SuccessExact`, `RetryExact`, `LabelsAgree`: the client.
* `GaugesTrackWorkers`: gauges of workers and requests are right whenever the
  workers are between steps, after every way out of a request or a loop.
* `CountersMirrorStats`: the exported counters never exceed the seeder's own and
  equal them when `Run` returns.
* `LatencyExplained`: successes, errors and cancellations in the histogram
  against batches sent, retries and terminal failures. The histogram is ahead of
  the counters by exactly the results that workers hold (`Ahead`).
* `ImplementsPipeline`: the pipeline with telemetry, where a worker holds a result
  while others go on, does only what the pipeline does, where the result is dealt
  with when it arrives.
* `NothingLeftRunning`, `DrainSurvivesSignals`, `SignalEndsProcess`: the process.
* `TornByWorkersOnly`: a progress line shows no more requests than its documents
  came in, up to one per worker. `LinesNeverGoBack`: no counter of a later line
  is lower, the final totals included, and what a line shows as sent the next
  one shows as generated. `FinalLineTrue`: the final totals are exact.
* `AcceptedUsable`: an accepted configuration has what the channels, pools,
  tickers, deadlines, URLs and the logger take for granted, and validating it
  again accepts it unchanged, although the checks precede the trimming.
  `AskedIsKept`: every setting has the value of the last flag that sets
  it, else of the environment, else the default.
* `WaitsAroundDoubling`: each wait lies within the jitter around a reference
  definition of doubling with a cap. `NeverShortensBelowMax`: with a jitter of at
  most a third no wait is shorter than the one before while the cap is not
  reached. `TotalBounded`: what retries add to a drain.
* `IdsUnique`, `NeverPanics`, `FieldsValid` (years, casts, ISBNs): the
  generator. Ids of two runs can collide only if the clock was set back, ids of
  one run never.
* `AckedIsKeptOnce`: a batch counted as sent is in the leader's index exactly
  once, over timeouts, repeated and late requests, crashes and replays.
  `ConvergedMeansServed`: when the scripts say converged, the reads the smoke
  test makes next find its documents, although the versions were compared at
  different moments. `AckedReachesFollowers`: what was acknowledged comes to be
  served by every follower, or some node is down.
* `RunsRepoConfig`: Solr never runs with a file of another image or with one
  missing. `StartSucceeds`: an uninterrupted start succeeds from whatever
  interrupted ones left.

Each property of a passing run is broken by a mutant, a form of one definition
with a plausible bug that stands in front of that definition
(`SendBatch_KeepsBatch`, `ReturnIdle_Undrained`, ...).

### Fairness

`Fairness` assumes weak fairness of each producer, of the coordinator and of
each worker's own steps. The Go scheduler runs every goroutine that can run;
timers fire (request timeout, backoff, pause, shutdown timeout); a context that
is done ends its request. It does **not** assume that Solr answers
(`PostEnds`), and not that the signal ever comes (`Shutdown`).
`ShutdownCompletes` thus holds with a silent Solr, and `QueuedIsTaken` says that
a silent Solr delays a batch by the attempts of those before it and no more.

`SeederProcess` assumes that `main` goes on and that the deadline of `Shutdown`
comes. Scrapes may stay open for ever, and nothing is assumed of the collector.

`RepSpec` assumes that the timer of the automatic commit fires, that followers
go on polling, and that a fetch ends one way or the other. Commits are finitely
many in the model, so that a fetch cannot fail for ever: with a leader that
commits faster than a follower can fetch within the reserve of 30 seconds
(`solrconfig.xml:74`) nothing would be promised. No one is assumed to restart a
node. `InitSpec` assumes that the script goes on while its container runs.

### Findings

* `telemetry_depth`: the gauge described as `Current number of queued batches
  waiting for workers.` (`telemetry/telemetry.go:415`) may keep an outdated
  length: `len` and `Store` are two steps, and a goroutine overtaken between
  them stores last. A full channel may be shown as empty.
* `config_ratio`: `validate` means to refuse a ratio outside 0 and 1
  (`config/config.go:202`) but accepts NaN, which `ParseFloat` reads from both the
  environment and the flag.

Seen while modelling, without a run:

* A 5xx response whose body breaks off is counted as `http_5xx` like any other, but
  is not retried (`solr/client.go:125-127`).
* `Shutdown` closes the metrics server first (`telemetry/telemetry.go:321-329`): a hanging
  scrape may use up the deadline before the last spans are flushed.
* The log line `dropped partial batch during shutdown because queue was full`
  (`runner/worker.go:36`) is also written for a complete batch, when the signal
  interrupts the blocking send of a full batch and the channel is still full at
  the top of the loop.
* A wait may exceed `retry-max-backoff` by the jitter, which is applied after the
  cap (`retry/backoff.go:16-23`).
* The log line and the trace event (`runner/worker.go:214-223`) show one random
  draw of the backoff, `retry.Wait` waits another.
* A progress line may show more documents sent than generated: the loads are
  made one after the other (`stats/stats.go:48-57`).
* With a clock that says 1981 or earlier, `weightedYear` panics for movies.
* A batch counted as failed or timed out may still be applied afterwards: the
  seeder's count is a lower bound of what Solr holds.
* A start that is stopped inside `precreate-core` may leave a directory without
  `core.properties`, depending on that script; `RunsRepoConfig` therefore excepts
  such a core (`half`). `check-cores.sh` looks for the name anywhere in the answer
  and would also find it among the failures.

## 4. Proofs

Every safety property of the passing runs is stated by a theorem.

`SeederPipelineProofs` proves, from the assumptions on the constants
(`PoolAssumption`: finitely many workers, each serving a core, none of the cores
without one; `LimitAssumption`: batch size and attempts at least 1;
`AnswerAssumption`), for every instance:

* `TypeCorrect`: `Spec => []TypeOK`. `TypeOK` bounds `attempt` by
  `RetryAttempts`, which is not inductive: a worker in its backoff is about to
  add one. `AttemptLeft` says that it still can.
* `DocsAlwaysAccounted`: `Spec => []DocsAccounted`. The inductive invariant
  `AccountInv` adds `HandsEmpty` (a worker that is not sending holds nothing):
  without it, taking a job could overwrite another. The places of a document are
  three families of sets (the batches of the channel, the jobs of the workers,
  the outcomes). Lemmas say how the union of a family and its disjointness
  change when one member grows (`DocsInGrow`, `DocsInSettled`), is emptied
  (`DocsInEmpty`), is appended (`DocsInAppend`) or taken from the head
  (`DocsInTail`); each action that moves documents is one lemma about the core
  it concerns (`AccountedGenerate`, `AccountedEnqueue`, `AccountedDrop`,
  `AccountedReceive`, `AccountedRelease`), and `AccountedSame` covers all the
  other cores.
* `TotalsAreFinal`: `Spec => FinalTotalsStable`, from `ShutdownInv`: producers
  have returned once `Run` waits for the workers, workers once it has returned.
* `ForcedSendsInFlight`: `Spec => OnlyInFlightIsSent`, from `TypeInv`. With
  `forceCtx` done no step puts a worker into `post`, and one that leaves it either
  hands its own batch to `sent` or gives it up.
* `CleanShutdown`: `Spec => []CleanExit`. `Tidy` adds to accounting and shutdown
  what the totals mean: a producer that has returned holds no batch
  (`BatchesOut`), a worker returns from an empty channel only (`Drained`), nothing
  is canceled before the timer strikes (`NoneCanceled`), and the documents counted
  as sent are those that were (`SentCounted`). `SettledCount` adds up the disjoint
  outcomes to the number of generated documents.
* `StatsAreExact`: `Spec => []StatsExact`. That the number of batches is the number
  of documents divided by the batch size, rounded up, is not inductive. `TallyInv`
  adds for each core where its short batch is, of which there is at most one
  (`OneShort`), that whole batches are taken until it is (`TakenWhole`), the sizes of
  what workers and channel hold (`SizesFit`), and a bound on the retries made
  together with those the workers may still be given (`RetriesBounded`). `BatchesNext` says what one more batch
  does to the quotient.
* `OldestAreFirst`: `Spec => []OldestFirst`. For each core `InOrder` says when a
  batch may be short (`BatchFits`) and that only a producer on its way out drops
  (`DropsLast`), from which the order follows step by step.
* `PipelineKeepsLedger`: `Spec => ImplementsLedger`, the refinement. Each action
  that moves documents is a lemma that names the action of the ledger it is;
  every other step leaves all ledgers alone. The ledger takes the *oldest* queued
  documents as one batch, which is why `RefineInv` contains the order of channel
  and jobs (`OrderInv`, `JobsInOrder`); a cancellation is allowed in the ledger
  only late, which is why it contains `ForcedLate`. The least and the greatest
  document of a batch exist because a set of naturals has a least member
  (`WFMin`).

Its last part is about the sums the models take over workers and calls. A sum is a
fold, that is a function chosen by its recursive equation: `SumExists` shows that
there is one, over the subsets of one size after the other, `ChosenInduction` is
the induction that follows the order in which the fold takes the elements, and
`SumBounds` and `SumMoves` are what the other modules use.

`SeederProgressProofs`:

* `LoggingObserves`: `ProgSpec => Spec`. The tail of `Run` is taken apart in
  `SeederProgress`; `WorkersGone` says that the totals are logged when the workers
  have returned, where the pipeline's `Finish` may happen. With it, `CleanWithLog`:
  `ProgSpec => []CleanExit`.
* `LinesTornByWorkersOnly`, `LastLineIsTrue`, `LinesGoForward`: from one inductive
  invariant, `ProgInv`. `OwedFits`: what can be loaded are the counters less what
  the workers owe between their two `Add`s, never more than a batch each, and
  nothing once they have returned. `LineFits` and `ShownFits`: what was loaded was
  true at its moment, counters have grown since, and a line in the making is not
  behind the last one. That requests and documents differ by one per worker
  follows from `StatsExact`, because one batch owed moves the quotient by one.

`SeederTelemetryProofs`:

* `TelemetryImplementsPipeline`: `TelSpec => ImplementsPipeline`. The pipeline is
  made to stutter while a result is held, and to take its step when the worker
  looks at it. That it may take the step then needs `ResultInv`: a held result is one
  that `PostBatch` could still return (`Obtained`), whatever the others have done
  since, `forceCancel` included. `ResultsWork` shows that no step takes that away.
* `DocsAccountedObserved`, `LedgerObserved`: with it `DocsAccounted` and
  `ImplementsLedger` hold with telemetry too.
* `CountersAreMirrored`: `TelSpec => []CountersMirrorStats`. `MirrorInv` makes the
  inequality an equation: an exported counter, and the calls that the goroutines
  of its core still have to make, are the seeder's counter. `Quiet` says that
  nobody has a call to make when `Run` returns.
* `GaugesAreTrue`: `TelSpec => []GaugesTrackWorkers`. The property speaks of
  workers between steps; the inductive invariant `GaugeInv` speaks of all:
  `CallShape` says which calls a worker at each place may still have to make
  (`Waits` before a request, `Reports` after it, `Counts` elsewhere), and
  `GaugesExact` that the gauges count the requests that are `Registered` and the
  workers that are `Started`. One lemma (`OneWorkerMoves`) follows the cardinality
  of such a set when one worker comes or goes, and is used by every action.
* `LatencyIsExplained`: `TelSpec => []LatencyExplained`. The histogram less what no
  one has looked at (`Seen`) moves with the counters only: the lemmas `SeenStays`,
  `SeenMeasured` and `SeenGrows` follow the results that are measured and then looked
  at. The rest is inductive once it is known that no batch is empty (`Filled`) and
  that a canceled batch is counted once (`AccountInv`).

`SeederProcessProofs`:

* `AllReleased`: `Spec => []NothingLeftRunning`. By itself it is not inductive:
  an exit is harmless only because of what has been acquired at that position
  (`Acquired`), because disabled telemetry never acquires anything (`Disabled`)
  and because `Run` returns only after a signal (`Signaled`), without which
  `main` would skip its deferred calls.
* `RunSurvives`: `Spec => DrainSurvivesSignals`, from `Signaled` and `Ended`.

`SendRetryProofs`, what `sendWithRetry` relies on:

* For any set of exchanges, `SuccessIsExact`, `RetryIsExact` and `LabelsDoAgree`.
  `ClientInv` says that the caller holds the error of the last exchange; the rest
  is a case distinction over what an exchange can be.
* For every environment and every command line (`InputAssumption`),
  `AcceptedIsUsable` and `AskedForIsKept`. `LoadInv` says how many arguments have
  been parsed and that each setting is what the last of them, the environment or
  the default made of it; that validating twice is validating once is a lemma
  about the normal form.
* For every accepted configuration and any width of a duration
  (`WidthAssumption`), `WaitsStayAroundDoubling`, `WaitsNeverShorten` and
  `TotalIsBounded`, from `WaitInv`: the last two waits are values of `Duration`,
  and the total keeps its two bounds with each retry. The reference
  definition of doubling agrees with the power of two up to the cap.

`CoreInitProofs`, for any number of cores, images, files and starts
(`InitAssumption`: the order names every core):
`ConfigOfImage` (`InitSpec => []RunsRepoConfig`). `StartInv` says how far the script has come
(`Progress`): what it has passed is ready, the core it works on is cleared before
it is copied, whatever the stopped start before left; and that a directory
without `core.properties` is known to be `half` (`MadeIsKnown`).

`DocumentGeneratorProofs`, for any clock, year and number of documents and runs:
`UniqueIds` (`GenSpec => []IdsUnique`), from `Numbered` (within a run the counters
grow) and `Clocked` (unless it was set back, the clock is past all earlier runs),
`PanicFree` (`GenSpec => []NeverPanics`), and `DocumentsAreValid`
(`GenSpec => []FieldsValid`). The check digit is proved for all digits:
`ChecksumIs` and `TotalIs` turn the two folds into sums that grow index by index
(`AddedSoFar`), which agree on the first twelve digits (`SumsAgree`), and
`CheckDigitIs` completes the sum to a multiple of ten.

`SolrReplicationProofs`, for any number of followers, cores, attempts, crashes and
tries, and without fairness (`RepSafety`):

* `AckedStays`: `[]AckedIsKeptOnce`. `LeaderExact` relates the leader's index to its
  last commit and its log, up or down; `AnsweredDurable` says that what was
  answered is in one of them.
* `ConvergedServes`: `[]ConvergedMeansServed`. The comparison is made over answers
  of different moments. It is sound because every step goes `Forward`: commits are
  only added, followers only move on, a smoke document stays (`SmokeStays`), and a
  follower is never ahead of what it was offered (`CopiesLag`). `ScriptInv` then
  says what the script has established at each of its places.

Recursive functions and folds are proved about by hand, for the induction theorems
of the library take an operator that the provers cannot instantiate: a set of the
numbers (or subsets) that fail has a least member (`WFMin`), and the step excludes
it (`LeastMember`, `AllNumbers`, `ChosenInduction`). The exponent operator has no
rules, which is why `RetryBackoff` defines its `Power`.

Only model-checked: liveness, for the prover has no rules for fairness:
`ShutdownCompletes`, `QueuedIsTaken`, `SignalEndsProcess`, `AckedReachesFollowers`,
`StartSucceeds`.

## 5. Plan

What is left, in this order:

1. The clock of the shutdown: `ShutdownTimeout` against `RequestTimeout` and the
   deadline of the telemetry shutdown. Timers fire at any moment in the present
   models, so that nothing depends on their order; a model with a clock could say
   how long a shutdown takes at most.
2. The three loads of a scrape, as `SeederProgress` has those of a log line.
3. With either of them, its theorems; every safety property of the present runs
   has one.

Not modelled: the wording of logs, spans and generated documents; the batch-size
histogram and the shutdown counter, which record what the pipeline has decided
and decide nothing; dashboards, scrape and collector configuration and schemas,
which are data for other programs; the health-ordered start of the stack, which
is declared in `docker-compose.yml` and carried out by Docker, and the waiting
scripts, which poll it and keep no state; soft commits and searchers of Solr,
between which only the smoke test reads, and it commits by itself.

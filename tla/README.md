# Specifications of xtap-pool

xtap-pool collects posts a group of people sees in the browser into a shared,
enriched index. This directory holds TLA+ modules that model the parts of the
system whose correctness depends on order, failure and concurrency, the TLC
configurations that check them, and TLAPS proofs of the results that matter
most. Paths in this file are relative to the repository.

## 1. The system

### The way of a post

1. The extension's service worker (`extension/background.js`) receives GraphQL
   responses, stages each one in a write-ahead log (`stg_*` keys of
   `chrome.storage.local`), parses it, admits its observations to the pool
   queue (`extension/lib/pool-sync.js`, sampled by `observations.js`) and clears
   the staged response.
2. The worker seals a prefix of the queue under a fresh name and hands it to the
   native daemon (`extension/native-host/xtap_daemon.py`), which keeps it as a
   file of the pool outbox.
3. The operator's `npm run push-outbox` (`space/src/outbox-upload.ts`) turns each
   outbox file into one immutable, content-addressed segment of the raw Bucket
   (`space/src/bucket-log.ts`).
4. Jobs fold the segments into a SQLite index that is published as a file with a
   manifest (`space/src/durable-index.ts`), and enrich the posts in planned runs
   with checkpoints (`space/src/enrich-planned-command.ts`, `enrich-checkpoint.ts`).
5. The Space (`space/src/app.ts`, `consumer-*.ts`) serves the published index to
   consumers and to the explorer.

### Components

| component | state | operations | interacts with | what makes it correct | module |
|---|---|---|---|---|---|
| observation sampling | samples by post id | prepare a response | pool sync calls it | every post has an observation of the same content and interval; repeats are suppressed | `Sampling`, `Observations` |
| pool sync | queue, samples, sealed batch, last seal time (stored and in memory), `flushing`, `paused` | restore, enqueue, seal, flush, acknowledge, pause | storage, the daemon, the alarm | nothing lost; a batch name has one content; each batch leaves once, after it landed; drains | `PoolSync`, `BatchHandoff` |
| response staging | `stg_*`, the set of active keys | stage, clear, recover | every handler, pool sync, the buffer | a response is cleared only after its posts and observations are stored | `PoolSync`, `Capture` |
| daemon, pool outbox | the outbox directory | write a batch | pool sync over HTTP, the uploader by directory | same name, same bytes | `PoolSync` |
| outbox upload | outbox, rejected directory, one listing per run | seal time, segment, put, verify, set aside, remove | the raw Bucket | an observation is stored or set aside before its file goes; no second copy | `OutboxUpload` |
| capture buffer and transport | buffer, `seenIds`, saved copies, save chain, transport | enqueue, flush, split after 413, evict, save, probe | the daemon, storage | a post that counts as seen is archived, saved or was given up; everything staged gets there | `Capture` |
| scrape receipts | runs, leases, cursors, receipts | begin, record, renew, recover, finish, cut over | web pages through `scrape-bridge.js` | one active run per tab, at most four, a receipt only for what was seen | `ScrapeReceipts` |
| GraphQL capture | attached tabs, revisions | attach, detach, response | the debugger | a detached tab stays detached | none |
| daemon, files and images | seen ids, image queue, quota | write posts, logs, dumps, download | the extension | seen only after it is on disk | `Capture` (posts only) |
| bucket log | segments, snapshots, cached configuration text | put, discover, snapshot, read text | every job and the Space | segments are immutable; a deletion or change is noticed | `OutboxUpload`, `DurableIndex`, `SpaceConfig` |
| durable index, index bootstrap | manifest, databases, pinned target | restore, advance, publish, resume, prune, prepare | raw Bucket, consumers | the manifest names a verified database that includes its predecessor | `DurableIndex` |
| enrichment run, active run pointer, revision hand-off | plan, results, checkpoint, activation claims, deployment manifest | restore, batch, checkpoint, reconcile, publish, activate | inference, Buckets | a run resumes after any crash, nothing is paid twice, each publication is complete | `EnrichmentRun` |
| enrichment worker and store | queue, attempts, blocked units, registry | call, retry, block, apply | inference | every unit is settled or blocked when its run is published | `EnrichmentRun` |
| membership, accounts, Space server | the two configuration files in memory, the text cache, readiness | change, repair, refresh, start up, authenticate | bucket log, the timer | a revoked key is refused; a ready Space serves what the log says | `SpaceConfig` |
| consumer API, unit and effect stores | nothing of a consumer; signed cursors over the log | bootstrap, changes, reconcile, history | durable index, consumers | a consumer ends up with what is visible and without what was withdrawn | `ConsumerFeed` |
| setup: `update`, `doctor`; job admission | schedules, jobs, claims at the Hub | quiesce, deploy, reconcile, resume, canary, admit | the Hub, the scheduled job | one writer; no hand-off is outdated; no schedule is lost | `EnrichmentJobs` |
| tweet parser, shared schemas | none | parse, validate, hash | | data without control: abstracted, not modelled | none |
| explorer, extension pages | user interface state | | the APIs above | user interface | none |

### Where it is hard

- The service worker is stopped by the browser at any await; everything in
  memory is gone, everything in `chrome.storage.local` stays, and a request in
  flight can still be served.
- Handlers of several responses, the recovery of staged responses, the hand-off
  loop and the alarm interleave at every await; a queue write lock
  (`withQueueWrite`) and the `flushing` flag are all that orders them.
- Storage writes, hand-offs and uploads can fail, and an answer can be lost after
  its effect.
- Buckets offer no compare-and-swap: publication, activation and segment writes
  check and then write.
- Clocks go back, and uploads decide with the clock what is acceptable.

- Jobs are killed between any two writes and start again, sometimes in another
  revision; schedules, jobs and deployments change at the Hub between two requests
  of a command.
- A page of the consumer API is read while the log goes on, and a withdrawal must
  overtake the pages.

`PROJECT.json` lists these as hazards at the lines where they bite, with the
properties that cover them. A hazard whose failure no passing run admits names no
property, and its note says why.

## 2. Modules

| module | what it is |
|---|---|
| `Sampling.tla` | the sampling rule, as operators: `PrepareObservations` and `SameSample` |
| `Observations.tla` | a stream of responses through the rule |
| `PoolSync.tla` | the worker, its storage, the network and the daemon's outbox, from a response to a file |
| `BatchHandoff.tla` | abstract: what the hand-off promises |
| `OutboxUpload.tla` | runs of the uploader over the outbox and the raw Bucket |
| `PoolDelivery.tla` | `PoolSync` and `OutboxUpload` composed over the shared outbox |
| `ScrapeReceipts.tla` | the receipt store and its port to the scroller |
| `ScrapeHistory.tla` | the same with a history variable, for what the documents say of closed runs |
| `Capture.tla` | the worker's tweet buffer, its saves and its transport, up to the daemon's archive |
| `EnrichmentRun.tla` | planned runs, the jobs that work on them, checkpoints, publications, activations, deployments |
| `DurableIndex.tla` | three kinds of publishers over the manifest, the databases and the raw log |
| `ConsumerFeed.tla` | the consumer API and one consumer that follows its protocol |
| `SpaceConfig.tla` | membership and accounts of the Space: log, cache, memory, readiness |
| `EnrichmentJobs.tla` | the scheduled job, its admission, and the `update` and `doctor` commands |
| `PoolSyncProofs.tla` | proofs about `PoolSync`: types, sealed batches, seal times, `BatchHandoff` implemented, no captured post lost; about `PoolDelivery`: it implements `PoolSync`, nothing is lost on the whole way |
| `UploadProofs.tla` | proofs about `OutboxUpload`: nothing lost, one segment for retries |
| `ScrapeProofs.tla` | proofs about `ScrapeReceipts`: limits, numbers, coverage, streams, outcomes |
| `ExtensionProofs.tla` | proofs about `Capture`: nothing is lost before the daemon; about `Observations`: sampling drops repetitions only, and does what `PoolSync` assumes of it |
| `AdminProofs.tla` | proofs about `EnrichmentJobs`: one writer, current hand-offs, schedules kept; about `SpaceConfig`: a revoked key is never accepted again |
| `IndexProofs.tla` | proofs about `DurableIndex`: the manifest is readable and only gains |
| `RunProofs.tla` | proofs about `EnrichmentRun`: no result is paid for twice, one chain of activations, every job can restore the active run, what a publication holds |
| `ConsumerProofs.tla` | proofs about `ConsumerFeed`: what a consumer holds when it has consumed a source, its observations, and what a stream leaves at rest |
| `MC*.tla`, `*.cfg` | small instances for TLC |

Definitions marked "Mutant" are wrong on purpose: each stands for a plausible bug
of the definition after it, no specification uses them, and substituting one makes
a run fail. They show that the properties depend on the code.

The type invariant of `EnrichmentRun` is stated for the reader, those of `Observations`,
`OutboxUpload` and `ScrapeReceipts` are proved; the runs spend their time on the other
properties.

### PoolSync and the code

`store` is what `chrome.storage.local` holds of the pool, `mem` the module
variables of `pool-sync.js`. They differ only while a write is on its way
(`write`), which is the queue write lock: `withQueueWrite` serialises admissions,
seals and acknowledgements, and in each the code writes storage, awaits, then
updates memory. The actions `EnqueueWrite`/`EnqueueDone`, `Seal`/`SealDone` and
`AckWrite`/`AckDone` are the two sides of that await; the `...Fails` actions are a
rejected storage write, after which memory is unchanged.

A *caller* is either the handler of a live response (`handler[key]`) or the
recovery sweep (`sweep`), and both run stage, enqueue, clear as in
`handleGraphqlResponse` and `replayStagedPayloads`. The sweep reads the list of
staged keys once and skips keys that are active when it comes to them; a key
whose handler ended in between is prepared again from the snapshot, as in the
code. New responses wait until the first sweep has ended (`phase`). A sweep that
cannot read the log ends the start without recovering anything; the next alarm
tries again.

`flush` is the program counter of `poolFlush`: seal (or reuse the sealed batch),
send the prefix, wait, acknowledge. `DaemonStore` serves a request; `Timeout`,
`LoseAnswer`, `HandoffFails` and `Stop` are the ways not to learn of it. After
`Timeout` and `Stop` the request stays in `late` and may arrive at any later time,
also after its batch was uploaded and removed. The transport is initialised after
the first sweep, so a flush that starts before finds none (`NoTransport`) and is
retried.

Abstractions: an observation is the accepted tweet (its id digests all of it);
the bytes of a line are "fits" or `Oversized`, and a batch may end after any
observation that fits; a random UUID is a counter of names; buffering for the archive,
`seenIds` and the choice of transport are the subject of `Capture` (here a failing
transport is `HandoffFails`).

### OutboxUpload and the code

A run holds the listing it read (`todo`), the current file and the clock reading
of that file. `NextFile`, `Put`, `Verify`, `SetAside`, `Remove` are the awaits of
`uploadOutboxFile` in their order; a file that is gone when it is read ends the
run, as `readFile` throws. A segment is the record of everything its
content-addressed key digests, so two segments are one object exactly if they are
equal; its observations are a set, since nothing depends on their order. `RunStops` is a kill or a failing step. `Arrive` is the daemon, which can
bring a file back.

In `PoolDelivery` the outbox of the two components is one variable, `arrived` is
`Elements(landed)`, the daemon replaces `Arrive` and the uploader replaces
`TakeFile`.

### ScrapeReceipts and the code

Every operation of `ScrapeReceiptStore` is one IndexedDB transaction over `runs`,
and IndexedDB runs transactions with overlapping stores one after the other, so
each is one action; an operation that throws aborts its transaction, and nothing
of it stays (`RefuseRun`, expiry included). The handler of `scrape:open` is four steps:
`Open` makes the port known by its run (`connection.runId`), `BeginRun` or `RefuseRun` is
the transaction of `beginRun` after capture was attached, `ReadObservations` is the
transaction that reads what was observed, `AnswerOpened` sends it. `RecordInRun` and `RecordOutside` are `recordTimeline` with and without an
active run of the tab; live observations are sent in the same step, because their
events are handled in the order of the commits. A port keeps what it was `sent` since
it asked; messages lost with a connection are the client's to ask for again
(`from`). `list` stands for all parameters of a run, so other parameters are another list.
A heartbeat carries any time up to `now`. Finish and update times are reports and
left out. The scroller is external: it may send what the protocol allows, except a
second open request on a port that is still handling one.

### Capture and the code

A *save* is `saveState`: saves wait in a chain (`saves`), and one that starts takes a
snapshot of buffer and seen identities (`snapshot`) and stores both in one write. A handler
waits for its save, then clears the staged response. `flush` follows `flush`: it marks the
tweets it posts (`sending` of an entry stands for the identity of the objects), removes
exactly the marked ones that are still there when the answer comes, halves the batch after
413 and gives up a single tweet that never fits. An overflow evicts backfills first, then
the oldest, also during a request. The worker may die at any step; start-up restores the
saved buffer, sweeps, then finds the transport. Without a transport a flush probes again;
within the cooldown it does nothing, which is a stutter.

The daemon's side is POST `/tweets`: authentication, body limit, deduplication by post and
article. An answer that is lost, and a timed-out request that is handled late, only add to
the archive what the extension will send again. The token in memory and the stored one are
one variable.

Assumed: storage can be read at start-up (when `restoreState` fails the worker goes on with
an empty buffer by design, and the next save replaces the saved one); image download and
capture are on; fewer than 50,000 seen identities; a failing pool hand-off shows as
`HandlerFails` or `SweepFails`.

### EnrichmentRun and the code

A job is `runPlannedEnrichment`, and its pc names the write it is about to make: an output
is a raw segment, then an immutable result that claims it, then a checkpoint. `Start`
restores what the checkpoint holds, adopts the segments nobody claimed and refuses what
does not fit. A unit stands for one exact membership, so a post that joins it later makes
another unit. Results and checkpoints are numbered and immutable; their chain hashes are
left out. Only the concurrent dispatch of the worker is modelled. `Deploy` hands the active
run to a new revision, as the `update` command does.

`HandoffFaults` is empty in the run: it leaves out a kill inside an output of a handed-over
run and a deployment before a chosen successor is active (see the disagreements). Two things
the module does as the code and a reader may not expect: a killed wave counts as an attempt
of its units, because the checkpoint takes the attempt from the dispatch
(`space/src/enrich-planned-command.ts:1237`; the comment at `space/src/enrich-store.ts:1047`
calls it no completed retry), and a blocked unit is restored without a time for its retry,
so that the next job tries it again.

### DurableIndex and the code

Each program is a pc between two requests. The *job* builds or resumes a publication of a
planned run and keeps its state in the checkpoint (`saved`); the *worker* is
`runEnrichCommand` without a plan; the *command* is `npm run index:bootstrap`, with its
working directory (`disk`) and pinned target. `Publish(p)` is shared: read the manifest,
upload, verify, compare, write, read back, then prune what is stale. Segments are numbered
in key order, which need not be the order of their arrival; a snapshot is a set of segments.

Assumed: `ExclusiveSwap`, that no publisher compares the manifest between another one's
comparison and its write. The Bucket offers no conditional write, and with `ExclusiveSwap`
FALSE a publication is lost in 17 steps; the code narrows the window and `OneWriter` below
closes it for jobs. Worker and command do not publish at the same time, as the documents
demand of the operator ("Other publishers must be stopped for this cutover",
`docs/2026-09-07-incremental-consumer-and-engagement-history-plan.md:423`). A publication
takes less than the day of grace (`PRUNE_GRACE_MS`). Snapshots and segments are never
deleted. `INDEX_BOOTSTRAP_SOURCE` is not set.

### ConsumerFeed and the code

A request holds the application mutex from the boundary it reads to its answer, so it is one
action; a failed request or a lost answer changes nothing. The source only grows, so a
pinned source is a prefix of `log`, and a signed cursor is a record of such prefixes and a
position. A page has one item. The consumer follows
`docs/2026-09-07-consumer-http-handoff.md`: bootstrap, pages of units, activation, samples,
`Refuse` (409) and `Reconcile` when a withdrawal came between, one history read for each
consumed source.

The copies of a post are ordered by capture time, copies that restrict it before others of
the same time, then retweets, then by hash (`postsFor` of `historical-unit-reader.ts`). The order is total,
so a capture has a place of its own, `at`: after all others, or before them when it arrives
late. `ConsumerAssumption` says this of the log the consumer starts with, that this log is
not empty, and that posts and units are positive numbers in the order of their identifiers.

`Overlap` is FALSE: the consumer does not poll while a history read is open.
`NothingWithdrawnIsKept` speaks of the units the stream knew the consumer to hold;
`RemovalsAreAcknowledged` of all (see the disagreements). Left out: the expiry of cursors
(48 hours, 30 days), several contributors of one post, byte limits of pages, metadata,
coverage timestamps, retweets, the pool of read workers.

### SpaceConfig and the code

`log` holds the configuration writes, `text` the text cache, `served` the two files in
memory. A change of members or accounts is a read-modify-write in the queue of its file:
`ChangePool` or `ChangeAccounts`, `Lands`, `Acknowledged`. Membership routes do not take the
application mutex; account routes and repairs do. A refresh is `Discover`, `Prime`,
`AdvanceToDiscovered`, `Reload`, and any of its requests may fail. A malformed file leaves
the fallback in place with an error. Keys carry the number of the change that made them.

Assumed: one Space process at a time, the only writer of the pool and account paths,
whose clock does not go back across a restart; operators write the labels. `PrepareMayFail` is FALSE (see the disagreements). The reload of
both files is one step; scopes, names and expiry of keys are left out; OAuth sessions and
pool tokens are signed values without state.

### EnrichmentJobs and the code

Every request to the Hub is a step, may fail, may take effect with its answer lost, or may
be the last thing an interrupted command does. `update` is: quiesce the schedule, wait for
the jobs, assert, prepare the hand-off, assert again, upload, configure, finalize
(reconcile), resume; or restore on an error. `doctor` is: variables, repair, reconcile; or
the canary of two triggered jobs, approval, resume. A job is admitted by its claim: of two
jobs in one window the one with the lower id goes on. What a schedule is compared by is its
revision and its settings.

Assumed: the settling time of 15 s outlasts the start of both jobs of one firing; a job
counts as running as soon as it is listed; `OneOperator`, that the two commands are not run at
the same time (with FALSE, `HandoffIsCurrent` is violated). Left out: the cutover of
legacy writers, the suspension of schedules that do not match, the validation of cron
expressions and variables. No liveness is claimed: a command ends when its operator lets it.

## 3. Runs

| run | instance | checks |
|---|---|---|
| `sampling` | three posts, five responses out of eight captures over three intervals, room for two samples | `EveryPostHasItsSample`, `SampleIsNewestDelivery`, `RepeatsAreSampled` |
| `pool_sync` | two responses with four observations, one of them oversized, queue of 3, batches of 2, two seals, two faults, a clock that goes back | `TypeOK`, `SealTimesFollowSealOrder`, `NothingLost`, `SealedBytesAreStable`, `ImplementsHandoff`, `LeavesOnlyAfterLanding` |
| `upload` | two files, two runs, two accounts, clock readings on both sides of a bound, two stops, fairness | `NothingLostInUpload`, `RetriesStoreOneSegment`, `NoFileStuck` |
| `delivery` | one response of three posts through both components, two seals needed, one fault, one upload stop, fairness | `NoPostLost`, `EachBatchOnce`, `EverythingLeaves` |
| `scrape` | two runs, tabs and lists for one place, one port, responses of two posts, leases of one tick | `RunLimits`, `CoverageIsExact`, `StreamIsComplete`, `FinalRunsStayFinal`, `CursorsOnlyGrow` |
| `scrape_finished` | one run, two tabs, one tick | `FinishedIsFinal`, violated |
| `capture` | two responses: a post with a photo and one no request can carry; an article and the second post again. Buffer and request of two, one death, two faults, fairness | `NothingLostBeforeDaemon`, `StagedIsArchived` |
| `enrichment` | two runs over two units, two attempts, two kills, two early ends, one deployment, fairness | `ActiveRunRestores`, `ResultsArePaidOnce`, `PublishedUnitsAreSettled`, `ActivationsFormOneChain`, `PublishedIsComplete`, `RunsEnd` |
| `consumer` | two posts and units, a log of four writes that grows by three, two withdrawals, fairness | `VisibleIsHeld`, `ObservationsComplete`, `NothingWithdrawnIsKept`, `CatchesUp` |
| `index` | three programs, two segments that arrive against their key order, three uploads, one stop, fairness of the preparation | `PointerIsReadable`, `NothingPublishedIsLost`, `PinnedBootstrapFinishes` |
| `space_config` | readable and malformed files, one user, one account, three changes, one stop, fairness | `RevokedIsRefused`, `ConfigurationSettles` |
| `jobs` | two updates and one `doctor`, three jobs, one pair for one firing, one failure, two windows | `HandoffIsCurrent`, `OneWriter`, `ActivityIsKept` |

With two workers `pool_sync`, `delivery`, `capture` and `consumer` take two to three minutes,
the others less than two.

Six more configurations are kept beside the runs. Each violates one property and shows a
disagreement described below: `MCOutboxRetries.cfg` (of `MCOutboxUpload`),
`MCEnrichmentHandoff.cfg`, `MCEnrichmentReadBack.cfg` and `MCEnrichmentDeploy.cfg` (of
`MCEnrichmentRun`), `MCConsumerRemovals.cfg` (of `MCConsumerFeed`) and `MCSpaceReload.cfg`
(of `MCSpaceConfig`).

### Why the bounds are enough for the cases that matter

- Two responses and two faults (`pool_sync`) let a stop, a lost answer or a late request meet
  an admission behind a sealed batch, then another fault meet the retry. The
  second fault is what it takes to have the same batch late *and* handed off
  again, and to restart in the middle of a retry.
- A queue of two or three with batches of one or two makes the queue full, makes
  a batch smaller than the queue, and makes a second batch follow the first.
- Three intervals and out-of-order captures give every relation of a capture to
  the sample it is compared with; three posts for two samples evict one.
- Two runs over two files, with a third pass possible after stops, give every
  overlap of two runs on one file.
- `scrape`: a second run is refused, or takes the place of one that lost its lease and then
  asks again, on its own tab or the other. Two tabs and two lists show a post elsewhere
  before, during and after a run. `Bound` keeps clients from asking beyond the first
  response, and a second response in a run, or a cutover after leases have run out, to
  histories with one run. Runs, tabs and lists are symmetric; no liveness property is
  checked there.
- `capture`: the second response meets the buffer full and a post the first one brought; one
  death meets every pair of steps of handler, sweep, save and flush, and two faults meet the
  recovery from it.
- `enrichment`: two units let a wave be killed with one result out, and let a unit arrive
  between plan and publication. `Bound` lets posts arrive while calls are out or before the
  successor is planned (what comes at another time is seen by the next run all the same),
  and gives the first run two faults and a later one the first of all.
- `consumer`: three writes and two withdrawals restrict a post before, between and after two
  pages of a read, open it again, and move it into another unit meanwhile. A longer log
  (`MaxLog` 8 with one withdrawal) has been checked for the safety properties.
- `index`: three uploads are a publication, a publication that interferes with it, and one
  that prunes; one stop splits any of them. `Bound` leaves the third upload to the time
  before and after a preparation; during it the others upload two.
- `space_config`: three changes are a grant, its removal, and one more that can be computed
  from a copy that was rolled back.
- `jobs`: the second update meets what the failed first one left; one failure meets every
  request, also those of the restoration after another error. `Bound` explores two commands
  with a failure, and all three without.
- Apart from the constraints `Bound` above, bounds sit in guards and are named: `MaxStages`, `MaxSeals`, `MaxFaults`, `MaxStops`,
  `MaxSeen`, `MaxTime`, `MaxCursor`, `MaxDeaths`, `MaxRuns`, `MaxDeploys`, `MaxKills`,
  `MaxLog`, `MaxWithdrawals`, `MaxUploads`, `MaxChanges`, `MaxTwins`, `MaxJobs`,
  `MaxUpdates`, `MaxDoctors`, `MaxFailures`, `MaxWindows`. `MaxQueue`, `MaxBatch`,
  `MaxSamples`, `MaxActive`, `MaxPost`, `MaxBuffer`, `BodyLimit` and `MaxAttempts` are
  limits of the code. Runs that switch off the deadlock check are those where the system
  really stops once its bounds are reached: everything is handed off or published and
  nothing is left to happen.

### Fairness

- `PoolDelivery` assumes that the browser wakes a stopped worker and that the steps
  of worker and daemon end: the alarm `xtap-pool-flush` fires every minute and calls
  `poolFlush` and `recoverStagedPayloads` (`extension/background.js:1070`), an alarm wakes
  the worker, `httpFetch` has a timeout, and storage promises settle. Stops, failures, lost
  answers, late arrivals and pauses are not fair, and bounded: `EverythingLeaves` says what
  happens once they end.
- `OutboxUpload` assumes that a run that is not stopped goes on and that the operator keeps
  starting runs.
- `Capture`: handlers, saves, sweeps and flushes go on while the worker lives, for the same
  reasons; the alarm wakes, sweeps and flushes every minute, and the daemon, a service of
  the system, is started again.
- `EnrichmentRun`: the schedule starts a job whenever none runs, and a job goes on until it
  ends or is killed; kills and early ends are bounded.
- `ConsumerFeed`: the consumer sends some request as long as there is one to send. Which of
  two it sends is not fair.
- `DurableIndex`: someone runs the preparation again until it is done; nothing is assumed of
  the publishers.
- `SpaceConfig`: the timer is set again whatever became of the last refresh, requests to the
  Bucket end, and the platform starts a stopped Space.

### Disagreements of code and documents

Each of these is a sentence of the repository that the code does not keep in some
circumstances. The first has a run; those with a configuration named can be run by hand;
the others were met while reading.

- `scrape_finished`: `finishRun` does not remove `stopReason`. In the trace of the run, the
  tab of a run is closed, which leaves it `aborted` for a reason `beginRun` can recover
  from; its client then closes it as `aborted` and is told `scrape:finished`; yet the run can
  be opened again. The specification also has the longer behaviour of a run that
  lost its lease: the next response of its tab leaves it `failed`, its client closes it as
  `failed`, and it can be opened again. `FinalRunsStayFinal` holds of all runs without such
  a reason.
- `MCOutboxRetries.cfg` violates `OneSegmentPerFile`. The comment on `uploadOutbox`
  (`space/src/outbox-upload.ts:36`) says that a retry of a file produces the same bytes, so
  that repeated or concurrent runs never store a second copy. But which observations enter
  the segment depends on the clock of the run: `prepareIngest` refuses a `captured_at` more
  than five minutes ahead. If the first run stops after it stored the segment, and an
  observation it refused has become acceptable when the file is retried, a second, larger
  segment with the same transaction is stored. `RetriesStoreOneSegment` says what does hold:
  a file whose refusals do not depend on the time has one segment of an account. Nothing is
  lost either way (`NothingLostInUpload`).
- `MCEnrichmentHandoff.cfg` violates `ActiveRunRestores`: a job of a handed-over run must
  find its outputs exactly at the checkpoint's frontier
  (`space/src/enrich-planned-command.ts:421`), so after a kill between a raw commit and its
  checkpoint every later job and deployment refuses. The plan says "Treat a checkpoint failure
  after a durable success as an orphan-output recovery case, not as a failed provider result"
  (`docs/2026-08-19-small-worker-checkpoints-plan.md:56`).
- `MCEnrichmentReadBack.cfg` (`ReadBackSpec`) violates `ActiveRunRestores`: a failed
  read-back after the segment was stored counts as a failed commit
  (`space/src/enrich-worker.ts:1160`); the unit is retried, and the orphan is adopted later
  for a result that exists. The same sentence applies.
- `MCEnrichmentDeploy.cfg` violates `ActiveRunRestores`: when a job is killed between naming
  its successor and activating it, and a deployment comes between, the next job activates
  the successor and the verification of the hand-off (`space/src/enrich-revision-handoff.ts:137`)
  refuses it until another deployment. The plan says "Let the next non-concurrent scheduled Job
  restore the successor from its verified checkpoint" (same document, line 64).
- `MCConsumerRemovals.cfg` violates `RemovalsAreAcknowledged`: when a withdrawal makes a stream
  reconcile, the reconciliation returns the removals after the source it reads
  (`space/src/consumer-worker-read.ts:76`), and the pages after it skip every unit with a
  withdrawn post as removed already (`space/src/consumer-changes.ts:179`), one withdrawn
  between the consumer's base and that source included: nobody sends its removal. "No cursor acknowledges a range before all
  its removal records have been returned" (`docs/2026-09-07-consumer-http-handoff.md:230`).
  With `Overlap` TRUE, a receipt of a history read that was pinned at an older source can
  also be attached to a newer poll, and a post opened again in between is not sent (line 226).
- `MCSpaceReload.cfg` (`PrepareMayFail` TRUE) violates `ConfigurationSettles`: when the base
  for consumers cannot be stored after the index has advanced (`space/src/server.ts:293`),
  the next refresh finds nothing new and reports ready without a reload
  (`docs/2026-09-08-consumer-deployment.md:70`).
- A membership change that is committed between a refresh's discovery and its reload is
  rolled back in memory until the next refresh (`space/src/server.ts:274`), and a further change
  computed from that copy loses it, as these routes take no mutex (`space/src/app.ts:638`;
  `docs/2026-08-12-bucket-object-log-plan.md:139`).
- The text cache remembers values in the order segments are applied, so a late segment with an
  older `created_at` replaces a newer value (`space/src/bucket-log.ts:836`). `SpaceConfig`
  assumes that the writes of a path arrive in the order of their keys. One writer gives them
  that order while it runs (`nextCreatedAt`), but the lower bound it keeps is only in
  memory (`space/src/bucket-log.ts:775`): a clock that goes back across a restart could
  break it as well.
- A preparation of the index that is killed between creating its database and pinning
  its target, or before the created file is filled, cannot be resumed without
  `INDEX_BOOTSTRAP_SOURCE` when the head has moved (`space/src/durable-index.ts:358`,
  `docs/2026-09-07-incremental-consumer-and-engagement-history-plan.md:421`).
  `PinnedBootstrapFinishes` holds from the pin on.
- A planned publication restores its base without the base's predecessors
  (`space/src/enrich-planned-command.ts:732`), so its manifest retains one, where the plan
  says three (`docs/2026-08-04-durable-enrichment-index-plan.md:135`).
- `quiesceCanonicalEnrichmentSchedule` is called before the `try` that restores the schedule
  (`setup/src/wizard.ts:138`): when its wait fails after the suspension, the schedule stays
  suspended (`docs/2026-09-15-enrichment-job-reliability-plan.md:157`). `ActivityIsKept`
  speaks of updates that found the writers quiet.
- A post of another timeline is no coverage of the target list
  (`docs/2026-08-06-scrape-job-receipts-plan.md:72`), but while a run is bound to a tab,
  each timeline response of the tab counts for the run's list
  (`extension/lib/scrape-receipts.js:178`); `RecordInRun` does what the code does.
  `extension/README.md:49` allows two active runs, `MAX_ACTIVE_RUNS` and its test four.

## 4. Proofs

Each proof module proves its results for every value of the constants that satisfies the
named `ASSUME` of the component: any sets of posts, runs, accounts or segments, any clock
and any bounds. TLC evaluates these assumptions in the runs, and has checked each
inductive invariant below on an instance before it was proved. The specifications are
proved about as they are checked; their fairness is not used.

| module | theorem | what it says |
|---|---|---|
| `PoolSyncProofs` | `TypeCorrect` | `Spec => []TypeOK`, the stored queue within `MAX_QUEUE` included |
| | `SealedBytesNeverChange` | `Spec => []SealedBytesAreStable` |
| | `DaemonNeverRefuses` | `Spec => []NoConflict`, implied by the one above, so no run checks it |
| | `SealTimesOrdered` | `Spec => []SealTimesFollowSealOrder` |
| | `NothingLeavesBeforeLanding` | `Spec => LeavesOnlyAfterLanding` |
| | `HandoffIsImplemented` | `Spec => ImplementsHandoff`: `PoolSync` implements `BatchHandoff` |
| | `NothingIsLost` | `Spec => []NothingLost` |
| | `DeliveryImplementsSync` | `DeliverySpec => Spec`: with the real uploader, `PoolSync` is implemented |
| | `NothingIsLostInDelivery` | `DeliverySpec => []NoPostLost` |
| | `BatchesAreStoredOnce` | `DeliverySpec => []EachBatchOnce`, under two hypotheses (below) |
| `UploadProofs` | `UploadLosesNothing` | `Spec => []NothingLostInUpload` |
| | `RetriesAreIdempotent` | `Spec => []RetriesStoreOneSegment` |
| | `UploadTypeCorrect` | `Spec => []TypeOK` |
| `ScrapeProofs` | `LimitsHold`, `CoverageHolds`, `StreamsAreComplete` | `Spec => []RunLimits`, `[]CoverageIsExact`, `[]StreamIsComplete` |
| | `SequencesHold` | `Spec => []SequencesAreUnique`, which no run checks |
| | `OutcomesAreFinal`, `CursorsAreStable` | `Spec => FinalRunsStayFinal`, `CursorsOnlyGrow` (action properties) |
| | `ScrapeTypeCorrect` | `Spec => []TypeOK` |
| `ExtensionProofs` | `NothingIsLostBeforeDaemon` | `Spec => []NothingLostBeforeDaemon` (`Capture`) |
| | `NothingIsSampledAway`, `LateSamplesRewindNothing`, `OneDeliveryPerSample` | `StreamSpec => []EveryPostHasItsSample`, `[]SampleIsNewestDelivery`, `[]RepeatsAreSampled` |
| | `StreamTypeCorrect` | `StreamSpec => []TypeOK` (`Observations`) |
| | `SamplesStandForWhatIsKept` | the sampling rule satisfies `SamplingIsBacked` of `PoolSync` |
| `AdminProofs` | `OneWriterAtATime`, `HandoffStaysCurrent` | `OneOperator => (Spec => []OneWriter)`, `[]HandoffIsCurrent` |
| | `UpdateKeepsActivity` | `OneOperator => (Spec => ActivityIsKept)` (action property) |
| | `RevocationHolds` | `ConfigSpec => []RevokedIsRefused` |
| `IndexProofs` | `ManifestIsReadable` | `ExclusiveSwap => (Spec => []PointerIsReadable)` |
| | `PublicationsOnlyAdd` | `ExclusiveSwap => (Spec => NothingPublishedIsLost)` (action property) |
| `RunProofs` | `PaidOnce`, `ChainHolds` | `Spec => []ResultsArePaidOnce`, `[]ActivationsFormOneChain` |
| | `RestoresHolds` | `HandoffFaults = {} => (Spec => []ActiveRunRestores)` |
| | `UnitsAreSettled` | `Spec => []PublishedUnitsAreSettled` |
| | `PublicationIsComplete` | `Spec => PublishedIsComplete` (action property) |
| `ConsumerProofs` | `VisibleUnitsAreHeld` | `Overlap = FALSE => (Spec => []VisibleIsHeld)` |
| | `NoObservationIsMissing` | `Overlap = FALSE => (Spec => []ObservationsComplete)` |
| | `RestedUnitsAreOpen` | `Overlap = FALSE => (Spec => NothingWithdrawnIsKept)` (action property) |

### Pool sync: sealed batches, the hand-off, nothing lost

`TypeInv` strengthens `TypeOK`: a sealed count fits its queue, callers past
"idle" have a staged key, the holder of the write lock is at the step that
waits for it, and a stopped worker holds nothing.

`HandoffInv` says what the parts know of a batch: memory and storage differ only by
the write on its way; the request is the sealed batch of storage; names are
issued once; everything sent under one name is equal, and equal to the sealed
prefix if it is sealed; every file has landed; everything sent but the sealed batch has
landed; seal times ascend through landed, sealed and last. It is needed because
`SealedBytesAreStable` alone does not survive a step: that a retry sends the same
bytes follows from memory being storage while the lock is free, and from
admissions only appending. `LeavesOnlyAfterLanding` follows by the steps that can
change `store`.

The refinement mapping of `HandoffIsImplemented` is the one TLC checks: what is pending is
the stored queue without a sealed prefix that has landed already, and the batches are those
that landed. A landing is the abstract hand-off, although the worker learns of it later
or never; an acknowledgement is a stutter; an admission appends; a seal drops
leading oversized observations.

`NothingIsLost` rests on the sampling rule's contract `SamplingIsBacked` (what the
sampling state makes `Prepare` leave out is covered by an observation that was accepted
before), which TLC evaluates for the rule of `Sampling` in every run of `PoolSync` and
`PoolDelivery`, and which `SamplesStandForWhatIsKept` proves of it for all tweets and
responses. `KeptInv` says that the stored samples are backed by what is kept (queued,
landed or dropped), and that the response of a caller past its storage write is covered. It
is inductive because what is kept only grows.

### Upload and delivery

`UploadInv` says what a run knows of its file at each step: before the verification ends the
segment is stored, before the removal the refused part is set aside, and a file that arrived
and is in no outbox is covered. Another run may overwrite what was set aside, with a later
clock and so with fewer refusals, but only after its own segment holds the difference: once
covered, a file stays covered. `RetriesStoreOneSegment` needs in addition that every segment
is what some run accepted of a file that arrived (`SegmentsAreMade`).

In the composition each part is the environment of the other. `DeliveryInv` is the
conjunction of both invariants and of what ties them: the files that arrived at the uploader
are those that landed. Each step of the uploader is `TakeFile` or a stutter for `PoolSync`,
which gives `DeliveryImplementsSync`; each step of `PoolSync` is an arrival or a stutter for
the uploader. `BatchesAreStoredOnce` has the two hypotheses that `MCOutboxRetries.cfg` shows
to be necessary: one account uploads, and no observation is dated so far ahead of a clock of
the uploader that it is refused for the time being. The run `delivery` satisfies both.

### Scrape receipts

`ScrapeInv` is `RunLimits` and `CoverageIsExact` with what makes them inductive: receipts are
numbered up to `sequence` and no number is given twice, a run's baseline is at most
`sequence` (so nothing recorded later counts as known), the cursors of a run are exactly
`1 .. lastCursor`, and a port that was answered was sent everything after its cursor. The
deduplication inside a response, which the code does with a set, is in the proof the fact
that a response holds a post once (`ScrapeAssumption`).

### Configuration of the Space

A revoked key could come back from the log, the text cache, the file in memory, a file a
refresh has listed, or a change computed before the revocation. `ConfigInv` says that none of
them holds one, from the acknowledgement on. That a listed file is the registry as it stands
follows from the application mutex, which keeps account changes and refreshes apart
(`Exclusion`). Membership changes are not excluded, and no theorem speaks of them.

### Enrichment jobs

`JobsInv`: at most one schedule is active, and the jobs that run meanwhile are its own; jobs
that run at one time were started by one firing (or by the canary), each has claimed
before any is elected, and only the first of those that run is elected. An update knows from the moment it found
the writers quiet that nothing starts until it enables a schedule, so what it handed over
stays the last write; a `doctor` knows that the only schedule left is the one it keeps.
`OneOperator` is a hypothesis, as it is a constant of the run: without it TLC violates
`HandoffIsCurrent`. The commands are started by hand by the one operator of a pool.

An attempt to prove this module showed that two of its CASE expressions (`Inspects`,
`AfterReconcile`) had guards that overlap, where TLA+ leaves the value open and TLC takes the
first; they now are conditionals in the order of the code.

### Durable index

Databases are numbered in the order of their upload. `IndexInv` says that the manifest, every
manifest that was read, saved or is about to be written names an uploaded database with the
source it states; that the number a publication is about to write is greater than the one it
replaces, and its source larger; and that what is listed for removal is older than what the
remover published. A fresh publication uploads after it has read the manifest it replaces;
a resumed one replaces the base of its plan, which its database succeeds, or finds another
manifest and does not publish. `ExclusiveSwap` is a hypothesis for the reason given with the
module: the Bucket has no conditional write.

### Enrichment runs

A result that was stored but not yet recorded is where a unit could be paid for twice: the
job that stored it may be killed before it claims the result, or before the checkpoint
counts it. `RunInv` therefore speaks of what each party knows of the results in the log. A
plan starts with those before it (`PlansKnowResults`); a checkpoint has done what the claims
it counts hold (`CheckpointsFollow`); a job's state is the checkpoint but for one output it has
claimed (`JobFollows`); and a job at work knows every result but the one it has stored and
not yet claimed (`JobWorks`), because reconciliation ends only when no result of the log is
unclaimed. So no unit of a wave has a result (`WaveIsOpen`).

The chain follows from the same facts: only the active run has a job, so only its checkpoint
changes; runs after it are pending; a successor is planned on what its run published, and comes
later than every run that was active before.

`OutputInv` adds what the active run has put into the log, which no part of the code has
whole: a job sees the outputs it lists, the checkpoint it restores and the manifest of its
deployment, each at another time. It has four parts. `OwnInv`: of the outputs after the
source of the active plan, one at most is not counted by the checkpoint, a claim that is not
counted is a claim of that one, and the checkpoint can still take it (`OneOutstanding`); the
results that are counted hold exactly the units the run has done, each once
(`ResultsAreExact`); runs after the active one find nothing in the log after their sources
(`LaterRunsAreFresh`). `JobOwns`: a job has nothing outstanding except between storing an
output and recording it. `IndexInv`: a database that was stored is settled, that of the
active run holds every output and what the index it replaces held, and the manifest names
the database of the run that published it. `DeployInv`: the manifest of the deployment
describes the active run and fits the successor (unless `"deploy"` may go wrong), and a run
that was handed over stands at an exact frontier between outputs (unless `"kill"` may). `PublishedUnitsAreSettled` needs the first and third parts together: that a
unit done by the checkpoint has a result *in this database* follows only because results and
checkpoint agree and the database is stored when nothing is outstanding.

All theorems but `RestoresHolds` hold whatever goes wrong around a deployment (any
`HandoffFaults`). `RestoresHolds` has the hypothesis that nothing does, as in the run
`enrichment`: `MCEnrichmentHandoff.cfg` and `MCEnrichmentDeploy.cfg` show that a kill or a
deployment in the wrong place leaves a run no job can restore. Kills anywhere else, and
deployments between jobs, are in its scope. All speak of `Spec`, not of `ReadBackSpec`, whose
run shows what the extra fault does. TLC has checked both invariants on the run's instance
(412,252 states), and `OutputInv` with `"kill"` alone and with both faults as well, before they
were proved.

An attempt to prove this module showed that `SUBSET S \ {{}}` is read in two ways, by SANY
as all nonempty subsets of `S`, which was meant, and by the proof manager as the subsets of
`S \ {{}}`; the model now has the parentheses.

### Consumer feed

The consumer knows what it has stored, the server knows the log, and all they share is a
cursor. `ConsumerInv` says, for each position of the cursor, what the consumer holds of each
unit (`HeldBy`): in the middle of a comparison, the units up to the cursor as they are
visible at the new source and those after it as at the old one; the unit of an activation
page as at the new source, with the samples of the posts that were visible before; and the
samples of all up to the entry the cursor names. `VisibleIsHeld` and `ObservationsComplete`
are what this says of a cursor at rest. Neither is inductive alone: they say nothing
of a stream that is under way.

What a pinned source says stays the same when the log grows (`VisibleStays`): the newest
copy, the published result and the approval are functions of a prefix. But a page shows less
than the source, as nothing is published that is restricted by now, and a reconciliation
removes what was withdrawn. So the consumer may lack a unit, if it was told, at a source of
one of its cursors or of the receipt, that a member was withdrawn (`Excused`). The
proof is that excuses end where the code sends the unit again: a comparison visits each unit
whose content, results or approval differ (`Unaffected`), and each unit with a post that was
reconciled and is open again (`Restored`); a unit it does not visit is the same at both sources
or stays excused (`SkippedIsExcused`); a page that is answered shows all that is visible but
for the excused units (`ShownIsOpen`), because a withdrawal the consumer was not told of
would have stopped it; and content that is suppressed as equal is content the consumer was
not excused from (`BeforeIsUnexcused`). At rest with no repair outstanding, all the consumer was told lies
before the source it has consumed, and nothing is excused.

`RestedUnitsAreOpen` needs the rest of the invariant (`KeptBy`): what the consumer holds of a
unit that was paged is open, or was withdrawn after all its cursor was told of, which refuses
the page that would end the stream; and in a range of removals, the posts before the
cursor are in no unit any more.

`Overlap = FALSE` is a hypothesis, as it is a constant of the run: the consumer does not
poll while a history read is open. With `Overlap` TRUE TLC violates `VisibleIsHeld` (see the
disagreements), and the proof uses it where a poll takes over the receipt (`PollReads`). TLC has
checked `ConsumerInv` on the run's instance (216,547 states) before it was proved.

The proof showed that `UNION A \union B` in `Affected` is read in two ways, by SANY as
`(UNION A) \union B`, which was meant, and by the proof manager as `UNION (A \union B)`;
the model now has the parentheses.

### Sampling

`StreamInv` speaks of the samples and of all deliveries (`SamplesInv`): every sample is that
of a delivery (`Backed`), the kept sample of a post is its newest delivery unless enough
others were delivered to evict it (`NewestKept`), and a repetition has its reason
(`RepeatsIn`). The three properties are parts of it. It holds after every tweet, not only
after every response: what is skipped is the same sample as a delivery, so it is covered; a
late sample is delivered and is remembered by no sample; and samples are given up at the end
of a response, when those that are kept belong to `MaxSamples` other posts, each with a
delivery.

What `PoolSync` assumes is stronger, since the observations that are kept are any that cover
what the state leaves out, not those that made the state (`StandFor`). The proof goes post by
post. Of one post, a response leaves the sample as it was, or has delivered the new one
(`LeftOrDelivered`). In the first case the next response is prepared, as far as this post
goes, as it would have been before (`Agree`), and what covered its tweets then covers them
now. In the second, all that is skipped is covered by what was delivered since (`Holds`).

### Capture

`CaptureInv` holds of three pairs of identities and entries: those in memory, those the write
under way holds, and those that were saved. In each, every identity is archived, given up,
or that of an entry that is no image backfill (`AllAccounted`): the overflow gives up
backfills without a trace, and may, because they repeat what another entry accounts for. Only
entries of the request under way carry its mark (`Marks`), so what an answer removes from
the buffer is what the daemon took, although the buffer has changed meanwhile. The
identities grow from what is saved over what is being saved to those in memory (`Growth`).
Who waits for a save has its identities in memory and, if its write is under way, in that
write (`Waiting`), so the saved copy holds them when the staged response is cleared
(`SavedBeforeCleared`). TLC has checked `CaptureInv` on the run's instance (287,092 states)
before it was proved.

Dedup, overflow and preparation go through a sequence, so the models write them as recursive
functions over positions. That such a function exists, and that what its first step
establishes and each step keeps its last value has, is shown by the least position that fails
(`LeastExists`, `UpTo`): no induction theorem of the library is needed.

### Only model-checked

All liveness properties (`NoFileStuck`, `EverythingLeaves`, `StagedIsArchived`, `RunsEnd`,
`CatchesUp`, `PinnedBootstrapFinishes`, `ConfigurationSettles`): out of the prover's reach.
Every safety property of a passing run is the statement of a theorem.

## 5. Plan

The order follows the way of a post: losing or changing captured posts is the
worst that can happen, and cannot be repaired later.

1. Done: all modules of section 2, their runs, and the proofs of section 4.
2. Open: `GraphqlCapture`, the image downloader of the daemon, and the composition of
   `EnrichmentJobs` with `EnrichmentRun`, which now meet only in an assumption (one job at a
   time) that `OneWriterAtATime` supports.

## 6. What is not modelled

- The tweet parser and the shared schemas: data without control. The models use equality
  where the code compares hashes.
- The explorer and the pages of the extension: user interface that only sends the
  messages and requests modelled as inputs.
- GraphQL capture: its state is the browser's debugger, and what a lost attachment loses
  was never promised.
- The daemon's logs, dumps, video downloads and image downloader.
- The first installation and its prompts, the one-off migrations of storage layout and
  legacy writers.
- What each section above names as left out of its module: the sequential dispatch of the
  worker, cursor expiry and page sizes of the consumer API, read-only routes of the Space,
  listing pages and transfer retries of the Bucket clients.
- The network between worker and daemon is the loopback interface with requests that
  are served whole; file systems are assumed to keep what was renamed into place, and
  Buckets to return what was stored last.

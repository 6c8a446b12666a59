# A verification development for the YouTube e-mail scraper

The repository is a small distributed system: a FastAPI front end in several gunicorn
processes, two arq worker processes, PostgreSQL and Redis between them, an asyncio
crawler inside each job, and a browser page that follows the job over a WebSocket.
This directory holds TLA+ models of its core, the TLC runs that check them, and TLAPS
proofs of their main properties for every size of the system.

## 1. Inventory

| part | state it keeps | operations | talks to |
|---|---|---|---|
| API (`routes/scraper_routes.py`) | none of its own | `start_job`, `stop_job`, status, results, export | `jobs` rows, arq queue, pub/sub `command:<id>` |
| lifespan (`app.py`) | `arq_pool` | purge `arq:job:*`, re-enqueue RUNNING rows, start the retention task | Redis, `jobs` rows |
| arq worker (`worker.py` + arq) | `_running_tasks`, arq's `job_tasks`, `aborting_tasks` | pick, run, cancel, finish a job; command listener | arq's keys, rows, pub/sub |
| job coroutine (`start_spider_for_job`) | its session, `email_count_tracker`, `db_lock` | run the spider, push rows, final commit, deduct, announce | spider, rows, pub/sub `channel:<id>` |
| credits and usage (`auth.py`, `queue_manager.py`) | `users` and `usage` rows | `deduct_credits`, `track_usage`, `get_remaining_credits` | start_job, the coroutine |
| spider (`engine/spider.py`) | `seen_*`, `_total_scraped`, queue, `stop_event` | producer, 8 fetch workers, expander, reporter, poll loop | search, fetch, validator, push callback |
| live results (`websocket_routes.py`, `static/app.js`) | subscription, `results` of the page | subscribe, replay, relay, reconnect, resume | pub/sub, `results` rows |
| retention (`queue_manager.py`) | Redis lock | delete expired rows, mark hung jobs | rows |
| provisioning (`auth.py`, `dependencies.py`) | `users` rows | lazy insert at the first request | Supabase tokens |
| proxy pool (`engine/proxy_manager.py`) | per-proxy counters, cooldowns | choose, report success/failure/rate limit | spider |
| search and fetch fallbacks (`engine/spider.py`, `youtube_search.py`) | failure counters | InnerTube, HTML fallback, adaptive delay | proxies, parser |
| validator (`engine/email_validator.py`) | MX cache, one per process | extract, validate, confidence | spider |
| parser (`engine/youtube_parser.py`) | none | description, subscribers, links of a channel | spider |
| deployment (`start.sh`) | none | starts two workers and gunicorn, signals the workers | all processes |
| fingerprints, config | none | tables | spider |

What is hard here is not any single function but the order of their awaits:

* one row and one group of Redis keys are written by four kinds of process that share no
  lock (start/stop requests, boots, workers, the hourly clean-up);
* every `await` in the coroutine is a place where a `CancelledError` may surface, from two
  independent sources (the command channel and arq's abort), and only one of the places
  catches it;
* objects loaded before a spider that runs for an hour are used after it;
* the API processes clean up under a lock that names no owner, and answer concurrent
  requests of one user from rows each has read before the other wrote;
* the jobs of a process share a cache that is read before an await and written after it,
  and that keeps a failure as an answer;
* pub/sub forgets, and a page may be connected, reconnecting or reloading when a row is
  published, and the row is committed after it is published;
* eight fetch workers, a producer and a poll loop share counters, a bounded queue and an
  event, and are killed at a deadline.

`PROJECT.json` has what can go wrong, hazard by hazard, at its line.

## 2. Modules

| module | models | composed with |
|---|---|---|
| `JobLifecycle` | one job from POST /api/start to the last commit, across API, boots, workers and clean-up | implements `Execution` |
| `Execution` | abstract: runs of jobs, at most one at a time, a charge for what a run has found, and no run after it | – |
| `MCJobLifecycle` | its instances for TLC: one user, fault budgets, symmetry | extends `JobLifecycle` |
| `CreditLedger` | the two balance columns, the row lock, the usage row and all jobs of one user | implements `Account` |
| `Account` | abstract: a balance and debits that never exceed it | – |
| `SpiderPipeline` | the tasks of `MaxSpeedSpider.run` and the push callback | implements `Collector` |
| `Collector` | abstract: a set of addresses that grows one at a time until it is closed | – |
| `MCSpiderPipeline` | channels and their addresses for TLC | extends `SpiderPipeline` |
| `ResultStream` | worker → Redis channel → WebSocket → page, with the replay from the database | – |
| `ProxyPool` | proxies, their failures in a row, quarantine and forced release | part of `YouTubeAccess` |
| `YouTubeAccess` | concurrent searches and channel visits: InnerTube, its off switches, HTML fallbacks, retries, semaphores | extends `ProxyPool` |
| `Retention` | the clean-up task of every API process and the lock they share | part of `Admission` |
| `Admission` | concurrent POST /api/start: provisioning, credit check, job limit, insertion; expiry and deletion of rows | extends `Retention` |
| `MCAdmission` | users, addresses and the processes of a behaviour for TLC | extends `Admission` |
| `ChannelPage` | pure: what the spider reads from the pages of a channel, and which words are addresses worth keeping | part of `AddressCheck` |
| `AddressCheck` | the fetch workers of all jobs of a process over its cache of MX answers, from a channel to the rows | extends `ChannelPage` |
| `MCAddressCheck` | channels with the pages that make a difference | extends `AddressCheck` |
| `*Proofs` | theorems about the module of the same name | extend it and `TLAPS` |

### 2.1 JobLifecycle

The database is the function `status` (the committed `Job.status`) and `charges`, the
number of committed deductions. Redis is five sets and a counter: `jobKey`, `queue`,
`inProgress`, `resultKey`, `abortSet`, `tries`, one per arq key prefix. A handler is a
program counter per request (`startPc`, `stopPc`, `bootPc`) with one action between two
awaits that reach Redis or PostgreSQL. `pc[w][j]` is `run_job` of arq together with the
coroutine it runs, so it has arq's states (`picked`, `fail`, `finish`, `rerun`) and one
state per await of the coroutine at which something can intervene (`select`, `start`,
`spider`, `commit`, `charge`, `announce`). `local[w][j]` is `job.status` in the
coroutine's session, written to the row only by a commit and only if it differs from what
was loaded, as the ORM does.

`Interrupt` is the heart of the module: what `Task.cancel` does at each await. Inside
`spider.run` the exception is caught and the row becomes STOPPED; at any other await it leaves
the coroutine, the rest of the `finally` block is skipped (it catches `Exception`, and
`CancelledError` is a `BaseException`), and a commit that was on its way may or may not have
happened. `spider.run` itself cancels its fetch workers on every way out, and one that is
cancelled inside the commit of `push_data_fn` leaves the session they share broken, as a
failing database does: `TasksCancelled`, in `SpiderEnds` and in `Interrupt`. A cancellation may
also find `spider.run` already waiting for those workers, so `Interrupt` lets one that comes
before the final commit be caught, too. `Charge` is `deduct_credits` with its two outcomes;
that it refuses is an event of its own (`refusal`), since the balances are `CreditLedger`'s.
`CommandCancels`, `CancelAborted`, `JobTimeout` and `SignalCancels` (start.sh ends its workers,
arq cancels every task it has) are its callers; they differ in whether arq ends the job or
keeps it for another try.

Modelling decisions:

* Time is abstracted. A deferral, TTL or budget ends at any moment, with three guards
  where the code's durations exclude an order: an in-progress key lives ten seconds longer
  than `job_timeout` (`InProgressExpires` needs the job idle), a result lives an hour,
  longer than a boot or a polling request needs (`ResultExpires`), and a row is overdue
  only ten minutes after its time budget (`HungSelect` needs the job idle).
* Two identical `stop` messages for a job are one element of `commands`: the second is a
  further cancel, which the abort of the same request models already.
* Loss of Redis itself is left out. The deletion of expired rows is in `Admission`.

### 2.2 CreditLedger

`row` is the committed pair of columns, `snap[j]` the pair in the `User` object that job
`j` loaded when it started: the session keeps that object (`expire_on_commit=False`) and a
`SELECT ... FOR UPDATE` without `populate_existing` returns it unchanged. `Write` sets only
the columns that differ from what was loaded, as the ORM's UPDATE does. `lock` is the row
lock, held from `LockUser` to the next commit, which is `Deduct`'s or, when the deduction
is refused, `WriteUsage`'s. `Slots` is the number of jobs of the user that can run at
once. `debited`, what `deduct_credits` says it took, and `overlapped`, the jobs that were in
a slot at the same time as another, are history variables; what the jobs found is
`Emails(js)`, a set with one element per address. The limit of active jobs (one for a free
user, three for a payer) does not keep a user's jobs apart: a stop ends the row at once,
and every row is ended before its deduction.

### 2.3 SpiderPipeline

`main`, `producer` and `fetcher[w]` say at which await each task stands; between two
awaits a task is alone, so one action is all the code from one await to the next.
`AddEmail` is therefore the test of `seen_emails` and `_total_scraped` together with both
updates, and `PushRow`/`PushDone` the two halves of `push_data_fn` around its commit.
`total` counts addresses found, `tracker` rows pushed: the job is charged for the second.
The keywords are abstracted: a batch of searches returns any set of new channels
(`Search`), and `EmailsOf` says which addresses a channel's description holds. `MayBeCut`
switches the deadline, the 90-second stall and the external cancel on. A cancelled task
does nothing more, which is what asyncio does at its next await; the seconds between
`task.cancel()` and the end of the gather are not modelled.

### 2.4 ResultStream

One page, one job, one worker. `pending` is the row between `db.add` and the commit,
`stored` the committed rows, `inbox` what the subscription has delivered to the listener
task and the page has not seen, `replay` what the streaming cursor has still to send.
`socket` goes from `retry` over `open` (authenticated) and `subscribed` to `selected` (the
SELECT has read its rows); `listening` is `pubsub_listener`, which an error ends while the
socket stays open (`ListenerDies`).

The page's steps follow `connectWebSocket`, `stopJob`, `jobFinished` and `resumeJob`.
`AuthEvent` is a check of the login (`SIGNED_IN`, `TOKEN_REFRESHED`, a page load): it
resumes a saved job whether or not a socket is open. Each such call is an await of the status
(`asking`), which empties the list, and an await of the results (`fetching`), which are
listed without a look at what is there; only then does `connectWebSocket` close the socket.
Rows that arrive between, a second call, a failing one and the Results tab (`ViewRows`) may
come in any order. `shown[r]` therefore counts how often a row is listed. `resumed`,
`overlap` and `whole` are history: the answers listed since the list was emptied, whether
anything else was under way meanwhile, and whether the list is still the one the socket fed.

With `MayFail` a commit may fail: `CommitFails` is an exception from the commit of a row,
which is caught and logged (worker.py:168) whether or not the server had committed, or the
cancellation of the fetch worker in it. The session is `broken` from then on: later rows are
published all the same and none is stored, and the last commit of the job fails too
(`FinalCommit` leaves the row `active`, `FinalFails` is the case that it is the first to
fail), which `ResumeStatus` reads, until the hourly `CleanUp`. `WorkerDies` leaves the same
behind at any moment.

### 2.5 ProxyPool and YouTubeAccess

`SpiderPipeline` takes a search and a channel visit as one step each; `YouTubeAccess` is
what happens inside. `stage[c]` is the function a call is in (`api` for `_curl_search`'s
loop or `_try_innertube_browse`, `html` for the two HTML functions, `more` for
`_fetch_continuation`), `at[c]` whether it waits for the semaphore, has sent a request, or
sleeps inside the semaphore's block after a 429. Every answer YouTube or a proxy may give
is an action: `RateLimited`, `Refused`, `Raised`, `HtmlPage`, `SearchFound`, `SearchEmpty`,
`NextPage`, `BrowseFound`, `BrowseMissed`, `BrowseRaised`. An answer without channels is
`SearchEmpty` also when all its channels were known or filtered out, as in the code. The
methods of `ProxyManager` are operators that these actions contain, since each runs to its
end under the lock: `resting` is the quarantined proxies in the order of their expiry
(`ToBack` renews one), a report may arrive for a request sent before the proxy was put to
rest, and a forced release clears the record. The list of proxies is taken to name each
once. The cancellation of the calls at the end of the run is
`SpiderPipeline`'s.

### 2.6 Retention and Admission

`pc[r]` is the await at which a request is: `lookup`, `insert`, `refetch` in
`get_current_user`, `count` and `commit` in `start_job`. `account[u]` is the users row
reduced to the plan it gives (`addon`, `paid`, `free`, or `spent` when no credits are left),
`loaded[r]` the plan in the `User` object of the request's session, from which limit and
expiry are taken. A job row is `active` (QUEUED or RUNNING), `ended`, or `revived`: active
again after it had ended, which the worker's RUNNING and a boot's QUEUED can bring about.
Those steps (`JobEnds`, `JobRevives`) are `JobLifecycle`'s and may happen at any time here;
so may `Deduct`, which leaves the user with any plan that deductions from the credits the
row began with can leave (`granted[u]`, `Lower`): also a better one than before, since a
deduction writes absolute values from an object loaded earlier, as in `CreditLedger`;
an enqueue that fails changes no row, so it is no step of its own. A clean-up takes the
lock, deletes what has expired, marks hung rows, and deletes the lock, whoever holds it by
then; the pass over the hung rows may hit any row, because it writes what it read earlier.
Time is two bits: a row is due or not, and the lock's time to live may end whenever.

### 2.7 ChannelPage and AddressCheck

A text is the set of its words and a word an address or a link, so duplicates, order, spelling
and names are left out. Of an address `Form` holds what the rules of `EmailValidator` look at:
lengths, digits, domain, whether it ends like a file. `ReadChannel` is the precedence of the
three sources with everything that may be lost on the way: the about section that raises ends
the loop of them, a source without a description is passed over, a number is truncated, and one
that cannot be read is 0. `Readable` and `ExactSubs` say separately what a reader of the same
pages would expect.

`AddressCheck` runs the fetch workers of several jobs over these channels. Between two awaits a
task is alone; `Miss` and `Answer` are the two sides of the await of the resolver and `Add` and
`Push` those of the await in `_add_email`: an address is marked as seen and counted, and its
row comes when `push_data_fn` has the lock. `held[w]` is the address in between; a worker that
is cancelled there keeps it for good. A look-up in the cache that needs no await is a step of
its own (`Hit`), which adds interleavings and loses none. `HasMail` is fixed: DNS is external,
but any query may fail. The failures of a fetch are `YouTubeAccess`'s; here a channel is one
whose pages have arrived. `Cancel` is the end of a job at any await.

## 3. Runs

| run | instance | shows |
|---|---|---|
| `job_faults` | 1 job, 2 workers, 2 API processes, each fault but a timeout once, 2 boots (1.6 M states) | `OneExecution`, `ImplementsExecution` |
| `job_ends` | 1 job, 2 workers, each fault once, no boot, fair | `StopAnsweredIsHalted`, `PaidUnlessDisturbed`, `StopIsAnswered`, `RunningSettles`, `JobSettles` |
| `credit_shared` | 3 jobs, 3 slots (1.9 M states) | `NeverOvercharged`, `ExactWhenAlone`, `UsageNeverExceeds` |
| `credit_serial` | 3 jobs, 1 slot | `ImplementsAccount` |
| `spider` | 2 fetch workers, 4 channels, 3 addresses, target 2, queue of 2, fair | `LostInFlight`, `ImplementsCollector`, `StopsAtTarget`, `FeedGoesOn` |
| `access` | 2 searches, 2 visits, 2 proxies, 2 tries, limits of 2, two calls at once (0.45 M states), fair | `FailuresBounded`, `OffForGood`, `Drains` |
| `stream` | 2 rows, 2 drops, a reload, 2 resumptions, a failed publish, failed commits, a dead listener, a kill (2.1 M states) | `ShownBounded`, `AtMostOneMissed`, `PhantomBounded` |
| `admission` | 2 requests and a cleaner, or 3 cleaners; 2 job rows, limits 1 and 2, fair (0.17 M states) | `OverlapBounded`, `JobLimit`, `FailsOnlyIfTaken`, `ExpiredAreDeleted`, `NotLockedOut` |
| `addresses` | 2 jobs, 3 workers, 7 kinds of channel, 4 domains, one failing query, fair (0.20 M states) | `RowsVerified`, `LostOnlyToFailure`, `QueriesBounded`, `VerdictIsFinal`, `ChannelsEnd` |

Each also has its module's type invariant, except `job_ends` and `credit_serial`, whose
modules have it in the other run.

Four properties have a theorem and no run, because a refinement says them: `Execution` charges a
job once and begins no run of a charged one (`ChargedAtMostOnce`, `NoRunAfterCharge`), and
`Collector` takes an address once, counts it, and stops at the target (`DistinctRows`,
`WithinTarget`).

Violation runs, each refuting one sentence of the repository:

| run | property | what happens |
|---|---|---|
| `job_orphan` | `OrphanIsRecovered` (app.py:115) | the retry counter of the crashed run is still in Redis, `max_tries = 1` refuses the re-enqueued job, its row stays QUEUED |
| `job_uncharged` | `DeductedAtEnd` (README.md:332) | the second of the two cancellations of one stop request hits the `finally` block before the deduction |
| `credit_race` | `DeductionsAddUp` (worker.py:207) | two jobs deduct from objects loaded before either ended; the row lock orders them but does not refresh the second |

### Bounds

Jobs meet only in the slots of a worker and in the limit per user, so one job with two
workers and two API processes shows every interleaving that the job properties speak of;
the theorems say the same for any number. Faults are counted per kind because two of one
kind add no new kind of history except for boots (one before and one after the crash),
which may happen twice. `job_faults` leaves `job_timeout` out, which cancels as the abort of a
stop does and is in `job_ends`. Three jobs in the ledger are the least with a chain of two stale
objects; balances of 2 + 2 with a cap of 3 make a job cross from free to paid credits, be
refused, and exhaust the balance. In the pipeline four channels over a queue of two make
the producer block, a shared address makes the duplicate test bite, and three addresses
for a target of two make workers race for the last place. In
`stream` two rows and one asked for at a time (`FetchLimit`) make one that an answer holds
and one that it does not, and one before and one during a subscription; two checks of the
login are the least with two calls of `resumeJob` under way, two drops the least with a
reconnection that is cut off itself. In `access` two calls under way at once
are the least with an answer that arrives under a counter another call has changed; limits
of 2 let the counters be raised, reset, reached and passed; two proxies can both rest, in
either order, and the pool may also be empty or hold one. `VisitSlots = 1` makes two visits
queue; two searches have two slots, since the code's batch is never larger than its
semaphore.

In `admission` two concurrent requests are the least that race for a row or a limit, and three
cleaners the least for a chain: the slow one deletes the second's lock and lets a third in
beside him. One clean-up may be slow and one may fail. A user may start without a row, as a
payer whose limit is 2, or behind another account with his address. In `addresses` two workers
of one job and one of another share the cache; the channels are a page with a broken section
and a truncated number at the bound, a description only in the about renderers, data that
cannot be parsed, data and HTML that disagree, no description, too many subscribers, and a
number that cannot be read; domains with mail, without, free and bad; a target of two that
workers race for.

`CHECK_DEADLOCK FALSE` in every configuration but `MCAccess.cfg` and `MCAdmission.cfg`: those
systems really stop, when the job is over and no fault is left in its budget. In `access` a
call and in `admission` a request or a clean-up can always begin or go on, so TLC's deadlock
check is on.

### Fairness

Only what the code's own scheduling gives. In `JobLifecycle`: requests in flight (the
event loop), the workers' steps once a job was picked (a spider ends by its time budget),
`_cancel_aborted_jobs` on every poll, the hourly clean-up, TTLs, and strong fairness of
`Pick`, since a waiting job may find the slot taken again and again by others while arq
polls in order of score. No fault and no request is fair. In `SpiderPipeline` each task is
weakly fair (asyncio runs what is ready, and every network await has a time limit); the
deadline, the stall and the cancel are not. In `YouTubeAccess` a call goes on when it can: a
request is answered or times out after `CFFI_TIMEOUT`, a sleep ends, a free slot is taken
(`asyncio.Semaphore` serves its waiters in order). No call need begin and no proxy need
recover; `Drains` speaks of the calls under way once no new one begins. In `Admission` the
hourly tasks run, days pass and the lock's time to live ends; no request need come and no
job need end. In `AddressCheck` a worker's own steps are fair, since every query is answered
or times out (the resolver of aiodns gives up by itself) and `db_lock` is passed on when a
push is over; nobody need hand out a channel.

## 4. Proofs

All theorems hold for any values of the constants that satisfy the modules' assumptions.

* **JobLifecycleProofs.** `TypeCorrect`. `OneExecutionAlways`: not inductive alone; the
  strengthening `HoldsKey` says that a `run_job` owns its in-progress key, which `Pick`
  requires to be absent, and which only leaves with the run or after it.
  `ChargedAtMostOnceAlways` and `NoRunAfterChargeAlways` (for `MaxTries = 1`, as
  `WorkerSettings` has it) rest on `ChargeInv`: up to the deduction a job is uncharged; a
  charged job is not RUNNING in the database, so no boot takes it for an orphan; and
  wherever arq could still run it (in the queue, picked, or about to be re-enqueued by a
  boot that read the row earlier) a try or a result stands against it. The proof needs each
  of these: the boot that selected the row before the job was charged is the case that a
  test would not find.
  `StopAnsweredIsHaltedAlways`, for `MaxTries = 1` and as long as no API process has been
  restarted (a boot does run such a job again: section 5), rests on `HaltInv`: an answered
  stop leaves no coroutine, and a run that arq may still pick meets the abort or the try of
  the run that met it. `JobImplementsExecution` (`MaxTries = 1`): whatever requests, boots,
  clean-ups and cancellations do to the keys and rows, what is left of it is a run at a time
  and one charge by a run that found something. A run may begin since nobody runs
  (`OneExecution`) and the job is unpaid (`ChargeInv`); a run that reaches its deduction has
  an email (`FoundOK`).
  `PaidUnlessDisturbedAlways`, for any `MaxTries`: a run that found something reports itself
  done without a deduction only if a commit of that very run failed or was cut off, or the
  credits do not suffice; it ends before only if its worker is killed, or by a cancellation
  after `spider.run`, and then more of them have been delivered or are owed than the one that
  `spider.run` catches. `CancelsCounted` counts what still owes a cancellation (a command, an
  abort, a signal) against what has sent one.
* **CreditLedgerProofs.** `TypeCorrect` (no balance is ever negative) and
  `NeverOverchargedAlways`: the inductive invariant bounds each column of every stale
  object from below by the row's and the totals. `ExactWhenAloneAlways` needs no bound on the
  slots: `Alone` says that a job which met no other one holds an object equal to the row, and
  is the only one that may write it, so it pays for what it found, free credits first.
  `SerialImplementsAccount` follows for every behaviour without an overlap, whatever the
  number of slots; that slots alone do not exclude one is the run `credit_race`.
  `UsageNeverExceedsAlways` is for any number of slots: `Backed` bounds the row, and every
  older state of it that a job still holds, by the emails of the jobs that are over, to which
  a job that ends adds its own.
* **SpiderPipelineProofs.** `TypeCorrect`, `WithinTargetAlways`, `DistinctRowsAlways`,
  `PipelineImplementsCollector`. The invariant counts: found addresses are the rows plus
  those in the hands of one worker each, all distinct, and never more than the target.
  `LostInFlightAlways` reads the same count the other way: an address that was found and has
  no row is one a fetch worker was pushing when it was cut off, so a run loses at most one
  address per worker (`LossBounded`).
* **ResultStreamProofs.** `TypeCorrect`. `ShownBoundedAlways`: a list that `resumeJob`
  emptied with nothing else under way stays empty until the results come (`Listed`), so only
  an emptying that met a socket or another call can list a row twice, and then once more for
  every answer. `AtMostOneMissedAlways`: `db_lock` lets one row at a time be published and
  not committed, and the rows missed by a page whose listener runs are at most that one and
  those whose publish failed. `PhantomBoundedAlways`: without a
  failed commit every address the page was sent is stored or about to be, and after a kill
  all but one; `Kept` says it of every address found, and that a page lists nothing else.
* **YouTubeAccessProofs.** `TypeCorrect` says of the pool that no proxy is queued twice and
  that every request under way has a proxy of the pool, which no sequence of late reports may
  break. `OffForGoodAlways`: the switches stay off, and a search that met the give-up between
  two pages only uses up the pages it has left. It and `FailuresBoundedAlways`: the invariant
  adds the calls that are asking InnerTube to the failures counted: an answer turns one of the
  former into at most one of the latter, and a call joins only below the limit. `SearchStep`
  and `BrowseStep` say all that any step does to a counter, and both theorems follow from them.
* **AdmissionProofs.** `TypeCorrect`. `OverlapBoundedAlways`: while the lock is held the
  clean-ups under way are at most `1 + slow`, while it is free at most `slow`, and a clean-up
  that deletes the lock is one less itself, whosever the lock was. `JobLimitAlways`: the
  rows not ended, with the requests about to insert one, are at most the user's limit
  plus the other requests under way; the counting step compares with rows only, so the
  invariant has to bring in the plan that the request loaded. That limit is the one of the plan
  the user's row began with (`PlanInv`): a stale write may put a plan back, never above it.
  `FailsOnlyIfTakenAlways` (an id or address once taken stays taken) rests on `AccountStep`,
  which says all that any step does to an account.
* **AddressCheckProofs.** `TypeCorrect` (no score leaves 45..100). `RowsVerifiedAlways` and
  `LostOnlyToFailureAlways` rest on `DeliveryInv`: a cached yes is true and a cached no is true
  or failed (`CacheOK`); a worker holds only what is on its channel (`WorkersOK`); every
  address expected of a busy worker is still to be looked at, delivered, or in a worker's hands
  before its push (`WorkersAccount`), and of a finished channel delivered or in such hands
  (`ChannelsAccount`): an address marked as seen has a row or a holder. That the spider finds
  what a reader would is a lemma about `ChannelPage`. `QueriesBoundedAlways` counts the askers
  of a domain: while there is no verdict every query has an asker of its own.
  `VerdictIsFinalAlways`.

Every invariant and action property of the passing runs is thus a theorem, and so is every
refinement: `ImplementsAccount` (for behaviours without an overlap), `ImplementsExecution` and
`ImplementsCollector`.
Only model-checked: the liveness properties (`StopIsAnswered`, `RunningSettles`, `JobSettles`,
`StopsAtTarget`, `FeedGoesOn`, `Drains`, `ExpiredAreDeleted`, `NotLockedOut`, `ChannelsEnd`),
since the prover has no liveness rules under fairness, and every violation.

## 5. Other divergences of documents and code

Read in the code while modelling, without a run.

Jobs and rows:

* app.py:105 says "restarting the app doesn't resume aborted tasks": a stopped job over whose
  row the worker's RUNNING was written is taken for an orphan and enqueued again.
* app.py:116 calls every RUNNING row interrupted although workers outlive a gunicorn process.
* The purge at boot deletes the keys of waiting jobs, whose rows stay QUEUED; they count
  against the limit until they expire, and those of a user with the add-on never do.
* "Background task polls every 2 seconds" (README.md:368) describes a queue arq replaced.
* The trap of start.sh runs only when the foreground gunicorn has ended, so a `docker stop`
  may kill the workers before they get the signal.

Credits and accounts:

* 600 free credits in README.md:329 against 500 in `auth.create_local_user`.
* `deduct_credits` takes nothing when the balance is below the count, and its result is
  ignored (worker.py:215).
* "Credits are deducted based on the number of emails requested when a job is launched"
  (static/terms.html:108) against "for **actual emails found only**" (README.md:332), which is
  what the code does.
* Two users whose tokens carry no address of e-mail conflict on the empty one.

Live results:

* "all existing results are replayed" (README.md:398): a row published before the subscription
  and committed after the SELECT comes by neither way. `AtMostOneMissed` bounds it.
* A page that is disconnected when `done` is published is never told (README.md:392).
* The page asks for the first 500 results of a job only.
* A commit that fails is logged and the page goes on showing addresses that are in no row
  and in no export (worker.py:168); `PhantomBounded` is what remains without it.
* A fetch worker that the spider cancels in such a commit breaks the session in the same way,
  and the job is neither ended nor paid (spider.py:1243; worker.py:219 calls it "safe to ignore
  if cancelled").
* "prevents duplicates on reconnect" (app.js:456) holds of messages only: `resumeJob` lists
  stored rows beside those that an open socket brought meanwhile (app.js:416), and the cards of
  the list it emptied stay on the page. `ShownBounded` is what remains.
* "Reconnect if unprompted close" (app.js:489): the close that `connectWebSocket` itself makes
  of an open socket runs the same handler, which connects again two seconds later, closing the
  new socket, and so on for as long as the job is followed.
* An error of Redis or of a send ends the listener of a socket and leaves it open
  (websocket_routes.py:75): the page is connected and hears of nothing.
* When the results cannot be fetched the emptied list stays empty and the job is forgotten
  (app.js:434); the Results tab replaces rows that arrive while it fetches (app.js:647).
* worker.py:135 speaks of every ten e-mails where every one is pushed.

Search and fetch:

* The browse API "auto-disables after 10 consecutive failures" (spider.py:733), but an
  exception is not counted, so ten time-outs disable nothing.
* "InnerTube failed completely" (spider.py:633) is not reached when the last attempt raised:
  the search then returns nothing and does not fall back.
* `_update_adaptive_delay` is called only after a 429 (spider.py:820): the delay never comes
  down again.
* `_parse_search_items` notes a channel as seen (spider.py:357) before the filters decide, and
  nothing sets the `likes` and `comments` that two filters ask for (spider.py:231-235).
* The refill of keywords may find only combinations it knows and then waits for the deadline
  (spider.py:1016-1037); the expander queues suggestions again that wait already
  (spider.py:954).
* Proxies are chosen by weighted chance and never removed (README.md:306).

Addresses:

* yahoo.com and aol.com are in `BAD_DOMAINS` and in `FREE_PROVIDERS` of email_validator.py:
  such an address is dropped, not given fewer points.
* Nothing sets `mx_verified` (spider.py:308), so every row has the points for it.
* A business address is lost when the page has no description; 2.01K is 2009
  subscribers (youtube_parser.py:38), and "1.2 million", which cannot be read, is 0
  (youtube_parser.py:45): below every minimum, and within every maximum.

## 6. Not modelled, and why

* Fingerprints, configuration and constants: tables and environment variables.
* Export, status, results and the pages: they read, and change nothing a job sees.
* Token checks and the hand-over to Supabase: a service outside the repository.
* Connection pools, the ORM's flush and arq's internals beyond what decides a job's life:
  libraries. The vendored environment is third-party code.
* Names, titles and the walk through nested JSON in the parser: no property depends on them.
* The rate limiter is a library's, and nothing depends on `record_login_attempt`.
* Success rates of proxies and the adaptive delay: they weigh a choice or lengthen a sleep.
* A page that looks at another job of its history while it follows one: `viewJob` changes
  `currentJobId` under the running socket.
* Loss of the data in Redis: nothing in the code handles it.

## 7. Plan

Done: `JobLifecycle` with `Execution`, `CreditLedger` with `Account`, `SpiderPipeline` with
`Collector`, `ResultStream`, `ProxyPool` with `YouTubeAccess`, `Retention` with `Admission`,
`ChannelPage` with `AddressCheck`, and the proofs of all their invariants. Left, in this order:

1. The supply of keywords (seed, refill, expander) inside `SpiderPipeline`'s producer, whose
   batches may return any channels at present.
2. `YouTubeAccess` inside `SpiderPipeline`: the fetch step of a worker as the batch of visits
   it gathers.
3. Paging and export of results against rows that are still being written.
4. Loss of Redis between two requests, once the code says what should happen then.

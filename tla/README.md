# PullSage, verified in TLA+

PullSage reviews GitHub pull requests with the Codex CLI.  It has two front
ends, a FastAPI service (webhooks and manual reviews, jobs run by background
workers) and an MCP server (tools that review and post inline), over one review
service.  This directory models the parts of it that are concurrent, stateful
or bounded, checks them with TLC on small instances, and proves the central
safety properties with TLAPS for every value of the constants.

Paths below are relative to `src/src/pullsage/`.

## The system

| Component | State | Operations | Interacts with |
|---|---|---|---|
| job store (`jobs/store.py`, `jobs/models.py`) | `_jobs`, `_active_by_key`, one lock | create, get-or-create, add, transition, fail, delete, cleanup | called by the queue and the job routes |
| review queue (`jobs/worker.py`) | bounded `asyncio.Queue`, worker tasks, `_started`, `_accepting`, a lifecycle lock | start, stop, enqueue, worker loop, cleanup loop | store, review service |
| review service (`reviews/service.py`) | none of its own; reads GitHub several times during one review | fetch context, analyse, validate, re-check the head, post | GitHub client, Codex runner, validation, formatter |
| review validation (`reviews/validation.py`) | none, pure | deduplicate, filter, reconcile verdict and risk | run by the service, twice for a posted review |
| review formatter (`reviews/formatter.py`) | none, pure | body, inline comments, review event | service |
| Codex runner (`ai/codex_runner.py`) | a subprocess, its three streams, a temporary directory | run, time out, kill and reap, read the candidate | service |
| GitHub client (`github/client.py`) | an HTTP connection pool | requests, pagination, bounded diff, post review | GitHub |
| delivery cache (`github/webhook_security.py`) | an ordered, bounded, expiring set of delivery ids, a lock | check and store, contains, discard | webhook route |
| webhook route (`api/routes/webhooks.py`) | none of its own | authenticate, filter, deduplicate, enqueue | delivery cache, queue |
| manual review route (`api/routes/reviews.py`) | none | look the head up, enqueue, poll | GitHub client, queue, store |
| MCP tools (`mcp/server.py`) | review semaphore, in-flight posts, recent posts, a lock | review, validate and post | review service |
| lifespan, dependencies, middleware, errors, configuration | wiring | | everything |

Everything runs on one asyncio event loop.  A task loses control only at an
`await` that suspends, which fixes the grain of the models: a step runs from one
effect to the next such `await`.

### What is hard, and what makes it correct

* **Store.** The index of active heads is kept by hand in creation, eviction,
  expiry, deletion and the terminal transitions.  It must agree with the jobs
  after any sequence of these (`IndexExact`), or a head is lost or reviewed twice at
  once (`UniqueActive`, a theorem).  Eviction at capacity must take the oldest finished
  job and never work in progress.
* **Queue.** A job has to be in exactly one place, whatever order admission,
  refusal, draining, time-outs, cancellation and restarts happen in.  The
  counter behind `queue.join()` must be exact or `stop()` hangs or returns too
  early; sentinels go into a bounded queue while the lifecycle lock is held.
* **Review service.** The head of the pull request can move, and move back,
  between any two of its requests to GitHub, two pages of the files included.
* **MCP tools and webhooks.** Repeated, concurrent and failed calls must not
  post one head twice, nor lose a delivery: one that is remembered and was never
  queued is one that GitHub's redelivery cannot save.
* **GitHub client.** Two reads run concurrently, and one goes on after the other has
  failed.  A list of files ends by a short page, by the lack of a next one or by the
  limit, and must be whole in all three cases.  A diff has one bound in bytes, which
  may cut a character, and one in characters; it must say when it was cut.
* **Codex runner.** A timeout or a cancellation races the exit of the process.
* **Validation and body.** Deduplication replaces entries in place; the posted review
  is validated a second time and must agree with the first.  Lists and the body are
  bounded, and whatever does not fit must be disclosed in what is left.

Each hazard is listed with its line in `PROJECT.json`.

## The modules

| Module | What it is |
|---|---|
| `HeadLocks` | abstract specification: every pull-request head is a lock |
| `JobStore` | `InMemoryJobStore`; refines `HeadLocks` |
| `ReviewQueue` | `ReviewQueue` and its workers; extends `JobStore` and refines it |
| `WebhookRoute` | the routes by which jobs come in, with the delivery cache; extends `ReviewQueue` and `ExpiringCache` |
| `ReviewService` | the service against a pull request whose head moves, and GitHub's side of it |
| `ExpiringCache` | operators of the bounded, expiring `OrderedDict` that PullSage keeps twice |
| `MCPTools` | the MCP tools that review and post; extends `ReviewService` and `ExpiringCache` |
| `ReviewBody` | the Markdown body of a posted review and how it is cut |
| `ReviewValidation` | the content of a review, from Codex to body and inline comments; extends `ReviewBody` |
| `GitHubClient` | the reads of one review: streamed responses, pages, the bounded diff |
| `CodexRunner` | one review by the Codex CLI: processes, pipes, result file, timeouts |
| `ReviewRun` | one whole `review_pull_request`; composes `GitHubClient` and `CodexRunner` |
| `MC...` | constants, inputs and symmetry for TLC |
| `JobStoreProofs`, `ReviewQueueProofs`, `WebhookRouteProofs`, `ReviewServiceProofs`, `MCPToolsProofs`, `ReviewValidationProofs`, `ReviewRunProofs` | theorems, checked by TLAPS |
| `ExpiringCacheProofs` | what the operations on a cache do to its entries; used by the proofs of the routes and the tools |

`ReviewQueue` extends `JobStore`, `WebhookRoute` extends `ReviewQueue`, `MCPTools`
extends `ReviewService`, and `ReviewRun` extends `GitHubClient` and `CodexRunner`:
their actions call the actions of the modules below, as the code does.  The queue sees
the service as the worker does, as progress reports and an outcome.  The service
sees validation as a step without effect, and `ReviewValidation` sees the service
as the order in which a review is validated, completed and posted; what links the
two is which files a post is mapped to (`files` in both).  One review has two models that
look at different things.  `ReviewService` has many calls, each request one step, and
asks which head an answer is of.  `ReviewRun` has one call, each request a stream of
chunks and each Codex process a process, and asks what is read, kept, left open and
left running; its head checks succeed or fail (`Stale`).

Operators whose name ends in `_Something` and whose comment begins with
"Mutant" are plausible bugs.  No action uses them; substituted for the
definition that follows them they break a property, which shows that the
property depends on that definition.

### JobStore

`jobs` is `_jobs` (its `DOMAIN` the stored ids), `activeByKey` is
`_active_by_key`, `clock` is `datetime.now(UTC)`.  Every public method changes
the state inside `async with self._lock` without awaiting, so a method is one
action, with `_ensure_capacity`, the eviction and the maintenance of the index
inside it:

| Code | Action |
|---|---|
| `get_or_create_job`, `create_job` | `GetOrCreate`; `RejectForCapacity` when `_ensure_capacity` raises |
| `add` | `Add`, of a new job or of a finished one |
| `transition`, `update_status`, `complete`, `fail` | `Transition`, `Fail` |
| `delete` | `Delete` |
| `cleanup_expired`, `cleanup` | `CleanupExpired` |

A job keeps its status, head, `post_comments`, three timestamps, and whether
`result` and `error` are set.  A repeated status is a legal transition, as in the
code.  Among equally old jobs any may be evicted (the code takes the first in
the dictionary's order).

### ReviewQueue

`queue` and `unfinished` are the `asyncio.Queue`; `phase` stands for `_started`,
`_accepting` and the place inside `stop()`; `pc`, `held` and `cancelled` are the
worker tasks; `admitting` and `refused` are the one `enqueue_with_status` call
that holds the lifecycle lock, before and after the queue refused its job.

| Code | Action |
|---|---|
| `start` | `Start` |
| `stop` | `StopBegin`, `Drained` or `DrainTimeout`, `PutStop`, `StopDone` |
| `enqueue_with_status` | `Admit`, then `Enqueue`, `Deduplicate` or `Reject`, then `Withdraw` after `QueueFull` |
| `_worker_loop`, `_process_job_with_context` | `Take`, `TakeStop`, `Progress`, `Complete`, `Failed`, `CancelIdle`, `CancelJob`, `CancelWorker` |
| `_cleanup_loop` | `Cleanup` |

The review service is seen as the worker sees it: progress reports in order, then
a result or an exception at any of them.  A cancelled worker is split in two
steps because the code fails the job in two nested handlers with an `await` in
each.  The second rewrites when the job ended (and, for a job that failed while it was
"queued", that it was started), which moves its expiry and its place in the eviction
order, although `is_terminal` (`models.py:64`) says that no further change is expected.
`QueueEndedJobsStay` is the theorem that this is the only change that a terminal job meets.

### WebhookRoute

`deliveries` is the `DeliveryCache`, an `ExpiringCache` under one lock that is never
held across an `await`; `client` holds the HTTP requests, webhook deliveries and
manual ones.

| Code | Action |
|---|---|
| `github_webhook`: `is_running`, `check_and_store` | `Deliver` |
| `create_review`: `is_running`, then `get_pull_request` | `Ask`, `Located` |
| `enqueue_with_status` from either route | `Enter`, or `TurnAway` when the queue has stopped; `Conclude` |
| `discard` | `Forget`, in `TurnAway` and `Conclude` |

A request that arrives while the queue runs finds the lifecycle lock free, so in the
code no webhook loses control between `is_running` and its answer; only a manual
request does, in its head lookup.  The model lets go at the same places for both, as
`ReviewQueue` does, and so has more behaviours than the code: a delivery may wait for
the lock while a `stop()` goes past.  This is why `AdmittedOnce` has a case for a
copy of a delivery that failed.  A manual request has the delivery id `NoDelivery`.
The expiry of deliveries, `time.monotonic()` in the code, is read from the clock of
the jobs.

### ReviewService

`history` is the sequence of heads the pull request has had, `call` the calls of
the service, `wire` the submissions that were sent, `reviews` what GitHub has.  A
step of a call is one answer of GitHub and everything the code does with it up to
its next request, since only there can anything come between.

| Code | Action |
|---|---|
| `fetch_context` | `BeginReview`, `ReadMetadata`, `FetchFiles` (page by page) and `FetchDiff` in any order (`asyncio.gather`), `Recheck` |
| `get_changed_files` | `NextPage`, in `FetchFiles` and `ListFiles` |
| `review_pull_request` | `Analyse` (Codex), `Confirm` |
| `post_review` | `BeginPost`, `Pin`, `ListFiles`, `Check` (sends), `Answer` |
| exceptions, time-outs, cancellation | `GiveUp`; a submission already sent is processed all the same or is lost |
| GitHub | `Push` (also a force push to a former head), `Accept` |

`files` and `diff` record the heads at which GitHub served the pages of the files and
the diff.  A force push that
takes a head away and brings it back cannot be seen by reading the head, so the
properties allow it (`Returned`).  `mark` is a history variable.

### MCPTools

`inFlight` and `postCache` are `_posts_in_flight` and `_post_cache`, `tool` and
`target` the local state of the tool calls; `acceptedAt` is a history variable.

| Code | Action |
|---|---|
| `review_pull_request` | `CallReview`, `Locate`, `Acquire` (the semaphore), `Reviewed` |
| `post_review` | `CallPost`, `Verify` |
| `_post_validated_review`, `_claim_post`, `_finish_post` | `Claim`, `Finish` |
| the service under a tool | `Serve` |
| failure or cancellation outside the service | `Abort` |

### ReviewValidation

| Code | Definition |
|---|---|
| `extract_changed_lines` | `ReadLine`, `ExtractChangedLines` |
| `bound_changed_file_patches` | `Bound` |
| `deduplicate_findings` | `Duplicate`, `Stronger`, `Merge`, `Deduplicate` |
| `_safe_location`, `_is_meaningful_blocker`, `_consistent_verdict`, `_consistent_risk` | `Locate`, `Blocker`, `ConsistentVerdict`, `ConsistentRisk` |
| `validate_and_filter_review` | `Validate` |
| `_deduplicate_strings`, `_add_context_limitations` | `Fresh`, `Distinct`, `AddContextLimitations` |
| `build_inline_comments` | `AddComment`, `InlineComments` |
| `format_review_markdown` | `FormatReview` (in `ReviewBody`), `Group` for a severity, `Fitting` for its two cuts |
| `fetch_context`, `review_pull_request`, MCP `post_review`, service `post_review` | `FetchContext`, `Return`, `Supply`, `Post` |

Texts that `_normalize_text` makes equal are one value.  `Post` validates with the
files of the context (a posting job, `service.py:371`) or with those that GitHub
lists then (a review posted later), which are not truncated.  The files do not
change: that they belong to the reviewed head is `ReviewService`'s property.

A patch is the sequence of lines that `str.splitlines()` gives.  It breaks a line also
at characters that are part of the text for git (form feed, vertical tab, a lone
carriage return, U+0085, U+2028 and others); `git` is FALSE of a line that begins after
one, and `kind` is what the code takes its first characters for: an added line that
does not exist, a removed line or a note, which are not counted, a hunk header, which
sets the count to its own number, or else context.  `AddedLines` numbers git's lines as
GitHub does, and `MisreadLines` are the numbers that the code gives to added lines after
such a break in their own hunk.  A comment may be on one of these, which no document
allows (`comments_misplaced` below); `CommentsSafe` says that it is on an added line
otherwise, in all other hunks of the same patch too.

`LossesDisclosed` requires
the "could not be mapped" limitation only if the list has room for it: it comes
before the warnings, which push it out of a full list.  Its other condition is that
Codex has not written the warning itself: `_add_context_limitations` then adds no
second copy, and may cut Codex's own one off a full list.  `docs/security.md:276` says
that truncation is reported, without these exceptions.

A body is a sequence of lines of given sizes.  A line that a cut goes through is gone:
the first cut of the code goes back to a line break, and what its last one leaves of a
line discloses nothing.  A recommendation
or limitation is shown unless the header, the notice and the lists exceed the body by
themselves (`BodyDiscloses`); then the last `[:60000]` cuts the lists, whatever the
findings are.

### GitHubClient

`request`, `unsent`, `kept`, `ending` and `open` are the three reads of a review, each
with its response; `page` and `listing` are the locals of `get_changed_files`, and
`result` is the `PullRequestDiff`.  `total` and `diff` are GitHub's side.

| Code | Action |
|---|---|
| `_request`: `send`, and its time-outs | `Respond`, `Interrupt` |
| `_read_response_bounded` | `Receive`, `EndOfBody`; `Ceiling` is `max_response_bytes` |
| `finally: await response.aclose()` | `StopReading`, then one of the actions `Close...` |
| `_raise_api_error`, JSON and schema errors | `CloseBad` |
| `get_pull_request` | `ClosePull` |
| `get_changed_files` | `ClosePage`, with `PageSize`, `FilesOf`, `HasNext`, `AfterPage` |
| `get_pull_request_diff` | `CloseDiff`, with `Decoded`, `Bounded`, `LastNewline` |
| cancellation of the reading task | `CancelReads` |
| `aclose` of the client | `CloseClient` |

A file is its place in GitHub's list, a character of the diff is one byte wide, four
bytes wide, a line break, or the replacement of a character that was cut.  A pull
request does not change between two pages: what a push does to a list is asked of
`ReviewService`.  `length` may be one more than the characters that GitHub has, when
the byte bound cuts one; `DiffKept` says that it is never further off.  Connections
are not counted, and the submission of a review, with its lost answers, is in
`ReviewService`.

### ReviewRun

`stage` is the place of the coroutine.

| Code | Action |
|---|---|
| `review_pull_request`, `fetch_context` up to the gathering | `BeginRun`, `Gather`, or `TooMany` |
| after `asyncio.gather` | `Recheck` |
| the call of Codex | `Analyse`, which begins `CodexRunner`'s `Review` |
| after Codex | `Confirm`, `Complete` |
| `_require_expected_head`, `_assert_current_head` | `Stale` |
| exceptions | `ReadFails`, `AnalysisFails` |
| cancellation | `CancelRun` (while GitHub is read), `Cancel` (while Codex runs) |
| the end of the lifespan | `EndLifespan` |

`asyncio.gather` raises at the first failure and does not cancel the other read.
`ResponsesClosed` says what may be left by that: one response, of the other read, and
only then.  `RunEnds` says that it ends by itself too.

### CodexRunner

`child`, `killed`, `descendant` and `code` are the process; `written`, `pipe`,
`reader` and `capture` its standard output; `file` the result file in the temporary
directory, with the attempt that wrote it.

| Code | Action |
|---|---|
| `review` | `Review`, `Collect` (with the repair attempt and the `unlink` before it) |
| `_execute` | `Spawn`, `SpawnFails`, `ExitedWithError`, `Timeout`, `Cancel`, `Gathered` |
| `_wait_for_process` | `Waited` |
| `_read_stream_bounded` | `Read`, `ReadEnd` |
| `_terminate_process` | `Abandon`, `Reaped`, `ReapTimeout` |
| the Codex process | `WriteOutput`, `WriteResult`, `Exit`, `Die`, `DescendantEnds` |

The process may do anything at any time.  Left out: stderr, which is drained by
the same code; waiting for the prompt to be written, which is shorter than a pipe
(a prompt and validation errors are at most 35 KB); a descendant that has closed the
output and writes the result file later; errors of the file system.

## Runs

| Run | Asks | Instance |
|---|---|---|
| `store` | index, lifecycle, capacity and eviction after any sequence of operations; refinement of `HeadLocks` | 3 ids, 2 heads, a store of 2 jobs, retention and clock 1 |
| `queue_handover` | every active job in one place; the count behind `join()`; nothing behind a sentinel; no accepted job dropped; refinement of `JobStore` | 3 workers, 4 ids, 1 head, jobs without a head, queue of 2, store of 3, retention and clock 1 |
| `queue_liveness` | `stop()` returns, also if its sentinels wait for room; a queued job is taken, and a job that was taken ends | 3 workers, queue of 2, store of 3, 3 ids, 1 head, no clock, weak fairness |
| `webhooks` | is a remembered delivery in the queue's hands or on its way; is a repeated one queued again | 3 requests, 2 deliveries, 3 heads, a cache of 1, queue of 1, store of 2, 1 worker |
| `service_heads` | do context, result and posted review belong to one commit while the head moves; at most one review per call | 2 calls, 2 commits, 3 heads |
| `post_races_push` | is a moved head never reviewed?  A violation | 1 call, 2 commits, 3 heads |
| `mcp_posts` | claims, cache and answers of concurrent tool calls; which repetitions can happen | 3 calls, 2 commits, 3 heads, cache of 2, one permit |
| `mcp_retry` | is a second post always rejected?  A violation | 2 calls, 2 commits, 1 head, cache of 2 |
| `validation` | is the strongest of each group of duplicates kept; do the posted and the returned review agree; verdicts, comment lines; is whatever is lost disclosed, in the lists and in the body | all sequences of up to 3 of 9 findings, 3 verdicts; up to 3 recommendations and limitations; 2 pull requests, 2 budgets, lists of 3, 2 comments, a body of 11 |
| `validation_duplicates` | are duplicates removed?  A violation | as `validation` |
| `comments_misplaced` | is every inline comment on an added line?  A violation | as `validation` |
| `review_run` | is the list of files whole and the diff honestly cut; is no response left open and no process left running; is the output the attempt's own, is the capture exact; does a review end | 7 pull requests of 0 to 5 files; a limit of 3 files, pages of 2; diffs of 0 to 40 bytes, a budget of 6 characters and so a ceiling of 28 bytes; other bodies of 1 to 3 bytes with a ceiling of 2; chunks of 3, 9 and 40 bytes; capture limit 2, pipe of 2, 4 units of output |

Why the bounds are enough.  A store of two jobs with three ids is full, evicts
and reuses; two heads are the least for which the index can confuse jobs; a
clock of 1 with retention 1 separates "now" from "expired" and lets equal
timestamps occur.  Two places in the queue separate the order of service from
presence in it, and three workers over a queue of two force `stop()` to wait for
room when it puts its sentinels.  A store of three over a queue of two lets the queue
refuse a job that the store took.  Both runs of the queue have these cases.  In `queue_handover` jobs also
grow old and expire while others are queued, held or refused; one head and jobs without
one are enough there, since what two heads may do to the index is asked of `store`.  In `webhooks` a queue of one place refuses its
second job and a store of two, with a third head, refuses a job itself; three requests
are the least for a delivery, its repetition and another one that evicts it from a
cache of one; a clock of 1 lets it expire as well.  An id is reused when nothing refers to it any
more (uuid4 never collides).

Three heads let the pull request move and move back between any two requests of a
call.  In `mcp_posts` a cache of two holds two heads that expire at different times, so
that its order matters to what is popped, and a third call repeats one of them before and
after it has expired.  Two commits never crowd each other out of it: an entry that is
lost too early breaks `RepeatsExplained`, while eviction from a full cache, by the same
operators, is exercised in `webhooks`.  For caches of any size there are the theorems.
The nine findings form
chains of duplicates (by identifier with one, by place with another), have added,
context and unknown lines, and a line that the code misnumbers, every severity that matters, and confidences
on both sides of the threshold and of 0.9; three of them are enough for an entry to
be replaced twice, and for a replacement to meet its equal.  Lists of three and two
comments overflow.  A body of 11 is overflowed by a finding, by a recommendation, and
by the lists alone.

In `review_run` lists of 0, 2, 3, 4 and 5 files against a limit of 3 and pages of 2
have no page, one that is full, a last page that is short, a single file too many, and
a third page.  The diffs are below the budget, at it and one above it, with a line
break beyond and before 80 % of it; the ceiling of 28 bytes falls between two
characters and inside one, and chunks of 3, 9 and 40 bytes arrive one at a time, reach
over the ceiling, or are all there is.  With a capture limit of 2, a pipe of 2 and 4
units of output, the capture is cut by one chunk, by several, exactly, and not at all,
and the process blocks on a full pipe.

Bounds that are not the program's: `JobId` and `MaxTime` (ids and the clock),
`MaxMoves` (heads of the pull request), the number of calls, `Pulls`, `Sizes` and
`Chunks` (what GitHub may serve), and `MaxOutput` (what a process writes).

The runs of the store, the service, the tools, validation and the whole review may
stop, when ids, calls or moves are used up or the one review has ended; their cfg
says so.  The queue can always be started again, and its runs and that of the
routes check for deadlock.

Fairness of the queue is weak, of each worker, of `stop()` and of an admission in progress.
The event loop runs every task that can run; `asyncio.wait_for` bounds the drain;
the HTTP client and the Codex process both have timeouts, so a service call
returns or raises.  Nothing obliges a client to enqueue or the application to
start or stop.  In `ReviewRun` weak fairness is that of the event loop and its timers:
the coroutine goes on when what it waits for is there; each of the three reads has a
next step, since httpx times out a connection, a write and a read; a process that can
be started is, readers read, `wait_for` returns or times out.  A response that dribbles
in for ever is excluded by the ceiling of its body.  Nothing is assumed of the Codex
process, which may run for ever, not die, or leave a descendant behind, and a
cancellation need not happen.

## Proofs

For every set of identifiers, heads and workers, every capacity, retention and
queue size (`JobStoreAssumption`, `ReviewQueueAssumption`):

* `StoreTypeCorrect`, `StoreIndexExact`, `StoreUniqueActive`: the inductive
  invariant is the types with `IndexExact`.  `UniqueActive` is not inductive: an
  operation that pops the index wrongly breaks it only one step later, so the exact
  index, in both directions, has to be carried.  `StoreTypeOK` includes the capacity,
  which needs that the stored ids are finitely many (`CapacityInv`).
* `StoreImplementsHeadLocks`: under that invariant a step of the store acquires a
  free head, frees some, or stutters.
* `StoreLifecycleConsistent`: `LifecycleConsistent` with the types.
* `StoreHistoryOnlyGrows`, `StoreEvictsOldestTerminal`: action properties.  The first is
  the table of transitions (`AllowedAdvances`).  The second needs two invariants:
  a terminal job that is not stamped would be passed over (`LifecycleInv`), and a store
  beyond its capacity would evict as well (`CapacityInv`).
* `QueueImplementsStore`: every action of the queue is a store action or leaves
  the store alone, so `QueueUniqueActive` and `QueueImplementsHeadLocks` follow
  from the store's theorems.
* `QueueTypeCorrect`, `QueueNoOrphan`, `QueueNoGhost`, `QueueSingleHandler`,
  `QueueUnfinishedExact`, `QueueNoJobBehindStop`, `QueueStopSettles`: none of these is
  inductive, since where a job may be depends on all of the queue.  `QueueInv` is their
  common strengthening, together with the invariant of the store:
  * `Locked`: one call at a time enqueues, and only while the queue runs; a worker has a
    job exactly while it holds one, and unwinds only when it is cancelled;
  * `Placed`: an active job has one place (queued, with a worker, or refused), and every
    place an active job.  A worker that unwinds holds a failed job, the exception that
    `NoGhost` makes;
  * `Counted`: the count behind `join()`.  `Drained` needs it: the queue is empty and no
    worker is busy when the count is zero, so by `Placed` no job is active;
  * `Stopping`: after the drain either as many sentinels are queued or owed as workers
    are alive, and nothing is active (`Draining`), or whoever is alive has been cancelled
    (`TimedOut`).  In both, a worker that is left has a reason to end, and when none is
    left neither a sentinel nor a cancellation is.
* `QueueAcceptedNeverDropped`: an action property, by the effect of each action on the
  dictionary of jobs; eviction and expiry take terminal jobs only.
* `QueueEndedJobsStay`: a terminal job is left alone until it is removed, but for the second
  of the two handlers that a cancellation passes.  `Placed` says that every other worker
  that writes a status holds an active job.
* `RoutesImplementQueue`: every action of the routes is one of the queue's or leaves it
  alone, since a client that has the lock asks for a head of its own request (`AskInv`).
  With `QueueImplementsStore` the whole server is an implementation of the store, and
  `RoutesUniqueActive` follows; so do the theorems about the hand-over.

For every set of requests and deliveries, and every size and lifetime of the cache
(`WebhookRouteAssumption`):

* `RoutesRememberedIsAdmitted`: a step of the routes moves at most one request
  (`RouteShapes`): it goes on, repeats a delivery, fails, or brings one in.  `DeliveryInv`
  says that every entry of the cache is in some request's hands and is within its
  lifetime, and `ClientInv` that a request without a delivery never had one.  The delicate
  step is a failure: it forgets its delivery, and every other entry keeps the request
  that it had.
* `RoutesAdmittedOnce`: two requests are admitted independently, so the property alone is
  not inductive.  `OnceInv` says of a single request that its delivery is remembered until
  it expires, unless it was lost to a failed copy or crowded out (`Kept`); a second
  request can get the same delivery in hand only when that has happened (`ArrivalExcused`),
  and none of the three excuses ever goes away.
* Both rest on the lemmas of `ExpiringCacheProofs`: pruning removes what has expired and no
  more, because the cache is in the order of expiry (`PruneEntries`); making room takes an
  entry only from a cache that holds as many keys as it may (`RememberEntries`); popping a
  key takes its only entry (`WithoutEntries`).  `FullOfOthers` turns "full" into "as many
  others as the cache holds", by counting.

For every set of calls and commits, every bound on pushes, number of permits, and size
and lifetime of the cache (`ReviewServiceAssumption`, `MCPToolsAssumption`):

* `ServiceTypeCorrect`, `ServiceSubmitsOnce`: `SubmitsOnce` is not inductive, since a
  call could send twice; the strengthening says that a call which has not reached
  "submitting" has nothing on the wire or on GitHub, unless it has ended.
* `ServiceContextConsistent`, `ServiceCurrentAfterAnalysis`, `ServicePostedConsistent`:
  none is inductive, since a page, the diff and a second look at the head come in separate
  answers.  `HeadInv` says that what a call has read was served after its head was the
  current one (`ReadsAfter`).  GitHub's history only grows, so this stays true; and when the
  head is found current again, what lies between two occurrences of it is either that head
  or a head it went away to and came back from (`AfterAndAgain`), which the properties
  allow.
* `ToolsImplementService`: a tool gives the service only heads that GitHub has
  reported, which stay known (`ToolInv`, `KnownGrows`), and begins a post only after
  its dry run.  `ToolsSubmitOnce` follows.
* `ToolsClaimsExact`: `ClaimsExact` is inductive with the types of the tools.
* `ToolsAnswerHonest`: by `PostInv`, which relates where a tool is to where its call of the
  service is (`Served`), and whatever is on the wire or on GitHub to the target of the tool
  that sent it (`OfTarget`).
* `ToolsCacheOrderly`: by `CacheInv`, the types and the order of the cache, with every key
  the head of a review on GitHub and in no call's hands: a claim is given back in the same
  step in which the head is remembered.
* `ToolsRepeatsExplained`: `RepeatInv`.  A review whose call answered "ok" is remembered
  until its time is up or as many other heads as the cache holds were posted (`Late`), so a
  call may hold the claim on its head again only if it is late or one of the two calls
  failed (`Again`, `Excused`).  The property follows when the second review is accepted.
  What must be shown of every other step is that an excuse stays one: commits on GitHub
  stay, the clock does not go back and a failed call stays failed.

For every review, patch, body size and budget (`ReviewValidationAssumption`,
`ReviewBodyAssumption`):

* `ReviewVerdictSupported`: what `Validate` returns is supported whatever the findings
  are, and nothing after it touches findings, verdict or risk.
* `ReviewStrongestKept`: an invariant of the loop of `deduplicate_findings`: what is kept so
  far represents every group of the findings seen so far.  A replacement may come to be a
  duplicate of another kept finding, which is why the invariant speaks of groups and not
  of pairs.
* `ReviewPostedAgrees`: by `ReviewInv`.  What Codex saw of a file is a beginning of its patch
  (`Shortens`), so a line that was found in it is found again; hence the second validation
  locates every finding where it is (`Settled`), and only deduplicates.
* `ReviewCommentsSafe`: `ExtractReads` is the invariant of the loop of
  `extract_changed_lines`, for any patch: the count is the start of the last header and
  what was counted since, so the lines collected are numbers of added lines among those
  of `splitlines()`.  `ReadsAdded` compares them with GitHub's: from a header that git
  wrote, over lines that git began, both count the same.  A review that comes back from the client is located
  when it is posted, whatever it says (`SuppliedInv`).
* `ReviewLossesDisclosed`: `SaysInv` says of the returned review what the property says of
  the posted one, and the second validation loses nothing of it.  `LimitationsHold` and
  `WarningsAdded` follow a warning through the lists, with its place (`Within`), because a
  full list is cut at its end.  `FormatDiscloses` is about the body of any review: the lines
  of the findings are ordered by severity (`FindingLinesSplit`), so that a cut of them takes
  the gravest last, and the cut leaves room for the notice and the lists (`FittingKeeps`).

The assumptions hold of the code's constants: a list has room for 20 items
(`MAX_REVIEW_LIST_ITEMS`) and a context has at most three warnings; a summary has at most
4,000 characters, which `_safe_markdown` makes at most four times as many, so that the
header and the notice fit into 60,000.

For every pipe and capture limit, and every limit, page size, ceiling, pull request and
cutting into chunks (`CodexRunnerAssumption`, `GitHubClientAssumption`):

* `RunnerNothingLeftRunning`, `RunnerOwnOutput`, `RunnerCaptureExact`: the inductive
  invariant relates the place of the review to the state of the process
  (`ProcessInv`), and the result file and the last candidate to the attempt
  (`OutputInv`): `OwnOutput` depends on the file being of the current attempt whenever
  an attempt is under way.
* `RunImplementsRunner`: what happens before and after Codex leaves the runner alone,
  so `RunNothingLeftRunning` follows.
* `RunResponsesClosed`: by `ReadsInv`, which follows the three reads through the
  stages of the coroutine: which of them may be under way, and which have ended well.
* `RunFilesWhole`: by `ListInv`, a loop invariant: while page `n` is asked for, the list
  is the first `(n - 1) * PageSize` files, which are no more than the limit and than
  GitHub has.

* `RunDiffKept`: by `DiffInv`: the bytes kept and those still to come are the bytes of the
  diff, so a response that ends below the ceiling is all of it, and one that was cut at
  the ceiling of `(MaxChars + 1) * 4` bytes holds more than `MaxChars` characters, since a
  character has at most four.

The loops of the code are folds in the model, whose result is defined by recursion.  That
such a recursion has a solution over a list of any length is `FoldExists`; a lemma
`...Trace` for each loop then gives the states it goes through, and `UpTo`, induction on
the number of passes, what all of them keep.  Both induct on a set of numbers that has a
least element, not with the induction theorems of the library, which the provers cannot
instantiate.

Model-checked only: liveness (`StopReturns`, `JobsServed`, `RunEnds`), which is out of
reach of this prover: it knows neither fairness nor ENABLED.  And whatever a run is
expected to violate.

## Findings

`post_races_push`.  `post_review` reads the head and then submits; a push in
between goes unnoticed, and the review of the former head is posted.
`docs/architecture.md` promises "no review is posted".  What does hold is
`PostedConsistent`: the review is pinned to the commit it is about.

`mcp_retry`.  A post that GitHub accepted and whose answer was lost gives its claim
back and is not remembered, so a retry posts a second review within the window in
which `docs/mcp-setup.md` says it is rejected.  `RepeatsExplained` shows that this
is the only way.

`validation_duplicates`.  `deduplicate_findings` replaces an entry in place and does
not compare the replacement with the others, and locations are cleared after
duplicates were removed; either leaves duplicates in the result of a job.  The
second validation of a posted review may then drop one, so that job result and
posted review differ (`PostedAgrees` says in what).

`comments_misplaced`.  `extract_changed_lines` counts the lines of `str.splitlines()`.  If
the text of a changed line has a form feed, U+2028 or another character that breaks lines
for Python only, the rest of the line is counted as a line of its own, and the lines after
it in the hunk get wrong numbers, which may be those of lines that the patch does not
add.  The README says that a finding which cannot be mapped is not "posted at an uncertain
line", `docs/api.md` that "unsafe-line findings do not become inline comments".
`CommentsSafe` shows that the next hunk header ends the damage.

## Abstractions

* A text is a value, or a size where something is cut; a response is its size.
* Times are read from one clock that does not go backwards.
* A job's head is one value for repository, number and SHA; a job without a SHA
  has `NoKey`.  The key ignores `post_comments`, as in the code.
* A `stop()` that is itself cancelled is not modelled: the lifespan awaits it once,
  in its `finally`, when the process is about to end.
* The process holds all state in memory, so a crash is a new `Init`.

## Not modelled

* Configuration, logging and the command line; health and capability routes: they read
  settings and keep no state.
* Error mapping: which exception a status of GitHub becomes, and which response an
  exception becomes.  A read that raises has failed, and everything that fails ends the
  job or the call in the same way.
* The middleware: request ids, and the limit on a request's body, which reads one
  stream to its end or refuses it, within one request.
* The signature and the filters of a webhook: predicates that change nothing.
* The prompt, the JSON schema, the text of one inline comment: string construction.
* Dependencies: wiring.  Of the lifespan there are the start and stop of the queue
  (`Start`, `StopBegin`) and the closing of the client (`EndLifespan`).

## Plan

Every safety property that a passing run checks is a theorem.  What is left are the
safety halves of the liveness properties: that a `stop()` which has begun and a review
which has begun are never stuck, stated with the guards of the actions and not with
ENABLED; and that the steps which are left to a stopping queue count down.

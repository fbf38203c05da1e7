# Kenjutsu in TLA+

Kenjutsu is a GitHub App that reviews pull requests: it receives webhooks, waits
until a pull request is quiet, runs a durable review pipeline over its diff, and
posts the findings back to GitHub.  This directory is its verification project:
TLA+ modules translated from `src/kenjutsu/`, TLC configurations that check them on
small instances, and proofs that TLAPS checks for every instance.

`PROJECT.json` holds the exact correspondence (every definition with its lines), the
runs, their mutants, the hazards and the findings.  This file explains them.

Paths below are relative to `src/kenjutsu/`.

## 1. The system

### 1.1 Components

| Component | State it keeps | Operations | Modelled by |
|---|---|---|---|
| Webhook server, `server/webhook.py`, `app.py` | the requests in progress, background tasks; table `webhook_events` | `POST /webhook`: check, look up the installation, insert and commit, answer; `_route_event` afterwards | `WebhookServer` |
| Debounce manager, `server/debounce.py` | `_pending` (a timer per pull request), `_in_flight` (a task per pull request) | `schedule`, `cancel`, the timer's `_fire`, the task's `_run` | `Debounce` |
| Review workflow, `pipeline/steps.py`, `logic.py`, `types.py` | the review record's status; DBOS's checkpoints | `review_pr`: a fixed sequence of statuses and steps with two guards | `ReviewWorkflow` |
| SHA guard, `pipeline/sha_guard.py` | `_sha_cache`: sha, time and ETag per pull request | `entry_guard`, `exit_guard`, retries | `ShaGuard` |
| Review publisher, `pipeline/publisher.py` | `github_review_id`, `github_comment_ids`, and `github_comment_id` and `published` per finding | `publish_review`: guard, create or update the review, then every comment | `PublishReview` |
| Pending review publisher, `publisher/pending_review.py` | the last `X-RateLimit-Remaining` | `publish` | `PendingReview` |
| Rate limiter, `pipeline/queue.py` | a deque of timestamps | `acquire` | `RateLimiter` |
| Supersession registry, `pipeline/queue.py` | an event per pull request, the superseded keys | `register`, `complete`, `is_cancelled` | `SupersessionRegistry` |
| Global and tenant queue, `pipeline/queue.py` | semaphores | `async with` | `ConcurrencyQueue` |
| Cost tracker, `pipeline/queue.py` | cost and cap per tenant | `set_cap`, `record_cost`, `check` | `CostTracker` |
| Supersession of rows, `pipeline/supersession.py`, `models/reviews.py` | `status`, `superseded_by` of the reviews | `ensure_unique_canonical`, `supersede_previous_reviews` | `ReviewRecords` |
| Bare mirrors, `mirror/lifecycle.py`, `mirror/api.py` | directories on disk, a lock per repository | clone, fetch, delete; `diff`, `read_file`, `git_log` | `Mirror` |
| Diff parser, `diff/parser.py`, `diff/models.py` | none beyond the call: the block and two line counters | `parse_diff` | `DiffParser` |
| Structural context, `diff/ast_context.py` | the `enclosing_scope` of every hunk | `extend_hunks_with_ast`, over trees that tree-sitter makes | `AstContext` |
| Evaluation runner, `evaluation/runner.py` | the results of a variant, the metrics of both | `run_eval`, `match_findings`, `compute_metrics`, `compare_variants` | `Evaluation` |
| Slash commands, `server/commands.py` | none beyond the call | `parse_command` | `SlashCommands` |
| Audit log, configuration, finding models, database engine and migrations | | | not modelled, see section 8 |

### 1.2 How they interact

```
GitHub --POST--> webhook --commit--> webhook_events
                    |  background task, after the response
                    v
              debounce manager --quiet period over--> review task
                    (meant to start the review workflow)
review workflow --step_sha_guard--> SHA guard --GET--> GitHub
                --step_publish----> publisher --GET/POST/PUT/PATCH--> GitHub
mirrors, diff parser and structural context feed the analysis steps
the evaluation runner drives a review pipeline over a benchmark
queues, limiter, registry and cost tracker are services for the workers
```

Everything but the mirrors runs on one asyncio loop per process: code between two
awaits is atomic, and calls interleave at awaits.  Mirrors are used by threads.  The
database and GitHub outlive the process.  Several joints are not made yet in the
repository: `_enqueue_review` only logs, the functions of `logic.py` are stubs, and
nothing calls the registry, the queues or `supersession.py`.  Such parts are modelled
with a caller that follows their docstrings, and that caller is marked external.

### 1.3 What is hard, and what makes each part correct

* **Debounce.**  A task can be cancelled before its first step, and a cancelled
  coroutine can go on awaiting while it unwinds.  Correct means: one live timer per
  pull request, no review before the quiet period is over, a superseded review never
  starts, the review of the last event does start, and at most one review is active.
* **Webhook.**  Deliveries are repeated and overlap; the process may stop anywhere;
  a commit may fail after it took effect.  Correct means: an event is accepted once,
  dispatched only when persisted, reviewed at most once and, without a restart, at
  least once.
* **Publisher.**  Every call may raise, with or without effect; users delete what was
  posted; ids are flushed and only later committed.  Correct means: the places that
  hold an id agree, success leaves every finding visible, duplicates only where an
  answer was really lost, and posts only for the reviewed head.
* **Workflow.**  Steps are repeated after a crash and replayed from checkpoints.
  Correct means: the record follows the position, the outcome tells what happened,
  and findings are posted only after the recheck.
* **SHA guard.**  Concurrent calls share a cache and store answers out of order.
  Correct means: an answer speaks of a head that was there in the time it may speak
  of, the cache is not older than it claims, and every call returns.
* **Services.**  Windows and caps at their boundaries; slots with cancelled waiters;
  registrations that are completed in another order.
* **Mirrors.**  Threads, a lock, a git that fails half-way, a deletion beside a fetch.
* **Parser.**  Line numbers: they decide where a comment lands.
* **Structural context.**  Hunks count lines from 1, trees count rows from 0, hunks may
  have no new line; definitions nest, stand side by side and share rows.  The walk is
  recursive.  Correct means: the scope is a definition around the hunk, the shortest and
  innermost one, and there is none only where nothing is around the hunk.
* **Evaluation.**  A greedy matching depends on the order of findings; a review may raise
  in the middle of a corpus.  Correct means: what counts as a hit belongs to a pairing of
  findings and annotations, and a verdict compares the variants on the same corpus.
* **Commands.**  What the pattern takes for the end of a line.

## 2. The modules

```
EventPipeline <==implements== WebhookServer ==INSTANCE==> Debounce
PublishReview   <--EXTENDS-- PublishReviewProofs
WebhookServer   <--EXTENDS-- WebhookServerProofs
Mirror          <--EXTENDS-- MirrorProofs
ShaGuard        <--INSTANCE-- GuardPart
CostTracker, SupersessionRegistry, ReviewRecords, PendingReview, ConcurrencyQueue,
ReviewWorkflow  <--INSTANCE-- Parts
DiffParser, AstContext, Evaluation,
SlashCommands   <--INSTANCE-- Readers
MCTimed:  EXTENDS Debounce, GuardPart            <--EXTENDS-- TimedProofs
MCParts:  EXTENDS RateLimiter, Parts, Readers
ServiceProofs: EXTENDS RateLimiter, Parts
ReaderProofs:  EXTENDS Readers                   <--EXTENDS-- ParserProofs
PartsProofs:   EXTENDS MCParts, ServiceProofs, ParserProofs
MC<module>: the model values of the other runs
```

`Parts`, `Readers` and `GuardPart` declare constants and variables for several components
at once and give their properties names of their own, so that the runs, which explore one
component after another, and the proofs speak of the same formulas.

A module has one action per operation or, where the operation awaits, one per stretch
between two awaits.  Variables that the code does not have are marked *history*; no
guard reads them.  Bounds are constants named `Max...`.  Definitions
named `<operator>_<what is wrong>`, kept under the comments "Mutated forms" before the
operators they vary, are deliberately wrong variants; no specification uses them, and
`PROJECT.json` pairs each with the property that it must break.

**Debounce.**  `calls` counts `schedule()` per pull request, and the v-th call names
its review `<<k, v>>`; `pending` and `inFlight` are the two dictionaries; `armed` and
`left` the loop's timers; `task` and `cancelling` the tasks.  `Schedule`, `Cancel`,
`Fire`, `Begin` (a task's first step), `DeliverCancel`, `Return` and `Tick` are the
callbacks of the loop.  `LeaveRun` is the finally clause of `_run`, which pops the
slot whoever holds it.  `Fire` waits for callbacks that were ready before it: the
loop's ready queue is first-in first-out, so a cancelled task unwinds or begins to
before a timer armed by the same event can be due (`QuietPeriod` is at least one tick).
`SlowCleanup` says whether a coroutine may await inside its own handler of
`CancelledError`.

**WebhookServer** instantiates `Debounce` for the loop it shares.  A request goes
through `Receive` (all checks before the first await), `Lookup`, and `Commit` or
`CommitFails`; `Route` is the background task; `EnqueueReview` is the review task, which
does not await in the code, so that it ends in the step in which it begins.  `Crash`
empties everything but the two tables.  `Uninstall` deletes the installation row and,
by `ON DELETE CASCADE`, its events.  The signature is a flaw a request has or has not.

**EventPipeline** is what the server promises, without tables, timers, tasks or a loop:
a delivery is accepted once; an accepted event about a pull request waits; a review
serves some that wait, and at least one; a restart loses what waits.  `WebhookServer`
maps `accepted` to the requests that were told so, `waiting` to the accepted events that
no review served (`Owed`), `reviews` to `enqueued`, `restarts` to `crashes`.  Every
other step of the server is a stutter.

**PublishReview.**  `pc` is the place of the attempt; a step is one network call and
the session writes after it, up to the flush.  `session` is what the attempt sees, `db`
what is committed; `CallerEnds` is the caller's commit or rollback, `Crash` the
worker's end.  GitHub is the sets `reviews` and `comments` of what exists.  A comment of
finding f is `<<f, n>>`, so a stored id is the number n.  Findings are taken in
any order, which includes the order of the query.

**ReviewWorkflow.**  `Pipeline` is the list of awaits of `_run_review_pipeline`.
`Execute` is the effect of a step, `Checkpoint` the storing of its result; between the
two a `Crash` loses the result and `Recover` executes the step again.

**ShaGuard.**  A call starts (`Start`: eviction for `exit_guard`, then the cache), is
answered by GitHub (`Serve`) some time before it receives the answer (`Receive`), and
may sleep and retry.  `version` is the ETag.  Statuses are classes.

**Mirror.**  `disk` is the directory with its generation, refspec and refs.  The calls
of git and `rmtree` have a beginning and an end; `FindLock`, `Block` and `Acquire` are
the lock of `api.py`.  `Init` allows every disk that an earlier process may have left.
`Read` is any of the three reads, which take no lock; `floor` (*history*) is what the refs
of a reader must be at least: what the mirror had when the call began, or what the remote
had when the fetch that precedes the read was called.

**RateLimiter, SupersessionRegistry, ConcurrencyQueue, CostTracker, ReviewRecords.**
One action per method; these methods do not await inside, except `asyncio.Semaphore`,
which is modelled from the library (`future` is the future of a waiter; a slot handed
to a waiter is on its way until the waiter runs).  The versions of the library differ in
how many slots a leaving waiter hands on, so `HandedOn` allows both.  `Firsts` is whom
`_wake_up_next` chooses: the pending waiters that stand first in the queue, as a set.

**DiffParser** reads what git writes, line by line.  git is external and keeps the truth
in `written` and `changes`; the parser keeps `files` and `cursor`.  A path is a sequence
of pieces, those between each ` b/` in it, with what is around it: git puts a tab after a
name with a space in the `---` and `+++` lines, and quotes a name that is not plain ASCII
with the prefix inside the quotes.  So `Fallback` can split a `diff --git` line where the
greedy pattern does, and not at all where quotes keep it from matching.  `ReadRest` is
what `str.splitlines()` does to a line with a separator that git leaves inside: the rest is
read as a line of the hunk, as the header of a hunk or of a file, or ends the hunk.  One
line of a diff is cut.

**PendingReview.**  A caller with a set of batches reads the exceptions of `publish` as
the docstring says.  `remaining` is the last header, `quota` what GitHub really allows.

**AstContext.**  tree-sitter is external: `AddNode` and `AddDecorated` build a tree in
preorder, of which only what the code relies on is assumed (a node lies within its
parent's rows and begins no earlier than its left neighbour ends).  `Extend` gives every
hunk of a file its scope; `Innermost` is the walk, as a recursive function on the nodes, with
its pruning, its preference for the shortest candidate and the first among equals.
`Raise` is the `RecursionError` of a walk deeper than `MaxDepth`; how deep is too deep
depends on the caller's stack, so that both outcomes are possible there.

**Evaluation.**  `Review` is one round of `run_eval()` with whatever the pipeline
finds, `Take` one round of `match_findings()`, `Measure` is `compute_metrics()` and
`Compare` the verdict of `compare_variants()`.  Rates are pairs of numerator and
denominator, compared by multiplication.

**SlashCommands.**  A comment is a sequence of lines with or without a command, its words
and its end.  `Matches` is what the regular expression does at that end.

## 3. The runs

Deadlock is not checked in any run: every one of these systems may stop when its bounded
environment has no more events, calls or pushes to offer.  That nothing waits in
vain is checked by the liveness properties instead.

| Run | Question | Distinct states |
|---|---|---|
| `timed` | Do timers, quiet period and in-flight slot behave, and does the last event get its review?  Are the guards' answers true of a head in their window, and does every call return? | 252,969 |
| `webhook_events` | Does the server implement `EventPipeline`, persist before it dispatches, and review? | 206,142 |
| `publish_attempts` | What do retries, lost answers, crashes and deletions do to ids and posts? | 122,092 |
| `mirror_threads` | Do fetches and reads bring what they claim, beside clones and deletions? | 262,583 |
| `parts` | The eleven parts without shared state, one after another | 709,679 |
| `debounce_late_finally` | *violation* of `OneActiveReview` | |
| `webhook_lost_event` | *violation* of `DuplicateIsReviewed` | |
| `publish_retry` | *violation* of `OneOfEach` | |
| `publish_fresh` | *violation* of `FreshAfterRecreate` | |
| `diff_cut` | *violation* of `LinesTrue` | |
| `ast_signature` | *violation* of `SignatureHasFirstLine` | |
| `command_bare` | *violation* of `NoneMeansAbsent` | |

**timed** checks two modules, one at a time: the variable `part` says which one moves.  As
they share no state, this explores all that their product would, and each has the fairness
of its own specification.

*Debounce*: two pull requests, two events each, a quiet period of two ticks.
Two events are one to be superseded and one that supersedes; two ticks separate a timer
that is due from one that is nearly due; the second pull request shows that the slots
are apart.  `TimerTracked`: no timer survives the event that replaced it.
`QuietRespected`: a task is created only after the quiet period of the *last* event.
`NoStaleStart`: a superseded review never starts, even when its task was created
already.  `ActiveIsTracked`: an active review is the one in the slot, or lost it to
the finally clause of another.  `LatestReviewStarts`: the last review starts, unless
it is taken back.

*ShaGuard*: an exit guard for one sha and an entry guard for the sha pushed over it, a TTL of
two ticks, a timeout of one, three requests per call, three ticks, two versions.  A tick
less than the TTL an entry is served, at the TTL it is not.  `AnswersTruthful`,
`CacheIsRecent`, `EveryCallReturns`.

**webhook_events**: three requests that carry any of three deliveries (two about one
pull request, one of another kind), one restart, failing commits, one uninstallation.
Three requests are the least that show a redelivery beside a distinct event.
`EventsAccountedFor` is the refinement of `EventPipeline`: however often a delivery is
sent, one request is told "accepted"; no review is without an accepted event that it is
the first to serve, so that a redelivery causes none, not even after a restart; nothing
but a restart takes an event away.  `DispatchedIsPersisted`, which the abstract
specification cannot say since it has no table, and `AcceptedIsReviewed` (without a
restart).

**publish_attempts**: two findings, three attempts, two deletions, one push.  Three
attempts are needed for an attempt whose ids were lost, one that duplicates, and one
that meets the duplicates; two deletions take a review and a comment.  `IdsAgree`,
`DuplicatesBounded`: one more object per attempt the database does not know about
and none without, `SuccessIsVisible`, and `PostedOnReviewedHead`.  The two findings are
interchangeable (symmetry), no liveness is checked.

**mirror_threads**: three threads, three calls in all, one push.  Three calls are a
fetch that holds the lock, one that waits, and a clone, deletion or read beside them.
`FetchedIsCurrent` speaks of what a fetch leaves and of what a read after it, or without
one, is given.

**parts** declares the variables of eleven modules and again a variable `part`.
`DiffTrue`, `SupersessionSound`, `SlotsSound`, `PublishSound` and `ScopeTrue` are
conjunctions of named parts.

| Part | Bounds | Why they are enough |
|---|---|---|
| limiter | two calls in three of eight ticks, two denials | the window moves over its budget twice |
| registry | four registrations for one key, one for another | a stray completion, its victim and a successor |
| queue | four jobs for two slots, one for one | two waiters when a slot becomes free and one of them leaves |
| cost | two reviews, caps 0, 2 and 4, charges 1 and 2 | both overshoot together; a cap of 0 |
| records | three callers, two for one commit | overlap on the same commit and on different ones |
| parser | two files, three lines, or two and a cut, hunks of two lines a side | a hunk after a hunk, sides of no lines, and every kind of change with every kind of name; a file before the cut one, and a line, a hunk or a file after the cut |
| pending | two batches near the floor, one lost answer each | a batch before and after the limit is reached |
| scopes | three rows, four nodes, a depth of three | a decorated definition in a definition, two side by side on a row, and a walk that is too deep; hunks of every place and size, none included |
| eval | an empty corpus, one pull request and two; four findings, two per review | an empty corpus raises; one finding that fits two annotations before one that fits only the first; equal annotations |
| commands | two lines, three words | a line that is passed over before one that is taken |
| workflow | two restarts, one push, steps that raise | the same step is hit twice |

`DiffTrue`: in a diff of which no line is cut, lines have their numbers, hunks their
ranges, files their kinds where the diff tells them and, if their names are plain, their
paths, and the omission of deletions loses no addition; a cut line spoils no file before its
own, nor the kind and the path of its own (`CutContained`).  What else it spoils is the
finding `diff_cut`.  `OneIsLeft`: a pull request keeps a review, unless callers overlapped.  `ScopeTrue`
compares the walk with its definition over lines.  `MatchingTrue` compares the greedy
matching with all pairings there are: its hits are those of one of them, which leaves
nothing that still matches and has at least half the hits of the largest.
`ComparesLikeWithLike`: a verdict speaks of both variants on every pull request and
annotation.  `ResultAgrees` compares the workflow's result, its record, what was
posted and what the guards saw; `PostedAfterRecheck` is as strong as the code allows:
the head was the reviewed one at some time after scoring.  `Terminates`: a workflow that
is recovered after crashes ends.

## 4. Fairness

| Run | Assumed | Why |
|---|---|---|
| `timed` (debounce), `webhook_events` | time passes; the loop runs due timers, ready tasks and background tasks | that is what an event loop does; nothing is assumed of clients, of the database, of crashes, or of a review's return |
| `parts` (workflow only) | the running step proceeds; a crashed workflow is recovered | DBOS executes and recovers workflows when the process is up again |
| `timed` (guard) | a request is answered or times out; a back-off ends | `httpx` is called with a timeout; nothing is assumed of what GitHub answers |
| `mirror_threads` | threads run and git ends | `subprocess.run` has **no** timeout: that git ends is an assumption on git.  Locks are not fair in Python; `FetchReturns` holds because calls are finitely many in the model.  Nothing is assumed of reads |

The other parts of `parts` have no liveness property and no fairness.  The violation run
with a liveness property (`webhook_lost_event`) uses the same fairness: the event is lost
although the loop runs everything it has.

## 5. What is proved

Eight proof modules; `tlapm` checks every leaf.  The theorems hold for every value of
the constants that the modules' assumptions allow: any sets of pull requests, requests,
findings, threads, calls or jobs, any periods, limits and bounds.  Each assumption is
named in the module that declares the constants, and says no more than types and the
finiteness of sets that are counted; it is quoted with each module below.

Of the properties that the passing runs check, every invariant and every action property
is a theorem; only the liveness properties are left to TLC.

**TimedProofs** is about the two modules of the run `timed`, and about the two beside each
other (`TimedTypesAreCorrect`: a step of both together is, of each, a step of its own or
none).  The debounce manager, from `DebounceAssumption`:

* `DebounceTypeCorrect`, and `TimersAreTracked`, whose invariant is inductive as it stands
  given the types.
* `QuietPeriodRespected`.  The property compares a step with a clock, so it needs
  `WaitsOut`: what a live timer has left and what its pull request has been quiet make
  at least the quiet period.  `Schedule` makes both sides equal; `Tick` moves one tick
  from one to the other; only `Schedule` resets the clock, and then, by
  `TimerTracked`, no other timer is live.
* `ActiveReviewsTracked` and `NeverStartsStale`.  `ActiveIsTracked` is not inductive: a
  new task would overwrite a slot in use.  `SlotInv` adds that a slot is empty while a
  timer is pending or a cancellation is under way, and otherwise names the last review.
* `AtMostOneActive`: `~SlowCleanup` implies `[]OneActiveReview`.  `NoOrphans` shows
  that without late unwinding no slot is ever emptied by the finally clause of another
  task.  Together with `debounce_late_finally` this says exactly when two reviews of a pull
  request can be active: only when a cancelled one awaits while it unwinds.

The SHA guard, from `ShaGuardAssumption`: `GuardTypeCorrect`, `GuardsTellTheTruth`
(`AnswersTruthful`), `CacheStaysRecent` (`CacheIsRecent`).  Neither is inductive.
`EntryOK` says of an entry, in the cache or in a call's hands, that it was the head
shortly before it was stored, *and* that it names the sha of the version in its ETag.
The second part is what makes a 304 truthful: GitHub compares versions, and an equal
version means that the sha, however old, is the head again at that moment.  `CallOK`
carries it from the serving of an answer to its receipt, whatever other calls store.

**WebhookServerProofs** (from `WebhookAssumption`: requests and deliveries are finite
sets, every delivery has at most one pull request, the quiet period is positive).

* `TypeCorrect`.  The type itself bounds the reviews of a pull request by the number of
  requests, which is what makes `schedule()` calls countable.  It needs `Budget`: the
  reviews that were enqueued, those that are armed or about to run, and the requests that
  may still be routed are together never more than the requests.  Each step moves one
  unit from a later to an earlier summand, or drops it.
* `PersistBeforeDispatch` (`DispatchedIsPersisted`), from `Accounted`: an accepted
  request's event is in the table while the installation is, and one request is
  accepted for each delivery.
* `ServerKeepsPromise` (`EventsAccountedFor`): the refinement of `EventPipeline`, step by
  step.  The hard step is the review that is enqueued: `EventPipeline` wants it to be
  the first to serve some event.  `Owing` gives it: a review that is armed, or whose
  task will run, is the last of its pull request and has an event with its ticket that
  nobody served.  That needs `Slots`: after `schedule()` no older timer or task of the
  pull request runs, although a cancelled task's first step is still to come.

**PublishReviewProofs** (from `PublishAssumption`).

* `TypeCorrect`; `IdsAlwaysAgree`, inductive given the types.
* `RetryNeverDuplicates`: `lost = 0 => OneOfEach`.  The strengthening is
  `KnowsAll`: as long as no attempt lost an id, everything on GitHub is what the
  session names, so that whatever is created anew replaces something that is gone.  An
  unanswered call breaks that within its attempt, and the attempt then counts as lost.
* `RetryCostBounded` (`DuplicatesBounded`).  With ids lost, the objects that the rows do
  not name are the strays; `Strays` bounds them by the attempts that lost ids.  A call is
  made only when the named object is gone, so that it adds to the strays only what its
  own attempt will count as lost when it ends.
* `SuccessShowsAll` (`SuccessIsVisible`), from `Handled`: each finding that an attempt has
  passed is visible under the id in its row, or was deleted during the attempt.
* `PostsOnlyOnReviewedHead`, from `HeadWasReviewed`.

**MirrorProofs** (from `MirrorAssumption`: finitely many threads).

* `TypeCorrect`: a directory's number never exceeds the calls, by counting the threads
  that are about to clone (`GenCounted`).
* `OneFetchAtATime`: mutual exclusion, which no run states on its own.
* `FetchesAreCurrent` (`FetchedIsCurrent`) and `RefsOnlyAdvance` (`RefsNeverGoBack`).
  The invariant `ThreadOK` says what a thread's knowledge is worth at each place.  All
  of it is relative to the directory it was learned of: a deletion, which takes no
  lock, makes it void (`Void`), and void it stays.  A fetch under way is not older than the
  refs it will overwrite because nobody else holds the lock; a clone, because what
  the remote had when it began is no less than what any mirror before it had.

**ServiceProofs** is about the rate limiter and the six modules of `Parts`.  Its theorems
assume, each, what the module assumes (`CostAssumption` and so on); type correctness is
a theorem for each.

* Cost tracker, `OvershootIsBounded`.  `Headroom`: the cost, and one charge for each
  review that was not told to stop, stay within the cap and one charge for each review.
  A review told to stop leaves that count for good.  The type of `cost` needs the same
  argument with the reviews in a call (`Committed`).
* Registry, `SupersessionIsSound`.  `CanonicalsBounded`: the canonical reviews of a key
  are at most its stray completions and one in the slot; `register()` signals exactly the
  one in the slot, and only a stray `complete()` empties a slot without ending its review.
* Rows, `AtMostOneCanonical`, `CommitsAreReviewedOnce`, `AReviewIsLeft`.
  `CallersFollow` says what a caller knows between its three steps; `OverlapsNoted`, that
  whoever was superseded before it superseded has overlapped.
* Pending reviews, `PublishIsSound`: inductive, once what a review shows is within its
  batch.
* Queues, `SlotsAreSound` (`SlotsConserved` and `NoIdleSlot`).  Neither is inductive without
  `Lined`: a job waits exactly while it is in the queue of its semaphore, at one place.
  `HandOn` is the one computation of both `release()` and a waiter that leaves: if as
  many slots are handed on as are free or wanted, no slot is lost, and a slot stays free
  only if nobody waits or somebody is about to run.  It covers both of the library's
  ways of handing on, and says why they are both right.
* Workflow, `RecordIsPosition`, `OutcomesAgree` (`ResultAgrees`) and `PostsAfterRecheck`,
  from one invariant.  It relates the place in the pipeline, and whether that step has
  taken effect but not been stored, to the record (`RecordFollows`), to what the guards
  saw (`HeadFollows`), to how often findings were posted (`PostsFollow`) and to the
  result (`ResultFollows`).  `PostsFollow` is where crashes count: one more post for each.
* Rate limiter, `DequeIsBounded`, `NeverOverBudget`, `NeverRefusesEarly`.  All rest on
  `WindowInv`: the deque is the end of the history of admitted calls, what it
  dropped is at least a period old, and the history is ordered.

**ReaderProofs** and **ParserProofs** are about the parts that compute something of what
they are given, with recursion over sequences and trees.  The library's induction theorems
take an operator as a parameter, which the provers cannot instantiate.  So they
state induction anew with a *set* in the place of the predicate (`Inductive`, from the
least-number principle `LeastOf`, which follows from the library's well-foundedness of
`<`; `SequenceInductive` for sequences), and show for each recursive function or fold that
it exists and is what one step makes of the one before (`StepsDefine`, `FlattenIsBySteps`,
`BlockIsBySteps`, `ClimbsUp`, `FindIsDefined`).

* Evaluation (from `EvaluationAssumption`).  `MatchingIsTrue`: `Matched` is what is true
  after n rounds of `match_findings()`: some pairing of the first n findings whose hits
  are the true positives, whose rest are the false positives, and whose untaken annotations
  are the misses, *in order*; and no false positive matches a miss.  That the greedy pairing
  has half the hits of any other is a counting argument: every pair of another pairing has
  a finding or an annotation that the greedy one took, else two that match would be
  left.  `VerdictComparesLikeWithLike` carries the counts through the totals (`MeasuredInTurn`).
* Structural context (from `AstAssumption`).  `ScopesAreTrue`: `ScopeInv` says that the tree
  is sound (`TreeSound`: a node comes after its parent and lies within it) and that a hunk
  has no scope or that of the search.  `FindsBest` says what the search finds at a
  node: a scope below it, found there too, none shorter, and one if there is one; it
  holds of the last node and, if it holds of those after a node, of that node.  Two facts
  carry it: a pruned subtree cannot hold a scope, for spans nest; and the candidates
  of a node are the scopes that its children find.
* Slash commands (from `CommandsAssumption`).  `OnlyBareCommandsAreMissed` is the
  complement of the finding `command_bare`: only a command without words before CR LF is
  ever answered like no command.
* Diff parser (from `ParserAssumption`), `ParserIsTrue` (`DiffTrue`).  The diff tells the kind
  of a file (`Told`) unless it is binary, empty or only has a new mode, or it was modified and
  git quotes its name; none of these is taken for a new or a deleted one.  The five parts of
  `DiffTrue` are not inductive.  `ParserInv` adds where
  the parser is in what git writes.  While no line was cut (`Uncut`), git has lines left only
  in an open hunk, the counters are at the line that git is at (`CursorFollows`), and a hunk
  has the numbers of its range but for those that git has left (`ReadBut`, which `HunksRead`
  says of every hunk).  After that (`Contained`) the files up to the cut one are as they were,
  for whatever is read changes lines of the last file only, and the paths of none
  (`FilesContinue`).  `HeadersTrue` follows a file's header line by line (`Has`: what a block
  has read), for every kind of change and of name.  The omission of deletions is a comprehension over files, hunks and lines; `Flat` and the
  lemmas about it say when two of them have the same lines.

**PartsProofs** puts the eleven parts of the run `parts` together.  `EachPartIsItself`: a
behaviour of all of them is, seen through the variables of one, a behaviour of that
one.  So `PartsTypesAreCorrect` (`PartsTypeOK`) and `PartsAreSafe`, which states every safety
property of that run of its own specification, `PartsSpec`, from `PartsAssumption`: what
the parts assume.

Not proved, only model-checked:

* the liveness properties (`LatestReviewStarts`, `AcceptedIsReviewed`, `Terminates`,
  `EveryCallReturns`, `FetchReturns`): they rest on fairness, which is beyond the prover.

## 6. Findings

Seven runs end in a violation, each of a sentence that the repository says of itself.

1. `debounce_late_finally`.  `_run` pops the in-flight slot in its finally clause
   whichever task it holds (`server/debounce.py:162`).  A cancelled review that unwinds
   after its successor started takes the successor's slot; the next event cannot cancel
   it and two reviews run.  Comparing the slot with the task before popping would do.
2. `webhook_lost_event`.  The event is committed, then scheduled in memory
   (`server/webhook.py:198`).  After a restart in between nothing reads
   `webhook_events` again and the redelivery is "already processed".
3. `publish_retry`.  Ids are flushed, not committed (`pipeline/publisher.py:277`); a
   caller that rolls back after an error makes the retry post everything again.
4. `publish_fresh`.  After a review was recreated only the local map is emptied
   (`pipeline/publisher.py:287`); the lookup falls back to `finding.github_comment_id`, so no
   finding gets the fresh comment that the comment promises.
5. `diff_cut`.  `splitlines()` cuts at form feeds and other separators inside a line
   (`diff/parser.py:137`), and the later lines of the hunk are misnumbered.
6. `ast_signature`.  The signature is made of the rows before the row in which the body
   begins (`diff/ast_context.py:235`).  Where the brace stands on the definition's row it is
   the empty string, although it should be everything up to the body.
7. `command_bare`.  The pattern allows spaces and tabs after a command without words, then
   the end of a line, which is not before `\r` (`server/commands.py:20`).  In a comment
   with CR LF a bare `/kenjutsu` is therefore no command instead of a malformed one, and a
   command on a later line is taken in its place.

Further differences between what the repository says and what the code does, met while
modelling; the models follow the code and no run is spent on them:

* A redelivery is answered 200, where the docstring of the handler speaks of 409
  (`server/webhook.py:142`, `:203`).
* A deleted installation makes the insert break its foreign key, which is answered as a
  duplicate: every `IntegrityError` is.
* No path of the workflow writes `failed` when a step raises: the record stays at the status
  before (`pipeline/steps.py:92`).
* The exit guard cannot exclude a publish against an outdated head: a push after the
  guard, or a restart that replays its stored result, is not seen
  (`pipeline/sha_guard.py:5`).  `PostedAfterRecheck` states what remains.
* An entry guard may answer `stale` for the newest commit, from a cache entry that was
  filled before the push (`pipeline/sha_guard.py:12`).  `AnswersTruthful` states what
  remains.
* `complete()` of a superseded review removes the event of its successor
  (`pipeline/queue.py:193`, against `:34`).  `SupersessionSound` bounds the effect: one more
  canonical review for each stray completion.
* `fetch()` says that a caller who waited does no duplicate fetch
  (`mirror/api.py:134`); the code fetches again.  The code is right: the mutant in which a
  waiter returns at once breaks `FetchedIsCurrent`.
* If `git config` fails after `git clone`, the mirror stays without a fetch refspec;
  cloning refuses to run again and fetches succeed without effect.
* `supersession.py:10` names a unique index whose predicate differs from
  `is_canonical()` about failed reviews, and which the table definitions do not contain.  Two
  callers that both created before either superseded mark each other, and no canonical
  review is left.
* A cap of 0 makes `check()` divide by zero, after the amount was recorded.
* Binary and empty files and new modes have no `---` and `+++` lines (`diff/parser.py:159`).
  Added and deleted ones are therefore taken for modified, and if the path contains ` b/`
  the greedy pattern splits the line at its last ` b/` and the file is taken for a rename
  from a path that does not exist.  `DiffTrue` says of such files only that they are not taken
  for new or deleted ones.
* `_strip_path_prefix` removes `a/` and `b/` at the start of a path (`diff/parser.py:29`).  A
  path that git quotes, for a byte that is not ASCII, starts with the quote: such a file is
  named `"b/...`, and when it was modified it is taken for a rename of `"a/...`.  The tab
  that git writes after a name with a space stays in its path.
* Reads: `git_log` splits the output of git at the separators of `str.splitlines()` and
  unpacks four fields, so that a subject with one of them raises `ValueError`; text that is
  not UTF-8 raises `UnicodeDecodeError`; a directory that a deletion took away raises
  `FileNotFoundError`.  The docstrings speak of `MirrorReadError` (`mirror/api.py:74`,
  `:89`, `:106`).
* `_extract_name` calls an unnamed scope `<anonymous>`, its docstring an empty
  string (`diff/ast_context.py:245`).  A decorated class is labelled "function"
  (`:159`), an arrow function may be named after its parameter (`:257`), and the signature
  of a decorated definition is its first decorator, since the node has no body.
* A tree deeper than the recursion limit raises out of `extend_hunks_with_ast`, whose
  docstring leaves such hunks without a scope (`diff/ast_context.py:397`).
* One pull request that raises loses the results of the whole evaluation run
  (`evaluation/runner.py:352`).  The greedy matching may count as missed what another
  order of findings would have matched.  Rates are floats, of which
  `0.75 - 0.60 > 0.15`; the model's are exact.
* `load_repo_config` "never raises" (`config/loader.py:30`), but `safe_load` raises a
  `ValueError` for a date that does not exist; and one invalid field discards all others.
* A comment that GitHub refuses each time, say for a line outside the diff, ends each
  attempt at the same finding, and those after it are never posted (`pipeline/publisher.py:152`).
* The columns `webhook_events.processed` and `installations.suspended` are declared
  and never read or written by the server.
* The rate limit of an old answer makes the next review drop its minor findings,
  however long ago it was.

## 7. Hazards

`PROJECT.json` lists what is hard to test here at the lines where it bites, with the
property that would catch it.  Some are covered only in part, because the code does
not do what one would like to state: the outdated head after the exit guard's replay, the
stale answer of the entry guard, mutual supersession, the half-configured mirror, the
walk that is too deep, the kinds of binary and empty files and the paths of names that are
not plain, a head that moves after the publisher's guard, a workflow whose step raised and
whose record stays, a request too few of the guard, the half-deleted mirror, and minor
findings that the rate limit drops.  Each has a note there.

## 8. What is not modelled

* *Audit log* (`publisher/audit.py`): one INSERT in the caller's transaction, no caller.
* *Configuration* (`config/`): one function of a text with fallbacks.  What can go wrong in
  it is what the YAML library and pydantic accept and raise, which is outside the
  repository; a model would assume it.
* *Finding models* (`models/findings.py`): enumerations and data classes.
* *Database engine, sessions, migrations*: the rows and constraints the webhook and the
  publisher rely on are in their modules.
* Within modelled parts: bodies, headers and wording; the signature's arithmetic; the blob
  filter and sizes of mirrors; contents and section headers of diffs, several cut lines in
  one diff, a rest of a cut line that would open a hunk of more than a line a side, one in a
  header that looks like a path line, and a rename of which git quotes one name only; the cost
  tracker's alert; the analyses of `logic.py`, which are stubs; the grammars' node types, which
  are classes and functions here; of the evaluation, loading the corpus, latencies, costs,
  false-positive rates, targets and the reports, which are sums and formatting.
* Also within modelled parts, since no property depends on them: the 500s of the webhook
  handler for a payload that is no object, an installation that is null and a body that is
  not UTF-8; other exceptions in the guard than errors and timeouts of requests (an answer
  without the expected fields), which leave the call having stored nothing, and that `httpx`
  counts its timeout for each phase of a request; a caller that takes `fetch_mirror` of
  `mirror/lifecycle.py` without the lock of `mirror/api.py`: in the repository only the
  tests do.

## 9. Plan

The order was: debounce and webhook, since every review passes through them; publisher,
workflow and guard, since they are what a user sees; the services; then the abstract
event pipeline, structural context, evaluation and commands; then the proofs of section 5.
The proofs cover every safety property that a passing run checks; nothing of the plan is
left but what follows.

Workflow, guard and publisher are not composed: what joins them in the repository is
`publish` and `sha_guard` of `logic.py`, which are stubs, and a composition would
invent the arguments they pass.  When they are written, the head becomes one variable of
all three.

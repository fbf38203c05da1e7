--------------------------------- MODULE Parts ---------------------------------
(***************************************************************************)
(* Six parts of kenjutsu that share no state, side by side, each with its  *)
(* own constants and variables: the cost tracker, the supersession         *)
(* registry, the review records, the pending review publisher, the         *)
(* concurrency queues and the review workflow.                             *)
(***************************************************************************)
EXTENDS Integers

CONSTANTS Spenders, Caps, NoCap, MaxCharge, MaxCost,   \* CostTracker: Spenders are its Reviews
          Contenders, Keys, KeyOf, NoReview,           \* SupersessionRegistry: Contenders likewise
          Ids, Commits, CommitOf, Pulls, PullOf, NoId, \* ReviewRecords
          Batches, Contents, Floor, Quota, MaxLost,    \* PendingReview
          Jobs, Pools, PoolOf, Limit,                  \* ConcurrencyQueue
          MayRaise, MaxCrashes, MaxPushes              \* ReviewWorkflow

VARIABLES cost, cap, spent, doing, base,
          events, superseded, signalled, phase, latest, strays,
          status, by, caller, found, overlapped,
          remaining, quota, todo, reviews, shown, lost,
          value, waiters, future, where,
          state, next, executed, outcome, record, result, posted, head, crashes,
          scored, current

Cost == INSTANCE CostTracker WITH Reviews <- Spenders
Registry == INSTANCE SupersessionRegistry WITH Reviews <- Contenders
Records == INSTANCE ReviewRecords
Pending == INSTANCE PendingReview
Queue == INSTANCE ConcurrencyQueue
Workflow == INSTANCE ReviewWorkflow

-----------------------------------------------------------------------------
\* The properties of the parts, under names of their own.

\* The newest review of a key is never told to abort, and the others are, unless
\* a stray completion hid them.
SupersessionSound == Registry!SupersessionSound

\* No slot of a semaphore is lost or made, and no wake-up of a waiting job lost,
\* whatever is cancelled.
SlotsSound == Queue!SlotsSound

\* Concurrent reviews overshoot the cap by at most the call each had begun.
OvershootBounded == Cost!OvershootBounded

\* When no caller is between creating and superseding, a pull request has at
\* most one canonical review.
AtMostOneSettled == Records!AtMostOneSettled

\* A commit is reviewed again only by callers that overlapped.
CommitReviewedOnce == Records!CommitReviewedOnce

\* A pull request keeps a review, unless callers overlapped.
OneIsLeft == Records!OneIsLeft

\* A caller that follows the docstring publishes every batch once, and shows its
\* critical findings whatever the rate limit.
PublishSound == Pending!PublishSound

\* The review record reflects the current pipeline position.
RecordTracksPosition == Workflow!RecordTracksPosition

\* The outcome, the record and what GitHub saw agree.
ResultAgrees == Workflow!ResultAgrees

\* Nothing is posted unless the head was the reviewed one after scoring.
PostedAfterRecheck == Workflow!PostedAfterRecheck
================================================================================

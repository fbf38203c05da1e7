------------------------------ MODULE Debounce ------------------------------
(***************************************************************************)
(* The debounce manager of kenjutsu/server/debounce.py: one quiet-period   *)
(* timer and one in-flight review task per pull request, on one asyncio    *)
(* event loop.  A step of this module is one callback of the loop; code    *)
(* between two awaits is atomic.                                           *)
(*                                                                         *)
(* The v-th call of schedule() for a pull request k passes a coroutine     *)
(* factory, the "review" <<k, v>>.  It has at most one timer handle and at *)
(* most one task, so <<k, v>> names those too.                             *)
(***************************************************************************)
EXTENDS Naturals

CONSTANTS PRs,          \* the pull requests, PRKey = (repo_full_name, pr_number)
          QuietPeriod,  \* the quiet period, in ticks of the clock
          MaxSchedules, \* bound: calls of schedule() per pull request
          SlowCleanup   \* TRUE if a cancelled review may await while it unwinds

ASSUME DebounceAssumption ==
    /\ QuietPeriod \in Nat \ {0}
    /\ MaxSchedules \in Nat
    /\ SlowCleanup \in BOOLEAN

VARIABLES calls,      \* calls[k]: how often schedule() was called for k
          armed,      \* the timer handles the loop still holds
          left,       \* left[r]: ticks until the timer of r is due
          pending,    \* _pending: the review whose timer is registered, or None
          inFlight,   \* _in_flight: the review whose task is registered, or None
          task,       \* task[r]: where the task of review r is
          cancelling, \* tasks on which cancel() was called, not yet delivered
          quiet,      \* history: ticks since schedule() was called, up to QuietPeriod
          withdrawn,  \* history: the last review that cancel() took back
          orphaned    \* history: reviews whose slot in _in_flight was emptied by
                      \* the finally clause of another task

history == <<quiet, withdrawn, orphaned>>
vars == <<calls, armed, left, pending, inFlight, task, cancelling, history>>

None == 0
Versions == 1 .. MaxSchedules
Review == PRs \X Versions

\* none: no task; created: waits for its first step; running: inside the
\* coroutine; unwinding: CancelledError was raised inside the coroutine, which
\* still awaits; done: finished; dropped: cancelled before its first step.
TaskState == {"none", "created", "running", "unwinding", "done", "dropped"}

TypeOK ==
    /\ calls \in [PRs -> 0 .. MaxSchedules]
    /\ armed \subseteq Review
    /\ left \in [Review -> 0 .. QuietPeriod]
    /\ pending \in [PRs -> Versions \cup {None}]
    /\ inFlight \in [PRs -> Versions \cup {None}]
    /\ task \in [Review -> TaskState]
    /\ cancelling \subseteq Review
    /\ quiet \in [PRs -> 0 .. QuietPeriod]
    /\ withdrawn \in [PRs -> 0 .. MaxSchedules]
    /\ orphaned \subseteq Review

Init ==
    /\ calls = [k \in PRs |-> 0]
    /\ armed = {}
    /\ left = [r \in Review |-> 0]
    /\ pending = [k \in PRs |-> None]
    /\ inFlight = [k \in PRs |-> None]
    /\ task = [r \in Review |-> "none"]
    /\ cancelling = {}
    /\ quiet = [k \in PRs |-> 0]
    /\ withdrawn = [k \in PRs |-> 0]
    /\ orphaned = {}

-----------------------------------------------------------------------------
\* Mutated forms of the operators below, for the sensitivity checks.
TimersAfterCancel_Kept(k) == armed
Rearmed_CancelsNew(k, v) == (armed \cup {<<k, v>>}) \ {<<k, v>>}
TasksAfterCancel_Lost(k) == cancelling
Arm_HalfPeriod(k, v) == left' = [left EXCEPT ![<<k, v>>] = QuietPeriod - 1]
Arm_TooLong(k, v) == left' = [left EXCEPT ![<<k, v>>] = QuietPeriod + 1]
FirstStep_IgnoresCancel(r) == "running"

-----------------------------------------------------------------------------
\* _cancel_pending: the registered timer handle, if any, is cancelled.
TimersAfterCancel(k) == armed \ {<<k, pending[k]>>}

\* _cancel_in_flight: cancel() is requested on the registered task, if any.
TasksAfterCancel(k) ==
    cancelling \cup {r \in Review : r = <<k, inFlight[k]>>}

\* The old timer is cancelled before the new one is registered.
Rearmed(k, v) == TimersAfterCancel(k) \cup {<<k, v>>}

\* loop.call_later(self._quiet_period, ...)
Arm(k, v) == left' = [left EXCEPT ![<<k, v>>] = QuietPeriod]

\* schedule(): cancel what is registered for k, then arm a new timer.
Schedule(k) ==
    LET v == calls[k] + 1 IN
    /\ calls[k] < MaxSchedules
    /\ calls' = [calls EXCEPT ![k] = v]
    /\ armed' = Rearmed(k, v)
    /\ Arm(k, v)
    /\ pending' = [pending EXCEPT ![k] = v]
    /\ cancelling' = TasksAfterCancel(k)
    /\ inFlight' = [inFlight EXCEPT ![k] = None]
    /\ quiet' = [quiet EXCEPT ![k] = 0]
    /\ UNCHANGED <<task, withdrawn, orphaned>>

\* cancel(): withdraw the timer and the task of k.  With neither, it returns
\* False and changes nothing.
Cancel(k) ==
    /\ pending[k] # None \/ inFlight[k] # None
    /\ armed' = TimersAfterCancel(k)
    /\ pending' = [pending EXCEPT ![k] = None]
    /\ cancelling' = TasksAfterCancel(k)
    /\ inFlight' = [inFlight EXCEPT ![k] = None]
    /\ withdrawn' = [withdrawn EXCEPT ![k] = calls[k]]
    /\ UNCHANGED <<calls, left, task, quiet, orphaned>>

\* _fire(), called by the loop for a timer that is due.  The loop serves its
\* callbacks in order: a first step or a cancellation that was due before the
\* timer was armed has been served by the time the timer fires.
Fire(r) ==
    /\ r \in armed
    /\ left[r] = 0
    /\ \A s \in Review :
         s[1] = r[1] => s \notin cancelling /\ task[s] # "created"
    /\ armed' = armed \ {r}
    /\ pending' = [pending EXCEPT ![r[1]] = None]
    /\ task' = [task EXCEPT ![r] = "created"]
    /\ inFlight' = [inFlight EXCEPT ![r[1]] = r[2]]
    /\ UNCHANGED <<calls, left, cancelling, history>>

\* A task cancelled before its first step never enters _run, so that the
\* finally clause there does not run either.
FirstStep(r) == IF r \in cancelling THEN "dropped" ELSE "running"

Begin(r) ==
    /\ task[r] = "created"
    /\ task' = [task EXCEPT ![r] = FirstStep(r)]
    /\ cancelling' = cancelling \ {r}
    /\ UNCHANGED <<calls, armed, left, pending, inFlight, history>>

\* The finally clause of _run: the slot of the pull request is emptied,
\* whichever task it holds by now.
LeaveRun(r) ==
    /\ task' = [task EXCEPT ![r] = "done"]
    /\ inFlight' = [inFlight EXCEPT ![r[1]] = None]
    /\ orphaned' = orphaned \cup {s \in Review \ {r} : s = <<r[1], inFlight[r[1]]>>}

\* CancelledError reaches the coroutine: it unwinds at once or, when it awaits
\* in a handler of its own, over several turns of the loop.
DeliverCancel(r) ==
    /\ task[r] = "running"
    /\ r \in cancelling
    /\ cancelling' = cancelling \ {r}
    /\ \/ LeaveRun(r)
       \/ /\ SlowCleanup
          /\ task' = [task EXCEPT ![r] = "unwinding"]
          /\ UNCHANGED <<inFlight, orphaned>>
    /\ UNCHANGED <<calls, armed, left, pending, quiet, withdrawn>>

\* The coroutine returns, raises (which _run logs), or ends its unwinding.
Return(r) ==
    /\ \/ task[r] = "running" /\ r \notin cancelling
       \/ task[r] = "unwinding"
    /\ LeaveRun(r)
    /\ UNCHANGED <<calls, armed, left, pending, cancelling, quiet, withdrawn>>

\* Time passes.
Tick ==
    /\ armed # {}
    /\ left' = [r \in Review |->
                  IF r \in armed /\ left[r] > 0 THEN left[r] - 1 ELSE left[r]]
    /\ quiet' = [k \in PRs |->
                  IF quiet[k] < QuietPeriod THEN quiet[k] + 1 ELSE quiet[k]]
    /\ UNCHANGED <<calls, armed, pending, inFlight, task, cancelling, withdrawn, orphaned>>

LoopStep(r) == Fire(r) \/ Begin(r) \/ DeliverCancel(r)

Next ==
    \/ \E k \in PRs : Schedule(k) \/ Cancel(k)
    \/ \E r \in Review : LoopStep(r) \/ Return(r)
    \/ Tick

\* The loop runs due timers and ready callbacks, and time passes.  Nothing is
\* assumed of the callers, nor that a review ever returns.
Fairness == WF_vars(Tick) /\ \A r \in Review : WF_vars(LoopStep(r))

Spec == Init /\ [][Next]_vars /\ Fairness

-----------------------------------------------------------------------------
\* The registered timer of a pull request is its only live timer: no timer
\* survives the schedule() or cancel() that should have cancelled it, and the
\* _pending dict never names a dead handle.
TimerTracked ==
    \A r \in Review : r \in armed <=> pending[r[1]] = r[2]

\* A review that was started and not cancelled.
Active(r) == task[r] \in {"created", "running"} /\ r \notin cancelling

\* _in_flight names, under each pull request, the active review that the next
\* event must cancel.  The one way for an active review to lose its slot is the
\* finally clause of another task of the same pull request.
ActiveIsTracked ==
    \A r \in Review : Active(r) => inFlight[r[1]] = r[2] \/ r \in orphaned

\* "Cancels any in-flight review task when a new event arrives": a pull
\* request never has two reviews that are both started and not cancelled.
OneActiveReview ==
    \A r, s \in Review : r[1] = s[1] /\ Active(r) /\ Active(s) => r = s

\* A review whose coroutine starts is the one of the last schedule() call: a
\* superseded review never starts, even if its task was already created, unless
\* it lost its slot.
NoStaleStart ==
    [][\A r \in Review \ orphaned :
         task[r] = "created" /\ task'[r] = "running" => r[2] = calls[r[1]]]_vars

\* A review task is created only when the quiet period has elapsed since the
\* last event for its pull request.
QuietRespected ==
    [][\A r \in Review :
         task[r] = "none" /\ task'[r] = "created" => quiet[r[1]] = QuietPeriod]_vars

Started(r) == task[r] \in {"running", "unwinding", "done"}

\* Every scheduled review is started, unless a later event supersedes it or
\* cancel() takes it back.
LatestReviewStarts ==
    \A r \in Review :
        (calls[r[1]] = r[2]) ~>
            (Started(r) \/ calls[r[1]] > r[2] \/ withdrawn[r[1]] = r[2])
=============================================================================

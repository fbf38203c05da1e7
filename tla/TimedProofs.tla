----------------------------- MODULE TimedProofs -----------------------------
(***************************************************************************)
(* Proofs about the parts that run on a clock: the debounce manager, for   *)
(* every set of pull requests, every quiet period and every number of      *)
(* schedule() calls, and the SHA guard, for every set of overlapping calls *)
(* and commits, every TTL, timeout and number of attempts.                 *)
(***************************************************************************)
EXTENDS MCTimed, TLAPS

-----------------------------------------------------------------------------
\* Debounce manager.

\* A numeral is not a pair of a pull request and a version: the SMT encoding
\* needs the components of a review, which these facts give.
LEMMA ReviewParts ==
    /\ \A k \in PRs, v \in Versions :
         <<k, v>> \in Review /\ <<k, v>>[1] = k /\ <<k, v>>[2] = v
    /\ \A r \in Review : r[1] \in PRs /\ r[2] \in Versions /\ r = <<r[1], r[2]>>
BY DEF Review

\* Every variable keeps its type: a debounce.py handler never leaves the
\* manager's dicts, the loop's timers or the tasks in a shape of another kind.
LEMMA DebounceTypes == Init /\ [][Next]_vars => []TypeOK
<1>1. Init => TypeOK
  BY DebounceAssumption DEF Init, TypeOK, TaskState, None
<1>2. TypeOK /\ [Next]_vars => TypeOK'
  <2> SUFFICES ASSUME TypeOK, [Next]_vars PROVE TypeOK'
    OBVIOUS
  <2> USE DebounceAssumption, ReviewParts
  <2>1. ASSUME NEW k \in PRs, Schedule(k) PROVE TypeOK'
    <3>1. calls[k] + 1 \in Versions
      BY <2>1 DEF TypeOK, Schedule, Versions
    <3> QED BY <2>1, <3>1 DEF TypeOK, Schedule, Arm, Rearmed, TimersAfterCancel,
                              TasksAfterCancel
  <2>2. ASSUME NEW k \in PRs, Cancel(k) PROVE TypeOK'
    BY <2>2 DEF TypeOK, Cancel, TimersAfterCancel, TasksAfterCancel
  <2>3. ASSUME NEW r \in Review, Fire(r) PROVE TypeOK'
    BY <2>3 DEF TypeOK, Fire, TaskState, history
  <2>4. ASSUME NEW r \in Review, Begin(r) PROVE TypeOK'
    BY <2>4 DEF TypeOK, Begin, FirstStep, TaskState, history
  <2>5. ASSUME NEW r \in Review, DeliverCancel(r) PROVE TypeOK'
    BY <2>5 DEF TypeOK, DeliverCancel, LeaveRun, TaskState
  <2>6. ASSUME NEW r \in Review, Return(r) PROVE TypeOK'
    BY <2>6 DEF TypeOK, Return, LeaveRun, TaskState
  <2>7. CASE Tick
    BY <2>7 DEF TypeOK, Tick
  <2>8. CASE UNCHANGED vars
    BY <2>8 DEF TypeOK, vars, history
  <2> QED
    BY <2>1, <2>2, <2>3, <2>4, <2>5, <2>6, <2>7, <2>8 DEF Next, LoopStep
<1> QED BY <1>1, <1>2, PTL

\* The variables of the debounce manager have their types.
THEOREM DebounceTypeCorrect == Spec => []TypeOK
BY DebounceTypes, PTL DEF Spec

-----------------------------------------------------------------------------
\* No timer outlives the schedule() or cancel() that should have cancelled it,
\* and _pending names no dead handle.
LEMMA TimerTrackedStep == TypeOK /\ TimerTracked /\ [Next]_vars => TimerTracked'
<1> SUFFICES ASSUME TypeOK, TimerTracked, [Next]_vars,
                    NEW s \in Review
             PROVE  (s \in armed <=> pending[s[1]] = s[2])'
  BY DEF TimerTracked
<1> USE DebounceAssumption, ReviewParts DEF TypeOK, TimerTracked
<1>0. s[2] # None
  BY DEF None, Versions
<1>1. ASSUME NEW k \in PRs, Schedule(k) PROVE (s \in armed <=> pending[s[1]] = s[2])'
  BY <1>1 DEF Schedule, Rearmed, TimersAfterCancel
<1>2. ASSUME NEW k \in PRs, Cancel(k) PROVE (s \in armed <=> pending[s[1]] = s[2])'
  BY <1>0, <1>2 DEF Cancel, TimersAfterCancel
<1>3. ASSUME NEW r \in Review, Fire(r) PROVE (s \in armed <=> pending[s[1]] = s[2])'
  BY <1>0, <1>3 DEF Fire
<1>4. ASSUME NEW r \in Review, Begin(r) \/ DeliverCancel(r) \/ Return(r)
      PROVE  (s \in armed <=> pending[s[1]] = s[2])'
  BY <1>4 DEF Begin, DeliverCancel, Return
<1>5. CASE Tick \/ UNCHANGED vars
  BY <1>5 DEF Tick, vars
<1> QED
  BY <1>1, <1>2, <1>3, <1>4, <1>5 DEF Next, LoopStep

\* The registered timer of a pull request is its only live timer.
THEOREM TimersAreTracked == Spec => []TimerTracked
<1>1. Init => TimerTracked
  BY ReviewParts DEF Init, TimerTracked, None, Versions
<1> QED BY <1>1, TimerTrackedStep, DebounceTypeCorrect, PTL DEF Spec

-----------------------------------------------------------------------------
\* An armed timer waits at least as long as its pull request still has to be
\* quiet: this is what makes the timer a quiet period.
WaitsOut == \A r \in Review : r \in armed => left[r] + quiet[r[1]] >= QuietPeriod

LEMMA WaitsOutStep ==
    TypeOK /\ TimerTracked /\ WaitsOut /\ [Next]_vars => WaitsOut'
<1> SUFFICES ASSUME TypeOK, TimerTracked, WaitsOut, [Next]_vars,
                    NEW s \in Review, s \in armed'
             PROVE  (left[s] + quiet[s[1]] >= QuietPeriod)'
  BY DEF WaitsOut
<1> DEFINE G == (left[s] + quiet[s[1]] >= QuietPeriod)'
<1> USE DebounceAssumption, ReviewParts DEF TypeOK, WaitsOut
<1>1. ASSUME NEW k \in PRs, Schedule(k) PROVE G
  <2>1. s[1] = k => s = <<k, calls[k] + 1>>
    BY <1>1 DEF Schedule, Rearmed, TimersAfterCancel, TimerTracked
  <2>2. CASE s[1] = k
    BY <1>1, <2>1, <2>2 DEF Schedule, Arm
  <2>3. CASE s[1] # k
    <3>1. s \in armed /\ s # <<k, calls[k] + 1>>
      BY <1>1, <2>3 DEF Schedule, Rearmed, TimersAfterCancel
    <3>2. left'[s] = left[s] /\ quiet'[s[1]] = quiet[s[1]]
      BY <1>1, <2>3, <3>1 DEF Schedule, Arm
    <3> QED BY <3>1, <3>2
  <2> QED BY <2>2, <2>3
<1>2. ASSUME NEW k \in PRs, Cancel(k) PROVE G
  BY <1>2 DEF Cancel, TimersAfterCancel
<1>3. ASSUME NEW r \in Review, Fire(r) \/ Begin(r) \/ DeliverCancel(r) \/ Return(r)
      PROVE  G
  BY <1>3 DEF Fire, Begin, DeliverCancel, Return, history
<1>4. CASE Tick
  <2>1. s \in armed /\ left[s] + quiet[s[1]] >= QuietPeriod
    BY <1>4 DEF Tick
  <2>2. left[s] \in Nat /\ quiet[s[1]] \in 0 .. QuietPeriod
    BY DebounceAssumption
  <2>3. left'[s] = (IF left[s] > 0 THEN left[s] - 1 ELSE left[s])
    BY <1>4, <2>1 DEF Tick
  <2>4. quiet'[s[1]] = (IF quiet[s[1]] < QuietPeriod THEN quiet[s[1]] + 1 ELSE quiet[s[1]])
    BY <1>4 DEF Tick
  <2> QED BY <2>1, <2>2, <2>3, <2>4
<1>5. CASE UNCHANGED vars
  BY <1>5 DEF vars, history
<1> QED BY <1>1, <1>2, <1>3, <1>4, <1>5 DEF Next, LoopStep

\* A review task is created only after QuietPeriod ticks without an event for
\* its pull request.
THEOREM QuietPeriodRespected == Spec => QuietRespected
<1>1. Init => WaitsOut
  BY DEF Init, WaitsOut
<1>2. TypeOK /\ WaitsOut /\ [Next]_vars =>
        [\A r \in Review :
           task[r] = "none" /\ task'[r] = "created" => quiet[r[1]] = QuietPeriod]_vars
  <2> SUFFICES ASSUME TypeOK, WaitsOut, [Next]_vars, NEW r \in Review,
                      task[r] = "none", task'[r] = "created"
               PROVE  quiet[r[1]] = QuietPeriod
    OBVIOUS
  <2>1. Fire(r)
    BY ReviewParts DEF TypeOK, Next, LoopStep, Schedule, Cancel, Fire, Begin, FirstStep,
                       DeliverCancel, Return, LeaveRun, Tick, vars
  <2>2. left[r] = 0 /\ left[r] + quiet[r[1]] >= QuietPeriod
    BY <2>1 DEF Fire, WaitsOut
  <2>3. quiet[r[1]] \in 0 .. QuietPeriod
    BY ReviewParts DEF TypeOK
  <2> QED BY <2>2, <2>3, DebounceAssumption
<1> QED
  BY <1>1, <1>2, WaitsOutStep, DebounceTypeCorrect, TimersAreTracked, PTL DEF Spec, QuietRespected

-----------------------------------------------------------------------------
\* Each pull request has one slot and the slot tells the truth: it is empty
\* while a timer is pending or a cancellation is under way; otherwise it names
\* the review of the last schedule() call; and it names every active review
\* that has not lost its slot to the finally clause of another task.
SlotInv ==
    /\ \A r \in cancelling : inFlight[r[1]] = None
    /\ \A k \in PRs : pending[k] # None => pending[k] = calls[k] /\ inFlight[k] = None
    /\ \A k \in PRs : inFlight[k] # None => inFlight[k] = calls[k]
    /\ ActiveIsTracked

\* What ActiveIsTracked says of one review.
Tracked(s) == Active(s) => inFlight[s[1]] = s[2] \/ s \in orphaned

LEMMA SlotInvStep == TypeOK /\ TimerTracked /\ SlotInv /\ [Next]_vars => SlotInv'
<1> SUFFICES ASSUME TypeOK, TimerTracked, SlotInv, [Next]_vars PROVE SlotInv'
  OBVIOUS
<1> USE DebounceAssumption, ReviewParts DEF TypeOK
<1>0. None \notin Versions /\ \A r \in Review : r[2] # None
  BY DEF None, Versions
<1>t. (\A s \in Review : Tracked(s)') => ActiveIsTracked'
  BY DEF ActiveIsTracked, Tracked
<1>u. \A s \in Review : Tracked(s)
  BY DEF SlotInv, ActiveIsTracked, Tracked
<1>1. ASSUME NEW k \in PRs, Schedule(k) PROVE SlotInv'
  <2>1. \A r \in cancelling' : r \in cancelling \/ r[1] = k
    BY <1>1 DEF Schedule, TasksAfterCancel
  <2>2. ASSUME NEW s \in Review, Active(s)' PROVE (inFlight[s[1]] = s[2] \/ s \in orphaned)'
    <3>1. Active(s)
      BY <1>1, <2>2 DEF Schedule, TasksAfterCancel, Active
    <3>2. CASE s \in orphaned
      BY <1>1, <3>2 DEF Schedule
    <3>3. CASE inFlight[s[1]] = s[2]
      <4>1. s[1] # k
        BY <1>1, <2>2, <3>3 DEF Schedule, TasksAfterCancel, Active
      <4> QED BY <1>1, <3>3, <4>1 DEF Schedule
    <3> QED BY <1>u, <3>1, <3>2, <3>3 DEF Tracked
  <2>3. ActiveIsTracked'
    BY <1>t, <2>2 DEF Tracked
  <2> QED BY <1>1, <2>1, <2>3 DEF SlotInv, Schedule
<1>2. ASSUME NEW k \in PRs, Cancel(k) PROVE SlotInv'
  <2>1. \A r \in cancelling' : r \in cancelling \/ r[1] = k
    BY <1>2 DEF Cancel, TasksAfterCancel
  <2>2. ASSUME NEW s \in Review, Active(s)' PROVE (inFlight[s[1]] = s[2] \/ s \in orphaned)'
    <3>1. Active(s)
      BY <1>2, <2>2 DEF Cancel, TasksAfterCancel, Active
    <3>2. CASE s \in orphaned
      BY <1>2, <3>2 DEF Cancel
    <3>3. CASE inFlight[s[1]] = s[2]
      <4>1. s[1] # k
        BY <1>2, <2>2, <3>3 DEF Cancel, TasksAfterCancel, Active
      <4> QED BY <1>2, <3>3, <4>1 DEF Cancel
    <3> QED BY <1>u, <3>1, <3>2, <3>3 DEF Tracked
  <2>3. ActiveIsTracked'
    BY <1>t, <2>2 DEF Tracked
  <2> QED BY <1>2, <2>1, <2>3 DEF SlotInv, Cancel
<1>3. ASSUME NEW r \in Review, Fire(r) PROVE SlotInv'
  <2>1. pending[r[1]] = r[2] /\ r[2] = calls[r[1]] /\ inFlight[r[1]] = None
    BY <1>0, <1>3 DEF Fire, TimerTracked, SlotInv
  <2>2. ASSUME NEW s \in Review, Active(s)' PROVE (inFlight[s[1]] = s[2] \/ s \in orphaned)'
    <3>1. CASE s = r
      BY <1>3, <3>1 DEF Fire
    <3>2. CASE s # r
      <4>1. Active(s)
        BY <1>3, <2>2, <3>2 DEF Fire, Active
      <4>2. CASE s \in orphaned
        BY <1>3, <4>2 DEF Fire, history
      <4>3. CASE inFlight[s[1]] = s[2]
        <5>1. s[1] # r[1]
          BY <1>0, <2>1, <4>3
        <5> QED BY <1>3, <4>3, <5>1 DEF Fire
      <4> QED BY <1>u, <4>1, <4>2, <4>3 DEF Tracked
    <3> QED BY <3>1, <3>2
  <2>3. ActiveIsTracked'
    BY <1>t, <2>2 DEF Tracked
  <2>4. \A s \in cancelling : s[1] # r[1]
    BY <1>3 DEF Fire
  <2> QED BY <1>3, <2>1, <2>3, <2>4 DEF SlotInv, Fire, history
<1>4. ASSUME NEW r \in Review, Begin(r) PROVE SlotInv'
  <2>1. ASSUME NEW s \in Review, Active(s)' PROVE (inFlight[s[1]] = s[2] \/ s \in orphaned)'
    <3>1. Active(s)
      BY <1>4, <2>1 DEF Begin, FirstStep, Active
    <3> QED BY <1>4, <1>u, <3>1 DEF Begin, Tracked, history
  <2>2. ActiveIsTracked'
    BY <1>t, <2>1 DEF Tracked
  <2> QED BY <1>4, <2>2 DEF SlotInv, Begin, history
<1>5. ASSUME NEW r \in Review, LeaveRun(r), UNCHANGED <<calls, pending>>,
             cancelling' \in {cancelling, cancelling \ {r}}
      PROVE  SlotInv'
  <2>1. ASSUME NEW s \in Review, Active(s)' PROVE (inFlight[s[1]] = s[2] \/ s \in orphaned)'
    <3>1. s # r /\ Active(s)
      BY <1>5, <2>1 DEF LeaveRun, Active
    <3>2. CASE s \in orphaned
      BY <1>5, <3>2 DEF LeaveRun
    <3>3. CASE inFlight[s[1]] = s[2] /\ s[1] = r[1]
      <4>1. s = <<r[1], inFlight[r[1]]>>
        BY <3>3
      <4> QED BY <1>5, <3>1, <4>1 DEF LeaveRun
    <3>4. CASE inFlight[s[1]] = s[2] /\ s[1] # r[1]
      BY <1>5, <3>4 DEF LeaveRun
    <3> QED BY <1>u, <3>1, <3>2, <3>3, <3>4 DEF Tracked
  <2>2. ActiveIsTracked'
    BY <1>t, <2>1 DEF Tracked
  <2> QED BY <1>5, <2>2 DEF SlotInv, LeaveRun
<1>6. ASSUME NEW r \in Review, DeliverCancel(r) PROVE SlotInv'
  <2>1. CASE LeaveRun(r)
    BY <1>5, <1>6, <2>1 DEF DeliverCancel
  <2>2. CASE task' = [task EXCEPT ![r] = "unwinding"] /\ UNCHANGED <<inFlight, orphaned>>
    <3>1. ASSUME NEW s \in Review, Active(s)' PROVE (inFlight[s[1]] = s[2] \/ s \in orphaned)'
      <4>1. Active(s)
        BY <1>6, <2>2, <3>1 DEF DeliverCancel, Active
      <4> QED BY <1>u, <2>2, <4>1 DEF Tracked
    <3>2. ActiveIsTracked'
      BY <1>t, <3>1 DEF Tracked
    <3> QED BY <1>6, <2>2, <3>2 DEF SlotInv, DeliverCancel
  <2> QED BY <1>6, <2>1, <2>2 DEF DeliverCancel
<1>7. ASSUME NEW r \in Review, Return(r) PROVE SlotInv'
  BY <1>5, <1>7 DEF Return
<1>8. CASE Tick
  BY <1>8 DEF Tick, SlotInv, ActiveIsTracked, Active
<1>9. CASE UNCHANGED vars
  BY <1>9 DEF vars, history, SlotInv, ActiveIsTracked, Active
<1> QED
  BY <1>1, <1>2, <1>3, <1>4, <1>6, <1>7, <1>8, <1>9 DEF Next, LoopStep

LEMMA SlotInvHolds == Spec => []SlotInv
<1>1. Init => SlotInv
  BY DEF Init, SlotInv, ActiveIsTracked, Active, None
<1> QED BY <1>1, SlotInvStep, DebounceTypeCorrect, TimersAreTracked, PTL DEF Spec

\* The slot of _in_flight names every active review, so that the next event
\* can supersede it, unless another task's finally clause has emptied it.
THEOREM ActiveReviewsTracked == Spec => []ActiveIsTracked
<1>1. SlotInv => ActiveIsTracked
  BY DEF SlotInv
<1> QED BY <1>1, SlotInvHolds, PTL

\* The coroutine that starts is the one of the last schedule() call, with the
\* same exception.
THEOREM NeverStartsStale == Spec => NoStaleStart
<1>1. TypeOK /\ SlotInv /\ [Next]_vars =>
        [\A r \in Review \ orphaned :
           task[r] = "created" /\ task'[r] = "running" => r[2] = calls[r[1]]]_vars
  <2> SUFFICES ASSUME TypeOK, SlotInv, [Next]_vars, NEW r \in Review \ orphaned,
                      task[r] = "created", task'[r] = "running"
               PROVE  r[2] = calls[r[1]]
    OBVIOUS
  <2>1. Begin(r)
    BY ReviewParts DEF TypeOK, Next, LoopStep, Schedule, Cancel, Fire, Begin, FirstStep,
                       DeliverCancel, Return, LeaveRun, Tick, vars
  <2>2. Active(r)
    BY <2>1 DEF Begin, FirstStep, Active, TypeOK
  <2>3. inFlight[r[1]] = r[2] /\ r[2] # None
    BY <2>2, ReviewParts DEF SlotInv, ActiveIsTracked, None, Versions
  <2> QED BY <2>3, ReviewParts DEF SlotInv
<1> QED BY <1>1, SlotInvHolds, DebounceTypeCorrect, PTL DEF Spec, NoStaleStart

-----------------------------------------------------------------------------
\* A slot is lost only to a task that unwinds late: while no review does, a
\* finally clause finds its own slot, or an empty one.
NoOrphans == orphaned = {} /\ \A r \in Review : task[r] # "unwinding"

LEMMA NoOrphansStep ==
    ASSUME ~SlowCleanup
    PROVE  TypeOK /\ SlotInv /\ NoOrphans /\ [Next]_vars => NoOrphans'
<1> SUFFICES ASSUME TypeOK, SlotInv, NoOrphans, [Next]_vars PROVE NoOrphans'
  OBVIOUS
<1> USE ReviewParts DEF TypeOK, NoOrphans
<1>0. \A r \in Review : r[2] # None
  BY DEF None, Versions
<1>1. ASSUME NEW r \in Review, LeaveRun(r), inFlight[r[1]] \in {None, r[2]} PROVE NoOrphans'
  <2>1. \A s \in Review \ {r} : s # <<r[1], inFlight[r[1]]>>
    BY <1>0, <1>1
  <2> QED BY <1>1, <2>1 DEF LeaveRun
<1>2. ASSUME NEW r \in Review, DeliverCancel(r) PROVE NoOrphans'
  BY <1>1, <1>2 DEF DeliverCancel, SlotInv
<1>3. ASSUME NEW r \in Review, Return(r) PROVE NoOrphans'
  BY <1>1, <1>3 DEF Return, SlotInv, ActiveIsTracked, Active
<1>4. ASSUME NEW k \in PRs, Schedule(k) \/ Cancel(k) PROVE NoOrphans'
  BY <1>4 DEF Schedule, Cancel
<1>5. ASSUME NEW r \in Review, Fire(r) \/ Begin(r) PROVE NoOrphans'
  BY <1>5 DEF Fire, Begin, FirstStep, history
<1>6. CASE Tick \/ UNCHANGED vars
  BY <1>6 DEF Tick, vars, history
<1> QED BY <1>2, <1>3, <1>4, <1>5, <1>6 DEF Next, LoopStep

\* A new event supersedes the old review: if cancelled reviews unwind without
\* awaiting, no pull request has two reviews that are both started and not
\* cancelled.  With SlowCleanup this is false.
THEOREM AtMostOneActive == ASSUME ~SlowCleanup PROVE Spec => []OneActiveReview
<1>1. Init => NoOrphans
  BY DEF Init, NoOrphans
<1>2. TypeOK /\ SlotInv /\ NoOrphans /\ [Next]_vars => NoOrphans'
  BY NoOrphansStep
<1>3. SlotInv /\ NoOrphans => OneActiveReview
  BY ReviewParts DEF SlotInv, NoOrphans, ActiveIsTracked, OneActiveReview
<1> QED BY <1>1, <1>2, <1>3, SlotInvHolds, DebounceTypeCorrect, PTL DEF Spec

-----------------------------------------------------------------------------
\* SHA guard.

\* The sha of an entry was the head at most Timeout before it was stored.
Recent(e) == \E t \in 0 .. e.at : e.at - t <= Timeout /\ e.sha \in headsAt[t]

\* An entry, in the cache or in a call's hands, speaks of one version: while that
\* version stands, its sha is the head.
Tells(sha, v) == v <= version /\ (v = version => sha = head)

EntryOK(e) == Guard!Known(e) => e.at <= now /\ Recent(e) /\ Tells(e.sha, e.etag)

\* The sha was the head at some time since the call sent its request.
Witnessed(c, sha) ==
    sha \in saw[c] /\ \E t \in sentAt[c] .. now : sha \in headsAt[t]

CallOK(c) ==
    /\ pc[c] # "over" => answer[c] = "none"
    /\ pc[c] \in {"sent", "served", "asleep"} => head \in saw[c]
    /\ pc[c] \in {"sent", "served"} => sentAt[c] <= now /\ now - sentAt[c] <= Timeout
    /\ pc[c] = "asleep" => tries[c] < Attempts
    /\ EntryOK(stale[c])
    /\ pc[c] = "served" /\ reply[c].code = "ok" =>
          Witnessed(c, reply[c].sha) /\ Tells(reply[c].sha, reply[c].etag)
    /\ pc[c] = "served" /\ reply[c].code = "unmodified" =>
          Guard!Known(stale[c]) /\ Witnessed(c, stale[c].sha)

Inv ==
    /\ Guard!TypeOK
    /\ head \in headsAt[now]
    /\ EntryOK(cache)
    /\ \A c \in Checks : CallOK(c)
    /\ Guard!AnswersTruthful

-----------------------------------------------------------------------------
\* The shapes of replies and entries.
LEMMA ReplyShapes ==
    /\ \A r \in Guard!Reply : r.code = "ok" => r.sha \in Shas /\ r.etag \in 1 .. MaxVersion
    /\ \A sha \in Shas, v \in 1 .. MaxVersion :
          Guard!Ok(sha, v) \in Guard!Reply /\ Guard!Ok(sha, v).code = "ok"
            /\ Guard!Ok(sha, v).sha = sha /\ Guard!Ok(sha, v).etag = v
    /\ \A code \in {"none", "unmodified", "refused", "down"} :
          Guard!Bare(code) \in Guard!Reply /\ Guard!Bare(code).code = code
BY DEF Guard!Reply, Guard!BareReply, Guard!Ok, Guard!Bare

LEMMA EntryShapes ==
    /\ ~Guard!Known(Guard!NoEntry) /\ Guard!NoEntry.etag = Guard!NoEtag
    /\ \A e \in Guard!Entry : Guard!Known(e) /\ e.sha \in Shas /\ e.at \in Nat /\ e.etag \in Nat \ {0}
    /\ \A e \in Guard!Entry \cup {Guard!NoEntry} : Guard!Known(e) => e \in Guard!Entry
BY DEF Guard!Entry, Guard!NoEntry, Guard!Known, Guard!NoEtag

\* What the clock and the pull request may do.
WorldMoves ==
    /\ now <= now' /\ now' \in 0 .. MaxTime
    /\ \A t \in 0 .. now : headsAt[t] \subseteq headsAt'[t]
    /\ \/ version' = version /\ head' = head
       \/ version' = version + 1

\* An entry that stays where it is stays true.
LEMMA EntryKept ==
    ASSUME Guard!TypeOK, WorldMoves, NEW e \in Guard!Entry \cup {Guard!NoEntry}, EntryOK(e)
    PROVE  EntryOK(e)'
<1> SUFFICES ASSUME Guard!Known(e)
             PROVE  e.at <= now' /\ Recent(e)' /\ Tells(e.sha, e.etag)'
  BY DEF EntryOK, Guard!Known
<1>1. e.at \in Nat /\ e.etag \in Nat /\ now \in Nat /\ now' \in Nat /\ version \in Nat
  BY EntryShapes DEF Guard!TypeOK, WorldMoves
<1>2. e.at <= now /\ Recent(e) /\ Tells(e.sha, e.etag)
  BY DEF EntryOK
<1>3. Recent(e)'
  BY <1>1, <1>2 DEF Recent, WorldMoves
<1>4. Tells(e.sha, e.etag)'
  BY <1>1, <1>2 DEF Tells, WorldMoves
<1> QED BY <1>1, <1>2, <1>3, <1>4 DEF WorldMoves

\* A call that does not move keeps its invariant; while it is under way it sees
\* every head there is.
LEMMA Bystander ==
    ASSUME Guard!TypeOK, WorldMoves, NEW c \in Checks, CallOK(c),
           pc'[c] = pc[c], tries'[c] = tries[c], stale'[c] = stale[c], reply'[c] = reply[c],
           sentAt'[c] = sentAt[c], answer'[c] = answer[c],
           saw[c] \subseteq saw'[c],
           pc[c] \in {"sent", "served", "asleep"} => head' \in saw'[c],
           pc[c] \in {"sent", "served"} => now' - sentAt[c] <= Timeout
    PROVE  CallOK(c)'
<1>1. EntryOK(stale[c])'
  <2>1. stale[c] \in Guard!Entry \cup {Guard!NoEntry} /\ EntryOK(stale[c])
    BY DEF Guard!TypeOK, CallOK
  <2> QED BY <2>1, EntryKept
<1>2. \A sha : Witnessed(c, sha) => Witnessed(c, sha)'
  <2> SUFFICES ASSUME NEW sha, Witnessed(c, sha) PROVE Witnessed(c, sha)'
    OBVIOUS
  <2>1. PICK t \in sentAt[c] .. now : sha \in headsAt[t]
    BY DEF Witnessed
  <2>2. sentAt[c] \in Nat /\ now \in Nat /\ now' \in Nat
    BY DEF Guard!TypeOK, WorldMoves
  <2>3. t \in 0 .. now /\ t \in sentAt[c] .. now'
    BY <2>1, <2>2 DEF WorldMoves
  <2> QED BY <2>1, <2>3 DEF Witnessed, WorldMoves
<1>3. ASSUME pc[c] = "served", reply[c].code = "ok"
      PROVE  Witnessed(c, reply[c].sha)' /\ Tells(reply[c].sha, reply[c].etag)'
  <2>1. Witnessed(c, reply[c].sha) /\ Tells(reply[c].sha, reply[c].etag)
    BY <1>3 DEF CallOK
  <2>2. reply[c].etag \in Nat /\ version \in Nat
    BY <1>3, ReplyShapes DEF Guard!TypeOK
  <2>3. Tells(reply[c].sha, reply[c].etag)'
    BY <2>1, <2>2 DEF Tells, WorldMoves
  <2> QED BY <1>2, <2>1, <2>3
<1>4. ASSUME pc[c] = "served", reply[c].code = "unmodified"
      PROVE  Guard!Known(stale[c])' /\ Witnessed(c, stale[c].sha)'
  BY <1>2, <1>4 DEF CallOK, Guard!Known
<1>5. pc[c] \in {"sent", "served"} => sentAt[c] <= now'
  BY DEF CallOK, Guard!TypeOK, WorldMoves
<1> QED BY <1>1, <1>3, <1>4, <1>5 DEF CallOK

\* The world stands still.
LEMMA WorldStays == Guard!TypeOK /\ UNCHANGED Guard!world => WorldMoves
BY DEF Guard!TypeOK, WorldMoves, Guard!world

\* One call moves: what is left to show of a step of call c.
LEMMA Together ==
    ASSUME Inv, NEW c \in Checks, UNCHANGED Guard!world,
           \A d \in Checks \ {c} :
              /\ pc'[d] = pc[d] /\ tries'[d] = tries[d] /\ stale'[d] = stale[d]
              /\ reply'[d] = reply[d] /\ sentAt'[d] = sentAt[d] /\ answer'[d] = answer[d]
              /\ saw'[d] = saw[d],
           Guard!TypeOK', EntryOK(cache)', CallOK(c)',
           answer'[c] = "current" => Expected[c] \in saw'[c],
           answer'[c] = "stale" => saw'[c] # {Expected[c]}
    PROVE  Inv'
<1>1. ASSUME NEW d \in Checks \ {c} PROVE CallOK(d)'
  <2>1. CallOK(d) /\ Guard!TypeOK /\ WorldMoves /\ now' = now /\ head' = head
    BY WorldStays DEF Inv, Guard!world
  <2>2. /\ pc[d] \in {"sent", "served", "asleep"} => head' \in saw'[d]
        /\ pc[d] \in {"sent", "served"} => now' - sentAt[d] <= Timeout
    BY <1>1, <2>1 DEF CallOK
  <2> QED BY <1>1, <2>1, <2>2, Bystander
<1>2. Guard!AnswersTruthful'
  BY DEF Inv, Guard!AnswersTruthful
<1> QED BY <1>1, <1>2 DEF Inv, Guard!world

\* What a call knows when it returns: the sha that it compares was the head at
\* some time that its answer may speak of.
LEMMA CompareTells ==
    ASSUME NEW c \in Checks, NEW sha, NEW seen, sha \in seen
    PROVE  /\ Guard!Compare(c, sha) \in {"current", "stale"}
           /\ Guard!Compare(c, sha) = "current" => Expected[c] \in seen
           /\ Guard!Compare(c, sha) = "stale" => seen # {Expected[c]}
BY DEF Guard!Compare

\* An entry served within its TTL was the head within the window.
LEMMA FreshIsSeen ==
    ASSUME Guard!ShaGuardAssumption, Guard!TypeOK, NEW c \in Checks, EntryOK(Guard!CacheAtStart(c)),
           Guard!Fresh(Guard!CacheAtStart(c))
    PROVE  Guard!CacheAtStart(c).sha \in UNION {headsAt[t] : t \in Guard!Window(c)}
<1> DEFINE e == Guard!CacheAtStart(c)
<1>1. c \notin Exits /\ e = cache /\ Guard!Known(cache)
  BY EntryShapes DEF Guard!CacheAtStart, Guard!Fresh
<1>2. cache.at \in Nat /\ cache.at <= now /\ now - cache.at < TTL /\ now \in Nat
  BY <1>1, EntryShapes DEF Guard!TypeOK, EntryOK, Guard!Fresh
<1>3. PICK t \in 0 .. cache.at : cache.at - t <= Timeout /\ cache.sha \in headsAt[t]
  BY <1>1 DEF EntryOK, Recent
<1>4. TTL \in Nat /\ Timeout \in Nat
  BY DEF Guard!ShaGuardAssumption
<1>5. t \in 0 .. now /\ now - t < TTL + Timeout
  BY <1>2, <1>3, <1>4
<1>6. t \in Guard!Window(c)
  BY <1>1, <1>5 DEF Guard!Window
<1> QED BY <1>1, <1>3, <1>6

LEMMA StartStep ==
    ASSUME Guard!ShaGuardAssumption, Inv, NEW c \in Checks, Guard!Start(c)
    PROVE  Inv'
<1> USE DEF Inv
<1> DEFINE e == Guard!CacheAtStart(c)
           seen == {head} \cup UNION {headsAt[t] : t \in Guard!Window(c)}
<1>1. /\ pc[c] = "new" /\ answer[c] = "none" /\ cache' = e /\ UNCHANGED <<reply, Guard!world>>
      /\ saw' = [saw EXCEPT ![c] = seen]
  BY DEF Guard!Start, CallOK
<1>2. e \in Guard!Entry \cup {Guard!NoEntry} /\ EntryOK(e)
  BY EntryShapes DEF Guard!CacheAtStart, Guard!TypeOK, EntryOK
<1>3. seen \subseteq Shas
  <2>1. \A t \in Guard!Window(c) : t \in 0 .. MaxTime
    BY DEF Guard!TypeOK, Guard!Window, Guard!ShaGuardAssumption
  <2> QED BY <2>1 DEF Guard!TypeOK
<1>4. saw' \in [Checks -> SUBSET Shas] /\ saw'[c] = seen /\ WorldMoves
  BY <1>1, <1>3, WorldStays DEF Guard!TypeOK
<1>5. EntryOK(cache)'
  BY <1>1, <1>2, <1>4, EntryKept
<1>6. CASE Guard!Fresh(e) /\ Guard!Return(c, Guard!Compare(c, e.sha)) /\ UNCHANGED <<tries, stale, sentAt>>
  <2>1. e.sha \in seen
    BY <1>2, <1>6, FreshIsSeen
  <2>2. /\ pc' = [pc EXCEPT ![c] = "over"]
        /\ answer' = [answer EXCEPT ![c] = Guard!Compare(c, e.sha)]
        /\ Guard!Compare(c, e.sha) \in {"current", "stale"}
    BY <1>6, <2>1, CompareTells DEF Guard!Return
  <2>3. Guard!TypeOK'
    BY <1>1, <1>2, <1>4, <1>6, <2>2 DEF Guard!TypeOK, Guard!world
  <2>4. /\ answer'[c] = "current" => Expected[c] \in saw'[c]
        /\ answer'[c] = "stale" => saw'[c] # {Expected[c]}
    <3>1. answer'[c] = Guard!Compare(c, e.sha)
      BY <2>2 DEF Guard!TypeOK
    <3> QED BY <1>4, <2>1, <3>1, CompareTells
  <2>5. pc'[c] = "over" /\ EntryOK(stale[c])'
    <3>1. stale[c] \in Guard!Entry \cup {Guard!NoEntry} /\ EntryOK(stale[c]) /\ stale' = stale
      BY <1>6 DEF Guard!TypeOK, CallOK
    <3> QED BY <1>4, <2>2, <3>1, EntryKept DEF Guard!TypeOK
  <2>6. CallOK(c)'
    BY <2>5 DEF CallOK
  <2>7. \A d \in Checks \ {c} : pc'[d] = pc[d] /\ answer'[d] = answer[d] /\ saw'[d] = saw[d]
    BY <1>1, <2>2 DEF Guard!TypeOK
  <2> QED BY <1>1, <1>5, <1>6, <2>3, <2>4, <2>6, <2>7, Together
<1>7. CASE /\ pc' = [pc EXCEPT ![c] = "sent"] /\ stale' = [stale EXCEPT ![c] = e]
           /\ tries' = [tries EXCEPT ![c] = 1] /\ sentAt' = [sentAt EXCEPT ![c] = now]
           /\ answer' = answer
  <2>1. 1 \in 0 .. Attempts /\ Timeout \in Nat
    BY DEF Guard!ShaGuardAssumption
  <2>2. Guard!TypeOK'
    BY <1>1, <1>2, <1>4, <1>7, <2>1 DEF Guard!TypeOK, Guard!world
  <2>3. /\ pc'[c] = "sent" /\ sentAt'[c] = now /\ stale'[c] = e /\ now' = now /\ head' = head
        /\ answer'[c] = "none"
    BY <1>1, <1>7 DEF Guard!TypeOK, Guard!world
  <2>4. EntryOK(stale[c])'
    BY <1>2, <1>4, <2>3, EntryKept
  <2>5. CallOK(c)'
    BY <1>4, <2>1, <2>3, <2>4 DEF CallOK, Guard!TypeOK
  <2>6. \A d \in Checks \ {c} :
           /\ pc'[d] = pc[d] /\ tries'[d] = tries[d] /\ stale'[d] = stale[d]
           /\ sentAt'[d] = sentAt[d] /\ saw'[d] = saw[d]
    BY <1>1, <1>7 DEF Guard!TypeOK
  <2> QED BY <1>1, <1>5, <1>7, <2>2, <2>3, <2>5, <2>6, Together
<1> QED BY <1>6, <1>7 DEF Guard!Start

LEMMA ServeStep ==
    ASSUME Guard!ShaGuardAssumption, Inv, NEW c \in Checks, Guard!Serve(c)
    PROVE  Inv'
<1> USE DEF Inv
<1>1. /\ pc[c] = "sent" /\ pc' = [pc EXCEPT ![c] = "served"]
      /\ UNCHANGED <<tries, stale, sentAt, answer, cache, Guard!world, saw>>
  BY DEF Guard!Serve
<1>2. PICK r \in Guard!Reply :
        /\ reply' = [reply EXCEPT ![c] = r]
        /\ \/ r = IF stale[c].etag = version THEN Guard!Bare("unmodified") ELSE Guard!Ok(head, version)
           \/ Faulty /\ r.code \in {"refused", "down"}
  BY DEF Guard!Serve
<1>3. /\ pc'[c] = "served" /\ reply'[c] = r /\ Guard!TypeOK'
      /\ \A d \in Checks \ {c} : pc'[d] = pc[d] /\ reply'[d] = reply[d]
  BY <1>1, <1>2 DEF Guard!TypeOK, Guard!world
<1>4. WorldMoves /\ EntryOK(cache)' /\ EntryOK(stale[c])'
  <2>1. WorldMoves /\ stale[c] \in Guard!Entry \cup {Guard!NoEntry} /\ EntryOK(stale[c]) /\ stale' = stale
    BY <1>1, WorldStays DEF Guard!TypeOK, CallOK
  <2>2. EntryOK(cache)'
    BY <1>1, <2>1, EntryKept DEF Guard!TypeOK
  <2> QED BY <2>1, <2>2, EntryKept
<1>5. Witnessed(c, head)
  BY <1>1 DEF Witnessed, CallOK, Guard!TypeOK
<1>6. r.code = "ok" => r.sha = head /\ r.etag = version
  BY <1>2, ReplyShapes DEF Guard!TypeOK
<1>7. r.code = "unmodified" => stale[c].etag = version
  BY <1>2, ReplyShapes DEF Guard!TypeOK
<1>8. r.code = "unmodified" => Guard!Known(stale[c]) /\ stale[c].sha = head
  <2>1. stale[c].etag = version => stale[c] # Guard!NoEntry
    BY EntryShapes DEF Guard!TypeOK, Guard!NoEtag
  <2> QED BY <1>7, <2>1 DEF CallOK, EntryOK, Tells, Guard!Known
<1>9. \A sha : Witnessed(c, sha) => Witnessed(c, sha)'
  BY <1>1 DEF Witnessed, Guard!world
<1>10. r.code = "ok" => Tells(r.sha, r.etag)'
  BY <1>1, <1>6 DEF Tells, Guard!world, Guard!TypeOK
<1>11. CallOK(c)'
  BY <1>1, <1>3, <1>4, <1>5, <1>6, <1>8, <1>9, <1>10 DEF CallOK, Guard!Known, Guard!world
<1> QED BY <1>1, <1>3, <1>4, <1>11, Together DEF Guard!AnswersTruthful

\* The entry a call stores was the head when GitHub served it, at most Timeout
\* ago, whatever other calls have stored meanwhile.
LEMMA StoredIsOK ==
    ASSUME Guard!ShaGuardAssumption, Inv, NEW c \in Checks, pc[c] = "served",
           NEW e \in Guard!Entry, e.at = now, Witnessed(c, e.sha), Tells(e.sha, e.etag)
    PROVE  EntryOK(e)
<1>1. PICK t \in sentAt[c] .. now : e.sha \in headsAt[t]
  BY DEF Witnessed
<1>2. /\ sentAt[c] \in Nat /\ now \in Nat /\ Timeout \in Nat
      /\ now - sentAt[c] <= Timeout
  BY DEF Inv, Guard!TypeOK, CallOK, Guard!ShaGuardAssumption
<1>3. t \in 0 .. e.at /\ e.at - t <= Timeout
  BY <1>1, <1>2
<1> QED BY <1>1, <1>2, <1>3 DEF EntryOK, Recent

LEMMA ReceiveStep ==
    ASSUME Guard!ShaGuardAssumption, Inv, NEW c \in Checks, Guard!Receive(c)
    PROVE  Inv'
<1> USE DEF Inv
<1>1. /\ pc[c] = "served" /\ answer[c] = "none"
      /\ UNCHANGED <<tries, stale, sentAt, Guard!world, saw>>
      /\ reply' = [reply EXCEPT ![c] = Guard!Bare("none")]
  BY DEF Guard!Receive, CallOK
<1>2. WorldMoves /\ EntryOK(stale[c])'
  <2>1. WorldMoves /\ stale[c] \in Guard!Entry \cup {Guard!NoEntry} /\ EntryOK(stale[c]) /\ stale' = stale
    BY <1>1, WorldStays DEF Guard!TypeOK, CallOK
  <2> QED BY <2>1, EntryKept
<1>3. /\ reply' \in [Checks -> Guard!Reply] /\ reply'[c].code = "none"
      /\ \A d \in Checks \ {c} : reply'[d] = reply[d]
  BY <1>1, ReplyShapes DEF Guard!TypeOK
\* The call returns what it made of a sha it was told of, and stores an entry.
<1>4. ASSUME NEW e \in Guard!Entry, e.at = now, Witnessed(c, e.sha), Tells(e.sha, e.etag),
             cache' = e, Guard!Return(c, Guard!Compare(c, e.sha))
      PROVE  Inv'
  <2>1. EntryOK(e)
    BY <1>1, <1>4, StoredIsOK
  <2>2. EntryOK(cache)'
    BY <1>2, <1>4, <2>1, EntryKept
  <2>3. e.sha \in saw[c]
    BY <1>4 DEF Witnessed
  <2>4. /\ pc' = [pc EXCEPT ![c] = "over"]
        /\ answer' = [answer EXCEPT ![c] = Guard!Compare(c, e.sha)]
        /\ Guard!Compare(c, e.sha) \in {"current", "stale"}
    BY <1>4, <2>3, CompareTells DEF Guard!Return
  <2>5. Guard!TypeOK'
    BY <1>1, <1>3, <1>4, <2>4 DEF Guard!TypeOK, Guard!world
  <2>6. /\ pc'[c] = "over" /\ answer'[c] = Guard!Compare(c, e.sha)
        /\ \A d \in Checks \ {c} : pc'[d] = pc[d] /\ answer'[d] = answer[d]
    BY <2>4 DEF Guard!TypeOK
  <2>7. /\ answer'[c] = "current" => Expected[c] \in saw'[c]
        /\ answer'[c] = "stale" => saw'[c] # {Expected[c]}
    BY <1>1, <2>3, <2>6, CompareTells
  <2>8. CallOK(c)'
    BY <1>2, <2>6 DEF CallOK
  <2> QED BY <1>1, <1>3, <2>2, <2>5, <2>6, <2>7, <2>8, Together
<1>5. CASE reply[c].code = "ok" /\ cache' = Guard!Stored(c) /\ Guard!Return(c, Guard!Compare(c, reply[c].sha))
  <2>1. reply[c].sha \in Shas /\ reply[c].etag \in 1 .. MaxVersion /\ now \in 0 .. MaxTime
    BY <1>5, ReplyShapes DEF Guard!TypeOK
  <2>2. /\ Guard!Stored(c) \in Guard!Entry /\ Guard!Stored(c).sha = reply[c].sha
        /\ Guard!Stored(c).at = now /\ Guard!Stored(c).etag = reply[c].etag
    BY <2>1 DEF Guard!Stored, Guard!Entry
  <2>3. Witnessed(c, reply[c].sha) /\ Tells(reply[c].sha, reply[c].etag)
    BY <1>1, <1>5 DEF CallOK
  <2> QED BY <1>4, <1>5, <2>2, <2>3
<1>6. CASE reply[c].code = "unmodified" /\ cache' = Guard!Renewed(c) /\ Guard!Return(c, Guard!Compare(c, stale[c].sha))
  <2>1. Guard!Known(stale[c]) /\ Witnessed(c, stale[c].sha)
    BY <1>1, <1>6 DEF CallOK
  <2>2. stale[c] \in Guard!Entry /\ Tells(stale[c].sha, stale[c].etag) /\ now \in 0 .. MaxTime
    BY <2>1, EntryShapes DEF Guard!TypeOK, CallOK, EntryOK
  <2>3. /\ Guard!Renewed(c) \in Guard!Entry /\ Guard!Renewed(c).sha = stale[c].sha
        /\ Guard!Renewed(c).at = now /\ Guard!Renewed(c).etag = stale[c].etag
    BY <2>2 DEF Guard!Renewed, Guard!Entry
  <2> QED BY <1>4, <1>6, <2>1, <2>2, <2>3
<1>7. EntryOK(cache) /\ cache' = cache => EntryOK(cache)'
  BY <1>2, EntryKept DEF Guard!TypeOK
<1>8. CASE Guard!Return(c, "api_error") /\ cache' = cache
  <2>1. Guard!TypeOK'
    BY <1>1, <1>3, <1>8 DEF Guard!TypeOK, Guard!world, Guard!Return
  <2>2. /\ pc'[c] = "over" /\ answer'[c] = "api_error"
        /\ \A d \in Checks \ {c} : pc'[d] = pc[d] /\ answer'[d] = answer[d]
    BY <1>8 DEF Guard!TypeOK, Guard!Return
  <2>3. CallOK(c)'
    BY <1>2, <2>2 DEF CallOK
  <2> QED BY <1>1, <1>3, <1>7, <1>8, <2>1, <2>2, <2>3, Together
<1>9. CASE /\ Guard!MayRetry(tries[c]) /\ pc' = [pc EXCEPT ![c] = "asleep"]
           /\ UNCHANGED <<answer, cache>>
  <2>1. Guard!TypeOK'
    BY <1>1, <1>3, <1>9 DEF Guard!TypeOK, Guard!world
  <2>2. pc'[c] = "asleep" /\ \A d \in Checks \ {c} : pc'[d] = pc[d]
    BY <1>9 DEF Guard!TypeOK
  <2>3. CallOK(c)'
    BY <1>1, <1>2, <1>9, <2>2 DEF CallOK, Guard!MayRetry, Guard!world
  <2> QED BY <1>1, <1>3, <1>7, <1>9, <2>1, <2>2, <2>3, Together
<1> QED BY <1>5, <1>6, <1>8, <1>9 DEF Guard!Receive

LEMMA RetryStep ==
    ASSUME Guard!ShaGuardAssumption, Inv, NEW c \in Checks, Guard!Retry(c)
    PROVE  Inv'
<1> USE DEF Inv
<1>1. /\ pc[c] = "asleep" /\ answer[c] = "none" /\ tries[c] < Attempts
      /\ pc' = [pc EXCEPT ![c] = "sent"] /\ tries' = [tries EXCEPT ![c] = tries[c] + 1]
      /\ sentAt' = [sentAt EXCEPT ![c] = now]
      /\ UNCHANGED <<stale, reply, answer, cache, Guard!world, saw>>
  BY DEF Guard!Retry, Guard!NextTry, CallOK
<1>2. /\ WorldMoves /\ EntryOK(cache)' /\ EntryOK(stale[c])'
  <2>1. WorldMoves /\ stale[c] \in Guard!Entry \cup {Guard!NoEntry} /\ EntryOK(stale[c])
    BY <1>1, WorldStays DEF Guard!TypeOK, CallOK
  <2> QED BY <1>1, <2>1, EntryKept DEF Guard!TypeOK
<1>3. tries[c] + 1 \in 0 .. Attempts
  BY <1>1 DEF Guard!TypeOK, Guard!ShaGuardAssumption
<1>4. Guard!TypeOK'
  BY <1>1, <1>3 DEF Guard!TypeOK, Guard!world
<1>5. /\ pc'[c] = "sent" /\ sentAt'[c] = now
      /\ \A d \in Checks \ {c} : pc'[d] = pc[d] /\ tries'[d] = tries[d] /\ sentAt'[d] = sentAt[d]
  BY <1>1 DEF Guard!TypeOK
<1>6. CallOK(c)'
  BY <1>1, <1>2, <1>5 DEF CallOK, Guard!TypeOK, Guard!world, Guard!ShaGuardAssumption
<1> QED BY <1>1, <1>2, <1>4, <1>5, <1>6, Together

LEMMA ChangeStep == ASSUME Guard!ShaGuardAssumption, Inv, Guard!Change PROVE Inv'
<1> USE DEF Inv
<1>1. /\ version' = version + 1 /\ version < MaxVersion /\ head' \in Shas
      /\ headsAt' = [headsAt EXCEPT ![now] = @ \cup {head'}]
      /\ saw' = [c \in Checks |->
                   IF pc[c] \in {"new", "over"} THEN saw[c] ELSE saw[c] \cup {head'}]
      /\ UNCHANGED <<Guard!call, cache, now>>
  BY DEF Guard!Change
<1>2. Guard!TypeOK'
  <2>1. saw' \in [Checks -> SUBSET Shas]
    BY <1>1 DEF Guard!TypeOK
  <2>2. headsAt' \in [0 .. MaxTime -> SUBSET Shas]
    BY <1>1 DEF Guard!TypeOK
  <2>3. version' \in 1 .. MaxVersion
    BY <1>1 DEF Guard!TypeOK, Guard!ShaGuardAssumption
  <2> QED BY <1>1, <2>1, <2>2, <2>3 DEF Guard!TypeOK, Guard!call
<1>3. WorldMoves /\ head' \in headsAt'[now']
  BY <1>1 DEF WorldMoves, Guard!TypeOK
<1>4. ASSUME NEW c \in Checks PROVE CallOK(c)'
  <2>1. /\ saw[c] \subseteq saw'[c]
        /\ pc[c] \in {"sent", "served", "asleep"} => head' \in saw'[c]
        /\ pc[c] \in {"sent", "served"} => now' - sentAt[c] <= Timeout
    BY <1>1 DEF CallOK
  <2> QED BY <1>1, <1>3, <2>1, Bystander DEF Guard!call
<1>5. EntryOK(cache)'
  BY <1>1, <1>3, EntryKept DEF Guard!TypeOK
<1>6. Guard!AnswersTruthful'
  <2>1. \A c \in Checks : answer[c] # "none" => saw'[c] = saw[c]
    BY <1>1 DEF CallOK
  <2> QED BY <1>1, <2>1 DEF Guard!AnswersTruthful, Guard!call
<1> QED BY <1>2, <1>3, <1>4, <1>5, <1>6

LEMMA TickStep == ASSUME Guard!ShaGuardAssumption, Inv, Guard!Tick PROVE Inv'
<1> USE DEF Inv
<1>1. /\ now < MaxTime /\ now' = now + 1
      /\ \A c \in Checks : pc[c] \in {"sent", "served"} => now - sentAt[c] < Timeout
      /\ headsAt' = [headsAt EXCEPT ![now + 1] = {head}]
      /\ UNCHANGED <<Guard!call, cache, version, head, saw>>
  BY DEF Guard!Tick
<1>2. now \in Nat /\ now + 1 \in 0 .. MaxTime
  BY <1>1 DEF Guard!TypeOK, Guard!ShaGuardAssumption
<1>3. Guard!TypeOK'
  BY <1>1, <1>2 DEF Guard!TypeOK, Guard!call
<1>4. WorldMoves /\ head' \in headsAt'[now']
  BY <1>1, <1>2 DEF WorldMoves, Guard!TypeOK
<1>5. ASSUME NEW c \in Checks PROVE CallOK(c)'
  <2>1. pc[c] \in {"sent", "served"} => now' - sentAt[c] <= Timeout
    BY <1>1, <1>2 DEF Guard!TypeOK, Guard!ShaGuardAssumption
  <2>2. pc[c] \in {"sent", "served", "asleep"} => head' \in saw'[c]
    BY <1>1 DEF CallOK
  <2> QED BY <1>1, <1>4, <2>1, <2>2, Bystander DEF Guard!call
<1>6. EntryOK(cache)'
  BY <1>1, <1>4, EntryKept DEF Guard!TypeOK
<1>7. Guard!AnswersTruthful'
  BY <1>1 DEF Guard!AnswersTruthful, Guard!call
<1> QED BY <1>3, <1>4, <1>5, <1>6, <1>7

LEMMA InvInit == ASSUME Guard!ShaGuardAssumption, Guard!Init PROVE Inv
<1>1. 0 \in 0 .. Attempts /\ 0 \in 0 .. MaxTime /\ 1 \in 1 .. MaxVersion
  BY DEF Guard!ShaGuardAssumption
<1>2. Guard!TypeOK
  BY <1>1, ReplyShapes DEF Guard!Init, Guard!TypeOK
<1>3. /\ EntryOK(Guard!NoEntry)
  BY EntryShapes DEF EntryOK
<1>4. head \in headsAt[now]
  BY <1>1 DEF Guard!Init
<1> QED BY <1>2, <1>3, <1>4 DEF Guard!Init, Inv, CallOK, Guard!AnswersTruthful

LEMMA InvAlways ==
    ASSUME Guard!ShaGuardAssumption PROVE Guard!Init /\ [][Guard!Next]_(Guard!vars) => []Inv
<1>1. Guard!Init => Inv
  BY InvInit
<1>2. Inv /\ [Guard!Next]_(Guard!vars) => Inv'
  <2> SUFFICES ASSUME Inv, [Guard!Next]_(Guard!vars) PROVE Inv'
    OBVIOUS
  <2>1. CASE UNCHANGED Guard!vars
    BY <2>1 DEF Guard!vars, Guard!call, Guard!world, Inv, Guard!TypeOK, EntryOK, Recent, Tells,
       Guard!Known, CallOK, Witnessed,
                Guard!AnswersTruthful
  <2> QED
    BY <2>1, StartStep, ServeStep, ReceiveStep, RetryStep, ChangeStep, TickStep DEF Guard!Next,
       Guard!Progress
<1> QED BY <1>1, <1>2, PTL

\* And so of the specification.
LEMMA Invariance == ASSUME Guard!ShaGuardAssumption PROVE Guard!Spec => []Inv
BY InvAlways, PTL DEF Guard!Spec

-----------------------------------------------------------------------------
\* The variables keep their types; in particular no call sends more than
\* _MAX_RETRIES requests.
THEOREM GuardTypeCorrect == ASSUME Guard!ShaGuardAssumption PROVE Guard!Spec => []Guard!TypeOK
<1>1. Inv => Guard!TypeOK
  BY DEF Inv
<1> QED BY <1>1, Invariance, PTL

\* A guard never invents a match or a mismatch, however calls overlap.
THEOREM GuardsTellTheTruth ==
    ASSUME Guard!ShaGuardAssumption
    PROVE  Guard!Spec => []AnswersTruthful
<1>1. Inv => Guard!AnswersTruthful
  BY DEF Inv
<1> QED BY <1>1, Invariance, PTL DEF AnswersTruthful

\* What the shared cache holds was the head at most Timeout before it was stored.
THEOREM CacheStaysRecent == ASSUME Guard!ShaGuardAssumption PROVE Guard!Spec => []CacheIsRecent
<1>1. Inv => Guard!CacheIsRecent
  BY DEF Inv, EntryOK, Recent, Guard!CacheIsRecent
<1> QED BY <1>1, Invariance, PTL DEF CacheIsRecent

-----------------------------------------------------------------------------
\* The two side by side: each is what it is alone.
LEMMA TimedParts ==
    TimedSpec => /\ Init /\ [][Next]_vars
                 /\ Guard!Init /\ [][Guard!Next]_(Guard!vars)
<1>1. TimedInit => Init /\ Guard!Init
  BY DEF TimedInit
<1>2. [TimedNext]_timedVars => [Next]_vars
  BY DEF TimedNext, timedVars, DebounceStep, GuardStep
<1>3. [TimedNext]_timedVars => [Guard!Next]_(Guard!vars)
  BY DEF TimedNext, timedVars, guardVars, DebounceStep, GuardStep, Guard!vars, Guard!call,
         Guard!world
<1> QED
  BY <1>1, <1>2, <1>3, PTL DEF TimedSpec

\* Beside the other, too, the variables of each have their types.
THEOREM TimedTypesAreCorrect == TimedSpec => []TimedTypeOK
<1>1. Inv => Guard!TypeOK
  BY DEF Inv
<1> QED
  BY <1>1, TimedParts, DebounceTypes, InvAlways, TimedAssumption, PTL DEF TimedTypeOK
==============================================================================

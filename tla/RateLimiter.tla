----------------------------- MODULE RateLimiter -----------------------------
(***************************************************************************)
(* RateLimiter of kenjutsu/pipeline/queue.py: a deque of the timestamps of *)
(* the calls admitted in the current window.  acquire() holds a lock and   *)
(* awaits nothing inside it, so one call is one step.                      *)
(***************************************************************************)
EXTENDS Integers, Sequences

CONSTANTS Calls,     \* the budget of a window
          Period,    \* the length of a window, in ticks
          MaxTime,   \* bound: ticks of the clock
          MaxDenials \* bound: refused calls

ASSUME LimiterAssumption ==
    /\ Calls \in Nat \ {0} /\ Period \in Nat \ {0}
    /\ MaxTime \in Nat /\ MaxDenials \in Nat

VARIABLES now,        \* what _now() returns
          timestamps, \* _timestamps
          admitted,   \* history: the times of all admitted calls
          denied      \* history: the times of all refused calls

vars == <<now, timestamps, admitted, denied>>

Time == 0 .. MaxTime

TypeOK ==
    /\ now \in Time
    /\ timestamps \in Seq(Time)
    /\ admitted \in Seq(Time)
    /\ denied \in Seq(Time) /\ Len(denied) <= MaxDenials

Init ==
    /\ now = 0
    /\ timestamps = <<>> /\ admitted = <<>> /\ denied = <<>>

-----------------------------------------------------------------------------
\* Mutated forms of the operators below, for the sensitivity checks.
Expired_TooEarly(t) == t <= now - Period + 1
Expired_TooLate(t) == t < now - Period
Stamp_Cutoff(t) == t - Period

-----------------------------------------------------------------------------
\* Outside the current window: at most now - period.
Expired(t) == t <= now - Period

\* Whether n calls use up the budget.
Full(n) == n >= Calls

\* The deque without its expired prefix: popleft until the first timestamp is
\* in the window.
Evicts(k) ==
    /\ \A i \in 1 .. k : Expired(timestamps[i])
    /\ k < Len(timestamps) => ~Expired(timestamps[k + 1])

Kept(k) == SubSeq(timestamps, k + 1, Len(timestamps))

\* What an admitted call leaves in the deque.
Stamp(t) == t

Admit ==
    \E k \in 0 .. Len(timestamps) :
        /\ Evicts(k)
        /\ ~Full(Len(Kept(k)))
        /\ timestamps' = Append(Kept(k), Stamp(now))
        /\ admitted' = Append(admitted, now)
        /\ UNCHANGED <<now, denied>>

\* RateLimitedError: the eviction stays.
Deny ==
    \E k \in 0 .. Len(timestamps) :
        /\ Evicts(k)
        /\ Full(Len(Kept(k)))
        /\ Len(denied) < MaxDenials
        /\ timestamps' = Kept(k)
        /\ denied' = Append(denied, now)
        /\ UNCHANGED <<now, admitted>>

Tick ==
    /\ now < MaxTime
    /\ now' = now + 1
    /\ UNCHANGED <<timestamps, admitted, denied>>

Next == Admit \/ Deny \/ Tick

Spec == Init /\ [][Next]_vars

-----------------------------------------------------------------------------
\* "Calls that exceed calls within the current period raise": in no window of
\* length Period are more than Calls calls admitted.
WindowBound ==
    \A i \in 1 .. Len(admitted) :
        i + Calls <= Len(admitted) => admitted[i + Calls] - admitted[i] >= Period

\* The limiter is not stricter than that: whenever it refuses, the window that
\* ends now already holds Calls admitted calls, all younger than Period.
Exhausted(t) ==
    \E i \in 1 .. Len(admitted) :
        /\ i + Calls - 1 <= Len(admitted)
        /\ admitted[i] > t - Period
        /\ admitted[i + Calls - 1] <= t

DenialsJustified == \A j \in 1 .. Len(denied) : Exhausted(denied[j])

\* The deque never grows beyond the budget, however many calls are made.
DequeBounded == Len(timestamps) <= Calls
==============================================================================

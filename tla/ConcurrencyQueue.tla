--------------------------- MODULE ConcurrencyQueue ---------------------------
(***************************************************************************)
(* GlobalQueue and TenantQueue of kenjutsu/pipeline/queue.py: jobs that    *)
(* enter a body under an asyncio.Semaphore, one for the whole process or   *)
(* one per tenant, made on first use.  A job may be cancelled while it     *)
(* waits and while it is inside; its body may raise.                       *)
(*                                                                         *)
(* asyncio.Semaphore is the standard library's: release() hands the slot   *)
(* to the first waiter at once, by the future the waiter awaits, and the   *)
(* waiter takes its turn on the loop later.                                *)
(***************************************************************************)
EXTENDS Integers, FiniteSets, Sequences, SequencesExt

CONSTANTS Jobs,    \* jobs, each of one async with
          Pools,   \* semaphores: the global one and one per tenant
          PoolOf,  \* PoolOf[j]: the semaphore job j goes through
          Limit    \* Limit[p]: max_concurrency

QueueAssumption ==
    /\ PoolOf \in [Jobs -> Pools]
    /\ Limit \in [Pools -> Nat \ {0}]
    /\ IsFiniteSet(Jobs)

VARIABLES value,   \* _value of each semaphore
          waiters, \* _waiters: the jobs whose futures are queued
          future,  \* the future of a waiting job: "pending", "handed", "cancelled"
          where    \* where each job is

vars == <<value, waiters, future, where>>

TypeOK ==
    /\ value \in [Pools -> Nat]
    /\ waiters \in [Pools -> Seq(Jobs)]
    /\ future \in [Jobs -> {"none", "pending", "handed", "cancelled"}]
    /\ where \in [Jobs -> {"new", "waiting", "inside", "out", "cancelled"}]

Init ==
    /\ value = [p \in Pools |-> Limit[p]]
    /\ waiters = [p \in Pools |-> <<>>]
    /\ future = [j \in Jobs |-> "none"]
    /\ where = [j \in Jobs |-> "new"]

-----------------------------------------------------------------------------
\* Mutated forms of the operators below, for the sensitivity checks.
Freed_UnlessCancelled(j, ending) == value[PoolOf[j]] + (IF ending = "out" THEN 1 ELSE 0)

-----------------------------------------------------------------------------
\* The semaphore of a job: a tenant's is made on first use and kept, so a job
\* finds the value that the earlier jobs of its tenant left.
SemaphoreFor(j) == value[PoolOf[j]]

\* locked(): no slot is left, or somebody already waits for one.
Locked(p, v) == v = 0 \/ \E i \in DOMAIN waiters[p] : future[waiters[p][i]] # "cancelled"

\* _wake_up_next(), as often as v slots and the pending waiters allow: how many
\* slots are handed out, and which n pending waiters, first in the queue, get one.
Pending(queue) == {j \in ToSet(queue) : future[j] = "pending"}
Smaller(m, n) == IF m < n THEN m ELSE n
Handed(v, queue) == Smaller(v, Cardinality(Pending(queue)))
Firsts(n, queue) ==
    {first \in SUBSET Pending(queue) :
       /\ Cardinality(first) = n
       /\ \A i, k \in DOMAIN queue :
            queue[i] \in first /\ queue[k] \in Pending(queue) \ first => i < k}
WithHanded(first) == [j \in Jobs |-> IF j \in first THEN "handed" ELSE future[j]]

\* acquire(): enter at once or queue up.
Enter(j) ==
    LET p == PoolOf[j]
        v == SemaphoreFor(j)
    IN  /\ where[j] = "new"
        /\ \/ /\ ~Locked(p, v)
              /\ value' = [value EXCEPT ![p] = v - 1]
              /\ where' = [where EXCEPT ![j] = "inside"]
              /\ UNCHANGED <<waiters, future>>
           \/ /\ Locked(p, v)
              /\ waiters' = [waiters EXCEPT ![p] = Append(@, j)]
              /\ future' = [future EXCEPT ![j] = "pending"]
              /\ where' = [where EXCEPT ![j] = "waiting"]
              /\ UNCHANGED value

\* cancel() on a waiting job: a future that is done stays done.
CancelWaiting(j) ==
    /\ where[j] = "waiting" /\ future[j] = "pending"
    /\ future' = [future EXCEPT ![j] = "cancelled"]
    /\ UNCHANGED <<value, waiters, where>>

\* How many of v slots a job hands on as it leaves the queue.  The versions of
\* the library differ: as many as it can, or one and, from a job whose future was
\* cancelled, none.
HandedOn(j, v, queue) ==
    {Handed(v, queue), IF future[j] = "handed" THEN Handed(Smaller(v, 1), queue) ELSE 0}

\* The waiting job runs again: inside, or out with CancelledError.  A slot that
\* was handed to a job cancelled in between goes back.
Resume(j) ==
    LET p == PoolOf[j] IN
    /\ where[j] = "waiting" /\ future[j] # "pending"
    /\ \E i \in DOMAIN waiters[p], back \in {0, 1} :
         LET v == value[p] + back
             queue == RemoveAt(waiters[p], i)
         IN  /\ waiters[p][i] = j
             /\ back = 1 => future[j] = "handed"
             /\ where' = [where EXCEPT ![j] = IF future[j] = "handed" /\ back = 0
                                                THEN "inside" ELSE "cancelled"]
             /\ waiters' = [waiters EXCEPT ![p] = queue]
             /\ \E n \in HandedOn(j, v, queue) : \E first \in Firsts(n, queue) :
                  /\ value' = [value EXCEPT ![p] = v - n]
                  /\ future' = [WithHanded(first) EXCEPT ![j] = "none"]

\* What release() makes of the value, however the body ends.
Freed(j, ending) == value[PoolOf[j]] + 1

\* The body ends, raises or is cancelled: release() in __aexit__ or finally.
Leave(j) ==
    LET p == PoolOf[j] IN
    /\ where[j] = "inside"
    /\ \E ending \in {"out", "cancelled"} :
         LET n == Handed(1, waiters[p]) IN
         \E first \in Firsts(n, waiters[p]) :
           /\ where' = [where EXCEPT ![j] = ending]
           /\ value' = [value EXCEPT ![p] = Freed(j, ending) - n]
           /\ future' = WithHanded(first)
    /\ UNCHANGED waiters

Next == \E j \in Jobs : Enter(j) \/ CancelWaiting(j) \/ Resume(j) \/ Leave(j)

Spec == Init /\ [][Next]_vars

-----------------------------------------------------------------------------
At(p, place) == {j \in Jobs : PoolOf[j] = p /\ where[j] = place}
HandedOut(p) == {j \in At(p, "waiting") : future[j] = "handed"}

\* No slot is lost and none is made, whatever was cancelled: the free slots, the
\* jobs inside and the slots on their way to a waiter are max_concurrency.  In
\* particular no more jobs than that are ever inside.
SlotsConserved ==
    \A p \in Pools :
        value[p] + Cardinality(At(p, "inside")) + Cardinality(HandedOut(p)) = Limit[p]

\* No wake-up is lost: a job that arrives while slots are on their way queues up
\* beside a free slot, but then some waiting job is about to run, and it hands
\* the free slots on as it does.
NoIdleSlot ==
    \A p \in Pools : \A j \in At(p, "waiting") :
        value[p] > 0 /\ future[j] = "pending" =>
            \E k \in At(p, "waiting") : future[k] = "handed"

\* The semaphore neither leaks a slot nor makes one nor forgets a waiter.
SlotsSound == SlotsConserved /\ NoIdleSlot
==============================================================================

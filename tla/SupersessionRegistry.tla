------------------------- MODULE SupersessionRegistry -------------------------
(***************************************************************************)
(* SupersessionRegistry of kenjutsu/pipeline/queue.py, and the review      *)
(* coroutines that use it as its docstring says: register, poll the cancel *)
(* event, complete.  A review's event is named by the review.              *)
(***************************************************************************)
EXTENDS Naturals, FiniteSets

CONSTANTS Reviews, \* review coroutines
          Keys,    \* ReviewKey = (repo_id, pr_number)
          KeyOf,   \* KeyOf[r]: the key of review r
          NoReview

RegistryAssumption ==
    /\ KeyOf \in [Reviews -> Keys]
    /\ NoReview \notin Reviews
    /\ IsFiniteSet(Reviews)

VARIABLES events,     \* _events: the review whose event is registered for a key
          superseded, \* _superseded
          signalled,  \* reviews whose event is set
          phase,      \* phase[r]: where the coroutine of r is
          latest,     \* history: the last review registered for a key
          strays      \* history: reviews that completed while the slot of their
                      \* key held another review

vars == <<events, superseded, signalled, phase, latest, strays>>

TypeOK ==
    /\ events \in [Keys -> Reviews \cup {NoReview}]
    /\ superseded \subseteq Keys
    /\ signalled \subseteq Reviews
    /\ phase \in [Reviews -> {"new", "running", "over"}]
    /\ latest \in [Keys -> Reviews \cup {NoReview}]
    /\ strays \subseteq Reviews

Init ==
    /\ events = [k \in Keys |-> NoReview]
    /\ superseded = {} /\ signalled = {} /\ strays = {}
    /\ phase = [r \in Reviews |-> "new"]
    /\ latest = [k \in Keys |-> NoReview]

-----------------------------------------------------------------------------
\* Mutated forms of the operators below, for the sensitivity checks.
Signalled_None(r) == signalled

-----------------------------------------------------------------------------
\* register() sets the event of the prior review, if the key has one ...
Signalled(r) == signalled \cup ({events[KeyOf[r]]} \ {NoReview})

\* ... and puts the new review into the slot.
Slots(r) == [events EXCEPT ![KeyOf[r]] = r]

Register(r) ==
    LET k == KeyOf[r] IN
    /\ phase[r] = "new"
    /\ signalled' = Signalled(r)
    /\ superseded' = IF events[k] = NoReview THEN superseded ELSE superseded \cup {k}
    /\ events' = Slots(r)
    /\ phase' = [phase EXCEPT ![r] = "running"]
    /\ latest' = [latest EXCEPT ![k] = r]
    /\ UNCHANGED strays

\* complete() names the key only: it empties the slot, whoever holds it.  A
\* review completes at its end, or early when it sees its event set.
Complete(r) ==
    LET k == KeyOf[r] IN
    /\ phase[r] = "running"
    /\ events' = [events EXCEPT ![k] = NoReview]
    /\ superseded' = superseded \ {k}
    /\ phase' = [phase EXCEPT ![r] = "over"]
    /\ strays' = IF events[k] \in {r, NoReview} THEN strays ELSE strays \cup {r}
    /\ UNCHANGED <<signalled, latest>>

Next == \E r \in Reviews : Register(r) \/ Complete(r)

Spec == Init /\ [][Next]_vars

-----------------------------------------------------------------------------
\* A review that is running and was not told to abort.
Canonical(r) == phase[r] = "running" /\ r \notin signalled

\* Supersession never hits the wrong review: the last review registered for a
\* key is not told to abort, and the slot never names an older review.
LatestSurvives ==
    \A k \in Keys :
        /\ latest[k] \notin signalled
        /\ events[k] \in {NoReview, latest[k]}

\* A registration signals the review in the slot, so a review of the same key
\* stays canonical beside the newest only if a stray complete() emptied it.
StraysBoundCanonicals ==
    \A k \in Keys :
        Cardinality({r \in Reviews : KeyOf[r] = k /\ Canonical(r)})
            <= 1 + Cardinality({r \in strays : KeyOf[r] = k})

\* The right reviews are told to abort: the newest never, the others unless a
\* stray completion hid them.
SupersessionSound == LatestSurvives /\ StraysBoundCanonicals
==============================================================================

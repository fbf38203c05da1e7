---------------------------- MODULE EventPipeline ----------------------------
(***************************************************************************)
(* What the server promises for the events that GitHub delivers, however   *)
(* it keeps them: a delivery is accepted once; an accepted event that      *)
(* concerns a pull request waits for a review; a review serves events that *)
(* wait, at least one; a restart may lose whatever waits.  Module          *)
(* WebhookServer implements it.                                            *)
(***************************************************************************)
EXTENDS Naturals

CONSTANTS Deliveries, \* what GitHub delivers, any number of times
          PRs,        \* pull requests
          Subject     \* Subject[d]: the pull request an event is about, if any

VARIABLES accepted, \* accepted[d]: how many requests for d were told "accepted"
          waiting,  \* events that a review is owed to
          reviews,  \* reviews[k]: how many reviews of k were enqueued
          restarts  \* how often the server was restarted

vars == <<accepted, waiting, reviews, restarts>>

Init ==
    /\ accepted = [d \in Deliveries |-> 0]
    /\ waiting = {}
    /\ reviews = [k \in PRs |-> 0]
    /\ restarts = 0

Accept(d) ==
    /\ accepted[d] = 0
    /\ accepted' = [accepted EXCEPT ![d] = 1]
    /\ waiting' = waiting \cup {e \in {d} : Subject[e] \in PRs}
    /\ UNCHANGED <<reviews, restarts>>

\* A review serves some of the events that wait for it.
Review(k) ==
    /\ \E served \in SUBSET {d \in waiting : Subject[d] = k} :
         served # {} /\ waiting' = waiting \ served
    /\ reviews' = [reviews EXCEPT ![k] = @ + 1]
    /\ UNCHANGED <<accepted, restarts>>

Restart ==
    /\ restarts' = restarts + 1
    /\ waiting' = {}
    /\ UNCHANGED <<accepted, reviews>>

Next == Restart \/ (\E d \in Deliveries : Accept(d)) \/ (\E k \in PRs : Review(k))

Spec == Init /\ [][Next]_vars
==============================================================================

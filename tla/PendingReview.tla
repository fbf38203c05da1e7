---------------------------- MODULE PendingReview ----------------------------
(***************************************************************************)
(* PendingReviewPublisher of kenjutsu/publisher/pending_review.py: batches *)
(* of findings, each posted as one review, by a caller that reads the      *)
(* exceptions as the docstring says: RateLimitExceededError comes after a  *)
(* publish that succeeded, and any other exception means to try again.     *)
(* Findings are told apart by what the publisher makes of them.            *)
(***************************************************************************)
EXTENDS Integers, FiniteSets

CONSTANTS Batches,
          Contents, \* Contents[b]: the kinds of findings in batch b
          Floor,    \* RATE_LIMIT_FLOOR
          Quota,    \* the calls GitHub allows in a period
          MaxLost   \* bound: answers that are lost

Kinds == {"critical", "minor", "unpublishable"}

PendingAssumption ==
    /\ Contents \in [Batches -> SUBSET Kinds]
    /\ Floor \in Nat /\ Quota \in Nat /\ MaxLost \in Nat

VARIABLES remaining, \* _rate_limit_remaining, Unknown before the first header
          quota,     \* what GitHub still allows, to this client and others
          todo,      \* the batches the caller has to publish
          reviews,   \* reviews[b]: how many reviews GitHub has of batch b
          shown,     \* shown[b]: the kinds of findings in them
          lost       \* history: lost[b]: how many answers for batch b were lost

vars == <<remaining, quota, todo, reviews, shown, lost>>

Unknown == -1

TypeOK ==
    /\ remaining \in {Unknown} \cup 0 .. Quota /\ quota \in 0 .. Quota
    /\ todo \subseteq Batches
    /\ reviews \in [Batches -> 0 .. 1 + MaxLost] /\ lost \in [Batches -> 0 .. MaxLost]
    /\ shown \in [Batches -> SUBSET {"critical", "minor"}]

Init ==
    /\ remaining = Unknown /\ quota = Quota /\ todo = Batches
    /\ reviews = [b \in Batches |-> 0] /\ lost = [b \in Batches |-> 0]
    /\ shown = [b \in Batches |-> {}]

NearRateLimit(n) == n # Unknown /\ n < Floor

-----------------------------------------------------------------------------
\* Mutated forms of the operators below, for the sensitivity checks.
Published_LimitFirst(b, status, header) ==
    IF NearRateLimit(header) THEN todo \ {b}
    ELSE IF status = "error" THEN todo ELSE todo \ {b}

-----------------------------------------------------------------------------
\* The findings that go into the review: only critical ones near the limit.
Comments(b) ==
    (Contents[b] \ {"unpublishable"})
        \ (IF NearRateLimit(remaining) THEN {"minor"} ELSE {})

\* _record_rate_limit(): an answer may come without the header.
Recorded(header) == IF header = Unknown THEN remaining ELSE header

\* What is left to publish after an answer: raise_for_status() comes first, so
\* that RateLimitExceededError is raised only for a review that was accepted.
Published(b, status, header) == IF status = "error" THEN todo ELSE todo \ {b}

\* POST .../reviews as GitHub serves it: a review of all comments, or none.
Accept(b) ==
    /\ quota > 0
    /\ quota' = quota - 1
    /\ reviews' = [reviews EXCEPT ![b] = @ + 1]
    /\ shown' = [shown EXCEPT ![b] = @ \cup Comments(b)]

Refuse == UNCHANGED <<quota, reviews, shown>>

Answer(b, status) ==
    /\ \E header \in {Unknown, quota'} :
         /\ remaining' = Recorded(header)
         /\ todo' = Published(b, status, Recorded(header))
    /\ UNCHANGED lost

\* publish(): the request is served or refused, or its answer is lost.
Publish(b) ==
    /\ b \in todo
    /\ \/ Accept(b) /\ Answer(b, "ok")
       \/ Refuse /\ Answer(b, "error")
       \/ /\ lost[b] < MaxLost
          /\ Accept(b)
          /\ lost' = [lost EXCEPT ![b] = @ + 1]
          /\ UNCHANGED <<remaining, todo>>

\* Others use the token, or a new period begins.
OtherUse == quota > 0 /\ quota' = quota - 1 /\ UNCHANGED <<remaining, todo, reviews, shown, lost>>
Reset == quota' = Quota /\ UNCHANGED <<remaining, todo, reviews, shown, lost>>

Next == OtherUse \/ Reset \/ \E b \in Batches : Publish(b)

Spec == Init /\ [][Next]_vars

-----------------------------------------------------------------------------
\* A caller that follows the docstring posts every batch once: what it takes for
\* published is on GitHub, what it tries again is not, but for lost answers.
PublishedOnce ==
    \A b \in Batches :
        /\ b \notin todo => reviews[b] > 0
        /\ reviews[b] <= lost[b] + (IF b \in todo THEN 0 ELSE 1)

\* Whatever the limit, a batch that is published shows its critical findings,
\* and none that must not be shown.
CriticalsShown ==
    \A b \in Batches \ todo :
        /\ "critical" \in Contents[b] => "critical" \in shown[b]
        /\ shown[b] \subseteq Contents[b]

\* Batches reach GitHub once, and with what must be shown.
PublishSound == PublishedOnce /\ CriticalsShown
==============================================================================

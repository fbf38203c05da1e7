---------------------------- MODULE PublishReview ----------------------------
(***************************************************************************)
(* publish_review of kenjutsu/pipeline/publisher.py: it posts one GitHub   *)
(* review and one inline comment per publishable finding, and stores the   *)
(* ids GitHub returns so that a retry updates instead of posting again.    *)
(*                                                                         *)
(* Three parties: the attempt (one await at a time), GitHub (objects that  *)
(* users delete, a head that they push), and the database, which sees what *)
(* the session flushed only when the caller commits.  One step of an       *)
(* attempt is one network call together with the session writes after it.  *)
(***************************************************************************)
EXTENDS Naturals, FiniteSets

CONSTANTS Findings,       \* the publishable findings of the review
          Shas,           \* head commits of the pull request
          Reviewed,       \* review_row.head_sha
          OnError,        \* what the caller may do with the session of an
                          \* attempt that raised: "commit", "rollback" or either
          AnswersGetLost, \* TRUE if a POST may take effect and still raise (a
                          \* timeout, a dropped connection, a failed flush)
          MayCrash,       \* TRUE if the worker may die during an attempt
          MaxAttempts, MaxDeletes, MaxPushes \* bounds

ASSUME PublishAssumption ==
    /\ Reviewed \in Shas
    /\ OnError \subseteq {"commit", "rollback"}
    /\ {AnswersGetLost, MayCrash} \subseteq BOOLEAN
    /\ {MaxAttempts, MaxDeletes, MaxPushes} \subseteq Nat

VARIABLES pc,       \* where the attempt is
          todo,     \* findings the attempt has not handled
          reposting, \* the finding whose comment answered 404
          idMap,    \* comment_id_map, a local variable of the attempt
          session,  \* the rows as the session sees them
          db,       \* the rows as committed
          head,     \* GitHub: the head of the pull request
          reviews,  \* GitHub: ids of reviews that exist
          comments, \* GitHub: comments that exist, <<finding, n>> for the n-th
                    \* comment posted for a finding
          nReviews, nComments, \* GitHub: how many were posted
          attempts, deletes, pushes, \* counters
          lost,     \* history: attempts after which the database does not know
                    \* everything they posted
          wasCurrent, \* history: head was Reviewed at some time in the attempt
          gone,       \* history: comments deleted during the attempt
          fresh       \* history: the attempt recreated the review, or "no"; and
                      \* the findings it posted a comment for

rows == <<session, db>>
github == <<head, reviews, comments, nReviews, nComments>>
bounds == <<attempts, lost, deletes, pushes>>
vars == <<pc, todo, reposting, idMap, rows, github, bounds, wasCurrent, gone, fresh>>

NoId == 0
Id == Nat

\* Columns reviews.github_review_id and github_comment_ids, and per finding
\* findings.github_comment_id and published.
Rows == [review : Id, map : [Findings -> Id],
         comment : [Findings -> Id], published : SUBSET Findings]

EmptyMap == [f \in Findings |-> NoId]
NewRows == [review |-> NoId, map |-> EmptyMap, comment |-> EmptyMap, published |-> {}]

TypeOK ==
    /\ pc \in {"idle", "guard", "review", "recreate", "comments", "repost",
               "finished", "failed", "unanswered"}
    /\ todo \subseteq Findings
    /\ reposting \subseteq Findings
    /\ idMap \in [Findings -> Id]
    /\ session \in Rows /\ db \in Rows
    /\ head \in Shas
    /\ reviews \subseteq 1 .. nReviews
    /\ comments \subseteq Findings \X Id
    /\ nReviews \in Nat /\ nComments \in [Findings -> Nat]
    /\ attempts \in 0 .. MaxAttempts /\ lost \in Nat
    /\ deletes \in 0 .. MaxDeletes /\ pushes \in 0 .. MaxPushes
    /\ wasCurrent \in BOOLEAN
    /\ gone \subseteq Findings \X Id
    /\ fresh \in [review : BOOLEAN, posted : SUBSET Findings]

Init ==
    /\ pc = "idle"
    /\ todo = {} /\ reposting = {} /\ idMap = EmptyMap
    /\ session = NewRows /\ db = NewRows
    /\ head \in Shas
    /\ reviews = {} /\ comments = {}
    /\ nReviews = 0 /\ nComments = [f \in Findings |-> 0]
    /\ attempts = 0 /\ lost = 0 /\ deletes = 0 /\ pushes = 0
    /\ wasCurrent = FALSE /\ gone = {}
    /\ fresh = [review |-> FALSE, posted |-> {}]

-----------------------------------------------------------------------------
\* Mutated forms of the operators below, for the sensitivity checks.
HeadMatches_Unchecked(sha) == TRUE
Existing_MapOnly(f) == idMap[f]
WithComment_MapOnly(f, n) ==
    [session EXCEPT !.map = [idMap EXCEPT ![f] = n], !.published = @ \cup {f}]
Exists_NeverMissing(f, n) == TRUE
WithComment_OnlyLast(f, n) ==
    [session EXCEPT !.comment[f] = n, !.map = [g \in {f} |-> n], !.published = @ \cup {f}]

-----------------------------------------------------------------------------
Proceed(to) == pc' = to /\ UNCHANGED bounds

\* The attempt raises.  What becomes of its session is the caller's step.
Fail == Proceed("failed")

\* It raises although GitHub did what the last call asked for.
FailUnanswered == AnswersGetLost /\ Proceed("unanswered")

\* Lines 219-245: load the rows.
Start ==
    /\ pc = "idle"
    /\ attempts < MaxAttempts
    /\ attempts' = attempts + 1
    /\ pc' = "guard"
    /\ todo' = Findings /\ reposting' = {}
    /\ session' = db /\ idMap' = db.map
    /\ wasCurrent' = (head = Reviewed)
    /\ gone' = {} /\ fresh' = [review |-> FALSE, posted |-> {}]
    /\ UNCHANGED <<db, github, lost, deletes, pushes>>

HeadMatches(sha) == sha = Reviewed

\* The SHA guard: one GET; a mismatch and an HTTP error both raise.
Guard ==
    /\ pc = "guard"
    /\ (HeadMatches(head) /\ Proceed("review")) \/ Fail
    /\ UNCHANGED <<todo, reposting, idMap, rows, github, wasCurrent, gone, fresh>>

\* _update_review: PUT on the stored id.  404 means it must be recreated.
UpdateReview ==
    /\ pc = "review"
    /\ session.review # NoId
    /\ \/ session.review \in reviews /\ Proceed("comments")
       \/ session.review \notin reviews /\ Proceed("recreate")
       \/ Fail
    /\ UNCHANGED <<todo, reposting, idMap, rows, github, wasCurrent, gone, fresh>>

\* The rows once the n-th review is stored and flushed.
WithReview(n) == [session EXCEPT !.review = n]

\* _create_review, for a first publish or after a 404; the id map is emptied
\* in the second case.
CreateReview ==
    LET n == nReviews + 1 IN
    /\ pc = "recreate" \/ (pc = "review" /\ session.review = NoId)
    /\ \/ /\ nReviews' = n /\ reviews' = reviews \cup {n}
          /\ Proceed("comments")
          /\ session' = WithReview(n)
          /\ idMap' = IF pc = "recreate" THEN EmptyMap ELSE idMap
          /\ fresh' = [fresh EXCEPT !.review = (pc = "recreate")]
       \/ /\ FailUnanswered
          /\ nReviews' = n /\ reviews' = reviews \cup {n}
          /\ UNCHANGED <<session, idMap, fresh>>
       \/ Fail /\ UNCHANGED <<nReviews, reviews, session, idMap, fresh>>
    /\ UNCHANGED <<todo, reposting, db, head, comments, nComments, wasCurrent, gone>>

\* comment_id_map.get(finding_key) or finding.github_comment_id
Existing(f) == IF idMap[f] # NoId THEN idMap[f] ELSE session.comment[f]

\* The rows once the n-th comment of f is stored and flushed.
WithComment(f, n) ==
    [session EXCEPT !.comment[f] = n, !.map = [idMap EXCEPT ![f] = n],
                    !.published = @ \cup {f}]

Exists(f, n) == <<f, n>> \in comments

\* _update_comment: PATCH on the known id.  404 means it must be posted again.
UpdateComment(f) ==
    /\ pc = "comments" /\ f \in todo
    /\ Existing(f) # NoId
    /\ \/ /\ Exists(f, Existing(f))
          /\ Proceed("comments")
          /\ todo' = todo \ {f}
          /\ session' = [session EXCEPT !.published = @ \cup {f}]
          /\ UNCHANGED reposting
       \/ /\ ~Exists(f, Existing(f))
          /\ Proceed("repost")
          /\ reposting' = {f}
          /\ UNCHANGED <<todo, session>>
       \/ Fail /\ UNCHANGED <<todo, session, reposting>>
    /\ UNCHANGED <<idMap, db, github, wasCurrent, gone, fresh>>

\* _create_comment, for a first publish or after a 404.
CreateComment(f) ==
    LET n == nComments[f] + 1 IN
    /\ \/ pc = "comments" /\ f \in todo /\ Existing(f) = NoId
       \/ pc = "repost" /\ f \in reposting
    /\ \/ /\ nComments' = [nComments EXCEPT ![f] = n]
          /\ comments' = comments \cup {<<f, n>>}
          /\ Proceed("comments")
          /\ todo' = todo \ {f} /\ reposting' = {}
          /\ session' = WithComment(f, n)
          /\ idMap' = [idMap EXCEPT ![f] = n]
          /\ fresh' = [fresh EXCEPT !.posted = @ \cup {f}]
       \/ /\ FailUnanswered
          /\ nComments' = [nComments EXCEPT ![f] = n]
          /\ comments' = comments \cup {<<f, n>>}
          /\ UNCHANGED <<todo, reposting, session, idMap, fresh>>
       \/ Fail /\ UNCHANGED <<nComments, comments, todo, reposting, session, idMap, fresh>>
    /\ UNCHANGED <<db, head, reviews, nReviews, wasCurrent, gone>>

\* Line 323: the map as the attempt left it becomes the column.
Finish ==
    /\ pc = "comments" /\ todo = {}
    /\ Proceed("finished")
    /\ session' = [session EXCEPT !.map = idMap]
    /\ UNCHANGED <<todo, reposting, idMap, db, github, wasCurrent, gone, fresh>>

\* The attempt is over and the database keeps these rows of it.
Keeps(kept) ==
    /\ pc' = "idle"
    /\ db' = kept
    /\ lost' = IF pc = "unanswered" \/ kept # session THEN lost + 1 ELSE lost
    /\ UNCHANGED <<todo, reposting, idMap, session, github, attempts, deletes, pushes,
                   wasCurrent, gone, fresh>>

\* External: the caller commits, or rolls back what a failed attempt wrote.
CallerEnds ==
    \/ pc = "finished" /\ Keeps(session)
    \/ pc \in {"failed", "unanswered"} /\ "commit" \in OnError /\ Keeps(session)
    \/ pc \in {"failed", "unanswered"} /\ "rollback" \in OnError /\ Keeps(db)

\* The worker dies before the commit: the database forgets the session.
Crash == MayCrash /\ pc # "idle" /\ Keeps(db)

\* External: users push, and delete what was posted.
Push ==
    /\ pushes < MaxPushes
    /\ head' \in Shas \ {head}
    /\ pushes' = pushes + 1
    /\ wasCurrent' = (wasCurrent \/ head' = Reviewed)
    /\ UNCHANGED <<pc, todo, reposting, idMap, rows, reviews, comments, nReviews, nComments,
                   attempts, lost, deletes, gone, fresh>>

Delete ==
    /\ deletes < MaxDeletes
    /\ deletes' = deletes + 1
    /\ \/ \E i \in reviews : reviews' = reviews \ {i} /\ UNCHANGED <<comments, gone>>
       \/ \E c \in comments : /\ comments' = comments \ {c}
                              /\ gone' = gone \cup {c}
                              /\ UNCHANGED reviews
    /\ UNCHANGED <<pc, todo, reposting, idMap, rows, head, nReviews, nComments,
                   attempts, lost, pushes, wasCurrent, fresh>>

Attempt ==
    \/ Start \/ Guard \/ UpdateReview \/ CreateReview
    \/ \E f \in Findings : UpdateComment(f) \/ CreateComment(f)
    \/ Finish \/ CallerEnds

Next == Attempt \/ Crash \/ Push \/ Delete

Spec == Init /\ [][Next]_vars

-----------------------------------------------------------------------------
CommentsOf(f) == {c \in comments : c[1] = f}

\* "Retrying is safe": there is never more than one review and one comment per
\* finding, however the attempts and the users' deletions interleave.
OneOfEach ==
    /\ \A i, j \in reviews : i = j
    /\ \A c, d \in comments : c[1] = d[1] => c = d

\* What a retry can cost: each attempt whose ids did not all reach the database
\* adds at most one more review, and one more comment per finding.  Without such
\* an attempt there is never a duplicate.
DuplicatesBounded ==
    /\ Cardinality(reviews) <= 1 + lost
    /\ \A f \in Findings : Cardinality(CommentsOf(f)) <= 1 + lost

\* The two columns that hold a comment id, and the attempt's local map, never
\* name different comments, so a retry that reads either updates the same one;
\* and a finding marked as published has an id.
Consistent(r) ==
    \A f \in Findings :
        /\ r.map[f] \in {NoId, r.comment[f]}
        /\ f \in r.published => r.comment[f] # NoId

IdsAgree ==
    /\ Consistent(session) /\ Consistent(db)
    /\ pc # "idle" => \A f \in Findings : idMap[f] \in {NoId, session.comment[f]}

\* An attempt that reports success leaves every publishable finding with a
\* comment on the pull request, unless someone deleted it meanwhile.
SuccessIsVisible ==
    pc = "finished" =>
        \A f \in Findings : <<f, session.comment[f]>> \in comments \cup gone

\* Nothing is posted in an attempt during which the head was never the
\* reviewed commit: what the SHA guard really promises.
PostedOnReviewedHead ==
    [][nReviews' # nReviews \/ nComments' # nComments => wasCurrent]_vars

\* publisher.py:285, "All previous comment IDs are now stale - clear them so
\* every finding gets a fresh comment below".
FreshAfterRecreate ==
    pc = "finished" /\ fresh.review => fresh.posted = Findings
==============================================================================

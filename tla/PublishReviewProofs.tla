------------------------- MODULE PublishReviewProofs -------------------------
(***************************************************************************)
(* publish_review, for every set of findings and commits, any number of    *)
(* attempts, pushes and deletions.                                         *)
(***************************************************************************)
EXTENDS PublishReview, FiniteSetTheorems, TLAPS

\* The session's rows after a comment was stored, column by column.
LEMMA StoredComment ==
    ASSUME TypeOK, NEW f \in Findings, NEW n \in Id
    PROVE  /\ WithComment(f, n) \in Rows
           /\ WithComment(f, n).review = session.review
           /\ WithComment(f, n).comment = [session.comment EXCEPT ![f] = n]
           /\ WithComment(f, n).map = [idMap EXCEPT ![f] = n]
           /\ WithComment(f, n).published = session.published \cup {f}
BY DEF TypeOK, Rows, WithComment

\* The variables keep their types.
THEOREM TypeCorrect == Spec => []TypeOK
<1>1. Init => TypeOK
  <2>1. EmptyMap \in [Findings -> Id] /\ NewRows \in Rows
    BY DEF EmptyMap, NewRows, Rows, NoId, Id
  <2>2. [review |-> FALSE, posted |-> {}] \in [review : BOOLEAN, posted : SUBSET Findings]
    OBVIOUS
  <2>3. 0 \in 0 .. MaxAttempts /\ 0 \in 0 .. MaxDeletes /\ 0 \in 0 .. MaxPushes
    BY PublishAssumption
  <2> SUFFICES ASSUME Init PROVE TypeOK
    OBVIOUS
  <2>4. nComments \in [Findings -> Nat]
    BY DEF Init
  <2> QED BY <2>1, <2>2, <2>3, <2>4 DEF Init, TypeOK
<1>2. TypeOK /\ [Next]_vars => TypeOK'
  <2> SUFFICES ASSUME TypeOK, [Next]_vars PROVE TypeOK'
    OBVIOUS
  <2> USE PublishAssumption DEF Id
  <2>1. CASE Start
    <3>1. db.map \in [Findings -> Id]
      BY DEF TypeOK, Rows
    <3> QED BY <2>1, <3>1 DEF TypeOK, Start, rows, github
  <2>2. CASE Guard
    BY <2>2 DEF TypeOK, Guard, Proceed, Fail, rows, github, bounds
  <2>3. CASE UpdateReview
    BY <2>3 DEF TypeOK, UpdateReview, Proceed, Fail, rows, github, bounds
  <2>4. CASE CreateReview
    <3>1. [session EXCEPT !.review = nReviews + 1] \in Rows
      BY DEF TypeOK, Rows
    <3>2. session' \in Rows
      BY <2>4, <3>1 DEF TypeOK, CreateReview, WithReview
    <3>3. EmptyMap \in [Findings -> Id]
      BY DEF EmptyMap, NoId
    <3>4. idMap' \in [Findings -> Id]
      BY <2>4, <3>3 DEF TypeOK, CreateReview
    <3>5. nReviews' \in Nat /\ reviews' \subseteq 1 .. nReviews'
      BY <2>4 DEF TypeOK, CreateReview
    <3>6. fresh' \in [review : BOOLEAN, posted : SUBSET Findings]
      BY <2>4 DEF TypeOK, CreateReview
    <3>7. pc' \in {"comments", "failed", "unanswered"} /\ UNCHANGED bounds
      BY <2>4 DEF TypeOK, CreateReview, Proceed, Fail, FailUnanswered
    <3> QED BY <2>4, <3>2, <3>4, <3>5, <3>6, <3>7 DEF TypeOK, CreateReview, bounds
  <2>5. ASSUME NEW f \in Findings, UpdateComment(f) PROVE TypeOK'
    <3>1. [session EXCEPT !.published = @ \cup {f}] \in Rows
      BY DEF TypeOK, Rows
    <3>2. session' \in Rows
      BY <2>5, <3>1 DEF TypeOK, UpdateComment
    <3>3. todo' \subseteq Findings /\ reposting' \subseteq Findings
      BY <2>5 DEF TypeOK, UpdateComment
    <3>4. pc' \in {"comments", "repost", "failed"} /\ UNCHANGED bounds
      BY <2>5 DEF TypeOK, UpdateComment, Proceed, Fail
    <3> QED BY <2>5, <3>2, <3>3, <3>4 DEF TypeOK, UpdateComment, github, bounds
  <2>6. ASSUME NEW f \in Findings, CreateComment(f) PROVE TypeOK'
    <3>1. nComments[f] + 1 \in Nat
      BY DEF TypeOK
    <3>2. WithComment(f, nComments[f] + 1) \in Rows
      BY <3>1, StoredComment
    <3>3. session' \in Rows
      BY <2>6, <3>2 DEF TypeOK, CreateComment
    <3>4. idMap' \in [Findings -> Id]
      BY <2>6, <3>1 DEF TypeOK, CreateComment
    <3>5. nComments' \in [Findings -> Nat] /\ comments' \subseteq Findings \X Id
      BY <2>6, <3>1 DEF TypeOK, CreateComment
    <3>6. fresh' \in [review : BOOLEAN, posted : SUBSET Findings]
      BY <2>6 DEF TypeOK, CreateComment
    <3>7. pc' \in {"comments", "failed", "unanswered"} /\ UNCHANGED bounds
      BY <2>6 DEF TypeOK, CreateComment, Proceed, Fail, FailUnanswered
    <3>8. todo' \subseteq Findings /\ reposting' \subseteq Findings
      BY <2>6 DEF TypeOK, CreateComment
    <3> QED BY <2>6, <3>3, <3>4, <3>5, <3>6, <3>7, <3>8 DEF TypeOK, CreateComment, bounds
  <2>7. CASE Finish
    <3>1. [session EXCEPT !.map = idMap] \in Rows
      BY DEF TypeOK, Rows
    <3> QED BY <2>7, <3>1 DEF TypeOK, Finish, Proceed, github, bounds
  <2>8. CASE CallerEnds
    <3>1. PICK kept \in Rows : Keeps(kept)
      BY <2>8 DEF TypeOK, CallerEnds
    <3> QED BY <3>1 DEF TypeOK, Keeps, github
  <2>9. CASE Crash
    <3>1. Keeps(db)
      BY <2>9 DEF Crash
    <3> QED BY <3>1 DEF TypeOK, Keeps, github
  <2>10. CASE Push
    BY <2>10 DEF TypeOK, Push, rows
  <2>11. CASE Delete
    <3>1. /\ reviews' \subseteq reviews /\ comments' \subseteq comments
          /\ gone' \subseteq gone \cup comments
      BY <2>11 DEF Delete
    <3>2. deletes' \in 0 .. MaxDeletes
      BY <2>11 DEF TypeOK, Delete
    <3> QED BY <2>11, <3>1, <3>2 DEF TypeOK, Delete, rows
  <2>12. CASE UNCHANGED vars
    BY <2>12 DEF TypeOK, vars, rows, github, bounds
  <2> QED
    BY <2>1, <2>2, <2>3, <2>4, <2>5, <2>6, <2>7, <2>8, <2>9, <2>10, <2>11, <2>12
    DEF Next, Attempt
<1> QED BY <1>1, <1>2, PTL DEF Spec

-----------------------------------------------------------------------------
\* Whatever fails, is lost, or is rolled back: the columns and the local map
\* never name two comments for one finding.
LEMMA IdsAgreeStep == TypeOK /\ IdsAgree /\ [Next]_vars => IdsAgree'
<1> SUFFICES ASSUME TypeOK, IdsAgree, [Next]_vars PROVE IdsAgree'
  OBVIOUS
<1> USE DEF IdsAgree
<1>1. CASE Start
  BY <1>1 DEF Start, Consistent
<1>2. CASE Guard \/ UpdateReview
  BY <1>2 DEF Guard, UpdateReview, Proceed, Fail, rows, Consistent
<1>3. CASE CreateReview
  <2>1. /\ session'.map = session.map /\ session'.comment = session.comment
        /\ session'.published = session.published
    BY <1>3 DEF CreateReview, WithReview, TypeOK, Rows
  <2>2. idMap' = EmptyMap \/ idMap' = idMap
    BY <1>3 DEF CreateReview
  <2>3. pc # "idle" /\ db' = db
    BY <1>3 DEF CreateReview
  <2> QED BY <2>1, <2>2, <2>3 DEF Consistent, EmptyMap
<1>4. ASSUME NEW f \in Findings, UpdateComment(f) PROVE IdsAgree'
  <2>1. session.comment[f] # NoId
    BY <1>4 DEF UpdateComment, Existing
  <2>2. /\ session'.map = session.map /\ session'.comment = session.comment
        /\ session'.published \subseteq session.published \cup {f}
    BY <1>4 DEF UpdateComment, TypeOK, Rows
  <2>3. pc # "idle" /\ db' = db /\ idMap' = idMap
    BY <1>4 DEF UpdateComment
  <2> QED BY <2>1, <2>2, <2>3 DEF Consistent
<1>5. ASSUME NEW f \in Findings, CreateComment(f) PROVE IdsAgree'
  <2> DEFINE n == nComments[f] + 1
  <2>0. n \in Id /\ n # NoId
    BY DEF TypeOK, Id, NoId
  <2>1. pc # "idle" /\ db' = db
    BY <1>5 DEF CreateComment
  <2>2. CASE UNCHANGED <<session, idMap>>
    BY <2>1, <2>2 DEF Consistent
  <2>3. CASE session' = WithComment(f, n) /\ idMap' = [idMap EXCEPT ![f] = n]
    <3>1. /\ session'.comment = [session.comment EXCEPT ![f] = n]
          /\ session'.map = [idMap EXCEPT ![f] = n]
          /\ session'.published = session.published \cup {f}
      BY <2>0, <2>3, StoredComment
    <3>2. session.comment \in [Findings -> Id] /\ idMap \in [Findings -> Id]
      BY DEF TypeOK, Rows
    <3>3. \A g \in Findings : idMap'[g] \in {NoId, session'.comment[g]}
      BY <2>1, <2>3, <3>1, <3>2
    <3>4. Consistent(session')
      BY <2>0, <2>3, <3>1, <3>2, <3>3 DEF Consistent
    <3> QED BY <2>1, <3>3, <3>4 DEF Consistent
  <2> QED BY <1>5, <2>2, <2>3 DEF CreateComment
<1>6. CASE Finish
  <2>1. /\ session'.map = idMap /\ session'.comment = session.comment
        /\ session'.published = session.published
    BY <1>6 DEF Finish, TypeOK, Rows
  <2>2. pc # "idle" /\ db' = db /\ idMap' = idMap
    BY <1>6 DEF Finish
  <2> QED BY <2>1, <2>2 DEF Consistent
<1>7. CASE CallerEnds \/ Crash
  BY <1>7 DEF CallerEnds, Crash, Keeps, Consistent
<1>8. CASE Push \/ Delete \/ UNCHANGED vars
  BY <1>8 DEF Push, Delete, vars, rows, Consistent
<1> QED
  BY <1>1, <1>2, <1>3, <1>4, <1>5, <1>6, <1>7, <1>8 DEF Next, Attempt

\* A retry that reads either column, or the map, updates the same comment.
THEOREM IdsAlwaysAgree == Spec => []IdsAgree
<1>1. Init => IdsAgree
  BY DEF Init, IdsAgree, Consistent, NewRows, EmptyMap
<1> QED BY <1>1, IdsAgreeStep, TypeCorrect, PTL DEF Spec

-----------------------------------------------------------------------------
\* As long as every attempt's ids have reached the database, the session knows
\* everything that is on GitHub; only the object of an unanswered call, the last
\* of its attempt, may still be unknown.
Known ==
    /\ pc = "idle" => db = session
    /\ \A i \in reviews : i = session.review
    /\ comments \subseteq Findings \X (Nat \ {0})
    /\ \A c \in comments : c[2] = session.comment[c[1]]
    /\ pc = "recreate" => session.review \notin reviews
    /\ pc = "repost" => \A f \in reposting : <<f, session.comment[f]>> \notin comments

KnowsAll ==
    /\ lost = 0 /\ pc # "unanswered" => Known
    /\ lost = 0 /\ pc = "unanswered" => OneOfEach

LEMMA KnownIsOneOfEach == Known => OneOfEach
<1> SUFFICES ASSUME Known, NEW c \in comments, NEW d \in comments, c[1] = d[1]
             PROVE  c = d
  BY DEF Known, OneOfEach
<1>1. c = <<c[1], c[2]>> /\ d = <<d[1], d[2]>> /\ c[2] = d[2]
  BY DEF Known
<1> QED BY <1>1

\* A review is created only when none is left, and a comment of f only when
\* none of f is left.
LEMMA RoomForReview == TypeOK /\ Known /\ CreateReview => reviews = {}
BY DEF CreateReview, Known, TypeOK, NoId

LEMMA RoomForComment ==
    ASSUME NEW f \in Findings, TypeOK, IdsAgree, Known, CreateComment(f)
    PROVE  \A c \in comments : c[1] # f
<1>1. CASE pc = "comments"
  <2>1. session.comment[f] = NoId
    BY <1>1 DEF CreateComment, Existing
  <2> QED BY <2>1 DEF Known, NoId
<1>2. CASE pc = "repost"
  <2>1. <<f, session.comment[f]>> \notin comments
    BY <1>2 DEF CreateComment, Known
  <2>2. \A c \in comments : c = <<c[1], c[2]>> /\ c[2] = session.comment[c[1]]
    BY DEF Known
  <2> QED BY <2>1, <2>2
<1> QED BY <1>1, <1>2 DEF CreateComment

LEMMA KnowsAllStep == TypeOK /\ IdsAgree /\ KnowsAll /\ [Next]_vars => KnowsAll'
<1> SUFFICES ASSUME TypeOK, IdsAgree, KnowsAll, [Next]_vars, lost' = 0
             PROVE  (IF pc = "unanswered" THEN OneOfEach ELSE Known)'
  BY DEF KnowsAll
<1> DEFINE G == (IF pc = "unanswered" THEN OneOfEach ELSE Known)'
<1>1. CASE Start
  BY <1>1 DEF Start, KnowsAll, Known, rows, github
<1>2. CASE Guard
  BY <1>2 DEF Guard, Proceed, Fail, KnowsAll, Known, rows, github, bounds
<1>3. CASE UpdateReview
  BY <1>3 DEF UpdateReview, Proceed, Fail, KnowsAll, Known, rows, github, bounds
<1>4. CASE CreateReview
  <2>0. /\ comments' = comments /\ session'.comment = session.comment
        /\ lost = 0 /\ pc # "unanswered"
    BY <1>4 DEF CreateReview, WithReview, TypeOK, Rows, Proceed, Fail, FailUnanswered, bounds
  <2>1. Known /\ reviews = {} /\ OneOfEach
    BY <1>4, <2>0, RoomForReview, KnownIsOneOfEach DEF KnowsAll
  <2>2. CASE UNCHANGED <<nReviews, reviews, session, idMap, fresh>> /\ pc' = "failed"
    BY <2>0, <2>1, <2>2 DEF Known
  <2>3. CASE reviews' = reviews \cup {nReviews + 1} /\ pc' = "unanswered"
    BY <2>0, <2>1, <2>3 DEF OneOfEach
  <2>4. CASE /\ reviews' = reviews \cup {nReviews + 1} /\ pc' = "comments"
             /\ session' = [session EXCEPT !.review = nReviews + 1]
    <3>1. session'.review = nReviews + 1
      BY <2>4 DEF TypeOK, Rows
    <3> QED BY <2>0, <2>1, <2>4, <3>1 DEF Known
  <2> QED BY <1>4, <2>2, <2>3, <2>4 DEF CreateReview, WithReview, Proceed, Fail, FailUnanswered
<1>5. ASSUME NEW f \in Findings, UpdateComment(f) PROVE G
  <2>1. /\ session'.comment = session.comment /\ session'.review = session.review
        /\ UNCHANGED <<reviews, comments>>
        /\ pc' \in {"comments", "repost", "failed"}
        /\ lost = 0 /\ pc # "unanswered"
    BY <1>5 DEF UpdateComment, TypeOK, Rows, Proceed, Fail, github, bounds
  <2>2. Existing(f) = session.comment[f]
    BY <1>5 DEF UpdateComment, Existing, IdsAgree
  <2>3. pc' = "repost" => \A g \in reposting' : <<g, session.comment[g]>> \notin comments
    BY <1>5, <2>2 DEF UpdateComment, Exists, Proceed, Fail
  <2> QED BY <2>1, <2>3 DEF KnowsAll, Known
<1>6. ASSUME NEW f \in Findings, CreateComment(f) PROVE G
  <2> DEFINE n == nComments[f] + 1
  <2>0. n \in Id /\ n \in Nat \ {0}
    BY DEF TypeOK, Id
  <2>1. lost = 0 /\ pc # "unanswered" /\ reviews' = reviews
    BY <1>6 DEF CreateComment, Proceed, Fail, FailUnanswered, bounds
  <2>2. Known /\ OneOfEach
    BY <2>1, KnownIsOneOfEach DEF KnowsAll
  <2>3. \A c \in comments : c[1] # f
    BY <1>6, <2>2, RoomForComment
  <2>4. CASE UNCHANGED <<comments, session>> /\ pc' = "failed"
    BY <2>1, <2>2, <2>4 DEF Known
  <2>5. CASE comments' = comments \cup {<<f, n>>} /\ pc' = "unanswered"
    BY <2>1, <2>2, <2>3, <2>5 DEF OneOfEach
  <2>6. CASE /\ comments' = comments \cup {<<f, n>>} /\ pc' = "comments"
             /\ session' = WithComment(f, n)
    <3>1. session'.comment = [session.comment EXCEPT ![f] = n]
            /\ session'.review = session.review
      BY <2>0, <2>6, StoredComment
    <3>2. session.comment \in [Findings -> Id]
      BY DEF TypeOK, Rows
    <3>3. \A c \in comments' : c[2] = session'.comment[c[1]]
      BY <2>2, <2>3, <2>6, <3>1, <3>2 DEF Known
    <3> QED BY <2>0, <2>1, <2>2, <2>6, <3>1, <3>3 DEF Known
  <2> QED BY <1>6, <2>4, <2>5, <2>6 DEF CreateComment, Proceed, Fail, FailUnanswered
<1>7. CASE Finish
  <2>1. session'.comment = session.comment /\ session'.review = session.review
    BY <1>7 DEF Finish, TypeOK, Rows
  <2> QED BY <1>7, <2>1 DEF Finish, Proceed, KnowsAll, Known, github, bounds
<1>8. CASE CallerEnds \/ Crash
  <2>1. PICK kept : Keeps(kept)
    BY <1>8 DEF CallerEnds, Crash
  <2>2. lost = 0 /\ pc # "unanswered" /\ kept = session
    BY <2>1 DEF Keeps, TypeOK
  <2> QED BY <2>1, <2>2 DEF Keeps, KnowsAll, Known, github
<1>9. CASE Push
  BY <1>9 DEF Push, KnowsAll, Known, OneOfEach, rows
<1>10. CASE Delete
  <2>1. reviews' \subseteq reviews /\ comments' \subseteq comments
    BY <1>10 DEF Delete
  <2>2. UNCHANGED <<pc, reposting, rows, lost>>
    BY <1>10 DEF Delete
  <2> QED BY <2>1, <2>2 DEF KnowsAll, Known, OneOfEach, rows
<1>11. CASE UNCHANGED vars
  BY <1>11 DEF vars, KnowsAll, Known, OneOfEach, rows, github, bounds
<1> QED
  BY <1>1, <1>2, <1>3, <1>4, <1>5, <1>6, <1>7, <1>8, <1>9, <1>10, <1>11
  DEF Next, Attempt

\* "Retrying is safe" as long as the ids of every attempt reach the database:
\* then retries never post a second review, or a second comment for a finding.
THEOREM RetryNeverDuplicates == Spec => [](lost = 0 => OneOfEach)
<1>1. Init => KnowsAll
  BY DEF Init, KnowsAll, Known
<1>2. KnowsAll => (lost = 0 => OneOfEach)
  BY KnownIsOneOfEach DEF KnowsAll
<1> QED BY <1>1, <1>2, KnowsAllStep, TypeCorrect, IdsAlwaysAgree, PTL DEF Spec

-----------------------------------------------------------------------------
\* What the SHA guard gives: from there on, the head was the reviewed commit
\* at some time of this attempt.
HeadWasReviewed ==
    /\ pc # "idle" /\ head = Reviewed => wasCurrent
    /\ pc \in {"review", "recreate", "comments", "repost"} => wasCurrent

LEMMA HeadWasReviewedStep == HeadWasReviewed /\ [Next]_vars => HeadWasReviewed'
<1> SUFFICES ASSUME HeadWasReviewed, [Next]_vars PROVE HeadWasReviewed'
  OBVIOUS
<1> USE DEF HeadWasReviewed
<1>1. CASE Start \/ Guard \/ UpdateReview
  BY <1>1 DEF Start, Guard, HeadMatches, UpdateReview, Proceed, Fail, github
<1>2. CASE CreateReview
  BY <1>2 DEF CreateReview, Proceed, Fail, FailUnanswered
<1>3. ASSUME NEW f \in Findings, UpdateComment(f) \/ CreateComment(f) PROVE HeadWasReviewed'
  BY <1>3 DEF UpdateComment, CreateComment, Proceed, Fail, FailUnanswered, github
<1>4. CASE Finish \/ CallerEnds \/ Crash
  BY <1>4 DEF Finish, CallerEnds, Crash, Keeps, Proceed, github
<1>5. CASE Push \/ Delete \/ UNCHANGED vars
  BY <1>5 DEF Push, Delete, vars, github
<1> QED BY <1>1, <1>2, <1>3, <1>4, <1>5 DEF Next, Attempt

\* Nothing is posted in an attempt during which the head was never the
\* reviewed commit.
THEOREM PostsOnlyOnReviewedHead == Spec => PostedOnReviewedHead
<1>1. Init => HeadWasReviewed
  BY DEF Init, HeadWasReviewed
<1>2. TypeOK /\ HeadWasReviewed /\ [Next]_vars =>
        [nReviews' # nReviews \/ nComments' # nComments => wasCurrent]_vars
  <2> SUFFICES ASSUME HeadWasReviewed, [Next]_vars, nReviews' # nReviews \/ nComments' # nComments
               PROVE  wasCurrent
    OBVIOUS
  <2>1. CreateReview \/ \E f \in Findings : CreateComment(f)
    BY DEF Next, Attempt, Start, Guard, UpdateReview, UpdateComment, Finish, CallerEnds,
           Crash, Keeps, Push, Delete, vars, github
  <2> QED BY <2>1 DEF CreateReview, CreateComment, HeadWasReviewed
<1> QED
  BY <1>1, <1>2, HeadWasReviewedStep, TypeCorrect, PTL DEF Spec, PostedOnReviewedHead
-----------------------------------------------------------------------------
\* The rows that tell which objects are known: the committed ones between two
\* attempts, the session's during one.
Row == IF pc = "idle" THEN db ELSE session

Within(S, n) == IsFiniteSet(S) /\ Cardinality(S) <= n

\* A call is only made when the object the rows name is gone, or none is named:
\* so what exists beside it is bounded by the attempts that lost ids, and the
\* object of an unanswered call is paid for when its attempt ends.
StrayReviews ==
    /\ Within(reviews, lost + 1)
    /\ pc # "unanswered" => Within(reviews \ {Row.review}, lost)
    /\ pc = "recreate" => session.review \notin reviews

StrayComments(f) ==
    /\ Within(CommentsOf(f), lost + 1)
    /\ <<f, NoId>> \notin comments
    /\ pc # "unanswered" => Within(CommentsOf(f) \ {<<f, Row.comment[f]>>}, lost)
    /\ pc = "repost" /\ f \in reposting => <<f, session.comment[f]>> \notin comments

Strays == StrayReviews /\ \A f \in Findings : StrayComments(f)

\* Counting: a part of a set, a set with one element more, and the empty set.
LEMMA WithinPart ==
    ASSUME NEW S, NEW T \in SUBSET S, NEW m \in Nat, NEW n \in Nat, m <= n, Within(S, m)
    PROVE  Within(T, n)
<1>1. IsFiniteSet(T) /\ Cardinality(T) <= Cardinality(S)
  BY FS_Subset DEF Within
<1>2. Cardinality(S) \in Nat /\ Cardinality(T) \in Nat
  BY <1>1, FS_CardinalityType DEF Within
<1> QED BY <1>1, <1>2 DEF Within

LEMMA WithinAdd ==
    ASSUME NEW S, NEW x, NEW n \in Nat, Within(S, n)
    PROVE  Within(S \cup {x}, n + 1)
<1>1. /\ IsFiniteSet(S \cup {x})
      /\ Cardinality(S \cup {x}) = IF x \in S THEN Cardinality(S) ELSE Cardinality(S) + 1
  BY FS_AddElement DEF Within
<1>2. Cardinality(S) \in Nat
  BY FS_CardinalityType DEF Within
<1> QED BY <1>1, <1>2 DEF Within

\* A step that posts nothing and loses nothing keeps the counts: it may delete
\* what exists, change which findings are reposted, and mark rows.
LEMMA StraysQuiet ==
    ASSUME TypeOK, Strays, lost' = lost,
           reviews' \subseteq reviews, comments' \subseteq comments,
           pc' # "unanswered" => pc # "unanswered",
           Row'.review = Row.review, Row'.comment = Row.comment,
           pc' = "recreate" => session'.review \notin reviews',
           pc' = "repost" => \A f \in reposting' : <<f, session'.comment[f]>> \notin comments'
    PROVE  Strays'
<1>0. lost \in Nat /\ lost + 1 \in Nat /\ lost <= lost /\ lost + 1 <= lost + 1
  BY DEF TypeOK
<1>1. StrayReviews'
  <2>1. Within(reviews', lost + 1)
    BY <1>0, WithinPart DEF Strays, StrayReviews
  <2>2. ASSUME pc' # "unanswered" PROVE Within(reviews' \ {Row'.review}, lost)
    <3>1. Within(reviews \ {Row.review}, lost)
      BY <2>2 DEF Strays, StrayReviews
    <3>2. reviews' \ {Row'.review} \in SUBSET (reviews \ {Row.review})
      OBVIOUS
    <3> QED BY <1>0, <3>1, <3>2, WithinPart
  <2> QED BY <2>1, <2>2 DEF StrayReviews
<1>2. ASSUME NEW f \in Findings PROVE StrayComments(f)'
  <2>0. StrayComments(f) /\ CommentsOf(f)' \in SUBSET CommentsOf(f)
    BY DEF Strays, CommentsOf
  <2>1. Within(CommentsOf(f)', lost + 1)
    BY <1>0, <2>0, WithinPart DEF StrayComments
  <2>2. ASSUME pc' # "unanswered"
        PROVE  Within(CommentsOf(f)' \ {<<f, Row'.comment[f]>>}, lost)
    <3>1. Within(CommentsOf(f) \ {<<f, Row.comment[f]>>}, lost)
      BY <2>0, <2>2 DEF StrayComments
    <3>2. CommentsOf(f)' \ {<<f, Row'.comment[f]>>} \in SUBSET (CommentsOf(f) \ {<<f, Row.comment[f]>>})
      BY <2>0
    <3> QED BY <1>0, <3>1, <3>2, WithinPart
  <2>3. <<f, NoId>> \notin comments'
    BY <2>0 DEF StrayComments
  <2> QED BY <2>1, <2>2, <2>3 DEF StrayComments
<1> QED BY <1>1, <1>2 DEF Strays

\* At the end of an attempt the database keeps all the attempt knows, or the
\* attempt is counted as lost.
LEMMA StraysKeep ==
    ASSUME TypeOK, Strays, pc # "idle", NEW kept \in {session, db}, Keeps(kept)
    PROVE  Strays'
<1>0. /\ Row' = kept /\ pc' = "idle" /\ UNCHANGED <<reviews, comments>>
      /\ Row = session
  BY DEF Keeps, Row, github
<1>1. CASE pc # "unanswered" /\ kept = session
  <2>1. lost' = lost
    BY <1>1 DEF Keeps
  <2> QED BY <1>0, <1>1, <2>1, StraysQuiet
<1>2. CASE ~(pc # "unanswered" /\ kept = session)
  <2>1. /\ lost' = lost + 1 /\ lost + 1 \in Nat /\ lost' + 1 \in Nat
        /\ lost + 1 <= lost' + 1 /\ lost + 1 <= lost'
    BY <1>2 DEF Keeps, TypeOK
  <2>2. Within(reviews, lost' + 1) /\ \A x : Within(reviews \ {x}, lost')
    BY <2>1, WithinPart DEF Strays, StrayReviews
  <2>3. ASSUME NEW f \in Findings
        PROVE  Within(CommentsOf(f), lost' + 1) /\ \A x : Within(CommentsOf(f) \ {x}, lost')
    BY <2>1, WithinPart DEF Strays, StrayComments
  <2>4. \A f \in Findings : <<f, NoId>> \notin comments /\ CommentsOf(f)' = CommentsOf(f)
    BY <1>0 DEF Strays, StrayComments, CommentsOf
  <2> QED BY <1>0, <2>2, <2>3, <2>4 DEF Strays, StrayReviews, StrayComments
<1> QED BY <1>1, <1>2

\* A review is created when the one that the rows name is gone, or none is named.
LEMMA StraysCreateReview ==
    ASSUME TypeOK, Strays, CreateReview
    PROVE  Strays'
<1> DEFINE n == nReviews + 1
<1>0. /\ lost' = lost /\ lost \in Nat /\ pc \in {"review", "recreate"}
      /\ comments' = comments /\ session'.comment = session.comment
      /\ Row = session /\ Row' = session'
  BY DEF CreateReview, WithReview, Proceed, Fail, FailUnanswered, bounds, TypeOK, Rows, Row
<1>1. Within(reviews, lost)
  <2>1. session.review \notin reviews
    BY DEF CreateReview, Strays, StrayReviews, TypeOK, NoId
  <2>2. reviews \ {session.review} = reviews
    BY <2>1
  <2> QED BY <1>0, <2>2 DEF Strays, StrayReviews
<1>2. \A f \in Findings : StrayComments(f)'
  <2>1. pc' # "repost" /\ pc # "unanswered"
    BY DEF CreateReview, Proceed, Fail, FailUnanswered
  <2>2. \A f \in Findings : CommentsOf(f)' = CommentsOf(f)
    BY <1>0 DEF CommentsOf
  <2> QED BY <1>0, <2>1, <2>2 DEF Strays, StrayComments
<1>3. CASE UNCHANGED <<reviews, session>> /\ pc' = "failed"
  BY <1>0, <1>2, <1>3, StraysQuiet
<1>4. CASE reviews' = reviews \cup {n} /\ pc' = "unanswered"
  <2>1. Within(reviews', lost' + 1)
    BY <1>0, <1>1, <1>4, WithinAdd
  <2> QED BY <1>2, <1>4, <2>1 DEF Strays, StrayReviews
<1>5. CASE reviews' = reviews \cup {n} /\ pc' = "comments" /\ session' = WithReview(n)
  <2>1. Row'.review = n
    BY <1>0, <1>5 DEF WithReview, TypeOK, Rows
  <2>2. Within(reviews', lost' + 1)
    BY <1>0, <1>1, <1>5, WithinAdd
  <2>3. Within(reviews' \ {n}, lost')
    <3>1. reviews' \ {n} \in SUBSET reviews
      BY <1>5
    <3> QED BY <1>0, <1>1, <3>1, WithinPart
  <2> QED BY <1>2, <1>5, <2>1, <2>2, <2>3 DEF Strays, StrayReviews
<1> QED BY <1>3, <1>4, <1>5 DEF CreateReview, Proceed, Fail, FailUnanswered

\* A comment of f is posted when the one that the rows name is gone, or none is
\* named.
LEMMA StraysCreateComment ==
    ASSUME TypeOK, Strays, NEW f \in Findings, CreateComment(f)
    PROVE  Strays'
<1> DEFINE n == nComments[f] + 1
<1>0. /\ lost' = lost /\ lost \in Nat /\ pc \in {"comments", "repost"}
      /\ reviews' = reviews /\ n \in Id /\ n # NoId
      /\ Row = session /\ Row' = session'
  BY DEF CreateComment, Proceed, Fail, FailUnanswered, bounds, TypeOK, Row, Id, NoId
<1>1. Within(CommentsOf(f), lost)
  <2>1. <<f, session.comment[f]>> \notin comments
    BY DEF CreateComment, Existing, Strays, StrayComments
  <2>2. CommentsOf(f) \ {<<f, session.comment[f]>>} = CommentsOf(f)
    BY <2>1 DEF CommentsOf
  <2> QED BY <1>0, <2>2 DEF Strays, StrayComments
<1>2. CASE UNCHANGED <<comments, session>> /\ pc' = "failed"
  BY <1>0, <1>2, StraysQuiet
<1>3. ASSUME comments' = comments \cup {<<f, n>>}
      PROVE  /\ CommentsOf(f)' = CommentsOf(f) \cup {<<f, n>>}
             /\ Within(CommentsOf(f)', lost' + 1)
             /\ Within(CommentsOf(f)' \ {<<f, n>>}, lost')
             /\ \A g \in Findings \ {f} : CommentsOf(g)' = CommentsOf(g)
             /\ \A g \in Findings : <<g, NoId>> \notin comments'
  <2>1. CommentsOf(f)' = CommentsOf(f) \cup {<<f, n>>}
    BY <1>3 DEF CommentsOf
  <2>2. Within(CommentsOf(f)', lost' + 1)
    BY <1>0, <1>1, <2>1, WithinAdd
  <2>3. CommentsOf(f)' \ {<<f, n>>} \in SUBSET CommentsOf(f)
    BY <2>1
  <2>4. Within(CommentsOf(f)' \ {<<f, n>>}, lost')
    BY <1>0, <1>1, <2>3, WithinPart
  <2>5. \A g \in Findings \ {f} : CommentsOf(g)' = CommentsOf(g)
    BY <1>3 DEF CommentsOf
  <2>6. \A g \in Findings : <<g, NoId>> \notin comments'
    BY <1>0, <1>3 DEF Strays, StrayComments
  <2> QED BY <2>1, <2>2, <2>4, <2>5, <2>6
<1>4. CASE comments' = comments \cup {<<f, n>>} /\ pc' = "unanswered"
  <2>1. StrayReviews'
    BY <1>0, <1>4 DEF Strays, StrayReviews
  <2>2. \A g \in Findings : StrayComments(g)'
    BY <1>0, <1>3, <1>4 DEF Strays, StrayComments
  <2> QED BY <2>1, <2>2 DEF Strays
<1>5. CASE /\ comments' = comments \cup {<<f, n>>} /\ pc' = "comments"
           /\ session' = WithComment(f, n)
  <2>1. /\ session'.review = session.review
        /\ session'.comment = [session.comment EXCEPT ![f] = n]
    BY <1>0, <1>5, StoredComment
  <2>2. session.comment \in [Findings -> Id]
    BY DEF TypeOK, Rows
  <2>3. StrayReviews'
    BY <1>0, <1>5, <2>1 DEF Strays, StrayReviews
  <2>4. StrayComments(f)'
    BY <1>0, <1>3, <1>5, <2>1, <2>2 DEF StrayComments
  <2>5. \A g \in Findings \ {f} : StrayComments(g)'
    BY <1>0, <1>3, <1>5, <2>1, <2>2 DEF Strays, StrayComments
  <2> QED BY <2>3, <2>4, <2>5 DEF Strays
<1> QED BY <1>2, <1>4, <1>5 DEF CreateComment, Proceed, Fail, FailUnanswered

LEMMA StraysStep == TypeOK /\ IdsAgree /\ Strays /\ [Next]_vars => Strays'
<1> SUFFICES ASSUME TypeOK, IdsAgree, Strays, [Next]_vars PROVE Strays'
  OBVIOUS
<1>1. CASE Start
  <2>1. Row' = Row /\ lost' = lost /\ pc' = "guard" /\ pc # "unanswered"
        /\ UNCHANGED <<reviews, comments>>
    BY <1>1 DEF Start, Row, github
  <2> QED BY <2>1, StraysQuiet
<1>2. CASE Guard
  <2>1. /\ Row' = Row /\ lost' = lost /\ pc' \in {"review", "failed"} /\ pc # "unanswered"
        /\ UNCHANGED <<reviews, comments>>
    BY <1>2 DEF Guard, Proceed, Fail, Row, rows, github, bounds
  <2> QED BY <2>1, StraysQuiet
<1>3. CASE UpdateReview
  <2>1. /\ Row' = Row /\ lost' = lost /\ pc # "unanswered" /\ session' = session
        /\ pc' \in {"comments", "recreate", "failed"}
        /\ UNCHANGED <<reviews, comments>>
        /\ pc' = "recreate" => session.review \notin reviews
    BY <1>3 DEF UpdateReview, Proceed, Fail, Row, rows, github, bounds
  <2> QED BY <2>1, StraysQuiet
<1>4. CASE CreateReview
  BY <1>4, StraysCreateReview
<1>5. ASSUME NEW f \in Findings, UpdateComment(f) PROVE Strays'
  <2>1. /\ session'.comment = session.comment /\ session'.review = session.review
        /\ UNCHANGED <<reviews, comments, db, lost>>
        /\ pc' \in {"comments", "repost", "failed"} /\ pc = "comments"
    BY <1>5 DEF UpdateComment, TypeOK, Rows, Proceed, Fail, github, bounds
  <2>2. Existing(f) = session.comment[f]
    BY <1>5 DEF UpdateComment, Existing, IdsAgree
  <2>3. pc' = "repost" => \A g \in reposting' : <<g, session.comment[g]>> \notin comments
    BY <1>5, <2>2 DEF UpdateComment, Exists, Proceed, Fail
  <2>4. Row'.review = Row.review /\ Row'.comment = Row.comment
    BY <2>1 DEF Row
  <2> QED BY <2>1, <2>3, <2>4, StraysQuiet
<1>6. ASSUME NEW f \in Findings, CreateComment(f) PROVE Strays'
  BY <1>6, StraysCreateComment
<1>7. CASE Finish
  <2>1. /\ session'.comment = session.comment /\ session'.review = session.review
        /\ UNCHANGED <<reviews, comments, lost>> /\ pc = "comments" /\ pc' = "finished"
    BY <1>7 DEF Finish, Proceed, TypeOK, Rows, github, bounds
  <2>2. Row'.review = Row.review /\ Row'.comment = Row.comment
    BY <2>1 DEF Row
  <2> QED BY <2>1, <2>2, StraysQuiet
<1>8. CASE CallerEnds \/ Crash
  <2>1. PICK kept \in {session, db} : Keeps(kept) /\ pc # "idle"
    BY <1>8 DEF CallerEnds, Crash
  <2> QED BY <2>1, StraysKeep
<1>9. CASE Push \/ UNCHANGED vars
  <2>1. Row' = Row /\ UNCHANGED <<pc, reviews, comments, lost, session, reposting>>
    BY <1>9 DEF Push, vars, rows, github, bounds, Row
  <2>2. /\ pc = "recreate" => session.review \notin reviews
        /\ pc = "repost" => \A f \in reposting : <<f, session.comment[f]>> \notin comments
    BY DEF Strays, StrayReviews, StrayComments, TypeOK
  <2> QED BY <2>1, <2>2, StraysQuiet
<1>10. CASE Delete
  <2>1. /\ Row' = Row /\ UNCHANGED <<pc, lost, session, reposting>>
        /\ reviews' \subseteq reviews /\ comments' \subseteq comments
    BY <1>10 DEF Delete, rows, Row
  <2>2. /\ pc = "recreate" => session.review \notin reviews
        /\ pc = "repost" => \A f \in reposting : <<f, session.comment[f]>> \notin comments
    BY DEF Strays, StrayReviews, StrayComments, TypeOK
  <2> QED BY <2>1, <2>2, StraysQuiet
<1> QED
  BY <1>1, <1>2, <1>3, <1>4, <1>5, <1>6, <1>7, <1>8, <1>9, <1>10 DEF Next, Attempt

\* What retrying can cost: for any number of attempts, pushes, deletions and
\* crashes, one more review and one more comment per finding for each attempt
\* whose ids did not all reach the database.
THEOREM RetryCostBounded == Spec => []DuplicatesBounded
<1>1. Init => Strays
  <2> SUFFICES ASSUME Init PROVE Strays
    OBVIOUS
  <2>1. Within({}, 0) /\ Within({}, 1)
    BY FS_EmptySet DEF Within
  <2>2. \A x : {} \ {x} = {}
    OBVIOUS
  <2>3. \A f \in Findings : CommentsOf(f) = {}
    BY DEF Init, CommentsOf
  <2> QED BY <2>1, <2>2, <2>3 DEF Init, Strays, StrayReviews, StrayComments
<1>2. TypeOK /\ Strays => DuplicatesBounded
  <2>1. TypeOK => lost + 1 = 1 + lost
    BY DEF TypeOK
  <2> QED BY <2>1 DEF Strays, StrayReviews, StrayComments, Within, DuplicatesBounded
<1> QED BY <1>1, <1>2, StraysStep, TypeCorrect, IdsAlwaysAgree, PTL DEF Spec

-----------------------------------------------------------------------------
\* The findings an attempt has handled are visible, or deleted since it began.
Handled ==
    /\ pc \in {"guard", "review", "recreate"} => todo = Findings
    /\ pc \in {"comments", "repost", "finished"} =>
          \A f \in Findings \ todo : <<f, session.comment[f]>> \in comments \cup gone
    /\ pc = "finished" => todo = {}

LEMMA HandledStep == TypeOK /\ IdsAgree /\ Handled /\ [Next]_vars => Handled'
<1> SUFFICES ASSUME TypeOK, IdsAgree, Handled, [Next]_vars PROVE Handled'
  OBVIOUS
<1>1. CASE Start \/ Guard \/ UpdateReview
  BY <1>1 DEF Start, Guard, UpdateReview, Proceed, Fail, Handled, rows, github
<1>2. CASE CreateReview
  <2>1. todo' = todo /\ todo = Findings /\ pc' \in {"comments", "failed", "unanswered"}
    BY <1>2 DEF CreateReview, Handled, Proceed, Fail, FailUnanswered
  <2> QED BY <2>1 DEF Handled
<1>3. ASSUME NEW f \in Findings, UpdateComment(f) PROVE Handled'
  <2>1. /\ session'.comment = session.comment /\ UNCHANGED <<comments, gone>>
        /\ pc = "comments" /\ pc' \in {"comments", "repost", "failed"}
    BY <1>3 DEF UpdateComment, TypeOK, Rows, Proceed, Fail, github
  <2>2. Existing(f) = session.comment[f]
    BY <1>3 DEF UpdateComment, Existing, IdsAgree
  <2>3. todo' = todo \/ (todo' = todo \ {f} /\ <<f, session.comment[f]>> \in comments)
    BY <1>3, <2>2 DEF UpdateComment, Exists
  <2> QED BY <2>1, <2>3 DEF Handled
<1>4. ASSUME NEW f \in Findings, CreateComment(f) PROVE Handled'
  <2> DEFINE n == nComments[f] + 1
  <2>0. n \in Id
    BY DEF TypeOK, Id
  <2>1. pc \in {"comments", "repost"} /\ gone' = gone
    BY <1>4 DEF CreateComment
  <2>2. CASE pc' \in {"failed", "unanswered"}
    BY <2>2 DEF Handled
  <2>3. CASE /\ comments' = comments \cup {<<f, n>>} /\ pc' = "comments"
             /\ todo' = todo \ {f} /\ session' = WithComment(f, n)
    <3>1. session'.comment = [session.comment EXCEPT ![f] = n]
      BY <2>0, <2>3, StoredComment
    <3>2. session.comment \in [Findings -> Id]
      BY DEF TypeOK, Rows
    <3> QED BY <2>1, <2>3, <3>1, <3>2 DEF Handled
  <2> QED BY <1>4, <2>2, <2>3 DEF CreateComment, Proceed, Fail, FailUnanswered
<1>5. CASE Finish
  <2>1. session'.comment = session.comment
    BY <1>5 DEF Finish, TypeOK, Rows
  <2> QED BY <1>5, <2>1 DEF Finish, Proceed, Handled, github
<1>6. CASE CallerEnds \/ Crash
  BY <1>6 DEF CallerEnds, Crash, Keeps, Handled
<1>7. CASE Push \/ UNCHANGED vars
  BY <1>7 DEF Push, vars, Handled, rows, github
<1>8. CASE Delete
  <2>1. comments \cup gone \subseteq comments' \cup gone' /\ UNCHANGED <<pc, todo, session>>
    BY <1>8 DEF Delete, rows
  <2> QED BY <2>1 DEF Handled
<1> QED
  BY <1>1, <1>2, <1>3, <1>4, <1>5, <1>6, <1>7, <1>8 DEF Next, Attempt

\* A successful attempt leaves every publishable finding with the comment its
\* row names, unless someone deleted it while the attempt ran.
THEOREM SuccessShowsAll == Spec => []SuccessIsVisible
<1>1. Init => Handled
  BY DEF Init, Handled
<1>2. Handled => SuccessIsVisible
  BY DEF Handled, SuccessIsVisible
<1> QED BY <1>1, <1>2, HandledStep, TypeCorrect, IdsAlwaysAgree, PTL DEF Spec
==============================================================================

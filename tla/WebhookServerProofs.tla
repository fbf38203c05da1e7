------------------------- MODULE WebhookServerProofs -------------------------
(***************************************************************************)
(* Proofs about the server process: the types of its state, persistence    *)
(* before dispatch, and that the server implements EventPipeline, for any  *)
(* requests, deliveries, pull requests, quiet period and restarts.         *)
(***************************************************************************)
EXTENDS WebhookServer, FiniteSetTheorems, TLAPS

\* The bound on schedule() calls that the server gives the debounce manager.
N == Cardinality(Requests)

Review == D!Review

\* The variables of the handler, the database and the histories.
ServerTypes ==
    /\ stage \in [Requests -> {"unsent", "verified", "found", "over"}]
    /\ carries \in [Requests -> Deliveries]
    /\ answer \in [Requests -> Answers]
    /\ background \subseteq Requests
    /\ installed \in BOOLEAN
    /\ events \subseteq Deliveries
    /\ crashes \in 0 .. MaxCrashes
    /\ enqueued \in [PRs -> Nat]
    /\ ticket \in [Deliveries -> 0 .. N]
    /\ served \subseteq Deliveries

\* One request for a delivery is told "accepted", for an event that is in the
\* table as long as the installation is; it is dispatched once, and only then is
\* its event routed and served.
Accounted ==
    /\ \A q \in Requests : answer[q] = Accepted =>
         stage[q] = "over" /\ (installed => carries[q] \in events)
    /\ \A q \in background : answer[q] = Accepted
    /\ \A p, q \in Requests :
         answer[p] = Accepted /\ answer[q] = Accepted /\ carries[p] = carries[q] => p = q
    /\ \A d \in Deliveries : ticket[d] # 0 \/ d \in served =>
         \E q \in Requests : answer[q] = Accepted /\ carries[q] = d /\ q \notin background

\* The debounce manager: the timer of a pull request is the registered one and
\* that of its last call; a task that will run is the registered one, and alone.
Slots ==
    /\ \A r \in Review : r \in armed => pending[r[1]] = r[2] /\ task[r] = "none"
    /\ \A r \in Review : r[2] > calls[r[1]] => r \notin armed /\ task[r] = "none"
    /\ \A r \in Review : task[r] = "created" /\ r \notin cancelling => inFlight[r[1]] = r[2]
    /\ \A r, s \in Review :
         task[r] = "created" /\ task[s] = "created" /\ r[1] = s[1] => r = s

\* A review whose timer is armed, or whose task will run.
Live(r) == r \in armed \/ (task[r] = "created" /\ r \notin cancelling)

\* It is the last one of its pull request, and owed to an event that it will be
\* the first to serve.
Owing ==
    \A r \in Review : Live(r) =>
        /\ r[2] = calls[r[1]]
        /\ \E d \in Deliveries : ticket[d] = r[2] /\ Subject[d] = r[1] /\ d \notin served

\* The requests that may still be routed, and the reviews of k that may still be
\* enqueued: with those that were, never more than there are requests.
ToRoute == {q \in Requests : stage[q] # "over" \/ q \in background}
ToEnqueue(k) == {v \in 1 .. N : <<k, v>> \in armed \/ task[<<k, v>>] = "created"}
Budget ==
    \A k \in PRs : enqueued[k] + Cardinality(ToEnqueue(k)) + Cardinality(ToRoute) <= N

Inv == ServerTypes /\ D!TypeOK /\ Accounted /\ Slots /\ Owing /\ Budget

-----------------------------------------------------------------------------
\* What the assumption on the constants gives.
LEMMA ConstantFacts ==
    /\ N \in Nat /\ IsFiniteSet(Requests) /\ MaxCrashes \in Nat /\ QuietPeriod \in Nat \ {0}
    /\ NoPR \notin PRs /\ Subject \in [Deliveries -> PRs \cup {NoPR}]
<1>1. IsFiniteSet(Requests)
  BY WebhookAssumption
<1>2. N \in Nat
  BY <1>1, FS_CardinalityType DEF N
<1> QED
  BY <1>1, <1>2, WebhookAssumption

\* The components of a review.
LEMMA ReviewParts ==
    /\ \A k \in PRs, v \in 1 .. N :
         <<k, v>> \in Review /\ <<k, v>>[1] = k /\ <<k, v>>[2] = v
    /\ \A r \in Review : r[1] \in PRs /\ r[2] \in 1 .. N /\ r = <<r[1], r[2]>>
BY DEF Review, D!Review, D!Versions, N

\* No other answer is taken for an acceptance.
LEMMA AnswersDiffer ==
    /\ Accepted \in Answers /\ Duplicate \in Answers /\ ServerError \in Answers
    /\ UnknownInstallation \in Answers /\ NoAnswer \in Answers
    /\ Duplicate # Accepted /\ ServerError # Accepted /\ UnknownInstallation # Accepted
    /\ NoAnswer # Accepted
    /\ \A flaws \in SUBSET Flaws : flaws # {} =>
         <<FirstFlaw(flaws), "error">> \in Answers /\ <<FirstFlaw(flaws), "error">> # Accepted
<1>1. /\ Accepted \in Answers /\ Duplicate \in Answers /\ ServerError \in Answers
      /\ UnknownInstallation \in Answers /\ NoAnswer \in Answers
  BY DEF Answers
<1>2. /\ Duplicate # Accepted /\ ServerError # Accepted /\ UnknownInstallation # Accepted
      /\ NoAnswer # Accepted
  BY DEF Duplicate, ServerError, UnknownInstallation, NoAnswer, Accepted
<1>3. ASSUME NEW flaws \in SUBSET Flaws, flaws # {}
      PROVE  <<FirstFlaw(flaws), "error">> \in Answers /\ <<FirstFlaw(flaws), "error">> # Accepted
  <2> DEFINE I == {i \in DOMAIN Checks : Checks[i][1] \in flaws}
  <2>1. DOMAIN Checks = 1 .. 4
    BY DEF Checks
  <2>2. I \in SUBSET (1 .. 4) /\ I # {}
    BY <1>3, <2>1 DEF Flaws
  <2>3. Min(I) \in I
    <3> HIDE DEF I
    <3>1. \E m \in I : \A i \in I : m <= i
      <4>1. \A i \in I : i \in {1, 2, 3, 4}
        BY <2>2
      <4>2. CASE 1 \in I
        BY <4>1, <4>2
      <4>3. CASE 1 \notin I /\ 2 \in I
        BY <4>1, <4>3
      <4>4. CASE 1 \notin I /\ 2 \notin I /\ 3 \in I
        BY <4>1, <4>4
      <4>5. CASE 1 \notin I /\ 2 \notin I /\ 3 \notin I
        <5>1. PICK i \in I : TRUE
          BY <2>2
        <5>2. 4 \in I /\ \A j \in I : j = 4
          BY <4>1, <4>5, <5>1
        <5> QED
          BY <5>2
      <4> QED
        BY <4>2, <4>3, <4>4, <4>5
    <3> QED
      BY <3>1 DEF Min
  <2>4. Min(I) \in DOMAIN Checks
    BY <2>3
  <2>5. FirstFlaw(flaws) = Checks[Min(I)][2]
    BY DEF FirstFlaw
  <2>6. <<FirstFlaw(flaws), "error">> \in Refusals
    <3> HIDE DEF I
    <3> QED
      BY <2>4, <2>5 DEF Refusals
  <2> QED
    BY <2>6 DEF Answers, Accepted
<1> QED
  BY <1>1, <1>2, <1>3

\* A step that leaves the debounce manager, the tickets and what was served.
LEMMA LoopKept ==
    ASSUME Inv, UNCHANGED loop, ticket' = ticket, served' = served
    PROVE  D!TypeOK' /\ Slots' /\ Owing'
<1>1. D!TypeOK'
  BY DEF Inv, loop, D!TypeOK
<1>2. Slots'
  BY DEF Inv, loop, Slots
<1>3. Owing'
  BY DEF Inv, loop, Owing, Live
<1> QED
  BY <1>1, <1>2, <1>3

\* The counts of Budget are numbers.
LEMMA Counts ==
    ASSUME ServerTypes
    PROVE  /\ IsFiniteSet(ToRoute) /\ Cardinality(ToRoute) \in Nat
           /\ \A k \in PRs : /\ enqueued[k] \in Nat
                             /\ IsFiniteSet(ToEnqueue(k)) /\ Cardinality(ToEnqueue(k)) \in Nat
<1>1. IsFiniteSet(ToRoute)
  BY ConstantFacts, FS_Subset DEF ToRoute
<1>2. ASSUME NEW k \in PRs PROVE IsFiniteSet(ToEnqueue(k))
  <2>1. IsFiniteSet(1 .. N)
    BY ConstantFacts, FS_Interval
  <2>2. ToEnqueue(k) \subseteq 1 .. N
    BY DEF ToEnqueue
  <2> QED
    BY <2>1, <2>2, FS_Subset
<1> QED
  BY <1>1, <1>2, FS_CardinalityType DEF ServerTypes

\* A step after which no more may be routed or enqueued.
LEMMA BudgetKept ==
    ASSUME ServerTypes, Budget, enqueued' = enqueued, ToRoute' \subseteq ToRoute,
           \A k \in PRs : ToEnqueue(k)' \subseteq ToEnqueue(k)
    PROVE  Budget'
<1> SUFFICES ASSUME NEW k \in PRs
             PROVE  enqueued[k] + Cardinality(ToEnqueue(k)') + Cardinality(ToRoute') <= N
  BY DEF Budget, N
<1>1. Cardinality(ToRoute') \in Nat /\ Cardinality(ToRoute') <= Cardinality(ToRoute)
  BY Counts, FS_Subset, FS_CardinalityType
<1>2. Cardinality(ToEnqueue(k)') \in Nat /\ Cardinality(ToEnqueue(k)') <= Cardinality(ToEnqueue(k))
  BY Counts, FS_Subset, FS_CardinalityType
<1>3. enqueued[k] + Cardinality(ToEnqueue(k)) + Cardinality(ToRoute) <= N
  BY DEF Budget
<1> QED
  BY <1>1, <1>2, <1>3, Counts, ConstantFacts

-----------------------------------------------------------------------------
\* Nothing is accepted, routed or enqueued at first.
LEMMA InvInit == Init => Inv
<1> SUFFICES ASSUME Init PROVE Inv
  OBVIOUS
<1> USE ConstantFacts
<1>1. ServerTypes
  BY AnswersDiffer DEF Init, ServerTypes
<1>2. D!TypeOK
  BY DEF Init, D!Init, D!TypeOK, D!TaskState, D!None, N
<1>3. Accounted
  BY AnswersDiffer DEF Init, Accounted
<1>4. Slots /\ Owing
  BY DEF Init, D!Init, Slots, Owing, Live, Review
<1>5. Budget
  <2> SUFFICES ASSUME NEW k \in PRs
               PROVE  enqueued[k] + Cardinality(ToEnqueue(k)) + Cardinality(ToRoute) <= N
    BY DEF Budget
  <2>1. enqueued[k] = 0 /\ ToRoute \subseteq Requests
    BY DEF Init, ToRoute
  <2>2. ToEnqueue(k) = {}
    BY ReviewParts DEF Init, D!Init, ToEnqueue, Review
  <2>3. Cardinality(ToEnqueue(k)) = 0
    BY <2>2, FS_EmptySet
  <2>4. Cardinality(ToRoute) \in Nat /\ Cardinality(ToRoute) <= N
    BY <2>1, FS_Subset, FS_CardinalityType DEF N
  <2> QED
    BY <2>1, <2>3, <2>4
<1> QED
  BY <1>1, <1>2, <1>3, <1>4, <1>5 DEF Inv

\* Steps of the handler before the commit: an answer is no acceptance.
LEMMA InvAnswer ==
    ASSUME Inv, NEW q \in Requests, NEW a \in Answers, a # Accepted,
           stage[q] # "over", Finish(q, a),
           UNCHANGED <<carries, background, installed, crashes, history, loop>>,
           events' \in SUBSET Deliveries, events \subseteq events'
    PROVE  Inv'
<1>1. /\ stage' = [stage EXCEPT ![q] = "over"] /\ answer' = [answer EXCEPT ![q] = a]
      /\ carries' = carries /\ background' = background /\ installed' = installed
      /\ crashes' = crashes /\ enqueued' = enqueued /\ ticket' = ticket /\ served' = served
  BY DEF Finish, history
<1>2. ServerTypes'
  BY <1>1 DEF Inv, ServerTypes
<1>3. Accounted'
  BY <1>1 DEF Inv, ServerTypes, Accounted
<1>4. D!TypeOK' /\ Slots' /\ Owing'
  BY <1>1, LoopKept
<1>5. Budget'
  <2>1. ToRoute' \subseteq ToRoute
    BY <1>1 DEF Inv, ServerTypes, ToRoute
  <2>2. \A k \in PRs : ToEnqueue(k)' = ToEnqueue(k)
    BY DEF ToEnqueue, loop
  <2> QED
    BY <1>1, <2>1, <2>2, BudgetKept DEF Inv
<1> QED
  BY <1>2, <1>3, <1>4, <1>5 DEF Inv

\* Steps of the handler to its next query.
LEMMA InvAdvance ==
    ASSUME Inv, NEW q \in Requests, NEW place \in {"verified", "found"},
           stage[q] \in {"unsent", "verified"}, stage' = [stage EXCEPT ![q] = place],
           UNCHANGED <<answer, carries, background, database, crashes, history, loop>>
    PROVE  Inv'
<1>1. /\ carries' = carries /\ background' = background /\ installed' = installed
      /\ answer' = answer /\ events' = events
      /\ crashes' = crashes /\ enqueued' = enqueued /\ ticket' = ticket /\ served' = served
  BY DEF history, database
<1>2. ServerTypes'
  BY <1>1 DEF Inv, ServerTypes
<1>3. Accounted'
  BY <1>1 DEF Inv, ServerTypes, Accounted
<1>4. D!TypeOK' /\ Slots' /\ Owing'
  BY <1>1, LoopKept
<1>5. Budget'
  <2>1. ToRoute' \subseteq ToRoute
    BY <1>1 DEF Inv, ServerTypes, ToRoute
  <2>2. \A k \in PRs : ToEnqueue(k)' = ToEnqueue(k)
    BY DEF ToEnqueue, loop
  <2> QED
    BY <1>1, <2>1, <2>2, BudgetKept DEF Inv
<1> QED
  BY <1>2, <1>3, <1>4, <1>5 DEF Inv

\* The commit: an acceptance is the first for its delivery, and dispatched.
LEMMA InvCommit ==
    ASSUME Inv, NEW q \in Requests, Commit(q)
    PROVE  Inv'
<1> DEFINE d == carries[q]
           a == Outcome(d)
<1>1. /\ stage[q] = "found"
      /\ stage' = [stage EXCEPT ![q] = "over"] /\ answer' = [answer EXCEPT ![q] = a]
      /\ events' = IF a = Accepted THEN events \cup {d} ELSE events
      /\ background' = IF a = Accepted THEN background \cup {q} ELSE background
      /\ carries' = carries /\ installed' = installed
      /\ crashes' = crashes /\ enqueued' = enqueued /\ ticket' = ticket /\ served' = served
      /\ UNCHANGED loop
  BY DEF Commit, Finish, Recorded, Dispatched, history
<1>2. d \in Deliveries
  BY DEF Inv, ServerTypes
<1>3. a \in {Accepted, Duplicate} /\ (a = Accepted => installed /\ d \notin events)
  BY AnswersDiffer DEF Outcome
<1> HIDE DEF a
<1>4. ServerTypes'
  BY <1>1, <1>2, <1>3, AnswersDiffer DEF Inv, ServerTypes
<1>5. Accounted'
  BY <1>1, <1>2, <1>3, AnswersDiffer DEF Inv, ServerTypes, Accounted
<1>6. D!TypeOK' /\ Slots' /\ Owing'
  BY <1>1, LoopKept
<1>7. Budget'
  <2>1. ToRoute' \subseteq ToRoute
    BY <1>1 DEF Inv, ServerTypes, ToRoute
  <2>2. \A k \in PRs : ToEnqueue(k)' = ToEnqueue(k)
    BY <1>1 DEF ToEnqueue, loop
  <2> QED
    BY <1>1, <2>1, <2>2, BudgetKept DEF Inv
<1> QED
  BY <1>4, <1>5, <1>6, <1>7 DEF Inv

\* The first steps of the handler, and a commit that fails.
LEMMA InvHandler ==
    ASSUME Inv, NEW q \in Requests,
           \/ \E flaws \in SUBSET Flaws : Receive(q, flaws)
           \/ Lookup(q) \/ Commit(q) \/ CommitFails(q)
    PROVE  Inv'
<1>0. events \subseteq Deliveries /\ q \in Requests /\ carries[q] \in Deliveries
  BY DEF Inv, ServerTypes
<1>1. ASSUME NEW flaws \in SUBSET Flaws, Receive(q, flaws) PROVE Inv'
  <2>1. /\ stage[q] = "unsent" /\ UNCHANGED <<carries, background, database, crashes, history, loop>>
        /\ installed' = installed /\ events' = events
    BY <1>1 DEF Receive, database
  <2>2. CASE flaws = {} /\ stage' = [stage EXCEPT ![q] = "verified"] /\ UNCHANGED answer
    BY <2>1, <2>2, InvAdvance
  <2>3. CASE flaws # {} /\ Finish(q, <<FirstFlaw(flaws), "error">>)
    BY <1>0, <2>1, <2>3, InvAnswer, AnswersDiffer
  <2> QED
    BY <1>1, <2>2, <2>3 DEF Receive
<1>2. CASE Lookup(q)
  <2>1. /\ stage[q] = "verified" /\ UNCHANGED <<carries, background, database, crashes, history, loop>>
        /\ installed' = installed /\ events' = events
    BY <1>2 DEF Lookup, database
  <2>2. CASE stage' = [stage EXCEPT ![q] = "found"] /\ UNCHANGED answer
    BY <2>1, <2>2, InvAdvance
  <2>3. CASE Finish(q, UnknownInstallation) \/ Finish(q, ServerError)
    BY <1>0, <2>1, <2>3, InvAnswer, AnswersDiffer
  <2> QED
    BY <1>2, <2>2, <2>3 DEF Lookup
<1>3. CASE CommitFails(q)
  <2>1. /\ stage[q] = "found" /\ Finish(q, ServerError)
        /\ UNCHANGED <<carries, background, installed, crashes, history, loop>>
        /\ events' = events \/ events' = Recorded(carries[q], Outcome(carries[q]))
    BY <1>3 DEF CommitFails
  <2>2. events' \in SUBSET Deliveries /\ events \subseteq events'
    BY <1>0, <2>1 DEF Recorded
  <2> QED
    BY <2>1, <2>2, InvAnswer, AnswersDiffer
<1> QED
  BY <1>1, <1>2, <1>3, InvCommit

-----------------------------------------------------------------------------
\* schedule(): what was registered for k is cancelled, the new review is armed.
LEMMA ScheduleFacts ==
    ASSUME D!TypeOK, Slots, NEW k \in PRs, D!Schedule(k)
    PROVE  /\ calls[k] + 1 \in 1 .. N /\ calls' = [calls EXCEPT ![k] = @ + 1]
           /\ task' = task
           /\ \A r \in Review : r[1] = k =>
                /\ r \in armed' <=> r[2] = calls[k] + 1
                /\ task[r] = "created" => r \in cancelling'
           /\ \A r \in Review : r[1] # k =>
                /\ r \in armed' <=> r \in armed
                /\ r \in cancelling' <=> r \in cancelling
                /\ pending'[r[1]] = pending[r[1]] /\ inFlight'[r[1]] = inFlight[r[1]]
           /\ pending'[k] = calls[k] + 1
           /\ D!TypeOK'
<1> USE ConstantFacts, ReviewParts
<1>1. /\ calls \in [PRs -> 0 .. N] /\ armed \subseteq Review /\ left \in [Review -> 0 .. QuietPeriod]
      /\ pending \in [PRs -> 1 .. N \cup {0}] /\ inFlight \in [PRs -> 1 .. N \cup {0}]
      /\ cancelling \subseteq Review /\ quiet \in [PRs -> 0 .. QuietPeriod]
  BY DEF D!TypeOK, D!Versions, D!None, N, Review
<1> DEFINE v == calls[k] + 1
<1>2. /\ calls[k] < N /\ calls' = [calls EXCEPT ![k] = v]
      /\ armed' = (armed \ {<<k, pending[k]>>}) \cup {<<k, v>>}
      /\ left' = [left EXCEPT ![<<k, v>>] = QuietPeriod]
      /\ pending' = [pending EXCEPT ![k] = v]
      /\ cancelling' = cancelling \cup {r \in Review : r = <<k, inFlight[k]>>}
      /\ inFlight' = [inFlight EXCEPT ![k] = 0]
      /\ quiet' = [quiet EXCEPT ![k] = 0]
      /\ task' = task /\ withdrawn' = withdrawn /\ orphaned' = orphaned
  BY DEF D!Schedule, D!Rearmed, D!TimersAfterCancel, D!TasksAfterCancel, D!Arm, D!None, N, Review
<1>3. v \in 1 .. N
  BY <1>1, <1>2
<1>4. <<k, v>> \in Review
  BY <1>3
<1>5. calls' = [calls EXCEPT ![k] = @ + 1]
  BY <1>2
<1>6. \A r \in Review : r[1] = k => (r \in armed' <=> r[2] = v)
  BY <1>2, <1>3 DEF Slots
<1>7. \A r \in Review : r[1] = k /\ task[r] = "created" => r \in cancelling'
  BY <1>2 DEF Slots
<1>8. \A r \in Review : r[1] # k => (r \in armed' <=> r \in armed) /\ (r \in cancelling' <=> r \in cancelling)
  BY <1>2
<1>9. \A r \in Review : r[1] # k => pending'[r[1]] = pending[r[1]] /\ inFlight'[r[1]] = inFlight[r[1]]
  BY <1>1, <1>2
<1>10. pending'[k] = v
  BY <1>1, <1>2
<1>11. D!TypeOK'
  <2>1. armed' \subseteq Review /\ cancelling' \subseteq Review
    BY <1>1, <1>2, <1>4
  <2>2. left' \in [Review -> 0 .. QuietPeriod]
    BY <1>1, <1>2
  <2>3. quiet' \in [PRs -> 0 .. QuietPeriod]
    BY <1>1, <1>2
  <2>4. calls' \in [PRs -> 0 .. N]
    BY <1>1, <1>2, <1>3
  <2>5. pending' \in [PRs -> 1 .. N \cup {0}] /\ inFlight' \in [PRs -> 1 .. N \cup {0}]
    BY <1>1, <1>2, <1>3
  <2> QED
    BY <1>2, <2>1, <2>2, <2>3, <2>4, <2>5 DEF D!TypeOK, D!Versions, D!None, N, Review
<1> QED
  BY <1>3, <1>5, <1>2, <1>6, <1>7, <1>8, <1>9, <1>10, <1>11

\* Routing: the event of an accepted request has not been served, so the review
\* that it arms owes something; the earlier reviews of its pull request are off.
LEMMA InvRoute ==
    ASSUME Inv, NEW q \in Requests, Route(q)
    PROVE  Inv'
<1> DEFINE d == carries[q]
           k == Subject[d]
<1> USE ConstantFacts, ReviewParts
<1>1. /\ q \in background /\ background' = background \ {q}
      /\ stage' = stage /\ carries' = carries /\ answer' = answer
      /\ installed' = installed /\ events' = events
      /\ crashes' = crashes /\ enqueued' = enqueued /\ served' = served
  BY DEF Route, database
<1>2. d \in Deliveries /\ answer[q] = Accepted /\ stage[q] = "over"
  BY <1>1 DEF Inv, ServerTypes, Accounted
<1>3. ticket[d] = 0 /\ d \notin served
  BY <1>1, <1>2 DEF Inv, Accounted
<1>4. ToRoute' = ToRoute \ {q} /\ q \in ToRoute
  BY <1>1, <1>2 DEF ToRoute
<1>5. CASE k = NoPR /\ UNCHANGED <<loop, ticket>>
  <2>1. ServerTypes'
    BY <1>1, <1>5 DEF Inv, ServerTypes
  <2>2. Accounted'
    BY <1>1, <1>5 DEF Inv, Accounted
  <2>3. D!TypeOK' /\ Slots' /\ Owing'
    BY <1>1, <1>5, LoopKept
  <2>4. Budget'
    <3>1. \A c \in PRs : ToEnqueue(c)' = ToEnqueue(c)
      BY <1>5 DEF ToEnqueue, loop
    <3> QED
      BY <1>1, <1>4, <3>1, BudgetKept DEF Inv
  <2> QED
    BY <2>1, <2>2, <2>3, <2>4 DEF Inv
<1>6. CASE k \in PRs /\ D!Schedule(k) /\ ticket' = [ticket EXCEPT ![d] = calls[k] + 1]
  <2> DEFINE v == calls[k] + 1
  <2>1. /\ v \in 1 .. N /\ calls' = [calls EXCEPT ![k] = @ + 1] /\ task' = task
        /\ \A r \in Review : r[1] = k =>
             /\ r \in armed' <=> r[2] = v
             /\ task[r] = "created" => r \in cancelling'
        /\ \A r \in Review : r[1] # k =>
             /\ r \in armed' <=> r \in armed
             /\ r \in cancelling' <=> r \in cancelling
             /\ pending'[r[1]] = pending[r[1]] /\ inFlight'[r[1]] = inFlight[r[1]]
        /\ pending'[k] = v
        /\ D!TypeOK'
    BY <1>6, ScheduleFacts DEF Inv
  <2>2. calls \in [PRs -> 0 .. N] /\ ticket \in [Deliveries -> 0 .. N]
    BY DEF Inv, ServerTypes, D!TypeOK, N
  <2> HIDE DEF v, d, k
  <2>3. calls'[k] = v /\ \A c \in PRs \ {k} : calls'[c] = calls[c]
    BY <1>6, <2>1, <2>2 DEF v
  <2>4. ticket' \in [Deliveries -> 0 .. N] /\ ticket'[d] = v
        /\ \A e \in Deliveries \ {d} : ticket'[e] = ticket[e]
    BY <1>2, <1>6, <2>1, <2>2 DEF v
  <2>5. ServerTypes'
    BY <1>1, <2>4 DEF Inv, ServerTypes
  <2>6. Accounted'
    <3>1. \A e \in Deliveries : ticket'[e] # 0 \/ e \in served =>
            \E p \in Requests : answer[p] = Accepted /\ carries[p] = e /\ p \notin background'
      BY <1>1, <1>2, <2>4 DEF Inv, Accounted, d
    <3> QED
      BY <1>1, <3>1 DEF Inv, Accounted
  <2>7. Slots'
    <3>1. \A r \in Review : r \in armed' => pending'[r[1]] = r[2] /\ task[r] = "none"
      <4>1. \A r \in Review : r[1] = k /\ r[2] = v => r[2] > calls[r[1]]
        BY <1>6, <2>1, <2>2 DEF v
      <4> QED
        BY <2>1, <4>1 DEF Inv, Slots
    <3>2. \A r \in Review : r[2] > calls'[r[1]] => r \notin armed' /\ task[r] = "none"
      BY <1>6, <2>1, <2>2, <2>3 DEF Inv, Slots, v
    <3>3. \A r \in Review : task[r] = "created" /\ r \notin cancelling' => inFlight'[r[1]] = r[2]
      BY <2>1 DEF Inv, Slots
    <3> QED
      BY <2>1, <3>1, <3>2, <3>3 DEF Inv, Slots
  <2>8. Owing'
    <3> SUFFICES ASSUME NEW r \in Review, Live(r)'
                 PROVE  /\ r[2] = calls'[r[1]]
                        /\ \E e \in Deliveries :
                             ticket'[e] = r[2] /\ Subject[e] = r[1] /\ e \notin served
      BY <1>1 DEF Owing
    <3>1. CASE r[1] = k
      <4>1. r[2] = v
        BY <2>1, <3>1 DEF Live
      <4>2. d \in Deliveries /\ Subject[d] = k /\ d \notin served
        BY <1>2, <1>3 DEF d, k
      <4> QED
        BY <2>3, <2>4, <3>1, <4>1, <4>2
    <3>2. CASE r[1] # k
      <4>1. Live(r)
        BY <2>1, <3>2 DEF Live
      <4>2. r[2] = calls[r[1]]
        BY <4>1 DEF Inv, Owing
      <4>3. PICK e \in Deliveries : ticket[e] = r[2] /\ Subject[e] = r[1] /\ e \notin served
        BY <4>1 DEF Inv, Owing
      <4>4. e # d
        BY <3>2, <4>3 DEF k
      <4> QED
        BY <2>3, <2>4, <3>2, <4>2, <4>3, <4>4
    <3> QED
      BY <3>1, <3>2
  <2>9. Budget'
    <3> SUFFICES ASSUME NEW c \in PRs
                 PROVE  enqueued[c] + Cardinality(ToEnqueue(c)') + Cardinality(ToRoute') <= N
      BY <1>1 DEF Budget
    <3>1. Cardinality(ToRoute') = Cardinality(ToRoute) - 1
      BY <1>4, Counts, FS_RemoveElement DEF Inv
    <3>2. /\ Cardinality(ToRoute) \in Nat /\ enqueued[c] \in Nat
          /\ IsFiniteSet(ToEnqueue(c)) /\ Cardinality(ToEnqueue(c)) \in Nat
      BY Counts DEF Inv
    <3>3. ToEnqueue(c)' \subseteq ToEnqueue(c) \cup {v}
      <4> SUFFICES ASSUME NEW w \in 1 .. N, <<c, w>> \in armed' \/ task[<<c, w>>] = "created", w # v
                   PROVE  <<c, w>> \in armed \/ task[<<c, w>>] = "created"
        BY <2>1 DEF ToEnqueue
      <4> QED
        BY <2>1
    <3>4. IsFiniteSet(ToEnqueue(c) \cup {v})
          /\ Cardinality(ToEnqueue(c) \cup {v}) \in Nat
          /\ Cardinality(ToEnqueue(c) \cup {v}) <= Cardinality(ToEnqueue(c)) + 1
      <4>1. /\ IsFiniteSet(ToEnqueue(c) \cup {v})
            /\ Cardinality(ToEnqueue(c) \cup {v}) =
                 IF v \in ToEnqueue(c) THEN Cardinality(ToEnqueue(c))
                                       ELSE Cardinality(ToEnqueue(c)) + 1
        BY <3>2, FS_AddElement
      <4> QED
        BY <3>2, <4>1
    <3>5. Cardinality(ToEnqueue(c)') \in Nat
          /\ Cardinality(ToEnqueue(c)') <= Cardinality(ToEnqueue(c) \cup {v})
      BY <3>3, <3>4, FS_Subset, FS_CardinalityType
    <3>6. enqueued[c] + Cardinality(ToEnqueue(c)) + Cardinality(ToRoute) <= N
      BY DEF Inv, Budget
    <3> QED
      BY <3>1, <3>2, <3>4, <3>5, <3>6
  <2> QED
    BY <2>1, <2>5, <2>6, <2>7, <2>8, <2>9 DEF Inv
<1> QED
  BY <1>5, <1>6 DEF Route, ScheduleReview

\* The first step of a task that was cancelled: it drops out.
LEMMA InvDrop ==
    ASSUME Inv, NEW r \in Review, r \in cancelling, D!Begin(r),
           UNCHANGED <<handler, database, crashes, history>>
    PROVE  Inv'
<1> USE ReviewParts
<1>1. /\ task[r] = "created" /\ task' = [task EXCEPT ![r] = "dropped"]
      /\ cancelling' = cancelling \ {r}
      /\ calls' = calls /\ armed' = armed /\ left' = left /\ pending' = pending
      /\ inFlight' = inFlight /\ quiet' = quiet /\ withdrawn' = withdrawn /\ orphaned' = orphaned
  BY DEF D!Begin, D!FirstStep, D!history
<1>2. task \in [Review -> D!TaskState]
  BY DEF Inv, D!TypeOK, Review
<1>3. ServerTypes' /\ Accounted'
  <2>1. ServerTypes'
    BY DEF handler, database, history, Inv, ServerTypes
  <2>2. Accounted'
    BY DEF handler, database, history, Inv, Accounted
  <2> QED
    BY <2>1, <2>2
<1>4. D!TypeOK'
  <2>1. task' \in [Review -> D!TaskState]
    BY <1>1, <1>2 DEF D!TaskState
  <2> QED
    BY <1>1, <2>1 DEF Inv, D!TypeOK, Review
<1>5. Slots'
  BY <1>1, <1>2 DEF Inv, Slots
<1>6. Owing'
  <2>1. \A s \in Review : Live(s)' => Live(s)
    BY <1>1, <1>2 DEF Live
  <2> QED
    BY <1>1, <2>1 DEF Inv, Owing, history
<1>7. Budget'
  <2>1. \A c \in PRs : ToEnqueue(c)' \subseteq ToEnqueue(c)
    BY <1>1, <1>2 DEF ToEnqueue
  <2>2. ToRoute' = ToRoute
    BY DEF ToRoute, handler
  <2> QED
    BY <2>1, <2>2, BudgetKept DEF Inv, history
<1> QED
  BY <1>3, <1>4, <1>5, <1>6, <1>7 DEF Inv

\* What a review serves.
Serves(r) == {d \in Deliveries : Subject[d] = r[1] /\ ticket[d] \in 1 .. r[2]}

\* A review that runs is the only one of its pull request that was to run.
LEMMA InvEnqueue ==
    ASSUME Inv, NEW r \in Review, task[r] = "created", r \notin cancelling, D!LeaveRun(r),
           enqueued' = [enqueued EXCEPT ![r[1]] = @ + 1], served' = served \cup Serves(r),
           UNCHANGED <<ticket, calls, armed, left, pending, cancelling, quiet, withdrawn>>,
           UNCHANGED <<handler, database, crashes>>
    PROVE  Inv'
<1> USE ConstantFacts, ReviewParts
<1>1. /\ task' = [task EXCEPT ![r] = "done"] /\ inFlight' = [inFlight EXCEPT ![r[1]] = 0]
      /\ orphaned' = orphaned \cup {s \in Review \ {r} : s = <<r[1], inFlight[r[1]]>>}
      /\ calls' = calls /\ armed' = armed /\ left' = left /\ pending' = pending
      /\ cancelling' = cancelling /\ quiet' = quiet /\ withdrawn' = withdrawn
      /\ ticket' = ticket
  BY DEF D!LeaveRun, D!None, Review
<1>2. task \in [Review -> D!TaskState] /\ inFlight \in [PRs -> 1 .. N \cup {0}]
      /\ orphaned \subseteq Review
  BY DEF Inv, D!TypeOK, Review, D!Versions, D!None, N
<1>3. /\ Live(r) /\ r[2] = calls[r[1]] /\ r \notin armed
      /\ \A s \in Review : s[1] = r[1] /\ Live(s) => s = r
  BY DEF Inv, Slots, Owing, Live
<1>4. ServerTypes'
  BY <1>1 DEF handler, database, Serves, Inv, ServerTypes
<1>5. Accounted'
  <2>1. \A d \in Serves(r) : d \in Deliveries /\ ticket[d] # 0
    BY DEF Serves
  <2> QED
    BY <1>1, <2>1 DEF handler, database, Inv, Accounted
<1>6. D!TypeOK'
  <2>1. task' \in [Review -> D!TaskState]
    BY <1>1, <1>2 DEF D!TaskState
  <2>2. inFlight' \in [PRs -> 1 .. N \cup {0}] /\ orphaned' \subseteq Review
    BY <1>1, <1>2
  <2> QED
    BY <1>1, <2>1, <2>2 DEF Inv, D!TypeOK, Review, D!Versions, D!None, N
<1>7. Slots'
  BY <1>1, <1>2 DEF Inv, Slots
<1>8. Owing'
  <2> SUFFICES ASSUME NEW s \in Review, Live(s)'
               PROVE  /\ s[2] = calls[s[1]]
                      /\ \E d \in Deliveries :
                           ticket[d] = s[2] /\ Subject[d] = s[1] /\ d \notin served'
    BY <1>1 DEF Owing
  <2>1. Live(s) /\ s # r
    BY <1>1, <1>2, <1>3 DEF Live
  <2>2. s[1] # r[1]
    BY <1>3, <2>1
  <2>3. PICK d \in Deliveries : ticket[d] = s[2] /\ Subject[d] = s[1] /\ d \notin served
    BY <2>1 DEF Inv, Owing
  <2>4. d \notin Serves(r)
    BY <2>2, <2>3 DEF Serves
  <2> QED
    BY <2>1, <2>3, <2>4 DEF Inv, Owing
<1>9. Budget'
  <2> SUFFICES ASSUME NEW c \in PRs
               PROVE  enqueued'[c] + Cardinality(ToEnqueue(c)') + Cardinality(ToRoute) <= N
    BY DEF Budget, ToRoute, handler
  <2>1. /\ Cardinality(ToRoute) \in Nat /\ enqueued[c] \in Nat
        /\ IsFiniteSet(ToEnqueue(c)) /\ Cardinality(ToEnqueue(c)) \in Nat
        /\ enqueued[c] + Cardinality(ToEnqueue(c)) + Cardinality(ToRoute) <= N
    BY Counts DEF Inv, Budget
  <2>2. CASE c = r[1]
    <3>1. ToEnqueue(c)' = ToEnqueue(c) \ {r[2]} /\ r[2] \in ToEnqueue(c)
      <4>1. r[2] \in ToEnqueue(c)
        BY <2>2 DEF ToEnqueue
      <4>2. ASSUME NEW v \in 1 .. N
            PROVE  v \in ToEnqueue(c)' <=> v \in ToEnqueue(c) \ {r[2]}
        <5>1. <<c, v>> \in Review /\ (<<c, v>> = r <=> v = r[2])
          BY <2>2
        <5>2. task'[r] = "done" /\ r \notin armed
          BY <1>1, <1>2, <1>3
        <5>3. <<c, v>> # r => task'[<<c, v>>] = task[<<c, v>>]
          BY <1>1, <1>2, <5>1
        <5> QED
          BY <1>1, <5>1, <5>2, <5>3 DEF ToEnqueue
      <4>3. ToEnqueue(c)' \subseteq 1 .. N /\ ToEnqueue(c) \subseteq 1 .. N
        BY DEF ToEnqueue
      <4> QED
        BY <4>1, <4>2, <4>3
    <3>2. Cardinality(ToEnqueue(c)') = Cardinality(ToEnqueue(c)) - 1
      <4>1. IsFiniteSet(ToEnqueue(c)) /\ r[2] \in ToEnqueue(c)
        BY <2>1, <3>1
      <4>2. Cardinality(ToEnqueue(c) \ {r[2]}) = Cardinality(ToEnqueue(c)) - 1
        BY ONLY <4>1, FS_RemoveElement
      <4> QED
        BY <3>1, <4>2
    <3>3. enqueued'[c] = enqueued[c] + 1
      BY <2>2 DEF Inv, ServerTypes
    <3> QED
      BY <2>1, <3>2, <3>3
  <2>3. CASE c # r[1]
    <3>1. ToEnqueue(c)' = ToEnqueue(c)
      BY <1>1, <1>2, <2>3 DEF ToEnqueue
    <3>2. enqueued'[c] = enqueued[c]
      BY <2>3 DEF Inv, ServerTypes
    <3> QED
      BY <2>1, <3>1, <3>2
  <2> QED
    BY <2>2, <2>3
<1> QED
  BY <1>4, <1>5, <1>6, <1>7, <1>8, <1>9 DEF Inv

\* A timer fires: the review that was armed is now to run.  Or time passes.
LEMMA InvLoop ==
    ASSUME Inv, LoopStep
    PROVE  Inv'
<1> USE ReviewParts
<1>1. UNCHANGED <<handler, database, crashes, history>>
  BY DEF LoopStep
<1>2. ServerTypes' /\ Accounted'
  <2>1. ServerTypes'
    BY <1>1 DEF handler, database, history, Inv, ServerTypes
  <2>2. Accounted'
    BY <1>1 DEF handler, database, history, Inv, Accounted
  <2> QED
    BY <2>1, <2>2
<1>3. CASE D!Tick
  <2>1. /\ calls' = calls /\ armed' = armed /\ pending' = pending /\ inFlight' = inFlight
        /\ task' = task /\ cancelling' = cancelling /\ withdrawn' = withdrawn /\ orphaned' = orphaned
        /\ left' = [r \in Review |-> IF r \in armed /\ left[r] > 0 THEN left[r] - 1 ELSE left[r]]
        /\ quiet' = [k \in PRs |-> IF quiet[k] < QuietPeriod THEN quiet[k] + 1 ELSE quiet[k]]
    BY <1>3 DEF D!Tick, Review
  <2>2. D!TypeOK'
    <3>1. left \in [Review -> 0 .. QuietPeriod] /\ quiet \in [PRs -> 0 .. QuietPeriod]
      BY DEF Inv, D!TypeOK, Review
    <3>2. left' \in [Review -> 0 .. QuietPeriod] /\ quiet' \in [PRs -> 0 .. QuietPeriod]
      BY <2>1, <3>1, ConstantFacts
    <3> QED
      BY <2>1, <3>2 DEF Inv, D!TypeOK, Review
  <2>3. Slots' /\ Owing'
    BY <1>1, <2>1 DEF Inv, Slots, Owing, Live, history
  <2>4. Budget'
    BY <1>1, <2>1 DEF Inv, Budget, ToRoute, ToEnqueue, history, handler
  <2> QED
    BY <1>2, <2>2, <2>3, <2>4 DEF Inv
<1>4. ASSUME NEW r \in Review, D!Fire(r) PROVE Inv'
  <2>1. /\ r \in armed /\ armed' = armed \ {r} /\ pending' = [pending EXCEPT ![r[1]] = 0]
        /\ \A s \in Review : s[1] = r[1] => s \notin cancelling /\ task[s] # "created"
        /\ task' = [task EXCEPT ![r] = "created"]
        /\ inFlight' = [inFlight EXCEPT ![r[1]] = r[2]]
        /\ calls' = calls /\ left' = left /\ cancelling' = cancelling /\ quiet' = quiet
        /\ withdrawn' = withdrawn /\ orphaned' = orphaned
    BY <1>4 DEF D!Fire, D!history, D!None, Review
  <2>2. /\ task \in [Review -> D!TaskState] /\ inFlight \in [PRs -> 1 .. N \cup {0}]
        /\ pending \in [PRs -> 1 .. N \cup {0}]
    BY DEF Inv, D!TypeOK, Review, D!Versions, D!None, N
  <2>3. D!TypeOK'
    <3>1. task' \in [Review -> D!TaskState]
      BY <2>1, <2>2 DEF D!TaskState
    <3>2. inFlight' \in [PRs -> 1 .. N \cup {0}] /\ pending' \in [PRs -> 1 .. N \cup {0}]
      BY <2>1, <2>2
    <3> QED
      BY <2>1, <3>1, <3>2 DEF Inv, D!TypeOK, Review, D!Versions, D!None, N
  <2>4. Slots'
    <3>1. \A s \in Review : s \in armed' => s[1] # r[1] /\ s \in armed
      BY <2>1 DEF Inv, Slots
    <3> QED
      BY <2>1, <2>2, <3>1 DEF Inv, Slots
  <2>5. Owing'
    <3>1. \A s \in Review : Live(s)' => Live(s)
      BY <2>1, <2>2 DEF Live
    <3> QED
      BY <1>1, <2>1, <3>1 DEF Inv, Owing, history
  <2>6. Budget'
    <3>1. \A c \in PRs : ToEnqueue(c)' \subseteq ToEnqueue(c)
      BY <2>1, <2>2 DEF ToEnqueue
    <3>2. ToRoute' = ToRoute
      BY <1>1 DEF ToRoute, handler
    <3> QED
      BY <1>1, <3>1, <3>2, BudgetKept DEF Inv, history
  <2> QED
    BY <1>2, <2>3, <2>4, <2>5, <2>6 DEF Inv
<1> QED
  BY <1>3, <1>4 DEF LoopStep, Review

\* The installation goes, and the events with it.
LEMMA InvUninstall ==
    ASSUME Inv, Uninstall
    PROVE  Inv'
<1>1. /\ installed' = FALSE /\ events' = {} /\ UNCHANGED <<handler, crashes, history, loop>>
  BY DEF Uninstall
<1>2. ServerTypes' /\ Accounted'
  BY <1>1 DEF handler, history, Inv, ServerTypes, Accounted
<1>3. D!TypeOK' /\ Slots' /\ Owing'
  BY <1>1, LoopKept DEF history
<1>4. Budget'
  BY <1>1 DEF Inv, Budget, ToRoute, ToEnqueue, handler, history, loop
<1> QED
  BY <1>2, <1>3, <1>4 DEF Inv

\* The process dies: nothing is left to route or to enqueue but what is sent anew.
LEMMA InvCrash ==
    ASSUME Inv, Crash
    PROVE  Inv'
<1> USE ConstantFacts, ReviewParts
<1>1. /\ crashes < MaxCrashes /\ crashes' = crashes + 1 /\ background' = {}
      /\ stage' = [q \in Requests |-> IF stage[q] = "unsent" THEN "unsent" ELSE "over"]
      /\ ticket' = [d \in Deliveries |-> 0]
      /\ carries' = carries /\ answer' = answer /\ installed' = installed /\ events' = events
      /\ enqueued' = enqueued /\ served' = served
  BY DEF Crash, database
<1>2. /\ calls' = [k \in PRs |-> 0] /\ armed' = {} /\ left' = [r \in Review |-> 0]
      /\ pending' = [k \in PRs |-> 0] /\ inFlight' = [k \in PRs |-> 0]
      /\ task' = [r \in Review |-> "none"] /\ cancelling' = {}
      /\ quiet' = [k \in PRs |-> 0] /\ orphaned' = {} /\ withdrawn' = withdrawn
  BY DEF Crash, D!None, Review
<1>3. ServerTypes'
  BY <1>1 DEF Inv, ServerTypes
<1>4. Accounted'
  BY <1>1 DEF Inv, ServerTypes, Accounted
<1>5. D!TypeOK'
  BY <1>2 DEF Inv, D!TypeOK, D!TaskState, D!None, Review, N
<1>6. Slots' /\ Owing'
  BY <1>2 DEF Slots, Owing, Live
<1>7. Budget'
  <2>1. ToRoute' \subseteq ToRoute
    BY <1>1 DEF Inv, ServerTypes, ToRoute
  <2>2. \A k \in PRs : ToEnqueue(k)' = {}
    BY <1>2 DEF ToEnqueue
  <2> QED
    BY <1>1, <2>1, <2>2, BudgetKept DEF Inv
<1> QED
  BY <1>3, <1>4, <1>5, <1>6, <1>7 DEF Inv

\* The invariant holds in every state.
LEMMA Inductive == Spec => []Inv
<1>1. Inv /\ [Next]_vars => Inv'
  <2> SUFFICES ASSUME Inv, [Next]_vars PROVE Inv'
    OBVIOUS
  <2>1. CASE \E q \in Requests, flaws \in SUBSET Flaws : Receive(q, flaws)
    BY <2>1, InvHandler
  <2>2. CASE \E q \in Requests : Lookup(q) \/ Commit(q) \/ CommitFails(q) \/ Route(q)
    BY <2>2, InvHandler, InvRoute
  <2>3. ASSUME NEW r \in Review, EnqueueReview(r) PROVE Inv'
    <3>1. CASE r \in cancelling
      BY <2>3, <3>1, InvDrop DEF EnqueueReview
    <3>2. CASE r \notin cancelling
      BY <2>3, <3>2, InvEnqueue DEF EnqueueReview, Serves
    <3> QED
      BY <3>1, <3>2
  <2>4. CASE LoopStep \/ Uninstall \/ Crash
    BY <2>4, InvLoop, InvUninstall, InvCrash
  <2>5. CASE UNCHANGED vars
    <3>1. UNCHANGED <<handler, database, crashes, history, loop>>
      BY <2>5 DEF vars
    <3>2. ServerTypes' /\ Accounted'
      <4>1. ServerTypes'
        BY <3>1 DEF handler, database, history, Inv, ServerTypes
      <4>2. Accounted'
        BY <3>1 DEF handler, database, history, Inv, Accounted
      <4> QED
        BY <4>1, <4>2
    <3>3. D!TypeOK' /\ Slots' /\ Owing'
      BY <3>1, LoopKept DEF history
    <3>4. Budget'
      BY <3>1 DEF Inv, Budget, ToRoute, ToEnqueue, handler, history, loop
    <3> QED
      BY <3>2, <3>3, <3>4 DEF Inv
  <2> QED
    BY <2>1, <2>2, <2>3, <2>4, <2>5 DEF Next, Review
<1> QED
  BY <1>1, InvInit, PTL DEF Spec

-----------------------------------------------------------------------------
\* The handler, the background tasks and the debounce manager keep the types of
\* their state through every request, failure and restart; in particular no more
\* reviews are enqueued than requests were sent.
THEOREM TypeCorrect == Spec => []TypeOK
<1>1. Inv => TypeOK
  <2> SUFFICES ASSUME Inv PROVE TypeOK
    OBVIOUS
  <2>1. enqueued \in [PRs -> 0 .. N]
    <3> SUFFICES ASSUME NEW k \in PRs PROVE enqueued[k] \in 0 .. N
      BY DEF Inv, ServerTypes
    <3>1. /\ enqueued[k] \in Nat /\ Cardinality(ToEnqueue(k)) \in Nat
          /\ Cardinality(ToRoute) \in Nat
          /\ enqueued[k] + Cardinality(ToEnqueue(k)) + Cardinality(ToRoute) <= N
      BY Counts DEF Inv, Budget
    <3> QED
      BY <3>1, ConstantFacts
  <2> QED
    BY <2>1 DEF Inv, ServerTypes, TypeOK, N
<1> QED
  BY <1>1, Inductive, PTL

\* Persist before dispatch: no event is routed, or waits to be, that the table
\* does not hold, as long as its installation exists; so after a crash the table
\* tells of every event that was answered "accepted".
THEOREM PersistBeforeDispatch == Spec => []DispatchedIsPersisted
<1>1. Inv => DispatchedIsPersisted
  BY DEF Inv, Accounted, ServerTypes, DispatchedIsPersisted
<1> QED
  BY <1>1, Inductive, PTL

-----------------------------------------------------------------------------
\* The server implements EventPipeline.

\* The requests for a delivery that were told "accepted".
AcceptedFor(d) == {q \in Requests : carries[q] = d /\ answer[q] = Accepted}

\* The variables of EventPipeline, as the server keeps them.
PromiseKept ==
    /\ \A d \in Deliveries : AcceptedFor(d)' = AcceptedFor(d)
    /\ Owed' = Owed /\ enqueued' = enqueued /\ crashes' = crashes

\* Such a step is a stutter of EventPipeline.
LEMMA KeptStutters == PromiseKept => UNCHANGED Promise!vars
BY DEF PromiseKept, AcceptedFor, Promise!vars

\* An answer that is no acceptance, or no answer at all.
LEMMA HandlerStutters ==
    ASSUME Inv, NEW q \in Requests,
           \/ answer' = answer
           \/ \E a \in Answers \ {Accepted} : answer' = [answer EXCEPT ![q] = a] /\ stage[q] # "over",
           UNCHANGED <<carries, background, crashes, enqueued, ticket, served>>
    PROVE  PromiseKept
<1>1. \A d \in Deliveries : AcceptedFor(d)' = AcceptedFor(d)
  BY DEF Inv, ServerTypes, Accounted, AcceptedFor
<1>2. Owed' = Owed
  BY DEF Owed
<1> QED
  BY <1>1, <1>2 DEF PromiseKept

\* The commit of the first request for a delivery accepts it; every other answer
\* is a stutter.
LEMMA CommitAccepts ==
    ASSUME Inv, NEW q \in Requests, Commit(q)
    PROVE  [Promise!Next]_(Promise!vars)
<1>0. PICK d \in Deliveries : d = carries[q]
  BY DEF Inv, ServerTypes
<1> DEFINE a == Outcome(d)
<1>1. /\ stage[q] = "found" /\ answer' = [answer EXCEPT ![q] = a]
      /\ background' = IF a = Accepted THEN background \cup {q} ELSE background
      /\ carries' = carries /\ crashes' = crashes
      /\ enqueued' = enqueued /\ ticket' = ticket /\ served' = served
  BY <1>0 DEF Commit, Finish, Dispatched, history
<1>2. d = carries[q] /\ answer \in [Requests -> Answers] /\ background \subseteq Requests
  BY <1>0 DEF Inv, ServerTypes
<1>3. a \in {Accepted, Duplicate} /\ (a = Accepted => installed /\ d \notin events)
  BY AnswersDiffer DEF Outcome
<1> HIDE DEF a
<1>4. CASE a = Duplicate
  <2>1. PromiseKept
    BY <1>1, <1>4, HandlerStutters, AnswersDiffer
  <2> QED
    BY <2>1, KeptStutters
<1>5. CASE a = Accepted
  <2>1. AcceptedFor(d) = {} /\ AcceptedFor(d)' = {q}
    BY <1>1, <1>2, <1>3, <1>5 DEF Inv, Accounted, AcceptedFor
  <2>2. \A e \in Deliveries \ {d} : AcceptedFor(e)' = AcceptedFor(e)
    BY <1>1, <1>2 DEF AcceptedFor
  <2>3. Owed' = Owed \cup {e \in {d} : Subject[e] \in PRs}
    BY <1>1, <1>2, <1>5 DEF Owed
  <2>4. Cardinality(AcceptedFor(d)) = 0 /\ Cardinality(AcceptedFor(d)') = 1
    BY <2>1, FS_EmptySet, FS_Singleton
  <2> DEFINE acc == [e \in Deliveries |-> Cardinality(AcceptedFor(e))]
  <2>5. acc[d] = 0 /\ acc' = [acc EXCEPT ![d] = 1]
    <3>1. \A e \in Deliveries : Cardinality(AcceptedFor(e)') =
                                IF e = d THEN 1 ELSE Cardinality(AcceptedFor(e))
      BY <2>2, <2>4
    <3>2. acc' = [e \in Deliveries |-> Cardinality(AcceptedFor(e)')]
      OBVIOUS
    <3> QED
      BY <1>2, <2>4, <3>1, <3>2
  <2>6. Promise!Accept(d)
    BY <1>1, <2>3, <2>5 DEF Promise!Accept, AcceptedFor
  <2> QED
    BY <1>2, <2>6 DEF Promise!Next
<1> QED
  BY <1>3, <1>4, <1>5

\* An event that is routed is owed a review before and after.
LEMMA RouteStutters ==
    ASSUME Inv, NEW q \in Requests, Route(q)
    PROVE  PromiseKept
<1> DEFINE d == carries[q]
           k == Subject[d]
<1>1. /\ q \in background /\ background' = background \ {q}
      /\ carries' = carries /\ answer' = answer
      /\ crashes' = crashes /\ enqueued' = enqueued /\ served' = served
  BY DEF Route
<1>2. /\ d \in Deliveries /\ ticket[d] = 0 /\ d \notin served
      /\ background \subseteq Requests /\ ticket \in [Deliveries -> 0 .. N]
  BY <1>1 DEF Inv, ServerTypes, Accounted
<1>3. \A p \in background : carries[p] = d => p = q
  BY <1>1, <1>2 DEF Inv, Accounted
<1>4. Owed' = Owed
  <2>1. CASE k \in PRs /\ D!Schedule(k) /\ ticket' = [ticket EXCEPT ![d] = calls[k] + 1]
    <3>1. calls[k] + 1 # 0
      BY <2>1, ScheduleFacts DEF Inv
    <3>2. ticket'[d] # 0 /\ \A e \in Deliveries \ {d} : ticket'[e] = ticket[e]
      BY <1>2, <2>1, <3>1
    <3>3. d \in Owed /\ d \in Owed'
      BY <1>1, <1>2, <2>1, <3>2 DEF Owed
    <3>4. \A e \in Deliveries \ {d} : e \in Owed' <=> e \in Owed
      BY <1>1, <3>2 DEF Owed
    <3>5. Owed' \subseteq Deliveries /\ Owed \subseteq Deliveries
      BY DEF Owed
    <3> QED
      BY <3>3, <3>4, <3>5
  <2>2. CASE k = NoPR /\ ticket' = ticket
    BY <1>1, <2>2, ConstantFacts DEF Owed
  <2> QED
    BY <2>1, <2>2 DEF Route, ScheduleReview
<1>5. \A e \in Deliveries : AcceptedFor(e)' = AcceptedFor(e)
  BY <1>1 DEF AcceptedFor
<1> QED
  BY <1>1, <1>4, <1>5 DEF PromiseKept

\* A review that is enqueued serves events that waited, the one that armed it
\* among them.
LEMMA EnqueueReviews ==
    ASSUME Inv, NEW r \in Review, EnqueueReview(r)
    PROVE  [Promise!Next]_(Promise!vars)
<1> USE ReviewParts
<1>1. \A e \in Deliveries : AcceptedFor(e)' = AcceptedFor(e)
  BY DEF EnqueueReview, handler, AcceptedFor
<1>2. CASE r \in cancelling
  <2>1. PromiseKept
    BY <1>1, <1>2 DEF EnqueueReview, handler, history, PromiseKept, Owed
  <2> QED
    BY <2>1, KeptStutters
<1>3. CASE r \notin cancelling
  <2>1. /\ task[r] = "created" /\ enqueued' = [enqueued EXCEPT ![r[1]] = @ + 1]
        /\ served' = served \cup Serves(r) /\ ticket' = ticket
        /\ carries' = carries /\ background' = background /\ crashes' = crashes
    BY <1>3 DEF EnqueueReview, Serves, handler
  <2>2. \A e \in Serves(r) : \A q \in background : carries[q] # e
    BY DEF Inv, ServerTypes, Accounted, Serves
  <2> DEFINE S == Serves(r) \ served
  <2>3. S \in SUBSET {d \in Owed : Subject[d] = r[1]}
    BY DEF Serves, Owed
  <2>4. S # {}
    <3>1. Live(r)
      BY <1>3, <2>1 DEF Live
    <3>2. PICK d \in Deliveries : ticket[d] = r[2] /\ Subject[d] = r[1] /\ d \notin served
      BY <3>1 DEF Inv, Owing
    <3> QED
      BY <3>2, ConstantFacts DEF Serves
  <2>5. Owed' = Owed \ S
    BY <2>1, <2>2 DEF Owed
  <2> HIDE DEF S
  <2>6. Promise!Review(r[1])
    <3> DEFINE acc == [e \in Deliveries |-> Cardinality(AcceptedFor(e))]
    <3>1. acc' = acc
      BY <1>1
    <3> QED
      BY <2>1, <2>3, <2>4, <2>5, <3>1 DEF Promise!Review, AcceptedFor
  <2> QED
    BY <2>6 DEF Promise!Next
<1> QED
  BY <1>2, <1>3

\* A restart loses what waits, and nothing else.
LEMMA CrashRestarts ==
    ASSUME Crash
    PROVE  Promise!Restart
<1>1. /\ background' = {} /\ ticket' = [d \in Deliveries |-> 0] /\ crashes' = crashes + 1
      /\ carries' = carries /\ answer' = answer /\ enqueued' = enqueued
  BY DEF Crash
<1>2. Owed' = {}
  BY <1>1 DEF Owed
<1>3. [d \in Deliveries |-> Cardinality(AcceptedFor(d))]'
        = [d \in Deliveries |-> Cardinality(AcceptedFor(d))]
  BY <1>1 DEF AcceptedFor
<1> QED
  BY <1>1, <1>2, <1>3 DEF Promise!Restart, AcceptedFor

\* However often and however concurrently a delivery is sent, one request for it
\* is told "accepted"; every review that is enqueued is the first to serve some
\* accepted event, so that a redelivery causes none; and nothing but a restart
\* loses an accepted event.
THEOREM ServerKeepsPromise == Spec => EventsAccountedFor
<1>1. Init => Promise!Init
  <2> SUFFICES ASSUME Init PROVE Promise!Init
    OBVIOUS
  <2>1. \A d \in Deliveries : AcceptedFor(d) = {}
    BY AnswersDiffer DEF Init, AcceptedFor
  <2>2. [d \in Deliveries |-> Cardinality(AcceptedFor(d))] = [d \in Deliveries |-> 0]
    BY <2>1, FS_EmptySet
  <2>3. Owed = {}
    BY DEF Init, Owed
  <2> QED
    BY <2>2, <2>3 DEF Init, Promise!Init, AcceptedFor
<1>2. Inv /\ [Next]_vars => [Promise!Next]_(Promise!vars)
  <2> SUFFICES ASSUME Inv, [Next]_vars PROVE [Promise!Next]_(Promise!vars)
    OBVIOUS
  <2>1. ASSUME NEW q \in Requests, NEW flaws \in SUBSET Flaws, Receive(q, flaws)
        PROVE  UNCHANGED Promise!vars
    <3>1. /\ stage[q] = "unsent"
          /\ UNCHANGED <<carries, background, crashes, enqueued, ticket, served>>
          /\ \/ answer' = answer
             \/ flaws # {} /\ answer' = [answer EXCEPT ![q] = <<FirstFlaw(flaws), "error">>]
      BY <2>1 DEF Receive, Finish, history
    <3>2. \/ answer' = answer
          \/ \E a \in Answers \ {Accepted} : answer' = [answer EXCEPT ![q] = a] /\ stage[q] # "over"
      BY <3>1, AnswersDiffer
    <3> QED
      BY <3>1, <3>2, HandlerStutters, KeptStutters
  <2>2. ASSUME NEW q \in Requests, Lookup(q) \/ CommitFails(q)
        PROVE  UNCHANGED Promise!vars
    <3>1. /\ stage[q] # "over"
          /\ UNCHANGED <<carries, background, crashes, enqueued, ticket, served>>
          /\ \/ answer' = answer
             \/ answer' = [answer EXCEPT ![q] = UnknownInstallation]
             \/ answer' = [answer EXCEPT ![q] = ServerError]
      BY <2>2 DEF Lookup, CommitFails, Finish, history
    <3>2. \/ answer' = answer
          \/ \E a \in Answers \ {Accepted} : answer' = [answer EXCEPT ![q] = a] /\ stage[q] # "over"
      BY <3>1, AnswersDiffer
    <3> QED
      BY <3>1, <3>2, HandlerStutters, KeptStutters
  <2>3. ASSUME NEW q \in Requests, Route(q) PROVE UNCHANGED Promise!vars
    BY <2>3, RouteStutters, KeptStutters
  <2>4. CASE LoopStep \/ Uninstall \/ UNCHANGED vars
    <3>1. UNCHANGED <<handler, crashes, history>>
      BY <2>4 DEF LoopStep, Uninstall, vars
    <3>2. PromiseKept
      BY <3>1 DEF handler, history, PromiseKept, AcceptedFor, Owed
    <3> QED
      BY <3>2, KeptStutters
  <2>5. CASE Crash
    BY <2>5, CrashRestarts DEF Promise!Next
  <2> QED
    BY <2>1, <2>2, <2>3, <2>4, <2>5, CommitAccepts, EnqueueReviews DEF Next, Review
<1> QED
  BY <1>1, <1>2, Inductive, PTL DEF Spec, EventsAccountedFor, Promise!Spec
==============================================================================

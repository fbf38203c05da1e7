---------------------------- MODULE WebhookServer ----------------------------
(***************************************************************************)
(* The server process: the POST /webhook handler of                        *)
(* kenjutsu/server/webhook.py, the webhook_events table it writes, the     *)
(* background task that routes an accepted event, and the debounce manager *)
(* (module Debounce) the event is routed to.  One process, one asyncio     *)
(* loop: code between two awaits is atomic; requests interleave at awaits. *)
(*                                                                         *)
(* A crash, a deploy, or the platform stopping an idle machine             *)
(* (auto_stop_machines in fly.toml) empties everything but the database.   *)
(***************************************************************************)
EXTENDS Integers, FiniteSets, FiniteSetsExt

CONSTANTS Requests,    \* HTTP requests; several may carry the same delivery
          Deliveries,  \* values of X-GitHub-Delivery
          PRs,         \* pull requests
          Subject,     \* Subject[d]: the pull request a delivery asks a review
                       \* for, or NoPR for an event of another kind
          NoPR,
          QuietPeriod, \* the quiet period of the debounce manager, in ticks
          MaxCrashes,  \* bound: restarts of the process
          DbMayFail,   \* TRUE if a statement may fail for another reason than
                       \* a constraint, with the commit done or not
          MayUninstall \* TRUE if the installation row may be deleted

ASSUME WebhookAssumption ==
    /\ NoPR \notin PRs
    /\ Subject \in [Deliveries -> PRs \cup {NoPR}]
    /\ IsFiniteSet(Requests) /\ IsFiniteSet(Deliveries)
    /\ QuietPeriod \in Nat \ {0}
    /\ MaxCrashes \in Nat
    /\ {DbMayFail, MayUninstall} \subseteq BOOLEAN

VARIABLES stage,      \* stage[q]: how far the handler of request q is
          carries,    \* carries[q]: the delivery of request q
          answer,     \* answer[q]: the response, <<HTTP status, body>>
          background, \* requests whose _route_event task has not run yet
          installed,  \* the row of table installations exists
          events,     \* delivery ids in table webhook_events
          crashes,    \* restarts so far
          enqueued,   \* history: reviews enqueued per pull request
          ticket,     \* history: the review that routing delivery d armed, or 0
          served      \* history: deliveries covered by an enqueued review

VARIABLES calls, armed, left, pending, inFlight, task, cancelling, quiet, withdrawn, orphaned

handler == <<stage, carries, answer, background>>
database == <<installed, events>>
history == <<enqueued, ticket, served>>
loop == <<calls, armed, left, pending, inFlight, task, cancelling, quiet, withdrawn, orphaned>>
vars == <<handler, database, crashes, history, loop>>

D == INSTANCE Debounce WITH
       MaxSchedules <- Cardinality(Requests), SlowCleanup <- FALSE

\* Flaws of a request, in the order the handler looks for them, each with the
\* status it answers.  A flaw of the payload is one that does not parse as
\* JSON or has no installation.id.
Checks == << <<"header", 400>>, <<"secret", 500>>, <<"signature", 401>>, <<"payload", 400>> >>

Flaws == {Checks[i][1] : i \in DOMAIN Checks}
Refusals == {<<Checks[i][2], "error">> : i \in DOMAIN Checks}
NoAnswer == <<0, "none">>
Accepted == <<200, "accepted">>
Duplicate == <<200, "duplicate">>
UnknownInstallation == <<400, "unknown">>
ServerError == <<500, "error">>
Answers == Refusals \cup {NoAnswer, Accepted, Duplicate, UnknownInstallation, ServerError}

TypeOK ==
    /\ stage \in [Requests -> {"unsent", "verified", "found", "over"}]
    /\ carries \in [Requests -> Deliveries]
    /\ answer \in [Requests -> Answers]
    /\ background \subseteq Requests
    /\ installed \in BOOLEAN
    /\ events \subseteq Deliveries
    /\ crashes \in 0 .. MaxCrashes
    /\ enqueued \in [PRs -> 0 .. Cardinality(Requests)]
    /\ ticket \in [Deliveries -> 0 .. Cardinality(Requests)]
    /\ served \subseteq Deliveries
    /\ D!TypeOK

Init ==
    /\ stage = [q \in Requests |-> "unsent"]
    /\ carries \in [Requests -> Deliveries]
    /\ answer = [q \in Requests |-> NoAnswer]
    /\ background = {}
    /\ installed = TRUE
    /\ events = {}
    /\ crashes = 0
    /\ enqueued = [k \in PRs |-> 0]
    /\ ticket = [d \in Deliveries |-> 0]
    /\ served = {}
    /\ D!Init

-----------------------------------------------------------------------------
\* Mutated forms of the operators below, for the sensitivity checks.
Outcome_Conflict(d) == IF installed /\ d \notin events THEN Accepted ELSE <<409, "duplicate">>
Outcome_NotUnique(d) == IF installed THEN Accepted ELSE Duplicate
Recorded_NotYet(d, a) == events
ScheduleReview_Never(k) == UNCHANGED loop

-----------------------------------------------------------------------------
\* The status of the first check that a flawed request fails.
FirstFlaw(flaws) == Checks[Min({i \in DOMAIN Checks : Checks[i][1] \in flaws})][2]

Finish(q, a) ==
    /\ stage' = [stage EXCEPT ![q] = "over"]
    /\ answer' = [answer EXCEPT ![q] = a]

\* The handler up to its first query: headers, secret, signature, payload.
Receive(q, flaws) ==
    /\ stage[q] = "unsent"
    /\ \/ /\ flaws = {}
          /\ stage' = [stage EXCEPT ![q] = "verified"]
          /\ UNCHANGED answer
       \/ flaws # {} /\ Finish(q, <<FirstFlaw(flaws), "error">>)
    /\ UNCHANGED <<carries, background, database, crashes, history, loop>>

\* SELECT ... FROM installations.
Lookup(q) ==
    /\ stage[q] = "verified"
    /\ \/ /\ installed
          /\ stage' = [stage EXCEPT ![q] = "found"]
          /\ UNCHANGED answer
       \/ ~installed /\ Finish(q, UnknownInstallation)
       \/ DbMayFail /\ Finish(q, ServerError)
    /\ UNCHANGED <<carries, background, database, crashes, history, loop>>

\* INSERT and COMMIT.  delivery_id is unique and installation_id references
\* installations: breaking either constraint is an IntegrityError, and every
\* IntegrityError is answered as a duplicate.
Outcome(d) == IF installed /\ d \notin events THEN Accepted ELSE Duplicate

Recorded(d, a) == IF a = Accepted THEN events \cup {d} ELSE events

\* Only an accepted event gets a background task.
Dispatched(q, a) == IF a = Accepted THEN background \cup {q} ELSE background

Commit(q) ==
    LET d == carries[q]
        a == Outcome(d)
    IN  /\ stage[q] = "found"
        /\ Finish(q, a)
        /\ events' = Recorded(d, a)
        /\ background' = Dispatched(q, a)
        /\ UNCHANGED <<carries, installed, crashes, history, loop>>

\* The commit raises something that is not an IntegrityError, with the event
\* written or not: the request is answered 500 and nothing is dispatched.
CommitFails(q) ==
    /\ DbMayFail
    /\ stage[q] = "found"
    /\ Finish(q, ServerError)
    /\ events' \in {events, Recorded(carries[q], Outcome(carries[q]))}
    /\ UNCHANGED <<carries, background, installed, crashes, history, loop>>

ScheduleReview(k) == D!Schedule(k)

\* _route_event: runs after the response, in any order among requests.
Route(q) ==
    LET d == carries[q]
        k == Subject[d]
    IN  /\ q \in background
        /\ background' = background \ {q}
        /\ \/ /\ k \in PRs
              /\ ScheduleReview(k)
              /\ ticket' = [ticket EXCEPT ![d] = calls[k] + 1]
           \/ k = NoPR /\ UNCHANGED <<loop, ticket>>
        /\ UNCHANGED <<stage, carries, answer, database, crashes, enqueued, served>>

\* The first step of a review task.  _enqueue_review does not await: unless it
\* was cancelled before, the task runs to its end, the finally clause included.
EnqueueReview(r) ==
    /\ task[r] = "created"
    /\ \/ /\ r \in cancelling
          /\ D!Begin(r)
          /\ UNCHANGED history
       \/ /\ r \notin cancelling
          /\ D!LeaveRun(r)
          /\ enqueued' = [enqueued EXCEPT ![r[1]] = @ + 1]
          /\ served' = served \cup
               {d \in Deliveries : Subject[d] = r[1] /\ ticket[d] \in 1 .. r[2]}
          /\ UNCHANGED <<ticket, calls, armed, left, pending, cancelling, quiet, withdrawn>>
    /\ UNCHANGED <<handler, database, crashes>>

\* A due timer fires; time passes.
LoopStep ==
    /\ D!Tick \/ \E r \in D!Review : D!Fire(r)
    /\ UNCHANGED <<handler, database, crashes, history>>

\* External: the installation is deleted, and its events with it (CASCADE).
Uninstall ==
    /\ MayUninstall /\ installed
    /\ installed' = FALSE
    /\ events' = {}
    /\ UNCHANGED <<handler, crashes, history, loop>>

\* The process dies and starts again: requests, background tasks and the
\* debounce manager are lost, the database stays.
Crash ==
    /\ crashes < MaxCrashes
    /\ crashes' = crashes + 1
    /\ stage' = [q \in Requests |-> IF stage[q] = "unsent" THEN "unsent" ELSE "over"]
    /\ background' = {}
    /\ ticket' = [d \in Deliveries |-> 0]
    /\ calls' = [k \in PRs |-> 0]
    /\ armed' = {}
    /\ left' = [r \in D!Review |-> 0]
    /\ pending' = [k \in PRs |-> D!None]
    /\ inFlight' = [k \in PRs |-> D!None]
    /\ task' = [r \in D!Review |-> "none"]
    /\ cancelling' = {}
    /\ quiet' = [k \in PRs |-> 0]
    /\ orphaned' = {}
    /\ UNCHANGED <<carries, answer, database, enqueued, served, withdrawn>>

Next ==
    \/ \E q \in Requests, flaws \in SUBSET Flaws : Receive(q, flaws)
    \/ \E q \in Requests : Lookup(q) \/ Commit(q) \/ CommitFails(q) \/ Route(q)
    \/ \E r \in D!Review : EnqueueReview(r)
    \/ LoopStep
    \/ Uninstall
    \/ Crash

\* The loop runs background tasks, due timers and ready tasks.  Nothing is
\* assumed of the clients, of the database, or of crashes.
Fairness ==
    /\ \A q \in Requests : WF_vars(Route(q))
    /\ \A r \in D!Review : WF_vars(EnqueueReview(r))
    /\ WF_vars(LoopStep)

Spec == Init /\ [][Next]_vars /\ Fairness

-----------------------------------------------------------------------------
\* Persist before dispatch: whatever waits to be routed, or has armed a review
\* timer, is in webhook_events, as long as the installation exists.
DispatchedIsPersisted ==
    installed =>
        \A d \in Deliveries :
            ticket[d] # 0 \/ (\E q \in background : carries[q] = d) => d \in events

\* The events that a review is owed to: accepted and not yet routed, or routed
\* and not yet covered by a review.
Owed ==
    {d \in Deliveries : \/ Subject[d] \in PRs /\ \E q \in background : carries[q] = d
                        \/ ticket[d] # 0 /\ d \notin served}

Promise == INSTANCE EventPipeline WITH
    accepted <- [d \in Deliveries |->
                   Cardinality({q \in Requests : carries[q] = d /\ answer[q] = Accepted})],
    waiting <- Owed,
    reviews <- enqueued,
    restarts <- crashes

\* The server keeps the promise of EventPipeline: however often and however
\* concurrently a delivery is sent, one request for it is told "accepted"; no
\* review without an accepted event that it is the first to serve, so that a
\* redelivery causes none; and nothing but a restart loses an accepted event.
EventsAccountedFor == Promise!Spec

\* Every accepted event about a pull request is covered by a review that is
\* enqueued after it was routed, unless the process is restarted.
AcceptedIsReviewed ==
    \A q \in Requests :
        (answer[q] = Accepted /\ Subject[carries[q]] \in PRs /\ crashes = 0)
            ~> (carries[q] \in served \/ crashes > 0)

\* webhook.py:201, "Already processed - safe to return 200": an event that is
\* answered as a duplicate has been, or will be, reviewed.
DuplicateIsReviewed ==
    \A q \in Requests :
        (answer[q] = Duplicate /\ Subject[carries[q]] \in PRs) ~> (carries[q] \in served)
==============================================================================

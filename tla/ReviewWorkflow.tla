---------------------------- MODULE ReviewWorkflow ----------------------------
(***************************************************************************)
(* One review_pr workflow of kenjutsu/pipeline/steps.py: the sequence of   *)
(* steps in _run_review_pipeline, under the durability that @DBOS.step and *)
(* @DBOS.workflow give it.  A step takes effect, then its result is        *)
(* checkpointed; after a restart the workflow runs again from the top and  *)
(* a checkpointed step returns its stored result without being executed.   *)
(* A step that raises ends the workflow: no decorator asks for retries and *)
(* no statement catches.                                                   *)
(*                                                                         *)
(* The functions of logic.py are stubs.  What they return is an input of   *)
(* the workflow; the guard is taken to tell the truth about the head.      *)
(***************************************************************************)
EXTENDS Naturals, Sequences

CONSTANTS MayRaise,   \* TRUE if a step may raise
          MaxCrashes, \* bound: restarts of the process
          MaxPushes   \* bound: pushes to the pull request

WorkflowAssumption ==
    /\ MayRaise \in BOOLEAN
    /\ MaxCrashes \in Nat /\ MaxPushes \in Nat

VARIABLES state,    \* "running", "down", "returned" or "raised"
          next,     \* the step that is executed next: its place in the pipeline
          executed, \* its effect has happened, its result is not stored yet
          outcome,  \* what it returned, for a guard
          record,   \* the status last written to the review record
          result,   \* ReviewResult.status, once returned
          posted,   \* how often publish took effect
          head,     \* how far the head has moved from pr.head_sha (0: not)
          crashes,
          scored,   \* history: scoring is over, so that the last guard counts
          current   \* history: head was pr.head_sha at some time since then

bounds == <<head, crashes>>
vars == <<state, next, executed, outcome, record, result, posted, bounds, scored, current>>

\* The awaits of _run_review_pipeline in order, a status to write or a step to
\* run; after them the statuses of the two early returns.
Pipeline ==
    << "sha_checking", "step_sha_guard",
       "processing_diff", "step_process_diff",
       "extracting_context", "step_structural_context",
       "running_deterministic", "step_deterministic",
       "running_llm", "step_llm_review",
       "scoring_evidence", "step_score",
       "publishing", "step_sha_guard", "step_publish", "complete",
       "aborted", "superseded" >>

Place == DOMAIN Pipeline
Named(name) == {p \in Place : Pipeline[p] = name}
PlaceOf(name) == CHOOSE p \in Named(name) : TRUE
EntryGuard == 2
ExitGuard == 14
Guards == {EntryGuard, ExitGuard}

Steps == {"step_sha_guard", "step_process_diff", "step_structural_context",
          "step_deterministic", "step_llm_review", "step_score", "step_publish"}
Exits == {"aborted", "superseded"}
Statuses == ({"queued"} \cup {Pipeline[p] : p \in Place}) \ Steps

TypeOK ==
    /\ state \in {"running", "down", "returned", "raised"}
    /\ next \in Place
    /\ executed \in BOOLEAN /\ outcome \in BOOLEAN
    /\ record \in Statuses
    /\ result \in {"none", "published"} \cup Exits
    /\ posted \in 0 .. MaxCrashes + 1
    /\ head \in 0 .. MaxPushes
    /\ crashes \in 0 .. MaxCrashes
    /\ scored \in BOOLEAN /\ current \in BOOLEAN

Init ==
    /\ state = "running" /\ next = 1 /\ executed = FALSE /\ outcome = TRUE
    /\ record = "queued" /\ result = "none" /\ posted = 0
    /\ head = 0 /\ crashes = 0
    /\ scored = FALSE /\ current = FALSE

-----------------------------------------------------------------------------
\* Mutated forms of the operators below, for the sensitivity checks.
Following_NoRecheck(p, passed) ==
    IF p = EntryGuard /\ ~passed THEN PlaceOf("aborted") ELSE p + 1
Last_AtPublish(p) == Pipeline[p] \in {"step_publish", "aborted", "superseded"}
Following_GuardLoops(p, passed) == IF passed \/ p \notin Guards THEN p + 1 ELSE p
Checkpointed_Early(ran) == TRUE

-----------------------------------------------------------------------------
\* Control flow: the place after p, given what a guard at p returned.
Following(p, passed) ==
    IF passed \/ p \notin Guards THEN p + 1
    ELSE IF p = EntryGuard THEN PlaceOf("aborted") ELSE PlaceOf("superseded")

\* Where the workflow returns.
Last(p) == Pipeline[p] \in Exits \cup {"complete"}

\* A result is stored only for a step that has run to its end.
Checkpointed(ran) == ran

\* step_update_status
WriteStatus(p) == record' = Pipeline[p]

\* A step takes effect: a status is written, the guard compares the head, the
\* findings are published, or an analysis runs.
Execute ==
    /\ state = "running" /\ ~executed
    /\ executed' = TRUE
    /\ \/ /\ Pipeline[next] \notin Steps
          /\ WriteStatus(next)
          /\ UNCHANGED <<outcome, posted>>
       \/ /\ next \in Guards
          /\ outcome' = (head = 0)
          /\ UNCHANGED <<record, posted>>
       \/ /\ Pipeline[next] = "step_publish"
          /\ posted' = posted + 1
          /\ UNCHANGED <<record, outcome>>
       \/ /\ Pipeline[next] \in Steps \ {"step_sha_guard", "step_publish"}
          /\ UNCHANGED <<record, outcome, posted>>
    /\ UNCHANGED <<state, next, result, bounds, scored, current>>

\* Its result is stored and the workflow goes on, or returns.
Checkpoint ==
    /\ state = "running" /\ Checkpointed(executed)
    /\ executed' = FALSE
    /\ \/ /\ ~Last(next)
          /\ next' = Following(next, outcome)
          /\ UNCHANGED <<state, result>>
       \/ /\ Last(next)
          /\ state' = "returned"
          /\ result' = IF Pipeline[next] \in Exits THEN Pipeline[next] ELSE "published"
          /\ UNCHANGED next
    /\ scored' = (scored \/ Pipeline[next] = "step_score")
    /\ current' = IF Pipeline[next] = "step_score" THEN head = 0 ELSE current
    /\ UNCHANGED <<outcome, record, posted, bounds>>

\* A step raises, before or after its effect; the workflow ends in an error.
Raise ==
    /\ MayRaise
    /\ state = "running"
    /\ state' = "raised"
    /\ UNCHANGED <<next, executed, outcome, record, result, posted, bounds, scored, current>>

Crash ==
    /\ state = "running"
    /\ crashes < MaxCrashes
    /\ crashes' = crashes + 1
    /\ state' = "down"
    /\ UNCHANGED <<next, executed, outcome, record, result, posted, head, scored, current>>

\* The replay arrives at the step whose result is not stored: it is executed
\* (again).
Recover ==
    /\ state = "down"
    /\ state' = "running"
    /\ executed' = FALSE
    /\ UNCHANGED <<next, outcome, record, result, posted, bounds, scored, current>>

\* External: the author pushes; the head never returns to pr.head_sha.
Push ==
    /\ head < MaxPushes
    /\ head' = head + 1
    /\ UNCHANGED <<state, next, executed, outcome, record, result, posted, crashes, scored, current>>

Next == Execute \/ Checkpoint \/ Raise \/ Crash \/ Recover \/ Push

\* DBOS runs the workflow and recovers it after a restart.
Fairness == WF_vars(Execute) /\ WF_vars(Checkpoint) /\ WF_vars(Recover)

Spec == Init /\ [][Next]_vars /\ Fairness

-----------------------------------------------------------------------------
\* "The review record reflects the current pipeline position at all times":
\* while a step runs the record holds the status written before it, however
\* often the process was restarted in between.
RecordTracksPosition ==
    Pipeline[next] \in Steps =>
        record = Pipeline[IF Pipeline[next] = "step_publish" THEN next - 2 ELSE next - 1]

\* The outcome, the record and what GitHub saw agree.  Findings were posted if and
\* only if the review is complete, and again only after a crash that lost the
\* checkpoint; "aborted" means that the head had moved before any analysis ran,
\* "superseded" that it had moved after all of it.
ResultAgrees ==
    /\ state = "returned" =>
         /\ result = "published" <=> record = "complete"
         /\ result \in Exits => record = result
         /\ posted > 0 <=> result = "published"
    /\ posted <= 1 + crashes
    /\ record = "aborted" => ~scored /\ head > 0
    /\ record = "superseded" => scored /\ head > 0

\* "Catches the case where a new push arrived while we were processing":
\* nothing is posted unless the head was the reviewed one after scoring.
PostedAfterRecheck == posted > 0 => scored /\ current

\* The workflow ends, with a result or an exception, restarts or not.
Terminates == <>(state \in {"returned", "raised"})
==============================================================================

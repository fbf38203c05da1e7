---------------------------- MODULE ReviewRecords ----------------------------
(***************************************************************************)
(* kenjutsu/pipeline/supersession.py over the reviews of                   *)
(* kenjutsu/models/reviews.py: callers that ask for the canonical review   *)
(* of a commit, create one if there is none, and supersede the others of   *)
(* the pull request.  Each function runs at once on the shared collection; *)
(* callers interleave between them, as nothing in the code stops them.     *)
(***************************************************************************)
EXTENDS Naturals, FiniteSets

CONSTANTS Ids,     \* review ids, each made by one caller
          Commits, \* (repo_id, pr_number, head_sha)
          CommitOf, \* CommitOf[i]: the commit that caller i reviews
          Pulls,   \* (repo_id, pr_number)
          PullOf,  \* PullOf[c]: the pull request of a commit
          NoId

RecordsAssumption ==
    /\ CommitOf \in [Ids -> Commits]
    /\ PullOf \in [Commits -> Pulls]
    /\ NoId \notin Ids /\ IsFiniteSet(Ids)

VARIABLES status, \* status[i]: of the review with this id, "none" before it exists
          by,     \* superseded_by
          caller, \* where caller i is
          found,  \* history: the reviews that existed when caller i looked
          overlapped \* history: callers that were between creating and
                  \* superseding while another of the pull request was

vars == <<status, by, caller, found, overlapped>>

Working == {"queued", "processing"}
Ended == {"complete", "failed", "aborted"}

TypeOK ==
    /\ status \in [Ids -> {"none", "superseded"} \cup Working \cup Ended]
    /\ by \in [Ids -> Ids \cup {NoId}]
    /\ caller \in [Ids -> {"ensure", "create", "supersede", "done"}]
    /\ found \in [Ids -> SUBSET Ids]
    /\ overlapped \subseteq Ids

Init ==
    /\ status = [i \in Ids |-> "none"]
    /\ by = [i \in Ids |-> NoId]
    /\ caller = [i \in Ids |-> "ensure"]
    /\ found = [i \in Ids |-> {}]
    /\ overlapped = {}

Pull(i) == PullOf[CommitOf[i]]
Reviews == {i \in Ids : status[i] # "none"}

-----------------------------------------------------------------------------
\* ReviewStatus.is_canonical().
IsCanonical(i) == i \in Reviews /\ status[i] \notin {"superseded", "aborted", "failed"}

-----------------------------------------------------------------------------
\* Mutated forms of the operators below, for the sensitivity checks.
Superseded_SameCommit(i) ==
    {j \in Reviews \ {i} : CommitOf[j] = CommitOf[i] /\ IsCanonical(j)}
Superseded_OwnToo(i) == {j \in Reviews : Pull(j) = Pull(i) /\ IsCanonical(j)}
Matching_InProgress(i) ==
    {j \in Reviews : CommitOf[j] = CommitOf[i] /\ status[j] \in Working}

-----------------------------------------------------------------------------
\* ensure_unique_canonical(): the reviews one of which it returns.
Matching(i) == {j \in Reviews : CommitOf[j] = CommitOf[i] /\ IsCanonical(j)}

Ensure(i) ==
    /\ caller[i] = "ensure"
    /\ caller' = [caller EXCEPT ![i] = IF Matching(i) = {} THEN "create" ELSE "done"]
    /\ found' = [found EXCEPT ![i] = Reviews]
    /\ UNCHANGED <<status, by, overlapped>>

Create(i) ==
    /\ caller[i] = "create"
    /\ status' = [status EXCEPT ![i] = "queued"]
    /\ caller' = [caller EXCEPT ![i] = "supersede"]
    /\ LET beside == {k \in Ids : caller[k] = "supersede" /\ Pull(k) = Pull(i)}
       IN  overlapped' = IF beside = {} THEN overlapped ELSE overlapped \cup beside \cup {i}
    /\ UNCHANGED <<by, found>>

\* supersede_previous_reviews(): the reviews it marks, older or newer.
Superseded(i) == {j \in Reviews \ {i} : Pull(j) = Pull(i) /\ IsCanonical(j)}

Supersede(i) ==
    /\ caller[i] = "supersede"
    /\ status' = [j \in Ids |-> IF j \in Superseded(i) THEN "superseded" ELSE status[j]]
    /\ by' = [j \in Ids |-> IF j \in Superseded(i) THEN i ELSE by[j]]
    /\ caller' = [caller EXCEPT ![i] = "done"]
    /\ UNCHANGED <<found, overlapped>>

\* A review in progress advances or ends (its worker, not this module).
Work(i) ==
    /\ status[i] \in Working
    /\ \E s \in Ended \cup {"processing"} : status' = [status EXCEPT ![i] = s]
    /\ UNCHANGED <<by, caller, found, overlapped>>

Next == \E i \in Ids : Ensure(i) \/ Create(i) \/ Supersede(i) \/ Work(i)

Spec == Init /\ [][Next]_vars

-----------------------------------------------------------------------------
\* Between creating and superseding, canonical reviews of a pull request may
\* coexist.  Once no caller is in between there is at most one, however the
\* callers interleaved ("ensures at most one canonical review").
AtMostOneSettled ==
    \A i, j \in Ids :
        IsCanonical(i) /\ IsCanonical(j) /\ Pull(i) = Pull(j) /\ i # j =>
            \E k \in Ids : Pull(k) = Pull(i) /\ caller[k] = "supersede"

\* A review is superseded by another of the same commit only if it was created
\* after the other's caller had looked: ensure_unique_canonical() finds every
\* other, the completed ones too.
CommitReviewedOnce ==
    \A i \in Ids :
        by[i] # NoId /\ CommitOf[by[i]] = CommitOf[i] => i \notin found[by[i]]

\* A pull request with reviews keeps one that is not superseded, unless callers
\* overlapped between creating and superseding: such callers mark each other,
\* and supersession alone may then leave none.
OneIsLeft ==
    \A p \in Pulls :
        LET ofPull == {i \in Reviews : Pull(i) = p}
        IN  ofPull # {} /\ ofPull \cap overlapped = {} =>
                \E i \in ofPull : status[i] # "superseded"
==============================================================================

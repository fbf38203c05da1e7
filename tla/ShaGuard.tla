------------------------------ MODULE ShaGuard ------------------------------
(***************************************************************************)
(* The SHA guard of kenjutsu/pipeline/sha_guard.py: concurrent guard calls *)
(* for one pull request that share _sha_cache, GitHub answering a request  *)
(* at some moment before the answer is received, and pushes at any time.   *)
(*                                                                         *)
(* GitHub holds the pull request in a version: a push, and any other edit, *)
(* makes a new one.  A version is its own ETag, so If-None-Match answers   *)
(* 304 exactly while the version stands.                                   *)
(***************************************************************************)
EXTENDS Integers

CONSTANTS Checks,    \* guard calls
          Shas,      \* head commits
          Expected,  \* Expected[c]: pr.expected_head_sha of call c
          Exits,     \* the calls of exit_guard; the others are of entry_guard
          TTL,       \* _SHA_CACHE_TTL, in ticks
          Timeout,   \* longest time from a request to its answer, in ticks
          Attempts,  \* _MAX_RETRIES
          Faulty,    \* TRUE if a request may fail or be refused
          MaxTime, MaxVersion \* bounds

ShaGuardAssumption ==
    /\ Exits \subseteq Checks
    /\ Expected \in [Checks -> Shas]
    /\ {TTL, Timeout, MaxTime} \subseteq Nat
    /\ {Attempts, MaxVersion} \subseteq Nat \ {0}
    /\ Faulty \in BOOLEAN

VARIABLES pc,      \* where each call is
          tries,   \* requests sent by each call
          stale,   \* stale_entry: the cache entry a call found when it started
          reply,   \* what GitHub answered to a call, not received yet
          sentAt,  \* when the outstanding request was sent
          answer,  \* GuardResult of each call, once it returned
          cache,   \* _sha_cache for this pull request
          now,     \* time.monotonic()
          version, head, \* GitHub: version of the pull request, and its head
          headsAt, \* history: the heads of each tick
          saw      \* history: the heads that the answer of a call may speak of

call == <<pc, tries, stale, reply, sentAt, answer>>
world == <<now, version, head, headsAt>>
vars == <<call, cache, world, saw>>

NoEtag == 0
Entry == [sha : Shas, at : 0 .. MaxTime, etag : 1 .. MaxVersion]
NoEntry == [etag |-> NoEtag]

\* Statuses are classes: ok for 200, unmodified for 304, refused for 403, 429,
\* other 4xx and a 304 nobody asked for, down for 5xx, timeouts and network.
Ok(sha, v) == [code |-> "ok", sha |-> sha, etag |-> v]
Bare(code) == [code |-> code]
BareReply == {Bare(code) : code \in {"none", "unmodified", "refused", "down"}}
Reply == {Ok(sha, v) : sha \in Shas, v \in 1 .. MaxVersion} \cup BareReply

TypeOK ==
    /\ pc \in [Checks -> {"new", "sent", "served", "asleep", "over"}]
    /\ tries \in [Checks -> 0 .. Attempts]
    /\ stale \in [Checks -> Entry \cup {NoEntry}]
    /\ reply \in [Checks -> Reply]
    /\ sentAt \in [Checks -> 0 .. MaxTime]
    /\ answer \in [Checks -> {"none", "current", "stale", "api_error"}]
    /\ cache \in Entry \cup {NoEntry}
    /\ now \in 0 .. MaxTime
    /\ version \in 1 .. MaxVersion /\ head \in Shas
    /\ headsAt \in [0 .. MaxTime -> SUBSET Shas]
    /\ saw \in [Checks -> SUBSET Shas]

Init ==
    /\ pc = [c \in Checks |-> "new"]
    /\ tries = [c \in Checks |-> 0]
    /\ stale = [c \in Checks |-> NoEntry]
    /\ reply = [c \in Checks |-> Bare("none")]
    /\ sentAt = [c \in Checks |-> 0]
    /\ answer = [c \in Checks |-> "none"]
    /\ cache = NoEntry
    /\ now = 0 /\ version = 1 /\ head \in Shas
    /\ headsAt = [t \in 0 .. MaxTime |-> IF t = 0 THEN {head} ELSE {}]
    /\ saw = [c \in Checks |-> {}]

-----------------------------------------------------------------------------
\* Mutated forms of the operators below, for the sensitivity checks.
CacheAtStart_NotEvicted(c) == cache
Stored_KeepsSha(c) == [sha |-> IF stale[c] = NoEntry THEN reply[c].sha ELSE stale[c].sha,
                       at |-> now, etag |-> reply[c].etag]
NextTry_Uncounted(n) == n

-----------------------------------------------------------------------------
Known(e) == e # NoEntry

\* _get_cached serves an entry only within its TTL.
Fresh(e) == Known(e) /\ now - e.at < TTL

\* exit_guard evicts the entry first; no await lies between the eviction and
\* the lookups in check_sha_current.
CacheAtStart(c) == IF c \in Exits THEN NoEntry ELSE cache

Compare(c, sha) == IF sha = Expected[c] THEN "current" ELSE "stale"

Return(c, result) ==
    /\ pc' = [pc EXCEPT ![c] = "over"]
    /\ answer' = [answer EXCEPT ![c] = result]

\* How old a head an entry_guard may speak of: the age of a fresh cache entry
\* plus the time its own answer was under way.
Window(c) == IF c \in Exits THEN {} ELSE {t \in 0 .. now : now - t < TTL + Timeout}

\* A call starts: served from the cache, or with a first request.
Start(c) ==
    LET e == CacheAtStart(c) IN
    /\ pc[c] = "new"
    /\ cache' = e
    /\ saw' = [saw EXCEPT ![c] = {head} \cup UNION {headsAt[t] : t \in Window(c)}]
    /\ \/ Fresh(e) /\ Return(c, Compare(c, e.sha)) /\ UNCHANGED <<tries, stale, sentAt>>
       \/ /\ ~Fresh(e)
          /\ pc' = [pc EXCEPT ![c] = "sent"]
          /\ stale' = [stale EXCEPT ![c] = e]
          /\ tries' = [tries EXCEPT ![c] = 1]
          /\ sentAt' = [sentAt EXCEPT ![c] = now]
          /\ UNCHANGED answer
    /\ UNCHANGED <<reply, world>>

\* External: GitHub answers, or the request fails.
Serve(c) ==
    /\ pc[c] = "sent"
    /\ pc' = [pc EXCEPT ![c] = "served"]
    /\ \E r \in Reply :
         /\ reply' = [reply EXCEPT ![c] = r]
         /\ \/ r = IF stale[c].etag = version THEN Bare("unmodified") ELSE Ok(head, version)
            \/ Faulty /\ r.code \in {"refused", "down"}
    /\ UNCHANGED <<tries, stale, sentAt, answer, cache, world, saw>>

\* The entry stored after a 200, and after a 304.
Stored(c) == [sha |-> reply[c].sha, at |-> now, etag |-> reply[c].etag]
Renewed(c) == [stale[c] EXCEPT !.at = now]

\* Whether a failed try is followed by another.
MayRetry(n) == n < Attempts

\* The answer is received; only a failure is tried again.
Receive(c) ==
    /\ pc[c] = "served"
    /\ \/ /\ reply[c].code = "ok"
          /\ cache' = Stored(c)
          /\ Return(c, Compare(c, reply[c].sha))
       \/ /\ reply[c].code = "unmodified"
          /\ cache' = Renewed(c)
          /\ Return(c, Compare(c, stale[c].sha))
       \/ /\ \/ reply[c].code = "refused"
             \/ reply[c].code = "down" /\ ~MayRetry(tries[c])
          /\ Return(c, "api_error")
          /\ UNCHANGED cache
       \/ /\ reply[c].code = "down" /\ MayRetry(tries[c])
          /\ pc' = [pc EXCEPT ![c] = "asleep"]
          /\ UNCHANGED <<answer, cache>>
    /\ reply' = [reply EXCEPT ![c] = Bare("none")]
    /\ UNCHANGED <<tries, stale, sentAt, world, saw>>

NextTry(n) == n + 1

\* The back-off is over: the same request is sent again.
Retry(c) ==
    /\ pc[c] = "asleep"
    /\ pc' = [pc EXCEPT ![c] = "sent"]
    /\ tries' = [tries EXCEPT ![c] = NextTry(@)]
    /\ sentAt' = [sentAt EXCEPT ![c] = now]
    /\ UNCHANGED <<stale, reply, answer, cache, world, saw>>

\* External: the pull request changes, its head with it or not.
Change ==
    /\ version < MaxVersion
    /\ version' = version + 1
    /\ head' \in Shas
    /\ headsAt' = [headsAt EXCEPT ![now] = @ \cup {head'}]
    /\ saw' = [c \in Checks |->
                 IF pc[c] \in {"new", "over"} THEN saw[c] ELSE saw[c] \cup {head'}]
    /\ UNCHANGED <<call, cache, now>>

\* Time passes, but not beyond the timeout of an outstanding request.
Tick ==
    /\ now < MaxTime
    /\ \A c \in Checks : pc[c] \in {"sent", "served"} => now - sentAt[c] < Timeout
    /\ now' = now + 1
    /\ headsAt' = [headsAt EXCEPT ![now + 1] = {head}]
    /\ UNCHANGED <<call, cache, version, head, saw>>

Progress(c) == Serve(c) \/ Receive(c) \/ Retry(c)

Next ==
    \/ \E c \in Checks : Start(c) \/ Progress(c)
    \/ Change
    \/ Tick

\* A request ends in an answer or a timeout, and a sleep ends.
Fairness == \A c \in Checks : WF_vars(Progress(c))

Spec == Init /\ [][Next]_vars /\ Fairness

-----------------------------------------------------------------------------
\* A guard never invents a mismatch or a match.  For exit_guard, "current"
\* means that the expected sha was the head at some moment of this very call,
\* and "stale" that another one was; for entry_guard the cache adds the time an
\* entry may be old.  In particular an API failure is never answered "stale".
AnswersTruthful ==
    \A c \in Checks :
        /\ answer[c] = "current" => Expected[c] \in saw[c]
        /\ answer[c] = "stale" => saw[c] # {Expected[c]}

\* Whatever the order in which overlapping calls store their answers, the
\* cached sha was the head at most Timeout before it was stored.
CacheIsRecent ==
    Known(cache) =>
        \E t \in 0 .. cache.at : cache.at - t <= Timeout /\ cache.sha \in headsAt[t]

\* Every call returns, whatever GitHub does.
EveryCallReturns == \A c \in Checks : pc[c] = "sent" ~> answer[c] # "none"
=============================================================================

------------------------------- MODULE GuardPart -------------------------------
(***************************************************************************)
(* The SHA guard as a part beside others, with constants and variables of  *)
(* its own and its properties under names of their own.                    *)
(***************************************************************************)
EXTENDS Integers

CONSTANTS Checks, Shas, Exits, Expected, TTL, Timeout, Attempts, Faulty, MaxTime, MaxVersion

VARIABLES pc, tries, stale, reply, sentAt, answer, cache, now, version, head, headsAt, saw

Guard == INSTANCE ShaGuard

-----------------------------------------------------------------------------
\* A guard never invents a mismatch or a match.
AnswersTruthful == Guard!AnswersTruthful

\* The cached sha was the head at most Timeout before it was stored.
CacheIsRecent == Guard!CacheIsRecent

\* Every guard call returns, whatever GitHub does.
EveryCallReturns == Guard!EveryCallReturns
==============================================================================

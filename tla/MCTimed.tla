-------------------------------- MODULE MCTimed --------------------------------
(***************************************************************************)
(* The parts of kenjutsu that run on a clock and owe progress: the         *)
(* debounce manager and the SHA guard, each under its own fairness.        *)
(* Because they share no state, exploring them one at a time, as `part`    *)
(* says, shows all that their product would.                               *)
(***************************************************************************)
EXTENDS Debounce, GuardPart

CONSTANTS p1, p2

VARIABLE part

guardVars ==
    <<pc, tries, stale, reply, sentAt, answer, cache, now, version, head, headsAt, saw>>
timedVars == <<part, vars, guardVars>>

\* Two pull requests, two events for each.
MCPRs == {p1, p2}

\* The exit guard of a review of sha1 beside the entry guard of a review of the
\* pushed sha2.
MCExpected == [exit1 |-> "sha1", entry2 |-> "sha2"]

ASSUME TimedAssumption == Guard!ShaGuardAssumption

TimedInit ==
    /\ part \in {"debounce", "guard"}
    /\ Init /\ Guard!Init
    /\ part # "guard" => head = "sha1"

DebounceStep(action) == part = "debounce" /\ action /\ UNCHANGED <<part, guardVars>>
GuardStep(action) == part = "guard" /\ action /\ UNCHANGED <<part, vars>>

TimedNext == DebounceStep(Next) \/ GuardStep(Guard!Next)

\* The fairness of each part's own specification.
TimedFairness ==
    /\ WF_timedVars(DebounceStep(Tick))
    /\ \A r \in Review : WF_timedVars(DebounceStep(LoopStep(r)))
    /\ \A c \in Checks : WF_timedVars(GuardStep(Guard!Progress(c)))

TimedSpec == TimedInit /\ [][TimedNext]_timedVars /\ TimedFairness

-----------------------------------------------------------------------------
\* Every variable has its type.
TimedTypeOK == TypeOK /\ Guard!TypeOK
==============================================================================

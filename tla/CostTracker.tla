----------------------------- MODULE CostTracker -----------------------------
(***************************************************************************)
(* CostTracker of kenjutsu/pipeline/queue.py, and the reviews of one       *)
(* tenant that charge it as its docstring says: spend, record_cost(), stop *)
(* when the status says hard_stop.  Amounts are whole units of money.  The *)
(* alert at 80% of the cap is a field of the status that no caller reads,  *)
(* and is left out.                                                        *)
(***************************************************************************)
EXTENDS Integers, FiniteSets

CONSTANTS Reviews,   \* concurrent reviews of the tenant
          Caps,      \* the caps that set_cap() may set, 0 among them
          NoCap,     \* the default, float("inf")
          MaxCharge, \* the largest amount recorded at once
          MaxCost    \* bound: no review spends once this much is recorded

CostAssumption ==
    /\ Caps \subseteq Nat /\ NoCap \notin Nat
    /\ MaxCharge \in Nat \ {0} /\ MaxCost \in Nat
    /\ IsFiniteSet(Reviews)

VARIABLES cost,  \* _costs of the tenant
          cap,   \* _caps of the tenant
          spent, \* spent[r]: what review r spent and has not recorded
          doing, \* what each review does
          base   \* history: the cost when the cap was last set

vars == <<cost, cap, spent, doing, base>>

TypeOK ==
    /\ cap \in Caps \cup {NoCap}
    /\ {cost, base} \subseteq 0 .. MaxCost + MaxCharge * Cardinality(Reviews)
    /\ spent \in [Reviews -> 0 .. MaxCharge]
    /\ doing \in [Reviews -> {"nothing", "spending", "stopped", "raised"}]

Init ==
    /\ cost = 0 /\ cap = NoCap /\ base = 0
    /\ spent = [r \in Reviews |-> 0]
    /\ doing = [r \in Reviews |-> "nothing"]

-----------------------------------------------------------------------------
\* Mutated forms of the operators below, for the sensitivity checks.
HardStop_Over(c) == c > cap

-----------------------------------------------------------------------------
\* check(): ratio >= 1.0, for a cap that is neither infinite nor 0 ...
HardStop(c) == c >= cap

\* ... for which current / cap raises.
Outcome(c) ==
    IF cap = NoCap THEN "nothing"
    ELSE IF cap = 0 THEN "raised"
    ELSE IF HardStop(c) THEN "stopped" ELSE "nothing"

SetCap ==
    /\ \E c \in Caps : cap' = c
    /\ base' = cost
    /\ UNCHANGED <<cost, spent, doing>>

\* A review makes a paid call.
Spend(r) ==
    /\ doing[r] = "nothing" /\ cost < MaxCost
    /\ doing' = [doing EXCEPT ![r] = "spending"]
    /\ \E amount \in 1 .. MaxCharge : spent' = [spent EXCEPT ![r] = amount]
    /\ UNCHANGED <<cost, cap, base>>

\* What _costs holds once an amount was recorded.
Recorded(amount) == cost + amount

\* record_cost(): the amount is added before check() computes the ratio.
RecordCost(r) ==
    LET c == Recorded(spent[r]) IN
    /\ doing[r] = "spending"
    /\ cost' = c
    /\ spent' = [spent EXCEPT ![r] = 0]
    /\ doing' = [doing EXCEPT ![r] = Outcome(c)]
    /\ UNCHANGED <<cap, base>>

Next == SetCap \/ \E r \in Reviews : Spend(r) \/ RecordCost(r)

Spec == Init /\ [][Next]_vars

-----------------------------------------------------------------------------
\* check() tells a review to stop only after it spent, so concurrent reviews do
\* overshoot the cap; but each of them by the one call that it had begun.
OvershootBounded ==
    LET cleared == IF base >= cap THEN base ELSE cap - 1
    IN  cap # NoCap => cost <= cleared + MaxCharge * Cardinality(Reviews)
==============================================================================

---------------------------- MODULE ServiceProofs ----------------------------
(***************************************************************************)
(* Proofs about the parts that every review goes through and that share no *)
(* state: the cost tracker, the supersession registry, the review records, *)
(* the pending review publisher, the concurrency queues, the review        *)
(* workflow and the rate limiter.  Each but the last is an instance of     *)
(* Parts, and its theorems assume what its module assumes of its           *)
(* constants.                                                              *)
(***************************************************************************)
EXTENDS RateLimiter, Parts, Sequences, FiniteSets, FiniteSetTheorems, SequenceTheorems, TLAPS

-----------------------------------------------------------------------------
\* Cost tracker.

\* The reviews that were not told to stop, and those in a paid call.
Unstopped == {r \in Spenders : doing[r] \in {"nothing", "spending"}}
Spending == {r \in Spenders : doing[r] = "spending"}

\* What the cap lets pass: OvershootBounded's bound without the overshoot.
Cleared == IF base >= cap THEN base ELSE cap - 1

CostTypes ==
    /\ cost \in Nat /\ base \in Nat /\ base <= cost
    /\ cap \in Caps \cup {NoCap}
    /\ spent \in [Spenders -> 0 .. MaxCharge]
    /\ doing \in [Spenders -> {"nothing", "spending", "stopped", "raised"}]

\* Each review in a call may still add one charge above the bound on spending.
Committed ==
    cost + MaxCharge * Cardinality(Spending) <= MaxCost + MaxCharge * Cardinality(Spenders)

\* Each review not yet told to stop may still add one charge above the cap.
Headroom ==
    cap # NoCap => cost + MaxCharge * Cardinality(Unstopped)
                       <= Cleared + MaxCharge * Cardinality(Spenders)

CostInv == CostTypes /\ Committed /\ Headroom

\* The instance's operators on finite sets are those of FiniteSets.
LEMMA CostSets ==
    ASSUME NEW S
    PROVE  /\ Cost!IsFiniteSet(S) <=> IsFiniteSet(S)
           /\ Cost!Cardinality(S) = Cardinality(S)
<1>1. Cost!IsFiniteSet(S) <=> IsFiniteSet(S)
  BY DEF Cost!IsFiniteSet, IsFiniteSet
<1>2. Cost!Cardinality(S) = Cardinality(S)
  BY DEF Cost!Cardinality, Cardinality
<1> QED
  BY <1>1, <1>2

\* A subset has no more members, and no larger charge.
LEMMA ChargeOfSubset ==
    ASSUME Cost!CostAssumption, NEW S, S \subseteq Spenders
    PROVE  /\ Cardinality(S) \in Nat /\ Cardinality(Spenders) \in Nat
           /\ MaxCharge * Cardinality(S) \in Nat
           /\ MaxCharge * Cardinality(Spenders) \in Nat
           /\ MaxCharge * Cardinality(S) <= MaxCharge * Cardinality(Spenders)
<1>1. IsFiniteSet(Spenders) /\ MaxCharge \in Nat
  BY CostSets DEF Cost!CostAssumption
<1>2. IsFiniteSet(S) /\ Cardinality(S) <= Cardinality(Spenders)
  BY <1>1, FS_Subset
<1>3. Cardinality(S) \in Nat /\ Cardinality(Spenders) \in Nat
  BY <1>1, <1>2, FS_CardinalityType
<1>4. \A m, n, c \in Nat : m <= n => c * m \in Nat /\ c * n \in Nat /\ c * m <= c * n
  BY SMT
<1> QED
  BY <1>1, <1>2, <1>3, <1>4

\* One member fewer is one charge less.
LEMMA ChargeWithout ==
    ASSUME Cost!CostAssumption, NEW S, S \subseteq Spenders, NEW r \in S
    PROVE  MaxCharge * Cardinality(S \ {r}) + MaxCharge = MaxCharge * Cardinality(S)
<1>1. IsFiniteSet(S) /\ MaxCharge \in Nat
  BY CostSets, FS_Subset DEF Cost!CostAssumption
<1>2. Cardinality(S \ {r}) = Cardinality(S) - 1 /\ Cardinality(S) \in Nat
  BY <1>1, FS_RemoveElement, FS_CardinalityType
<1>3. \A n, c \in Nat : c * (n - 1) + c = c * n
  BY SMT
<1> QED
  BY <1>1, <1>2, <1>3

\* Nothing is recorded at first.
LEMMA CostInit == Cost!CostAssumption /\ Cost!Init => CostInv
<1> SUFFICES ASSUME Cost!CostAssumption, Cost!Init PROVE CostInv
  OBVIOUS
<1>1. CostTypes
  BY DEF Cost!CostAssumption, Cost!Init, CostTypes
<1>2. Committed
  <2>1. Spending \subseteq Spenders
    BY DEF Spending
  <2>2. cost = 0 /\ MaxCost \in Nat
    BY DEF Cost!Init, Cost!CostAssumption
  <2> QED
    BY <2>1, <2>2, ChargeOfSubset DEF Committed
<1>3. Headroom
  BY DEF Cost!Init, Headroom
<1> QED
  BY <1>1, <1>2, <1>3 DEF CostInv

\* A new cap counts from the cost at that time.
LEMMA CostSetCap ==
    ASSUME Cost!CostAssumption, CostInv, Cost!SetCap
    PROVE  CostInv'
<1> USE DEF Cost!SetCap
<1>1. CostTypes'
  BY DEF CostInv, CostTypes
<1>2. Committed'
  BY DEF CostInv, Committed, Spending
<1>3. Headroom'
  <2>1. Unstopped' = Unstopped /\ Unstopped \subseteq Spenders
    BY DEF Unstopped
  <2>2. cost' = cost /\ base' = cost /\ cost \in Nat
    BY DEF CostInv, CostTypes
  <2>3. cap' \in Nat /\ cap' # NoCap
    BY DEF Cost!CostAssumption
  <2>4. Cleared' \in Int /\ cost' <= Cleared'
    BY <2>2, <2>3 DEF Cleared
  <2> QED
    BY <2>1, <2>2, <2>4, ChargeOfSubset DEF Headroom
<1> QED
  BY <1>1, <1>2, <1>3 DEF CostInv

\* A call begins below the bound.
LEMMA CostSpend ==
    ASSUME Cost!CostAssumption, CostInv, NEW r \in Spenders, Cost!Spend(r)
    PROVE  CostInv'
<1> USE DEF Cost!Spend
<1>1. CostTypes'
  BY DEF CostInv, CostTypes, Cost!CostAssumption
<1>2. Committed'
  <2>1. Spending' \subseteq Spenders
    BY DEF Spending
  <2>2. cost' = cost /\ cost \in Nat /\ cost <= MaxCost /\ MaxCost \in Nat
    BY DEF CostInv, CostTypes, Cost!CostAssumption
  <2> QED
    BY <2>1, <2>2, ChargeOfSubset DEF Committed
<1>3. Headroom'
  <2>1. Unstopped' = Unstopped
    BY DEF CostInv, CostTypes, Unstopped
  <2> QED
    BY <2>1 DEF CostInv, Headroom, Cleared
<1> QED
  BY <1>1, <1>2, <1>3 DEF CostInv

\* A call ends: at the cap or above it, its review is told to stop.
LEMMA CostRecord ==
    ASSUME Cost!CostAssumption, CostInv, NEW r \in Spenders, Cost!RecordCost(r)
    PROVE  CostInv'
<1> DEFINE c == cost + spent[r]
<1>1. /\ doing[r] = "spending" /\ cost' = c /\ cap' = cap /\ base' = base
      /\ spent' = [spent EXCEPT ![r] = 0]
      /\ doing' = [doing EXCEPT ![r] = Cost!Outcome(c)]
  BY DEF Cost!RecordCost, Cost!Recorded
<1>2. /\ cost \in Nat /\ base \in Nat /\ base <= cost /\ spent[r] \in 0 .. MaxCharge
      /\ MaxCharge \in Nat /\ MaxCost \in Nat
  BY DEF CostInv, CostTypes, Cost!CostAssumption
<1>3. c \in Nat /\ cost <= c /\ c <= cost + MaxCharge
  BY <1>2
<1>4. Cost!Outcome(c) \in {"nothing", "stopped", "raised"}
  BY DEF Cost!Outcome
<1>5. CostTypes'
  BY <1>1, <1>2, <1>3, <1>4 DEF CostInv, CostTypes
<1>6. Spending \subseteq Spenders /\ r \in Spending /\ Unstopped \subseteq Spenders /\ r \in Unstopped
  BY <1>1 DEF Spending, Unstopped
<1>7. Committed'
  <2>1. Spending' = Spending \ {r}
    BY <1>1, <1>4 DEF CostInv, CostTypes, Spending
  <2>2. MaxCharge * Cardinality(Spending \ {r}) + MaxCharge = MaxCharge * Cardinality(Spending)
    BY <1>6, ChargeWithout
  <2>3. /\ MaxCharge * Cardinality(Spending) \in Nat /\ MaxCharge * Cardinality(Spenders) \in Nat
        /\ MaxCharge * Cardinality(Spending \ {r}) \in Nat
    <3>1. Spending \ {r} \subseteq Spenders
      BY <1>6
    <3> QED
      BY <1>6, <3>1, ChargeOfSubset
  <2>4. cost + MaxCharge * Cardinality(Spending) <= MaxCost + MaxCharge * Cardinality(Spenders)
    BY DEF CostInv, Committed
  <2>5. c + MaxCharge * Cardinality(Spending \ {r}) <= MaxCost + MaxCharge * Cardinality(Spenders)
    <3> DEFINE x == MaxCharge * Cardinality(Spending \ {r})
               y == MaxCharge * Cardinality(Spending)
               z == MaxCharge * Cardinality(Spenders)
    <3> HIDE DEF c, x, y, z
    <3>1. x \in Nat /\ y \in Nat /\ z \in Nat /\ x + MaxCharge = y
      BY <2>2, <2>3 DEF x, y, z
    <3>2. cost + y <= MaxCost + z
      BY <2>4 DEF y, z
    <3>3. c + x <= MaxCost + z
      BY <3>1, <3>2, <1>2, <1>3
    <3> QED
      BY <3>3 DEF x, z
  <2> QED
    BY <2>1, <2>5, <1>1 DEF Committed
<1>8. Headroom'
  <2> SUFFICES ASSUME cap # NoCap
               PROVE  c + MaxCharge * Cardinality(Unstopped')
                        <= Cleared + MaxCharge * Cardinality(Spenders)
    BY <1>1 DEF Headroom, Cleared
  <2>1. cap \in Nat
    BY DEF CostInv, CostTypes, Cost!CostAssumption
  <2>2. CASE c < cap
    <3>1. Cleared \in Int /\ c <= Cleared
      BY <1>2, <1>3, <2>1, <2>2 DEF Cleared
    <3>2. Unstopped' \subseteq Spenders
      BY DEF Unstopped
    <3> QED
      BY <3>1, <3>2, <1>3, ChargeOfSubset
  <2>3. CASE c >= cap
    <3>1. Cost!Outcome(c) \in {"stopped", "raised"}
      BY <2>3 DEF Cost!Outcome, Cost!HardStop
    <3>2. Unstopped' = Unstopped \ {r}
      BY <1>1, <3>1 DEF CostInv, CostTypes, Unstopped
    <3> DEFINE x == MaxCharge * Cardinality(Unstopped \ {r})
               y == MaxCharge * Cardinality(Unstopped)
               z == MaxCharge * Cardinality(Spenders)
    <3> HIDE DEF c, x, y, z
    <3>3. x + MaxCharge = y
      BY <1>6, ChargeWithout DEF x, y
    <3>4. x \in Nat /\ y \in Nat /\ z \in Nat
      <4>1. Unstopped \ {r} \subseteq Spenders
        BY <1>6
      <4> QED
        BY <1>6, <4>1, ChargeOfSubset DEF x, y, z
    <3>5. cost + y <= Cleared + z
      BY DEF CostInv, Headroom, y, z
    <3>6. Cleared \in Int
      BY <1>2, <2>1 DEF Cleared
    <3>7. c + x <= Cleared + z
      BY <3>3, <3>4, <3>5, <3>6, <1>2, <1>3
    <3> QED
      BY <3>2, <3>7 DEF x, z
  <2> QED
    BY <1>3, <2>1, <2>2, <2>3
<1> QED
  BY <1>5, <1>7, <1>8 DEF CostInv

\* The invariant holds in every state.
LEMMA CostInductive ==
    ASSUME Cost!CostAssumption
    PROVE  Cost!Spec => []CostInv
<1>1. Cost!Init => CostInv
  BY CostInit
<1>2. CostInv /\ [Cost!Next]_(Cost!vars) => CostInv'
  <2> SUFFICES ASSUME CostInv, [Cost!Next]_(Cost!vars) PROVE CostInv'
    OBVIOUS
  <2>1. CASE Cost!SetCap
    BY <2>1, CostSetCap
  <2>2. CASE \E r \in Spenders : Cost!Spend(r) \/ Cost!RecordCost(r)
    BY <2>2, CostSpend, CostRecord
  <2>3. CASE UNCHANGED Cost!vars
    BY <2>3 DEF Cost!vars, CostInv, CostTypes, Committed, Headroom, Spending, Unstopped, Cleared
  <2> QED
    BY <2>1, <2>2, <2>3 DEF Cost!Next
<1> QED
  BY <1>1, <1>2, PTL DEF Cost!Spec

\* The tracker's state has its type: in particular what is recorded stays within
\* one charge for each review of the largest cost at which a call may begin.
THEOREM CostTypeCorrect ==
    ASSUME Cost!CostAssumption
    PROVE  Cost!Spec => []Cost!TypeOK
<1>1. CostInv => Cost!TypeOK
  <2> SUFFICES ASSUME CostInv PROVE Cost!TypeOK
    OBVIOUS
  <2>1. Spending \subseteq Spenders
    BY DEF Spending
  <2> DEFINE y == MaxCharge * Cardinality(Spending)
             z == MaxCharge * Cardinality(Spenders)
  <2> HIDE DEF y, z
  <2>2. y \in Nat /\ z \in Nat
    BY <2>1, ChargeOfSubset DEF y, z
  <2>3. cost + y <= MaxCost + z
    BY DEF CostInv, Committed, y, z
  <2>4. cost \in 0 .. MaxCost + z /\ base \in 0 .. MaxCost + z
    BY <2>2, <2>3 DEF CostInv, CostTypes, Cost!CostAssumption
  <2>5. Cost!Cardinality(Spenders) = Cardinality(Spenders)
    BY CostSets
  <2> QED
    BY <2>4, <2>5 DEF CostInv, CostTypes, Cost!TypeOK, z
<1> QED
  BY <1>1, CostInductive, PTL

\* check() tells a review to stop only after it spent, so concurrent reviews do
\* overshoot the cap, but each of them by the one call that it had begun:
\* whatever the number of reviews, the caps and the charges.
THEOREM OvershootIsBounded ==
    ASSUME Cost!CostAssumption
    PROVE  Cost!Spec => []OvershootBounded
<1>1. CostInv => Cost!OvershootBounded
  <2> SUFFICES ASSUME CostInv, cap # NoCap
               PROVE  cost <= Cleared + MaxCharge * Cardinality(Spenders)
    BY CostSets DEF Cost!OvershootBounded, Cleared
  <2>1. Unstopped \subseteq Spenders
    BY DEF Unstopped
  <2> DEFINE y == MaxCharge * Cardinality(Unstopped)
             z == MaxCharge * Cardinality(Spenders)
  <2> HIDE DEF y, z
  <2>2. y \in Nat /\ z \in Nat
    BY <2>1, ChargeOfSubset DEF y, z
  <2>3. cost + y <= Cleared + z
    BY DEF CostInv, Headroom, y, z
  <2>4. cost \in Nat /\ cap \in Nat /\ Cleared \in Int
    BY DEF CostInv, CostTypes, Cost!CostAssumption, Cleared
  <2>5. cost <= Cleared + z
    BY <2>2, <2>3, <2>4
  <2> QED
    BY <2>5 DEF z
<1> QED
  BY <1>1, CostInductive, PTL DEF OvershootBounded

-----------------------------------------------------------------------------
\* Supersession registry.

\* The running reviews of a key that were not told to abort, and the reviews of
\* the key that completed while another held its slot.
Canonicals(k) == {r \in Contenders : KeyOf[r] = k /\ phase[r] = "running" /\ r \notin signalled}
StraysOf(k) == {r \in strays : KeyOf[r] = k}

\* A review that was not registered left no trace, and a stray one is over.
PhasesFollow ==
    \A r \in Contenders :
        /\ phase[r] = "new" => r \notin signalled /\ r \notin strays
                               /\ \A k \in Keys : latest[k] # r
        /\ r \in strays => phase[r] = "over"

\* A slot is empty or holds the last review of its key, which then is running.
SlotsFollow ==
    \A k \in Keys :
        /\ events[k] # NoReview => events[k] = latest[k] /\ phase[events[k]] = "running"
        /\ latest[k] # NoReview => KeyOf[latest[k]] = k /\ latest[k] \notin signalled

\* Each canonical review but the one in the slot has a stray completion to thank.
CanonicalsBounded ==
    \A k \in Keys :
        Cardinality(Canonicals(k))
            <= Cardinality(StraysOf(k)) + (IF events[k] = NoReview THEN 0 ELSE 1)

RegistryInv == Registry!TypeOK /\ PhasesFollow /\ SlotsFollow /\ CanonicalsBounded

\* The instance's operators on finite sets are those of FiniteSets.
LEMMA RegistrySets ==
    ASSUME NEW S
    PROVE  /\ Registry!IsFiniteSet(S) <=> IsFiniteSet(S)
           /\ Registry!Cardinality(S) = Cardinality(S)
<1>1. Registry!IsFiniteSet(S) <=> IsFiniteSet(S)
  BY DEF Registry!IsFiniteSet, IsFiniteSet
<1>2. Registry!Cardinality(S) = Cardinality(S)
  BY DEF Registry!Cardinality, Cardinality
<1> QED
  BY <1>1, <1>2

\* How a set of reviews grows and shrinks by one.
LEMMA ReviewsByOne ==
    ASSUME Registry!RegistryAssumption, NEW S \in SUBSET Contenders, NEW r \in Contenders
    PROVE  /\ Cardinality(S) \in Nat
           /\ \A T \in SUBSET S : Cardinality(T) \in Nat /\ Cardinality(T) <= Cardinality(S)
           /\ r \notin S => Cardinality(S \cup {r}) = Cardinality(S) + 1
           /\ r \in S => Cardinality(S \ {r}) = Cardinality(S) - 1
<1>1. IsFiniteSet(Contenders)
  BY RegistrySets DEF Registry!RegistryAssumption
<1>2. IsFiniteSet(S)
  BY <1>1, FS_Subset
<1> QED
  BY <1>2, FS_Subset, FS_CardinalityType, FS_AddElement, FS_RemoveElement

\* Before the first registration there is nothing.
LEMMA RegistryInit == Registry!RegistryAssumption /\ Registry!Init => RegistryInv
<1> SUFFICES ASSUME Registry!RegistryAssumption, Registry!Init PROVE RegistryInv
  OBVIOUS
<1>1. Registry!TypeOK /\ PhasesFollow /\ SlotsFollow
  BY DEF Registry!RegistryAssumption, Registry!Init, Registry!TypeOK, PhasesFollow, SlotsFollow
<1>2. CanonicalsBounded
  <2> SUFFICES ASSUME NEW k \in Keys
               PROVE  Canonicals(k) = {} /\ StraysOf(k) = {} /\ events[k] = NoReview
    BY FS_EmptySet DEF CanonicalsBounded
  <2> QED
    BY DEF Registry!Init, Canonicals, StraysOf
<1> QED
  BY <1>1, <1>2 DEF RegistryInv

\* A registration signals the review in the slot, which was canonical, and makes
\* the new one canonical in its place.
LEMMA RegistryRegister ==
    ASSUME Registry!RegistryAssumption, RegistryInv, NEW r \in Contenders, Registry!Register(r)
    PROVE  RegistryInv'
<1> DEFINE kr == KeyOf[r]
<1>1. /\ kr \in Keys /\ phase[r] = "new" /\ NoReview \notin Contenders
      /\ signalled' = signalled \cup ({events[kr]} \ {NoReview})
      /\ superseded' = IF events[kr] = NoReview THEN superseded ELSE superseded \cup {kr}
      /\ events' = [events EXCEPT ![kr] = r]
      /\ phase' = [phase EXCEPT ![r] = "running"]
      /\ latest' = [latest EXCEPT ![kr] = r]
      /\ strays' = strays
  BY DEF Registry!Register, Registry!Signalled, Registry!Slots, Registry!RegistryAssumption
<1> HIDE DEF kr
<1>2. /\ events \in [Keys -> Contenders \cup {NoReview}]
      /\ superseded \subseteq Keys /\ signalled \subseteq Contenders
      /\ phase \in [Contenders -> {"new", "running", "over"}]
      /\ latest \in [Keys -> Contenders \cup {NoReview}]
      /\ strays \subseteq Contenders
  BY DEF RegistryInv, Registry!TypeOK
<1>3. Registry!TypeOK'
  BY <1>1, <1>2 DEF Registry!TypeOK
<1>4. r # events[kr] /\ (\A k \in Keys : latest[k] # r) /\ r \notin signalled /\ r \notin strays
  BY <1>1, <1>2 DEF RegistryInv, PhasesFollow, SlotsFollow
<1>5. PhasesFollow'
  BY <1>1, <1>2, <1>4 DEF RegistryInv, PhasesFollow, SlotsFollow
<1>6. SlotsFollow'
  <2> SUFFICES ASSUME NEW k \in Keys
               PROVE  /\ events'[k] # NoReview =>
                           events'[k] = latest'[k] /\ phase'[events'[k]] = "running"
                      /\ latest'[k] # NoReview =>
                           KeyOf[latest'[k]] = k /\ latest'[k] \notin signalled'
    BY DEF SlotsFollow
  <2>1. CASE k = kr
    BY <2>1, <1>1, <1>2, <1>4 DEF kr
  <2>2. CASE k # kr
    <3>1. events'[k] = events[k] /\ latest'[k] = latest[k]
      BY <2>2, <1>1, <1>2
    <3>2. events[kr] # NoReview => KeyOf[events[kr]] = kr
      BY <1>1 DEF RegistryInv, SlotsFollow
    <3> QED
      BY <2>2, <3>1, <3>2, <1>1, <1>2 DEF RegistryInv, SlotsFollow
  <2> QED
    BY <2>1, <2>2
<1>7. CanonicalsBounded'
  <2> SUFFICES ASSUME NEW k \in Keys
               PROVE  Cardinality(Canonicals(k)')
                        <= Cardinality(StraysOf(k)) + (IF events'[k] = NoReview THEN 0 ELSE 1)
    BY <1>1 DEF CanonicalsBounded, StraysOf
  <2>1. /\ Canonicals(k) \in SUBSET Contenders /\ StraysOf(k) \in SUBSET Contenders
        /\ Cardinality(Canonicals(k)) \in Nat /\ Cardinality(StraysOf(k)) \in Nat
    <3>1. Canonicals(k) \in SUBSET Contenders /\ StraysOf(k) \in SUBSET Contenders
      BY <1>2 DEF Canonicals, StraysOf
    <3> QED
      BY <3>1, ReviewsByOne
  <2>2. Cardinality(Canonicals(k))
          <= Cardinality(StraysOf(k)) + (IF events[k] = NoReview THEN 0 ELSE 1)
    BY DEF RegistryInv, CanonicalsBounded
  <2>3. CASE k # kr
    <3>1. events[kr] # NoReview => KeyOf[events[kr]] = kr
      BY <1>1 DEF RegistryInv, SlotsFollow
    <3>2. Canonicals(k)' = Canonicals(k)
      BY <2>3, <3>1, <1>1, <1>2 DEF Canonicals, kr
    <3> QED
      BY <2>2, <2>3, <3>2, <1>1, <1>2
  <2>4. CASE k = kr /\ events[kr] = NoReview
    <3>1. Canonicals(k)' = Canonicals(k) \cup {r} /\ r \notin Canonicals(k)
      BY <2>4, <1>1, <1>2, <1>4 DEF Canonicals, kr
    <3>2. Cardinality(Canonicals(k)') = Cardinality(Canonicals(k)) + 1
      BY <2>1, <3>1, ReviewsByOne
    <3>3. events'[k] # NoReview
      BY <2>4, <1>1, <1>2
    <3> QED
      BY <2>1, <2>2, <2>4, <3>2, <3>3
  <2>5. CASE k = kr /\ events[kr] # NoReview
    <3> DEFINE e == events[kr]
    <3>1. e \in Contenders /\ e \in Canonicals(k) /\ e # r
      BY <2>5, <1>1, <1>2, <1>4 DEF RegistryInv, SlotsFollow, Canonicals
    <3>2. Canonicals(k)' = (Canonicals(k) \ {e}) \cup {r} /\ r \notin Canonicals(k)
      BY <2>5, <3>1, <1>1, <1>2, <1>4 DEF Canonicals, kr
    <3> HIDE DEF e
    <3>3. Cardinality(Canonicals(k) \ {e}) = Cardinality(Canonicals(k)) - 1
      BY <2>1, <3>1, ReviewsByOne
    <3>4. Cardinality((Canonicals(k) \ {e}) \cup {r}) = Cardinality(Canonicals(k) \ {e}) + 1
      <4> DEFINE S == Canonicals(k) \ {e}
      <4>1. S \in SUBSET Contenders /\ r \notin S
        BY <2>1, <3>2
      <4> HIDE DEF S
      <4>2. Cardinality(S \cup {r}) = Cardinality(S) + 1
        BY <4>1, ReviewsByOne
      <4> QED
        BY <4>2 DEF S
    <3>5. events'[k] # NoReview
      BY <2>5, <1>1, <1>2
    <3> QED
      BY <2>1, <2>2, <2>5, <3>2, <3>3, <3>4, <3>5
  <2> QED
    BY <2>3, <2>4, <2>5
<1> QED
  BY <1>3, <1>5, <1>6, <1>7 DEF RegistryInv

\* A completion empties the slot: its own, and its review is canonical no more,
\* or another's, and its review is a stray one from then on.
LEMMA RegistryComplete ==
    ASSUME Registry!RegistryAssumption, RegistryInv, NEW r \in Contenders, Registry!Complete(r)
    PROVE  RegistryInv'
<1> DEFINE kr == KeyOf[r]
<1>1. /\ kr \in Keys /\ phase[r] = "running" /\ NoReview \notin Contenders
      /\ events' = [events EXCEPT ![kr] = NoReview]
      /\ superseded' = superseded \ {kr}
      /\ phase' = [phase EXCEPT ![r] = "over"]
      /\ strays' = IF events[kr] \in {r, NoReview} THEN strays ELSE strays \cup {r}
      /\ signalled' = signalled /\ latest' = latest
  BY DEF Registry!Complete, Registry!RegistryAssumption
<1> HIDE DEF kr
<1>2. /\ events \in [Keys -> Contenders \cup {NoReview}]
      /\ superseded \subseteq Keys /\ signalled \subseteq Contenders
      /\ phase \in [Contenders -> {"new", "running", "over"}]
      /\ latest \in [Keys -> Contenders \cup {NoReview}]
      /\ strays \subseteq Contenders
  BY DEF RegistryInv, Registry!TypeOK
<1>3. Registry!TypeOK'
  BY <1>1, <1>2 DEF Registry!TypeOK
<1>4. PhasesFollow'
  BY <1>1, <1>2 DEF RegistryInv, PhasesFollow
<1>5. \A k \in Keys \ {kr} : events[k] # r
  BY <1>1, <1>2 DEF RegistryInv, SlotsFollow, kr
<1>6. SlotsFollow'
  BY <1>1, <1>2, <1>5 DEF RegistryInv, SlotsFollow
<1>7. CanonicalsBounded'
  <2> SUFFICES ASSUME NEW k \in Keys
               PROVE  Cardinality(Canonicals(k)')
                        <= Cardinality(StraysOf(k)') + (IF events'[k] = NoReview THEN 0 ELSE 1)
    BY DEF CanonicalsBounded
  <2>1. /\ Canonicals(k) \in SUBSET Contenders /\ StraysOf(k) \in SUBSET Contenders
        /\ Cardinality(Canonicals(k)) \in Nat /\ Cardinality(StraysOf(k)) \in Nat
    <3>1. Canonicals(k) \in SUBSET Contenders /\ StraysOf(k) \in SUBSET Contenders
      BY <1>2 DEF Canonicals, StraysOf
    <3> QED
      BY <3>1, ReviewsByOne
  <2>2. Cardinality(Canonicals(k))
          <= Cardinality(StraysOf(k)) + (IF events[k] = NoReview THEN 0 ELSE 1)
    BY DEF RegistryInv, CanonicalsBounded
  <2>3. CASE k # kr
    <3>1. Canonicals(k)' = Canonicals(k) /\ StraysOf(k)' = StraysOf(k) /\ events'[k] = events[k]
      BY <2>3, <1>1, <1>2 DEF Canonicals, StraysOf, kr
    <3> QED
      BY <2>2, <3>1
  <2>4. Canonicals(k)' \in SUBSET Canonicals(k)
    BY <1>1, <1>2 DEF Canonicals
  <2>5. Cardinality(Canonicals(k)') \in Nat
        /\ Cardinality(Canonicals(k)') <= Cardinality(Canonicals(k))
    BY <2>1, <2>4, ReviewsByOne
  <2>6. CASE k = kr /\ events[kr] = NoReview
    <3>1. StraysOf(k)' = StraysOf(k) /\ events'[k] = events[k]
      BY <2>6, <1>1, <1>2 DEF StraysOf
    <3> QED
      BY <2>1, <2>2, <2>5, <3>1
  <2>7. CASE k = kr /\ events[kr] = r
    <3>1. r \in Canonicals(k) /\ Canonicals(k)' = Canonicals(k) \ {r}
      BY <2>7, <1>1, <1>2 DEF RegistryInv, SlotsFollow, Canonicals, kr
    <3>2. StraysOf(k)' = StraysOf(k) /\ events[k] # NoReview /\ events'[k] = NoReview
      BY <2>7, <1>1, <1>2 DEF StraysOf
    <3>3. Cardinality(Canonicals(k) \ {r}) = Cardinality(Canonicals(k)) - 1
      BY <2>1, <3>1, ReviewsByOne
    <3> QED
      BY <2>1, <2>2, <3>1, <3>2, <3>3
  <2>8. CASE k = kr /\ events[kr] \notin {r, NoReview}
    <3>1. StraysOf(k)' = StraysOf(k) \cup {r} /\ r \notin StraysOf(k)
      BY <2>8, <1>1, <1>2 DEF RegistryInv, PhasesFollow, StraysOf, kr
    <3>2. Cardinality(StraysOf(k)') = Cardinality(StraysOf(k)) + 1
      BY <2>1, <3>1, ReviewsByOne
    <3>3. events'[k] = NoReview
      BY <2>8, <1>1, <1>2
    <3>4. events[k] # NoReview
      BY <2>8
    <3> QED
      BY <2>1, <2>2, <2>5, <3>2, <3>3, <3>4
  <2> QED
    BY <2>3, <2>6, <2>7, <2>8
<1> QED
  BY <1>3, <1>4, <1>6, <1>7 DEF RegistryInv

\* The invariant holds in every state.
LEMMA RegistryInductive ==
    ASSUME Registry!RegistryAssumption
    PROVE  Registry!Spec => []RegistryInv
<1>1. Registry!Init => RegistryInv
  BY RegistryInit
<1>2. RegistryInv /\ [Registry!Next]_(Registry!vars) => RegistryInv'
  <2> SUFFICES ASSUME RegistryInv, [Registry!Next]_(Registry!vars) PROVE RegistryInv'
    OBVIOUS
  <2>1. CASE Registry!Next
    BY <2>1, RegistryRegister, RegistryComplete DEF Registry!Next
  <2>2. CASE UNCHANGED Registry!vars
    BY <2>2 DEF Registry!vars, RegistryInv, Registry!TypeOK, PhasesFollow, SlotsFollow,
                CanonicalsBounded, Canonicals, StraysOf
  <2> QED
    BY <2>1, <2>2
<1> QED
  BY <1>1, <1>2, PTL DEF Registry!Spec

\* Slots hold reviews of the registry, and phases, signals and strays have their types.
THEOREM RegistryTypeCorrect ==
    ASSUME Registry!RegistryAssumption
    PROVE  Registry!Spec => []Registry!TypeOK
BY RegistryInductive, PTL DEF RegistryInv

\* Supersession never hits the wrong review: register() signals the review in the
\* slot, never the newest; and an older review of the key stays canonical only
\* for a complete() that emptied the slot of another.
THEOREM SupersessionIsSound ==
    ASSUME Registry!RegistryAssumption
    PROVE  Registry!Spec => []SupersessionSound
<1>1. RegistryInv => Registry!SupersessionSound
  <2> SUFFICES ASSUME RegistryInv PROVE Registry!SupersessionSound
    OBVIOUS
  <2>1. Registry!LatestSurvives
    BY DEF RegistryInv, Registry!TypeOK, SlotsFollow, Registry!LatestSurvives,
           Registry!RegistryAssumption
  <2>2. Registry!StraysBoundCanonicals
    <3> SUFFICES ASSUME NEW k \in Keys
                 PROVE  Cardinality(Canonicals(k)) <= 1 + Cardinality(StraysOf(k))
      BY RegistrySets DEF Registry!StraysBoundCanonicals, Registry!Canonical, Canonicals, StraysOf
    <3>1. Canonicals(k) \in SUBSET Contenders /\ StraysOf(k) \in SUBSET Contenders
      BY DEF RegistryInv, Registry!TypeOK, Canonicals, StraysOf
    <3>2. Cardinality(Canonicals(k)) \in Nat /\ Cardinality(StraysOf(k)) \in Nat
      BY <3>1, RegistrySets, FS_Subset, FS_CardinalityType DEF Registry!RegistryAssumption
    <3> QED
      BY <3>2 DEF RegistryInv, CanonicalsBounded
  <2> QED
    BY <2>1, <2>2 DEF Registry!SupersessionSound
<1> QED
  BY <1>1, RegistryInductive, PTL DEF SupersessionSound

-----------------------------------------------------------------------------
\* Review records.

\* A caller's review exists once it was created; it supersedes others in its last
\* step, and knows of no canonical review of its commit before it creates one.
CallersFollow ==
    \A i \in Ids :
        /\ caller[i] \in {"ensure", "create"} => status[i] = "none"
        /\ caller[i] = "supersede" => status[i] # "none"
        /\ caller[i] # "done" => \A j \in Ids : by[j] # i
        /\ found[i] \subseteq Records!Reviews
        /\ caller[i] \in {"create", "supersede"} =>
             \A j \in found[i] : CommitOf[j] = CommitOf[i] => ~Records!IsCanonical(j)

\* Callers of one pull request that are both about to supersede are remembered,
\* and so is every caller whose review was superseded before it superseded.
OverlapsNoted ==
    /\ \A i, j \in Ids : /\ caller[i] = "supersede" /\ caller[j] = "supersede"
                         /\ i # j /\ Records!Pull(i) = Records!Pull(j)
                         => i \in overlapped
    /\ \A i \in Ids : caller[i] = "supersede" /\ status[i] = "superseded" => i \in overlapped

RecordsInv ==
    /\ Records!TypeOK /\ CallersFollow /\ OverlapsNoted
    /\ Records!AtMostOneSettled /\ Records!CommitReviewedOnce /\ Records!OneIsLeft

\* Before any caller there is no review.
LEMMA RecordsInit == Records!RecordsAssumption /\ Records!Init => RecordsInv
<1> SUFFICES ASSUME Records!RecordsAssumption, Records!Init PROVE RecordsInv
  OBVIOUS
<1>1. Records!TypeOK /\ CallersFollow /\ OverlapsNoted
  BY DEF Records!RecordsAssumption, Records!Init, Records!TypeOK, CallersFollow, OverlapsNoted,
         Records!Working, Records!Ended
<1>2. Records!AtMostOneSettled /\ Records!CommitReviewedOnce /\ Records!OneIsLeft
  BY DEF Records!Init, Records!AtMostOneSettled, Records!CommitReviewedOnce, Records!OneIsLeft,
         Records!IsCanonical, Records!Reviews
<1> QED
  BY <1>1, <1>2 DEF RecordsInv

\* What the invariant says of the types, and of which reviews are canonical.
LEMMA RecordsTypes ==
    ASSUME Records!RecordsAssumption, RecordsInv
    PROVE  /\ NoId \notin Ids
           /\ \A i \in Ids : CommitOf[i] \in Commits /\ Records!Pull(i) \in Pulls
           /\ status \in [Ids -> {"none", "superseded", "queued", "processing",
                                  "complete", "failed", "aborted"}]
           /\ by \in [Ids -> Ids \cup {NoId}]
           /\ caller \in [Ids -> {"ensure", "create", "supersede", "done"}]
           /\ found \in [Ids -> SUBSET Ids]
           /\ overlapped \subseteq Ids
           /\ \A i \in Ids : Records!IsCanonical(i) <=> status[i] \in {"queued", "processing", "complete"}
BY DEF Records!RecordsAssumption, RecordsInv, Records!TypeOK, Records!Working, Records!Ended,
       Records!Pull, Records!IsCanonical, Records!Reviews

\* Looking changes no review.
LEMMA RecordsEnsure ==
    ASSUME Records!RecordsAssumption, RecordsInv, NEW i \in Ids, Records!Ensure(i)
    PROVE  RecordsInv'
<1>1. /\ caller[i] = "ensure" /\ found' = [found EXCEPT ![i] = Records!Reviews]
      /\ caller' = [caller EXCEPT ![i] =
                      IF Records!Matching(i) = {} THEN "create" ELSE "done"]
      /\ status' = status /\ by' = by /\ overlapped' = overlapped
  BY DEF Records!Ensure
<1>2. Records!TypeOK'
  BY <1>1 DEF RecordsInv, Records!TypeOK, Records!Reviews
<1>3. CallersFollow'
  BY <1>1, RecordsTypes DEF RecordsInv, CallersFollow, Records!Matching, Records!IsCanonical, Records!Reviews
<1>4. OverlapsNoted'
  BY <1>1, RecordsTypes DEF RecordsInv, OverlapsNoted, Records!Pull
<1>5. Records!AtMostOneSettled'
  BY <1>1, RecordsTypes DEF RecordsInv, Records!AtMostOneSettled, Records!Pull,
     Records!IsCanonical, Records!Reviews
<1>6. Records!CommitReviewedOnce'
  BY <1>1, RecordsTypes DEF RecordsInv, Records!CommitReviewedOnce, CallersFollow
<1>7. Records!OneIsLeft'
  BY <1>1 DEF RecordsInv, Records!OneIsLeft, Records!Pull, Records!Reviews
<1> QED
  BY <1>2, <1>3, <1>4, <1>5, <1>6, <1>7 DEF RecordsInv

\* A created review waits for its own caller to supersede the others.
LEMMA RecordsCreate ==
    ASSUME Records!RecordsAssumption, RecordsInv, NEW i \in Ids, Records!Create(i)
    PROVE  RecordsInv'
<1> DEFINE beside == {k \in Ids : caller[k] = "supersede" /\ Records!Pull(k) = Records!Pull(i)}
<1>1. /\ caller[i] = "create" /\ status' = [status EXCEPT ![i] = "queued"]
      /\ caller' = [caller EXCEPT ![i] = "supersede"]
      /\ overlapped' = IF beside = {} THEN overlapped ELSE overlapped \cup beside \cup {i}
      /\ by' = by /\ found' = found
  BY DEF Records!Create
<1>2. Records!TypeOK'
  BY <1>1 DEF RecordsInv, Records!TypeOK, Records!Working
<1>3. CallersFollow'
  BY <1>1, RecordsTypes DEF RecordsInv, CallersFollow, Records!IsCanonical, Records!Reviews
<1>4. OverlapsNoted'
  BY <1>1, RecordsTypes DEF RecordsInv, OverlapsNoted, Records!Pull
<1>5. Records!AtMostOneSettled'
  BY <1>1, RecordsTypes DEF RecordsInv, Records!AtMostOneSettled, Records!Pull,
     Records!IsCanonical, Records!Reviews
<1>6. Records!CommitReviewedOnce'
  BY <1>1, RecordsTypes DEF RecordsInv, Records!CommitReviewedOnce
<1>7. Records!OneIsLeft'
  BY <1>1, RecordsTypes DEF RecordsInv, Records!OneIsLeft, Records!Pull, Records!Reviews
<1> QED
  BY <1>2, <1>3, <1>4, <1>5, <1>6, <1>7 DEF RecordsInv

\* Superseding leaves at most the caller's own review of the pull request.
LEMMA RecordsSupersede ==
    ASSUME Records!RecordsAssumption, RecordsInv, NEW i \in Ids, Records!Supersede(i)
    PROVE  RecordsInv'
<1> DEFINE S == Records!Superseded(i)
<1>1. /\ caller[i] = "supersede"
      /\ status' = [j \in Ids |-> IF j \in S THEN "superseded" ELSE status[j]]
      /\ by' = [j \in Ids |-> IF j \in S THEN i ELSE by[j]]
      /\ caller' = [caller EXCEPT ![i] = "done"]
      /\ found' = found /\ overlapped' = overlapped
  BY DEF Records!Supersede
<1>2. \A j \in Ids : j \in S <=> /\ j # i /\ Records!Pull(j) = Records!Pull(i)
                                 /\ status[j] \in {"queued", "processing", "complete"}
  BY RecordsTypes DEF Records!Superseded, Records!IsCanonical, Records!Reviews
<1> HIDE DEF S
<1>3. Records!TypeOK'
  BY <1>1, RecordsTypes DEF RecordsInv, Records!TypeOK
<1>4. CallersFollow'
  BY <1>1, <1>2, RecordsTypes DEF RecordsInv, CallersFollow, Records!IsCanonical, Records!Reviews
<1>5. OverlapsNoted'
  BY <1>1, <1>2, RecordsTypes DEF RecordsInv, OverlapsNoted, Records!Pull
<1>6. Records!AtMostOneSettled'
  BY <1>1, <1>2, RecordsTypes DEF RecordsInv, Records!AtMostOneSettled, Records!Pull,
     Records!IsCanonical, Records!Reviews
<1>7. Records!CommitReviewedOnce'
  BY <1>1, <1>2, RecordsTypes DEF RecordsInv, Records!CommitReviewedOnce, CallersFollow
<1>8. Records!OneIsLeft'
  <2>1. Records!Reviews' = Records!Reviews
    BY <1>1, <1>2, RecordsTypes DEF Records!Reviews
  <2> SUFFICES ASSUME NEW p \in Pulls, NEW j \in Records!Reviews, Records!Pull(j) = p,
                      \A k \in Records!Reviews : Records!Pull(k) = p => k \notin overlapped
               PROVE  \E k \in Records!Reviews : Records!Pull(k) = p /\ status'[k] # "superseded"
    BY <1>1, <2>1 DEF Records!OneIsLeft, Records!Pull
  <2>2. CASE p = Records!Pull(i)
    <3>1. i \in Records!Reviews
      BY <1>1 DEF RecordsInv, CallersFollow, Records!Reviews
    <3>2. status[i] # "superseded"
      BY <1>1, <2>2, <3>1 DEF RecordsInv, OverlapsNoted
    <3>3. status'[i] = status[i]
      BY <1>1, <1>2
    <3> QED
      BY <2>2, <3>1, <3>2, <3>3
  <2>3. CASE p # Records!Pull(i)
    <3>1. PICK k \in Records!Reviews : Records!Pull(k) = p /\ status[k] # "superseded"
      BY DEF RecordsInv, Records!OneIsLeft
    <3>2. k \in Ids /\ status'[k] = status[k]
      BY <1>1, <1>2, <2>3, <3>1 DEF Records!Reviews
    <3> QED
      BY <3>1, <3>2
  <2> QED
    BY <2>2, <2>3
<1> QED
  BY <1>3, <1>4, <1>5, <1>6, <1>7, <1>8 DEF RecordsInv

\* Work makes no review canonical that was not.
LEMMA RecordsWork ==
    ASSUME Records!RecordsAssumption, RecordsInv, NEW i \in Ids, Records!Work(i)
    PROVE  RecordsInv'
<1>1. /\ status[i] \in {"queued", "processing"}
      /\ by' = by /\ caller' = caller /\ found' = found /\ overlapped' = overlapped
  BY DEF Records!Work, Records!Working
<1>2. PICK s \in {"complete", "failed", "aborted", "processing"} : status' = [status EXCEPT ![i] = s]
  BY DEF Records!Work, Records!Ended
<1>3. Records!TypeOK'
  BY <1>1, <1>2 DEF RecordsInv, Records!TypeOK, Records!Working, Records!Ended
<1>4. CallersFollow'
  BY <1>1, <1>2, RecordsTypes DEF RecordsInv, CallersFollow, Records!IsCanonical, Records!Reviews
<1>5. OverlapsNoted'
  BY <1>1, <1>2, RecordsTypes DEF RecordsInv, OverlapsNoted, Records!Pull
<1>6. Records!AtMostOneSettled'
  BY <1>1, <1>2, RecordsTypes DEF RecordsInv, Records!AtMostOneSettled, Records!Pull,
     Records!IsCanonical, Records!Reviews
<1>7. Records!CommitReviewedOnce'
  BY <1>1 DEF RecordsInv, Records!CommitReviewedOnce
<1>8. Records!OneIsLeft'
  BY <1>1, <1>2, RecordsTypes DEF RecordsInv, Records!OneIsLeft, Records!Pull, Records!Reviews
<1> QED
  BY <1>3, <1>4, <1>5, <1>6, <1>7, <1>8 DEF RecordsInv

\* The invariant holds in every state.
LEMMA RecordsInductive ==
    ASSUME Records!RecordsAssumption
    PROVE  Records!Spec => []RecordsInv
<1>1. Records!Init => RecordsInv
  BY RecordsInit
<1>2. RecordsInv /\ [Records!Next]_(Records!vars) => RecordsInv'
  <2> SUFFICES ASSUME RecordsInv, [Records!Next]_(Records!vars) PROVE RecordsInv'
    OBVIOUS
  <2>1. CASE Records!Next
    BY <2>1, RecordsEnsure, RecordsCreate, RecordsSupersede, RecordsWork DEF Records!Next
  <2>2. CASE UNCHANGED Records!vars
    <3> USE <2>2 DEF Records!vars, RecordsInv
    <3>1. Records!TypeOK' /\ CallersFollow' /\ OverlapsNoted'
      BY DEF Records!TypeOK, CallersFollow, OverlapsNoted, Records!IsCanonical, Records!Reviews,
             Records!Pull
    <3>2. Records!AtMostOneSettled' /\ Records!CommitReviewedOnce' /\ Records!OneIsLeft'
      BY DEF Records!AtMostOneSettled, Records!CommitReviewedOnce, Records!OneIsLeft,
             Records!IsCanonical, Records!Reviews, Records!Pull
    <3> QED
      BY <3>1, <3>2
  <2> QED
    BY <2>1, <2>2
<1> QED
  BY <1>1, <1>2, PTL DEF Records!Spec

\* Rows, and what the callers found, have their types.
THEOREM RecordsTypeCorrect ==
    ASSUME Records!RecordsAssumption
    PROVE  Records!Spec => []Records!TypeOK
BY RecordsInductive, PTL DEF RecordsInv

\* Whenever no caller of supersede_previous_reviews() is between creating its
\* review and superseding the others, a pull request has at most one canonical
\* review, however many callers there are and however they interleaved.
THEOREM AtMostOneCanonical ==
    ASSUME Records!RecordsAssumption
    PROVE  Records!Spec => []AtMostOneSettled
BY RecordsInductive, PTL DEF RecordsInv, AtMostOneSettled

\* A review is superseded by another of its commit only if
\* ensure_unique_canonical() could not have found it.
THEOREM CommitsAreReviewedOnce ==
    ASSUME Records!RecordsAssumption
    PROVE  Records!Spec => []CommitReviewedOnce
BY RecordsInductive, PTL DEF RecordsInv, CommitReviewedOnce

\* Callers that do not overlap leave each pull request a review that is not
\* superseded.
THEOREM AReviewIsLeft ==
    ASSUME Records!RecordsAssumption
    PROVE  Records!Spec => []OneIsLeft
BY RecordsInductive, PTL DEF RecordsInv, OneIsLeft

-----------------------------------------------------------------------------
\* Pending review publisher.

\* A review shows only what its batch contains, published or not.
PendingInv ==
    /\ Pending!TypeOK /\ Pending!PublishSound
    /\ \A b \in Batches : shown[b] \subseteq Contents[b]

\* An answer that is not lost moves what is left, and counts no lost answer.
LEMMA PendingPublish ==
    ASSUME Pending!PendingAssumption, PendingInv, NEW b \in Batches, Pending!Publish(b)
    PROVE  PendingInv'
<1> USE DEF Pending!Kinds
<1>1. /\ Contents[b] \subseteq {"critical", "minor", "unpublishable"}
      /\ remaining \in {-1} \cup 0 .. Quota /\ quota \in 0 .. Quota
      /\ todo \subseteq Batches /\ b \in todo
      /\ reviews \in [Batches -> 0 .. 1 + MaxLost] /\ lost \in [Batches -> 0 .. MaxLost]
      /\ shown \in [Batches -> SUBSET {"critical", "minor"}]
      /\ MaxLost \in Nat /\ Quota \in Nat
  BY DEF Pending!PendingAssumption, PendingInv, Pending!TypeOK, Pending!Unknown, Pending!Publish
<1> DEFINE C == Pending!Comments(b)
<1>2. /\ C \subseteq {"critical", "minor"} /\ C \subseteq Contents[b]
      /\ "critical" \in Contents[b] => "critical" \in C
  BY <1>1 DEF Pending!Comments
<1> HIDE DEF C
<1>3. \A status_ \in {"ok", "error"} : Pending!Answer(b, status_) =>
        /\ lost' = lost
        /\ quota' \in 0 .. Quota => remaining' \in {-1} \cup 0 .. Quota
        /\ todo' = IF status_ = "error" THEN todo ELSE todo \ {b}
  BY <1>1 DEF Pending!Answer, Pending!Recorded, Pending!Published, Pending!Unknown
<1>4. Pending!Accept(b) =>
        /\ quota > 0 /\ quota' = quota - 1
        /\ reviews' = [reviews EXCEPT ![b] = @ + 1]
        /\ shown' = [shown EXCEPT ![b] = @ \cup C]
  BY DEF Pending!Accept, C
<1>5. reviews[b] <= lost[b]
  BY <1>1 DEF PendingInv, Pending!PublishSound, Pending!PublishedOnce
<1>6. CASE Pending!Accept(b) /\ Pending!Answer(b, "ok")
  <2>1. /\ lost' = lost /\ todo' = todo \ {b} /\ quota' = quota - 1 /\ quota > 0
        /\ reviews' = [reviews EXCEPT ![b] = @ + 1]
        /\ shown' = [shown EXCEPT ![b] = @ \cup C]
        /\ quota' \in 0 .. Quota => remaining' \in {-1} \cup 0 .. Quota
    BY <1>3, <1>4, <1>6
  <2>2. Pending!TypeOK'
    <3>1. quota' \in 0 .. Quota /\ remaining' \in {-1} \cup 0 .. Quota
      BY <2>1, <1>1
    <3>2. reviews' \in [Batches -> 0 .. 1 + MaxLost]
      BY <2>1, <1>1, <1>5
    <3>3. shown' \in [Batches -> SUBSET {"critical", "minor"}]
      BY <2>1, <1>1, <1>2
    <3>4. todo' \subseteq Batches /\ lost' \in [Batches -> 0 .. MaxLost]
      BY <2>1, <1>1
    <3> QED
      BY <3>1, <3>2, <3>3, <3>4 DEF Pending!TypeOK, Pending!Unknown
  <2>3. Pending!PublishedOnce'
    BY <2>1, <1>1, <1>5 DEF PendingInv, Pending!PublishSound, Pending!PublishedOnce
  <2>4. Pending!CriticalsShown' /\ \A c \in Batches : shown'[c] \subseteq Contents[c]
    BY <2>1, <1>1, <1>2 DEF PendingInv, Pending!PublishSound, Pending!CriticalsShown
  <2> QED
    BY <2>2, <2>3, <2>4 DEF PendingInv, Pending!PublishSound
<1>7. CASE Pending!Refuse /\ Pending!Answer(b, "error")
  <2>1. /\ lost' = lost /\ todo' = todo /\ quota' = quota /\ reviews' = reviews /\ shown' = shown
        /\ quota' \in 0 .. Quota => remaining' \in {-1} \cup 0 .. Quota
    BY <1>3, <1>7 DEF Pending!Refuse
  <2>2. Pending!TypeOK'
    BY <2>1, <1>1 DEF Pending!TypeOK, Pending!Unknown
  <2>3. Pending!PublishSound' /\ \A c \in Batches : shown'[c] \subseteq Contents[c]
    BY <2>1 DEF PendingInv, Pending!PublishSound, Pending!PublishedOnce, Pending!CriticalsShown
  <2> QED
    BY <2>2, <2>3 DEF PendingInv
<1>8. CASE /\ lost[b] < MaxLost /\ Pending!Accept(b)
           /\ lost' = [lost EXCEPT ![b] = @ + 1] /\ UNCHANGED <<remaining, todo>>
  <2>1. /\ quota' = quota - 1 /\ quota > 0 /\ todo' = todo /\ remaining' = remaining
        /\ reviews' = [reviews EXCEPT ![b] = @ + 1]
        /\ shown' = [shown EXCEPT ![b] = @ \cup C]
        /\ lost[b] < MaxLost /\ lost' = [lost EXCEPT ![b] = @ + 1]
    BY <1>4, <1>8
  <2>2. Pending!TypeOK'
    <3>1. quota' \in 0 .. Quota /\ remaining' \in {-1} \cup 0 .. Quota
      BY <2>1, <1>1
    <3>2. reviews' \in [Batches -> 0 .. 1 + MaxLost]
      BY <2>1, <1>1, <1>5
    <3>3. shown' \in [Batches -> SUBSET {"critical", "minor"}]
      BY <2>1, <1>1, <1>2
    <3>4. todo' \subseteq Batches /\ lost' \in [Batches -> 0 .. MaxLost]
      BY <2>1, <1>1
    <3> QED
      BY <3>1, <3>2, <3>3, <3>4 DEF Pending!TypeOK, Pending!Unknown
  <2>3. Pending!PublishedOnce'
    BY <2>1, <1>1, <1>5 DEF PendingInv, Pending!PublishSound, Pending!PublishedOnce
  <2>4. Pending!CriticalsShown' /\ \A c \in Batches : shown'[c] \subseteq Contents[c]
    BY <2>1, <1>1, <1>2 DEF PendingInv, Pending!PublishSound, Pending!CriticalsShown
  <2> QED
    BY <2>2, <2>3, <2>4 DEF PendingInv, Pending!PublishSound
<1> QED
  BY <1>6, <1>7, <1>8 DEF Pending!Publish

\* The invariant holds in every state.
LEMMA PendingInductive ==
    ASSUME Pending!PendingAssumption
    PROVE  Pending!Spec => []PendingInv
<1>1. Pending!Init => PendingInv
  BY DEF Pending!PendingAssumption, Pending!Init, PendingInv, Pending!TypeOK, Pending!Unknown,
         Pending!PublishSound, Pending!PublishedOnce, Pending!CriticalsShown
<1>2. PendingInv /\ [Pending!Next]_(Pending!vars) => PendingInv'
  <2> SUFFICES ASSUME PendingInv, [Pending!Next]_(Pending!vars) PROVE PendingInv'
    OBVIOUS
  <2>1. CASE \E b \in Batches : Pending!Publish(b)
    BY <2>1, PendingPublish
  <2>2. CASE Pending!OtherUse \/ Pending!Reset \/ UNCHANGED Pending!vars
    <3>1. /\ remaining' = remaining /\ todo' = todo /\ reviews' = reviews /\ shown' = shown
          /\ lost' = lost /\ quota' \in 0 .. Quota
      BY <2>2 DEF Pending!OtherUse, Pending!Reset, Pending!vars, PendingInv, Pending!TypeOK,
                  Pending!PendingAssumption
    <3>2. Pending!TypeOK'
      BY <3>1 DEF PendingInv, Pending!TypeOK
    <3>3. Pending!PublishSound' /\ \A b \in Batches : shown'[b] \subseteq Contents[b]
      BY <3>1 DEF PendingInv, Pending!PublishSound, Pending!PublishedOnce, Pending!CriticalsShown
    <3> QED
      BY <3>2, <3>3 DEF PendingInv
  <2> QED
    BY <2>1, <2>2 DEF Pending!Next
<1> QED
  BY <1>1, <1>2, PTL DEF Pending!Spec

\* The last limit stays within the quota, and batches and reviews have their types.
THEOREM PendingTypeCorrect ==
    ASSUME Pending!PendingAssumption
    PROVE  Pending!Spec => []Pending!TypeOK
BY PendingInductive, PTL DEF PendingInv

\* A caller that follows the docstring of publish() posts every batch once, but
\* for lost answers, and with its critical findings, whatever the rate limit and
\* whoever else uses the token.
THEOREM PublishIsSound ==
    ASSUME Pending!PendingAssumption
    PROVE  Pending!Spec => []PublishSound
<1>1. PendingInv => Pending!PublishSound
  BY DEF PendingInv
<1> QED
  BY <1>1, PendingInductive, PTL DEF PublishSound

-----------------------------------------------------------------------------
\* Concurrency queues.

\* The jobs of a semaphore that are inside, that a slot is on its way to, and
\* that still wait for one.
InsideOf(p) == {j \in Jobs : PoolOf[j] = p /\ where[j] = "inside"}
HandedOf(p) == {j \in Jobs : PoolOf[j] = p /\ future[j] = "handed"}
PendingOf(p) == {j \in Jobs : PoolOf[j] = p /\ future[j] = "pending"}

\* A job waits exactly while it is in the queue of its semaphore, at one place.
Lined ==
    /\ \A j \in Jobs : where[j] = "waiting" <=> future[j] # "none"
    /\ \A p \in Pools : \A i \in DOMAIN waiters[p] :
         PoolOf[waiters[p][i]] = p /\ where[waiters[p][i]] = "waiting"
    /\ \A p \in Pools : \A i, k \in DOMAIN waiters[p] : waiters[p][i] = waiters[p][k] => i = k
    /\ \A j \in Jobs : where[j] = "waiting" =>
         \E i \in DOMAIN waiters[PoolOf[j]] : waiters[PoolOf[j]][i] = j

Conserved ==
    \A p \in Pools : value[p] + Cardinality(InsideOf(p)) + Cardinality(HandedOf(p)) = Limit[p]

NoIdle ==
    \A p \in Pools : value[p] > 0 /\ PendingOf(p) # {} => HandedOf(p) # {}

QueueInv == Queue!TypeOK /\ Lined /\ Conserved /\ NoIdle

\* The instance's operators on finite sets are those of FiniteSets.
LEMMA QueueSets ==
    ASSUME NEW S
    PROVE  /\ Queue!IsFiniteSet(S) <=> IsFiniteSet(S)
           /\ Queue!Cardinality(S) = Cardinality(S)
<1>1. Queue!IsFiniteSet(S) <=> IsFiniteSet(S)
  BY DEF Queue!IsFiniteSet, IsFiniteSet
<1>2. Queue!Cardinality(S) = Cardinality(S)
  BY DEF Queue!Cardinality, Cardinality
<1> QED
  BY <1>1, <1>2

\* What the invariant says of the types.
LEMMA QueueTypes ==
    ASSUME Queue!QueueAssumption, Queue!TypeOK
    PROVE  /\ \A j \in Jobs : PoolOf[j] \in Pools
           /\ value \in [Pools -> Nat] /\ waiters \in [Pools -> Seq(Jobs)]
           /\ future \in [Jobs -> {"none", "pending", "handed", "cancelled"}]
           /\ where \in [Jobs -> {"new", "waiting", "inside", "out", "cancelled"}]
           /\ \A S \in SUBSET Jobs : IsFiniteSet(S) /\ Cardinality(S) \in Nat
<1>1. IsFiniteSet(Jobs)
  BY QueueSets DEF Queue!QueueAssumption
<1>2. \A S \in SUBSET Jobs : IsFiniteSet(S) /\ Cardinality(S) \in Nat
  BY <1>1, FS_Subset, FS_CardinalityType
<1> QED
  BY <1>2 DEF Queue!QueueAssumption, Queue!TypeOK

\* The pending waiters in the queue of a semaphore are its pending jobs.
LEMMA PendingInLine ==
    ASSUME Queue!QueueAssumption, QueueInv, NEW p \in Pools
    PROVE  Queue!Pending(waiters[p]) = PendingOf(p)
<1>1. waiters[p] \in Seq(Jobs)
  BY QueueTypes DEF QueueInv
<1>2. DOMAIN waiters[p] = 1 .. Len(waiters[p]) /\ \A i \in DOMAIN waiters[p] : waiters[p][i] \in Jobs
  BY <1>1
<1> QED
  BY <1>2 DEF Queue!Pending, Queue!ToSet, PendingOf, QueueInv, Lined

\* A waiter that leaves the queue leaves the others in it, in their order.
LEMMA LineWithout ==
    ASSUME NEW w \in Seq(Jobs), NEW i \in DOMAIN w
    PROVE  LET q == Queue!RemoveAt(w, i)
           IN  /\ q \in Seq(Jobs) /\ DOMAIN q = 1 .. Len(w) - 1
               /\ \A k \in DOMAIN q : q[k] = IF k < i THEN w[k] ELSE w[k + 1]
<1> DEFINE a == SubSeq(w, 1, i - 1)
           b == SubSeq(w, i + 1, Len(w))
<1>1. i \in 1 .. Len(w) /\ Len(w) \in Nat /\ \A k \in 1 .. Len(w) : w[k] \in Jobs
  BY ElementOfSeq, LenProperties
<1>2. /\ a \in Seq(Jobs) /\ Len(a) = i - 1
      /\ \A k \in 1 .. i - 1 : a[k] = w[k]
  <2>1. \A k \in 1 .. i - 1 : w[k] \in Jobs
    BY <1>1
  <2>2. /\ a \in Seq(Jobs) /\ Len(a) = IF 1 <= i - 1 THEN (i - 1) - 1 + 1 ELSE 0
        /\ \A k \in 1 .. (i - 1) - 1 + 1 : a[k] = w[1 + k - 1]
    BY <1>1, <2>1, SubSeqProperties
  <2> QED
    BY <1>1, <2>2
<1>3. /\ b \in Seq(Jobs) /\ Len(b) = Len(w) - i
      /\ \A k \in 1 .. Len(w) - i : b[k] = w[k + i]
  <2>1. \A k \in i + 1 .. Len(w) : w[k] \in Jobs
    BY <1>1
  <2>2. /\ b \in Seq(Jobs) /\ Len(b) = IF i + 1 <= Len(w) THEN Len(w) - (i + 1) + 1 ELSE 0
        /\ \A k \in 1 .. Len(w) - (i + 1) + 1 : b[k] = w[(i + 1) + k - 1]
    BY <1>1, <2>1, SubSeqProperties
  <2> QED
    BY <1>1, <2>2
<1> HIDE DEF a, b
<1>4. /\ a \o b \in Seq(Jobs) /\ Len(a \o b) = Len(a) + Len(b)
      /\ \A k \in 1 .. Len(a) + Len(b) : (a \o b)[k] = IF k <= Len(a) THEN a[k] ELSE b[k - Len(a)]
  BY <1>2, <1>3, ConcatProperties
<1>5. Queue!RemoveAt(w, i) = a \o b
  BY DEF Queue!RemoveAt, a, b
<1>6. DOMAIN (a \o b) = 1 .. Len(w) - 1
  BY <1>1, <1>2, <1>3, <1>4, LenProperties, SMTT(30)
<1>7. ASSUME NEW k \in 1 .. Len(w) - 1
      PROVE  (a \o b)[k] = IF k < i THEN w[k] ELSE w[k + 1]
  <2>1. (a \o b)[k] = IF k <= i - 1 THEN a[k] ELSE b[k - (i - 1)]
    <3>1. Len(a) = i - 1 /\ Len(a) + Len(b) = Len(w) - 1
      BY <1>1, <1>2, <1>3
    <3> QED
      BY <1>4, <3>1
  <2>2. CASE k < i
    BY <1>1, <1>2, <2>1, <2>2
  <2>3. CASE ~(k < i)
    <3>1. k - (i - 1) \in 1 .. Len(w) - i /\ (k - (i - 1)) + i = k + 1
      BY <1>1, <2>3
    <3>2. b[k - (i - 1)] = w[(k - (i - 1)) + i]
      BY <1>3, <3>1
    <3>3. ~(k <= i - 1)
      BY <1>1, <2>3
    <3> QED
      BY <2>1, <2>3, <3>1, <3>2, <3>3
  <2> QED
    BY <2>2, <2>3
<1> QED
  BY <1>4, <1>5, <1>6, <1>7

\* Every slot is free at first, and nobody waits.
LEMMA QueueInit == Queue!QueueAssumption /\ Queue!Init => QueueInv
<1> SUFFICES ASSUME Queue!QueueAssumption, Queue!Init PROVE QueueInv
  OBVIOUS
<1>1. Queue!TypeOK
  BY DEF Queue!QueueAssumption, Queue!Init, Queue!TypeOK
<1>2. Lined /\ NoIdle
  BY QueueTypes, <1>1 DEF Queue!Init, Lined, NoIdle, PendingOf
<1>3. Conserved
  <2> SUFFICES ASSUME NEW p \in Pools
               PROVE  value[p] = Limit[p] /\ InsideOf(p) = {} /\ HandedOf(p) = {} /\ Limit[p] \in Nat
    BY FS_EmptySet DEF Conserved
  <2> QED
    BY DEF Queue!QueueAssumption, Queue!Init, InsideOf, HandedOf
<1> QED
  BY <1>1, <1>2, <1>3 DEF QueueInv

\* A semaphore whose jobs and value a step leaves stays as sound as it was.
LEMMA OtherPools ==
    ASSUME QueueInv, NEW p \in Pools, value'[p] = value[p],
           \A j \in Jobs : PoolOf[j] = p =>
             /\ where'[j] = "inside" <=> where[j] = "inside"
             /\ future'[j] = future[j]
    PROVE  /\ value'[p] + Cardinality(InsideOf(p)') + Cardinality(HandedOf(p)') = Limit[p]
           /\ value'[p] > 0 /\ PendingOf(p)' # {} => HandedOf(p)' # {}
<1>1. InsideOf(p)' = InsideOf(p)
  BY DEF InsideOf
<1>2. HandedOf(p)' = HandedOf(p)
  BY DEF HandedOf
<1>3. PendingOf(p)' = PendingOf(p)
  BY DEF PendingOf
<1> QED
  BY <1>1, <1>2, <1>3 DEF QueueInv, Conserved, NoIdle

\* A job takes a free slot, or goes to the end of the line.
LEMMA QueueEnter ==
    ASSUME Queue!QueueAssumption, QueueInv, NEW j \in Jobs, Queue!Enter(j)
    PROVE  QueueInv'
<1> PICK p \in Pools : p = PoolOf[j]
  BY QueueTypes DEF QueueInv
<1>0. /\ p = PoolOf[j] /\ where[j] = "new" /\ future[j] = "none"
      /\ value \in [Pools -> Nat] /\ waiters \in [Pools -> Seq(Jobs)]
      /\ future \in [Jobs -> {"none", "pending", "handed", "cancelled"}]
      /\ where \in [Jobs -> {"new", "waiting", "inside", "out", "cancelled"}]
  BY QueueTypes DEF QueueInv, Lined, Queue!Enter
<1>1. CASE /\ ~Queue!Locked(p, value[p]) /\ value' = [value EXCEPT ![p] = value[p] - 1]
           /\ where' = [where EXCEPT ![j] = "inside"] /\ UNCHANGED <<waiters, future>>
  <2>1. value[p] \in Nat \ {0}
    BY <1>0, <1>1 DEF Queue!Locked
  <2>2. Queue!TypeOK'
    BY <1>0, <1>1, <2>1 DEF QueueInv, Queue!TypeOK
  <2>3. Lined'
    <3>1. \A i \in Jobs : where'[i] = "waiting" <=> where[i] = "waiting"
      BY <1>0, <1>1
    <3>2. ASSUME NEW r \in Pools, NEW i \in DOMAIN waiters[r]
          PROVE  PoolOf[waiters[r][i]] = r /\ where'[waiters[r][i]] = "waiting"
      <4>1. waiters[r][i] \in Jobs
        BY <1>0
      <4> QED
        BY <3>1, <4>1 DEF QueueInv, Lined
    <3>3. \A r \in Pools : \A i, k \in DOMAIN waiters[r] : waiters[r][i] = waiters[r][k] => i = k
      BY DEF QueueInv, Lined
    <3> QED
      BY <1>1, <3>1, <3>2, <3>3 DEF QueueInv, Lined
  <2>4. ASSUME NEW r \in Pools
        PROVE  /\ value'[r] + Cardinality(InsideOf(r)') + Cardinality(HandedOf(r)') = Limit[r]
               /\ value'[r] > 0 /\ PendingOf(r)' # {} => HandedOf(r)' # {}
    <3>1. CASE r # p
      BY <1>0, <1>1, <3>1, OtherPools
    <3>2. CASE r = p
      <4>1. InsideOf(p)' = InsideOf(p) \cup {j} /\ j \notin InsideOf(p)
        BY <1>0, <1>1 DEF InsideOf
      <4>2. HandedOf(r)' = HandedOf(r) /\ PendingOf(r)' = PendingOf(r)
        BY <1>1 DEF HandedOf, PendingOf
      <4>3. InsideOf(p) \in SUBSET Jobs /\ HandedOf(p) \in SUBSET Jobs
        BY DEF InsideOf, HandedOf
      <4>4. /\ IsFiniteSet(InsideOf(p)) /\ Cardinality(InsideOf(p)) \in Nat
            /\ Cardinality(HandedOf(p)) \in Nat
        BY <4>3, QueueTypes DEF QueueInv
      <4>5. Cardinality(InsideOf(p) \cup {j}) = Cardinality(InsideOf(p)) + 1
        BY <4>1, <4>4, FS_AddElement
      <4>6. value'[p] = value[p] - 1
        BY <1>0, <1>1
      <4>7. value[p] + Cardinality(InsideOf(p)) + Cardinality(HandedOf(p)) = Limit[p]
        BY <1>0 DEF QueueInv, Conserved
      <4>8. value[p] > 0 /\ PendingOf(p) # {} => HandedOf(p) # {}
        BY <1>0 DEF QueueInv, NoIdle
      <4>9. InsideOf(r)' = InsideOf(p) \cup {j} /\ HandedOf(r)' = HandedOf(p) /\ PendingOf(r)' = PendingOf(p)
        BY <3>2, <4>1, <4>2
      <4> QED
        BY <3>2, <2>1, <4>4, <4>5, <4>6, <4>7, <4>8, <4>9
    <3> QED
      BY <3>1, <3>2
  <2> QED
    BY <2>2, <2>3, <2>4 DEF QueueInv, Conserved, NoIdle
<1>2. CASE /\ Queue!Locked(p, value[p]) /\ waiters' = [waiters EXCEPT ![p] = Append(@, j)]
           /\ future' = [future EXCEPT ![j] = "pending"]
           /\ where' = [where EXCEPT ![j] = "waiting"] /\ UNCHANGED value
  <2> DEFINE w == waiters[p]
  <2>1. w \in Seq(Jobs) /\ Len(w) \in Nat /\ DOMAIN w = 1 .. Len(w)
    BY <1>0
  <2>2. waiters'[p] = Append(w, j) /\ \A r \in Pools \ {p} : waiters'[r] = waiters[r]
    BY <1>0, <1>2
  <2>3. /\ Append(w, j) \in Seq(Jobs) /\ DOMAIN Append(w, j) = 1 .. Len(w) + 1
        /\ \A i \in 1 .. Len(w) : Append(w, j)[i] = w[i]
        /\ Append(w, j)[Len(w) + 1] = j
    BY <2>1, AppendProperties
  <2>4. Queue!TypeOK'
    BY <1>0, <1>2, <2>3 DEF QueueInv, Queue!TypeOK
  <2>5. \A i \in DOMAIN w : w[i] # j
    BY <1>0 DEF QueueInv, Lined
  <2> HIDE DEF w
  <2>6. Lined'
    <3>1. \A i \in Jobs : where'[i] = "waiting" <=> future'[i] # "none"
      BY <1>0, <1>2 DEF QueueInv, Lined
    <3>2. ASSUME NEW r \in Pools
          PROVE  /\ \A i \in DOMAIN waiters'[r] :
                      PoolOf[waiters'[r][i]] = r /\ where'[waiters'[r][i]] = "waiting"
                 /\ \A i, k \in DOMAIN waiters'[r] : waiters'[r][i] = waiters'[r][k] => i = k
      <4>1. CASE r # p
        <5>1. waiters'[r] = waiters[r]
          BY <2>2, <4>1
        <5>2. \A i \in DOMAIN waiters[r] : waiters[r][i] # j
          BY <1>0 DEF QueueInv, Lined
        <5> QED
          BY <5>1, <5>2, <1>2, <1>0 DEF QueueInv, Lined
      <4>2. CASE r = p
        <5>1. \A i \in 1 .. Len(w) : w[i] # j /\ PoolOf[w[i]] = p /\ where[w[i]] = "waiting" /\ w[i] \in Jobs
          BY <1>0, <2>1, <2>5 DEF QueueInv, Lined, w
        <5>0. \A i, k \in DOMAIN waiters[p] : waiters[p][i] = waiters[p][k] => i = k
          BY DEF QueueInv, Lined
        <5>2. \A i, k \in 1 .. Len(w) : w[i] = w[k] => i = k
          BY <2>1, <5>0 DEF w
        <5>3. \A i \in 1 .. Len(w) + 1 : i \in 1 .. Len(w) \/ i = Len(w) + 1
          BY <2>1
        <5>4. ASSUME NEW i \in 1 .. Len(w) + 1
              PROVE  PoolOf[Append(w, j)[i]] = p /\ where'[Append(w, j)[i]] = "waiting"
          BY <1>0, <1>2, <2>3, <5>1, <5>3
        <5>5. ASSUME NEW i \in 1 .. Len(w) + 1, NEW k \in 1 .. Len(w) + 1,
                     Append(w, j)[i] = Append(w, j)[k]
              PROVE  i = k
          BY <2>3, <5>1, <5>2, <5>3, <5>5
        <5>6. waiters'[r] = Append(w, j) /\ DOMAIN waiters'[r] = 1 .. Len(w) + 1
          BY <2>2, <2>3, <4>2 DEF w
        <5> QED
          BY <4>2, <5>4, <5>5, <5>6
      <4> QED
        BY <4>1, <4>2
    <3>3. ASSUME NEW k \in Jobs, where'[k] = "waiting"
          PROVE  \E i \in DOMAIN waiters'[PoolOf[k]] : waiters'[PoolOf[k]][i] = k
      <4>1. CASE k = j
        <5>1. Len(w) + 1 \in 1 .. Len(w) + 1
          BY <2>1
        <5> QED
          BY <2>2, <2>3, <4>1, <5>1
      <4>2. CASE k # j
        <5>1. where[k] = "waiting" /\ PoolOf[k] \in Pools
          BY <1>0, <1>2, <3>3, <4>2, QueueTypes DEF QueueInv
        <5>2. PICK i \in DOMAIN waiters[PoolOf[k]] : waiters[PoolOf[k]][i] = k
          BY <5>1 DEF QueueInv, Lined
        <5>3. CASE PoolOf[k] = p
          <6>1. i \in 1 .. Len(w) + 1 /\ Append(w, j)[i] = k
            BY <2>1, <2>3, <5>2, <5>3 DEF w
          <6> QED
            BY <2>2, <2>3, <5>3, <6>1
        <5>4. CASE PoolOf[k] # p
          BY <2>2, <5>1, <5>2, <5>4
        <5> QED
          BY <5>3, <5>4
      <4> QED
        BY <4>1, <4>2
    <3> QED
      BY <3>1, <3>2, <3>3 DEF Lined
  <2>7. Conserved'
    <3>1. \A r \in Pools : InsideOf(r)' = InsideOf(r) /\ HandedOf(r)' = HandedOf(r)
      BY <1>0, <1>2 DEF InsideOf, HandedOf
    <3> QED
      BY <1>2, <3>1 DEF QueueInv, Conserved
  <2>8. NoIdle'
    <3> SUFFICES ASSUME NEW r \in Pools, value[r] > 0, PendingOf(r)' # {}
                 PROVE  HandedOf(r)' # {}
      BY <1>2 DEF NoIdle
    <3>1. HandedOf(r)' = HandedOf(r)
      BY <1>0, <1>2 DEF HandedOf
    <3>2. CASE PendingOf(r) # {}
      BY <3>1, <3>2 DEF QueueInv, NoIdle
    <3>3. CASE PendingOf(r) = {}
      <4>1. r = p
        BY <1>0, <1>2, <3>3 DEF PendingOf
      <4>2. PICK i \in DOMAIN w : future[w[i]] # "cancelled"
        BY <1>2, <4>1 DEF Queue!Locked, w
      <4>3. w[i] \in Jobs /\ PoolOf[w[i]] = p /\ future[w[i]] \in {"pending", "handed"}
        BY <1>0, <2>1, <4>2 DEF QueueInv, Lined, w
      <4>4. w[i] \in HandedOf(r)
        BY <3>3, <4>1, <4>3 DEF HandedOf, PendingOf
      <4> QED
        BY <3>1, <4>4
    <3> QED
      BY <3>2, <3>3
  <2> QED
    BY <2>4, <2>6, <2>7, <2>8 DEF QueueInv
<1> QED
  BY <1>0, <1>1, <1>2 DEF Queue!Enter, Queue!SemaphoreFor

\* cancel() on a job that still waits takes no slot from anybody.
LEMMA QueueCancel ==
    ASSUME Queue!QueueAssumption, QueueInv, NEW j \in Jobs, Queue!CancelWaiting(j)
    PROVE  QueueInv'
<1>1. /\ where[j] = "waiting" /\ future[j] = "pending"
      /\ future' = [future EXCEPT ![j] = "cancelled"]
      /\ value' = value /\ waiters' = waiters /\ where' = where
  BY DEF Queue!CancelWaiting
<1>2. future \in [Jobs -> {"none", "pending", "handed", "cancelled"}]
  BY QueueTypes DEF QueueInv
<1>3. Queue!TypeOK' /\ Lined'
  <2>1. Queue!TypeOK'
    BY <1>1, <1>2 DEF QueueInv, Queue!TypeOK
  <2>2. Lined'
    BY <1>1, <1>2 DEF QueueInv, Lined
  <2> QED
    BY <2>1, <2>2
<1>4. \A p \in Pools : /\ InsideOf(p)' = InsideOf(p) /\ HandedOf(p)' = HandedOf(p)
                       /\ PendingOf(p)' \subseteq PendingOf(p)
  BY <1>1, <1>2 DEF InsideOf, HandedOf, PendingOf
<1>5. Conserved' /\ NoIdle'
  <2>1. Conserved'
    BY <1>1, <1>4 DEF QueueInv, Conserved
  <2>2. NoIdle'
    BY <1>1, <1>4 DEF QueueInv, NoIdle
  <2> QED
    BY <2>1, <2>2
<1> QED
  BY <1>3, <1>5 DEF QueueInv

\* Slots are handed to as many pending jobs of the semaphore.
LEMMA HandOut ==
    ASSUME Queue!QueueAssumption, QueueInv, NEW p \in Pools, NEW queue, NEW n, NEW first,
           Queue!Pending(queue) = PendingOf(p), first \in Queue!Firsts(n, queue)
    PROVE  /\ first \subseteq PendingOf(p) /\ Cardinality(first) = n /\ n \in Nat
           /\ n > 0 => first # {}
<1>1. first \subseteq PendingOf(p) /\ Cardinality(first) = n
  BY QueueSets DEF Queue!Firsts
<1>2. first \in SUBSET Jobs
  BY <1>1 DEF PendingOf
<1>3. n \in Nat
  BY <1>1, <1>2, QueueTypes DEF QueueInv
<1> QED
  BY <1>1, <1>3, FS_EmptySet

\* How many slots are handed on: all of v or all that are waited for, unless
\* there is nothing to hand on or nobody to hand it to.
LEMMA HandedBounds ==
    ASSUME Queue!QueueAssumption, QueueInv, NEW p \in Pools, NEW queue, NEW v \in Nat,
           Queue!Pending(queue) = PendingOf(p)
    PROVE  /\ Queue!Handed(v, queue) \in 0 .. v
           /\ Queue!Handed(v, queue) = 0 => v = 0 \/ PendingOf(p) = {}
<1>1. PendingOf(p) \in SUBSET Jobs
  BY DEF PendingOf
<1>2. IsFiniteSet(PendingOf(p)) /\ Cardinality(PendingOf(p)) \in Nat
  BY <1>1, QueueTypes DEF QueueInv
<1>3. Queue!Handed(v, queue) =
        IF v < Cardinality(PendingOf(p)) THEN v ELSE Cardinality(PendingOf(p))
  BY QueueSets DEF Queue!Handed, Queue!Smaller
<1>4. Cardinality(PendingOf(p)) = 0 => PendingOf(p) = {}
  BY <1>2, FS_EmptySet
<1> QED
  BY <1>2, <1>3, <1>4

\* The common end of Resume and Leave: n slots go to the pending jobs `first` of
\* p, job j is in the queue no longer, and the free slots make up for it.
LEMMA HandOn ==
    ASSUME Queue!QueueAssumption, QueueInv, NEW j \in Jobs, NEW p \in Pools, p = PoolOf[j],
           NEW n \in Nat, NEW first, first \subseteq PendingOf(p), Cardinality(first) = n,
           future[j] # "pending",
           \A i \in Jobs \ {j} : future'[i] = IF i \in first THEN "handed" ELSE future[i],
           future'[j] = "none",
           \A i \in Jobs \ {j} : where'[i] = where[i],
           NEW out \in {0, 1}, out = 1 <=> where[j] = "inside",
           NEW in \in {0, 1}, in = 1 <=> where'[j] = "inside",
           NEW handed \in {0, 1}, handed = 1 <=> future[j] = "handed",
           value'[p] = value[p] + out + handed - in - n,
           \A r \in Pools \ {p} : value'[r] = value[r],
           \/ n > 0
           \/ value'[p] = 0
           \/ PendingOf(p) = {}
           \/ handed = 0 /\ value'[p] = value[p]
    PROVE  Conserved' /\ NoIdle'
<1>1. ASSUME NEW r \in Pools \ {p}
      PROVE  /\ value'[r] + Cardinality(InsideOf(r)') + Cardinality(HandedOf(r)') = Limit[r]
             /\ value'[r] > 0 /\ PendingOf(r)' # {} => HandedOf(r)' # {}
  <2>1. \A i \in Jobs : PoolOf[i] = r => i # j /\ i \notin first
    BY DEF PendingOf
  <2>2. \A i \in Jobs : PoolOf[i] = r => where'[i] = where[i] /\ future'[i] = future[i]
    BY <2>1
  <2> QED
    BY <2>2, OtherPools
<1>2. first \in SUBSET Jobs /\ j \notin first
  BY DEF PendingOf
<1>3. HandedOf(p)' = (HandedOf(p) \ {j}) \cup first
  BY DEF HandedOf, PendingOf
<1>4. InsideOf(p)' = IF in = 1 THEN (InsideOf(p) \ {j}) \cup {j} ELSE InsideOf(p) \ {j}
  <2>1. \A i \in Jobs \ {j} : i \in InsideOf(p)' <=> i \in InsideOf(p) \ {j}
    BY DEF InsideOf
  <2>2. j \in InsideOf(p)' <=> in = 1
    BY DEF InsideOf
  <2>3. InsideOf(p)' \subseteq Jobs /\ InsideOf(p) \subseteq Jobs
    BY DEF InsideOf
  <2>4. CASE in = 1
    BY <2>1, <2>2, <2>3, <2>4
  <2>5. CASE in # 1
    BY <2>1, <2>2, <2>3, <2>5
  <2> QED
    BY <2>4, <2>5
<1>5. /\ IsFiniteSet(InsideOf(p)) /\ Cardinality(InsideOf(p)) \in Nat
      /\ IsFiniteSet(HandedOf(p)) /\ Cardinality(HandedOf(p)) \in Nat
      /\ IsFiniteSet(HandedOf(p) \ {j}) /\ IsFiniteSet(first)
  <2>1. /\ InsideOf(p) \in SUBSET Jobs /\ HandedOf(p) \in SUBSET Jobs
        /\ HandedOf(p) \ {j} \in SUBSET Jobs
    BY DEF InsideOf, HandedOf
  <2> QED
    BY <1>2, <2>1, QueueTypes DEF QueueInv
<1>6. Cardinality(HandedOf(p)') = Cardinality(HandedOf(p)) - handed + n
  <2>1. Cardinality(HandedOf(p) \ {j}) = Cardinality(HandedOf(p)) - handed
    <3>1. j \in HandedOf(p) <=> handed = 1
      BY DEF HandedOf
    <3> QED
      BY <1>5, <3>1, FS_RemoveElement
  <2>2. (HandedOf(p) \ {j}) \cap first = {}
    BY DEF HandedOf, PendingOf
  <2>3. Cardinality((HandedOf(p) \ {j}) \cup first)
          = Cardinality(HandedOf(p) \ {j}) + Cardinality(first) - Cardinality({})
    BY <1>5, <2>2, FS_Union
  <2> QED
    BY <1>3, <1>5, <2>1, <2>3, FS_EmptySet
<1>7. Cardinality(InsideOf(p)') = Cardinality(InsideOf(p)) - out + in
  <2> DEFINE rest == InsideOf(p) \ {j}
  <2>1. j \in InsideOf(p) <=> out = 1
    BY DEF InsideOf
  <2>2. IsFiniteSet(rest) /\ Cardinality(rest) = Cardinality(InsideOf(p)) - out
    BY <1>5, <2>1, FS_RemoveElement
  <2>3. j \notin rest
    OBVIOUS
  <2> HIDE DEF rest
  <2>4. Cardinality(rest \cup {j}) = Cardinality(rest) + 1
    BY <2>2, <2>3, FS_AddElement
  <2>5. InsideOf(p)' = IF in = 1 THEN rest \cup {j} ELSE rest
    BY <1>4 DEF rest
  <2>6. CASE in = 1
    BY <1>5, <2>2, <2>4, <2>5, <2>6
  <2>7. CASE in = 0
    BY <1>5, <2>2, <2>5, <2>7
  <2> QED
    BY <2>6, <2>7
<1>8. value[p] \in Nat /\ value[p] + Cardinality(InsideOf(p)) + Cardinality(HandedOf(p)) = Limit[p]
  BY QueueTypes DEF QueueInv, Conserved
<1>9. value'[p] + Cardinality(InsideOf(p)') + Cardinality(HandedOf(p)') = Limit[p]
  BY <1>5, <1>6, <1>7, <1>8
<1>10. value'[p] > 0 /\ PendingOf(p)' # {} => HandedOf(p)' # {}
  <2>1. PendingOf(p)' \subseteq PendingOf(p)
    BY DEF PendingOf
  <2>2. CASE n > 0
    <3>1. first # {}
      BY <2>2, FS_EmptySet
    <3> QED
      BY <1>3, <3>1
  <2>3. CASE value'[p] = 0 \/ PendingOf(p) = {}
    BY <2>1, <2>3
  <2>4. CASE handed = 0 /\ value'[p] = value[p]
    <3>1. HandedOf(p) \subseteq HandedOf(p)'
      BY <1>3, <2>4 DEF HandedOf
    <3> QED
      BY <2>1, <2>4, <3>1 DEF QueueInv, NoIdle
  <2> QED
    BY <2>2, <2>3, <2>4
<1> QED
  BY <1>1, <1>9, <1>10 DEF Conserved, NoIdle

\* The body of a job ends, however: its slot goes to the first that waits.
LEMMA QueueLeave ==
    ASSUME Queue!QueueAssumption, QueueInv, NEW j \in Jobs, Queue!Leave(j)
    PROVE  QueueInv'
<1> PICK p \in Pools : p = PoolOf[j]
  BY QueueTypes DEF QueueInv
<1> DEFINE n == Queue!Handed(1, waiters[p])
<1>1. PICK ending \in {"out", "cancelled"}, first \in Queue!Firsts(n, waiters[p]) :
        /\ where' = [where EXCEPT ![j] = ending]
        /\ value' = [value EXCEPT ![p] = (value[p] + 1) - n]
        /\ future' = Queue!WithHanded(first)
  BY DEF Queue!Leave, Queue!Freed
<1>2. /\ where[j] = "inside" /\ future[j] = "none" /\ waiters' = waiters
      /\ value \in [Pools -> Nat]
      /\ future \in [Jobs -> {"none", "pending", "handed", "cancelled"}]
      /\ where \in [Jobs -> {"new", "waiting", "inside", "out", "cancelled"}]
  BY QueueTypes DEF QueueInv, Lined, Queue!Leave
<1>3. Queue!Pending(waiters[p]) = PendingOf(p)
  BY PendingInLine
<1>4. n \in 0 .. 1 /\ (n = 0 => PendingOf(p) = {})
  BY <1>3, HandedBounds
<1> HIDE DEF n
<1>5. first \subseteq PendingOf(p) /\ Cardinality(first) = n
  BY <1>3, HandOut
<1>6. future' = [i \in Jobs |-> IF i \in first THEN "handed" ELSE future[i]]
  BY <1>1 DEF Queue!WithHanded
<1>7. first \subseteq Jobs /\ j \notin first /\ \A i \in first : future[i] = "pending"
  BY <1>2, <1>5 DEF PendingOf
<1>8. Queue!TypeOK'
  BY <1>1, <1>2, <1>4, <1>6 DEF QueueInv, Queue!TypeOK
<1>9. Lined'
  <2>1. \A i \in Jobs : where'[i] = "waiting" <=> where[i] = "waiting"
    BY <1>1, <1>2
  <2>2. \A i \in Jobs : future'[i] = "none" <=> future[i] = "none"
    BY <1>2, <1>6, <1>7
  <2>3. \A r \in Pools : \A i \in DOMAIN waiters[r] : waiters[r][i] \in Jobs
    BY QueueTypes DEF QueueInv
  <2> QED
    BY <1>2, <2>1, <2>2, <2>3 DEF QueueInv, Lined
<1>10. Conserved' /\ NoIdle'
  <2>1. \A i \in Jobs \ {j} : where'[i] = where[i]
    BY <1>1, <1>2
  <2>2. /\ \A i \in Jobs \ {j} : future'[i] = IF i \in first THEN "handed" ELSE future[i]
        /\ future'[j] = "none"
    BY <1>2, <1>6, <1>7
  <2>3. /\ value'[p] = value[p] + 1 + 0 - 0 - n
        /\ \A r \in Pools \ {p} : value'[r] = value[r]
    BY <1>1, <1>2, <1>4
  <2>4. where'[j] # "inside" /\ n \in Nat /\ (n > 0 \/ PendingOf(p) = {})
    BY <1>1, <1>2, <1>4
  <2> QED
    BY <1>2, <1>5, <2>1, <2>2, <2>3, <2>4, HandOn
<1> QED
  BY <1>8, <1>9, <1>10 DEF QueueInv

\* A waiting job runs again: it takes the slot handed to it, or gives it back.
LEMMA QueueResume ==
    ASSUME Queue!QueueAssumption, QueueInv, NEW j \in Jobs, Queue!Resume(j)
    PROVE  QueueInv'
<1> PICK p \in Pools : p = PoolOf[j]
  BY QueueTypes DEF QueueInv
<1>1. PICK i \in DOMAIN waiters[PoolOf[j]], back \in {0, 1} :
        LET v == value[PoolOf[j]] + back
            queue == Queue!RemoveAt(waiters[PoolOf[j]], i)
        IN  /\ waiters[PoolOf[j]][i] = j
            /\ back = 1 => future[j] = "handed"
            /\ where' = [where EXCEPT ![j] = IF future[j] = "handed" /\ back = 0
                                               THEN "inside" ELSE "cancelled"]
            /\ waiters' = [waiters EXCEPT ![PoolOf[j]] = queue]
            /\ \E n \in Queue!HandedOn(j, v, queue) : \E first \in Queue!Firsts(n, queue) :
                 /\ value' = [value EXCEPT ![PoolOf[j]] = v - n]
                 /\ future' = [Queue!WithHanded(first) EXCEPT ![j] = "none"]
  BY Zenon DEF Queue!Resume
<1> DEFINE v == value[p] + back
           w == waiters[p]
           queue == Queue!RemoveAt(w, i)
<1>21. PICK n \in Queue!HandedOn(j, v, queue) : \E first \in Queue!Firsts(n, queue) :
        /\ value' = [value EXCEPT ![p] = v - n]
        /\ future' = [Queue!WithHanded(first) EXCEPT ![j] = "none"]
  BY <1>1
<1>2. PICK first \in Queue!Firsts(n, queue) :
        /\ value' = [value EXCEPT ![p] = v - n]
        /\ future' = [Queue!WithHanded(first) EXCEPT ![j] = "none"]
  BY <1>21
<1>3. /\ where[j] = "waiting" /\ future[j] \in {"handed", "cancelled"}
      /\ value \in [Pools -> Nat] /\ waiters \in [Pools -> Seq(Jobs)]
      /\ future \in [Jobs -> {"none", "pending", "handed", "cancelled"}]
      /\ where \in [Jobs -> {"new", "waiting", "inside", "out", "cancelled"}]
      /\ v \in Nat
  BY QueueTypes DEF QueueInv, Lined, Queue!Resume
<1>4. /\ w \in Seq(Jobs) /\ DOMAIN w = 1 .. Len(w) /\ Len(w) \in Nat /\ i \in 1 .. Len(w)
      /\ \A k \in DOMAIN w : w[k] \in Jobs /\ PoolOf[w[k]] = p /\ where[w[k]] = "waiting"
      /\ \A k, m \in DOMAIN w : w[k] = w[m] => k = m
      /\ w[i] = j
  BY <1>1, <1>3 DEF QueueInv, Lined
<1>5. /\ queue \in Seq(Jobs) /\ DOMAIN queue = 1 .. Len(w) - 1
      /\ \A k \in DOMAIN queue : queue[k] = IF k < i THEN w[k] ELSE w[k + 1]
  BY <1>4, LineWithout
<1>6. /\ where' = [where EXCEPT ![j] = IF future[j] = "handed" /\ back = 0
                                         THEN "inside" ELSE "cancelled"]
      /\ waiters' = [waiters EXCEPT ![p] = queue]
      /\ back = 1 => future[j] = "handed"
  BY <1>1
<1> HIDE DEF queue, w, v
\* The members of the shorter queue, and their places.
<1>7. /\ \A k \in DOMAIN queue : \E m \in DOMAIN w \ {i} : queue[k] = w[m]
      /\ \A m \in DOMAIN w \ {i} : \E k \in DOMAIN queue : queue[k] = w[m]
      /\ \A k, m \in DOMAIN queue : queue[k] = queue[m] => k = m
  <2>1. ASSUME NEW k \in DOMAIN queue PROVE \E m \in DOMAIN w \ {i} : queue[k] = w[m]
    <3>1. CASE k < i
      BY <1>4, <1>5, <3>1
    <3>2. CASE ~(k < i)
      <4>1. k + 1 \in DOMAIN w \ {i} /\ queue[k] = w[k + 1]
        BY <1>4, <1>5, <3>2
      <4> QED
        BY <4>1
    <3> QED
      BY <3>1, <3>2
  <2>2. ASSUME NEW m \in DOMAIN w \ {i} PROVE \E k \in DOMAIN queue : queue[k] = w[m]
    <3>1. CASE m < i
      BY <1>4, <1>5, <3>1
    <3>2. CASE ~(m < i)
      <4>1. m - 1 \in DOMAIN queue /\ ~(m - 1 < i) /\ (m - 1) + 1 = m
        BY <1>4, <1>5, <3>2
      <4>2. queue[m - 1] = w[(m - 1) + 1]
        BY <1>5, <4>1
      <4> QED
        BY <4>1, <4>2
    <3> QED
      BY <3>1, <3>2
  <2>3. ASSUME NEW k \in DOMAIN queue, NEW m \in DOMAIN queue, queue[k] = queue[m] PROVE k = m
    <3> DEFINE K == IF k < i THEN k ELSE k + 1
               M == IF m < i THEN m ELSE m + 1
    <3>1. queue[k] = w[K] /\ queue[m] = w[M]
      BY <1>5
    <3>2. K \in DOMAIN w /\ M \in DOMAIN w
      BY <1>4, <1>5
    <3>3. K = M
      <4> HIDE DEF K, M
      <4> QED
        BY <1>4, <2>3, <3>1, <3>2
    <3>4. k \in Int /\ m \in Int /\ i \in Int
      BY <1>4, <1>5
    <3> QED
      BY <3>3, <3>4
  <2> QED
    BY <2>1, <2>2, <2>3
<1>8. Queue!Pending(queue) = PendingOf(p)
  <2>1. Queue!Pending(w) = PendingOf(p)
    BY PendingInLine DEF w
  <2>2. future[j] # "pending"
    BY <1>3
  <2> QED
    BY <1>4, <1>7, <2>1, <2>2 DEF Queue!Pending, Queue!ToSet
<1>9. first \subseteq PendingOf(p) /\ Cardinality(first) = n /\ n \in Nat
  BY <1>2, <1>8, HandOut
<1>10. /\ n \in 0 .. v
       /\ n > 0 \/ v = 0 \/ PendingOf(p) = {} \/ (n = 0 /\ future[j] = "cancelled")
  <2>1. /\ Queue!Handed(v, queue) \in 0 .. v
        /\ Queue!Handed(v, queue) = 0 => v = 0 \/ PendingOf(p) = {}
    BY <1>3, <1>8, HandedBounds
  <2> DEFINE u == Queue!Smaller(v, 1)
  <2>2. u \in 0 .. v /\ u \in Nat /\ (u = 0 => v = 0)
    BY <1>3 DEF Queue!Smaller
  <2> HIDE DEF u
  <2>3. /\ Queue!Handed(u, queue) \in 0 .. u
        /\ Queue!Handed(u, queue) = 0 => u = 0 \/ PendingOf(p) = {}
    BY <1>8, <2>2, HandedBounds
  <2>4. n \in {Queue!Handed(v, queue),
               IF future[j] = "handed" THEN Queue!Handed(u, queue) ELSE 0}
    BY <1>2 DEF Queue!HandedOn, u
  <2>5. CASE n = Queue!Handed(v, queue)
    BY <1>3, <2>1, <2>5
  <2>6. CASE future[j] = "handed" /\ n = Queue!Handed(u, queue)
    BY <1>3, <2>2, <2>3, <2>6
  <2>7. CASE future[j] = "cancelled" /\ n = 0
    BY <1>3, <2>7
  <2> QED
    BY <1>3, <2>4, <2>5, <2>6, <2>7
<1>11. /\ \A k \in Jobs \ {j} : future'[k] = IF k \in first THEN "handed" ELSE future[k]
       /\ future'[j] = "none"
       /\ future' \in [Jobs -> {"none", "pending", "handed", "cancelled"}]
  BY <1>2, <1>3 DEF Queue!WithHanded
<1>12. first \subseteq Jobs /\ j \notin first /\ \A k \in first : future[k] = "pending"
  BY <1>3, <1>9 DEF PendingOf
<1>13. Queue!TypeOK'
  <2>1. value' \in [Pools -> Nat]
    BY <1>2, <1>3, <1>10
  <2>2. waiters' \in [Pools -> Seq(Jobs)] /\ where' \in [Jobs -> {"new", "waiting", "inside", "out", "cancelled"}]
    BY <1>3, <1>5, <1>6
  <2> QED
    BY <1>11, <2>1, <2>2 DEF Queue!TypeOK
<1>14. waiters'[p] = queue /\ \A r \in Pools \ {p} : waiters'[r] = waiters[r]
  BY <1>3, <1>6
<1>15. where'[j] \in {"inside", "cancelled"} /\ \A k \in Jobs \ {j} : where'[k] = where[k]
  BY <1>3, <1>6
<1>16. Lined'
  <2>1. \A k \in Jobs : where'[k] = "waiting" <=> future'[k] # "none"
    BY <1>11, <1>12, <1>15 DEF QueueInv, Lined
  <2>2. ASSUME NEW r \in Pools
        PROVE  /\ \A k \in DOMAIN waiters'[r] :
                    PoolOf[waiters'[r][k]] = r /\ where'[waiters'[r][k]] = "waiting"
               /\ \A k, m \in DOMAIN waiters'[r] : waiters'[r][k] = waiters'[r][m] => k = m
    <3>1. CASE r = p
      <4>1. ASSUME NEW k \in DOMAIN queue PROVE PoolOf[queue[k]] = p /\ where'[queue[k]] = "waiting"
        <5>1. PICK m \in DOMAIN w \ {i} : queue[k] = w[m]
          BY <1>7
        <5>2. w[m] \in Jobs \ {j} /\ PoolOf[w[m]] = p /\ where[w[m]] = "waiting"
          BY <1>4
        <5> QED
          BY <1>15, <5>1, <5>2
      <4> QED
        BY <1>7, <1>14, <3>1, <4>1
    <3>2. CASE r # p
      <4>1. waiters'[r] = waiters[r]
        BY <1>14, <3>2
      <4>2. \A k \in DOMAIN waiters[r] : waiters[r][k] \in Jobs \ {j}
        BY <1>3, <3>2 DEF QueueInv, Lined
      <4> QED
        BY <1>15, <4>1, <4>2 DEF QueueInv, Lined
    <3> QED
      BY <3>1, <3>2
  <2>3. ASSUME NEW k \in Jobs, where'[k] = "waiting"
        PROVE  \E m \in DOMAIN waiters'[PoolOf[k]] : waiters'[PoolOf[k]][m] = k
    <3>1. k # j /\ where[k] = "waiting" /\ PoolOf[k] \in Pools
      BY <1>15, <2>3, QueueTypes DEF QueueInv
    <3>2. PICK m \in DOMAIN waiters[PoolOf[k]] : waiters[PoolOf[k]][m] = k
      BY <3>1 DEF QueueInv, Lined
    <3>3. CASE PoolOf[k] = p
      <4>1. m \in DOMAIN w \ {i} /\ w[m] = k
        BY <1>4, <3>1, <3>2, <3>3 DEF w
      <4>2. PICK l \in DOMAIN queue : queue[l] = k
        BY <1>7, <4>1
      <4> QED
        BY <1>14, <3>3, <4>2
    <3>4. CASE PoolOf[k] # p
      BY <1>14, <3>1, <3>2, <3>4
    <3> QED
      BY <3>3, <3>4
  <2> QED
    BY <2>1, <2>2, <2>3 DEF Lined
<1>17. Conserved' /\ NoIdle'
  <2> DEFINE in == IF future[j] = "handed" /\ back = 0 THEN 1 ELSE 0
             handed == IF future[j] = "handed" THEN 1 ELSE 0
  <2>1. /\ in \in {0, 1} /\ handed \in {0, 1} /\ back = handed - in
        /\ in = 1 <=> where'[j] = "inside"
        /\ handed = 1 <=> future[j] = "handed"
    BY <1>3, <1>6
  <2>2. value'[p] = (value[p] + back) - n /\ \A r \in Pools \ {p} : value'[r] = value[r]
    BY <1>2, <1>3 DEF v
  <2>3. /\ n > 0 \/ value'[p] = 0 \/ PendingOf(p) = {} \/ (handed = 0 /\ value'[p] = value[p])
    <3>1. v = value[p] + back /\ value[p] \in Nat
      BY <1>3 DEF v
    <3>2. future[j] = "cancelled" => handed = 0 /\ back = 0
      BY <1>6
    <3> QED
      BY <1>9, <1>10, <2>2, <3>1, <3>2
  <2> HIDE DEF in, handed
  <2>4. value'[p] = value[p] + 0 + handed - in - n
    BY <1>3, <1>9, <2>1, <2>2
  <2>5. where[j] # "inside" /\ future[j] # "pending"
    BY <1>3
  <2> QED
    BY <1>9, <1>11, <1>15, <2>1, <2>2, <2>3, <2>4, <2>5, HandOn
<1> QED
  BY <1>13, <1>16, <1>17 DEF QueueInv

\* The invariant holds in every state.
LEMMA QueueInductive ==
    ASSUME Queue!QueueAssumption
    PROVE  Queue!Spec => []QueueInv
<1>1. Queue!Init => QueueInv
  BY QueueInit
<1>2. QueueInv /\ [Queue!Next]_(Queue!vars) => QueueInv'
  <2> SUFFICES ASSUME QueueInv, [Queue!Next]_(Queue!vars) PROVE QueueInv'
    OBVIOUS
  <2>1. CASE Queue!Next
    BY <2>1, QueueEnter, QueueCancel, QueueResume, QueueLeave DEF Queue!Next
  <2>2. CASE UNCHANGED Queue!vars
    <3>1. UNCHANGED <<value, waiters, future, where>>
      BY <2>2 DEF Queue!vars
    <3>2. \A p \in Pools : UNCHANGED <<InsideOf(p), HandedOf(p), PendingOf(p)>>
      BY <3>1 DEF InsideOf, HandedOf, PendingOf
    <3>3. Conserved' /\ NoIdle'
      BY <3>1, <3>2 DEF QueueInv, Conserved, NoIdle
    <3>4. Queue!TypeOK' /\ Lined'
      BY <3>1 DEF QueueInv, Queue!TypeOK, Lined
    <3> QED
      BY <3>3, <3>4 DEF QueueInv
  <2> QED
    BY <2>1, <2>2
<1> QED
  BY <1>1, <1>2, PTL DEF Queue!Spec

\* No value of a semaphore is negative, and its queue holds jobs.
THEOREM QueueTypeCorrect ==
    ASSUME Queue!QueueAssumption
    PROVE  Queue!Spec => []Queue!TypeOK
BY QueueInductive, PTL DEF QueueInv

\* Whatever is cancelled and whatever raises, a semaphore neither leaks a slot nor
\* makes one, and leaves no slot free while a job waits that nobody wakes: for
\* every number of jobs, of tenants and of slots.
THEOREM SlotsAreSound ==
    ASSUME Queue!QueueAssumption
    PROVE  Queue!Spec => []SlotsSound
<1>1. QueueInv => Queue!SlotsSound
  <2> SUFFICES ASSUME QueueInv, NEW p \in Pools
               PROVE  /\ value[p] + Queue!Cardinality(Queue!At(p, "inside"))
                           + Queue!Cardinality(Queue!HandedOut(p)) = Limit[p]
                      /\ \A j \in Queue!At(p, "waiting") :
                           value[p] > 0 /\ future[j] = "pending" =>
                             \E k \in Queue!At(p, "waiting") : future[k] = "handed"
    BY DEF Queue!SlotsSound, Queue!SlotsConserved, Queue!NoIdleSlot
  <2>1. Queue!At(p, "inside") = InsideOf(p)
    BY DEF Queue!At, InsideOf
  <2>2. Queue!HandedOut(p) = HandedOf(p)
    BY DEF Queue!HandedOut, Queue!At, HandedOf, QueueInv, Lined
  <2>3. value[p] + Queue!Cardinality(InsideOf(p)) + Queue!Cardinality(HandedOf(p)) = Limit[p]
    BY QueueSets DEF QueueInv, Conserved
  <2>4. ASSUME NEW j \in Queue!At(p, "waiting"), value[p] > 0, future[j] = "pending"
        PROVE  \E k \in Queue!At(p, "waiting") : future[k] = "handed"
    <3>1. HandedOf(p) # {}
      BY <2>4 DEF QueueInv, NoIdle, PendingOf, Queue!At
    <3> QED
      BY <2>2, <3>1 DEF Queue!HandedOut
  <2> QED
    BY <2>1, <2>2, <2>3, <2>4
<1> QED
  BY <1>1, QueueInductive, PTL DEF SlotsSound

-----------------------------------------------------------------------------
\* Review workflow: the places that the proofs name.

Scoring == 12
Publishing == 15
Complete == 16
Aborted == 17
Superseded == 18

\* What the proofs need to know of the sequence of awaits.
LEMMA PipelineFacts ==
    /\ Workflow!Place = 1 .. Superseded
    /\ \A p \in Workflow!Place : Workflow!Pipeline[p] \in Workflow!Steps <=> p \in {2, 4, 6, 8, 10, Scoring, Workflow!ExitGuard, Publishing}
    /\ \A p \in Workflow!Place : Workflow!Pipeline[p] = "step_publish" <=> p = Publishing
    /\ \A p \in Workflow!Place : Workflow!Pipeline[p] = "step_score" <=> p = Scoring
    /\ \A p \in Workflow!Place : Workflow!Pipeline[p] = "complete" <=> p = Complete
    /\ \A p \in Workflow!Place : Workflow!Pipeline[p] = "aborted" <=> p = Aborted
    /\ \A p \in Workflow!Place : Workflow!Pipeline[p] = "superseded" <=> p = Superseded
    /\ \A p \in Workflow!Place : Workflow!Pipeline[p] = "step_sha_guard" <=> p \in Workflow!Guards
    /\ \A p \in Workflow!Place : Workflow!Pipeline[p] \notin {"queued", "none", "published"}
BY DEF Workflow!Pipeline, Workflow!Place, Workflow!Steps, Workflow!Guards, Workflow!EntryGuard,
   Workflow!ExitGuard, Scoring, Publishing, Complete,
       Aborted, Superseded

LEMMA ExitPlaces == Workflow!PlaceOf("aborted") = Aborted /\ Workflow!PlaceOf("superseded") = Superseded
<1>1. Workflow!Named("aborted") = {Aborted} /\ Workflow!Named("superseded") = {Superseded}
  BY PipelineFacts DEF Workflow!Named, Aborted, Superseded
<1> QED BY <1>1 DEF Workflow!PlaceOf

LEMMA LastPlaces ==
    ASSUME NEW p \in Workflow!Place
    PROVE  Workflow!Last(p) <=> p \in {Complete, Aborted, Superseded}
BY PipelineFacts DEF Workflow!Last, Workflow!Exits

\* Following, by places: a guard that fails goes to its early return.
LEMMA FollowingPlaces ==
    ASSUME NEW p \in Workflow!Place, NEW passed \in BOOLEAN, ~Workflow!Last(p)
    PROVE  /\ Workflow!Following(p, passed) \in Workflow!Place
           /\ ~passed /\ p = Workflow!EntryGuard => Workflow!Following(p, passed) = Aborted
           /\ ~passed /\ p = Workflow!ExitGuard => Workflow!Following(p, passed) = Superseded
           /\ passed \/ p \notin Workflow!Guards => Workflow!Following(p, passed) = p + 1
BY PipelineFacts, ExitPlaces, LastPlaces
DEF Workflow!Following, Workflow!Guards, Workflow!EntryGuard, Workflow!ExitGuard, Complete,
    Aborted, Superseded

-----------------------------------------------------------------------------
\* The record follows the position: a status is on it from the moment its step
\* took effect until the next status does, and no status is written that a later
\* one does not replace, but the last.
RecordFollows ==
    /\ Workflow!RecordTracksPosition
    /\ executed /\ Workflow!Pipeline[next] \notin Workflow!Steps => record = Workflow!Pipeline[next]
    /\ record = "complete" => next = Complete
    /\ record = "aborted" => next = Aborted
    /\ record = "superseded" => next = Superseded

\* What the guards saw: the head had moved where one of them failed, and had not
\* when scoring was over where the second passed.
HeadFollows ==
    /\ executed /\ next \in Workflow!Guards /\ ~outcome => head > 0
    /\ next \in {Aborted, Superseded} => head > 0
    /\ scored <=> next \in {13, Workflow!ExitGuard, Publishing, Complete, Superseded}
    /\ scored /\ head = 0 => current
    /\ executed /\ next = Workflow!ExitGuard /\ outcome => current
    /\ next \in {Publishing, Complete} => current

\* Publishing takes effect once for each time it is executed: again only after a
\* restart that found no checkpoint.
PostsFollow ==
    /\ posted > 0 => next \in {Publishing, Complete}
    /\ next = Complete => posted > 0
    /\ next = Publishing /\ executed => posted > 0
    /\ posted <= 1 + crashes
    /\ next = Publishing /\ (state = "down" \/ ~executed) => posted <= crashes

ResultFollows ==
    /\ state = "returned" =>
          /\ next \in {Complete, Aborted, Superseded}
          /\ record = Workflow!Pipeline[next]
          /\ result = IF next = Complete THEN "published" ELSE Workflow!Pipeline[next]

WorkflowInv == Workflow!TypeOK /\ RecordFollows /\ HeadFollows /\ PostsFollow /\ ResultFollows

\* A step takes effect.
LEMMA WorkflowExecute == ASSUME Workflow!WorkflowAssumption, WorkflowInv, Workflow!Execute PROVE WorkflowInv'
<1> USE DEF WorkflowInv
<1>1. /\ state' = "running" /\ state = "running" /\ ~executed /\ executed'
      /\ UNCHANGED <<next, result, head, crashes, scored, current>>
      /\ next \in Workflow!Place
  BY DEF Workflow!Execute, Workflow!TypeOK, Workflow!bounds
<1>2. CASE Workflow!Pipeline[next] \notin Workflow!Steps
  <2>1. record' = Workflow!Pipeline[next] /\ outcome' = outcome /\ posted' = posted
    BY <1>1, <1>2, PipelineFacts DEF Workflow!Execute, Workflow!WriteStatus, Workflow!Steps
  <2>2. next \notin {2, 4, 6, 8, 10, Scoring, Workflow!ExitGuard, Publishing}
    BY <1>1, <1>2, PipelineFacts
  <2>3. record' \in Workflow!Statuses
    BY <1>1, <1>2, <2>1 DEF Workflow!Statuses
  <2>4. Workflow!TypeOK'
    BY <1>1, <2>1, <2>3 DEF Workflow!TypeOK
  <2>5. RecordFollows'
    BY <1>1, <1>2, <2>1, PipelineFacts DEF RecordFollows, Workflow!RecordTracksPosition
  <2>6. HeadFollows' /\ PostsFollow'
    BY <1>1, <2>1, <2>2 DEF HeadFollows, PostsFollow, Workflow!Guards, Workflow!EntryGuard,
       Workflow!ExitGuard, Scoring, Publishing
  <2> QED BY <1>1, <2>4, <2>5, <2>6 DEF ResultFollows
<1>3. CASE next \in Workflow!Guards
  <2>1. Workflow!Pipeline[next] = "step_sha_guard" /\ Workflow!Pipeline[next] \in Workflow!Steps
    BY <1>1, <1>3, PipelineFacts DEF Workflow!Steps
  <2>2. outcome' = (head = 0) /\ record' = record /\ posted' = posted
    BY <1>3, <2>1 DEF Workflow!Execute
  <2>3. Workflow!TypeOK'
    BY <1>1, <2>2 DEF Workflow!TypeOK
  <2>4. RecordFollows'
    BY <1>1, <2>1, <2>2 DEF RecordFollows, Workflow!RecordTracksPosition
  <2>5. HeadFollows'
    <3>1. CASE head = 0
      <4>1. outcome' /\ (scored => current)
        BY <2>2, <3>1 DEF HeadFollows
      <4> QED BY <1>1, <2>2, <3>1, <4>1 DEF HeadFollows
    <3>2. CASE head # 0
      <4>1. ~outcome'
        BY <2>2, <3>2, Zenon
      <4>2. head > 0
        BY <3>2 DEF Workflow!TypeOK, Workflow!WorkflowAssumption
      <4> QED BY <1>1, <4>1, <4>2 DEF HeadFollows
    <3> QED BY <3>1, <3>2
  <2>6. PostsFollow'
    BY <1>1, <1>3, <2>2 DEF PostsFollow, Workflow!Guards, Workflow!EntryGuard,
       Workflow!ExitGuard, Publishing
  <2> QED BY <1>1, <2>3, <2>4, <2>5, <2>6 DEF ResultFollows
<1>4. CASE Workflow!Pipeline[next] = "step_publish"
  <2>1. next = Publishing /\ next \notin Workflow!Guards /\ Workflow!Pipeline[next] \in Workflow!Steps
    BY <1>1, <1>4, PipelineFacts DEF Workflow!Steps, Workflow!Guards, Workflow!EntryGuard,
       Workflow!ExitGuard, Publishing
  <2>2. posted' = posted + 1 /\ record' = record /\ outcome' = outcome
    BY <1>4, <2>1 DEF Workflow!Execute
  <2>3. posted <= crashes /\ posted \in Nat /\ crashes \in 0 .. MaxCrashes
    BY <1>1, <2>1 DEF PostsFollow, Workflow!TypeOK
  <2>4. Workflow!TypeOK'
    BY <1>1, <2>2, <2>3 DEF Workflow!TypeOK, Workflow!WorkflowAssumption
  <2>5. RecordFollows'
    BY <1>1, <2>1, <2>2 DEF RecordFollows, Workflow!RecordTracksPosition
  <2>6. HeadFollows'
    BY <1>1, <2>1, <2>2 DEF HeadFollows, Workflow!Guards, Workflow!EntryGuard,
       Workflow!ExitGuard, Publishing
  <2>7. PostsFollow'
    BY <1>1, <2>1, <2>2, <2>3 DEF PostsFollow, Publishing, Complete
  <2> QED BY <1>1, <2>4, <2>5, <2>6, <2>7 DEF ResultFollows
<1>5. CASE Workflow!Pipeline[next] \in Workflow!Steps \ {"step_sha_guard", "step_publish"}
  <2>1. next \notin Workflow!Guards /\ next # Publishing
    BY <1>1, <1>5, PipelineFacts
  <2>2. record' = record /\ outcome' = outcome /\ posted' = posted
    BY <1>5, <2>1 DEF Workflow!Execute
  <2>3. Workflow!TypeOK' /\ HeadFollows' /\ PostsFollow'
    BY <1>1, <2>1, <2>2 DEF Workflow!TypeOK, HeadFollows, PostsFollow, Workflow!Guards
  <2>4. RecordFollows'
    BY <1>1, <1>5, <2>2 DEF RecordFollows, Workflow!RecordTracksPosition
  <2> QED BY <1>1, <2>3, <2>4 DEF ResultFollows
<1> QED
  <2>1. Workflow!Pipeline[next] = "step_sha_guard" => next \in Workflow!Guards
    BY <1>1, PipelineFacts
  <2> QED BY <1>2, <1>3, <1>4, <1>5, <2>1

\* A result is stored, and the workflow goes to the next step.
LEMMA WorkflowAdvance ==
    ASSUME Workflow!WorkflowAssumption, WorkflowInv, Workflow!Checkpoint, ~Workflow!Last(next)
    PROVE  WorkflowInv'
<1> USE DEF WorkflowInv
<1>1. /\ state = "running" /\ state' = "running" /\ executed /\ ~executed'
      /\ UNCHANGED <<outcome, record, result, posted, head, crashes>>
      /\ next' = Workflow!Following(next, outcome)
      /\ next \in Workflow!Place /\ outcome \in BOOLEAN
  BY DEF Workflow!Checkpoint, Workflow!Checkpointed, Workflow!TypeOK, Workflow!bounds
<1>2. next \in 1 .. 15
  BY <1>1, LastPlaces, PipelineFacts DEF Complete, Aborted, Superseded
<1>3. /\ next' \in Workflow!Place
      /\ next = Workflow!EntryGuard /\ ~outcome => next' = Aborted
      /\ next = Workflow!ExitGuard /\ ~outcome => next' = Superseded
      /\ ~(next \in Workflow!Guards /\ ~outcome) => next' = next + 1
  BY <1>1, FollowingPlaces
<1>4. /\ scored' \in BOOLEAN /\ current' \in BOOLEAN
      /\ scored' <=> scored \/ next = Scoring
      /\ next = Scoring => (current' <=> head = 0)
      /\ next # Scoring => current' = current
  BY <1>1, PipelineFacts DEF Workflow!Checkpoint, Workflow!TypeOK
<1>5. executed' = FALSE
  BY DEF Workflow!Checkpoint
<1>6. Workflow!TypeOK'
  BY <1>1, <1>3, <1>4, <1>5 DEF Workflow!TypeOK
<1>7. record = IF next \in {2, 4, 6, 8, 10, Scoring, Workflow!ExitGuard} THEN Workflow!Pipeline[next - 1]
               ELSE IF next = Publishing THEN Workflow!Pipeline[13] ELSE Workflow!Pipeline[next]
  BY <1>1, <1>2, PipelineFacts
  DEF RecordFollows, Workflow!RecordTracksPosition, Scoring, Workflow!ExitGuard, Publishing
<1>8. RecordFollows'
  <2>1. record \notin {"complete", "aborted", "superseded"}
    BY <1>2, <1>7, PipelineFacts
    DEF Scoring, Workflow!ExitGuard, Publishing, Complete, Aborted, Superseded
  <2>2. Workflow!RecordTracksPosition'
    <3> SUFFICES ASSUME next' \in {2, 4, 6, 8, 10, Scoring, Workflow!ExitGuard, Publishing}
                 PROVE  record = Workflow!Pipeline[IF next' = Publishing THEN next' - 2 ELSE next' - 1]
      BY <1>1, <1>3, PipelineFacts DEF Workflow!RecordTracksPosition
    <3>1. next' = next + 1
      BY <1>3 DEF Workflow!Guards, Scoring, Workflow!ExitGuard, Publishing, Aborted, Superseded
    <3> QED BY <1>2, <1>7, <3>1 DEF Scoring, Workflow!ExitGuard, Publishing
  <2> QED BY <1>1, <1>5, <2>1, <2>2 DEF RecordFollows
<1>9. HeadFollows'
  <2>1. next' \in {Aborted, Superseded} => head > 0
    BY <1>1, <1>2, <1>3 DEF HeadFollows, Workflow!Guards, Aborted, Superseded
  <2>2. scored' <=> next' \in {13, Workflow!ExitGuard, Publishing, Complete, Superseded}
    BY <1>2, <1>3, <1>4
    DEF HeadFollows, Workflow!Guards, Workflow!EntryGuard, Workflow!ExitGuard, Scoring,
        Publishing, Complete, Aborted, Superseded
  <2>3. scored' /\ head = 0 => current'
    BY <1>2, <1>3, <1>4 DEF HeadFollows
  <2>4. next' \in {Publishing, Complete} => current'
    BY <1>1, <1>2, <1>3, <1>4
    DEF HeadFollows, Workflow!Guards, Workflow!EntryGuard, Workflow!ExitGuard, Scoring,
        Publishing, Complete, Aborted, Superseded
  <2> QED BY <1>1, <1>5, <2>1, <2>2, <2>3, <2>4 DEF HeadFollows
<1>10. PostsFollow'
  BY <1>1, <1>2, <1>3, <1>5
  DEF PostsFollow, Workflow!Guards, Workflow!EntryGuard, Workflow!ExitGuard, Publishing,
      Complete, Aborted, Superseded, Workflow!TypeOK
<1> QED BY <1>1, <1>6, <1>8, <1>9, <1>10 DEF ResultFollows

\* The last result is stored, and the workflow returns.
LEMMA WorkflowReturn ==
    ASSUME Workflow!WorkflowAssumption, WorkflowInv, Workflow!Checkpoint, Workflow!Last(next)
    PROVE  WorkflowInv'
<1> USE DEF WorkflowInv
<1>1. /\ state = "running" /\ state' = "returned" /\ executed /\ executed' = FALSE
      /\ UNCHANGED <<next, outcome, record, posted, head, crashes>>
      /\ result' = IF Workflow!Pipeline[next] \in Workflow!Exits THEN Workflow!Pipeline[next] ELSE "published"
      /\ next \in Workflow!Place
  BY DEF Workflow!Checkpoint, Workflow!Checkpointed, Workflow!TypeOK, Workflow!bounds
<1>2. next \in {Complete, Aborted, Superseded}
  BY <1>1, LastPlaces
<1>3. scored' = scored /\ current' = current
  <2>1. next # Scoring
    BY <1>2 DEF Scoring, Complete, Aborted, Superseded
  <2>2. Workflow!Pipeline[next] # "step_score"
    BY <1>1, <2>1, PipelineFacts
  <2>3. scored \in BOOLEAN
    BY DEF Workflow!TypeOK
  <2> QED BY <2>2, <2>3 DEF Workflow!Checkpoint
<1>4. Workflow!Pipeline[next] \notin Workflow!Steps /\ record = Workflow!Pipeline[next]
  <2>1. Workflow!Pipeline[next] \notin Workflow!Steps
    BY <1>1, <1>2, PipelineFacts DEF Scoring, Workflow!ExitGuard, Publishing, Complete, Aborted,
       Superseded
  <2> QED BY <1>1, <2>1 DEF RecordFollows
<1>5. result' = IF next = Complete THEN "published" ELSE Workflow!Pipeline[next]
  BY <1>1, <1>2, PipelineFacts DEF Workflow!Exits, Complete, Aborted, Superseded
<1>6. Workflow!TypeOK'
  BY <1>1, <1>2, <1>3, <1>5, PipelineFacts DEF Workflow!TypeOK, Workflow!Exits
<1>7. RecordFollows' /\ HeadFollows' /\ ResultFollows'
  BY <1>1, <1>2, <1>3, <1>4, <1>5
  DEF RecordFollows, Workflow!RecordTracksPosition, HeadFollows, ResultFollows
<1>8. PostsFollow'
  BY <1>1, <1>2 DEF PostsFollow, Publishing, Complete, Aborted, Superseded
<1> QED BY <1>6, <1>7, <1>8

LEMMA WorkflowInductive == Workflow!WorkflowAssumption /\ WorkflowInv /\ [Workflow!Next]_(Workflow!vars) => WorkflowInv'
<1> SUFFICES ASSUME Workflow!WorkflowAssumption, WorkflowInv, [Workflow!Next]_(Workflow!vars) PROVE WorkflowInv'
  OBVIOUS
<1> USE DEF WorkflowInv
<1>1. CASE Workflow!Execute
  BY <1>1, WorkflowExecute
<1>2. CASE Workflow!Checkpoint
  BY <1>2, WorkflowAdvance, WorkflowReturn
<1>3. CASE Workflow!Raise
  <2>1. state = "running" /\ state' = "raised"
        /\ UNCHANGED <<next, executed, outcome, record, result, posted, head, crashes, scored, current>>
    BY <1>3 DEF Workflow!Raise, Workflow!bounds
  <2> QED
    BY <2>1 DEF Workflow!TypeOK, RecordFollows, Workflow!RecordTracksPosition, HeadFollows,
       PostsFollow, ResultFollows
<1>4. CASE Workflow!Crash
  <2>1. state = "running" /\ state' = "down" /\ crashes' = crashes + 1 /\ crashes < MaxCrashes
        /\ UNCHANGED <<next, executed, outcome, record, result, posted, head, scored, current>>
    BY <1>4 DEF Workflow!Crash
  <2>2. Workflow!TypeOK' /\ PostsFollow'
    BY <2>1 DEF Workflow!TypeOK, PostsFollow, Workflow!WorkflowAssumption
  <2> QED
    BY <2>1, <2>2 DEF RecordFollows, Workflow!RecordTracksPosition, HeadFollows, ResultFollows
<1>5. CASE Workflow!Recover
  <2>1. state = "down" /\ state' = "running" /\ executed' = FALSE
        /\ UNCHANGED <<next, outcome, record, result, posted, head, crashes, scored, current>>
    BY <1>5 DEF Workflow!Recover, Workflow!bounds
  <2> QED
    BY <2>1, ZenonT(30) DEF Workflow!TypeOK, RecordFollows, Workflow!RecordTracksPosition, HeadFollows,
       PostsFollow, ResultFollows
<1>6. CASE Workflow!Push
  <2>1. head' = head + 1 /\ head < MaxPushes
        /\ UNCHANGED <<state, next, executed, outcome, record, result, posted, crashes, scored, current>>
    BY <1>6 DEF Workflow!Push
  <2>2. Workflow!TypeOK' /\ HeadFollows'
    BY <2>1 DEF Workflow!TypeOK, HeadFollows, Workflow!WorkflowAssumption
  <2> QED
    BY <2>1, <2>2 DEF RecordFollows, Workflow!RecordTracksPosition, PostsFollow, ResultFollows
<1>7. CASE UNCHANGED Workflow!vars
  BY <1>7 DEF Workflow!vars, Workflow!bounds, Workflow!TypeOK, RecordFollows,
     Workflow!RecordTracksPosition, HeadFollows, PostsFollow,
              ResultFollows
<1> QED BY <1>1, <1>2, <1>3, <1>4, <1>5, <1>6, <1>7 DEF Workflow!Next

LEMMA WorkflowInit == Workflow!WorkflowAssumption /\ Workflow!Init => WorkflowInv
<1> SUFFICES ASSUME Workflow!WorkflowAssumption, Workflow!Init PROVE WorkflowInv
  OBVIOUS
<1>1. 1 \in Workflow!Place /\ Workflow!Pipeline[1] \notin Workflow!Steps
  BY PipelineFacts DEF Scoring, Workflow!ExitGuard, Publishing, Superseded
<1>2. "queued" \in Workflow!Statuses
  BY DEF Workflow!Statuses, Workflow!Steps
<1>3. Workflow!TypeOK
  <2>1. 0 \in 0 .. MaxCrashes + 1 /\ 0 \in 0 .. MaxCrashes /\ 0 \in 0 .. MaxPushes
    BY DEF Workflow!WorkflowAssumption
  <2> QED BY <1>1, <1>2, <2>1 DEF Workflow!Init, Workflow!TypeOK
<1> QED
  BY <1>1, <1>3
  DEF Workflow!Init, WorkflowInv, RecordFollows, Workflow!RecordTracksPosition, HeadFollows, PostsFollow,
      ResultFollows,
      Workflow!Guards, Workflow!EntryGuard, Workflow!ExitGuard, Publishing, Complete, Aborted, Superseded

LEMMA WorkflowAlways ==
    ASSUME Workflow!WorkflowAssumption
    PROVE  Workflow!Init /\ [][Workflow!Next]_(Workflow!vars) => []WorkflowInv
<1>1. Workflow!Init => WorkflowInv
  BY WorkflowInit
<1>2. WorkflowInv /\ [Workflow!Next]_(Workflow!vars) => WorkflowInv'
  BY WorkflowInductive
<1> QED BY <1>1, <1>2, PTL

\* And so of the specification.
LEMMA WorkflowInvariance == ASSUME Workflow!WorkflowAssumption PROVE Workflow!Spec => []WorkflowInv
BY WorkflowAlways, PTL DEF Workflow!Spec

-----------------------------------------------------------------------------
\* The variables keep their types.
THEOREM WorkflowTypeCorrect == ASSUME Workflow!WorkflowAssumption PROVE Workflow!Spec => []Workflow!TypeOK
<1>1. WorkflowInv => Workflow!TypeOK
  BY DEF WorkflowInv
<1> QED BY <1>1, WorkflowInvariance, PTL

\* "The review record reflects the current pipeline position at all times",
\* however often the process is restarted.
THEOREM RecordIsPosition ==
    ASSUME Workflow!WorkflowAssumption
    PROVE  Workflow!Spec => []RecordTracksPosition
<1>1. WorkflowInv => Workflow!RecordTracksPosition
  BY DEF WorkflowInv, RecordFollows
<1> QED BY <1>1, WorkflowInvariance, PTL DEF RecordTracksPosition

\* What the invariant says of the outcome.
LEMMA InvAgrees ==
    ASSUME WorkflowInv PROVE Workflow!ResultAgrees
<1> USE DEF WorkflowInv
<1>1. ASSUME state = "returned"
      PROVE  /\ result = "published" <=> record = "complete"
             /\ result \in Workflow!Exits => record = result
             /\ posted > 0 <=> result = "published"
  <2>1. /\ next \in Workflow!Place /\ record = Workflow!Pipeline[next]
        /\ next \in {Complete, Aborted, Superseded}
        /\ result = IF next = Complete THEN "published" ELSE Workflow!Pipeline[next]
    BY <1>1 DEF ResultFollows, Workflow!TypeOK
  <2>2. posted > 0 <=> next = Complete
    BY <2>1 DEF PostsFollow, Publishing, Complete, Aborted, Superseded
  <2>3. result = "published" <=> next = Complete
    BY <2>1, PipelineFacts
  <2>4. record = "complete" <=> next = Complete
    BY <2>1, PipelineFacts
  <2> QED BY <2>1, <2>2, <2>3, <2>4 DEF Workflow!Exits
<1>2. posted <= 1 + crashes
  BY DEF PostsFollow
<1>3. record = "aborted" => ~scored /\ head > 0
  BY DEF RecordFollows, HeadFollows, Workflow!ExitGuard, Publishing, Complete, Aborted, Superseded
<1>4. record = "superseded" => scored /\ head > 0
  BY DEF RecordFollows, HeadFollows
<1> QED BY <1>1, <1>2, <1>3, <1>4 DEF Workflow!ResultAgrees

\* The outcome, the record and what GitHub saw agree; findings are posted again
\* only after a restart.
THEOREM OutcomesAgree == ASSUME Workflow!WorkflowAssumption PROVE Workflow!Spec => []ResultAgrees
BY InvAgrees, WorkflowInvariance, PTL DEF ResultAgrees

\* Nothing is posted unless the head was the reviewed one after scoring.
THEOREM PostsAfterRecheck ==
    ASSUME Workflow!WorkflowAssumption
    PROVE  Workflow!Spec => []PostedAfterRecheck
<1>1. WorkflowInv => Workflow!PostedAfterRecheck
  BY DEF WorkflowInv, PostsFollow, HeadFollows, Workflow!PostedAfterRecheck
<1> QED BY <1>1, WorkflowInvariance, PTL DEF PostedAfterRecheck

-----------------------------------------------------------------------------
\* Rate limiter.

\* A sequence without a prefix.
LEMMA DropPrefix ==
    ASSUME NEW S, NEW s \in Seq(S), NEW k \in 0 .. Len(s)
    PROVE  /\ SubSeq(s, k + 1, Len(s)) \in Seq(S)
           /\ Len(SubSeq(s, k + 1, Len(s))) = Len(s) - k
           /\ \A i \in 1 .. Len(s) - k : SubSeq(s, k + 1, Len(s))[i] = s[k + i]
OBVIOUS

\* A sequence with one more element.
LEMMA AddLast ==
    ASSUME NEW S, NEW s \in Seq(S), NEW e \in S
    PROVE  /\ Append(s, e) \in Seq(S)
           /\ Len(Append(s, e)) = Len(s) + 1
           /\ \A i \in 1 .. Len(s) : Append(s, e)[i] = s[i]
           /\ Append(s, e)[Len(s) + 1] = e
OBVIOUS

\* What acquire() does before it decides: some prefix has expired, and the
\* deque that is kept is the rest.
LEMMA KeptFacts ==
    ASSUME TypeOK, NEW k \in 0 .. Len(timestamps)
    PROVE  /\ Kept(k) \in Seq(Time)
           /\ Len(Kept(k)) = Len(timestamps) - k
           /\ \A i \in 1 .. Len(timestamps) - k : Kept(k)[i] = timestamps[k + i]
BY DropPrefix DEF TypeOK, Kept

\* The variables keep their types.
THEOREM LimiterTypeCorrect == Spec => []TypeOK
<1>1. Init => TypeOK
  BY LimiterAssumption DEF Init, TypeOK, Time
<1>2. TypeOK /\ [Next]_vars => TypeOK'
  <2> SUFFICES ASSUME TypeOK, [Next]_vars PROVE TypeOK'
    OBVIOUS
  <2>1. CASE Admit
    <3>1. PICK k \in 0 .. Len(timestamps) :
             timestamps' = Append(Kept(k), now) /\ admitted' = Append(admitted, now)
               /\ UNCHANGED <<now, denied>>
      BY <2>1 DEF Admit, Stamp
    <3> QED BY <3>1, KeptFacts, AddLast DEF TypeOK
  <2>2. CASE Deny
    <3>1. PICK k \in 0 .. Len(timestamps) :
             timestamps' = Kept(k) /\ denied' = Append(denied, now)
               /\ Len(denied) < MaxDenials /\ UNCHANGED <<now, admitted>>
      BY <2>2 DEF Deny
    <3> QED BY <3>1, KeptFacts, AddLast, LimiterAssumption DEF TypeOK
  <2>3. CASE Tick
    BY <2>3, LimiterAssumption DEF TypeOK, Tick, Time
  <2>4. CASE UNCHANGED vars
    BY <2>4 DEF TypeOK, vars
  <2> QED BY <2>1, <2>2, <2>3, <2>4 DEF Next
<1> QED BY <1>1, <1>2, PTL DEF Spec

-----------------------------------------------------------------------------
\* The deque is the end of the history of admitted calls, what it has dropped
\* is outside the window, and the history is in the order of time.
Dropped == Len(admitted) - Len(timestamps)

WindowInv ==
    /\ Len(timestamps) <= Calls
    /\ Dropped >= 0
    /\ \A i \in 1 .. Len(timestamps) : timestamps[i] = admitted[Dropped + i]
    /\ \A i \in 1 .. Dropped : admitted[i] + Period <= now
    /\ \A i \in 1 .. Len(admitted) : admitted[i] <= now

LEMMA WindowInvStep == TypeOK /\ WindowInv /\ [Next]_vars => WindowInv'
<1> SUFFICES ASSUME TypeOK, WindowInv, [Next]_vars PROVE WindowInv'
  OBVIOUS
<1> USE LimiterAssumption
<1>0. /\ Len(timestamps) \in Nat /\ Len(admitted) \in Nat /\ now \in Nat
      /\ \A i \in 1 .. Len(timestamps) : timestamps[i] \in Nat
      /\ \A i \in 1 .. Len(admitted) : admitted[i] \in Nat
  BY DEF TypeOK, Time
<1>1. ASSUME NEW k \in 0 .. Len(timestamps), Evicts(k)
      PROVE  \A i \in 1 .. Dropped + k : admitted[i] + Period <= now
  <2> SUFFICES ASSUME NEW i \in 1 .. Dropped + k PROVE admitted[i] + Period <= now
    OBVIOUS
  <2>1. CASE i <= Dropped
    BY <2>1, <1>0 DEF WindowInv, Dropped
  <2>2. CASE i > Dropped
    <3>1. i - Dropped \in 1 .. k /\ Dropped + (i - Dropped) = i
      BY <2>2, <1>0 DEF Dropped
    <3>2. timestamps[i - Dropped] = admitted[i] /\ Expired(timestamps[i - Dropped])
      BY <3>1, <1>0, <1>1 DEF WindowInv, Evicts
    <3> QED BY <3>1, <3>2, <1>0 DEF Expired
  <2> QED BY <2>1, <2>2, <1>0 DEF Dropped
<1>2. CASE Admit
  <2>1. PICK k \in 0 .. Len(timestamps) :
           /\ Evicts(k) /\ ~Full(Len(Kept(k)))
           /\ timestamps' = Append(Kept(k), now) /\ admitted' = Append(admitted, now)
           /\ now' = now
    BY <1>2 DEF Admit, Stamp
  <2>2. /\ Kept(k) \in Seq(Time) /\ Len(Kept(k)) = Len(timestamps) - k
        /\ \A i \in 1 .. Len(timestamps) - k : Kept(k)[i] = timestamps[k + i]
    BY KeptFacts
  <2>3. /\ Len(timestamps') = Len(timestamps) - k + 1
        /\ \A i \in 1 .. Len(timestamps) - k : timestamps'[i] = timestamps[k + i]
        /\ timestamps'[Len(timestamps) - k + 1] = now
    BY <2>1, <2>2, AddLast DEF TypeOK
  <2>4. /\ Len(admitted') = Len(admitted) + 1
        /\ \A i \in 1 .. Len(admitted) : admitted'[i] = admitted[i]
        /\ admitted'[Len(admitted) + 1] = now
    BY <2>1, AddLast DEF TypeOK
  <2>5. Dropped' = Dropped + k
    BY <1>0, <2>3, <2>4 DEF Dropped
  <2>6. Len(timestamps') <= Calls
    BY <1>0, <2>1, <2>2, <2>3 DEF Full
  <2>7. \A i \in 1 .. Len(timestamps') : timestamps'[i] = admitted'[Dropped' + i]
    <3> SUFFICES ASSUME NEW i \in 1 .. Len(timestamps')
                 PROVE  timestamps'[i] = admitted'[Dropped + k + i]
      BY <2>5
    <3>1. CASE i <= Len(timestamps) - k
      <4>1. timestamps'[i] = timestamps[k + i] /\ k + i \in 1 .. Len(timestamps)
        BY <1>0, <2>3, <3>1
      <4>2. timestamps[k + i] = admitted[Dropped + (k + i)]
        BY <4>1 DEF WindowInv
      <4>3. Dropped + k + i \in 1 .. Len(admitted) /\ Dropped + (k + i) = Dropped + k + i
        BY <1>0, <3>1 DEF Dropped, WindowInv
      <4> QED BY <2>4, <4>1, <4>2, <4>3
    <3>2. CASE i = Len(timestamps) - k + 1
      <4>1. Dropped + k + i = Len(admitted) + 1
        BY <1>0, <3>2 DEF Dropped
      <4> QED BY <2>3, <2>4, <3>2, <4>1
    <3>3. i <= Len(timestamps) - k \/ i = Len(timestamps) - k + 1
      BY <1>0, <2>3
    <3> QED BY <3>1, <3>2, <3>3
  <2>8. \A i \in 1 .. Dropped' : admitted'[i] + Period <= now'
    <3>1. Dropped + k <= Len(admitted)
      BY <1>0 DEF Dropped
    <3> QED BY <1>0, <1>1, <2>1, <2>4, <2>5, <3>1 DEF Dropped
  <2>9. \A i \in 1 .. Len(admitted') : admitted'[i] <= now'
    BY <1>0, <2>1, <2>4 DEF WindowInv
  <2> QED BY <1>0, <2>5, <2>6, <2>7, <2>8, <2>9 DEF WindowInv, Dropped
<1>3. CASE Deny
  <2>1. PICK k \in 0 .. Len(timestamps) :
           Evicts(k) /\ timestamps' = Kept(k) /\ admitted' = admitted /\ now' = now
    BY <1>3 DEF Deny
  <2>2. /\ Len(timestamps') = Len(timestamps) - k
        /\ \A i \in 1 .. Len(timestamps) - k : timestamps'[i] = timestamps[k + i]
    BY <2>1, KeptFacts
  <2>3. Dropped' = Dropped + k
    BY <1>0, <2>1, <2>2 DEF Dropped
  <2>4. \A i \in 1 .. Len(timestamps') : timestamps'[i] = admitted'[Dropped' + i]
    <3> SUFFICES ASSUME NEW i \in 1 .. Len(timestamps) - k
                 PROVE  timestamps'[i] = admitted[Dropped + k + i]
      BY <2>1, <2>2, <2>3
    <3>1. timestamps'[i] = timestamps[k + i] /\ k + i \in 1 .. Len(timestamps)
      BY <1>0, <2>2
    <3>2. timestamps[k + i] = admitted[Dropped + (k + i)]
      BY <3>1 DEF WindowInv
    <3> QED BY <1>0, <3>1, <3>2 DEF Dropped
  <2>5. \A i \in 1 .. Dropped' : admitted'[i] + Period <= now'
    BY <1>1, <2>1, <2>3
  <2> QED BY <1>0, <2>1, <2>2, <2>3, <2>4, <2>5 DEF WindowInv, Dropped
<1>4. CASE Tick
  BY <1>0, <1>4, SMTT(30) DEF Tick, WindowInv, Dropped
<1>5. CASE UNCHANGED vars
  BY <1>5 DEF vars, WindowInv, Dropped
<1> QED BY <1>2, <1>3, <1>4, <1>5 DEF Next

LEMMA WindowInvHolds == Spec => []WindowInv
<1>1. Init => WindowInv
  BY LimiterAssumption DEF Init, WindowInv, Dropped
<1> QED BY <1>1, WindowInvStep, LimiterTypeCorrect, PTL DEF Spec

\* The deque holds at most as many timestamps as the budget allows calls.
THEOREM DequeIsBounded == Spec => []DequeBounded
<1>1. WindowInv => DequeBounded
  BY DEF WindowInv, DequeBounded
<1> QED BY <1>1, WindowInvHolds, PTL

-----------------------------------------------------------------------------
\* An admitted call finds fewer than Calls timestamps left, so the call that
\* came Calls calls before it was dropped from the deque, and is as old as the
\* window is long.
LEMMA WindowBoundStep ==
    TypeOK /\ WindowInv /\ WindowInv' /\ WindowBound /\ [Next]_vars => WindowBound'
<1> SUFFICES ASSUME TypeOK, WindowInv, WindowInv', WindowBound, [Next]_vars,
                    NEW i \in 1 .. Len(admitted'), i + Calls <= Len(admitted')
             PROVE  admitted'[i + Calls] - admitted'[i] >= Period
  BY DEF WindowBound
<1> USE LimiterAssumption
<1>0. /\ Len(admitted) \in Nat /\ now \in Nat
      /\ \A j \in 1 .. Len(admitted) : admitted[j] \in Nat
  BY DEF TypeOK, Time
<1>1. CASE Admit
  <2>1. PICK k \in 0 .. Len(timestamps) :
           /\ timestamps' = Append(Kept(k), now) /\ admitted' = Append(admitted, now)
           /\ now' = now
    BY <1>1 DEF Admit, Stamp
  <2>2. /\ Len(admitted') = Len(admitted) + 1
        /\ \A j \in 1 .. Len(admitted) : admitted'[j] = admitted[j]
        /\ admitted'[Len(admitted) + 1] = now
    BY <2>1, AddLast DEF TypeOK
  <2>3. CASE i + Calls <= Len(admitted)
    BY <1>0, <2>2, <2>3 DEF WindowBound
  <2>4. CASE i + Calls = Len(admitted) + 1
    <3>1. Len(timestamps') \in Nat
      BY <2>1, KeptFacts, AddLast DEF TypeOK
    <3>2. i <= Dropped'
      BY <1>0, <2>2, <2>4, <3>1 DEF WindowInv, Dropped
    <3>3. admitted'[i] + Period <= now
      BY <2>1, <3>2 DEF WindowInv
    <3>4. admitted'[i] \in Nat
      BY <1>0, <2>2, <2>4
    <3> QED BY <1>0, <2>2, <2>4, <3>3, <3>4
  <2> QED BY <1>0, <2>2, <2>3, <2>4
<1>2. CASE Deny \/ Tick \/ UNCHANGED vars
  BY <1>2 DEF Deny, Tick, vars, WindowBound
<1> QED BY <1>1, <1>2 DEF Next

\* No window of length Period ever holds more than Calls admitted calls.
THEOREM NeverOverBudget == Spec => []WindowBound
<1>1. Init => WindowBound
  BY DEF Init, WindowBound
<1> QED BY <1>1, WindowBoundStep, WindowInvHolds, LimiterTypeCorrect, PTL DEF Spec

-----------------------------------------------------------------------------
\* Later calls do not change that a window was exhausted.
LEMMA ExhaustedStays ==
    ASSUME TypeOK, NEW t, Exhausted(t),
           UNCHANGED admitted \/ admitted' = Append(admitted, now)
    PROVE  \E i \in 1 .. Len(admitted') :
             /\ i + Calls - 1 <= Len(admitted')
             /\ admitted'[i] > t - Period
             /\ admitted'[i + Calls - 1] <= t
<1>0. now \in Time /\ admitted \in Seq(Time)
  BY DEF TypeOK
<1>1. PICK i \in 1 .. Len(admitted) :
         /\ i + Calls - 1 <= Len(admitted)
         /\ admitted[i] > t - Period
         /\ admitted[i + Calls - 1] <= t
  BY DEF Exhausted
<1>2. /\ Len(admitted) \in Nat /\ Len(admitted') \in Nat
      /\ Len(admitted') >= Len(admitted)
      /\ \A j \in 1 .. Len(admitted) : admitted'[j] = admitted[j]
  <2>1. CASE UNCHANGED admitted
    BY <1>0, <2>1
  <2>2. CASE admitted' = Append(admitted, now)
    BY <1>0, <2>2, AddLast
  <2> QED BY <2>1, <2>2
<1>3. i + Calls - 1 \in 1 .. Len(admitted) /\ i \in 1 .. Len(admitted')
  BY <1>1, <1>2, LimiterAssumption
<1>4. /\ i + Calls - 1 <= Len(admitted')
      /\ admitted'[i] > t - Period
      /\ admitted'[i + Calls - 1] <= t
  BY <1>1, <1>2, <1>3
<1> QED BY <1>3, <1>4

LEMMA DenialsJustifiedStep ==
    TypeOK /\ WindowInv /\ DenialsJustified /\ [Next]_vars => DenialsJustified'
<1> SUFFICES ASSUME TypeOK, WindowInv, DenialsJustified, [Next]_vars,
                    NEW j \in 1 .. Len(denied')
             PROVE  Exhausted(denied[j])'
  BY DEF DenialsJustified
<1> USE LimiterAssumption
<1>0. /\ Len(timestamps) \in Nat /\ Len(admitted) \in Nat /\ Len(denied) \in Nat
      /\ now \in Nat /\ \A i \in 1 .. Len(admitted) : admitted[i] \in Nat
  BY DEF TypeOK, Time
<1>1. CASE Admit \/ Tick \/ UNCHANGED vars
  <2>1. denied' = denied /\ (UNCHANGED admitted \/ admitted' = Append(admitted, now))
    BY <1>1 DEF Admit, Tick, vars
  <2>2. Exhausted(denied[j])
    BY <2>1 DEF DenialsJustified
  <2> QED BY <2>1, <2>2, ExhaustedStays DEF Exhausted
<1>2. CASE Deny
  <2>1. PICK k \in 0 .. Len(timestamps) :
           /\ Evicts(k) /\ Full(Len(Kept(k)))
           /\ denied' = Append(denied, now) /\ UNCHANGED <<now, admitted>>
    BY <1>2 DEF Deny
  <2>2. /\ Len(denied') = Len(denied) + 1 /\ denied'[Len(denied) + 1] = now
        /\ \A i \in 1 .. Len(denied) : denied'[i] = denied[i]
    BY <2>1, AddLast DEF TypeOK
  <2>3. CASE j <= Len(denied)
    <3>1. Exhausted(denied[j]) /\ denied'[j] = denied[j]
      BY <1>0, <2>2, <2>3 DEF DenialsJustified
    <3> QED BY <2>1, <3>1, ExhaustedStays DEF Exhausted
  <2>4. CASE j = Len(denied) + 1
    <3> DEFINE i == Dropped + k + 1
    <3>1. Len(timestamps) - k >= Calls
      BY <2>1, KeptFacts DEF Full
    <3>2. i \in 1 .. Len(admitted) /\ i + Calls - 1 \in 1 .. Len(admitted)
      BY <1>0, <3>1 DEF WindowInv, Dropped
    <3>3. k + 1 \in 1 .. Len(timestamps) /\ k < Len(timestamps) /\ Dropped + (k + 1) = i
      <4>1. k + 1 \in 1 .. Len(timestamps) /\ k < Len(timestamps)
        BY <1>0, <3>1
      <4>2. Dropped + (k + 1) = i
        BY <1>0 DEF Dropped
      <4> QED BY <4>1, <4>2
    <3>4. admitted[i] > now - Period
      <4>1. timestamps[k + 1] = admitted[Dropped + (k + 1)]
        <5> HIDE DEF i
        <5> QED BY <3>3, Zenon DEF WindowInv
      <4>2. ~(timestamps[k + 1] <= now - Period)
        BY <2>1, <3>3 DEF Evicts, Expired
      <4>3. admitted[i] \in Nat
        <5> HIDE DEF i
        <5> QED BY <1>0, <3>2
      <4>4. now - Period \in Int
        BY <1>0
      <4>5. timestamps[k + 1] = admitted[i]
        BY <3>3, <4>1, Zenon
      <4>6. ~(admitted[i] <= now - Period)
        BY <4>2, <4>5, Zenon
      <4> HIDE DEF i
      <4> QED BY <4>3, <4>4, <4>6
    <3>5. admitted[i + Calls - 1] <= now
      BY <3>2 DEF WindowInv
    <3>6. Exhausted(now)
      <4>1. i + Calls - 1 <= Len(admitted)
        BY <1>0, <3>2
      <4> HIDE DEF i
      <4> QED BY <3>2, <3>4, <3>5, <4>1, Zenon DEF Exhausted
    <3>7. denied'[j] = now
      BY <2>2, <2>4
    <3> QED BY <2>1, <3>6, <3>7, ExhaustedStays DEF Exhausted
  <2> QED BY <1>0, <2>2, <2>3, <2>4
<1> QED BY <1>1, <1>2 DEF Next

\* The limiter refuses a call only when the budget of the current window is
\* used up.
THEOREM NeverRefusesEarly == Spec => []DenialsJustified
<1>1. Init => DenialsJustified
  BY DEF Init, DenialsJustified
<1> QED BY <1>1, DenialsJustifiedStep, WindowInvHolds, LimiterTypeCorrect, PTL DEF Spec
==============================================================================

----------------------------- MODULE ReaderProofs -----------------------------
(***************************************************************************)
(* Proofs about parts that work on what they are given: the evaluation     *)
(* runner, the structural context and the slash commands.  Each is an      *)
(* instance of Readers, and each theorem assumes what the part's module    *)
(* assumes of its constants.  Induction, which the diff parser's proofs    *)
(* use too, comes first.                                                   *)
(***************************************************************************)
EXTENDS Readers, Sequences, FiniteSets, FiniteSetTheorems, SequenceTheorems,
        WellFoundedInduction, TLAPS

-----------------------------------------------------------------------------
\* Induction and recursion, with sets in the place of predicates and functions in
\* the place of operators.

\* A set of naturals has a least one.
LEMMA LeastOf ==
    ASSUME NEW S \in SUBSET Nat, S # {}
    PROVE  \E n \in S : \A m \in S : n <= m
<1> DEFINE R == OpToRel(<, Nat)
<1>1. IsWellFoundedOn(R, Nat)
  BY NatLessThanWellFounded
<1>2. \A m, n \in Nat : m < n => <<m, n>> \in R
  BY DEF OpToRel
<1> HIDE DEF R
<1>3. PICK n \in S : \A m \in S : ~(<<m, n>> \in R)
  BY <1>1, WFMin
<1>4. \A m \in S : ~(m < n)
  BY <1>2, <1>3
<1>5. \A m \in S : m \in Nat /\ n \in Nat
  OBVIOUS
<1> QED
  BY <1>4, <1>5

\* Induction over the naturals, of what is true on T.
LEMMA Inductive ==
    ASSUME NEW T, 0 \in T, \A n \in Nat : n \in T => n + 1 \in T
    PROVE  Nat \subseteq T
<1> DEFINE S == Nat \ T
<1> SUFFICES ASSUME S # {} PROVE FALSE
  OBVIOUS
<1>1. PICK n \in S : \A m \in S : n <= m
  <2>1. S \in SUBSET Nat
    OBVIOUS
  <2> HIDE DEF S
  <2> QED
    BY <2>1, LeastOf
<1>2. n \in Nat /\ n # 0 /\ n \notin T
  OBVIOUS
<1>3. n - 1 \in Nat /\ n = (n - 1) + 1
  BY <1>2
<1>4. n - 1 \in T
  BY <1>1, <1>3
<1> QED
  BY <1>2, <1>3, <1>4

\* f goes from its first value by a step from each to the next.
Goes(f, A, first, N, step) ==
    f \in [0 .. N -> A] /\ f[0] = first /\ \A i \in 1 .. N : f[i] = step[i][f[i - 1]]

\* There is such a function.
LEMMA StepsDefine ==
    ASSUME NEW A, NEW first \in A, NEW N \in Nat, NEW step \in [1 .. N -> [A -> A]]
    PROVE  \E f : Goes(f, A, first, N, step)
<1> DEFINE Upto(f, n) == f[0] = first /\ \A i \in 1 .. n : f[i] = step[i][f[i - 1]]
           T == {n \in Nat : n <= N => \E f \in [0 .. n -> A] : Upto(f, n)}
<1>1. 0 \in T
  <2>1. Upto([i \in 0 .. 0 |-> first], 0)
    OBVIOUS
  <2> QED
    BY <2>1
<1>2. ASSUME NEW n \in Nat, n \in T PROVE n + 1 \in T
  <2> SUFFICES ASSUME n + 1 <= N PROVE \E f \in [0 .. n + 1 -> A] : Upto(f, n + 1)
    OBVIOUS
  <2>1. PICK f \in [0 .. n -> A] : Upto(f, n)
    BY <1>2
  <2>2. n \in 0 .. n /\ n + 1 \in 1 .. N
    OBVIOUS
  <2>3. f[n] \in A /\ step[n + 1][f[n]] \in A
    BY <2>2
  <2> DEFINE g == [i \in 0 .. n + 1 |-> IF i = n + 1 THEN step[n + 1][f[n]] ELSE f[i]]
  <2>4. g \in [0 .. n + 1 -> A]
    BY <2>3
  <2>5. g[0] = first
    BY <2>1
  <2>6. ASSUME NEW i \in 1 .. n + 1 PROVE g[i] = step[i][g[i - 1]]
    <3>1. CASE i = n + 1
      <4>1. g[i] = step[n + 1][f[n]] /\ g[i - 1] = f[n]
        BY <3>1
      <4> QED
        BY <3>1, <4>1
    <3>2. CASE i # n + 1
      <4>1. i \in 1 .. n /\ i - 1 \in 0 .. n
        BY <3>2
      <4>2. g[i] = f[i] /\ g[i - 1] = f[i - 1]
        BY <4>1
      <4> QED
        BY <2>1, <4>1, <4>2
    <3> QED
      BY <3>1, <3>2
  <2>7. Upto(g, n + 1)
    BY <2>5, <2>6
  <2> HIDE DEF g
  <2> QED
    BY <2>4, <2>7
<1>3. Nat \subseteq T
  <2> HIDE DEF T
  <2> QED
    BY <1>1, <1>2, Inductive
<1>4. PICK f \in [0 .. N -> A] : Upto(f, N)
  BY <1>3
<1> QED
  BY <1>4 DEF Goes

-----------------------------------------------------------------------------
\* Evaluation runner: matching.

\* Without the I-th member.
Without(s, i) == [k \in 1 .. Len(s) - 1 |-> IF k < i THEN s[k] ELSE s[k + 1]]

\* RemoveAt, member by member.
LEMMA RemovedAt ==
    ASSUME NEW S, NEW s \in Seq(S), NEW i \in 1 .. Len(s)
    PROVE  /\ Eval!RemoveAt(s, i) = Without(s, i)
           /\ Without(s, i) \in Seq(S) /\ Len(Without(s, i)) = Len(s) - 1
<1> DEFINE left == SubSeq(s, 1, i - 1)
           right == SubSeq(s, i + 1, Len(s))
<1>1. left \in Seq(S) /\ Len(left) = i - 1 /\ \A k \in 1 .. i - 1 : left[k] = s[k]
  BY SubSeqProperties
<1>2. right \in Seq(S) /\ Len(right) = Len(s) - i /\ \A k \in 1 .. Len(s) - i : right[k] = s[k + i]
  BY SubSeqProperties
<1>3. left \o right \in Seq(S) /\ Len(left \o right) = Len(s) - 1
  <2> HIDE DEF left, right
  <2>1. left \o right \in Seq(S) /\ Len(left \o right) = Len(left) + Len(right)
    BY <1>1, <1>2, ConcatProperties
  <2> QED
    BY <1>1, <1>2, <2>1
<1>4. ASSUME NEW k \in 1 .. Len(s) - 1 PROVE (left \o right)[k] = Without(s, i)[k]
  <2> HIDE DEF left, right
  <2>0. (left \o right)[k] = IF k <= Len(left) THEN left[k] ELSE right[k - Len(left)]
    BY <1>1, <1>2, <1>3, ConcatProperties
  <2>1. CASE k < i
    BY <2>0, <2>1, <1>1 DEF Without
  <2>2. CASE ~(k < i)
    <3> DEFINE j == k - (i - 1)
    <3>1. j \in 1 .. Len(s) - i /\ j + i = k + 1
      BY <2>2
    <3>2. (left \o right)[k] = right[j]
      BY <2>0, <2>2, <1>1
    <3> HIDE DEF j
    <3>3. right[j] = s[k + 1]
      BY <1>2, <3>1
    <3>4. Without(s, i)[k] = s[k + 1]
      BY <2>2 DEF Without
    <3> QED
      BY <3>2, <3>3, <3>4
  <2> QED
    BY <2>1, <2>2
<1>5. Without(s, i) \in Seq(S) /\ Len(Without(s, i)) = Len(s) - 1
  <2>1. \A k \in 1 .. Len(s) - 1 : Without(s, i)[k] \in S
    BY DEF Without
  <2>2. Len(s) - 1 \in Nat
    OBVIOUS
  <2> QED
    BY <2>1, <2>2 DEF Without
<1>6. left \o right = Without(s, i)
  <2> HIDE DEF left, right
  <2> QED
    BY <1>3, <1>4, <1>5, SeqEqual
<1> QED
  BY <1>5, <1>6 DEF Eval!RemoveAt

\* A finding takes an annotation that it matches, and is a false positive only if it
\* matches none of those that are left.
LEMMA TakeCases ==
    ASSUME NEW acc \in Eval!Result, NEW f
    PROVE  \/ /\ \A i \in DOMAIN acc.missed : ~Eval!Matches(f, acc.missed[i])
              /\ Eval!Take(acc, f) = [acc EXCEPT !.fp = Append(@, f)]
           \/ \E i \in DOMAIN acc.missed :
                 /\ Eval!Matches(f, acc.missed[i])
                 /\ Eval!Take(acc, f) = [acc EXCEPT !.tp = Append(@, f), !.missed = Without(@, i)]
<1> DEFINE I == {i \in 1 .. Len(acc.missed) : Eval!Matches(f, acc.missed[i])}
           chosen == Eval!SelectInSeq(acc.missed, LAMBDA ann : Eval!Matches(f, ann))
<1>1. chosen = IF I # {} THEN Eval!Min(I) ELSE 0
  BY DEF Eval!SelectInSeq
<1>2. DOMAIN acc.missed = 1 .. Len(acc.missed) /\ acc.missed \in Seq(Eval!Finding)
  BY DEF Eval!Result
<1>3. CASE I = {}
  <2>1. chosen = 0
    BY <1>1, <1>3
  <2>2. Eval!Take(acc, f) = [acc EXCEPT !.fp = Append(@, f)]
    BY <2>1 DEF Eval!Take
  <2> QED
    BY <2>2, <1>2, <1>3
<1>4. CASE I # {}
  <2>1. I \in SUBSET Nat /\ \E i \in I : \A j \in I : i <= j
    <3>1. I \in SUBSET Nat
      OBVIOUS
    <3> HIDE DEF I
    <3> QED
      BY <3>1, <1>4, LeastOf
  <2>2. Eval!Min(I) \in I
    <3> HIDE DEF I
    <3> QED
      BY <2>1 DEF Eval!Min
  <2>3. chosen \in I
    BY <1>1, <1>4, <2>2
  <2>4. chosen \in 1 .. Len(acc.missed) /\ Eval!Matches(f, acc.missed[chosen]) /\ chosen # 0
    <3> HIDE DEF chosen
    <3> QED
      BY <2>3
  <2>5. Eval!Take(acc, f) = [acc EXCEPT !.tp = Append(@, f), !.missed = Eval!RemoveAt(@, chosen)]
    BY <2>4 DEF Eval!Take
  <2>6. Eval!RemoveAt(acc.missed, chosen) = Without(acc.missed, chosen)
    <3> HIDE DEF chosen
    <3> QED
      BY <1>2, <2>4, RemovedAt
  <2> HIDE DEF chosen
  <2> QED
    BY <1>2, <2>4, <2>5, <2>6
<1> QED
  BY <1>3, <1>4

\* A sequence is its own members in order.
LEMMA InOrderOfAll ==
    ASSUME NEW S, NEW s \in Seq(S)
    PROVE  Eval!InOrder(s, s, DOMAIN s)
<1> DEFINE at == [i \in DOMAIN s |-> i]
<1>1. at \in [DOMAIN s -> DOMAIN s] /\ DOMAIN s \subseteq {at[i] : i \in DOMAIN s}
  OBVIOUS
<1>2. \A i, j \in DOMAIN s : i < j => at[i] < at[j]
  OBVIOUS
<1>3. \A i \in DOMAIN s : s[i] = s[at[i]]
  OBVIOUS
<1> QED
  BY <1>1, <1>2, <1>3 DEF Eval!InOrder

\* The empty sequence has no members.
LEMMA InOrderOfNone ==
    ASSUME NEW all
    PROVE  Eval!InOrder(<<>>, all, {})
<1> DEFINE at == [i \in {} |-> i]
<1>1. DOMAIN <<>> = {} /\ at \in [{} -> {}]
  OBVIOUS
<1> QED
  BY <1>1 DEF Eval!InOrder

\* A later member is appended.
LEMMA InOrderAppended ==
    ASSUME NEW S, NEW s \in Seq(S), NEW all, NEW n \in Nat, NEW kept, kept \subseteq 1 .. n,
           Eval!InOrder(s, all, kept), all[n + 1] \in S
    PROVE  Eval!InOrder(Append(s, all[n + 1]), all, kept \cup {n + 1})
<1> DEFINE L == Len(s)
           t == Append(s, all[n + 1])
<1>1. PICK at \in [DOMAIN s -> kept] :
          /\ \A i, j \in DOMAIN s : i < j => at[i] < at[j]
          /\ kept \subseteq {at[i] : i \in DOMAIN s}
          /\ \A i \in DOMAIN s : s[i] = all[at[i]]
  BY DEF Eval!InOrder
<1>2. /\ L \in Nat /\ DOMAIN s = 1 .. L /\ DOMAIN t = 1 .. L + 1
      /\ t[L + 1] = all[n + 1] /\ \A i \in 1 .. L : t[i] = s[i]
  BY AppendProperties, LenProperties
<1> DEFINE bt == [i \in 1 .. L + 1 |-> IF i = L + 1 THEN n + 1 ELSE at[i]]
<1> HIDE DEF L, t
<1>3. bt \in [DOMAIN t -> kept \cup {n + 1}]
  BY <1>1, <1>2
<1>4. ASSUME NEW i \in DOMAIN t, NEW j \in DOMAIN t, i < j PROVE bt[i] < bt[j]
  <2>1. i \in 1 .. L /\ at[i] \in 1 .. n
    <3>1. i \in 1 .. L
      BY <1>2, <1>4
    <3> QED
      BY <1>1, <1>2, <3>1
  <2>2. CASE j = L + 1
    BY <1>2, <2>1, <2>2
  <2>3. CASE j # L + 1
    BY <1>1, <1>2, <1>4, <2>1, <2>3
  <2> QED
    BY <2>2, <2>3
<1>5. ASSUME NEW k \in kept \cup {n + 1} PROVE \E i \in DOMAIN t : bt[i] = k
  <2>1. CASE k = n + 1
    <3>1. L + 1 \in DOMAIN t /\ bt[L + 1] = n + 1
      BY <1>2
    <3> QED
      BY <2>1, <3>1
  <2>2. CASE k # n + 1
    <3>1. PICK i \in 1 .. L : at[i] = k
      BY <1>1, <1>2, <2>2
    <3>2. i \in DOMAIN t /\ bt[i] = at[i]
      BY <1>2, <3>1
    <3> QED
      BY <3>1, <3>2
  <2> QED
    BY <2>1, <2>2
<1>6. ASSUME NEW i \in DOMAIN t PROVE t[i] = all[bt[i]]
  <2>1. CASE i = L + 1
    BY <1>2, <2>1
  <2>2. CASE i # L + 1
    <3>1. i \in 1 .. L /\ bt[i] = at[i]
      BY <1>2, <2>2
    <3> QED
      BY <1>1, <1>2, <3>1
  <2> QED
    BY <2>1, <2>2
<1> HIDE DEF bt
<1>7. Eval!InOrder(t, all, kept \cup {n + 1})
  BY <1>3, <1>4, <1>5, <1>6 DEF Eval!InOrder
<1> QED
  BY <1>7 DEF t

\* A member is taken out.
LEMMA InOrderWithout ==
    ASSUME NEW S, NEW s \in Seq(S), NEW all, NEW kept, kept \subseteq Nat,
           Eval!InOrder(s, all, kept), NEW n \in 1 .. Len(s)
    PROVE  \E a \in kept : s[n] = all[a] /\ Eval!InOrder(Without(s, n), all, kept \ {a})
<1> DEFINE L == Len(s)
           t == Without(s, n)
<1>1. PICK at \in [DOMAIN s -> kept] :
          /\ \A i, j \in DOMAIN s : i < j => at[i] < at[j]
          /\ kept \subseteq {at[i] : i \in DOMAIN s}
          /\ \A i \in DOMAIN s : s[i] = all[at[i]]
  BY DEF Eval!InOrder
<1>2. L \in Nat /\ DOMAIN s = 1 .. L /\ DOMAIN t = 1 .. L - 1 /\ n \in 1 .. L
  BY LenProperties DEF Without
<1> DEFINE old(i) == IF i < n THEN i ELSE i + 1
           bt == [i \in 1 .. L - 1 |-> at[old(i)]]
<1>3. \A i \in 1 .. L - 1 : old(i) \in 1 .. L /\ old(i) # n /\ t[i] = s[old(i)]
  BY <1>2 DEF Without
<1>4. \A i, j \in 1 .. L : i # j => at[i] # at[j]
  <2> TAKE i, j \in 1 .. L
  <2> HAVE i # j
  <2>1. i < j \/ j < i
    BY <1>2
  <2>2. at[i] \in Nat /\ at[j] \in Nat
    BY <1>1, <1>2
  <2>3. at[i] < at[j] \/ at[j] < at[i]
    BY <1>1, <1>2, <2>1
  <2> QED
    BY <2>2, <2>3
<1> HIDE DEF L, t
<1>5. bt \in [DOMAIN t -> kept \ {at[n]}]
  BY <1>1, <1>2, <1>3, <1>4
<1>6. ASSUME NEW i \in DOMAIN t, NEW j \in DOMAIN t, i < j PROVE bt[i] < bt[j]
  <2>1. old(i) < old(j)
    BY <1>2, <1>6
  <2>2. bt[i] = at[old(i)] /\ bt[j] = at[old(j)] /\ old(i) \in DOMAIN s /\ old(j) \in DOMAIN s
    BY <1>2, <1>3
  <2> HIDE DEF bt, old
  <2> QED
    BY <1>1, <2>1, <2>2
<1>7. ASSUME NEW k \in kept \ {at[n]} PROVE \E i \in DOMAIN t : bt[i] = k
  <2>1. PICK j \in 1 .. L : at[j] = k
    BY <1>1, <1>2
  <2>2. j # n
    BY <2>1
  <2> DEFINE i == IF j < n THEN j ELSE j - 1
  <2>3. i \in 1 .. L - 1 /\ old(i) = j
    BY <1>2, <2>2
  <2>4. bt[i] = at[j]
    BY <2>3
  <2> HIDE DEF i
  <2> QED
    BY <1>2, <2>1, <2>3, <2>4
<1>8. ASSUME NEW i \in DOMAIN t PROVE t[i] = all[bt[i]]
  <2>1. t[i] = s[old(i)] /\ old(i) \in DOMAIN s /\ bt[i] = at[old(i)]
    BY <1>2, <1>3
  <2> HIDE DEF bt, old
  <2> QED
    BY <1>1, <2>1
<1>9. Eval!InOrder(t, all, kept \ {at[n]})
  <2> DEFINE left == kept \ {at[n]}
  <2>1. bt \in [DOMAIN t -> left] /\ left \subseteq {bt[i] : i \in DOMAIN t}
    BY <1>5, <1>7
  <2> HIDE DEF bt, left
  <2>2. Eval!InOrder(t, all, left)
    BY <1>6, <1>8, <2>1 DEF Eval!InOrder
  <2> QED
    BY <2>2 DEF left
<1>10. at[n] \in kept /\ s[n] = all[at[n]]
  BY <1>1, <1>2
<1> QED
  BY <1>9, <1>10 DEF t

EachIsIn(s, all, kept) == \A a \in kept : \E m \in DOMAIN s : s[m] = all[a]

\* Every place kept has its member, and there are as many members as places.
LEMMA InOrderMembers ==
    ASSUME NEW S, NEW s \in Seq(S), NEW all, NEW kept, kept \subseteq Nat,
           Eval!InOrder(s, all, kept)
    PROVE  EachIsIn(s, all, kept) /\ IsFiniteSet(kept) /\ Cardinality(kept) = Len(s)
<1>1. PICK at \in [DOMAIN s -> kept] :
          /\ \A i, j \in DOMAIN s : i < j => at[i] < at[j]
          /\ kept \subseteq {at[i] : i \in DOMAIN s}
          /\ \A i \in DOMAIN s : s[i] = all[at[i]]
  BY DEF Eval!InOrder
<1>2. Len(s) \in Nat /\ DOMAIN s = 1 .. Len(s)
  BY LenProperties
<1>3. at \in Bijection(1 .. Len(s), kept)
  <2>1. \A i, j \in 1 .. Len(s) : i # j => at[i] # at[j]
    <3> TAKE i, j \in 1 .. Len(s)
    <3> HAVE i # j
    <3>1. i < j \/ j < i
      BY <1>2
    <3>2. at[i] \in Nat /\ at[j] \in Nat
      BY <1>1, <1>2
    <3>3. at[i] < at[j] \/ at[j] < at[i]
      BY <1>1, <1>2, <3>1
    <3> QED
      BY <3>2, <3>3
  <2>2. at \in [1 .. Len(s) -> kept]
    BY <1>1, <1>2
  <2>3. at \in Injection(1 .. Len(s), kept)
    BY <2>1, <2>2 DEF Injection, IsInjective
  <2>4. at \in Surjection(1 .. Len(s), kept)
    BY <1>1, <1>2, <2>2 DEF Surjection
  <2> QED
    BY <2>3, <2>4 DEF Bijection
<1>4. IsFiniteSet(kept) /\ Cardinality(kept) = Len(s)
  BY <1>2, <1>3, FS_CountingElements, FS_NatBijection DEF ExistsBijection
<1> QED
  BY <1>1, <1>4 DEF EachIsIn

\* A pairing of the first n findings.
PairsUpTo(p, n, produced, expected) ==
    /\ p \in [1 .. n -> 0 .. Len(expected)]
    /\ \A i \in 1 .. n : p[i] # 0 =>
         /\ Eval!Matches(produced[i], expected[p[i]])
         /\ \A j \in 1 .. n \ {i} : p[j] # p[i]

Hits(p, n) == {i \in 1 .. n : p[i] # 0}
Taken(p, n) == {p[i] : i \in Hits(p, n)}
Left(p, n, expected) == 1 .. Len(expected) \ {p[i] : i \in 1 .. n}

\* What is true after n rounds of match_findings().
Matched(acc, n, produced, expected) ==
    /\ acc.produced = produced
    /\ \E p : /\ PairsUpTo(p, n, produced, expected)
              /\ Eval!InOrder(acc.tp, produced, Hits(p, n))
              /\ Eval!InOrder(acc.fp, produced, 1 .. n \ Hits(p, n))
              /\ Eval!InOrder(acc.missed, expected, Left(p, n, expected))
    /\ \A i \in DOMAIN acc.fp, j \in DOMAIN acc.missed : ~Eval!Matches(acc.fp[i], acc.missed[j])

\* Nothing is paired before the first round.
LEMMA MatchedAtFirst ==
    ASSUME NEW produced \in Seq(Findings), NEW expected \in Seq(Eval!Finding)
    PROVE  Matched([produced |-> produced, tp |-> <<>>, fp |-> <<>>, missed |-> expected],
                   0, produced, expected)
<1> DEFINE p == [i \in 1 .. 0 |-> 0]
<1>1. PairsUpTo(p, 0, produced, expected)
  BY DEF PairsUpTo
<1>2. Hits(p, 0) = {} /\ 1 .. 0 \ Hits(p, 0) = {}
  BY DEF Hits
<1>3. Left(p, 0, expected) = DOMAIN expected
  <2>1. {p[i] : i \in 1 .. 0} = {} /\ DOMAIN expected = 1 .. Len(expected)
    BY LenProperties
  <2> QED
    BY <2>1 DEF Left
<1>4. Eval!InOrder(<<>>, produced, {}) /\ Eval!InOrder(expected, expected, DOMAIN expected)
  BY InOrderOfNone, InOrderOfAll
<1>5. DOMAIN <<>> = {}
  OBVIOUS
<1> HIDE DEF p
<1> QED
  BY <1>1, <1>2, <1>3, <1>4, <1>5 DEF Matched

\* A round keeps the types.
LEMMA TakeTypes ==
    ASSUME NEW acc \in Eval!Result, NEW f \in Findings
    PROVE  Eval!Take(acc, f) \in Eval!Result
<1>1. /\ acc.produced \in Seq(Findings) /\ acc.tp \in Seq(Findings)
      /\ acc.fp \in Seq(Findings) /\ acc.missed \in Seq(Eval!Finding)
  BY DEF Eval!Result
<1>2. Append(acc.fp, f) \in Seq(Findings) /\ Append(acc.tp, f) \in Seq(Findings)
  BY <1>1, AppendProperties
<1>3. CASE Eval!Take(acc, f) = [acc EXCEPT !.fp = Append(@, f)]
  BY <1>1, <1>2, <1>3 DEF Eval!Result
<1>4. ASSUME NEW i \in DOMAIN acc.missed,
             Eval!Take(acc, f) = [acc EXCEPT !.tp = Append(@, f), !.missed = Without(@, i)]
      PROVE  Eval!Take(acc, f) \in Eval!Result
  <2>1. i \in 1 .. Len(acc.missed)
    BY <1>1, LenProperties
  <2>2. Without(acc.missed, i) \in Seq(Eval!Finding)
    BY <1>1, <2>1, RemovedAt
  <2> QED
    BY <1>1, <1>2, <1>4, <2>2 DEF Eval!Result
<1> QED
  BY <1>3, <1>4, TakeCases

\* A round keeps what is true: a finding that matches none of the annotations left is
\* a false positive.
LEMMA MatchedWhenNoneIsTaken ==
    ASSUME NEW produced \in Seq(Findings), NEW expected \in Seq(Eval!Finding),
           NEW n \in Nat, n + 1 \in 1 .. Len(produced),
           NEW acc \in Eval!Result, Matched(acc, n, produced, expected),
           \A i \in DOMAIN acc.missed : ~Eval!Matches(produced[n + 1], acc.missed[i]),
           NEW new, new = [acc EXCEPT !.fp = Append(@, produced[n + 1])]
    PROVE  Matched(new, n + 1, produced, expected)
<1> DEFINE f == produced[n + 1]
<1>1. PICK p : /\ PairsUpTo(p, n, produced, expected)
               /\ Eval!InOrder(acc.tp, produced, Hits(p, n))
               /\ Eval!InOrder(acc.fp, produced, 1 .. n \ Hits(p, n))
               /\ Eval!InOrder(acc.missed, expected, Left(p, n, expected))
  BY DEF Matched
<1>2. /\ new.produced = acc.produced /\ new.tp = acc.tp /\ new.missed = acc.missed
      /\ new.fp = Append(acc.fp, f) /\ acc.fp \in Seq(Findings) /\ f \in Findings
  BY DEF Eval!Result
<1> DEFINE q == [i \in 1 .. n + 1 |-> IF i = n + 1 THEN 0 ELSE p[i]]
<1>3. PairsUpTo(q, n + 1, produced, expected)
  <2>1. \A i \in 1 .. n + 1 : q[i] # 0 => i \in 1 .. n /\ q[i] = p[i]
    OBVIOUS
  <2>2. Len(expected) \in Nat /\ q \in [1 .. n + 1 -> 0 .. Len(expected)]
    BY <1>1 DEF PairsUpTo
  <2>3. ASSUME NEW i \in 1 .. n + 1, q[i] # 0
        PROVE  /\ Eval!Matches(produced[i], expected[q[i]])
               /\ \A j \in 1 .. n + 1 \ {i} : q[j] # q[i]
    <3>1. i \in 1 .. n /\ q[i] = p[i]
      BY <2>1, <2>3
    <3>2. Eval!Matches(produced[i], expected[q[i]])
      BY <1>1, <2>3, <3>1 DEF PairsUpTo
    <3>3. \A j \in 1 .. n \ {i} : p[j] # p[i]
      BY <1>1, <2>3, <3>1 DEF PairsUpTo
    <3>4. ASSUME NEW j \in 1 .. n + 1 \ {i} PROVE q[j] # q[i]
      BY <2>3, <3>1, <3>3
    <3> QED
      BY <3>2, <3>4
  <2> HIDE DEF q
  <2> QED
    BY <2>2, <2>3 DEF PairsUpTo
<1>4. Hits(q, n + 1) = Hits(p, n)
  BY DEF Hits
<1>5. 1 .. n + 1 \ Hits(q, n + 1) = (1 .. n \ Hits(p, n)) \cup {n + 1}
  BY <1>4 DEF Hits
<1>6. Left(q, n + 1, expected) = Left(p, n, expected)
  <2>1. ASSUME NEW a \in 1 .. Len(expected)
        PROVE  a \in {q[i] : i \in 1 .. n + 1} <=> a \in {p[i] : i \in 1 .. n}
    <3>1. a # 0
      OBVIOUS
    <3>2. \A i \in 1 .. n : i \in 1 .. n + 1 /\ q[i] = p[i]
      OBVIOUS
    <3>3. \A i \in 1 .. n + 1 : q[i] = a => i \in 1 .. n
      BY <3>1
    <3> HIDE DEF q
    <3> QED
      BY <3>2, <3>3
  <2> HIDE DEF q
  <2> QED
    BY <2>1 DEF Left
<1>7. Eval!InOrder(new.fp, produced, 1 .. n + 1 \ Hits(q, n + 1))
  <2> DEFINE K == 1 .. n \ Hits(p, n)
  <2>1. K \subseteq 1 .. n /\ Eval!InOrder(acc.fp, produced, K)
    BY <1>1
  <2> HIDE DEF K
  <2>2. Eval!InOrder(Append(acc.fp, produced[n + 1]), produced, K \cup {n + 1})
    BY <1>2, <2>1, InOrderAppended
  <2> QED
    BY <1>2, <1>5, <2>2 DEF K
<1>8. ASSUME NEW i \in DOMAIN new.fp, NEW j \in DOMAIN new.missed
      PROVE  ~Eval!Matches(new.fp[i], new.missed[j])
  <2>1. (i \in DOMAIN acc.fp /\ new.fp[i] = acc.fp[i]) \/ new.fp[i] = f
    BY <1>2, AppendProperties, LenProperties
  <2> QED
    BY <1>2, <2>1 DEF Matched
<1> HIDE DEF q
<1> QED
  BY <1>1, <1>2, <1>3, <1>4, <1>6, <1>7, <1>8 DEF Matched

\* And a finding that takes an annotation is paired with it.
LEMMA MatchedWhenOneIsTaken ==
    ASSUME NEW produced \in Seq(Findings), NEW expected \in Seq(Eval!Finding),
           NEW n \in Nat, n + 1 \in 1 .. Len(produced),
           NEW acc \in Eval!Result, Matched(acc, n, produced, expected),
           NEW k \in DOMAIN acc.missed, Eval!Matches(produced[n + 1], acc.missed[k]),
           NEW new, new = [acc EXCEPT !.tp = Append(@, produced[n + 1]), !.missed = Without(@, k)]
    PROVE  Matched(new, n + 1, produced, expected)
<1> DEFINE f == produced[n + 1]
<1>1. PICK p : /\ PairsUpTo(p, n, produced, expected)
               /\ Eval!InOrder(acc.tp, produced, Hits(p, n))
               /\ Eval!InOrder(acc.fp, produced, 1 .. n \ Hits(p, n))
               /\ Eval!InOrder(acc.missed, expected, Left(p, n, expected))
  BY DEF Matched
<1>2. /\ new.produced = acc.produced /\ new.fp = acc.fp
      /\ new.tp = Append(acc.tp, f) /\ new.missed = Without(acc.missed, k)
      /\ acc.tp \in Seq(Findings) /\ f \in Findings
      /\ acc.missed \in Seq(Eval!Finding) /\ k \in 1 .. Len(acc.missed)
  <2>1. acc.tp \in Seq(Findings) /\ f \in Findings /\ acc.missed \in Seq(Eval!Finding)
    BY DEF Eval!Result
  <2>2. k \in 1 .. Len(acc.missed)
    BY <2>1, LenProperties
  <2>3. /\ new.produced = acc.produced /\ new.fp = acc.fp
        /\ new.tp = Append(acc.tp, f) /\ new.missed = Without(acc.missed, k)
    BY DEF Eval!Result
  <2> QED
    BY <2>1, <2>2, <2>3
<1>3. PICK a \in Left(p, n, expected) :
          /\ acc.missed[k] = expected[a]
          /\ Eval!InOrder(Without(acc.missed, k), expected, Left(p, n, expected) \ {a})
  <2> DEFINE K == Left(p, n, expected)
  <2>1. K \subseteq Nat /\ Eval!InOrder(acc.missed, expected, K)
    BY <1>1 DEF Left
  <2> HIDE DEF K
  <2>2. \E a \in K : /\ acc.missed[k] = expected[a]
                     /\ Eval!InOrder(Without(acc.missed, k), expected, K \ {a})
    BY <1>2, <2>1, InOrderWithout
  <2> QED
    BY <2>2 DEF K
<1>4. a \in 1 .. Len(expected) /\ a # 0 /\ \A i \in 1 .. n : p[i] # a
  BY <1>3 DEF Left
<1> DEFINE q == [i \in 1 .. n + 1 |-> IF i = n + 1 THEN a ELSE p[i]]
<1>5. PairsUpTo(q, n + 1, produced, expected)
  <2>1. q[n + 1] = a /\ \A i \in 1 .. n : i \in 1 .. n + 1 /\ i # n + 1 /\ q[i] = p[i]
    OBVIOUS
  <2>2. Len(expected) \in Nat /\ q \in [1 .. n + 1 -> 0 .. Len(expected)]
    BY <1>1, <1>4 DEF PairsUpTo
  <2>3. ASSUME NEW i \in 1 .. n + 1, q[i] # 0
        PROVE  /\ Eval!Matches(produced[i], expected[q[i]])
               /\ \A j \in 1 .. n + 1 \ {i} : q[j] # q[i]
    <3>1. CASE i = n + 1
      <4>1. q[i] = a /\ Eval!Matches(produced[i], expected[q[i]])
        BY <1>3, <2>1, <3>1
      <4>2. \A j \in 1 .. n + 1 \ {i} : j \in 1 .. n
        BY <3>1
      <4> HIDE DEF q
      <4> QED
        BY <1>4, <2>1, <4>1, <4>2
    <3>2. CASE i # n + 1
      <4>1. i \in 1 .. n /\ q[i] = p[i] /\ p[i] # a
        BY <1>4, <2>3, <3>2
      <4>2. Eval!Matches(produced[i], expected[q[i]])
        BY <1>1, <2>3, <4>1 DEF PairsUpTo
      <4>3. \A j \in 1 .. n \ {i} : p[j] # p[i]
        BY <1>1, <2>3, <4>1 DEF PairsUpTo
      <4>4. ASSUME NEW j \in 1 .. n + 1 \ {i} PROVE q[j] # q[i]
        <5>1. CASE j = n + 1
          BY <2>1, <4>1, <5>1
        <5>2. CASE j # n + 1
          BY <4>1, <4>3, <5>2
        <5> QED
          BY <5>1, <5>2
      <4> QED
        BY <4>2, <4>4
    <3> QED
      BY <3>1, <3>2
  <2> HIDE DEF q
  <2> QED
    BY <2>2, <2>3 DEF PairsUpTo
<1>6. Hits(q, n + 1) = Hits(p, n) \cup {n + 1}
  BY <1>4 DEF Hits
<1>7. 1 .. n + 1 \ Hits(q, n + 1) = 1 .. n \ Hits(p, n)
  BY <1>4 DEF Hits
<1>8. Left(q, n + 1, expected) = Left(p, n, expected) \ {a}
  <2>1. ASSUME NEW b \in 1 .. Len(expected)
        PROVE  b \in {q[i] : i \in 1 .. n + 1} <=> b = a \/ b \in {p[i] : i \in 1 .. n}
    <3>1. q[n + 1] = a /\ n + 1 \in 1 .. n + 1 /\ \A i \in 1 .. n : i \in 1 .. n + 1 /\ q[i] = p[i]
      OBVIOUS
    <3>2. \A i \in 1 .. n + 1 : i \in 1 .. n \/ q[i] = a
      OBVIOUS
    <3> HIDE DEF q
    <3> QED
      BY <3>1, <3>2
  <2> HIDE DEF q
  <2> QED
    BY <2>1 DEF Left
<1>9. Eval!InOrder(new.tp, produced, Hits(q, n + 1))
  <2> DEFINE K == Hits(p, n)
  <2>1. K \subseteq 1 .. n /\ Eval!InOrder(acc.tp, produced, K)
    BY <1>1 DEF Hits
  <2> HIDE DEF K, q
  <2>2. Eval!InOrder(Append(acc.tp, produced[n + 1]), produced, K \cup {n + 1})
    BY <1>2, <2>1, InOrderAppended
  <2>3. new.tp = Append(acc.tp, produced[n + 1])
    BY <1>2
  <2>4. Hits(q, n + 1) = K \cup {n + 1}
    BY <1>6 DEF K
  <2> QED
    BY <2>2, <2>3, <2>4, Zenon
<1>10. ASSUME NEW i \in DOMAIN new.fp, NEW j \in DOMAIN new.missed
       PROVE  ~Eval!Matches(new.fp[i], new.missed[j])
  <2>1. \E m \in DOMAIN acc.missed : new.missed[j] = acc.missed[m]
    <3>1. j \in 1 .. Len(acc.missed) - 1 /\ DOMAIN acc.missed = 1 .. Len(acc.missed)
      BY <1>2, LenProperties DEF Without
    <3>2. new.missed[j] = IF j < k THEN acc.missed[j] ELSE acc.missed[j + 1]
      BY <1>2, <3>1 DEF Without
    <3>3. j \in 1 .. Len(acc.missed) /\ j + 1 \in 1 .. Len(acc.missed)
      BY <1>2, <3>1, SMTT(30)
    <3> QED
      BY <3>1, <3>2, <3>3
  <2> QED
    BY <1>2, <2>1 DEF Matched
<1> HIDE DEF q
<1> QED
  BY <1>1, <1>2, <1>3, <1>5, <1>7, <1>8, <1>9, <1>10 DEF Matched

\* match_findings() does what its rounds do, one finding after the other.
LEMMA MatchingIsByRounds ==
    ASSUME NEW produced \in Seq(Findings), NEW expected \in Seq(Eval!Finding)
    PROVE  /\ Eval!MatchFindings(produced, expected) \in Eval!Result
           /\ Matched(Eval!MatchFindings(produced, expected), Len(produced), produced, expected)
<1> DEFINE N == Len(produced)
           first == [produced |-> produced, tp |-> <<>>, fp |-> <<>>, missed |-> expected]
           step == [i \in 1 .. N |-> [acc \in Eval!Result |-> Eval!Take(acc, produced[i])]]
           Runs(f) == f = [n \in 0 .. N |-> IF n = 0 THEN first ELSE Eval!Take(f[n - 1], produced[n])]
           round == CHOOSE f : Runs(f)
<1>1. N \in Nat /\ \A i \in 1 .. N : produced[i] \in Findings
  BY LenProperties, ElementOfSeq
<1>2. first \in Eval!Result
  BY DEF Eval!Result
<1>3. step \in [1 .. N -> [Eval!Result -> Eval!Result]]
  BY <1>1, TakeTypes
<1>4. PICK f \in [0 .. N -> Eval!Result] :
          f[0] = first /\ \A i \in 1 .. N : f[i] = step[i][f[i - 1]]
  <2> DEFINE A == Eval!Result
  <2>1. N \in Nat /\ first \in A /\ step \in [1 .. N -> [A -> A]]
    BY <1>1, <1>2, <1>3
  <2> HIDE DEF N, first, step, A
  <2>2. \E f : Goes(f, A, first, N, step)
    BY <2>1, StepsDefine
  <2> QED
    BY <2>2 DEF A, Goes
<1>5. \A i \in 1 .. N : i - 1 \in 0 .. N /\ f[i] = Eval!Take(f[i - 1], produced[i])
  <2> TAKE i \in 1 .. N
  <2>1. i - 1 \in 0 .. N
    BY <1>1
  <2>2. f[i - 1] \in Eval!Result
    BY <2>1
  <2> HIDE DEF N
  <2> QED
    BY <1>4, <2>1, <2>2
<1>6. Runs(f)
  <2> HIDE DEF first
  <2>1. \A n \in 0 .. N : f[n] = IF n = 0 THEN first ELSE Eval!Take(f[n - 1], produced[n])
    BY <1>1, <1>4, <1>5
  <2> HIDE DEF N
  <2> QED
    BY <2>1
<1>7. Runs(round)
  <2> HIDE DEF Runs
  <2> QED
    BY <1>6
<1>8. Eval!MatchFindings(produced, expected) = round[N]
  BY DEF Eval!MatchFindings
<1> DEFINE T == {n \in Nat : n <= N => round[n] \in Eval!Result /\ Matched(round[n], n, produced, expected)}
<1>9. 0 \in T
  <2> HIDE DEF round, first, N
  <2>1. round[0] = first
    BY <1>1, <1>7
  <2> USE DEF first
  <2> QED
    BY <1>2, <2>1, MatchedAtFirst
<1>10. ASSUME NEW n \in Nat, n \in T PROVE n + 1 \in T
  <2> SUFFICES ASSUME n + 1 <= N
               PROVE  round[n + 1] \in Eval!Result /\ Matched(round[n + 1], n + 1, produced, expected)
    OBVIOUS
  <2>1. round[n] \in Eval!Result /\ Matched(round[n], n, produced, expected)
    BY <1>1, <1>10
  <2>2. n + 1 \in 1 .. N /\ n + 1 \in 0 .. N /\ n + 1 # 0 /\ (n + 1) - 1 = n
    BY <1>1
  <2>3. round[n + 1] = Eval!Take(round[n], produced[n + 1])
    <3> HIDE DEF round, N
    <3> QED
      BY <1>7, <2>2
  <2>4. produced[n + 1] \in Findings
    BY <1>1, <2>2
  <2> HIDE DEF round
  <2>5. round[n + 1] \in Eval!Result
    BY <2>1, <2>3, <2>4, TakeTypes
  <2>6. Matched(round[n + 1], n + 1, produced, expected)
    <3> DEFINE acc == round[n]
               found == produced[n + 1]
               new == round[n + 1]
    <3>1. acc \in Eval!Result /\ new = Eval!Take(acc, found) /\ Matched(acc, n, produced, expected)
      BY <2>1, <2>3
    <3>2. n + 1 \in 1 .. Len(produced)
      BY <2>2
    <3> HIDE DEF acc, new
    <3>3. CASE /\ \A i \in DOMAIN acc.missed : ~Eval!Matches(found, acc.missed[i])
               /\ new = [acc EXCEPT !.fp = Append(@, found)]
      <4>1. Matched(new, n + 1, produced, expected)
        BY <3>1, <3>2, <3>3, MatchedWhenNoneIsTaken
      <4> QED
        BY <4>1 DEF new
    <3>4. ASSUME NEW i \in DOMAIN acc.missed, Eval!Matches(found, acc.missed[i]),
                 new = [acc EXCEPT !.tp = Append(@, found), !.missed = Without(@, i)]
          PROVE  Matched(round[n + 1], n + 1, produced, expected)
      <4>1. Matched(new, n + 1, produced, expected)
        BY <3>1, <3>2, <3>4, MatchedWhenOneIsTaken
      <4> QED
        BY <4>1 DEF new
    <3> QED
      BY <3>1, <3>3, <3>4, TakeCases
  <2> QED
    BY <2>5, <2>6
<1>11. N \in T
  <2> HIDE DEF T
  <2> QED
    BY <1>1, <1>9, <1>10, Inductive
<1> HIDE DEF round
<1> QED
  BY <1>1, <1>8, <1>11

\* The instance's operators on finite sets are those of FiniteSets.
LEMMA EvalSets ==
    ASSUME NEW S
    PROVE  /\ Eval!IsFiniteSet(S) <=> IsFiniteSet(S)
           /\ Eval!Cardinality(S) = Cardinality(S)
<1>1. Eval!IsFiniteSet(S) <=> IsFiniteSet(S)
  BY DEF Eval!IsFiniteSet, IsFiniteSet
<1>2. Eval!Cardinality(S) = Cardinality(S)
  BY DEF Eval!Cardinality, Cardinality
<1> QED
  BY <1>1, <1>2

\* The annotations left are those that are not taken.
LEMMA LeftOver ==
    ASSUME NEW expected, NEW n, NEW p
    PROVE  Left(p, n, expected) = 1 .. Len(expected) \ Taken(p, n)
<1>1. ASSUME NEW a \in 1 .. Len(expected) PROVE a \in {p[i] : i \in 1 .. n} <=> a \in Taken(p, n)
  BY DEF Taken, Hits
<1> QED
  BY <1>1 DEF Left

\* As many annotations are taken as findings are paired.
LEMMA TakenCount ==
    ASSUME NEW produced, NEW expected \in Seq(Eval!Finding), NEW n \in Nat, NEW p,
           PairsUpTo(p, n, produced, expected)
    PROVE  /\ IsFiniteSet(Hits(p, n)) /\ Cardinality(Hits(p, n)) \in Nat
           /\ IsFiniteSet(Taken(p, n)) /\ Cardinality(Taken(p, n)) = Cardinality(Hits(p, n))
           /\ Cardinality(Left(p, n, expected)) = Len(expected) - Cardinality(Hits(p, n))
<1> DEFINE H == Hits(p, n)
           taken == {p[i] : i \in H}
           b == [i \in H |-> p[i]]
<1>1. IsFiniteSet(H) /\ Cardinality(H) \in Nat
  <2>1. H \in SUBSET (1 .. n) /\ IsFiniteSet(1 .. n)
    BY FS_Interval DEF Hits
  <2> HIDE DEF H
  <2> QED
    BY <2>1, FS_Subset, FS_CardinalityType
<1>2. H \subseteq 1 .. n /\ \A i \in H : p[i] # 0 /\ p[i] \in 0 .. Len(expected) /\ Len(expected) \in Nat
  BY LenProperties DEF PairsUpTo, Hits
<1>3. \A i, j \in H : i # j => p[i] # p[j]
  BY DEF PairsUpTo, Hits
<1>4. taken \subseteq 1 .. Len(expected)
  BY <1>2
<1>5. Left(p, n, expected) = 1 .. Len(expected) \ taken
  BY LeftOver DEF Taken
<1> HIDE DEF H
<1>6. b \in Bijection(H, taken)
  <2>1. b \in [H -> taken] /\ \A t \in taken : \E i \in H : b[i] = t
    OBVIOUS
  <2>2. \A i, j \in H : b[i] = b[j] => i = j
    BY <1>3
  <2> HIDE DEF b, taken
  <2> QED
    BY <2>1, <2>2 DEF Bijection, Injection, Surjection, IsInjective
<1>7. IsFiniteSet(taken) /\ Cardinality(taken) = Cardinality(H)
  <2> HIDE DEF b, taken
  <2> QED
    BY <1>1, <1>6, FS_Bijection DEF ExistsBijection
<1>8. Cardinality(1 .. Len(expected) \ taken) = Len(expected) - Cardinality(H)
  <2> DEFINE L == Len(expected)
             U == 1 .. L
  <2>1. L \in Nat
    BY LenProperties
  <2> HIDE DEF L
  <2>2. IsFiniteSet(U) /\ Cardinality(U) = L
    BY <2>1, FS_Interval
  <2>3. U \cap taken = taken
    BY <1>4 DEF L
  <2> HIDE DEF taken, U
  <2>4. Cardinality(U \ taken) = Cardinality(U) - Cardinality(U \cap taken)
    BY <2>2, FS_Difference
  <2>5. Cardinality(U \ taken) = L - Cardinality(H)
    BY <1>7, <2>2, <2>3, <2>4
  <2> QED
    BY <2>5 DEF L, U
<1> QED
  BY <1>1, <1>5, <1>7, <1>8 DEF H, Taken

\* No pairing has more than twice the hits: a finding that it pairs was a hit, or the
\* annotation that it pairs it with was taken.
LEMMA HalfOfAnyPairing ==
    ASSUME NEW produced \in Seq(Findings), NEW expected \in Seq(Eval!Finding),
           NEW r \in Eval!Result, Matched(r, Len(produced), produced, expected),
           NEW q \in Eval!Pairings(produced, expected)
    PROVE  Cardinality(Eval!Paired(q)) <= 2 * Len(r.tp)
<1> DEFINE N == Len(produced)
           Q == Eval!Paired(q)
<1>1. PICK p : /\ PairsUpTo(p, N, produced, expected)
               /\ Eval!InOrder(r.tp, produced, Hits(p, N))
               /\ Eval!InOrder(r.fp, produced, 1 .. N \ Hits(p, N))
               /\ Eval!InOrder(r.missed, expected, Left(p, N, expected))
  BY DEF Matched
<1>2. /\ N \in Nat /\ DOMAIN produced = 1 .. N
      /\ r.tp \in Seq(Findings) /\ r.fp \in Seq(Findings) /\ r.missed \in Seq(Eval!Finding)
  BY LenProperties DEF Eval!Result
<1> DEFINE H == Hits(p, N)
           taken == Taken(p, N)
           B == {i \in Q : q[i] \in taken}
<1>3. /\ IsFiniteSet(H) /\ IsFiniteSet(taken) /\ Cardinality(taken) = Cardinality(H)
      /\ Left(p, N, expected) = 1 .. Len(expected) \ taken /\ Cardinality(H) \in Nat
  <2> HIDE DEF N, Q
  <2>1. PairsUpTo(p, N, produced, expected) /\ N \in Nat
    BY <1>1, <1>2
  <2>2. /\ IsFiniteSet(Hits(p, N)) /\ Cardinality(Hits(p, N)) \in Nat
        /\ IsFiniteSet(Taken(p, N)) /\ Cardinality(Taken(p, N)) = Cardinality(Hits(p, N))
    BY <2>1, TakenCount
  <2>3. Left(p, N, expected) = 1 .. Len(expected) \ Taken(p, N)
    BY LeftOver
  <2> QED
    BY <2>2, <2>3
<1>4. /\ q \in [1 .. N -> 0 .. Len(expected)]
      /\ \A i \in Q : /\ i \in 1 .. N /\ q[i] # 0 /\ q[i] \in 1 .. Len(expected)
                      /\ Eval!Matches(produced[i], expected[q[i]])
                      /\ \A j \in Q : j # i => q[j] # q[i]
  <2>1. q \in [1 .. N -> 0 .. Len(expected)] /\ Len(expected) \in Nat
    BY <1>2, LenProperties DEF Eval!Pairings
  <2>2. ASSUME NEW i \in Q PROVE i \in 1 .. N /\ q[i] # 0
    BY <2>1 DEF Eval!Paired
  <2>3. ASSUME NEW i \in Q
        PROVE  /\ Eval!Matches(produced[i], expected[q[i]])
               /\ \A j \in 1 .. N \ {i} : q[j] # q[i]
    BY <1>2, <2>2 DEF Eval!Pairings
  <2> HIDE DEF N, Q
  <2> QED
    BY <2>1, <2>2, <2>3
<1>5. \A i \in 1 .. N \ H : \E m \in DOMAIN r.fp : r.fp[m] = produced[i]
  <2> DEFINE K == 1 .. N \ H
             s == r.fp
  <2>1. K \subseteq Nat /\ Eval!InOrder(s, produced, K) /\ s \in Seq(Findings)
    BY <1>1, <1>2
  <2> HIDE DEF K, s
  <2>2. EachIsIn(s, produced, K)
    BY <2>1, InOrderMembers
  <2> QED
    BY <2>2 DEF K, s, EachIsIn
<1>6. \A a \in 1 .. Len(expected) \ taken : \E m \in DOMAIN r.missed : r.missed[m] = expected[a]
  <2> DEFINE K == 1 .. Len(expected) \ taken
             s == r.missed
  <2>1. K \subseteq Nat /\ Eval!InOrder(s, expected, K) /\ s \in Seq(Eval!Finding)
    BY <1>1, <1>2, <1>3
  <2> HIDE DEF K, s
  <2>2. EachIsIn(s, expected, K)
    BY <2>1, InOrderMembers
  <2> QED
    BY <2>2 DEF K, s, EachIsIn
<1>7. Q \subseteq H \cup B
  <2> SUFFICES ASSUME NEW i \in Q, i \notin H, q[i] \notin taken PROVE FALSE
    OBVIOUS
  <2> HIDE DEF H, taken, Q, N
  <2>1. PICK m \in DOMAIN r.fp : r.fp[m] = produced[i]
    BY <1>4, <1>5
  <2>2. PICK k \in DOMAIN r.missed : r.missed[k] = expected[q[i]]
    BY <1>4, <1>6
  <2> QED
    BY <1>4, <2>1, <2>2 DEF Matched
<1> HIDE DEF H, Q
<1>8. IsFiniteSet(B) /\ Cardinality(B) <= Cardinality(taken)
  <2> DEFINE g == [i \in B |-> q[i]]
  <2>1. g \in [B -> taken] /\ \A i, j \in B : g[i] = g[j] => i = j
    BY <1>4
  <2>2. g \in Injection(B, taken)
    <3> HIDE DEF g, B, taken
    <3> QED
      BY <2>1 DEF Injection, IsInjective
  <2> HIDE DEF g, B, taken
  <2> QED
    BY <1>3, <2>2, FS_Injection
<1> HIDE DEF B, taken
<1>9. /\ IsFiniteSet(H \cup B) /\ Cardinality(H \cup B) <= Cardinality(H) + Cardinality(B)
      /\ Cardinality(H \cup B) \in Nat /\ Cardinality(B) \in Nat
  <2>1. Cardinality(H \cup B) = Cardinality(H) + Cardinality(B) - Cardinality(H \cap B)
    BY <1>3, <1>8, FS_Union
  <2>2. IsFiniteSet(H \cap B) /\ IsFiniteSet(H \cup B)
    BY <1>3, <1>8, FS_Intersection, FS_Union
  <2>3. /\ Cardinality(H \cap B) \in Nat /\ Cardinality(H \cup B) \in Nat
        /\ Cardinality(B) \in Nat /\ Cardinality(H) \in Nat
    BY <1>3, <1>8, <2>2, FS_CardinalityType
  <2> QED
    BY <2>1, <2>2, <2>3
<1>10. IsFiniteSet(Q) /\ Cardinality(Q) \in Nat /\ Cardinality(Q) <= Cardinality(H \cup B)
  BY <1>7, <1>9, FS_Subset, FS_CardinalityType
<1>11. Cardinality(H) = Len(r.tp)
  <2>1. H \subseteq Nat /\ Eval!InOrder(r.tp, produced, H)
    BY <1>1 DEF H, Hits
  <2> QED
    BY <1>2, <2>1, InOrderMembers
<1> QED
  BY <1>3, <1>8, <1>9, <1>10, <1>11 DEF Q
\* So the matching is true.
LEMMA MatchedIsTrue ==
    ASSUME NEW r \in Eval!Result, NEW expected \in Seq(Eval!Finding),
           Matched(r, Len(r.produced), r.produced, expected)
    PROVE  /\ \E p \in Eval!Pairings(r.produced, expected) :
                /\ Eval!InOrder(r.tp, r.produced, Eval!Paired(p))
                /\ Eval!InOrder(r.fp, r.produced, DOMAIN p \ Eval!Paired(p))
                /\ Eval!InOrder(r.missed, expected, DOMAIN expected \ {p[i] : i \in DOMAIN p})
           /\ \A f \in Eval!ToSet(r.fp), a \in Eval!ToSet(r.missed) : ~Eval!Matches(f, a)
           /\ \A p \in Eval!Pairings(r.produced, expected) :
                Eval!Cardinality(Eval!Paired(p)) <= 2 * Len(r.tp)
<1> DEFINE produced == r.produced
           N == Len(produced)
<1>1. PICK p : /\ PairsUpTo(p, N, produced, expected)
               /\ Eval!InOrder(r.tp, produced, Hits(p, N))
               /\ Eval!InOrder(r.fp, produced, 1 .. N \ Hits(p, N))
               /\ Eval!InOrder(r.missed, expected, Left(p, N, expected))
  BY DEF Matched
<1>2. /\ produced \in Seq(Findings) /\ N \in Nat
      /\ DOMAIN produced = 1 .. N /\ DOMAIN expected = 1 .. Len(expected)
  BY LenProperties DEF Eval!Result
<1> HIDE DEF N, produced
<1>3. DOMAIN p = 1 .. N
  BY <1>1 DEF PairsUpTo
<1>4. p \in Eval!Pairings(produced, expected)
  BY <1>1, <1>2 DEF PairsUpTo, Eval!Pairings
<1>5. Hits(p, N) = Eval!Paired(p)
  BY <1>3 DEF Hits, Eval!Paired
<1>6. Left(p, N, expected) = DOMAIN expected \ {p[i] : i \in DOMAIN p}
  BY <1>2, <1>3 DEF Left
<1>7. \A f \in Eval!ToSet(r.fp), a \in Eval!ToSet(r.missed) : ~Eval!Matches(f, a)
  BY DEF Matched, Eval!ToSet
<1>8. ASSUME NEW q \in Eval!Pairings(produced, expected)
      PROVE  Eval!Cardinality(Eval!Paired(q)) <= 2 * Len(r.tp)
  <2>1. Matched(r, Len(produced), produced, expected)
    BY DEF produced
  <2>2. Cardinality(Eval!Paired(q)) <= 2 * Len(r.tp)
    BY <1>2, <2>1, HalfOfAnyPairing
  <2>3. Eval!Cardinality(Eval!Paired(q)) = Cardinality(Eval!Paired(q))
    BY EvalSets
  <2> QED
    BY <2>2, <2>3
<1>9. \E u \in Eval!Pairings(produced, expected) :
          /\ Eval!InOrder(r.tp, produced, Eval!Paired(u))
          /\ Eval!InOrder(r.fp, produced, DOMAIN u \ Eval!Paired(u))
          /\ Eval!InOrder(r.missed, expected, DOMAIN expected \ {u[i] : i \in DOMAIN u})
  BY <1>1, <1>3, <1>4, <1>5, <1>6
<1> QED
  BY <1>7, <1>8, <1>9 DEF produced

\* An annotation is hit or missed.
LEMMA HitOrMissed ==
    ASSUME NEW r \in Eval!Result, NEW expected \in Seq(Eval!Finding),
           Matched(r, Len(r.produced), r.produced, expected)
    PROVE  Len(r.tp) + Len(r.missed) = Len(expected)
<1> DEFINE produced == r.produced
           N == Len(produced)
<1>1. PICK p : /\ PairsUpTo(p, N, produced, expected)
               /\ Eval!InOrder(r.tp, produced, Hits(p, N))
               /\ Eval!InOrder(r.missed, expected, Left(p, N, expected))
  BY DEF Matched
<1>2. /\ N \in Nat /\ Len(expected) \in Nat
      /\ r.tp \in Seq(Findings) /\ r.missed \in Seq(Eval!Finding)
  BY LenProperties DEF Eval!Result
<1> HIDE DEF N, produced
<1>3. /\ Cardinality(Hits(p, N)) \in Nat
      /\ Cardinality(Left(p, N, expected)) = Len(expected) - Cardinality(Hits(p, N))
  BY <1>1, <1>2, TakenCount
<1>4. Cardinality(Hits(p, N)) = Len(r.tp)
  <2>1. Hits(p, N) \subseteq Nat
    BY DEF Hits
  <2> QED
    BY <1>1, <1>2, <2>1, InOrderMembers
<1>5. Cardinality(Left(p, N, expected)) = Len(r.missed)
  <2>1. Left(p, N, expected) \subseteq Nat
    BY DEF Left
  <2> QED
    BY <1>1, <1>2, <2>1, InOrderMembers
<1> DEFINE h == Cardinality(Hits(p, N))
           e == Len(expected)
<1>6. Len(r.tp) = h /\ Len(r.missed) = e - h /\ h \in Nat /\ e \in Nat
  BY <1>2, <1>3, <1>4, <1>5
<1> HIDE DEF h
<1>7. h + (e - h) = e
  BY <1>6
<1> QED
  BY <1>6, <1>7

-----------------------------------------------------------------------------
\* Evaluation runner: totals.

\* `sum` has the totals of the first of `counts`.
Sums(sum, N, counts) ==
    sum \in [0 .. N -> Nat] /\ sum[0] = 0 /\ \A i \in 1 .. N : sum[i] = sum[i - 1] + counts[i]

\* Total() adds its counts up, one after the other.
LEMMA TotalIsBySteps ==
    ASSUME NEW N \in Nat, NEW counts \in [1 .. N -> Nat]
    PROVE  \E sum : Sums(sum, N, counts) /\ Eval!Total(counts) = sum[N]
<1> DEFINE step == [i \in 1 .. N |-> [t \in Nat |-> t + counts[i]]]
           Runs(f) == f = [n \in 0 .. N |-> IF n = 0 THEN 0 ELSE f[n - 1] + counts[n]]
           sum == CHOOSE f : Runs(f)
<1>1. \E f : Goes(f, Nat, 0, N, step)
  <2>1. step \in [1 .. N -> [Nat -> Nat]]
    OBVIOUS
  <2> HIDE DEF step
  <2> QED
    BY <2>1, StepsDefine
<1>2. PICK f \in [0 .. N -> Nat] : f[0] = 0 /\ \A i \in 1 .. N : f[i] = step[i][f[i - 1]]
  BY <1>1 DEF Goes
<1>3. \A i \in 1 .. N : i - 1 \in 0 .. N /\ f[i] = f[i - 1] + counts[i]
  <2> TAKE i \in 1 .. N
  <2>1. i - 1 \in 0 .. N
    OBVIOUS
  <2>2. f[i - 1] \in Nat
    BY <1>2, <2>1
  <2>3. step[i][f[i - 1]] = f[i - 1] + counts[i]
    BY <2>2
  <2> HIDE DEF step
  <2> QED
    BY <1>2, <2>1, <2>3
<1>4. Runs(f)
  <2> HIDE DEF step
  <2> QED
    BY <1>2, <1>3
<1>5. Runs(sum)
  <2> HIDE DEF Runs
  <2> QED
    BY <1>4
<1>6. counts \in Seq(Nat) /\ Len(counts) = N
  BY LenProperties, IsASeq
<1>7. Eval!Total(counts) = sum[N]
  BY <1>6 DEF Eval!Total
<1> HIDE DEF sum
<1> DEFINE T == {n \in Nat : n <= N => sum[n] \in Nat}
<1>8. \A i \in 1 .. N : i - 1 \in 0 .. N /\ sum[i] = sum[i - 1] + counts[i]
  BY <1>5
<1>9. sum[0] = 0 /\ sum = [n \in 0 .. N |-> sum[n]]
  <2>1. 0 \in 0 .. N
    OBVIOUS
  <2> QED
    BY <1>5, <2>1
<1>10. 0 \in T
  BY <1>9
<1>11. ASSUME NEW n \in Nat, n \in T PROVE n + 1 \in T
  <2> SUFFICES ASSUME n + 1 <= N PROVE sum[n + 1] \in Nat
    OBVIOUS
  <2>1. n + 1 \in 1 .. N /\ (n + 1) - 1 = n /\ sum[n] \in Nat
    BY <1>11
  <2> QED
    BY <1>8, <2>1
<1>12. Nat \subseteq T
  <2> HIDE DEF T
  <2> QED
    BY <1>10, <1>11, Inductive
<1>13. sum \in [0 .. N -> Nat]
  BY <1>9, <1>12
<1> QED
  BY <1>7, <1>8, <1>9, <1>13 DEF Sums

\* A total is a natural.
LEMMA TotalType ==
    ASSUME NEW N \in Nat, NEW counts \in [1 .. N -> Nat]
    PROVE  Eval!Total(counts) \in Nat
<1>1. PICK sum : Sums(sum, N, counts) /\ Eval!Total(counts) = sum[N]
  BY TotalIsBySteps
<1> QED
  BY <1>1 DEF Sums

\* The total of sums is the sum of the totals.
LEMMA TotalAdds ==
    ASSUME NEW N \in Nat, NEW a \in [1 .. N -> Nat], NEW b \in [1 .. N -> Nat],
           NEW c \in [1 .. N -> Nat], \A i \in 1 .. N : a[i] + b[i] = c[i]
    PROVE  Eval!Total(a) + Eval!Total(b) = Eval!Total(c)
<1>1. PICK x : Sums(x, N, a) /\ Eval!Total(a) = x[N]
  BY TotalIsBySteps
<1>2. PICK y : Sums(y, N, b) /\ Eval!Total(b) = y[N]
  BY TotalIsBySteps
<1>3. PICK z : Sums(z, N, c) /\ Eval!Total(c) = z[N]
  BY TotalIsBySteps
<1> DEFINE T == {n \in Nat : n <= N => x[n] + y[n] = z[n]}
<1>4. 0 \in T
  BY <1>1, <1>2, <1>3 DEF Sums
<1>5. ASSUME NEW n \in Nat, n \in T PROVE n + 1 \in T
  <2> SUFFICES ASSUME n + 1 <= N PROVE x[n + 1] + y[n + 1] = z[n + 1]
    OBVIOUS
  <2>1. n + 1 \in 1 .. N /\ (n + 1) - 1 = n /\ n \in 0 .. N /\ x[n] + y[n] = z[n]
    BY <1>5
  <2>2. x[n] \in Nat /\ y[n] \in Nat /\ z[n] \in Nat
    BY <1>1, <1>2, <1>3, <2>1 DEF Sums
  <2>3. x[n + 1] = x[n] + a[n + 1] /\ y[n + 1] = y[n] + b[n + 1] /\ z[n + 1] = z[n] + c[n + 1]
    BY <1>1, <1>2, <1>3, <2>1 DEF Sums
  <2>4. a[n + 1] \in Nat /\ b[n + 1] \in Nat /\ c[n + 1] \in Nat /\ a[n + 1] + b[n + 1] = c[n + 1]
    BY <2>1
  <2> DEFINE u == x[n]
             v == y[n]
             i == a[n + 1]
             j == b[n + 1]
  <2>5. u \in Nat /\ v \in Nat /\ i \in Nat /\ j \in Nat
    BY <2>2, <2>4
  <2>6. z[n] = u + v /\ c[n + 1] = i + j
    BY <2>1, <2>4
  <2>7. x[n + 1] = u + i /\ y[n + 1] = v + j /\ z[n + 1] = (u + v) + (i + j)
    BY <2>3, <2>6
  <2> HIDE DEF u, v, i, j
  <2>8. (u + i) + (v + j) = (u + v) + (i + j)
    BY <2>5
  <2> QED
    BY <2>7, <2>8
<1>6. Nat \subseteq T
  <2> HIDE DEF T
  <2> QED
    BY <1>4, <1>5, Inductive
<1>7. x[N] + y[N] = z[N]
  BY <1>6
<1> QED
  BY <1>1, <1>2, <1>3, <1>7
\* The graph findings of a list are counted by a natural.
LEMMA GraphCount ==
    ASSUME NEW s \in Seq(Findings)
    PROVE  Eval!Cardinality(Eval!Graph(s)) \in Nat
<1> DEFINE G == Eval!Graph(s)
<1>1. G \subseteq 1 .. Len(s) /\ Len(s) \in Nat
  BY LenProperties DEF Eval!Graph
<1> HIDE DEF G
<1>2. IsFiniteSet(1 .. Len(s))
  BY <1>1, FS_Interval
<1>3. Cardinality(G) \in Nat
  BY <1>1, <1>2, FS_Subset, FS_CardinalityType
<1>4. Eval!Cardinality(G) = Cardinality(G)
  BY EvalSets
<1> QED
  BY <1>3, <1>4 DEF G

-----------------------------------------------------------------------------
\* Evaluation runner: the invariant.

\* The results so far are those of matching the first pull requests.
ResultsMatched ==
    \A k \in DOMAIN results :
        Matched(results[k], Len(results[k].produced), results[k].produced, corpus[k])

Annotated == Eval!Total([k \in DOMAIN corpus |-> Len(corpus[k])])

\* A variant was measured on the whole corpus, every annotation hit or missed.
Whole(m) ==
    m \in Eval!Metrics /\ m.pr_count = Len(corpus) /\ m.tp + m.missed = Annotated

MeasuredInTurn ==
    /\ stage \in {"diff_only", "measured", "compared"} => Whole(metrics["structural"])
    /\ stage \in {"measured", "compared"} => Whole(metrics["diff_only"])
    /\ verdict # "none" => stage = "compared"
    /\ verdict = "go" =>
         /\ metrics["structural"].tp > metrics["diff_only"].tp
         /\ metrics["structural"].graph_tp > 0

EvalInv == Eval!TypeOK /\ ResultsMatched /\ MeasuredInTurn

\* The measurement of a whole corpus.
LEMMA MeasuredWhole ==
    ASSUME Eval!EvaluationAssumption, Eval!TypeOK, ResultsMatched, Len(results) = Len(corpus)
    PROVE  Whole(Eval!ComputeMetrics)
<1> DEFINE N == Len(results)
           tp == [i \in 1 .. N |-> Len(results[i].tp)]
           fp == [i \in 1 .. N |-> Len(results[i].fp)]
           missed == [i \in 1 .. N |-> Len(results[i].missed)]
           graph == [i \in 1 .. N |-> Eval!Cardinality(Eval!Graph(results[i].tp))]
           wanted == [i \in 1 .. N |-> Len(corpus[i])]
<1>1. /\ results \in Seq(Eval!Result) /\ corpus \in Seq(Seq(Eval!Finding))
      /\ N \in Nat /\ DOMAIN results = 1 .. N /\ DOMAIN corpus = 1 .. N
  BY LenProperties DEF Eval!TypeOK, Eval!EvaluationAssumption
<1>2. ASSUME NEW i \in 1 .. N
      PROVE  /\ results[i] \in Eval!Result /\ corpus[i] \in Seq(Eval!Finding)
             /\ results[i].tp \in Seq(Findings) /\ results[i].fp \in Seq(Findings)
             /\ results[i].missed \in Seq(Eval!Finding)
  <2>1. results[i] \in Eval!Result /\ corpus[i] \in Seq(Eval!Finding)
    BY <1>1, ElementOfSeq
  <2> QED
    BY <2>1 DEF Eval!Result
<1>3. /\ tp \in [1 .. N -> Nat] /\ fp \in [1 .. N -> Nat] /\ missed \in [1 .. N -> Nat]
      /\ wanted \in [1 .. N -> Nat]
  BY <1>2, LenProperties
<1>4. graph \in [1 .. N -> Nat]
  BY <1>2, GraphCount
<1>5. \A i \in 1 .. N : tp[i] + missed[i] = wanted[i]
  <2> TAKE i \in 1 .. N
  <2>1. Matched(results[i], Len(results[i].produced), results[i].produced, corpus[i])
    BY <1>1 DEF ResultsMatched
  <2> QED
    BY <1>2, <2>1, HitOrMissed
<1>6. Eval!ComputeMetrics =
        [pr_count |-> N, tp |-> Eval!Total(tp), fp |-> Eval!Total(fp),
         missed |-> Eval!Total(missed), graph_tp |-> Eval!Total(graph)]
  BY <1>1 DEF Eval!ComputeMetrics
<1>7. Annotated = Eval!Total(wanted)
  BY <1>1 DEF Annotated
<1> HIDE DEF N, tp, fp, missed, graph, wanted
<1>8. /\ Eval!Total(tp) \in Nat /\ Eval!Total(fp) \in Nat /\ Eval!Total(missed) \in Nat
      /\ Eval!Total(graph) \in Nat
  BY <1>1, <1>3, <1>4, TotalType
<1>9. Eval!Total(tp) + Eval!Total(missed) = Eval!Total(wanted)
  BY <1>1, <1>3, <1>5, TotalAdds
<1>10. N = Len(corpus)
  BY DEF N
<1> QED
  BY <1>1, <1>6, <1>7, <1>8, <1>9, <1>10 DEF Whole, Eval!Metrics

\* "go" takes more hits of the structural variant, some of them from the graph.
LEMMA GoTakesHits ==
    ASSUME NEW s, NEW d, Whole(s), Whole(d), NEW passed \in BOOLEAN,
           Eval!Exceeds(Eval!AcceptedFindingRate(s), Eval!AcceptedFindingRate(d), 15),
           Eval!Exceeds(Eval!Rate(IF passed THEN s.graph_tp ELSE 0, s.tp), <<0, 1>>, 20)
    PROVE  s.tp > d.tp /\ s.graph_tp > 0
<1> DEFINE A == Annotated
           x == s.tp
           y == d.tp
           g == IF passed THEN s.graph_tp ELSE 0
<1>1. /\ x \in Nat /\ y \in Nat /\ A \in Nat /\ x + s.missed = A /\ y + d.missed = A
      /\ s.graph_tp \in Nat /\ g \in Nat
  BY DEF Whole, Eval!Metrics
<1>2. Eval!AcceptedFindingRate(s) = Eval!Rate(x, A) /\ Eval!AcceptedFindingRate(d) = Eval!Rate(y, A)
  BY <1>1 DEF Eval!AcceptedFindingRate
<1>3. Eval!Exceeds(Eval!Rate(x, A), Eval!Rate(y, A), 15)
  BY <1>2
<1>4. Eval!Exceeds(Eval!Rate(g, x), <<0, 1>>, 20)
  OBVIOUS
<1>5. g > 0 => s.graph_tp > 0
  BY <1>1
<1> HIDE DEF A, x, y, g
<1>6. A # 0
  BY <1>3 DEF Eval!Exceeds, Eval!Rate
<1>7. (x * A - y * A) * 100 > 15 * A * A
  BY <1>3, <1>6 DEF Eval!Exceeds, Eval!Rate
<1>8. x > y
  <2> SUFFICES ASSUME ~(x > y) PROVE FALSE
    OBVIOUS
  <2>1. x <= y
    BY <1>1
  <2>2. x * A <= y * A
    BY <1>1, <2>1
  <2>3. x * A \in Nat /\ y * A \in Nat /\ A * A \in Nat /\ 15 * A * A = 15 * (A * A)
    BY <1>1
  <2> DEFINE xa == x * A
             ya == y * A
             aa == A * A
  <2>4. (xa - ya) * 100 > 15 * aa /\ xa \in Nat /\ ya \in Nat /\ aa \in Nat /\ xa <= ya
    BY <1>7, <2>2, <2>3
  <2> HIDE DEF xa, ya, aa
  <2> QED
    BY <2>4
<1>9. g > 0
  BY <1>1, <1>4 DEF Eval!Exceeds, Eval!Rate
<1> QED
  BY <1>5, <1>8, <1>9 DEF x, y
\* A review is matched by match_findings().
LEMMA ReviewKeeps ==
    ASSUME Eval!EvaluationAssumption, EvalInv, Eval!Review
    PROVE  EvalInv'
<1>1. PICK produced \in Eval!BoundedSeq(Findings, MaxFindings) :
          results' = Append(results, Eval!MatchFindings(produced, corpus[Len(results) + 1]))
  BY DEF Eval!Review
<1> DEFINE L == Len(results)
           r == Eval!MatchFindings(produced, corpus[L + 1])
<1>2. /\ results \in Seq(Eval!Result) /\ corpus \in Seq(Seq(Eval!Finding)) /\ L \in Nat
      /\ Len(corpus) \in Nat /\ L < Len(corpus)
  BY LenProperties DEF EvalInv, Eval!TypeOK, Eval!EvaluationAssumption, Eval!Review
<1>3. produced \in Seq(Findings)
  <2>1. PICK m \in 0 .. MaxFindings : produced \in [1 .. m -> Findings]
    BY DEF Eval!BoundedSeq, Eval!SeqOf
  <2>2. m \in Nat
    BY DEF Eval!EvaluationAssumption
  <2> QED
    BY <2>1, <2>2, SeqDef
<1>4. corpus[L + 1] \in Seq(Eval!Finding)
  BY <1>2, ElementOfSeq
<1> HIDE DEF L
<1>5. r \in Eval!Result /\ Matched(r, Len(produced), produced, corpus[L + 1])
  BY <1>3, <1>4, MatchingIsByRounds
<1> HIDE DEF r
<1>6. /\ results' = Append(results, r) /\ results' \in Seq(Eval!Result)
      /\ DOMAIN results' = 1 .. L + 1 /\ Len(results') = L + 1
      /\ DOMAIN results = 1 .. L /\ results'[L + 1] = r
      /\ \A k \in 1 .. L : results'[k] = results[k]
  BY <1>1, <1>2, <1>5, AppendProperties, LenProperties DEF r, L
<1>7. Eval!TypeOK'
  BY <1>2, <1>6 DEF EvalInv, Eval!TypeOK, Eval!Review
<1>8. ResultsMatched'
  <2> SUFFICES ASSUME NEW k \in 1 .. L + 1
               PROVE  Matched(results'[k], Len(results'[k].produced), results'[k].produced, corpus[k])
    BY <1>6 DEF ResultsMatched, Eval!Review
  <2>1. CASE k = L + 1
    <3>1. r.produced = produced
      BY <1>5 DEF Matched
    <3> QED
      BY <1>5, <1>6, <2>1, <3>1
  <2>2. CASE k # L + 1
    <3>1. k \in DOMAIN results /\ results'[k] = results[k]
      BY <1>2, <1>6, <2>2
    <3> QED
      BY <3>1 DEF EvalInv, ResultsMatched
  <2> QED
    BY <2>1, <2>2
<1>9. MeasuredInTurn'
  BY DEF EvalInv, MeasuredInTurn, Whole, Annotated, Eval!Review
<1> QED
  BY <1>7, <1>8, <1>9 DEF EvalInv

\* A measurement is of the whole corpus.
LEMMA MeasureKeeps ==
    ASSUME Eval!EvaluationAssumption, EvalInv, Eval!Measure
    PROVE  EvalInv'
<1>1. /\ stage \in Eval!Variants /\ Len(results) = Len(corpus) /\ results' = <<>>
      /\ corpus' = corpus /\ verdict' = verdict
  BY DEF Eval!Measure
<1>2. Whole(Eval!ComputeMetrics)
  BY <1>1, MeasuredWhole DEF EvalInv
<1>3. verdict = "none" /\ metrics \in [Eval!Variants -> {Eval!NoMetrics} \cup Eval!Metrics]
  BY <1>1 DEF EvalInv, MeasuredInTurn, Eval!TypeOK, Eval!Variants
<1>4. ResultsMatched'
  BY <1>1 DEF ResultsMatched
<1>5. Len(results') = 0 /\ results' \in Seq(Eval!Result) /\ Len(corpus) \in Nat
  BY <1>1, EmptySeq, LenProperties DEF EvalInv, Eval!TypeOK, Eval!EvaluationAssumption
<1>6. CASE stage' = "raised" /\ metrics' = metrics
  <2>1. Eval!TypeOK'
    BY <1>1, <1>3, <1>5, <1>6 DEF EvalInv, Eval!TypeOK
  <2>2. MeasuredInTurn'
    BY <1>1, <1>3, <1>6 DEF MeasuredInTurn
  <2> QED
    BY <1>4, <2>1, <2>2 DEF EvalInv
<1>7. CASE /\ metrics' = [metrics EXCEPT ![stage] = Eval!ComputeMetrics]
           /\ stage' = IF stage = "structural" THEN "diff_only" ELSE "measured"
  <2>1. Eval!ComputeMetrics \in Eval!Metrics
    BY <1>2 DEF Whole
  <2>2. Eval!TypeOK'
    <3>1. stage' \in Eval!Variants \cup {"measured", "compared", "raised"}
      BY <1>7 DEF Eval!Variants
    <3>2. metrics' \in [Eval!Variants -> {Eval!NoMetrics} \cup Eval!Metrics]
      BY <1>1, <1>3, <1>7, <2>1
    <3> QED
      BY <1>1, <1>5, <3>1, <3>2 DEF EvalInv, Eval!TypeOK
  <2>3. \A m : Whole(m)' <=> m \in Eval!Metrics /\ m.pr_count = Len(corpus) /\ m.tp + m.missed = Annotated
    BY <1>1 DEF Whole, Annotated
  <2>4. MeasuredInTurn'
    <3>1. CASE stage = "structural"
      <4>1. stage' = "diff_only" /\ metrics'["structural"] = Eval!ComputeMetrics
        BY <1>3, <1>7, <3>1 DEF Eval!Variants
      <4>2. Whole(metrics["structural"])'
        BY <1>1, <1>2, <4>1 DEF Whole, Annotated
      <4> QED
        BY <1>1, <1>3, <4>1, <4>2 DEF MeasuredInTurn
    <3>2. CASE stage = "diff_only"
      <4>1. /\ stage' = "measured" /\ metrics'["diff_only"] = Eval!ComputeMetrics
            /\ metrics'["structural"] = metrics["structural"]
        BY <1>3, <1>7, <3>2 DEF Eval!Variants
      <4>2. Whole(metrics["structural"])
        BY <3>2 DEF EvalInv, MeasuredInTurn
      <4>3. Whole(metrics["diff_only"])' /\ Whole(metrics["structural"])'
        BY <1>1, <1>2, <4>1, <4>2 DEF Whole, Annotated
      <4> QED
        BY <1>1, <1>3, <4>1, <4>3 DEF MeasuredInTurn
    <3> QED
      BY <1>1, <3>1, <3>2 DEF Eval!Variants
  <2> QED
    BY <1>4, <2>2, <2>4 DEF EvalInv
<1> QED
  BY <1>6, <1>7 DEF Eval!Measure

\* Nothing is left of a run that raises.
LEMMA RaiseKeeps ==
    ASSUME Eval!EvaluationAssumption, EvalInv, Eval!Raise
    PROVE  EvalInv'
<1>1. /\ stage \in Eval!Variants /\ stage' = "raised" /\ results' = <<>>
      /\ corpus' = corpus /\ metrics' = metrics /\ verdict' = verdict
  BY DEF Eval!Raise
<1>2. verdict = "none"
  BY <1>1 DEF EvalInv, MeasuredInTurn, Eval!Variants
<1>3. Len(results') = 0 /\ results' \in Seq(Eval!Result) /\ Len(corpus) \in Nat
  BY <1>1, EmptySeq, LenProperties DEF EvalInv, Eval!TypeOK, Eval!EvaluationAssumption
<1>4. Eval!TypeOK'
  BY <1>1, <1>3 DEF EvalInv, Eval!TypeOK
<1>5. ResultsMatched'
  BY <1>1 DEF ResultsMatched
<1>6. MeasuredInTurn'
  BY <1>1, <1>2 DEF MeasuredInTurn
<1> QED
  BY <1>4, <1>5, <1>6 DEF EvalInv

\* The verdict is of two measurements of the whole corpus.
LEMMA CompareKeeps ==
    ASSUME Eval!EvaluationAssumption, EvalInv, Eval!Compare
    PROVE  EvalInv'
<1> DEFINE s == metrics["structural"]
           d == metrics["diff_only"]
<1>1. /\ stage = "measured" /\ stage' = "compared"
      /\ corpus' = corpus /\ results' = results /\ metrics' = metrics
  BY DEF Eval!Compare
<1>2. Whole(s) /\ Whole(d)
  BY <1>1 DEF EvalInv, MeasuredInTurn
<1>3. PICK passed \in BOOLEAN :
          verdict' = IF /\ Eval!Exceeds(Eval!AcceptedFindingRate(s), Eval!AcceptedFindingRate(d), 15)
                        /\ Eval!Exceeds(Eval!Rate(IF passed THEN s.graph_tp ELSE 0, s.tp), <<0, 1>>, 20)
                     THEN "go" ELSE "no-go"
  BY DEF Eval!Compare
<1>4. verdict' = "go" => s.tp > d.tp /\ s.graph_tp > 0
  <2> SUFFICES ASSUME verdict' = "go" PROVE s.tp > d.tp /\ s.graph_tp > 0
    OBVIOUS
  <2>1. /\ Eval!Exceeds(Eval!AcceptedFindingRate(s), Eval!AcceptedFindingRate(d), 15)
        /\ Eval!Exceeds(Eval!Rate(IF passed THEN s.graph_tp ELSE 0, s.tp), <<0, 1>>, 20)
    BY <1>3
  <2> HIDE DEF s, d
  <2> QED
    BY <1>2, <2>1, GoTakesHits
<1>5. Eval!TypeOK'
  BY <1>1, <1>3 DEF EvalInv, Eval!TypeOK
<1>6. ResultsMatched'
  BY <1>1 DEF EvalInv, ResultsMatched
<1>7. Whole(s)' /\ Whole(d)'
  BY <1>1, <1>2 DEF Whole, Annotated
<1>8. MeasuredInTurn'
  BY <1>1, <1>4, <1>7 DEF MeasuredInTurn
<1> QED
  BY <1>5, <1>6, <1>8 DEF EvalInv

\* The invariant of the evaluation runner.
LEMMA EvalInvariant ==
    ASSUME Eval!EvaluationAssumption
    PROVE  Eval!Spec => []EvalInv
<1>1. Eval!Init => EvalInv
  <2> SUFFICES ASSUME Eval!Init PROVE EvalInv
    OBVIOUS
  <2>1. Eval!TypeOK
    <3>1. Len(corpus) \in Nat /\ results \in Seq(Eval!Result) /\ Len(results) = 0
      BY LenProperties, EmptySeq DEF Eval!Init, Eval!EvaluationAssumption
    <3> QED
      BY <3>1 DEF Eval!Init, Eval!TypeOK, Eval!Variants
  <2>2. ResultsMatched
    BY DEF Eval!Init, ResultsMatched
  <2>3. MeasuredInTurn
    BY DEF Eval!Init, MeasuredInTurn
  <2> QED
    BY <2>1, <2>2, <2>3 DEF EvalInv
<1>2. EvalInv /\ [Eval!Next]_Eval!vars => EvalInv'
  <2> SUFFICES ASSUME EvalInv, [Eval!Next]_Eval!vars PROVE EvalInv'
    OBVIOUS
  <2>1. CASE Eval!Review
    BY <2>1, ReviewKeeps
  <2>2. CASE Eval!Measure
    BY <2>2, MeasureKeeps
  <2>3. CASE Eval!Raise
    BY <2>3, RaiseKeeps
  <2>4. CASE Eval!Compare
    BY <2>4, CompareKeeps
  <2>5. CASE UNCHANGED Eval!vars
    BY <2>5 DEF EvalInv, Eval!vars, Eval!TypeOK, ResultsMatched, MeasuredInTurn, Whole, Annotated
  <2> QED
    BY <2>1, <2>2, <2>3, <2>4, <2>5 DEF Eval!Next
<1> QED
  BY <1>1, <1>2, PTL DEF Eval!Spec

-----------------------------------------------------------------------------
\* Evaluation runner: the theorems.

\* Results, metrics and verdict are always of their types, match_findings() yields
\* results of sequences of findings and compute_metrics() naturals.
THEOREM EvalTypeCorrect ==
    ASSUME Eval!EvaluationAssumption
    PROVE  Eval!Spec => []Eval!TypeOK
BY EvalInvariant, PTL DEF EvalInv

\* match_findings() counts as true positives the findings of a pairing with the
\* annotations, leaves no two that match, and pairs at least half of what could be.
THEOREM MatchingIsTrue ==
    ASSUME Eval!EvaluationAssumption
    PROVE  Eval!Spec => []MatchingTrue
<1>1. EvalInv => MatchingTrue
  <2> SUFFICES ASSUME EvalInv, NEW k \in DOMAIN results
               PROVE
        LET r == results[k]
            expected == corpus[k]
            pairings == Eval!Pairings(r.produced, expected)
        IN  /\ \E p \in pairings :
                 /\ Eval!InOrder(r.tp, r.produced, Eval!Paired(p))
                 /\ Eval!InOrder(r.fp, r.produced, DOMAIN p \ Eval!Paired(p))
                 /\ Eval!InOrder(r.missed, expected, DOMAIN expected \ {p[i] : i \in DOMAIN p})
            /\ \A f \in Eval!ToSet(r.fp), a \in Eval!ToSet(r.missed) : ~Eval!Matches(f, a)
            /\ \A p \in pairings : Eval!Cardinality(Eval!Paired(p)) <= 2 * Len(r.tp)
    BY DEF MatchingTrue, Eval!MatchingTrue
  <2> DEFINE r == results[k]
             expected == corpus[k]
  <2>1. results \in Seq(Eval!Result) /\ corpus \in Seq(Seq(Eval!Finding)) /\ Len(results) <= Len(corpus)
    BY DEF EvalInv, Eval!TypeOK, Eval!EvaluationAssumption
  <2>2. k \in 1 .. Len(results) /\ k \in 1 .. Len(corpus)
    BY <2>1, LenProperties
  <2>3. r \in Eval!Result /\ expected \in Seq(Eval!Finding)
    BY <2>1, <2>2, ElementOfSeq
  <2>4. Matched(r, Len(r.produced), r.produced, expected)
    BY DEF EvalInv, ResultsMatched
  <2> HIDE DEF r, expected
  <2>5. /\ \E p \in Eval!Pairings(r.produced, expected) :
                /\ Eval!InOrder(r.tp, r.produced, Eval!Paired(p))
                /\ Eval!InOrder(r.fp, r.produced, DOMAIN p \ Eval!Paired(p))
                /\ Eval!InOrder(r.missed, expected, DOMAIN expected \ {p[i] : i \in DOMAIN p})
        /\ \A f \in Eval!ToSet(r.fp), a \in Eval!ToSet(r.missed) : ~Eval!Matches(f, a)
        /\ \A p \in Eval!Pairings(r.produced, expected) :
                Eval!Cardinality(Eval!Paired(p)) <= 2 * Len(r.tp)
    BY <2>3, <2>4, MatchedIsTrue
  <2> QED
    BY <2>5 DEF r, expected
<1> QED
  BY <1>1, EvalInvariant, PTL

\* A verdict of compare_variants() is of two measurements of every pull request and
\* annotation, and "go" takes more hits of the structural one, some from the graph.
THEOREM VerdictComparesLikeWithLike ==
    ASSUME Eval!EvaluationAssumption
    PROVE  Eval!Spec => []ComparesLikeWithLike
<1>1. EvalInv => ComparesLikeWithLike
  <2> SUFFICES ASSUME EvalInv PROVE ComparesLikeWithLike
    OBVIOUS
  <2>1. verdict # "none" => Whole(metrics["structural"]) /\ Whole(metrics["diff_only"])
    BY DEF EvalInv, MeasuredInTurn
  <2> QED
    BY <2>1 DEF EvalInv, MeasuredInTurn, Whole, Annotated, ComparesLikeWithLike,
       Eval!ComparesLikeWithLike
<1> QED
  BY <1>1, EvalInvariant, PTL

-----------------------------------------------------------------------------
\* Structural context: the tree.

\* Every node but the root has a node before it above it, and lies within its rows;
\* what a decorator decorates comes right after it.
TreeSound ==
    /\ tree \in Seq(Scopes!Node) /\ Len(tree) \in 1 .. MaxNodes
    /\ tree[1].parent = 0
    /\ \A n \in 1 .. Len(tree) : tree[n].from <= tree[n].to
    /\ \A n \in 2 .. Len(tree) :
         LET p == tree[n].parent
         IN  p \in 1 .. n - 1 /\ tree[p].from <= tree[n].from /\ tree[n].to <= tree[p].to
    /\ \A n \in 1 .. Len(tree) : tree[n].type = "decorated" =>
         /\ n + 1 <= Len(tree) /\ tree[n + 1].parent = n
         /\ tree[n + 1].type \in Scopes!Definitions

\* What the type of the tree says of its nodes.
LEMMA TreeFacts ==
    ASSUME Scopes!AstAssumption, TreeSound
    PROVE  /\ Len(tree) \in Nat /\ Len(tree) >= 1 /\ DOMAIN tree = 1 .. Len(tree)
           /\ \A n \in 1 .. Len(tree) :
                /\ tree[n] \in Scopes!Node
                /\ tree[n].parent \in 0 .. n - 1 /\ tree[n].parent \in Nat
                /\ tree[n].from \in Nat /\ tree[n].to \in Nat /\ Scopes!Span(n) \in Nat
<1>1. /\ tree \in Seq(Scopes!Node) /\ Len(tree) \in 1 .. MaxNodes /\ tree[1].parent = 0
      /\ \A n \in 1 .. Len(tree) : tree[n].from <= tree[n].to
      /\ \A n \in 2 .. Len(tree) : tree[n].parent \in 1 .. n - 1
  BY DEF TreeSound
<1>2. Len(tree) \in Nat /\ Len(tree) >= 1 /\ DOMAIN tree = 1 .. Len(tree)
  BY <1>1, LenProperties
<1>3. ASSUME NEW n \in 1 .. Len(tree)
      PROVE  /\ tree[n] \in Scopes!Node
             /\ tree[n].parent \in 0 .. n - 1 /\ tree[n].parent \in Nat
             /\ tree[n].from \in Nat /\ tree[n].to \in Nat /\ Scopes!Span(n) \in Nat
  <2>1. tree[n] \in Scopes!Node
    BY <1>1, ElementOfSeq
  <2>2. tree[n].parent \in Nat /\ tree[n].from \in Nat /\ tree[n].to \in Nat
    BY <2>1 DEF Scopes!Node, Scopes!Row, Scopes!AstAssumption
  <2>3. tree[n].parent \in 0 .. n - 1
    <3>1. CASE n = 1
      BY <1>1, <3>1
    <3>2. CASE n # 1
      <4>1. n \in 2 .. Len(tree)
        BY <1>2, <3>2
      <4>2. tree[n].parent \in 1 .. n - 1
        BY <1>1, <4>1
      <4> QED
        BY <1>2, <4>2
    <3> QED
      BY <3>1, <3>2
  <2>4. Scopes!Span(n) \in Nat
    BY <1>1, <2>2 DEF Scopes!Span
  <2> QED
    BY <2>1, <2>2, <2>3, <2>4
<1> QED
  BY <1>2, <1>3

\* `p` has the nodes above the first nodes.
Climbs(p, k) ==
    p = [n \in 0 .. k |-> IF n = 0 THEN {} ELSE {n} \cup p[tree[n].parent]]

\* There is one, as a node is above others only if it comes before them.
LEMMA ClimbsUp ==
    ASSUME Scopes!AstAssumption, TreeSound, NEW k \in 0 .. Len(tree)
    PROVE  \E p : Climbs(p, k)
<1> DEFINE N == Len(tree)
           T == {j \in Nat : j <= N => \E p : Climbs(p, j)}
<1>1. N \in Nat /\ \A n \in 1 .. N : tree[n].parent \in 0 .. n - 1
  BY TreeFacts
<1>2. 0 \in T
  <2>1. Climbs([n \in 0 .. 0 |-> {}], 0)
    BY DEF Climbs
  <2> QED
    BY <2>1
<1>3. ASSUME NEW j \in Nat, j \in T PROVE j + 1 \in T
  <2> SUFFICES ASSUME j + 1 <= N PROVE \E p : Climbs(p, j + 1)
    OBVIOUS
  <2>1. PICK p : Climbs(p, j)
    BY <1>1, <1>3
  <2> DEFINE q == [n \in 0 .. j + 1 |->
                     IF n = j + 1 THEN {j + 1} \cup p[tree[j + 1].parent] ELSE p[n]]
  <2>2. ASSUME NEW n \in 0 .. j PROVE q[n] = p[n]
    BY <2>2
  <2>3. q[j + 1] = {j + 1} \cup p[tree[j + 1].parent] /\ tree[j + 1].parent \in 0 .. j
    <3>1. j + 1 \in 1 .. N /\ j + 1 \in 0 .. j + 1 /\ (j + 1) - 1 = j
      BY <1>1
    <3> QED
      BY <1>1, <3>1
  <2>4. \A n \in 0 .. j : p[n] = IF n = 0 THEN {} ELSE {n} \cup p[tree[n].parent]
    BY <2>1 DEF Climbs
  <2>5. q = [n \in 0 .. j + 1 |-> q[n]]
    OBVIOUS
  <2> HIDE DEF q
  <2>6. ASSUME NEW n \in 0 .. j + 1
        PROVE  q[n] = IF n = 0 THEN {} ELSE {n} \cup q[tree[n].parent]
    <3>1. CASE n = j + 1
      <4>1. q[tree[j + 1].parent] = p[tree[j + 1].parent] /\ j + 1 # 0
        BY <2>2, <2>3
      <4> QED
        BY <2>3, <3>1, <4>1
    <3>2. CASE n = 0
      <4>1. 0 \in 0 .. j
        OBVIOUS
      <4>2. q[0] = p[0] /\ p[0] = {}
        BY <2>2, <2>4, <4>1
      <4> QED
        BY <3>2, <4>2
    <3>3. CASE n # j + 1 /\ n # 0
      <4>1. n \in 1 .. N /\ n \in 0 .. j
        BY <1>1, <3>3
      <4>2. tree[n].parent \in 0 .. j
        <5>1. tree[n].parent \in 0 .. n - 1
          BY <1>1, <4>1
        <5> QED
          BY <4>1, <5>1
      <4> QED
        BY <2>2, <2>4, <3>3, <4>1, <4>2
    <3> QED
      BY <3>1, <3>2, <3>3
  <2>7. Climbs(q, j + 1)
    BY <2>5, <2>6 DEF Climbs
  <2> QED
    BY <2>7
<1>4. Nat \subseteq T
  <2> HIDE DEF T
  <2> QED
    BY <1>2, <1>3, Inductive
<1> QED
  BY <1>1, <1>4

\* There is only one.
LEMMA ClimbsAlike ==
    ASSUME Scopes!AstAssumption, TreeSound,
           NEW k \in 0 .. Len(tree), NEW m \in 0 .. Len(tree), NEW p, NEW q,
           Climbs(p, k), Climbs(q, m), NEW n \in Nat, n <= k, n <= m
    PROVE  p[n] = q[n]
<1> DEFINE N == Len(tree)
           T == {j \in Nat : \A i \in 0 .. j : i <= k /\ i <= m => p[i] = q[i]}
<1>1. N \in Nat /\ k \in Nat /\ m \in Nat /\ k <= N /\ \A i \in 1 .. N : tree[i].parent \in 0 .. i - 1
  BY TreeFacts
<1>2. /\ \A i \in 0 .. k : p[i] = IF i = 0 THEN {} ELSE {i} \cup p[tree[i].parent]
      /\ \A i \in 0 .. m : q[i] = IF i = 0 THEN {} ELSE {i} \cup q[tree[i].parent]
  BY DEF Climbs
<1>3. 0 \in T
  <2>1. 0 \in 0 .. k /\ 0 \in 0 .. m
    BY <1>1
  <2>2. p[0] = {} /\ q[0] = {}
    BY <1>2, <2>1
  <2>3. \A i \in 0 .. 0 : i = 0
    OBVIOUS
  <2> HIDE DEF N
  <2> QED
    BY <2>2, <2>3
<1>4. ASSUME NEW j \in Nat, j \in T PROVE j + 1 \in T
  <2> SUFFICES ASSUME NEW i \in 0 .. j + 1, i <= k, i <= m PROVE p[i] = q[i]
    OBVIOUS
  <2>1. CASE i \in 0 .. j
    BY <1>4, <2>1
  <2>2. CASE i = j + 1
    <3>1. i \in 1 .. N /\ i \in 0 .. k /\ i \in 0 .. m /\ i # 0
      BY <1>1, <2>2
    <3>2. tree[i].parent \in 0 .. j /\ tree[i].parent <= k /\ tree[i].parent <= m
      <4>1. tree[i].parent \in 0 .. i - 1
        BY <1>1, <3>1
      <4> QED
        BY <1>1, <2>2, <4>1
    <3>3. p[tree[i].parent] = q[tree[i].parent]
      BY <1>4, <3>2
    <3> QED
      BY <1>2, <3>1, <3>3
  <2> QED
    BY <2>1, <2>2
<1>5. Nat \subseteq T
  <2> HIDE DEF T
  <2> QED
    BY <1>3, <1>4, Inductive
<1> QED
  BY <1>5

\* Above a node is its parent, and what is above its parent.
LEMMA PathIsBySteps ==
    ASSUME Scopes!AstAssumption, TreeSound
    PROVE  /\ Scopes!Path(0) = {}
           /\ \A n \in 1 .. Len(tree) :
                Scopes!Path(n) = {n} \cup Scopes!Path(tree[n].parent)
<1> DEFINE N == Len(tree)
           chosen(k) == CHOOSE p : Climbs(p, k)
<1>1. N \in Nat /\ \A n \in 1 .. N : tree[n].parent \in 0 .. n - 1
  BY TreeFacts
<1>2. ASSUME NEW k \in 0 .. N PROVE Climbs(chosen(k), k) /\ Scopes!Path(k) = chosen(k)[k]
  <2>1. Climbs(chosen(k), k)
    BY ClimbsUp
  <2>2. Scopes!Path(k) = chosen(k)[k]
    BY DEF Scopes!Path, Climbs
  <2> QED
    BY <2>1, <2>2
<1> HIDE DEF chosen
<1>3. Scopes!Path(0) = {}
  <2>1. 0 \in 0 .. N /\ 0 \in 0 .. 0
    BY <1>1
  <2>2. chosen(0)[0] = {}
    BY <1>2, <2>1 DEF Climbs
  <2> QED
    BY <1>2, <2>1, <2>2
<1>4. ASSUME NEW n \in 1 .. N PROVE Scopes!Path(n) = {n} \cup Scopes!Path(tree[n].parent)
  <2> DEFINE m == tree[n].parent
  <2>1. n \in 0 .. N /\ n # 0 /\ n \in 0 .. n /\ m \in 0 .. N /\ m \in Nat /\ m <= n /\ m <= m
    <3>1. m \in 0 .. n - 1
      BY <1>1
    <3> QED
      BY <1>1, <3>1
  <2> HIDE DEF m
  <2>2. chosen(n)[n] = {n} \cup chosen(n)[m]
    <3>1. Climbs(chosen(n), n)
      BY <1>2, <2>1
    <3> QED
      BY <2>1, <3>1 DEF Climbs, m
  <2>3. chosen(n)[m] = chosen(m)[m]
    <3>1. Climbs(chosen(n), n) /\ Climbs(chosen(m), m)
      BY <1>2, <2>1
    <3> QED
      BY <2>1, <3>1, ClimbsAlike
  <2> QED
    BY <1>2, <2>1, <2>2, <2>3 DEF m
<1> QED
  BY <1>3, <1>4

-----------------------------------------------------------------------------
\* A node above a node comes before it and contains it.
Above(n, m) ==
    /\ n \in 1 .. m
    /\ tree[n].from <= tree[m].from /\ tree[m].to <= tree[n].to
    /\ Scopes!Span(m) <= Scopes!Span(n)
    /\ n # m => \E c \in Scopes!Children(n) : c \in Scopes!Path(m)

\* The path to a node is of nodes above it, from the root to itself.
LEMMA PathIsAbove ==
    ASSUME Scopes!AstAssumption, TreeSound, NEW m \in 1 .. Len(tree)
    PROVE  /\ 1 \in Scopes!Path(m) /\ m \in Scopes!Path(m)
           /\ \A n \in Scopes!Path(m) : Above(n, m)
           /\ \A c \in Scopes!Path(m) : c # 1 => tree[c].parent \in Scopes!Path(m)
<1> DEFINE N == Len(tree)
           Fine(i) == /\ 1 \in Scopes!Path(i) /\ i \in Scopes!Path(i)
                      /\ \A n \in Scopes!Path(i) : Above(n, i)
                      /\ \A c \in Scopes!Path(i) : c # 1 => tree[c].parent \in Scopes!Path(i)
           T == {j \in Nat : \A i \in 1 .. j : i <= N => Fine(i)}
<1>1. /\ N \in Nat /\ DOMAIN tree = 1 .. N
      /\ \A i \in 1 .. N : /\ tree[i].parent \in 0 .. i - 1 /\ tree[i].from \in Nat
                           /\ tree[i].to \in Nat
  BY TreeFacts
<1>2. /\ Scopes!Path(0) = {}
      /\ \A i \in 1 .. N : Scopes!Path(i) = {i} \cup Scopes!Path(tree[i].parent)
  BY PathIsBySteps
<1>3. 0 \in T
  OBVIOUS
<1>4. ASSUME NEW i \in 1 .. N PROVE Above(i, i)
  <2>1. Scopes!Span(i) \in Nat
    BY TreeFacts
  <2> QED
    BY <1>1, <2>1 DEF Above
<1>5. ASSUME NEW j \in Nat, j \in T PROVE j + 1 \in T
  <2> SUFFICES ASSUME NEW i \in 1 .. j + 1, i <= N PROVE Fine(i)
    OBVIOUS
  <2>1. CASE i \in 1 .. j
    <3> HIDE DEF Fine
    <3> QED
      BY <1>5, <2>1
  <2>2. CASE i = j + 1
    <3> DEFINE p == tree[i].parent
               above == Scopes!Path(p)
    <3>1. i \in 1 .. N
      BY <1>1
    <3>2. Scopes!Path(i) = {i} \cup above
      BY <1>2, <3>1
    <3>3. CASE i = 1
      <4>1. above = {}
        <5>1. p = 0
          BY <3>3 DEF TreeSound
        <5> QED
          BY <1>2, <5>1
      <4> QED
        BY <1>4, <3>1, <3>2, <3>3, <4>1
    <3>4. CASE i # 1
      <4>1. /\ p \in 1 .. i - 1 /\ tree[p].from <= tree[i].from /\ tree[i].to <= tree[p].to
        <5>1. i \in 2 .. Len(tree)
          BY <1>1, <3>1, <3>4
        <5> QED
          BY <5>1 DEF TreeSound
      <4>2. p \in 1 .. j /\ p <= N /\ p \in 1 .. N
        BY <1>1, <2>2, <4>1
      <4>3. Fine(p)
        <5> HIDE DEF Fine, p
        <5> QED
          BY <1>5, <4>2
      <4>4. i \in Scopes!Children(p)
        BY <1>1, <3>1 DEF Scopes!Children
      <4>5. ASSUME NEW n \in above PROVE Above(n, i)
        <5>1. /\ n \in 1 .. p /\ tree[n].from <= tree[p].from /\ tree[p].to <= tree[n].to
              /\ n # p => \E c \in Scopes!Children(n) : c \in Scopes!Path(p)
          BY <4>3 DEF Above
        <5>2. n \in 1 .. i /\ n # i /\ n \in 1 .. N
          BY <1>1, <3>1, <4>1, <5>1
        <5>3. tree[n].from <= tree[i].from /\ tree[i].to <= tree[n].to
          <6> DEFINE x == tree[n].from
                     y == tree[p].from
                     z == tree[i].from
                     u == tree[n].to
                     v == tree[p].to
                     w == tree[i].to
          <6>1. x \in Nat /\ y \in Nat /\ z \in Nat /\ u \in Nat /\ v \in Nat /\ w \in Nat
            BY <1>1, <3>1, <4>2, <5>2
          <6>2. x <= y /\ y <= z /\ w <= v /\ v <= u
            BY <4>1, <5>1
          <6> HIDE DEF x, y, z, u, v, w
          <6>3. x <= z /\ w <= u
            BY <6>1, <6>2
          <6> QED
            BY <6>3 DEF x, z, u, w
        <5>4. Scopes!Span(i) <= Scopes!Span(n)
          <6>1. tree[n].from \in Nat /\ tree[i].from \in Nat /\ tree[n].to \in Nat /\ tree[i].to \in Nat
            BY <1>1, <3>1, <5>2
          <6> QED
            BY <5>3, <6>1 DEF Scopes!Span
        <5>5. \E c \in Scopes!Children(n) : c \in Scopes!Path(i)
          <6>1. CASE n = p
            BY <3>2, <4>4, <6>1
          <6>2. CASE n # p
            BY <3>2, <5>1, <6>2
          <6> QED
            BY <6>1, <6>2
        <5> QED
          BY <5>2, <5>3, <5>4, <5>5 DEF Above
      <4>6. \A c \in Scopes!Path(i) : c # 1 => tree[c].parent \in Scopes!Path(i)
        <5> TAKE c \in Scopes!Path(i)
        <5>1. CASE c = i
          BY <3>2, <4>3, <5>1
        <5>2. CASE c \in above
          BY <3>2, <4>3, <5>2
        <5> QED
          BY <3>2, <5>1, <5>2
      <4> HIDE DEF p, above
      <4>7. \A n \in Scopes!Path(i) : Above(n, i)
        BY <1>4, <3>1, <3>2, <4>5
      <4>8. 1 \in above
        BY <4>3 DEF above
      <4> QED
        BY <3>2, <4>6, <4>7, <4>8
    <3> QED
      BY <3>3, <3>4
  <2> QED
    BY <2>1, <2>2
<1>6. Nat \subseteq T
  <2> HIDE DEF T
  <2> QED
    BY <1>3, <1>5, Inductive
<1>7. m \in T /\ m \in 1 .. m /\ m <= N
  <2>1. m \in Nat /\ m \in 1 .. m /\ m <= N
    BY <1>1
  <2> HIDE DEF T
  <2> QED
    BY <1>6, <2>1
<1> QED
  BY <1>7

-----------------------------------------------------------------------------
\* Structural context: the search.

\* What _find_innermost_scope() finds at a node, if `found` is what it finds below.
FoundAt(n, found, rows) ==
    IF Scopes!Outside(n, rows) THEN 0
    ELSE IF found # {} THEN Scopes!Best(found)
    ELSE IF Scopes!IsScope(n, rows) THEN n ELSE 0
Below(n, find) == {find[c] : c \in Scopes!Children(n)} \ {0}
Finds(find, rows) ==
    find = [n \in DOMAIN tree |-> FoundAt(n, Below(n, find), rows)]

\* The calls define what they find, as a node is entered before those below it.
LEMMA FindIsDefined ==
    ASSUME Scopes!AstAssumption, TreeSound, NEW rows
    PROVE  \E find : Finds(find, rows)
<1> DEFINE N == Len(tree)
           From(find, k) == \A n \in k .. N : find[n] = FoundAt(n, Below(n, find), rows)
           Defined(k) == \E find : find = [n \in 1 .. N |-> find[n]] /\ From(find, k)
           T == {j \in Nat : j <= N => Defined(N + 1 - j)}
<1>1. N \in Nat /\ DOMAIN tree = 1 .. N
  BY TreeFacts
<1>2. 0 \in T
  <2>1. From([n \in 1 .. N |-> 0], N + 1)
    BY <1>1
  <2>2. Defined(N + 1)
    <3> DEFINE none == [n \in 1 .. N |-> 0]
    <3>1. none = [n \in 1 .. N |-> none[n]] /\ From(none, N + 1)
      BY <2>1
    <3> HIDE DEF none, From
    <3> QED
      BY <3>1
  <2>3. N + 1 - 0 = N + 1
    BY <1>1
  <2> HIDE DEF Defined
  <2> QED
    BY <2>2, <2>3
<1>3. ASSUME NEW j \in Nat, j \in T PROVE j + 1 \in T
  <2> SUFFICES ASSUME j + 1 <= N PROVE Defined(N + 1 - (j + 1))
    OBVIOUS
  <2> DEFINE k == N - j
  <2>1. k \in 1 .. N /\ k \in Nat /\ N + 1 - (j + 1) = k /\ N + 1 - j = k + 1 /\ j <= N
    <3>1. N \in Nat /\ j + 1 <= N
      BY <1>1
    <3> HIDE DEF N
    <3> QED
      BY <3>1
  <2>2. Defined(k + 1)
    <3> HIDE DEF Defined, k
    <3> QED
      BY <1>3, <2>1
  <2> HIDE DEF k
  <2>3. PICK f : f = [n \in 1 .. N |-> f[n]] /\ From(f, k + 1)
    BY <2>2
  <2> DEFINE x == FoundAt(k, Below(k, f), rows)
             g == [n \in 1 .. N |-> IF n = k THEN x ELSE f[n]]
  <2>4. \A n \in 1 .. N : g[n] = IF n = k THEN x ELSE f[n]
    OBVIOUS
  <2>5. g = [n \in 1 .. N |-> g[n]]
    OBVIOUS
  <2> HIDE DEF g, x
  <2>6. ASSUME NEW n \in k .. N PROVE Below(n, g) = Below(n, f)
    <3>1. ASSUME NEW c \in Scopes!Children(n) PROVE g[c] = f[c]
      <4>1. c \in 1 .. N /\ tree[c].parent = n
        BY <1>1 DEF Scopes!Children
      <4>2. n \in 0 .. c - 1
        BY <4>1, TreeFacts
      <4>3. c # k
        BY <2>1, <4>1, <4>2
      <4> QED
        BY <2>4, <4>1, <4>3
    <3> QED
      BY <3>1 DEF Below
  <2>7. From(g, k)
    <3> SUFFICES ASSUME NEW n \in k .. N PROVE g[n] = FoundAt(n, Below(n, g), rows)
      OBVIOUS
    <3>1. CASE n = k
      BY <2>1, <2>4, <2>6, <3>1 DEF x
    <3>2. CASE n # k
      <4>1. n \in k + 1 .. N /\ n \in 1 .. N
        BY <1>1, <2>1, <3>2
      <4> QED
        BY <2>3, <2>4, <2>6, <3>2, <4>1
    <3> QED
      BY <3>1, <3>2
  <2>8. Defined(k)
    <3> HIDE DEF From
    <3> QED
      BY <2>5, <2>7
  <2> QED
    BY <2>1, <2>8
<1>4. Nat \subseteq T
  <2> HIDE DEF T
  <2> QED
    BY <1>2, <1>3, Inductive
<1>5. Defined(1)
  <2>1. N + 1 - N = 1 /\ N <= N /\ N \in Nat
    BY <1>1
  <2> HIDE DEF Defined, N
  <2>2. N \in T
    BY <1>4, <2>1
  <2> QED
    BY <2>1, <2>2
<1>6. PICK find : find = [n \in 1 .. N |-> find[n]] /\ From(find, 1)
  BY <1>5
<1>7. Finds(find, rows)
  BY <1>1, <1>6 DEF Finds
<1> QED
  BY <1>7

\* The search at the root gives what it finds there.
LEMMA InnermostIsFound ==
    ASSUME Scopes!AstAssumption, TreeSound, NEW rows
    PROVE  \E find : Finds(find, rows) /\ Scopes!Innermost(rows) = find[1]
<1> DEFINE chosen == CHOOSE find : Finds(find, rows)
<1>1. Finds(chosen, rows)
  BY FindIsDefined
<1>2. Scopes!Innermost(rows) = chosen[1]
  BY DEF Scopes!Innermost, Finds, FoundAt, Below
<1> HIDE DEF chosen
<1> QED
  BY <1>1, <1>2

\* Of some nodes the best is one of the shortest.
LEMMA BestIsShortest ==
    ASSUME Scopes!AstAssumption, TreeSound, NEW found \in SUBSET (1 .. Len(tree)), found # {}
    PROVE  /\ Scopes!Best(found) \in found
           /\ \A m \in found : Scopes!Span(Scopes!Best(found)) <= Scopes!Span(m)
<1> DEFINE shortest == {n \in found : \A m \in found : Scopes!Span(n) <= Scopes!Span(m)}
           spans == {Scopes!Span(n) : n \in found}
<1>1. \A n \in found : Scopes!Span(n) \in Nat /\ n \in Nat
  BY TreeFacts
<1>2. PICK s \in spans : \A t \in spans : s <= t
  <2>1. spans \in SUBSET Nat /\ spans # {}
    BY <1>1
  <2> HIDE DEF spans
  <2> QED
    BY <2>1, LeastOf
<1>3. shortest \in SUBSET Nat /\ shortest # {}
  <2>1. PICK n \in found : Scopes!Span(n) = s
    OBVIOUS
  <2>2. \A m \in found : Scopes!Span(n) <= Scopes!Span(m)
    BY <1>2, <2>1
  <2>3. n \in shortest
    BY <2>2
  <2> QED
    BY <1>1, <2>3
<1>4. PICK n \in shortest : \A m \in shortest : n <= m
  <2> HIDE DEF shortest
  <2> QED
    BY <1>3, LeastOf
<1>5. Scopes!Best(found) = CHOOSE b \in shortest : \A m \in shortest : b <= m
  BY DEF Scopes!Best
<1>6. Scopes!Best(found) \in shortest
  <2> HIDE DEF shortest
  <2> QED
    BY <1>4, <1>5
<1> QED
  BY <1>6

-----------------------------------------------------------------------------
\* Structural context: what the search finds.

\* What is found at a node is a scope below it, found there too; and if there is a
\* scope below it, one is found, and none is shorter.
FindsBest(find, rows, n) ==
    /\ find[n] # 0 =>
         /\ find[n] \in 1 .. Len(tree) /\ n \in Scopes!Path(find[n])
         /\ Scopes!IsScope(find[n], rows) /\ find[find[n]] = find[n]
    /\ \A m \in 1 .. Len(tree) : Scopes!IsScope(m, rows) /\ n \in Scopes!Path(m) =>
         find[n] # 0 /\ Scopes!Span(find[n]) <= Scopes!Span(m)

\* Rows of a hunk: the last one is not before the first.
Rows(rows) == rows.from \in Int /\ rows.to \in Int /\ rows.from <= rows.to

\* The search at a node finds the best, if it does so below.
LEMMA NodeFindsBest ==
    ASSUME Scopes!AstAssumption, TreeSound, NEW rows, Rows(rows), NEW find, Finds(find, rows),
           NEW n \in 1 .. Len(tree), \A c \in Scopes!Children(n) : FindsBest(find, rows, c)
    PROVE  FindsBest(find, rows, n)
<1> DEFINE N == Len(tree)
           found == Below(n, find)
<1>1. /\ N \in Nat /\ DOMAIN tree = 1 .. N
      /\ \A i \in 1 .. N : tree[i].parent \in 0 .. i - 1 /\ tree[i].from \in Nat /\ tree[i].to \in Nat
  BY TreeFacts
<1>2. find[n] = FoundAt(n, found, rows)
  BY <1>1 DEF Finds
<1>3. ASSUME NEW c \in Scopes!Children(n)
      PROVE  c \in 1 .. N /\ tree[c].parent = n /\ c # 1 /\ FindsBest(find, rows, c)
  <2>1. c \in 1 .. N /\ tree[c].parent = n
    BY <1>1 DEF Scopes!Children
  <2>2. c # 1
    BY <1>1, <2>1
  <2> QED
    BY <2>1, <2>2
<1>4. ASSUME NEW x \in found
      PROVE  \E c \in Scopes!Children(n) : x = find[c] /\ find[c] # 0
  BY DEF Below
<1>5. ASSUME NEW x \in found
      PROVE  /\ x \in 1 .. N /\ x # 0 /\ n \in Scopes!Path(x) /\ Scopes!IsScope(x, rows)
             /\ find[x] = x
  <2>1. PICK c \in Scopes!Children(n) : x = find[c] /\ find[c] # 0
    BY <1>4
  <2>2. /\ x \in 1 .. N /\ c \in Scopes!Path(x) /\ Scopes!IsScope(x, rows) /\ find[x] = x
    BY <1>3, <2>1 DEF FindsBest
  <2>3. n \in Scopes!Path(x)
    BY <1>3, <2>1, <2>2, PathIsAbove
  <2> QED
    BY <2>1, <2>2, <2>3
<1>6. ASSUME NEW m \in 1 .. N, Scopes!IsScope(m, rows), n \in Scopes!Path(m)
      PROVE  ~Scopes!Outside(n, rows)
  <2>1. tree[n].from <= tree[m].from /\ tree[m].to <= tree[n].to
    BY <1>6, PathIsAbove DEF Above
  <2>2. tree[m].from <= rows.from /\ tree[m].to >= rows.to
    BY <1>6 DEF Scopes!IsScope
  <2>3. tree[m].from \in Nat /\ tree[m].to \in Nat /\ tree[n].from \in Nat /\ tree[n].to \in Nat
    BY <1>1
  <2> QED
    BY <2>1, <2>2, <2>3, SMTT(30) DEF Scopes!Outside, Rows
<1>7. ASSUME NEW m \in 1 .. N, Scopes!IsScope(m, rows), n \in Scopes!Path(m), m # n
      PROVE  \E x \in found : Scopes!Span(x) <= Scopes!Span(m)
  <2>1. PICK c \in Scopes!Children(n) : c \in Scopes!Path(m)
    BY <1>7, PathIsAbove DEF Above
  <2>2. find[c] # 0 /\ Scopes!Span(find[c]) <= Scopes!Span(m)
    BY <1>3, <1>7, <2>1 DEF FindsBest
  <2>3. find[c] \in found
    BY <2>1, <2>2 DEF Below
  <2> QED
    BY <2>2, <2>3
<1> HIDE DEF found
<1>8. CASE Scopes!Outside(n, rows)
  <2>1. find[n] = 0
    BY <1>2, <1>8 DEF FoundAt
  <2> QED
    BY <1>6, <1>8, <2>1 DEF FindsBest
<1>9. CASE ~Scopes!Outside(n, rows) /\ found # {}
  <2> DEFINE b == Scopes!Best(found)
  <2>1. b \in found /\ \A x \in found : Scopes!Span(b) <= Scopes!Span(x)
    <3>1. found \in SUBSET (1 .. Len(tree))
      BY <1>5
    <3> QED
      BY <1>9, <3>1, BestIsShortest
  <2>2. find[n] = b
    BY <1>2, <1>9 DEF FoundAt
  <2> HIDE DEF b
  <2>3. b \in 1 .. N /\ b # 0 /\ n \in Scopes!Path(b) /\ Scopes!IsScope(b, rows) /\ find[b] = b
    BY <1>5, <2>1
  <2>4. ASSUME NEW m \in 1 .. N, Scopes!IsScope(m, rows), n \in Scopes!Path(m)
        PROVE  Scopes!Span(b) <= Scopes!Span(m)
    <3>1. CASE m = n
      BY <2>3, <3>1, PathIsAbove DEF Above
    <3>2. CASE m # n
      <4>1. PICK x \in found : Scopes!Span(x) <= Scopes!Span(m)
        BY <1>7, <2>4, <3>2
      <4>2. Scopes!Span(b) <= Scopes!Span(x)
        BY <2>1
      <4>3. Scopes!Span(b) \in Nat /\ Scopes!Span(x) \in Nat /\ Scopes!Span(m) \in Nat
        BY <1>5, <2>3, TreeFacts
      <4> QED
        BY <4>1, <4>2, <4>3
    <3> QED
      BY <3>1, <3>2
  <2> QED
    BY <2>2, <2>3, <2>4 DEF FindsBest
<1>10. CASE ~Scopes!Outside(n, rows) /\ found = {}
  <2>1. find[n] = IF Scopes!IsScope(n, rows) THEN n ELSE 0
    BY <1>2, <1>10 DEF FoundAt
  <2>2. n # 0 /\ n \in Scopes!Path(n) /\ Scopes!Span(n) \in Nat
    <3>1. n # 0
      BY <1>1
    <3>2. n \in Scopes!Path(n)
      BY PathIsAbove
    <3>3. Scopes!Span(n) \in Nat
      BY TreeFacts
    <3> QED
      BY <3>1, <3>2, <3>3
  <2>3. ASSUME NEW m \in 1 .. N, Scopes!IsScope(m, rows), n \in Scopes!Path(m) PROVE m = n
    BY <1>7, <1>10, <2>3
  <2> QED
    BY <2>1, <2>2, <2>3 DEF FindsBest
<1> QED
  BY <1>8, <1>9, <1>10

\* The search finds the best at every node.
LEMMA EachFindsBest ==
    ASSUME Scopes!AstAssumption, TreeSound, NEW rows, Rows(rows), NEW find, Finds(find, rows)
    PROVE  \A n \in 1 .. Len(tree) : FindsBest(find, rows, n)
<1> DEFINE N == Len(tree)
           T == {j \in Nat : \A n \in 1 .. N : n + j > N => FindsBest(find, rows, n)}
<1>1. /\ N \in Nat /\ DOMAIN tree = 1 .. N
      /\ \A i \in 1 .. N : tree[i].parent \in 0 .. i - 1
  BY TreeFacts
<1>2. 0 \in T
  <2>1. \A n \in 1 .. N : ~(n + 0 > N)
    BY <1>1
  <2> QED
    BY <2>1
<1>3. ASSUME NEW j \in Nat, j \in T PROVE j + 1 \in T
  <2> SUFFICES ASSUME NEW n \in 1 .. N, n + (j + 1) > N PROVE FindsBest(find, rows, n)
    OBVIOUS
  <2>1. ASSUME NEW c \in Scopes!Children(n) PROVE FindsBest(find, rows, c)
    <3>1. c \in 1 .. N /\ tree[c].parent = n
      BY <1>1 DEF Scopes!Children
    <3>2. n \in 0 .. c - 1
      BY <1>1, <3>1
    <3>3. c + j > N
      <4>1. N \in Nat
        BY <1>1
      <4> HIDE DEF N
      <4> QED
        BY <3>1, <3>2, <4>1
    <3> QED
      BY <1>3, <3>1, <3>3
  <2> QED
    BY <2>1, NodeFindsBest
<1>4. Nat \subseteq T
  <2> HIDE DEF T
  <2> QED
    BY <1>2, <1>3, Inductive
<1> SUFFICES ASSUME NEW n \in 1 .. N PROVE FindsBest(find, rows, n)
  OBVIOUS
<1>5. N \in T
  <2> HIDE DEF T
  <2> QED
    BY <1>1, <1>4
<1>6. n + N > N
  <2>1. N \in Nat /\ n \in Nat /\ n > 0
    BY <1>1
  <2> HIDE DEF N
  <2> QED
    BY <2>1
<1> QED
  BY <1>5, <1>6

\* The innermost scope is one, no scope is shorter, and none is inside.
LEMMA InnermostIsBest ==
    ASSUME Scopes!AstAssumption, TreeSound, NEW rows, Rows(rows)
    PROVE  LET s == Scopes!Innermost(rows)
               all == {n \in 1 .. Len(tree) : Scopes!IsScope(n, rows)}
           IN  /\ s = 0 <=> all = {}
               /\ s # 0 =>
                    /\ s \in all
                    /\ \A m \in all : /\ Scopes!Span(s) <= Scopes!Span(m)
                                      /\ s \in Scopes!Path(m) => m = s
<1> DEFINE N == Len(tree)
           all == {n \in 1 .. N : Scopes!IsScope(n, rows)}
<1>1. /\ N \in Nat /\ N >= 1 /\ DOMAIN tree = 1 .. N /\ 1 \in 1 .. N
      /\ \A i \in 1 .. N : tree[i].parent \in 0 .. i - 1
  BY TreeFacts
<1>2. PICK find : Finds(find, rows) /\ Scopes!Innermost(rows) = find[1]
  BY InnermostIsFound
<1>3. \A n \in 1 .. N : FindsBest(find, rows, n)
  BY <1>2, EachFindsBest
<1> DEFINE s == find[1]
<1>4. ASSUME NEW m \in all PROVE s # 0 /\ Scopes!Span(s) <= Scopes!Span(m)
  <2>1. 1 \in Scopes!Path(m)
    BY PathIsAbove
  <2> QED
    BY <1>1, <1>3, <2>1 DEF FindsBest
<1>5. s # 0 => s \in all /\ find[s] = s
  BY <1>1, <1>3 DEF FindsBest
<1> HIDE DEF s
<1>6. ASSUME s # 0, NEW m \in all, s \in Scopes!Path(m), m # s PROVE FALSE
  <2>1. s \in 1 .. N /\ find[s] = s
    BY <1>5, <1>6
  <2>2. PICK c \in Scopes!Children(s) : c \in Scopes!Path(m)
    BY <1>6, PathIsAbove DEF Above
  <2>3. c \in 1 .. N /\ tree[c].parent = s
    BY <1>1, <2>2 DEF Scopes!Children
  <2>4. find[c] # 0
    BY <1>3, <2>2, <2>3 DEF FindsBest
  <2> DEFINE found == Below(s, find)
  <2>5. found # {}
    BY <2>2, <2>4 DEF Below
  <2>6. ASSUME NEW x \in found PROVE x \in 1 .. N /\ x # s
    <3>1. PICK d \in Scopes!Children(s) : x = find[d] /\ find[d] # 0
      BY DEF Below
    <3>2. d \in 1 .. N /\ tree[d].parent = s
      BY <1>1, <3>1 DEF Scopes!Children
    <3>3. x \in 1 .. N /\ d \in Scopes!Path(x)
      BY <1>3, <3>1, <3>2 DEF FindsBest
    <3>4. d \in 1 .. x
      BY <3>3, PathIsAbove DEF Above
    <3>5. s \in 0 .. d - 1
      BY <1>1, <3>2
    <3> QED
      BY <3>3, <3>4, <3>5
  <2>7. Scopes!Best(found) \in found
    <3>1. found \in SUBSET (1 .. Len(tree))
      BY <2>6
    <3> HIDE DEF found
    <3> QED
      BY <2>5, <3>1, BestIsShortest
  <2>8. find[s] = FoundAt(s, found, rows)
    BY <1>1, <1>2, <2>1 DEF Finds
  <2> HIDE DEF found
  <2>9. find[s] = 0 \/ find[s] = Scopes!Best(found)
    BY <2>5, <2>8 DEF FoundAt
  <2> QED
    BY <1>6, <2>1, <2>6, <2>7, <2>9
<1> HIDE DEF all
<1>7. s = 0 <=> all = {}
  BY <1>4, <1>5
<1> QED
  BY <1>2, <1>4, <1>5, <1>6, <1>7 DEF s, all

-----------------------------------------------------------------------------
\* Structural context: the scopes of hunks.

\* The greater of two numbers.
LEMMA MaxOfTwo ==
    ASSUME NEW a \in Int, NEW b \in Int
    PROVE  Scopes!Max({a, b}) = IF a >= b THEN a ELSE b
<1> DEFINE m == IF a >= b THEN a ELSE b
           Greatest(x) == x \in {a, b} /\ \A y \in {a, b} : x >= y
<1>1. Greatest(m) /\ \A x : Greatest(x) => x = m
  OBVIOUS
<1>2. Scopes!Max({a, b}) = CHOOSE x : Greatest(x)
  BY DEF Scopes!Max
<1> HIDE DEF Greatest, m
<1>3. Greatest(CHOOSE x : Greatest(x))
  BY <1>1
<1> QED
  BY <1>1, <1>2, <1>3 DEF m

\* The rows that are searched for are the lines of the hunk, counted from 0.
LEMMA RowsAreLines ==
    ASSUME Scopes!AstAssumption, NEW h \in Scopes!Hunks
    PROVE  LET rows == Scopes!TargetRows(h)
           IN  Rows(rows) /\ Scopes!Lines(h) = rows.from + 1 .. rows.to + 1
<1> DEFINE rows == Scopes!TargetRows(h)
           first == h.start - 1
           last == h.start + Scopes!Max({h.count - 1, 0}) - 1
<1>1. h.start \in Nat /\ h.count \in Nat
  BY DEF Scopes!Hunks, Scopes!AstAssumption
<1>2. Scopes!Max({h.count - 1, 0}) = IF h.count > 0 THEN h.count - 1 ELSE 0
  <2>1. h.count - 1 \in Int /\ 0 \in Int /\ (h.count - 1 >= 0 <=> h.count > 0)
    BY <1>1
  <2> QED
    BY <2>1, MaxOfTwo
<1>3. Scopes!Max({h.count, 1}) = IF h.count > 0 THEN h.count ELSE 1
  <2>1. h.count \in Int /\ 1 \in Int /\ (h.count >= 1 <=> h.count > 0)
    BY <1>1
  <2> QED
    BY <2>1, MaxOfTwo
<1>4. first \in Int /\ last \in Int /\ first <= last
  BY <1>1, <1>2
<1>5. rows.from = first /\ rows.to = last
  <2>1. rows.from = first /\ rows.to = Scopes!Max({first, last})
    BY DEF Scopes!TargetRows
  <2> HIDE DEF first, last
  <2>2. Scopes!Max({first, last}) = last
    BY <1>4, MaxOfTwo
  <2> QED
    BY <2>1, <2>2
<1>6. Scopes!Lines(h) = first + 1 .. last + 1
  <2>1. first + 1 = h.start /\ last + 1 = h.start + Scopes!Max({h.count, 1}) - 1
    BY <1>1, <1>2, <1>3
  <2> QED
    BY <2>1 DEF Scopes!Lines
<1> HIDE DEF rows, first, last
<1> QED
  BY <1>4, <1>5, <1>6 DEF rows, Rows

\* The definitions around a hunk are the scopes of its rows.
LEMMA AroundAreScopes ==
    ASSUME Scopes!AstAssumption, TreeSound, NEW h \in Scopes!Hunks
    PROVE  Scopes!Around(h) =
             {n \in 1 .. Len(tree) : Scopes!IsScope(n, Scopes!TargetRows(h))}
<1> DEFINE rows == Scopes!TargetRows(h)
<1>1. Rows(rows) /\ Scopes!Lines(h) = rows.from + 1 .. rows.to + 1
  BY RowsAreLines
<1>2. DOMAIN tree = 1 .. Len(tree) /\ \A n \in 1 .. Len(tree) : tree[n].from \in Nat /\ tree[n].to \in Nat
  BY TreeFacts
<1> HIDE DEF rows
<1>3. ASSUME NEW a \in Nat, NEW b \in Nat
      PROVE  (rows.from + 1 .. rows.to + 1) \subseteq (a + 1 .. b + 1) <=> a <= rows.from /\ b >= rows.to
  <2> DEFINE x == rows.from
             y == rows.to
  <2>1. x \in Int /\ y \in Int /\ x <= y
    BY <1>1 DEF Rows
  <2> HIDE DEF x, y
  <2>2. ASSUME (x + 1 .. y + 1) \subseteq (a + 1 .. b + 1) PROVE a <= x /\ b >= y
    <3>1. x + 1 \in x + 1 .. y + 1 /\ y + 1 \in x + 1 .. y + 1
      BY <2>1
    <3>2. x + 1 \in a + 1 .. b + 1 /\ y + 1 \in a + 1 .. b + 1
      BY <2>2, <3>1
    <3> QED
      BY <2>1, <3>2
  <2>3. ASSUME a <= x, b >= y PROVE (x + 1 .. y + 1) \subseteq (a + 1 .. b + 1)
    BY <2>1, <2>3
  <2> QED
    BY <2>2, <2>3 DEF x, y
<1>4. ASSUME NEW n \in 1 .. Len(tree)
      PROVE  Scopes!Lines(h) \subseteq tree[n].from + 1 .. tree[n].to + 1 <=>
               tree[n].from <= rows.from /\ tree[n].to >= rows.to
  BY <1>1, <1>2, <1>3
<1> QED
  BY <1>2, <1>4 DEF Scopes!Around, Scopes!IsScope, rows

\* The name of a scope is that of a definition: its own or, where it is decorated,
\* the one that is.
LEMMA NamesAreDefinitions ==
    ASSUME Scopes!AstAssumption, TreeSound, NEW n \in 1 .. Len(tree), tree[n].type # "other"
    PROVE  LET name == Scopes!NameOf(n)
           IN  /\ name \in 1 .. Len(tree) /\ tree[name].type \in Scopes!Definitions
               /\ name \in {n} \cup Scopes!Children(n)
<1> DEFINE name == Scopes!NameOf(n)
<1>1. tree[n] \in Scopes!Node /\ DOMAIN tree = 1 .. Len(tree) /\ Len(tree) \in Nat
  BY TreeFacts
<1>2. CASE tree[n].type = "decorated"
  <2> DEFINE Decorated(c) == c \in Scopes!Children(n) /\ tree[c].type \in Scopes!Definitions
  <2>1. Decorated(n + 1)
    <3>1. n + 1 <= Len(tree) /\ tree[n + 1].parent = n /\ tree[n + 1].type \in Scopes!Definitions
      BY <1>2 DEF TreeSound
    <3>2. n + 1 \in DOMAIN tree
      BY <1>1, <3>1
    <3> QED
      BY <3>1, <3>2 DEF Scopes!Children
  <2>2. name = CHOOSE c : Decorated(c)
    BY <1>2 DEF Scopes!NameOf
  <2> HIDE DEF Decorated, name
  <2>3. Decorated(name)
    BY <2>1, <2>2
  <2> QED
    BY <1>1, <2>3 DEF Decorated, name, Scopes!Children
<1>3. CASE tree[n].type # "decorated"
  BY <1>1, <1>3 DEF Scopes!NameOf, Scopes!Node, Scopes!Definitions
<1> QED
  BY <1>2, <1>3

\* What ScopeTrue and the types ask of the scope of a hunk.
ScopeFine(h, scope) ==
    /\ scope # Scopes!NoScope => scope \in Scopes!ScopeContext
    /\ scope # Scopes!NoScope =>
         /\ scope.node \in Scopes!Around(h)
         /\ Scopes!Lines(h) \subseteq scope.start_line .. scope.end_line
         /\ \A n \in Scopes!Around(h) :
              /\ Scopes!Span(scope.node) <= Scopes!Span(n)
              /\ scope.node \in Scopes!Path(n) => n = scope.node
         /\ tree[scope.name].type \in Scopes!Definitions
         /\ scope.name \in {scope.node} \cup Scopes!Children(scope.node)

\* The scope that is found for a hunk is as it should be.
LEMMA EnclosingIsFine ==
    ASSUME Scopes!AstAssumption, TreeSound, NEW h \in Scopes!Hunks
    PROVE  /\ ScopeFine(h, Scopes!EnclosingScope(h))
           /\ Scopes!EnclosingScope(h) = Scopes!NoScope <=> Scopes!Around(h) = {}
<1> DEFINE rows == Scopes!TargetRows(h)
           s == Scopes!Innermost(rows)
           around == Scopes!Around(h)
           scope == Scopes!EnclosingScope(h)
<1>1. Rows(rows)
  BY RowsAreLines
<1>2. around = {n \in 1 .. Len(tree) : Scopes!IsScope(n, rows)}
  BY AroundAreScopes
<1> HIDE DEF around
<1>3. /\ s = 0 <=> around = {}
      /\ s # 0 => /\ s \in around
                  /\ \A m \in around : /\ Scopes!Span(s) <= Scopes!Span(m)
                                       /\ s \in Scopes!Path(m) => m = s
  <2> HIDE DEF rows
  <2> QED
    BY <1>1, <1>2, InnermostIsBest
<1>4. scope = IF s = 0 THEN Scopes!NoScope ELSE Scopes!BuildScopeContext(s)
  BY DEF Scopes!EnclosingScope
<1> HIDE DEF s, scope, rows
<1>5. CASE s = 0
  BY <1>3, <1>4, <1>5 DEF ScopeFine, scope, around
<1>6. CASE s # 0
  <2>1. /\ scope = Scopes!BuildScopeContext(s) /\ s \in around /\ around # {}
        /\ s \in 1 .. Len(tree) /\ Scopes!IsScope(s, rows)
    BY <1>2, <1>3, <1>4, <1>6
  <2> DEFINE name == Scopes!NameOf(s)
             kind == Scopes!Kind(s)
             signature == Scopes!Signature(s)
  <2>2. scope = [node |-> s, kind |-> kind, name |-> name, signature |-> signature,
                 start_line |-> tree[s].from + 1, end_line |-> tree[s].to + 1]
    BY <2>1 DEF Scopes!BuildScopeContext
  <2>3. /\ tree[s].type # "other" /\ tree[s] \in Scopes!Node
        /\ tree[s].from \in 0 .. MaxRow /\ tree[s].to \in 0 .. MaxRow
        /\ tree[s].body \in 0 .. MaxRow \cup {-1}
    <3>1. tree[s] \in Scopes!Node
      BY <2>1, TreeFacts
    <3> QED
      BY <2>1, <3>1 DEF Scopes!IsScope, Scopes!Node, Scopes!Row, Scopes!NoBody
  <2>4. /\ name \in 1 .. Len(tree) /\ tree[name].type \in Scopes!Definitions
        /\ name \in {s} \cup Scopes!Children(s)
    BY <2>1, <2>3, NamesAreDefinitions
  <2>5. kind \in Scopes!Definitions
    BY DEF Scopes!Kind, Scopes!Definitions
  <2>6. signature \in SUBSET Scopes!Row
    <3>1. MaxRow \in Nat
      BY DEF Scopes!AstAssumption
    <3>2. CASE tree[s].body = -1
      BY <2>3, <3>1, <3>2 DEF Scopes!Signature, Scopes!Row, Scopes!NoBody
    <3>3. CASE tree[s].body \in 0 .. MaxRow
      BY <2>3, <3>1, <3>3 DEF Scopes!Signature, Scopes!Row, Scopes!NoBody
    <3> QED
      BY <2>3, <3>2, <3>3
  <2> HIDE DEF name, kind, signature
  <2>7. scope.node = s /\ scope.name = name /\ scope.start_line = tree[s].from + 1
        /\ scope.end_line = tree[s].to + 1
    BY <2>2
  <2>8. scope \in Scopes!ScopeContext
    <3>1. s \in 1 .. MaxNodes /\ name \in 1 .. MaxNodes
      <4>1. Len(tree) \in 1 .. MaxNodes /\ MaxNodes \in Nat
        BY DEF TreeSound, Scopes!AstAssumption
      <4> QED
        BY <2>1, <2>4, <4>1
    <3>2. tree[s].from + 1 \in 1 .. MaxRow + 1 /\ tree[s].to + 1 \in 1 .. MaxRow + 1
      BY <2>3 DEF Scopes!AstAssumption
    <3> QED
      BY <2>2, <2>5, <2>6, <3>1, <3>2 DEF Scopes!ScopeContext
  <2>9. scope # Scopes!NoScope
    BY <1>6, <2>7 DEF Scopes!NoScope
  <2>10. Scopes!Lines(h) \subseteq scope.start_line .. scope.end_line
    BY <2>1, <2>7 DEF around, Scopes!Around
  <2> QED
    BY <1>3, <1>6, <2>1, <2>4, <2>7, <2>8, <2>9, <2>10 DEF ScopeFine, scope, around
<1> QED
  BY <1>5, <1>6

-----------------------------------------------------------------------------
\* Structural context: the invariant.

\* Until the hunks are extended they have no scope; then each has the scope that is
\* found for it, or none if the call is cut short.
ScopeInv ==
    /\ TreeSound
    /\ extension \in {"parsing", "extended", "skipped", "raised"}
    /\ DOMAIN enclosing = Scopes!Hunks
    /\ \A h \in Scopes!Hunks : enclosing[h] \in {Scopes!NoScope, Scopes!EnclosingScope(h)}
    /\ extension = "parsing" => \A h \in Scopes!Hunks : enclosing[h] = Scopes!NoScope
    /\ extension = "extended" => \A h \in Scopes!Hunks : enclosing[h] = Scopes!EnclosingScope(h)

\* A file has a root.
LEMMA ScopesInitially ==
    ASSUME Scopes!AstAssumption, Scopes!Init
    PROVE  ScopeInv
<1> DEFINE root == [parent |-> 0, from |-> 0, to |-> MaxRow, body |-> Scopes!NoBody, type |-> "other"]
<1>1. root \in Scopes!Node /\ root.parent = 0 /\ root.from <= root.to /\ root.type = "other"
  BY DEF Scopes!AstAssumption, Scopes!Node, Scopes!Row, Scopes!NoBody
<1>2. tree = <<root>>
  BY DEF Scopes!Init
<1> HIDE DEF root
<1>3. tree \in Seq(Scopes!Node) /\ Len(tree) = 1 /\ tree[1] = root
  BY <1>1, <1>2
<1>4. TreeSound
  <2>1. 1 \in 1 .. MaxNodes
    BY DEF Scopes!AstAssumption
  <2> QED
    BY <1>1, <1>3, <2>1 DEF TreeSound
<1>5. /\ DOMAIN enclosing = Scopes!Hunks /\ extension = "parsing"
      /\ \A h \in Scopes!Hunks : enclosing[h] = Scopes!NoScope
  BY DEF Scopes!Init
<1> QED
  BY <1>4, <1>5 DEF ScopeInv

\* A node below another one keeps the tree sound.
LEMMA NodeKeeps ==
    ASSUME Scopes!AstAssumption, TreeSound, Len(tree) < MaxNodes, NEW new \in Scopes!Node,
           new.type # "decorated", new.from <= new.to, new.parent \in 1 .. Len(tree),
           tree[new.parent].from <= new.from, new.to <= tree[new.parent].to,
           tree' = Append(tree, new)
    PROVE  TreeSound'
<1> DEFINE N == Len(tree)
<1>1. N \in Nat /\ N >= 1 /\ tree \in Seq(Scopes!Node)
  BY TreeFacts DEF TreeSound
<1>2. /\ tree' \in Seq(Scopes!Node) /\ Len(tree') = N + 1 /\ tree'[N + 1] = new
      /\ \A n \in 1 .. N : tree'[n] = tree[n]
  BY <1>1, AppendProperties
<1>3. N + 1 \in 1 .. MaxNodes
  BY <1>1 DEF Scopes!AstAssumption
<1>4. /\ tree[1].parent = 0
      /\ \A n \in 1 .. N : tree[n].from <= tree[n].to
      /\ \A n \in 2 .. N : /\ tree[n].parent \in 1 .. n - 1
                           /\ tree[tree[n].parent].from <= tree[n].from
                           /\ tree[n].to <= tree[tree[n].parent].to
      /\ \A n \in 1 .. N : tree[n].type = "decorated" =>
           n + 1 <= N /\ tree[n + 1].parent = n /\ tree[n + 1].type \in Scopes!Definitions
  BY DEF TreeSound
<1> HIDE DEF N
<1>5. tree'[1].parent = 0
  BY <1>1, <1>2, <1>4
<1>6. ASSUME NEW n \in 1 .. N + 1 PROVE tree'[n].from <= tree'[n].to
  <2>1. n \in 1 .. N \/ n = N + 1
    BY <1>1
  <2> QED
    BY <1>2, <1>4, <2>1
<1>7. ASSUME NEW n \in 2 .. N + 1
      PROVE  LET p == tree'[n].parent
             IN  p \in 1 .. n - 1 /\ tree'[p].from <= tree'[n].from /\ tree'[n].to <= tree'[p].to
  <2>1. CASE n = N + 1
    <3>1. new.parent \in 1 .. N /\ n - 1 = N
      BY <1>1, <2>1 DEF N
    <3> QED
      BY <1>2, <2>1, <3>1
  <2>2. CASE n # N + 1
    <3>1. n \in 1 .. N /\ n \in 2 .. N
      BY <1>1, <2>2
    <3> DEFINE p == tree[n].parent
    <3>2. p \in 1 .. n - 1 /\ tree[p].from <= tree[n].from /\ tree[n].to <= tree[p].to
      BY <1>4, <3>1
    <3>3. p \in 1 .. N
      BY <1>1, <3>1, <3>2
    <3> QED
      BY <1>2, <3>1, <3>2, <3>3
  <2> QED
    BY <2>1, <2>2
<1>8. ASSUME NEW n \in 1 .. N + 1, tree'[n].type = "decorated"
      PROVE  /\ n + 1 <= N + 1 /\ tree'[n + 1].parent = n
             /\ tree'[n + 1].type \in Scopes!Definitions
  <2>1. n \in 1 .. N
    <3>1. n # N + 1
      BY <1>2, <1>8
    <3> QED
      BY <1>1, <3>1
  <2>2. n + 1 <= N /\ tree[n + 1].parent = n /\ tree[n + 1].type \in Scopes!Definitions
    BY <1>2, <1>4, <1>8, <2>1
  <2>3. n + 1 \in 1 .. N
    BY <1>1, <2>1, <2>2
  <2> QED
    BY <1>1, <1>2, <2>1, <2>2, <2>3
<1> QED
  BY <1>2, <1>3, <1>5, <1>6, <1>7, <1>8 DEF TreeSound

\* What a sequence is after two more elements.
LEMMA TwoMore ==
    ASSUME NEW S, NEW s \in Seq(S), NEW a \in S, NEW b \in S
    PROVE  /\ s \o <<a, b>> \in Seq(S) /\ Len(s \o <<a, b>>) = Len(s) + 2
           /\ (s \o <<a, b>>)[Len(s) + 1] = a /\ (s \o <<a, b>>)[Len(s) + 2] = b
           /\ \A n \in 1 .. Len(s) : (s \o <<a, b>>)[n] = s[n]
<1> DEFINE t == Append(s, a)
<1>1. s \o <<a, b>> = Append(t, b)
  OBVIOUS
<1>2. t \in Seq(S) /\ Len(t) = Len(s) + 1 /\ t[Len(s) + 1] = a /\ Len(s) \in Nat
      /\ \A n \in 1 .. Len(s) : t[n] = s[n]
  OBVIOUS
<1> HIDE DEF t
<1>3. Append(t, b) \in Seq(S) /\ Len(Append(t, b)) = Len(t) + 1 /\ Append(t, b)[Len(t) + 1] = b
      /\ \A n \in 1 .. Len(t) : Append(t, b)[n] = t[n]
  BY <1>2, AppendProperties
<1>4. /\ Len(t) + 1 = Len(s) + 2 /\ Len(s) + 1 \in 1 .. Len(t)
      /\ \A n \in 1 .. Len(s) : n \in 1 .. Len(t)
  BY <1>2
<1> QED
  BY <1>1, <1>2, <1>3, <1>4

\* A decorator and what it decorates keep the tree sound.
LEMMA DecoratedKeeps ==
    ASSUME Scopes!AstAssumption, TreeSound, Len(tree) + 1 < MaxNodes,
           NEW a \in Scopes!Node, NEW b \in Scopes!Node, a.from <= a.to, b.from <= b.to,
           a.type = "decorated", a.parent \in 1 .. Len(tree),
           tree[a.parent].from <= a.from, a.to <= tree[a.parent].to,
           b.parent = Len(tree) + 1, b.type \in Scopes!Definitions,
           a.from <= b.from, b.to <= a.to,
           tree' = tree \o <<a, b>>
    PROVE  TreeSound'
<1> DEFINE N == Len(tree)
<1>1. N \in Nat /\ N >= 1 /\ tree \in Seq(Scopes!Node)
  BY TreeFacts DEF TreeSound
<1>2. /\ tree' \in Seq(Scopes!Node) /\ Len(tree') = N + 2 /\ tree'[N + 1] = a /\ tree'[N + 2] = b
      /\ \A n \in 1 .. N : tree'[n] = tree[n]
  <2>1. tree \in Seq(Scopes!Node)
    BY <1>1
  <2> QED
    BY <2>1, TwoMore
<1>3. N + 2 \in 1 .. MaxNodes
  BY <1>1 DEF Scopes!AstAssumption
<1>4. /\ tree[1].parent = 0
      /\ \A n \in 1 .. N : tree[n].from <= tree[n].to
      /\ \A n \in 2 .. N : /\ tree[n].parent \in 1 .. n - 1
                           /\ tree[tree[n].parent].from <= tree[n].from
                           /\ tree[n].to <= tree[tree[n].parent].to
      /\ \A n \in 1 .. N : tree[n].type = "decorated" =>
           n + 1 <= N /\ tree[n + 1].parent = n /\ tree[n + 1].type \in Scopes!Definitions
  BY DEF TreeSound
<1>5. a.parent \in 1 .. N /\ b.parent = N + 1
  OBVIOUS
<1>6. ASSUME NEW n \in 1 .. N + 2 PROVE n \in 1 .. N \/ n = N + 1 \/ n = N + 2
  BY <1>1
<1> HIDE DEF N
<1>7. tree'[1].parent = 0
  BY <1>1, <1>2, <1>4
<1>8. ASSUME NEW n \in 1 .. N + 2 PROVE tree'[n].from <= tree'[n].to
  BY <1>2, <1>4, <1>6
<1>9. ASSUME NEW n \in 2 .. N + 2
      PROVE  LET p == tree'[n].parent
             IN  p \in 1 .. n - 1 /\ tree'[p].from <= tree'[n].from /\ tree'[n].to <= tree'[p].to
  <2>1. CASE n = N + 1
    <3>0. n - 1 = N
      BY <1>1, <2>1
    <3>1. tree'[n] = a /\ tree'[a.parent] = tree[a.parent]
      BY <1>2, <1>5, <2>1
    <3> QED
      BY <1>5, <3>0, <3>1 DEF N
  <2>2. CASE n = N + 2
    <3>1. n - 1 = N + 1 /\ N + 1 \in 1 .. N + 1 /\ tree'[n] = b
      BY <1>1, <1>2, <2>2
    <3> QED
      BY <1>2, <1>5, <3>1
  <2>3. CASE n # N + 1 /\ n # N + 2
    <3>1. n \in 1 .. N /\ n \in 2 .. N
      BY <1>1, <2>3
    <3> DEFINE p == tree[n].parent
    <3>2. p \in 1 .. n - 1 /\ tree[p].from <= tree[n].from /\ tree[n].to <= tree[p].to
      BY <1>4, <3>1
    <3>3. p \in 1 .. N
      BY <1>1, <3>1, <3>2
    <3> QED
      BY <1>2, <3>1, <3>2, <3>3
  <2> QED
    BY <2>1, <2>2, <2>3
<1>10. ASSUME NEW n \in 1 .. N + 2, tree'[n].type = "decorated"
       PROVE  /\ n + 1 <= N + 2 /\ tree'[n + 1].parent = n
              /\ tree'[n + 1].type \in Scopes!Definitions
  <2>1. CASE n \in 1 .. N
    <3>1. n + 1 <= N /\ tree[n + 1].parent = n /\ tree[n + 1].type \in Scopes!Definitions
      BY <1>2, <1>4, <1>10, <2>1
    <3>2. n + 1 \in 1 .. N
      BY <1>1, <2>1, <3>1
    <3> QED
      BY <1>1, <1>2, <3>1, <3>2
  <2>2. CASE n = N + 1
    <3>1. n + 1 = N + 2 /\ n + 1 <= N + 2
      BY <1>1, <2>2
    <3>2. tree'[n + 1] = b
      BY <1>2, <3>1
    <3> QED
      BY <1>5, <2>2, <3>1, <3>2
  <2>3. CASE n = N + 2
    BY <1>2, <1>10, <2>3 DEF Scopes!Definitions
  <2> QED
    BY <1>6, <2>1, <2>2, <2>3
<1> QED
  BY <1>2, <1>3, <1>7, <1>8, <1>9, <1>10 DEF TreeSound

\* A tree is only read once it is parsed, and until then the hunks have no scope.
LEMMA ParsingKeeps ==
    ASSUME ScopeInv, TreeSound', extension = "parsing",
           extension' = extension, enclosing' = enclosing
    PROVE  ScopeInv'
<1>1. \A h \in Scopes!Hunks : enclosing[h] = Scopes!NoScope
  BY DEF ScopeInv
<1> QED
  BY <1>1 DEF ScopeInv

\* Every step keeps the invariant.
LEMMA ScopesKeep ==
    ASSUME Scopes!AstAssumption, ScopeInv, [Scopes!Next]_(Scopes!vars)
    PROVE  ScopeInv'
<1>1. TreeSound /\ MaxRow \in Nat /\ MaxNodes \in Nat
  BY DEF ScopeInv, Scopes!AstAssumption
<1>2. DOMAIN tree = 1 .. Len(tree) /\ Len(tree) \in Nat
      /\ \A n \in 1 .. Len(tree) : tree[n].from \in Nat /\ tree[n].to \in Nat
  BY <1>1, TreeFacts
<1>3. CASE Scopes!AddNode
  <2>01. PICK parent \in 1 .. Len(tree), from \in Scopes!Row, to \in Scopes!Row,
              type \in Scopes!Definitions \cup {"other"} :
           \E body \in IF type = "other" THEN {Scopes!NoBody} ELSE {Scopes!NoBody, from, from + 1} :
             /\ from <= to /\ body <= to /\ Scopes!Room(parent, from, to)
             /\ tree' = Append(tree, Scopes!Made(parent, from, to, body, type))
    BY <1>2, <1>3 DEF Scopes!AddNode
  <2>02. PICK body \in {Scopes!NoBody, from, from + 1} :
           /\ from <= to /\ body <= to /\ Scopes!Room(parent, from, to)
           /\ tree' = Append(tree, Scopes!Made(parent, from, to, body, type))
    BY <2>01
  <2>1. /\ body \in {Scopes!NoBody, from, from + 1}
        /\ from <= to /\ body <= to /\ Scopes!Room(parent, from, to)
        /\ tree' = Append(tree, Scopes!Made(parent, from, to, body, type))
    BY <2>02
  <2> DEFINE new == Scopes!Made(parent, from, to, body, type)
  <2>2. new \in Scopes!Node /\ new.type # "decorated" /\ new.from <= new.to
        /\ new.parent = parent /\ new.from = from /\ new.to = to
    <3>1. parent \in 0 .. MaxNodes
      BY <1>1, <1>2 DEF TreeSound
    <3>2. body \in Scopes!Row \cup {Scopes!NoBody}
      BY <1>1, <2>1 DEF Scopes!Row, Scopes!NoBody
    <3> QED
      BY <2>1, <3>1, <3>2 DEF Scopes!Made, Scopes!Node, Scopes!Definitions
  <2>3. /\ extension = "parsing" /\ tree[parent].from <= from /\ to <= tree[parent].to
        /\ Len(tree) < MaxNodes /\ extension' = extension /\ enclosing' = enclosing
    BY <1>3, <2>1 DEF Scopes!Room, Scopes!AddNode
  <2> HIDE DEF new
  <2>4. TreeSound'
    BY <1>1, <2>1, <2>2, <2>3, NodeKeeps DEF new
  <2> QED
    BY <2>3, <2>4, ParsingKeeps
<1>4. CASE Scopes!AddDecorated
  <2>01. PICK parent \in 1 .. Len(tree), from \in Scopes!Row, to \in Scopes!Row,
              type \in Scopes!Definitions :
           \E body \in {from + 1, from + 2} :
             /\ from < to /\ body <= to /\ Scopes!Room(parent, from, to)
             /\ tree' = tree \o << Scopes!Made(parent, from, to, Scopes!NoBody, "decorated"),
                                   Scopes!Made(Len(tree) + 1, from + 1, to, body, type) >>
    BY <1>2, <1>4 DEF Scopes!AddDecorated
  <2>1. PICK body \in {from + 1, from + 2} :
          /\ from < to /\ body <= to /\ Scopes!Room(parent, from, to)
          /\ tree' = tree \o << Scopes!Made(parent, from, to, Scopes!NoBody, "decorated"),
                                Scopes!Made(Len(tree) + 1, from + 1, to, body, type) >>
    BY <2>01
  <2> DEFINE a == Scopes!Made(parent, from, to, Scopes!NoBody, "decorated")
             b == Scopes!Made(Len(tree) + 1, from + 1, to, body, type)
  <2>2. /\ extension = "parsing" /\ tree[parent].from <= from /\ to <= tree[parent].to
        /\ Len(tree) + 1 < MaxNodes /\ extension' = extension /\ enclosing' = enclosing
    BY <1>4, <2>1 DEF Scopes!Room, Scopes!AddDecorated
  <2>3. from \in Nat /\ to \in Nat /\ from <= to /\ from + 1 <= to /\ from <= from + 1
    BY <1>1, <2>1 DEF Scopes!Row
  <2>4. a \in Scopes!Node /\ a.type = "decorated" /\ a.from = from /\ a.to = to /\ a.parent = parent
    <3>1. parent \in 0 .. MaxNodes
      BY <1>1, <1>2 DEF TreeSound
    <3> QED
      BY <3>1 DEF Scopes!Made, Scopes!Node, Scopes!NoBody
  <2>5. b \in Scopes!Node /\ b.type = type /\ b.from = from + 1 /\ b.to = to /\ b.parent = Len(tree) + 1
    <3>1. Len(tree) + 1 \in 0 .. MaxNodes
      BY <1>1, <1>2, <2>2
    <3>2. from + 1 \in Scopes!Row /\ body \in Scopes!Row
      BY <1>1, <2>1, <2>3 DEF Scopes!Row
    <3> QED
      BY <3>1, <3>2 DEF Scopes!Made, Scopes!Node
  <2>6. tree' = tree \o <<a, b>>
    BY <2>1
  <2> HIDE DEF a, b
  <2>8. /\ a.from <= a.to /\ b.from <= b.to /\ a.parent \in 1 .. Len(tree)
        /\ tree[a.parent].from <= a.from /\ a.to <= tree[a.parent].to
        /\ b.type \in Scopes!Definitions /\ a.from <= b.from /\ b.to <= a.to
    <3>1. to <= to
      BY <2>3
    <3> QED
      BY <2>2, <2>3, <2>4, <2>5, <3>1
  <2>7. TreeSound'
    BY <1>1, <2>2, <2>4, <2>5, <2>6, <2>8, DecoratedKeeps
  <2> QED
    BY <2>2, <2>7, ParsingKeeps
<1>5. ASSUME tree' = tree
      PROVE  /\ TreeSound'
             /\ \A h \in Scopes!Hunks : Scopes!EnclosingScope(h)' = Scopes!EnclosingScope(h)
  <2>1. TreeSound'
    BY <1>1, <1>5 DEF TreeSound
  <2>2. ASSUME NEW h \in Scopes!Hunks PROVE Scopes!EnclosingScope(h)' = Scopes!EnclosingScope(h)
    BY <1>5 DEF Scopes!EnclosingScope, Scopes!Innermost, Scopes!TargetRows, Scopes!BuildScopeContext,
       Scopes!Kind, Scopes!NameOf, Scopes!Signature, Scopes!Outside, Scopes!IsScope, Scopes!Best,
       Scopes!Span, Scopes!Children
  <2> QED
    BY <2>1, <2>2
<1>6. CASE Scopes!Extend
  <2>1. /\ tree' = tree /\ extension' = "extended"
        /\ enclosing' = [h \in Scopes!Hunks |-> Scopes!EnclosingScope(h)]
    BY <1>6 DEF Scopes!Extend
  <2> QED
    BY <1>5, <2>1 DEF ScopeInv
<1>7. CASE Scopes!Raise
  <2>1. /\ tree' = tree /\ extension' = "raised" /\ DOMAIN enclosing' = Scopes!Hunks
        /\ \A h \in Scopes!Hunks : enclosing'[h] \in {Scopes!NoScope, Scopes!EnclosingScope(h)}
    BY <1>7 DEF Scopes!Raise
  <2> QED
    BY <1>5, <2>1 DEF ScopeInv
<1>8. CASE Scopes!Skip
  <2>1. tree' = tree /\ extension' = "skipped" /\ enclosing' = enclosing
    BY <1>8 DEF Scopes!Skip
  <2> QED
    BY <1>5, <2>1 DEF ScopeInv
<1>9. CASE UNCHANGED Scopes!vars
  <2>1. tree' = tree /\ extension' = extension /\ enclosing' = enclosing
    BY <1>9 DEF Scopes!vars
  <2> QED
    BY <1>5, <2>1 DEF ScopeInv
<1> QED
  BY <1>3, <1>4, <1>6, <1>7, <1>8, <1>9 DEF Scopes!Next

\* The invariant holds in every behaviour of the structural context.
LEMMA ScopesInvariant ==
    ASSUME Scopes!AstAssumption
    PROVE  Scopes!Spec => []ScopeInv
<1>1. Scopes!Init => ScopeInv
  BY ScopesInitially
<1>2. ScopeInv /\ [Scopes!Next]_(Scopes!vars) => ScopeInv'
  BY ScopesKeep
<1> QED
  BY <1>1, <1>2, PTL DEF Scopes!Spec

\* The variables of the structural context have their types: trees are of nodes, and
\* each hunk has no scope or a ScopeContext with its lines within the file.
THEOREM ScopesTypeCorrect ==
    ASSUME Scopes!AstAssumption
    PROVE  Scopes!Spec => []Scopes!TypeOK
<1>1. ASSUME ScopeInv PROVE Scopes!TypeOK
  <2>1. TreeSound
    BY <1>1 DEF ScopeInv
  <2>2. Len(tree) \in 1 .. MaxNodes /\ \A n \in DOMAIN tree : tree[n] \in Scopes!Node
    BY <2>1, TreeFacts DEF TreeSound
  <2>3. ASSUME NEW h \in Scopes!Hunks
        PROVE  enclosing[h] = Scopes!NoScope \/ enclosing[h] \in Scopes!ScopeContext
    <3>1. enclosing[h] \in {Scopes!NoScope, Scopes!EnclosingScope(h)}
      BY <1>1 DEF ScopeInv
    <3> QED
      BY <2>1, <3>1, EnclosingIsFine DEF ScopeFine
  <2> QED
    BY <1>1, <2>2, <2>3 DEF ScopeInv, Scopes!TypeOK
<1> QED
  BY <1>1, ScopesInvariant, PTL

\* The scope of a hunk is a definition around it, with none shorter and none inside,
\* under the name of a definition; where no call is cut short, a hunk has none only
\* if nothing is around it: _find_innermost_scope() finds the best in any tree.
THEOREM ScopesAreTrue ==
    ASSUME Scopes!AstAssumption
    PROVE  Scopes!Spec => []ScopeTrue
<1>1. ASSUME ScopeInv PROVE ScopeTrue
  <2>1. TreeSound
    BY <1>1 DEF ScopeInv
  <2> SUFFICES ASSUME NEW h \in Scopes!Hunks
               PROVE  /\ extension = "extended" =>
                           (enclosing[h] = Scopes!NoScope <=> Scopes!Around(h) = {})
                      /\ ScopeFine(h, enclosing[h])
    BY DEF ScopeTrue, Scopes!ScopeTrue, ScopeFine
  <2>2. /\ ScopeFine(h, Scopes!EnclosingScope(h))
        /\ Scopes!EnclosingScope(h) = Scopes!NoScope <=> Scopes!Around(h) = {}
    BY <2>1, EnclosingIsFine
  <2>3. ScopeFine(h, Scopes!NoScope)
    BY DEF ScopeFine
  <2>4. /\ enclosing[h] \in {Scopes!NoScope, Scopes!EnclosingScope(h)}
        /\ extension = "extended" => enclosing[h] = Scopes!EnclosingScope(h)
    BY <1>1 DEF ScopeInv
  <2> QED
    BY <2>2, <2>3, <2>4
<1> QED
  BY <1>1, ScopesInvariant, PTL

-----------------------------------------------------------------------------
\* Slash commands.

\* The line that parse_command() takes is one of the comment, and it takes none only
\* if none matches.
LEMMA MatchedLineIsThere ==
    ASSUME NEW i, i = Commands!SelectInSeq(comment, Commands!Matches)
    PROVE  IF i = 0 THEN \A j \in 1 .. Len(comment) : ~Commands!Matches(comment[j])
           ELSE i \in 1 .. Len(comment)
<1> DEFINE I == {j \in 1 .. Len(comment) : Commands!Matches(comment[j])}
<1>1. i = IF I # {} THEN Commands!Min(I) ELSE 0
  BY DEF Commands!SelectInSeq
<1>2. I \in SUBSET Nat /\ 0 \notin I
  OBVIOUS
<1>3. I # {} => Commands!Min(I) \in I
  <2> HIDE DEF I
  <2> QED
    BY <1>2, LeastOf DEF Commands!Min
<1>4. CASE I = {}
  BY <1>1, <1>4
<1>5. CASE I # {}
  <2>1. i \in I /\ i # 0
    <3> HIDE DEF I
    <3> QED
      BY <1>1, <1>2, <1>3, <1>5
  <2> QED
    BY <2>1
<1> QED
  BY <1>4, <1>5

\* The comments that are parsed, and the command that one without an answer may hold.
CommandInv ==
    /\ comment \in Seq(Commands!Lines) /\ Commands!TypeOK
    /\ parsed = Commands!Nothing =>
         \A i \in 1 .. Len(comment) : comment[i].command =>
           comment[i].words = <<>> /\ comment[i].ending = "crlf"

\* The answers are of three kinds, told apart by their kinds.
LEMMA CommandIsAnAnswer ==
    ASSUME NEW words \in Commands!BoundedSeq(Commands!Words, MaxWords),
           Commands!CommandsAssumption
    PROVE  /\ Commands!Command(words) = Commands!ParseError
              \/ Commands!Command(words) \in
                   [kind : {"review", "ignore"}, file_path : Commands!BoundedSeq(Commands!Words, 1)]
           /\ Commands!Command(words) # Commands!Nothing
<1> DEFINE S == Commands!Words
           B == Commands!BoundedSeq(S, 1)
<1>1. words \in Seq(S)
  BY DEF Commands!BoundedSeq, Commands!SeqOf, Commands!CommandsAssumption
<1>2. \A s \in Seq(S) : Len(s) <= 1 => s \in B
  <2> TAKE s \in Seq(S)
  <2> HAVE Len(s) <= 1
  <2> HIDE DEF S
  <2>1. Len(s) \in 0 .. 1 /\ s \in [1 .. Len(s) -> S]
    <3>1. Len(s) \in Nat /\ s \in [1 .. Len(s) -> S]
      BY LenProperties
    <3> QED
      BY <3>1
  <2> QED
    BY <2>1 DEF Commands!BoundedSeq, Commands!SeqOf
<1>3. <<>> \in B
  <2>1. <<>> \in Seq(S) /\ Len(<<>>) <= 1
    OBVIOUS
  <2> HIDE DEF S, B
  <2> QED
    BY <1>2, <2>1
<1>4. CASE words = <<>>
  BY <1>4 DEF Commands!Command, Commands!ParseError, Commands!Nothing
<1>5. CASE words # <<>> /\ Head(words) = "review" /\ Len(words) <= 2
  <2>1. Tail(words) \in Seq(S) /\ Len(Tail(words)) <= 1
    BY <1>1, <1>5
  <2>2. Tail(words) \in B
    BY <1>2, <2>1
  <2>3. Commands!Command(words) = [kind |-> "review", file_path |-> Tail(words)]
    BY <1>5 DEF Commands!Command, Commands!ParsedCommand
  <2> HIDE DEF B
  <2>4. Commands!Command(words).kind = "review" /\ Commands!Nothing.kind = "None"
    BY <2>3 DEF Commands!Nothing
  <2> QED
    BY <2>2, <2>3, <2>4 DEF B, S
<1>6. CASE words # <<>> /\ ~(Head(words) = "review" /\ Len(words) <= 2) /\ words = <<"ignore">>
  <2>1. Commands!Command(words) = [kind |-> "ignore", file_path |-> <<>>]
    BY <1>6 DEF Commands!Command, Commands!ParsedCommand
  <2> HIDE DEF B
  <2>2. Commands!Command(words).kind = "ignore" /\ Commands!Nothing.kind = "None"
    BY <2>1 DEF Commands!Nothing
  <2> QED
    BY <1>3, <2>1, <2>2 DEF B, S
<1>7. CASE words # <<>> /\ ~(Head(words) = "review" /\ Len(words) <= 2) /\ words # <<"ignore">>
  BY <1>7 DEF Commands!Command, Commands!ParseError, Commands!Nothing
<1> QED
  BY <1>4, <1>5, <1>6, <1>7

\* Every step keeps the invariant.
LEMMA CommandsKeep ==
    ASSUME Commands!CommandsAssumption, CommandInv, [Commands!Next]_(Commands!vars)
    PROVE  CommandInv'
<1>1. /\ comment \in Seq(Commands!Lines) /\ Commands!TypeOK
      /\ MaxCommentLines \in Nat /\ MaxWords \in Nat
  BY DEF CommandInv, Commands!CommandsAssumption
<1>2. CASE Commands!Write
  <2>1. PICK line \in Commands!Lines : comment' = Append(comment, line)
    BY <1>2 DEF Commands!Write
  <2>2. parsed = Commands!NotParsed /\ parsed' = parsed /\ Len(comment) < MaxCommentLines
    BY <1>2 DEF Commands!Write
  <2>3. comment' \in Seq(Commands!Lines) /\ Len(comment') = Len(comment) + 1
    BY <1>1, <2>1, AppendProperties
  <2>4. Len(comment') <= MaxCommentLines
    BY <1>1, <2>2, <2>3, LenProperties
  <2>5. Commands!ToSet(comment') \subseteq Commands!Lines
    BY <2>3 DEF Commands!ToSet
  <2>6. parsed' # Commands!Nothing
    BY <2>2 DEF Commands!NotParsed, Commands!Nothing
  <2> QED
    BY <2>2, <2>3, <2>4, <2>5, <2>6 DEF CommandInv, Commands!TypeOK
<1>3. CASE Commands!Parse
  <2> DEFINE i == Commands!SelectInSeq(comment, Commands!Matches)
  <2>1. parsed' = (IF i = 0 THEN Commands!Nothing ELSE Commands!Command(comment[i].words))
        /\ comment' = comment
    BY <1>3 DEF Commands!Parse
  <2>2. IF i = 0 THEN \A j \in 1 .. Len(comment) : ~Commands!Matches(comment[j])
        ELSE i \in 1 .. Len(comment)
    BY MatchedLineIsThere
  <2> HIDE DEF i
  <2>3. Len(comment') <= MaxCommentLines /\ Commands!ToSet(comment') \subseteq Commands!Lines
    BY <1>1, <2>1 DEF Commands!TypeOK
  <2>4. CASE i = 0
    <3>1. \A j \in 1 .. Len(comment) : comment[j].command =>
            comment[j].words = <<>> /\ comment[j].ending = "crlf"
      BY <2>2, <2>4 DEF Commands!Matches
    <3>2. parsed' = Commands!Nothing
      BY <2>1, <2>4
    <3> QED
      BY <1>1, <2>1, <2>3, <3>1, <3>2 DEF CommandInv, Commands!TypeOK
  <2>5. CASE i # 0
    <3>1. comment[i].words \in Commands!BoundedSeq(Commands!Words, MaxWords)
      <4>1. comment[i] \in Commands!Lines
        BY <1>1, <2>2, <2>5
      <4> QED
        BY <4>1 DEF Commands!Lines
    <3>2. parsed' = Commands!Command(comment[i].words)
      BY <2>1, <2>5
    <3> QED
      BY <1>1, <2>1, <2>3, <3>1, <3>2, CommandIsAnAnswer DEF CommandInv, Commands!TypeOK
  <2> QED
    BY <2>4, <2>5
<1>4. CASE UNCHANGED Commands!vars
  BY <1>1, <1>4 DEF Commands!vars, CommandInv, Commands!TypeOK, Commands!ToSet
<1> QED
  BY <1>2, <1>3, <1>4 DEF Commands!Next

\* The invariant holds throughout.
LEMMA CommandsInvariant ==
    ASSUME Commands!CommandsAssumption PROVE Commands!Spec => []CommandInv
<1>1. Commands!Init => CommandInv
  <2> SUFFICES ASSUME Commands!Init PROVE CommandInv
    OBVIOUS
  <2>1. comment = <<>> /\ parsed = Commands!NotParsed
    BY DEF Commands!Init
  <2>2. comment \in Seq(Commands!Lines) /\ Len(comment) = 0 /\ DOMAIN comment = {}
    BY <2>1
  <2>3. Commands!ToSet(comment) = {} /\ Len(comment) <= MaxCommentLines
    BY <2>2 DEF Commands!ToSet, Commands!CommandsAssumption
  <2>4. parsed # Commands!Nothing
    BY <2>1 DEF Commands!NotParsed, Commands!Nothing
  <2> QED
    BY <2>1, <2>2, <2>3, <2>4 DEF CommandInv, Commands!TypeOK
<1>2. CommandInv /\ [Commands!Next]_(Commands!vars) => CommandInv'
  BY CommandsKeep
<1> QED
  BY <1>1, <1>2, PTL DEF Commands!Spec

\* The comment and what parse_command() answers have their types.
THEOREM CommandsTypeCorrect ==
    ASSUME Commands!CommandsAssumption PROVE Commands!Spec => []Commands!TypeOK
<1>1. CommandInv => Commands!TypeOK
  BY DEF CommandInv
<1> QED
  BY <1>1, CommandsInvariant, PTL

\* parse_command() answers None only to comments whose commands are all bare ones at
\* the end of a line that "\r\n" ends: no other command is ever missed.
THEOREM OnlyBareCommandsAreMissed ==
    ASSUME Commands!CommandsAssumption
    PROVE  Commands!Spec => [](parsed = Commands!Nothing =>
             \A i \in 1 .. Len(comment) : comment[i].command =>
               comment[i].words = <<>> /\ comment[i].ending = "crlf")
<1>1. CommandInv => (parsed = Commands!Nothing =>
        \A i \in 1 .. Len(comment) : comment[i].command =>
          comment[i].words = <<>> /\ comment[i].ending = "crlf")
  BY DEF CommandInv
<1> QED
  BY <1>1, CommandsInvariant, PTL
===============================================================================

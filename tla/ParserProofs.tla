---------------------------- MODULE ParserProofs ----------------------------
(***************************************************************************)
(* The diff parser reads what git wrote, for every diff; with lemmas about *)
(* sequences of sequences and comprehensions, which its regexes and list   *)
(* comprehensions are modelled by.                                         *)
(***************************************************************************)
EXTENDS ReaderProofs

-----------------------------------------------------------------------------
\* Sequences of sequences.

\* Induction over sequences: what is true of the empty one and of every longer one.
LEMMA SequenceInductive ==
    ASSUME NEW S, NEW T, <<>> \in T, \A s \in Seq(S), x \in S : s \in T => Append(s, x) \in T
    PROVE  Seq(S) \subseteq T
<1> DEFINE N == {n \in Nat : \A s \in Seq(S) : Len(s) = n => s \in T}
<1>1. 0 \in N
  <2>1. \A s \in Seq(S) : Len(s) = 0 => s = <<>>
    BY EmptySeq
  <2> QED
    BY <2>1
<1>2. ASSUME NEW n \in Nat, n \in N PROVE n + 1 \in N
  <2> SUFFICES ASSUME NEW s \in Seq(S), Len(s) = n + 1 PROVE s \in T
    OBVIOUS
  <2>1. s # <<>>
    BY EmptySeq
  <2>2. PICK r \in Seq(S), x \in S : s = Append(r, x)
    BY <2>1, SequenceEmptyOrAppend
  <2>3. Len(r) = n /\ Len(r) \in Nat
    BY <2>2, AppendProperties, LenProperties
  <2>4. r \in T
    BY <1>2, <2>3
  <2> QED
    BY <2>2, <2>4
<1>3. Nat \subseteq N
  <2> HIDE DEF N
  <2> QED
    BY <1>1, <1>2, Inductive
<1> QED
  BY <1>3, LenProperties

\* `f` has the concatenations of the first of `ss`.
Flattens(f, S, ss) ==
    /\ f \in [0 .. Len(ss) -> Seq(S)]
    /\ f[0] = <<>>
    /\ \A i \in 1 .. Len(ss) : f[i] = f[i - 1] \o ss[i]

\* FlattenSeq() concatenates one after the other.
LEMMA FlattenIsBySteps ==
    ASSUME NEW S, NEW ss \in Seq(Seq(S))
    PROVE  \E f : Flattens(f, S, ss) /\ Parser!FlattenSeq(ss) = f[Len(ss)]
<1> DEFINE N == Len(ss)
           A == Seq(S)
           step == [i \in 1 .. N |-> [s \in A |-> s \o ss[i]]]
           Runs(f) == f = [i \in 1 .. N |-> IF i = 1 THEN ss[i] ELSE f[i - 1] \o ss[i]]
           flatten == CHOOSE f : Runs(f)
<1>1. N \in Nat /\ \A i \in 1 .. N : ss[i] \in A
  BY LenProperties, ElementOfSeq
<1>2. <<>> \in A
  BY EmptySeq
<1>3. step \in [1 .. N -> [A -> A]]
  <2>1. \A s, t \in A : s \o t \in A
    BY ConcatProperties
  <2> HIDE DEF A
  <2> QED
    BY <1>1, <2>1
<1>4. PICK g : Goes(g, A, <<>>, N, step)
  <2> HIDE DEF step, N, A
  <2> QED
    BY <1>1, <1>2, <1>3, StepsDefine
<1>5. /\ g \in [0 .. N -> A] /\ g[0] = <<>>
      /\ \A i \in 1 .. N : i - 1 \in 0 .. N /\ g[i] = g[i - 1] \o ss[i]
  <2>1. g \in [0 .. N -> A] /\ g[0] = <<>> /\ \A i \in 1 .. N : g[i] = step[i][g[i - 1]]
    BY <1>4 DEF Goes
  <2> HIDE DEF A, N
  <2>2. \A i \in 1 .. N : i - 1 \in 0 .. N
    BY <1>1
  <2>3. \A i \in 1 .. N : g[i] = g[i - 1] \o ss[i]
    BY <2>1, <2>2
  <2> QED
    BY <2>1, <2>2, <2>3
<1>6. Runs([i \in 1 .. N |-> g[i]])
  <2> DEFINE h == [i \in 1 .. N |-> g[i]]
  <2>1. ASSUME NEW i \in 1 .. N PROVE h[i] = IF i = 1 THEN ss[i] ELSE h[i - 1] \o ss[i]
    <3>1. CASE i = 1
      <4>1. h[i] = <<>> \o ss[i]
        <5>1. 1 \in 1 .. N /\ 1 - 1 = 0
          BY <3>1
        <5>2. g[1] = g[0] \o ss[1]
          BY <1>5, <5>1
        <5> HIDE DEF N
        <5> QED
          BY <1>5, <3>1, <5>1, <5>2
      <4>2. ss[i] \in Seq(S)
        BY <1>1
      <4> QED
        BY <3>1, <4>1, <4>2, ConcatEmptySeq
    <3>2. CASE i # 1
      <4>1. i - 1 \in 1 .. N
        BY <1>1, <3>2
      <4> HIDE DEF N, A
      <4> QED
        BY <1>5, <3>2, <4>1
    <3> QED
      BY <3>1, <3>2
  <2> HIDE DEF N
  <2> QED
    BY <2>1
<1>7. Runs(flatten)
  <2> HIDE DEF Runs
  <2> QED
    BY <1>6
<1> DEFINE f == [i \in 0 .. N |-> IF i = 0 THEN <<>> ELSE flatten[i]]
<1>8. Parser!FlattenSeq(ss) = f[N]
  <2>1. CASE N = 0
    <3>1. ss = <<>>
      BY <2>1, EmptySeq
    <3> QED
      BY <2>1, <3>1 DEF Parser!FlattenSeq
  <2>2. CASE N # 0
    <3>1. Parser!FlattenSeq(ss) = flatten[N]
      BY <2>2 DEF Parser!FlattenSeq
    <3> HIDE DEF flatten
    <3> QED
      BY <1>1, <2>2, <3>1
  <2> QED
    BY <2>1, <2>2
<1> HIDE DEF flatten
<1>9. ASSUME NEW i \in 1 .. N PROVE f[i] = f[i - 1] \o ss[i]
  <2>0. i \in 0 .. N /\ i # 0
    BY <1>1
  <2>1. f[i] = flatten[i] /\ flatten[i] = (IF i = 1 THEN ss[i] ELSE flatten[i - 1] \o ss[i])
    <3>1. f[i] = flatten[i]
      BY <2>0
    <3> HIDE DEF N, f
    <3>2. flatten[i] = (IF i = 1 THEN ss[i] ELSE flatten[i - 1] \o ss[i])
      BY <1>7
    <3> QED
      BY <3>1, <3>2
  <2>2. CASE i = 1
    <3>1. f[i - 1] = <<>> /\ ss[i] \in Seq(S)
      BY <1>1, <2>2
    <3> QED
      BY <2>1, <2>2, <3>1, ConcatEmptySeq
  <2>3. CASE i # 1
    <3>1. f[i - 1] = flatten[i - 1]
      BY <1>1, <2>3
    <3> QED
      BY <2>1, <2>3, <3>1
  <2> QED
    BY <2>2, <2>3
<1>10. f[0] = <<>> /\ f = [i \in 0 .. N |-> f[i]]
  BY <1>1
<1> HIDE DEF f
<1> DEFINE T == {n \in Nat : n <= N => f[n] \in A}
<1>11. 0 \in T
  BY <1>2, <1>10
<1>12. ASSUME NEW n \in Nat, n \in T PROVE n + 1 \in T
  <2> SUFFICES ASSUME n + 1 <= N PROVE f[n + 1] \in A
    OBVIOUS
  <2>1. n + 1 \in 1 .. N /\ (n + 1) - 1 = n /\ f[n] \in A
    BY <1>1, <1>12
  <2>2. f[n + 1] = f[n] \o ss[n + 1] /\ ss[n + 1] \in A
    BY <1>1, <1>9, <2>1
  <2> QED
    BY <2>1, <2>2, ConcatProperties
<1>13. Nat \subseteq T
  <2> HIDE DEF T
  <2> QED
    BY <1>11, <1>12, Inductive
<1>14. f \in [0 .. N -> A]
  BY <1>10, <1>13
<1> QED
  BY <1>8, <1>9, <1>10, <1>14 DEF Flattens

\* Nothing is flattened to nothing.
LEMMA FlattenOfNone == Parser!FlattenSeq(<<>>) = <<>>
BY DEF Parser!FlattenSeq

\* A longer sequence is flattened to a longer one.
LEMMA FlattenOfMore ==
    ASSUME NEW S, NEW ss \in Seq(Seq(S)), NEW s \in Seq(S)
    PROVE  /\ Parser!FlattenSeq(ss) \in Seq(S)
           /\ Parser!FlattenSeq(Append(ss, s)) = Parser!FlattenSeq(ss) \o s
<1> DEFINE N == Len(ss)
           tt == Append(ss, s)
<1>1. /\ N \in Nat /\ tt \in Seq(Seq(S)) /\ Len(tt) = N + 1
      /\ tt[N + 1] = s /\ \A i \in 1 .. N : tt[i] = ss[i]
  BY AppendProperties, LenProperties
<1> HIDE DEF tt
<1>2. PICK f : Flattens(f, S, ss) /\ Parser!FlattenSeq(ss) = f[N]
  BY FlattenIsBySteps
<1>3. PICK g : Flattens(g, S, tt) /\ Parser!FlattenSeq(tt) = g[N + 1]
  BY <1>1, FlattenIsBySteps
<1> DEFINE T == {n \in Nat : n <= N => f[n] = g[n]}
<1>4. 0 \in T
  BY <1>2, <1>3 DEF Flattens
<1>5. ASSUME NEW n \in Nat, n \in T PROVE n + 1 \in T
  <2> SUFFICES ASSUME n + 1 <= N PROVE f[n + 1] = g[n + 1]
    OBVIOUS
  <2>1. n + 1 \in 1 .. N /\ n + 1 \in 1 .. N + 1 /\ (n + 1) - 1 = n /\ f[n] = g[n]
    BY <1>1, <1>5
  <2>2. f[n + 1] = f[n] \o ss[n + 1]
    BY <1>2, <2>1 DEF Flattens
  <2>3. g[n + 1] = g[n] \o tt[n + 1]
    BY <1>1, <1>3, <2>1 DEF Flattens
  <2> QED
    BY <1>1, <2>1, <2>2, <2>3
<1>6. Nat \subseteq T
  <2> HIDE DEF T
  <2> QED
    BY <1>4, <1>5, Inductive
<1>7. f[N] = g[N] /\ f[N] \in Seq(S)
  <2>1. N \in T /\ N \in 0 .. N
    BY <1>1, <1>6
  <2>2. f \in [0 .. N -> Seq(S)]
    BY <1>2 DEF Flattens
  <2> HIDE DEF N
  <2> QED
    BY <2>1, <2>2
<1>8. N + 1 \in 1 .. N + 1 /\ (N + 1) - 1 = N
  BY <1>1
<1> HIDE DEF N
<1>9. g[N + 1] = g[N] \o s
  <2>1. g[N + 1] = g[(N + 1) - 1] \o tt[N + 1]
    BY <1>1, <1>3, <1>8 DEF Flattens
  <2> QED
    BY <1>1, <1>8, <2>1
<1> QED
  BY <1>2, <1>3, <1>7, <1>9 DEF tt
\* A comprehension: what g makes of the members of s, one after the other.
Through(g, s) == [i \in DOMAIN s |-> g[s[i]]]
Flat(g, s) == Parser!FlattenSeq(Through(g, s))

\* g makes a sequence over V of each member of S.
Maker(g, S, V) == g \in [S -> Seq(V)]

\* Of no members it makes nothing.
LEMMA FlatOfNone == ASSUME NEW g PROVE Flat(g, <<>>) = <<>>
<1>1. Through(g, <<>>) = <<>>
  BY DEF Through
<1> QED
  BY <1>1, FlattenOfNone DEF Flat

\* A sequence that is mapped is a sequence.
LEMMA ThroughType ==
    ASSUME NEW S, NEW V, NEW g, Maker(g, S, V), NEW s \in Seq(S)
    PROVE  Through(g, s) \in Seq(Seq(V)) /\ Len(Through(g, s)) = Len(s)
<1>1. Len(s) \in Nat /\ DOMAIN s = 1 .. Len(s) /\ \A i \in 1 .. Len(s) : s[i] \in S
  BY LenProperties, ElementOfSeq
<1>2. \A i \in 1 .. Len(s) : g[s[i]] \in Seq(V)
  BY <1>1 DEF Maker
<1>3. Through(g, s) \in [1 .. Len(s) -> Seq(V)]
  BY <1>1, <1>2 DEF Through
<1> QED
  BY <1>1, <1>3, SeqDef, LenProperties

\* A last member is mapped last.
LEMMA ThroughMore ==
    ASSUME NEW S, NEW V, NEW g, Maker(g, S, V), NEW s \in Seq(S), NEW x \in S
    PROVE  Through(g, Append(s, x)) = Append(Through(g, s), g[x])
<1> DEFINE t == Append(s, x)
           N == Len(s)
           u == Through(g, s)
           v == Through(g, t)
           w == Append(u, g[x])
<1>1. /\ N \in Nat /\ t \in Seq(S) /\ Len(t) = N + 1 /\ DOMAIN s = 1 .. N /\ DOMAIN t = 1 .. N + 1
      /\ t[N + 1] = x /\ \A i \in 1 .. N : t[i] = s[i]
  BY AppendProperties, LenProperties
<1> DEFINE W == Seq(V)
<1>2. u \in Seq(W) /\ Len(u) = N /\ v \in Seq(W) /\ Len(v) = N + 1 /\ g[x] \in W
  <2>1. u \in Seq(W) /\ Len(u) = N
    BY ThroughType
  <2>2. g[x] \in W
    BY DEF Maker
  <2> HIDE DEF t
  <2>3. v \in Seq(W) /\ Len(v) = N + 1
    BY <1>1, ThroughType
  <2> QED
    BY <2>1, <2>2, <2>3
<1>3. \A i \in 1 .. N : u[i] = g[s[i]]
  BY <1>1 DEF Through
<1>4. \A i \in 1 .. N + 1 : v[i] = g[t[i]]
  BY <1>1 DEF Through
<1> HIDE DEF u, v, t, W
<1>5. w \in Seq(W) /\ Len(w) = N + 1 /\ w[N + 1] = g[x] /\ \A i \in 1 .. N : w[i] = u[i]
  BY <1>2, AppendProperties
<1> HIDE DEF w, N
<1>6. \A i \in 1 .. N + 1 : v[i] = w[i]
  <2> TAKE i \in 1 .. N + 1
  <2>1. CASE i = N + 1
    BY <1>1, <1>4, <1>5, <2>1
  <2>2. CASE i # N + 1
    <3>1. i \in 1 .. N
      BY <1>1, <2>2
    <3> QED
      BY <1>1, <1>3, <1>4, <1>5, <3>1
  <2> QED
    BY <2>1, <2>2
<1>7. v = w
  BY <1>2, <1>5, <1>6, SeqEqual
<1> QED
  BY <1>7 DEF u, v, w, t

\* Of a last member it makes what comes last.
LEMMA FlatOfMore ==
    ASSUME NEW S, NEW V, NEW g, Maker(g, S, V), NEW s \in Seq(S), NEW x \in S
    PROVE  Flat(g, Append(s, x)) = Flat(g, s) \o g[x]
<1> DEFINE W == Seq(V)
           ss == Through(g, s)
           v == g[x]
<1>1. ss \in Seq(W) /\ v \in W
  BY ThroughType DEF Maker
<1>2. Through(g, Append(s, x)) = Append(ss, v)
  BY ThroughMore
<1> HIDE DEF ss, v
<1>3. Parser!FlattenSeq(Append(ss, v)) = Parser!FlattenSeq(ss) \o v
  BY <1>1, FlattenOfMore
<1> QED
  BY <1>2, <1>3 DEF Flat, ss, v

\* What is made of the members of a sequence is a sequence.
LEMMA FlatType ==
    ASSUME NEW S, NEW V, NEW g, Maker(g, S, V), NEW s \in Seq(S)
    PROVE  Flat(g, s) \in Seq(V)
<1> DEFINE ss == Through(g, s)
<1>1. ss \in Seq(Seq(V))
  BY ThroughType DEF Maker
<1> HIDE DEF ss
<1>2. <<>> \in Seq(V)
  BY EmptySeq
<1>3. Parser!FlattenSeq(ss) \in Seq(V)
  BY <1>1, <1>2, FlattenOfMore
<1> QED
  BY <1>3 DEF Flat, ss

\* Of one member it makes what g makes of it.
LEMMA FlatOfOne ==
    ASSUME NEW S, NEW V, NEW g, Maker(g, S, V), NEW x \in S
    PROVE  Flat(g, <<x>>) = g[x]
<1>1. <<>> \in Seq(S) /\ Append(<<>>, x) = <<x>>
  BY EmptySeq
<1>2. Flat(g, Append(<<>>, x)) = Flat(g, <<>>) \o g[x]
  BY <1>1, FlatOfMore
<1>3. g[x] \in Seq(V)
  BY DEF Maker
<1> QED
  BY <1>1, <1>2, <1>3, FlatOfNone, ConcatEmptySeq

\* Of two sequences it makes what it makes of each.
LEMMA FlatOfBoth ==
    ASSUME NEW S, NEW V, NEW g, Maker(g, S, V), NEW s \in Seq(S), NEW t \in Seq(S)
    PROVE  Flat(g, s \o t) = Flat(g, s) \o Flat(g, t)
<1> DEFINE T == {r \in Seq(S) : Flat(g, s \o r) = Flat(g, s) \o Flat(g, r)}
<1>1. <<>> \in T
  <2>1. s \o <<>> = s /\ <<>> \in Seq(S) /\ Flat(g, s) \in Seq(V)
    BY ConcatEmptySeq, EmptySeq, FlatType
  <2> QED
    BY <2>1, FlatOfNone, ConcatEmptySeq
<1>2. ASSUME NEW r \in Seq(S), NEW x \in S, r \in T PROVE Append(r, x) \in T
  <2>1. s \o Append(r, x) = Append(s \o r, x) /\ s \o r \in Seq(S) /\ Append(r, x) \in Seq(S)
    <3>1. <<x>> \in Seq(S) /\ s \o r \in Seq(S) /\ Append(r, x) \in Seq(S)
      BY ConcatProperties, AppendProperties
    <3>2. Append(r, x) = r \o <<x>> /\ Append(s \o r, x) = (s \o r) \o <<x>>
      BY <3>1, AppendIsConcat
    <3>3. (s \o r) \o <<x>> = s \o (r \o <<x>>)
      BY <3>1, ConcatAssociative, SMTT(30)
    <3> QED
      BY <3>1, <3>2, <3>3
  <2>2. Flat(g, Append(s \o r, x)) = Flat(g, s \o r) \o g[x]
    <3> DEFINE u == s \o r
    <3>1. u \in Seq(S)
      BY ConcatProperties
    <3> HIDE DEF u
    <3>2. Flat(g, Append(u, x)) = Flat(g, u) \o g[x]
      BY <3>1, FlatOfMore
    <3> QED
      BY <3>2 DEF u
  <2>3. Flat(g, Append(r, x)) = Flat(g, r) \o g[x]
    BY FlatOfMore
  <2>4. Flat(g, s) \in Seq(V) /\ Flat(g, r) \in Seq(V) /\ g[x] \in Seq(V)
    BY FlatType DEF Maker
  <2>5. (Flat(g, s) \o Flat(g, r)) \o g[x] = Flat(g, s) \o (Flat(g, r) \o g[x])
    <3> DEFINE a == Flat(g, s)
               b == Flat(g, r)
               c == g[x]
    <3>1. a \in Seq(V) /\ b \in Seq(V) /\ c \in Seq(V)
      BY <2>4
    <3> HIDE DEF a, b, c
    <3>2. (a \o b) \o c = a \o (b \o c)
      BY <3>1, ConcatAssociative, SMTT(30)
    <3> QED
      BY <3>2 DEF a, b, c
  <2>6. Flat(g, s \o r) = Flat(g, s) \o Flat(g, r)
    BY <1>2
  <2> QED
    BY <2>1, <2>2, <2>3, <2>5, <2>6
<1>3. Seq(S) \subseteq T
  <2> HIDE DEF T
  <2> QED
    BY <1>1, <1>2, SequenceInductive
<1> QED
  BY <1>3

\* A comprehension of a comprehension is one.
LEMMA FlatOfFlat ==
    ASSUME NEW S, NEW V, NEW W, NEW g, Maker(g, S, V), NEW h, Maker(h, V, W),
           NEW s \in Seq(S)
    PROVE  Flat(h, Flat(g, s)) = Flat([x \in S |-> Flat(h, g[x])], s)
<1> DEFINE k == [x \in S |-> Flat(h, g[x])]
           T == {r \in Seq(S) : Flat(h, Flat(g, r)) = Flat(k, r)}
<1>1. Maker(k, S, W)
  <2>1. ASSUME NEW x \in S PROVE Flat(h, g[x]) \in Seq(W)
    <3>1. g[x] \in Seq(V)
      BY DEF Maker
    <3> QED
      BY <3>1, FlatType
  <2> QED
    BY <2>1 DEF Maker
<1>2. \A x \in S : k[x] = Flat(h, g[x])
  OBVIOUS
<1> HIDE DEF k
<1>3. <<>> \in T
  BY FlatOfNone, EmptySeq
<1>4. ASSUME NEW r \in Seq(S), NEW x \in S, r \in T PROVE Append(r, x) \in T
  <2>1. Flat(g, r) \in Seq(V) /\ g[x] \in Seq(V) /\ Append(r, x) \in Seq(S)
    <3>1. g[x] \in Seq(V)
      BY DEF Maker
    <3>2. Append(r, x) \in Seq(S)
      BY AppendProperties
    <3> QED
      BY <3>1, <3>2, FlatType
  <2>2. Flat(g, Append(r, x)) = Flat(g, r) \o g[x]
    BY FlatOfMore
  <2>3. Flat(h, Flat(g, r) \o g[x]) = Flat(h, Flat(g, r)) \o Flat(h, g[x])
    BY <2>1, FlatOfBoth, SMTT(30)
  <2>4. Flat(k, Append(r, x)) = Flat(k, r) \o k[x]
    BY <1>1, FlatOfMore
  <2> QED
    BY <1>2, <1>4, <2>1, <2>2, <2>3, <2>4
<1>5. Seq(S) \subseteq T
  <2> HIDE DEF T
  <2> QED
    BY <1>3, <1>4, SequenceInductive
<1> QED
  BY <1>5 DEF k

\* Nothing is made of members of which nothing is made.
LEMMA FlatOfNothings ==
    ASSUME NEW S, NEW V, NEW g, Maker(g, S, V), NEW s \in Seq(S),
           \A i \in DOMAIN s : g[s[i]] = <<>>
    PROVE  Flat(g, s) = <<>>
<1> DEFINE T == {r \in Seq(S) : (\A i \in DOMAIN r : g[r[i]] = <<>>) => Flat(g, r) = <<>>}
<1>1. <<>> \in T
  BY FlatOfNone, EmptySeq
<1>2. ASSUME NEW r \in Seq(S), NEW x \in S, r \in T PROVE Append(r, x) \in T
  <2> DEFINE t == Append(r, x)
  <2>1. /\ t \in Seq(S) /\ Len(r) \in Nat /\ DOMAIN r = 1 .. Len(r) /\ DOMAIN t = 1 .. Len(r) + 1
        /\ t[Len(r) + 1] = x /\ \A i \in 1 .. Len(r) : t[i] = r[i]
    BY AppendProperties, LenProperties
  <2> SUFFICES ASSUME \A i \in DOMAIN t : g[t[i]] = <<>> PROVE Flat(g, t) = <<>>
    BY <2>1
  <2> HIDE DEF t
  <2>2. g[x] = <<>>
    <3>1. Len(r) + 1 \in DOMAIN t
      BY <2>1
    <3> QED
      BY <2>1, <3>1
  <2>3. \A i \in DOMAIN r : g[r[i]] = <<>>
    <3> TAKE i \in DOMAIN r
    <3>1. i \in 1 .. Len(r) /\ i \in DOMAIN t
      BY <2>1
    <3> QED
      BY <2>1, <3>1
  <2>4. Flat(g, r) = <<>>
    BY <1>2, <2>3
  <2>5. Flat(g, t) = Flat(g, r) \o g[x]
    BY FlatOfMore DEF t
  <2>6. <<>> \in Seq(V)
    BY EmptySeq
  <2> QED
    BY <2>2, <2>4, <2>5, <2>6, ConcatEmptySeq
<1>3. Seq(S) \subseteq T
  <2> HIDE DEF T
  <2> QED
    BY <1>1, <1>2, SequenceInductive
<1> QED
  BY <1>3
-----------------------------------------------------------------------------
\* Diff parser: what the deletion omission keeps.

Added == [l \in Parser!HunkLine |-> IF l.type = "add" THEN <<l>> ELSE <<>>]
LinesIn == [h \in Parser!Hunk |-> h.lines]
KeepHunk == [h \in Parser!Hunk |-> IF Parser!IsDeletionOnly(h) THEN <<>> ELSE <<h>>]
KeepFile == [b \in Parser!Block |-> IF Parser!IsDeletedFile(b) THEN <<>> ELSE <<b>>]
LinesLeft == [b \in Parser!Block |-> Flat(LinesIn, Flat(KeepHunk, b.hunks))]
LinesAll == [b \in Parser!Block |-> Flat(LinesIn, b.hunks)]

\* A sequence of one or no member is one.
LEMMA OneOrNone ==
    ASSUME NEW S, NEW x \in S
    PROVE  <<>> \in Seq(S) /\ <<x>> \in Seq(S)
OBVIOUS

\* The comprehensions make sequences.
LEMMA Makers ==
    /\ Maker(Added, Parser!HunkLine, Parser!HunkLine)
    /\ Maker(LinesIn, Parser!Hunk, Parser!HunkLine)
    /\ Maker(KeepHunk, Parser!Hunk, Parser!Hunk)
    /\ Maker(KeepFile, Parser!Block, Parser!Block)
    /\ Maker(LinesLeft, Parser!Block, Parser!HunkLine)
    /\ Maker(LinesAll, Parser!Block, Parser!HunkLine)
<1>1. Maker(Added, Parser!HunkLine, Parser!HunkLine)
  <2> DEFINE S == Parser!HunkLine
  <2> HIDE DEF S
  <2>1. \A l \in S : (IF l.type = "add" THEN <<l>> ELSE <<>>) \in Seq(S)
    BY OneOrNone
  <2> QED
    BY <2>1 DEF Added, Maker, S
<1>2. Maker(LinesIn, Parser!Hunk, Parser!HunkLine)
  BY DEF LinesIn, Maker, Parser!Hunk
<1>3. Maker(KeepHunk, Parser!Hunk, Parser!Hunk)
  <2> DEFINE S == Parser!Hunk
  <2> HIDE DEF S
  <2>1. \A h \in S : (IF Parser!IsDeletionOnly(h) THEN <<>> ELSE <<h>>) \in Seq(S)
    BY OneOrNone
  <2> QED
    BY <2>1 DEF KeepHunk, Maker, S
<1>4. Maker(KeepFile, Parser!Block, Parser!Block)
  <2> DEFINE S == Parser!Block
  <2> HIDE DEF S
  <2>1. \A b \in S : (IF Parser!IsDeletedFile(b) THEN <<>> ELSE <<b>>) \in Seq(S)
    BY OneOrNone
  <2> QED
    BY <2>1 DEF KeepFile, Maker, S
<1>5. ASSUME NEW b \in Parser!Block
      PROVE  /\ Flat(LinesIn, b.hunks) \in Seq(Parser!HunkLine)
             /\ Flat(LinesIn, Flat(KeepHunk, b.hunks)) \in Seq(Parser!HunkLine)
  <2>1. b.hunks \in Seq(Parser!Hunk)
    BY DEF Parser!Block
  <2>2. Flat(KeepHunk, b.hunks) \in Seq(Parser!Hunk)
    BY <1>3, <2>1, FlatType
  <2> QED
    BY <1>2, <2>1, <2>2, FlatType
<1>6. Maker(LinesLeft, Parser!Block, Parser!HunkLine)
  BY <1>5 DEF LinesLeft, Maker
<1>7. Maker(LinesAll, Parser!Block, Parser!HunkLine)
  BY <1>5 DEF LinesAll, Maker
<1> QED
  BY <1>1, <1>2, <1>3, <1>4, <1>6, <1>7

\* The parser's operators are such comprehensions.
LEMMA AdditionsFlat ==
    ASSUME NEW lines \in Seq(Parser!HunkLine)
    PROVE  Parser!Additions(lines) = Flat(Added, lines)
<1>1. \A i \in DOMAIN lines : lines[i] \in Parser!HunkLine
  BY LenProperties, ElementOfSeq
<1>2. Through(Added, lines) =
        [i \in DOMAIN lines |-> IF lines[i].type = "add" THEN <<lines[i]>> ELSE <<>>]
  BY <1>1 DEF Through, Added
<1> QED
  BY <1>2 DEF Flat, Parser!Additions

\* The lines of hunks are those of each hunk, one after the other.
LEMMA LinesFlat ==
    ASSUME NEW hunks \in Seq(Parser!Hunk)
    PROVE  Parser!LinesOf(hunks) = Flat(LinesIn, hunks)
<1>1. \A i \in DOMAIN hunks : hunks[i] \in Parser!Hunk
  BY LenProperties, ElementOfSeq
<1>2. Through(LinesIn, hunks) = [h \in DOMAIN hunks |-> hunks[h].lines]
  BY <1>1 DEF Through, LinesIn
<1> QED
  BY <1>2 DEF Flat, Parser!LinesOf

\* Of each hunk one or none is kept.
LEMMA KeptHunksFlat ==
    ASSUME NEW b \in Parser!Block
    PROVE  Parser!KeptHunks(b) = Flat(KeepHunk, b.hunks)
<1>1. b.hunks \in Seq(Parser!Hunk)
  BY DEF Parser!Block
<1>2. \A i \in DOMAIN b.hunks : b.hunks[i] \in Parser!Hunk
  BY <1>1, LenProperties, ElementOfSeq
<1>3. Through(KeepHunk, b.hunks) =
        [h \in DOMAIN b.hunks |-> IF Parser!IsDeletionOnly(b.hunks[h]) THEN <<>> ELSE <<b.hunks[h]>>]
  BY <1>2 DEF Through, KeepHunk
<1> QED
  BY <1>3 DEF Flat, Parser!KeptHunks

\* Of each file one or none is kept.
LEMMA KeptFilesFlat ==
    ASSUME files \in Seq(Parser!Block)
    PROVE  Parser!KeptFiles = Flat(KeepFile, files)
<1>1. \A i \in DOMAIN files : files[i] \in Parser!Block
  BY LenProperties, ElementOfSeq
<1>2. Through(KeepFile, files) =
        [f \in DOMAIN files |-> IF Parser!IsDeletedFile(files[f]) THEN <<>> ELSE <<files[f]>>]
  BY <1>1 DEF Through, KeepFile
<1> QED
  BY <1>2 DEF Flat, Parser!KeptFiles

\* The lines that are kept are those left of each file.
LEMMA KeptLinesFlat ==
    ASSUME files \in Seq(Parser!Block)
    PROVE  Parser!KeptLines = Flat(LinesLeft, Flat(KeepFile, files))
<1> DEFINE kept == Parser!KeptFiles
<1>1. kept = Flat(KeepFile, files) /\ kept \in Seq(Parser!Block)
  BY KeptFilesFlat, Makers, FlatType
<1> HIDE DEF kept
<1>2. \A i \in DOMAIN kept : kept[i] \in Parser!Block
  BY <1>1, LenProperties, ElementOfSeq
<1>3. ASSUME NEW b \in Parser!Block
      PROVE  Parser!LinesOf(Parser!KeptHunks(b)) = LinesLeft[b]
  <2>1. b.hunks \in Seq(Parser!Hunk)
    BY DEF Parser!Block
  <2>2. Parser!KeptHunks(b) = Flat(KeepHunk, b.hunks) /\ Flat(KeepHunk, b.hunks) \in Seq(Parser!Hunk)
    BY <2>1, KeptHunksFlat, Makers, FlatType
  <2>3. Parser!LinesOf(Parser!KeptHunks(b)) = Flat(LinesIn, Flat(KeepHunk, b.hunks))
    BY <2>2, LinesFlat
  <2> QED
    BY <2>3 DEF LinesLeft
<1>4. Through(LinesLeft, kept) = [f \in DOMAIN kept |-> Parser!LinesOf(Parser!KeptHunks(kept[f]))]
  BY <1>2, <1>3 DEF Through
<1>5. Parser!KeptLines = Parser!FlattenSeq([f \in DOMAIN kept |-> Parser!LinesOf(Parser!KeptHunks(kept[f]))])
  BY DEF Parser!KeptLines, kept
<1> QED
  BY <1>1, <1>4, <1>5 DEF Flat

\* A hunk that is left out has no additions.
LEMMA HunksKeepAdditions ==
    ASSUME NEW b \in Parser!Block
    PROVE  Flat(Added, LinesLeft[b]) = Flat(Added, LinesAll[b])
<1> DEFINE hs == b.hunks
           H == Parser!Hunk
           L == Parser!HunkLine
           AddedIn == [h \in H |-> Flat(Added, LinesIn[h])]
           Left1 == [h \in H |-> Flat(AddedIn, KeepHunk[h])]
<1>1. hs \in Seq(H) /\ Flat(KeepHunk, hs) \in Seq(H)
  <2>1. hs \in Seq(H)
    BY DEF Parser!Block
  <2> QED
    BY <2>1, Makers, FlatType
<1>2. LinesLeft[b] = Flat(LinesIn, Flat(KeepHunk, hs)) /\ LinesAll[b] = Flat(LinesIn, hs)
  BY DEF LinesLeft, LinesAll
<1>3. Maker(Added, L, L) /\ Maker(LinesIn, H, L) /\ Maker(KeepHunk, H, H)
  BY Makers
<1>4. ASSUME NEW h \in H
      PROVE  LinesIn[h] \in Seq(L) /\ LinesIn[h] = h.lines /\ Flat(Added, LinesIn[h]) \in Seq(L)
  <2>1. LinesIn[h] \in Seq(L) /\ LinesIn[h] = h.lines
    BY <1>3 DEF Maker, LinesIn
  <2> QED
    BY <1>3, <2>1, FlatType
<1>5. Maker(AddedIn, H, L)
  BY <1>4 DEF Maker
<1>6. ASSUME NEW h \in H PROVE Left1[h] = AddedIn[h]
  <2>1. Left1[h] = Flat(AddedIn, KeepHunk[h])
    OBVIOUS
  <2>2. CASE Parser!IsDeletionOnly(h)
    <3>1. KeepHunk[h] = <<>>
      BY <2>2 DEF KeepHunk
    <3>2. \A i \in DOMAIN h.lines : Added[h.lines[i]] = <<>>
      <4> TAKE i \in DOMAIN h.lines
      <4>1. h.lines[i] \in L /\ h.lines[i].type # "add"
        BY <1>4, <2>2, LenProperties, ElementOfSeq DEF Parser!IsDeletionOnly
      <4> QED
        BY <4>1 DEF Added
    <3>3. Flat(Added, LinesIn[h]) = <<>>
      BY <1>3, <1>4, <3>2, FlatOfNothings
    <3> QED
      BY <2>1, <3>1, <3>3, FlatOfNone
  <2>3. CASE ~Parser!IsDeletionOnly(h)
    <3>1. KeepHunk[h] = <<h>>
      BY <2>3 DEF KeepHunk
    <3> HIDE DEF AddedIn
    <3> QED
      BY <1>5, <2>1, <3>1, FlatOfOne
  <2> QED
    BY <2>2, <2>3
<1>7. Left1 = AddedIn
  BY <1>6
<1> HIDE DEF hs
<1>8. Flat(Added, Flat(LinesIn, hs)) = Flat(AddedIn, hs)
  BY <1>1, <1>3, FlatOfFlat
<1>9. Flat(Added, Flat(LinesIn, Flat(KeepHunk, hs))) = Flat(AddedIn, Flat(KeepHunk, hs))
  <2> DEFINE ks == Flat(KeepHunk, hs)
  <2>1. ks \in Seq(H)
    BY <1>1
  <2> HIDE DEF ks
  <2>2. Flat(Added, Flat(LinesIn, ks)) = Flat(AddedIn, ks)
    BY <1>3, <2>1, FlatOfFlat
  <2> QED
    BY <2>2 DEF ks
<1> HIDE DEF AddedIn
<1>10. Flat(AddedIn, Flat(KeepHunk, hs)) = Flat(Left1, hs)
  BY <1>1, <1>3, <1>5, FlatOfFlat
<1> QED
  BY <1>2, <1>7, <1>8, <1>9, <1>10

\* A file that is left out has none either.
LEMMA OmissionKeepsAdditions ==
    ASSUME files \in Seq(Parser!Block), written \in Seq(Seq(Parser!HunkLine)),
           Len(written) = Len(files), Parser!LinesTrue,
           \A f \in DOMAIN files : Parser!IsDeletedFile(files[f]) =>
               \A i \in DOMAIN written[f] : written[f][i].type # "add"
    PROVE  Parser!Additions(Parser!KeptLines) = Parser!Additions(Parser!FlattenSeq(written))
<1> DEFINE B == Parser!Block
           L == Parser!HunkLine
           AddedLeft == [b \in B |-> Flat(Added, LinesLeft[b])]
           AddedAll == [b \in B |-> Flat(Added, LinesAll[b])]
           Left1 == [b \in B |-> Flat(AddedLeft, KeepFile[b])]
<1>1. /\ Maker(Added, L, L) /\ Maker(KeepFile, B, B) /\ Maker(LinesLeft, B, L) /\ Maker(LinesAll, B, L)
  BY Makers
<1>2. /\ DOMAIN files = 1 .. Len(files) /\ DOMAIN written = 1 .. Len(files) /\ Len(files) \in Nat
      /\ \A f \in DOMAIN files : files[f] \in B /\ written[f] \in Seq(L)
  BY LenProperties, ElementOfSeq
<1>3. ASSUME NEW b \in B
      PROVE  /\ LinesLeft[b] \in Seq(L) /\ LinesAll[b] \in Seq(L)
             /\ Flat(Added, LinesLeft[b]) \in Seq(L) /\ Flat(Added, LinesAll[b]) \in Seq(L)
  <2>1. LinesLeft[b] \in Seq(L) /\ LinesAll[b] \in Seq(L)
    BY <1>1 DEF Maker
  <2> QED
    BY <1>1, <2>1, FlatType
<1>4. Maker(AddedLeft, B, L) /\ Maker(AddedAll, B, L)
  BY <1>3 DEF Maker
<1>5. Through(LinesAll, files) = written
  <2>1. ASSUME NEW f \in DOMAIN files PROVE LinesAll[files[f]] = written[f]
    <3>1. files[f] \in B /\ files[f].hunks \in Seq(Parser!Hunk)
      BY <1>2 DEF Parser!Block
    <3>2. LinesAll[files[f]] = Flat(LinesIn, files[f].hunks)
      BY <3>1 DEF LinesAll
    <3>3. Parser!LinesOf(files[f].hunks) = Flat(LinesIn, files[f].hunks)
      BY <3>1, LinesFlat
    <3>4. Parser!LinesOf(files[f].hunks) = written[f]
      BY DEF Parser!LinesTrue, Parser!TrueLines
    <3> QED
      BY <3>2, <3>3, <3>4
  <2>2. written = [f \in DOMAIN files |-> written[f]]
    BY <1>2, LenProperties
  <2> QED
    BY <2>1, <2>2 DEF Through
<1>6. Parser!FlattenSeq(written) = Flat(LinesAll, files) /\ Flat(LinesAll, files) \in Seq(L)
  BY <1>1, <1>5, FlatType DEF Flat
<1>7. Parser!Additions(Parser!FlattenSeq(written)) = Flat(AddedAll, files)
  <2>1. Parser!Additions(Parser!FlattenSeq(written)) = Flat(Added, Flat(LinesAll, files))
    BY <1>6, AdditionsFlat
  <2>2. Flat(Added, Flat(LinesAll, files)) = Flat(AddedAll, files)
    BY <1>1, FlatOfFlat
  <2> QED
    BY <2>1, <2>2
<1>8. Parser!Additions(Parser!KeptLines) = Flat(Left1, files)
  <2> DEFINE kept == Flat(KeepFile, files)
  <2>1. kept \in Seq(B)
    BY <1>1, FlatType
  <2>2. Parser!KeptLines = Flat(LinesLeft, kept)
    BY KeptLinesFlat
  <2> HIDE DEF kept
  <2>3. Flat(LinesLeft, kept) \in Seq(L)
    BY <1>1, <2>1, FlatType
  <2>4. Parser!Additions(Parser!KeptLines) = Flat(Added, Flat(LinesLeft, kept))
    BY <2>2, <2>3, AdditionsFlat
  <2>5. Flat(Added, Flat(LinesLeft, kept)) = Flat(AddedLeft, kept)
    BY <1>1, <2>1, FlatOfFlat
  <2> HIDE DEF AddedLeft
  <2>6. Flat(AddedLeft, Flat(KeepFile, files)) = Flat(Left1, files)
    BY <1>1, <1>4, FlatOfFlat
  <2> QED
    BY <2>4, <2>5, <2>6 DEF kept
<1>9. ASSUME NEW f \in DOMAIN files PROVE Left1[files[f]] = AddedAll[files[f]]
  <2> DEFINE b == files[f]
  <2>1. b \in B /\ written[f] \in Seq(L) /\ LinesAll[b] = written[f]
    <3>1. b \in B /\ written[f] \in Seq(L)
      BY <1>2
    <3>2. Through(LinesAll, files)[f] = LinesAll[b]
      BY DEF Through
    <3> QED
      BY <1>5, <3>1, <3>2
  <2>2. Left1[b] = Flat(AddedLeft, KeepFile[b]) /\ AddedAll[b] = Flat(Added, LinesAll[b])
    BY <2>1
  <2>3. CASE Parser!IsDeletedFile(b)
    <3>1. KeepFile[b] = <<>>
      BY <2>1, <2>3 DEF KeepFile
    <3>2. \A i \in DOMAIN written[f] : Added[written[f][i]] = <<>>
      <4> TAKE i \in DOMAIN written[f]
      <4>1. written[f][i] \in L /\ written[f][i].type # "add"
        BY <2>1, <2>3, LenProperties, ElementOfSeq
      <4> QED
        BY <4>1 DEF Added
    <3>3. Flat(Added, written[f]) = <<>>
      BY <1>1, <2>1, <3>2, FlatOfNothings
    <3> QED
      BY <2>1, <2>2, <3>1, <3>3, FlatOfNone
  <2>4. CASE ~Parser!IsDeletedFile(b)
    <3>1. KeepFile[b] = <<b>> /\ AddedLeft[b] = Flat(Added, LinesLeft[b])
      BY <2>1, <2>4 DEF KeepFile
    <3> HIDE DEF AddedLeft, b
    <3>2. Flat(AddedLeft, <<b>>) = AddedLeft[b]
      BY <1>4, <2>1, FlatOfOne
    <3>3. Flat(Added, LinesLeft[b]) = Flat(Added, LinesAll[b])
      BY <2>1, HunksKeepAdditions
    <3>4. Left1[b] = AddedAll[b]
      BY <2>2, <3>1, <3>2, <3>3
    <3> QED
      BY <3>4 DEF b
  <2> QED
    BY <2>3, <2>4
<1> HIDE DEF Left1, AddedAll
<1>10. Through(Left1, files) = Through(AddedAll, files)
  BY <1>9 DEF Through
<1> QED
  BY <1>7, <1>8, <1>10 DEF Flat
-----------------------------------------------------------------------------
\* Diff parser: the lines of hunks.

\* A hunk that is opened has no lines yet.
LEMMA LinesOfOpened ==
    ASSUME NEW hunks \in Seq(Parser!Hunk), NEW hunk \in Parser!Hunk, hunk.lines = <<>>
    PROVE  Parser!LinesOf(Append(hunks, hunk)) = Parser!LinesOf(hunks)
<1>1. Append(hunks, hunk) \in Seq(Parser!Hunk)
  BY AppendProperties
<1>2. Flat(LinesIn, Append(hunks, hunk)) = Flat(LinesIn, hunks) \o LinesIn[hunk]
  BY Makers, FlatOfMore
<1>3. LinesIn[hunk] = <<>> /\ Flat(LinesIn, hunks) \in Seq(Parser!HunkLine)
  BY Makers, FlatType DEF LinesIn
<1> QED
  BY <1>1, <1>2, <1>3, LinesFlat, ConcatEmptySeq

\* What is read into the last hunk comes last.
LEMMA LinesOfLonger ==
    ASSUME NEW hunks \in Seq(Parser!Hunk), hunks # <<>>, NEW more \in Seq(Parser!HunkLine),
           NEW longer, longer = [hunks EXCEPT ![Len(hunks)].lines = @ \o more]
    PROVE  /\ longer \in Seq(Parser!Hunk) /\ Len(longer) = Len(hunks)
           /\ Parser!LinesOf(longer) = Parser!LinesOf(hunks) \o more
<1> DEFINE N == Len(hunks)
           last == hunks[N]
           last2 == [last EXCEPT !.lines = @ \o more]
<1>1. PICK front \in Seq(Parser!Hunk), x \in Parser!Hunk : hunks = Append(front, x)
  BY SequenceEmptyOrAppend
<1>2. /\ Len(front) = N - 1 /\ Len(front) \in Nat /\ N \in Nat /\ N \in 1 .. N /\ last = x
      /\ \A i \in 1 .. N - 1 : hunks[i] = front[i]
  BY <1>1, AppendProperties, LenProperties
<1>3. x.lines \in Seq(Parser!HunkLine)
  BY DEF Parser!Hunk
<1>4. x.lines \o more \in Seq(Parser!HunkLine)
  BY <1>3, ConcatProperties
<1>5. last2 \in Parser!Hunk /\ last2.lines = x.lines \o more
  BY <1>2, <1>4 DEF Parser!Hunk
<1> DEFINE new == Append(front, last2)
<1>6. longer = [hunks EXCEPT ![N] = last2]
  OBVIOUS
<1> HIDE DEF N, last, last2
<1>7. /\ longer \in Seq(Parser!Hunk) /\ Len(longer) = N
      /\ \A j \in 1 .. N : longer[j] = IF j = N THEN last2 ELSE hunks[j]
  <2> DEFINE H == Parser!Hunk
  <2>1. hunks \in Seq(H) /\ N \in 1 .. Len(hunks) /\ last2 \in H /\ Len(hunks) = N
    BY <1>2, <1>5 DEF N
  <2> HIDE DEF H
  <2>2. /\ [hunks EXCEPT ![N] = last2] \in Seq(H)
        /\ Len([hunks EXCEPT ![N] = last2]) = Len(hunks)
        /\ \A j \in 1 .. Len(hunks) :
             [hunks EXCEPT ![N] = last2][j] = IF j = N THEN last2 ELSE hunks[j]
    BY <2>1, ExceptSeq
  <2> QED
    BY <1>6, <2>1, <2>2 DEF H
<1>8. /\ new \in Seq(Parser!Hunk) /\ Len(new) = N /\ new[N] = last2
      /\ \A i \in 1 .. N - 1 : new[i] = front[i]
  BY <1>2, <1>5, AppendProperties
<1> HIDE DEF new
<1>9. \A i \in 1 .. N : longer[i] = new[i]
  <2> TAKE i \in 1 .. N
  <2>1. CASE i = N
    BY <1>7, <1>8, <2>1
  <2>2. CASE i # N
    <3>1. i \in 1 .. N - 1
      BY <1>2, <2>2
    <3> QED
      BY <1>2, <1>7, <1>8, <2>2, <3>1
  <2> QED
    BY <2>1, <2>2
<1>10. longer = new
  BY <1>7, <1>8, <1>9, SeqEqual
<1>11. Flat(LinesIn, hunks) = Flat(LinesIn, front) \o LinesIn[x]
  BY <1>1, Makers, FlatOfMore
<1>12. Flat(LinesIn, new) = Flat(LinesIn, front) \o LinesIn[last2]
  BY <1>5, Makers, FlatOfMore DEF new
<1>13. /\ LinesIn[x] = x.lines /\ LinesIn[last2] = x.lines \o more
       /\ Flat(LinesIn, front) \in Seq(Parser!HunkLine)
  BY <1>5, Makers, FlatType DEF LinesIn
<1>14. Flat(LinesIn, new) = Flat(LinesIn, hunks) \o more
  <2> DEFINE a == Flat(LinesIn, front)
             b == x.lines
             S == Parser!HunkLine
  <2>1. a \in Seq(S) /\ b \in Seq(S) /\ more \in Seq(S)
    BY <1>3, <1>13
  <2> HIDE DEF a, b, S
  <2>2. (a \o b) \o more = a \o (b \o more)
    BY <2>1, ConcatAssociative, SMTT(30)
  <2>3. Flat(LinesIn, hunks) = a \o b
    BY <1>11, <1>13 DEF a, b
  <2>4. Flat(LinesIn, new) = a \o (b \o more)
    BY <1>12, <1>13 DEF a, b
  <2> QED
    BY <2>2, <2>3, <2>4
<1> QED
  BY <1>7, <1>10, <1>14, LinesFlat DEF N

-----------------------------------------------------------------------------
\* Diff parser: file headers.

Names == {"dir", "path", "renamed"}
Values == Parser!Paths \cup {Parser!NoPath}
HeaderLine ==
    {line \in [kind: {"diff", "---", "+++", "from", "to", "Binary files"}, old: Values, new: Values] :
       line.kind = "diff" => line.old.pieces # <<>> /\ line.new.pieces # <<>>}

\* A path is never None, and a None has no pieces.
LEMMA PathsAreSome ==
    /\ Parser!NoPath \in Values /\ Parser!NoPath \notin Parser!Paths
    /\ \A v \in Values : v.pieces \in Seq(Names)
    /\ \A s \in Seq(Names), q \in {"", "tab", "quotes", "quotes a/", "quotes b/"} :
         /\ Parser!Path(s, q) \in Parser!Paths /\ Parser!Path(s, q) \in Values
         /\ Parser!Path(s, q) # Parser!NoPath
         /\ Parser!Path(s, q).pieces = s /\ Parser!Path(s, q).around = q
<1>1. Parser!NoPath.around = "none" /\ Parser!NoPath.pieces = <<>>
  BY DEF Parser!NoPath
<1>2. \A v \in Parser!Paths : v.around # "none" /\ v.pieces \in Seq(Names)
  BY DEF Parser!Paths, Names
<1>3. <<>> \in Seq(Names)
  BY EmptySeq
<1>4. \A s \in Seq(Names), q \in {"", "tab", "quotes", "quotes a/", "quotes b/"} :
        /\ Parser!Path(s, q) \in Parser!Paths
        /\ Parser!Path(s, q).pieces = s /\ Parser!Path(s, q).around = q
  BY DEF Parser!Path, Parser!Paths, Names
<1>5. \A v \in Values : v.pieces \in Seq(Names)
  BY <1>1, <1>2, <1>3 DEF Values
<1>6. /\ Parser!NoPath \in Values /\ Parser!NoPath \notin Parser!Paths
      /\ \A v \in Parser!Paths : v \in Values /\ v # Parser!NoPath
  BY <1>1, <1>2 DEF Values
<1>7. ASSUME NEW s \in Seq(Names), NEW q \in {"", "tab", "quotes", "quotes a/", "quotes b/"}
      PROVE  /\ Parser!Path(s, q) \in Parser!Paths /\ Parser!Path(s, q) \in Values
             /\ Parser!Path(s, q) # Parser!NoPath
             /\ Parser!Path(s, q).pieces = s /\ Parser!Path(s, q).around = q
  <2>1. /\ Parser!Path(s, q) \in Parser!Paths
        /\ Parser!Path(s, q).pieces = s /\ Parser!Path(s, q).around = q
    BY <1>4
  <2>2. Parser!Path(s, q) \in Values /\ Parser!Path(s, q) # Parser!NoPath
    BY <1>6, <2>1
  <2> QED
    BY <2>1, <2>2
<1> QED
  BY <1>5, <1>6, <1>7, ZenonT(30)

\* All but the last member of two sequences, one after the other, and the last.
LEMMA FrontAndLast ==
    ASSUME NEW S, NEW s \in Seq(S), NEW t \in Seq(S), s # <<>>, t # <<>>
    PROVE  /\ Parser!Front(s \o t) \in Seq(S) /\ Parser!Last(s \o t) \in S
           /\ \A x, y \in S : s = <<x>> /\ t = <<y>> =>
                Parser!Front(s \o t) = <<x>> /\ Parser!Last(s \o t) = y
<1> DEFINE u == s \o t
           N == Len(u)
           front == Parser!Front(u)
<1>1. /\ Len(s) \in Nat /\ Len(t) \in Nat /\ Len(s) # 0 /\ Len(t) # 0
      /\ u \in Seq(S) /\ N = Len(s) + Len(t)
      /\ \A i \in 1 .. N : u[i] = IF i <= Len(s) THEN s[i] ELSE t[i - Len(s)]
  BY EmptySeq, LenProperties, ConcatProperties
<1> HIDE DEF u
<1>2. \A i \in 1 .. N : u[i] \in S
  BY <1>1, ElementOfSeq
<1>3. front = SubSeq(u, 1, N - 1) /\ Parser!Last(u) = u[N]
  BY DEF Parser!Front, Parser!Last
<1>4. N \in Nat /\ N - 1 \in Int /\ 1 \in Int /\ N \in 1 .. N /\ N - 1 >= 1
  BY <1>1
<1> HIDE DEF N, front
<1>5. \A i \in 1 .. N - 1 : u[i] \in S
  BY <1>2, <1>4
<1>6. /\ front \in Seq(S) /\ Len(front) = N - 1
      /\ \A i \in 1 .. N - 1 : front[i] = u[i]
  <2>1. /\ front \in Seq(S) /\ Len(front) = IF 1 <= N - 1 THEN (N - 1) - 1 + 1 ELSE 0
        /\ \A i \in 1 .. (N - 1) - 1 + 1 : front[i] = u[1 + i - 1]
    BY <1>3, <1>4, <1>5, SubSeqProperties
  <2>2. (N - 1) - 1 + 1 = N - 1 /\ \A i \in 1 .. N - 1 : 1 + i - 1 = i
    BY <1>4
  <2> QED
    BY <1>4, <2>1, <2>2
<1>7. ASSUME NEW x \in S, NEW y \in S, s = <<x>>, t = <<y>>
      PROVE  front = <<x>> /\ Parser!Last(u) = y
  <2>1. Len(s) = 1 /\ Len(t) = 1 /\ s[1] = x /\ t[1] = y
    BY <1>7
  <2>2. N = 2 /\ u[1] = x /\ u[2] = y
    BY <1>1, <2>1 DEF N
  <2>3. front \in Seq(S) /\ Len(front) = 1 /\ front[1] = x
    BY <1>6, <2>2
  <2>4. <<x>> \in Seq(S) /\ Len(<<x>>) = 1 /\ <<x>>[1] = x
    OBVIOUS
  <2>5. front = <<x>>
    BY <2>3, <2>4, SeqEqual
  <2> QED
    BY <1>3, <2>2, <2>5
<1> QED
  BY <1>2, <1>3, <1>4, <1>6, <1>7 DEF u, front

\* The paths of the first line are two parts of it, however they are split, or, when
\* they are quoted, none; of two plain paths they are these.
LEMMA FallbackType ==
    ASSUME NEW b \in Parser!Block, NEW line \in HeaderLine, line.kind = "diff"
    PROVE  LET r == Parser!Fallback(b, line)
           IN  /\ r \in Parser!Block /\ r.hunks = b.hunks
               /\ r.from = b.from /\ r.to = b.to /\ r.mode = b.mode
               /\ line.old.around # "" => r.old = b.old /\ r.new = b.new
               /\ line.old.around = "" /\ line.new.around = "" =>
                    /\ r.old \in Parser!Paths /\ r.new \in Parser!Paths
                    /\ \A x, y \in Names : line.old.pieces = <<x>> /\ line.new.pieces = <<y>> =>
                         r.old = Parser!Path(<<x>>, "") /\ r.new = Parser!Path(<<y>>, "")
<1> DEFINE s == line.old.pieces
           t == line.new.pieces
           u == s \o t
           old == Parser!Path(Parser!Front(u), "")
           new == Parser!Path(<<Parser!Last(u)>>, "")
           r == Parser!Fallback(b, line)
<1>1. s \in Seq(Names) /\ t \in Seq(Names) /\ s # <<>> /\ t # <<>>
  BY PathsAreSome DEF HeaderLine
<1>2. /\ Parser!Front(u) \in Seq(Names) /\ Parser!Last(u) \in Names
      /\ \A x, y \in Names : s = <<x>> /\ t = <<y>> => Parser!Front(u) = <<x>> /\ Parser!Last(u) = y
  <2> HIDE DEF s, t
  <2> QED
    BY <1>1, FrontAndLast
<1>3. old \in Parser!Paths /\ new \in Parser!Paths
  <2> HIDE DEF u
  <2>1. <<Parser!Last(u)>> \in Seq(Names)
    BY <1>2
  <2> QED
    BY <1>2, <2>1, PathsAreSome
<1>4. \A x, y \in Names : s = <<x>> /\ t = <<y>> =>
        old = Parser!Path(<<x>>, "") /\ new = Parser!Path(<<y>>, "")
  <2> HIDE DEF u, s, t
  <2> QED
    BY <1>2
<1>5. CASE line.old.around = "" /\ line.new.around = ""
  <2>1. r = [b EXCEPT !.old = old, !.new = new]
    BY <1>5 DEF Parser!Fallback
  <2> HIDE DEF old, new, r
  <2>2. /\ r \in Parser!Block /\ r.hunks = b.hunks /\ r.from = b.from /\ r.to = b.to
        /\ r.mode = b.mode /\ r.old = old /\ r.new = new
    BY <1>3, <2>1 DEF Parser!Block
  <2> QED
    BY <1>3, <1>4, <1>5, <2>2, Zenon DEF r, s, t
<1>6. CASE ~(line.old.around = "" /\ line.new.around = "")
  <2>1. r = b
    BY <1>6 DEF Parser!Fallback
  <2> HIDE DEF r
  <2> QED
    BY <1>6, <2>1 DEF r
<1> QED
  BY <1>5, <1>6

\* The other lines of a header add what they say to a block.
LEMMA AfterFirst ==
    ASSUME NEW b \in Parser!Block, NEW line \in HeaderLine, line.kind # "diff"
    PROVE  LET r == Parser!ReadHeader(b, line)
           IN  /\ r \in Parser!Block /\ r.hunks = b.hunks
               /\ r.old = IF line.kind = "---" THEN line.old ELSE b.old
               /\ r.new = IF line.kind = "+++" THEN line.new ELSE b.new
               /\ r.from = IF line.kind = "from" THEN line.old ELSE b.from
               /\ r.to = IF line.kind = "to" THEN line.new ELSE b.to
               /\ r.mode = IF line.kind = "+++" THEN "hunks"
                           ELSE IF line.kind = "Binary files" THEN "binary" ELSE b.mode
<1> DEFINE old == IF line.kind = "---" THEN line.old ELSE b.old
           new == IF line.kind = "+++" THEN line.new ELSE b.new
           from == IF line.kind = "from" THEN line.old ELSE b.from
           to == IF line.kind = "to" THEN line.new ELSE b.to
           mode == IF line.kind = "+++" THEN "hunks"
                   ELSE IF line.kind = "Binary files" THEN "binary" ELSE b.mode
           r == Parser!ReadHeader(b, line)
<1>1. line.old \in Values /\ line.new \in Values
  BY DEF HeaderLine
<1>2. /\ b.old \in Values /\ b.new \in Values /\ b.from \in Values /\ b.to \in Values
      /\ b.mode \in {"header", "hunks", "hunk", "binary"} /\ b.hunks \in Seq(Parser!Hunk)
  BY DEF Parser!Block, Values
<1>3. /\ old \in Values /\ new \in Values /\ from \in Values /\ to \in Values
      /\ mode \in {"header", "hunks", "hunk", "binary"}
  BY <1>1, <1>2
<1>4. r = [b EXCEPT !.old = old, !.new = new, !.from = from, !.to = to, !.mode = mode]
  BY DEF Parser!ReadHeader, Parser!Block
<1>5. r = [old |-> old, new |-> new, from |-> from, to |-> to, mode |-> mode, hunks |-> b.hunks]
  <2> HIDE DEF old, new, from, to, mode, r
  <2> QED
    BY <1>4 DEF Parser!Block
<1> HIDE DEF old, new, from, to, mode, r
<1>6. r \in Parser!Block
  BY <1>2, <1>3, <1>5 DEF Parser!Block, Values
<1>7. /\ r.old = old /\ r.new = new /\ r.from = from /\ r.to = to /\ r.mode = mode
      /\ r.hunks = b.hunks
  BY <1>5
<1> QED
  BY <1>6, <1>7 DEF r, old, new, from, to, mode

\* A line of a header makes a block of a block.
LEMMA ReadHeaderType ==
    ASSUME NEW b \in Parser!Block, NEW line \in HeaderLine
    PROVE  Parser!ReadHeader(b, line) \in Parser!Block
<1>1. CASE line.kind = "diff"
  BY <1>1, FallbackType DEF Parser!ReadHeader
<1>2. CASE line.kind # "diff"
  BY <1>2, AfterFirst
<1> QED
  BY <1>1, <1>2

\* The lines are read one after the other.
LEMMA BlockIsBySteps ==
    ASSUME NEW lines \in Seq(HeaderLine)
    PROVE  \E f : /\ f \in [0 .. Len(lines) -> Parser!Block]
                  /\ f[0] = Parser!NewBlock
                  /\ \A i \in 1 .. Len(lines) : f[i] = Parser!ReadHeader(f[i - 1], lines[i])
                  /\ Parser!ReadBlock(lines) = Parser!Renamed(f[Len(lines)])
<1> DEFINE N == Len(lines)
           A == Parser!Block
           first == Parser!NewBlock
           step == [i \in 1 .. N |-> [b \in A |-> Parser!ReadHeader(b, lines[i])]]
           Runs(f) == f = [n \in 0 .. N |-> IF n = 0 THEN first ELSE Parser!ReadHeader(f[n - 1], lines[n])]
           block == CHOOSE f : Runs(f)
<1>1. N \in Nat /\ \A i \in 1 .. N : lines[i] \in HeaderLine
  BY LenProperties, ElementOfSeq
<1>2. first \in A
  BY EmptySeq DEF Parser!NewBlock, Parser!Block
<1>3. step \in [1 .. N -> [A -> A]]
  BY <1>1, ReadHeaderType
<1>4. PICK g : Goes(g, A, first, N, step)
  <2> HIDE DEF step, N, A, first
  <2> QED
    BY <1>1, <1>2, <1>3, StepsDefine
<1>5. /\ g \in [0 .. N -> A] /\ g[0] = first
      /\ \A i \in 1 .. N : i - 1 \in 0 .. N /\ g[i] = Parser!ReadHeader(g[i - 1], lines[i])
  <2>1. g \in [0 .. N -> A] /\ g[0] = first /\ \A i \in 1 .. N : g[i] = step[i][g[i - 1]]
    BY <1>4 DEF Goes
  <2> HIDE DEF A, N, first
  <2>2. \A i \in 1 .. N : i - 1 \in 0 .. N
    BY <1>1
  <2>3. \A i \in 1 .. N : g[i] = Parser!ReadHeader(g[i - 1], lines[i])
    BY <2>1, <2>2
  <2> QED
    BY <2>1, <2>2, <2>3
<1>6. Runs(g)
  <2> HIDE DEF N, first
  <2>1. \A n \in 0 .. N : g[n] = IF n = 0 THEN first ELSE Parser!ReadHeader(g[n - 1], lines[n])
    BY <1>1, <1>5
  <2> HIDE DEF A
  <2> QED
    BY <1>5, <2>1
<1>7. Runs(block)
  <2> HIDE DEF Runs
  <2> QED
    BY <1>6
<1>8. Parser!ReadBlock(lines) = Parser!Renamed(block[N])
  BY DEF Parser!ReadBlock
<1> HIDE DEF block
<1> DEFINE T == {n \in Nat : n <= N => block[n] = g[n]}
<1>9. 0 \in T
  <2> HIDE DEF N, first
  <2> QED
    BY <1>1, <1>5, <1>7
<1>10. ASSUME NEW n \in Nat, n \in T PROVE n + 1 \in T
  <2> SUFFICES ASSUME n + 1 <= N PROVE block[n + 1] = g[n + 1]
    OBVIOUS
  <2>1. n + 1 \in 1 .. N /\ n + 1 \in 0 .. N /\ n + 1 # 0 /\ (n + 1) - 1 = n /\ block[n] = g[n]
    BY <1>1, <1>10
  <2>2. block[n + 1] = Parser!ReadHeader(block[(n + 1) - 1], lines[n + 1])
    <3> HIDE DEF N, first
    <3> QED
      BY <1>7, <2>1
  <2>3. g[n + 1] = Parser!ReadHeader(g[(n + 1) - 1], lines[n + 1])
    BY <1>5, <2>1
  <2> QED
    BY <2>1, <2>2, <2>3
<1>11. Nat \subseteq T
  <2> HIDE DEF T
  <2> QED
    BY <1>9, <1>10, Inductive
<1>12. block[N] = g[N]
  BY <1>1, <1>11
<1> QED
  BY <1>5, <1>8, <1>12

\* A block that has read lines of the header of a file, with these paths.
Has(b, old, new, from, to, mode) ==
    /\ b \in Parser!Block /\ b.hunks = <<>>
    /\ b.old = old /\ b.new = new /\ b.from = from /\ b.to = to /\ b.mode = mode

\* A block that is true to what happened to its file: its kind, its path, and
\* whether it has hunks.
BlockTrue(b, change) ==
    /\ Parser!TrueKind(b, change) /\ Parser!TruePath(b, change)
    /\ change.kind \in Parser!WithHunks => b.mode \in {"hunks", "hunk"}

\* The lines of a header that follow the first.
LEMMA HeaderLines ==
    ASSUME NEW kind \in {"---", "+++", "from", "to", "Binary files"}, NEW o \in Values, NEW n \in Values
    PROVE  Parser!Line(kind, o, n) \in HeaderLine
BY DEF Parser!Line, HeaderLine

\* A line is added to what a block has.
LEMMA HasMore ==
    ASSUME NEW b, NEW old, NEW new, NEW from, NEW to, NEW mode, Has(b, old, new, from, to, mode),
           NEW kind \in {"---", "+++", "from", "to", "Binary files"},
           NEW o \in Values, NEW n \in Values
    PROVE  Has(Parser!ReadHeader(b, Parser!Line(kind, o, n)),
               IF kind = "---" THEN o ELSE old,
               IF kind = "+++" THEN n ELSE new,
               IF kind = "from" THEN o ELSE from,
               IF kind = "to" THEN n ELSE to,
               IF kind = "+++" THEN "hunks" ELSE IF kind = "Binary files" THEN "binary" ELSE mode)
<1> DEFINE line == Parser!Line(kind, o, n)
<1>1. line \in HeaderLine /\ line.kind = kind /\ line.old = o /\ line.new = n
  BY DEF Parser!Line, HeaderLine
<1>2. b \in Parser!Block
  BY DEF Has
<1> DEFINE r == Parser!ReadHeader(b, line)
<1> HIDE DEF line
<1>3. /\ r \in Parser!Block /\ r.hunks = b.hunks
      /\ r.old = IF kind = "---" THEN o ELSE b.old
      /\ r.new = IF kind = "+++" THEN n ELSE b.new
      /\ r.from = IF kind = "from" THEN o ELSE b.from
      /\ r.to = IF kind = "to" THEN n ELSE b.to
      /\ r.mode = IF kind = "+++" THEN "hunks"
                  ELSE IF kind = "Binary files" THEN "binary" ELSE b.mode
  BY <1>1, <1>2, AfterFirst, Zenon
<1> HIDE DEF r
<1> QED
  BY <1>3 DEF Has, r, line

\* A block that has read nothing has nothing.
LEMMA HasNothing == LET no == Parser!NoPath IN Has(Parser!NewBlock, no, no, no, no, "header")
BY EmptySeq DEF Has, Parser!NewBlock, Parser!Block

\* Rename lines are preferred.
LEMMA HasRenamed ==
    ASSUME NEW b, NEW old, NEW new, NEW from, NEW to, NEW mode, Has(b, old, new, from, to, mode)
    PROVE  LET o == IF from = Parser!NoPath THEN old ELSE from
               n == IF to = Parser!NoPath THEN new ELSE to
           IN  Has(Parser!Renamed(b), o, n, from, to, mode)
BY DEF Has, Parser!Renamed, Parser!Block

\* The name of a file before and after a change.
LEMMA NameFacts ==
    ASSUME NEW change \in Parser!Changes
    PROVE  /\ Parser!Before(change) \in Seq(Names) /\ Parser!Before(change) # <<>>
           /\ Parser!After(change) \in Seq(Names) /\ Parser!After(change) # <<>>
           /\ change.kind \notin Parser!Renames => Parser!Before(change) = Parser!After(change)
           /\ change.kind \in Parser!Renames => Parser!Before(change) # Parser!After(change)
           /\ change.name = "plain" => \E x, y \in Names : /\ Parser!Before(change) = <<x>>
                                                           /\ Parser!After(change) = <<y>>
<1>1. "dir" \in Names /\ "path" \in Names /\ "renamed" \in Names
  BY DEF Names
<1>2. CASE change.name = "split"
  <2>1. /\ Parser!Before(change) = <<"dir", "path">>
        /\ Parser!After(change) = <<"dir", IF change.kind \in Parser!Renames THEN "renamed" ELSE "path">>
    BY <1>2 DEF Parser!Before, Parser!After, Parser!Pieces
  <2> QED
    BY <1>1, <1>2, <2>1
<1>3. CASE change.name # "split"
  <2>1. /\ Parser!Before(change) = <<"path">>
        /\ Parser!After(change) = <<IF change.kind \in Parser!Renames THEN "renamed" ELSE "path">>
    BY <1>3 DEF Parser!Before, Parser!After, Parser!Pieces
  <2> QED
    BY <1>1, <2>1
<1> QED
  BY <1>2, <1>3

\* The paths that a line can have.
LEMMA OldAndNew ==
    ASSUME NEW change \in Parser!Changes,
           NEW quotes \in {"quotes", "quotes a/", "quotes b/"}, NEW space \in {"", "tab"}
    PROVE  LET old == Parser!Old(change, quotes, space)
               new == Parser!New(change, quotes, space)
           IN  /\ old \in Parser!Paths /\ old \in Values /\ old # Parser!NoPath
               /\ new \in Parser!Paths /\ new \in Values /\ new # Parser!NoPath
               /\ old.pieces = Parser!Before(change) /\ new.pieces = Parser!After(change)
               /\ old.around = Parser!Around(change, quotes, space)
               /\ new.around = Parser!Around(change, quotes, space)
<1>1. Parser!Around(change, quotes, space) \in {"", "tab", "quotes", "quotes a/", "quotes b/"}
  BY DEF Parser!Around
<1>2. Parser!Before(change) \in Seq(Names) /\ Parser!After(change) \in Seq(Names)
  BY NameFacts
<1> DEFINE q == Parser!Around(change, quotes, space)
           s == Parser!Before(change)
           t == Parser!After(change)
<1>3. Parser!Old(change, quotes, space) = Parser!Path(s, q)
      /\ Parser!New(change, quotes, space) = Parser!Path(t, q)
  BY DEF Parser!Old, Parser!New
<1> HIDE DEF q, s, t
<1>4. ASSUME NEW u \in Seq(Names)
      PROVE  /\ Parser!Path(u, q) \in Parser!Paths /\ Parser!Path(u, q) \in Values
             /\ Parser!Path(u, q) # Parser!NoPath
             /\ Parser!Path(u, q).pieces = u /\ Parser!Path(u, q).around = q
  BY <1>1, PathsAreSome DEF q
<1>5. s \in Seq(Names) /\ t \in Seq(Names)
  BY <1>2 DEF s, t
<1> QED
  BY <1>3, <1>4, <1>5, Zenon DEF q, s, t

\* The first line of a header: a file that is not quoted has two paths, the true
\* ones when its name is plain, and one that is quoted has none.
FirstRead(b, change) ==
    \E old, new \in Values :
      /\ Has(b, old, new, Parser!NoPath, Parser!NoPath, "header")
      /\ \/ old = Parser!NoPath /\ new = Parser!NoPath /\ change.name = "quoted"
         \/ old # Parser!NoPath /\ new # Parser!NoPath
      /\ change.name = "plain" => new = Parser!Path(Parser!After(change), "")

First(change) ==
    Parser!Line("diff", Parser!Old(change, "quotes a/", ""), Parser!New(change, "quotes b/", ""))

\* The parser reads the first line.
LEMMA FirstIsRead ==
    ASSUME NEW change \in Parser!Changes
    PROVE  /\ First(change) \in HeaderLine
           /\ FirstRead(Parser!ReadHeader(Parser!NewBlock, First(change)), change)
<1> DEFINE o == Parser!Old(change, "quotes a/", "")
           n == Parser!New(change, "quotes b/", "")
           line == First(change)
           no == Parser!NoPath
           r == Parser!ReadHeader(Parser!NewBlock, line)
<1>1. /\ o \in Values /\ n \in Values
      /\ o.pieces = Parser!Before(change) /\ n.pieces = Parser!After(change)
      /\ o.around = Parser!Around(change, "quotes a/", "")
      /\ n.around = Parser!Around(change, "quotes b/", "")
  BY OldAndNew
<1>2. line = [kind |-> "diff", old |-> o, new |-> n]
  BY DEF First, Parser!Line
<1> HIDE DEF o, n, line
<1>3. line \in HeaderLine /\ line.kind = "diff" /\ line.old = o /\ line.new = n
  BY <1>1, <1>2, NameFacts DEF HeaderLine
<1>4. Has(Parser!NewBlock, no, no, no, no, "header")
  BY HasNothing
<1>5. r = Parser!Fallback(Parser!NewBlock, line) /\ Parser!NewBlock \in Parser!Block
  BY <1>3, <1>4 DEF Parser!ReadHeader, Has
<1> HIDE DEF r
<1>6. /\ r \in Parser!Block /\ r.hunks = <<>> /\ r.from = no /\ r.to = no /\ r.mode = "header"
      /\ o.around # "" => r.old = no /\ r.new = no
      /\ o.around = "" /\ n.around = "" =>
           /\ r.old \in Parser!Paths /\ r.new \in Parser!Paths
           /\ \A x, y \in Names : o.pieces = <<x>> /\ n.pieces = <<y>> =>
                r.new = Parser!Path(<<y>>, "")
  <2> HIDE DEF no
  <2> QED
    BY <1>3, <1>4, <1>5, FallbackType DEF Has
<1>7. r.old \in Values /\ r.new \in Values /\ Has(r, r.old, r.new, no, no, "header")
  BY <1>6 DEF Parser!Block, Has, Values
<1>8. CASE change.name = "quoted"
  <2>1. o.around = "quotes a/"
    BY <1>1, <1>8 DEF Parser!Around
  <2>2. r.old = no /\ r.new = no
    BY <1>6, <2>1
  <2>3. FirstRead(r, change)
    BY <1>7, <1>8, <2>2 DEF FirstRead
  <2> QED
    BY <1>3, <2>3 DEF r, line
<1>9. CASE change.name # "quoted"
  <2>1. o.around = "" /\ n.around = ""
    BY <1>1, <1>9 DEF Parser!Around
  <2>2. r.old # no /\ r.new # no
    BY <1>6, <2>1, PathsAreSome
  <2>3. change.name = "plain" => r.new = Parser!Path(Parser!After(change), "")
    BY <1>1, <1>6, <2>1, NameFacts
  <2>4. FirstRead(r, change)
    BY <1>7, <2>2, <2>3 DEF FirstRead
  <2> QED
    BY <1>3, <2>4 DEF r, line
<1> QED
  BY <1>8, <1>9

\* A file whose first line alone is read.
LEMMA OpenedByRest ==
    ASSUME NEW change \in Parser!Changes
    PROVE  LET b == Parser!ReadBlock(<<Parser!GitHeader(change)[1]>>)
           IN  b \in Parser!Block /\ b.mode = "header"
<1> DEFINE lines == <<First(change)>>
<1>1. Parser!GitHeader(change)[1] = First(change)
  BY DEF Parser!GitHeader, First
<1>2. First(change) \in HeaderLine /\ FirstRead(Parser!ReadHeader(Parser!NewBlock, First(change)), change)
  BY FirstIsRead
<1>3. lines \in Seq(HeaderLine) /\ Len(lines) = 1 /\ lines[1] = First(change)
  BY <1>2
<1> HIDE DEF lines
<1>4. PICK f : /\ f[0] = Parser!NewBlock
               /\ \A i \in 1 .. Len(lines) : f[i] = Parser!ReadHeader(f[i - 1], lines[i])
               /\ Parser!ReadBlock(lines) = Parser!Renamed(f[Len(lines)])
  BY <1>3, BlockIsBySteps
<1>5. f[1] = Parser!ReadHeader(Parser!NewBlock, First(change))
  BY <1>3, <1>4
<1>6. PICK old \in Values, new \in Values : Has(f[1], old, new, Parser!NoPath, Parser!NoPath, "header")
  BY <1>2, <1>5 DEF FirstRead
<1>7. Has(Parser!Renamed(f[1]), old, new, Parser!NoPath, Parser!NoPath, "header")
  BY <1>6, HasRenamed
<1> QED
  BY <1>1, <1>3, <1>4, <1>7 DEF Has, lines

\* The parser makes of a header what happened to the file.
LEMMA HeaderIsTrue ==
    ASSUME NEW change \in Parser!Changes
    PROVE  LET b == Parser!ReadBlock(Parser!GitHeader(change))
           IN  b \in Parser!Block /\ b.hunks = <<>> /\ b.mode # "hunk" /\ BlockTrue(b, change)
<1> DEFINE lines == Parser!GitHeader(change)
           r == Parser!ReadBlock(lines)
           no == Parser!NoPath
           kinds == {"---", "+++", "from", "to", "Binary files"}
           before == Parser!Old(change, "quotes a/", "tab")
           after == Parser!New(change, "quotes b/", "tab")
           source == Parser!Old(change, "quotes", "")
           target == Parser!New(change, "quotes", "")
           o == IF change.kind = "added" THEN no ELSE before
           n == IF change.kind = "deleted" THEN no ELSE after
           first == First(change)
           from == Parser!Line("from", source, no)
           to == Parser!Line("to", no, target)
           minus == Parser!Line("---", o, no)
           plus == Parser!Line("+++", no, n)
           binary == Parser!Line("Binary files", no, no)
           plain == Parser!Path(Parser!After(change), "")
<1>1. /\ no \in Values /\ before \in Values /\ after \in Values /\ source \in Values /\ target \in Values
      /\ before # no /\ after # no /\ source # no /\ target # no
      /\ before.pieces = Parser!Before(change) /\ after.pieces = Parser!After(change)
      /\ source.pieces = Parser!Before(change) /\ target.pieces = Parser!After(change)
  <2>1. before \in Values /\ before # no /\ before.pieces = Parser!Before(change)
    BY OldAndNew
  <2>2. after \in Values /\ after # no /\ after.pieces = Parser!After(change)
    BY OldAndNew
  <2>3. source \in Values /\ source # no /\ source.pieces = Parser!Before(change)
    BY OldAndNew
  <2>4. target \in Values /\ target # no /\ target.pieces = Parser!After(change)
    BY OldAndNew
  <2> QED
    BY <2>1, <2>2, <2>3, <2>4, PathsAreSome
<1>2. /\ change.kind \in Parser!Renames => source # target
      /\ change.name # "quoted" /\ change.kind \notin Parser!Renames => before = after
      /\ change.name = "plain" => after = plain /\ target = plain
  <2>1. change.kind \in Parser!Renames => Parser!Before(change) # Parser!After(change)
    BY NameFacts
  <2>2. change.kind \notin Parser!Renames => Parser!Before(change) = Parser!After(change)
    BY NameFacts
  <2>3. change.name # "quoted" =>
          Parser!Around(change, "quotes a/", "tab") = Parser!Around(change, "quotes b/", "tab")
    BY DEF Parser!Around
  <2>4. change.name = "plain" => /\ Parser!Around(change, "quotes b/", "tab") = ""
                                 /\ Parser!Around(change, "quotes", "") = ""
    BY DEF Parser!Around
  <2>5. change.name # "quoted" /\ change.kind \notin Parser!Renames => before = after
    BY <2>2, <2>3 DEF Parser!Old, Parser!New
  <2>6. change.name = "plain" => after = plain /\ target = plain
    BY <2>4 DEF Parser!New
  <2> HIDE DEF before, after, source, target, plain
  <2> QED
    BY <1>1, <2>1, <2>5, <2>6
<1>3. o \in Values /\ n \in Values
  <2> HIDE DEF before, after
  <2> QED
    BY <1>1
<1>4. first \in HeaderLine /\ FirstRead(Parser!ReadHeader(Parser!NewBlock, first), change)
  BY FirstIsRead
<1>5. {from, to, minus, plus, binary} \subseteq HeaderLine
  <2>1. ASSUME NEW kind \in kinds, NEW p \in Values, NEW q \in Values
        PROVE  Parser!Line(kind, p, q) \in HeaderLine
    BY HeaderLines
  <2>2. no \in Values /\ o \in Values /\ n \in Values /\ source \in Values /\ target \in Values
    BY <1>1, <1>3
  <2> HIDE DEF source, target, o, n, no
  <2>3. /\ from \in HeaderLine /\ to \in HeaderLine /\ minus \in HeaderLine
        /\ plus \in HeaderLine /\ binary \in HeaderLine
    BY <2>1, <2>2
  <2> HIDE DEF from, to, minus, plus, binary
  <2> QED
    BY <2>3
<1>6. lines =
        IF change.kind \in {"modified", "added", "deleted"} THEN <<first, minus, plus>>
        ELSE IF change.kind = "renamed" THEN <<first, from, to>>
        ELSE IF change.kind = "moved" THEN <<first, from, to, minus, plus>>
        ELSE IF change.kind = "binary_moved" THEN <<first, from, to, binary>>
        ELSE IF change.kind = "empty" THEN <<first>>
        ELSE <<first, binary>>
  BY DEF Parser!GitHeader, First
<1> HIDE DEF lines
<1> HIDE DEF first, from, to, minus, plus, binary
<1>7. lines \in Seq(HeaderLine)
  BY <1>4, <1>5, <1>6
<1>8. PICK f : /\ f[0] = Parser!NewBlock
               /\ \A i \in 1 .. Len(lines) : f[i] = Parser!ReadHeader(f[i - 1], lines[i])
               /\ r = Parser!Renamed(f[Len(lines)])
  BY <1>7, BlockIsBySteps
<1> HIDE DEF r
<1>9. f[1] = Parser!ReadHeader(Parser!NewBlock, first)
  <2>1. Len(lines) \in Nat /\ Len(lines) >= 1 /\ lines[1] = first
    BY <1>6
  <2> QED
    BY <1>8, <2>1
<1>10. PICK x1 \in Values, x2 \in Values :
         /\ Has(f[1], x1, x2, no, no, "header")
         /\ \/ x1 = no /\ x2 = no /\ change.name = "quoted"
            \/ x1 # no /\ x2 # no
         /\ change.name = "plain" => x2 = plain
  BY <1>4, <1>9 DEF FirstRead
<1> HIDE DEF before, after, source, target, o, n, no, plain
<1>11. ASSUME NEW b, NEW y1, NEW y2, NEW y3, NEW y4, NEW m, Has(b, y1, y2, y3, y4, m)
       PROVE  /\ Has(Parser!ReadHeader(b, from), y1, y2, source, y4, m)
              /\ Has(Parser!ReadHeader(b, to), y1, y2, y3, target, m)
              /\ Has(Parser!ReadHeader(b, minus), o, y2, y3, y4, m)
              /\ Has(Parser!ReadHeader(b, plus), y1, n, y3, y4, "hunks")
              /\ Has(Parser!ReadHeader(b, binary), y1, y2, y3, y4, "binary")
  <2>1. \A kind \in kinds, p, q \in Values :
          Has(Parser!ReadHeader(b, Parser!Line(kind, p, q)),
              IF kind = "---" THEN p ELSE y1,
              IF kind = "+++" THEN q ELSE y2,
              IF kind = "from" THEN p ELSE y3,
              IF kind = "to" THEN q ELSE y4,
              IF kind = "+++" THEN "hunks" ELSE IF kind = "Binary files" THEN "binary" ELSE m)
    BY <1>11, HasMore
  <2>2. Has(Parser!ReadHeader(b, from), y1, y2, source, y4, m)
    BY <1>1, <2>1 DEF from
  <2>3. Has(Parser!ReadHeader(b, to), y1, y2, y3, target, m)
    BY <1>1, <2>1 DEF to
  <2>4. Has(Parser!ReadHeader(b, minus), o, y2, y3, y4, m)
    BY <1>1, <1>3, <2>1 DEF minus
  <2>5. Has(Parser!ReadHeader(b, plus), y1, n, y3, y4, "hunks")
    BY <1>1, <1>3, <2>1 DEF plus
  <2>6. Has(Parser!ReadHeader(b, binary), y1, y2, y3, y4, "binary")
    BY <1>1, <2>1 DEF binary
  <2> QED
    BY <2>2, <2>3, <2>4, <2>5, <2>6
<1>12. ASSUME NEW b, NEW y1, NEW y2, NEW y3, NEW y4, NEW m, Has(b, y1, y2, y3, y4, m)
       PROVE  Has(Parser!Renamed(b), IF y3 = no THEN y1 ELSE y3, IF y4 = no THEN y2 ELSE y4, y3, y4, m)
  BY <1>12, HasRenamed DEF no
<1>13. change.kind \in Parser!Kinds
  BY DEF Parser!Changes
<1>14. CASE change.kind \in {"modified", "added", "deleted"}
  <2>1. Len(lines) = 3 /\ lines[2] = minus /\ lines[3] = plus
    BY <1>6, <1>14
  <2>2. f[2] = Parser!ReadHeader(f[1], minus) /\ f[3] = Parser!ReadHeader(f[2], plus)
    BY <1>8, <2>1
  <2>3. Has(f[2], o, x2, no, no, "header")
    BY <1>10, <1>11, <2>2
  <2>4. Has(f[3], o, n, no, no, "hunks")
    BY <1>11, <2>2, <2>3
  <2>5. Has(r, o, n, no, no, "hunks")
    BY <1>8, <1>12, <2>1, <2>4
  <2>6. /\ change.kind \notin Parser!Renames
        /\ o = (IF change.kind = "added" THEN no ELSE before)
        /\ n = (IF change.kind = "deleted" THEN no ELSE after)
    BY <1>14 DEF o, n, Parser!Renames
  <2>7. /\ Parser!IsNewFile(r) <=> change.kind = "added"
        /\ Parser!IsDeletedFile(r) <=> change.kind = "deleted"
        /\ change.name # "quoted" \/ change.kind # "modified" => ~Parser!IsRename(r)
    BY <1>1, <1>2, <1>14, <2>5, <2>6
       DEF Has, no, Parser!IsNewFile, Parser!IsDeletedFile, Parser!IsRename
  <2>8. Parser!TrueKind(r, change)
    BY <2>6, <2>7 DEF Parser!TrueKind, Parser!Told
  <2>9. Parser!TruePath(r, change)
    BY <1>1, <1>2, <1>14, <2>5, <2>6 DEF Has, no, plain, Parser!TruePath, Parser!CanonicalPath
  <2> QED
    BY <2>5, <2>8, <2>9 DEF Has, BlockTrue, r, lines
<1>15. ASSUME change.kind \in Parser!Renames, NEW m \in {"header", "hunks", "binary"},
              Has(r, source, target, source, target, m), change.kind = "moved" => m = "hunks"
       PROVE  r \in Parser!Block /\ r.hunks = <<>> /\ r.mode # "hunk" /\ BlockTrue(r, change)
  <2>1. /\ change.kind \notin {"added", "deleted"}
        /\ change.kind \in Parser!WithHunks => change.kind = "moved"
    BY <1>15 DEF Parser!Renames, Parser!WithHunks
  <2>2. ~Parser!IsNewFile(r) /\ ~Parser!IsDeletedFile(r) /\ Parser!IsRename(r)
    BY <1>1, <1>2, <1>15 DEF Has, no, Parser!IsNewFile, Parser!IsDeletedFile, Parser!IsRename
  <2>3. Parser!TrueKind(r, change)
    BY <1>15, <2>1, <2>2 DEF Parser!TrueKind
  <2>4. Parser!TruePath(r, change)
    BY <1>1, <1>2, <1>15 DEF Has, no, plain, Parser!TruePath, Parser!CanonicalPath
  <2> QED
    BY <1>15, <2>1, <2>3, <2>4 DEF Has, BlockTrue
<1>16. CASE change.kind = "renamed"
  <2>1. Len(lines) = 3 /\ lines[2] = from /\ lines[3] = to
    BY <1>6, <1>16
  <2>2. f[2] = Parser!ReadHeader(f[1], from) /\ f[3] = Parser!ReadHeader(f[2], to)
    BY <1>8, <2>1
  <2>3. Has(f[2], x1, x2, source, no, "header")
    BY <1>10, <1>11, <2>2
  <2>4. Has(f[3], x1, x2, source, target, "header")
    BY <1>11, <2>2, <2>3
  <2>5. Has(r, source, target, source, target, "header")
    BY <1>1, <1>8, <1>12, <2>1, <2>4
  <2>6. change.kind \in Parser!Renames
    BY <1>16 DEF Parser!Renames
  <2> QED
    BY <1>15, <1>16, <2>5, <2>6 DEF r, lines
<1>17. CASE change.kind = "moved"
  <2>1. Len(lines) = 5 /\ lines[2] = from /\ lines[3] = to /\ lines[4] = minus /\ lines[5] = plus
    BY <1>6, <1>17
  <2>2. /\ f[2] = Parser!ReadHeader(f[1], from) /\ f[3] = Parser!ReadHeader(f[2], to)
        /\ f[4] = Parser!ReadHeader(f[3], minus) /\ f[5] = Parser!ReadHeader(f[4], plus)
    BY <1>8, <2>1
  <2>3. Has(f[2], x1, x2, source, no, "header")
    BY <1>10, <1>11, <2>2
  <2>4. Has(f[3], x1, x2, source, target, "header")
    BY <1>11, <2>2, <2>3
  <2>5. Has(f[4], o, x2, source, target, "header")
    BY <1>11, <2>2, <2>4
  <2>6. Has(f[5], o, n, source, target, "hunks")
    BY <1>11, <2>2, <2>5
  <2>7. Has(r, source, target, source, target, "hunks")
    BY <1>1, <1>8, <1>12, <2>1, <2>6
  <2>8. change.kind \in Parser!Renames
    BY <1>17 DEF Parser!Renames
  <2> QED
    BY <1>15, <2>7, <2>8 DEF r, lines
<1>18. CASE change.kind = "binary_moved"
  <2>1. Len(lines) = 4 /\ lines[2] = from /\ lines[3] = to /\ lines[4] = binary
    BY <1>6, <1>18
  <2>2. /\ f[2] = Parser!ReadHeader(f[1], from) /\ f[3] = Parser!ReadHeader(f[2], to)
        /\ f[4] = Parser!ReadHeader(f[3], binary)
    BY <1>8, <2>1
  <2>3. Has(f[2], x1, x2, source, no, "header")
    BY <1>10, <1>11, <2>2
  <2>4. Has(f[3], x1, x2, source, target, "header")
    BY <1>11, <2>2, <2>3
  <2>5. Has(f[4], x1, x2, source, target, "binary")
    BY <1>11, <2>2, <2>4
  <2>6. Has(r, source, target, source, target, "binary")
    BY <1>1, <1>8, <1>12, <2>1, <2>5
  <2>7. change.kind \in Parser!Renames
    BY <1>18 DEF Parser!Renames
  <2> QED
    BY <1>15, <1>18, <2>6, <2>7 DEF r, lines
<1>19. ASSUME change.kind \notin Parser!Renames, change.kind \notin Parser!WithHunks,
              NEW m \in {"header", "binary"}, Has(r, x1, x2, no, no, m)
       PROVE  r \in Parser!Block /\ r.hunks = <<>> /\ r.mode # "hunk" /\ BlockTrue(r, change)
  <2>1. ~Parser!IsNewFile(r) /\ ~Parser!IsDeletedFile(r) /\ ~Parser!Told(change)
    BY <1>10, <1>19 DEF Has, no, Parser!IsNewFile, Parser!IsDeletedFile, Parser!Told
  <2>2. Parser!TrueKind(r, change)
    BY <2>1 DEF Parser!TrueKind
  <2>3. Parser!TruePath(r, change)
    BY <1>10, <1>19 DEF Has, no, plain, Parser!TruePath, Parser!CanonicalPath
  <2> QED
    BY <1>19, <2>2, <2>3 DEF Has, BlockTrue
<1>20. CASE change.kind = "empty"
  <2>1. Len(lines) = 1
    BY <1>6, <1>20
  <2>2. Has(r, x1, x2, no, no, "header")
    BY <1>8, <1>10, <1>12, <2>1
  <2>3. change.kind \notin Parser!Renames /\ change.kind \notin Parser!WithHunks
    BY <1>20 DEF Parser!Renames, Parser!WithHunks
  <2> QED
    BY <1>19, <2>2, <2>3 DEF r, lines
<1>21. CASE change.kind = "binary"
  <2>1. Len(lines) = 2 /\ lines[2] = binary
    BY <1>6, <1>21
  <2>2. f[2] = Parser!ReadHeader(f[1], binary)
    BY <1>8, <2>1
  <2>3. Has(f[2], x1, x2, no, no, "binary")
    BY <1>10, <1>11, <2>2
  <2>4. Has(r, x1, x2, no, no, "binary")
    BY <1>8, <1>12, <2>1, <2>3
  <2>5. change.kind \notin Parser!Renames /\ change.kind \notin Parser!WithHunks
    BY <1>21 DEF Parser!Renames, Parser!WithHunks
  <2> QED
    BY <1>19, <2>4, <2>5 DEF r, lines
<1> QED
  BY <1>13, <1>14, <1>16, <1>17, <1>18, <1>20, <1>21 DEF Parser!Kinds, Parser!WithHunks, Parser!Renames

-----------------------------------------------------------------------------
\* Diff parser: the invariant.

\* The last file has a hunk, the one that the parser is in when it is in one.
Open == files # <<>> /\ files[Len(files)].hunks # <<>>
OpenHunk == files[Len(files)].hunks[Len(files[Len(files)].hunks)]

\* The numbers that the lines have in the new file, and the lines of the old file.
News(lines) == {lines[i].new : i \in DOMAIN lines} \ {0}
Olds(lines) == {i \in DOMAIN lines : lines[i].old # 0}

\* A hunk is read but for so many lines.
ReadBut(hunk, oldLeft, newLeft) ==
    /\ oldLeft <= hunk.old_count /\ newLeft <= hunk.new_count
    /\ Cardinality(Olds(hunk.lines)) = hunk.old_count - oldLeft
    /\ hunk.new_count > 0 =>
         News(hunk.lines) = hunk.new_start .. hunk.new_start + (hunk.new_count - newLeft) - 1

\* The counters are at the lines that git is at, where it has lines left.
CursorFollows ==
    /\ git.oldLeft > 0 => cursor.old = git.old + 1
    /\ git.newLeft > 0 =>
         /\ cursor.new = git.new + 1
         /\ cursor.new = OpenHunk.new_start + (OpenHunk.new_count - git.newLeft)

\* Every hunk is read to its end, but for what git has left of the last one.
HunksRead ==
    \A f \in DOMAIN files : \A h \in DOMAIN files[f].hunks :
        LET last == f = Len(files) /\ h = Len(files[f].hunks)
        IN  ReadBut(files[f].hunks[h], IF last THEN git.oldLeft ELSE 0,
                                       IF last THEN git.newLeft ELSE 0)

\* The header of each file is read truly, and git adds no line to a deleted one.
HeadersTrue ==
    \A f \in DOMAIN files :
        /\ BlockTrue(files[f], changes[f])
        /\ changes[f].kind = "deleted" =>
             \A i \in DOMAIN written[f] : written[f][i].type # "add"

\* git has lines of a hunk left.
InGitHunk == git.oldLeft > 0 \/ git.newLeft > 0

\* As long as no line is cut the parser is where git is.
Uncut ==
    /\ Len(files) = Len(changes)
    /\ InGitHunk => Parser!InHunk
    /\ git.newLeft > 0 => changes[Len(changes)].kind # "deleted"
    /\ HeadersTrue /\ Parser!LinesTrue /\ HunksRead /\ CursorFollows

\* After that, the files up to the one with the cut are as they were.
Contained ==
    /\ cut \in 1 .. Len(files) /\ cut <= Len(changes)
    /\ \A f \in 1 .. cut - 1 : Parser!TrueLines(f)
    /\ \A f \in 1 .. cut : /\ Parser!TrueKind(files[f], changes[f])
                           /\ Parser!TruePath(files[f], changes[f])

\* A hunk that is read is there, and so is a file of which git writes one.
Shape ==
    /\ Parser!InHunk => Open
    /\ changes # <<>> => files # <<>>
    /\ InGitHunk => changes # <<>>

ParserInv == Parser!TypeOK /\ Shape /\ (IF cut = 0 THEN Uncut ELSE Contained)

-----------------------------------------------------------------------------
\* Diff parser: what a line adds to the hunk that is read.

\* The instance's operators on finite sets are those of FiniteSets.
LEMMA ParserSets == ASSUME NEW S PROVE Parser!Cardinality(S) = Cardinality(S)
<1>1. ASSUME NEW T PROVE Parser!IsFiniteSet(T) <=> IsFiniteSet(T)
  BY DEF Parser!IsFiniteSet, IsFiniteSet
<1> QED
  BY <1>1 DEF Parser!Cardinality, Cardinality

\* A line with the number that comes next in a file leaves one fewer to read.
LEMMA ReadMore ==
    ASSUME NEW hunk \in Parser!Hunk, NEW line \in Parser!HunkLine,
           NEW oldLeft \in Nat, NEW newLeft \in Nat, NEW old \in {0, 1}, NEW new \in {0, 1},
           old <= oldLeft, new <= newLeft, ReadBut(hunk, oldLeft, newLeft),
           line.old # 0 <=> old = 1, line.new # 0 <=> new = 1,
           new = 1 => line.new = hunk.new_start + (hunk.new_count - newLeft)
    PROVE  ReadBut([hunk EXCEPT !.lines = @ \o <<line>>], oldLeft - old, newLeft - new)
<1> DEFINE s == hunk.lines
           t == s \o <<line>>
           N == Len(s)
<1>1. s \in Seq(Parser!HunkLine)
  BY DEF Parser!Hunk
<1>2. /\ N \in Nat /\ DOMAIN s = 1 .. N /\ DOMAIN t = 1 .. N + 1
      /\ t[N + 1] = line /\ \A i \in 1 .. N : t[i] = s[i]
  BY <1>1, LenProperties, AppendProperties, AppendIsConcat
<1>3. \A i \in 1 .. N : s[i].old \in Nat /\ s[i].new \in Nat
  <2> TAKE i \in 1 .. N
  <2>1. s[i] \in Parser!HunkLine
    BY <1>1, <1>2, ElementOfSeq
  <2> QED
    BY <2>1 DEF Parser!HunkLine
<1>4. line.old \in Nat /\ line.new \in Nat
  BY DEF Parser!HunkLine
<1>5. [hunk EXCEPT !.lines = @ \o <<line>>].lines = t
      /\ [hunk EXCEPT !.lines = @ \o <<line>>].old_count = hunk.old_count
      /\ [hunk EXCEPT !.lines = @ \o <<line>>].new_count = hunk.new_count
      /\ [hunk EXCEPT !.lines = @ \o <<line>>].new_start = hunk.new_start
  BY DEF Parser!Hunk
<1>6. hunk.old_count \in Nat /\ hunk.new_count \in Nat /\ hunk.new_start \in Nat
  BY DEF Parser!Hunk
<1> HIDE DEF s, t, N
<1>7. Cardinality(Olds(t)) = Cardinality(Olds(s)) + old
  <2>1. Olds(s) \subseteq 1 .. N /\ IsFiniteSet(Olds(s)) /\ N + 1 \notin Olds(s)
    <3>1. Olds(s) \subseteq 1 .. N /\ N + 1 \notin Olds(s)
      BY <1>2 DEF Olds
    <3> QED
      <4>1. IsFiniteSet(1 .. N)
        BY <1>2, FS_Interval
      <4> QED
        BY <3>1, <4>1, FS_Subset
  <2>2. Olds(t) = IF old = 1 THEN Olds(s) \cup {N + 1} ELSE Olds(s)
    <3>1. ASSUME NEW i \in 1 .. N PROVE i \in Olds(t) <=> i \in Olds(s)
      BY <1>2 DEF Olds
    <3>2. N + 1 \in Olds(t) <=> old = 1
      BY <1>2 DEF Olds
    <3>3. Olds(t) \subseteq 1 .. N \cup {N + 1}
      BY <1>2 DEF Olds
    <3> DEFINE X == Olds(s)
               Y == Olds(t)
               D == 1 .. N
    <3>4. X \subseteq D /\ Y \subseteq D \cup {N + 1} /\ N + 1 \notin D
      BY <1>2, <2>1, <3>3
    <3>5. \A i \in D : i \in Y <=> i \in X
      BY <3>1
    <3>6. N + 1 \in Y <=> old = 1
      BY <3>2
    <3> HIDE DEF X, Y, D
    <3>7. Y = IF old = 1 THEN X \cup {N + 1} ELSE X
      <4>1. CASE old = 1
        BY <3>4, <3>5, <3>6, <4>1
      <4>2. CASE old # 1
        BY <3>4, <3>5, <3>6, <4>2
      <4> QED
        BY <4>1, <4>2
    <3> QED
      BY <3>7 DEF X, Y
  <2>3. Cardinality(Olds(s)) \in Nat
    BY <2>1, FS_CardinalityType
  <2>4. CASE old = 1
    <3> DEFINE X == Olds(s)
    <3>1. IsFiniteSet(X) /\ N + 1 \notin X
      BY <2>1
    <3> HIDE DEF X
    <3>2. Cardinality(X \cup {N + 1}) = Cardinality(X) + 1
      BY <3>1, FS_AddElement
    <3> QED
      BY <2>2, <2>4, <3>2 DEF X
  <2>5. CASE old # 1
    BY <2>2, <2>3, <2>5
  <2> QED
    BY <2>4, <2>5
<1>8. News(t) = IF new = 1 THEN News(s) \cup {line.new} ELSE News(s)
  <2>1. ASSUME NEW x PROVE x \in News(t) <=> (x \in News(s) \/ (x = line.new /\ new = 1))
    <3>1. CASE x \in News(t)
      <4>1. PICK i \in 1 .. N + 1 : x = t[i].new /\ x # 0
        BY <1>2, <3>1 DEF News
      <4>2. CASE i = N + 1
        <5>1. t[i] = line
          BY <1>2, <4>2
        <5>2. x = line.new /\ line.new # 0
          BY <4>1, <5>1
        <5> QED
          BY <3>1, <5>2
      <4>3. CASE i # N + 1
        <5>1. i \in 1 .. N
          BY <1>2, <4>3
        <5> QED
          BY <1>2, <3>1, <4>1, <5>1 DEF News
      <4> QED
        BY <4>2, <4>3
    <3>2. CASE x \in News(s)
      <4>1. PICK i \in 1 .. N : x = s[i].new /\ x # 0
        BY <1>2, <3>2 DEF News
      <4>2. i \in 1 .. N + 1 /\ t[i] = s[i]
        BY <1>2
      <4> QED
        BY <1>2, <3>2, <4>1, <4>2 DEF News
    <3>3. CASE x = line.new /\ new = 1
      <4>1. N + 1 \in 1 .. N + 1 /\ line.new # 0
        BY <1>2, <3>3
      <4> QED
        BY <1>2, <3>3, <4>1 DEF News
    <3> QED
      BY <3>1, <3>2, <3>3
  <2> QED
    BY <2>1
<1>9. Cardinality(Olds(s)) = hunk.old_count - oldLeft
  BY DEF ReadBut, s
<1>10. hunk.old_count - oldLeft + old = hunk.old_count - (oldLeft - old)
       /\ oldLeft - old <= hunk.old_count /\ newLeft - new <= hunk.new_count
  BY <1>6 DEF ReadBut
<1>11. ASSUME hunk.new_count > 0
       PROVE  News(t) = hunk.new_start .. hunk.new_start + (hunk.new_count - (newLeft - new)) - 1
  <2> DEFINE a == hunk.new_start
             k == hunk.new_count - newLeft
  <2>1. News(s) = a .. a + k - 1 /\ a \in Nat /\ k \in Nat
    BY <1>6, <1>11 DEF ReadBut, s
  <2>2. hunk.new_count - (newLeft - new) = k + new
    BY <1>6
  <2>3. new = 1 => line.new = a + k
    OBVIOUS
  <2> HIDE DEF a, k
  <2>4. (a .. a + k - 1) \cup {a + k} = a .. a + (k + 1) - 1
    BY <2>1
  <2>5. News(t) = a .. a + (k + new) - 1
    <3>1. CASE new = 1
      BY <1>8, <2>1, <2>3, <2>4, <3>1
    <3>2. CASE new = 0
      BY <1>8, <2>1, <3>2
    <3> QED
      BY <3>1, <3>2
  <2> QED
    BY <2>2, <2>5 DEF a
<1> QED
  <2> DEFINE more == [hunk EXCEPT !.lines = @ \o <<line>>]
  <2>1. more.lines = t /\ more.old_count = hunk.old_count /\ more.new_count = hunk.new_count
        /\ more.new_start = hunk.new_start
    BY <1>5
  <2> HIDE DEF more
  <2>2. ReadBut(more, oldLeft - old, newLeft - new)
    BY <1>7, <1>9, <1>10, <1>11, <2>1 DEF ReadBut
  <2> QED
    BY <2>2 DEF more

\* The files, with more lines in the hunk that is read.
Grown(more) ==
    [files EXCEPT ![Len(files)].hunks[Len(files[Len(files)].hunks)].lines = @ \o more]

\* Only the last file is changed: it is now b.
LastFileIs(b) ==
    LET F == Len(files)
    IN  /\ files' \in Seq(Parser!Block) /\ Len(files') = F
        /\ F \in 1 .. F /\ DOMAIN files' = 1 .. F /\ files'[F] = b
        /\ \A f \in 1 .. F : f # F => files'[f] = files[f]
        /\ \A f \in 1 .. F : files'[f].old = files[f].old /\ files'[f].new = files[f].new

\* A file with the same paths takes the place of the last one.
LEMMA LastFileChanges ==
    ASSUME files \in Seq(Parser!Block), files # <<>>, NEW b \in Parser!Block,
           b.old = files[Len(files)].old, b.new = files[Len(files)].new,
           files' = [files EXCEPT ![Len(files)] = b]
    PROVE  LastFileIs(b)
<1> DEFINE B == Parser!Block
           F == Len(files)
           all == [files EXCEPT ![F] = b]
<1>1. F \in Nat /\ F \in 1 .. F /\ files \in Seq(B) /\ b \in B
  BY EmptySeq, LenProperties
<1> HIDE DEF B
<1>2. /\ all \in Seq(B) /\ Len(all) = F
      /\ \A f \in 1 .. F : all[f] = IF f = F THEN b ELSE files[f]
  BY <1>1, ExceptSeq
<1>3. files' = all
  OBVIOUS
<1> HIDE DEF all
<1>4. DOMAIN files' = 1 .. F
  BY <1>2, <1>3, LenProperties
<1> QED
  BY <1>1, <1>2, <1>3, <1>4 DEF LastFileIs, B

\* Lines that are read come last, in the last hunk of the last file.
LEMMA ReadsKeep ==
    ASSUME files \in Seq(Parser!Block), Open, NEW more \in Seq(Parser!HunkLine),
           files' = Grown(more)
    PROVE  LET F == Len(files)
               H == Len(files[F].hunks)
           IN  /\ LastFileIs(files'[F]) /\ files'[F].mode = files[F].mode
               /\ H \in 1 .. H /\ Len(files'[F].hunks) = H /\ DOMAIN files'[F].hunks = 1 .. H
               /\ \A h \in 1 .. H : h # H => files'[F].hunks[h] = files[F].hunks[h]
               /\ files'[F].hunks[H] = [OpenHunk EXCEPT !.lines = @ \o more]
               /\ Parser!LinesOf(files'[F].hunks) = Parser!LinesOf(files[F].hunks) \o more
               /\ Open' /\ OpenHunk' = [OpenHunk EXCEPT !.lines = @ \o more]
<1> DEFINE F == Len(files)
           b == files[F]
           before == b.hunks
           H == Len(before)
           hunks == [before EXCEPT ![H].lines = @ \o more]
           c == [b EXCEPT !.hunks = hunks]
           grown == [OpenHunk EXCEPT !.lines = @ \o more]
<1>1. F \in Nat /\ F \in 1 .. F /\ files # <<>>
  BY EmptySeq, LenProperties DEF Open
<1>2. b \in Parser!Block
  BY <1>1, ElementOfSeq
<1>3. before \in Seq(Parser!Hunk) /\ before # <<>>
  BY <1>2 DEF Parser!Block, Open
<1>4. H \in Nat /\ H \in 1 .. H /\ DOMAIN before = 1 .. H
  BY <1>3, EmptySeq, LenProperties
<1>5. /\ hunks \in Seq(Parser!Hunk) /\ Len(hunks) = H
      /\ Parser!LinesOf(hunks) = Parser!LinesOf(before) \o more
  <2> HIDE DEF before
  <2> QED
    BY <1>3, LinesOfLonger
<1>6. hunks[H] = [before[H] EXCEPT !.lines = @ \o more] /\ \A h \in 1 .. H : h # H => hunks[h] = before[h]
  <2> HIDE DEF before, H
  <2> QED
    BY <1>4
<1>7. hunks[H] = grown
  BY <1>6 DEF OpenHunk
<1>8. files' = [files EXCEPT ![F] = c]
  BY DEF Grown
<1> HIDE DEF hunks, grown
<1>9. c \in Parser!Block /\ c.hunks = hunks /\ c.mode = b.mode /\ c.old = b.old /\ c.new = b.new
  <2> HIDE DEF b
  <2> QED
    BY <1>2, <1>5 DEF Parser!Block
<1> HIDE DEF c
<1>10. LastFileIs(c)
  BY <1>1, <1>8, <1>9, LastFileChanges
<1>11. files'[F] = c /\ Len(files') = F
  BY <1>10 DEF LastFileIs
<1>12. DOMAIN hunks = 1 .. H /\ hunks # <<>>
  <2>1. DOMAIN hunks = 1 .. H
    BY <1>5, LenProperties
  <2>2. Len(<<>>) = 0 /\ H # 0
    BY <1>4
  <2> QED
    BY <1>5, <2>1, <2>2
<1>13. Open' /\ OpenHunk' = grown
  <2>1. files' # <<>>
    <3>1. F # 0 /\ Len(<<>>) = 0
      BY <1>1
    <3> QED
      BY <1>11, <3>1
  <2> QED
    BY <1>5, <1>7, <1>9, <1>11, <1>12, <2>1 DEF Open, OpenHunk
<1> HIDE DEF before, H
<1> QED
  BY <1>4, <1>5, <1>6, <1>7, <1>9, <1>10, <1>11, <1>12, <1>13 DEF before, H, grown

\* A hunk is opened in the last file.
LEMMA OpensKeep ==
    ASSUME files \in Seq(Parser!Block), files # <<>>, NEW hunk \in Parser!Hunk, hunk.lines = <<>>,
           files' = [files EXCEPT ![Len(files)].mode = "hunk",
                                  ![Len(files)].hunks = Append(@, hunk)]
    PROVE  LET F == Len(files)
               H == Len(files[F].hunks)
           IN  /\ LastFileIs(files'[F]) /\ files'[F].mode = "hunk"
               /\ H \in Nat /\ DOMAIN files[F].hunks = 1 .. H
               /\ Len(files'[F].hunks) = H + 1 /\ DOMAIN files'[F].hunks = 1 .. H + 1
               /\ \A h \in 1 .. H : files'[F].hunks[h] = files[F].hunks[h]
               /\ files'[F].hunks[H + 1] = hunk
               /\ Parser!LinesOf(files'[F].hunks) = Parser!LinesOf(files[F].hunks)
               /\ Open' /\ OpenHunk' = hunk
<1> DEFINE F == Len(files)
           b == files[F]
           before == b.hunks
           H == Len(before)
           hunks == Append(before, hunk)
           c == [b EXCEPT !.mode = "hunk", !.hunks = hunks]
<1>1. F \in Nat /\ F \in 1 .. F
  BY EmptySeq, LenProperties
<1>2. b \in Parser!Block
  BY <1>1, ElementOfSeq
<1>3. before \in Seq(Parser!Hunk)
  BY <1>2 DEF Parser!Block
<1>4. H \in Nat /\ DOMAIN before = 1 .. H
  BY <1>3, LenProperties
<1>5. /\ hunks \in Seq(Parser!Hunk) /\ Len(hunks) = H + 1 /\ hunks[H + 1] = hunk
      /\ DOMAIN hunks = 1 .. H + 1 /\ \A h \in 1 .. H : hunks[h] = before[h]
  <2> HIDE DEF before
  <2> QED
    BY <1>3, AppendProperties
<1>6. Parser!LinesOf(hunks) = Parser!LinesOf(before)
  <2> HIDE DEF before
  <2> QED
    BY <1>3, LinesOfOpened
<1>7. files' = [files EXCEPT ![F] = c]
  <2> DEFINE x == [b EXCEPT !.mode = "hunk"]
             all == [files EXCEPT ![F] = x]
  <2>1. files' = [all EXCEPT ![F] = [@ EXCEPT !.hunks = hunks]]
    OBVIOUS
  <2>2. all[F] = x /\ F \in DOMAIN files
    BY <1>1, LenProperties
  <2>3. [x EXCEPT !.hunks = hunks] = c
    OBVIOUS
  <2>4. files' = [all EXCEPT ![F] = c]
    <3> HIDE DEF all, x, c, hunks, F
    <3> QED
      BY <2>1, <2>2, <2>3
  <2> HIDE DEF x, c, F
  <2> QED
    BY <2>4
<1> HIDE DEF hunks
<1>8. c \in Parser!Block /\ c.hunks = hunks /\ c.mode = "hunk" /\ c.old = b.old /\ c.new = b.new
  <2> HIDE DEF b
  <2> QED
    BY <1>2, <1>5 DEF Parser!Block
<1> HIDE DEF c
<1>9. LastFileIs(c)
  BY <1>7, <1>8, LastFileChanges
<1>10. files'[F] = c /\ Len(files') = F
  BY <1>9 DEF LastFileIs
<1>11. Open' /\ OpenHunk' = hunk
  <2>1. files' # <<>> /\ hunks # <<>>
    <3>1. F # 0 /\ H + 1 # 0 /\ Len(<<>>) = 0
      BY <1>1, <1>4
    <3> QED
      BY <1>5, <1>10, <3>1
  <2> QED
    BY <1>5, <1>8, <1>10, <2>1 DEF Open, OpenHunk
<1> HIDE DEF before, H
<1> QED
  BY <1>4, <1>5, <1>6, <1>8, <1>9, <1>10, <1>11 DEF before, H

\* No hunks have no lines.
LEMMA LinesOfNone == Parser!LinesOf(<<>>) = <<>>
<1>1. <<>> \in Seq(Parser!Hunk)
  BY EmptySeq
<1> QED
  BY <1>1, LinesFlat, FlatOfNone

-----------------------------------------------------------------------------
\* Diff parser: the invariant is kept.

\* What the types of the variables say of their members.
LEMMA ParserFacts ==
    ASSUME Parser!TypeOK
    PROVE  /\ Len(files) \in Nat /\ DOMAIN files = 1 .. Len(files)
           /\ Len(changes) \in Nat /\ Len(written) = Len(changes)
           /\ DOMAIN changes = 1 .. Len(changes) /\ DOMAIN written = 1 .. Len(changes)
           /\ \A f \in 1 .. Len(changes) :
                changes[f] \in Parser!Changes /\ written[f] \in Seq(Parser!HunkLine)
           /\ \A f \in 1 .. Len(files) :
                /\ files[f] \in Parser!Block /\ files[f].hunks \in Seq(Parser!Hunk)
                /\ Len(files[f].hunks) \in Nat /\ DOMAIN files[f].hunks = 1 .. Len(files[f].hunks)
                /\ \A h \in 1 .. Len(files[f].hunks) : files[f].hunks[h] \in Parser!Hunk
<1>1. /\ files \in Seq(Parser!Block) /\ changes \in Seq(Parser!Changes)
      /\ written \in Seq(Seq(Parser!HunkLine)) /\ Len(written) = Len(changes)
  BY DEF Parser!TypeOK
<1>2. /\ Len(files) \in Nat /\ DOMAIN files = 1 .. Len(files)
      /\ Len(changes) \in Nat /\ DOMAIN changes = 1 .. Len(changes)
      /\ DOMAIN written = 1 .. Len(changes)
  BY <1>1, LenProperties
<1>3. ASSUME NEW f \in 1 .. Len(files) PROVE files[f] \in Parser!Block
  BY <1>1, <1>3, ElementOfSeq
<1>4. ASSUME NEW f \in 1 .. Len(changes)
      PROVE  changes[f] \in Parser!Changes /\ written[f] \in Seq(Parser!HunkLine)
  BY <1>1, <1>4, ElementOfSeq
<1>5. ASSUME NEW b \in Parser!Block
      PROVE  /\ b.hunks \in Seq(Parser!Hunk)
             /\ Len(b.hunks) \in Nat /\ DOMAIN b.hunks = 1 .. Len(b.hunks)
             /\ \A h \in 1 .. Len(b.hunks) : b.hunks[h] \in Parser!Hunk
  <2>1. b.hunks \in Seq(Parser!Hunk)
    BY DEF Parser!Block
  <2> QED
    BY <2>1, LenProperties, ElementOfSeq
<1> QED
  BY <1>1, <1>2, <1>3, <1>4, <1>5

\* What is true of a file with the same paths.
LEMMA SamePaths ==
    ASSUME NEW b, NEW c, NEW change, c.old = b.old, c.new = b.new
    PROVE  /\ Parser!TrueKind(b, change) => Parser!TrueKind(c, change)
           /\ Parser!TruePath(b, change) => Parser!TruePath(c, change)
<1>1. /\ Parser!IsNewFile(c) <=> Parser!IsNewFile(b)
      /\ Parser!IsDeletedFile(c) <=> Parser!IsDeletedFile(b)
      /\ Parser!IsRename(c) <=> Parser!IsRename(b)
  BY DEF Parser!IsNewFile, Parser!IsDeletedFile, Parser!IsRename
<1>2. Parser!CanonicalPath(c) = Parser!CanonicalPath(b)
  BY DEF Parser!CanonicalPath
<1> QED
  BY <1>1, <1>2, Zenon DEF Parser!TrueKind, Parser!TruePath

\* Files are only added, and of those that are there only the last one changes,
\* but for its paths.
FilesContinue ==
    /\ files' \in Seq(Parser!Block) /\ Len(files') >= Len(files)
    /\ \A f \in 1 .. Len(files) : /\ f # Len(files) => files'[f] = files[f]
                                  /\ files'[f].old = files[f].old /\ files'[f].new = files[f].new
    /\ Parser!InHunk' => Open'

\* So it is with what git writes.
GitContinues ==
    /\ Len(changes') \in Nat /\ Len(changes') >= Len(changes)
    /\ \A f \in 1 .. Len(changes) : /\ changes'[f] = changes[f]
                                    /\ f # Len(changes) => written'[f] = written[f]

\* The parser is in a hunk when the last file is.
LEMMA InHunkIs == Parser!InHunk <=> files # <<>> /\ files[Len(files)].mode = "hunk"
BY DEF Parser!InHunk, Parser!Last

\* A line that was cut spoils no other file, and nor do the steps after it.
LEMMA StaysContained ==
    ASSUME Parser!TypeOK, FilesContinue, GitContinues,
           \/ Contained /\ cut' = cut
           \/ Uncut /\ files # <<>> /\ cut' = Len(files)
    PROVE  Contained'
<1> DEFINE F == Len(files)
           C == Len(changes)
<1>1. F \in Nat /\ C \in Nat /\ Len(files') \in Nat /\ DOMAIN files = 1 .. F
  BY ParserFacts, LenProperties DEF FilesContinue
<1>2. cut' \in 1 .. F /\ cut' <= C
  <2>1. CASE Contained /\ cut' = cut
    BY <1>1, <2>1 DEF Contained
  <2>2. CASE Uncut /\ files # <<>> /\ cut' = F
    <3>1. F # 0 /\ C = F
      BY <2>2, EmptySeq DEF Uncut, Parser!TypeOK
    <3> QED
      BY <1>1, <2>2, <3>1
  <2> QED
    BY <2>1, <2>2
<1> DEFINE c == cut'
<1>3. c \in Nat /\ 1 <= c /\ c <= F /\ c <= C
  BY <1>1, <1>2
<1> HIDE DEF c, F, C
<1>4. ASSUME NEW f \in 1 .. c
      PROVE  f \in 1 .. F /\ f \in 1 .. C /\ f \in DOMAIN files
  BY <1>1, <1>3
<1>5. ASSUME NEW f \in 1 .. c - 1
      PROVE  f \in 1 .. F /\ f # F /\ f \in 1 .. C /\ f # C /\ f \in DOMAIN files
  BY <1>1, <1>3
<1>6. ASSUME NEW f \in 1 .. c
      PROVE  Parser!TrueKind(files[f], changes[f]) /\ Parser!TruePath(files[f], changes[f])
  <2>1. CASE Contained /\ cut' = cut
    BY <1>6, <2>1 DEF Contained, c
  <2>2. CASE Uncut
    BY <1>4, <2>2 DEF Uncut, HeadersTrue, BlockTrue
  <2> QED
    BY <2>1, <2>2
<1>7. ASSUME NEW f \in 1 .. c - 1 PROVE Parser!TrueLines(f)
  <2>1. CASE Contained /\ cut' = cut
    BY <1>7, <2>1 DEF Contained, c
  <2>2. CASE Uncut
    BY <1>5, <2>2 DEF Uncut, Parser!LinesTrue
  <2> QED
    BY <2>1, <2>2
<1>8. c <= Len(files') /\ c <= Len(changes') /\ c \in 1 .. Len(files')
  <2>1. Len(files') >= F /\ Len(changes') >= C /\ Len(changes') \in Nat
    BY DEF FilesContinue, GitContinues, F, C
  <2> QED
    BY <1>1, <1>3, <2>1
<1>9. ASSUME NEW f \in 1 .. c - 1 PROVE Parser!TrueLines(f)'
  <2>1. files'[f] = files[f] /\ written'[f] = written[f]
    BY <1>5 DEF FilesContinue, GitContinues, F, C
  <2> QED
    BY <1>7, <2>1 DEF Parser!TrueLines
<1>10. ASSUME NEW f \in 1 .. c
       PROVE  /\ Parser!TrueKind(files[f], changes[f])'
              /\ Parser!TruePath(files[f], changes[f])'
  <2>1. files'[f].old = files[f].old /\ files'[f].new = files[f].new /\ changes'[f] = changes[f]
    BY <1>4 DEF FilesContinue, GitContinues, F, C
  <2>2. Parser!TrueKind(files'[f], changes[f]) /\ Parser!TruePath(files'[f], changes[f])
    BY <1>6, <2>1, SamePaths
  <2> QED
    BY <2>1, <2>2
<1> QED
  BY <1>8, <1>9, <1>10 DEF Contained, c

\* So it is when the last file alone is changed.
LEMMA LastFileContinues ==
    ASSUME Parser!TypeOK, NEW b, LastFileIs(b), b.mode = "hunk" => Open'
    PROVE  FilesContinue
<1>1. /\ files' \in Seq(Parser!Block) /\ Len(files') = Len(files) /\ Len(files) \in Nat
      /\ files'[Len(files')] = b
  BY ParserFacts DEF LastFileIs
<1>2. Parser!InHunk' => Open'
  BY <1>1 DEF Parser!InHunk, Parser!Last
<1>3. \A f \in 1 .. Len(files) :
        /\ f # Len(files) => files'[f] = files[f]
        /\ files'[f].old = files[f].old /\ files'[f].new = files[f].new
  BY DEF LastFileIs
<1>4. Len(files') >= Len(files)
  BY <1>1
<1> QED
  BY <1>1, <1>2, <1>3, <1>4 DEF FilesContinue

\* git writes nothing.
LEMMA GitStays ==
    ASSUME Parser!TypeOK, changes' = changes, written' = written
    PROVE  GitContinues
BY ParserFacts DEF GitContinues

\* Nothing is read so far.
LEMMA ParserInitially ==
    ASSUME Parser!ParserAssumption, Parser!Init
    PROVE  ParserInv
<1>1. DOMAIN files = {} /\ files = <<>> /\ changes = <<>> /\ cut = 0
  BY DEF Parser!Init
<1>2. Parser!TypeOK
  <2>1. git \in [old: Nat, new: Nat, oldLeft: 0 .. MaxCount, newLeft: 0 .. MaxCount]
    BY DEF Parser!ParserAssumption, Parser!Init
  <2>2. cursor \in [old: Nat, new: Nat] /\ cut \in Nat
    BY DEF Parser!Init
  <2>3. files \in Seq(Parser!Block) /\ changes \in Seq(Parser!Changes)
    BY EmptySeq DEF Parser!Init
  <2>4. written \in Seq(Seq(Parser!HunkLine)) /\ Len(written) = Len(changes)
    BY EmptySeq DEF Parser!Init
  <2> QED
    BY <2>1, <2>2, <2>3, <2>4 DEF Parser!TypeOK
<1>3. ~(git.oldLeft > 0) /\ ~(git.newLeft > 0) /\ Len(files) = Len(changes)
      /\ Len(files) = Len(written)
  BY DEF Parser!Init
<1>4. HeadersTrue /\ Parser!LinesTrue /\ HunksRead /\ CursorFollows
  BY <1>1, <1>3 DEF HeadersTrue, Parser!LinesTrue, HunksRead, CursorFollows
<1>5. Shape /\ Uncut
  BY <1>1, <1>3, <1>4 DEF Shape, Uncut, InGitHunk, Parser!InHunk
<1> QED
  BY <1>1, <1>2, <1>5 DEF ParserInv

\* The header of a file is read.
LEMMA ReadFileKeeps ==
    ASSUME Parser!ParserAssumption, ParserInv, Parser!ReadFile
    PROVE  ParserInv'
<1> DEFINE F == Len(files)
           C == Len(changes)
           B == Parser!Block
<1>1. PICK change \in Parser!Changes :
        /\ files' = Append(files, Parser!ReadBlock(Parser!GitHeader(change)))
        /\ changes' = Append(changes, change)
  BY DEF Parser!ReadFile
<1> DEFINE b == Parser!ReadBlock(Parser!GitHeader(change))
<1>2. b \in B /\ b.hunks = <<>> /\ b.mode # "hunk" /\ BlockTrue(b, change)
  BY HeaderIsTrue
<1>3. /\ written' = Append(written, <<>>) /\ cursor' = cursor /\ cut' = cut
      /\ git' = [old |-> 0, new |-> 0, oldLeft |-> 0, newLeft |-> 0]
      /\ git.oldLeft = 0 /\ git.newLeft = 0
  BY DEF Parser!ReadFile, Parser!Between
<1>4. Parser!TypeOK
  BY DEF ParserInv
<1>5. F \in Nat /\ C \in Nat /\ \A f \in 1 .. F : files[f] \in B
  BY <1>4, ParserFacts
<1> HIDE DEF b
<1>6. /\ files' \in Seq(B) /\ Len(files') = F + 1 /\ files'[F + 1] = b
      /\ \A f \in 1 .. F : files'[f] = files[f]
  BY <1>1, <1>2, <1>4, AppendProperties DEF Parser!TypeOK, b
<1>7. /\ changes' \in Seq(Parser!Changes) /\ Len(changes') = C + 1 /\ changes'[C + 1] = change
      /\ \A f \in 1 .. C : changes'[f] = changes[f]
  BY <1>1, <1>4, AppendProperties DEF Parser!TypeOK
<1>8. /\ written' \in Seq(Seq(Parser!HunkLine)) /\ Len(written') = C + 1 /\ written'[C + 1] = <<>>
      /\ \A f \in 1 .. C : written'[f] = written[f]
  <2> DEFINE W == Seq(Parser!HunkLine)
  <2>1. <<>> \in W /\ written \in Seq(W) /\ Len(written) = C
    BY <1>4, EmptySeq DEF Parser!TypeOK
  <2> HIDE DEF W
  <2> QED
    BY <1>3, <2>1, AppendProperties DEF W
<1>9. Parser!TypeOK'
  <2>1. git' \in [old: Nat, new: Nat, oldLeft: 0 .. MaxCount, newLeft: 0 .. MaxCount]
    BY <1>3 DEF Parser!ParserAssumption
  <2> QED
    BY <1>3, <1>4, <1>6, <1>7, <1>8, <2>1 DEF Parser!TypeOK
<1>10. DOMAIN files' = 1 .. F + 1 /\ \A f \in 1 .. F + 1 : f \in 1 .. F \/ f = F + 1
  BY <1>5, <1>6, LenProperties
<1>11. ~Parser!InHunk'
  BY <1>2, <1>5, <1>6 DEF Parser!InHunk, Parser!Last
<1>12. files' # <<>> /\ git'.oldLeft = 0 /\ git'.newLeft = 0
  <2>1. F + 1 # 0 /\ Len(<<>>) = 0
    BY <1>5
  <2> QED
    BY <1>3, <1>6, <2>1
<1>13. Shape'
  BY <1>11, <1>12 DEF Shape, InGitHunk
<1>14. ASSUME cut # 0 PROVE Contained'
  <2>1. FilesContinue
    BY <1>5, <1>6, <1>11 DEF FilesContinue
  <2>2. GitContinues
    BY <1>5, <1>7, <1>8 DEF GitContinues
  <2>3. Contained
    BY <1>14 DEF ParserInv
  <2> QED
    BY <1>3, <1>4, <2>1, <2>2, <2>3, StaysContained
<1>15. ASSUME cut = 0 PROVE Uncut'
  <2>1. Uncut /\ F = C
    BY <1>15 DEF ParserInv, Uncut
  <2>2. HeadersTrue'
    <3> SUFFICES ASSUME NEW f \in 1 .. F + 1
                 PROVE  /\ BlockTrue(files'[f], changes'[f])
                        /\ changes'[f].kind = "deleted" =>
                             \A i \in DOMAIN written'[f] : written'[f][i].type # "add"
      BY <1>10 DEF HeadersTrue
    <3>1. CASE f \in 1 .. F
      <4>1. f \in DOMAIN files /\ HeadersTrue
        BY <1>4, <2>1, <3>1, ParserFacts DEF Uncut
      <4>2. files'[f] = files[f] /\ changes'[f] = changes[f] /\ written'[f] = written[f]
        BY <1>6, <1>7, <1>8, <2>1, <3>1
      <4> QED
        BY <4>1, <4>2 DEF HeadersTrue
    <3>2. CASE f = F + 1
      <4>1. DOMAIN written'[f] = {}
        BY <1>8, <2>1, <3>2
      <4> QED
        BY <1>2, <1>6, <1>7, <2>1, <3>2, <4>1
    <3> QED
      BY <1>10, <3>1, <3>2
  <2>3. Parser!LinesTrue'
    <3> SUFFICES ASSUME NEW f \in 1 .. F + 1 PROVE Parser!LinesOf(files'[f].hunks) = written'[f]
      BY <1>6, <1>8, <1>10, <2>1 DEF Parser!LinesTrue, Parser!TrueLines
    <3>1. CASE f \in 1 .. F
      BY <1>4, <1>6, <1>8, <2>1, <3>1, ParserFacts DEF Uncut, Parser!LinesTrue, Parser!TrueLines
    <3>2. CASE f = F + 1
      <4>1. Parser!LinesOf(<<>>) = <<>>
        BY LinesOfNone
      <4> QED
        BY <1>2, <1>6, <1>8, <2>1, <3>2, <4>1
    <3> QED
      BY <1>10, <3>1, <3>2
  <2>4. HunksRead'
    <3> SUFFICES ASSUME NEW f \in 1 .. F + 1, NEW h \in DOMAIN files'[f].hunks
                 PROVE  ReadBut(files'[f].hunks[h], 0, 0)
      BY <1>3, <1>10 DEF HunksRead
    <3>1. CASE f \in 1 .. F
      <4>1. h \in DOMAIN files[f].hunks /\ f \in DOMAIN files /\ files'[f].hunks[h] = files[f].hunks[h]
        BY <1>4, <1>6, <3>1, ParserFacts
      <4> QED
        BY <1>3, <2>1, <4>1 DEF Uncut, HunksRead
    <3>2. CASE f = F + 1
      BY <1>2, <1>6, <3>2
    <3> QED
      BY <1>10, <3>1, <3>2
  <2>5. CursorFollows'
    BY <1>3 DEF CursorFollows
  <2> QED
    BY <1>6, <1>7, <1>12, <2>1, <2>2, <2>3, <2>4, <2>5 DEF Uncut, InGitHunk
<1> QED
  BY <1>3, <1>9, <1>13, <1>14, <1>15 DEF ParserInv

\* A hunk that is opened: by git's header, or by a line that looks like one.
LEMMA OpensTyped ==
    ASSUME Parser!TypeOK, Shape, files # <<>>,
           NEW start, NEW count, Parser!Opens(start, count),
           start \in [old: Nat, new: Nat], count.old \in Nat, count.new \in Nat
    PROVE  /\ FilesContinue /\ cursor' \in [old: Nat, new: Nat] /\ Len(files') = Len(files)
<1> DEFINE hunk == [old_start |-> start.old, old_count |-> count.old,
                    new_start |-> start.new, new_count |-> count.new, lines |-> <<>>]
           last == files'[Len(files)]
<1>1. CASE Parser!Last(files).mode \in {"hunks", "hunk"}
  <2>1. /\ cursor' = start
        /\ files' = [files EXCEPT ![Len(files)].mode = "hunk",
                                  ![Len(files)].hunks = Append(@, hunk)]
    BY <1>1 DEF Parser!Opens
  <2>2. hunk \in Parser!Hunk /\ hunk.lines = <<>>
    BY EmptySeq DEF Parser!Hunk
  <2> HIDE DEF hunk
  <2>3. LastFileIs(last) /\ Open'
    BY <2>1, <2>2, OpensKeep DEF Parser!TypeOK
  <2> HIDE DEF last
  <2>4. FilesContinue
    BY <2>3, LastFileContinues
  <2> QED
    BY <2>1, <2>3, <2>4 DEF LastFileIs
<1>2. CASE ~(Parser!Last(files).mode \in {"hunks", "hunk"})
  <2>1. files' = files /\ cursor' = cursor
    BY <1>2 DEF Parser!Opens
  <2>2. Parser!InHunk' => Open'
    BY <2>1 DEF Shape, Parser!InHunk, Open
  <2> QED
    BY <2>1, <2>2, ParserFacts DEF FilesContinue, Parser!TypeOK
<1> QED
  BY <1>1, <1>2

\* A hunk is opened in a file that has hunks.
LEMMA ReadHunkHeaderKeeps ==
    ASSUME Parser!ParserAssumption, ParserInv, Parser!ReadHunkHeader
    PROVE  ParserInv'
<1> DEFINE F == Len(files)
           C == Len(changes)
           before == files[F].hunks
           H == Len(before)
<1>1. /\ changes # <<>> /\ changes[C].kind \in Parser!WithHunks
      /\ git.oldLeft = 0 /\ git.newLeft = 0
      /\ changes' = changes /\ written' = written /\ cut' = cut
  BY DEF Parser!ReadHunkHeader, Parser!Last
<1>2. PICK gap \in Nat, c \in Parser!Counts :
        /\ git' = [old |-> git.old + gap, new |-> git.new + gap,
                   oldLeft |-> c.old, newLeft |-> c.new]
        /\ Parser!Opens([old |-> Parser!StartOf(git.old + gap, c.old),
                         new |-> Parser!StartOf(git.new + gap, c.new)], c)
  <2>1. \A gap \in IF Parser!Last(changes).kind \in {"added", "deleted"} THEN {0} ELSE 0 .. MaxGap :
          gap \in Nat
    BY DEF Parser!ParserAssumption
  <2> QED
    BY <2>1 DEF Parser!ReadHunkHeader
<1>3. Parser!TypeOK /\ Shape
  BY DEF ParserInv
<1> DEFINE old == Parser!StartOf(git.old + gap, c.old)
           new == Parser!StartOf(git.new + gap, c.new)
           start == [old |-> old, new |-> new]
           hunk == [old_start |-> start.old, old_count |-> c.old,
                    new_start |-> start.new, new_count |-> c.new, lines |-> <<>>]
<1>4. /\ c.old \in 0 .. MaxCount /\ c.new \in 0 .. MaxCount /\ c.old \in Nat /\ c.new \in Nat
      /\ changes[C].kind = "deleted" => c.new = 0
  BY <1>1, <1>3 DEF Parser!ParserAssumption, Parser!Counts, Parser!TypeOK, Parser!Last
<1>5. git.old + gap \in Nat /\ git.new + gap \in Nat
  BY <1>3, SMTT(30) DEF Parser!TypeOK, Parser!ParserAssumption
<1>6. old \in Nat /\ new \in Nat /\ (c.old > 0 => old = git.old + gap + 1)
      /\ (c.new > 0 => new = git.new + gap + 1)
  BY <1>4, <1>5 DEF Parser!StartOf
<1>7. files # <<>>
  BY <1>1, <1>3 DEF Shape
<1>8. Parser!Opens(start, c)
  BY <1>2
<1>9. start \in [old: Nat, new: Nat] /\ start.old = old /\ start.new = new
  BY <1>6
<1> HIDE DEF start, old, new
<1>10. FilesContinue /\ cursor' \in [old: Nat, new: Nat] /\ Len(files') = F
  BY <1>3, <1>4, <1>7, <1>8, <1>9, OpensTyped
<1>11. GitContinues
  BY <1>1, <1>3, GitStays
<1>12. git' \in [old: Nat, new: Nat, oldLeft: 0 .. MaxCount, newLeft: 0 .. MaxCount]
  BY <1>2, <1>4, <1>5
<1>13. Parser!TypeOK'
  BY <1>1, <1>3, <1>10, <1>12 DEF Parser!TypeOK, FilesContinue
<1>14. files' # <<>>
  <2>1. F # 0 /\ Len(<<>>) = 0
    BY <1>3, <1>7, EmptySeq DEF Parser!TypeOK
  <2> QED
    BY <1>10, <2>1
<1>15. Shape'
  BY <1>1, <1>10, <1>14 DEF Shape, FilesContinue
<1>16. ASSUME cut # 0 PROVE Contained'
  <2>1. Contained
    BY <1>16 DEF ParserInv
  <2> QED
    BY <1>1, <1>3, <1>10, <1>11, <2>1, StaysContained
<1>17. ASSUME cut = 0 PROVE Uncut'
  <2>0. Uncut /\ F = C
    BY <1>17 DEF ParserInv, Uncut
  <2>1. F \in DOMAIN files /\ Parser!Last(files).mode \in {"hunks", "hunk"}
    <3>1. F \in DOMAIN files
      BY <1>3, <1>7, EmptySeq, LenProperties DEF Parser!TypeOK
    <3> QED
      BY <1>1, <2>0, <3>1 DEF Uncut, HeadersTrue, BlockTrue, Parser!Last
  <2>2. /\ cursor' = start
        /\ files' = [files EXCEPT ![Len(files)].mode = "hunk",
                                  ![Len(files)].hunks = Append(@, hunk)]
    BY <1>8, <2>1 DEF Parser!Opens
  <2>3. hunk \in Parser!Hunk /\ hunk.lines = <<>> /\ hunk.old_count = c.old
        /\ hunk.new_count = c.new /\ hunk.new_start = new
    BY <1>4, <1>6, <1>9, EmptySeq DEF Parser!Hunk
  <2> DEFINE hunks == files'[F].hunks
  <2> HIDE DEF hunk
  <2>4. /\ LastFileIs(files'[F]) /\ files'[F].mode = "hunk"
        /\ H \in Nat /\ DOMAIN files[F].hunks = 1 .. H
        /\ Len(hunks) = H + 1 /\ DOMAIN hunks = 1 .. H + 1
        /\ \A h \in 1 .. H : hunks[h] = files[F].hunks[h]
        /\ hunks[H + 1] = hunk
        /\ Parser!LinesOf(hunks) = Parser!LinesOf(before)
        /\ Open' /\ OpenHunk' = hunk
    BY <1>3, <1>7, <2>2, <2>3, OpensKeep DEF Parser!TypeOK
  <2> HIDE DEF hunks
  <2>5. /\ Len(files') = F /\ F \in 1 .. F /\ DOMAIN files' = 1 .. F
        /\ \A f \in 1 .. F : f # F => files'[f] = files[f]
        /\ \A f \in 1 .. F : files'[f].old = files[f].old /\ files'[f].new = files[f].new
    BY <2>4 DEF LastFileIs
  <2>6. HeadersTrue'
    <3> SUFFICES ASSUME NEW f \in 1 .. F PROVE BlockTrue(files'[f], changes[f])
      BY <1>1, <1>3, <2>0, <2>5, ParserFacts DEF Uncut, HeadersTrue
    <3>1. BlockTrue(files[f], changes[f])
      BY <1>3, <2>0, ParserFacts DEF Uncut, HeadersTrue
    <3>2. Parser!TrueKind(files'[f], changes[f]) /\ Parser!TruePath(files'[f], changes[f])
      BY <2>5, <3>1, SamePaths DEF BlockTrue
    <3>3. changes[f].kind \in Parser!WithHunks => files'[f].mode \in {"hunks", "hunk"}
      BY <2>4, <2>5, <3>1 DEF BlockTrue
    <3> QED
      BY <3>2, <3>3 DEF BlockTrue
  <2>7. Parser!LinesTrue'
    <3> SUFFICES ASSUME NEW f \in 1 .. F PROVE Parser!LinesOf(files'[f].hunks) = written[f]
      BY <1>1, <1>3, <2>0, <2>5, ParserFacts DEF Parser!LinesTrue, Parser!TrueLines
    <3>1. Parser!LinesOf(files[f].hunks) = written[f]
      BY <1>3, <2>0, ParserFacts DEF Uncut, Parser!LinesTrue, Parser!TrueLines
    <3> QED
      BY <2>4, <2>5, <3>1 DEF hunks
  <2>8. ReadBut(hunk, c.old, c.new)
    <3>1. Olds(<<>>) = {} /\ News(<<>>) = {}
      BY DEF Olds, News
    <3>2. new .. new + (c.new - c.new) - 1 = {} /\ c.old - c.old = 0
      BY <1>4, <1>6
    <3>3. Cardinality(Olds(hunk.lines)) = hunk.old_count - c.old
      BY <2>3, <3>1, <3>2, FS_EmptySet
    <3>4. News(hunk.lines) = hunk.new_start .. hunk.new_start + (hunk.new_count - c.new) - 1
      BY <2>3, <3>1, <3>2
    <3>5. c.old <= hunk.old_count /\ c.new <= hunk.new_count
      BY <1>4, <2>3
    <3> QED
      BY <3>3, <3>4, <3>5 DEF ReadBut
  <2>9. git'.old = git.old + gap /\ git'.new = git.new + gap
        /\ git'.oldLeft = c.old /\ git'.newLeft = c.new /\ cursor'.old = old /\ cursor'.new = new
    BY <1>2, <1>9, <2>2
  <2>10. HunksRead'
    <3> SUFFICES ASSUME NEW f \in 1 .. F, NEW h \in DOMAIN files'[f].hunks
                 PROVE  LET last == f = F /\ h = Len(files'[f].hunks)
                        IN  ReadBut(files'[f].hunks[h], IF last THEN c.old ELSE 0,
                                                        IF last THEN c.new ELSE 0)
      BY <2>5, <2>9 DEF HunksRead
    <3>0. ASSUME NEW g \in 1 .. F, NEW k \in DOMAIN files[g].hunks PROVE ReadBut(files[g].hunks[k], 0, 0)
      BY <1>1, <1>3, <2>0, ParserFacts DEF Uncut, HunksRead
    <3>1. CASE f # F
      BY <2>5, <3>0, <3>1
    <3>2. CASE f = F
      <4>1. CASE h = H + 1
        BY <2>4, <2>8, <3>2, <4>1 DEF hunks
      <4>2. CASE h # H + 1
        <5>1. h \in 1 .. H /\ h \in DOMAIN files[F].hunks /\ h # Len(hunks)
          BY <2>4, <3>2, <4>2 DEF hunks
        <5> QED
          BY <2>4, <2>5, <3>0, <3>2, <5>1 DEF hunks
      <4> QED
        BY <4>1, <4>2
    <3> QED
      BY <3>1, <3>2
  <2>11. CursorFollows'
    BY <1>4, <1>5, <1>6, <2>3, <2>4, <2>9 DEF CursorFollows
  <2>12. Parser!InHunk'
    BY <1>14, <2>4, <2>5 DEF Parser!InHunk, Parser!Last
  <2>13. git'.newLeft > 0 => changes'[Len(changes')].kind # "deleted"
    BY <1>1, <1>4, <2>9
  <2> QED
    BY <1>1, <2>0, <2>5, <2>6, <2>7, <2>10, <2>11, <2>12, <2>13 DEF Uncut
<1> QED
  BY <1>1, <1>13, <1>15, <1>16, <1>17 DEF ParserInv

\* Whatever is read of a line, the files stay but for the last one.
LEMMA ReadsTyped ==
    ASSUME Parser!TypeOK, Shape, NEW kind \in {"add", "delete", "context", "marker"},
           Parser!Reads(kind)
    PROVE  FilesContinue /\ cursor' \in [old: Nat, new: Nat] /\ Len(files') = Len(files)
<1> DEFINE more == Parser!Parsed(kind)
           last == files'[Len(files)]
<1>1. cursor.old \in Nat /\ cursor.new \in Nat
  BY DEF Parser!TypeOK
<1>2. more \in Seq(Parser!HunkLine)
  <2> DEFINE p == [type |-> kind, old |-> IF kind = "add" THEN 0 ELSE cursor.old,
                   new |-> IF kind = "delete" THEN 0 ELSE cursor.new]
  <2>1. CASE kind = "marker"
    BY <2>1, EmptySeq DEF Parser!Parsed
  <2>2. CASE kind # "marker"
    <3>1. p \in Parser!HunkLine
      BY <1>1, <2>2 DEF Parser!HunkLine
    <3>2. Parser!Parsed(kind) = <<p>>
      BY <2>2 DEF Parser!Parsed
    <3> HIDE DEF p
    <3> QED
      BY <3>1, <3>2
  <2> QED
    BY <2>1, <2>2
<1>3. Parser!Moved(kind) \in [old: Nat, new: Nat]
  <2>1. CASE kind = "marker"
    BY <2>1 DEF Parser!Moved, Parser!TypeOK
  <2>2. CASE kind # "marker"
    BY <1>1, <2>2 DEF Parser!Moved
  <2> QED
    BY <2>1, <2>2
<1>4. CASE Parser!InHunk
  <2>1. files' = Grown(more) /\ cursor' = Parser!Moved(kind) /\ Open
    BY <1>4 DEF Parser!Reads, Grown, Shape
  <2> HIDE DEF more
  <2>2. LastFileIs(last) /\ Open'
    BY <1>2, <2>1, ReadsKeep DEF Parser!TypeOK
  <2> HIDE DEF last
  <2>3. FilesContinue
    BY <2>2, LastFileContinues
  <2> QED
    BY <1>3, <2>1, <2>2, <2>3 DEF LastFileIs
<1>5. CASE ~Parser!InHunk
  <2>1. files' = files /\ cursor' = cursor
    BY <1>5 DEF Parser!Reads
  <2>2. Parser!InHunk' => Open'
    BY <2>1 DEF Shape, Parser!InHunk, Open
  <2> QED
    BY <2>1, <2>2, ParserFacts DEF FilesContinue, Parser!TypeOK
<1> QED
  BY <1>4, <1>5

\* A line of a hunk is read.
LEMMA ReadLineKeeps ==
    ASSUME Parser!ParserAssumption, ParserInv, Parser!ReadLine
    PROVE  ParserInv'
<1> DEFINE F == Len(files)
           C == Len(changes)
           H == Len(files[F].hunks)
           L == Parser!HunkLine
<1>1. PICK kind \in {"add", "delete", "context"} :
        LET old == IF kind = "add" THEN 0 ELSE 1
            new == IF kind = "delete" THEN 0 ELSE 1
        IN  /\ git.oldLeft >= old /\ git.newLeft >= new
            /\ git' = [old |-> git.old + old, new |-> git.new + new,
                       oldLeft |-> git.oldLeft - old, newLeft |-> git.newLeft - new]
            /\ written' = [written EXCEPT ![Len(written)] = Append(@,
                  [type |-> kind, old |-> old * (git.old + 1), new |-> new * (git.new + 1)])]
            /\ Parser!Reads(kind)
            /\ UNCHANGED <<changes, cut>>
  BY DEF Parser!ReadLine
<1> DEFINE old == IF kind = "add" THEN 0 ELSE 1
           new == IF kind = "delete" THEN 0 ELSE 1
           w == [type |-> kind, old |-> old * (git.old + 1), new |-> new * (git.new + 1)]
           p == [type |-> kind, old |-> IF kind = "add" THEN 0 ELSE cursor.old,
                 new |-> IF kind = "delete" THEN 0 ELSE cursor.new]
<1>2. Parser!TypeOK /\ Shape
  BY DEF ParserInv
<1>3. /\ git.old \in Nat /\ git.new \in Nat /\ git.oldLeft \in 0 .. MaxCount
      /\ git.newLeft \in 0 .. MaxCount /\ git.oldLeft \in Nat /\ git.newLeft \in Nat
      /\ cursor.old \in Nat /\ cursor.new \in Nat
  BY <1>2 DEF Parser!TypeOK, Parser!ParserAssumption
<1>4. /\ old \in {0, 1} /\ new \in {0, 1} /\ (old = 1 <=> kind # "add")
      /\ (new = 1 <=> kind # "delete") /\ (old = 1 \/ new = 1)
  OBVIOUS
<1>5. w \in L /\ p \in L /\ w.type = kind
  <2>1. old * (git.old + 1) \in Nat /\ new * (git.new + 1) \in Nat
    BY <1>3
  <2>2. (IF kind = "add" THEN 0 ELSE cursor.old) \in Nat /\ (IF kind = "delete" THEN 0 ELSE cursor.new) \in Nat
    BY <1>3
  <2> QED
    BY <2>1, <2>2 DEF Parser!HunkLine
<1>6. /\ git'.old = git.old + old /\ git'.new = git.new + new
      /\ git'.oldLeft = git.oldLeft - old /\ git'.newLeft = git.newLeft - new
      /\ changes' = changes /\ cut' = cut
      /\ old <= git.oldLeft /\ new <= git.newLeft /\ Parser!Reads(kind)
  BY <1>1, <1>3
<1>7. InGitHunk /\ changes # <<>>
  <2>1. InGitHunk
    BY <1>3, <1>4, <1>6 DEF InGitHunk
  <2> QED
    BY <1>2, <2>1 DEF Shape
<1>8. C \in Nat /\ C \in 1 .. C /\ Len(written) = C
  BY <1>2, <1>7, EmptySeq, LenProperties DEF Parser!TypeOK
<1>9. written' = [written EXCEPT ![C] = Append(@, w)]
  BY <1>1, <1>8
<1>10. git' \in [old: Nat, new: Nat, oldLeft: 0 .. MaxCount, newLeft: 0 .. MaxCount]
  <2>1. git.old + old \in Nat /\ git.new + new \in Nat
        /\ git.oldLeft - old \in 0 .. MaxCount /\ git.newLeft - new \in 0 .. MaxCount
    BY <1>3, <1>4, <1>6 DEF Parser!ParserAssumption
  <2>2. git' = [old |-> git.old + old, new |-> git.new + new,
                oldLeft |-> git.oldLeft - old, newLeft |-> git.newLeft - new]
    BY <1>1
  <2> QED
    BY <2>1, <2>2
<1> HIDE DEF w, old, new
<1>11. /\ written' \in Seq(Seq(L)) /\ Len(written') = C /\ written'[C] = Append(written[C], w)
       /\ \A f \in 1 .. C : f # C => written'[f] = written[f]
  <2> DEFINE W == Seq(L)
             x == Append(written[C], w)
  <2>1. written \in Seq(W) /\ C \in 1 .. Len(written)
    BY <1>2, <1>8 DEF Parser!TypeOK
  <2>2. x \in W
    <3>1. written[C] \in Seq(L)
      BY <2>1, ElementOfSeq
    <3> QED
      BY <1>5, <3>1, AppendProperties
  <2>3. written' = [written EXCEPT ![C] = x]
    BY <1>9
  <2> HIDE DEF W, x
  <2>4. /\ [written EXCEPT ![C] = x] \in Seq(W)
        /\ Len([written EXCEPT ![C] = x]) = Len(written)
        /\ \A j \in 1 .. Len(written) :
             [written EXCEPT ![C] = x][j] = IF j = C THEN x ELSE written[j]
    BY <2>1, <2>2, ExceptSeq
  <2> QED
    BY <1>8, <2>3, <2>4 DEF W, x
<1>12. FilesContinue /\ cursor' \in [old: Nat, new: Nat] /\ Len(files') = F
  BY <1>2, <1>6, ReadsTyped
<1>13. GitContinues
  BY <1>6, <1>8, <1>11 DEF GitContinues
<1>14. Parser!TypeOK'
  BY <1>2, <1>6, <1>10, <1>11, <1>12 DEF Parser!TypeOK, FilesContinue
<1>15. Shape'
  <2>1. files' # <<>>
    <3>1. F # 0 /\ Len(<<>>) = 0
      BY <1>2, <1>7, EmptySeq DEF Parser!TypeOK, Shape
    <3> QED
      BY <1>12, <3>1
  <2> QED
    BY <1>6, <1>7, <1>12, <2>1 DEF Shape, FilesContinue
<1>16. ASSUME cut # 0 PROVE Contained'
  <2>1. Contained
    BY <1>16 DEF ParserInv
  <2> QED
    BY <1>2, <1>6, <1>12, <1>13, <2>1, StaysContained
<1>17. ASSUME cut = 0 PROVE Uncut'
  <2>1. /\ Uncut /\ HeadersTrue /\ Parser!LinesTrue /\ HunksRead /\ CursorFollows
        /\ F = C /\ Parser!InHunk /\ Open
    BY <1>2, <1>7, <1>17 DEF ParserInv, Uncut, Shape
  <2>2. files' = Grown(<<p>>)
    BY <1>6, <2>1 DEF Parser!Reads, Parser!Parsed, Grown
  <2>3. cursor'.old = (IF kind = "add" THEN cursor.old ELSE cursor.old + 1)
        /\ cursor'.new = (IF kind = "delete" THEN cursor.new ELSE cursor.new + 1)
    BY <1>6, <2>1 DEF Parser!Reads, Parser!Moved
  <2>4. /\ old = 1 => cursor.old = git.old + 1
        /\ new = 1 => /\ cursor.new = git.new + 1
                      /\ cursor.new = OpenHunk.new_start + (OpenHunk.new_count - git.newLeft)
    BY <1>3, <1>6, <2>1 DEF CursorFollows
  <2>5. /\ p = w /\ (p.old # 0 <=> old = 1) /\ (p.new # 0 <=> new = 1)
        /\ new = 1 => p.new = OpenHunk.new_start + (OpenHunk.new_count - git.newLeft)
    BY <1>3, <1>4, <2>4 DEF w, old, new
  <2> DEFINE more == <<p>>
             hunks == files'[F].hunks
             grown == [OpenHunk EXCEPT !.lines = @ \o more]
  <2>6. more \in Seq(L) /\ files' = Grown(more) /\ more = <<w>>
    BY <1>5, <2>2, <2>5
  <2> HIDE DEF more, p
  <2>7. /\ LastFileIs(files'[F]) /\ files'[F].mode = files[F].mode
        /\ H \in 1 .. H /\ Len(hunks) = H /\ DOMAIN hunks = 1 .. H
        /\ \A h \in 1 .. H : h # H => hunks[h] = files[F].hunks[h]
        /\ hunks[H] = grown
        /\ Parser!LinesOf(hunks) = Parser!LinesOf(files[F].hunks) \o more
        /\ Open' /\ OpenHunk' = grown
    BY <1>2, <2>1, <2>6, ReadsKeep DEF Parser!TypeOK
  <2> HIDE DEF hunks, grown
  <2>8. /\ Len(files') = F /\ F \in 1 .. F /\ DOMAIN files' = 1 .. F
        /\ \A f \in 1 .. F : f # F => files'[f] = files[f]
        /\ \A f \in 1 .. F : files'[f].old = files[f].old /\ files'[f].new = files[f].new
    BY <2>7 DEF LastFileIs
  <2>9. git.newLeft > 0 => changes[F].kind # "deleted"
    BY <2>1 DEF Uncut
  <2>10. HeadersTrue'
    <3> SUFFICES ASSUME NEW f \in 1 .. F
                 PROVE  /\ BlockTrue(files'[f], changes[f])
                        /\ changes[f].kind = "deleted" =>
                             \A i \in DOMAIN written'[f] : written'[f][i].type # "add"
      BY <1>6, <2>8 DEF HeadersTrue
    <3>1. /\ BlockTrue(files[f], changes[f]) /\ written[f] \in Seq(L)
          /\ changes[f].kind = "deleted" => \A j \in DOMAIN written[f] : written[f][j].type # "add"
      BY <1>2, <2>1, ParserFacts DEF HeadersTrue
    <3>2. BlockTrue(files'[f], changes[f])
      <4>1. Parser!TrueKind(files'[f], changes[f]) /\ Parser!TruePath(files'[f], changes[f])
        BY <2>8, <3>1, SamePaths DEF BlockTrue
      <4>2. files'[f].mode = files[f].mode
        BY <2>7, <2>8
      <4> QED
        BY <3>1, <4>1, <4>2 DEF BlockTrue
    <3>3. ASSUME changes[f].kind = "deleted", NEW i \in DOMAIN written'[f]
          PROVE  written'[f][i].type # "add"
      <4>1. CASE f # F
        BY <1>11, <2>1, <3>1, <3>3, <4>1
      <4>2. CASE f = F
        <5>1. kind # "add"
          BY <1>3, <1>4, <1>6, <2>9, <3>3, <4>2
        <5> DEFINE s == written[F]
        <5>2. s \in Seq(L) /\ \A j \in DOMAIN s : s[j].type # "add"
          BY <3>1, <3>3, <4>2
        <5> HIDE DEF s
        <5>3. /\ Len(s) \in Nat /\ DOMAIN s = 1 .. Len(s) /\ DOMAIN Append(s, w) = 1 .. Len(s) + 1
              /\ Append(s, w)[Len(s) + 1] = w /\ \A j \in 1 .. Len(s) : Append(s, w)[j] = s[j]
          BY <1>5, <5>2, AppendProperties, LenProperties
        <5>4. i \in 1 .. Len(s) + 1 /\ written'[f][i] = Append(s, w)[i]
          BY <1>11, <2>1, <3>3, <4>2, <5>3 DEF s
        <5>5. CASE i = Len(s) + 1
          BY <1>5, <5>1, <5>3, <5>4, <5>5
        <5>6. CASE i # Len(s) + 1
          <6>1. i \in 1 .. Len(s)
            BY <5>3, <5>4, <5>6
          <6> QED
            BY <5>2, <5>3, <5>4, <6>1
        <5> QED
          BY <5>5, <5>6
      <4> QED
        BY <4>1, <4>2
    <3> QED
      BY <3>2, <3>3
  <2>11. Parser!LinesTrue'
    <3> SUFFICES ASSUME NEW f \in 1 .. F PROVE Parser!LinesOf(files'[f].hunks) = written'[f]
      BY <1>11, <2>1, <2>8 DEF Parser!LinesTrue, Parser!TrueLines
    <3>1. Parser!LinesOf(files[f].hunks) = written[f] /\ written[f] \in Seq(L)
      BY <1>2, <2>1, ParserFacts DEF Parser!LinesTrue, Parser!TrueLines
    <3>2. CASE f # F
      BY <1>11, <2>1, <2>8, <3>1, <3>2
    <3>3. CASE f = F
      <4> DEFINE s == written[F]
      <4>1. s \in Seq(L) /\ Parser!LinesOf(files'[F].hunks) = s \o <<w>>
        BY <2>6, <2>7, <3>1, <3>3 DEF hunks
      <4>2. written'[F] = Append(s, w)
        BY <1>11, <2>1
      <4> HIDE DEF s
      <4>3. Append(s, w) = s \o <<w>>
        BY <1>5, <4>1, AppendIsConcat
      <4> QED
        BY <3>3, <4>1, <4>2, <4>3
    <3> QED
      BY <3>2, <3>3
  <2>12. OpenHunk \in Parser!Hunk /\ ReadBut(OpenHunk, git.oldLeft, git.newLeft)
    <3>1. F \in DOMAIN files /\ H \in DOMAIN files[F].hunks /\ files[F].hunks[H] \in Parser!Hunk
      BY <1>2, <2>7, <2>8, ParserFacts
    <3> QED
      BY <2>1, <3>1 DEF HunksRead, OpenHunk
  <2>13. ReadBut(grown, git.oldLeft - old, git.newLeft - new)
    <3> DEFINE hunk == OpenHunk
    <3>1. /\ hunk \in Parser!Hunk /\ ReadBut(hunk, git.oldLeft, git.newLeft)
          /\ new = 1 => p.new = hunk.new_start + (hunk.new_count - git.newLeft)
          /\ p \in L /\ (p.old # 0 <=> old = 1) /\ (p.new # 0 <=> new = 1)
      BY <1>5, <2>5, <2>12
    <3> HIDE DEF hunk
    <3>2. ReadBut([hunk EXCEPT !.lines = @ \o <<p>>], git.oldLeft - old, git.newLeft - new)
      BY <1>3, <1>4, <1>6, <3>1, ReadMore
    <3> QED
      BY <3>2 DEF hunk, grown, more
  <2>14. HunksRead'
    <3> SUFFICES ASSUME NEW f \in 1 .. F, NEW h \in DOMAIN files'[f].hunks
                 PROVE  LET last == f = F /\ h = Len(files'[f].hunks)
                        IN  ReadBut(files'[f].hunks[h], IF last THEN git'.oldLeft ELSE 0,
                                                        IF last THEN git'.newLeft ELSE 0)
      BY <2>8 DEF HunksRead
    <3>0. ASSUME NEW g \in 1 .. F, NEW k \in DOMAIN files[g].hunks, ~(g = F /\ k = H)
          PROVE  ReadBut(files[g].hunks[k], 0, 0)
      BY <1>2, <2>1, <3>0, ParserFacts DEF HunksRead
    <3>1. CASE f # F
      BY <2>8, <3>0, <3>1
    <3>2. CASE f = F
      <4>1. CASE h = H
        BY <1>6, <2>7, <2>13, <3>2, <4>1 DEF hunks
      <4>2. CASE h # H
        <5>1. h \in 1 .. H /\ h \in DOMAIN files[F].hunks
          BY <1>2, <2>7, <2>8, <3>2, ParserFacts DEF hunks
        <5> QED
          BY <2>7, <2>8, <3>0, <3>2, <4>2, <5>1 DEF hunks
      <4> QED
        BY <4>1, <4>2
    <3> QED
      BY <3>1, <3>2
  <2>15. CursorFollows'
    <3>1. OpenHunk'.new_start = OpenHunk.new_start /\ OpenHunk'.new_count = OpenHunk.new_count
          /\ OpenHunk.new_start \in Nat /\ OpenHunk.new_count \in Nat
      BY <2>7, <2>12 DEF Parser!Hunk, grown
    <3>2. git'.oldLeft > 0 => cursor'.old = git'.old + 1
      <4>1. git.oldLeft > 0 => cursor.old = git.old + 1
        BY <2>1 DEF CursorFollows
      <4> QED
        BY <1>3, <1>4, <1>6, <2>3, <4>1
    <3>3. git'.newLeft > 0 =>
            /\ cursor'.new = git'.new + 1
            /\ cursor'.new = OpenHunk'.new_start + (OpenHunk'.new_count - git'.newLeft)
      <4>1. git.newLeft > 0 =>
              /\ cursor.new = git.new + 1
              /\ cursor.new = OpenHunk.new_start + (OpenHunk.new_count - git.newLeft)
        BY <2>1 DEF CursorFollows
      <4> QED
        BY <1>3, <1>4, <1>6, <2>3, <3>1, <4>1
    <3> QED
      BY <3>2, <3>3 DEF CursorFollows
  <2>16. Parser!InHunk'
    <3>1. files[F].mode = "hunk"
      BY <2>1, InHunkIs
    <3>2. files' # <<>>
      BY <2>7 DEF Open
    <3> QED
      BY <2>7, <2>8, <3>1, <3>2 DEF Parser!InHunk, Parser!Last
  <2>17. git'.newLeft > 0 => changes'[Len(changes')].kind # "deleted"
    BY <1>3, <1>4, <1>6, <2>1, <2>9
  <2> QED
    BY <1>6, <2>1, <2>8, <2>10, <2>11, <2>14, <2>15, <2>16, <2>17 DEF Uncut
<1> QED
  BY <1>6, <1>14, <1>15, <1>16, <1>17 DEF ParserInv

\* A step that changes nothing keeps the invariant.
LEMMA StutterKeeps == ASSUME ParserInv, UNCHANGED Parser!vars PROVE ParserInv'
<1>1. Parser!TypeOK' <=> Parser!TypeOK
  BY DEF Parser!vars, Parser!TypeOK
<1>2. Shape' <=> Shape
  BY DEF Parser!vars, Open, Shape, InGitHunk, Parser!InHunk
<1>3. Parser!LinesTrue' <=> Parser!LinesTrue
  BY DEF Parser!vars, Parser!LinesTrue, Parser!TrueLines
<1>4. HunksRead' <=> HunksRead
  BY DEF Parser!vars, HunksRead
<1>5. CursorFollows' <=> CursorFollows
  BY DEF Parser!vars, CursorFollows, OpenHunk
<1>6. HeadersTrue' <=> HeadersTrue
  BY DEF Parser!vars, HeadersTrue
<1>7. Contained' <=> Contained
  BY DEF Parser!vars, Contained, Parser!TrueLines
<1>8. Uncut' <=> Uncut
  BY <1>3, <1>4, <1>5, <1>6 DEF Parser!vars, Uncut, InGitHunk, Parser!InHunk
<1> QED
  BY <1>1, <1>2, <1>7, <1>8 DEF ParserInv, Parser!vars

\* Nothing that is read changes nothing.
LEMMA GrownByNone ==
    ASSUME Parser!TypeOK, Open
    PROVE  Grown(<<>>) = files
<1> DEFINE F == Len(files)
           b == files[F]
           s == b.hunks
           H == Len(s)
           x == s[H]
<1>1. F \in DOMAIN files /\ b \in Parser!Block
  <2>1. F \in 1 .. F
    BY EmptySeq, LenProperties DEF Open, Parser!TypeOK
  <2> QED
    BY <2>1, ParserFacts
<1>2. s \in Seq(Parser!Hunk) /\ s # <<>>
  BY <1>1 DEF Parser!Block, Open
<1>3. H \in DOMAIN s /\ x \in Parser!Hunk
  BY <1>2, EmptySeq, LenProperties, ElementOfSeq
<1>4. x.lines \in Seq(Parser!HunkLine)
  BY <1>3 DEF Parser!Hunk
<1>5. x.lines \o <<>> = x.lines
  BY <1>4, ConcatEmptySeq
<1>6. [x EXCEPT !.lines = @ \o <<>>] = x
  <2> HIDE DEF x
  <2> QED
    BY <1>3, <1>5 DEF Parser!Hunk
<1>7. [s EXCEPT ![H] = x] = s
  <2>1. s = [j \in DOMAIN s |-> s[j]]
    BY <1>2
  <2> QED
    BY <1>3, <2>1
<1>8. [s EXCEPT ![H].lines = @ \o <<>>] = s
  BY <1>6, <1>7
<1>9. [b EXCEPT !.hunks = s] = b
  BY <1>1 DEF Parser!Block
<1>10. files = [j \in DOMAIN files |-> files[j]]
  BY DEF Parser!TypeOK
<1>11. [files EXCEPT ![F] = b] = files
  BY <1>1, <1>10
<1>12. Grown(<<>>) = [files EXCEPT ![F] = [b EXCEPT !.hunks = [s EXCEPT ![H].lines = @ \o <<>>]]]
  BY DEF Grown
<1> QED
  BY <1>8, <1>9, <1>11, <1>12

\* A marker changes nothing.
LEMMA ReadMarkerKeeps ==
    ASSUME ParserInv, Parser!ReadMarker
    PROVE  ParserInv'
<1>1. Parser!TypeOK /\ Shape /\ Parser!Reads("marker")
  BY DEF ParserInv, Parser!ReadMarker
<1>2. files' = files /\ cursor' = cursor
  <2>1. CASE Parser!InHunk
    <3>1. Open /\ files' = Grown(<<>>) /\ cursor' = cursor
      BY <1>1, <2>1 DEF Shape, Parser!Reads, Parser!Parsed, Parser!Moved, Grown
    <3> QED
      BY <1>1, <3>1, GrownByNone
  <2>2. CASE ~Parser!InHunk
    BY <1>1, <2>2 DEF Parser!Reads
  <2> QED
    BY <2>1, <2>2
<1>3. UNCHANGED Parser!vars
  BY <1>2 DEF Parser!ReadMarker, Parser!vars
<1> QED
  BY <1>3, StutterKeeps

\* The rest of a line that is cut is read, as whatever it looks like.
LEMMA ReadRestKeeps ==
    ASSUME ParserInv, Parser!ReadRest
    PROVE  ParserInv'
<1> DEFINE F == Len(files)
<1>1. Parser!TypeOK /\ Shape /\ Uncut /\ files # <<>> /\ Open
  BY DEF ParserInv, Shape, Parser!ReadRest, Parser!InHunk
<1>2. git' = git /\ changes' = changes /\ written' = written /\ cut' = F /\ cut = 0
  BY DEF Parser!ReadRest
<1>3. F \in Nat /\ F \in 1 .. F
  BY <1>1, EmptySeq, LenProperties DEF Parser!TypeOK
<1>4. FilesContinue /\ cursor' \in [old: Nat, new: Nat]
  <2>1. ASSUME NEW kind \in {"add", "delete", "context", "marker"}, Parser!Reads(kind)
        PROVE  FilesContinue /\ cursor' \in [old: Nat, new: Nat]
    BY <1>1, <2>1, ReadsTyped
  <2>2. ASSUME Parser!Opens([old |-> 1, new |-> 1], [old |-> 1, new |-> 1])
        PROVE  FilesContinue /\ cursor' \in [old: Nat, new: Nat]
    <3> DEFINE start == [old |-> 1, new |-> 1]
               count == [old |-> 1, new |-> 1]
    <3>1. start \in [old: Nat, new: Nat] /\ count.old \in Nat /\ count.new \in Nat
      OBVIOUS
    <3>2. Parser!Opens(start, count)
      BY <2>2
    <3> HIDE DEF start, count
    <3> QED
      BY <1>1, <3>1, <3>2, OpensTyped
  <2>3. ASSUME NEW change \in Parser!Changes, cursor' = cursor,
               files' = Append(files, Parser!ReadBlock(<<Parser!GitHeader(change)[1]>>))
        PROVE  FilesContinue /\ cursor' \in [old: Nat, new: Nat]
    <3> DEFINE b == Parser!ReadBlock(<<Parser!GitHeader(change)[1]>>)
    <3>1. b \in Parser!Block /\ b.mode = "header" /\ files' = Append(files, b)
      BY <2>3, OpenedByRest
    <3> HIDE DEF b
    <3>2. /\ files' \in Seq(Parser!Block) /\ Len(files') = F + 1 /\ files'[F + 1] = b
          /\ \A f \in 1 .. F : files'[f] = files[f]
      BY <1>1, <3>1, AppendProperties DEF Parser!TypeOK
    <3>3. ~Parser!InHunk'
      BY <1>3, <3>1, <3>2 DEF Parser!InHunk, Parser!Last
    <3> QED
      BY <1>1, <1>3, <2>3, <3>2, <3>3 DEF FilesContinue, Parser!TypeOK
  <2>4. ASSUME files' = [files EXCEPT ![Len(files)].mode = "hunks"], cursor' = cursor
        PROVE  FilesContinue /\ cursor' \in [old: Nat, new: Nat]
    <3> DEFINE b == files[F]
               c == [b EXCEPT !.mode = "hunks"]
    <3>1. b \in Parser!Block
      BY <1>1, <1>3, ElementOfSeq DEF Parser!TypeOK
    <3>2. c \in Parser!Block /\ c.old = b.old /\ c.new = b.new /\ c.mode # "hunk"
      <4> HIDE DEF b
      <4> QED
        BY <3>1 DEF Parser!Block
    <3>3. files' = [files EXCEPT ![F] = c]
      BY <2>4
    <3> HIDE DEF c
    <3>4. LastFileIs(c)
      BY <1>1, <3>2, <3>3, LastFileChanges DEF Parser!TypeOK
    <3>5. FilesContinue
      BY <1>1, <3>2, <3>4, LastFileContinues
    <3> QED
      BY <1>1, <2>4, <3>5 DEF Parser!TypeOK
  <2> QED
    BY <2>1, <2>2, <2>3, <2>4 DEF Parser!ReadRest
<1>5. GitContinues
  BY <1>1, <1>2, GitStays
<1>6. Contained'
  BY <1>1, <1>2, <1>4, <1>5, StaysContained
<1>7. Parser!TypeOK'
  BY <1>1, <1>2, <1>3, <1>4 DEF Parser!TypeOK, FilesContinue
<1>8. Shape'
  <2>1. files' # <<>>
    <3>1. Len(files') # 0 /\ Len(<<>>) = 0
      BY <1>3, <1>6 DEF Contained
    <3> QED
      BY <3>1
  <2> QED
    BY <1>1, <1>2, <1>4, <2>1 DEF Shape, FilesContinue, InGitHunk
<1> QED
  BY <1>2, <1>3, <1>6, <1>7, <1>8 DEF ParserInv

\* The invariant holds in every behaviour of the diff parser.
LEMMA ParserInvariant ==
    ASSUME Parser!ParserAssumption
    PROVE  Parser!Spec => []ParserInv
<1>1. Parser!Init => ParserInv
  BY ParserInitially
<1>2. ParserInv /\ [Parser!Next]_(Parser!vars) => ParserInv'
  <2> SUFFICES ASSUME ParserInv, [Parser!Next]_(Parser!vars) PROVE ParserInv'
    OBVIOUS
  <2>1. CASE Parser!ReadFile
    BY <2>1, ReadFileKeeps
  <2>2. CASE Parser!ReadHunkHeader
    BY <2>2, ReadHunkHeaderKeeps
  <2>3. CASE Parser!ReadLine
    BY <2>3, ReadLineKeeps
  <2>4. CASE Parser!ReadMarker
    BY <2>4, ReadMarkerKeeps
  <2>5. CASE Parser!ReadRest
    BY <2>5, ReadRestKeeps
  <2>6. CASE UNCHANGED Parser!vars
    BY <2>6, StutterKeeps
  <2> QED
    BY <2>1, <2>2, <2>3, <2>4, <2>5, <2>6 DEF Parser!Next
<1> QED
  BY <1>1, <1>2, PTL DEF Parser!Spec

\* The variables of the diff parser have their types.
THEOREM ParserTypeCorrect ==
    ASSUME Parser!ParserAssumption
    PROVE  Parser!Spec => []Parser!TypeOK
<1>1. ParserInv => Parser!TypeOK
  BY DEF ParserInv
<1> QED
  BY <1>1, ParserInvariant, PTL

\* Every hunk that git has written to its end is read to its end.
LEMMA RangesAreTrue == ASSUME ParserInv PROVE Parser!RangesTrue
<1> SUFFICES ASSUME NEW f \in DOMAIN files, NEW h \in DOMAIN files[f].hunks, cut = 0,
                    \/ f < Len(files) \/ h < Len(files[f].hunks)
                    \/ git.oldLeft + git.newLeft = 0
             PROVE  LET hunk == files[f].hunks[h]
                        all == {hunk.lines[i].new : i \in DOMAIN hunk.lines} \ {0}
                    IN  /\ hunk.new_count > 0 => all = hunk.new_start .. Parser!LastOfRange(hunk)
                        /\ hunk.old_count =
                             Parser!Cardinality({i \in DOMAIN hunk.lines : hunk.lines[i].old # 0})
  BY DEF Parser!RangesTrue
<1> DEFINE hunk == files[f].hunks[h]
<1>1. /\ hunk \in Parser!Hunk /\ Len(files) \in Nat /\ Len(files[f].hunks) \in Nat
      /\ git.oldLeft \in Nat /\ git.newLeft \in Nat
  <2>1. Parser!TypeOK
    BY DEF ParserInv
  <2>2. git.oldLeft \in Nat /\ git.newLeft \in Nat
    BY <2>1 DEF Parser!TypeOK
  <2> QED
    BY <2>1, <2>2, ParserFacts
<1>2. ReadBut(hunk, 0, 0)
  BY <1>1 DEF ParserInv, Uncut, HunksRead
<1>3. hunk.new_start \in Nat /\ hunk.new_count \in Nat /\ hunk.old_count \in Nat
  BY <1>1 DEF Parser!Hunk
<1> HIDE DEF hunk
<1>4. hunk.new_count > 0 => News(hunk.lines) = hunk.new_start .. Parser!LastOfRange(hunk)
  <2> SUFFICES ASSUME hunk.new_count > 0
               PROVE  News(hunk.lines) = hunk.new_start .. Parser!LastOfRange(hunk)
    OBVIOUS
  <2>1. Parser!LastOfRange(hunk) = hunk.new_start + (hunk.new_count - 0) - 1
    BY <1>3 DEF Parser!LastOfRange
  <2> QED
    BY <1>2, <2>1 DEF ReadBut
<1>5. hunk.old_count = Parser!Cardinality(Olds(hunk.lines))
  <2>1. hunk.old_count - 0 = hunk.old_count
    BY <1>3
  <2> QED
    BY <1>2, <2>1, ParserSets DEF ReadBut
<1> QED
  BY <1>4, <1>5 DEF hunk, News, Olds

\* What a caller of parse_diff() gets is true to what git wrote, in a diff of any
\* length of which splitlines() cuts no line: the lines, their numbers and order,
\* the ranges of the hunks, the kinds of the files where the diff tells them, the
\* paths of files with plain names, and every line that was added when deletions
\* are left out.  A line that is cut spoils no file before its own, nor the kind
\* and the path of its own, whatever its rest is read as: _parse_hunks() changes
\* the last file alone, and paths are settled when a header is read.
THEOREM ParserIsTrue ==
    ASSUME Parser!ParserAssumption
    PROVE  Parser!Spec => []DiffTrue
<1>1. ASSUME ParserInv PROVE DiffTrue
  <2>1. Parser!TypeOK /\ (cut = 0 => Uncut /\ HeadersTrue /\ Parser!LinesTrue)
    BY <1>1 DEF ParserInv, Uncut
  <2>2. Parser!NumbersTrue
    BY <2>1 DEF Parser!NumbersTrue
  <2>3. Parser!RangesTrue
    BY <1>1, RangesAreTrue
  <2>4. Parser!KindsTrue
    BY <2>1 DEF HeadersTrue, BlockTrue, Parser!KindsTrue
  <2>5. Parser!NoAdditionLost
    <3> SUFFICES ASSUME cut = 0
                 PROVE  Parser!Additions(Parser!KeptLines) = Parser!Additions(Parser!FlattenSeq(written))
      BY DEF Parser!NoAdditionLost
    <3>1. Parser!LinesTrue /\ Len(files) = Len(written)
      BY <2>1 DEF Parser!LinesTrue
    <3>2. \A f \in DOMAIN files : Parser!IsDeletedFile(files[f]) =>
            \A i \in DOMAIN written[f] : written[f][i].type # "add"
      BY <2>1 DEF HeadersTrue, BlockTrue, Parser!TrueKind
    <3> QED
      BY <2>1, <3>1, <3>2, OmissionKeepsAdditions DEF Parser!TypeOK
  <2>6. Parser!CutContained
    BY <1>1 DEF ParserInv, Contained, Parser!CutContained
  <2> QED
    BY <2>2, <2>3, <2>4, <2>5, <2>6 DEF DiffTrue, Parser!DiffTrue
<1> QED
  BY <1>1, ParserInvariant, PTL
=============================================================================

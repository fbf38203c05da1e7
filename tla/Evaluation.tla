------------------------------ MODULE Evaluation ------------------------------
(***************************************************************************)
(* kenjutsu/evaluation/runner.py: the benchmark is run with the structural *)
(* variant of the pipeline and with the diff-only one, the findings of     *)
(* each pull request are matched with the annotated ones, and the two      *)
(* measurements are compared for the go/no-go verdict.  Rates are exact    *)
(* here, pairs of numerator and denominator; the code has floats.          *)
(* Latencies, costs and the reports' texts are left out.                   *)
(***************************************************************************)
EXTENDS Integers, Sequences, FiniteSets, SequencesExt

CONSTANTS Corpora,     \* benchmarks: sequences of pull requests, each the
                       \* sequence of its annotated findings
          Findings,    \* what the pipeline may find
          MaxFindings, \* bound: findings per pull request
          Tolerance    \* lines by which an annotated range is widened

Finding == [file_path: STRING, category: STRING, line_start: Nat, line_end: Nat, origin: STRING]

EvaluationAssumption ==
    /\ MaxFindings \in Nat /\ Tolerance \in Nat
    /\ Corpora \subseteq Seq(Seq(Finding))
    /\ Findings \subseteq Finding /\ \A f \in Findings : f.line_start <= f.line_end

VARIABLES corpus,
          stage,   \* the variant that is run, "measured", "compared" or "raised"
          results, \* of the pull requests reviewed with this variant
          metrics, \* of the variants that were run
          verdict  \* "none", "go" or "no-go"

vars == <<corpus, stage, results, metrics, verdict>>

Variants == {"structural", "diff_only"}
NoMetrics == [pr_count |-> 0]
Result == [produced: Seq(Findings), tp: Seq(Findings), fp: Seq(Findings), missed: Seq(Finding)]
Metrics == [pr_count: Nat, tp: Nat, fp: Nat, missed: Nat, graph_tp: Nat]

TypeOK ==
    /\ corpus \in Corpora
    /\ stage \in Variants \cup {"measured", "compared", "raised"}
    /\ results \in Seq(Result) /\ Len(results) <= Len(corpus)
    /\ metrics \in [Variants -> {NoMetrics} \cup Metrics]
    /\ verdict \in {"none", "go", "no-go"}

Init ==
    /\ corpus \in Corpora
    /\ stage = "structural"
    /\ results = <<>>
    /\ metrics = [v \in Variants |-> NoMetrics]
    /\ verdict = "none"

-----------------------------------------------------------------------------
\* _line_ranges_overlap()
LineRangesOverlap(finding, ann) ==
    /\ finding.line_start <= ann.line_end + Tolerance
    /\ finding.line_end + Tolerance >= ann.line_start

Matches(finding, ann) ==
    /\ finding.file_path = ann.file_path /\ finding.category = ann.category
    /\ LineRangesOverlap(finding, ann)

\* Mutated form of Take, for the sensitivity check: the annotation is not taken.
Take_Kept(acc, finding) ==
    IF \E ann \in ToSet(acc.missed) : Matches(finding, ann)
      THEN [acc EXCEPT !.tp = Append(@, finding)]
      ELSE [acc EXCEPT !.fp = Append(@, finding)]

\* One round of match_findings(): a finding takes the first annotation it
\* matches among those that are left.
Take(acc, finding) ==
    LET i == SelectInSeq(acc.missed, LAMBDA ann : Matches(finding, ann))
    IN  IF i = 0 THEN [acc EXCEPT !.fp = Append(@, finding)]
        ELSE [acc EXCEPT !.tp = Append(@, finding), !.missed = RemoveAt(@, i)]

\* `round[n]` is what match_findings() has after n findings.
MatchFindings(produced, expected) ==
    LET round[n \in 0 .. Len(produced)] ==
          IF n = 0 THEN [produced |-> produced, tp |-> <<>>, fp |-> <<>>, missed |-> expected]
          ELSE Take(round[n - 1], produced[n])
    IN  round[Len(produced)]

\* run_eval(): the next pull request of the corpus is reviewed.
Review ==
    /\ stage \in Variants /\ Len(results) < Len(corpus)
    /\ \E produced \in BoundedSeq(Findings, MaxFindings) :
         results' = Append(results, MatchFindings(produced, corpus[Len(results) + 1]))
    /\ UNCHANGED <<corpus, stage, metrics, verdict>>

Total(counts) ==
    LET sum[n \in 0 .. Len(counts)] == IF n = 0 THEN 0 ELSE sum[n - 1] + counts[n]
    IN  sum[Len(counts)]

Graph(found) == {i \in DOMAIN found : found[i].origin = "graph"}

ComputeMetrics ==
    [pr_count |-> Len(results),
     tp       |-> Total([i \in DOMAIN results |-> Len(results[i].tp)]),
     fp       |-> Total([i \in DOMAIN results |-> Len(results[i].fp)]),
     missed   |-> Total([i \in DOMAIN results |-> Len(results[i].missed)]),
     graph_tp |-> Total([i \in DOMAIN results |-> Cardinality(Graph(results[i].tp))])]

\* compute_metrics() on the results of all pull requests; of none it raises.
\* compare_variants() counts the graph findings from the same results.
Measure ==
    /\ stage \in Variants /\ Len(results) = Len(corpus)
    /\ results' = <<>>
    /\ IF results = <<>>
         THEN stage' = "raised" /\ UNCHANGED metrics
         ELSE /\ metrics' = [metrics EXCEPT ![stage] = ComputeMetrics]
              /\ stage' = IF stage = "structural" THEN "diff_only" ELSE "measured"
    /\ UNCHANGED <<corpus, verdict>>

\* Mutated form of Raise: run_eval() returns the results so far.
Raise_KeepsResults ==
    /\ stage \in Variants /\ Len(results) < Len(corpus) /\ results # <<>>
    /\ metrics' = [metrics EXCEPT ![stage] = ComputeMetrics]
    /\ stage' = IF stage = "structural" THEN "diff_only" ELSE "measured"
    /\ results' = <<>>
    /\ UNCHANGED <<corpus, verdict>>

\* pipeline.review() raises: run_eval() does not catch it, and nothing is
\* left of the results so far.
Raise ==
    /\ stage \in Variants /\ Len(results) < Len(corpus)
    /\ stage' = "raised" /\ results' = <<>>
    /\ UNCHANGED <<corpus, metrics, verdict>>

\* n / d, or 0 if d is 0
Rate(n, d) == IF d = 0 THEN <<0, 1>> ELSE <<n, d>>
\* a - b > percent / 100
Exceeds(a, b, percent) == (a[1] * b[2] - b[1] * a[2]) * 100 > percent * a[2] * b[2]
AcceptedFindingRate(m) == Rate(m.tp, m.tp + m.missed)

\* compare_variants(), with structural_results or without
Compare ==
    /\ stage = "measured"
    /\ \E passed \in BOOLEAN :
         LET s == metrics["structural"]
             d == metrics["diff_only"]
             fraction == Rate(IF passed THEN s.graph_tp ELSE 0, s.tp)
             go == /\ Exceeds(AcceptedFindingRate(s), AcceptedFindingRate(d), 15)
                   /\ Exceeds(fraction, <<0, 1>>, 20)
         IN  verdict' = IF go THEN "go" ELSE "no-go"
    /\ stage' = "compared"
    /\ UNCHANGED <<corpus, results, metrics>>

Next == Review \/ Raise \/ Measure \/ Compare

Spec == Init /\ [][Next]_vars

-----------------------------------------------------------------------------
\* An assignment of annotations to some of the findings, no annotation twice.
Pairings(produced, expected) ==
    {p \in [DOMAIN produced -> 0 .. Len(expected)] :
        \A i \in DOMAIN produced : p[i] # 0 =>
            /\ Matches(produced[i], expected[p[i]])
            /\ \A j \in DOMAIN produced \ {i} : p[j] # p[i]}
Paired(p) == {i \in DOMAIN p : p[i] # 0}

\* `list` has the members of `all` at the places `kept`, in their order.
InOrder(list, all, kept) ==
    \E at \in [DOMAIN list -> kept] :
        /\ \A i, j \in DOMAIN list : i < j => at[i] < at[j]
        /\ kept \subseteq {at[i] : i \in DOMAIN list}
        /\ \A i \in DOMAIN list : list[i] = all[at[i]]

\* The true positives of a review are those of some pairing of its findings with
\* the annotations, its false positives and misses what that pairing leaves; no two
\* of these match, and it pairs half as many as could be at least.
MatchingTrue ==
    \A k \in DOMAIN results :
        LET r == results[k]
            expected == corpus[k]
            pairings == Pairings(r.produced, expected)
        IN  /\ \E p \in pairings :
                 /\ InOrder(r.tp, r.produced, Paired(p))
                 /\ InOrder(r.fp, r.produced, DOMAIN p \ Paired(p))
                 /\ InOrder(r.missed, expected, DOMAIN expected \ {p[i] : i \in DOMAIN p})
            /\ \A f \in ToSet(r.fp), a \in ToSet(r.missed) : ~Matches(f, a)
            /\ \A p \in pairings : Cardinality(Paired(p)) <= 2 * Len(r.tp)

\* A verdict compares the variants on every pull request and every annotation of
\* the corpus, and "go" takes more hits of the structural one, some from the graph.
ComparesLikeWithLike ==
    LET s == metrics["structural"]
        d == metrics["diff_only"]
        annotated == Total([k \in DOMAIN corpus |-> Len(corpus[k])])
    IN  /\ verdict # "none" =>
             /\ s.pr_count = Len(corpus) /\ d.pr_count = Len(corpus)
             /\ s.tp + s.missed = annotated /\ d.tp + d.missed = annotated
        /\ verdict = "go" => s.tp > d.tp /\ s.graph_tp > 0
==============================================================================

------------------------------- MODULE Rollup -------------------------------
(***************************************************************************)
(* What a campaign concludes from its cells (internal/result, Rollup, with *)
(* stats.Compare): the metrics of the usable cells of two arms, whether    *)
(* their medians differ by more than the noise, and the sentence that      *)
(* leads the report.                                                       *)
(*                                                                         *)
(* A cell is a record with the fields scenario, arm, level and values, the *)
(* last a function from metrics to numbers or Absent.  The baseline is arm *)
(* zero, the first declared.                                               *)
(*                                                                         *)
(* An operator named ...Mut is a seeded fault in the operation it stands   *)
(* before; nothing uses it.                                                *)
(***************************************************************************)
EXTENDS Gates, FiniteSets

CONSTANTS
  Metrics,         \* the metrics that are compared
  LowerIsBetter,   \* those of them that improve downward
  MinN             \* repetitions per arm that can support a conclusion

ASSUME RollupAssumption == LowerIsBetter \subseteq Metrics /\ MinN \in Nat \ {0}

Absent == -1

UsableMut(cell) == TRUE
Usable(cell) == ~Excluded(cell.level)

\* The values of one metric over an arm's usable cells, by their place among the cells.
Samples(cells, s, arm, m) ==
  LET used == {i \in DOMAIN cells : /\ cells[i].scenario = s /\ cells[i].arm = arm
                                    /\ Usable(cells[i]) /\ cells[i].values[m] # Absent}
  IN [i \in used |-> cells[i].values[m]]

-----------------------------------------------------------------------------
\* stats.Describe and stats.Compare on whole numbers.

Values(v) == {v[i] : i \in DOMAIN v}
Count(v) == Cardinality(DOMAIN v)

\* The k-th smallest of the values, each counted as often as it was measured.
Smallest(v, k) ==
  CHOOSE x \in Values(v) : /\ Cardinality({i \in DOMAIN v : v[i] < x}) < k
                           /\ Cardinality({i \in DOMAIN v : v[i] <= x}) >= k

TwiceMedian(v) == Smallest(v, (Count(v) + 1) \div 2) + Smallest(v, (Count(v) \div 2) + 1)

Spread(v) == Smallest(v, Count(v)) - Smallest(v, 1)

Distance(x, y) == IF x > y THEN x - y ELSE y - x

\* The delta is finer than two percent or than the spread of either arm.
InsideBandMut(a, b) ==
  LET ma == TwiceMedian(a) IN ma = 0 \/ 100 * Distance(ma, TwiceMedian(b)) < 2 * ma
InsideBand(a, b) ==
  LET ma == TwiceMedian(a)
      mb == TwiceMedian(b)
  IN \/ ma = 0
     \/ 100 * Distance(ma, mb) < 2 * ma
     \/ Distance(ma, mb) < 2 * Spread(a)
     \/ mb # 0 /\ Distance(ma, mb) * mb < 2 * Spread(b) * ma

\* overlap: the bootstrap intervals of the two medians overlap.
Decision(a, b, overlap) ==
  IF Count(a) < MinN \/ Count(b) < MinN THEN "insufficient"
  ELSE IF InsideBand(a, b) \/ overlap THEN "noise"
  ELSE IF TwiceMedian(b) > TwiceMedian(a) THEN "higher" ELSE "lower"

-----------------------------------------------------------------------------
\* Every arm that ran in a scenario against the baseline, on every metric both measured.
Comparisons(cells, overlapping) ==
  LET Ran == {[scenario |-> cells[i].scenario, arm |-> cells[i].arm, metric |-> m] :
                i \in DOMAIN cells, m \in Metrics}
      Base(x) == Samples(cells, x.scenario, 0, x.metric)
      Arm(x)  == Samples(cells, x.scenario, x.arm, x.metric)
  IN {[what |-> x, decision |-> Decision(Base(x), Arm(x), x \in overlapping)] :
        x \in {y \in Ran : y.arm # 0 /\ Count(Base(y)) > 0 /\ Count(Arm(y)) > 0}}

Worse(m) == IF m \in LowerIsBetter THEN "higher" ELSE "lower"

Regressions(compared)  == {c \in compared : c.decision = Worse(c.what.metric)}
Decided(compared)      == {c \in compared : c.decision # "insufficient"}
Improvements(compared) ==
  {c \in Decided(compared) \ Regressions(compared) : c.decision # "noise"}

\* The order of the cases is the point: a campaign that could not conclude has no
\* regressions either.
Sentence(ran, excluded, compared) ==
  IF ran = 0 THEN "no cells"
  ELSE IF ran = excluded THEN "all excluded"
  ELSE IF compared = {} THEN "no comparison"
  ELSE IF Decided(compared) = {} THEN "nothing established"
  ELSE IF Regressions(compared) = {} THEN "no regression"
  ELSE "regressions"

AtLevel(cells, level) == Cardinality({i \in DOMAIN cells : cells[i].level = level})

Report(cells, overlapping) ==
  LET ran == Cardinality(DOMAIN cells)
      compared == Comparisons(cells, overlapping)
  IN [ran |-> ran,
      valid |-> AtLevel(cells, Valid), suspect |-> AtLevel(cells, Suspect),
      excluded |-> AtLevel(cells, Invalid),
      compared |-> compared,
      sentence |-> Sentence(ran, AtLevel(cells, Invalid), compared)]
=============================================================================

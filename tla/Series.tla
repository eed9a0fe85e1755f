------------------------------- MODULE Series -------------------------------
(***************************************************************************)
(* internal/series: time-ordered observations and what is computed from    *)
(* them.  A series is a function from the stamps of its points to their    *)
(* values: the code keeps the points sorted, and no two of one series are  *)
(* taken at the same instant.  Stamps are ticks and values are integers.   *)
(* What the code divides, and compares as floating point, is compared here *)
(* with the divisor on the other side.                                     *)
(***************************************************************************)
EXTENDS Integers, FiniteSetsExt

CONSTANT Second   \* ticks in a second

Magnitude(x) == IF x < 0 THEN -x ELSE x

Points(s) == Cardinality(DOMAIN s)
Empty(s)  == DOMAIN s = {}
First(s)  == Min(DOMAIN s)
Last(s)   == Max(DOMAIN s)

\* Closed at both ends.
Window(s, from, to) == Restrict(s, {t \in DOMAIN s : from <= t /\ t <= to})

Sum(s) == SumFunction(s)

\* Mean, as the pair the comparisons below use: the sum and the number of points.
Mean(s) == [sum |-> Sum(s), n |-> Points(s)]

HasDelta(s) == Points(s) >= 2
Delta(s) == s[Last(s)] - s[First(s)]

\* The interval before the first point has no rate; a counter that went backwards
\* has none for that interval either.
Before(s, t) == Max({u \in DOMAIN s : u < t})
Rate(s) ==
  LET usable == {t \in DOMAIN s : t # First(s) /\ s[t] >= s[Before(s, t)]}
  IN [t \in usable |-> ((s[t] - s[Before(s, t)]) * Second) \div (t - Before(s, t))]

\* Means over buckets of `width`, counted from the first point; an empty bucket is
\* left out.
Bucket(s, width) ==
  LET stamp(t) == First(s) + ((t - First(s)) \div width) * width
      in(b)    == {t \in DOMAIN s : stamp(t) = b}
  IN [b \in {stamp(t) : t \in DOMAIN s} |-> Sum(Restrict(s, in(b))) \div Cardinality(in(b))]

Squares(s) == Sum([t \in DOMAIN s |-> s[t] * s[t]])

\* Standard deviation (Bessel-corrected) over mean is at most pct per cent.  No answer,
\* and so not flat, below two points or at a mean of zero.
CVAtMostMut(s, pct) == Points(s) >= 2 /\ Sum(s) # 0
CVAtMost(s, pct) ==
  LET n  == Points(s)
      S  == Sum(s)
      ss == n * Squares(s) - S * S
  IN n >= 2 /\ S # 0 /\ (10000 \div (pct * pct)) * n * ss <= (n - 1) * S * S

\* The least-squares line: its gradient per second is num / den.
Slope(s) ==
  LET n  == Points(s)
      x  == [t \in DOMAIN s |-> (t - First(s)) \div Second]
      xy == [t \in DOMAIN s |-> x[t] * s[t]]
  IN [num |-> n * Sum(xy) - Sum(x) * Sum(s),
      den |-> n * Squares(x) - Sum(x) * Sum(x)]

HasSlope(s) == Points(s) >= 3 /\ Slope(s).den # 0 /\ Sum(s) # 0

\* The line moves by at most 1/share of the mean in `over` ticks.
DriftAtMost(s, over, share) ==
  LET line == Slope(s)
  IN Magnitude(line.num) * share * Points(s) * over <= Second * line.den * Sum(s)
=============================================================================

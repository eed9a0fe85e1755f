------------------------------ MODULE Counters ------------------------------
(***************************************************************************)
(* internal/promx/window.go: what two scrapes of the runtime's counters    *)
(* say of the time between them.                                           *)
(*                                                                         *)
(* A scrape is read as a partial function from keys to counter values.  A  *)
(* histogram's buckets are keyed by their upper edge, a number, or Inf.    *)
(***************************************************************************)
EXTENDS Integers, FiniteSetsExt

CONSTANT Inf   \* the edge "+Inf"

Positive(x) == IF x < 0 THEN 0 ELSE x

\* Absent in either scrape, or gone backwards, is no delta.
CounterDelta(a, b, k) ==
  IF k \in DOMAIN a /\ k \in DOMAIN b /\ b[k] >= a[k]
    THEN [ok |-> TRUE, v |-> b[k] - a[k]] ELSE [ok |-> FALSE, v |-> 0]

\* A key the first scrape lacks started from zero; one that went backwards is left out.
CounterDeltaByLabel(a, b) ==
  LET was(k) == IF k \in DOMAIN a THEN a[k] ELSE 0
  IN [k \in {k \in DOMAIN b : b[k] >= was(k)} |-> b[k] - was(k)]

\* HistogramWindow: bucket by bucket, never below zero.
HistogramWindowMut(a, b) == b
HistogramWindow(a, b) ==
  [le \in DOMAIN b |-> Positive(b[le] - (IF le \in DOMAIN a THEN a[le] ELSE 0))]

Observations(h) == IF Inf \in DOMAIN h THEN h[Inf] ELSE 0

\* Quantile: which bucket holds the given per cent of the observations, and how much the
\* buckets support that.  The first bucket answers only with its edge, the last finite
\* edge only with a lower bound.
Quantile(h, percent) ==
  LET total == Observations(h)
      edges == DOMAIN h \ {Inf}
      reach == {le \in edges : 100 * h[le] >= percent * total}
      unknown == [bound |-> "unknown", edge |-> 0, prev |-> 0]
  IN IF total = 0 \/ edges = {} THEN unknown
     ELSE IF reach = {} THEN [unknown EXCEPT !.bound = "above", !.edge = Max(edges)]
     ELSE LET le == Min(reach)
              below == {e \in edges : e < le}
          IN IF below = {}
               THEN [unknown EXCEPT !.bound = "below", !.edge = le]
               ELSE [bound |-> "interpolated", edge |-> le, prev |-> Max(below)]
=============================================================================

------------------------------- MODULE Steady -------------------------------
(***************************************************************************)
(* internal/stats/steady.go: the earliest suffix of a load pass that is    *)
(* flat enough to measure, and no window at all where there is none.       *)
(***************************************************************************)
EXTENDS Series

MaxCVPct       == 5    \* MaxCV
DriftShare     == 50   \* DriftPctAcrossWindow: a fiftieth of the mean
CPUDriftShare  == 20   \* two and a half times as much
MaxQuantumFrac == 10   \* DefaultMaxQuantumFrac: a tenth of the mean

\* SteadyConfigFor: the shortest window that may be accepted.  The trend is bounded over
\* this span too, which is what the conversion to per cent per minute amounts to.
MinDuration(pass) == Min({30 * Second, Max({2 * Second, pass \div 2})})

\* tooCoarseToCorroborate: a step of the instrument is more than a tenth of its mean; a
\* mean of zero has nothing for the step to be small against.
TooCoarse(s, quantum) ==
  /\ quantum > 0
  /\ Mean(s).sum = 0 \/ MaxQuantumFrac * quantum * Mean(s).n > Mean(s).sum

\* What a second series says of a suffix.  One that cannot answer does not veto.
CorroboratesMut(co, from, last, over, quantum) ==
  LET w == Window(co, from, last)
  IN IF Empty(co)                  THEN "not offered"
     ELSE IF ~HasSlope(w)          THEN "no trend"
     ELSE IF TooCoarse(w, quantum) THEN "too coarse" ELSE "agrees"
Corroborates(co, from, last, over, quantum) ==
  LET w == Window(co, from, last)
  IN IF Empty(co)                  THEN "not offered"
     ELSE IF ~HasSlope(w)          THEN "no trend"
     ELSE IF TooCoarse(w, quantum) THEN "too coarse"
     ELSE IF ~DriftAtMost(w, over, CPUDriftShare) THEN "drifting"
     ELSE "agrees"

NoWindow == [ok |-> FALSE, from |-> 0, to |-> 0, corroborated |-> FALSE]

Flat(s, over) == CVAtMost(s, MaxCVPct) /\ HasSlope(s) /\ DriftAtMost(s, over, DriftShare)

\* DetectSteady: candidate starts are walked forward and the first that satisfies every
\* criterion is taken; co is the corroborating series, empty where there is none.
DetectSteady(rps, pass, co, quantum) ==
  LET s    == Bucket(rps, Second)
      last == Last(s)
      over == MinDuration(pass)
      says(t) == Corroborates(co, t, last, over, quantum)
      good == {t \in DOMAIN s :
                 /\ Points(Window(s, t, last)) >= 3
                 /\ last - t >= over
                 /\ Flat(Window(s, t, last), over)
                 /\ says(t) # "drifting"}
  IN IF good = {} THEN NoWindow
     ELSE LET from == Min(good)
          IN [ok |-> TRUE, from |-> from, to |-> last,
              corroborated |-> says(from) = "agrees"]

\* FixedWindow: a fixed prefix is discarded, recorded for comparison only.
FixedWindow(s, discard) ==
  IF Empty(s) \/ First(s) + discard >= Last(s)
    THEN NoWindow
    ELSE [NoWindow EXCEPT !.ok = TRUE, !.from = First(s) + discard, !.to = Last(s)]
=============================================================================

------------------------------ MODULE MCResults ------------------------------
(***************************************************************************)
(* Instances of Results for model checking: four cells, as two scenarios   *)
(* of two arms, as two repetitions of two arms, or in blocked order; one   *)
(* metric that only some cells measure, one every cell does.               *)
(***************************************************************************)
EXTENDS ResultsClaims

CONSTANTS s1, s2, throughput, serverMean

TwoScenarios == [scenarios |-> <<s1, s2>>, arms |-> 2, reps |-> 1,
                 order |-> "interleaved", seed |-> 3, observe |-> FALSE]
TwoReps == [TwoScenarios EXCEPT !.scenarios = <<s1>>, !.reps = 2]

\* From the third seed on: one whose sum with a repetition passes the largest integer, and
\* a negative one, for which the remainder is not that of its absolute value.
MCCampaigns ==
  {TwoScenarios, TwoReps, [TwoReps EXCEPT !.order = "blocked"],
   [TwoScenarios EXCEPT !.observe = TRUE],
   [TwoReps EXCEPT !.seed = 7], [TwoReps EXCEPT !.seed = -4]}

MCMetrics == {throughput, serverMean}

Numbers(t, s) == [m \in MCMetrics |-> IF m = throughput THEN t ELSE s]

\* A cell nothing is wrong with.
Clean ==
  [scenario |-> s1, alloc |-> 4, pool |-> 4, cap |-> 8, busy |-> FALSE, competing |-> FALSE,
   failed |-> 0, dropped |-> 0, short |-> FALSE, served |-> TRUE, shed |-> 0,
   steady |-> TRUE, corroborated |-> TRUE, imposter |-> FALSE, mute |-> FALSE,
   ready |-> "readyz", machine |-> "host", clock |-> "stable",
   sampled |-> TRUE, values |-> Numbers(100, 5)]

MCMeasurements ==
  {Clean,
   [Clean EXCEPT !.values = Numbers(110, 5), !.clock = "unmeasured"],
   [Clean EXCEPT !.values = Numbers(99, 6), !.corroborated = FALSE],
   [Clean EXCEPT !.alloc = 2, !.pool = 2],
   [Clean EXCEPT !.ready = "route", !.served = FALSE, !.values = Numbers(100, Absent)],
   [Clean EXCEPT !.failed = 1, !.values = Numbers(300, Absent)],
   [Clean EXCEPT !.busy = TRUE, !.sampled = FALSE]}
=============================================================================

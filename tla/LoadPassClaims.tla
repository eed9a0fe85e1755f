--------------------------- MODULE LoadPassClaims ---------------------------
(***************************************************************************)
(* A statement the comments of the calibration make about it, refuted by a *)
(* run of its own; see the findings in the README.                         *)
(***************************************************************************)
EXTENDS LoadPass

\* knee.go:243 "Each window also stops an instant short of the next one ... a rung would
\* inherit the drops and the latency of the rung that broke, and the knee would be
\* reported one step low": the knee is not below a rung which the system could serve, as
\* it could every rung before it.
SustainedRungsHold ==
  Calibrated =>
    \A i \in 1..Steps :
      (\A j \in 1..i : Targets[j] <= system.capacity) => Targets[i] <= knee.rate
=============================================================================

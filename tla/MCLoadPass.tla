----------------------------- MODULE MCLoadPass -----------------------------
(* Ticks of a tenth of a second; the ramp of three rungs has the dwell and   *)
(* the transition the specification defaults to; a measured pass of six      *)
(* seconds at a hundred requests each.                                       *)
EXTENDS LoadPassClaims

Answers(fast, mid, slow, ticks) ==
  [rows |-> TRUE, fast |-> fast, mid |-> mid, slow |-> slow, cpu |-> ticks]

Busy    == Answers(100, 0, 0, 60)
Idle    == Answers(100, 0, 0, 5)
MCUsual == {Busy, Idle}

Warm    == Answers(0, 100, 0, 90)
Slow    == Answers(90, 0, 10, 60)
Wobble  == Answers(90, 0, 0, 60)
Stalled == Answers(0, 0, 0, 0)
Frozen  == [Stalled EXCEPT !.rows = FALSE]
MCDisturbances == {Warm, Slow, Wobble, Stalled, Frozen}

Always  == 9999
MCSystems ==
  [mode : {"shed", "refuse", "fail", "slow"}, capacity : {1500, 3100, 3300, 5000},
   until : {Always, Skip + 2 * (Transition + Dwell)}]
=============================================================================

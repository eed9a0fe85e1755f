-------------------------------- MODULE Plan --------------------------------
(***************************************************************************)
(* The order a campaign's cells run in (internal/plan).  An arm is its     *)
(* index in the declared list, from zero; so are positions within a        *)
(* repetition and ordinals within the campaign.  A campaign is a record    *)
(*   [scenarios: a sequence, arms: how many, reps, order, seed].           *)
(*                                                                         *)
(* An operator named ...Mut is a seeded fault in the operation it stands   *)
(* before; nothing uses it.                                                *)
(***************************************************************************)
EXTENDS Integers, Sequences

CONSTANT MaxInt  \* the largest int64

ASSUME PlanAssumption == MaxInt \in Nat \ {0}

\* Adding a repetition number to the seed may pass the largest int64.
Wrap(x) == IF x > MaxInt THEN x - 2 * (MaxInt + 1) ELSE x

ShiftMut(n, rep, seed) == Wrap(seed) % n
Shift(n, rep, seed) == Wrap(rep - 1 + seed) % n

\* Interleaved: the arms rotate by one from repetition to repetition.
ArmAt(n, rep, order, seed, pos) ==
  IF order = "blocked" THEN pos ELSE (pos + Shift(n, rep, seed)) % n

Size(c) == Len(c.scenarios) * c.reps * c.arms

\* The cell of each ordinal: scenarios outermost, then repetitions, then positions.
Expand(c) ==
  [o \in 0..(Size(c) - 1) |->
     LET pos == o % c.arms
         rep == ((o \div c.arms) % c.reps) + 1
     IN [scenario |-> c.scenarios[(o \div (c.arms * c.reps)) + 1],
         rep      |-> rep,
         position |-> pos,
         arm      |-> ArmAt(c.arms, rep, c.order, c.seed, pos)]]

\* "over n repetitions each arm occupies each position exactly once": a drift that
\* follows the position in the session then weighs on every arm alike.
Balanced(c) ==
  \A first \in 1..(c.reps - c.arms + 1), arm, pos \in 0..(c.arms - 1) :
    \E rep \in first..(first + c.arms - 1) :
      /\ ArmAt(c.arms, rep, c.order, c.seed, pos) = arm
      /\ \A other \in first..(first + c.arms - 1) :
           ArmAt(c.arms, other, c.order, c.seed, pos) = arm => other = rep
=============================================================================

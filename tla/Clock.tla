------------------------------- MODULE Clock -------------------------------
(***************************************************************************)
(* The clock evidence of a cell (internal/campaign/clock.go): the offset   *)
(* of the subject's clock from the runner's is estimated before the        *)
(* collectors start and again after they stop, each time from a few round  *)
(* trips of `date`, and the gate env.clock judges how far the two          *)
(* estimates moved apart.                                                  *)
(*                                                                         *)
(* Time is counted in ticks of the runner's clock, a tick being the        *)
(* nanosecond of the code.  The subject's clock is `skew` ahead of it, and *)
(* may be disciplined at any moment.                                       *)
(***************************************************************************)
EXTENDS Integers

CONSTANTS
  Probes,     \* clockProbes: round trips per estimate
  MaxDelay,   \* longest way to the subject, or back
  Second,     \* ticks in a second
  Instants,   \* moments at which a probe may be sent
  Skews,      \* offsets the subject's clock may have
  MaxDrift,   \* MaxClockDriftMs
  Forever     \* math.MaxInt64, longer than any round trip

ASSUME ClockAssumption ==
  /\ Probes \in Nat \ {0} /\ Second \in Nat \ {0}
  /\ MaxDelay \in Nat /\ MaxDrift \in Nat
  /\ Instants \subseteq Nat /\ Skews \subseteq Int
  /\ Forever \in Nat /\ Forever > 2 * MaxDelay

VARIABLES
  oneHost,  \* Hosts.Runner == Hosts.Subject
  date,     \* "fine" prints nanoseconds, "coarse" only seconds
  skew,     \* the subject's clock minus the runner's
  ctxDone,
  phase,    \* "opening", "pass", "closing" or "over"
  probe,    \* round trips this estimate has taken
  best, offset,   \* the locals of measureClock
  opening,  \* clockAtStart
  clock,    \* out.Clock, once the cell is over
  \* What the properties need to remember:
  truth,    \* the skew when the stamp that was kept was taken
  fastest,  \* the least round trip that was answered
  truthAtStart

host     == <<oneHost, date>>
estimate == <<probe, best, offset, truth, fastest>>
evidence == <<opening, clock, truthAtStart>>
vars == <<host, skew, ctxDone, phase, estimate, evidence>>

Abs(x) == IF x < 0 THEN -x ELSE x
Larger(x, y) == IF x < y THEN y ELSE x

Unmeasured == [measured |-> FALSE, offset |-> 0, uncertainty |-> 0, drift |-> 0]
Measured(o, u) == [measured |-> TRUE, offset |-> o, uncertainty |-> u, drift |-> 0]

Fresh == probe = 0 /\ best = Forever /\ offset = 0 /\ fastest = Forever
FreshNext == probe' = 0 /\ best' = Forever /\ offset' = 0 /\ fastest' = Forever

Init ==
  /\ oneHost \in BOOLEAN /\ date \in {"fine", "coarse"}
  /\ skew \in Skews
  /\ ctxDone = FALSE
  /\ phase = "opening"
  /\ Fresh /\ truth = skew
  /\ opening = Unmeasured /\ clock = Unmeasured /\ truthAtStart = skew

Estimating == phase \in {"opening", "closing"}

-----------------------------------------------------------------------------
\* measureClock.

\* What `date` prints at the moment t of the subject's clock, as parseEpoch reads it.
Printed(t) == IF date = "fine" THEN t ELSE (t \div Second) * Second

\* The stamp is taken somewhere inside the round trip; the midpoint is the guess.
MidpointMut(sent, rtt) == sent + rtt
Midpoint(sent, rtt) == sent + (rtt \div 2)

Better(rtt) == rtt < best

Probing == Estimating /\ ~oneHost /\ ~ctxDone /\ probe < Probes

Answered ==
  /\ Probing
  /\ \E sent \in Instants, out, back \in 0..MaxDelay :
       LET rtt == out + back
       IN /\ IF Better(rtt)
               THEN /\ best' = rtt
                    /\ offset' = Printed(sent + out + skew) - Midpoint(sent, rtt)
                    /\ truth' = skew
               ELSE UNCHANGED <<best, offset, truth>>
          /\ fastest' = IF rtt < fastest THEN rtt ELSE fastest
  /\ probe' = probe + 1
  /\ UNCHANGED <<host, skew, ctxDone, phase, evidence>>

\* The command fails, or parseEpoch refuses what it printed.
Unanswered ==
  /\ Probing
  /\ probe' = probe + 1
  /\ UNCHANGED <<host, skew, ctxDone, phase, best, offset, truth, fastest, evidence>>

Estimate ==
  IF oneHost THEN Measured(0, 0)
  ELSE IF best = Forever THEN Unmeasured
  ELSE Measured(offset, best \div 2)

DriftMut(start, end) ==
  LET both == start.measured /\ end.measured
  IN [measured |-> both, offset |-> start.offset, uncertainty |-> start.uncertainty,
      drift |-> IF both THEN end.offset - start.offset ELSE 0]
Drift(start, end) ==
  LET both == start.measured /\ end.measured
  IN [measured |-> both, offset |-> start.offset,
      uncertainty |-> IF both THEN Larger(start.uncertainty, end.uncertainty)
                              ELSE start.uncertainty,
      drift |-> IF both THEN end.offset - start.offset ELSE 0]

Estimated == oneHost \/ ctxDone \/ probe = Probes

OpeningEstimated ==
  /\ phase = "opening" /\ Estimated
  /\ opening' = Estimate /\ truthAtStart' = truth
  /\ phase' = "pass"
  /\ UNCHANGED <<host, skew, ctxDone, estimate, clock>>

\* The load passes between the two estimates.
PassEnds ==
  /\ phase = "pass" /\ phase' = "closing"
  /\ FreshNext
  /\ UNCHANGED <<host, skew, ctxDone, truth, evidence>>

ClosingEstimated ==
  /\ phase = "closing" /\ Estimated
  /\ clock' = Drift(opening, Estimate)
  /\ phase' = "over"
  /\ UNCHANGED <<host, skew, ctxDone, estimate, opening, truthAtStart>>

-----------------------------------------------------------------------------
\* The subject's clock is disciplined, and the operator may interrupt.

Disciplined ==
  /\ phase # "over"
  /\ skew' \in Skews
  /\ UNCHANGED <<host, ctxDone, phase, estimate, evidence>>

Interrupt ==
  /\ phase # "over" /\ ~ctxDone /\ ctxDone' = TRUE
  /\ UNCHANGED <<host, skew, phase, estimate, evidence>>

Next == Answered \/ Unanswered \/ OpeningEstimated \/ PassEnds \/ ClosingEstimated
          \/ Disciplined \/ Interrupt

Spec == Init /\ [][Next]_vars

\* ClockDrift.Check (internal/gate/gates.go).
ClockDrift ==
  IF ~clock.measured THEN "suspect"
  ELSE IF Abs(clock.drift) > MaxDrift THEN "invalid" ELSE "pass"

-----------------------------------------------------------------------------
(***************************************************************************)
(* Properties.                                                             *)
(***************************************************************************)

ClockEvidence == [measured : BOOLEAN, offset : Int, uncertainty : Nat, drift : Int]

\* Every variable stays in its range.
TypeOK ==
  /\ oneHost \in BOOLEAN /\ date \in {"fine", "coarse"}
  /\ skew \in Int /\ ctxDone \in BOOLEAN
  /\ phase \in {"opening", "pass", "closing", "over"}
  /\ probe \in 0..Probes
  /\ best \in Nat /\ fastest \in Nat /\ offset \in Int
  /\ truth \in Int /\ truthAtStart \in Int
  /\ opening \in ClockEvidence /\ clock \in ClockEvidence

\* What a date without nanoseconds hides.
Hidden == IF date = "fine" THEN 0 ELSE Second - 1

\* The estimate is wrong by no more than half of the fastest round trip, however slow
\* and lopsided the others were and whenever the clock was moved: plus a tick for the
\* halving, and plus what a whole-second date hides, of which the recorded uncertainty
\* knows nothing.
OffsetIsBounded ==
  ~oneHost /\ best # Forever =>
    LET off == fastest \div 2 + 1
    IN offset - truth \in -(off + Hidden)..off

\* What the gate says of the drift is true of the two clocks, up to the error the
\* evidence admits: twice the recorded uncertainty, for it has the wider of the two
\* estimates where both contribute.
DriftVerdictIsSound ==
  phase = "over" /\ ~oneHost =>
    LET moved == Abs(truth - truthAtStart)
        slack == 2 * clock.uncertainty + 2 + Hidden
    IN /\ ClockDrift = "pass" => moved <= MaxDrift + slack
       /\ ClockDrift = "invalid" => moved > MaxDrift - slack

\* Why both hold: an estimate is off by at most half of its own round trip, and the
\* opening one is kept unchanged.
EstimateInv ==
  /\ best = fastest
  /\ OffsetIsBounded
  /\ opening.measured /\ ~oneHost =>
       LET off == opening.uncertainty + 1
       IN opening.offset - truthAtStart \in -(off + Hidden)..off
  /\ DriftVerdictIsSound
=============================================================================

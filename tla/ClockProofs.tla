---------------------------- MODULE ClockProofs ----------------------------
(***************************************************************************)
(* Proofs about Clock: for every number of probes, every delay and every   *)
(* way the subject's clock is moved, what the evidence and its gate say of *)
(* the two clocks is true within a stated error.                           *)
(***************************************************************************)
EXTENDS Clock, TLAPS

\* Rounding down to a whole second loses less than a second.
LEMMA WholeSeconds ==
  ASSUME NEW t \in Int
  PROVE  /\ (t \div Second) * Second \in Int
         /\ t - (t \div Second) * Second \in 0..(Second - 1)
BY ClockAssumption DEF ClockAssumption

\* Half of a round trip is half of it, up to a tick.
LEMMA Halving ==
  ASSUME NEW r \in Nat
  PROVE  /\ r \div 2 \in Nat
         /\ r - 2 * (r \div 2) \in {0, 1}
OBVIOUS

\* A single probe is off by at most half of its round trip, a tick and what `date` hides.
LEMMA OneProbe ==
  ASSUME NEW sent \in Nat, NEW out \in Nat, NEW back \in Nat, NEW s \in Int,
         date \in {"fine", "coarse"}
  PROVE  LET rtt == out + back
             off == rtt \div 2 + 1
             o == Printed(sent + out + s) - Midpoint(sent, rtt)
         IN /\ o \in Int
            /\ o - s \in -(off + Hidden)..off
<1> DEFINE rtt == out + back
           h == rtt \div 2
           t == sent + out + s
           p == Printed(t)
<1>1. t \in Int /\ rtt \in Nat
  OBVIOUS
<1>2. h \in Nat /\ rtt - 2 * h \in {0, 1}
  BY <1>1, Halving
<1>3. /\ Hidden \in Nat /\ p \in Int
      /\ t - p \in 0..Hidden
  <2>1. CASE date = "fine"
    BY <1>1, <2>1 DEF Printed, Hidden
  <2>2. CASE date # "fine"
    BY <1>1, <2>2, WholeSeconds, ClockAssumption DEF Printed, Hidden, ClockAssumption
  <2>3. QED
    BY <2>1, <2>2
<1>4. Midpoint(sent, rtt) = sent + h
  BY DEF Midpoint
<1> HIDE DEF h, p
<1>5. /\ p - (sent + h) \in Int
      /\ p - (sent + h) - s \in -(h + 1 + Hidden)..(h + 1)
  <2>1. rtt = out + back /\ t = sent + out + s
    OBVIOUS
  <2> HIDE DEF rtt, t
  <2>2. QED
    BY <1>1, <1>2, <1>3, <2>1
<1>6. QED
  BY <1>4, <1>5 DEF h, p

\* Every variable stays in its range (TypeOK).
THEOREM Typing == Spec => []TypeOK
<1>1. Init => TypeOK
  <2> USE ClockAssumption DEF ClockAssumption
  <2> SUFFICES ASSUME Init
               PROVE  TypeOK
    OBVIOUS
  <2>1. Unmeasured \in ClockEvidence
    BY DEF Unmeasured, ClockEvidence
  <2>2. skew \in Int /\ Forever \in Nat /\ 0 \in 0..Probes
    BY DEF Init
  <2>3. oneHost \in BOOLEAN /\ ctxDone \in BOOLEAN
    BY Zenon DEF Init
  <2>4. QED
    BY <2>1, <2>2, <2>3 DEF Init, Fresh, TypeOK
<1>2. TypeOK /\ [Next]_vars => TypeOK'
  <2> SUFFICES ASSUME TypeOK, [Next]_vars
               PROVE  TypeOK'
    OBVIOUS
  <2> USE ClockAssumption DEF ClockAssumption, TypeOK, host, estimate, evidence
  <2>1. CASE Answered
    <3>1. PICK sent \in Instants, out \in 0..MaxDelay, back \in 0..MaxDelay :
            LET rtt == out + back
            IN /\ IF Better(rtt)
                    THEN /\ best' = rtt
                         /\ offset' = Printed(sent + out + skew) - Midpoint(sent, rtt)
                         /\ truth' = skew
                    ELSE UNCHANGED <<best, offset, truth>>
               /\ fastest' = IF rtt < fastest THEN rtt ELSE fastest
      BY <2>1, Zenon DEF Answered
    <3>2. sent \in Nat /\ out \in Nat /\ back \in Nat
      OBVIOUS
    <3>3. Printed(sent + out + skew) - Midpoint(sent, out + back) \in Int
      BY <3>2, OneProbe
    <3>4. best' \in Nat /\ offset' \in Int /\ truth' \in Int /\ fastest' \in Nat
      BY <3>1, <3>2, <3>3
    <3>5. probe' \in 0..Probes /\ UNCHANGED <<host, skew, ctxDone, phase, evidence>>
      BY <2>1 DEF Answered, Probing
    <3>6. QED
      BY <3>4, <3>5
  <2>2. CASE Unanswered
    BY <2>2 DEF Unanswered, Probing
  <2>3. CASE OpeningEstimated
    <3>1. Estimate \in ClockEvidence
      BY Halving DEF Estimate, Unmeasured, Measured, ClockEvidence
    <3>2. QED
      BY <2>3, <3>1 DEF OpeningEstimated
  <2>4. CASE PassEnds
    BY <2>4 DEF PassEnds, FreshNext
  <2>5. CASE ClosingEstimated
    <3>1. Estimate \in ClockEvidence
      BY Halving DEF Estimate, Unmeasured, Measured, ClockEvidence
    <3>2. Drift(opening, Estimate) \in ClockEvidence
      <4> DEFINE e == Estimate
      <4>1. e \in ClockEvidence
        BY <3>1
      <4> HIDE DEF e
      <4>2. Drift(opening, e) \in ClockEvidence
        BY <4>1 DEF Drift, Larger, ClockEvidence
      <4>3. QED
        BY <4>2 DEF e
    <3>3. QED
      BY <2>5, <3>2 DEF ClosingEstimated
  <2>6. CASE Disciplined
    BY <2>6 DEF Disciplined
  <2>7. CASE Interrupt
    <3>1. ctxDone' \in BOOLEAN
      BY <2>7, Zenon DEF Interrupt
    <3>2. UNCHANGED <<host, skew, phase, estimate, evidence>>
      BY <2>7, Zenon DEF Interrupt
    <3>3. QED
      BY <3>1, <3>2
  <2>8. CASE UNCHANGED vars
    BY <2>8 DEF vars
  <2>9. QED
    BY <2>1, <2>2, <2>3, <2>4, <2>5, <2>6, <2>7, <2>8 DEF Next
<1>3. QED
  BY <1>1, <1>2, PTL DEF Spec

\* The evidence ClosingEstimated leaves, by the cases of the two estimates.
LEMMA DriftOf ==
  ASSUME NEW s \in ClockEvidence, NEW e \in ClockEvidence
  PROVE  LET c == Drift(s, e)
         IN /\ c.measured <=> s.measured /\ e.measured
            /\ c.measured => /\ c.drift = e.offset - s.offset
                             /\ c.uncertainty >= s.uncertainty
                             /\ c.uncertainty >= e.uncertainty
BY DEF Drift, Larger, ClockEvidence

\* Two estimates, each off by its own uncertainty and a tick, give a drift that is off
\* by twice the wider one.
LEMMA TwoEstimates ==
  ASSUME NEW o1 \in Int, NEW o2 \in Int, NEW t1 \in Int, NEW t2 \in Int,
         NEW u1 \in Nat, NEW u2 \in Nat, NEW u \in Nat, NEW hid \in Nat, NEW m \in Nat,
         u >= u1, u >= u2,
         o1 - t1 \in -((u1 + 1) + hid)..(u1 + 1),
         o2 - t2 \in -((u2 + 1) + hid)..(u2 + 1)
  PROVE  /\ Abs(o2 - o1) <= m => Abs(t2 - t1) <= m + (2 * u + 2 + hid)
         /\ Abs(o2 - o1) > m => Abs(t2 - t1) > m - (2 * u + 2 + hid)
BY DEF Abs

\* EstimateInv holds: the estimate kept is off by half of its round trip, the opening
\* one is still what it was, and so the gate's verdict is sound.
THEOREM ClockInvariant == Spec => []EstimateInv
<1>1. Init => EstimateInv
  <2> USE ClockAssumption DEF ClockAssumption
  <2> SUFFICES ASSUME Init
               PROVE  EstimateInv
    OBVIOUS
  <2>1. best = Forever /\ fastest = Forever /\ ~opening.measured /\ phase = "opening"
    BY DEF Init, Fresh, Unmeasured
  <2>2. QED
    BY <2>1 DEF EstimateInv, OffsetIsBounded, DriftVerdictIsSound
<1>2. TypeOK /\ TypeOK' /\ EstimateInv /\ [Next]_vars => EstimateInv'
  <2> SUFFICES ASSUME TypeOK, TypeOK', EstimateInv, [Next]_vars
               PROVE  EstimateInv'
    OBVIOUS
  <2> USE ClockAssumption DEF ClockAssumption, host, estimate, evidence
  <2>1. CASE Answered
    <3>1. PICK sent \in Instants, out \in 0..MaxDelay, back \in 0..MaxDelay :
            LET rtt == out + back
            IN /\ IF Better(rtt)
                    THEN /\ best' = rtt
                         /\ offset' = Printed(sent + out + skew) - Midpoint(sent, rtt)
                         /\ truth' = skew
                    ELSE UNCHANGED <<best, offset, truth>>
               /\ fastest' = IF rtt < fastest THEN rtt ELSE fastest
      BY <2>1, Zenon DEF Answered
    <3>2. sent \in Nat /\ out \in Nat /\ back \in Nat /\ skew \in Int
          /\ date \in {"fine", "coarse"} /\ best = fastest
      BY DEF TypeOK, EstimateInv
    <3>3. UNCHANGED <<host, skew, ctxDone, phase, evidence>> /\ phase # "over"
      BY <2>1 DEF Answered, Probing, Estimating
    <3>4. /\ best' = fastest'
          /\ OffsetIsBounded'
      <4>1. CASE Better(out + back)
        <5>1. best' = out + back /\ fastest' = out + back /\ truth' = skew
              /\ offset' = Printed(sent + out + skew) - Midpoint(sent, out + back)
          BY <3>1, <3>2, <4>1 DEF Better
        <5>2. QED
          BY <3>2, <3>3, <5>1, OneProbe DEF OffsetIsBounded, Hidden
      <4>2. CASE ~Better(out + back)
        <5>1. UNCHANGED <<best, offset, truth, fastest>>
          BY <3>1, <3>2, <4>2 DEF Better, TypeOK
        <5>2. QED
          BY <3>3, <5>1 DEF EstimateInv, OffsetIsBounded, Hidden
      <4>3. QED
        BY <4>1, <4>2
    <3>5. QED
      BY <3>3, <3>4 DEF EstimateInv, DriftVerdictIsSound, Hidden
  <2>2. CASE Unanswered
    BY <2>2 DEF Unanswered, Probing, Estimating, EstimateInv, OffsetIsBounded,
                DriftVerdictIsSound, Hidden
  <2>3. CASE OpeningEstimated
    <3>1. ~oneHost /\ opening'.measured
            => best # Forever /\ opening'.offset = offset
               /\ opening'.uncertainty = best \div 2 /\ truthAtStart' = truth
      BY <2>3, Zenon DEF OpeningEstimated, Estimate, Unmeasured, Measured
    <3>2. QED
      BY <2>3, <3>1 DEF OpeningEstimated, EstimateInv, OffsetIsBounded,
                        DriftVerdictIsSound, Hidden
  <2>4. CASE PassEnds
    BY <2>4 DEF PassEnds, FreshNext, EstimateInv, OffsetIsBounded,
                DriftVerdictIsSound, Hidden
  <2>5. CASE ClosingEstimated
    <3> DEFINE e == Estimate
    <3>1. clock' = Drift(opening, e) /\ UNCHANGED <<host, estimate, opening, truthAtStart>>
      BY <2>5, Zenon DEF ClosingEstimated
    <3>2. e \in ClockEvidence
      BY Halving DEF Estimate, Unmeasured, Measured, ClockEvidence, TypeOK
    <3>3. ~oneHost /\ e.measured
            => best # Forever /\ e.offset = offset /\ e.uncertainty = best \div 2
      BY Zenon DEF Estimate, Unmeasured, Measured
    <3> HIDE DEF e
    <3>4. /\ clock'.measured <=> opening.measured /\ e.measured
          /\ clock'.measured => /\ clock'.drift = e.offset - opening.offset
                                /\ clock'.uncertainty >= opening.uncertainty
                                /\ clock'.uncertainty >= e.uncertainty
      BY <3>1, <3>2, DriftOf DEF TypeOK
    <3>5. ASSUME ~oneHost, clock'.measured
          PROVE  /\ Abs(clock'.drift) <= MaxDrift
                      => Abs(truth - truthAtStart)
                           <= MaxDrift + (2 * clock'.uncertainty + 2 + Hidden)
                 /\ Abs(clock'.drift) > MaxDrift
                      => Abs(truth - truthAtStart)
                           > MaxDrift - (2 * clock'.uncertainty + 2 + Hidden)
      <4>1. /\ e.offset \in Int /\ e.uncertainty \in Nat
            /\ opening.offset \in Int /\ opening.uncertainty \in Nat
            /\ clock'.uncertainty \in Nat /\ truth \in Int /\ truthAtStart \in Int
        BY <3>2 DEF TypeOK, ClockEvidence
      <4>2. Hidden \in Nat
        BY DEF Hidden
      <4>3. e.offset - truth \in -((e.uncertainty + 1) + Hidden)..(e.uncertainty + 1)
        BY <3>3, <3>4, <3>5 DEF EstimateInv, OffsetIsBounded
      <4>4. opening.offset - truthAtStart
              \in -((opening.uncertainty + 1) + Hidden)..(opening.uncertainty + 1)
        BY <3>4, <3>5 DEF EstimateInv
      <4>5. MaxDrift \in Nat
        OBVIOUS
      <4>6. clock'.drift = e.offset - opening.offset
        BY <3>4, <3>5
      <4>7. clock'.uncertainty >= opening.uncertainty /\ clock'.uncertainty >= e.uncertainty
        BY <3>4, <3>5
      <4> HIDE DEF Hidden
      <4>8. QED
        BY <4>1, <4>2, <4>3, <4>4, <4>5, <4>6, <4>7, TwoEstimates
    <3>6. DriftVerdictIsSound'
      <4> DEFINE m == Abs(truth - truthAtStart)
                 s == 2 * clock'.uncertainty + 2 + Hidden
                 d == Abs(clock'.drift)
      <4>1. SUFFICES ASSUME ~oneHost
                     PROVE  /\ ClockDrift' = "pass" => m <= MaxDrift + s
                            /\ ClockDrift' = "invalid" => m > MaxDrift - s
        BY <3>1, Zenon DEF DriftVerdictIsSound, Hidden
      <4>2. ClockDrift' = IF ~clock'.measured THEN "suspect"
                          ELSE IF d > MaxDrift THEN "invalid" ELSE "pass"
        BY DEF ClockDrift
      <4>3. clock'.measured => /\ d <= MaxDrift => m <= MaxDrift + s
                               /\ d > MaxDrift => m > MaxDrift - s
        BY <3>5, <4>1
      <4>4. d \in Int
        BY DEF TypeOK, ClockEvidence, Abs
      <4> HIDE DEF m, s, d
      <4>5. QED
        BY <4>2, <4>3, <4>4
    <3>7. QED
      BY <3>1, <3>6 DEF EstimateInv, OffsetIsBounded, Hidden
  <2>6. CASE Disciplined \/ Interrupt
    <3>1. UNCHANGED <<host, phase, estimate, evidence>>
      BY <2>6, Zenon DEF Disciplined, Interrupt
    <3>2. QED
      BY <3>1 DEF EstimateInv, OffsetIsBounded, DriftVerdictIsSound, ClockDrift, Hidden
  <2>7. CASE UNCHANGED vars
    BY <2>7 DEF vars, EstimateInv, OffsetIsBounded, DriftVerdictIsSound, ClockDrift, Hidden
  <2>8. QED
    BY <2>1, <2>2, <2>3, <2>4, <2>5, <2>6, <2>7 DEF Next
<1>3. QED
  BY <1>1, <1>2, Typing, PTL DEF Spec

\* The offset of an estimate is wrong by no more than half of its fastest round trip, a
\* tick, and what a coarse date hides (measureClock).
THEOREM Offset == Spec => []OffsetIsBounded
<1>1. EstimateInv => OffsetIsBounded
  BY DEF EstimateInv
<1>2. QED
  BY <1>1, ClockInvariant, PTL

\* The gate env.clock is sound within the error its evidence admits (ClockDrift.Check).
THEOREM GateIsSound == Spec => []DriftVerdictIsSound
<1>1. EstimateInv => DriftVerdictIsSound
  BY DEF EstimateInv
<1>2. QED
  BY <1>1, ClockInvariant, PTL
=============================================================================

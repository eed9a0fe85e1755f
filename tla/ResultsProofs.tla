---------------------------- MODULE ResultsProofs ----------------------------
(***************************************************************************)
(* Theorems about Results: that the rotation of the plan is balanced, what *)
(* the gates guarantee of the cells that may reach a median, and that a    *)
(* regression the report names can be seen in the cells it rests on.       *)
(***************************************************************************)
EXTENDS Results, FiniteSetTheorems, WellFoundedInduction, TLAPS

-----------------------------------------------------------------------------
\* Division with remainder, as the rotation uses it.

LEMMA Division ==
  ASSUME NEW n \in Nat \ {0}, NEW a \in Int
  PROVE  a % n \in 0..(n - 1) /\ a \div n \in Int /\ a = n * (a \div n) + (a % n)
  OBVIOUS

LEMMA SmallMultiple ==
  ASSUME NEW n \in Nat \ {0}, NEW k \in Int, n * k < n, -n < n * k
  PROVE  k = 0
<1>1. k < 1 /\ k > -1
  OBVIOUS
<1>2. QED
  BY <1>1

\* Remainders tell apart numbers less than n from each other.
LEMMA SameRemainder ==
  ASSUME NEW n \in Nat \ {0}, NEW a \in Int, NEW b \in Int,
         a % n = b % n, a - b < n, b - a < n
  PROVE  a = b
<1> DEFINE p == a \div n
           q == b \div n
           r == a % n
<1>1. p \in Int /\ q \in Int /\ r \in Int /\ a = n * p + r /\ b = n * q + r
  BY Division
<1> HIDE DEF p, q, r
<1>2. a - b = n * (p - q)
  BY <1>1
<1>3. p - q = 0
  <2>1. n * (p - q) < n /\ -n < n * (p - q) /\ p - q \in Int
    BY <1>1, <1>2
  <2>2. QED
    BY <2>1, SmallMultiple
<1>4. QED
  BY <1>1, <1>3

\* Adding a multiple of n leaves the remainder alone.
LEMMA AddMultiple ==
  ASSUME NEW n \in Nat \ {0}, NEW a \in Int, NEW k \in Int
  PROVE  (a + n * k) % n = a % n
<1> DEFINE b == a + n * k
           p == a \div n
           q == b \div n
           r == a % n
           s == b % n
<1>1. b \in Int
  OBVIOUS
<1>2. p \in Int /\ r \in 0..(n - 1) /\ a = n * p + r
  BY Division
<1>3. q \in Int /\ s \in 0..(n - 1) /\ b = n * q + s
  BY <1>1, Division
<1>4. b = a + n * k
  OBVIOUS
<1> HIDE DEF b, p, q, r, s
<1>5. n * ((p + k) - q) = s - r
  BY <1>2, <1>3, <1>4
<1>6. (p + k) - q = 0
  <2>1. n * ((p + k) - q) < n /\ -n < n * ((p + k) - q) /\ (p + k) - q \in Int
    BY <1>2, <1>3, <1>5
  <2>2. QED
    BY <2>1, SmallMultiple
<1>7. r = s
  BY <1>2, <1>3, <1>5, <1>6
<1>8. QED
  BY <1>7 DEF b, r, s

\* The place of an arm depends on the sum of position, repetition and seed only.
LEMMA Rotated ==
  ASSUME NEW n \in Nat \ {0}, NEW x \in Int, NEW pos \in Int
  PROVE  (pos + (x % n)) % n = (pos + x) % n
<1> DEFINE q == x \div n
           y == pos + (x % n)
<1>1. q \in Int /\ x = n * q + (x % n) /\ x % n \in Int
  BY Division
<1>2. y \in Int /\ pos + x = y + n * q
  BY <1>1
<1> HIDE DEF q, y
<1>3. (y + n * q) % n = y % n
  BY <1>1, <1>2, AddMultiple
<1>4. QED
  BY <1>2, <1>3 DEF y

\* Within one repetition every position has an arm and no arm has two positions,
\* whatever the order, the seed and the width of an integer.
THEOREM EveryArmOncePerRepetition ==
  ASSUME NEW n \in Nat \ {0}, NEW rep \in Nat, NEW order, NEW seed \in Int
  PROVE  \A p, q \in 0..(n - 1) :
           /\ ArmAt(n, rep, order, seed, p) \in 0..(n - 1)
           /\ ArmAt(n, rep, order, seed, p) = ArmAt(n, rep, order, seed, q) => p = q
<1> DEFINE x == Wrap(rep - 1 + seed)
<1>1. x \in Int
  BY PlanAssumption DEF Wrap, PlanAssumption
<1> HIDE DEF x
<1> SUFFICES ASSUME NEW p \in 0..(n - 1), NEW q \in 0..(n - 1)
             PROVE  /\ ArmAt(n, rep, order, seed, p) \in 0..(n - 1)
                    /\ ArmAt(n, rep, order, seed, p) = ArmAt(n, rep, order, seed, q) => p = q
  OBVIOUS
<1>2. CASE order = "blocked"
  BY <1>2 DEF ArmAt
<1>3. CASE order # "blocked"
  <2>1. \A i \in 0..(n - 1) : ArmAt(n, rep, order, seed, i) = (i + (x % n)) % n
    BY <1>3 DEF ArmAt, Shift, x
  <2>2. x % n \in Int
    BY <1>1, Division
  <2>3. \A i \in 0..(n - 1) : (i + (x % n)) % n \in 0..(n - 1)
    <3>1. \A i \in 0..(n - 1) : i + (x % n) \in Int
      BY <2>2
    <3>2. QED
      BY <3>1, Division
  <2>4. (p + (x % n)) % n = (q + (x % n)) % n => p = q
    <3>1. /\ p + (x % n) \in Int /\ q + (x % n) \in Int
          /\ (p + (x % n)) - (q + (x % n)) < n /\ (q + (x % n)) - (p + (x % n)) < n
          /\ p + (x % n) = q + (x % n) => p = q
      BY <2>2
    <3>2. QED
      BY <3>1, SameRemainder
  <2>5. QED
    BY <2>1, <2>3, <2>4
<1>4. QED
  BY <1>2, <1>3

\* "over n repetitions each arm occupies each position exactly once": true of every
\* run of as many repetitions as there are arms, as long as the seed leaves room for the
\* repetitions below the largest integer.
THEOREM Rotation ==
  ASSUME NEW c \in Campaigns, c.order # "blocked", c.seed + c.reps <= MaxInt
  PROVE  Balanced(c)
<1> DEFINE n == c.arms
           Arm(rep, pos) == ArmAt(n, rep, c.order, c.seed, pos)
<1>1. n \in Nat \ {0} /\ c.reps \in Nat /\ c.seed \in Int
  BY ResultsAssumption DEF ResultsAssumption
<1> HIDE DEF n
<1>2. \A rep \in 1..c.reps, pos \in 0..(n - 1) :
        Arm(rep, pos) = (pos + (rep - 1 + c.seed)) % n
  <2> SUFFICES ASSUME NEW rep \in 1..c.reps, NEW pos \in 0..(n - 1)
               PROVE  Arm(rep, pos) = (pos + (rep - 1 + c.seed)) % n
    OBVIOUS
  <2> DEFINE x == rep - 1 + c.seed
  <2>1. x \in Int /\ x <= MaxInt
    BY <1>1, PlanAssumption DEF PlanAssumption
  <2>2. Wrap(rep - 1 + c.seed) = x
    BY <2>1, PlanAssumption DEF Wrap, PlanAssumption
  <2>3. Arm(rep, pos) = (pos + (x % n)) % n
    BY <2>2 DEF ArmAt, Shift
  <2> HIDE DEF x
  <2>4. pos \in Int
    BY <1>1
  <2>5. (pos + (x % n)) % n = (pos + x) % n
    BY <1>1, <2>1, <2>4, Rotated
  <2>6. QED
    BY <2>3, <2>5 DEF x
<1>3. SUFFICES ASSUME NEW first \in 1..(c.reps - n + 1), NEW arm \in 0..(n - 1), NEW pos \in 0..(n - 1)
               PROVE  \E rep \in first..(first + n - 1) :
                        /\ Arm(rep, pos) = arm
                        /\ \A other \in first..(first + n - 1) : Arm(other, pos) = arm => other = rep
  BY DEF Balanced, n
<1> DEFINE d == arm - pos - (first - 1) - c.seed
           t == d % n
           q == d \div n
           rep == first + t
<1>4. d \in Int
  BY <1>1
<1>5. t \in 0..(n - 1) /\ q \in Int /\ d = n * q + t
  BY <1>1, <1>4, Division
<1>6. rep \in first..(first + n - 1)
  BY <1>1, <1>5
<1>7. first..(first + n - 1) \subseteq 1..c.reps
  BY <1>1
<1>8. Arm(rep, pos) = arm
  <2>1. pos + (rep - 1 + c.seed) = arm + n * (-q)
    <3>1. t \in Int
      BY <1>1, <1>5
    <3> HIDE DEF t, q
    <3>2. pos + (rep - 1 + c.seed) = arm + (t - d)
      BY <1>1, <3>1
    <3> HIDE DEF d, rep
    <3>3. n * (-q) = t - d
      BY <1>1, <1>4, <1>5, <3>1
    <3>4. QED
      BY <3>2, <3>3
  <2>2. (arm + n * (-q)) % n = arm % n
    <3> HIDE DEF q, t
    <3>1. arm \in Int /\ -q \in Int
      BY <1>1, <1>5
    <3>2. QED
      BY <1>1, <3>1, AddMultiple
  <2>3. arm % n = arm
    <3>1. arm \in Int
      BY <1>1
    <3>2. arm % n \in 0..(n - 1)
      BY <1>1, <3>1, Division
    <3>3. arm \div n \in Int /\ arm = n * (arm \div n) + (arm % n)
      BY <1>1, <3>1, Division
    <3> DEFINE u == arm \div n
               v == arm % n
    <3> HIDE DEF u, v
    <3>4. n * u < n /\ -n < n * u /\ u \in Int
      BY <1>1, <3>2, <3>3 DEF u, v
    <3>5. u = 0
      BY <1>1, <3>4, SmallMultiple
    <3>6. QED
      BY <1>1, <3>3, <3>5 DEF u, v
  <2>4. QED
    BY <1>2, <1>6, <1>7, <2>1, <2>2, <2>3
<1>9. ASSUME NEW other \in first..(first + n - 1), Arm(other, pos) = arm
      PROVE  other = rep
  <2> DEFINE a == pos + (other - 1 + c.seed)
             b == pos + (rep - 1 + c.seed)
  <2>1. a \in Int /\ b \in Int /\ a - b < n /\ b - a < n
    BY <1>1, <1>6
  <2>2. a % n = b % n
    BY <1>2, <1>6, <1>7, <1>8, <1>9
  <2>3. a = b
    BY <1>1, <2>1, <2>2, SameRemainder
  <2>4. QED
    BY <1>1, <1>6, <2>3
<1>10. QED
  BY <1>6, <1>8, <1>9

-----------------------------------------------------------------------------
\* The campaign is chosen once, and its plan has a scenario and an arm for every ordinal.

LEMMA Worded == Spec => [](campaign \in Campaigns)
<1>1. Init => campaign \in Campaigns
  BY DEF Init
<1>2. campaign \in Campaigns /\ [Next]_vars => (campaign \in Campaigns)'
  BY DEF Next, CellCompletes, CellFails, RollUp, vars
<1>3. QED
  BY <1>1, <1>2, PTL DEF Spec

\* The order of every campaign whose seed leaves room for its repetitions is balanced.
THEOREM PlanIsBalanced ==
  (\A c \in Campaigns : c.seed + c.reps <= MaxInt) => (Spec => []RotationBalances)
<1> SUFFICES ASSUME \A c \in Campaigns : c.seed + c.reps <= MaxInt
             PROVE  Spec => []RotationBalances
  OBVIOUS
<1>1. campaign \in Campaigns => RotationBalances
  BY Rotation DEF RotationBalances
<1>2. QED
  BY <1>1, Worded, PTL

LEMMA Planned ==
  ASSUME campaign \in Campaigns
  PROVE  /\ Size(campaign) \in Nat
         /\ at \in 0..(Size(campaign) - 1) => Cell.scenario \in Names /\ Cell.arm \in Nat
<1> DEFINE n == campaign.arms
           r == campaign.reps
           k == Len(campaign.scenarios)
           w == n * r
<1>1. n \in Nat \ {0} /\ r \in Nat \ {0} /\ k \in Nat /\ campaign.seed \in Int
  BY ResultsAssumption DEF ResultsAssumption
<1>2. Size(campaign) = (k * r) * n
  BY DEF Size
<1> HIDE DEF n, r, k
<1>3. w \in Nat \ {0} /\ k * r \in Nat /\ (k * r) * n \in Nat /\ (k * r) * n = k * w
  BY <1>1
<1> HIDE DEF w
<1>4. ASSUME at \in 0..(Size(campaign) - 1)
      PROVE  Cell.scenario \in Names /\ Cell.arm \in Nat
  <2> DEFINE pos == at % n
             rep == ((at \div n) % r) + 1
             q == at \div w
  <2>1. at \in Nat /\ at < k * w
    BY <1>2, <1>3, <1>4
  <2>2. /\ Cell.scenario = campaign.scenarios[q + 1]
        /\ Cell.arm = ArmAt(n, rep, campaign.order, campaign.seed, pos)
    BY <1>4 DEF Cell, Expand, n, r, w
  <2>3. pos \in 0..(n - 1)
    BY <1>1, <2>1, Division
  <2>4. rep \in Nat
    <3>1. at \div n \in Int
      BY <1>1, <2>1, Division
    <3>2. (at \div n) % r \in 0..(r - 1)
      BY <1>1, <3>1, Division
    <3>3. QED
      BY <1>1, <3>2
  <2>5. q + 1 \in 1..k
    <3>1. q \in Int /\ at % w \in 0..(w - 1) /\ at = w * q + (at % w)
      BY <1>3, <2>1, Division
    <3> DEFINE v == at % w
    <3> HIDE DEF q, v
    <3>2. q >= 0
      <4>1. CASE q <= -1
        <5>1. w * q <= -w
          BY <1>3, <3>1, <4>1
        <5>2. QED
          BY <1>3, <2>1, <3>1, <5>1 DEF v
      <4>2. QED
        BY <3>1, <4>1
    <3>3. q < k
      <4>1. CASE q >= k
        <5>1. w * q >= k * w
          BY <1>1, <1>3, <3>1, <4>1
        <5>2. QED
          BY <1>1, <1>3, <2>1, <3>1, <5>1 DEF v
      <4>2. QED
        BY <1>1, <3>1, <4>1
    <3>4. QED
      BY <1>1, <3>1, <3>2, <3>3
  <2>6. Cell.scenario \in Names
    BY <2>2, <2>5 DEF Names, k
  <2>7. Cell.arm \in 0..(n - 1)
    BY <1>1, <2>2, <2>3, <2>4, EveryArmOncePerRepetition
  <2>8. QED
    BY <1>1, <2>6, <2>7
<1>5. QED
  BY <1>2, <1>3, <1>4

-----------------------------------------------------------------------------
\* What the gates make of the evidence of one cell.

LEMMA Seen ==
  ASSUME NEW m \in Measurements
  PROVE  LET e == Evidence(m) IN
         /\ e.scenario = Cell.scenario /\ e.pool = m.pool /\ e.ready = m.ready
         /\ e.machine = Unknown /\ m.pool \in Nat
         /\ m.values \in [Metrics -> Nat \cup {Absent}]
  BY ResultsAssumption DEF ResultsAssumption, Measurement, Evidence

LEMMA Levels ==
  ASSUME NEW e, NEW known, NEW observe
  PROVE  Evaluate(e, known, observe) \in {Valid, Suspect, Invalid}
  BY DEF Evaluate, Worst

\* Pools apart cost a cell its place, unless the campaign only observes.
LEMMA ApartIsExcluded ==
  ASSUME NEW e, NEW known, NEW p \in known, PoolsDisagree(e, p)
  PROVE  Evaluate(e, known, FALSE) = Invalid
<1> DEFINE f == [gate |-> "loadgen.saturation", level |-> Invalid]
<1>1. f \in GeneratorSaturation(e, known)
  BY DEF GeneratorSaturation, When
<1>2. f \in Check(e, known)
  BY <1>1 DEF Check
<1>3. \E g \in Capped(Check(e, known), FALSE) : g.level = Invalid
  BY <1>2 DEF Capped
<1>4. QED
  BY <1>3 DEF Evaluate, Worst

\* Readiness found by other means is never passed over, observing or not.
LEMMA MixedIsShown ==
  ASSUME NEW e, NEW known, NEW p \in known, Differ(e.ready, p.ready), NEW observe \in BOOLEAN
  PROVE  Evaluate(e, known, observe) # Valid
<1> DEFINE f == [gate |-> "env.fingerprint", level |-> Suspect]
<1>1. f \in Fingerprint(e, known)
  BY DEF Fingerprint, When
<1>2. f \in Check(e, known)
  BY <1>1 DEF Check
<1>3. \E g \in Capped(Check(e, known), observe) : g.level = Suspect
  BY <1>2 DEF Capped, Suspect
<1>4. QED
  BY <1>3 DEF Evaluate, Worst, Valid, Suspect, Invalid

-----------------------------------------------------------------------------
\* Type correctness, and the order the cells are kept in.

CellRecord ==
  [ordinal : Nat, scenario : Names, arm : Nat, level : {Valid, Suspect, Invalid},
   values : [Metrics -> Nat \cup {Absent}], saw : Measurements]

LEMMA Kept ==
  ASSUME TypeOK
  PROVE  /\ cells \in Seq(CellRecord) /\ Len(cells) \in Nat
         /\ \A i \in 1..Len(cells) : cells[i] \in CellRecord /\ cells[i].ordinal \in Nat
         /\ at \in Nat /\ \A i \in 1..Len(cells) : cells[i].ordinal < at
<1>1. cells \in Seq(CellRecord)
  BY DEF TypeOK, CellRecord
<1>2. \A i \in 1..Len(cells) : cells[i] \in CellRecord
  BY <1>1
<1>3. \A i \in 1..Len(cells) : cells[i].ordinal \in Nat
  BY <1>2 DEF CellRecord
<1>4. at \in Nat
  BY Planned DEF TypeOK
<1>5. \A i \in 1..Len(cells) : cells[i].ordinal < at
  BY DEF TypeOK
<1>6. QED
  BY <1>1, <1>2, <1>3, <1>4, <1>5

\* What a completed cell appends is a record of its own evidence.
LEMMA Completion ==
  ASSUME TypeOK, CellCompletes
  PROVE  \E m \in Measurements, level \in {Valid, Suspect, Invalid} :
           LET e == Evidence(m)
               c == [ordinal |-> at, scenario |-> Cell.scenario, arm |-> Cell.arm,
                     level |-> level, values |-> m.values, saw |-> m]
           IN /\ level = Evaluate(e, peers, campaign.observe)
              /\ c \in CellRecord
              /\ cells' = Append(cells, c)
              /\ peers' = peers \cup {PeerOf(e)}
              /\ excluded' = IF level = Invalid THEN excluded + 1 ELSE excluded
<1>1. PICK m \in Measurements :
        LET e == Evidence(m)
            level == Evaluate(e, peers, campaign.observe)
        IN /\ cells' = Append(cells, [ordinal |-> at, scenario |-> Cell.scenario, arm |-> Cell.arm,
                                      level |-> level, values |-> m.values, saw |-> m])
           /\ peers' = Peers(e)
           /\ excluded' = Tally(level)
  BY DEF CellCompletes
<1> DEFINE level == Evaluate(Evidence(m), peers, campaign.observe)
           c == [ordinal |-> at, scenario |-> Cell.scenario, arm |-> Cell.arm,
                 level |-> level, values |-> m.values, saw |-> m]
<1>2. level \in {Valid, Suspect, Invalid}
  BY Levels
<1>3. at \in 0..(Size(campaign) - 1) /\ at \in Nat
  BY Planned DEF TypeOK, CellCompletes, Running
<1>4. Cell.scenario \in Names /\ Cell.arm \in Nat
  BY <1>3, Planned DEF TypeOK
<1>5. m.values \in [Metrics -> Nat \cup {Absent}]
  BY Seen
<1>6. c \in CellRecord
  BY <1>2, <1>3, <1>4, <1>5 DEF CellRecord
<1>7. QED
  BY <1>1, <1>2, <1>6 DEF Peers, Tally, Excluded

\* Every variable of Results stays in its range, whatever the cells measure.
THEOREM Typing == Spec => []TypeOK
<1>1. Init => TypeOK
  <2> SUFFICES ASSUME Init PROVE TypeOK
    OBVIOUS
  <2>1. campaign \in Campaigns /\ at = 0 /\ excluded = 0 /\ cells = << >>
    BY DEF Init
  <2>2. Size(campaign) \in Nat
    BY <2>1, Planned
  <2>3. QED
    BY <2>1, <2>2 DEF TypeOK
<1>2. TypeOK /\ [Next]_vars => TypeOK'
  <2> SUFFICES ASSUME TypeOK, [Next]_vars PROVE TypeOK'
    OBVIOUS
  <2>1. Size(campaign) \in Nat
    BY Planned DEF TypeOK
  <2>2. CASE CellCompletes
    <3>1. PICK c \in CellRecord : c.ordinal = at /\ cells' = Append(cells, c)
      BY <2>2, Completion
    <3>2. campaign' = campaign /\ at' = at + 1 /\ at < Size(campaign)
      BY <2>2 DEF CellCompletes, Running, After
    <3>3. excluded' \in Nat
      <4>1. excluded' = excluded + 1 \/ excluded' = excluded
        BY <2>2, Completion
      <4>2. excluded \in Nat
        BY DEF TypeOK
      <4>3. QED
        BY <4>1, <4>2
    <3>4. cells \in Seq(CellRecord) /\ cells' \in Seq(CellRecord)
      BY <3>1, Kept
    <3>5. \A i \in 1..Len(cells) : cells[i].ordinal < at /\ cells[i].ordinal \in Nat
      BY Kept
    <3> DEFINE n == Len(cells)
    <3>6. /\ n \in Nat /\ Len(cells') = n + 1 /\ cells'[n + 1].ordinal = at
          /\ \A i \in 1..n : cells'[i] = cells[i]
      BY <3>1, <3>4, Kept
    <3> HIDE DEF n
    <3>7. \A i \in 1..Len(cells') : cells'[i].ordinal < at'
      <4> SUFFICES ASSUME NEW i \in 1..(n + 1) PROVE cells'[i].ordinal < at'
        BY <3>6
      <4>1. CASE i = n + 1
        BY <3>2, <3>6, <4>1, Kept
      <4>2. CASE i \in 1..n
        BY <3>2, <3>5, <3>6, <4>2, Kept DEF n
      <4>3. QED
        BY <3>6, <4>1, <4>2
    <3>8. \A i, j \in 1..Len(cells') : i < j => cells'[i].ordinal < cells'[j].ordinal
      <4> SUFFICES ASSUME NEW i \in 1..(n + 1), NEW j \in 1..(n + 1), i < j
                   PROVE  cells'[i].ordinal < cells'[j].ordinal
        BY <3>6
      <4>1. i \in 1..n /\ cells'[i] = cells[i]
        BY <3>6
      <4>2. CASE j = n + 1
        BY <3>5, <3>6, <4>1, <4>2 DEF n
      <4>3. CASE j \in 1..n
        BY <3>6, <4>1, <4>3 DEF TypeOK, n
      <4>4. QED
        BY <3>6, <4>2, <4>3
    <3>9. QED
      BY <2>1, <3>2, <3>3, <3>4, <3>7, <3>8 DEF TypeOK, CellRecord, Size
  <2>3. CASE CellFails
    <3>1. at' = at + 1 /\ at < Size(campaign) /\ UNCHANGED <<campaign, cells, excluded>>
      BY <2>3 DEF CellFails, Running, After
    <3>2. at' \in 0..Size(campaign)
      BY <2>1, <3>1 DEF TypeOK
    <3>3. \A i \in 1..Len(cells) : cells[i].ordinal < at + 1
      BY Kept
    <3>4. QED
      BY <3>1, <3>2, <3>3 DEF TypeOK, Size
  <2>4. CASE RollUp
    BY <2>4 DEF TypeOK, RollUp, Size
  <2>5. CASE UNCHANGED vars
    BY <2>5 DEF TypeOK, vars, Size
  <2>6. QED
    BY <2>2, <2>3, <2>4, <2>5 DEF Next
<1>3. QED
  BY <1>1, <1>2, PTL DEF Spec

-----------------------------------------------------------------------------
\* The next cell is told of every cell completed before it, the excluded ones included.

Told ==
  \A i \in 1..Len(cells) :
    [scenario |-> cells[i].scenario, pool |-> cells[i].saw.pool,
     ready |-> cells[i].saw.ready, machine |-> Unknown] \in peers

Agreement == Told /\ UsableCellsAgree /\ MixedReadinessShows

LEMMA Agreed ==
  ASSUME TypeOK, Agreement, CellCompletes
  PROVE  Agreement'
<1>1. PICK m \in Measurements, level \in {Valid, Suspect, Invalid} :
        LET e == Evidence(m)
            c == [ordinal |-> at, scenario |-> Cell.scenario, arm |-> Cell.arm,
                  level |-> level, values |-> m.values, saw |-> m]
        IN /\ level = Evaluate(e, peers, campaign.observe)
           /\ c \in CellRecord
           /\ cells' = Append(cells, c)
           /\ peers' = peers \cup {PeerOf(e)}
  BY Completion
<1> DEFINE e == Evidence(m)
           n == Len(cells)
           c == [ordinal |-> at, scenario |-> Cell.scenario, arm |-> Cell.arm,
                 level |-> level, values |-> m.values, saw |-> m]
           Peer(i) == [scenario |-> cells[i].scenario, pool |-> cells[i].saw.pool,
                       ready |-> cells[i].saw.ready, machine |-> Unknown]
<1>2. /\ e.scenario = c.scenario /\ e.pool = c.saw.pool /\ e.ready = c.saw.ready
      /\ c.level = level /\ c.saw.pool \in Nat
  BY Seen
<1>3. PeerOf(e) = [scenario |-> c.scenario, pool |-> c.saw.pool,
                   ready |-> c.saw.ready, machine |-> Unknown]
  BY <1>2 DEF PeerOf
<1>4. c.level = Evaluate(e, peers, campaign.observe) /\ peers' = peers \cup {PeerOf(e)}
  BY <1>1, <1>2
<1>5. campaign' = campaign /\ campaign.observe \in BOOLEAN
  BY ResultsAssumption DEF CellCompletes, TypeOK, ResultsAssumption
<1> HIDE DEF e, c
<1>6. /\ n \in Nat /\ Len(cells') = n + 1 /\ cells'[n + 1] = c
      /\ \A i \in 1..n : cells'[i] = cells[i]
  BY <1>1, Kept DEF c
<1>7. \A i \in 1..n : Peer(i) \in peers
  BY DEF Agreement, Told
<1>8. Told'
  <2> SUFFICES ASSUME NEW i \in 1..(n + 1)
               PROVE  [scenario |-> cells'[i].scenario, pool |-> cells'[i].saw.pool,
                       ready |-> cells'[i].saw.ready, machine |-> Unknown] \in peers'
    BY <1>6 DEF Told
  <2>1. CASE i = n + 1
    BY <1>3, <1>4, <1>6, <2>1
  <2>2. CASE i # n + 1
    <3>1. i \in 1..n /\ cells'[i] = cells[i]
      BY <1>6, <2>2
    <3>2. QED
      BY <1>4, <1>7, <3>1
  <2>3. QED
    BY <2>1, <2>2
<1>9. UsableCellsAgree'
  <2> SUFFICES ASSUME ~campaign.observe, NEW i \in 1..(n + 1), NEW j \in 1..(n + 1), i < j,
                      cells'[i].scenario = cells'[j].scenario, Usable(cells'[i]), Usable(cells'[j]),
                      cells'[i].saw.pool > 0, cells'[j].saw.pool > 0
               PROVE  /\ cells'[i].saw.pool < 2 * cells'[j].saw.pool
                      /\ cells'[j].saw.pool < 2 * cells'[i].saw.pool
    BY <1>5, <1>6 DEF UsableCellsAgree, Usable
  <2>1. i \in 1..n /\ cells'[i] = cells[i]
    BY <1>6
  <2>2. CASE j # n + 1
    <3>1. j \in 1..n /\ cells'[j] = cells[j]
      BY <1>6, <2>2
    <3>2. QED
      BY <2>1, <3>1 DEF Agreement, UsableCellsAgree
  <2>3. CASE j = n + 1
    <3>1. cells'[j] = c /\ Peer(i) \in peers
      BY <1>6, <1>7, <2>1, <2>3
    <3>2. c.level # Invalid
      BY <3>1 DEF Usable, Excluded
    <3>3. ~PoolsDisagree(e, Peer(i))
      <4>1. campaign.observe = FALSE
        BY <1>5
      <4>2. Evaluate(e, peers, FALSE) # Invalid
        BY <1>4, <3>2, <4>1
      <4>3. QED
        BY <3>1, <4>2, ApartIsExcluded
    <3>4. cells[i].saw.pool \in Nat
      BY <2>1, Kept, ResultsAssumption DEF CellRecord, ResultsAssumption, Measurement
    <3>5. ~Apart(c.saw.pool, cells[i].saw.pool)
      BY <1>2, <2>1, <3>1, <3>3 DEF PoolsDisagree
    <3>6. QED
      BY <1>2, <2>1, <3>1, <3>4, <3>5 DEF Apart
  <2>4. QED
    BY <2>2, <2>3
<1>10. MixedReadinessShows'
  <2> SUFFICES ASSUME NEW i \in 1..(n + 1), NEW j \in 1..(n + 1), i < j,
                      Differ(cells'[i].saw.ready, cells'[j].saw.ready)
               PROVE  cells'[j].level # Valid
    BY <1>6 DEF MixedReadinessShows
  <2>1. i \in 1..n /\ cells'[i] = cells[i]
    BY <1>6
  <2>2. CASE j # n + 1
    <3>1. j \in 1..n /\ cells'[j] = cells[j]
      BY <1>6, <2>2
    <3>2. QED
      BY <2>1, <3>1 DEF Agreement, MixedReadinessShows
  <2>3. CASE j = n + 1
    <3>1. cells'[j] = c /\ Peer(i) \in peers
      BY <1>6, <1>7, <2>1, <2>3
    <3>2. Differ(e.ready, Peer(i).ready)
      BY <1>2, <2>1, <3>1 DEF Differ
    <3>3. QED
      BY <1>4, <1>5, <3>1, <3>2, MixedIsShown
  <2>4. QED
    BY <2>2, <2>3
<1>11. QED
  BY <1>8, <1>9, <1>10 DEF Agreement

LEMMA Agreeing == Spec => [](TypeOK /\ Agreement)
<1>1. Init => Agreement
  BY DEF Init, Agreement, Told, UsableCellsAgree, MixedReadinessShows
<1>2. TypeOK /\ Agreement /\ [Next]_vars => Agreement'
  <2> SUFFICES ASSUME TypeOK, Agreement, [Next]_vars PROVE Agreement'
    OBVIOUS
  <2>1. CASE CellCompletes
    BY <2>1, Agreed
  <2>2. CASE UNCHANGED <<campaign, cells, peers>>
    BY <2>2 DEF Agreement, Told, UsableCellsAgree, MixedReadinessShows
  <2>3. CellFails \/ RollUp \/ UNCHANGED vars => UNCHANGED <<campaign, cells, peers>>
    BY DEF CellFails, RollUp, vars
  <2>4. QED
    BY <2>1, <2>2, <2>3 DEF Next
<1>3. QED
  BY <1>1, <1>2, Typing, PTL DEF Spec

\* Unless the campaign only observes, no two cells that may reach a median of their scenario
\* needed pools a factor of two apart.
THEOREM PoolsAgree == Spec => []UsableCellsAgree
<1>1. Agreement => UsableCellsAgree
  BY DEF Agreement
<1>2. QED
  BY <1>1, Agreeing, PTL

\* The later of two cells whose readiness was detected differently is never valid.
THEOREM ReadinessShows == Spec => []MixedReadinessShows
<1>1. Agreement => MixedReadinessShows
  BY DEF Agreement
<1>2. QED
  BY <1>1, Agreeing, PTL

-----------------------------------------------------------------------------
\* Medians and spreads: the k-th smallest of finitely many numbers, and what a difference
\* beyond the noise band says of the numbers themselves.

\* A set of naturals that is not empty has a least member.
LEMMA Least ==
  ASSUME NEW T, T \subseteq Nat, T # {}
  PROVE  \E x \in T : \A y \in T : x <= y
<1>1. IsWellFoundedOn(OpToRel(<, Nat), Nat)
  BY NatLessThanWellFounded, Zenon
<1>2. PICK x \in T : \A y \in T : ~(<<y, x>> \in OpToRel(<, Nat))
  BY <1>1, WFMin, Zenon
<1>3. \A y \in T : ~(y < x)
  <2> SUFFICES ASSUME NEW y \in T, y < x PROVE FALSE
    OBVIOUS
  <2>1. <<y, x>> \in {pair \in Nat \X Nat : pair[1] < pair[2]}
    BY SMT
  <2>2. QED
    BY <2>1, <1>2, Zenon DEF OpToRel
<1>4. QED
  BY <1>3, SMT

\* Parts of a finite set: none has more members than the whole, and only the whole as many.
LEMMA Parts ==
  ASSUME NEW D, IsFiniteSet(D), NEW E \in SUBSET D
  PROVE  /\ IsFiniteSet(E) /\ Cardinality(E) \in Nat /\ Cardinality(D) \in Nat
         /\ Cardinality(E) <= Cardinality(D)
         /\ Cardinality(E) = Cardinality(D) => E = D
  BY FS_Subset, FS_CardinalityType

\* One of finitely many numbers is the largest: the one that fewest others exceed.
LEMMA Largest ==
  ASSUME NEW D, IsFiniteSet(D), D # {}, NEW v, \A i \in D : v[i] \in Nat
  PROVE  \E j \in D : \A i \in D : v[i] <= v[j]
<1> DEFINE Above(j) == {i \in D : v[i] > v[j]}
           T == {Cardinality(Above(j)) : j \in D}
<1>1. \A j \in D : Above(j) \subseteq D /\ IsFiniteSet(Above(j)) /\ Cardinality(Above(j)) \in Nat
  <2> SUFFICES ASSUME NEW j \in D
               PROVE  Above(j) \subseteq D /\ IsFiniteSet(Above(j)) /\ Cardinality(Above(j)) \in Nat
    OBVIOUS
  <2>1. Above(j) \in SUBSET D
    OBVIOUS
  <2> HIDE DEF Above
  <2>2. QED
    BY <2>1, Parts
<1>2. T \subseteq Nat /\ T # {}
  BY <1>1
<1>3. PICK j \in D : \A k \in D : Cardinality(Above(j)) <= Cardinality(Above(k))
  <2>1. PICK least \in T : \A t \in T : least <= t
    BY <1>2, Least
  <2>2. PICK j \in D : least = Cardinality(Above(j))
    BY <2>1
  <2> HIDE DEF Above
  <2>3. QED
    BY <2>1, <2>2
<1>4. ASSUME NEW i \in D, v[i] > v[j]
      PROVE  FALSE
  <2>1. Above(i) \in SUBSET Above(j) /\ i \in Above(j) /\ i \notin Above(i)
    BY <1>4
  <2> HIDE DEF Above
  <2>2. Cardinality(Above(i)) < Cardinality(Above(j))
    BY <1>1, <2>1, Parts
  <2>3. QED
    BY <1>1, <1>3, <2>2
<1>5. QED
  BY <1>4

Numbers(v) ==
  /\ IsFiniteSet(DOMAIN v) /\ Count(v) > 0
  /\ \A i \in DOMAIN v : v[i] \in Nat

LEMMA Counted ==
  ASSUME NEW v, Numbers(v)
  PROVE  Count(v) \in Nat \ {0} /\ DOMAIN v # {}
  BY FS_CardinalityType, FS_EmptySet DEF Numbers, Count

\* The k-th smallest is one of the numbers; fewer than k are below it, and at least k are
\* not above it.
LEMMA OrderStatistic ==
  ASSUME NEW v, Numbers(v), NEW k \in 1..Count(v)
  PROVE  LET s == Smallest(v, k) IN
         /\ s \in Values(v) /\ s \in Nat
         /\ Cardinality({i \in DOMAIN v : v[i] < s}) < k
         /\ Cardinality({i \in DOMAIN v : v[i] <= s}) >= k
<1> DEFINE D == DOMAIN v
           Below(x) == {i \in D : v[i] < x}
           UpTo(x) == {i \in D : v[i] <= x}
           T == {x \in Nat : Cardinality(UpTo(x)) >= k}
<1>1. /\ IsFiniteSet(D) /\ D # {} /\ \A i \in D : v[i] \in Nat
      /\ Count(v) = Cardinality(D) /\ Count(v) \in Nat \ {0}
  BY Counted DEF Numbers, Count
<1>2. \A x : Below(x) \in SUBSET D /\ UpTo(x) \in SUBSET D
  OBVIOUS
<1>3. \A x \in Nat : \A i \in D : (i \in Below(x) <=> v[i] < x) /\ (i \in UpTo(x) <=> v[i] <= x)
  OBVIOUS
<1> HIDE DEF D, Below, UpTo
<1>4. \A x : /\ IsFiniteSet(Below(x)) /\ Cardinality(Below(x)) \in Nat
             /\ IsFiniteSet(UpTo(x)) /\ Cardinality(UpTo(x)) \in Nat
  BY <1>1, <1>2, Parts
<1>5. T # {}
  <2>1. PICK j \in D : \A i \in D : v[i] <= v[j]
    BY <1>1, Largest
  <2>2. v[j] \in Nat /\ UpTo(v[j]) = D
    BY <1>1, <1>2, <1>3, <2>1
  <2>3. QED
    BY <1>1, <2>2
<1>6. PICK x \in T : \A y \in T : x <= y
  BY <1>5, Least
<1>7. Cardinality(Below(x)) < k
  <2> SUFFICES ASSUME Cardinality(Below(x)) >= k PROVE FALSE
    BY <1>4
  <2>1. Below(x) # {}
    BY FS_EmptySet
  <2>2. PICK j \in Below(x) : \A i \in Below(x) : v[i] <= v[j]
    BY <1>1, <1>2, <1>4, <2>1, Largest
  <2>3. j \in D /\ v[j] \in Nat /\ v[j] < x
    BY <1>1, <1>2, <1>3, <2>2
  <2>4. Below(x) \in SUBSET UpTo(v[j])
    BY <1>2, <1>3, <2>2, <2>3
  <2>5. Cardinality(UpTo(v[j])) >= k
    BY <1>4, <2>4, Parts
  <2>6. QED
    BY <1>6, <2>3, <2>5
<1>8. x \in Values(v)
  <2>1. Below(x) # UpTo(x)
    BY <1>4, <1>6, <1>7
  <2>2. PICK i \in D : v[i] = x
    <3>1. Below(x) \in SUBSET UpTo(x)
      BY <1>1, <1>2, <1>3
    <3>2. PICK i \in D : i \in UpTo(x) /\ i \notin Below(x)
      BY <1>2, <2>1, <3>1
    <3>3. QED
      BY <1>1, <1>3, <3>2
  <2>3. QED
    BY <2>2 DEF Values, D
<1>9. \E y \in Values(v) : Cardinality(Below(y)) < k /\ Cardinality(UpTo(y)) >= k
  BY <1>6, <1>7, <1>8
<1>10. Smallest(v, k) = CHOOSE y \in Values(v) : /\ Cardinality(Below(y)) < k
                                                 /\ Cardinality(UpTo(y)) >= k
  BY DEF Smallest, Below, UpTo, D
<1>11. LET s == Smallest(v, k) IN
       s \in Values(v) /\ Cardinality(Below(s)) < k /\ Cardinality(UpTo(s)) >= k
  BY <1>9, <1>10
<1>12. Values(v) \subseteq Nat
  BY <1>1 DEF Values, D
<1>13. QED
  BY <1>11, <1>12 DEF Below, UpTo, D

\* The order statistics are in order, between the smallest and the largest number.
LEMMA Ordered ==
  ASSUME NEW v, Numbers(v)
  PROVE  /\ \A k, l \in 1..Count(v) : k <= l => Smallest(v, k) <= Smallest(v, l)
         /\ \A i \in DOMAIN v : Smallest(v, 1) <= v[i] /\ v[i] <= Smallest(v, Count(v))
<1> DEFINE D == DOMAIN v
           n == Count(v)
           S(k) == Smallest(v, k)
           Below(x) == {i \in D : v[i] < x}
           UpTo(x) == {i \in D : v[i] <= x}
<1>1. /\ IsFiniteSet(D) /\ \A i \in D : v[i] \in Nat
      /\ n = Cardinality(D) /\ n \in Nat \ {0}
  BY Counted DEF Numbers, Count
<1>2. \A k \in 1..n : S(k) \in Nat /\ Cardinality(Below(S(k))) < k /\ Cardinality(UpTo(S(k))) >= k
  BY OrderStatistic
<1>3. \A x : Below(x) \in SUBSET D /\ UpTo(x) \in SUBSET D
  OBVIOUS
<1>4. \A x \in Nat : \A i \in D : (i \in Below(x) <=> v[i] < x) /\ (i \in UpTo(x) <=> v[i] <= x)
  OBVIOUS
<1> HIDE DEF D, S, Below, UpTo, n
<1>5. \A x : /\ IsFiniteSet(Below(x)) /\ Cardinality(Below(x)) \in Nat
             /\ IsFiniteSet(UpTo(x)) /\ Cardinality(UpTo(x)) \in Nat
  BY <1>1, <1>3, Parts
<1>6. ASSUME NEW k \in 1..n, NEW l \in 1..n, k <= l
      PROVE  S(k) <= S(l)
  <2> SUFFICES ASSUME S(l) < S(k) PROVE FALSE
    BY <1>2
  <2>1. UpTo(S(l)) \in SUBSET Below(S(k))
    BY <1>1, <1>2, <1>3, <1>4
  <2>2. Cardinality(UpTo(S(l))) <= Cardinality(Below(S(k)))
    BY <1>5, <2>1, Parts
  <2>3. QED
    BY <1>1, <1>2, <1>5, <1>6, <2>2
<1>7. 1 \in 1..n /\ n \in 1..n
  BY <1>1
<1>8. Below(S(1)) = {}
  <2>1. Cardinality(Below(S(1))) = 0
    BY <1>2, <1>5, <1>7
  <2>2. QED
    BY <1>5, <2>1, FS_EmptySet
<1>9. UpTo(S(n)) = D
  <2>1. Cardinality(UpTo(S(n))) = Cardinality(D)
    <3>1. Cardinality(UpTo(S(n))) <= Cardinality(D)
      BY <1>1, <1>3, Parts
    <3>2. QED
      BY <1>1, <1>2, <1>5, <1>7, <3>1
  <2>2. QED
    BY <1>1, <1>3, <2>1, Parts
<1>10. \A i \in D : S(1) <= v[i] /\ v[i] <= S(n)
  BY <1>1, <1>2, <1>4, <1>7, <1>8, <1>9
<1>11. QED
  BY <1>6, <1>10 DEF D, S, n

\* Half the number, either way it is rounded.
LEMMA Halves ==
  ASSUME NEW n \in Nat \ {0}
  PROVE  LET low == (n + 1) \div 2
             high == (n \div 2) + 1
         IN /\ low \in 1..n /\ high \in 1..n /\ low <= high
            /\ 2 * low >= n /\ 2 * (n - (high - 1)) >= n
  OBVIOUS

\* The two order statistics in the middle, and the extremes.
LEMMA Middle ==
  ASSUME NEW v, Numbers(v)
  PROVE  \E min, low, high, max \in Nat :
           /\ \A i \in DOMAIN v : min <= v[i] /\ v[i] <= max
           /\ min <= low /\ low <= high /\ high <= max
           /\ TwiceMedian(v) = low + high /\ Spread(v) = max - min
           /\ 2 * Cardinality({i \in DOMAIN v : v[i] <= low}) >= Count(v)
           /\ 2 * Cardinality({i \in DOMAIN v : v[i] >= high}) >= Count(v)
<1> DEFINE n == Count(v)
           l == (n + 1) \div 2
           h == (n \div 2) + 1
           S(k) == Smallest(v, k)
<1>1. n \in Nat \ {0}
  BY Counted
<1>2. l \in 1..n /\ h \in 1..n /\ l <= h /\ 2 * l >= n /\ 2 * (n - (h - 1)) >= n
  BY <1>1, Halves
<1>3. TwiceMedian(v) = S(l) + S(h) /\ Spread(v) = S(n) - S(1)
  BY DEF TwiceMedian, Spread
<1>4. \A k \in 1..n : /\ S(k) \in Nat
                      /\ Cardinality({i \in DOMAIN v : v[i] < S(k)}) < k
                      /\ Cardinality({i \in DOMAIN v : v[i] <= S(k)}) >= k
  BY OrderStatistic
<1>5. /\ \A k, m \in 1..n : k <= m => S(k) <= S(m)
      /\ \A i \in DOMAIN v : S(1) <= v[i] /\ v[i] <= S(n)
  BY Ordered
<1> HIDE DEF n, l, h, S
<1>6. 2 * Cardinality({i \in DOMAIN v : v[i] <= S(l)}) >= n
  <2> DEFINE E == {i \in DOMAIN v : v[i] <= S(l)}
  <2>1. Cardinality(E) \in Nat
    <3>1. E \in SUBSET DOMAIN v
      OBVIOUS
    <3> HIDE DEF E
    <3>2. QED
      BY <3>1, Parts DEF Numbers
  <2>2. Cardinality(E) >= l
    BY <1>2, <1>4
  <2> HIDE DEF E
  <2>3. 2 * Cardinality(E) >= n
    BY <1>1, <1>2, <2>1, <2>2
  <2>4. QED
    BY <2>3 DEF E
<1>7. 2 * Cardinality({i \in DOMAIN v : v[i] >= S(h)}) >= n
  <2> DEFINE D == DOMAIN v
             E == {i \in D : v[i] < S(h)}
             F == {i \in D : v[i] >= S(h)}
  <2>1. E \in SUBSET D /\ F = D \ E
    <3>1. S(h) \in Nat /\ \A i \in D : v[i] \in Nat
      BY <1>2, <1>4 DEF Numbers
    <3>2. \A i \in D : v[i] >= S(h) <=> ~(v[i] < S(h))
      BY <3>1
    <3>3. QED
      BY <3>2
  <2>2. Cardinality(E) < h
    BY <1>2, <1>4
  <2>3. IsFiniteSet(D) /\ n = Cardinality(D)
    BY DEF Numbers, Count, n
  <2> HIDE DEF D, E, F
  <2>4. Cardinality(E) \in Nat
    BY <2>1, <2>3, Parts
  <2>5. Cardinality(F) = n - Cardinality(E)
    <3>1. D \cap E = E
      BY <2>1
    <3>2. QED
      BY <2>1, <2>3, <3>1, FS_Difference, Parts
  <2>6. 2 * Cardinality(F) >= n
    BY <1>1, <1>2, <2>2, <2>4, <2>5
  <2>7. QED
    BY <2>6 DEF D, F
<1>8. 1 \in 1..n /\ n \in 1..n /\ 1 <= l /\ h <= n
  BY <1>1, <1>2
<1>9. S(1) \in Nat /\ S(l) \in Nat /\ S(h) \in Nat /\ S(n) \in Nat
  BY <1>2, <1>4, <1>8
<1>10. S(1) <= S(l) /\ S(l) <= S(h) /\ S(h) <= S(n)
  BY <1>2, <1>5, <1>8
<1>11. /\ \A i \in DOMAIN v : S(1) <= v[i] /\ v[i] <= S(n)
       /\ S(1) <= S(l) /\ S(l) <= S(h) /\ S(h) <= S(n)
       /\ TwiceMedian(v) = S(l) + S(h) /\ Spread(v) = S(n) - S(1)
       /\ 2 * Cardinality({i \in DOMAIN v : v[i] <= S(l)}) >= Count(v)
       /\ 2 * Cardinality({i \in DOMAIN v : v[i] >= S(h)}) >= Count(v)
  BY <1>3, <1>5, <1>6, <1>7, <1>10, Zenon DEF n
<1>12. QED
  BY <1>9, <1>11, Zenon

\* Medians further apart than the baseline's spread: half of the arm lies beyond everything
\* the baseline measured, on the side its median is on.
LEMMA BeyondTheBand ==
  ASSUME NEW a, NEW b, Numbers(a), Numbers(b), ~InsideBand(a, b)
  PROVE  \E half \in SUBSET DOMAIN b :
           /\ 2 * Cardinality(half) >= Count(b)
           /\ \A i \in half, j \in DOMAIN a :
                IF TwiceMedian(b) > TwiceMedian(a) THEN b[i] >= a[j] ELSE b[i] <= a[j]
<1>1. PICK mina, lowa, higha, maxa \in Nat :
           /\ \A i \in DOMAIN a : mina <= a[i] /\ a[i] <= maxa
           /\ mina <= lowa /\ lowa <= higha /\ higha <= maxa
           /\ TwiceMedian(a) = lowa + higha /\ Spread(a) = maxa - mina
  BY Middle
<1>2. PICK minb, low, high, maxb \in Nat :
           /\ low <= high /\ TwiceMedian(b) = low + high
           /\ 2 * Cardinality({i \in DOMAIN b : b[i] <= low}) >= Count(b)
           /\ 2 * Cardinality({i \in DOMAIN b : b[i] >= high}) >= Count(b)
  BY Middle
<1>3. ~(Distance(TwiceMedian(a), TwiceMedian(b)) < 2 * Spread(a))
  BY DEF InsideBand
<1>4. (\A i \in DOMAIN a : a[i] \in Nat) /\ (\A i \in DOMAIN b : b[i] \in Nat)
  BY DEF Numbers
<1>5. CASE TwiceMedian(b) > TwiceMedian(a)
  <2>1. high >= maxa
    BY <1>1, <1>2, <1>3, <1>5 DEF Distance
  <2> DEFINE half == {i \in DOMAIN b : b[i] >= high}
  <2>2. half \in SUBSET DOMAIN b /\ \A i \in half, j \in DOMAIN a : b[i] >= a[j]
    BY <1>1, <1>2, <1>4, <2>1
  <2>3. QED
    BY <1>2, <1>5, <2>2
<1>6. CASE ~(TwiceMedian(b) > TwiceMedian(a))
  <2>1. low <= mina
    BY <1>1, <1>2, <1>3, <1>6 DEF Distance
  <2> DEFINE half == {i \in DOMAIN b : b[i] <= low}
  <2>2. half \in SUBSET DOMAIN b /\ \A i \in half, j \in DOMAIN a : b[i] <= a[j]
    BY <1>1, <1>2, <1>4, <2>1
  <2>3. QED
    BY <1>2, <1>6, <2>2
<1>7. QED
  BY <1>5, <1>6

-----------------------------------------------------------------------------
\* The report is the roll-up of the cells there are, and the loop counted as it does.

Concluded ==
  /\ excluded = AtLevel(cells, Invalid)
  /\ report # None => \E overlapping : report = Report(cells, overlapping)

LEMMA CountedLevels ==
  ASSUME NEW S, NEW s \in Seq(S), NEW level
  PROVE  LET at_level == {i \in DOMAIN s : s[i].level = level} IN
         IsFiniteSet(at_level) /\ Cardinality(at_level) \in Nat
<1>1. DOMAIN s = 1..Len(s) /\ Len(s) \in Nat
  OBVIOUS
<1>2. IsFiniteSet(DOMAIN s)
  BY <1>1, FS_Interval
<1>3. {i \in DOMAIN s : s[i].level = level} \subseteq DOMAIN s
  OBVIOUS
<1>4. QED
  BY <1>2, <1>3, FS_Subset, FS_CardinalityType

LEMMA OneMore ==
  ASSUME NEW c \in CellRecord, NEW s \in Seq(CellRecord), NEW level
  PROVE  AtLevel(Append(s, c), level)
           = IF c.level = level THEN AtLevel(s, level) + 1 ELSE AtLevel(s, level)
<1> DEFINE n == Len(s)
           old == {i \in DOMAIN s : s[i].level = level}
           new == {i \in DOMAIN Append(s, c) : Append(s, c)[i].level = level}
<1>1. n \in Nat /\ DOMAIN s = 1..n /\ DOMAIN Append(s, c) = 1..(n + 1)
  OBVIOUS
<1>2. Append(s, c)[n + 1] = c /\ \A i \in 1..n : Append(s, c)[i] = s[i]
  BY <1>1
<1>3. new = IF c.level = level THEN old \cup {n + 1} ELSE old
  BY <1>1, <1>2
<1>4. n + 1 \notin old
  BY <1>1
<1>5. IsFiniteSet(old)
  BY CountedLevels
<1>6. AtLevel(s, level) = Cardinality(old) /\ AtLevel(Append(s, c), level) = Cardinality(new)
  BY DEF AtLevel
<1> HIDE DEF old, new, n
<1>7. Cardinality(old \cup {n + 1}) = Cardinality(old) + 1
  BY <1>4, <1>5, FS_AddElement
<1>8. QED
  BY <1>3, <1>6, <1>7

LEMMA Concluding == Spec => [](TypeOK /\ Concluded)
<1>1. Init => Concluded
  <2> SUFFICES ASSUME Init PROVE Concluded
    OBVIOUS
  <2>1. cells = << >> /\ excluded = 0 /\ report = None
    BY DEF Init
  <2>2. {i \in DOMAIN cells : cells[i].level = Invalid} = {}
    BY <2>1
  <2>3. QED
    BY <2>1, <2>2, FS_EmptySet DEF Concluded, AtLevel
<1>2. TypeOK /\ Concluded /\ [Next]_vars => Concluded'
  <2> SUFFICES ASSUME TypeOK, Concluded, [Next]_vars PROVE Concluded'
    OBVIOUS
  <2>1. CASE CellCompletes
    <3>1. PICK c \in CellRecord : /\ cells' = Append(cells, c)
                                  /\ excluded' = IF c.level = Invalid THEN excluded + 1 ELSE excluded
      BY <2>1, Completion
    <3>2. excluded' = AtLevel(cells', Invalid)
      BY <3>1, Kept, OneMore DEF Concluded
    <3>3. report' = None
      BY <2>1 DEF CellCompletes, Running
    <3>4. QED
      BY <3>2, <3>3 DEF Concluded
  <2>2. CASE RollUp
    <3>1. UNCHANGED <<cells, excluded>> /\ \E overlapping : report' = Report(cells, overlapping)
      BY <2>2 DEF RollUp
    <3>2. QED
      BY <3>1 DEF Concluded
  <2>3. CASE CellFails \/ UNCHANGED vars
    <3>1. UNCHANGED <<cells, excluded, report>>
      BY <2>3 DEF CellFails, vars
    <3>2. QED
      BY <3>1 DEF Concluded
  <2>4. QED
    BY <2>1, <2>2, <2>3 DEF Next
<1>3. QED
  BY <1>1, <1>2, Typing, PTL DEF Spec

LEMMA Disjoint ==
  ASSUME NEW S, NEW T, IsFiniteSet(S), IsFiniteSet(T), S \cap T = {}
  PROVE  /\ IsFiniteSet(S \cup T) /\ Cardinality(S \cup T) \in Nat
         /\ Cardinality(S \cup T) = Cardinality(S) + Cardinality(T)
<1>1. Cardinality(S \cap T) = 0
  BY FS_EmptySet
<1>2. IsFiniteSet(S \cup T) /\ Cardinality(S \cup T) = Cardinality(S) + Cardinality(T) - 0
  BY <1>1, FS_Union
<1>3. Cardinality(S) \in Nat /\ Cardinality(T) \in Nat
  BY FS_CardinalityType
<1>4. QED
  BY <1>2, <1>3

\* Every completed cell is counted at one level.
LEMMA LevelsPartition ==
  ASSUME TypeOK
  PROVE  /\ Cardinality(DOMAIN cells) = Len(cells)
         /\ AtLevel(cells, Valid) + AtLevel(cells, Suspect) + AtLevel(cells, Invalid) = Len(cells)
<1> DEFINE Cells(level) == {i \in DOMAIN cells : cells[i].level = level}
<1>1. DOMAIN cells = 1..Len(cells) /\ Len(cells) \in Nat
  BY Kept
<1>2. Cardinality(DOMAIN cells) = Len(cells)
  <2>1. Cardinality(1..Len(cells)) = IF 1 > Len(cells) THEN 0 ELSE Len(cells) - 1 + 1
    BY <1>1, FS_Interval
  <2>2. QED
    BY <1>1, <2>1
<1>3. \A level : IsFiniteSet(Cells(level)) /\ Cardinality(Cells(level)) \in Nat
  BY Kept, CountedLevels
<1>4. DOMAIN cells = (Cells(Valid) \cup Cells(Suspect)) \cup Cells(Invalid)
  <2>1. \A i \in DOMAIN cells : cells[i].level \in {Valid, Suspect, Invalid}
    BY <1>1, Kept DEF CellRecord
  <2>2. QED
    BY <2>1
<1>5. /\ Cells(Valid) \cap Cells(Suspect) = {}
      /\ (Cells(Valid) \cup Cells(Suspect)) \cap Cells(Invalid) = {}
  BY DEF Valid, Suspect, Invalid
<1>6. \A level : AtLevel(cells, level) = Cardinality(Cells(level))
  BY DEF AtLevel
<1> HIDE DEF Cells
<1>7. /\ IsFiniteSet(Cells(Valid) \cup Cells(Suspect))
      /\ Cardinality(Cells(Valid) \cup Cells(Suspect))
           = Cardinality(Cells(Valid)) + Cardinality(Cells(Suspect))
  BY <1>3, <1>5, Disjoint
<1>8. Cardinality((Cells(Valid) \cup Cells(Suspect)) \cup Cells(Invalid))
        = Cardinality(Cells(Valid) \cup Cells(Suspect)) + Cardinality(Cells(Invalid))
  BY <1>3, <1>5, <1>7, Disjoint
<1>9. QED
  BY <1>2, <1>4, <1>6, <1>7, <1>8

\* The loop of the command and the roll-up of the report exclude the same number of cells,
\* and every cell that completed is valid, suspect or excluded.
THEOREM Counters == Spec => []CountersAgree
<1>1. TypeOK /\ Concluded => CountersAgree
  BY LevelsPartition DEF Concluded, Report, CountersAgree
<1>2. QED
  BY <1>1, Concluding, PTL

\* A comparison sets an arm against the baseline on a metric both measured.
LEMMA Compared ==
  ASSUME NEW overlapping, NEW c \in Comparisons(cells, overlapping)
  PROVE  LET x == c.what
             a == Samples(cells, x.scenario, 0, x.metric)
             b == Samples(cells, x.scenario, x.arm, x.metric)
         IN /\ x.metric \in Metrics /\ Count(a) > 0 /\ Count(b) > 0
            /\ c.decision = Decision(a, b, x \in overlapping)
<1> DEFINE Ran == {[scenario |-> cells[i].scenario, arm |-> cells[i].arm, metric |-> m] :
                     i \in DOMAIN cells, m \in Metrics}
           Of(y, arm) == Samples(cells, y.scenario, arm, y.metric)
<1>1. PICK x \in Ran : /\ Count(Of(x, 0)) > 0 /\ Count(Of(x, x.arm)) > 0
                       /\ c = [what |-> x,
                               decision |-> Decision(Of(x, 0), Of(x, x.arm), x \in overlapping)]
  BY DEF Comparisons
<1>2. x.metric \in Metrics
  BY <1>1
<1> HIDE DEF Ran
<1>3. c.what = x
  BY <1>1
<1>4. QED
  BY <1>1, <1>2, <1>3

\* The samples of an arm are what its usable repetitions measured.
LEMMA Sampled ==
  ASSUME TypeOK, NEW x, NEW arm, x.metric \in Metrics
  PROVE  LET v == Samples(cells, x.scenario, arm, x.metric) IN
         /\ DOMAIN v = Repetitions(x, arm) /\ IsFiniteSet(DOMAIN v)
         /\ Count(v) = Cardinality(Repetitions(x, arm)) /\ Count(v) \in Nat
         /\ \A i \in DOMAIN v : v[i] = cells[i].values[x.metric] /\ v[i] \in Nat
<1> DEFINE v == Samples(cells, x.scenario, arm, x.metric)
           Used == {i \in DOMAIN cells : /\ cells[i].scenario = x.scenario /\ cells[i].arm = arm
                                         /\ Usable(cells[i]) /\ cells[i].values[x.metric] # Absent}
<1>1. v = [i \in Used |-> cells[i].values[x.metric]]
  BY DEF Samples
<1>2. DOMAIN cells = 1..Len(cells) /\ Len(cells) \in Nat
  BY Kept
<1>3. \A i \in 1..Len(cells) : /\ Usable(cells[i]) <=> cells[i].level \in {Valid, Suspect}
                               /\ cells[i].values \in [Metrics -> Nat \cup {Absent}]
  BY Kept DEF CellRecord, Usable, Excluded, Valid, Suspect, Invalid
<1>4. Used = Repetitions(x, arm)
  BY <1>2, <1>3 DEF Repetitions
<1>5. IsFiniteSet(Used) /\ Cardinality(Used) \in Nat
  <2>1. IsFiniteSet(DOMAIN cells) /\ Used \in SUBSET DOMAIN cells
    BY <1>2, FS_Interval
  <2> HIDE DEF Used
  <2>2. QED
    BY <2>1, Parts
<1>6. \A i \in Used : cells[i].values[x.metric] \in Nat
  BY <1>2, <1>3
<1> HIDE DEF v, Used
<1>7. DOMAIN v = Used /\ \A i \in Used : v[i] = cells[i].values[x.metric]
  BY <1>1
<1>8. QED
  BY <1>4, <1>5, <1>6, <1>7 DEF Count, v

\* What is decided has MinN usable repetitions on both sides.
LEMMA DecidedIsSupported ==
  ASSUME TypeOK, NEW overlapping, NEW c \in Comparisons(cells, overlapping),
         c.decision # "insufficient"
  PROVE  Supported(c.what)
<1> DEFINE x == c.what
           Of(arm) == Samples(cells, x.scenario, arm, x.metric)
<1>1. x.metric \in Metrics /\ ~(Count(Of(0)) < MinN) /\ ~(Count(Of(x.arm)) < MinN)
  BY Compared DEF Decision
<1>2. \A arm : Count(Of(arm)) = Cardinality(Repetitions(x, arm)) /\ Count(Of(arm)) \in Nat
  BY <1>1, Sampled
<1> HIDE DEF x
<1>3. \A arm \in {0, x.arm} : MinN <= Cardinality(Repetitions(x, arm))
  BY <1>1, <1>2, RollupAssumption DEF RollupAssumption
<1>4. QED
  BY <1>3 DEF Supported, x

\* No comparison is decided on fewer usable cells of either arm than MinN, and no report
\* says whether there are regressions without a comparison that had them.
THEOREM Evidenced == Spec => []DecisionsHaveEvidence
<1>1. TypeOK /\ Concluded => DecisionsHaveEvidence
  <2> SUFFICES ASSUME TypeOK, Concluded, report # None
               PROVE  /\ \A c \in Decided(report.compared) : Supported(c.what)
                      /\ report.sentence \in {"no regression", "regressions"}
                           => \E c \in report.compared : Supported(c.what)
    BY DEF DecisionsHaveEvidence
  <2>1. PICK overlapping : report = Report(cells, overlapping)
    BY DEF Concluded
  <2>2. \A c \in Decided(report.compared) : c \in report.compared /\ Supported(c.what)
    BY <2>1, DecidedIsSupported DEF Decided, Report
  <2>3. report.sentence \in {"no regression", "regressions"} => Decided(report.compared) # {}
    BY <2>1 DEF Report, Sentence
  <2>4. QED
    BY <2>2, <2>3
<1>2. QED
  BY <1>1, Concluding, PTL

\* Whatever was measured and whichever intervals overlap, a regression of the report can be
\* seen in the cells: half of the arm's usable repetitions at least are no better than the
\* worst the baseline had.
THEOREM RegressionsShow == Spec => []RegressionsAreVisible
<1>1. TypeOK /\ Concluded => RegressionsAreVisible
  <2> SUFFICES ASSUME TypeOK, Concluded, report # None, NEW c \in Regressions(report.compared)
               PROVE  \E half \in SUBSET Repetitions(c.what, c.what.arm) :
                        /\ 2 * Cardinality(half) >= Cardinality(Repetitions(c.what, c.what.arm))
                        /\ \A i \in half, j \in Repetitions(c.what, 0) :
                             NoBetter(c.what.metric, cells[i].values[c.what.metric],
                                                     cells[j].values[c.what.metric])
    BY DEF RegressionsAreVisible
  <2> DEFINE x == c.what
             a == Samples(cells, x.scenario, 0, x.metric)
             b == Samples(cells, x.scenario, x.arm, x.metric)
  <2>1. PICK overlapping : report.compared = Comparisons(cells, overlapping)
    BY DEF Concluded, Report
  <2>2. c \in Comparisons(cells, overlapping) /\ c.decision = Worse(x.metric)
    BY <2>1 DEF Regressions
  <2>3. /\ x.metric \in Metrics /\ Count(a) > 0 /\ Count(b) > 0
        /\ c.decision = Decision(a, b, x \in overlapping)
    BY <2>2, Compared
  <2>4. /\ DOMAIN a = Repetitions(x, 0) /\ Numbers(a)
        /\ \A j \in DOMAIN a : a[j] = cells[j].values[x.metric]
    BY <2>3, Sampled DEF Numbers
  <2>5. /\ DOMAIN b = Repetitions(x, x.arm) /\ Numbers(b)
        /\ Count(b) = Cardinality(Repetitions(x, x.arm))
        /\ \A i \in DOMAIN b : b[i] = cells[i].values[x.metric]
    BY <2>3, Sampled DEF Numbers
  <2> HIDE DEF x, a, b
  <2>6. ~InsideBand(a, b) /\ (x.metric \in LowerIsBetter <=> TwiceMedian(b) > TwiceMedian(a))
    BY <2>2, <2>3 DEF Decision, Worse
  <2>7. PICK half \in SUBSET DOMAIN b :
          /\ 2 * Cardinality(half) >= Count(b)
          /\ \A i \in half, j \in DOMAIN a :
               IF TwiceMedian(b) > TwiceMedian(a) THEN b[i] >= a[j] ELSE b[i] <= a[j]
    BY <2>4, <2>5, <2>6, BeyondTheBand
  <2>8. \A i \in half, j \in DOMAIN a :
          NoBetter(x.metric, cells[i].values[x.metric], cells[j].values[x.metric])
    BY <2>4, <2>5, <2>6, <2>7 DEF NoBetter
  <2>9. QED
    BY <2>4, <2>5, <2>7, <2>8 DEF x
<1>2. QED
  BY <1>1, Concluding, PTL
=============================================================================

------------------------------- MODULE Results -------------------------------
(***************************************************************************)
(* The results of `perf run`: the cells of the plan are measured one after *)
(* another, each is judged by the gates against those before it, and what  *)
(* completed is rolled up.  How a cell is run, and everything that may go  *)
(* wrong meanwhile, is in Campaign; here a cell either completes with some *)
(* measurement or fails.                                                   *)
(*                                                                         *)
(* A measurement is what the instruments saw: a record with the fields of  *)
(* the evidence the gates read (see Gates) and, besides,                   *)
(*   sampled: the subject's own sampler collected something                *)
(*   values: a number or Absent for each metric.                           *)
(*                                                                         *)
(* An operator named ...Mut is a seeded fault in the operation it stands   *)
(* before; no action uses it.                                              *)
(***************************************************************************)
EXTENDS Plan, Rollup

CONSTANTS
  Campaigns,    \* the campaigns considered, each with the field observe as well
  Measurements  \* what a cell may measure

Names == UNION {{c.scenarios[k] : k \in 1..Len(c.scenarios)} : c \in Campaigns}

Measurement ==
  [scenario : Names, alloc : Nat, pool : Nat, cap : Nat, busy : BOOLEAN, competing : BOOLEAN,
   failed : Nat, dropped : Nat, short : BOOLEAN, served : BOOLEAN, shed : Nat,
   steady : BOOLEAN, corroborated : BOOLEAN, imposter : BOOLEAN, mute : BOOLEAN,
   ready : STRING, machine : STRING, clock : {"unmeasured", "stable", "drifted"},
   sampled : BOOLEAN, values : [Metrics -> Nat \cup {Absent}]]

ASSUME ResultsAssumption ==
  /\ \A c \in Campaigns :
       /\ c.arms \in Nat \ {0} /\ c.reps \in Nat \ {0}
       /\ c.seed \in Int /\ c.seed <= MaxInt /\ c.observe \in BOOLEAN
       /\ Len(c.scenarios) \in Nat
  /\ Measurements \subseteq Measurement

VARIABLES
  campaign,
  at,        \* the ordinal of the next cell
  cells,     \* those completed
  peers,     \* what the next cell is compared with
  excluded,  \* cells excluded, as cmdRun counts them
  report

vars == <<campaign, at, cells, peers, excluded, report>>

None == [sentence |-> "none"]

Cell == Expand(campaign)[at]

\* The runner's CPU is looked at only where the subject was sampled, and both it and the
\* server's counters only over a window.
RunnerBusy(m) == m.busy /\ m.sampled /\ m.steady
ServerPresent(m) == m.served /\ m.steady

\* The host's fingerprint is never filled in.
Evidence(m) ==
  [m EXCEPT !.scenario = Cell.scenario, !.busy = RunnerBusy(m), !.served = ServerPresent(m),
            !.machine = Unknown]

Init ==
  /\ campaign \in Campaigns
  /\ at = 0 /\ cells = << >> /\ peers = {} /\ excluded = 0 /\ report = None

Running == report = None /\ at < Size(campaign)

After(ordinal) == ordinal + 1

Tally(level) == IF Excluded(level) THEN excluded + 1 ELSE excluded

Peers(e) == peers \cup {PeerOf(e)}

CellCompletes ==
  /\ Running /\ at' = After(at)
  /\ \E m \in Measurements :
       LET e == Evidence(m)
           level == Evaluate(e, peers, campaign.observe)
       IN /\ cells' = Append(cells, [ordinal |-> at, scenario |-> Cell.scenario, arm |-> Cell.arm,
                                     level |-> level, values |-> m.values, saw |-> m])
          /\ peers' = Peers(e)
          /\ excluded' = Tally(level)
  /\ UNCHANGED <<campaign, report>>

CellFails ==
  /\ Running /\ at' = After(at)
  /\ UNCHANGED <<campaign, cells, peers, excluded, report>>

\* After the last cell, or early: an interrupt ends the loop, not the report.
RollUp ==
  /\ report = None
  /\ \E overlapping \in SUBSET {c.what : c \in Comparisons(cells, {})} :
       report' = Report(cells, overlapping)
  /\ UNCHANGED <<campaign, at, cells, peers, excluded>>

Next == CellCompletes \/ CellFails \/ RollUp

Spec == Init /\ [][Next]_vars

-----------------------------------------------------------------------------
\* Every variable stays in its range, and the cells are kept in the order of the plan.
TypeOK ==
  /\ campaign \in Campaigns
  /\ at \in 0..Size(campaign) /\ excluded \in Nat
  /\ cells \in Seq([ordinal : Nat, scenario : Names, arm : Nat, level : {Valid, Suspect, Invalid},
                    values : [Metrics -> Nat \cup {Absent}], saw : Measurements])
  /\ \A i \in 1..Len(cells) : cells[i].ordinal < at
  /\ \A i, j \in 1..Len(cells) : i < j => cells[i].ordinal < cells[j].ordinal

\* The interleaved order gives every arm every position equally often: what follows the
\* position in the session weighs on no arm more than on another.
RotationBalances == campaign.order # "blocked" => Balanced(campaign)

\* Of two usable cells of a scenario, neither needed twice the generator the other did:
\* only the later one is ever compared with the earlier, excluded ones included.
UsableCellsAgree ==
  ~campaign.observe =>
    \A i, j \in 1..Len(cells) :
      LET p == cells[i].saw.pool
          q == cells[j].saw.pool
      IN /\ i < j /\ cells[i].scenario = cells[j].scenario
         /\ Usable(cells[i]) /\ Usable(cells[j]) /\ p > 0 /\ q > 0
         => p < 2 * q /\ q < 2 * p

\* Two cells whose readiness was detected by different means: the later one shows it.
MixedReadinessShows ==
  \A i, j \in 1..Len(cells) :
    i < j /\ Differ(cells[i].saw.ready, cells[j].saw.ready) => cells[j].level # Valid

\* The loop and the roll-up count the same cells and exclude the same ones.
CountersAgree ==
  report # None =>
    /\ report.ran = Len(cells) /\ report.excluded = excluded
    /\ report.valid + report.suspect + report.excluded = report.ran

\* The usable cells of an arm that measured what a comparison is about.
Repetitions(x, arm) ==
  {i \in 1..Len(cells) : /\ cells[i].level \in {Valid, Suspect} /\ cells[i].scenario = x.scenario
                         /\ cells[i].arm = arm /\ cells[i].values[x.metric] # Absent}

\* No comparison is decided without MinN usable cells of both arms that measured it, and a
\* report that says whether there are regressions rests on at least one such comparison.
Supported(x) == \A arm \in {0, x.arm} : MinN <= Cardinality(Repetitions(x, arm))

DecisionsHaveEvidence ==
  report # None =>
    /\ \A c \in Decided(report.compared) : Supported(c.what)
    /\ report.sentence \in {"no regression", "regressions"}
         => \E c \in report.compared : Supported(c.what)

\* A reported regression can be seen in the cells, without medians or intervals: at least
\* half of the arm's usable repetitions are no better than the worst of the baseline.
NoBetter(m, x, y) == IF m \in LowerIsBetter THEN x >= y ELSE x <= y

RegressionsAreVisible ==
  report # None =>
    \A c \in Regressions(report.compared) :
      LET m   == c.what.metric
          arm == Repetitions(c.what, c.what.arm)
      IN \E half \in SUBSET arm :
           /\ 2 * Cardinality(half) >= Cardinality(arm)
           /\ \A i \in half, j \in Repetitions(c.what, 0) :
                NoBetter(m, cells[i].values[m], cells[j].values[m])
=============================================================================

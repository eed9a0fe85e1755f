------------------------------ MODULE LoadPass ------------------------------
(***************************************************************************)
(* One load pass and the numbers read from it.  The generator's rows are   *)
(* folded into one-second buckets (loadgen/stream.go) while, in a measured *)
(* pass, the subject's CPU is sampled and its metrics are scraped.         *)
(* Afterwards                                                              *)
(*   a capacity pass is read for its knee (campaign/calibrate.go),         *)
(*   a measured pass gets its window, and the window its CPU and its       *)
(*   server figures (selectWindow, windowSubject, windowServer).           *)
(*                                                                         *)
(* Time is counted in ticks; second k is the ticks k * Second and later.   *)
(* The pass is started at the tick `start` of second 0, and the generator  *)
(* sends its first request `delay` ticks later: k6 has to allocate its     *)
(* virtual users first.                                                    *)
(***************************************************************************)
EXTENDS Steady, Knee, Counters

CONSTANTS
  Starts, Delays,
  \* A capacity pass: spec.Capacity, the share of the knee to run at, and the systems
  \* it may meet.
  StartRate, PeakRate, Steps, Dwell, Transition, Percent,
  Systems,
  \* A measured pass: Load.Duration in seconds, what a second of it is like as a rule,
  \* what else it may be like, and how many seconds may be.
  PassSeconds, Usual, Disturbances, MaxDisturbed,
  MaxMissed,       \* ticks the sampler may miss
  Quantum,         \* CPURateQuantum: the smallest rate it can report
  NaiveDiscard,    \* what FixedWindow discards
  Samplers,        \* fidelities of the subject's sampler
  Phases,          \* ticks of a second at which it is read
  Edges,           \* finite edges of the flow histogram
  None             \* no system, or no rule, in a pass of the other kind

\* What a second of a measured pass may be like: the requests answered fast, in the
\* middle and slowly, the ticks of CPU they cost, and whether the generator wrote a row.
Kinds == [rows : BOOLEAN, fast : Nat, mid : Nat, slow : Nat, cpu : Nat]

ASSUME LoadPassAssumption ==
  /\ Second \in Nat \ {0}
  /\ Starts \subseteq 0..(Second - 1) /\ Phases \subseteq 0..(Second - 1)
  /\ Delays \subseteq Nat
  /\ StartRate \in Nat /\ PeakRate \in Nat /\ StartRate <= PeakRate
  /\ Steps \in Nat \ {0} /\ Dwell \in Nat \ {0} /\ Transition \in Nat \ {0}
  /\ Percent \in Nat
  /\ \A y \in Systems :
       /\ y.mode \in {"shed", "refuse", "fail", "slow"}
       /\ y.capacity \in Nat /\ y.until \in Nat
  /\ PassSeconds \in Nat \ {0}
  /\ Usual \cup Disturbances \subseteq Kinds
  /\ MaxDisturbed \in Nat /\ MaxMissed \in Nat
  /\ Quantum \in Nat /\ NaiveDiscard \in Nat
  /\ Samplers \subseteq {"none", "coarse", "full"}
  /\ IsFiniteSet(Edges) /\ Edges # {} /\ Edges \subseteq Int /\ Inf \notin Edges

VARIABLES
  kind,      \* "capacity" or "measured"
  start, delay,
  second,    \* the second being produced
  buckets,   \* Aggregator.buckets
  system,    \* what a capacity pass meets
  usual, seconds,          \* a measured pass: its rule, and what each second was like
  total,                   \* the subject's counters
  sampler, phase, cpu,     \* the subject's samples
  scrapes,                 \* of the subject's admin endpoint
  done,
  knee, rate,              \* Calibration
  cell                     \* result.Cell

setting == <<kind, start, delay, system, usual, sampler, phase>>
reading == <<knee, rate, cell>>
vars == <<setting, second, buckets, seconds, total, cpu, scrapes, done, reading>>

-----------------------------------------------------------------------------
\* The aggregator.

Put(f, k, x) == [i \in DOMAIN f \cup {k} |-> IF i = k THEN x ELSE f[i]]

\* Aggregator.add over the rows of a second: for each metric that has any, how many
\* there are and what their values add up to.
Rows(n, sum) == [n |-> n, sum |-> sum]
NoRows == [m \in {} |-> Rows(0, 0)]
Added(rows) ==
  LET sum(m) == IF m \in DOMAIN rows THEN rows[m].sum ELSE 0
      n(m)   == IF m \in DOMAIN rows THEN rows[m].n ELSE 0
  IN [requests    |-> sum("http_reqs"),
      failed      |-> sum("http_req_failed"),
      dropped     |-> sum("dropped_iterations"),
      durationSum |-> sum("http_req_duration"),
      durationN   |-> n("http_req_duration")]

Consume(rows) ==
  buckets' = IF DOMAIN rows = {} THEN buckets ELSE Put(buckets, second, Added(rows))

\* Aggregator.Frame: seconds without a row are left out, and so is the latency of
\* seconds in which nothing was timed.
SeriesOf(value) ==
  [t \in {s * Second : s \in DOMAIN value} |-> value[t \div Second]]

RPS     == SeriesOf([s \in DOMAIN buckets |-> buckets[s].requests])
Dropped == SeriesOf([s \in DOMAIN buckets |-> buckets[s].dropped])
Failed  == SeriesOf([s \in DOMAIN buckets |-> buckets[s].failed])
Latency == LET timed == {s \in DOMAIN buckets : buckets[s].durationN > 0}
           IN SeriesOf([s \in timed |-> (100 * buckets[s].durationSum) \div buckets[s].durationN])

-----------------------------------------------------------------------------
\* The capacity pass: the stages Calibrate hands to k6, and k6's reading of them.

WarmUp == Dwell   \* the default of Capacity.Warmup
Stages ==
  <<[target |-> StartRate, duration |-> Transition], [target |-> StartRate, duration |-> WarmUp]>>
    \o RampStages(StartRate, PeakRate, Steps, Dwell, Transition)
Skip    == Transition + WarmUp
Targets == [i \in 1..Steps |-> Target(StartRate, PeakRate, Steps, i)]

\* A transition and a dwell take turns, so the j-th stage has had so many of each before it.
StageBegins(j) == (j \div 2) * Transition + ((j - 1) \div 2) * Dwell
RampLength     == StageBegins(Len(Stages) + 1)

\* ramping-arrival-rate: linear from the last target to this one over the stage.
OfferedAt(t) ==
  LET j    == CHOOSE j \in 1..Len(Stages) : StageBegins(j) <= t /\ t < StageBegins(j + 1)
      prev == IF j = 1 THEN StartRate ELSE Stages[j - 1].target
  IN prev + ((Stages[j].target - prev) * (2 * (t - StageBegins(j)) + 1))
              \div (2 * Stages[j].duration)

\* What one tick of it yields: a system over its capacity makes the generator shed what
\* it cannot place, or answers late, or with errors, or not at all.
Served(t) ==
  LET o == OfferedAt(t) \div Second
      c == system.capacity \div Second
      over == o > c /\ t < system.until
      n == IF over /\ system.mode \in {"shed", "refuse"} THEN c ELSE o
  IN [requests |-> n,
      dropped  |-> IF over /\ system.mode = "shed" THEN o - c ELSE 0,
      failed   |-> IF over /\ system.mode = "fail" THEN o - c ELSE 0,
      latency  |-> IF over /\ system.mode = "slow" THEN 4 * n ELSE n]

\* The ticks at which the generator runs, and those of second s by its own clock.
Begin == start + delay
End   == Begin + (IF kind = "capacity" THEN RampLength ELSE PassSeconds * Second)
LastSecond == (End - 1) \div Second
Running(s) == Max({s * Second, Begin})..(Min({s * Second + Second, End}) - 1)

RampSecond ==
  /\ kind = "capacity" /\ second <= LastSecond
  /\ LET served == [t \in Running(second) |-> Served(t - Begin)]
         all(f) == Sum([t \in Running(second) |-> served[t][f]])
         n      == all("requests")
     IN Consume(IF Running(second) = {} THEN NoRows
                ELSE [http_reqs          |-> Rows(n, n),
                      dropped_iterations |-> Rows(1, all("dropped")),
                      http_req_failed    |-> Rows(n, all("failed")),
                      http_req_duration  |-> Rows(n, all("latency"))])
  /\ second' = second + 1
  /\ UNCHANGED <<setting, seconds, total, cpu, scrapes, done, reading>>

\* Calibrate, after the ramp: the rungs are judged by the runner's clock.
Calibrate ==
  /\ kind = "capacity" /\ second > LastSecond /\ ~done
  /\ done' = TRUE
  /\ LET steps == StepWindows(start + Skip, Targets, Dwell, Transition)
     IN knee' = FindKnee(steps, RPS, Dropped, Failed, Latency)
  /\ rate' = Chosen(knee'.rate, Percent)
  /\ UNCHANGED <<setting, second, buckets, seconds, total, cpu, scrapes, cell>>

-----------------------------------------------------------------------------
\* The measured pass.

\* What a second like p adds to the subject's counters when it is under load for so many
\* ticks: fewer than all of them where the pass begins and ends.
Share(p, ticks) ==
  LET part(x) == (x * ticks) \div Second
  IN [fast |-> part(p.fast), mid |-> part(p.mid), slow |-> part(p.slow), cpu |-> part(p.cpu)]
Plus(a, b) ==
  [fast |-> a.fast + b.fast, mid |-> a.mid + b.mid, slow |-> a.slow + b.slow, cpu |-> a.cpu + b.cpu]
Answered(p) == p.fast + p.mid + p.slow

\* The ticks from..(to - 1) under load.
Loaded(from, to) == Max({0, Min({to, End}) - Max({from, Begin})})

\* The counters at a tick of the second being produced, when it is like p.
CountersAt(p, t) == Plus(total, Share(p, Loaded(second * Second, t)))

Scrape(c) ==
  [outcome |-> [o \in {"completed"} |-> Answered(c)],
   total   |-> [sum |-> c.fast + 3 * c.mid + 5 * c.slow, count |-> Answered(c)],
   bucket  |-> [le \in Edges \cup {Inf} |->
                  IF le = Inf THEN Answered(c)
                  ELSE IF le = Min(Edges) THEN c.fast ELSE c.fast + c.mid]]

Disturbed(history) == Cardinality({k \in DOMAIN history : history[k] # usual})
Missed == IF sampler = "none" THEN 0 ELSE second + 1 - Points(cpu)

\* One second of it.  The sampler may miss its tick.
MeasuredSecond(p) ==
  LET now  == second * Second + phase
      all  == Share(p, Loaded(second * Second, second * Second + Second))
      here == CountersAt(p, now)
      n    == Answered(all)
  IN /\ second <= LastSecond
     /\ seconds' = Put(seconds, second, p)
     /\ total' = Plus(total, all)
     /\ Consume(IF ~p.rows THEN NoRows
                ELSE [vus |-> Rows(1, 1), http_reqs |-> Rows(n, n),
                      http_req_duration |-> Rows(n, n)])
     /\ \/ cpu' = IF sampler = "none" THEN cpu ELSE Put(cpu, now, here.cpu)
        \/ cpu' = cpu /\ sampler # "none" /\ Missed < MaxMissed
     /\ scrapes' = Put(scrapes, now, Scrape(here))
     /\ second' = second + 1
     /\ UNCHANGED <<setting, done, reading>>
     /\ Disturbed(seconds') + Missed' <= MaxDisturbed

\* wholeSeconds: the first and the last bucket are only partly filled.
WholeSecondsMut(s) == s
WholeSeconds(s) == Restrict(s, DOMAIN s \ {First(s), Last(s)})

\* selectWindow.  Only a sampler of full fidelity corroborates.
SelectWindow ==
  LET rps == WholeSeconds(RPS)
      co  == IF sampler = "full" THEN Rate(cpu) ELSE [t \in {} |-> 0]
  IN IF Empty(rps) THEN NoWindow
     ELSE DetectSteady(rps, PassSeconds * Second, co, Quantum)

\* windowSubject: CPU used between the first and the last sample in the window.
WindowSubjectMut(w) ==
  IF w.ok /\ HasDelta(cpu) THEN [ok |-> TRUE, v |-> Delta(cpu)] ELSE [ok |-> FALSE, v |-> 0]
WindowSubject(w) ==
  LET in == Window(cpu, w.from, w.to)
  IN IF w.ok /\ HasDelta(in) THEN [ok |-> TRUE, v |-> Delta(in)] ELSE [ok |-> FALSE, v |-> 0]

\* Scrapes.Bracketing, and windowServer over the bracket it finds.
Bracketing(from, to) ==
  LET before == {t \in DOMAIN scrapes : t <= from}
      after  == {t \in DOMAIN scrapes : t >= to}
  IN IF before = {} \/ after = {} \/ Min(after) <= Max(before)
       THEN [ok |-> FALSE, start |-> 0, end |-> 0]
       ELSE [ok |-> TRUE, start |-> Max(before), end |-> Min(after)]

NoMean == [ok |-> FALSE, sum |-> 0, n |-> 0]
FlowMean(a, b) ==
  LET sum == CounterDelta(a, b, "sum")
      n   == CounterDelta(a, b, "count")
  IN IF sum.ok /\ n.ok /\ n.v > 0 THEN [ok |-> TRUE, sum |-> sum.v, n |-> n.v] ELSE NoMean

NoServer ==
  [present |-> FALSE, span |-> <<0, 0>>, completed |-> 0, mean |-> NoMean, p95 |-> "none"]
WindowServer(w) ==
  LET b == Bracketing(w.from, w.to)
      first == scrapes[b.start]
      last  == scrapes[b.end]
  IN IF ~w.ok \/ ~b.ok THEN NoServer
     ELSE [present   |-> TRUE,
           span      |-> <<b.start, b.end>>,
           completed |-> CounterDeltaByLabel(first.outcome, last.outcome)["completed"],
           mean      |-> FlowMean(first.total, last.total),
           p95       |-> Quantile(HistogramWindow(first.bucket, last.bucket), 95)]

NoCell == [window |-> NoWindow, naive |-> NoWindow, cpu |-> [ok |-> FALSE, v |-> 0],
           server |-> NoServer]

Measure ==
  /\ kind = "measured" /\ second > LastSecond /\ ~done
  /\ done' = TRUE
  /\ LET w == SelectWindow
     IN cell' = [window |-> w,
                 naive  |-> FixedWindow(WholeSeconds(RPS), NaiveDiscard),
                 cpu    |-> WindowSubject(w),
                 server |-> WindowServer(w)]
  /\ UNCHANGED <<setting, second, buckets, seconds, total, cpu, scrapes, knee, rate>>

-----------------------------------------------------------------------------
\* What the warm-up pass left in the counters.
Prior == [fast |-> 300, mid |-> 100, slow |-> 100, cpu |-> 700]

Init ==
  /\ \/ kind = "capacity" /\ start \in Starts /\ delay \in Delays
        /\ system \in Systems
        /\ usual = None /\ sampler = "none" /\ phase = 0
     \/ kind = "measured" /\ start \in Starts /\ delay = 0
        /\ system = None
        /\ usual \in Usual /\ sampler \in Samplers /\ phase \in Phases
  /\ second = 0 /\ buckets = [s \in {} |-> Added(NoRows)] /\ seconds = [s \in {} |-> None]
  /\ total = Prior
  /\ cpu = IF sampler = "none" THEN [t \in {} |-> 0] ELSE [t \in {phase - Second} |-> Prior.cpu]
  /\ scrapes = [t \in IF kind = "measured" THEN {phase - Second} ELSE {} |-> Scrape(Prior)]
  /\ done = FALSE
  /\ knee = [found |-> FALSE, rate |-> 0] /\ rate = 0
  /\ cell = NoCell

Next ==
  \/ RampSecond \/ Calibrate
  \/ kind = "measured" /\ \E p \in {usual} \cup Disturbances : MeasuredSecond(p)
  \/ Measure

Spec == Init /\ [][Next]_vars

-----------------------------------------------------------------------------
(***************************************************************************)
(* Properties.                                                             *)
(***************************************************************************)

Calibrated == done /\ kind = "capacity"
MeasuredOK == done /\ kind = "measured" /\ cell.window.ok

\* The system is over its capacity at rung i unless it recovered before.
Limited(i) == Skip + i * Transition + (i - 1) * Dwell < system.until

\* The knee is never above a rung the system could not serve to within three in a
\* hundred, in whichever way it folds over, however late the generator starts, and even if
\* it recovers at a higher rate.  (Held allows for one in a hundred; the rest is the part
\* of the next transition that is stamped with the last second of the dwell.)  Except that
\* a system already queueing at the first rung is its own reference.
KneeNeverOverstated ==
  Calibrated =>
    \A i \in 1..Steps :
      Targets[i] <= knee.rate /\ Limited(i) =>
        \/ 100 * system.capacity >= 97 * Targets[i]
        \/ system.mode = "slow" /\ system.capacity < StartRate

Undisturbed == \A k \in DOMAIN seconds : seconds[k] = usual

\* A flat pass of six seconds or more is measured, over all of its whole seconds but
\* perhaps the first, over which the CPU seems to rise if the pass began inside a second; it
\* is corroborated unless the instrument is too coarse to tell, or, where that first second
\* is in the window, nearly so.
FlatPassIsMeasured ==
  done /\ kind = "measured" /\ Undisturbed /\ Missed = 0
  /\ PassSeconds >= 6 /\ usual.rows /\ Answered(usual) > 0 =>
    LET w == cell.window
    IN /\ w.ok
       /\ w.to = (LastSecond - 1) * Second
       /\ w.from = Second \/ (w.from = 2 * Second /\ start > 0 /\ sampler = "full")
       /\ w.corroborated => sampler = "full" /\ usual.cpu > 0 /\ usual.cpu >= 10 * Quantum
       /\ sampler = "full" /\ usual.cpu > 0 /\ 3 * usual.cpu >= 40 * Quantum => w.corroborated

\* No second the generator reported on sinks below four fifths of the window's mean, in a
\* window of up to seventeen seconds; in a longer one it may by as much as a twentieth of
\* the square root of their number.
NoDipInside ==
  MeasuredOK =>
    LET w == Window(RPS, cell.window.from, cell.window.to)
    IN \A t \in DOMAIN w :
         LET dip == Sum(w) - w[t] * Points(w)
         IN /\ 400 * dip * dip <= (Points(w) - 1) * Sum(w) * Sum(w)
            /\ Points(w) <= 17 => 5 * dip <= Sum(w)

\* The subject's counters at the beginning of second k, and at any tick.
Counted[k \in 0..second] ==
  IF k = 0 THEN Prior
  ELSE Plus(Counted[k-1], Share(seconds[k-1], Loaded((k - 1) * Second, k * Second)))
Truth(t) ==
  LET k == t \div Second
  IN IF t < 0 THEN Prior
     ELSE IF k >= second THEN Counted[second]
     ELSE Plus(Counted[k], Share(seconds[k], Loaded(k * Second, t)))

\* The CPU of a window is CPU used inside it: never more, and less by at most what was
\* used between two samples at either end.
CpuIsOfTheWindow ==
  MeasuredOK /\ cell.cpu.ok =>
    LET w   == cell.window
        gap == (1 + MaxMissed) * Second
    IN /\ cell.cpu.v <= Truth(w.to).cpu - Truth(w.from).cpu
       /\ cell.cpu.v >= Truth(w.to - gap).cpu - Truth(w.from + gap).cpu

\* Throughput is capped by the offered rate, so it plateaus while the subject still
\* warms: a corroborated window starts after the warming seconds, as long as the sampler
\* misses nothing and the first rate in the window is of an interval wholly under load.
Warming   == {k \in DOMAIN seconds : seconds[k].cpu > usual.cpu}
LoadedAll == Begin <= cell.window.from + phase - Second
WarmUpStaysOut ==
  MeasuredOK /\ cell.window.corroborated /\ Missed = 0 /\ LoadedAll
  /\ Warming = 0..(Cardinality(Warming) - 1)
    => cell.window.from >= Cardinality(Warming) * Second

\* The mean and the percentile reported for the server are those of the flows which ended
\* between two scrapes around the window, and the bound of the percentile says no more than
\* is true of them.
QuantileIsHonest ==
  MeasuredOK /\ cell.server.present =>
    LET q     == cell.server.p95
        span  == cell.server.span
        was   == Scrape(Truth(span[1]))
        is    == Scrape(Truth(span[2]))
        all   == [le \in Edges \cup {Inf} |-> is.bucket[le] - was.bucket[le]]
        flows == is.total.count - was.total.count
        reached(le) == 100 * all[le] >= 95 * flows
    IN /\ span[1] <= cell.window.from /\ cell.window.to <= span[2]
       /\ cell.server.completed = flows
       /\ cell.server.mean =
            IF flows > 0 THEN [ok |-> TRUE, sum |-> is.total.sum - was.total.sum, n |-> flows]
                         ELSE NoMean
       /\ q.bound = "below"        => reached(q.edge)
       /\ q.bound = "above"        => ~reached(q.edge)
       /\ q.bound = "interpolated" => reached(q.edge) /\ ~reached(q.prev)
       /\ q.bound = "unknown"      => flows = 0
=============================================================================

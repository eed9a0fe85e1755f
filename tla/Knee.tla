-------------------------------- MODULE Knee --------------------------------
(***************************************************************************)
(* internal/stats/knee.go: the stages of a capacity ramp, the interval in  *)
(* which each rung is judged, and the highest rung that was held.          *)
(***************************************************************************)
EXTENDS Series, Sequences

LatencyFactor == 3     \* DefaultKnee; achieved must reach 99 in 100 of offered

\* RampStages: a short transition and a dwell per rung.
Target(start, peak, steps, i) ==
  IF steps > 1 THEN start + ((peak - start) * (i - 1)) \div (steps - 1) ELSE peak

RampStages(start, peak, steps, dwell, transition) ==
  [k \in 1..(2 * steps) |->
     [target   |-> Target(start, peak, steps, (k + 1) \div 2),
      duration |-> IF k % 2 = 1 THEN transition ELSE dwell]]

\* StepWindows: the dwell of each rung, an instant short of its end.
StepWindows(at, targets, dwell, transition) ==
  [i \in 1..Len(targets) |->
     LET from == at + i * transition + (i - 1) * dwell
     IN [offered |-> targets[i], from |-> from, to |-> from + dwell - 1]]

\* What one rung produced: sums over the seconds stamped inside its window.
Rung(step, rps, dropped, failed, latency) ==
  LET in(s) == Window(s, step.from, step.to)
  IN [offered  |-> step.offered,
      seconds  |-> Points(in(rps)),
      achieved |-> Sum(in(rps)),
      dropped  |-> Sum(in(dropped)),
      failed   |-> Sum(in(failed)),
      latency  |-> Mean(in(latency))]

\* The first rung up to i with a latency reading is the reference for it.
Reference(rungs, i) ==
  LET read == {j \in 1..i : rungs[j].latency.sum > 0}
  IN IF read = {} THEN [sum |-> 0, n |-> 0] ELSE rungs[Min(read)].latency

Queueing(latency, ref) ==
  /\ ref.sum > 0 /\ latency.n > 0
  /\ latency.sum * ref.n > LatencyFactor * ref.sum * latency.n

Held(r, ref) ==
  /\ r.seconds > 0 /\ r.offered > 0
  /\ r.dropped = 0
  /\ r.failed = 0 \/ r.achieved = 0
  /\ 100 * r.achieved >= 99 * r.offered * r.seconds
  /\ ~Queueing(r.latency, ref)

\* FindKnee: up to the first rung that was not held; a later one that recovers does not
\* count.  A reference first read at a later rung than this one cannot refuse it.
FindKneeMut(steps, rps, dropped, failed, latency) ==
  LET rungs  == [i \in 1..Len(steps) |-> Rung(steps[i], rps, dropped, failed, latency)]
      held   == {i \in 1..Len(steps) : Held(rungs[i], Reference(rungs, i))}
  IN [found |-> held # 1..Len(steps),
      rate  |-> IF held = {} THEN 0 ELSE steps[Max(held)].offered]
FindKnee(steps, rps, dropped, failed, latency) ==
  LET rungs  == [i \in 1..Len(steps) |-> Rung(steps[i], rps, dropped, failed, latency)]
      held(i) == Held(rungs[i], Reference(rungs, i))
      broken == {i \in 1..Len(steps) : ~held(i)}
      upto   == IF broken = {} THEN Len(steps) ELSE Min(broken) - 1
  IN [found |-> broken # {},
      rate  |-> IF upto = 0 THEN 0 ELSE steps[upto].offered]

\* Chosen: a stated fraction of the knee, in whole requests per second.
Chosen(rate, percent) == (rate * percent) \div 100
=============================================================================

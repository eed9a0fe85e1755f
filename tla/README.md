# A verification of the octo performance lab

The harness under `src/harness` runs performance campaigns of the Octo runtime: `perf run`
expands a campaign specification into cells (scenario x arm x repetition), measures each cell
by starting a subject, loading it with k6 and sampling it, judges every measurement with
gates, and rolls what survived up into a report. A campaign runs for hours without anybody
watching, drives processes on two machines, and its product is a table of numbers that looks
the same whether it was measured well or badly. The modules here model what decides whether
the numbers mean anything: the loop and its failures, the processes and the ways they end,
the pipe that carries the load generator's rows, the collectors, the clocks of two machines,
the capacity ramp and its knee, the window of a measured pass and what is read from it, the
order of the cells, the gates and the roll-up.

Paths below are relative to `src/harness`. TLC checks each model on a small instance; TLAPS
proves the main invariants for every value of the constants.

## 1. Inventory

| Component | Source | State | Operations | Hard because | Correct when |
|---|---|---|---|---|---|
| Campaign runner | `cmd/perf/run.go`, `internal/campaign/campaign.go` | plan position, collected cells, peers, exclusions; per cell: handle, deferred stop, collectors, generator | the loop of `cmdRun`; `RunCell` in twenty-odd steps with an error return at nearly each | failures at every step, an interrupt at any moment, processes that outlive the step that started them | every planned cell is recorded or reported, once and in order; no cell measures another cell's process; a cell cut short is not recorded; everything started is stopped |
| Calibration | `internal/campaign/calibrate.go`, `run.go:276-343` | rate per scenario | one ramp per scenario, then the knee | result remembered across cells; a ramp is a subject with its own launch; rungs are judged by one clock and produced by another | every arm of a scenario is offered the same rate, of a rung the system held |
| Dependencies | `internal/campaign/deps.go` | what was set up | `StartDeps`, `Stop` | set-up fails half way; tear-down after an interrupt; one tear-down of several fails | up before the cells that need them, down at the end, however it ends |
| Subject | `internal/subject/subject.go` | handle: process, ports | `AssertPortsFree`, `Start`, `AwaitReady`, `Stop`, `Scrape` | an address is asked, not a process | what answers is what was started |
| Local processes | `internal/exec/exec.go`, `local.go` | process group, watcher, drains, `done`, `canceled` | `Start`, `Run`, `Wait`, `Signal`, `exec.Stop` | four goroutines; the kill, the reap and the grace timer race | the result says what ended the process; nothing of the group is left; no output is lost |
| Remote processes | `internal/exec/ssh.go` | session, pid | the same over ssh | session and program are different things; every signal is a command that may be lost | a stop without an error left nothing running |
| Load generator | `internal/loadgen/k6.go`, `stream.go`, `pool.go` | FIFO, aggregator, pool | `K6.Run`, `Consume`, `SizePool` | both ends of a FIFO block in `open`; the generator may die before it gets there | a reported pass has every row; the caller returns |
| Collectors | `internal/agent/sample.go`, `internal/collect/collect.go` | readings, errors, missed ticks | `Start`, `tick`, `Stop`, `Bracketing` | a slow source, a lost tick, a stop during a reading | ordered stamps, a hole leaves a mark, the bracket encloses the window |
| Sampling sources | `internal/agent/proc.go`, `ps.go`, `remote.go` | cached machine facts | `Sample`, `Static` | remote readings over ssh | a reading answers or fails |
| Plan | `internal/plan/plan.go` | none | `Expand`, `armOrder` | arithmetic of the rotation with a 64-bit seed | a drift over the session weighs on all arms alike |
| Gates | `internal/gate` | none; the peers grow with the campaign | seven gates, `Evaluate` | a cell is compared with earlier ones only | cells that cannot be compared do not reach one median |
| Roll-up | `internal/result/campaign.go`, `internal/stats/compare.go`, `describe.go` | none | `Rollup`, `Compare`, `verdictSentence` | absent values, excluded cells, too few repetitions | a conclusion rests on enough usable cells |
| Windows and statistics | `internal/stats/steady.go`, `knee.go`, `internal/series` | none | `DetectSteady`, `FindKnee`, `Rate`, `Delta` | boundaries, holes in the series, partly filled seconds, a coarse instrument | the window is the longest steady end of the pass, with no stall inside and the warm-up outside |
| Counter windows | `internal/promx` | none | `CounterDelta`, `HistogramWindow` | resets, missing families | deltas are of one process |
| Clock | `internal/campaign/clock.go` | offset at both ends of a cell | `measureClock`, `driftBetween` | network delay, whole-second clocks, a clock disciplined between two probes | the true offset is near the reported one, and the drift gate is right about the clocks |
| Specification | `internal/spec/spec.go` | none | decoding, defaults, validation | - | - |
| Payload, rendering, report | `internal/payload`, `render`, `report` | none | text generation | - | - |
| Capabilities, identity | `internal/subject/caps.go`, `identity.go` | none | probes of the binary | - | - |
| Commands, fakes | `cmd/*`, `internal/buildinfo`, `internal/fake` | - | - | - | - |

How they interact. `cmdRun` owns the context that `signal.NotifyContext` cancels and hands it
to everything: `RunCell`, through it `subject.Start` and `K6.Run`, and the collectors. A
process started by `exec.Local` gets a watcher goroutine that answers a cancellation with
SIGKILL to the process group; one started by `exec.SSH` has such a watcher only for its
local ssh client. `RunCell` starts the subject, defers its stop, starts the collectors, runs
a warm-up and a measured pass, stops the collectors, stops the subject, then chooses the
window, brackets it with two scrapes, fills the evidence and calls the gates with the peers
`cmdRun` collected from the earlier cells. `cmdRun` appends the cell and its `Peer`. At the
end `Rollup` reads the cells that completed.

Hard behaviours, by line, are the hazards of `PROJECT.json`; each names the properties that
would notice.

## 2. The modules

| Module | Models | Checked by | Proved in |
|---|---|---|---|
| `Campaign` | `cmdRun` and the procedure of a cell: one action per step | `MCCampaign` | `CampaignProofs` |
| `CellLedger` | abstract: cells settled in plan order, each once | refined by `Campaign` | `CampaignProofs` |
| `SubjectHandle` | abstract: one subject, launched once and stopped once, and what a stop may leave behind | refined by `LocalProcess`, `SshProcess` and each launch of `Campaign` | `LocalProcessProofs`, `SshProcessProofs`, `CampaignProofs` |
| `CampaignClaims` | statements of comments that do not hold | `MCCampaign` | - |
| `LocalProcess` | `exec.Local` and `exec.Stop` around one process group | `MCProcess` | `LocalProcessProofs` |
| `SshProcess` | `exec.SSH` and `exec.Stop` around one remote program | `MCSsh` | `SshProcessProofs` |
| `SeriesPipe` | `K6.Run` with its FIFO and reader goroutine | `MCPipe` | `SeriesPipeProofs` |
| `Collector` | a sampler or the scraper, with the steps of `RunCell` around it | `MCCollector` | `CollectorProofs` |
| `Clock` | `measureClock`, `driftBetween` and the drift gate around one cell | `MCClock` | `ClockProofs` |
| `Series`, `Counters` | series of readings; counter and histogram deltas (operators) | through `LoadPass` | `LoadPassProofs` |
| `Steady`, `Knee` | `DetectSteady`, `FixedWindow`; stages, windows and knee of a ramp (operators) | through `LoadPass` | `LoadPassProofs` |
| `LoadPass` | one load pass: buckets, samples, scrapes, and the knee or the window read from them | `MCLoadPass` | `LoadPassProofs` |
| `LoadPassClaims` | a statement of a comment that does not hold | `MCLoadPass` | - |
| `Plan` | `Expand`, `armOrder` (operators) | through `Results` | `ResultsProofs` |
| `Gates` | evidence, the seven gates, `Evaluate` (operators) | through `Results` | `ResultsProofs` |
| `Rollup` | `Rollup`, `Compare`, `verdictSentence` (operators) | through `Results` | `ResultsProofs` |
| `Results` | the loop as a producer of results: composes the three | `MCResults` | `ResultsProofs` |
| `ResultsClaims` | a statement of a comment that does not hold | `MCResults` | - |

In every module an operator named `...Mut`, or one of the variants of `NextCell`, is a
seeded fault: a plausible mistake in the operation it stands before. No action uses it; put
in that operation's place it makes the run's property fail, which shows that the property
looks at the code it claims to.

### Campaign

`phase` is the step the one orchestrator goroutine is about to take, `at` the plan position
of the loop it is in, `role` whether the launch at hand belongs to a ramp or to a cell. A
launch `<<i, role>>` names one subject process; `subject` says what became of it (booting,
serving, draining, gone). `owed` is the deferred `h.Stop`, `pid` whether the handle can
signal, `collectors` the cells whose goroutines tick, `k6` the generator. `ramped`,
`rampRate`, `rate`, `pending` are the calibrations and `cell.Load`, `depsUp` and `depsHeld`
what stands and what `cmdRun` will stop, `written`, `recorded`, `failed`, `aborted` the
outcome. `answered` and `cut` are history the properties need.

One action is one step of the code with all its error returns as disjuncts: `DepsVisit`
(`standUpDeps`, `StartDeps`), `CalibrateSkip/Refused/Ramp/Assign`, `Prepare`, `PortCheck`,
`StartSubject`, `RecordArgv`, `AwaitReady`, `StartCollectors`, `WarmUpEnds`, `MeasuredEnds`,
`RampEnds`, `PassFails`, `StopCollectors`, `StopSubject`, `WriteCell`, `CooldownEnds`,
`CooldownCancelled`, `CellReturnsError`, `RampReturns`, `RollUp`, `TearDown`. Beside them run a
subject that binds its port or dies, the watchers, the collectors and the operator. A set-up
that fails may leave its dependency standing, and so may a tear-down, which is logged and
followed by the next (`TearDown`). The variable `setup`, chosen at the start from the constant
`Setups`, says whether the subject is reached over ssh and which failures may happen, so that
one run covers campaigns with and without them; `LeakFree` names the ones in which no process
can escape its handle. Not every wait of the code has a bound. `Deaf` lists those that neither
a deadline nor the campaign's context ends, `Cancellable` those that only the context ends, and
`Hangs` is where such a wait may go on for ever; the fairness leaves these steps out. `Pause`
says whether there is a cooldown: a declared negative one is kept (`spec.go:502` replaces a
zero only), skipped (`campaign.go:430`), and with it the place where an interrupt after the
artifacts is noticed.

### SubjectHandle

What a campaign relies on when it launches a subject and what a process module has to provide:
the contract between the two sides, without the procedure of a cell and without goroutines,
pipes or sessions. `subject` is whether the subject has been started, is up, has been told to
end and not waited for (draining), or is gone; `handle` is whether its pid is still awaited,
held, or was given up (`blind`), and whether it has been stopped. `Left` is the heart of it. A
stop through a handle that holds the pid leaves the subject gone; on another machine it may
leave it draining if the way there has failed (`flaky`) or the operator has interrupted, and as
it was if the signal could not be sent. `LocalProcess` and `SshProcess` implement it as whole
systems that begin with the process started, `Campaign` implements it once for each launch, and
`StopIsTheContracts` closes the circle: every outcome the contract allows a stop is one
`Campaign` takes into account.

### LocalProcess and SshProcess

`LocalProcess` splits what `Campaign` does in one step: the process and the children it may
leave in its group, the pipe, the drains with the capture limit, the watcher (it marks
`canceled` under the mutex and then kills: two steps), the one execution of `Wait` (drain,
reap, publish) and `exec.Stop` (SIGTERM, a grace timer that races the result, SIGKILL).
`SshProcess` keeps the session and the program apart: the program may outlive the session,
a signal is a command of its own whose way there or whose answer the network may swallow,
255 is both ssh's own code and one a program may exit with, and somebody else may kill the
ssh client (`SessionSlain`).

### SeriesPipe

The generator, the reader goroutine and the caller of `K6.Run`. Opening a FIFO blocks until
the other side opens it (`BothOpen`), `Release` is `releaseSeriesPipe`, and the two waits of
the caller differ as they do in the code: only the one after a run without an error has a
timeout.

### Collector

Discrete time in sampling intervals. A reading is asked for, answered and recorded in three
steps, so that it can be slow or unanswered and the interrupt or `Stop` can fall in between;
`says` is the moment the source read its counters and `at` the stamp the code puts on it,
before the reading for a sampler and after it for a scrape. A ticker's channel holds one tick.

### Clock

Time in ticks of the runner's clock; `skew` is how far the subject's clock is ahead and may
change at any moment (`Disciplined`). An estimate is `probe` round trips: `Answered` splits
one into the way out and the way back, of any length up to `MaxDelay`, and keeps it if it is
the fastest so far (`best`, `offset`); `Unanswered` is a command that failed or printed what
`parseEpoch` refuses. `date` says whether the subject prints nanoseconds or falls back to
seconds. `OpeningEstimated`, `PassEnds` and `ClosingEstimated` are the three places of
`RunCell`; `Drift` is `driftBetween` and `ClockDrift` the gate. `truth`, `truthAtStart` and
`fastest` are history: the skew when the kept stamp was taken, and the fastest round trip.

### LoadPass

One pass of k6 and what is read from it; `kind` says whether it is a capacity ramp or a
measured pass. A step is one second of the runner's clock: `RampSecond` offers what the
stages of `Calibrate` prescribe to a `system` that sheds, refuses, fails or slows down above
its capacity, and folds the rows into the bucket of that second (`Consume` is
`Aggregator.add`); `MeasuredSecond(p)` produces a second like `p` (as usual, warming, with
slow answers, wobbling, stalled, or without rows), a sample of the CPU, which may be missed,
and a scrape. The pass starts at any tick `start` of a second and the generator begins
`delay` ticks later, so that the first and last bucket are partly filled and the rungs of a
ramp do not lie on seconds. Then one step reads the pass: `Calibrate` (`StepWindows`,
`FindKnee`, the rate chosen) or `Measure` (`selectWindow` with `wholeSeconds` and
`DetectSteady`, `FixedWindow`, `windowSubject`, `Bracketing`, `windowServer`). What the
code computes in floating point is compared in whole numbers with the divisor on the other
side, and a mean is a sum with its count. A series is a function from the ticks of its points
to their values; sums are folds of the community modules, and the beginning of a stage of the
ramp is written in closed form (`StageBegins`), so that none of it is recursive and all of it
can be reasoned about.

### Results

Four variables of the loop (`at`, `cells`, `peers`, `excluded`) and the `report`. A cell
completes with one of a set of measurements or fails; `Evidence` is what `windowSubject`,
`windowServer` and `evidence()` make of the measurement, `Evaluate` runs the seven gates
against the peers, `Report` is the roll-up, which may come early because an interrupt ends
the loop. What a gate only compares with a threshold is a truth value in the evidence
(whether the runner's machine was over its ceiling, whether less than 99% of the rate was
achieved); the pool sizes, the counts and the metric values are numbers. Medians and spreads
are computed on whole numbers without division (`TwiceMedian`, cross-multiplied
comparisons). Whether two bootstrap intervals overlap is a free choice of the model:
no property that holds depends on it.

## 3. The runs

| Run | Question | Instance | States |
|---|---|---|---|
| `campaign` | what do failures anywhere and an interrupt cost? does a subject ever outlive its launch, or answer for another one? does it end, and what is left of its dependencies? is each launch what the processes provide? | 2 scenarios with dependencies, one calibrated, 3 cells, calibration on or refused; subjects local with every failure but an unwritable `argv.json`, failing tear-downs and waits that never end, over ssh with lost pids and sessions and crashes, or over ssh with every failure and hang | 545,745 |
| `process_stop` | what do Wait and Stop report, and do they return? what do they leave to the campaign? | one child, 3 units of output, a pipe of 2, a capture of 1 | 1,048 |
| `ssh_stop` | what does a clean stop of a remote subject prove? | the network changes three times; the client may be killed | 918 |
| `pipe` | does a reported pass have all its rows? | 3 rows, a pipe of 2 | 286 |
| `collector` | are the readings complete, ordered and final, and is the bracket right? | 4 intervals, either kind | 360,407 |
| `results` | do the gates and the roll-up keep what does not belong together apart? what does a conclusion rest on? | 4 cells as 2 scenarios x 2 arms or 2 repetitions x 2 arms, interleaved with four seeds, blocked and observing; 7 measurements | 56,380 |
| `clock` | how far is the recorded offset from the truth, and is the drift gate right? | 2 probes per estimate, up to 4 ticks each way, 4 ticks to the second, skews 0, 2 and 7, a ceiling of 4 | 395,217 |
| `load_pass` | is the knee a rate the system held? is the window flat, after the warm-up, and are its CPU and server figures its own? | ticks of a tenth of a second; ramps of 3 rungs (1600 to 4800 a second, dwell 15 s, transition 1 s) against 32 systems; measured passes of 6 s with up to two disturbed seconds or missed samples, 3 fidelities of the sampler | 147,536 |
| `campaign_stale`, `pipe_hang`, `results_headroom`, `ramp_dwell` | violated: see Findings | | |

Why the bounds are enough. A campaign of three cells has a first, a middle and a last one, a
scenario with two cells (so that a rate is remembered) and one with a different one; the ramp
is a launch before them. Both scenarios have dependencies, so that the set-up of the second can
fail with the first standing. The three setups are what the properties need: in the first
nothing can leak and every tear-down works, in the second stops are lost but none is left out
(`LaunchesAreSubjects` excepts the unwritable `argv.json`), in the third everything fails and
every wait without a bound may last for ever. The hazards of a leak need one launch that leaks
and one later that meets it. One child is enough to outlive its parent; three units of output
exceed both the pipe and the capture limit. Three changes of the network lose a command,
recover and lose another. Three rows through a pipe of two make the generator block and leave
rows unread when it exits. Four intervals hold a load pass with a window inside and a tick on
either side; a hole needs two. Four cells are the least with which two arms have the two
repetitions that `MinN = 2` (three in the code, `compare.go:67`) asks for. The largest integer
is 7: of the seeds 3, 7 and -4 the second wraps when the second repetition is added, and the
third has a remainder Go leaves negative; two arms are a power of two, so that a wrapped sum
keeps their balance. The theorem about the rotation is for any number of arms, and for seeds
that do not wrap. Two probes have a faster and a slower one, in either order, and four ticks
each way exceed the second of four ticks, so that a coarse date loses more or less than the
network hides; the theorems about the clock have no such bound. Of the rungs 1600, 3200 and
4800 the capacity 1500 serves none, 3100 misses the second by just over three in a hundred,
3300 serves it and 5000 serves all; dwell and transition are the defaults of the specification.
Starting at ticks 0, 1, 5 and 9 of a second and beginning 0, 4 or 30 ticks late makes the rungs
fall on seconds, just beside them, and a whole transition away. Six seconds are the least pass
whose four whole seconds hold a window (three points, half of the pass long) that can begin at
the first of them or later; two disturbances are needed to warm up for two seconds, or to stall
with a sample missing.

`CHECK_DEADLOCK FALSE` everywhere: each of these systems stops, by exiting, by returning,
or by running out of the time a bound gives it. (`Terminates`, `StopReturns` and the other
liveness properties say that those which must stop do.)

### The properties

Type invariants are proved and not checked again by a run, and so are some invariants that
follow closely from an action but that a proof leans on or a reader looks for:
`NoNewCellAfterInterrupt` (`InterruptEndsTheLoop`), `WindsDown` (`CampaignWindsDown`),
`TruncationIsReported` (`TruncationShows`), `PidIsOurs` (`CleanStop`), `MixedReadinessShows`
(`ReadinessShows`), `CountersAgree` (`Counters`), `OrphanOnlyByTimeout` (`OrphansAreTimeouts`),
`StampsAscend`, in stamps and in what they describe (`ReadingsKeepOrder`), `CancelLeavesNobody`,
not even a child whose parent had exited (`NobodyIsLeft`), `SubjectsAccountedFor`, a subject is
alive only between its own start and its own stop (`NoSubjectEscapes`), and `KillUnblocksWait`:
once SIGKILL has been sent, `Wait` can take its next step at once, blocked neither by the program
nor by a child with the pipe open (`KillUnblocks`). TLC agreed with each on the runs' instances.

*Campaign.* `NoForeignAnswer`: what answered the probes and the load of a launch is the process
of that launch, although the code asks an address; for setups in which nothing leaks
(`LeakFree`). `RecordedUncut`: a cell cut by the interrupt never reaches the roll-up.
`NothingAbandoned`: a failing cell costs that cell alone. `OneRatePerScenario`,
`DepsStandWhileNeeded`. `DepsTornDown`: wherever the campaign ends, after its last cell, by an
interrupt, or because a set-up or a ramp failed before the first cell, what was set up is torn
down, where tear-downs work; the one exception is the dependency whose own set-up failed half
way (`Botched`), which the code leaves as it is. `Terminates`: the campaign ends, or stands for
ever in one of the waits of `Hangs`; once interrupted, only in one that is deaf to the
interrupt. No failure, no lost signal and no dead subject makes it wait anywhere else.
`SettlesInPlanOrder`: `Campaign` implements `CellLedger` under a mapping of recorded and failed
cells to entries of the ledger. `LaunchesAreSubjects`: each launch by itself takes the steps of
`SubjectHandle` and no others, so that it is never started twice, never stopped twice, and left
by its stop only as `Left` says; it excepts the setups in which `argv.json` may be unwritable,
where a launch has no stop (see Findings). `WindsDown`, proved and not run: every step of the
orchestrator lowers `Rank`, the number of steps it may still take, and nothing beside it
changes that number; a loop that ramps a scenario again, or visits a cell again, has no such
rank. It is `Terminates` for the orchestrator that does not hang, without fairness, and says
how soon.

*LocalProcess.* `CancelKillIsReported`: a process the cancelled context killed is never
reported as one that ran to its end, in every order of kill, reap and publication (the converse
does not hold, see Divergences).
`StopTellsTheTruth`, `NothingLost` (the pipe is empty when the process is reaped),
`CancelEndsRun`, `StopReturns`. `IsASubject`: the module implements `SubjectHandle`.

*SshProcess.* `CleanStopMeansGone`: a stop without an error left no program running, unless
somebody killed the ssh client, which the result says. `StopEndsUnlessKillLost`: the wait after
SIGKILL ends if that command was answered; `CancelEndsStop`. `IsASubject`: the module implements
`SubjectHandle`, with a network that has failed before as the failing way: as long as it has
not, the client was not killed and nobody has interrupted, a stop that holds a pid leaves the
program gone.

*SeriesPipe.* `SeriesIsComplete` (a pass that is reported has every row), `RunReturnsIfReleased`.

*Collector.* `SampledBeforeLoad`, `OpeningScrapePrecedes`, `BracketIsTight`,
`NoHoleUnlessReported`, `HandedOverIsFinal`, `StopEnds` (although the metrics endpoint may
never answer), `InterruptEndsThem`.

*Results.* `RotationBalances`: in any run of as many repetitions as there are arms each arm has
each position exactly once. `UsableCellsAgree`: no two usable cells of a scenario needed pools
a factor of two apart, though only the later is ever compared with the earlier.
`DecisionsHaveEvidence`: what is decided has `MinN` usable cells on both sides, counted in the
cells and not in the statistics, and a report that says whether there are regressions has such
a comparison. `RegressionsAreVisible`: a regression can be seen in the cells without medians,
bands or intervals: at least half of the arm's usable repetitions are no better than the worst
the baseline had. It is what the noise band is for, and fails if the band leaves out the
baseline's spread.

*Clock.* `OffsetIsBounded`: the estimate is wrong by no more than half of the fastest round
trip, however slow and lopsided the others were and whenever the clock was moved, a tick for
the halving, and what a date without nanoseconds hides. `DriftVerdictIsSound`: what the gate
says of the drift is true of the clocks, up to twice the recorded uncertainty.

*LoadPass.* `KneeNeverOverstated`: the knee is not above a rung the system could not serve,
to within three in a hundred, in whichever way it folds over, however late the generator
begins, and even if it recovers at a higher rate. `FlatPassIsMeasured`: an undisturbed pass
gets the window it should, at every start, phase and fidelity: all its whole seconds, except
that the first may be left out when the pass began inside a second, since the CPU then seems to
rise; and it is corroborated unless the instrument is too coarse for what the pass uses, or,
where that first second is in the window, nearly so. This is what keeps the
properties of the window from being true of no window. `NoDipInside`: no second with rows
sinks below the window's mean by more than a twentieth of the square root of the number of
seconds, and none below four fifths of it in a window of up to seventeen. `WarmUpStaysOut`:
a corroborated window begins after the warming seconds, though the throughput was flat from
the start. `CpuIsOfTheWindow`
and `QuantileIsHonest`: CPU, mean and percentile are of the time they claim to be of, and the
bound that comes with the percentile is true.

### Fairness

`Campaign`: the orchestrator keeps running except where `Hangs`, that is, unless it stands in a
wait the code puts no bound on and which does not end. Such waits are, whatever the context
does (`Deaf`): `K6.Run`, which waits for a generator without a time limit and, if that could
not be started or was killed, for a reader nobody may release (`k6.go:249`, see `pipe_hang`);
the tear-downs, whose context is never cancelled; and the sampler of a subject on another
machine, whose readings have no context (`remote.go:124`). Until the campaign's context ends
(`Cancellable`): the set-ups and the commands of `Prepare`; the start of a remote subject,
whose pid file is read by a command without a timeout of its own; and a stop over ssh, since
the second wait of `exec.Stop` (`exec.go:217`) is for a session that need not end when the
SIGKILL was lost, which is what `StopEndsUnlessKillLost` says of it. The remaining steps end by
themselves: readiness has a deadline, a local stop a grace and a SIGKILL that cannot be lost
(`StopReturns`), the cooldown a timer, and the others are computation and files.
`LocalProcess`: the goroutines run and the timer fires; nothing is assumed of the process,
which need neither exit nor heed SIGTERM. `SshProcess`: the ssh client notices the fate of its
connection (the keep-alive options) and `exec.Stop` runs. `SeriesPipe`: the reader and the
caller run; the generator may stall. `Collector`: a reading that has arrived is kept, a
cancelled scrape returns (its context reaches the HTTP client), and the loop leaves once its
context has ended: strong fairness, since `select` picks at random between a tick and the
context and cannot miss the context for ever; a sampler's source answers or fails, which is
true of `/proc` and of a local `ps` only. `Clock`, `LoadPass` and `Results` state no liveness
and assume no fairness.

## 4. The proofs

All theorems hold for every value of the constants that satisfies the named assumptions of
the modules, which TLC evaluates on each instance.

**CampaignProofs.** `Typing`. `LoopInvariant`: `LoopInv` is inductive together with `TypeOK`.
`RecordedUncut` is not inductive by itself: that a cell reaching its cooldown was not cut
depends on the interrupt being looked at after the artifacts are written; `NothingAbandoned`
needs that inside the loop exactly `1..(at - 1)` is settled and that an early end has a reason.
`InterruptedCellsStayOut`, `EveryCellAccounted`, `InterruptEndsTheLoop` follow.
`HandleInvariant`, from which `NoSubjectEscapes` and `EveryAnswerIsOwn` follow, speaks of the
setups that are `LeakFree` (local subjects, a writable `argv.json`): there a live subject is
the current launch's, with its stop registered and its pid known, from the start to the
unwinding, and so an address is answered by nobody else; `SetupStays` is the lemma that lets
the step use it. `DepsInvariant` gives `DepsStand` and `NoDepsLeft`: what stands is held by
`cmdRun` until its teardown, or is the dependency whose set-up failed, with which the loop
stopped where it was; the loop has left before the teardown, on every path. `RateInvariant`
gives `OneRate`: a remembered ramp and every cell already given its rate agree. `LedgerKept` is
the refinement of `CellLedger`: initial states map to initial states and each step to `Settle`,
`Close` or a stutter. `LaunchesKeepTheContract` is the refinement of `SubjectHandle` by each
launch. It needs `LaunchInv`: a launch about to be made, or still ahead in the plan, has not
been made, and a stop is registered exactly while a started subject awaits it; otherwise a
second launch under the same name would start a subject that is already up or gone.
`StopIsTheContracts` is the converse for the step that matters: what `Left` lets a stop leave
behind is an outcome of `Campaign`'s `Stop`. Together with `LocalSubject` and `RemoteSubject`
below it is why the one step `Stop` of `Campaign` may stand for `exec.Stop` with its
goroutines. `CampaignWindsDown` and `BoundedCampaign`: `Rank` is a natural number of at most 29
N + 2 for a plan of N cells, and every step of the orchestrator lowers it, so that with the
fairness of `FairSpec` the campaign ends; the induction over the steps of a behaviour that
makes this `Terminates` is TLC's.

**LocalProcessProofs**, **SshProcessProofs**, **SeriesPipeProofs**: `Typing` and the inductive
invariants (`ProcessInv`, `SshInv`, `PipeInv`) that say how far each goroutine can have come
when another is where it is. From the first `EndIsReported`, `OutputIsDrained`, `StopIsHonest`,
`TruncationShows` and `NobodyIsLeft`, which needs that the watcher marks `canceled` only when
it goes on to kill the group; from the others `CleanStop`, `RunsAreComplete` and
`OrphansAreTimeouts`. `KillUnblocks` is the safety half of `StopReturns` and `CancelEndsRun`,
for any number of children and any amount of output: the kill reaches the whole group, so the
pipe has no writer left and the drain no reason to block. `LocalSubject` and `RemoteSubject`
are the refinements of `SubjectHandle`. The first needs from `ProcessInv` that `exec.Stop`
returns only when the program is reaped; the second needs `WayInv`: a session that ended before
its program was cut by the network, by the interrupt or by whoever killed the client, and a
stop that waits has sent its signal, so that nothing is left draining without a cause or
without having been told.

**CollectorProofs**: `CollectorInv` is the invariant: nothing kept is from the future, a
reading under way began after every reading kept, and the goroutine has gone before the window
is looked for. From it `ReadingsKeepOrder`, `LoadIsPreceded`, `HandedOver` (an action
property), `OpeningPrecedes` and `TightBracket`. `HolesAreReported` needs its part `TickInv`:
while nothing is reported, the newest reading is no older than the tick the goroutine waits for
or has in hand, which bounds the distance between neighbours.

**ClockProofs**: `ClockInvariant` is inductive: the estimate under way is off by at most half
of its own round trip, and the opening one is kept unchanged until the drift is computed.
`Offset` and `GateIsSound` follow for any number of probes, any delays, any skews and any
width of a second; the arithmetic is in lemmas on the midpoint of a round trip and on what
rounding down to a second hides.

**ResultsProofs**: `EveryArmOncePerRepetition` and `Rotation` are about the arithmetic of
`armOrder` for any number of arms and any seed, from lemmas on division with remainder;
`Rotation` assumes that seed plus repetitions stays below the largest integer (see
Divergences for what happens otherwise), and `PlanIsBalanced` makes it an invariant.
`Typing` rests on `Planned`: every ordinal below the size of the plan has a scenario and an
arm. `PoolsAgree` and `ReadinessShows` need that the peers contain every completed cell
(`Told`), since a gate sees only its peers. `Counters`, `Evidenced` and `RegressionsShow` need
that the report is the roll-up of the cells there still are and that the loop's counter is
their number at level invalid (`Concluded`). `RegressionsShow` is about order statistics: that
the k-th smallest of any finite set of numbers exists, with fewer than k below it and at least k
not above (`OrderStatistic`, the least number with k below or at it), that they are in order, and
that medians further apart than the baseline's spread put half of the arm beyond everything the
baseline measured (`BeyondTheBand`).

**LoadPassProofs** has the theorems about one pass, for any instance that satisfies
`LoadPassAssumption`: passes and ramps of any length, any tick of a second at which the pass
begins and the sampler reads, any disturbances and any number of missed samples.

- `Invariant`: the inductive invariant `Inv` has four parts. `Typing`; `Metered`: every sample
  of the CPU and every scrape is what the counters were at the tick it carries (`Truth`), the
  samples lie one phase after a second, the newest is no older than the missed ticks allow, and
  `total` is `Counted[second]`; `Capped`: in a ramp against a system that does not queue, a
  bucket of a second throughout which it is limited holds no more requests than its capacity,
  or failures; `Settled`: what `Calibrate` or `Measure` concluded is the reading of the
  buckets, samples and scrapes there are, which the end of the pass can no longer change.
  Without `Metered` nothing connects a window with the counters, since the properties look at a
  pass that is over and the counters of its seconds are gone by then.
- `WindowHasNoDip` proves `NoDipInside`: `DetectSteady` returns only windows within
  `MaxRPSCV`, and a bound on the coefficient of variation bounds every single point (`Spread`:
  for n points, the square of one deviation times n is at most n - 1 times the sum of the
  squares of all).
- `CpuBelongsToTheWindow` proves `CpuIsOfTheWindow`. It needs that the counters never go down
  (`CounterDelta` then never sees a reset) and that the first and the last sample in a window
  are within `1 + MaxMissed` seconds of its ends (`SampledOften`): if they were not, more ticks
  were missed than the pass allows, which is counting.
- `ServerFiguresAreHonest` proves `QuantileIsHonest` for any edges of the histogram: the bounds
  `Quantile` reports are of the bucket at which the cumulative count passes the rank, and deltas
  of cumulative histograms are cumulative.
- `KneeWasServed` proves `KneeIsServed`: the knee is a rung whose whole window kept the rate,
  up to the tolerances of `Held`, in the buckets of the ramp (`HeldIsServed`), and those hold no
  more than the capacity (`Capped`). It is for systems that shed, refuse or fail and stay
  limited a second longer than the rung, and allows one in a hundred;
  `KneeNeverOverstated` also covers those that queue and those that recover just then.
- `FlatPassesAreMeasured` proves `FlatPassIsMeasured`: `selectWindow` finds the window of any
  pass of six seconds or more that nothing disturbs and in which something is answered,
  whatever it costs, at whatever tick it begins and the sampler reads. It is the counterpart
  of the theorems above, which a window that is never found would satisfy. Two lines of
  argument meet in it. The bucket of a second with rows holds the answers of the part of it
  under load (`Booked`), so the whole seconds of such a pass are a constant series, and a
  constant passes each criterion of `DetectSteady` (`ConstantIsFlat`; that there is a
  regression line at all is `Spread` once more, of the stamps). And the CPU rates are constant
  but for the first, whose interval may lie partly before the pass (`FlatRate`, floor
  arithmetic in `FirstPart`), so they contradict no window from the second whole second on,
  and agree with the chosen one unless a second of the pass uses less than ten quanta of the
  instrument, or little more (`FlatCorroboration`).

Induction over data is out of the prover's reach as a rule of inference, but most of what the
proofs need of sums and folds follows from the least counterexample: if a statement about the
subsets of a finite set fails, it fails for one of least cardinality (`FoldStep`, `Accumulates`
and the lemmas on `Sum` are obtained this way).

**Only model-checked**: all liveness (`Terminates`, `CancelEndsRun`, `StopReturns`,
`StopEndsUnlessKillLost`, `CancelEndsStop`, `RunReturnsIfReleased`, `StopEnds`,
`InterruptEndsThem`), since fairness and ENABLED are out of the prover's reach (of
`Terminates` the theorem `CampaignWindsDown`, of `StopReturns` and `CancelEndsRun` the theorem
`KillUnblocks` is what can be said without them); and two
properties of `LoadPass`. `KneeNeverOverstated` says 97 in a hundred where the judgement of a
rung allows 99, and what makes up the difference depends on the proportion of dwell and
transition; `WarmUpStaysOut` depends on how much more a warming second costs than a usual one:
with less than the tolerance of the CPU rate it may stay inside. Neither is true of every
instance, so neither is a theorem.

## 5. Findings

1. **A leaked subject answers a later cell** (`campaign_stale`). `RunCell` returns between
   starting the subject and registering its stop when `argv.json` cannot be written
   (`campaign.go:327`). While the leaked process boots it holds no port, the port check
   passes, and the next cell is measured against it.
2. **K6.Run can wait for ever** (`pipe_hang`). If the generator cannot be started before the
   reader goroutine has reached `open`, `releaseSeriesPipe` finds no reader, the reader then
   blocks, and the wait at `k6.go:249` has no timeout.
3. **A missing subject sampler silences the runner's CPU gate** (`results_headroom`).
   `windowSubject` returns before it computes the runner's utilisation when the subject has
   no samples (`campaign.go:665`).
4. **A rung is judged by seconds its dwell did not fill** (`ramp_dwell`). `StepWindows` ends a
   window an instant before the next (`knee.go:249`), but the points it selects are seconds
   stamped at their beginning. Unless the ramp began on a whole second, the last bucket of a
   dwell also holds the beginning of the next transition, or, after the last rung, is only
   partly filled. A system that serves every rung is then reported with a knee, one step low.
   `selectWindow` drops such buckets (`wholeSeconds`); `Calibrate` does not.

## 6. Divergences noted without a run

Between comments and code, or between what a number is called and what it is; met while
modelling.

Of the campaign and its processes:

- `run.go:175` says that Ctrl-C "stops after the current cell rather than in the middle of
  one"; the context it cancels is the one whose watchers kill the subject and the generator
  (`local.go:246`). `Campaign` cuts the cell, and `RecordedUncut` says it is not rolled up.
- `run.go:232` says what a campaign cut short "managed to measure" is rolled up; a cell whose
  cooldown was cancelled has its artifacts written and is dropped (`campaign.go:431`).
- A failed load pass leaves sampler and scraper running until the campaign's context ends
  (`campaign.go:369`), against `sample.go:166`. `InterruptEndsThem` is what remains true.
- Rates are labelled "scenario" or "measured" by `run.go:337`; cells use other words
  (`campaign.go:921`, `result/campaign.go:127`).
- A ramp without a knee aborts the campaign (`run.go:332`), which `calibrate.go:37` leaves open.
- Failing set-up of dependencies returns no handle, so what is half up stays (`deps.go:69`).
- A remote handle without a pid cannot be stopped: `ssh.go:397` refuses a pid that is not
  positive, `exec.Stop` returns that error at once and leaves the process; `Campaign` has it as
  a stop that does nothing.
- `awaitPID` has a deadline for its polls, but the command of each poll has none of its own.
- A negative cooldown is kept and skipped (`spec.go:502`, `campaign.go:430`): a cell the
  interrupt cut after its measured pass is then recorded. `RecordedUncut` is for campaigns with a
  cooldown (`Pause`).
- A tear-down that fails is logged and one that is not declared does nothing (`deps.go:90`);
  either leaves the dependency standing after the campaign.
- A process that exits by itself while its context is being cancelled is reported as
  cancelled (`local.go:109`, `246`), and one that exits just as the grace ends as killed
  (`exec.go:215`); the watcher may signal a group whose leader is reaped.
- A window's closing scrape is stamped after it was read, so it may describe a moment before
  the end of the window (`collect.go:89`, `208`): `OpeningScrapePrecedes` has no counterpart
  at the other end.
- `Missed` counts a late tick once and a dropped one not at all; a hole in the synchronous
  first reading, or just before Stop, is not counted; the scraper counts nothing.
- A remote source keeps the error of its first look at the machine; its readings use the
  background context (`remote.go:124`), so Stop may wait for a hung ssh session: `Deaf`.
- `Late` of `Collector` is a tick late by a whole interval, the unit of the model's time; the
  code counts one late by more than half (`sample.go:240`). A lateness between the two is not
  told apart in the model, which reports fewer holes than the code does.
- `WindowServer` of `LoadPass` has a scrape every second, each answered and stamped with the
  second it describes. That a scrape is stamped after it was read, may fail or be slow is in
  `Collector`.

Of what is measured:

- The uncertainty of an offset is half a round trip (`clock.go:62`), also for a subject whose
  `date` answers in whole seconds (`clock.go:81`): `Hidden` in `OffsetIsBounded`. That of the
  drift is the wider of the two estimates, where their errors add up. A clock that is moved
  and moved back between the estimates is not seen.
- A capacity pass is judged by the runner's clock from the moment k6 is started; what k6
  needs to begin shifts every rung early. With a dwell of 15 s that costs seconds of the rung
  before, which the knee survives (`Delays` in `load_pass`), but it is not accounted for.
- A system already queueing at the first rung is its own reference for the latency of the
  later ones, so the knee does not show it (the exception in `KneeNeverOverstated`); and a
  rung served to 97 in 100 may pass where the part of a transition stamped with it makes up
  the difference to the 99 the comment speaks of.
- A `peakRate` below 20 with the default start rate gives a first rung of 0 requests a
  second, which can never be held.
- `steady.go:107` says that a pass of 60 s is bounded to a trend of 2 % a minute; the
  conversion gives 4 %.
- The warm-up can stay inside a corroborated window when the sampler misses a tick, or when
  the first CPU rate is of an interval only partly under load: both are conditions of
  `WarmUpStaysOut`.
- `Aggregator.Frame` leaves out the seconds without a row, so a generator that froze is
  invisible to the window: `NoDipInside` speaks of seconds with rows.
- The flatness of a window is a bound on its coefficient of variation, 5 %, which one second of
  n can exceed by a twentieth of the square root of n: in a window of more than 400 seconds the
  system may stall for a whole second. The bound in `NoDipInside` is this one.
- `SubjectCPUPct` and `RunnerCPUPct` divide what was used between two samples by the length
  of the window, which is longer: `CpuIsOfTheWindow` has the bounds. `AchievedRPS` is of the
  whole pass while the CPU per request divides by the window.
- `HistogramWindow` takes a bucket that went backwards for zero where `CounterDelta` refuses
  to answer.
- `Series.Shift` has no caller: the offset that was measured is recorded and not applied.
- The host fingerprint of the evidence and of the peers is never set, so that half of the
  fingerprint gate cannot fire; `ReadyThroughout` is constant (`campaign.go:871`); a version
  mismatch is looked at only where the server's metrics were read.
- "Every delta that could be decided is inside its noise band" (`result/campaign.go:576`) is
  chosen when there are no regressions, and so also leads reports that list improvements (`:57`),
  whose deltas are outside it.
- The scenarios "inside their noise bands" of a report with regressions include those whose
  comparisons were all insufficient; "produced usable cells" (`result/campaign.go:615`)
  counts arms whose cells were all excluded.
- Excluded cells stay among the peers (`run.go:225`): one bad first cell of a scenario
  excludes every later one of it. `UsableCellsAgree` needs that they do; which of two
  disagreeing cells was the good one is not decided.
- A seed near the largest int64 wraps when the repetition is added (`plan.go:138`); unless
  the number of arms is a power of two the rotation then jumps once.
- `sanitise` may map two arm names to one directory (`plan.go:31`).
- `plan.Remaining` has no caller: a campaign is not resumed.

## 7. Not modelled

Text processing (specifications, the parsers of expositions, `/proc` and `ps`, payloads,
rendering, the report), the correlation and the bootstrap, the interpolated value inside a
histogram's bucket, the series of a sampler other than CPU, the arguments of k6, copying files
to the other machine, and the stand-ins of the tests. They are sequential and have unit tests
that reach them. Floating point is replaced by exact arithmetic, which the code's comparisons
agree with up to rounding.

Hazards no property covers. A remote source keeps the error of its first look at the machine
(`remote.go:67`): a single `sync.Once`, which a property could only restate. That an interrupt
between two cells starts no other (`run.go:225`) and that a truncated capture says so
(`exec.go:243`) are theorems only (`InterruptEndsTheLoop`, `TruncationShows`). Remote readings
without a context (`remote.go:105`) are a wait of `Hangs`; `Collector` assumes that a sampler's
source answers or fails, and without that assumption `StopEnds` is false.

## 8. Plan

Done: the cell loop with `CellLedger`; processes, and the contract `SubjectHandle` between them
and the loop; the pipe; collectors; plan, gates and roll-up; the clock; the load pass with its
ramp, window and counters; the proofs of every safety property of the modules above except
`KneeNeverOverstated` and `WarmUpStaysOut`, whose numbers belong to the instance.

Left, in order of importance:

1. `SizePool` and the headline of a cell, with the pool that grows during a pass.
2. `Put`, `Get` and `Run` over ssh, and the sampling sources on the other machine, once their
   readings have a deadline that a model could state something about.

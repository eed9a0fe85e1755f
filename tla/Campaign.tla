------------------------------ MODULE Campaign ------------------------------
(***************************************************************************)
(* `perf run`: the campaign loop of cmd/perf/run.go and the cell procedure *)
(* of internal/campaign.  One orchestrator goroutine stands up the         *)
(* dependencies, runs one capacity ramp per calibrating scenario, then     *)
(* runs every planned cell in order.  Beside it run the subjects it        *)
(* launched, the watcher goroutines that kill local processes when the     *)
(* campaign's context is cancelled, the collectors of a cell, the load     *)
(* generator, and an operator who may press Ctrl-C at any moment.          *)
(*                                                                         *)
(* A launch <<i, role>> names one subject process: the one of cell i, or   *)
(* the one of the ramp that calibrates the scenario of cell i.             *)
(*                                                                         *)
(* An operator named ...Mut, or NextCell with a suffix, is a seeded fault: *)
(* a plausible mistake in the operation it stands before.  No action uses  *)
(* one; it is there to be put in that operation's place, to see which      *)
(* property notices.                                                       *)
(***************************************************************************)
EXTENDS Integers, FiniteSets

CONSTANTS
  N,               \* number of planned cells; the plan is 1..N
  Scenarios,
  ScenarioOf,      \* the scenario each planned cell belongs to
  Calibrating,     \* scenarios whose load asks for a measured rate
  WithDeps,        \* scenarios that declare dependencies
  SkipChoices,     \* the values --no-calibrate may have
  WarmUp,          \* cell.Load.Warmup > 0
  Pause,           \* Cooldown > 0: the default replaces a zero only
  Rates,           \* rates a ramp can establish
  Setups           \* whether the subject is reached over SSH, and what may fail there

\* "teardown" is a tear-down that fails or is not declared, "hang" a wait that the code
\* puts no bound on and that does not end; every other kind is a step that fails.
FaultKinds == {"prepare", "argv", "pid", "session", "ready", "sampler", "load", "crash",
               "deps", "teardown", "knee", "artifacts", "hang"}

ASSUME CampaignAssumption ==
  /\ N \in Nat \ {0}
  /\ ScenarioOf \in [1..N -> Scenarios]
  /\ Calibrating \subseteq Scenarios /\ WithDeps \subseteq Scenarios
  /\ SkipChoices \subseteq BOOLEAN /\ WarmUp \in BOOLEAN /\ Pause \in BOOLEAN
  /\ Rates \subseteq Nat \ {0} /\ Rates # {}
  /\ \A x \in Setups : x.remote \in BOOLEAN /\ x.faults \subseteq FaultKinds

VARIABLES
  setup,      \* the one of Setups this campaign runs in
  phase,      \* what the orchestrator goroutine is about to do
  at,         \* the plan position the current loop has reached
  role,       \* "ramp" inside Calibrate, "cell" inside RunCell
  ctxDone,    \* the context signal.NotifyContext cancels
  subject,    \* what has become of the process of each launch
  owed,       \* a deferred h.Stop is registered for the current launch
  pid,        \* the current handle knows the pid to signal
  collectors, \* cells whose sampler and scraper goroutines are ticking
  k6,         \* the load generator process
  ramped,     \* scenarios with a rate in `calibrations`
  rampRate,   \* the rate each of them established
  rate,       \* the rate each cell will offer; 0 is the declared one
  pending,    \* cells whose Load.Calibrate is still set
  seen,       \* scenarios standUpDeps has visited
  depsUp,     \* scenarios whose dependencies are standing
  depsHeld,   \* scenarios whose *Deps cmdRun will stop
  written,    \* cells whose artifacts are on disk
  recorded,   \* cells in the slice the roll-up is computed from
  failed,     \* cells RunCell returned an error for
  aborted,    \* cmdRun returns before the first cell
  \* What the properties need to remember:
  answered,   \* subjects that answered the probes or the load of a launch
  cut         \* cells under way when the interrupt arrived

ctl     == <<phase, at, role>>
handle  == <<owed, pid>>
rates   == <<ramped, rampRate, rate, pending>>
deps    == <<seen, depsUp, depsHeld>>
outcome == <<written, recorded, failed, aborted>>
history == <<answered, cut>>
vars == <<setup, ctl, ctxDone, subject, handle, collectors, k6, rates, deps, outcome, history>>

Cells  == 1..N
Launch == Cells \X {"ramp", "cell"}
cur    == <<at, role>>

Loading == {"ramp", "warmup", "measured"}
InCell  == {"prepare", "portCheck", "start", "argv", "await", "collect", "warmup",
            "measured", "stopCollectors", "stop", "write", "unwind"}
Phases  == InCell \cup {"deps", "calibrate", "ramp", "cooldown", "rollup",
                        "teardown", "exited"}
Alive   == {"booting", "serving", "draining"}

Serving == {l \in Launch : subject[l] = "serving"}
Remote  == setup.remote
Can(f)  == f \in setup.faults

GoTo(p) == phase' = p /\ UNCHANGED <<at, role>>

Init ==
  /\ setup \in Setups
  /\ phase = "deps" /\ at = 1 /\ role = "ramp"
  /\ ctxDone = FALSE
  /\ subject = [l \in Launch |-> "none"]
  /\ owed = FALSE /\ pid = FALSE
  /\ collectors = {} /\ k6 = "none"
  /\ ramped = {} /\ rampRate = [s \in Scenarios |-> 0]
  /\ rate = [i \in Cells |-> 0]
  /\ pending = {i \in Cells : ScenarioOf[i] \in Calibrating}
  /\ seen = {} /\ depsUp = {} /\ depsHeld = {}
  /\ written = {} /\ recorded = {} /\ failed = {}
  /\ aborted = FALSE
  /\ answered = [l \in Launch |-> {}] /\ cut = {}

-----------------------------------------------------------------------------
\* standUpDeps and Runner.StartDeps.  A setup that fails may have left half of
\* the dependency standing, and returns no *Deps to tear down.

Abort == phase' = "teardown" /\ aborted' = TRUE

NextVisit == IF at = N THEN phase' = "calibrate" /\ at' = 1
                       ELSE phase' = phase /\ at' = at + 1

SetupFailedMut == NextVisit /\ UNCHANGED aborted
SetupFailed == Abort /\ UNCHANGED at

StartDeps(s) ==
  \/ /\ depsUp' = depsUp \cup {s} /\ depsHeld' = depsHeld \cup {s}
     /\ NextVisit
     /\ UNCHANGED aborted
  \/ /\ Can("deps") \/ ctxDone
     /\ depsUp' \in {depsUp, depsUp \cup {s}}
     /\ SetupFailed
     /\ UNCHANGED depsHeld

DepsVisit ==
  LET s == ScenarioOf[at]
  IN /\ phase = "deps"
     /\ seen' = seen \cup {s}
     /\ \/ /\ s \in seen \/ s \notin WithDeps
           /\ NextVisit
           /\ UNCHANGED <<depsUp, depsHeld, aborted>>
        \/ s \notin seen /\ s \in WithDeps /\ StartDeps(s)
     /\ UNCHANGED <<role, ctxDone, subject, handle, collectors, k6, rates, written,
                    recorded, failed, history>>

-----------------------------------------------------------------------------
\* calibrate: one ramp per scenario, then the rate it chose for each of its cells.

NextCalibration == IF at = N THEN phase' = "prepare" /\ at' = 1 /\ role' = "cell"
                             ELSE at' = at + 1 /\ UNCHANGED <<phase, role>>

NeedsRampMut(s) == TRUE
NeedsRamp(s) == s \notin ramped

CalibrateSkip ==
  /\ phase = "calibrate" /\ at \notin pending
  /\ NextCalibration
  /\ UNCHANGED <<ctxDone, subject, handle, collectors, k6, rates, deps, outcome, history>>

CalibrateRefused ==
  /\ phase = "calibrate" /\ at \in pending
  /\ TRUE \in SkipChoices /\ ramped = {}
  /\ Abort
  /\ UNCHANGED <<at, role, ctxDone, subject, handle, collectors, k6, rates, deps,
                 written, recorded, failed, history>>

CalibrateRamp ==
  /\ phase = "calibrate" /\ at \in pending /\ FALSE \in SkipChoices
  /\ NeedsRamp(ScenarioOf[at])
  /\ GoTo("prepare")
  /\ UNCHANGED <<ctxDone, subject, handle, collectors, k6, rates, deps, outcome, history>>

CalibrateAssign ==
  LET s == ScenarioOf[at]
  IN /\ phase = "calibrate" /\ at \in pending /\ s \in ramped
     /\ IF rampRate[s] = 0
          THEN Abort /\ UNCHANGED <<at, role, rate, pending>>
          ELSE /\ rate' = [rate EXCEPT ![at] = rampRate[s]]
               /\ pending' = pending \ {at}
               /\ IF ctxDone THEN Abort /\ UNCHANGED <<at, role>>
                             ELSE NextCalibration /\ UNCHANGED aborted
     /\ UNCHANGED <<ctxDone, subject, handle, collectors, k6, ramped, rampRate, deps,
                    written, recorded, failed, history>>

-----------------------------------------------------------------------------
\* The steps RunCell and Calibrate share: stage and probe, refuse an occupied
\* port, start, and poll until something answers.  An error returns through the
\* deferred calls.

Fail == GoTo("unwind")

Prepare ==
  /\ phase = "prepare"
  /\ \/ GoTo("portCheck")
     \/ (Can("prepare") \/ ctxDone) /\ Fail
  /\ UNCHANGED <<ctxDone, subject, handle, collectors, k6, rates, deps, outcome, history>>

\* Only a listener is seen: a subject still booting holds no port yet, and one
\* that drains may have closed it.
PortCheck ==
  /\ phase = "portCheck"
  /\ \/ Serving = {} /\ GoTo("start")
     \/ (\E l \in Launch : subject[l] \in {"serving", "draining"}) /\ Fail
  /\ UNCHANGED <<ctxDone, subject, handle, collectors, k6, rates, deps, outcome, history>>

\* subject.Start.  Calibrate defers h.Stop in the next statement; RunCell writes
\* argv.json first.  Over SSH the pid may never be read (awaitPID).
StartSubject ==
  /\ phase = "start"
  /\ \/ /\ subject' = [subject EXCEPT ![cur] = "booting"]
        /\ pid' \in IF Remote /\ (Can("pid") \/ ctxDone) THEN BOOLEAN ELSE {TRUE}
        /\ owed' = (role = "ramp")
        /\ GoTo(IF role = "ramp" THEN "await" ELSE "argv")
     \/ Can("prepare") /\ Fail /\ UNCHANGED <<subject, handle>>
  /\ UNCHANGED <<ctxDone, collectors, k6, rates, deps, outcome, history>>

RecordArgv ==
  /\ phase = "argv"
  /\ \/ GoTo("await") /\ owed' = TRUE
     \/ Can("argv") /\ Fail /\ UNCHANGED owed
  /\ UNCHANGED <<ctxDone, subject, pid, collectors, k6, rates, deps, outcome, history>>

\* AwaitReady asks an address, not a process: whoever serves there answers.
\* A ramp starts its load here; a cell starts its collectors first.
StartRamp == GoTo("ramp") /\ k6' = "running"

ReadyTimesOutMut == ctxDone
ReadyTimesOut == Serving = {} \/ ctxDone \/ Can("ready")

AwaitReady ==
  /\ phase = "await"
  /\ \/ /\ Serving # {} /\ ~ctxDone
        /\ answered' = [answered EXCEPT ![cur] = @ \cup Serving]
        /\ IF role = "ramp" THEN StartRamp
                            ELSE GoTo("collect") /\ UNCHANGED k6
     \/ ReadyTimesOut /\ Fail /\ UNCHANGED <<answered, k6>>
  /\ UNCHANGED <<ctxDone, subject, handle, collectors, rates, deps, outcome, cut>>

StartCollectors ==
  /\ phase = "collect"
  /\ \/ collectors' = collectors \cup {at}
     \/ Can("sampler") /\ UNCHANGED collectors
  /\ GoTo(IF WarmUp THEN "warmup" ELSE "measured") /\ k6' = "running"
  /\ answered' = [answered EXCEPT ![cur] = @ \cup Serving]
  /\ UNCHANGED <<ctxDone, subject, handle, rates, deps, outcome, cut>>

-----------------------------------------------------------------------------
\* K6.Run.  The watcher of a cancelled context may come too late to mark a
\* generator that has already exited, so either outcome is possible then.

PassFails ==
  /\ phase \in Loading
  /\ k6 = "killed" \/ ctxDone \/ Can("load")
  /\ k6' = "none" /\ Fail
  /\ UNCHANGED <<ctxDone, subject, handle, collectors, rates, deps, outcome, history>>

WarmUpEnds ==
  /\ phase = "warmup" /\ k6 = "running"
  /\ GoTo("measured")
  /\ answered' = [answered EXCEPT ![cur] = @ \cup Serving]
  /\ UNCHANGED <<ctxDone, subject, handle, collectors, k6, rates, deps, outcome, cut>>

MeasuredEnds ==
  /\ phase = "measured" /\ k6 = "running"
  /\ k6' = "none" /\ GoTo("stopCollectors")
  /\ UNCHANGED <<ctxDone, subject, handle, collectors, rates, deps, outcome, history>>

\* FindKnee chooses the rate, zero when the ramp held none; the ramp's subject is
\* stopped by the deferred call.
RampEnds ==
  LET s == ScenarioOf[at]
  IN /\ phase = "ramp" /\ k6 = "running"
     /\ k6' = "none" /\ GoTo("unwind")
     /\ \/ \E r \in Rates \cup (IF Can("knee") THEN {0} ELSE {}) :
             /\ ramped' = ramped \cup {s}
             /\ rampRate' = [rampRate EXCEPT ![s] = r]
        \/ Can("artifacts") /\ UNCHANGED <<ramped, rampRate>>
     /\ UNCHANGED <<ctxDone, subject, handle, collectors, rate, pending, deps, outcome, history>>

-----------------------------------------------------------------------------
\* Ending a cell.

\* The samplers and the scraper stop before the subject does.
StopCollectors ==
  /\ phase = "stopCollectors"
  /\ collectors' = collectors \ {at}
  /\ GoTo("stop")
  /\ UNCHANGED <<ctxDone, subject, handle, k6, rates, deps, outcome, history>>

\* exec.Stop on the current handle.  When the signal cannot be delivered (no pid, or no
\* second session to send it through) it returns at once and leaves the process alone.
\* Locally it returns when the process is reaped.  Over SSH it returns when the session
\* ends, which a lost or killed session does before the remote process has drained.
StopMut == owed' = FALSE /\ UNCHANGED subject
Stop ==
  /\ owed' = FALSE
  /\ \/ pid /\ subject' = [subject EXCEPT ![cur] = "gone"]
     \/ /\ pid /\ Remote /\ subject[cur] \in Alive
        /\ Can("session") \/ ctxDone
        /\ subject' = [subject EXCEPT ![cur] = "draining"]
     \/ /\ ~pid \/ (Remote /\ Can("session"))
        /\ UNCHANGED subject

StopSubject ==
  /\ phase = "stop" /\ Stop /\ GoTo("write")
  /\ UNCHANGED <<ctxDone, pid, collectors, k6, rates, deps, outcome, history>>

\* Windowing and gating read; then the artifacts are written and the cell cools
\* down.  A cancelled context ends the cooldown, where there is one, with its own error.
AfterWriteMut == "cooldown"
AfterWrite == IF Pause /\ ctxDone THEN "unwind" ELSE "cooldown"

WriteCell ==
  /\ phase = "write"
  /\ \/ /\ written' = written \cup {at}
        /\ GoTo(AfterWrite)
     \/ Can("artifacts") /\ Fail /\ UNCHANGED written
  /\ UNCHANGED <<ctxDone, subject, handle, collectors, k6, rates, deps, recorded, failed,
                 aborted, history>>

NextCellShort == IF ctxDone \/ at >= N - 1
                   THEN phase' = "rollup" /\ UNCHANGED <<at, role>>
                   ELSE phase' = "prepare" /\ at' = at + 1 /\ UNCHANGED role
NextCellSkips == IF ctxDone \/ at + 1 >= N
                   THEN phase' = "rollup" /\ UNCHANGED <<at, role>>
                   ELSE phase' = "prepare" /\ at' = at + 2 /\ UNCHANGED role
NextCell == IF ctxDone \/ at = N
              THEN phase' = "rollup" /\ UNCHANGED <<at, role>>
              ELSE phase' = "prepare" /\ at' = at + 1 /\ UNCHANGED role

CooldownEnds ==
  /\ phase = "cooldown"
  /\ recorded' = recorded \cup {at}
  /\ NextCell
  /\ UNCHANGED <<ctxDone, subject, handle, collectors, k6, rates, deps, written, failed,
                 aborted, history>>

CooldownCancelled ==
  /\ phase = "cooldown" /\ Pause /\ ctxDone /\ Fail
  /\ UNCHANGED <<ctxDone, subject, handle, collectors, k6, rates, deps, outcome, history>>

\* The deferred calls of a launch run, and its caller sees the error: cmdRun logs
\* a failed cell and goes on, unless the context is done.
CellReturnsError ==
  /\ phase = "unwind" /\ role = "cell"
  /\ IF owed THEN Stop ELSE UNCHANGED <<owed, subject>>
  /\ failed' = failed \cup {at}
  /\ NextCell
  /\ UNCHANGED <<ctxDone, pid, collectors, k6, rates, deps, written, recorded,
                 aborted, history>>

RampReturns ==
  /\ phase = "unwind" /\ role = "ramp"
  /\ IF owed THEN Stop ELSE UNCHANGED <<owed, subject>>
  /\ IF ScenarioOf[at] \in ramped
       THEN phase' = "calibrate" /\ UNCHANGED aborted
       ELSE Abort
  /\ UNCHANGED <<at, role, ctxDone, pid, collectors, k6, rates, deps, written, recorded,
                 failed, history>>

-----------------------------------------------------------------------------
\* Ending the campaign: the roll-up of what was recorded, then the deferred
\* teardown, which ignores the cancellation.  A tear-down that fails is logged and the
\* next one goes ahead; whether it leaves the dependency standing is its own affair.

RollUp ==
  /\ phase = "rollup" /\ GoTo("teardown")
  /\ UNCHANGED <<ctxDone, subject, handle, collectors, k6, rates, deps, outcome, history>>

TornDownMut == IF ctxDone THEN {} ELSE depsHeld
TornDown == depsHeld

TearDown ==
  /\ phase = "teardown" /\ GoTo("exited")
  /\ \E failing \in SUBSET (IF Can("teardown") THEN TornDown ELSE {}) :
       depsUp' = depsUp \ (TornDown \ failing)
  /\ collectors' = {}
  /\ UNCHANGED <<ctxDone, subject, handle, k6, rates, seen, depsHeld, outcome, history>>

-----------------------------------------------------------------------------
\* Everything that runs beside the orchestrator.

Interrupt ==
  /\ phase # "exited" /\ ~ctxDone
  /\ ctxDone' = TRUE
  /\ cut' = IF role = "cell" /\ phase \in InCell THEN cut \cup {at} ELSE cut
  /\ UNCHANGED <<ctl, subject, handle, collectors, k6, rates, deps, outcome, answered>>

\* The subject binds its port, or exits because another process holds it.
Boot(l) ==
  /\ subject[l] = "booting"
  /\ subject' = [subject EXCEPT ![l] = IF Serving = {} THEN "serving" ELSE "gone"]
  /\ answered' = [answered EXCEPT ![cur] = @ \cup (IF phase \in Loading /\ Serving = {}
                                                   THEN {l} ELSE {})]
  /\ UNCHANGED <<ctl, ctxDone, handle, collectors, k6, rates, deps, outcome, cut>>

SubjectDies(l) ==
  /\ subject[l] \in Alive
  /\ Can("crash") \/ subject[l] = "draining"
  /\ subject' = [subject EXCEPT ![l] = "gone"]
  /\ UNCHANGED <<ctl, ctxDone, handle, collectors, k6, rates, deps, outcome, history>>

\* localProcess.watch: SIGKILL to the group when the context is done.  A remote
\* subject is not in that group; only its ssh client is.
KillSubject(l) ==
  /\ ctxDone /\ ~Remote /\ subject[l] \in Alive /\ phase # "exited"
  /\ subject' = [subject EXCEPT ![l] = "gone"]
  /\ UNCHANGED <<ctl, ctxDone, handle, collectors, k6, rates, deps, outcome, history>>

KillLoad ==
  /\ ctxDone /\ k6 = "running"
  /\ k6' = "killed"
  /\ UNCHANGED <<ctl, ctxDone, subject, handle, collectors, rates, deps, outcome, history>>

\* A collector's loop sees the cancelled context and returns.
CollectorsSeeCancel(c) ==
  /\ ctxDone /\ c \in collectors
  /\ collectors' = collectors \ {c}
  /\ UNCHANGED <<ctl, ctxDone, subject, handle, k6, rates, deps, outcome, history>>

-----------------------------------------------------------------------------
Drive ==
  \/ DepsVisit
  \/ CalibrateSkip \/ CalibrateRefused \/ CalibrateRamp \/ CalibrateAssign
  \/ Prepare \/ PortCheck \/ StartSubject \/ RecordArgv \/ AwaitReady \/ StartCollectors
  \/ PassFails \/ WarmUpEnds \/ MeasuredEnds \/ RampEnds
  \/ StopCollectors \/ StopSubject \/ WriteCell \/ CooldownEnds \/ CooldownCancelled
  \/ CellReturnsError \/ RampReturns
  \/ RollUp \/ TearDown

Beside ==
  \/ \E l \in Launch : Boot(l) \/ SubjectDies(l) \/ KillSubject(l)
  \/ KillLoad
  \/ \E c \in Cells : CollectorsSeeCancel(c)

Next == (Drive \/ Beside \/ Interrupt) /\ UNCHANGED setup

Spec == Init /\ [][Next]_vars

\* The waits that may last for ever.  K6.Run waits for a generator that has no time limit,
\* and for its rows without looking at the context; a tear-down gets a context that is never
\* cancelled; a reading on another machine has no context, and starting or stopping its
\* sampler waits for one.  Other commands, on the way to a subject or reading its pid, run until they end or
\* the campaign's context does; so does a stop over ssh, which after SIGKILL waits for a
\* session that may not end.
Deaf ==
  \/ phase \in Loading \cup {"teardown"}
  \/ Remote /\ phase \in {"collect", "stopCollectors"}

Cancellable ==
  \/ phase \in {"deps", "prepare"}
  \/ Remote /\ (phase \in {"start", "stop"} \/ (phase = "unwind" /\ owed))

Hangs == Can("hang") /\ (Deaf \/ (Cancellable /\ ~ctxDone))

\* The orchestrator takes its next step unless it stands in one of those waits: the others
\* end by themselves (the ready deadline, a local stop, the cooldown).
FairSpec == Spec /\ WF_vars(Drive /\ ~Hangs /\ UNCHANGED setup)

-----------------------------------------------------------------------------
(***************************************************************************)
(* Properties.                                                             *)
(***************************************************************************)

\* Every variable stays in its range.
TypeOK ==
  /\ setup \in Setups
  /\ phase \in Phases /\ at \in Cells /\ role \in {"ramp", "cell"}
  /\ ctxDone \in BOOLEAN /\ owed \in BOOLEAN /\ pid \in BOOLEAN
  /\ subject \in [Launch -> Alive \cup {"none", "gone"}]
  /\ collectors \subseteq Cells
  /\ k6 \in {"none", "running", "killed"}
  /\ ramped \subseteq Scenarios /\ rampRate \in [Scenarios -> Rates \cup {0}]
  /\ rate \in [Cells -> Rates \cup {0}] /\ pending \subseteq Cells
  /\ seen \subseteq Scenarios /\ depsUp \subseteq Scenarios /\ depsHeld \subseteq Scenarios
  /\ written \subseteq Cells /\ recorded \subseteq Cells /\ failed \subseteq Cells
  /\ aborted \in BOOLEAN
  /\ answered \in [Launch -> SUBSET Launch]
  /\ cut \subseteq Cells

\* Phases in which the current launch has a process the code still has to stop.
Holding == {"argv", "await", "collect", "stopCollectors", "stop"} \cup Loading

\* No subject escapes its handle: the code runs it on its own machine, where a pid is
\* always known and a signal always arrives, and the file written between the start and
\* the deferred stop can be written.
LeakFree == ~Remote /\ ~Can("argv")

\* A subject is alive only between its own start and its own stop, so two of them
\* never share the machine and none outlives the campaign.
SubjectsAccountedFor ==
  LeakFree => \A l \in Launch :
    subject[l] \in Alive => l = cur /\ phase \in Holding \cup {"unwind"}

\* What answers the readiness probe, the load and the scrapes of a launch is the
\* process of that launch: no cell is a measurement of another cell's runtime.
NoForeignAnswer == LeakFree => \A l \in Launch : answered[l] \subseteq {l}

\* A cell that was still being measured when the campaign was interrupted never
\* reaches the roll-up: it is the cooldown that notices.
RecordedUncut == Pause => recorded \cap cut = {}

Begun == {i \in Cells : subject[<<i, "cell">>] # "none"}

\* Every cell of a scenario that starts is offered the rate its first one was
\* offered, and a scenario that asked for a measured rate never runs without one.
OneRatePerScenario ==
  \A i, j \in Begun :
    ScenarioOf[i] = ScenarioOf[j] =>
      /\ rate[i] = rate[j]
      /\ rate[i] # 0 <=> ScenarioOf[i] \in Calibrating

\* A subject never runs without the dependencies of its scenario.
DepsStandWhileNeeded ==
  \A l \in Launch : subject[l] \in Alive /\ phase # "exited"
                      => ScenarioOf[l[1]] \in depsUp \cup (Scenarios \ WithDeps)

\* However a campaign ends, by itself, by an interrupt, or because something before the
\* first cell failed, no dependency is left standing where tear-downs work, but for the one
\* whose own set-up failed half way: those set up before it are torn down.
Botched == IF aborted THEN {ScenarioOf[at]} \ depsHeld ELSE {}
DepsTornDown == phase = "exited" /\ ~Can("teardown") => depsUp \subseteq Botched

\* A failing cell costs that cell alone: without an interrupt every planned cell is
\* either recorded or failed, and never both.
NothingAbandoned ==
  /\ recorded \cap failed = {}
  /\ phase = "exited" /\ ~aborted /\ ~ctxDone => recorded \cup failed = Cells

\* Once the operator interrupts, the cell loop does not move on to another cell.
NoNewCellAfterInterrupt == [][ctxDone /\ role = "cell" => at' = at]_vars

\* The campaign keeps the promise of CellLedger: cells are settled in plan order, once
\* each, and none after the loop has ended.
Ledger == INSTANCE CellLedger WITH
  entry  <- [i \in Cells |-> IF i \in recorded THEN "result"
                             ELSE IF i \in failed THEN "failure" ELSE "open"],
  closed <- phase \in {"rollup", "teardown", "exited"}

SettlesInPlanOrder == Ledger!Spec

\* Every launch is a subject the way LocalProcess and SshProcess are one (SubjectHandle): it
\* is started once, stopped once, and left as its stop may leave it.  A launch whose stop is
\* never registered is not; see LeakFree.
Held(l) == l = cur /\ (owed \/ phase = "argv")
Handle(l) == INSTANCE SubjectHandle WITH
  remote <- Remote, flaky <- Can("session"),
  subject <- IF subject[l] \in {"booting", "serving"} THEN "up" ELSE subject[l],
  handle <- IF subject[l] = "none" THEN "none"
            ELSE IF Held(l) THEN IF pid THEN "held" ELSE "blind"
            ELSE "stopped"

LaunchesAreSubjects ==
  [][~Can("argv") => \A l \in Launch : Handle(l)!Next \/ UNCHANGED Handle(l)!hvars]_vars

\* Why RecordedUncut, NothingAbandoned, NoNewCellAfterInterrupt and SettlesInPlanOrder
\* hold: before the cell loop nothing is settled; inside it exactly the cells before
\* `at` are; an early end has a reason; and a cell that reached its cooldown was not
\* cut short (an interrupt during the cooldown spares it).
LoopInv ==
  /\ phase \in {"deps", "calibrate", "ramp"} => role = "ramp"
  /\ phase \in {"argv", "collect", "warmup", "measured", "stopCollectors", "stop",
                "write", "cooldown", "rollup"} => role = "cell"
  /\ role = "ramp" => recorded = {} /\ failed = {} /\ cut = {}
  /\ role = "cell" /\ phase \in InCell \cup {"cooldown"}
       => recorded \cup failed = 1..(at - 1)
  /\ phase \in {"rollup", "teardown", "exited"} /\ ~aborted /\ ~ctxDone
       => recorded \cup failed = Cells
  /\ recorded \cap failed = {}
  /\ aborted => phase \in {"teardown", "exited"}
  /\ cut # {} => ctxDone
  /\ phase = "cooldown" /\ Pause => at \notin cut
  /\ RecordedUncut

\* Why SubjectsAccountedFor and NoForeignAnswer hold: a live subject is the current
\* launch's, with its stop still to come.
HandleInv ==
  /\ SubjectsAccountedFor
  /\ NoForeignAnswer
  /\ LeakFree =>
       /\ phase \in Holding => pid
       /\ phase \in Holding \ {"argv"} => owed
       /\ phase = "unwind" /\ subject[cur] \in Alive => owed /\ pid

\* Why DepsStandWhileNeeded and DepsTornDown hold: the cell of every scenario visited so
\* far has its dependencies standing, all have been visited before anything is started,
\* and what stands is what the teardown will stop, or the one whose setup failed.
Stand(i) == ScenarioOf[i] \in WithDeps => ScenarioOf[i] \in depsUp
DepsInv ==
  /\ phase = "deps" =>
       /\ \A l \in Launch : subject[l] = "none"
       /\ \A s \in seen \cap WithDeps : s \in depsUp
       /\ \A i \in 1..(at - 1) : Stand(i)
  /\ phase # "exited" /\ (\E l \in Launch : subject[l] # "none")
       => \A i \in Cells : Stand(i)
  /\ phase \notin {"deps", "teardown", "exited"} => \A i \in Cells : Stand(i)
  /\ phase # "exited" => depsUp \subseteq depsHeld \cup Botched
  /\ DepsTornDown

\* Why OneRatePerScenario holds: a cell awaits its rate until it is given the one its
\* scenario's only ramp established, and no cell begins before every one has been given.
RateInv ==
  /\ \A i \in Cells :
       /\ i \in pending <=> ScenarioOf[i] \in Calibrating /\ rate[i] = 0
       /\ rate[i] # 0 => /\ ScenarioOf[i] \in Calibrating \cap ramped
                         /\ rate[i] = rampRate[ScenarioOf[i]]
  /\ role = "ramp" /\ phase \in InCell \cup {"calibrate", "ramp"}
       => \A i \in 1..(at - 1) : i \notin pending
  /\ role = "ramp" /\ phase \in (InCell \ {"unwind"}) \cup {"ramp"}
       => ScenarioOf[at] \notin ramped
  /\ role = "cell" => pending = {}
  /\ role = "ramp" => Begun = {}

\* Why LaunchesAreSubjects holds: a launch that is about to be made, or still ahead, has not
\* been made, and a stop is registered exactly while a subject that was started awaits it.
LaunchInv ==
  /\ phase \in {"prepare", "portCheck", "start"} => subject[cur] = "none"
  /\ phase = "calibrate" /\ ScenarioOf[at] \notin ramped => subject[cur] = "none"
  /\ \A i \in Cells : i > at => subject[<<i, role>>] = "none"
  /\ owed \/ phase = "argv" => subject[cur] # "none"
  /\ phase \in Holding \ {"argv"} => owed
  /\ owed => phase \in (Holding \ {"argv"}) \cup {"unwind"}

\* The steps the orchestrator may still take: at most 13 to the end of a launch, one more to
\* begin a ramp, one for every rate given out and one for every visit.
Ahead(p) ==
  CASE p = "unwind" -> 1 [] p = "cooldown" -> 2 [] p = "write" -> 3 [] p = "stop" -> 4
    [] p = "stopCollectors" -> 5 [] p = "measured" -> 6 [] p = "warmup" -> 7
    [] p \in {"collect", "ramp"} -> 8 [] p = "await" -> 9 [] p = "argv" -> 10
    [] p = "start" -> 11 [] p = "portCheck" -> 12 [] OTHER -> 13

CellSteps(i) == 2 + 13 * (N - i)
RampSteps(i) == 3 + 13 * N + 15 * (N - i)

StepsLeft(p, i, r, done) ==
  CASE p = "exited" -> 0
    [] p = "teardown" -> 1
    [] p = "rollup" -> 2
    [] p = "deps" -> 3 + 28 * N + (N - i)
    [] p = "calibrate" -> RampSteps(i) + (IF done THEN 0 ELSE 14)
    [] OTHER -> Ahead(p) + (IF r = "cell" THEN CellSteps(i) ELSE RampSteps(i))

Rank == StepsLeft(phase, at, role, ScenarioOf[at] \in ramped)

\* The campaign cannot go round in circles, whatever fails and whenever it is interrupted:
\* every step of the orchestrator brings the end of the campaign nearer, and nothing that
\* runs beside it puts the end off.  No scenario is ramped twice, and no cell is run twice.
WindsDown == [][IF Drive THEN Rank' < Rank ELSE Rank' = Rank]_vars

\* The campaign ends, whatever fails and whenever it is interrupted, or stands for ever in
\* one of the waits without a bound; after an interrupt only the ones deaf to it are left.
Terminates == <>(phase = "exited") \/ <>[]Hangs
=============================================================================

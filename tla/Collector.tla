------------------------------ MODULE Collector ------------------------------
(***************************************************************************)
(* One of the collectors that run beside the load passes of a cell: a      *)
(* sampler (agent.Sampler) or the scraper (collect.PromScraper), with the  *)
(* part of campaign.RunCell that starts and stops it, and the pair of      *)
(* scrapes Scrapes.Bracketing picks for a window chosen afterwards.  The   *)
(* collectors share nothing: the time RunCell spends on the others passes  *)
(* between its steps here.                                                 *)
(*                                                                         *)
(* Time is discrete and counted in sampling intervals.  What a source      *)
(* answers is the moment its counters were read.                           *)
(*                                                                         *)
(* An operator named ...Mut is a seeded fault in the operation it stands   *)
(* before; no action uses it.                                              *)
(***************************************************************************)
EXTENDS Integers, Sequences

CONSTANTS
  Kinds,     \* the kinds of collector considered
  ErrCap,    \* how many errors a collector keeps
  MaxTime    \* bound: intervals

ASSUME CollectorAssumption ==
  Kinds \subseteq {"sampler", "scraper"} /\ ErrCap \in Nat \ {0} /\ MaxTime \in Nat

None == -1  \* no time
Times == 0..MaxTime

VARIABLES
  kind,
  now,
  ctxDone,
  cell,      \* how far RunCell has come
  from, to,  \* when the load passes began and ended
  loop,      \* what the collector is doing
  due,       \* the tick waiting in its ticker's channel
  asked, answer,  \* the reading under way: when it began, when the counters were read
  got,       \* the readings kept, each with its time stamp
  errs, missed,
  canceled,  \* Stop has been called
  window, bracket

runcell == <<cell, from, to, canceled, window, bracket>>
reading == <<asked, answer>>
counts  == <<errs, missed>>
vars == <<kind, now, ctxDone, runcell, loop, due, reading, got, counts>>

Init ==
  /\ kind \in Kinds
  /\ now = 0 /\ ctxDone = FALSE
  /\ cell = "starting" /\ from = None /\ to = None
  /\ loop = "off" /\ due = None /\ asked = None /\ answer = None
  /\ got = << >> /\ errs = 0 /\ missed = 0
  /\ canceled = FALSE
  /\ window = <<None, None>> /\ bracket = << >>

-----------------------------------------------------------------------------
\* A ticker's channel holds one tick; those that find it full are lost.
Elapse ==
  /\ now < MaxTime /\ now' = now + 1
  /\ due' = IF loop \in {"idle", "asked"} /\ due = None THEN now + 1 ELSE due
  /\ UNCHANGED <<kind, ctxDone, runcell, loop, reading, got, counts>>

Interrupt ==
  /\ ~ctxDone /\ ctxDone' = TRUE
  /\ UNCHANGED <<kind, now, runcell, loop, due, reading, got, counts>>

CancelledMut == canceled
Cancelled == canceled \/ ctxDone

-----------------------------------------------------------------------------
\* One reading: tick.

Ask(state) == loop' = state /\ asked' = now /\ UNCHANGED answer

GoIdle == loop' = "idle" /\ asked' = None /\ answer' = None

Asking == loop \in {"first", "asked"}

Answered ==
  /\ Asking /\ answer = None /\ answer' = now
  /\ UNCHANGED <<kind, now, ctxDone, runcell, loop, due, asked, got, counts>>

\* A sampler's reading is stamped when it is asked for, a scrape when it has arrived.
StampMut == asked
Stamp == IF kind = "scraper" THEN now ELSE asked

Keep(seq, r) == Append(seq, r)

Recorded ==
  /\ Asking /\ answer # None
  /\ got' = Keep(got, [at |-> Stamp, says |-> answer])
  /\ GoIdle
  /\ UNCHANGED <<kind, now, ctxDone, runcell, due, counts>>

Count == IF errs < ErrCap THEN errs + 1 ELSE errs

Failed ==
  /\ errs' = Count /\ GoIdle
  /\ UNCHANGED <<kind, now, ctxDone, runcell, due, got, missed>>

SourceFails == Asking /\ Failed

\* A scrape carries the context of its scraper, a sampler's reading carries none.
AbortableMut == FALSE
Abortable == kind = "scraper"

ReadingAborted == Asking /\ Abortable /\ Cancelled /\ Failed

-----------------------------------------------------------------------------
\* The goroutine: select over the ticker and the context, in no order if both are ready.

\* Only a sampler counts the ticks it serves late.
LateMut == FALSE
Late == kind = "sampler" /\ due < now

Tick ==
  /\ loop = "idle" /\ due # None
  /\ missed' = IF Late THEN missed + 1 ELSE missed
  /\ due' = None
  /\ Ask("asked")
  /\ UNCHANGED <<kind, now, ctxDone, runcell, got, errs>>

LoopEnds ==
  /\ loop = "idle" /\ Cancelled
  /\ loop' = "ended"
  /\ UNCHANGED <<kind, now, ctxDone, runcell, due, reading, got, counts>>

-----------------------------------------------------------------------------
\* RunCell.  The first reading is taken before Start returns.

StartCollector ==
  /\ cell = "starting" /\ loop = "off" /\ Ask("first")
  /\ UNCHANGED <<kind, now, ctxDone, runcell, due, got, counts>>

\* No pid, no /proc, no admin port, no metrics, or the machine's facts cannot be read.
NoCollector ==
  /\ cell = "starting" /\ loop = "off" /\ loop' = "absent"
  /\ UNCHANGED <<kind, now, ctxDone, runcell, due, reading, got, counts>>

StartedMut == loop # "off"
Started == loop \notin {"off", "first"}

LoadBegins ==
  /\ cell = "starting" /\ Started
  /\ cell' = "loading" /\ from' = now
  /\ UNCHANGED <<kind, now, ctxDone, to, canceled, window, bracket>>
  /\ UNCHANGED <<loop, due, reading, got, counts>>

LoadEnds ==
  /\ cell = "loading" /\ cell' = "stopping" /\ to' = now
  /\ UNCHANGED <<kind, now, ctxDone, from, canceled, window, bracket>>
  /\ UNCHANGED <<loop, due, reading, got, counts>>

\* RunCell returns; nobody stops the collector, which keeps reading until the context of
\* the campaign ends.
LoadFails ==
  /\ cell = "loading" /\ cell' = "failed"
  /\ UNCHANGED <<kind, now, ctxDone, from, to, canceled, window, bracket>>
  /\ UNCHANGED <<loop, due, reading, got, counts>>

\* Stop, which waits for the goroutine.
StopCollector ==
  /\ cell = "stopping" /\ ~canceled /\ canceled' = TRUE
  /\ UNCHANGED <<kind, now, ctxDone, cell, from, to, window, bracket>>
  /\ UNCHANGED <<loop, due, reading, got, counts>>

LoopOverMut == TRUE
LoopOver == loop \in {"ended", "absent"}

Stopped ==
  /\ cell = "stopping" /\ canceled /\ LoopOver
  /\ cell' = "stopped"
  /\ UNCHANGED <<kind, now, ctxDone, from, to, canceled, window, bracket>>
  /\ UNCHANGED <<loop, due, reading, got, counts>>

-----------------------------------------------------------------------------
\* Bracketing: the last scrape at or before a and the first at or after b.

LatestMut(i, S) == i \in S /\ \A j \in S : i <= j
Latest(i, S)    == i \in S /\ \A j \in S : j <= i
Earliest(i, S)  == i \in S /\ \A j \in S : i <= j

Brackets(a, b) ==
  LET Index == 1..Len(got) IN
  {p \in Index \X Index :
     /\ Latest(p[1], {i \in Index : got[i].at <= a})
     /\ Earliest(p[2], {i \in Index : got[i].at >= b})
     /\ p[1] < p[2]}

\* The window lies inside the load passes: the two seconds only partly filled are
\* dropped before it is looked for.
ChooseWindow ==
  /\ cell = "stopped" /\ cell' = "windowed"
  /\ \E a, b \in Times :
       /\ from < a /\ a < b /\ b < to
       /\ window' = <<a, b>>
       /\ \/ kind = "scraper" /\ bracket' \in Brackets(a, b)
          \/ (kind = "sampler" \/ Brackets(a, b) = {}) /\ UNCHANGED bracket
  /\ UNCHANGED <<kind, now, ctxDone, from, to, canceled, loop, due, reading, got, counts>>

\* No interval of the pass is flat enough, or it is too short to hold one.
NoWindow ==
  /\ cell = "stopped" /\ cell' = "windowed"
  /\ UNCHANGED <<kind, now, ctxDone, from, to, canceled, window, bracket>>
  /\ UNCHANGED <<loop, due, reading, got, counts>>

-----------------------------------------------------------------------------
Read == Answered \/ Recorded \/ SourceFails \/ ReadingAborted
Loop == Tick \/ LoopEnds
RunCell ==
  \/ StartCollector \/ NoCollector \/ LoadBegins \/ LoadEnds \/ LoadFails
  \/ StopCollector \/ Stopped \/ ChooseWindow \/ NoWindow

Next == Elapse \/ Interrupt \/ Read \/ Loop \/ RunCell

Spec == Init /\ [][Next]_vars

\* The goroutines run: a reading that has arrived is kept, an aborted scrape returns,
\* and a loop whose context has ended leaves, since select is fair to it.  A sampler's
\* source answers sooner or later; nothing is assumed of the metrics endpoint.
FairSpec ==
  /\ Spec
  /\ WF_vars(Recorded) /\ WF_vars(ReadingAborted) /\ SF_vars(LoopEnds)
  /\ WF_vars(kind = "sampler" /\ Answered)
  /\ WF_vars(StopCollector \/ Stopped)

-----------------------------------------------------------------------------
Reading == [at : Times, says : Times]
MaybeTimes == Times \cup {None}

\* Every variable stays in its range, and a reading under way has a beginning.
TypeOK ==
  /\ kind \in Kinds /\ now \in Times /\ ctxDone \in BOOLEAN
  /\ cell \in {"starting", "loading", "stopping", "stopped", "windowed", "failed"}
  /\ from \in MaybeTimes /\ to \in MaybeTimes
  /\ loop \in {"off", "absent", "first", "asked", "idle", "ended"}
  /\ due \in MaybeTimes /\ asked \in MaybeTimes /\ answer \in MaybeTimes
  /\ Asking => asked # None
  /\ got \in Seq(Reading)
  /\ errs \in 0..ErrCap /\ missed \in Nat
  /\ canceled \in BOOLEAN
  /\ window \in MaybeTimes \X MaybeTimes
  /\ bracket \in Seq(Nat)

\* Readings are kept in the order of their time stamps and of what they describe:
\* Bracketing and the series derived from them rely on it.
StampsAscend ==
  \A i, j \in 1..Len(got) :
    i < j => got[i].at <= got[j].at /\ got[i].says <= got[j].says

\* A collector that has reported no error describes the time before the load began:
\* what its series shows ahead of the window is there to be judged.
SampledBeforeLoad ==
  cell # "starting" /\ loop # "absent" /\ errs = 0 =>
    Len(got) > 0 /\ got[1].says <= from

\* The opening scrape of a bracket describes a moment no later than the window's start.
OpeningScrapePrecedes == bracket # << >> => got[bracket[1]].says <= window[1]

\* No scrape that would enclose the window more tightly was passed over.
BracketIsTight ==
  bracket # << >> =>
    \A i \in 1..Len(got) :
      /\ got[i].at <= window[1] => got[i].at <= got[bracket[1]].at
      /\ got[i].at >= window[2] => got[i].at >= got[bracket[2]].at

\* A sampler that reports neither an error nor a missed tick has no hole under load.
NoHoleUnlessReported ==
  kind = "sampler" /\ errs = 0 /\ missed = 0 /\ from # None =>
    \A i \in 1..Len(got) - 1 :
      got[i + 1].at <= got[i].at + 1 \/ got[i + 1].at <= from + 1

\* What was collected does not change once Stop has handed it over.
HandedOverIsFinal ==
  [][(cell = "stopped" \/ cell = "windowed") => got' = got /\ errs' = errs]_vars

\* Why the safety properties hold: nothing is kept from the future, a reading under way
\* is later than every reading kept, and the goroutine has gone before the window is
\* looked for.
ReadingsInv ==
  /\ \A i \in 1..Len(got) :
       /\ got[i].at <= now /\ got[i].says <= now
       /\ kind = "scraper" => got[i].says <= got[i].at
       /\ Asking => got[i].at <= asked /\ got[i].says <= asked
  /\ Asking => asked <= now /\ (answer # None => asked <= answer /\ answer <= now)
  /\ ~Asking => answer = None

PhaseInv ==
  /\ loop \in {"off", "first"} => cell = "starting" /\ got = << >> /\ errs = 0
  /\ loop \in {"idle", "asked", "ended"} /\ errs = 0 => got # << >>
  /\ cell # "starting" => from # None /\ from <= now
  /\ cell = "starting" => from = None
  /\ cell \in {"stopped", "windowed"} => LoopOver
  /\ cell # "windowed" => bracket = << >>

\* Why a sampler that reports nothing has no hole: the tick in its channel is at most one
\* interval after the reading before it, and a tick served late is counted.
Near(t, u) == t <= u + 1 \/ t <= from + 1
Newest == IF loop = "asked" THEN asked ELSE got[Len(got)].at

TickInv ==
  /\ due # None => due <= now
  /\ kind = "sampler" /\ errs = 0 /\ missed = 0 /\ from # None =>
       /\ loop = "asked" => Near(asked, got[Len(got)].at)
       /\ loop \in {"idle", "asked"} =>
            /\ due = None => Near(now + 1, Newest)
            /\ due # None => Near(due, Newest)

CollectorInv ==
  /\ ReadingsInv /\ PhaseInv /\ StampsAscend
  /\ SampledBeforeLoad /\ OpeningScrapePrecedes /\ BracketIsTight /\ NoHoleUnlessReported

\* Stopping a collector ends, although the metrics endpoint may never answer.
StopEnds == cell = "stopping" ~> cell = "stopped"

\* The collectors a failed load pass leaves behind end with the campaign's context.
InterruptEndsThem == ctxDone /\ cell = "failed" ~> loop \in {"absent", "ended"}
=============================================================================

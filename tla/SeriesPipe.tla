----------------------------- MODULE SeriesPipe -----------------------------
(***************************************************************************)
(* K6.Run (internal/loadgen/k6.go): the load generator writes its rows     *)
(* into a FIFO, a goroutine folds them into the aggregator, and the caller *)
(* must get both the exit and the end of the rows, although opening a FIFO *)
(* blocks until the other side opens it too and the generator may die      *)
(* before it does.                                                         *)
(*                                                                         *)
(* An operator named ...Mut is a seeded fault in the operation it stands   *)
(* before; no action uses it.                                              *)
(***************************************************************************)
EXTENDS Naturals

CONSTANTS
  MaxRows,   \* bound: rows the generator writes
  PipeSize   \* bound: rows the pipe holds before the generator blocks

ASSUME PipeAssumption == MaxRows \in Nat /\ PipeSize \in Nat \ {0}

VARIABLES
  main,      \* how far K6.Run has come
  runErr,    \* runner.Run returned an error
  result,    \* what K6.Run returned
  k6,        \* the load generator
  reader,    \* the goroutine behind readDone
  readErr,   \* what it sent: Consume failed
  ctxDone,
  written, consumed   \* rows

caller == <<main, runErr, result>>
fold   == <<reader, readErr, consumed>>
vars == <<caller, k6, fold, ctxDone, written>>

Init ==
  /\ main = "started" /\ runErr = FALSE /\ result = "none"
  /\ k6 = "absent"
  /\ reader = "born" /\ readErr = FALSE
  /\ ctxDone = FALSE /\ written = 0 /\ consumed = 0

Interrupt ==
  /\ ~ctxDone /\ ctxDone' = TRUE
  /\ UNCHANGED <<caller, k6, fold, written>>

-----------------------------------------------------------------------------
\* The generator.  It may die at any moment: a script exception before it opens the
\* pipe, its own end, or the SIGKILL of a cancelled context.

K6Starts ==
  /\ main = "started" /\ main' = "running" /\ k6' = "starting"
  /\ UNCHANGED <<runErr, result, fold, ctxDone, written>>

K6Opens ==
  /\ k6 = "starting" /\ k6' = "opening"
  /\ UNCHANGED <<caller, fold, ctxDone, written>>

\* A row written to a pipe whose reader has gone is lost with an error.
K6Writes ==
  /\ k6 = "writing" /\ written < MaxRows
  /\ written - consumed < PipeSize \/ reader = "done"
  /\ written' = written + 1
  /\ UNCHANGED <<caller, k6, fold, ctxDone>>

K6Exits ==
  /\ k6 \in {"starting", "opening", "writing"} /\ k6' = "gone"
  /\ UNCHANGED <<caller, fold, ctxDone, written>>

-----------------------------------------------------------------------------
\* The reader.  Both sides of a FIFO leave open() together.

ReaderOpens ==
  /\ reader = "born" /\ main # "returned" /\ reader' = "opening"
  /\ UNCHANGED <<caller, k6, readErr, consumed, ctxDone, written>>

\* Run has removed the FIFO.
ReaderTooLate ==
  /\ reader = "born" /\ main = "returned" /\ reader' = "done" /\ readErr' = TRUE
  /\ UNCHANGED <<caller, k6, consumed, ctxDone, written>>

BothOpen ==
  /\ reader = "opening" /\ k6 = "opening"
  /\ reader' = "reading" /\ k6' = "writing"
  /\ UNCHANGED <<caller, readErr, consumed, ctxDone, written>>

\* Consume: a row, a row the scanner refuses, or the end of the stream.
AtEOFMut == k6 # "writing"
AtEOF == k6 # "writing" /\ consumed = written

RowReady == consumed < written

ReaderReads ==
  /\ reader = "reading"
  /\ \/ RowReady /\ consumed' = consumed + 1 /\ UNCHANGED <<reader, readErr>>
     \/ RowReady /\ reader' = "done" /\ readErr' = TRUE /\ UNCHANGED consumed
     \/ AtEOF /\ reader' = "done" /\ UNCHANGED <<readErr, consumed>>
  /\ UNCHANGED <<caller, k6, ctxDone, written>>

-----------------------------------------------------------------------------
\* The caller.

\* The binary is missing, or the context ended while k6 ran.
StartFails ==
  /\ main = "started" /\ main' = "exited" /\ runErr' = TRUE
  /\ UNCHANGED <<result, k6, fold, ctxDone, written>>

RunnerReturns ==
  /\ main = "running" /\ k6 = "gone"
  /\ main' = "exited" /\ runErr' \in {FALSE, ctxDone}
  /\ UNCHANGED <<result, k6, fold, ctxDone, written>>

\* releaseSeriesPipe: opening the write end for an instant frees a reader blocked in
\* open(); where no reader has reached it the open fails with ENXIO and does nothing.
FreedMut == reader
Freed == IF reader = "opening" THEN "reading" ELSE reader

Release ==
  /\ main = "exited" /\ main' = "waiting"
  /\ reader' = Freed
  /\ UNCHANGED <<runErr, result, k6, readErr, consumed, ctxDone, written>>

\* <-readDone.  What follows it, the version and the summary, may fail as well.
Drained == reader = "done"

ReaderDone ==
  /\ main = "waiting" /\ Drained /\ main' = "returned"
  /\ \/ ~runErr /\ ~readErr /\ result' = "run"
     \/ result' = "error"
  /\ UNCHANGED <<runErr, k6, fold, ctxDone, written>>

\* seriesDrainGrace bounds the wait, but not the one after an error of runner.Run.
Backstop == ~runErr

DrainTimesOut ==
  /\ main = "waiting" /\ Backstop
  /\ main' = "returned" /\ result' = "error"
  /\ UNCHANGED <<runErr, k6, fold, ctxDone, written>>

-----------------------------------------------------------------------------
Generator == K6Starts \/ K6Opens \/ K6Writes \/ K6Exits
Reader    == ReaderOpens \/ ReaderTooLate \/ BothOpen \/ ReaderReads
Caller    == StartFails \/ RunnerReturns \/ Release \/ ReaderDone \/ DrainTimesOut

Next == Interrupt \/ Generator \/ Reader \/ Caller

Spec == Init /\ [][Next]_vars

\* The goroutines run and the timer fires.  Nothing is assumed of the generator.
FairSpec == Spec /\ WF_vars(Reader) /\ WF_vars(Caller)

-----------------------------------------------------------------------------
\* Every variable stays in its range, and no row is folded that was not written.
TypeOK ==
  /\ main \in {"started", "running", "exited", "waiting", "returned"}
  /\ runErr \in BOOLEAN /\ readErr \in BOOLEAN /\ ctxDone \in BOOLEAN
  /\ result \in {"none", "run", "error"}
  /\ k6 \in {"absent", "starting", "opening", "writing", "gone"}
  /\ reader \in {"born", "opening", "reading", "done"}
  /\ written \in 0..MaxRows /\ consumed \in 0..written

\* A pass that is reported as a run is reported with every row the generator wrote, and
\* the aggregator is no longer being written to when it is read.
SeriesIsComplete == result = "run" => reader = "done" /\ consumed = written

\* Once the generator has gone K6.Run returns, provided its reader has come as far as
\* opening the pipe or runner.Run reported no error.
RunReturnsIfReleased ==
  main = "exited" /\ (reader # "born" \/ ~runErr) ~> main = "returned"

\* A reader is left behind blocked on the pipe only by the drain timeout.
OrphanOnlyByTimeout ==
  main = "returned" /\ reader # "done" => ~runErr /\ result = "error"

\* Why SeriesIsComplete and OrphanOnlyByTimeout hold.
PipeInv ==
  /\ main \in {"exited", "waiting", "returned"} => k6 \in {"absent", "gone"}
  /\ main = "started" => k6 = "absent"
  /\ main # "returned" => result = "none"
  /\ reader \in {"born", "opening"} => consumed = 0 /\ written = 0 /\ k6 # "writing"
  /\ reader = "done" /\ ~readErr => k6 # "writing" /\ consumed = written
  /\ k6 = "absent" => written = 0
  /\ main \in {"started", "running"} /\ k6 \in {"absent", "starting", "opening"}
       => reader \in {"born", "opening"}
  /\ SeriesIsComplete
  /\ OrphanOnlyByTimeout

-----------------------------------------------------------------------------
\* What the code does not do: k6.go:259 calls a bounded wait the alternative to "the
\* silent stop this function just stopped having", and k6.go:318 says that ENXIO is
\* "precisely the case where nothing needed releasing".  K6.Run always returns.
RunAlwaysReturns == main = "exited" ~> main = "returned"
=============================================================================

-------------------------- MODULE SeriesPipeProofs --------------------------
(***************************************************************************)
(* Proofs about SeriesPipe: for any number of rows and any size of pipe, a *)
(* reported run has all its rows, and a reader is abandoned only behind    *)
(* the drain timeout.                                                      *)
(***************************************************************************)
EXTENDS SeriesPipe, TLAPS

\* Every variable stays in its range (TypeOK).
THEOREM Typing == Spec => []TypeOK
<1>1. Init => TypeOK
  <2> USE PipeAssumption DEF PipeAssumption
  <2> SUFFICES ASSUME Init
               PROVE  TypeOK
    OBVIOUS
  <2>1. written \in 0..MaxRows /\ consumed \in 0..written
    BY DEF Init
  <2>2. QED
    BY <2>1, Zenon DEF Init, TypeOK
<1>2. TypeOK /\ [Next]_vars => TypeOK'
  <2> SUFFICES ASSUME TypeOK, [Next]_vars
               PROVE  TypeOK'
    OBVIOUS
  <2> USE PipeAssumption DEF PipeAssumption, TypeOK, caller, fold
  <2>1. CASE Interrupt
    <3>1. ctxDone' \in BOOLEAN
      BY <2>1, Zenon DEF Interrupt
    <3>2. UNCHANGED <<caller, k6, fold, written>>
      BY <2>1, Zenon DEF Interrupt
    <3>3. QED
      BY <3>1, <3>2
  <2>2. CASE Generator
    BY <2>2 DEF Generator, K6Starts, K6Opens, K6Writes, K6Exits
  <2>3. CASE ReaderTooLate
    <3>1. reader' = "done" /\ readErr' \in BOOLEAN
      BY <2>3, Zenon DEF ReaderTooLate
    <3>2. UNCHANGED <<caller, k6, consumed, ctxDone, written>>
      BY <2>3, Zenon DEF ReaderTooLate
    <3>3. QED
      BY <3>1, <3>2
  <2>4. CASE ReaderOpens \/ BothOpen
    BY <2>4 DEF ReaderOpens, BothOpen
  <2>5. CASE ReaderReads
    <3>1. readErr' \in BOOLEAN
      BY <2>5, Zenon DEF ReaderReads
    <3>2. reader' \in {"reading", "done"}
      BY <2>5, Zenon DEF ReaderReads
    <3>3. consumed' \in 0..written
      BY <2>5 DEF ReaderReads, RowReady
    <3>4. UNCHANGED <<caller, k6, ctxDone, written>>
      BY <2>5, Zenon DEF ReaderReads
    <3>5. QED
      BY <3>1, <3>2, <3>3, <3>4
  <2>6. CASE StartFails
    <3>1. main' = "exited" /\ runErr' \in BOOLEAN
      BY <2>6, Zenon DEF StartFails
    <3>2. UNCHANGED <<result, k6, fold, ctxDone, written>>
      BY <2>6, Zenon DEF StartFails
    <3>3. QED
      BY <3>1, <3>2
  <2>7. CASE RunnerReturns
    <3>1. main' = "exited" /\ runErr' \in BOOLEAN
      BY <2>7, Zenon DEF RunnerReturns
    <3>2. UNCHANGED <<result, k6, fold, ctxDone, written>>
      BY <2>7, Zenon DEF RunnerReturns
    <3>3. QED
      BY <3>1, <3>2
  <2>8. CASE Release
    BY <2>8 DEF Release, Freed
  <2>9. CASE ReaderDone \/ DrainTimesOut
    BY <2>9 DEF ReaderDone, DrainTimesOut
  <2>10. CASE UNCHANGED vars
    BY <2>10 DEF vars
  <2>11. QED
    BY <2>1, <2>2, <2>3, <2>4, <2>5, <2>6, <2>7, <2>8, <2>9, <2>10, Zenon DEF Next, Reader, Caller
<1>3. QED
  BY <1>1, <1>2, PTL DEF Spec

\* PipeInv holds: where each side of the pipe is, and what has gone through it.
THEOREM PipeInvariant == Spec => []PipeInv
<1>1. Init => PipeInv
  BY DEF Init, PipeInv, SeriesIsComplete, OrphanOnlyByTimeout
<1>2. TypeOK /\ TypeOK' /\ PipeInv /\ [Next]_vars => PipeInv'
  <2> USE DEF caller, fold, PipeInv, SeriesIsComplete, OrphanOnlyByTimeout
  <2> SUFFICES ASSUME TypeOK, TypeOK', PipeInv, [Next]_vars
               PROVE  PipeInv'
    OBVIOUS
  <2>1. CASE Interrupt
    BY <2>1 DEF Interrupt
  <2>2. CASE Generator
    BY <2>2 DEF Generator, K6Starts, K6Opens, K6Writes, K6Exits, TypeOK
  <2>3. CASE ReaderTooLate
    <3>1. main = "returned" /\ reader = "born" /\ reader' = "done" /\ readErr'
      BY <2>3, Zenon DEF ReaderTooLate
    <3>2. UNCHANGED <<caller, k6, consumed, ctxDone, written>>
      BY <2>3, Zenon DEF ReaderTooLate
    <3>3. QED
      BY <3>1, <3>2
  <2>4. CASE ReaderOpens
    BY <2>4 DEF ReaderOpens
  <2>5. CASE BothOpen
    BY <2>5 DEF BothOpen
  <2>6. CASE ReaderReads
    BY <2>6 DEF ReaderReads, AtEOF, RowReady
  <2>7. CASE StartFails
    <3>1. main = "started" /\ main' = "exited"
      BY <2>7, Zenon DEF StartFails
    <3>2. UNCHANGED <<result, k6, fold, ctxDone, written>>
      BY <2>7, Zenon DEF StartFails
    <3>3. QED
      BY <3>1, <3>2
  <2>8. CASE RunnerReturns
    BY <2>8 DEF RunnerReturns
  <2>9. CASE Release
    BY <2>9 DEF Release, Freed
  <2>10. CASE ReaderDone
    BY <2>10 DEF ReaderDone, Drained, TypeOK
  <2>11. CASE DrainTimesOut
    BY <2>11 DEF DrainTimesOut, Backstop
  <2>12. CASE UNCHANGED vars
    BY <2>12 DEF vars
  <2>13. QED
    BY <2>1, <2>2, <2>3, <2>4, <2>5, <2>6, <2>7, <2>8, <2>9, <2>10, <2>11, <2>12, Zenon
       DEF Next, Reader, Caller
<1>3. QED
  BY <1>1, <1>2, Typing, PTL DEF Spec

\* A run that is reported has every row the generator wrote (SeriesIsComplete).
THEOREM RunsAreComplete == Spec => []SeriesIsComplete
<1>1. PipeInv => SeriesIsComplete
  BY DEF PipeInv
<1>2. QED
  BY <1>1, PipeInvariant, PTL

\* A goroutine is left on the pipe only by the drain timeout (OrphanOnlyByTimeout).
THEOREM OrphansAreTimeouts == Spec => []OrphanOnlyByTimeout
<1>1. PipeInv => OrphanOnlyByTimeout
  BY DEF PipeInv
<1>2. QED
  BY <1>1, PipeInvariant, PTL
=============================================================================

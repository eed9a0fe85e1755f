--------------------------- MODULE CampaignProofs ---------------------------
(***************************************************************************)
(* Proofs about Campaign for any plan, any scenarios and any set of        *)
(* failures: type correctness; that no cell cut short by an interrupt is   *)
(* recorded; that the loop takes no further cell after one; that the       *)
(* campaign implements CellLedger; where no subject can escape its handle, *)
(* that every subject answers only for its own launch; that each launch is *)
(* a SubjectHandle and every stop that contract allows is one the campaign *)
(* reckons with; and that the campaign winds down.                         *)
(***************************************************************************)
EXTENDS Campaign, TLAPS

\* A campaign keeps its setup.
LEMMA SetupStays == [Next]_vars => UNCHANGED setup
BY DEF Next, vars

\* The plan is a run of positions: the loops that advance `at` never leave it.
LEMMA Positions ==
  /\ 1 \in Cells
  /\ \A i \in Cells : i # N => i + 1 \in Cells
BY CampaignAssumption DEF CampaignAssumption, Cells

\* The launch in progress is a launch.
LEMMA Current == at \in Cells /\ role \in {"ramp", "cell"} => cur \in Launch
BY DEF cur, Launch

\* The type invariant holds: every handler leaves every variable in its range.
THEOREM Typing == Spec => []TypeOK
<1>1. Init => TypeOK
  <2> SUFFICES ASSUME Init PROVE TypeOK
    OBVIOUS
  <2>1. subject \in [Launch -> Alive \cup {"none", "gone"}]
    BY DEF Init
  <2>2. answered \in [Launch -> SUBSET Launch]
    BY DEF Init
  <2>3. rampRate \in [Scenarios -> Rates \cup {0}] /\ rate \in [Cells -> Rates \cup {0}]
    BY DEF Init
  <2>4. phase \in Phases /\ at \in Cells
    BY Positions DEF Init, Phases
  <2>5. QED
    BY <2>1, <2>2, <2>3, <2>4 DEF Init, TypeOK
<1>2. TypeOK /\ [Next]_vars => TypeOK'
  <2> SUFFICES ASSUME TypeOK, [Next]_vars PROVE TypeOK'
    OBVIOUS
  <2> USE Positions, Current, SetupStays
      DEF TypeOK, Phases, InCell, Alive, Loading, GoTo, ctl, handle, rates, deps,
          outcome, history
  <2>1. CASE DepsVisit
    BY <2>1, CampaignAssumption
    DEF CampaignAssumption, Cells, DepsVisit, StartDeps, NextVisit, SetupFailed, Abort
  <2>2. CASE CalibrateSkip
    BY <2>2 DEF CalibrateSkip, NextCalibration
  <2>3. CASE CalibrateRefused
    BY <2>3 DEF CalibrateRefused, Abort
  <2>4. CASE CalibrateRamp
    BY <2>4 DEF CalibrateRamp
  <2>5. CASE CalibrateAssign
    <3>1. phase' \in Phases /\ at' \in Cells /\ role' \in {"ramp", "cell"} /\ aborted' \in BOOLEAN
      BY <2>5 DEF CalibrateAssign, NextCalibration, Abort
    <3>2. ScenarioOf[at] \in Scenarios
      BY CampaignAssumption DEF CampaignAssumption, Cells
    <3>3. rate' \in [Cells -> Rates \cup {0}] /\ pending' \subseteq Cells
      BY <2>5, <3>2 DEF CalibrateAssign
    <3>4. QED
      BY <2>5, <3>1, <3>3 DEF CalibrateAssign
  <2>6. CASE Prepare
    BY <2>6 DEF Prepare, Fail
  <2>7. CASE PortCheck
    BY <2>7 DEF PortCheck, Fail
  <2>8. CASE StartSubject
    BY <2>8 DEF StartSubject, Fail
  <2>9. CASE RecordArgv
    BY <2>9 DEF RecordArgv, Fail
  <2>10. CASE AwaitReady
    BY <2>10 DEF AwaitReady, StartRamp, Fail, Serving
  <2>11. CASE StartCollectors
    BY <2>11 DEF StartCollectors, Serving
  <2>12. CASE PassFails
    BY <2>12 DEF PassFails, Fail
  <2>13. CASE WarmUpEnds
    BY <2>13 DEF WarmUpEnds, Serving
  <2>14. CASE MeasuredEnds
    BY <2>14 DEF MeasuredEnds
  <2>15. CASE RampEnds
    BY <2>15, CampaignAssumption DEF CampaignAssumption, Cells, RampEnds
  <2>16. CASE StopCollectors
    BY <2>16 DEF StopCollectors
  <2>17. CASE StopSubject
    BY <2>17 DEF StopSubject, Stop
  <2>18. CASE WriteCell
    BY <2>18 DEF WriteCell, AfterWrite, Fail
  <2>19. CASE CooldownEnds
    BY <2>19 DEF CooldownEnds, NextCell
  <2>20. CASE CooldownCancelled
    BY <2>20 DEF CooldownCancelled, Fail
  <2>21. CASE CellReturnsError
    <3>1. subject' \in [Launch -> Alive \cup {"none", "gone"}] /\ owed' \in BOOLEAN
      BY <2>21 DEF CellReturnsError, Stop
    <3>2. phase' \in Phases /\ at' \in Cells /\ role' \in {"ramp", "cell"}
      BY <2>21 DEF CellReturnsError, NextCell
    <3>3. QED
      BY <2>21, <3>1, <3>2 DEF CellReturnsError
  <2>22. CASE RampReturns
    BY <2>22 DEF RampReturns, Stop, Abort
  <2>23. CASE RollUp
    BY <2>23 DEF RollUp
  <2>24. CASE TearDown
    BY <2>24 DEF TearDown, TornDown
  <2>25. CASE Interrupt
    BY <2>25 DEF Interrupt
  <2>26. ASSUME NEW l \in Launch, Boot(l) PROVE TypeOK'
    BY <2>26 DEF Boot, Serving
  <2>27. ASSUME NEW l \in Launch, SubjectDies(l) PROVE TypeOK'
    BY <2>27 DEF SubjectDies
  <2>28. ASSUME NEW l \in Launch, KillSubject(l) PROVE TypeOK'
    BY <2>28 DEF KillSubject
  <2>29. CASE KillLoad
    BY <2>29 DEF KillLoad
  <2>30. ASSUME NEW c \in Cells, CollectorsSeeCancel(c) PROVE TypeOK'
    BY <2>30 DEF CollectorsSeeCancel
  <2>31. CASE UNCHANGED vars
    BY <2>31 DEF vars
  <2>32. QED
    BY <2>1, <2>2, <2>3, <2>4, <2>5, <2>6, <2>7, <2>8, <2>9, <2>10, <2>11, <2>12,
       <2>13, <2>14, <2>15, <2>16, <2>17, <2>18, <2>19, <2>20, <2>21, <2>22, <2>23,
       <2>24, <2>25, <2>26, <2>27, <2>28, <2>29, <2>30, <2>31
    DEF Next, Drive, Beside
<1>3. QED
  BY <1>1, <1>2, PTL DEF Spec

LEMMA NothingBeforeFirst == 1..(1 - 1) = {}
OBVIOUS

\* What the cell loop has settled is exactly the plan up to where it stands, and nothing
\* an interrupt cut short is among it.
THEOREM LoopInvariant == Spec => []LoopInv
<1>1. Init => LoopInv
  BY DEF Init, LoopInv, RecordedUncut
<1>2. TypeOK /\ LoopInv /\ [Next]_vars => LoopInv'
  <2> SUFFICES ASSUME TypeOK, LoopInv, [Next]_vars PROVE LoopInv'
    OBVIOUS
  <2> USE CampaignAssumption
      DEF CampaignAssumption, LoopInv, RecordedUncut, TypeOK, Cells, InCell, Loading, GoTo,
          ctl, rates, deps, outcome, history
  <2>1. CASE DepsVisit
    BY <2>1 DEF DepsVisit, StartDeps, NextVisit, SetupFailed, Abort
  <2>2. CASE CalibrateSkip
    BY <2>2, NothingBeforeFirst DEF CalibrateSkip, NextCalibration
  <2>3. CASE CalibrateRefused
    BY <2>3 DEF CalibrateRefused, Abort
  <2>4. CASE CalibrateRamp
    BY <2>4 DEF CalibrateRamp
  <2>5. CASE CalibrateAssign
    <3>1. CASE phase' = "teardown"
      BY <2>5, <3>1 DEF CalibrateAssign, NextCalibration, Abort
    <3>2. CASE phase' # "teardown"
      BY <2>5, <3>2, NothingBeforeFirst DEF CalibrateAssign, NextCalibration, Abort
    <3>3. QED
      BY <3>1, <3>2
  <2>6. CASE Prepare
    BY <2>6 DEF Prepare, Fail
  <2>7. CASE PortCheck
    BY <2>7 DEF PortCheck, Fail
  <2>8. CASE StartSubject
    BY <2>8 DEF StartSubject, Fail
  <2>9. CASE RecordArgv
    BY <2>9 DEF RecordArgv, Fail
  <2>10. CASE AwaitReady
    BY <2>10 DEF AwaitReady, StartRamp, Fail
  <2>11. CASE StartCollectors
    BY <2>11 DEF StartCollectors
  <2>12. CASE PassFails
    BY <2>12 DEF PassFails, Fail
  <2>13. CASE WarmUpEnds
    BY <2>13 DEF WarmUpEnds
  <2>14. CASE MeasuredEnds
    BY <2>14 DEF MeasuredEnds
  <2>15. CASE RampEnds
    BY <2>15 DEF RampEnds
  <2>16. CASE StopCollectors
    BY <2>16 DEF StopCollectors
  <2>17. CASE StopSubject
    BY <2>17 DEF StopSubject
  <2>18. CASE WriteCell
    BY <2>18 DEF WriteCell, AfterWrite, Fail
  <2>19. CASE CooldownEnds
    BY <2>19 DEF CooldownEnds, NextCell
  <2>20. CASE CooldownCancelled
    BY <2>20 DEF CooldownCancelled, Fail
  <2>21. CASE CellReturnsError
    BY <2>21 DEF CellReturnsError, NextCell
  <2>22. CASE RampReturns
    BY <2>22 DEF RampReturns, Abort
  <2>23. CASE RollUp
    BY <2>23 DEF RollUp
  <2>24. CASE TearDown
    BY <2>24 DEF TearDown
  <2>25. CASE Interrupt
    BY <2>25 DEF Interrupt
  <2>26. ASSUME NEW l \in Launch, Boot(l) PROVE LoopInv'
    BY <2>26 DEF Boot
  <2>27. ASSUME NEW l \in Launch, SubjectDies(l) PROVE LoopInv'
    BY <2>27 DEF SubjectDies
  <2>28. ASSUME NEW l \in Launch, KillSubject(l) PROVE LoopInv'
    BY <2>28 DEF KillSubject
  <2>29. CASE KillLoad
    BY <2>29 DEF KillLoad
  <2>30. ASSUME NEW c \in Cells, CollectorsSeeCancel(c) PROVE LoopInv'
    BY <2>30 DEF CollectorsSeeCancel
  <2>31. CASE UNCHANGED vars
    BY <2>31 DEF vars
  <2>32. QED
    BY <2>1, <2>2, <2>3, <2>4, <2>5, <2>6, <2>7, <2>8, <2>9, <2>10, <2>11,
       <2>12, <2>13, <2>14, <2>15, <2>16, <2>17, <2>18, <2>19, <2>20, <2>21,
       <2>22, <2>23, <2>24, <2>25, <2>26, <2>27, <2>28, <2>29, <2>30, <2>31
    DEF Next, Drive, Beside
<1>3. QED
  BY <1>1, <1>2, Typing, PTL DEF Spec

\* A cell under way when the operator interrupts is never rolled up.
THEOREM InterruptedCellsStayOut == Spec => []RecordedUncut
<1>1. LoopInv => RecordedUncut
  BY DEF LoopInv
<1>2. QED
  BY <1>1, LoopInvariant, PTL

\* No cell is both a result and a failure, and an uninterrupted campaign settles all.
THEOREM EveryCellAccounted == Spec => []NothingAbandoned
<1>1. LoopInv => NothingAbandoned
  BY DEF LoopInv, NothingAbandoned
<1>2. QED
  BY <1>1, LoopInvariant, PTL

\* After an interrupt the cell loop takes no further cell.
THEOREM InterruptEndsTheLoop == Spec => NoNewCellAfterInterrupt
<1>1. TypeOK /\ LoopInv /\ [Next]_vars => [ctxDone /\ role = "cell" => at' = at]_vars
  <2> SUFFICES ASSUME TypeOK, LoopInv, [Next]_vars, ctxDone, role = "cell" PROVE at' = at
    OBVIOUS
  <2> USE DEF LoopInv, GoTo, ctl
  <2>1. CASE DepsVisit
    BY <2>1 DEF DepsVisit, StartDeps, NextVisit, SetupFailed, Abort
  <2>2. CASE CalibrateSkip
    BY <2>2 DEF CalibrateSkip, NextCalibration
  <2>3. CASE CalibrateRefused
    BY <2>3 DEF CalibrateRefused, Abort
  <2>4. CASE CalibrateRamp
    BY <2>4 DEF CalibrateRamp
  <2>5. CASE CalibrateAssign
    BY <2>5 DEF CalibrateAssign, NextCalibration, Abort
  <2>6. CASE Prepare
    BY <2>6 DEF Prepare, Fail
  <2>7. CASE PortCheck
    BY <2>7 DEF PortCheck, Fail
  <2>8. CASE StartSubject
    BY <2>8 DEF StartSubject, Fail
  <2>9. CASE RecordArgv
    BY <2>9 DEF RecordArgv, Fail
  <2>10. CASE AwaitReady
    BY <2>10 DEF AwaitReady, StartRamp, Fail
  <2>11. CASE StartCollectors
    BY <2>11 DEF StartCollectors
  <2>12. CASE PassFails
    BY <2>12 DEF PassFails, Fail
  <2>13. CASE WarmUpEnds
    BY <2>13 DEF WarmUpEnds
  <2>14. CASE MeasuredEnds
    BY <2>14 DEF MeasuredEnds
  <2>15. CASE RampEnds
    BY <2>15 DEF RampEnds
  <2>16. CASE StopCollectors
    BY <2>16 DEF StopCollectors
  <2>17. CASE StopSubject
    BY <2>17 DEF StopSubject
  <2>18. CASE WriteCell
    BY <2>18 DEF WriteCell, AfterWrite, Fail
  <2>19. CASE CooldownEnds
    BY <2>19 DEF CooldownEnds, NextCell
  <2>20. CASE CooldownCancelled
    BY <2>20 DEF CooldownCancelled, Fail
  <2>21. CASE CellReturnsError
    BY <2>21 DEF CellReturnsError, NextCell
  <2>22. CASE RampReturns
    BY <2>22 DEF RampReturns, Abort
  <2>23. CASE RollUp
    BY <2>23 DEF RollUp
  <2>24. CASE TearDown
    BY <2>24 DEF TearDown
  <2>25. CASE Interrupt
    BY <2>25 DEF Interrupt
  <2>26. ASSUME NEW l \in Launch, Boot(l) PROVE at' = at
    BY <2>26 DEF Boot
  <2>27. ASSUME NEW l \in Launch, SubjectDies(l) PROVE at' = at
    BY <2>27 DEF SubjectDies
  <2>28. ASSUME NEW l \in Launch, KillSubject(l) PROVE at' = at
    BY <2>28 DEF KillSubject
  <2>29. CASE KillLoad
    BY <2>29 DEF KillLoad
  <2>30. ASSUME NEW c \in Cells, CollectorsSeeCancel(c) PROVE at' = at
    BY <2>30 DEF CollectorsSeeCancel
  <2>31. CASE UNCHANGED vars
    BY <2>31 DEF vars
  <2>32. QED
    BY <2>1, <2>2, <2>3, <2>4, <2>5, <2>6, <2>7, <2>8, <2>9, <2>10, <2>11,
       <2>12, <2>13, <2>14, <2>15, <2>16, <2>17, <2>18, <2>19, <2>20, <2>21,
       <2>22, <2>23, <2>24, <2>25, <2>26, <2>27, <2>28, <2>29, <2>30, <2>31
    DEF Next, Drive, Beside
<1>2. QED
  BY <1>1, Typing, LoopInvariant, PTL DEF Spec, NoNewCellAfterInterrupt

\* While every launch is stopped through its handle, a subject is alive only between its
\* start and its stop, and whatever answers a launch is that launch's own process.
THEOREM HandleInvariant == Spec => []HandleInv
<1>1. Init => HandleInv
  BY DEF Init, HandleInv, SubjectsAccountedFor, NoForeignAnswer, Holding, Loading, Alive
<1>2. TypeOK /\ LoopInv /\ HandleInv /\ [Next]_vars => HandleInv'
  <2> SUFFICES ASSUME TypeOK, LoopInv, HandleInv, [Next]_vars, LeakFree PROVE HandleInv'
    BY SetupStays
    DEF HandleInv, SubjectsAccountedFor, NoForeignAnswer, LeakFree, Remote, Can
  <2> USE Current, SetupStays
      DEF LeakFree, Remote, Can, HandleInv, SubjectsAccountedFor, NoForeignAnswer, LoopInv,
          TypeOK, Holding, Loading, Alive, cur, GoTo, ctl, handle, rates, deps, outcome,
          history
  <2>1. CASE DepsVisit
    BY <2>1 DEF DepsVisit, StartDeps, NextVisit, SetupFailed, Abort
  <2>2. CASE CalibrateSkip
    BY <2>2 DEF CalibrateSkip, NextCalibration
  <2>3. CASE CalibrateRefused
    BY <2>3 DEF CalibrateRefused, Abort
  <2>4. CASE CalibrateRamp
    BY <2>4 DEF CalibrateRamp
  <2>5. CASE CalibrateAssign
    BY <2>5 DEF CalibrateAssign, NextCalibration, Abort
  <2>6. CASE Prepare
    BY <2>6 DEF Prepare, Fail
  <2>7. CASE PortCheck
    BY <2>7 DEF PortCheck, Fail
  <2>8. CASE StartSubject
    <3>1. CASE phase' = "unwind"
      BY <2>8, <3>1 DEF StartSubject, Fail
    <3>2. CASE phase' # "unwind"
      <4>1. \A l \in Launch : subject'[l] \in Alive => l = cur
        BY <2>8, <3>2 DEF StartSubject, Fail
      <4>2. cur' = cur /\ pid' /\ phase' = IF role = "ramp" THEN "await" ELSE "argv"
        BY <2>8, <3>2 DEF StartSubject, Fail
      <4>3. owed' = (role = "ramp") /\ UNCHANGED answered
        BY <2>8, <3>2 DEF StartSubject, Fail
      <4>4. QED
        BY <4>1, <4>2, <4>3
    <3>3. QED
      BY <3>1, <3>2
  <2>9. CASE RecordArgv
    BY <2>9 DEF RecordArgv, Fail
  <2>10. CASE AwaitReady
    BY <2>10 DEF AwaitReady, StartRamp, Fail, Serving
  <2>11. CASE StartCollectors
    BY <2>11 DEF StartCollectors, Serving
  <2>12. CASE PassFails
    BY <2>12 DEF PassFails, Fail
  <2>13. CASE WarmUpEnds
    BY <2>13 DEF WarmUpEnds, Serving
  <2>14. CASE MeasuredEnds
    BY <2>14 DEF MeasuredEnds
  <2>15. CASE RampEnds
    BY <2>15 DEF RampEnds
  <2>16. CASE StopCollectors
    BY <2>16 DEF StopCollectors
  <2>17. CASE StopSubject
    BY <2>17 DEF StopSubject, Stop
  <2>18. CASE WriteCell
    BY <2>18 DEF WriteCell, AfterWrite, Fail
  <2>19. CASE CooldownEnds
    BY <2>19 DEF CooldownEnds, NextCell
  <2>20. CASE CooldownCancelled
    BY <2>20 DEF CooldownCancelled, Fail
  <2>21. CASE CellReturnsError
    BY <2>21 DEF CellReturnsError, NextCell, Stop
  <2>22. CASE RampReturns
    BY <2>22 DEF RampReturns, Abort, Stop
  <2>23. CASE RollUp
    BY <2>23 DEF RollUp
  <2>24. CASE TearDown
    BY <2>24 DEF TearDown
  <2>25. CASE Interrupt
    BY <2>25 DEF Interrupt
  <2>26. ASSUME NEW l \in Launch, Boot(l) PROVE HandleInv'
    BY <2>26 DEF Boot, Serving
  <2>27. ASSUME NEW l \in Launch, SubjectDies(l) PROVE HandleInv'
    BY <2>27 DEF SubjectDies
  <2>28. ASSUME NEW l \in Launch, KillSubject(l) PROVE HandleInv'
    BY <2>28 DEF KillSubject
  <2>29. CASE KillLoad
    BY <2>29 DEF KillLoad
  <2>30. ASSUME NEW c \in Cells, CollectorsSeeCancel(c) PROVE HandleInv'
    BY <2>30 DEF CollectorsSeeCancel
  <2>31. CASE UNCHANGED vars
    BY <2>31 DEF vars
  <2>32. QED
    BY <2>1, <2>2, <2>3, <2>4, <2>5, <2>6, <2>7, <2>8, <2>9, <2>10, <2>11,
       <2>12, <2>13, <2>14, <2>15, <2>16, <2>17, <2>18, <2>19, <2>20, <2>21,
       <2>22, <2>23, <2>24, <2>25, <2>26, <2>27, <2>28, <2>29, <2>30, <2>31
    DEF Next, Drive, Beside
<1>3. QED
  BY <1>1, <1>2, Typing, LoopInvariant, PTL DEF Spec

\* No subject outlives its launch.
THEOREM NoSubjectEscapes == Spec => []SubjectsAccountedFor
<1>1. HandleInv => SubjectsAccountedFor
  BY DEF HandleInv
<1>2. QED
  BY <1>1, HandleInvariant, PTL

\* No launch is answered by the process of another.
THEOREM EveryAnswerIsOwn == Spec => []NoForeignAnswer
<1>1. HandleInv => NoForeignAnswer
  BY DEF HandleInv
<1>2. QED
  BY <1>1, HandleInvariant, PTL

\* Dependencies stand from before the first start until the teardown, and the teardown
\* stops all of them unless their setup failed.
THEOREM DepsInvariant == Spec => []DepsInv
<1>1. Init => DepsInv
  BY CampaignAssumption DEF Init, DepsInv, DepsTornDown, Botched, CampaignAssumption
<1>2. TypeOK /\ LoopInv /\ DepsInv /\ [Next]_vars => DepsInv'
  <2> SUFFICES ASSUME TypeOK, LoopInv, DepsInv, [Next]_vars PROVE DepsInv'
    OBVIOUS
  <2> USE CampaignAssumption, Current, SetupStays
      DEF CampaignAssumption, TypeOK, LoopInv, DepsInv, DepsTornDown, Botched, Can, Stand, Cells,
          InCell, Loading, Alive, GoTo, ctl, handle, rates, deps, outcome, history
  <2>1. CASE DepsVisit
    BY <2>1 DEF DepsVisit, StartDeps, NextVisit, SetupFailed, Abort
  <2>2. CASE CalibrateSkip
    BY <2>2 DEF CalibrateSkip, NextCalibration
  <2>3. CASE CalibrateRefused
    BY <2>3 DEF CalibrateRefused, Abort
  <2>4. CASE CalibrateRamp
    BY <2>4 DEF CalibrateRamp, NeedsRamp
  <2>5. CASE CalibrateAssign
    BY <2>5 DEF CalibrateAssign, NextCalibration, Abort
  <2>6. CASE Prepare
    BY <2>6 DEF Prepare, Fail
  <2>7. CASE PortCheck
    BY <2>7 DEF PortCheck, Fail
  <2>8. CASE StartSubject
    BY <2>8 DEF StartSubject, Fail
  <2>9. CASE RecordArgv
    BY <2>9 DEF RecordArgv, Fail
  <2>10. CASE AwaitReady
    BY <2>10 DEF AwaitReady, StartRamp, Fail
  <2>11. CASE StartCollectors
    BY <2>11 DEF StartCollectors
  <2>12. CASE PassFails
    BY <2>12 DEF PassFails, Fail
  <2>13. CASE WarmUpEnds
    BY <2>13 DEF WarmUpEnds
  <2>14. CASE MeasuredEnds
    BY <2>14 DEF MeasuredEnds
  <2>15. CASE RampEnds
    BY <2>15 DEF RampEnds
  <2>16. CASE StopCollectors
    BY <2>16 DEF StopCollectors
  <2>17. CASE StopSubject
    BY <2>17 DEF StopSubject, Stop
  <2>18. CASE WriteCell
    BY <2>18 DEF WriteCell, AfterWrite, Fail
  <2>19. CASE CooldownEnds
    BY <2>19 DEF CooldownEnds, NextCell
  <2>20. CASE CooldownCancelled
    BY <2>20 DEF CooldownCancelled, Fail
  <2>21. CASE CellReturnsError
    BY <2>21 DEF CellReturnsError, NextCell, Stop
  <2>22. CASE RampReturns
    BY <2>22 DEF RampReturns, Abort, Stop
  <2>23. CASE RollUp
    BY <2>23 DEF RollUp
  <2>24. CASE TearDown
    BY <2>24 DEF TearDown, TornDown
  <2>25. CASE Interrupt
    BY <2>25 DEF Interrupt
  <2>26. ASSUME NEW l \in Launch, Boot(l) PROVE DepsInv'
    BY <2>26 DEF Boot
  <2>27. ASSUME NEW l \in Launch, SubjectDies(l) PROVE DepsInv'
    BY <2>27 DEF SubjectDies
  <2>28. ASSUME NEW l \in Launch, KillSubject(l) PROVE DepsInv'
    BY <2>28 DEF KillSubject
  <2>29. CASE KillLoad
    BY <2>29 DEF KillLoad
  <2>30. ASSUME NEW c \in Cells, CollectorsSeeCancel(c) PROVE DepsInv'
    BY <2>30 DEF CollectorsSeeCancel
  <2>31. CASE UNCHANGED vars
    BY <2>31 DEF vars
  <2>32. QED
    BY <2>1, <2>2, <2>3, <2>4, <2>5, <2>6, <2>7, <2>8, <2>9, <2>10, <2>11,
       <2>12, <2>13, <2>14, <2>15, <2>16, <2>17, <2>18, <2>19, <2>20, <2>21,
       <2>22, <2>23, <2>24, <2>25, <2>26, <2>27, <2>28, <2>29, <2>30, <2>31
    DEF Next, Drive, Beside
<1>3. QED
  BY <1>1, <1>2, Typing, LoopInvariant, PTL DEF Spec

\* A subject never runs without the dependencies of its scenario.
THEOREM DepsStand == Spec => []DepsStandWhileNeeded
<1>1. TypeOK /\ DepsInv => DepsStandWhileNeeded
  BY CampaignAssumption
  DEF CampaignAssumption, TypeOK, DepsInv, Stand, DepsStandWhileNeeded, Launch, Cells, Alive
<1>2. QED
  BY <1>1, Typing, DepsInvariant, PTL

\* However the campaign ends, no dependency stands where tear-downs work but the one whose
\* own set-up failed half way.
THEOREM NoDepsLeft == Spec => []DepsTornDown
<1>1. DepsInv => DepsTornDown
  BY DEF DepsInv
<1>2. QED
  BY <1>1, DepsInvariant, PTL

\* Every cell gets the rate of its scenario's only ramp before any cell begins.
THEOREM RateInvariant == Spec => []RateInv
<1>1. Init => RateInv
  BY CampaignAssumption DEF Init, RateInv, Begun, InCell, Cells, Launch, CampaignAssumption
<1>2. TypeOK /\ LoopInv /\ RateInv /\ [Next]_vars => RateInv'
  <2> SUFFICES ASSUME TypeOK, LoopInv, RateInv, [Next]_vars PROVE RateInv'
    OBVIOUS
  <2> USE CampaignAssumption, Current
      DEF CampaignAssumption, TypeOK, LoopInv, RateInv, Begun, Cells, InCell,
          Loading, GoTo, ctl, handle, rates, deps, outcome, history
  <2>1. CASE DepsVisit
    BY <2>1 DEF DepsVisit, StartDeps, NextVisit, SetupFailed, Abort
  <2>2. CASE CalibrateSkip
    BY <2>2 DEF CalibrateSkip, NextCalibration
  <2>3. CASE CalibrateRefused
    BY <2>3 DEF CalibrateRefused, Abort
  <2>4. CASE CalibrateRamp
    BY <2>4 DEF CalibrateRamp, NeedsRamp
  <2>5. CASE CalibrateAssign
    <3>1. CASE rampRate[ScenarioOf[at]] = 0
      BY <2>5, <3>1 DEF CalibrateAssign, Abort
    <3>2. CASE rampRate[ScenarioOf[at]] # 0
      <4>1. /\ phase = "calibrate" /\ role = "ramp" /\ at \in pending
            /\ ScenarioOf[at] \in ramped
            /\ rate' = [rate EXCEPT ![at] = rampRate[ScenarioOf[at]]]
            /\ pending' = pending \ {at}
            /\ UNCHANGED <<ramped, rampRate, subject>>
        BY <2>5, <3>2 DEF CalibrateAssign
      <4>2. \/ phase' = "teardown" /\ UNCHANGED <<at, role>>
            \/ at = N /\ phase' = "prepare" /\ role' = "cell"
            \/ at # N /\ at' = at + 1 /\ UNCHANGED <<phase, role>>
        BY <2>5, <3>2 DEF CalibrateAssign, NextCalibration, Abort
      <4>3. \A i \in Cells :
              /\ i \in pending' <=> ScenarioOf[i] \in Calibrating /\ rate'[i] = 0
              /\ rate'[i] # 0 => /\ ScenarioOf[i] \in Calibrating \cap ramped
                                /\ rate'[i] = rampRate[ScenarioOf[i]]
        BY <4>1, <3>2
      <4>4. \A i \in 1..at : i \notin pending'
        BY <4>1
      <4>5. Begun' = {}
        BY <4>1
      <4>6. role' = "cell" => pending' = {}
        BY <4>1, <4>2, <4>4
      <4>7. role' = "ramp" /\ phase' = "calibrate" => \A i \in 1..(at' - 1) : i \notin pending'
        BY <4>1, <4>2, <4>4
      <4>8. role' = "ramp" => phase' \in {"calibrate", "teardown"}
        BY <4>1, <4>2
      <4>9. QED
        BY <4>1, <4>3, <4>5, <4>6, <4>7, <4>8
    <3>3. QED
      BY <3>1, <3>2
  <2>6. CASE Prepare
    BY <2>6 DEF Prepare, Fail
  <2>7. CASE PortCheck
    BY <2>7 DEF PortCheck, Fail
  <2>8. CASE StartSubject
    <3>1. CASE role = "ramp"
      <4>1. subject' = subject \/ subject' = [subject EXCEPT ![<<at, "ramp">>] = "booting"]
        BY <2>8, <3>1 DEF StartSubject, cur
      <4>2. ASSUME NEW i \in Cells PROVE subject'[<<i, "cell">>] = subject[<<i, "cell">>]
        <5> HIDE DEF Cells, TypeOK
        <5>1. <<i, "cell">> \in Launch /\ <<i, "cell">> # <<at, "ramp">>
          BY <4>2 DEF Launch
        <5>2. subject \in [Launch -> Alive \cup {"none", "gone"}]
          BY DEF TypeOK
        <5>3. QED
          BY <4>1, <5>1, <5>2
      <4>3. Begun' = Begun
        BY <4>2
      <4>4. QED
        BY <2>8, <3>1, <4>3 DEF StartSubject, Fail
    <3>2. CASE role # "ramp"
      BY <2>8, <3>2 DEF StartSubject, Fail
    <3>3. QED
      BY <3>1, <3>2
  <2>9. CASE RecordArgv
    BY <2>9 DEF RecordArgv, Fail
  <2>10. CASE AwaitReady
    BY <2>10 DEF AwaitReady, StartRamp, Fail
  <2>11. CASE StartCollectors
    BY <2>11 DEF StartCollectors
  <2>12. CASE PassFails
    BY <2>12 DEF PassFails, Fail
  <2>13. CASE WarmUpEnds
    BY <2>13 DEF WarmUpEnds
  <2>14. CASE MeasuredEnds
    BY <2>14 DEF MeasuredEnds
  <2>15. CASE RampEnds
    BY <2>15 DEF RampEnds
  <2>16. CASE StopCollectors
    BY <2>16 DEF StopCollectors
  <2>17. CASE StopSubject
    BY <2>17 DEF StopSubject, Stop
  <2>18. CASE WriteCell
    BY <2>18 DEF WriteCell, AfterWrite, Fail
  <2>19. CASE CooldownEnds
    BY <2>19 DEF CooldownEnds, NextCell
  <2>20. CASE CooldownCancelled
    BY <2>20 DEF CooldownCancelled, Fail
  <2>21. CASE CellReturnsError
    BY <2>21 DEF CellReturnsError, NextCell, Stop
  <2>22. CASE RampReturns
    <3>1. Begun' = Begun
      BY <2>22 DEF RampReturns, Stop, cur, Launch
    <3>2. QED
      BY <2>22, <3>1 DEF RampReturns, Abort
  <2>23. CASE RollUp
    BY <2>23 DEF RollUp
  <2>24. CASE TearDown
    BY <2>24 DEF TearDown, TornDown
  <2>25. CASE Interrupt
    BY <2>25 DEF Interrupt
  <2>26. ASSUME NEW l \in Launch, Boot(l) PROVE RateInv'
    BY <2>26 DEF Boot
  <2>27. ASSUME NEW l \in Launch, SubjectDies(l) PROVE RateInv'
    <3>1. Begun' \subseteq Begun
      BY <2>27 DEF SubjectDies, Alive, Launch
    <3>2. QED
      BY <2>27, <3>1 DEF SubjectDies
  <2>28. ASSUME NEW l \in Launch, KillSubject(l) PROVE RateInv'
    <3>1. Begun' \subseteq Begun
      BY <2>28 DEF KillSubject, Alive, Launch
    <3>2. QED
      BY <2>28, <3>1 DEF KillSubject
  <2>29. CASE KillLoad
    BY <2>29 DEF KillLoad
  <2>30. ASSUME NEW c \in Cells, CollectorsSeeCancel(c) PROVE RateInv'
    BY <2>30 DEF CollectorsSeeCancel
  <2>31. CASE UNCHANGED vars
    BY <2>31 DEF vars
  <2>32. QED
    BY <2>1, <2>2, <2>3, <2>4, <2>5, <2>6, <2>7, <2>8, <2>9, <2>10, <2>11,
       <2>12, <2>13, <2>14, <2>15, <2>16, <2>17, <2>18, <2>19, <2>20, <2>21,
       <2>22, <2>23, <2>24, <2>25, <2>26, <2>27, <2>28, <2>29, <2>30, <2>31
    DEF Next, Drive, Beside
<1>3. QED
  BY <1>1, <1>2, Typing, LoopInvariant, PTL DEF Spec

\* The arms of a scenario are offered one rate, and a measured one where it was asked for.
THEOREM OneRate == Spec => []OneRatePerScenario
<1>1. TypeOK /\ RateInv => OneRatePerScenario
  <2> SUFFICES ASSUME TypeOK, RateInv, NEW i \in Begun, NEW j \in Begun,
                      ScenarioOf[i] = ScenarioOf[j]
               PROVE  /\ rate[i] = rate[j]
                      /\ rate[i] # 0 <=> ScenarioOf[i] \in Calibrating
    BY DEF OneRatePerScenario
  <2>1. pending = {}
    BY DEF TypeOK, RateInv
  <2>2. i \in Cells /\ j \in Cells
    BY DEF Begun
  <2>3. rate[i] # 0 <=> ScenarioOf[i] \in Calibrating
    BY <2>1, <2>2 DEF RateInv
  <2>4. rate[j] # 0 <=> ScenarioOf[j] \in Calibrating
    BY <2>1, <2>2 DEF RateInv
  <2>5. rate[i] = rate[j]
    BY <2>2, <2>3, <2>4 DEF RateInv
  <2>6. QED
    BY <2>3, <2>5
<1>2. QED
  BY <1>1, Typing, RateInvariant, PTL

\* A campaign settles its cells the way CellLedger promises: in plan order, once each,
\* and none after the loop has ended.
THEOREM LedgerKept == Spec => SettlesInPlanOrder
<1> DEFINE entry0  == [i \in Cells |-> IF i \in recorded THEN "result"
                                      ELSE IF i \in failed THEN "failure" ELSE "open"]
           closed0 == phase \in {"rollup", "teardown", "exited"}
<1>1. Init => Ledger!Init
  BY DEF Init, Ledger!Init, Cells
<1>2. TypeOK /\ LoopInv /\ [Next]_vars => [Ledger!Next]_Ledger!lvars
  <2> SUFFICES ASSUME TypeOK, LoopInv, [Next]_vars PROVE [Ledger!Next]_Ledger!lvars
    OBVIOUS
  <2> USE CampaignAssumption
      DEF CampaignAssumption, TypeOK, LoopInv, GoTo, Ledger!Next, Ledger!Close,
          Ledger!lvars, ctl, rates, deps, outcome, history
  <2>1. CASE DepsVisit
    BY <2>1 DEF DepsVisit, StartDeps, NextVisit, SetupFailed, Abort
  <2>2. CASE CalibrateSkip
    BY <2>2 DEF CalibrateSkip, NextCalibration
  <2>3. CASE CalibrateRefused
    BY <2>3 DEF CalibrateRefused, Abort
  <2>4. CASE CalibrateRamp
    BY <2>4 DEF CalibrateRamp
  <2>5. CASE CalibrateAssign
    BY <2>5 DEF CalibrateAssign, NextCalibration, Abort
  <2>6. CASE Prepare
    BY <2>6 DEF Prepare, Fail
  <2>7. CASE PortCheck
    BY <2>7 DEF PortCheck, Fail
  <2>8. CASE StartSubject
    BY <2>8 DEF StartSubject, Fail
  <2>9. CASE RecordArgv
    BY <2>9 DEF RecordArgv, Fail
  <2>10. CASE AwaitReady
    BY <2>10 DEF AwaitReady, StartRamp, Fail
  <2>11. CASE StartCollectors
    BY <2>11 DEF StartCollectors
  <2>12. CASE PassFails
    BY <2>12 DEF PassFails, Fail, Loading
  <2>13. CASE WarmUpEnds
    BY <2>13 DEF WarmUpEnds
  <2>14. CASE MeasuredEnds
    BY <2>14 DEF MeasuredEnds
  <2>15. CASE RampEnds
    BY <2>15 DEF RampEnds
  <2>16. CASE StopCollectors
    BY <2>16 DEF StopCollectors
  <2>17. CASE StopSubject
    BY <2>17 DEF StopSubject
  <2>18. CASE WriteCell
    BY <2>18 DEF WriteCell, AfterWrite, Fail
  <2>19. CASE CooldownEnds
    <3>1. PICK i \in 1..N : i = at
      BY DEF Cells
    <3>2. role = "cell" /\ recorded \cup failed = 1..(i - 1)
      BY <2>19, <3>1 DEF CooldownEnds, InCell
    <3>3. closed0 = FALSE /\ i \notin recorded \cup failed
      BY <2>19, <3>1, <3>2 DEF CooldownEnds
    <3>4. entry0' = [entry0 EXCEPT ![i] = "result"]
      BY <2>19, <3>1, <3>3 DEF CooldownEnds, Cells
    <3>5. i = N => closed0'
      BY <2>19, <3>1 DEF CooldownEnds, NextCell
    <3>6. entry0[i] = "open" /\ \A j \in 1..(i - 1) : entry0[j] # "open"
      BY <3>2, <3>3 DEF Cells
    <3>7. closed0' \in IF i = N THEN {TRUE} ELSE BOOLEAN
      <4>1. closed0' \in BOOLEAN
        OBVIOUS
      <4>2. i = N => closed0' = TRUE
        BY <3>5
      <4>. HIDE DEF closed0
      <4>3. CASE i = N
        BY <4>2, <4>3, Zenon
      <4>4. CASE i # N
        BY <4>1, <4>4, Zenon
      <4>5. QED
        BY <4>3, <4>4
    <3>8. Ledger!Settle(i)
      BY <3>3, <3>4, <3>6, <3>7, Zenon DEF Ledger!Settle
    <3>9. QED
      BY <3>8, Zenon
  <2>20. CASE CooldownCancelled
    BY <2>20 DEF CooldownCancelled, Fail
  <2>21. CASE CellReturnsError
    <3>1. PICK i \in 1..N : i = at
      BY DEF Cells
    <3>2. role = "cell" /\ recorded \cup failed = 1..(i - 1)
      BY <2>21, <3>1 DEF CellReturnsError, InCell
    <3>3. closed0 = FALSE /\ i \notin recorded \cup failed
      BY <2>21, <3>1, <3>2 DEF CellReturnsError
    <3>4. entry0' = [entry0 EXCEPT ![i] = "failure"]
      BY <2>21, <3>1, <3>3 DEF CellReturnsError, Cells
    <3>5. i = N => closed0'
      BY <2>21, <3>1 DEF CellReturnsError, NextCell
    <3>6. entry0[i] = "open" /\ \A j \in 1..(i - 1) : entry0[j] # "open"
      BY <3>2, <3>3 DEF Cells
    <3>7. closed0' \in IF i = N THEN {TRUE} ELSE BOOLEAN
      <4>1. closed0' \in BOOLEAN
        OBVIOUS
      <4>2. i = N => closed0' = TRUE
        BY <3>5
      <4>. HIDE DEF closed0
      <4>3. CASE i = N
        BY <4>2, <4>3, Zenon
      <4>4. CASE i # N
        BY <4>1, <4>4, Zenon
      <4>5. QED
        BY <4>3, <4>4
    <3>8. Ledger!Settle(i)
      BY <3>3, <3>4, <3>6, <3>7, Zenon DEF Ledger!Settle
    <3>9. QED
      BY <3>8, Zenon
  <2>22. CASE RampReturns
    BY <2>22 DEF RampReturns, Abort
  <2>23. CASE RollUp
    BY <2>23 DEF RollUp
  <2>24. CASE TearDown
    BY <2>24 DEF TearDown
  <2>25. CASE Interrupt
    BY <2>25 DEF Interrupt
  <2>26. ASSUME NEW l \in Launch, Boot(l) PROVE [Ledger!Next]_Ledger!lvars
    BY <2>26 DEF Boot
  <2>27. ASSUME NEW l \in Launch, SubjectDies(l) PROVE [Ledger!Next]_Ledger!lvars
    BY <2>27 DEF SubjectDies
  <2>28. ASSUME NEW l \in Launch, KillSubject(l) PROVE [Ledger!Next]_Ledger!lvars
    BY <2>28 DEF KillSubject
  <2>29. CASE KillLoad
    BY <2>29 DEF KillLoad
  <2>30. ASSUME NEW c \in Cells, CollectorsSeeCancel(c) PROVE [Ledger!Next]_Ledger!lvars
    BY <2>30 DEF CollectorsSeeCancel
  <2>31. CASE UNCHANGED vars
    BY <2>31 DEF vars
  <2>32. QED
    BY <2>1, <2>2, <2>3, <2>4, <2>5, <2>6, <2>7, <2>8, <2>9, <2>10, <2>11,
       <2>12, <2>13, <2>14, <2>15, <2>16, <2>17, <2>18, <2>19, <2>20, <2>21,
       <2>22, <2>23, <2>24, <2>25, <2>26, <2>27, <2>28, <2>29, <2>30, <2>31
    DEF Next, Drive, Beside
<1>3. QED
  BY <1>1, <1>2, Typing, LoopInvariant, PTL DEF Spec, SettlesInPlanOrder, Ledger!Spec

\* LaunchInv holds: a launch still to come has not been made, and a stop is owed exactly
\* while a subject that was started awaits it.
THEOREM LaunchInvariant == Spec => []LaunchInv
<1>1. Init => LaunchInv
  BY Positions, Current DEF Init, LaunchInv, Launch, Holding, Loading
<1>2. TypeOK /\ TypeOK' /\ LoopInv /\ DepsInv /\ RateInv /\ LaunchInv /\ [Next]_vars => LaunchInv'
  <2> SUFFICES ASSUME TypeOK, at' \in Cells, role' \in {"ramp", "cell"}, LoopInv, DepsInv,
                      RateInv, LaunchInv, [Next]_vars
               PROVE  LaunchInv'
    BY DEF TypeOK
  <2>0. \A i \in Cells : i \in Int /\ i <= N /\ \A r \in {"ramp", "cell"} : <<i, r>> \in Launch
    BY CampaignAssumption DEF CampaignAssumption, Cells, Launch
  <2> USE <2>0, CampaignAssumption, Positions, Current
      DEF LaunchInv, LoopInv, TypeOK, Holding, Loading, cur, GoTo, ctl, handle, rates, deps,
          outcome, history
  <2>33. ASSUME \A l \in Launch : subject[l] = "none" => subject'[l] = "none", ~owed',
                role' = role, at' = at + 1, phase' \in {"calibrate", "prepare"}
         PROVE  LaunchInv'
    <3>1. ASSUME NEW i \in Cells, i >= at' PROVE subject'[<<i, role>>] = "none"
      <4>1. i > at
        BY <2>33, <3>1
      <4>2. QED
        BY <2>33, <4>1
    <3>2. QED
      BY <2>33, <3>1
  <2>34. ASSUME \A l \in Launch : subject[l] = "none" => subject'[l] = "none", ~owed',
                UNCHANGED <<at, role>>, phase' \in {"write", "rollup", "teardown"}
         PROVE  LaunchInv'
    BY <2>34
  <2>35. ASSUME phase = "calibrate", subject' = subject, ~owed', NextCalibration
         PROVE  LaunchInv'
    <3>1. CASE at = N
      <4>1. \A i \in Cells : subject'[<<i, "cell">>] = "none"
        BY <2>35 DEF RateInv, Begun
      <4>2. phase' = "prepare" /\ at' = 1 /\ role' = "cell"
        BY <2>35, <3>1 DEF NextCalibration
      <4>3. QED
        BY <2>35, <4>1, <4>2
    <3>2. CASE at # N
      BY <2>33, <2>35, <3>2 DEF NextCalibration
    <3>3. QED
      BY <3>1, <3>2
  <2>36. (IF owed THEN Stop ELSE UNCHANGED <<owed, subject>>) =>
           ~owed' /\ \A l \in Launch : subject[l] = "none" => subject'[l] = "none"
    BY DEF Stop
  <2>1. CASE DepsVisit
    <3>1. \A l \in Launch : subject'[l] = "none"
      BY <2>1 DEF DepsVisit, DepsInv
    <3>2. phase' \in {"deps", "calibrate", "teardown"} /\ ~owed' /\ role' = role
      BY <2>1 DEF DepsVisit, StartDeps, NextVisit, SetupFailed, Abort
    <3>3. QED
      BY <3>1, <3>2
  <2>2. CASE CalibrateSkip
    BY <2>35, <2>2 DEF CalibrateSkip
  <2>3. CASE CalibrateRefused
    BY <2>3 DEF CalibrateRefused, Abort
  <2>4. CASE CalibrateRamp
    BY <2>4 DEF CalibrateRamp, NeedsRamp
  <2>5. CASE CalibrateAssign
    <3>1. phase = "calibrate" /\ subject' = subject /\ ~owed'
      BY <2>5 DEF CalibrateAssign
    <3>2. NextCalibration \/ (phase' = "teardown" /\ UNCHANGED <<at, role>>)
      BY <2>5 DEF CalibrateAssign, Abort
    <3>3. QED
      BY <2>34, <2>35, <3>1, <3>2
  <2>6. CASE Prepare
    BY <2>6 DEF Prepare, Fail
  <2>7. CASE PortCheck
    BY <2>7 DEF PortCheck, Fail
  <2>8. CASE StartSubject
    <3>1. CASE Fail /\ UNCHANGED <<subject, handle>>
      BY <2>8, <3>1 DEF StartSubject, Fail
    <3>2. CASE /\ subject' = [subject EXCEPT ![cur] = "booting"]
               /\ owed' = (role = "ramp")
               /\ GoTo(IF role = "ramp" THEN "await" ELSE "argv")
      <4>1. subject'[cur] = "booting"
        BY <3>2
      <4>2. ASSUME NEW i \in Cells, i > at PROVE subject'[<<i, role>>] = "none"
        <5>0. i \in Int /\ at \in Int /\ <<i, role>> \in Launch
          BY <2>0 DEF TypeOK
        <5>1. subject[<<i, role>>] = "none" /\ i # at
          BY <4>2, <5>0 DEF LaunchInv
        <5>2. <<i, role>> # cur
          BY <5>1
        <5>3. QED
          BY <3>2, <5>0, <5>1, <5>2
      <4>3. phase = "start" /\ UNCHANGED <<at, role>>
        BY <2>8, <3>2, Zenon DEF StartSubject, GoTo
      <4>4. CASE role = "ramp"
        BY <3>2, <4>1, <4>2, <4>3, <4>4
      <4>5. CASE role # "ramp"
        BY <3>2, <4>1, <4>2, <4>3, <4>5
      <4>6. QED
        BY <4>4, <4>5
    <3>3. QED
      BY <2>8, <3>1, <3>2, Zenon DEF StartSubject
  <2>9. CASE RecordArgv
    <3>1. phase = "argv" /\ UNCHANGED <<at, role, subject>>
      BY <2>9, Zenon DEF RecordArgv, Fail, GoTo
    <3>2. \/ phase' = "await" /\ owed' = TRUE
          \/ phase' = "unwind" /\ UNCHANGED owed
      BY <2>9, Zenon DEF RecordArgv, Fail, GoTo
    <3>3. QED
      BY <3>1, <3>2
  <2>10. CASE AwaitReady
    <3>1. phase = "await" /\ UNCHANGED <<at, role, subject, owed, ramped>>
      BY <2>10, Zenon DEF AwaitReady, StartRamp, Fail, GoTo, handle, rates
    <3>2. phase' \in {"ramp", "collect", "unwind"}
      BY <2>10 DEF AwaitReady, StartRamp, Fail
    <3>3. QED
      BY <3>1, <3>2
  <2>11. CASE StartCollectors
    BY <2>11 DEF StartCollectors
  <2>12. CASE PassFails
    BY <2>12 DEF PassFails, Fail
  <2>13. CASE WarmUpEnds
    BY <2>13 DEF WarmUpEnds
  <2>14. CASE MeasuredEnds
    BY <2>14 DEF MeasuredEnds
  <2>15. CASE RampEnds
    BY <2>15 DEF RampEnds
  <2>16. CASE StopCollectors
    BY <2>16 DEF StopCollectors
  <2>17. CASE StopSubject
    <3>1. ~owed' /\ \A l \in Launch : subject[l] = "none" => subject'[l] = "none"
      BY <2>36, <2>17 DEF StopSubject
    <3>2. QED
      BY <2>34, <3>1, <2>17 DEF StopSubject
  <2>18. CASE WriteCell
    BY <2>18 DEF WriteCell, AfterWrite, Fail
  <2>19. CASE CooldownEnds
    <3>1. ~owed' /\ subject' = subject
      BY <2>19 DEF CooldownEnds
    <3>2. QED
      BY <2>33, <2>34, <3>1, <2>19 DEF CooldownEnds, NextCell
  <2>20. CASE CooldownCancelled
    BY <2>20 DEF CooldownCancelled, Fail
  <2>21. CASE CellReturnsError
    <3>1. ~owed' /\ \A l \in Launch : subject[l] = "none" => subject'[l] = "none"
      BY <2>36, <2>21 DEF CellReturnsError
    <3>2. QED
      BY <2>33, <2>34, <3>1, <2>21 DEF CellReturnsError, NextCell
  <2>22. CASE RampReturns
    <3>1. ~owed' /\ \A l \in Launch : subject[l] = "none" => subject'[l] = "none"
      BY <2>36, <2>22 DEF RampReturns
    <3>2. CASE ScenarioOf[at] \in ramped
      BY <3>1, <3>2, <2>22 DEF RampReturns
    <3>3. CASE ScenarioOf[at] \notin ramped
      BY <2>34, <3>1, <3>3, <2>22 DEF RampReturns, Abort
    <3>4. QED
      BY <3>2, <3>3
  <2>23. CASE RollUp
    BY <2>23 DEF RollUp
  <2>24. CASE TearDown
    BY <2>24 DEF TearDown
  <2>25. CASE Interrupt
    BY <2>25 DEF Interrupt
  <2>26. ASSUME NEW l \in Launch, Boot(l) PROVE LaunchInv'
    <3>1. \A k \in Launch : subject'[k] = "none" <=> subject[k] = "none"
      BY <2>26 DEF Boot, Alive
    <3>2. QED
      BY <3>1, <2>26 DEF Boot
  <2>27. ASSUME NEW l \in Launch, SubjectDies(l) PROVE LaunchInv'
    <3>1. \A k \in Launch : subject'[k] = "none" <=> subject[k] = "none"
      BY <2>27 DEF SubjectDies, Alive
    <3>2. QED
      BY <3>1, <2>27 DEF SubjectDies
  <2>28. ASSUME NEW l \in Launch, KillSubject(l) PROVE LaunchInv'
    <3>1. \A k \in Launch : subject'[k] = "none" <=> subject[k] = "none"
      BY <2>28 DEF KillSubject, Alive
    <3>2. QED
      BY <3>1, <2>28 DEF KillSubject
  <2>29. CASE KillLoad
    BY <2>29 DEF KillLoad
  <2>30. ASSUME NEW c \in Cells, CollectorsSeeCancel(c) PROVE LaunchInv'
    BY <2>30 DEF CollectorsSeeCancel
  <2>31. CASE UNCHANGED vars
    BY <2>31 DEF vars
  <2>37. QED
    BY <2>1, <2>2, <2>3, <2>4, <2>5, <2>6, <2>7, <2>8, <2>9, <2>10, <2>11,
       <2>12, <2>13, <2>14, <2>15, <2>16, <2>17, <2>18, <2>19, <2>20, <2>21,
       <2>22, <2>23, <2>24, <2>25, <2>26, <2>27, <2>28, <2>29, <2>30, <2>31
    DEF Next, Drive, Beside
<1>3. QED
  BY <1>1, <1>2, Typing, LoopInvariant, DepsInvariant, RateInvariant, PTL DEF Spec

\* What is left as it was, in the code's hands or out of them, has not moved for the contract.
LEMMA LaunchStays ==
  ASSUME NEW l \in Launch, UNCHANGED <<setup, ctxDone>>, subject'[l] = subject[l],
         Held(l) <=> Held(l)', Held(l) => pid' = pid
  PROVE  UNCHANGED Handle(l)!hvars
BY DEF Handle!hvars, Remote, Can

\* What becomes of the subject of a stop is what the contract of exec.Stop allows.
LEMMA LaunchStops ==
  ASSUME TypeOK, UNCHANGED <<setup, ctxDone>>, NEW l \in Launch, l = cur, owed,
         subject[l] # "none", Stop, phase' # "argv"
  PROVE  Handle(l)!StopReturns
<1>1. Held(l) /\ ~Held(l)' /\ subject[l] \in Alive \cup {"gone"}
  BY DEF Held, Stop, TypeOK
<1>2. CASE pid /\ subject' = [subject EXCEPT ![cur] = "gone"]
  <2>1. subject'[l] = "gone"
    BY <1>2 DEF TypeOK
  <2>2. QED
    BY <1>1, <1>2, <2>1 DEF Handle!StopReturns, Handle!Left, Remote, Can
<1>3. CASE /\ pid /\ Remote /\ subject[cur] \in Alive
           /\ Can("session") \/ ctxDone
           /\ subject' = [subject EXCEPT ![cur] = "draining"]
  <2>1. subject'[l] = "draining"
    BY <1>3 DEF TypeOK
  <2>2. QED
    BY <1>1, <1>3, <2>1 DEF Handle!StopReturns, Handle!Left, Remote, Can, Alive
<1>4. CASE (~pid \/ (Remote /\ Can("session"))) /\ UNCHANGED subject
  BY <1>1, <1>4 DEF Handle!StopReturns, Handle!Left, Remote, Can
<1>5. QED
  BY <1>2, <1>3, <1>4, Zenon DEF Stop

\* Nor is it less: whatever the contract lets a stop leave behind, the campaign is checked
\* against.
THEOREM StopIsTheContracts ==
  ASSUME TypeOK, NEW l \in Launch, l = cur, owed, subject[l] # "none", owed' = FALSE,
         NEW x \in {"draining", "gone", subject[l]},
         Handle(l)!Left(IF x \in {"booting", "serving"} THEN "up" ELSE x),
         subject' = [subject EXCEPT ![cur] = x]
  PROVE  Stop
<1>1. Held(l) /\ subject[l] \in Alive \cup {"gone"}
  BY DEF Held, TypeOK
<1>2. QED
  BY <1>1 DEF Stop, Handle!Left, Remote, Can, TypeOK, Alive

\* A subject run by the campaign is the subject of the contract the two process modules keep:
\* launched once, stopped once, and left as its stop may leave it (LaunchesAreSubjects).
THEOREM LaunchesKeepTheContract == Spec => LaunchesAreSubjects
<1>1. ASSUME TypeOK, LaunchInv, [Next]_vars, ~Can("argv"), NEW l \in Launch
      PROVE  Handle(l)!Next \/ UNCHANGED Handle(l)!hvars
  <2>0. UNCHANGED setup
    BY <1>1, SetupStays
  <2> USE <1>1, <2>0
      DEF LaunchInv, Holding, Loading, cur, GoTo, ctl, handle, rates, deps, outcome, history
  <2>33. cur \in Launch /\ subject \in [Launch -> Alive \cup {"none", "gone"}]
    BY Current DEF TypeOK
  <2>34. ASSUME ~owed, ~owed', phase # "argv", phase' # "argv", UNCHANGED <<ctxDone, subject>>
         PROVE  UNCHANGED Handle(l)!hvars
    BY <2>34, LaunchStays DEF Held
  <2>35. ASSUME UNCHANGED <<ctxDone, owed, pid, at, role>>, subject'[l] = subject[l],
                phase = "argv" <=> phase' = "argv"
         PROVE  UNCHANGED Handle(l)!hvars
    BY <2>35, LaunchStays DEF Held, cur
  <2>36. ASSUME owed, Stop, phase' # "argv", UNCHANGED <<pid, ctxDone>>
         PROVE  Handle(l)!Next \/ UNCHANGED Handle(l)!hvars
    <3>1. CASE l = cur
      BY <2>36, <3>1, LaunchStops DEF Handle!Next
    <3>2. CASE l # cur
      <4>1. subject'[l] = subject[l] /\ ~owed'
        BY <2>33, <2>36, <3>2 DEF Stop
      <4>2. ~Held(l) /\ ~Held(l)'
        BY <2>36, <3>2, <4>1 DEF Held
      <4>3. QED
        BY <2>36, <4>1, <4>2, LaunchStays
    <3>3. QED
      BY <3>1, <3>2
  <2>37. ASSUME subject[l] \in Alive, subject' = [subject EXCEPT ![l] = "gone"],
                UNCHANGED <<ctl, ctxDone, handle>>
         PROVE  Handle(l)!Next
    <3>1. subject'[l] = "gone"
      BY <2>33, <2>37
    <3>2. QED
      BY <2>37, <3>1 DEF Handle!Next, Handle!Ends, Held, cur, Remote, Can, Alive
  <2>1. CASE DepsVisit
    BY <2>34, <2>1 DEF DepsVisit, StartDeps, NextVisit, SetupFailed, Abort
  <2>2. CASE CalibrateSkip
    BY <2>34, <2>2 DEF CalibrateSkip, NextCalibration
  <2>3. CASE CalibrateRefused
    BY <2>34, <2>3 DEF CalibrateRefused, Abort
  <2>4. CASE CalibrateRamp
    BY <2>34, <2>4 DEF CalibrateRamp
  <2>5. CASE CalibrateAssign
    BY <2>34, <2>5 DEF CalibrateAssign, NextCalibration, Abort
  <2>6. CASE Prepare
    BY <2>34, <2>6 DEF Prepare, Fail
  <2>7. CASE PortCheck
    BY <2>34, <2>7 DEF PortCheck, Fail
  <2>8. CASE StartSubject
    <3>1. CASE Fail /\ UNCHANGED <<subject, handle>>
      BY <2>34, <2>8, <3>1 DEF StartSubject, Fail
    <3>2. CASE /\ subject' = [subject EXCEPT ![cur] = "booting"]
               /\ pid' \in IF Remote /\ (Can("pid") \/ ctxDone) THEN BOOLEAN ELSE {TRUE}
               /\ owed' = (role = "ramp")
               /\ GoTo(IF role = "ramp" THEN "await" ELSE "argv")
      <4>1. subject'[cur] = "booting" /\ UNCHANGED <<at, role>>
        BY <2>33, <3>2
      <4>2. CASE l = cur
        <5>0. phase = "start" /\ UNCHANGED ctxDone
          BY <2>8, Zenon DEF StartSubject
        <5>1. subject[l] = "none"
          BY <4>2, <5>0
        <5>2. Held(l)'
          BY <3>2, <4>1, <4>2 DEF Held
        <5>3. Remote \/ pid' = TRUE
          BY <3>2
        <5>4. Handle(l)!Launch
          BY <4>1, <4>2, <5>0, <5>1, <5>2, <5>3 DEF Handle!Launch, Handle!Started, Remote, Can
        <5>5. QED
          BY <5>4 DEF Handle!Next
      <4>3. CASE l # cur
        <5>1. subject'[l] = subject[l] /\ UNCHANGED ctxDone
          BY <2>8, <3>2, <4>3 DEF StartSubject
        <5>2. ~Held(l) /\ ~Held(l)'
          BY <4>1, <4>3 DEF Held
        <5>3. QED
          BY <5>1, <5>2, LaunchStays
      <4>4. QED
        BY <4>2, <4>3
    <3>3. QED
      BY <2>8, <3>1, <3>2, Zenon DEF StartSubject
  <2>9. CASE RecordArgv
    <3>1. /\ phase = "argv" /\ phase' = "await" /\ owed'
          /\ UNCHANGED <<at, role, subject, pid, ctxDone>>
      BY <2>9 DEF RecordArgv, Fail
    <3>2. Held(l) <=> Held(l)'
      BY <3>1 DEF Held
    <3>3. QED
      BY <3>1, <3>2, LaunchStays
  <2>10. CASE AwaitReady
    BY <2>35, <2>10 DEF AwaitReady, StartRamp, Fail
  <2>11. CASE StartCollectors
    BY <2>35, <2>11 DEF StartCollectors
  <2>12. CASE PassFails
    BY <2>35, <2>12 DEF PassFails, Fail
  <2>13. CASE WarmUpEnds
    BY <2>35, <2>13 DEF WarmUpEnds
  <2>14. CASE MeasuredEnds
    BY <2>35, <2>14 DEF MeasuredEnds
  <2>15. CASE RampEnds
    BY <2>35, <2>15 DEF RampEnds
  <2>16. CASE StopCollectors
    BY <2>35, <2>16 DEF StopCollectors
  <2>17. CASE StopSubject
    <3>1. owed /\ Stop /\ phase' # "argv" /\ UNCHANGED <<pid, ctxDone>>
      BY <2>17 DEF StopSubject
    <3>2. QED
      BY <2>36, <3>1
  <2>18. CASE WriteCell
    BY <2>34, <2>18 DEF WriteCell, AfterWrite, Fail
  <2>19. CASE CooldownEnds
    BY <2>34, <2>19 DEF CooldownEnds, NextCell
  <2>20. CASE CooldownCancelled
    BY <2>34, <2>20 DEF CooldownCancelled, Fail
  <2>21. CASE CellReturnsError
    <3>1. /\ IF owed THEN Stop ELSE UNCHANGED <<owed, subject>>
          /\ phase = "unwind" /\ phase' # "argv" /\ UNCHANGED <<pid, ctxDone>>
      BY <2>21 DEF CellReturnsError, NextCell
    <3>2. CASE owed
      BY <2>36, <3>1, <3>2
    <3>3. CASE ~owed
      BY <2>34, <3>1, <3>3
    <3>4. QED
      BY <3>2, <3>3
  <2>22. CASE RampReturns
    <3>1. /\ IF owed THEN Stop ELSE UNCHANGED <<owed, subject>>
          /\ phase = "unwind" /\ phase' # "argv" /\ UNCHANGED <<pid, ctxDone>>
      BY <2>22 DEF RampReturns, Abort
    <3>2. CASE owed
      BY <2>36, <3>1, <3>2
    <3>3. CASE ~owed
      BY <2>34, <3>1, <3>3
    <3>4. QED
      BY <3>2, <3>3
  <2>23. CASE RollUp
    BY <2>34, <2>23 DEF RollUp
  <2>24. CASE TearDown
    BY <2>34, <2>24 DEF TearDown
  <2>25. CASE Interrupt
    <3>1. ~ctxDone /\ ctxDone' = TRUE /\ UNCHANGED <<phase, at, role, subject, owed, pid>>
      BY <2>25 DEF Interrupt
    <3>2. QED
      BY <3>1 DEF Handle!Next, Handle!Interrupt, Held, Remote, Can
  <2>26. ASSUME NEW k \in Launch, Boot(k) PROVE Handle(l)!Next \/ UNCHANGED Handle(l)!hvars
    <3>1. /\ subject[k] = "booting"
          /\ subject' = [subject EXCEPT ![k] = IF Serving = {} THEN "serving" ELSE "gone"]
          /\ UNCHANGED <<ctl, ctxDone, handle>>
      BY <2>26 DEF Boot
    <3>2. CASE Serving = {} /\ k = l
      <4>1. subject[l] = "booting" /\ subject'[l] = "serving"
        BY <2>33, <3>1, <3>2
      <4>2. QED
        BY <3>1, <4>1 DEF Handle!hvars, Held, Remote, Can
    <3>3. CASE Serving # {} /\ k = l
      <4>1. subject[l] = "booting" /\ subject'[l] = "gone"
        BY <2>33, <3>1, <3>3
      <4>2. QED
        BY <2>37, <3>1, <3>3, <4>1 DEF Alive
    <3>4. CASE k # l
      BY <2>35, <3>1, <3>4
    <3>5. QED
      BY <3>2, <3>3, <3>4
  <2>27. ASSUME NEW k \in Launch, SubjectDies(k) PROVE Handle(l)!Next \/ UNCHANGED Handle(l)!hvars
    <3>1. subject[k] \in Alive /\ subject' = [subject EXCEPT ![k] = "gone"] /\ UNCHANGED <<ctl, ctxDone, handle>>
      BY <2>27 DEF SubjectDies
    <3>2. CASE k = l
      BY <2>37, <3>1, <3>2
    <3>3. CASE k # l
      BY <2>35, <3>1, <3>3
    <3>4. QED
      BY <3>2, <3>3
  <2>28. ASSUME NEW k \in Launch, KillSubject(k) PROVE Handle(l)!Next \/ UNCHANGED Handle(l)!hvars
    <3>1. subject[k] \in Alive /\ subject' = [subject EXCEPT ![k] = "gone"] /\ UNCHANGED <<ctl, ctxDone, handle>>
      BY <2>28 DEF KillSubject
    <3>2. CASE k = l
      BY <2>37, <3>1, <3>2
    <3>3. CASE k # l
      BY <2>35, <3>1, <3>3
    <3>4. QED
      BY <3>2, <3>3
  <2>29. CASE KillLoad
    BY <2>35, <2>29 DEF KillLoad
  <2>30. ASSUME NEW c \in Cells, CollectorsSeeCancel(c) PROVE Handle(l)!Next \/ UNCHANGED Handle(l)!hvars
    BY <2>35, <2>30 DEF CollectorsSeeCancel
  <2>31. CASE UNCHANGED vars
    BY <2>35, <2>31 DEF vars
  <2>38. QED
    BY <2>1, <2>2, <2>3, <2>4, <2>5, <2>6, <2>7, <2>8, <2>9, <2>10, <2>11,
       <2>12, <2>13, <2>14, <2>15, <2>16, <2>17, <2>18, <2>19, <2>20, <2>21,
       <2>22, <2>23, <2>24, <2>25, <2>26, <2>27, <2>28, <2>29, <2>30, <2>31
    DEF Next, Drive, Beside
<1>2. TypeOK /\ LaunchInv /\ [Next]_vars
        => [~Can("argv") => \A l \in Launch : Handle(l)!Next \/ UNCHANGED Handle(l)!hvars]_vars
  BY <1>1
<1>3. QED
  BY <1>2, Typing, LaunchInvariant, PTL DEF Spec, LaunchesAreSubjects

\* How far off the end is, phase by phase.
LEMMA StepsAhead ==
  /\ Ahead("unwind") = 1 /\ Ahead("cooldown") = 2 /\ Ahead("write") = 3 /\ Ahead("stop") = 4
  /\ Ahead("stopCollectors") = 5 /\ Ahead("measured") = 6 /\ Ahead("warmup") = 7
  /\ Ahead("collect") = 8 /\ Ahead("ramp") = 8 /\ Ahead("await") = 9 /\ Ahead("argv") = 10
  /\ Ahead("start") = 11 /\ Ahead("portCheck") = 12 /\ Ahead("prepare") = 13
BY DEF Ahead

LEMMA StepsOutside ==
  ASSUME NEW i, NEW r, NEW done
  PROVE  /\ StepsLeft("exited", i, r, done) = 0
         /\ StepsLeft("teardown", i, r, done) = 1
         /\ StepsLeft("rollup", i, r, done) = 2
         /\ StepsLeft("deps", i, r, done) = 3 + 28 * N + (N - i)
         /\ StepsLeft("calibrate", i, r, done) = RampSteps(i) + (IF done THEN 0 ELSE 14)
BY DEF StepsLeft

LEMMA StepsInside ==
  ASSUME NEW p \in InCell \cup {"ramp", "cooldown"}, NEW i, NEW r, NEW done
  PROVE  StepsLeft(p, i, r, done) = Ahead(p) + (IF r = "cell" THEN CellSteps(i) ELSE RampSteps(i))
BY DEF StepsLeft, InCell

LEMMA AheadRange == \A p \in InCell \cup {"ramp", "cooldown"} : Ahead(p) \in 1..13
<1> SUFFICES ASSUME NEW p \in InCell \cup {"ramp", "cooldown"} PROVE Ahead(p) \in 1..13
  OBVIOUS
<1>1. CASE p \in {"unwind", "cooldown", "write", "stop", "stopCollectors"}
  BY <1>1, StepsAhead
<1>2. CASE p \in {"measured", "warmup", "collect", "ramp", "await"}
  BY <1>2, StepsAhead
<1>3. CASE p \in {"argv", "start", "portCheck", "prepare"}
  BY <1>3, StepsAhead
<1>4. QED
  BY <1>1, <1>2, <1>3 DEF InCell

\* A campaign begins at most 29 N + 2 steps of its orchestrator from its end.
THEOREM BoundedCampaign == Spec => [](Rank \in 0..(29 * N + 2))
<1>1. TypeOK => Rank \in 0..(29 * N + 2)
  <2> SUFFICES ASSUME TypeOK PROVE Rank \in 0..(29 * N + 2)
    OBVIOUS
  <2>1. N \in Nat /\ at \in 1..N
    BY CampaignAssumption DEF CampaignAssumption, TypeOK, Cells
  <2>2. /\ CellSteps(at) \in 2..(13 * N - 11) /\ RampSteps(at) \in 3..(28 * N - 12)
    BY <2>1 DEF CellSteps, RampSteps
  <2>3. CASE phase \in InCell \cup {"ramp", "cooldown"}
    <3>1. Ahead(phase) \in 1..13
      BY <2>3, AheadRange
    <3>2. Rank = Ahead(phase) + (IF role = "cell" THEN CellSteps(at) ELSE RampSteps(at))
      BY <2>3, StepsInside, Zenon DEF Rank
    <3>3. QED
      BY <2>1, <2>2, <3>1, <3>2
  <2>4. CASE phase \in {"deps", "calibrate", "rollup", "teardown", "exited"}
    BY <2>1, <2>2, <2>4, StepsOutside DEF Rank
  <2>5. QED
    BY <2>3, <2>4 DEF TypeOK, Phases
<1>2. QED
  BY <1>1, Typing, PTL

\* Every step of the orchestrator brings the end of the campaign nearer (WindsDown).
THEOREM CampaignWindsDown == Spec => WindsDown
<1>1. ASSUME TypeOK, at' \in Cells, LoopInv, Drive
      PROVE  Rank' < Rank
  <2>0. N \in Nat /\ N # 0 /\ at \in 1..N /\ at' \in 1..N
    BY <1>1, CampaignAssumption DEF CampaignAssumption, TypeOK, Cells
  <2> USE <1>1 DEF GoTo, ctl, rates, deps, outcome, history
  <2>33. \A i \in 1..N : /\ CellSteps(i) \in 2..(13 * N - 11)
                         /\ RampSteps(i) \in 3..(28 * N - 12)
    BY <2>0 DEF CellSteps, RampSteps
  <2>34. ASSUME UNCHANGED <<at, role>>, phase \in InCell \cup {"ramp", "cooldown"},
                phase' \in InCell \cup {"ramp", "cooldown"}, Ahead(phase') < Ahead(phase)
         PROVE  Rank' < Rank
    <3> DEFINE r == IF role = "cell" THEN CellSteps(at) ELSE RampSteps(at)
    <3>1. Rank = Ahead(phase) + r /\ Rank' = Ahead(phase') + r
      BY <2>34, StepsInside, Zenon DEF Rank
    <3>2. r \in Int /\ Ahead(phase) \in Int /\ Ahead(phase') \in Int
      BY <2>0, <2>33, <2>34, AheadRange
    <3> HIDE DEF r
    <3>3. QED
      BY <2>34, <3>1, <3>2
  <2>35. ASSUME phase = "calibrate", phase' = "teardown" PROVE Rank' < Rank
    BY <2>0, <2>33, <2>35, StepsOutside DEF Rank
  <2>36. ASSUME phase = "calibrate", NextCalibration, UNCHANGED ramped PROVE Rank' < Rank
    <3>1. CASE at = N
      <4>1. phase' = "prepare" /\ at' = 1 /\ role' = "cell"
        BY <2>36, <3>1 DEF NextCalibration
      <4>2. Rank' = 13 + CellSteps(1)
        BY <4>1, StepsInside, StepsAhead DEF Rank, InCell
      <4>3. Rank = RampSteps(at) \/ Rank = RampSteps(at) + 14
        BY <2>0, <2>33, <2>36, StepsOutside DEF Rank
      <4>4. QED
        BY <2>0, <4>2, <4>3 DEF RampSteps, CellSteps
    <3>2. CASE at # N
      <4>1. phase' = "calibrate" /\ at' = at + 1
        BY <2>36, <3>2 DEF NextCalibration
      <4>2. Rank' = RampSteps(at + 1) \/ Rank' = RampSteps(at + 1) + 14
        BY <2>0, <2>33, <4>1, StepsOutside DEF Rank
      <4>3. Rank = RampSteps(at) \/ Rank = RampSteps(at) + 14
        BY <2>0, <2>33, <2>36, StepsOutside DEF Rank
      <4>4. QED
        BY <2>0, <4>2, <4>3 DEF RampSteps
    <3>3. QED
      BY <3>1, <3>2
  <2>37. ASSUME phase \in {"unwind", "cooldown"}, role = "cell", NextCell PROVE Rank' < Rank
    <3>1. Rank = Ahead(phase) + CellSteps(at) /\ Ahead(phase) \in {1, 2}
      BY <2>37, StepsInside, StepsAhead DEF Rank, InCell
    <3>2. CASE phase' = "rollup"
      BY <2>0, <2>33, <3>1, <3>2, StepsOutside DEF Rank
    <3>3. CASE phase' = "prepare" /\ at' = at + 1 /\ role' = role
      <4>1. Rank' = 13 + CellSteps(at + 1)
        BY <2>37, <3>3, StepsInside, StepsAhead DEF Rank, InCell
      <4>2. QED
        BY <2>0, <3>1, <4>1 DEF CellSteps
    <3>4. QED
      BY <2>37, <3>2, <3>3 DEF NextCell
  <2>1. CASE DepsVisit
    <3>1. /\ phase = "deps" /\ role' = role
          /\ \/ phase' = "teardown"
             \/ at = N /\ phase' = "calibrate" /\ at' = 1
             \/ phase' = "deps" /\ at' = at + 1
      BY <2>1 DEF DepsVisit, StartDeps, NextVisit, SetupFailed, Abort
    <3>2. QED
      BY <2>0, <3>1, StepsOutside DEF Rank, RampSteps
  <2>2. CASE CalibrateSkip
    BY <2>36, <2>2 DEF CalibrateSkip
  <2>3. CASE CalibrateRefused
    BY <2>35, <2>3 DEF CalibrateRefused, Abort
  <2>4. CASE CalibrateRamp
    <3>1. /\ phase = "calibrate" /\ phase' = "prepare" /\ UNCHANGED <<at, role>>
          /\ ScenarioOf[at] \notin ramped
      BY <2>4 DEF CalibrateRamp, NeedsRamp
    <3>2. Rank = RampSteps(at) + 14
      BY <3>1, StepsOutside DEF Rank
    <3>3. role # "cell"
      BY <3>1 DEF LoopInv
    <3>4. Rank' = 13 + RampSteps(at)
      BY <3>1, <3>3, StepsInside, StepsAhead DEF Rank, InCell
    <3>5. QED
      BY <2>0, <3>2, <3>4 DEF RampSteps
  <2>5. CASE CalibrateAssign
    BY <2>35, <2>36, <2>5 DEF CalibrateAssign, Abort
  <2>6. CASE Prepare
    BY <2>34, StepsAhead, <2>6 DEF Prepare, Fail, Loading, InCell
  <2>7. CASE PortCheck
    BY <2>34, StepsAhead, <2>7 DEF PortCheck, Fail, Loading, InCell
  <2>8. CASE StartSubject
    <3>1. phase = "start" /\ phase' \in {"await", "argv", "unwind"} /\ UNCHANGED <<at, role>>
      BY <2>8 DEF StartSubject, Fail
    <3>2. QED
      BY <2>34, <3>1, StepsAhead DEF InCell
  <2>9. CASE RecordArgv
    BY <2>34, StepsAhead, <2>9 DEF RecordArgv, Fail, Loading, InCell
  <2>10. CASE AwaitReady
    BY <2>34, StepsAhead, <2>10 DEF AwaitReady, StartRamp, Fail, Loading, InCell
  <2>11. CASE StartCollectors
    BY <2>34, StepsAhead, <2>11 DEF StartCollectors, Loading, InCell
  <2>12. CASE PassFails
    BY <2>34, StepsAhead, <2>12 DEF PassFails, Fail, Loading, InCell
  <2>13. CASE WarmUpEnds
    BY <2>34, StepsAhead, <2>13 DEF WarmUpEnds, Loading, InCell
  <2>14. CASE MeasuredEnds
    BY <2>34, StepsAhead, <2>14 DEF MeasuredEnds, Loading, InCell
  <2>15. CASE RampEnds
    BY <2>34, StepsAhead, <2>15 DEF RampEnds, Loading, InCell
  <2>16. CASE StopCollectors
    BY <2>34, StepsAhead, <2>16 DEF StopCollectors, Loading, InCell
  <2>17. CASE StopSubject
    BY <2>34, StepsAhead, <2>17 DEF StopSubject, Loading, InCell
  <2>18. CASE WriteCell
    BY <2>34, StepsAhead, <2>18 DEF WriteCell, AfterWrite, Fail, Loading, InCell
  <2>19. CASE CooldownEnds
    BY <2>37, <2>19 DEF CooldownEnds, LoopInv
  <2>20. CASE CooldownCancelled
    BY <2>34, StepsAhead, <2>20 DEF CooldownCancelled, Fail, Loading, InCell
  <2>21. CASE CellReturnsError
    BY <2>37, <2>21 DEF CellReturnsError
  <2>22. CASE RampReturns
    <3>1. /\ phase = "unwind" /\ role = "ramp" /\ UNCHANGED <<at, role, ramped>>
          /\ phase' = "teardown" \/ (phase' = "calibrate" /\ ScenarioOf[at] \in ramped)
      BY <2>22 DEF RampReturns, Abort
    <3>2. Rank = 1 + RampSteps(at)
      BY <3>1, StepsInside, StepsAhead DEF Rank, InCell
    <3>3. CASE phase' = "teardown"
      BY <2>0, <2>33, <3>2, <3>3, StepsOutside DEF Rank
    <3>4. CASE phase' = "calibrate" /\ ScenarioOf[at] \in ramped
      <4>1. Rank' = RampSteps(at) + 0
        BY <3>1, <3>4, StepsOutside DEF Rank
      <4>2. QED
        BY <2>0, <2>33, <3>2, <4>1
    <3>5. QED
      BY <3>1, <3>3, <3>4
  <2>23. CASE RollUp
    BY StepsOutside, <2>23 DEF RollUp, Rank
  <2>24. CASE TearDown
    BY StepsOutside, <2>24 DEF TearDown, Rank
  <2>38. QED
    BY <2>1, <2>2, <2>3, <2>4, <2>5, <2>6, <2>7, <2>8, <2>9, <2>10, <2>11, <2>12, <2>13,
       <2>14, <2>15, <2>16, <2>17, <2>18, <2>19, <2>20, <2>21, <2>22, <2>23, <2>24 DEF Drive
<1>2. ASSUME [Next]_vars, ~Drive
      PROVE  Rank' = Rank
  <2>1. UNCHANGED <<phase, at, role, ramped>>
    BY <1>2 DEF Next, Beside, Boot, SubjectDies, KillSubject, KillLoad, CollectorsSeeCancel,
                Interrupt, vars, ctl, rates
  <2>2. QED
    BY <2>1 DEF Rank
<1>3. TypeOK /\ TypeOK' /\ LoopInv /\ [Next]_vars => [IF Drive THEN Rank' < Rank ELSE Rank' = Rank]_vars
  BY <1>1, <1>2 DEF TypeOK
<1>4. QED
  BY <1>3, Typing, LoopInvariant, PTL DEF Spec, WindsDown
=============================================================================

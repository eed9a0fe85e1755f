-------------------------- MODULE CollectorProofs --------------------------
(***************************************************************************)
(* Proofs about Collector: for either kind of collector, any time horizon  *)
(* and any cap on the errors kept, readings stay in order, they reach back *)
(* before the load, and a bracket opens no later than its window.          *)
(***************************************************************************)
EXTENDS Collector, TLAPS

\* Every variable stays in its range (TypeOK).
THEOREM Typing == Spec => []TypeOK
<1>1. Init => TypeOK
  <2> SUFFICES ASSUME Init
               PROVE  TypeOK
    OBVIOUS
  <2>1. now \in Times /\ errs \in 0..ErrCap /\ missed \in Nat
    BY CollectorAssumption DEF Init, Times, CollectorAssumption
  <2>2. got \in Seq(Reading) /\ bracket \in Seq(Nat)
    BY DEF Init
  <2>3. window \in MaybeTimes \X MaybeTimes
    BY DEF Init, MaybeTimes
  <2>4. ctxDone \in BOOLEAN /\ canceled \in BOOLEAN
    BY Zenon DEF Init
  <2>5. QED
    BY <2>1, <2>2, <2>3, <2>4 DEF Init, TypeOK, MaybeTimes, Asking
<1>2. TypeOK /\ [Next]_vars => TypeOK'
  <2> SUFFICES ASSUME TypeOK, [Next]_vars
               PROVE  TypeOK'
    OBVIOUS
  <2> USE DEF TypeOK, runcell, reading, counts, MaybeTimes, Asking
  <2>1. CASE Elapse
    BY <2>1, CollectorAssumption DEF Elapse, CollectorAssumption, Times, None
  <2>2. CASE Interrupt
    <3>1. ctxDone' \in BOOLEAN
      BY <2>2, Zenon DEF Interrupt
    <3>2. UNCHANGED <<kind, now, runcell, loop, due, reading, got, counts>>
      BY <2>2, Zenon DEF Interrupt
    <3>3. QED
      BY <3>1, <3>2
  <2>3. CASE Answered
    BY <2>3 DEF Answered, Asking
  <2>4. CASE Recorded
    <3>1. Stamp \in Times /\ answer \in Times
      BY <2>4 DEF Recorded, Stamp, Asking
    <3>2. got' \in Seq(Reading)
      BY <2>4, <3>1 DEF Recorded, Keep, Reading
    <3>3. QED
      BY <2>4, <3>2 DEF Recorded, GoIdle
  <2>5. CASE SourceFails \/ ReadingAborted
    <3>1. errs' \in 0..ErrCap
      BY <2>5, CollectorAssumption DEF SourceFails, ReadingAborted, Failed, Count, CollectorAssumption
    <3>2. QED
      BY <2>5, <3>1 DEF SourceFails, ReadingAborted, Failed, GoIdle
  <2>6. CASE Loop
    <3>1. CASE Tick
      <4>1. missed' \in Nat /\ asked' \in Times
        BY <3>1 DEF Tick, Ask
      <4>2. now # None
        BY CollectorAssumption DEF Times, None, CollectorAssumption
      <4>3. QED
        BY <3>1, <4>1, <4>2 DEF Tick, Ask
    <3>2. CASE LoopEnds
      BY <3>1, <3>2 DEF LoopEnds
    <3>3. QED
      BY <2>6, <3>1, <3>2 DEF Loop
  <2>7. CASE StartCollector \/ NoCollector
    <3>1. now # None
      BY CollectorAssumption DEF Times, None, CollectorAssumption
    <3>2. QED
      BY <2>7, <3>1 DEF StartCollector, NoCollector, Ask
  <2>8. CASE LoadBegins \/ LoadEnds \/ LoadFails \/ Stopped
    BY <2>8 DEF LoadBegins, LoadEnds, LoadFails, Stopped
  <2>9. CASE StopCollector
    <3>1. canceled' \in BOOLEAN
      BY <2>9, Zenon DEF StopCollector
    <3>2. UNCHANGED <<kind, now, ctxDone, cell, from, to, window, bracket>>
      BY <2>9, Zenon DEF StopCollector
    <3>3. UNCHANGED <<loop, due, reading, got, counts>>
      BY <2>9, Zenon DEF StopCollector
    <3>4. QED
      BY <3>1, <3>2, <3>3
  <2>10. CASE ChooseWindow
    <3>1. window' \in MaybeTimes \X MaybeTimes /\ cell' = "windowed"
      BY <2>10 DEF ChooseWindow
    <3>2. bracket' \in Seq(Nat)
      <4>1. CASE UNCHANGED bracket
        BY <4>1
      <4>2. ASSUME NEW a, NEW b, bracket' \in Brackets(a, b)
            PROVE  bracket' \in Seq(Nat)
        <5>1. PICK i \in 1..Len(got), j \in 1..Len(got) : bracket' = <<i, j>>
          BY <4>2 DEF Brackets
        <5>2. i \in Nat /\ j \in Nat
          OBVIOUS
        <5>3. QED
          BY <5>1, <5>2
      <4>3. QED
        BY <2>10, <4>1, <4>2 DEF ChooseWindow
    <3>3. UNCHANGED <<kind, now, ctxDone, from, to, canceled, loop, due, reading, got, counts>>
      BY <2>10, Zenon DEF ChooseWindow
    <3>4. QED
      BY <3>1, <3>2, <3>3
  <2>11. CASE NoWindow
    BY <2>11 DEF NoWindow
  <2>12. CASE UNCHANGED vars
    BY <2>12 DEF vars
  <2>13. QED
    BY <2>1, <2>2, <2>3, <2>4, <2>5, <2>6, <2>7, <2>8, <2>9, <2>10, <2>11, <2>12, Zenon
       DEF Next, Read, RunCell
<1>3. QED
  BY <1>1, <1>2, PTL DEF Spec

\* What a well-typed state says of its numbers.
LEMMA Numbers ==
  ASSUME TypeOK
  PROVE  /\ now \in Nat /\ now # None /\ Len(got) \in Nat
         /\ from # None => from \in Nat
         /\ asked # None => asked \in Nat
         /\ answer # None => answer \in Nat
         /\ \A i \in 1..Len(got) : got[i].at \in Nat /\ got[i].says \in Nat
<1>1. got \in Seq(Reading) /\ Len(got) \in Nat
  BY DEF TypeOK
<1>2. \A i \in 1..Len(got) : got[i] \in Reading
  BY <1>1
<1>3. Times \subseteq Nat
  BY CollectorAssumption DEF CollectorAssumption, Times
<1>4. \A i \in 1..Len(got) : got[i].at \in Nat /\ got[i].says \in Nat
  BY <1>2, <1>3 DEF Reading
<1>5. now # None
  BY CollectorAssumption DEF CollectorAssumption, TypeOK, Times, None
<1>6. QED
  BY <1>1, <1>3, <1>4, <1>5 DEF TypeOK, MaybeTimes

\* A reading under way is later than every reading kept (ReadingsInv), and readings are
\* kept in order (StampsAscend).
LEMMA ReadingsInOrder == Spec => [](ReadingsInv /\ StampsAscend)
<1>1. Init => ReadingsInv /\ StampsAscend
  BY DEF Init, ReadingsInv, StampsAscend, Asking
<1>2. TypeOK /\ ReadingsInv /\ StampsAscend /\ [Next]_vars => (ReadingsInv /\ StampsAscend)'
  <2> SUFFICES ASSUME TypeOK, ReadingsInv, StampsAscend, [Next]_vars
               PROVE  (ReadingsInv /\ StampsAscend)'
    OBVIOUS
  <2> USE DEF ReadingsInv, Asking, runcell, reading, counts
  <2>1. CASE Recorded
    <3> DEFINE r == [at |-> Stamp, says |-> answer]
    <3>1. got' = Append(got, r) /\ got \in Seq(Reading)
      BY <2>1 DEF Recorded, Keep, TypeOK
    <3>2. /\ Len(got') = Len(got) + 1
          /\ got'[Len(got) + 1] = r
          /\ \A i \in 1..Len(got) : got'[i] = got[i]
      BY <3>1, Numbers
    <3>3. /\ r.at \in Nat /\ r.says \in Nat /\ r.at <= now /\ r.says <= now
          /\ kind = "scraper" => r.says <= r.at
          /\ \A i \in 1..Len(got) : got[i].at <= r.at /\ got[i].says <= r.says
      BY <2>1, Numbers DEF Recorded, Stamp, TypeOK
    <3>4. loop' = "idle" /\ now' = now /\ kind' = kind /\ answer' = None
      BY <2>1 DEF Recorded, GoIdle
    <3> HIDE DEF r
    <3>5. \A i \in 1..Len(got') : i \in 1..Len(got) \/ i = Len(got) + 1
      BY <3>2, Numbers
    <3>6. ReadingsInv'
      BY <3>2, <3>3, <3>4, <3>5
    <3>7. StampsAscend'
      BY <3>2, <3>3, <3>5, Numbers DEF StampsAscend
    <3>8. QED
      BY <3>6, <3>7
  <2>2. CASE Elapse
    <3>1. now' = now + 1 /\ UNCHANGED <<kind, loop, asked, answer, got>>
      BY <2>2, Zenon DEF Elapse
    <3>2. \A i \in 1..Len(got) : got[i].at <= now + 1 /\ got[i].says <= now + 1
      BY Numbers
    <3>3. Asking => asked <= now + 1 /\ (answer # None => answer <= now + 1)
      BY Numbers DEF TypeOK
    <3>4. ReadingsInv'
      BY <3>1, <3>2, <3>3, Zenon
    <3>5. QED
      BY <3>1, <3>4 DEF StampsAscend
  <2>3. CASE Answered
    BY <2>3, Numbers DEF Answered, TypeOK, StampsAscend
  <2>4. CASE SourceFails \/ ReadingAborted
    BY <2>4 DEF SourceFails, ReadingAborted, Failed, GoIdle, StampsAscend
  <2>5. CASE Tick
    BY <2>5, Numbers DEF Tick, Ask, StampsAscend
  <2>6. CASE StartCollector
    BY <2>6, Numbers DEF StartCollector, Ask, StampsAscend
  <2>7. CASE LoopEnds \/ NoCollector
    BY <2>7 DEF LoopEnds, NoCollector, StampsAscend
  <2>8. CASE UNCHANGED <<kind, now, loop, reading, got>>
    BY <2>8 DEF StampsAscend
  <2>9. QED
    <3>1. Interrupt \/ LoadBegins \/ LoadEnds \/ LoadFails \/ StopCollector \/ Stopped
            \/ ChooseWindow \/ NoWindow \/ UNCHANGED vars
          => UNCHANGED <<kind, now, loop, reading, got>>
      BY Zenon DEF Interrupt, LoadBegins, LoadEnds, LoadFails, StopCollector, Stopped,
         ChooseWindow, NoWindow, vars
    <3>2. QED
      BY <2>1, <2>2, <2>3, <2>4, <2>5, <2>6, <2>7, <2>8, <3>1, Zenon
         DEF Next, Read, Loop, RunCell
<1>3. QED
  BY <1>1, <1>2, Typing, PTL DEF Spec

\* PhaseInv holds: the goroutine begins and ends with the cell, and the first reading is
\* kept or counted as an error before load begins.
LEMMA PhasesAgree == Spec => []PhaseInv
<1>1. Init => PhaseInv
  BY DEF Init, PhaseInv, LoopOver
<1>2. TypeOK /\ PhaseInv /\ [Next]_vars => PhaseInv'
  <2> SUFFICES ASSUME TypeOK, PhaseInv, [Next]_vars
               PROVE  PhaseInv'
    OBVIOUS
  <2> USE DEF PhaseInv, Asking, LoopOver, runcell, reading, counts
  <2>1. CASE Recorded
    <3>1. got' # << >>
      BY <2>1 DEF Recorded, Keep, TypeOK
    <3>2. QED
      BY <2>1, <3>1 DEF Recorded, GoIdle
  <2>2. CASE Elapse
    <3>1. now' = now + 1 /\ UNCHANGED <<loop, cell, from, got, errs, bracket>>
      BY <2>2, Zenon DEF Elapse
    <3>2. QED
      BY <3>1, Numbers
  <2>3. CASE SourceFails \/ ReadingAborted
    <3>1. errs' # 0
      BY <2>3, CollectorAssumption
         DEF SourceFails, ReadingAborted, Failed, Count, TypeOK, CollectorAssumption
    <3>2. QED
      BY <2>3, <3>1 DEF SourceFails, ReadingAborted, Failed, GoIdle
  <2>4. CASE Interrupt \/ Answered
    BY <2>4 DEF Interrupt, Answered
  <2>5. CASE Loop
    BY <2>5 DEF Loop, Tick, Ask, LoopEnds
  <2>6. CASE StartCollector \/ NoCollector
    BY <2>6 DEF StartCollector, NoCollector, Ask
  <2>7. CASE LoadBegins
    BY <2>7, Numbers DEF LoadBegins, Started
  <2>8. CASE LoadEnds \/ LoadFails \/ StopCollector \/ Stopped
    BY <2>8 DEF LoadEnds, LoadFails, StopCollector, Stopped
  <2>9. CASE ChooseWindow \/ NoWindow
    BY <2>9 DEF ChooseWindow, NoWindow
  <2>10. CASE UNCHANGED vars
    BY <2>10 DEF vars
  <2>11. QED
    BY <2>1, <2>2, <2>3, <2>4, <2>5, <2>6, <2>7, <2>8, <2>9, <2>10, Zenon
       DEF Next, Read, RunCell
<1>3. QED
  BY <1>1, <1>2, Typing, PTL DEF Spec

\* Readings are kept in order, for either kind of collector (StampsAscend).
THEOREM ReadingsKeepOrder == Spec => []StampsAscend
<1>1. ReadingsInv /\ StampsAscend => StampsAscend
  OBVIOUS
<1>2. QED
  BY <1>1, ReadingsInOrder, PTL

\* A collector that reports no error describes the time before load began
\* (SampledBeforeLoad).
THEOREM LoadIsPreceded == Spec => []SampledBeforeLoad
<1>1. Init => SampledBeforeLoad
  BY DEF Init, SampledBeforeLoad
<1>2. /\ TypeOK /\ ReadingsInv /\ StampsAscend /\ PhaseInv /\ SampledBeforeLoad /\ [Next]_vars
      => SampledBeforeLoad'
  <2> SUFFICES ASSUME TypeOK, ReadingsInv, StampsAscend, PhaseInv, SampledBeforeLoad, [Next]_vars
               PROVE  SampledBeforeLoad'
    OBVIOUS
  <2> USE DEF SampledBeforeLoad, runcell, reading, counts
  <2>1. CASE Recorded
    <3>1. got' = Append(got, [at |-> Stamp, says |-> answer]) /\ got \in Seq(Reading)
      BY <2>1 DEF Recorded, Keep, TypeOK
    <3>2. UNCHANGED <<cell, from, errs>> /\ loop' = "idle" /\ loop \in {"first", "asked"}
      BY <2>1 DEF Recorded, GoIdle, Asking
    <3>3. cell # "starting" => loop = "asked"
      BY <3>2 DEF PhaseInv
    <3>4. Len(got) > 0 => got'[1] = got[1] /\ Len(got') > 0
      BY <3>1
    <3>5. QED
      BY <3>2, <3>3, <3>4
  <2>2. CASE LoadBegins
    <3>1. /\ cell' = "loading" /\ from' = now /\ UNCHANGED <<loop, got, errs>>
          /\ loop \notin {"off", "first"}
      BY <2>2 DEF LoadBegins, Started
    <3>2. loop # "absent" /\ errs = 0 => Len(got) > 0
      BY <3>1, Numbers DEF PhaseInv, TypeOK
    <3>3. Len(got) > 0 => got[1].says <= now
      BY Numbers DEF ReadingsInv
    <3>4. QED
      BY <3>1, <3>2, <3>3
  <2>3. CASE SourceFails \/ ReadingAborted
    <3>1. errs' # 0
      BY <2>3, CollectorAssumption
         DEF SourceFails, ReadingAborted, Failed, Count, TypeOK, CollectorAssumption
    <3>2. QED
      BY <3>1
  <2>4. CASE Elapse \/ Interrupt \/ Answered
    BY <2>4 DEF Elapse, Interrupt, Answered
  <2>5. CASE Loop
    BY <2>5 DEF Loop, Tick, Ask, LoopEnds
  <2>6. CASE StartCollector \/ NoCollector
    BY <2>6 DEF StartCollector, NoCollector, Ask
  <2>7. CASE LoadEnds \/ LoadFails \/ StopCollector \/ Stopped
    BY <2>7 DEF LoadEnds, LoadFails, StopCollector, Stopped
  <2>8. CASE ChooseWindow \/ NoWindow
    BY <2>8 DEF ChooseWindow, NoWindow, PhaseInv
  <2>9. CASE UNCHANGED vars
    BY <2>9 DEF vars
  <2>10. QED
    BY <2>1, <2>2, <2>3, <2>4, <2>5, <2>6, <2>7, <2>8, <2>9, Zenon DEF Next, Read, RunCell
<1>3. QED
  BY <1>1, <1>2, Typing, ReadingsInOrder, PhasesAgree, PTL DEF Spec

\* What was handed over is final (HandedOverIsFinal).
THEOREM HandedOver == Spec => HandedOverIsFinal
<1>1. PhaseInv /\ [Next]_vars =>
        [(cell = "stopped" \/ cell = "windowed") => got' = got /\ errs' = errs]_vars
  <2> SUFFICES ASSUME PhaseInv, Next, cell = "stopped" \/ cell = "windowed"
               PROVE  got' = got /\ errs' = errs
    BY DEF vars
  <2>1. loop \in {"ended", "absent"}
    BY DEF PhaseInv, LoopOver
  <2>2. ~Read /\ ~Tick
    BY <2>1 DEF Read, Answered, Recorded, SourceFails, ReadingAborted, Asking, Tick
  <2>3. QED
    BY <2>2, Zenon DEF Next, Loop, Elapse, Interrupt, LoopEnds, RunCell, StartCollector, NoCollector,
       LoadBegins, LoadEnds, LoadFails, StopCollector, Stopped, ChooseWindow, NoWindow, counts
<1>2. QED
  BY <1>1, PhasesAgree, PTL DEF Spec, HandedOverIsFinal

\* A bracket opens no later than its window and no scrape would enclose the window more
\* tightly.
LEMMA Bracketed == Spec => [](OpeningScrapePrecedes /\ BracketIsTight)
<1> DEFINE Inv == OpeningScrapePrecedes /\ BracketIsTight
<1>1. Init => Inv
  BY DEF Init, OpeningScrapePrecedes, BracketIsTight
<1>2. TypeOK /\ ReadingsInv /\ StampsAscend /\ PhaseInv /\ Inv /\ [Next]_vars => Inv'
  <2> SUFFICES ASSUME TypeOK, ReadingsInv, StampsAscend, PhaseInv, Inv, [Next]_vars
               PROVE  Inv'
    OBVIOUS
  <2> USE DEF OpeningScrapePrecedes, BracketIsTight
  <2>1. CASE UNCHANGED <<window, bracket, got>>
    BY <2>1
  <2>2. CASE bracket' = << >>
    BY <2>2
  <2>3. CASE ChooseWindow /\ bracket' # << >>
    <3>1. PICK a \in Times, b \in Times :
            window' = <<a, b>> /\ kind = "scraper" /\ bracket' \in Brackets(a, b)
      BY <2>3 DEF ChooseWindow, PhaseInv
    <3> DEFINE i == bracket'[1]
               j == bracket'[2]
    <3>2. /\ Latest(i, {k \in 1..Len(got) : got[k].at <= a})
          /\ Earliest(j, {k \in 1..Len(got) : got[k].at >= b})
      BY <3>1 DEF Brackets
    <3>11. i \in 1..Len(got) /\ j \in 1..Len(got)
      BY <3>1 DEF Brackets
    <3> HIDE DEF i, j
    <3>3. got[i].at <= a /\ \A k \in 1..Len(got) : got[k].at <= a => k <= i
      BY <3>2 DEF Latest
    <3>4. got[j].at >= b /\ \A k \in 1..Len(got) : got[k].at >= b => j <= k
      BY <3>2 DEF Earliest
    <3>5. got' = got /\ window'[1] = a /\ window'[2] = b /\ bracket'[1] = i /\ bracket'[2] = j
      BY <2>3, <3>1 DEF ChooseWindow, i, j
    <3>6. a \in Nat /\ b \in Nat
      BY DEF Times
    <3>7. got[i].says <= a
      BY <3>1, <3>3, <3>6, <3>11, Numbers DEF ReadingsInv
    <3>8. \A k \in 1..Len(got) : got[k].at <= a => got[k].at <= got[i].at
      BY <3>3, <3>11, Numbers DEF StampsAscend
    <3>9. \A k \in 1..Len(got) : got[k].at >= b => got[k].at >= got[j].at
      BY <3>4, <3>11, Numbers DEF StampsAscend
    <3>10. QED
      BY <3>5, <3>7, <3>8, <3>9
  <2>4. CASE bracket = << >> /\ ~ChooseWindow
    <3>1. UNCHANGED bracket
      BY <2>4, Zenon DEF Next, Read, Answered, Recorded, SourceFails, ReadingAborted, Failed,
         Loop, Tick, LoopEnds, Elapse, Interrupt, RunCell, StartCollector, NoCollector,
         LoadBegins, LoadEnds, LoadFails, StopCollector, Stopped, NoWindow, vars, runcell
    <3>2. QED
      BY <2>4, <3>1, <2>2
  <2>5. CASE bracket # << >>
    <3>1. cell = "windowed" /\ loop \in {"ended", "absent"}
      BY <2>5 DEF PhaseInv, LoopOver
    <3>2. ~Read /\ ~Tick /\ ~ChooseWindow /\ ~NoWindow
      BY <3>1 DEF Read, Answered, Recorded, SourceFails, ReadingAborted, Asking, Tick,
         ChooseWindow, NoWindow
    <3>3. UNCHANGED <<window, bracket, got>>
      BY <3>2 DEF Next, Loop, LoopEnds, Elapse, Interrupt, RunCell, StartCollector,
         NoCollector, LoadBegins, LoadEnds, LoadFails, StopCollector, Stopped, vars, runcell
    <3>4. QED
      BY <2>1, <3>3
  <2>6. QED
    BY <2>2, <2>3, <2>4, <2>5
<1>3. QED
  BY <1>1, <1>2, Typing, ReadingsInOrder, PhasesAgree, PTL DEF Spec

\* The opening scrape of a bracket describes no moment after the window's start
\* (OpeningScrapePrecedes).
THEOREM OpeningPrecedes == Spec => []OpeningScrapePrecedes
<1>1. OpeningScrapePrecedes /\ BracketIsTight => OpeningScrapePrecedes
  OBVIOUS
<1>2. QED
  BY <1>1, Bracketed, PTL

\* Bracketing passes over no scrape that encloses the window more tightly (BracketIsTight).
THEOREM TightBracket == Spec => []BracketIsTight
<1>1. OpeningScrapePrecedes /\ BracketIsTight => BracketIsTight
  OBVIOUS
<1>2. QED
  BY <1>1, Bracketed, PTL

\* A sampler that reports neither an error nor a missed tick has no hole under load
\* (NoHoleUnlessReported).
THEOREM HolesAreReported == Spec => []NoHoleUnlessReported
<1> DEFINE Inv == TickInv /\ NoHoleUnlessReported
<1>1. Init => Inv
  BY DEF Init, TickInv, NoHoleUnlessReported
<1>2. TypeOK /\ ReadingsInv /\ PhaseInv /\ Inv /\ [Next]_vars => Inv'
  <2> SUFFICES ASSUME TypeOK, ReadingsInv, PhaseInv, Inv, [Next]_vars
               PROVE  Inv'
    OBVIOUS
  <2>n. /\ now \in Nat /\ Len(got) \in Nat /\ missed \in Nat /\ errs \in Nat
        /\ from # None => from \in Nat
        /\ due # None => due \in Nat
        /\ asked # None => asked \in Nat
        /\ \A i \in 1..Len(got) : got[i].at \in Nat /\ got[i].at <= now
    <3>1. due # None => due \in Nat
      BY DEF TypeOK, MaybeTimes, Times
    <3>2. missed \in Nat /\ errs \in Nat
      BY CollectorAssumption DEF TypeOK, CollectorAssumption
    <3>3. QED
      BY <3>1, <3>2, Numbers DEF ReadingsInv
  <2> USE DEF TickInv, NoHoleUnlessReported, Near, Newest, runcell, reading, counts
  <2>1. CASE Elapse
    <3>1. /\ now' = now + 1 /\ UNCHANGED <<kind, loop, cell, from, asked, got, errs, missed>>
          /\ due' = IF loop \in {"idle", "asked"} /\ due = None THEN now + 1 ELSE due
      BY <2>1, Zenon DEF Elapse
    <3>2. now + 1 # None
      BY <2>n DEF None
    <3>3. Newest' = Newest /\ \A t, u : Near(t, u)' <=> Near(t, u)
      BY <3>1
    <3>4. NoHoleUnlessReported'
      BY <3>1
    <3>5. due' # None => due' <= now'
      <4>1. CASE loop \in {"idle", "asked"} /\ due = None
        BY <2>n, <3>1, <4>1
      <4>2. CASE ~(loop \in {"idle", "asked"} /\ due = None)
        <5>1. due' = due
          BY <3>1, <4>2
        <5>2. due # None => due <= now + 1
          BY <2>n
        <5>3. QED
          BY <3>1, <5>1, <5>2
      <4>3. QED
        BY <4>1, <4>2
    <3>6. TickInv'
      <4> HIDE DEF Near, Newest
      <4>1. CASE loop \in {"idle", "asked"} /\ due = None
        BY <3>1, <3>2, <3>3, <3>5, <4>1 DEF Near, Newest
      <4>2. CASE ~(loop \in {"idle", "asked"} /\ due = None)
        <5>1. UNCHANGED <<kind, loop, from, due, asked, got, errs, missed>>
          BY <3>1, <4>2
        <5>2. loop \in {"idle", "asked"} => due' # None
          BY <4>2, <5>1
        <5>3. QED
          BY <3>5, <5>1, <5>2 DEF Near, Newest
      <4>3. QED
        BY <4>1, <4>2
    <3>7. QED
      BY <3>4, <3>6
  <2>2. CASE Recorded
    <3> DEFINE r == [at |-> Stamp, says |-> answer]
    <3>1. got' = Append(got, r) /\ got \in Seq(Reading)
      BY <2>2 DEF Recorded, Keep, TypeOK
    <3>2. /\ Len(got') = Len(got) + 1
          /\ got'[Len(got) + 1] = r
          /\ \A i \in 1..Len(got) : got'[i] = got[i]
      BY <3>1, <2>n
    <3>3. loop' = "idle" /\ UNCHANGED <<kind, now, cell, from, due, errs, missed>>
      BY <2>2 DEF Recorded, GoIdle
    <3>4. kind = "sampler" => r.at = asked
      BY DEF Stamp
    <3> HIDE DEF r
    <3>5. SUFFICES ASSUME kind = "sampler", errs = 0, missed = 0, from # None
                   PROVE  /\ due = None => Near(now + 1, asked)
                          /\ due # None => Near(due, asked)
                          /\ \A i \in 1..Len(got) :
                               Near(got'[i + 1].at, got[i].at)
      <4>1. due' # None => due' <= now'
        BY <3>3
      <4>2. Newest' = got'[Len(got) + 1].at
        BY <3>2, <3>3
      <4>3. kind = "sampler" => Newest' = asked
        BY <3>2, <3>4, <4>2
      <4>4. TickInv'
        BY <3>3, <3>5, <4>1, <4>3
      <4>5. \A i \in 1..Len(got') - 1 : got'[i] = got[i] /\ i \in 1..Len(got)
        BY <2>n, <3>2
      <4>6. NoHoleUnlessReported'
        BY <3>3, <3>5, <4>5
      <4>7. QED
        BY <4>4, <4>6
    <3>6. loop = "asked" /\ Len(got) > 0
      <4>1. loop = "asked"
        BY <2>2, <3>5 DEF Recorded, Asking, PhaseInv
      <4>2. got # << >>
        BY <3>5, <4>1 DEF PhaseInv
      <4>3. QED
        BY <3>1, <4>1, <4>2
    <3>7. Near(asked, got[Len(got)].at)
      BY <3>5, <3>6
    <3>8. ASSUME NEW i \in 1..Len(got) PROVE Near(got'[i + 1].at, got[i].at)
      <4>1. CASE i = Len(got)
        BY <3>2, <3>4, <3>5, <3>7, <4>1
      <4>2. CASE i # Len(got)
        <5>1. i \in 1..Len(got) - 1 /\ i + 1 \in 1..Len(got)
          BY <2>n, <4>2
        <5>2. got'[i + 1] = got[i + 1]
          BY <3>2, <5>1
        <5>3. QED
          BY <3>5, <5>1, <5>2
      <4>3. QED
        BY <4>1, <4>2
    <3>9. QED
      BY <3>5, <3>6, <3>8
  <2>3. CASE Tick
    <3>1. /\ due # None /\ loop = "idle" /\ loop' = "asked" /\ due' = None /\ asked' = now
          /\ missed' = IF Late THEN missed + 1 ELSE missed
          /\ UNCHANGED <<kind, now, cell, from, got, errs>>
      BY <2>3, Zenon DEF Tick, Ask
    <3>2. SUFFICES ASSUME kind = "sampler", errs = 0, missed' = 0, from # None
                   PROVE  Near(now, got[Len(got)].at)
      BY <2>n, <3>1
    <3>3. missed = 0 /\ ~Late
      BY <2>n, <3>1, <3>2
    <3>4. due = now
      BY <2>n, <3>1, <3>2, <3>3 DEF Late
    <3>5. QED
      BY <3>1, <3>2, <3>3, <3>4
  <2>4. CASE SourceFails \/ ReadingAborted
    <3>1. errs' # 0
      BY <2>4, CollectorAssumption
         DEF SourceFails, ReadingAborted, Failed, Count, TypeOK, CollectorAssumption
    <3>2. UNCHANGED <<due, now>>
      BY <2>4 DEF SourceFails, ReadingAborted, Failed
    <3>3. QED
      BY <3>1, <3>2
  <2>5. CASE LoadBegins
    <3>1. from' = now /\ UNCHANGED <<kind, now, loop, due, asked, got, errs, missed>>
      BY <2>5 DEF LoadBegins
    <3>2. loop = "asked" => asked <= now
      BY DEF ReadingsInv, Asking
    <3>3. \A i \in 1..Len(got) - 1 : got[i + 1].at <= now
      BY <2>n
    <3>4. NoHoleUnlessReported'
      <4>1. \A i \in 1..Len(got) - 1 : got[i + 1].at \in Nat
        BY <2>n
      <4>2. \A i \in 1..Len(got) - 1 : got[i + 1].at <= now + 1
        BY <2>n, <3>3, <4>1
      <4>3. QED
        BY <3>1, <4>2
    <3>5. due # None => due <= now + 1
      BY <2>n
    <3>6. loop = "asked" => asked <= now + 1
      BY <2>n, <3>2 DEF TypeOK, Asking
    <3>7. TickInv'
      BY <2>n, <3>1, <3>5, <3>6
    <3>8. QED
      BY <3>4, <3>7
  <2>6. CASE StartCollector
    <3>1. loop' = "first" /\ UNCHANGED <<kind, now, from, due, got, errs, missed>>
      BY <2>6, Zenon DEF StartCollector, Ask
    <3>2. QED
      BY <3>1
  <2>7. CASE LoopEnds \/ NoCollector
    <3>1. loop' \in {"ended", "absent"} /\ UNCHANGED <<kind, now, from, due, got, errs, missed>>
      BY <2>7, Zenon DEF LoopEnds, NoCollector
    <3>2. QED
      BY <3>1
  <2>8. CASE UNCHANGED <<kind, now, from, loop, due, asked, got, counts>>
    BY <2>8
  <2>9. QED
    <3>1. Answered \/ Interrupt \/ LoadEnds \/ LoadFails \/ StopCollector \/ Stopped
            \/ ChooseWindow \/ NoWindow \/ UNCHANGED vars
          => UNCHANGED <<kind, now, from, loop, due, asked, got, counts>>
      BY Zenon DEF Answered, Interrupt, LoadEnds, LoadFails, StopCollector, Stopped,
         ChooseWindow, NoWindow, vars
    <3>2. QED
      BY <2>1, <2>2, <2>3, <2>4, <2>5, <2>6, <2>7, <2>8, <3>1, Zenon
         DEF Next, Read, Loop, RunCell
<1>3. QED
  BY <1>1, <1>2, Typing, ReadingsInOrder, PhasesAgree, PTL DEF Spec

-----------------------------------------------------------------------------
\* The whole of what the lemmas and theorems above show of a collector, in one invariant.
THEOREM CollectorInvariant == Spec => []CollectorInv
<1>1. /\ ReadingsInv /\ StampsAscend /\ PhaseInv /\ SampledBeforeLoad
      /\ OpeningScrapePrecedes /\ BracketIsTight /\ NoHoleUnlessReported
      => CollectorInv
  BY DEF CollectorInv
<1>2. QED
  BY <1>1, ReadingsInOrder, PhasesAgree, LoadIsPreceded, Bracketed, HolesAreReported, PTL
=============================================================================

------------------------- MODULE LocalProcessProofs -------------------------
(***************************************************************************)
(* Proofs about LocalProcess: its types, and that neither the watcher nor  *)
(* exec.Stop misreports how a process ended, for any number of children,   *)
(* any limit and with or without a cancellable context.                    *)
(***************************************************************************)
EXTENDS LocalProcess, TLAPS

\* Every variable stays in its range (TypeOK).
THEOREM Typing == Spec => []TypeOK
<1>1. Init => TypeOK
  <2> SUFFICES ASSUME Init PROVE TypeOK
    OBVIOUS
  <2> USE ProcessAssumption DEF ProcessAssumption, Init
  <2>1. produced \in 0..MaxOut /\ unread \in 0..PipeSize /\ kept \in 0..Limit
    BY SMT
  <2>2. watcher \in {"none", "select", "marked", "gone"} /\ waiter \in {"idle", "drain", "wait", "reaped", "done"}
    BY Zenon
  <2>4. child \in [Children -> {"unborn", "alive", "dead"}]
    OBVIOUS
  <2>5. piped \in BOOLEAN /\ ctxDone \in BOOLEAN /\ canceled \in BOOLEAN /\ killed \in BOOLEAN /\ termSent \in BOOLEAN /\ truncated \in BOOLEAN
    BY Zenon
  <2>3. QED
    BY <2>1, <2>2, <2>4, <2>5, Zenon DEF TypeOK
<1>2. TypeOK /\ [Next]_vars => TypeOK'
  <2> SUFFICES ASSUME TypeOK, [Next]_vars
               PROVE  TypeOK'
    OBVIOUS
  <2> USE ProcessAssumption DEF ProcessAssumption, TypeOK
  <2>1. CASE Processes
    <3>1. CASE LeaderExits
      <4>1. ended' \in {"none", "self", "term", "kill", "cancel"}
        BY <3>1, Zenon DEF LeaderExits
      <4>2. UNCHANGED <<env, child, termSent, watch, wait, stopper, output>> /\ leader' = "zombie"
        BY <3>1, Zenon DEF LeaderExits
      <4>3. QED
        BY <4>1, <4>2 DEF watch, wait, stopper, output, env
    <3>2. CASE Write
      BY <3>2 DEF Write, watch, wait, stopper, output, group, env
    <3>3. CASE \E c \in Children : Spawn(c) \/ ChildExits(c)
      BY <3>3 DEF Spawn, ChildExits, watch, wait, stopper, output, group, env
    <3>4. QED
      BY <2>1, <3>1, <3>2, <3>3 DEF Processes
  <2>2. CASE Interrupt
    BY <2>2 DEF Interrupt, watch, wait, stopper, output, group, env
  <2>3. CASE Watcher
    <3> USE DEF watch, wait, stopper, output, group, env
    <3>1. CASE WatchSeesCancel
      BY <3>1 DEF WatchSeesCancel, WatchMarks
    <3>2. CASE WatchKills
      BY <3>2 DEF WatchKills, KillGroup
    <3>3. CASE WatchEnds
      BY <3>3 DEF WatchEnds
    <3>4. QED
      BY <2>3, <3>1, <3>2, <3>3 DEF Watcher
  <2>4. CASE Drain
    BY <2>4 DEF Drain, Keep, Cut, watch, wait, stopper, output, group, env
  <2>5. CASE Drained \/ Reap \/ Publish
    BY <2>5 DEF Drained, Reap, Publish, watch, wait, stopper, output, group, env
  <2>6. CASE StopTerm \/ Stopper
    <3> USE DEF watch, wait, stopper, output, group, env
    <3>1. CASE StopTerm
      BY <3>1, Zenon DEF StopTerm
    <3>2. CASE StopInGrace
      <4>1. killed' \in BOOLEAN /\ stop' \in {"idle", "grace", "escalate", "killing", "returned"}
        BY <3>2, Zenon DEF StopInGrace
      <4>2. UNCHANGED <<env, group, watch, wait, output>>
        BY <3>2, Zenon DEF StopInGrace
      <4>3. QED
        BY <4>1, <4>2
    <3>3. CASE StopAfterKill
      BY <3>3 DEF StopAfterKill
    <3>4. CASE GraceExpires
      BY <3>4 DEF GraceExpires
    <3>5. CASE StopEscalates
      BY <3>5 DEF StopEscalates, Escalate, KillGroup
    <3>6. QED
      BY <2>6, <3>1, <3>2, <3>3, <3>4, <3>5 DEF Stopper
  <2>7. CASE UNCHANGED vars
    BY <2>7 DEF vars, watch, wait, stopper, output, group, env
  <2>8. QED
    BY <2>1, <2>2, <2>3, <2>4, <2>5, <2>6, <2>7 DEF Next, Waiter
<1>3. QED
  BY <1>1, <1>2, PTL DEF Spec

\* ProcessInv holds: what ended the process, how far each goroutine has come, and what
\* will be reported never disagree.
THEOREM ProcessInvariant == Spec => []ProcessInv
<1>1. Init => ProcessInv
  BY DEF Init, ProcessInv, CancelKillIsReported, CancelLeavesNobody, AtEOF
<1>2. TypeOK /\ ProcessInv /\ [Next]_vars => ProcessInv'
  <2> SUFFICES ASSUME TypeOK, ProcessInv, [Next]_vars
               PROVE  ProcessInv'
    OBVIOUS
  <2> USE DEF ProcessInv, CancelKillIsReported, CancelLeavesNobody, AtEOF, Holders, AliveChildren,
              watch, wait, stopper, output, group, env
  <2>1. CASE LeaderExits
    BY <2>1 DEF LeaderExits, TypeOK
  <2>2. CASE Write
    BY <2>2 DEF Write, TypeOK
  <2>3. CASE \E c \in Children : Spawn(c) \/ ChildExits(c)
    <3>1. PICK c \in Children : Spawn(c) \/ ChildExits(c)
      BY <2>3
    <3>2. child \in [Children -> {"unborn", "alive", "dead"}]
      BY DEF TypeOK
    <3>3. CASE Spawn(c)
      <4>1. leader = "running"
        BY <3>3 DEF Spawn
      <4>2. ~(piped /\ waiter \in {"wait", "reaped", "done"}) /\ ~(watcher = "gone" /\ canceled)
        BY <4>1
      <4>3. UNCHANGED <<env, leader, ended, termSent, watch, wait, stopper, output>>
        BY <3>3 DEF Spawn
      <4>4. QED
        BY <4>1, <4>2, <4>3
    <3>4. CASE ChildExits(c)
      <4>1. child' = [child EXCEPT ![c] = "dead"]
        BY <3>4 DEF ChildExits
      <4>2. \A d \in Children : child'[d] = "alive" => child[d] = "alive"
        BY <3>2, <4>1
      <4>3. UNCHANGED <<env, leader, ended, termSent, watch, wait, stopper, output>>
        BY <3>4 DEF ChildExits
      <4>4. Holders' => Holders
        BY <4>2, <4>3
      <4>5. QED
        BY <4>3, <4>4
    <3>5. QED
      BY <3>1, <3>3, <3>4
  <2>4. CASE Interrupt
    BY <2>4 DEF Interrupt
  <2>5. CASE Watcher
    <3>1. CASE WatchSeesCancel
      BY <3>1 DEF WatchSeesCancel, WatchMarks
    <3>2. CASE WatchKills
      <4>1. leader' # "running" /\ \A c \in Children : child'[c] # "alive"
        BY <3>2 DEF WatchKills, KillGroup, TypeOK
      <4>2. ~Holders'
        BY <4>1
      <4>3. QED
        BY <3>2, <4>2 DEF WatchKills, KillGroup, TypeOK
    <3>3. CASE WatchEnds
      <4>1. watcher = "select" /\ leader = "reaped"
        BY <3>3 DEF WatchEnds
      <4>2. ~canceled
        BY <4>1
      <4>3. QED
        BY <3>3, <4>2 DEF WatchEnds
    <3>4. QED
      BY <2>5, <3>1, <3>2, <3>3 DEF Watcher
  <2>6. CASE Drain
    BY <2>6 DEF Drain
  <2>7. CASE Drained \/ Reap \/ Publish
    BY <2>7 DEF Drained, Reap, Publish
  <2>8. CASE StopTerm
    BY <2>8 DEF StopTerm
  <2>9. CASE Stopper
    BY <2>9 DEF Stopper, StopInGrace, GraceExpires, StopEscalates, Escalate, KillGroup,
                StopAfterKill, TypeOK
  <2>10. CASE UNCHANGED vars
    BY <2>10 DEF vars
  <2>11. QED
    BY <2>1, <2>2, <2>3, <2>4, <2>5, <2>6, <2>7, <2>8, <2>9, <2>10
       DEF Next, Processes, Waiter
<1>3. QED
  BY <1>1, <1>2, Typing, PTL DEF Spec

\* A process the cancelled context killed is always reported so (CancelKillIsReported).
THEOREM EndIsReported == Spec => []CancelKillIsReported
<1>1. ProcessInv => CancelKillIsReported
  BY DEF ProcessInv
<1>2. QED
  BY <1>1, ProcessInvariant, PTL

\* exec.Stop returns with the process reaped and its own kill owned up to.
THEOREM StopIsHonest == Spec => []StopTellsTheTruth
<1>1. ProcessInv => StopTellsTheTruth
  BY DEF ProcessInv, StopTellsTheTruth
<1>2. QED
  BY <1>1, ProcessInvariant, PTL

\* After SIGKILL nothing blocks the wait for the process, or for its output
\* (KillUnblocksWait).
THEOREM KillUnblocks == Spec => []KillUnblocksWait
<1>1. TypeOK /\ ProcessInv => KillUnblocksWait
  BY DEF TypeOK, ProcessInv, KillUnblocksWait, WaitCanGoOn, AtEOF, Holders, CancelLeavesNobody
<1>2. QED
  BY <1>1, Typing, ProcessInvariant, PTL

\* A cancellation that has been answered leaves no process of the group.
THEOREM NobodyIsLeft == Spec => []CancelLeavesNobody
<1>1. ProcessInv => CancelLeavesNobody
  BY DEF ProcessInv
<1>2. QED
  BY <1>1, ProcessInvariant, PTL

\* Local.Run never closes a pipe with output still in it (NothingLost).
THEOREM OutputIsDrained == Spec => []NothingLost
<1>1. ProcessInv => NothingLost
  BY DEF ProcessInv, NothingLost, AtEOF
<1>2. QED
  BY <1>1, ProcessInvariant, PTL

\* What a capture has kept is all the pipe has delivered, or its limit and the word that
\* there was more (TruncationIsReported).
THEOREM TruncationShows == Spec => []TruncationIsReported
<1>1. Init => TruncationIsReported
  BY ProcessAssumption DEF ProcessAssumption, Init, TruncationIsReported
<1>2. TypeOK /\ TruncationIsReported /\ [Next]_vars => TruncationIsReported'
  <2> SUFFICES ASSUME TypeOK, TruncationIsReported, [Next]_vars
               PROVE  TruncationIsReported'
    OBVIOUS
  <2>1. CASE Write
    BY <2>1 DEF Write, TypeOK, TruncationIsReported
  <2>2. CASE Drain
    <3>1. PICK n \in 1..unread : /\ unread' = unread - n
                                /\ kept' = kept + Keep(n)
                                /\ truncated' = (truncated \/ Cut(n))
      BY <2>2 DEF Drain
    <3>2. produced' = produced
      BY <2>2 DEF Drain
    <3>3. produced \in Int /\ unread \in Int /\ kept \in Int /\ n \in Int /\ Limit \in Int /\ n >= 1
      BY ProcessAssumption DEF ProcessAssumption, TypeOK
    <3>4. produced' - unread' = (produced - unread) + n
      BY <3>1, <3>2, <3>3
    <3>5. CASE truncated
      <4>1. truncated' /\ kept = Limit /\ produced - unread > Limit
        BY <3>1, <3>5 DEF TruncationIsReported
      <4>2. kept' = Limit
        BY <3>1, <3>3, <4>1 DEF Keep
      <4>3. produced' - unread' > Limit
        BY <3>3, <3>4, <4>1
      <4>4. QED
        BY <4>1, <4>2, <4>3 DEF TruncationIsReported
    <3>6. CASE ~truncated /\ n > Limit - kept
      <4>1. truncated' /\ kept = produced - unread
        BY <3>1, <3>6, Zenon DEF TruncationIsReported, Cut
      <4>2. kept' = Limit
        BY <3>1, <3>3, <3>6 DEF Keep
      <4>3. produced' - unread' > Limit
        BY <3>3, <3>4, <3>6, <4>1
      <4>4. QED
        BY <4>1, <4>2, <4>3 DEF TruncationIsReported
    <3>7. CASE ~truncated /\ ~(n > Limit - kept)
      <4>1. ~truncated' /\ kept = produced - unread
        BY <3>1, <3>7, Zenon DEF TruncationIsReported, Cut
      <4>2. kept' = kept + n
        BY <3>1, <3>7 DEF Keep
      <4>3. ~(produced' - unread' > Limit)
        BY <3>3, <3>4, <3>7, <4>1
      <4>4. kept' = produced' - unread'
        BY <3>3, <3>4, <4>1, <4>2
      <4>5. QED
        BY <4>1, <4>3, <4>4 DEF TruncationIsReported
    <3>8. QED
      BY <3>5, <3>6, <3>7
  <2>3. CASE UNCHANGED output
    BY <2>3 DEF output, TruncationIsReported
  <2>4. QED
    BY <2>1, <2>2, <2>3
    DEF Next, Processes, LeaderExits, Spawn, ChildExits, Interrupt, Watcher, WatchSeesCancel,
        WatchKills, WatchEnds, Waiter, Drained, Reap, Publish, StopTerm, Stopper,
        StopInGrace, GraceExpires, StopEscalates, StopAfterKill, vars
<1>3. QED
  BY <1>1, <1>2, Typing, PTL DEF Spec

\* A subject run by exec.Local is what the campaign takes it for: up until it exits or is
\* killed, launched and stopped once, and gone when its stop returns (IsASubject).
THEOREM LocalSubject == Spec => IsASubject
<1>1. Init => Handle!Init
  BY DEF Init, Handle!Init, Handle!Started
<1>2. TypeOK /\ ProcessInv /\ [Next]_vars => [Handle!Next]_(Handle!hvars)
  <2> SUFFICES ASSUME TypeOK, ProcessInv, [Next]_vars
               PROVE  Handle!Next \/ UNCHANGED Handle!hvars
    OBVIOUS
  <2> USE DEF watch, wait, stopper, output, group, env
  <2>1. ASSUME UNCHANGED <<ctxDone, stop>>, leader' = "zombie"
        PROVE  Handle!Next \/ UNCHANGED Handle!hvars
    BY <2>1 DEF TypeOK, Handle!Next, Handle!Ends, Handle!hvars
  <2>2. ASSUME UNCHANGED <<ctxDone, leader>>, stop' = stop \/ "returned" \notin {stop, stop'}
        PROVE  UNCHANGED Handle!hvars
    BY <2>2 DEF Handle!hvars
  <2>3. ASSUME UNCHANGED <<ctxDone, leader>>, stop \in {"grace", "killing"}, waiter = "done",
               stop' = "returned"
        PROVE  Handle!Next
    <3>1. leader = "reaped"
      BY <2>3 DEF ProcessInv
    <3>2. Handle!Left("gone")
      BY <2>3 DEF Handle!Left
    <3>3. QED
      BY <2>3, <3>1, <3>2 DEF Handle!Next, Handle!StopReturns
  <2>4. CASE LeaderExits
    BY <2>1, <2>4 DEF LeaderExits
  <2>5. CASE Write \/ \E c \in Children : Spawn(c) \/ ChildExits(c)
    BY <2>2, <2>5 DEF Write, Spawn, ChildExits
  <2>6. CASE Interrupt
    BY <2>6 DEF Interrupt, Handle!Next, Handle!Interrupt
  <2>7. CASE WatchKills
    <3>1. UNCHANGED <<ctxDone, stop>> /\ leader' = IF leader = "running" THEN "zombie" ELSE leader
      BY <2>7 DEF WatchKills, KillGroup
    <3>2. QED
      BY <2>1, <2>2, <3>1
  <2>8. CASE WatchSeesCancel \/ WatchEnds
    BY <2>2, <2>8 DEF WatchSeesCancel, WatchMarks, WatchEnds
  <2>9. CASE Reap
    BY <2>9 DEF Reap, Handle!hvars
  <2>10. CASE Drain \/ Drained \/ Publish
    BY <2>2, <2>10 DEF Drain, Drained, Publish
  <2>11. CASE StopTerm \/ GraceExpires
    BY <2>2, <2>11 DEF StopTerm, GraceExpires
  <2>12. CASE StopEscalates
    <3>1. UNCHANGED ctxDone /\ stop = "escalate" /\ stop' = "killing"
      BY <2>12 DEF StopEscalates, Escalate
    <3>2. leader' = IF leader = "running" THEN "zombie" ELSE leader
      BY <2>12 DEF StopEscalates, Escalate, KillGroup
    <3>3. CASE leader = "running"
      BY <3>1, <3>2, <3>3 DEF Handle!Next, Handle!Ends
    <3>4. CASE leader # "running"
      BY <2>2, <3>1, <3>2, <3>4
    <3>5. QED
      BY <3>3, <3>4
  <2>13. CASE StopInGrace \/ StopAfterKill
    BY <2>3, <2>13 DEF StopInGrace, StopAfterKill
  <2>14. CASE UNCHANGED vars
    BY <2>2, <2>14 DEF vars
  <2>15. QED
    BY <2>4, <2>5, <2>6, <2>7, <2>8, <2>9, <2>10, <2>11, <2>12, <2>13, <2>14
       DEF Next, Processes, Watcher, Waiter, Stopper
<1>3. QED
  BY <1>1, <1>2, Typing, ProcessInvariant, PTL DEF Spec, IsASubject, Handle!Spec
=============================================================================

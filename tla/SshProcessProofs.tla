-------------------------- MODULE SshProcessProofs --------------------------
(***************************************************************************)
(* Proofs about SshProcess: whatever the network does and however often, a *)
(* stop without an error means that the program is gone, and the pid that  *)
(* is signalled is the one this launch wrote.                              *)
(***************************************************************************)
EXTENDS SshProcess, TLAPS

\* Every variable stays in its range (TypeOK).
THEOREM Typing == Spec => []TypeOK
<1>1. Init => TypeOK
  <2> USE BlipsAssumption DEF BlipsAssumption
  <2> SUFFICES ASSUME Init
               PROVE  TypeOK
    OBVIOUS
  <2>1. blips \in 0..MaxBlips
    BY DEF Init
  <2>2. QED
    BY <2>1, Zenon DEF Init, InitPidFile, TypeOK
<1>2. TypeOK /\ [Next]_vars => TypeOK'
  <2> SUFFICES ASSUME TypeOK, [Next]_vars
               PROVE  TypeOK'
    OBVIOUS
  <2> USE BlipsAssumption DEF BlipsAssumption, TypeOK, network, far, launch, client, stopper
  <2>1. CASE NetChanges
    <3>1. blips' \in 0..MaxBlips
      BY <2>1 DEF NetChanges
    <3>2. net' \in BOOLEAN
      BY <2>1, Zenon DEF NetChanges
    <3>3. UNCHANGED <<ctxDone, far, launch, client, stopper>>
      BY <2>1 DEF NetChanges
    <3>4. QED
      BY <3>1, <3>2, <3>3
  <2>2. CASE Interrupt \/ RemoteStarts \/ RemoteExits
    <3>1. CASE Interrupt
      <4>1. ctxDone' \in BOOLEAN
        BY <3>1, Zenon DEF Interrupt
      <4>2. UNCHANGED <<network, far, launch, client, stopper>>
        BY <3>1, Zenon DEF Interrupt
      <4>3. QED
        BY <4>1, <4>2
    <3>2. CASE RemoteStarts
      BY <3>2, Zenon DEF RemoteStarts
    <3>3. CASE RemoteExits
      BY <3>3 DEF RemoteExits
    <3>4. QED
      BY <2>2, <3>1, <3>2, <3>3
  <2>3. CASE PidRead \/ PidGivenUp
    <3>1. CASE PidRead
      BY <3>1, Zenon DEF PidRead
    <3>2. CASE PidGivenUp
      BY <3>2 DEF PidGivenUp
    <3>3. QED
      BY <2>3, <3>1, <3>2
  <2>4. CASE Client
    BY <2>4 DEF Client, SessionEnds, SessionLost, SessionKilled
  <2>10. CASE SessionSlain
    BY <2>10 DEF SessionSlain
  <2>5. CASE StopTerm
    <3>1. /\ stop' \in {"grace", "returned"}
          /\ stopErr' = stopErr \/ stopErr' = "signal"
      BY <2>5, Zenon DEF StopTerm
    <3>4. termSent' \in BOOLEAN
      BY <2>5 DEF StopTerm
    <3>2. UNCHANGED <<network, ctxDone, remote, pidFile, launch, client, killLost>>
      BY <2>5, Zenon DEF StopTerm
    <3>3. QED
      BY <3>1, <3>2, <3>4
  <2>6. CASE WaitReturns
    BY <2>6 DEF WaitReturns, SessionErr
  <2>7. CASE GraceExpires \/ StopKills
    BY <2>7 DEF GraceExpires, StopKills, Escalate
  <2>8. CASE UNCHANGED vars
    BY <2>8 DEF vars
  <2>9. QED
    BY <2>1, <2>2, <2>3, <2>4, <2>5, <2>6, <2>7, <2>8, <2>10 DEF Next, Stopper
<1>3. QED
  BY <1>1, <1>2, PTL DEF Spec

\* SshInv holds: the session is known to have ended only with the program, and every
\* other end of it carries an error.
THEOREM SshInvariant == Spec => []SshInv
<1>1. Init => SshInv
  BY Zenon DEF Init, InitPidFile, SshInv, PidIsOurs, CleanStopMeansGone
<1>2. TypeOK /\ SshInv /\ [Next]_vars => SshInv'
  <2> SUFFICES ASSUME TypeOK, SshInv, [Next]_vars
               PROVE  SshInv'
    OBVIOUS
  <2> USE DEF network, far, launch, client, stopper, SshInv, PidIsOurs, CleanStopMeansGone
  <2>1. CASE NetChanges \/ Interrupt \/ RemoteStarts \/ RemoteExits
    <3>1. CASE NetChanges \/ Interrupt
      BY <3>1 DEF NetChanges, Interrupt
    <3>2. CASE RemoteStarts
      BY <3>2, Zenon DEF RemoteStarts
    <3>3. CASE RemoteExits
      BY <3>3 DEF RemoteExits
    <3>4. QED
      BY <2>1, <3>1, <3>2, <3>3
  <2>2. CASE PidRead \/ PidGivenUp
    <3>1. CASE PidRead
      BY <3>1, Zenon DEF PidRead
    <3>2. CASE PidGivenUp
      BY <3>2 DEF PidGivenUp
    <3>3. QED
      BY <2>2, <3>1, <3>2
  <2>3. CASE Client
    BY <2>3 DEF Client, SessionEnds, SessionLost, SessionKilled
  <2>10. CASE SessionSlain
    BY <2>10 DEF SessionSlain
  <2>4. CASE StopTerm
    <3>1. \/ pid /\ stop' = "grace" /\ UNCHANGED stopErr
          \/ stop' = "returned" /\ stopErr' = "signal"
      BY <2>4, Zenon DEF StopTerm, CanSignal
    <3>2. stop = "idle" /\ UNCHANGED <<remote, pidFile, launch, client>>
      BY <2>4, Zenon DEF StopTerm
    <3>3. stopErr = "none"
      BY <3>2
    <3>4. QED
      BY <3>1, <3>2, <3>3
  <2>5. CASE WaitReturns
    BY <2>5 DEF WaitReturns, SessionErr, TypeOK
  <2>6. CASE GraceExpires
    BY <2>6 DEF GraceExpires
  <2>7. CASE StopKills
    BY <2>7 DEF StopKills, Escalate
  <2>8. CASE UNCHANGED vars
    BY <2>8 DEF vars
  <2>9. QED
    BY <2>1, <2>2, <2>3, <2>4, <2>5, <2>6, <2>7, <2>8, <2>10 DEF Next, Stopper
<1>3. QED
  BY <1>1, <1>2, Typing, PTL DEF Spec

\* exec.Stop over SSH never reports a clean stop of a program that still runs
\* (CleanStopMeansGone), and it only ever signals a program of this launch (PidIsOurs).
THEOREM CleanStop == Spec => [](CleanStopMeansGone /\ PidIsOurs)
<1>1. SshInv => CleanStopMeansGone /\ PidIsOurs
  BY DEF SshInv
<1>2. QED
  BY <1>1, SshInvariant, PTL

\* WayInv holds: what has happened to the network and the context explains every session
\* that ended before its program.
THEOREM WayInvariant == Spec => []WayInv
<1>1. Init => WayInv
  BY Zenon DEF Init, WayInv
<1>2. TypeOK /\ SshInv /\ WayInv /\ [Next]_vars => WayInv'
  <2> SUFFICES ASSUME TypeOK, SshInv, WayInv, [Next]_vars
               PROVE  WayInv'
    OBVIOUS
  <2> USE DEF network, far, launch, client, stopper, WayInv
  <2>1. CASE NetChanges
    <3>1. blips' > 0
      BY <2>1, BlipsAssumption DEF NetChanges, TypeOK, BlipsAssumption
    <3>2. UNCHANGED <<ctxDone, far, launch, client, stopper>>
      BY <2>1 DEF NetChanges
    <3>3. QED
      BY <3>1, <3>2
  <2>2. CASE Interrupt \/ RemoteStarts \/ RemoteExits
    BY <2>2 DEF Interrupt, RemoteStarts, RemoteExits, TypeOK
  <2>3. CASE PidRead \/ PidGivenUp
    BY <2>3 DEF PidRead, PidGivenUp
  <2>4. CASE Client
    BY <2>4 DEF Client, SessionEnds, SessionLost, SessionKilled, Watched
  <2>10. CASE SessionSlain
    BY <2>10 DEF SessionSlain
  <2>5. CASE StopTerm
    <3>1. \/ termSent' = TRUE /\ stop' = "grace"
          \/ stop' = "returned"
      BY <2>5, Zenon DEF StopTerm
    <3>2. stop = "idle" /\ start = "returned" /\ UNCHANGED <<network, ctxDone, launch, client>>
      BY <2>5, Zenon DEF StopTerm
    <3>3. QED
      BY <3>1, <3>2
  <2>6. CASE WaitReturns
    BY <2>6 DEF WaitReturns, SessionErr, TypeOK
  <2>7. CASE GraceExpires \/ StopKills
    BY <2>7 DEF GraceExpires, StopKills, TypeOK
  <2>8. CASE UNCHANGED vars
    BY <2>8 DEF vars
  <2>9. QED
    BY <2>1, <2>2, <2>3, <2>4, <2>5, <2>6, <2>7, <2>8, <2>10 DEF Next, Stopper
<1>3. QED
  BY <1>1, <1>2, Typing, SshInvariant, PTL DEF Spec

\* A subject run over ssh is what the campaign takes it for: its stop leaves it gone, unless
\* the way to it failed or the operator interrupted; then it may be draining, or untouched by
\* a signal that could not be sent (IsASubject).
THEOREM RemoteSubject == Spec => IsASubject
<1>1. Init => Handle!Init
  <2> SUFFICES ASSUME Init PROVE Handle!Init
    OBVIOUS
  <2>1. /\ remote = "absent" /\ stop = "idle" /\ start = "polling" /\ blips = 0 /\ ctxDone = FALSE
        /\ session = "open"
    BY Zenon DEF Init
  <2>2. WayFailed = FALSE
    BY <2>1 DEF WayFailed
  <2>3. (IF remote = "gone" THEN "gone"
         ELSE IF stop = "returned" /\ termSent THEN "draining" ELSE "up") = "up"
    BY <2>1
  <2>4. (IF stop = "returned" THEN "stopped" ELSE IF start = "polling" THEN "starting"
         ELSE IF pid THEN "held" ELSE "blind") = "starting"
    BY <2>1
  <2>5. QED
    BY <2>1, <2>2, <2>3, <2>4, Zenon DEF Handle!Init, Handle!Started
<1>2. TypeOK /\ SshInv /\ WayInv /\ [Next]_vars => [Handle!Next]_(Handle!hvars)
  <2> SUFFICES ASSUME TypeOK, SshInv, WayInv, [Next]_vars
               PROVE  Handle!Next \/ UNCHANGED Handle!hvars
    OBVIOUS
  <2> USE DEF network, far, launch, client, stopper
  <2>15. UNCHANGED <<blips, session>> => UNCHANGED WayFailed
    BY DEF WayFailed
  <2>16. ASSUME UNCHANGED <<ctxDone, remote, stop, termSent, start, pid>>,
                WayFailed'
         PROVE  Handle!Next \/ UNCHANGED Handle!hvars
    <3>1. CASE WayFailed
      <4>1. WayFailed = TRUE /\ WayFailed' = TRUE
        BY <2>16, <3>1 DEF WayFailed
      <4>2. QED
        BY <2>16, <4>1 DEF Handle!hvars
    <3>2. CASE ~WayFailed
      <4>1. WayFailed = FALSE /\ WayFailed' = TRUE
        BY <2>16, <3>2 DEF WayFailed
      <4>2. QED
        BY <2>16, <4>1 DEF Handle!Next, Handle!WayFails
    <3>3. QED
      BY <3>1, <3>2
  <2>1. ASSUME UNCHANGED <<WayFailed, ctxDone, stop, termSent, start, pid>>,
               remote' = remote \/ "gone" \notin {remote, remote'}
        PROVE  UNCHANGED Handle!hvars
    BY <2>1 DEF Handle!hvars
  <2>2. ASSUME UNCHANGED <<WayFailed, ctxDone, termSent, start, pid>>,
               stop' = stop \/ "returned" \notin {stop, stop'},
               remote # "gone", remote' = "gone"
        PROVE  Handle!Next
    BY <2>2 DEF Handle!Next, Handle!Ends
  <2>3. CASE NetChanges
    <3>1. WayFailed'
      BY <2>3, BlipsAssumption DEF NetChanges, TypeOK, WayFailed, BlipsAssumption
    <3>2. QED
      BY <2>3, <2>16, <3>1 DEF NetChanges
  <2>4. CASE Interrupt
    BY <2>4, <2>15 DEF Interrupt, Handle!Next, Handle!Interrupt
  <2>5. CASE RemoteStarts
    BY <2>1, <2>5, <2>15 DEF RemoteStarts
  <2>6. CASE RemoteExits
    BY <2>2, <2>6, <2>15 DEF RemoteExits
  <2>7. CASE Client
    <3>1. /\ session = "open" /\ session' \in {"ended", "lost", "killed"}
          /\ UNCHANGED <<blips, ctxDone, remote, stop, termSent, start, pid>>
      BY <2>7 DEF Client, SessionEnds, SessionLost, SessionKilled
    <3>2. UNCHANGED WayFailed
      BY <3>1 DEF WayFailed
    <3>3. QED
      BY <2>1, <3>1, <3>2
  <2>17. CASE SessionSlain
    <3>1. WayFailed' /\ UNCHANGED <<ctxDone, remote, stop, termSent, start, pid>>
      BY <2>17 DEF SessionSlain, WayFailed
    <3>2. QED
      BY <2>16, <3>1
  <2>8. CASE PidRead \/ PidGivenUp
    BY <2>8, <2>15 DEF PidRead, PidGivenUp, WayInv, Handle!Next, Handle!Await
  <2>9. CASE StopTerm
    <3>1. /\ stop = "idle" /\ start = "returned" /\ ~termSent
          /\ UNCHANGED <<WayFailed, ctxDone, remote, start, pid>>
      BY <2>9, <2>15 DEF StopTerm, WayInv
    <3>2. CASE stop' = "grace"
      BY <3>1, <3>2 DEF Handle!hvars
    <3>3. CASE ~CanSignal /\ stop' = "returned" /\ termSent' \in {termSent, termSent \/ pid}
      <4>1. ~pid \/ WayFailed
        BY <3>3 DEF CanSignal, WayInv, WayFailed
      <4>2. CASE UNCHANGED termSent
        BY <3>1, <3>3, <4>1, <4>2 DEF Handle!Next, Handle!StopReturns, Handle!Left
      <4>3. CASE pid /\ termSent'
        <5>1. WayFailed
          BY <4>1, <4>3
        <5>2. QED
          BY <3>1, <3>3, <4>3, <5>1 DEF Handle!Next, Handle!StopReturns, Handle!Left
      <4>4. QED
        BY <3>1, <3>3, <4>2, <4>3 DEF TypeOK
    <3>4. QED
      BY <2>9, <3>2, <3>3, Zenon DEF StopTerm
  <2>10. CASE WaitReturns
    <3>1. /\ stop \in {"grace", "killing"} /\ stop' = "returned" /\ session # "open"
          /\ UNCHANGED <<WayFailed, ctxDone, remote, termSent, start, pid>>
      BY <2>10, <2>15 DEF WaitReturns
    <3>2. pid /\ start = "returned" /\ termSent
      BY <3>1 DEF SshInv, WayInv, TypeOK
    <3>3. remote # "gone" => WayFailed \/ ctxDone
      BY <3>1 DEF SshInv, WayInv, TypeOK, WayFailed
    <3>4. QED
      BY <3>1, <3>2, <3>3 DEF Handle!Next, Handle!StopReturns, Handle!Left
  <2>11. CASE GraceExpires
    BY <2>11, <2>15 DEF GraceExpires, Handle!hvars
  <2>12. CASE StopKills
    <3>1. /\ stop = "escalate" /\ stop' = "killing"
          /\ UNCHANGED <<WayFailed, ctxDone, termSent, start, pid>>
          /\ remote' \in {remote, "gone"}
      BY <2>12, <2>15 DEF StopKills, Escalate
    <3>2. CASE remote' = remote
      BY <3>1, <3>2 DEF Handle!hvars
    <3>3. CASE remote # "gone" /\ remote' = "gone"
      BY <2>2, <3>1, <3>3
    <3>4. QED
      BY <3>1, <3>2, <3>3
  <2>13. CASE UNCHANGED vars
    BY <2>1, <2>13, <2>15 DEF vars
  <2>14. QED
    BY <2>3, <2>4, <2>5, <2>6, <2>7, <2>8, <2>9, <2>10, <2>11, <2>12, <2>13, <2>17
    DEF Next, Stopper
<1>3. QED
  BY <1>1, <1>2, Typing, SshInvariant, WayInvariant, PTL DEF Spec, IsASubject, Handle!Spec
=============================================================================

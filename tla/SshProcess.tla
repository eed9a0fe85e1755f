----------------------------- MODULE SshProcess -----------------------------
(***************************************************************************)
(* A subject on another machine: exec.SSH.Start, the pid it reads back     *)
(* through a second ssh command, the session it can be waited for through, *)
(* the signals that take a command of their own, and exec.Stop over all of *)
(* it.  The session and the program are different things here: the network *)
(* may end one and leave the other.                                        *)
(*                                                                         *)
(* An operator named ...Mut is a seeded fault in the operation it stands   *)
(* before; no action uses it.                                              *)
(***************************************************************************)
EXTENDS Naturals

CONSTANT MaxBlips  \* bound: how often the network goes down or comes back

ASSUME BlipsAssumption == MaxBlips \in Nat

VARIABLES
  net,        \* new ssh commands reach the machine
  blips,
  ctxDone,
  remote,     \* the program on the other machine
  termSent,   \* it has been sent SIGTERM
  pidFile,    \* the file its shell writes the pid to exists
  start,      \* Start is polling for the pid, or has returned
  pid,        \* the pid was read; without it PID() is 0
  session,    \* the local ssh client
  code,       \* its exit code: the program's, or 255
  stop,       \* how far exec.Stop has come
  stopErr,    \* the error it returns
  killLost    \* the SIGKILL of the escalation was not answered

network == <<net, blips>>
far     == <<remote, termSent, pidFile>>
launch  == <<start, pid>>
client  == <<session, code>>
stopper == <<stop, stopErr, killLost>>
vars == <<network, ctxDone, far, launch, client, stopper>>

InitPidFile == FALSE  \* the path holds the harness's pid and the time in nanoseconds

Init ==
  /\ net = TRUE /\ blips = 0 /\ ctxDone = FALSE
  /\ remote = "absent" /\ termSent = FALSE /\ pidFile = InitPidFile
  /\ start = "polling" /\ pid = FALSE
  /\ session = "open" /\ code = "none"
  /\ stop = "idle" /\ stopErr = "none" /\ killLost = FALSE

-----------------------------------------------------------------------------
\* The network and the operator.

NetChanges ==
  /\ blips < MaxBlips /\ blips' = blips + 1 /\ net' = ~net
  /\ UNCHANGED <<ctxDone, far, launch, client, stopper>>

Interrupt ==
  /\ ~ctxDone /\ ctxDone' = TRUE
  /\ UNCHANGED <<network, far, launch, client, stopper>>

-----------------------------------------------------------------------------
\* The far side: the shell writes its pid, then becomes the program, which may exit at
\* any time or never.

RemoteStarts ==
  /\ remote = "absent" /\ session = "open" /\ net
  /\ remote' = "running" /\ pidFile' = TRUE
  /\ UNCHANGED <<network, ctxDone, termSent, launch, client, stopper>>

RemoteExits ==
  /\ remote = "running" /\ remote' = "gone"
  /\ UNCHANGED <<network, ctxDone, termSent, pidFile, launch, client, stopper>>

\* The session ends with the program's exit code, which may itself be 255.
SessionEnds ==
  /\ session = "open" /\ remote = "gone" /\ net
  /\ session' = "ended" /\ code' \in {"program", "255"}
  /\ UNCHANGED <<network, ctxDone, far, launch, stopper>>

\* The keep-alive gives up on a connection that has been down long enough.
SessionLost ==
  /\ session = "open" /\ ~net
  /\ session' = "lost" /\ code' = "255"
  /\ UNCHANGED <<network, ctxDone, far, launch, stopper>>

\* localProcess.watch kills the ssh client; the program does not notice.
WatchedMut == FALSE
Watched == ctxDone

SessionKilled ==
  /\ session = "open" /\ Watched
  /\ session' = "killed"
  /\ UNCHANGED <<network, ctxDone, far, launch, code, stopper>>

\* Somebody else's signal ends the ssh client: the exit code is -1, which is not 255, and the
\* result says that it was signalled.
SessionSlain ==
  /\ session = "open" /\ session' = "slain"
  /\ UNCHANGED <<network, ctxDone, far, launch, code, stopper>>

-----------------------------------------------------------------------------
\* awaitPID.

PidRead ==
  /\ start = "polling" /\ pidFile /\ net /\ ~ctxDone
  /\ start' = "returned" /\ pid' = TRUE
  /\ UNCHANGED <<network, ctxDone, far, client, stopper>>

PidGivenUp ==
  /\ start = "polling" /\ (ctxDone \/ ~net \/ ~pidFile)
  /\ start' = "returned"
  /\ UNCHANGED <<network, ctxDone, far, pid, client, stopper>>

-----------------------------------------------------------------------------
\* exec.Stop.  A signal is a command of its own, not bound to the cancelled context; to
\* a program that is gone it counts as delivered.  One that fails for want of a network may
\* still have arrived, if only the answer was lost; without a pid none is sent.

CanSignal == pid /\ net

StopTerm ==
  /\ stop = "idle" /\ start = "returned"
  /\ \/ /\ CanSignal
        /\ termSent' = TRUE /\ stop' = "grace" /\ UNCHANGED stopErr
     \/ /\ ~CanSignal
        /\ stop' = "returned" /\ stopErr' = "signal"
        /\ termSent' \in {termSent, termSent \/ pid}
  /\ UNCHANGED <<network, ctxDone, remote, pidFile, launch, client, killLost>>

\* sshProcess.Wait: 255 is an error whoever it came from, and a context that ended
\* before the result was published is blamed for it.
SessionErrMut == IF session = "killed" THEN {"canceled"} ELSE {"none"}
SessionErr ==
  IF session = "killed" THEN {"canceled"}
  ELSE {IF code = "255" THEN "255" ELSE "none"} \cup (IF ctxDone THEN {"canceled"} ELSE {})

WaitReturnsMut ==
  /\ stop \in {"grace", "killing"}
  /\ stop' = "returned" /\ stopErr' \in SessionErr
  /\ pidFile' = (pidFile /\ ~net)
  /\ UNCHANGED <<network, ctxDone, remote, termSent, launch, client, killLost>>
WaitReturns ==
  /\ stop \in {"grace", "killing"} /\ session # "open"
  /\ stop' = "returned" /\ stopErr' \in SessionErr
  /\ pidFile' = (pidFile /\ ~net)
  /\ UNCHANGED <<network, ctxDone, remote, termSent, launch, client, killLost>>

GraceExpires ==
  /\ stop = "grace" /\ stop' = "escalate"
  /\ UNCHANGED <<network, ctxDone, far, launch, client, stopErr, killLost>>

\* The result of the second signal is ignored.
EscalateMut == UNCHANGED <<remote, killLost>>
Escalate ==
  \/ CanSignal /\ remote' = "gone" /\ UNCHANGED killLost
  \/ ~CanSignal /\ killLost' = TRUE /\ remote' \in {remote, "gone"}

StopKills ==
  /\ stop = "escalate" /\ Escalate /\ stop' = "killing"
  /\ UNCHANGED <<network, ctxDone, termSent, pidFile, launch, client, stopErr>>

-----------------------------------------------------------------------------
Client  == SessionEnds \/ SessionLost \/ SessionKilled
Stopper == WaitReturns \/ GraceExpires \/ StopKills

Next ==
  \/ NetChanges \/ Interrupt
  \/ RemoteStarts \/ RemoteExits
  \/ PidRead \/ PidGivenUp
  \/ Client \/ SessionSlain
  \/ StopTerm \/ Stopper

Spec == Init /\ [][Next]_vars

\* The ssh client notices what happens to its connection, and exec.Stop keeps running.
\* Nothing is assumed of the program.
FairSpec == Spec /\ WF_vars(Client) /\ WF_vars(Stopper)

-----------------------------------------------------------------------------
\* Every variable stays in its range.
TypeOK ==
  /\ net \in BOOLEAN /\ ctxDone \in BOOLEAN /\ blips \in 0..MaxBlips
  /\ remote \in {"absent", "running", "gone"}
  /\ termSent \in BOOLEAN /\ pidFile \in BOOLEAN
  /\ start \in {"polling", "returned"} /\ pid \in BOOLEAN
  /\ session \in {"open", "ended", "lost", "killed", "slain"}
  /\ code \in {"none", "program", "255"}
  /\ stop \in {"idle", "grace", "escalate", "killing", "returned"}
  /\ stopErr \in {"none", "signal", "255", "canceled"}
  /\ killLost \in BOOLEAN

\* A stop that reports no error left nothing running: a session that was lost, or killed with
\* its context, and a signal that never arrived, are always errors.  Only an ssh client that
\* somebody else killed ends without one, and the result names the signal then.
CleanStopMeansGone ==
  stop = "returned" /\ stopErr = "none" => remote = "gone" \/ session = "slain"

\* The pid that is sampled and signalled is the one this launch wrote, not a file left
\* by another.
PidIsOurs == pid => remote # "absent"

\* exec.Stop returns, whatever the program does and the network did before, unless the
\* network swallowed the SIGKILL itself or its answer: nobody sends a second one.
StopEndsUnlessKillLost == stop = "grace" ~> stop = "returned" \/ killLost

\* Even then an interrupt gets the operator out.
CancelEndsStop == stop = "killing" /\ ctxDone ~> stop = "returned"

\* A subject run on another machine is what the campaign takes it for (SubjectHandle).  While
\* the network has not failed and nobody interrupts, a stop that could signal leaves it gone;
\* it is left draining by a lost or killed session, but never without having been told to
\* end, and left as it was only by a signal that could not be sent.  A session killed by
\* somebody else is a way that failed.
WayFailed == blips > 0 \/ session = "slain"
Handle == INSTANCE SubjectHandle WITH
  remote <- TRUE, flaky <- WayFailed,
  subject <- IF remote = "gone" THEN "gone"
             ELSE IF stop = "returned" /\ termSent THEN "draining" ELSE "up",
  handle <- IF stop = "returned" THEN "stopped"
            ELSE IF start = "polling" THEN "starting"
            ELSE IF pid THEN "held" ELSE "blind"

IsASubject == Handle!Spec

\* Why the safety properties hold.
SshInv ==
  /\ pidFile => remote # "absent"
  /\ PidIsOurs
  /\ session = "ended" => remote = "gone"
  /\ session = "lost" => code = "255"
  /\ stop \in {"grace", "escalate", "killing"} => pid
  /\ stop # "returned" => stopErr = "none"
  /\ CleanStopMeansGone

\* Why IsASubject holds: a network that is down has failed before, a session that ended
\* early was cut by it, by the interrupt or by somebody else, and a stop that waits has sent
\* its signal.
WayInv ==
  /\ start = "polling" => stop = "idle" /\ ~pid
  /\ stop = "idle" => ~termSent
  /\ stop \in {"grace", "escalate", "killing"} => termSent
  /\ ~net \/ session = "lost" => blips > 0
  /\ session = "killed" => ctxDone
=============================================================================

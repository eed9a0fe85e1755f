---------------------------- MODULE LocalProcess ----------------------------
(***************************************************************************)
(* One command started by exec.Local (internal/exec/local.go) and what     *)
(* surrounds it: the process and the children it leaves in its group, the  *)
(* watcher goroutine that kills the group when the context is cancelled,   *)
(* the goroutines that drain its output, the one call of Wait, and         *)
(* exec.Stop with its grace timer.                                         *)
(*                                                                         *)
(* `piped` is Local.Run, which drains the pipes Start made and waits;      *)
(* without it the output goes to a file and exec.Stop ends the process, as *)
(* a subject is run.  The process itself may exit at any time or never.    *)
(*                                                                         *)
(* An operator named ...Mut is a seeded fault in the operation it stands   *)
(* before; no action uses it.                                              *)
(***************************************************************************)
EXTENDS Integers, FiniteSets

CONSTANTS
  Children,  \* processes the command may leave in its process group
  Limit,     \* CaptureLimit, in units of output
  MaxOut,    \* bound: units of output the group writes
  PipeSize   \* bound: units the pipe holds before a writer blocks

ASSUME ProcessAssumption ==
  /\ Limit \in Nat /\ MaxOut \in Nat /\ PipeSize \in Nat \ {0}

VARIABLES
  piped,      \* Local.Run, rather than Local.Start and exec.Stop
  ctxDone,
  leader,     \* the process itself
  ended,      \* what ended it
  child,
  termSent,   \* SIGTERM has been delivered to the group
  watcher,    \* the goroutine of localProcess.watch
  canceled,   \* localProcess.canceled, under its mutex
  waiter,     \* how far the one execution of Wait has come
  err,        \* what Wait returned beside the result
  stop,       \* how far exec.Stop has come
  killed,     \* what Stop reports about the escalation
  produced, unread, kept, truncated   \* the output, the pipe and the capture

env    == <<piped, ctxDone>>
group  == <<leader, ended, child, termSent>>
watch  == <<watcher, canceled>>
wait   == <<waiter, err>>
stopper == <<stop, killed>>
output == <<produced, unread, kept, truncated>>
vars == <<env, group, watch, wait, stopper, output>>

AliveChildren == {c \in Children : child[c] = "alive"}
Holders == AliveChildren # {} \/ leader = "running"

Init ==
  /\ piped \in BOOLEAN /\ ctxDone = FALSE
  /\ leader = "running" /\ ended = "none"
  /\ child = [c \in Children |-> "unborn"] /\ termSent = FALSE
  /\ watcher \in {"none", "select"}  \* there is a watcher if ctx.Done() is not nil
  /\ canceled = FALSE
  /\ waiter = IF piped THEN "drain" ELSE "idle"
  /\ err = "none" /\ stop = "idle" /\ killed = FALSE
  /\ produced = 0 /\ unread = 0 /\ kept = 0 /\ truncated = FALSE

-----------------------------------------------------------------------------
\* The processes.

Spawn(c) ==
  /\ leader = "running" /\ child[c] = "unborn"
  /\ child' = [child EXCEPT ![c] = "alive"]
  /\ UNCHANGED <<env, leader, ended, termSent, watch, wait, stopper, output>>

LeaderExits ==
  /\ leader = "running"
  /\ leader' = "zombie" /\ ended' = IF termSent THEN "term" ELSE "self"
  /\ UNCHANGED <<env, child, termSent, watch, wait, stopper, output>>

ChildExits(c) ==
  /\ child[c] = "alive"
  /\ child' = [child EXCEPT ![c] = "dead"]
  /\ UNCHANGED <<env, leader, ended, termSent, watch, wait, stopper, output>>

\* A writer blocks while the pipe is full.
Write ==
  /\ piped /\ Holders /\ produced < MaxOut /\ unread < PipeSize
  /\ produced' = produced + 1 /\ unread' = unread + 1
  /\ UNCHANGED <<env, group, watch, wait, stopper, kept, truncated>>

Interrupt ==
  /\ watcher # "none" /\ ~ctxDone /\ ctxDone' = TRUE
  /\ UNCHANGED <<piped, group, watch, wait, stopper, output>>

\* SIGKILL to the negative pid: every process left in the group, the leader only if
\* it still runs.
KillGroupMut(how) ==
  /\ leader' = IF leader = "running" THEN "zombie" ELSE leader
  /\ ended' = IF leader = "running" THEN how ELSE ended
  /\ UNCHANGED child
KillGroup(how) ==
  /\ leader' = IF leader = "running" THEN "zombie" ELSE leader
  /\ ended' = IF leader = "running" THEN how ELSE ended
  /\ child' = [c \in Children |-> IF child[c] = "alive" THEN "dead" ELSE child[c]]

-----------------------------------------------------------------------------
\* localProcess.watch: mark, then kill.

WatchMarksMut == watcher' = "marked" /\ UNCHANGED canceled
WatchMarks == watcher' = "marked" /\ canceled' = TRUE

WatchSeesCancel ==
  /\ watcher = "select" /\ ctxDone
  /\ WatchMarks
  /\ UNCHANGED <<env, group, wait, stopper, output>>

WatchKills ==
  /\ watcher = "marked" /\ watcher' = "gone"
  /\ KillGroup("cancel")
  /\ UNCHANGED <<env, termSent, canceled, wait, stopper, output>>

WatchEnds ==
  /\ watcher = "select" /\ waiter = "done" /\ watcher' = "gone"
  /\ UNCHANGED <<env, group, canceled, wait, stopper, output>>

-----------------------------------------------------------------------------
\* capture.Write: what fits is kept, the rest is counted as truncation.
Keep(n) == IF n > Limit - kept THEN Limit - kept ELSE n
Cut(n) == n > Limit - kept

Drain ==
  /\ waiter = "drain" /\ unread > 0
  /\ \E n \in 1..unread :
       /\ unread' = unread - n
       /\ kept' = kept + Keep(n)
       /\ truncated' = (truncated \/ Cut(n))
  /\ UNCHANGED <<env, group, watch, wait, stopper, produced>>

\* Wait: the drains see the end of the pipe only when nobody holds its write end, and
\* only then is the process reaped.
AtEOFMut == leader # "running"
AtEOF == unread = 0 /\ ~Holders

Drained ==
  /\ waiter = "drain" /\ (piped => AtEOF)
  /\ waiter' = "wait"
  /\ UNCHANGED <<env, group, watch, err, stopper, output>>

Reap ==
  /\ waiter = "wait" /\ leader = "zombie"
  /\ leader' = "reaped" /\ waiter' = "reaped"
  /\ UNCHANGED <<env, ended, child, termSent, watch, err, stopper, output>>

\* The result is published: canceled decides the error, then done is closed.
Publish ==
  /\ waiter = "reaped" /\ waiter' = "done"
  /\ err' = IF canceled THEN "canceled" ELSE "none"
  /\ UNCHANGED <<env, group, watch, stopper, output>>

-----------------------------------------------------------------------------
\* exec.Stop.  The timer and the result race; Go picks either when both are ready.

StopTerm ==
  /\ ~piped /\ stop = "idle"
  /\ termSent' = TRUE /\ stop' = "grace" /\ waiter' = "drain"
  /\ UNCHANGED <<env, leader, ended, child, watch, err, killed, output>>

StopInGrace ==
  /\ stop = "grace" /\ waiter = "done"
  /\ stop' = "returned" /\ killed' = FALSE
  /\ UNCHANGED <<env, group, watch, wait, output>>

GraceExpiresMut ==
  /\ stop = "grace" /\ stop' = "returned"
  /\ UNCHANGED <<env, group, watch, wait, killed, output>>
GraceExpires ==
  /\ stop = "grace" /\ stop' = "escalate"
  /\ UNCHANGED <<env, group, watch, wait, killed, output>>

EscalateMut == KillGroup("kill") /\ stop' = "returned" /\ killed' = FALSE
EscalateGently == stop' = "killing" /\ UNCHANGED <<killed, leader, ended, child>>
Escalate == KillGroup("kill") /\ stop' = "killing" /\ UNCHANGED killed

StopEscalates ==
  /\ stop = "escalate" /\ Escalate
  /\ UNCHANGED <<env, termSent, watch, wait, output>>

StopAfterKill ==
  /\ stop = "killing" /\ waiter = "done"
  /\ stop' = "returned" /\ killed' = TRUE
  /\ UNCHANGED <<env, group, watch, wait, output>>

-----------------------------------------------------------------------------
Processes ==
  \/ LeaderExits \/ Write
  \/ \E c \in Children : Spawn(c) \/ ChildExits(c)

Watcher == WatchSeesCancel \/ WatchKills \/ WatchEnds
Waiter  == Drain \/ Drained \/ Reap \/ Publish
Stopper == StopInGrace \/ GraceExpires \/ StopEscalates \/ StopAfterKill

Next == Processes \/ Interrupt \/ Watcher \/ Waiter \/ StopTerm \/ Stopper

Spec == Init /\ [][Next]_vars

\* Goroutines run and timers fire.  Nothing is assumed of the processes: they need
\* neither exit nor heed SIGTERM.
FairSpec == Spec /\ WF_vars(Watcher) /\ WF_vars(Waiter) /\ WF_vars(Stopper)

-----------------------------------------------------------------------------
\* Every variable stays in its range.
TypeOK ==
  /\ piped \in BOOLEAN /\ ctxDone \in BOOLEAN /\ canceled \in BOOLEAN /\ killed \in BOOLEAN
  /\ termSent \in BOOLEAN /\ truncated \in BOOLEAN
  /\ leader \in {"running", "zombie", "reaped"}
  /\ ended \in {"none", "self", "term", "kill", "cancel"}
  /\ child \in [Children -> {"unborn", "alive", "dead"}]
  /\ watcher \in {"none", "select", "marked", "gone"}
  /\ waiter \in {"idle", "drain", "wait", "reaped", "done"}
  /\ err \in {"none", "canceled"}
  /\ stop \in {"idle", "grace", "escalate", "killing", "returned"}
  /\ produced \in 0..MaxOut /\ unread \in 0..PipeSize /\ kept \in 0..Limit

\* A process the cancelled context killed is never reported as one that ran to its end:
\* whatever the order of the kill, the reap and the publication, Wait says so.
CancelKillIsReported == waiter = "done" /\ ended = "cancel" => err = "canceled"

\* exec.Stop returns only once the process is reaped, and a process its SIGKILL ended
\* is reported as killed.
StopTellsTheTruth ==
  stop = "returned" => /\ leader = "reaped"
                       /\ ended = "kill" => killed

\* Run waits for the output: when the process has been reaped nothing is left unread in
\* a pipe that is about to be closed.
NothingLost == piped /\ waiter \in {"wait", "reaped", "done"} => unread = 0

\* A capture says that it is incomplete exactly when it is, and keeps all it may.
TruncationIsReported ==
  /\ truncated <=> produced - unread > Limit
  /\ ~truncated => kept = produced - unread
  /\ truncated => kept = Limit

\* Once the watcher has answered a cancellation no process of the group is left, not
\* even a child whose parent had already exited.
CancelLeavesNobody == watcher = "gone" /\ canceled => ~Holders

\* SIGKILL ends every wait: once exec.Stop has sent it, or the watcher of a Run has, the one
\* execution of Wait is blocked neither by the process nor by a child that holds the pipe.
WaitCanGoOn ==
  \/ waiter = "drain" /\ (piped => unread > 0 \/ AtEOF)
  \/ waiter = "wait" /\ leader = "zombie"
  \/ waiter \in {"reaped", "done"}
KillUnblocksWait ==
  stop = "killing" \/ (piped /\ watcher = "gone" /\ canceled) => WaitCanGoOn

\* A cancelled Run returns, even when the command has exited and only a child it left
\* behind holds the output pipe open.
CancelEndsRun == piped /\ ctxDone ~> waiter = "done"

\* exec.Stop returns whether or not the process heeds SIGTERM.
StopReturns == stop = "grace" ~> stop = "returned"

\* A subject run on this machine is what the campaign takes it for (SubjectHandle): it is up
\* until it ends by itself or is ended, and a stop leaves it gone.
Handle == INSTANCE SubjectHandle WITH
  remote <- FALSE, flaky <- FALSE,
  subject <- IF leader = "running" THEN "up" ELSE "gone",
  handle <- IF stop = "returned" THEN "stopped" ELSE "held"

IsASubject == Handle!Spec

\* Why the safety properties hold.
ProcessInv ==
  /\ leader = "running" <=> ended = "none"
  /\ waiter \in {"reaped", "done"} <=> leader = "reaped"
  /\ waiter = "idle" <=> ~piped /\ stop = "idle"
  /\ piped => stop = "idle"
  /\ ended = "cancel" => canceled
  /\ ended = "kill" => stop \in {"killing", "returned"}
  /\ stop \in {"killing", "returned"} => leader # "running"
  /\ stop = "returned" => waiter = "done"
  /\ stop = "returned" /\ ended = "kill" => killed
  /\ watcher = "marked" => canceled
  /\ watcher \in {"none", "select"} => ~canceled
  /\ piped /\ waiter \in {"wait", "reaped", "done"} => AtEOF
  /\ CancelKillIsReported
  /\ CancelLeavesNobody
=============================================================================

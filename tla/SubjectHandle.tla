---------------------------- MODULE SubjectHandle ----------------------------
(***************************************************************************)
(* What the campaign relies on when it launches one subject and stops it   *)
(* through its handle, with nothing of how a process is run or signalled:  *)
(* the subject is launched once and stopped once, and what a stop may      *)
(* leave behind depends on whether the subject is on another machine,      *)
(* whether its pid is known, whether the way there has failed, and whether *)
(* the operator has interrupted.                                           *)
(*                                                                         *)
(* LocalProcess and SshProcess implement it, and every launch of Campaign  *)
(* behaves as it says.                                                     *)
(***************************************************************************)

VARIABLES
  remote,   \* the subject is reached over ssh
  flaky,    \* the way to the subject may have failed
  ctxDone,
  subject,  \* "up" is booting or serving; "draining" was told to end and not waited for
  handle    \* "starting" while the pid is awaited, "blind" without one

hvars == <<remote, flaky, ctxDone, subject, handle>>

\* What Start makes of a launch: a local pid is always known.
Started == IF remote THEN {"starting", "held", "blind"} ELSE {"held"}

Init ==
  /\ remote \in BOOLEAN /\ flaky \in BOOLEAN /\ ctxDone \in BOOLEAN
  /\ \/ subject = "none" /\ handle = "none"
     \/ subject = "up" /\ handle \in Started

Launch ==
  /\ handle = "none"
  /\ subject' = "up" /\ handle' \in Started
  /\ UNCHANGED <<remote, flaky, ctxDone>>

\* awaitPID finds the pid or gives up.
Await ==
  /\ handle = "starting" /\ handle' \in {"held", "blind"}
  /\ UNCHANGED <<remote, flaky, ctxDone, subject>>

\* The subject exits, crashes, or is killed with its context.
Ends ==
  /\ subject \in {"up", "draining"} /\ subject' = "gone"
  /\ UNCHANGED <<remote, flaky, ctxDone, handle>>

\* How a subject may be found after a stop.  Where the signal arrives and is waited for it is
\* gone; one on another machine may be left draining by a session that was cut, and is left
\* as it was by a signal that cannot be sent.
Left(x) ==
  \/ handle = "held" /\ x = "gone"
  \/ handle = "held" /\ remote /\ (flaky \/ ctxDone) /\ subject # "gone" /\ x = "draining"
  \/ (handle = "blind" \/ (remote /\ flaky)) /\ x = subject

StopReturns ==
  /\ handle \in {"held", "blind"} /\ handle' = "stopped"
  /\ Left(subject')
  /\ UNCHANGED <<remote, flaky, ctxDone>>

Interrupt == ~ctxDone /\ ctxDone' = TRUE /\ UNCHANGED <<remote, flaky, subject, handle>>

WayFails == remote /\ ~flaky /\ flaky' = TRUE /\ UNCHANGED <<remote, ctxDone, subject, handle>>

Next == Launch \/ Await \/ Ends \/ StopReturns \/ Interrupt \/ WayFails

Spec == Init /\ [][Next]_hvars
=============================================================================

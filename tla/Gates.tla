-------------------------------- MODULE Gates --------------------------------
(***************************************************************************)
(* The gates (internal/gate): what may cost a measured cell its place in   *)
(* the results.  A gate is a function from the evidence of a cell to a set *)
(* of findings; the worst finding is the verdict.                          *)
(*                                                                         *)
(* Evidence is a record; what the gates only compare with a threshold is a *)
(* Boolean here.  Its fields:                                              *)
(*   scenario                                                              *)
(*   alloc, pool, cap: virtual users allocated, observed, allowed (0: none)*)
(*   busy: the runner's machine was over its ceiling                       *)
(*   competing: throughput fell as the runner's CPU rose                   *)
(*   failed, dropped: requests that failed, iterations that never started  *)
(*   short: less was achieved than 99% of the offered rate                 *)
(*   served: the runtime served metrics; shed: messages it lost            *)
(*   steady, corroborated: a window was found; a second series agreed      *)
(*   imposter: the version reported is not the one started                 *)
(*   mute: an admin port was detected but never answered                   *)
(*   ready: how readiness was detected; machine: a host fingerprint        *)
(*   clock: the offset was "unmeasured", "stable" or "drifted"             *)
(*                                                                         *)
(* An operator named ...Mut is a seeded fault in the operation it stands   *)
(* before; nothing uses it.                                                *)
(***************************************************************************)
EXTENDS Integers

Valid == 0
Suspect == 1
Invalid == 2

Unknown == "unknown"

When(condition, gate, level) == IF condition THEN {[gate |-> gate, level |-> level]} ELSE {}

-----------------------------------------------------------------------------
\* Pools that differ by the factor of two PeerPoolRatioInvalid names.
ApartMut(p, q) == p >= 2 * q
Apart(p, q) == p >= 2 * q \/ q >= 2 * p

\* Two pools of one scenario that were both observed, and observed to be apart.
PoolsDisagree(e, p) ==
  p.scenario = e.scenario /\ p.pool > 0 /\ e.pool > 0 /\ Apart(e.pool, p.pool)

GeneratorSaturation(e, peers) ==
  LET gate == "loadgen.saturation" IN
  UNION {
    When(e.alloc > 0 /\ e.pool > e.alloc, gate, IF e.pool >= 2 * e.alloc THEN Invalid ELSE Suspect),
    When(e.cap > 0 /\ e.pool >= e.cap, gate, Invalid),
    When(e.busy, gate, Invalid),
    When(e.competing, gate, Invalid),
    When(\E p \in peers : PoolsDisagree(e, p), gate, Invalid)}

\* Work shed behind the back of a client that saw no failure is worse than an error.
ErrorRate(e) ==
  LET gate == "loadgen.errors" IN
  UNION {
    When(e.failed > 0, gate, Invalid),
    When(e.served /\ e.shed > 0, gate, IF e.failed = 0 THEN Invalid ELSE Suspect)}

RateGap(e) ==
  LET gate == "loadgen.saturated" IN
  UNION {
    When(e.dropped > 0, gate, Invalid),
    When(e.short, gate, Invalid),
    When(e.served /\ e.dropped > 0, gate, Suspect)}

SteadyState(e) ==
  LET gate == "window.steady-state" IN
  When(~e.steady, gate, Invalid) \cup When(e.steady /\ ~e.corroborated, gate, Suspect)

Identity(e) ==
  LET gate == "subject.identity" IN
  When(e.served /\ e.imposter, gate, Invalid) \cup When(e.mute, gate, Invalid)

Differ(x, y) == x # Unknown /\ y # Unknown /\ x # y

Fingerprint(e, peers) ==
  LET gate == "env.fingerprint" IN
  When(\E p \in peers : Differ(e.machine, p.machine), gate, Invalid)
  \cup When(\E p \in peers : Differ(e.ready, p.ready), gate, Suspect)

ClockDrift(e) ==
  LET gate == "env.clock" IN
  When(e.clock = "unmeasured", gate, Suspect) \cup When(e.clock = "drifted", gate, Invalid)

Check(e, peers) ==
  UNION {GeneratorSaturation(e, peers), ErrorRate(e), RateGap(e), SteadyState(e),
         Identity(e), Fingerprint(e, peers), ClockDrift(e)}

-----------------------------------------------------------------------------
\* In observe mode nothing is worse than suspect.
Capped(found, observe) ==
  {[f EXCEPT !.level = IF observe /\ f.level > Suspect THEN Suspect ELSE f.level] : f \in found}

Worst(found) ==
  IF \E f \in found : f.level = Invalid THEN Invalid
  ELSE IF \E f \in found : f.level = Suspect THEN Suspect ELSE Valid

Evaluate(e, peers, observe) == Worst(Capped(Check(e, peers), observe))

Excluded(level) == level = Invalid

\* What the next cells are told about this one.
PeerOf(e) == [scenario |-> e.scenario, pool |-> e.pool, ready |-> e.ready, machine |-> Unknown]
=============================================================================

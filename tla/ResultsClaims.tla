---------------------------- MODULE ResultsClaims ----------------------------
(***************************************************************************)
(* A statement the comments of the gates make, as a property of the model. *)
(* It is refuted by a run of its own; see the findings in the README.      *)
(***************************************************************************)
EXTENDS Results

\* evidence.go:87 "Sampling it is what turns "the generator probably had headroom" into
\* evidence": no usable cell was measured with the runner's machine over its ceiling.
GeneratorHadHeadroom ==
  ~campaign.observe => \A i \in 1..Len(cells) : Usable(cells[i]) => ~cells[i].saw.busy
=============================================================================

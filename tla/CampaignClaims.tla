--------------------------- MODULE CampaignClaims ---------------------------
(***************************************************************************)
(* A statement the comments of the campaign code make about it, refuted by *)
(* a run of its own; see the findings in the README.                       *)
(***************************************************************************)
EXTENDS Campaign

\* campaign.go:290 "Refuse to start against a port something else already holds. A
\* stale process answers 404 quickly and reads as excellent throughput": no recorded
\* cell was answered by the subject of another one.
NoCellMeasuresAStaleSubject ==
  \A i \in recorded : answered[<<i, "cell">>] \subseteq {<<i, "cell">>}
=============================================================================

----------------------------- MODULE MCCampaign -----------------------------
(* Small campaigns for TLC: two scenarios, three cells in plan order.        *)
EXTENDS CampaignClaims

CONSTANTS s1, s2

MCScenarios  == {s1, s2}
MCScenarioOf == <<s1, s1, s2>>

Setup(remote, faults) == [remote |-> remote, faults |-> faults]
Contained == Setup(FALSE, FaultKinds \ {"argv", "pid", "session", "teardown", "hang"})
Reachable == Setup(TRUE, {"pid", "session", "crash"})
Anything  == {Contained, Reachable, Setup(TRUE, FaultKinds)}
Unwritable == {Setup(FALSE, {"argv"})}
=============================================================================

----------------------------- MODULE CellLedger -----------------------------
(***************************************************************************)
(* What a campaign promises its operator about its cells, with nothing of  *)
(* how a cell is run: the planned cells are settled one by one in plan     *)
(* order, each becomes a result or a reported failure exactly once, and    *)
(* when the ledger is closed nothing is added to it.  It may close early,  *)
(* never with a cell skipped in the middle.                                *)
(***************************************************************************)
EXTENDS Integers

CONSTANT N  \* number of planned cells

VARIABLES
  entry,    \* entry[i]: "open" until cell i is settled as "result" or "failure"
  closed

lvars == <<entry, closed>>

Init == entry = [i \in 1..N |-> "open"] /\ closed = FALSE

\* The cell after the settled ones is settled; the last one closes the ledger.
Settle(i) ==
  /\ ~closed /\ entry[i] = "open"
  /\ \A j \in 1..(i - 1) : entry[j] # "open"
  /\ \E e \in {"result", "failure"} : entry' = [entry EXCEPT ![i] = e]
  /\ closed' \in IF i = N THEN {TRUE} ELSE BOOLEAN

\* The campaign gives up before its first cell, or is told to stop.
Close == ~closed /\ closed' = TRUE /\ UNCHANGED entry

Next == Close \/ \E i \in 1..N : Settle(i)

Spec == Init /\ [][Next]_lvars
=============================================================================

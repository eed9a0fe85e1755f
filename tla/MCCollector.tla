---------------------------- MODULE MCCollector ----------------------------
(***************************************************************************)
(* Instance of Collector for model checking: either kind of collector, and *)
(* time enough for a window inside a load pass with a tick on either side. *)
(***************************************************************************)
EXTENDS Collector
=============================================================================

------------------------------- MODULE MCPipe -------------------------------
(***************************************************************************)
(* Instance of SeriesPipe for model checking: three rows through a pipe of *)
(* two, so that the generator blocks and rows are left when it exits.      *)
(***************************************************************************)
EXTENDS SeriesPipe
=============================================================================

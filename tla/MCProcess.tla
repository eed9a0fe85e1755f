----------------------------- MODULE MCProcess -----------------------------
(***************************************************************************)
(* Instance of LocalProcess for model checking: one child is enough for a  *)
(* process to outlive its parent; three units of output exceed a limit of  *)
(* one and a pipe of two.                                                  *)
(***************************************************************************)
EXTENDS LocalProcess
CONSTANT c1
=============================================================================

------------------------------- MODULE MCSsh -------------------------------
(***************************************************************************)
(* Instance of SshProcess for model checking.  Three changes of the        *)
(* network are enough to lose a command, recover, and lose another.        *)
(***************************************************************************)
EXTENDS SshProcess
=============================================================================

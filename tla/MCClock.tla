------------------------------ MODULE MCClock ------------------------------
(* A clock of four ticks to the second, probes that take up to four ticks   *)
(* each way, and a subject whose clock is moved back or forth.              *)
EXTENDS Clock

MCInstants == 0..(Second - 1)
MCSkews    == {0, 2, 7}
=============================================================================

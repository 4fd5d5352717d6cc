------------------------------- MODULE MCGnss -------------------------------
(* Gnss for TLC: minutes of three seconds, so that second 0 of an even     *)
(* minute, second 0 of an odd one and other seconds all occur.             *)
EXTENDS Gnss
=============================================================================

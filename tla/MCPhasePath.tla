---------------------------- MODULE MCPhasePath ----------------------------
(* PhasePath for TLC: words of two bits and two taps. *)
EXTENDS PhasePath

MCDelays == {[base |-> 0, coeff |-> 3]}
=============================================================================

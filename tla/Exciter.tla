------------------------------ MODULE Exciter ------------------------------
(***************************************************************************)
(* The exciter: the synthesizer as class Si5351 programs it, and the       *)
(* gateware's sequencer, which runs on the synthesizer's CLK0 while that   *)
(* clock is on.  CLK0 is six times the carrier in both modes               *)
(* (Si5351.cpp:76), where FPGA.md:59 and 60 have 15 times and 5 times, the *)
(* places of the two rings in a period of the wave.                        *)
(***************************************************************************)
EXTENDS Si5351, Sequencer

vars == <<svars, qvars>>

Init == SInit /\ QInit

Synthesizer == SNext /\ UNCHANGED qvars
Inputs      == SetInputs /\ UNCHANGED svars
ClockEdge   == 0 \in outputs /\ divider # 0 /\ Edge /\ UNCHANGED svars

Next == Synthesizer \/ Inputs \/ ClockEdge

Spec == Init /\ [][Next]_vars
-----------------------------------------------------------------------------
(* The shape of every state. *)
TypeOK == STypeOK /\ QTypeOK
=============================================================================

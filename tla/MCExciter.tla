----------------------------- MODULE MCExciter -----------------------------
(* Exciter for TLC: the nine bands of band.hpp and both ends of a sweep as  *)
(* carriers, symbol 3 as the offset, target phase zero and one step of the *)
(* lookup table.                                                            *)
EXTENDS Exciter

Bands      == {18366, 35686, 70386, 101387, 140956, 181046, 210946, 249246, 281246}
MCCarriers == Bands \cup {10000, 300000}
MCOffsets  == {4394}
MCPhases   == {0, 4369}
=============================================================================

---------------------------- MODULE WordCrossing ----------------------------
(***************************************************************************)
(* What a crossing from one clock to another promises: a word that is      *)
(* offered comes out on the other side whole, once, and before the next is *)
(* offered.  PhasePath implements this when txClk is slow enough.          *)
(***************************************************************************)
CONSTANT Word

VARIABLES
  offered,  (* the last word offered                                        *)
  busy,     (* it is on its way                                             *)
  shown     (* what is on the other side                                    *)

crossVars == <<offered, busy, shown>>

CrossInit == offered \in Word /\ busy = FALSE /\ shown = offered

Offer == ~busy /\ busy' = TRUE /\ offered' \in Word /\ UNCHANGED shown

Take == busy /\ busy' = FALSE /\ shown' = offered /\ UNCHANGED offered

CrossSafety == CrossInit /\ [][Offer \/ Take]_crossVars

CrossLiveness == WF_crossVars(Take)

CrossSpec == CrossSafety /\ CrossLiveness
=============================================================================

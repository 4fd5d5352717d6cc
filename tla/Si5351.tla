------------------------------- MODULE Si5351 -------------------------------
(***************************************************************************)
(* class Si5351 (sw/src/Si5351.cpp): the clock synthesizer.  PLL A and     *)
(* divider 0 make CLK0, six times the carrier; PLL B and divider 2 make    *)
(* the fixed 40 MHz of CLK2.  Frequencies are in units of 100 Hz.  The     *)
(* rounding of the PLL's fraction (at most 20 Hz of 800 MHz) is left out.  *)
(***************************************************************************)
EXTENDS Integers

CONSTANTS
  Carriers,  (* carrier frequencies that are set                            *)
  Offsets    (* offsets from the carrier, in mHz                            *)

ASSUME CarriersAssumption == Carriers \subseteq Nat \ {0}
ASSUME OffsetsAssumption  == Offsets \subseteq Int

VARIABLES
  initialized, rfBaseFreq, pllaFreq, ms0,  (* members                       *)
  vco,       (* the chip: frequency of PLL A without the offset             *)
  divider,   (* the chip: divider 0                                         *)
  shift,     (* the chip: offset of PLL A, in mHz                           *)
  outputs    (* the chip: the clocks that are on                            *)

members == <<initialized, rfBaseFreq, pllaFreq, ms0>>
chip    == <<vco, divider, shift, outputs>>
svars   == <<members, chip>>

LowVCO    == 6000000
HighVCO   == 9000000
TargetVCO == 8000000
Far       == 2147483647      \* no candidate so far

Distance(v) == IF v > TargetVCO THEN v - TargetVCO ELSE TargetVCO - v
InRange(v)  == LowVCO <= v /\ v <= HighVCO
Candidates  == {2 * k : k \in 3..75}

(* Mutation of BestDivider: the last of the candidates in range. *)
BestDividerLast(clk0) ==
  LET best[k \in 2..75] ==
        IF k = 2 THEN [n |-> 10, diff |-> Far]
        ELSE IF InRange(2 * k * clk0) THEN [n |-> 2 * k, diff |-> 0] ELSE best[k - 1]
  IN best[75].n

(* The loop of setCarrierFreq over the even dividers from 6 to 150; best   *)
(* after the candidate 2k.                                                 *)
BestDivider(clk0) ==
  LET best[k \in 2..75] ==
        IF k = 2 THEN [n |-> 10, diff |-> Far]
        ELSE LET v == 2 * k * clk0
             IN IF InRange(v) /\ Distance(v) < best[k - 1].diff
                THEN [n |-> 2 * k, diff |-> Distance(v)]
                ELSE best[k - 1]
  IN best[75].n

Divider == [f \in Carriers |-> BestDivider(6 * f)]

SInit ==
  /\ initialized = FALSE /\ rfBaseFreq = 0 /\ pllaFreq = 0 /\ ms0 = 0
  /\ vco = 0 /\ divider = 0 /\ shift = 0 /\ outputs = {}

(* init: all clocks off, PLL B and CLK2 programmed. *)
SynthInit ==
  /\ initialized' = TRUE
  /\ outputs' = {}
  /\ UNCHANGED <<rfBaseFreq, pllaFreq, ms0, vco, divider, shift>>

SetCarrierFreq(f) ==
  /\ initialized
  /\ rfBaseFreq' = f
  /\ ms0' = Divider[f]
  /\ pllaFreq' = ms0' * 6 * f
  /\ vco' = pllaFreq' /\ divider' = ms0' /\ shift' = 0
  /\ UNCHANGED <<initialized, outputs>>

(* The carrier moves by moving PLL A, without a reset of the PLL. *)
TuneCarrierOffset(o) ==
  /\ initialized /\ rfBaseFreq # 0
  /\ vco' = pllaFreq
  /\ shift' = ms0 * 6 * o
  /\ UNCHANGED <<initialized, rfBaseFreq, pllaFreq, ms0, divider, outputs>>

SetClockOutputsEnabled(e) ==
  /\ outputs' = IF e THEN {0, 2} ELSE {}
  /\ UNCHANGED <<members, vco, divider, shift>>

(* FPGA::init brings the chip up and switches the clocks on; a carrier and *)
(* an offset may follow at any time.                                       *)
SNext ==
  \/ SynthInit
  \/ \E f \in Carriers : SetCarrierFreq(f)
  \/ \E o \in Offsets : TuneCarrierOffset(o)
  \/ \E e \in BOOLEAN : initialized /\ SetClockOutputsEnabled(e)

SSpec == SInit /\ [][SNext]_svars
-----------------------------------------------------------------------------
(* The shape of every state. *)
STypeOK ==
  /\ initialized \in BOOLEAN /\ rfBaseFreq \in Carriers \cup {0}
  /\ pllaFreq \in Nat /\ ms0 \in Candidates \cup {0}
  /\ vco \in Nat /\ divider \in Candidates \cup {0} /\ shift \in Int
  /\ outputs \subseteq {0, 2}

(* The chip runs on the best even divider there is: where an even one      *)
(* brings PLL A between 600 and 900 MHz, PLL A is there, and none of the   *)
(* others would bring it nearer to 800 MHz, for every carrier, after every *)
(* change from another one and every offset.  This is what the loop does.  *)
(* The comment on it (Si5351.cpp:78) asks for a multiple of 6 besides, and *)
(* the loop, which goes on by 2, does not look for one.                    *)
Fit == [f \in Carriers |-> {n \in Candidates : InRange(n * 6 * f)}]

DividerIsBest ==
  rfBaseFreq # 0 /\ Fit[rfBaseFreq] # {} =>
    /\ divider \in Fit[rfBaseFreq] /\ vco = divider * 6 * rfBaseFreq
    /\ \A n \in Fit[rfBaseFreq] : Distance(vco) <= Distance(n * 6 * rfBaseFreq)

(* Si5351.cpp:78: the divider keeps the VCO of PLL A in 600-900 MHz. *)
VCOInRange ==
  rfBaseFreq # 0 => InRange(vco)
=============================================================================

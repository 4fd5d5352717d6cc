----------------------------- MODULE Sequencer -----------------------------
(***************************************************************************)
(* The RF sequencer of the gateware (FPGA/gateware.py, part 9): the        *)
(* pipeline in the txClk domain that turns a ring counter and a phase into *)
(* the four gate drives of the output stage.  One step is one txClk edge;  *)
(* the control bits and the phase come from another clock domain.  A write *)
(* over SPI and a frame of I2S take hundreds of edges, so the pipeline has *)
(* settled when an input changes; the first edge after the change sees the *)
(* old or the new value of each bit.  The phase is that of the Phase       *)
(* register: the I2S phase of modulation mode 2 is left out.  The adder of *)
(* the DSP block has no output register (TOPOUTPUT_SELECT is 0).           *)
(*                                                                         *)
(* PushBase, PushPeak, PullBase and PullPeak are active low in the         *)
(* hardware; here pins is the set of the drives that are on.               *)
(***************************************************************************)
EXTENDS Integers

CONSTANT Phases   (* target phases, of 65536 to a turn                      *)

Turn   == 65536
Widest == 524287             \* of what the lookup table can hold, 19 bits

ASSUME PhasesAssumption == Phases \subseteq 0..(Turn - 1)

VARIABLES
  txEn, modeSq, softReset, phase,  (* inputs, in the sync domain            *)
  ff,               (* the synchronizers: two bits for each control input   *)
  seqReset, seqSq, dspSq,  (* registered copies of reset and mode           *)
  counterSq, counter15,    (* the two ring counters                         *)
  lutSq, lut15, lut3,      (* base phase, times six, stages 2 and 3         *)
  coeff2, coeff3,          (* multiplier, stages 2 and 3                    *)
  phase0, phase1,          (* phase, on its way into the txClk domain       *)
  phase2, phase3,          (* target phase, stages 2 and 3                  *)
  dsp,              (* input registers of the multiplier-adder              *)
  pins,             (* gate drives that are on                              *)
  steady            (* edges since an input last changed, capped            *)

inputs   == <<txEn, modeSq, softReset, phase>>
pipeline == <<ff, seqReset, seqSq, dspSq, counterSq, counter15, lutSq, lut15, lut3,
              coeff2, coeff3, phase0, phase1, phase2, phase3, dsp, pins>>
qvars    == <<inputs, pipeline, steady>>

Latency == 4                 \* edges from a counter to the pins
Settled == 9                 \* edges from a control input to the pins

Step     == 26214            \* of the lookup table: 6 * 4369, and 2 * 13107
Lut(i)   == i * Step

(* Mutation of Coeff: the 1-2-1 wave has five states. *)
CoeffFive(m) == IF m THEN 2 ELSE 5

Coeff(m) == IF m THEN 2 ELSE 6
Two      == [first : BOOLEAN, second : BOOLEAN]
Push     == {"PushBase", "PushPeak"}
Pull     == {"PullBase", "PullPeak"}

(* Mutation of NextSq: the ring has four places. *)
NextSqShort(i) == IF i >= 3 THEN 0 ELSE i + 1

NextSq(i) == IF i >= 4 THEN 0 ELSE i + 1
Next15(i) == IF i >= 14 THEN 0 ELSE i + 1

(* Bits 16 to 18 of phase * coeff + lut. *)
State(d) == ((d.a * d.b + d.c) \div Turn) % 8

(* Mutation of Decode: states 2 and 4 are taken for each other. *)
DecodeSwapped(m, s) ==
  IF m
  THEN CASE s = 0 -> {"PushBase"} [] s = 1 -> {"PullBase"} [] OTHER -> {}
  ELSE CASE s \in {0, 4} -> {"PushBase"} [] s = 1 -> {"PushPeak"}
         [] s \in {3, 5} -> {"PullBase"} [] s = 2 -> {"PullPeak"} [] OTHER -> {}

Decode(m, s) ==
  IF m
  THEN CASE s = 0 -> {"PushBase"} [] s = 1 -> {"PullBase"} [] OTHER -> {}
  ELSE CASE s \in {0, 2} -> {"PushBase"} [] s = 1 -> {"PushPeak"}
         [] s \in {3, 5} -> {"PullBase"} [] s = 4 -> {"PullPeak"} [] OTHER -> {}

QInit ==
  /\ txEn = FALSE /\ modeSq = FALSE /\ softReset = FALSE /\ phase = 0
  /\ ff = [x \in {"tx", "reset", "sq"} |-> [first |-> FALSE, second |-> FALSE]]
  /\ seqReset = FALSE /\ seqSq = FALSE /\ dspSq = FALSE
  /\ counterSq = 0 /\ counter15 = 0
  /\ lutSq = Widest /\ lut15 = Widest /\ lut3 = 0
  /\ coeff2 = 0 /\ coeff3 = 0
  /\ phase0 = 0 /\ phase1 = 0 /\ phase2 = 0 /\ phase3 = 0
  /\ dsp = [a |-> 0, b |-> 0, c |-> 0]
  /\ pins = {} /\ steady = 0

(* SPI writes of the Control register, and the phase, in the sync domain. *)
SetInputs ==
  /\ steady = Settled
  /\ txEn' \in BOOLEAN /\ modeSq' \in BOOLEAN /\ softReset' \in BOOLEAN /\ phase' \in Phases
  /\ inputs' # inputs
  /\ steady' = 0
  /\ UNCHANGED pipeline

Sampled(x, in) == IF steady = 0 THEN {in, ff[x].first} ELSE {in}
Shifted(x, in) == [first |-> in, second |-> ff[x].first]

(* One rising edge of txClk. *)
Edge ==
  /\ \E t \in Sampled("tx", txEn), r \in Sampled("reset", softReset), q \in Sampled("sq", modeSq) :
       ff' = [tx |-> Shifted("tx", t), reset |-> Shifted("reset", r), sq |-> Shifted("sq", q)]
  /\ seqReset' = (ff["reset"].second \/ ~ff["tx"].second)
  /\ seqSq' = ff["sq"].second /\ dspSq' = ff["sq"].second
  /\ counterSq' = IF seqReset THEN 0 ELSE NextSq(counterSq)
  /\ counter15' = IF seqReset THEN 0 ELSE Next15(counter15)
  /\ lutSq' = Lut(counterSq) /\ lut15' = Lut(counter15)
  /\ lut3' = IF seqSq THEN lutSq ELSE lut15
  /\ coeff2' = Coeff(dspSq) /\ coeff3' = coeff2
  /\ phase0' \in IF steady = 0 THEN Phases \cup {0} ELSE {phase}
  /\ phase1' = phase0 /\ phase2' = phase1 /\ phase3' = phase2
  /\ dsp' = [a |-> phase3, b |-> coeff3, c |-> lut3]
  /\ pins' = Decode(ff["sq"].second, State(dsp))
  /\ steady' = IF steady = Settled THEN Settled ELSE steady + 1
  /\ UNCHANGED inputs

QNext == SetInputs \/ Edge
-----------------------------------------------------------------------------
(* The shape of every state. *)
QTypeOK ==
  /\ txEn \in BOOLEAN /\ modeSq \in BOOLEAN /\ softReset \in BOOLEAN /\ phase \in Phases \cup {0}
  /\ ff \in [{"tx", "reset", "sq"} -> Two]
  /\ seqReset \in BOOLEAN /\ seqSq \in BOOLEAN /\ dspSq \in BOOLEAN
  /\ counterSq \in 0..4 /\ counter15 \in 0..14
  /\ lutSq \in 0..Widest /\ lut15 \in 0..Widest /\ lut3 \in 0..Widest
  /\ coeff2 \in {0, 2, 6} /\ coeff3 \in {0, 2, 6}
  /\ phase0 \in Phases \cup {0} /\ phase1 \in Phases \cup {0}
  /\ phase2 \in Phases \cup {0} /\ phase3 \in Phases \cup {0}
  /\ dsp \in [a : Phases \cup {0}, b : {0, 2, 6}, c : 0..Widest]
  /\ pins \subseteq Push \cup Pull /\ steady \in 0..Settled

(* The two rings never drift apart, whatever resets come when, so that a   *)
(* change of the mode does not move the carrier's zero.                    *)
RingsAligned == counterSq = counter15 % 5

(* FPGA.md, stages 2 to 4 without the dither of stage 3, which gateware.py  *)
(* does not make: base phase of the counter plus target phase, wrapped at   *)
(* a turn, times the number of states, over a turn.                        *)
StateAt(m, i, p) ==
  LET base == i * (IF m THEN 13107 ELSE 4369)
  IN (((base + p) % Turn) * Coeff(m)) \div Turn

(* The 1-2-1 emission and the square wave, state by state. *)
Wave(m) == IF m THEN <<"PushBase", "PullBase">>
           ELSE <<"PushBase", "PushPeak", "PushBase", "PullBase", "PullPeak", "PullBase">>

(* The drive of the wave, Latency edges behind the counter. *)
Drive ==
  LET n == IF modeSq THEN 5 ELSE 15
      i == IF modeSq THEN counterSq ELSE counter15
  IN Wave(modeSq)[StateAt(modeSq, (i + n - Latency) % n, phase) + 1]

(* With the inputs at rest one drive is on, that of the undithered wave,   *)
(* for target phases up to one step of the lookup table.  gateware.py does *)
(* not let the sum of the phases wrap at a turn, as FPGA.md:113 has it, so *)
(* no more is claimed.                                                     *)
DrivesFollowPhase ==
  steady = Settled /\ txEn /\ ~softReset /\ phase <= 4369 => pins = {Drive}
=============================================================================

--------------------------- MODULE ExciterProofs ---------------------------
(***************************************************************************)
(* Proofs about Exciter, for every set of carriers, offsets and phases and *)
(* every order of resets, changes of the mode and clock edges: the two     *)
(* ring counters of the sequencer stay aligned, the pipeline behind them   *)
(* makes the drive of the wave once the inputs have settled, and the loop   *)
(* of setCarrierFreq finds the best divider.                               *)
(*                                                                         *)
(* The loop is a recursive function.  What holds along it is proved by the *)
(* least element of the set of candidates where it does not hold.          *)
(***************************************************************************)
EXTENDS Exciter, WellFoundedInduction, TLAPS

(* What is inductive: both counters are in range, and aligned. *)
Rings ==
  /\ counterSq \in 0..4
  /\ counter15 \in 0..14
  /\ counterSq = counter15 % 5

(* One step of both rings keeps them in range and aligned. *)
LEMMA NextRings ==
  ASSUME NEW i \in 0..14
  PROVE  /\ Next15(i) \in 0..14
         /\ NextSq(i % 5) \in 0..4
         /\ NextSq(i % 5) = Next15(i) % 5
<1>1. i \in {0, 1, 2, 3, 4, 5, 6, 7, 8, 9, 10, 11, 12, 13, 14}
  OBVIOUS
<1>2. QED
  BY <1>1 DEF Next15, NextSq

(* A clock edge resets both rings or steps both. *)
LEMMA EdgeKeepsRings == Rings /\ Edge => Rings'
<1> SUFFICES ASSUME Rings, Edge PROVE Rings'
  OBVIOUS
<1>1. CASE seqReset
  BY <1>1 DEF Rings, Edge
<1>2. CASE ~seqReset
  <2>1. counterSq' = NextSq(counter15 % 5) /\ counter15' = Next15(counter15)
    BY <1>2 DEF Rings, Edge
  <2>2. QED
    BY <2>1, NextRings DEF Rings
<1>3. QED
  BY <1>1, <1>2

(* Every step of the exciter keeps them. *)
LEMMA StepKeepsRings == Rings /\ [Next]_vars => Rings'
<1> SUFFICES ASSUME Rings, [Next]_vars PROVE Rings'
  OBVIOUS
<1>1. CASE Synthesizer
  BY <1>1 DEF Synthesizer, Rings, qvars, pipeline
<1>2. CASE Inputs
  BY <1>2 DEF Inputs, SetInputs, Rings, pipeline
<1>3. CASE ClockEdge
  BY <1>3, EdgeKeepsRings DEF ClockEdge
<1>4. CASE UNCHANGED vars
  BY <1>4 DEF vars, qvars, pipeline, Rings
<1>5. QED
  BY <1>1, <1>2, <1>3, <1>4 DEF Next

(* The two rings of gateware.py never drift apart: a change of the mode    *)
(* does not move the carrier's zero.                                       *)
THEOREM Aligned == Spec => []RingsAligned
<1>1. Init => Rings
  BY DEF Init, QInit, Rings
<1>2. Rings => RingsAligned
  BY DEF Rings, RingsAligned
<1>3. QED
  BY <1>1, <1>2, StepKeepsRings, PTL DEF Spec

-----------------------------------------------------------------------------
(* The pipeline.  After an input has changed its value reaches one stage   *)
(* more at every edge; when the ring runs, the stages hold what belongs to *)
(* its last places.                                                        *)

Phase == Phases \cup {0}

LEMMA Widths == Turn \in Nat /\ Turn >= 1 /\ Widest \in Nat /\ Widest >= 14 * Step
BY SMT DEF Turn, Widest, Step

LEMMA PhaseRange == Phase \subseteq 0..(Turn - 1)
BY PhasesAssumption, Widths DEF Phase

Controls ==
  /\ txEn \in BOOLEAN /\ modeSq \in BOOLEAN /\ softReset \in BOOLEAN /\ phase \in Phase
  /\ ff \in [{"tx", "reset", "sq"} -> Two]
  /\ seqReset \in BOOLEAN /\ seqSq \in BOOLEAN /\ dspSq \in BOOLEAN

Stages ==
  /\ lutSq \in 0..Widest /\ lut15 \in 0..Widest /\ lut3 \in 0..Widest
  /\ coeff2 \in {0, 2, 6} /\ coeff3 \in {0, 2, 6}
  /\ phase0 \in Phase /\ phase1 \in Phase /\ phase2 \in Phase /\ phase3 \in Phase
  /\ dsp \in [a : Phase, b : {0, 2, 6}, c : 0..Widest]
  /\ pins \subseteq Push \cup Pull /\ steady \in 0..Settled

(* The place of the ring that is in use, as many edges ago. *)
Places  == IF modeSq THEN 5 ELSE 15
Place   == IF modeSq THEN counterSq ELSE counter15
Ago(k)  == (Place + Places - k) % Places
Running == txEn /\ ~softReset

Synchronized ==
  /\ steady >= 2 => ff["tx"].first = txEn /\ ff["reset"].first = softReset /\ ff["sq"].first = modeSq
  /\ steady >= 3 => ff["tx"].second = txEn /\ ff["reset"].second = softReset /\ ff["sq"].second = modeSq
  /\ steady >= 4 => seqSq = modeSq /\ dspSq = modeSq /\ (Running => ~seqReset)

Shifting ==
  /\ steady >= 2 => phase0 = phase
  /\ steady >= 3 => phase1 = phase
  /\ steady >= 4 => phase2 = phase
  /\ steady >= 5 => phase3 = phase /\ coeff2 = Coeff(modeSq)
  /\ steady >= 6 => dsp.a = phase /\ coeff3 = Coeff(modeSq)
  /\ steady >= 7 => dsp.b = Coeff(modeSq)

Looking ==
  Running =>
    /\ steady >= 5 => (IF modeSq THEN lutSq ELSE lut15) = Lut(Ago(1))
    /\ steady >= 6 => lut3 = Lut(Ago(2))
    /\ steady >= 7 => dsp.c = Lut(Ago(3))

Driving ==
  Running /\ steady >= 8 =>
    pins = Decode(modeSq, State([a |-> phase, b |-> Coeff(modeSq), c |-> Lut(Ago(Latency))]))

QInv == Rings /\ Controls /\ Stages /\ Synchronized /\ Shifting /\ Looking /\ Driving

(* The ring goes on by one place. *)
LEMMA RingGoesOn ==
  ASSUME Rings, modeSq \in BOOLEAN, modeSq' = modeSq, ~seqReset, Edge
  PROVE  Ago(0) = Place /\ \A k \in 0..3 : Ago(k + 1)' = Ago(k)
<1>1. CASE modeSq
  <2>1. Places = 5 /\ Places' = 5 /\ Place = counterSq /\ Place' = counterSq'
    BY <1>1 DEF Place, Places
  <2>2. counterSq \in {0, 1, 2, 3, 4} /\ counterSq' = NextSq(counterSq)
    BY DEF Rings, Edge
  <2>3. QED
    BY <2>1, <2>2 DEF Ago, NextSq
<1>2. CASE ~modeSq
  <2>1. Places = 15 /\ Places' = 15 /\ Place = counter15 /\ Place' = counter15'
    BY <1>2 DEF Place, Places
  <2>2. counter15 \in {0, 1, 2, 3, 4, 5, 6, 7, 8, 9, 10, 11, 12, 13, 14} /\ counter15' = Next15(counter15)
    BY DEF Rings, Edge
  <2>3. QED
    BY <2>1, <2>2 DEF Ago, Next15
<1>3. QED
  BY <1>1, <1>2

LEMMA ControlsEdge == Controls /\ Edge => Controls'
<1> SUFFICES ASSUME Controls, Edge PROVE Controls'
  OBVIOUS
<1>1. UNCHANGED <<txEn, modeSq, softReset, phase>>
  BY DEF Edge, inputs
<1>2. PICK t \in Sampled("tx", txEn), r \in Sampled("reset", softReset), q \in Sampled("sq", modeSq) :
        ff' = [tx |-> Shifted("tx", t), reset |-> Shifted("reset", r), sq |-> Shifted("sq", q)]
  BY DEF Edge
<1>3. t \in BOOLEAN /\ r \in BOOLEAN /\ q \in BOOLEAN
  BY DEF Controls, Sampled, Two
<1>4. Shifted("tx", t) \in Two /\ Shifted("reset", r) \in Two /\ Shifted("sq", q) \in Two
  BY <1>3 DEF Controls, Shifted, Two
<1>5. ff' \in [{"tx", "reset", "sq"} -> Two]
  BY <1>2, <1>4
<1>6. seqReset' \in BOOLEAN /\ seqSq' \in BOOLEAN /\ dspSq' \in BOOLEAN
  BY DEF Edge, Controls, Two
<1>7. QED
  BY <1>1, <1>5, <1>6 DEF Controls

LEMMA StagesEdge == Rings /\ Controls /\ Stages /\ Edge => Stages'
<1> SUFFICES ASSUME Rings, Controls, Stages, Edge PROVE Stages'
  OBVIOUS
<1>1. lutSq' \in 0..Widest /\ lut15' \in 0..Widest
  BY SMT, Widths DEF Edge, Rings, Lut, Step
<1>2. lut3' \in 0..Widest
  BY DEF Edge, Stages
<1>3. coeff2' \in {0, 2, 6} /\ coeff3' \in {0, 2, 6}
  BY DEF Edge, Stages, Coeff
<1>4. phase0' \in Phase /\ phase1' \in Phase /\ phase2' \in Phase /\ phase3' \in Phase
  BY DEF Edge, Controls, Stages, Phase
<1>5. dsp' \in [a : Phase, b : {0, 2, 6}, c : 0..Widest]
  BY DEF Edge, Stages
<1>6. pins' \subseteq Push \cup Pull
  BY DEF Edge, Decode, Push, Pull
<1>7. steady' \in 0..Settled
  BY DEF Edge, Stages, Settled
<1>8. QED
  BY <1>1, <1>2, <1>3, <1>4, <1>5, <1>6, <1>7 DEF Stages

(* An edge later everything is an edge further from the change. *)
LEMMA Later ==
  ASSUME Stages, Edge
  PROVE  /\ UNCHANGED <<txEn, modeSq, softReset, phase>>
         /\ steady \in 0..9
         /\ \A k \in 1..8 : steady' >= k => steady >= k - 1
BY DEF Edge, inputs, Stages, Settled

LEMMA SynchronizedEdge == Controls /\ Stages /\ Synchronized /\ Edge => Synchronized'
<1> SUFFICES ASSUME Controls, Stages, Synchronized, Edge PROVE Synchronized'
  OBVIOUS
<1>s. /\ steady \in 0..9
      /\ steady' >= 2 => steady >= 1
      /\ steady' >= 3 => steady >= 2
      /\ steady' >= 4 => steady >= 3
  BY Later
<1>i. UNCHANGED <<txEn, modeSq, softReset, phase>>
  BY Later
<1>1. PICK t \in Sampled("tx", txEn), r \in Sampled("reset", softReset), q \in Sampled("sq", modeSq) :
        ff' = [tx |-> Shifted("tx", t), reset |-> Shifted("reset", r), sq |-> Shifted("sq", q)]
  BY DEF Edge
<1>2. /\ ff'["tx"] = [first |-> t, second |-> ff["tx"].first]
      /\ ff'["reset"] = [first |-> r, second |-> ff["reset"].first]
      /\ ff'["sq"] = [first |-> q, second |-> ff["sq"].first]
  BY <1>1 DEF Shifted
<1>3. ASSUME steady' >= 2
      PROVE  ff'["tx"].first = txEn /\ ff'["reset"].first = softReset /\ ff'["sq"].first = modeSq
  <2>1. steady # 0
    BY <1>s, <1>3
  <2>2. t = txEn /\ r = softReset /\ q = modeSq
    BY <1>1, <2>1 DEF Sampled
  <2>3. QED
    BY <1>2, <2>2
<1>4. ASSUME steady' >= 3
      PROVE  ff'["tx"].second = txEn /\ ff'["reset"].second = softReset /\ ff'["sq"].second = modeSq
  <2>1. ff["tx"].first = txEn /\ ff["reset"].first = softReset /\ ff["sq"].first = modeSq
    BY <1>s, <1>4 DEF Synchronized
  <2>2. QED
    BY <1>2, <2>1
<1>5. ASSUME steady' >= 4
      PROVE  seqSq' = modeSq /\ dspSq' = modeSq /\ (Running => ~seqReset')
  <2>1. ff["tx"].second = txEn /\ ff["reset"].second = softReset /\ ff["sq"].second = modeSq
    BY <1>s, <1>5 DEF Synchronized
  <2>2. QED
    BY <2>1 DEF Edge, Running
<1>6. Running' = Running
  BY <1>i DEF Running
<1>7. QED
  BY <1>i, <1>3, <1>4, <1>5, <1>6 DEF Synchronized

LEMMA ShiftingEdge == Stages /\ Synchronized /\ Shifting /\ Edge => Shifting'
<1> SUFFICES ASSUME Stages, Synchronized, Shifting, Edge PROVE Shifting'
  OBVIOUS
<1>s. /\ steady \in 0..9
      /\ steady' >= 2 => steady >= 1
      /\ steady' >= 3 => steady >= 2
      /\ steady' >= 4 => steady >= 3
      /\ steady' >= 5 => steady >= 4
      /\ steady' >= 6 => steady >= 5
      /\ steady' >= 7 => steady >= 6
  BY Later
<1>i. UNCHANGED <<modeSq, phase>>
  BY Later
<1>1. steady' >= 2 => phase0' = phase
  BY <1>s DEF Edge
<1>2. steady' >= 3 => phase1' = phase
  BY <1>s DEF Edge, Shifting
<1>3. steady' >= 4 => phase2' = phase
  BY <1>s DEF Edge, Shifting
<1>4. steady' >= 5 => phase3' = phase
  BY <1>s DEF Edge, Shifting
<1>5. steady' >= 5 => coeff2' = Coeff(modeSq)
  <2>1. steady >= 4 => dspSq = modeSq
    BY DEF Synchronized
  <2>2. coeff2' = Coeff(dspSq)
    BY DEF Edge
  <2>3. QED
    BY <1>s, <2>1, <2>2
<1>6. steady' >= 6 => dsp'.a = phase /\ coeff3' = Coeff(modeSq)
  BY <1>s DEF Edge, Shifting
<1>7. steady' >= 7 => dsp'.b = Coeff(modeSq)
  BY <1>s DEF Edge, Shifting
<1>8. QED
  BY <1>i, <1>1, <1>2, <1>3, <1>4, <1>5, <1>6, <1>7 DEF Shifting

LEMMA LookingEdge ==
  Rings /\ Controls /\ Stages /\ Synchronized /\ Looking /\ Edge => Looking'
<1> SUFFICES ASSUME Rings, Controls, Stages, Synchronized, Looking, Edge, Running' PROVE Looking'
  BY DEF Looking
<1>s. /\ steady \in 0..9
      /\ steady' >= 5 => steady >= 4
      /\ steady' >= 6 => steady >= 5
      /\ steady' >= 7 => steady >= 6
  BY Later
<1>i. modeSq' = modeSq /\ Running /\ modeSq \in BOOLEAN
  BY Later DEF Running, Controls
<1>r. ASSUME steady >= 4
      PROVE  /\ Ago(0) = Place /\ Ago(1)' = Ago(0) /\ Ago(2)' = Ago(1) /\ Ago(3)' = Ago(2)
             /\ seqSq = modeSq
  <2>1. ~seqReset /\ seqSq = modeSq
    BY <1>i, <1>r DEF Synchronized
  <2>2. Ago(0) = Place /\ \A k \in 0..3 : Ago(k + 1)' = Ago(k)
    BY <1>i, <2>1, RingGoesOn
  <2>3. Ago(0 + 1)' = Ago(0) /\ Ago(1 + 1)' = Ago(1) /\ Ago(2 + 1)' = Ago(2)
    BY <2>2
  <2>4. QED
    BY <2>1, <2>2, <2>3
<1>1. steady' >= 5 => (IF modeSq THEN lutSq' ELSE lut15') = Lut(Ago(1)')
  <2>1. (IF modeSq THEN lutSq' ELSE lut15') = Lut(Place)
    BY <1>i DEF Edge, Place
  <2>2. QED
    BY <1>s, <1>r, <2>1
<1>2. steady' >= 6 => lut3' = Lut(Ago(2)')
  <2>1. lut3' = IF seqSq THEN lutSq ELSE lut15
    BY DEF Edge
  <2>2. steady >= 5 => (IF modeSq THEN lutSq ELSE lut15) = Lut(Ago(1))
    BY <1>i DEF Looking
  <2>3. steady >= 5 => steady >= 4
    BY <1>s
  <2>4. QED
    BY <1>s, <1>r, <2>1, <2>2, <2>3
<1>3. steady' >= 7 => dsp'.c = Lut(Ago(3)')
  <2>1. dsp'.c = lut3
    BY DEF Edge
  <2>2. steady >= 6 => lut3 = Lut(Ago(2))
    BY <1>i DEF Looking
  <2>3. steady >= 6 => steady >= 4
    BY <1>s
  <2>4. QED
    BY <1>s, <1>r, <2>1, <2>2, <2>3
<1>4. QED
  BY <1>i, <1>1, <1>2, <1>3 DEF Looking

LEMMA DrivingEdge ==
  Rings /\ Controls /\ Stages /\ Synchronized /\ Shifting /\ Looking /\ Edge => Driving'
<1> SUFFICES ASSUME Rings, Controls, Stages, Synchronized, Shifting, Looking, Edge,
                    Running', steady' >= 8
             PROVE  Driving'
  BY DEF Driving
<1>1. steady >= 7 /\ steady \in 0..9
  BY Later
<1>2. modeSq' = modeSq /\ phase' = phase /\ Running /\ modeSq \in BOOLEAN
  BY Later DEF Running, Controls
<1>3. dsp.a = phase /\ dsp.b = Coeff(modeSq) /\ dsp.c = Lut(Ago(3))
  BY <1>1, <1>2 DEF Shifting, Looking
<1>4. ff["sq"].second = modeSq /\ ~seqReset
  BY <1>1, <1>2 DEF Synchronized
<1>5. Ago(3 + 1)' = Ago(3)
  BY <1>2, <1>4, RingGoesOn
<1>6. pins' = Decode(modeSq, State(dsp))
  BY <1>4 DEF Edge
<1>7. State(dsp) = State([a |-> phase, b |-> Coeff(modeSq), c |-> Lut(Ago(3))])
  BY <1>3 DEF State
<1>8. Ago(Latency)' = Ago(3)
  BY <1>5 DEF Latency
<1>9. QED
  BY <1>2, <1>6, <1>7, <1>8 DEF Driving

LEMMA QInvEdge == QInv /\ Edge => QInv'
BY EdgeKeepsRings, ControlsEdge, StagesEdge, SynchronizedEdge, ShiftingEdge, LookingEdge,
   DrivingEdge DEF QInv

(* A change of the inputs starts the count of edges again. *)
LEMMA QInvInputs == QInv /\ SetInputs => QInv'
<1> SUFFICES ASSUME QInv, SetInputs PROVE QInv'
  OBVIOUS
<1>1. /\ txEn' \in BOOLEAN /\ modeSq' \in BOOLEAN /\ softReset' \in BOOLEAN /\ phase' \in Phase
      /\ UNCHANGED pipeline
  BY DEF SetInputs, Phase
<1>2. steady' = 0
  BY DEF SetInputs
<1>3. Rings' /\ Controls'
  BY <1>1 DEF QInv, Rings, Controls, pipeline
<1>4. Stages'
  BY <1>1, <1>2 DEF QInv, Stages, pipeline, Settled
<1>5. Synchronized' /\ Shifting' /\ Looking' /\ Driving'
  BY <1>2 DEF Synchronized, Shifting, Looking, Driving
<1>6. QED
  BY <1>3, <1>4, <1>5 DEF QInv

LEMMA QInvInit == QInit => QInv
<1> SUFFICES ASSUME QInit PROVE QInv
  OBVIOUS
<1>1. Rings
  BY DEF QInit, Rings
<1>2. Controls
  BY DEF QInit, Controls, Two, Phase
<1>3. Stages
  BY SMT, Widths DEF QInit, Stages, Phase, Settled
<1>4. steady = 0
  BY DEF QInit
<1>5. Synchronized /\ Shifting /\ Looking /\ Driving
  BY <1>4 DEF Synchronized, Shifting, Looking, Driving
<1>6. QED
  BY <1>1, <1>2, <1>3, <1>5 DEF QInv

LEMMA QInvHolds == Spec => []QInv
<1>1. Init => QInv
  BY QInvInit DEF Init
<1>2. QInv /\ [Next]_vars => QInv'
  <2> SUFFICES ASSUME QInv, [Next]_vars PROVE QInv'
    OBVIOUS
  <2>1. CASE UNCHANGED qvars
    BY <2>1 DEF qvars, inputs, pipeline, QInv, Rings, Controls, Stages, Synchronized, Shifting,
                Looking, Driving, Running, Ago, Place, Places
  <2>2. CASE SetInputs
    BY <2>2, QInvInputs
  <2>3. CASE Edge
    BY <2>3, QInvEdge
  <2>4. QED
    BY <2>1, <2>2, <2>3 DEF Next, Synthesizer, Inputs, ClockEdge, vars
<1>3. QED
  BY <1>1, <1>2, PTL DEF Spec

-----------------------------------------------------------------------------
(* What the multiplier and the decoder make of a place of the ring and a   *)
(* phase, against the stages of FPGA.md. *)
LEMMA StateIsThat ==
  ASSUME NEW m \in BOOLEAN, NEW i \in 0..(IF m THEN 4 ELSE 14), NEW p \in Nat, p <= 4369
  PROVE  /\ StateAt(m, i, p) \in 0..(Coeff(m) - 1)
         /\ State([a |-> p, b |-> Coeff(m), c |-> Lut(i)]) = StateAt(m, i, p)
<1>1. CASE m
  <2>1. i \in 0..4 /\ Coeff(m) = 2
    BY SMT, <1>1 DEF Coeff
  <2>2. StateAt(m, i, p) = (((i * 13107 + p) % 65536) * 2) \div 65536
    <3>1. (IF m THEN 13107 ELSE 4369) = 13107
      BY <1>1
    <3>2. StateAt(m, i, p) = (((i * 13107 + p) % Turn) * 2) \div Turn
      BY <2>1, <3>1 DEF StateAt
    <3>3. QED
      BY SMT, <3>2 DEF Turn
  <2>3. (i * 13107 + p) % 65536 = i * 13107 + p
    BY SMT, <2>1
  <2>4. State([a |-> p, b |-> Coeff(m), c |-> Lut(i)]) = ((p * 2 + i * 26214) \div 65536) % 8
    BY SMT, <2>1 DEF State, Lut, Step, Turn
  <2>5. p * 2 + i * 26214 = (i * 13107 + p) * 2
    BY SMT, <2>1
  <2>6. ((i * 13107 + p) * 2) \div 65536 \in 0..1
    BY SMT, <2>1
  <2>7. QED
    BY SMT, <2>1, <2>2, <2>3, <2>4, <2>5, <2>6
<1>2. CASE ~m
  <2>1. i \in 0..14 /\ Coeff(m) = 6
    BY SMT, <1>2 DEF Coeff
  <2>2. StateAt(m, i, p) = (((i * 4369 + p) % 65536) * 6) \div 65536
    BY SMT, <1>2, <2>1 DEF StateAt, Turn
  <2>3. (i * 4369 + p) % 65536 = i * 4369 + p
    BY SMT, <2>1
  <2>4. State([a |-> p, b |-> Coeff(m), c |-> Lut(i)]) = ((p * 6 + i * 26214) \div 65536) % 8
    BY SMT, <2>1 DEF State, Lut, Step, Turn
  <2>5. p * 6 + i * 26214 = (i * 4369 + p) * 6
    BY SMT, <2>1
  <2>6. ((i * 4369 + p) * 6) \div 65536 \in 0..5
    BY SMT, <2>1
  <2>7. QED
    BY SMT, <2>1, <2>2, <2>3, <2>4, <2>5, <2>6
<1>3. QED
  BY SMT, <1>1, <1>2

(* The decoder turns a state into the drive of the wave. *)
LEMMA DecodesWave ==
  ASSUME NEW m \in BOOLEAN, NEW s \in 0..(Coeff(m) - 1)
  PROVE  Decode(m, s) = {Wave(m)[s + 1]}
<1>1. CASE m
  <2>1. s \in {0, 1}
    BY <1>1 DEF Coeff
  <2>2. QED
    BY <1>1, <2>1 DEF Decode, Wave
<1>2. CASE ~m
  <2>1. s \in {0, 1, 2, 3, 4, 5}
    BY <1>2 DEF Coeff
  <2>2. QED
    BY <1>2, <2>1 DEF Decode, Wave
<1>3. QED
  BY <1>1, <1>2

(* Nine edges after the last change of an input one drive is on, that of   *)
(* the undithered wave, for every target phase up to one step of the       *)
(* lookup table, in both modes and at every place of the ring.             *)
THEOREM Drives == Spec => []DrivesFollowPhase
<1>1. QInv => DrivesFollowPhase
  <2> SUFFICES ASSUME QInv, steady = Settled, txEn, ~softReset, phase <= 4369
               PROVE  pins = {Wave(modeSq)[StateAt(modeSq, Ago(Latency), phase) + 1]}
    BY DEF DrivesFollowPhase, Drive, Ago, Place, Places
  <2>1. modeSq \in BOOLEAN /\ phase \in Nat
    <3>1. phase \in Phase
      BY DEF QInv, Controls
    <3>2. QED
      BY <3>1, PhaseRange, Widths DEF QInv, Controls
  <2>2. pins = Decode(modeSq, State([a |-> phase, b |-> Coeff(modeSq), c |-> Lut(Ago(Latency))]))
    BY DEF QInv, Driving, Running, Settled
  <2>3. Ago(Latency) \in 0..(IF modeSq THEN 4 ELSE 14)
    BY <2>1 DEF QInv, Rings, Ago, Place, Places, Latency
  <2>4. QED
    BY <2>1, <2>2, <2>3, StateIsThat, DecodesWave
<1>2. QED
  BY QInvHolds, <1>1, PTL

-----------------------------------------------------------------------------
(* The synthesizer's loop over the dividers.  It is a recursive function:  *)
(* that it has a value, and what that is, needs induction over the         *)
(* candidates, which rests on the least element of a set of naturals.      *)

Below == {p \in Nat \X Nat : p[1] < p[2]}

LEMMA BelowWF == IsWellFoundedOn(Below, Nat)
BY NatLessThanWellFounded DEF OpToRel, Below

(* Bounded induction: a set of naturals with 2 in it and with the          *)
(* successor, up to m, of each of its members has all of 2..m.             *)
LEMMA FromTwo ==
  ASSUME NEW m \in Nat, NEW S, 2 \in S,
         \A k \in 3..m : k - 1 \in S => k \in S
  PROVE  2..m \subseteq S
<1> DEFINE Rest == {k \in Nat : k \in 2..m /\ k \notin S}
<1> SUFFICES ASSUME Rest # {} PROVE FALSE
  OBVIOUS
<1>0. Rest \subseteq Nat
  OBVIOUS
<1> HIDE DEF Rest
<1>1. PICK k \in Rest : \A j \in Rest : ~(<<j, k>> \in Below)
  BY <1>0, BelowWF, WFMin
<1>2. k - 1 \in 2..m /\ k \in 3..m /\ k - 1 \in Nat /\ k - 1 < k /\ k \in Nat
  BY DEF Rest
<1>3. <<k - 1, k>> \in Below
  BY <1>2 DEF Below
<1>4. QED
  BY <1>1, <1>2, <1>3 DEF Rest

(* The loop over the dividers, with what it has after the candidate 2k. *)
After(c, g, k) ==
  IF k = 2 THEN [n |-> 10, diff |-> Far]
  ELSE LET v == 2 * k * c
       IN IF InRange(v) /\ Distance(v) < g[k - 1].diff
          THEN [n |-> 2 * k, diff |-> Distance(v)]
          ELSE g[k - 1]

(* There is a function with the recursion's equation: it is extended by    *)
(* one candidate at a time. *)
LEMMA LoopExists ==
  ASSUME NEW c
  PROVE  \E g : g = [k \in 2..75 |-> After(c, g, k)]
<1> DEFINE So(m) == \E g : g = [k \in 2..m |-> After(c, g, k)]
           S     == {m \in Nat : So(m)}
<1>1. 2 \in S
  <2> DEFINE g == [k \in 2..2 |-> [n |-> 10, diff |-> Far]]
  <2>1. g = [k \in 2..2 |-> After(c, g, k)]
    BY DEF After
  <2>2. QED
    BY <2>1
<1>2. ASSUME NEW m \in 3..75, m - 1 \in S PROVE m \in S
  <2>1. PICK g : g = [k \in 2..(m - 1) |-> After(c, g, k)]
    BY <1>2
  <2> DEFINE h == [k \in 2..m |-> IF k = m THEN After(c, g, m) ELSE g[k]]
  <2>2. ASSUME NEW k \in 2..m PROVE After(c, h, k) = After(c, g, k)
    <3>1. k # 2 => k - 1 \in 2..(m - 1) /\ k - 1 # m /\ k - 1 \in 2..m
      OBVIOUS
    <3>2. k # 2 => h[k - 1] = g[k - 1]
      BY <3>1
    <3>3. QED
      BY <3>2 DEF After
  <2>3. ASSUME NEW k \in 2..m PROVE h[k] = After(c, h, k)
    <3>1. CASE k = m
      BY <3>1, <2>2
    <3>2. CASE k # m
      <4>1. k \in 2..(m - 1)
        BY <3>2
      <4>2. h[k] = g[k] /\ g[k] = After(c, g, k)
        BY <4>1, <3>2, <2>1
      <4>3. QED
        BY <4>2, <2>2
    <3>3. QED
      BY <3>1, <3>2
  <2>4. h = [k \in 2..m |-> h[k]]
    OBVIOUS
  <2> HIDE DEF h
  <2>5. h = [k \in 2..m |-> After(c, h, k)]
    BY <2>3, <2>4
  <2>6. QED
    BY <2>5
<1> HIDE DEF S
<1>3. 2..75 \subseteq S
  BY <1>1, <1>2, FromTwo
<1>4. QED
  BY <1>3 DEF S

Loop(c) == CHOOSE g : g = [k \in 2..75 |-> After(c, g, k)]

LEMMA LoopEquation ==
  ASSUME NEW c
  PROVE  /\ Loop(c) = [k \in 2..75 |-> After(c, Loop(c), k)]
         /\ BestDivider(c) = Loop(c)[75].n
<1>1. Loop(c) = [k \in 2..75 |-> After(c, Loop(c), k)]
  BY LoopExists DEF Loop
<1>2. BestDivider(c) = Loop(c)[75].n
  BY DEF BestDivider, Loop, After
<1>3. QED
  BY <1>1, <1>2

LEMMA Near == /\ Far \in Nat
              /\ \A v \in Nat : Distance(v) \in Nat
              /\ \A v \in Nat : InRange(v) => Distance(v) < Far
BY SMT DEF Far, Distance, InRange, LowVCO, HighVCO, TargetVCO

(* What the loop has after the candidate 2k, of those that bring the VCO   *)
(* into range: the initial value if there is none yet, or one of them; and *)
(* none of them is nearer. *)
Best(c, k, r) ==
  /\ \/ r.diff = Far /\ r.n = 10 /\ \A j \in 3..k : ~InRange(2 * j * c)
     \/ \E j \in 3..k : r.n = 2 * j /\ InRange(2 * j * c) /\ r.diff = Distance(2 * j * c)
  /\ \A j \in 3..k : InRange(2 * j * c) => r.diff <= Distance(2 * j * c)

LEMMA LoopStep ==
  ASSUME NEW c \in Nat, NEW g, NEW k \in 3..75, Best(c, k - 1, g[k - 1])
  PROVE  Best(c, k, After(c, g, k))
<1> DEFINE v(j) == 2 * j * c
           r == g[k - 1]
<1>1. \A j \in 3..k : v(j) \in Nat
  OBVIOUS
<1>2. /\ \/ r.diff = Far /\ r.n = 10 /\ \A j \in 3..(k - 1) : ~InRange(v(j))
         \/ \E j \in 3..(k - 1) : r.n = 2 * j /\ InRange(v(j)) /\ r.diff = Distance(v(j))
      /\ \A j \in 3..(k - 1) : InRange(v(j)) => r.diff <= Distance(v(j))
  BY DEF Best
<1>3. After(c, g, k) = IF InRange(v(k)) /\ Distance(v(k)) < r.diff
                       THEN [n |-> 2 * k, diff |-> Distance(v(k))] ELSE r
  BY DEF After
<1>4. SUFFICES ASSUME NEW s, s = After(c, g, k)
      PROVE  /\ \/ s.diff = Far /\ s.n = 10 /\ \A j \in 3..k : ~InRange(v(j))
                \/ \E j \in 3..k : s.n = 2 * j /\ InRange(v(j)) /\ s.diff = Distance(v(j))
             /\ \A j \in 3..k : InRange(v(j)) => s.diff <= Distance(v(j))
  BY DEF Best
<1> HIDE DEF v, r
<1>5. r.diff \in Nat
  BY <1>1, <1>2, Near
<1>6. k \in 3..k /\ \A j \in 3..k : j = k \/ j \in 3..(k - 1)
  OBVIOUS
<1>7. \A j \in 3..(k - 1) : j \in 3..k
  OBVIOUS
<1>8. CASE InRange(v(k)) /\ Distance(v(k)) < r.diff
  <2>1. s.n = 2 * k /\ s.diff = Distance(v(k))
    BY <1>3, <1>4, <1>8
  <2>2. \A j \in 3..k : InRange(v(j)) => s.diff <= Distance(v(j))
    BY <2>1, <1>1, <1>2, <1>5, <1>6, <1>7, <1>8, Near
  <2>3. QED
    BY <2>1, <2>2, <1>6, <1>8
<1>9. CASE ~(InRange(v(k)) /\ Distance(v(k)) < r.diff)
  <2>1. s = r
    BY <1>3, <1>4, <1>9
  <2>2. InRange(v(k)) => r.diff <= Distance(v(k))
    BY <1>1, <1>5, <1>6, <1>9, Near
  <2>3. \A j \in 3..k : InRange(v(j)) => s.diff <= Distance(v(j))
    BY <2>1, <2>2, <1>2, <1>6
  <2>4. ASSUME r.diff = Far PROVE ~InRange(v(k))
    BY <2>4, <2>2, <1>1, <1>6, Near
  <2>5. QED
    BY <2>1, <2>3, <2>4, <1>2, <1>6, <1>7
<1>10. QED
  BY <1>8, <1>9

LEMMA LoopBest ==
  ASSUME NEW c \in Nat
  PROVE  Best(c, 75, Loop(c)[75])
<1> DEFINE S == {k \in 2..75 : Best(c, k, Loop(c)[k])}
<1>1. ASSUME NEW k \in 2..75 PROVE Loop(c)[k] = After(c, Loop(c), k)
  <2> DEFINE L == Loop(c)
  <2>1. L = [j \in 2..75 |-> After(c, L, j)]
    BY LoopEquation
  <2> HIDE DEF L
  <2>2. L[k] = After(c, L, k)
    BY <2>1
  <2>3. QED
    BY <2>2 DEF L
<1>2. 2 \in S
  <2>1. Loop(c)[2] = [n |-> 10, diff |-> Far]
    BY <1>1 DEF After
  <2>2. QED
    BY <2>1 DEF Best
<1>3. ASSUME NEW k \in 3..75, k - 1 \in S PROVE k \in S
  <2>1. Best(c, k, After(c, Loop(c), k))
    BY <1>3, LoopStep
  <2>2. QED
    BY <2>1, <1>1
<1> HIDE DEF S
<1>4. 2..75 \subseteq S
  BY <1>2, <1>3, FromTwo
<1>5. QED
  BY <1>4 DEF S

(* The divider that the loop chooses for a carrier. *)
LEMMA DividerChosen ==
  ASSUME NEW f \in Carriers
  PROVE  /\ Divider[f] \in Candidates
         /\ Fit[f] # {} => Divider[f] \in Fit[f]
         /\ \A n \in Fit[f] : Distance(Divider[f] * 6 * f) <= Distance(n * 6 * f)
<1> DEFINE r == Loop(6 * f)[75]
           v(j) == 2 * j * (6 * f)
<1>1. f \in Nat /\ 6 * f \in Nat
  BY CarriersAssumption
<1>2. Divider[f] = r.n
  BY LoopEquation DEF Divider
<1>3. /\ \/ r.diff = Far /\ r.n = 10 /\ \A j \in 3..75 : ~InRange(v(j))
         \/ \E j \in 3..75 : r.n = 2 * j /\ InRange(v(j)) /\ r.diff = Distance(v(j))
      /\ \A j \in 3..75 : InRange(v(j)) => r.diff <= Distance(v(j))
  BY <1>1, LoopBest DEF Best
<1>4. \A j \in 3..75 : v(j) = (2 * j) * 6 * f
  BY <1>1
<1> HIDE DEF v, r
<1>5. Fit[f] = {n \in Candidates : InRange(n * 6 * f)}
  BY DEF Fit
<1>6. \A n \in Candidates : \E j \in 3..75 : n = 2 * j /\ v(j) = n * 6 * f
  BY <1>4 DEF Candidates
<1>7. CASE \E j \in 3..75 : r.n = 2 * j /\ InRange(v(j)) /\ r.diff = Distance(v(j))
  <2>1. PICK j \in 3..75 : r.n = 2 * j /\ InRange(v(j)) /\ r.diff = Distance(v(j))
    BY <1>7
  <2>2. r.n \in Candidates
    BY <2>1 DEF Candidates
  <2>3. v(j) = r.n * 6 * f
    BY <2>1, <1>4
  <2>4. r.n \in Fit[f]
    BY <2>1, <2>2, <2>3, <1>5
  <2>5. \A n \in Fit[f] : Distance(r.n * 6 * f) <= Distance(n * 6 * f)
    BY <2>1, <2>3, <1>3, <1>5, <1>6
  <2>6. QED
    BY <2>2, <2>4, <2>5, <1>2
<1>8. CASE r.n = 10 /\ \A j \in 3..75 : ~InRange(v(j))
  <2>1. Fit[f] = {}
    BY <1>5, <1>6, <1>8
  <2>2. 5 \in 3..75 /\ 10 = 2 * 5
    OBVIOUS
  <2>3. r.n \in Candidates
    BY <2>2, <1>8 DEF Candidates
  <2>4. QED
    BY <2>1, <2>3, <1>2
<1>9. QED
  BY <1>3, <1>7, <1>8

-----------------------------------------------------------------------------
(* The driver and the chip: after every call the chip runs on the divider  *)
(* and the PLL frequency that the driver remembers, those of its carrier.  *)
SInv ==
  /\ initialized \in BOOLEAN /\ rfBaseFreq \in Carriers \cup {0}
  /\ shift \in Int /\ outputs \subseteq {0, 2}
  /\ vco = pllaFreq /\ divider = ms0
  /\ rfBaseFreq = 0 => pllaFreq = 0 /\ ms0 = 0
  /\ rfBaseFreq # 0 => ms0 = Divider[rfBaseFreq] /\ pllaFreq = ms0 * 6 * rfBaseFreq

LEMMA SInvTypes == SInv => STypeOK
<1> SUFFICES ASSUME SInv PROVE STypeOK
  OBVIOUS
<1>1. pllaFreq \in Nat /\ ms0 \in Candidates \cup {0}
  <2>1. CASE rfBaseFreq = 0
    BY <2>1 DEF SInv
  <2>2. CASE rfBaseFreq # 0
    <3>1. rfBaseFreq \in Carriers /\ rfBaseFreq \in Nat
      BY <2>2, CarriersAssumption DEF SInv
    <3>2. ms0 \in Candidates
      BY <2>2, <3>1, DividerChosen DEF SInv
    <3>3. ms0 \in Nat
      BY <3>2 DEF Candidates
    <3>4. QED
      BY <2>2, <3>1, <3>2, <3>3 DEF SInv
  <2>3. QED
    BY <2>1, <2>2
<1>2. QED
  BY <1>1 DEF SInv, STypeOK

LEMMA StepKeepsSynthesizer == SInv /\ [Next]_vars => SInv'
<1> SUFFICES ASSUME SInv, [Next]_vars PROVE SInv'
  OBVIOUS
<1>1. CASE SynthInit
  BY <1>1 DEF SInv, SynthInit
<1>2. ASSUME NEW f \in Carriers, SetCarrierFreq(f) PROVE SInv'
  <2>1. f # 0 /\ f \in Int
    BY CarriersAssumption
  <2>2. QED
    BY <1>2, <2>1 DEF SInv, SetCarrierFreq
<1>3. ASSUME NEW o \in Offsets, TuneCarrierOffset(o) PROVE SInv'
  <2>1. ms0 \in Int /\ o \in Int
    BY SInvTypes, OffsetsAssumption DEF STypeOK, Candidates
  <2>2. shift' \in Int
    BY <1>3, <2>1 DEF TuneCarrierOffset
  <2>3. QED
    BY <1>3, <2>2 DEF SInv, TuneCarrierOffset
<1>4. ASSUME NEW e \in BOOLEAN, SetClockOutputsEnabled(e) PROVE SInv'
  BY <1>4 DEF SInv, SetClockOutputsEnabled, members
<1>5. CASE UNCHANGED svars
  BY <1>5 DEF SInv, svars, members, chip
<1>6. QED
  BY <1>1, <1>2, <1>3, <1>4, <1>5 DEF Next, Synthesizer, SNext, Inputs, ClockEdge, vars

LEMMA SInvHolds == Spec => []SInv
<1>1. Init => SInv
  <2> SUFFICES ASSUME SInit PROVE SInv
    BY DEF Init
  <2>1. initialized = FALSE /\ outputs = {} /\ shift = 0
    BY DEF SInit
  <2>2. rfBaseFreq = 0 /\ pllaFreq = 0 /\ ms0 = 0 /\ vco = 0 /\ divider = 0
    BY DEF SInit
  <2>3. initialized \in BOOLEAN
    BY <2>1
  <2>4. QED
    BY <2>1, <2>2, <2>3 DEF SInv
<1>2. QED
  BY <1>1, StepKeepsSynthesizer, PTL DEF Spec

(* The members of the driver, the registers of the chip and the stages of  *)
(* the gateware keep their types: the loop only chooses even dividers from *)
(* 6 to 150.                                                               *)
THEOREM Typing == Spec => []TypeOK
<1>1. SInv => STypeOK
  BY SInvTypes
<1>2. QInv => QTypeOK
  BY PhaseRange DEF QInv, QTypeOK, Rings, Controls, Stages, Phase
<1>3. QED
  BY <1>1, <1>2, SInvHolds, QInvHolds, PTL DEF TypeOK

(* Whatever carriers and offsets are set, in any order and with the clocks *)
(* on or off, the chip runs on a divider of setCarrierFreq's loop that     *)
(* brings the VCO into range where one does, and none of those brings it   *)
(* nearer to 800 MHz.                                                      *)
THEOREM BestOfAll == Spec => []DividerIsBest
<1>1. SInv => DividerIsBest
  <2> SUFFICES ASSUME SInv, rfBaseFreq # 0, Fit[rfBaseFreq] # {}
               PROVE  /\ divider \in Fit[rfBaseFreq] /\ vco = divider * 6 * rfBaseFreq
                      /\ \A n \in Fit[rfBaseFreq] : Distance(vco) <= Distance(n * 6 * rfBaseFreq)
    BY DEF DividerIsBest
  <2>1. rfBaseFreq \in Carriers
    BY DEF SInv
  <2>2. divider = Divider[rfBaseFreq] /\ vco = Divider[rfBaseFreq] * 6 * rfBaseFreq
    BY DEF SInv
  <2>3. QED
    BY <2>1, <2>2, DividerChosen
<1>2. QED
  BY <1>1, SInvHolds, PTL

-----------------------------------------------------------------------------
(* Where a divider fits: from 666.7 kHz to 25 MHz.  The multiples of a     *)
(* carrier by half a divider are so close that one lies in the range.      *)
LowCarrier  == 6667
HighCarrier == 250000
JustBelow   == 499999     \* 12 * (JustBelow + 1) = LowVCO

LEMMA SomeDividerFits ==
  ASSUME NEW f \in Carriers, LowCarrier <= f, f <= HighCarrier
  PROVE  Fit[f] # {}
<1> DEFINE h == JustBelow \div f
           k == IF h < 2 THEN 3 ELSE h + 1
           t == k * f
<1>1. f \in Nat \ {0} /\ JustBelow \in Nat
  BY CarriersAssumption DEF JustBelow
<1>2. h \in Nat /\ f * h <= JustBelow /\ JustBelow < f * h + f
  <2>1. h \in Nat /\ JustBelow % f \in 0..(f - 1) /\ JustBelow = f * h + (JustBelow % f)
    BY <1>1, SMT
  <2> DEFINE r == JustBelow % f  y == f * h
  <2>2. y \in Nat
    BY <1>1, <2>1, SMT
  <2>3. r \in Nat /\ r < f /\ JustBelow = y + r
    BY <1>1, <2>1, SMT
  <2> HIDE DEF r, y, h
  <2>4. y <= JustBelow /\ JustBelow < y + f
    BY <1>1, <2>2, <2>3, SMT
  <2>5. QED
    BY <2>1, <2>4, SMT DEF y
<1> HIDE DEF h
<1>3. k \in Nat /\ 3 <= k /\ k <= 75 /\ t \in Nat /\ 500000 <= t /\ t <= 750000
  <2>1. CASE h < 2
    <3>1. k = 3 /\ t = 3 * f
      BY <2>1, SMT
    <3>2. f * h <= f
      BY <1>1, <1>2, <2>1, SMT
    <3>3. 2 * f > JustBelow
      BY <1>1, <1>2, <3>2, SMT
    <3>4. QED
      BY <1>1, <3>1, <3>3, SMT DEF JustBelow, HighCarrier
  <2>2. CASE h >= 2
    <3>1. k = h + 1 /\ t = f * h + f
      BY <1>1, <1>2, <2>2, SMT
    <3>2. h < 75
      <4>1. ASSUME h >= 75 PROVE f * h >= f * 75
        BY <1>1, <1>2, <4>1, SMT
      <4>2. QED
        BY <1>1, <1>2, <4>1, SMT DEF JustBelow, LowCarrier
    <3>3. QED
      BY <1>1, <1>2, <2>2, <3>1, <3>2, SMT DEF JustBelow, HighCarrier
  <2>3. QED
    BY <1>2, <2>1, <2>2, SMT
<1>4. 2 * k * 6 * f = 12 * t
  BY <1>1, <1>3, SMT
<1> HIDE DEF k, t
<1>5. 2 * k \in Candidates
  BY <1>3, SMT DEF Candidates
<1>6. InRange(12 * t)
  BY <1>3, SMT DEF InRange, LowVCO, HighVCO
<1>7. InRange(2 * k * 6 * f)
  BY Zenon, <1>4, <1>6
<1>8. QED
  BY Zenon, <1>5, <1>7 DEF Fit

(* Si5351.cpp:78 is right on every band but 10 m: for carriers from 666.7  *)
(* kHz to 25 MHz the VCO of PLL A stays within 600 to 900 MHz.             *)
THEOREM VCOStays == (\A f \in Carriers : LowCarrier <= f /\ f <= HighCarrier) => (Spec => []VCOInRange)
<1> SUFFICES ASSUME \A f \in Carriers : LowCarrier <= f /\ f <= HighCarrier
             PROVE  Spec => []VCOInRange
  OBVIOUS
<1>1. SInv => VCOInRange
  <2> SUFFICES ASSUME SInv, rfBaseFreq # 0 PROVE InRange(vco)
    BY DEF VCOInRange
  <2>1. rfBaseFreq \in Carriers /\ divider = Divider[rfBaseFreq] /\ vco = divider * 6 * rfBaseFreq
    BY DEF SInv
  <2>2. Divider[rfBaseFreq] \in Fit[rfBaseFreq]
    BY <2>1, SomeDividerFits, DividerChosen
  <2>3. InRange(Divider[rfBaseFreq] * 6 * rfBaseFreq)
    BY <2>1, <2>2 DEF Fit
  <2>4. QED
    BY <2>1, <2>3
<1>2. QED
  BY <1>1, SInvHolds, PTL
=============================================================================

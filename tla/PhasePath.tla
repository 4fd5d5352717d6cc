----------------------------- MODULE PhasePath -----------------------------
(***************************************************************************)
(* The way of a phase word through the gateware (parts 5 to 7 of           *)
(* gateware.py): the I2S receiver, which samples the pins with the 40 MHz  *)
(* clock, the delay line, whose tap follows the amplitude, and the         *)
(* crossing to txClk, which is six times the carrier.                      *)
(*                                                                         *)
(* Time is counted in units of which a period of the sync clock has Sync;  *)
(* every step is the next edge of one of the clocks, or of both at once.   *)
(* An edge of both is where a register of one domain that reads one of the *)
(* other gets the old or the new value, bit by bit.                        *)
(***************************************************************************)
EXTENDS Integers

CONSTANTS
  Sync,         (* units of time in a period of the sync clock              *)
  Periods,      (* those of txClk                                           *)
  Bits,         (* bits of a word: 16 in the gateware                       *)
  Taps,         (* words in the delay line: 16 in the gateware              *)
  Words,        (* what the processor sends                                 *)
  Slots,        (* bit clocks in a slot of the I2S frame                    *)
  Halves,       (* sync periods in half a bit clock                         *)
  Delays,       (* baseDelay and delayCoeff of the PhaseDelayCtrl register  *)
  Torn, None    (* bits of different words; no word                         *)

Word == 0..(2^Bits - 1)

ASSUME PathAssumption ==
  /\ Sync \in Nat \ {0} /\ Periods \subseteq Nat \ {0}
  /\ Bits \in 1..16 /\ Taps \in Nat \ {0}
  /\ Words \subseteq Word /\ Torn \notin Word
  /\ Slots \subseteq {n \in Nat : n > Bits} /\ Halves \subseteq {n \in Nat : n > 1}
  /\ Delays \subseteq [base : Nat, coeff : Nat]

VARIABLES
  period, toSync, toTx,              (* of txClk; time to the next edges    *)
  pins, left, pos, slot, word,       (* of the I2S master                   *)
  owed, framed,                      (* history: a word sent and not yet    *)
                                     (* received; a slot has begun          *)
  sampled, synced,                   (* FFSynchronizers of the pins         *)
  bclkPrev, lastSync, bitCount, shifterR, amVal, phaseVal, phaseUpdated,
  delay, phaseUpdatedPrev, phase_history, mult_temp, tap_index_reg, delayed_phase_reg,
  phase_to_rf_toggle,
  due,                               (* history: the word that toggle is for *)
  toggle1, phase_to_rf_toggle_rf, last_phase_toggle_rf, phase_load_en, phase_rf

clock    == <<period, toSync, toTx>>
line     == <<pins, left, pos, slot, word, owed, framed>>
receiver == <<sampled, synced, bclkPrev, lastSync, bitCount, shifterR, amVal, phaseVal, phaseUpdated>>
taps     == <<delay, phaseUpdatedPrev, phase_history, mult_temp, tap_index_reg, delayed_phase_reg>>
sender   == <<phase_to_rf_toggle, due>>
rf       == <<toggle1, phase_to_rf_toggle_rf, last_phase_toggle_rf, phase_load_en, phase_rf>>
vars     == <<clock, line, receiver, taps, sender, rf>>

Low == [bclk |-> 0, sync |-> 0, data |-> 0]

(* The registers begin at zero, the clocks and the line anywhere. *)
Init ==
  /\ period \in Periods /\ toSync = Sync /\ toTx \in 1..period
  /\ pins \in [bclk : {0}, sync : {0, 1}, data : {0}]
  /\ left \in Halves /\ slot \in Slots /\ pos \in 1..(slot - 1) /\ word \in Words
  /\ owed = None /\ framed = FALSE
  /\ sampled = Low /\ synced = Low /\ bclkPrev = 0 /\ lastSync = 0
  /\ bitCount = 0 /\ shifterR = 0 /\ amVal = 0 /\ phaseVal = 0
  /\ phaseUpdated = FALSE /\ phaseUpdatedPrev = FALSE
  /\ delay \in Delays /\ phase_history = [i \in 0..(Taps - 1) |-> 0]
  /\ mult_temp = 0 /\ tap_index_reg = 0 /\ delayed_phase_reg = 0
  /\ phase_to_rf_toggle = FALSE /\ due = 0
  /\ toggle1 = FALSE /\ phase_to_rf_toggle_rf = FALSE /\ last_phase_toggle_rf = FALSE
  /\ phase_load_en = FALSE /\ phase_rf = 0

-----------------------------------------------------------------------------
bclkRising  == synced.bclk = 1 /\ bclkPrev = 0
syncChanged == synced.sync # lastSync
Shifted     == (2 * shifterR + synced.data) % 2^Bits

(* Mutation of Copies: one bit clock too early. *)
CopiesEarly == bclkRising /\ ~syncChanged /\ bitCount = Bits - 1

(* A word is complete; SYNC low is left (AM), high is right (phase). *)
Copies == bclkRising /\ ~syncChanged /\ bitCount = Bits

Receive ==
  /\ sampled' = pins /\ synced' = sampled
  /\ bclkPrev' = synced.bclk /\ lastSync' = synced.sync
  /\ bitCount' = IF syncChanged THEN 0 ELSE IF bclkRising THEN (bitCount + 1) % 64 ELSE bitCount
  /\ shifterR' = IF bclkRising /\ ~syncChanged /\ bitCount \in 1..Bits THEN Shifted ELSE shifterR
  /\ amVal'    = IF Copies /\ lastSync = 0 THEN Shifted ELSE amVal
  /\ phaseVal' = IF Copies /\ lastSync = 1 THEN Shifted ELSE phaseVal
  /\ phaseUpdated' = IF Copies /\ lastSync = 1 THEN ~phaseUpdated ELSE phaseUpdated

(* The I2S master: WS and the data change as BCLK falls, and the first bit *)
(* of a word comes one bit clock after WS.                                 *)
NextBit ==
  /\ pos < slot - 1 /\ pos' = pos + 1
  /\ pins' = [pins EXCEPT !.bclk = 0,
       !.data = IF pos' > Bits THEN 0 ELSE (word \div 2^(Bits - pos')) % 2]
  /\ UNCHANGED word

NextSlot ==
  /\ pos = slot - 1 /\ pos' = 0
  /\ \E d \in {0, 1} : pins' = [bclk |-> 0, sync |-> 1 - pins.sync, data |-> d]
  /\ word' \in Words

Rise == pins' = [pins EXCEPT !.bclk = 1] /\ UNCHANGED <<pos, word>>

Line ==
  /\ UNCHANGED slot
  /\ \/ left > 1 /\ left' = left - 1 /\ UNCHANGED <<pins, pos, word>>
     \/ left = 1 /\ left' \in Halves /\ IF pins.bclk = 1 THEN NextBit \/ NextSlot ELSE Rise
  /\ LET rises == pins'.bclk > pins.bclk
     IN /\ framed' = (framed \/ (rises /\ pos = 0))
        /\ owed' = IF rises /\ framed /\ pos = Bits THEN [sync |-> pins.sync, word |-> word]
                   ELSE IF Copies THEN None ELSE owed

-----------------------------------------------------------------------------
(* The delay line: a tick of every stage of its pipeline. *)
Moves == phaseUpdated # phaseUpdatedPrev

(* Mutation of Tap: it is not kept within the delay line. *)
TapUnclipped == delay.base + mult_temp \div 2^Bits

Tap == LET raw_tap == delay.base + mult_temp \div 2^Bits
       IN  IF raw_tap >= Taps - 1 THEN Taps - 1 ELSE raw_tap

DelayLine ==
  /\ phaseUpdatedPrev' = phaseUpdated
  /\ phase_history' = IF ~Moves THEN phase_history
                      ELSE [i \in 0..(Taps - 1) |-> IF i = 0 THEN phaseVal ELSE phase_history[i - 1]]
  /\ mult_temp' = amVal * delay.coeff
  /\ tap_index_reg' = Tap
  /\ delayed_phase_reg' = phase_history[tap_index_reg]
  /\ UNCHANGED delay

(* The toggle tells txClk that there is a new word. *)
Announce ==
  /\ phase_to_rf_toggle' = IF Moves THEN ~phase_to_rf_toggle ELSE phase_to_rf_toggle
  /\ due' = IF Moves THEN phase_history'[tap_index_reg'] ELSE due

SyncEdge == Receive /\ Line /\ DelayLine /\ Announce

(* Mutation of TxEdge: the word is taken without the synchronizer. *)
TxEdgeDirect ==
  /\ toggle1' \in {phase_to_rf_toggle, phase_to_rf_toggle'}
  /\ phase_to_rf_toggle_rf' = toggle1'
  /\ last_phase_toggle_rf' = phase_to_rf_toggle_rf
  /\ phase_load_en' = (phase_to_rf_toggle_rf # last_phase_toggle_rf)
  /\ IF ~phase_load_en THEN phase_rf' = phase_rf
     ELSE \/ phase_rf' \in {delayed_phase_reg, delayed_phase_reg'}
          \/ delayed_phase_reg # delayed_phase_reg' /\ phase_rf' = Torn

(* Mutation of TxEdge: the load is never taken back. *)
TxEdgeSticks ==
  /\ toggle1' \in {phase_to_rf_toggle, phase_to_rf_toggle'}
  /\ phase_to_rf_toggle_rf' = toggle1
  /\ last_phase_toggle_rf' = phase_to_rf_toggle_rf
  /\ phase_load_en' = (phase_load_en \/ phase_to_rf_toggle_rf # last_phase_toggle_rf)
  /\ phase_rf' = IF phase_load_en THEN delayed_phase_reg' ELSE phase_rf

(* What txClk reads of the sync domain is the value before or after the    *)
(* edge when both come at once, and of a word that changes any mixture.    *)
TxEdge ==
  /\ toggle1' \in {phase_to_rf_toggle, phase_to_rf_toggle'}
  /\ phase_to_rf_toggle_rf' = toggle1
  /\ last_phase_toggle_rf' = phase_to_rf_toggle_rf
  /\ phase_load_en' = (phase_to_rf_toggle_rf # last_phase_toggle_rf)
  /\ IF ~phase_load_en THEN phase_rf' = phase_rf
     ELSE \/ phase_rf' \in {delayed_phase_reg, delayed_phase_reg'}
          \/ delayed_phase_reg # delayed_phase_reg' /\ phase_rf' = Torn

-----------------------------------------------------------------------------
Passes(t) ==
  /\ toSync' = IF toSync = t THEN Sync ELSE toSync - t
  /\ toTx'   = IF toTx = t THEN period ELSE toTx - t
  /\ UNCHANGED period

SyncOnly == toSync < toTx /\ Passes(toSync) /\ SyncEdge /\ UNCHANGED rf
TxOnly   == toTx < toSync /\ Passes(toTx) /\ UNCHANGED <<line, receiver, taps, sender>> /\ TxEdge
Both     == toSync = toTx /\ Passes(toTx) /\ SyncEdge /\ TxEdge

Next == SyncOnly \/ TxOnly \/ Both

(* Both clocks run. *)
Spec == Init /\ [][Next]_vars /\ WF_vars(Next)
-----------------------------------------------------------------------------
(* The registers keep their width, and no edge is later than its period. *)
TypeOK ==
  /\ period \in Periods /\ toSync \in 1..Sync /\ toTx \in 1..period
  /\ bitCount \in 0..63 /\ {shifterR, amVal, phaseVal, delayed_phase_reg, due} \subseteq Word
  /\ phase_history \in [0..(Taps - 1) -> Word] /\ tap_index_reg \in 0..(Taps - 1)
  /\ mult_temp \in Nat /\ phase_rf \in Word \cup {Torn}
  /\ pos \in 0..(slot - 1) /\ slot \in Slots /\ word \in Words
  /\ owed \in {None} \cup [sync : {0, 1}, word : Words]

(* From the first full slot on, the receiver takes each word that was sent *)
(* once and whole, into the register of its channel, and before the next   *)
(* bit, however long the halves of the bit clock are, in slots of up to 64 *)
(* bit clocks more than a word has: in a longer one bitCount, of six bits, *)
(* comes round to Bits again, and what follows the word is copied as well. *)
EachWordReceived ==
  [][framed =>
       /\ phaseUpdated' # phaseUpdated => owed = [sync |-> 1, word |-> phaseVal']
       /\ amVal' # amVal => owed = [sync |-> 0, word |-> amVal']
       /\ pins'.bclk > pins.bclk => owed = None]_vars

(* From the toggle on a word is on its way until phase_rf is loaded. *)
Crossing == INSTANCE WordCrossing WITH
  offered <- due,
  busy    <- phase_to_rf_toggle # last_phase_toggle_rf \/ phase_load_en,
  shown   <- phase_rf

(* phase_rf takes each word of the delay line whole and once, before the   *)
(* next is announced, wherever the edges of the clocks fall.               *)
WordsCross == Crossing!CrossSafety

(* And each of them comes out.                                             *)
WordsArrive == Crossing!CrossLiveness

(* What txClk gets is always a word. *)
SafeCrossing == phase_rf # Torn
=============================================================================

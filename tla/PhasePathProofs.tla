-------------------------- MODULE PhasePathProofs --------------------------
(***************************************************************************)
(* The way of a phase word, for every width of the words, length of the    *)
(* delay line, frame and register value: every register keeps its width;   *)
(* where a period of txClk is longer than a third of one of the sync       *)
(* clock, and shorter than Bits + 1 of them, every word of the delay line  *)
(* comes to phase_rf once and whole; and the receiver takes each word that *)
(* the I2S master sends once and whole.                                    *)
(***************************************************************************)
EXTENDS PhasePath, TLAPS

Pins == [bclk : {0, 1}, sync : {0, 1}, data : {0, 1}]

LineTypes ==
  /\ pins \in Pins /\ sampled \in Pins /\ synced \in Pins
  /\ bclkPrev \in {0, 1} /\ lastSync \in {0, 1}
  /\ left \in Nat \ {0} /\ slot \in Slots /\ pos \in 0..(slot - 1) /\ word \in Words
  /\ owed \in {None} \cup [sync : {0, 1}, word : Words]

WordTypes ==
  /\ bitCount \in 0..63
  /\ shifterR \in Word /\ amVal \in Word /\ phaseVal \in Word
  /\ phaseUpdated \in BOOLEAN /\ phaseUpdatedPrev \in BOOLEAN
  /\ delay \in Delays /\ mult_temp \in Nat /\ tap_index_reg \in 0..(Taps - 1)
  /\ phase_history \in [0..(Taps - 1) -> Word] /\ delayed_phase_reg \in Word /\ due \in Word

ClockTypes ==
  /\ period \in Periods /\ toSync \in 1..Sync /\ toTx \in 1..period
  /\ phase_to_rf_toggle \in BOOLEAN /\ toggle1 \in BOOLEAN
  /\ phase_to_rf_toggle_rf \in BOOLEAN /\ last_phase_toggle_rf \in BOOLEAN
  /\ phase_load_en \in BOOLEAN /\ phase_rf \in Word \cup {Torn}

Types == LineTypes /\ WordTypes /\ ClockTypes

-----------------------------------------------------------------------------
(* Arithmetic. *)
LEMMA Power == ASSUME NEW k \in 0..16 PROVE 2^k \in Nat \ {0}
<1> DEFINE P == Nat \ {0}
<1>1. /\ 2^0 \in P /\ 2^1 \in P /\ 2^2 \in P /\ 2^3 \in P /\ 2^4 \in P /\ 2^5 \in P
      /\ 2^6 \in P /\ 2^7 \in P /\ 2^8 \in P /\ 2^9 \in P /\ 2^10 \in P /\ 2^11 \in P
      /\ 2^12 \in P /\ 2^13 \in P /\ 2^14 \in P /\ 2^15 \in P /\ 2^16 \in P
  BY SMT
<1>2. k \in {0, 1, 2, 3, 4, 5, 6, 7, 8, 9, 10, 11, 12, 13, 14, 15, 16}
  OBVIOUS
<1> HIDE DEF P
<1>3. 2^k \in P
  BY Zenon, <1>1, <1>2
<1>4. QED
  BY <1>3 DEF P

LEMMA Span == Bits \in 1..16 /\ 2^Bits \in Nat \ {0}
<1>1. Bits \in 1..16 /\ Bits \in 0..16
  BY PathAssumption
<1>2. QED
  BY <1>1, Power

LEMMA BitsLeft == ASSUME NEW n \in Nat, ~(n > Bits) PROVE Bits - n \in 0..16
<1>1. Bits \in 1..16
  BY PathAssumption
<1>2. QED
  BY <1>1

LEMMA ModRange == ASSUME NEW n \in Nat, NEW m \in Nat \ {0} PROVE n % m \in 0..(m - 1)
BY SMT

LEMMA DivRange == ASSUME NEW n \in Nat, NEW m \in Nat \ {0} PROVE n \div m \in Nat
BY SMT

LEMMA Scaled ==
  ASSUME NEW a \in Int, NEW b \in Int, a <= b, NEW s \in Nat
  PROVE  a * s <= b * s
BY SMT

LEMMA OneLess ==
  ASSUME NEW a \in Int, NEW b \in Int, b >= a - 1, NEW s \in Nat
  PROVE  a * s <= (b + 1) * s /\ (b + 1) * s = b * s + s
<1>1. a <= b + 1 /\ b + 1 \in Int
  OBVIOUS
<1>2. a * s <= (b + 1) * s
  BY Zenon, <1>1, Scaled
<1>3. (b + 1) * s = b * s + s
  BY SMT
<1>4. QED
  BY <1>2, <1>3

(* What the stages compute are words, and a tap of the delay line. *)
LEMMA Computed ==
  ASSUME LineTypes, WordTypes
  PROVE  Shifted \in Word /\ Tap \in 0..(Taps - 1)
<1>1. Shifted \in Word
  <2>1. 2 * shifterR + synced.data \in Nat
    BY Span DEF LineTypes, WordTypes, Pins, Word
  <2>2. QED
    BY <2>1, Span, ModRange DEF Shifted, Word
<1>2. Tap \in 0..(Taps - 1)
  <2> DEFINE raw == delay.base + mult_temp \div 2^Bits
  <2>1. mult_temp \div 2^Bits \in Nat
    BY Span, DivRange DEF WordTypes
  <2> HIDE DEF raw
  <2>2. raw \in Nat
    BY <2>1, PathAssumption DEF WordTypes, raw
  <2>3. Tap = IF raw >= Taps - 1 THEN Taps - 1 ELSE raw
    BY DEF Tap, raw
  <2>4. QED
    BY <2>2, <2>3, PathAssumption
<1>3. QED
  BY <1>1, <1>2

-----------------------------------------------------------------------------
(* The registers keep their types. *)
LEMMA LineStep == LineTypes /\ Receive /\ Line => LineTypes'
<1> SUFFICES ASSUME LineTypes, Receive, Line PROVE LineTypes'
  OBVIOUS
<1>1. sampled' \in Pins /\ synced' \in Pins /\ bclkPrev' \in {0, 1} /\ lastSync' \in {0, 1}
  BY DEF LineTypes, Receive, Pins
<1>2. slot' = slot /\ slot' \in Slots /\ slot \in Nat
  BY PathAssumption DEF Line, LineTypes
<1>3. left' \in Nat \ {0}
  <2>1. \A n \in Halves : n \in Nat \ {0}
    BY PathAssumption
  <2>2. QED
    BY <2>1 DEF Line, LineTypes
<1>4. pins' \in Pins /\ pos' \in 0..(slot - 1) /\ word' \in Words
  <2>1. CASE left > 1 /\ UNCHANGED <<pins, pos, word>>
    BY <2>1 DEF LineTypes
  <2>2. CASE NextBit
    <3> DEFINE bit == IF pos' > Bits THEN 0 ELSE (word \div 2^(Bits - pos')) % 2
    <3> HIDE DEF bit
    <3>1. bit \in {0, 1}
      <4>1. CASE pos' > Bits
        BY <4>1 DEF bit
      <4>2. CASE ~(pos' > Bits)
        <5>1. pos' \in Nat /\ word \in Nat
          BY <2>2, <1>2, PathAssumption DEF NextBit, LineTypes, Word
        <5>2. Bits - pos' \in 0..16
          BY <5>1, <4>2, BitsLeft
        <5>3. word \div 2^(Bits - pos') \in Nat
          <6>1. 2^(Bits - pos') \in Nat \ {0}
            BY <5>2, Power
          <6>2. QED
            BY Zenon, <5>1, <6>1, DivRange
        <5>4. bit = (word \div 2^(Bits - pos')) % 2
          BY <4>2 DEF bit
        <5>5. QED
          BY <5>3, <5>4
      <4>3. QED
        BY <4>1, <4>2
    <3>2. pins' = [pins EXCEPT !.bclk = 0, !.data = bit]
      BY <2>2 DEF NextBit, bit
    <3>3. pins' \in Pins
      BY <3>1, <3>2 DEF LineTypes, Pins
    <3>4. QED
      BY <2>2, <3>3, <1>2 DEF NextBit, LineTypes
  <2>3. CASE NextSlot
    BY <2>3, <1>2 DEF NextSlot, LineTypes, Pins
  <2>4. CASE Rise
    BY <2>4 DEF Rise, LineTypes, Pins
  <2>5. QED
    BY <2>1, <2>2, <2>3, <2>4 DEF Line
<1>5. owed' \in {None} \cup [sync : {0, 1}, word : Words]
  BY DEF Line, LineTypes, Pins
<1>6. QED
  BY <1>1, <1>2, <1>3, <1>4, <1>5 DEF LineTypes

LEMMA WordStep == LineTypes /\ WordTypes /\ Receive /\ DelayLine /\ Announce => WordTypes'
<1> SUFFICES ASSUME LineTypes, WordTypes, Receive, DelayLine, Announce PROVE WordTypes'
  OBVIOUS
<1>1. Shifted \in Word /\ Tap \in 0..(Taps - 1)
  BY Computed
<1>2. bitCount' \in 0..63
  BY DEF Receive, WordTypes
<1>3. shifterR' \in Word /\ amVal' \in Word /\ phaseVal' \in Word
  BY <1>1 DEF Receive, WordTypes
<1>4. phaseUpdated' \in BOOLEAN /\ phaseUpdatedPrev' \in BOOLEAN /\ delay' \in Delays
  BY DEF Receive, DelayLine, WordTypes
<1>5. mult_temp' \in Nat
  <2>1. amVal \in Nat /\ delay.coeff \in Nat
    BY Span, PathAssumption DEF WordTypes, Word
  <2>2. QED
    BY <2>1 DEF DelayLine
<1>6. tap_index_reg' \in 0..(Taps - 1)
  BY <1>1 DEF DelayLine
<1>7. phase_history' \in [0..(Taps - 1) -> Word]
  <2>1. \A i \in 0..(Taps - 1) : i # 0 => i - 1 \in 0..(Taps - 1)
    BY PathAssumption
  <2>2. QED
    BY <2>1 DEF DelayLine, WordTypes
<1>8. delayed_phase_reg' \in Word
  BY DEF DelayLine, WordTypes
<1>9. due' \in Word
  BY <1>6, <1>7 DEF Announce, WordTypes
<1>10. QED
  BY <1>2, <1>3, <1>4, <1>5, <1>6, <1>7, <1>8, <1>9 DEF WordTypes

LEMMA TxStep ==
  ASSUME WordTypes, ClockTypes, TxEdge, phase_to_rf_toggle' \in BOOLEAN, delayed_phase_reg' \in Word
  PROVE  /\ toggle1' \in BOOLEAN /\ phase_to_rf_toggle_rf' \in BOOLEAN
         /\ last_phase_toggle_rf' \in BOOLEAN /\ phase_load_en' \in BOOLEAN
         /\ phase_rf' \in Word \cup {Torn}
BY DEF WordTypes, ClockTypes, TxEdge

LEMMA ClockStep ==
  ASSUME ClockTypes, NEW t \in Nat \ {0}, t <= toSync, t <= toTx, Passes(t)
  PROVE  period' = period /\ period' \in Periods /\ toSync' \in 1..Sync /\ toTx' \in 1..period'
<1>1. period \in Nat \ {0} /\ Sync \in Nat \ {0}
  BY PathAssumption DEF ClockTypes
<1>2. QED
  BY <1>1 DEF ClockTypes, Passes

LEMMA TypesStep == Types /\ [Next]_vars => Types'
<1> SUFFICES ASSUME Types, [Next]_vars PROVE Types'
  OBVIOUS
<1>0. period \in Nat \ {0} /\ toSync \in Nat \ {0} /\ toTx \in Nat \ {0}
  BY PathAssumption DEF Types, ClockTypes
<1>1. CASE SyncOnly
  <2>1. LineTypes' /\ WordTypes'
    BY <1>1, LineStep, WordStep DEF Types, SyncOnly, SyncEdge
  <2>2. period' \in Periods /\ toSync' \in 1..Sync /\ toTx' \in 1..period'
    BY <1>0, <1>1, ClockStep DEF Types, SyncOnly
  <2>3. phase_to_rf_toggle' \in BOOLEAN
    BY <1>1 DEF SyncOnly, SyncEdge, Announce, Types, ClockTypes
  <2>4. QED
    BY <1>1, <2>1, <2>2, <2>3 DEF Types, ClockTypes, SyncOnly, rf
<1>2. CASE TxOnly
  <2>1. LineTypes' /\ WordTypes'
    BY <1>2 DEF Types, TxOnly, LineTypes, WordTypes, line, receiver, taps, sender
  <2>2. period' \in Periods /\ toSync' \in 1..Sync /\ toTx' \in 1..period'
    BY <1>0, <1>2, ClockStep DEF Types, TxOnly
  <2>3. phase_to_rf_toggle' \in BOOLEAN /\ delayed_phase_reg' \in Word /\ TxEdge
    BY <1>2, <2>1 DEF TxOnly, Types, WordTypes, ClockTypes, sender
  <2>4. QED
    BY <2>1, <2>2, <2>3, TxStep DEF Types, ClockTypes
<1>3. CASE Both
  <2>1. LineTypes' /\ WordTypes'
    BY <1>3, LineStep, WordStep DEF Types, Both, SyncEdge
  <2>2. period' \in Periods /\ toSync' \in 1..Sync /\ toTx' \in 1..period'
    BY <1>0, <1>3, ClockStep DEF Types, Both
  <2>3. phase_to_rf_toggle' \in BOOLEAN /\ delayed_phase_reg' \in Word /\ TxEdge
    BY <1>3, <2>1 DEF Both, SyncEdge, Announce, Types, WordTypes, ClockTypes
  <2>4. QED
    BY <2>1, <2>2, <2>3, TxStep DEF Types, ClockTypes
<1>4. CASE UNCHANGED vars
  BY <1>4 DEF vars, clock, line, receiver, taps, sender, rf, Types, LineTypes, WordTypes, ClockTypes
<1>5. QED
  BY <1>1, <1>2, <1>3, <1>4 DEF Next

LEMMA TypesInit == Init => Types
<1> SUFFICES ASSUME Init PROVE Types
  OBVIOUS
<1>1. 0 \in Word
  BY Span DEF Word
<1>2. LineTypes
  <2>1. \A n \in Halves : n \in Nat \ {0}
    BY PathAssumption
  <2>2. \A n \in Slots : n \in Nat
    BY PathAssumption
  <2>3. Low \in Pins /\ pins \in Pins
    BY DEF Init, Low, Pins
  <2>4. pos \in 0..(slot - 1)
    BY <2>2 DEF Init
  <2>5. QED
    BY <2>1, <2>3, <2>4 DEF Init, LineTypes
<1>3. WordTypes
  <2>1. 0 \in 0..(Taps - 1)
    BY PathAssumption
  <2>2. phase_history = [i \in 0..(Taps - 1) |-> 0] /\ tap_index_reg = 0
    BY DEF Init
  <2>3. phase_history \in [0..(Taps - 1) -> Word] /\ tap_index_reg \in 0..(Taps - 1)
    BY <1>1, <2>1, <2>2
  <2>4. /\ bitCount = 0 /\ shifterR = 0 /\ amVal = 0 /\ phaseVal = 0 /\ mult_temp = 0
        /\ delayed_phase_reg = 0 /\ due = 0 /\ delay \in Delays
        /\ phaseUpdated \in BOOLEAN /\ phaseUpdatedPrev \in BOOLEAN
    BY DEF Init
  <2>5. QED
    BY <1>1, <2>3, <2>4 DEF WordTypes
<1>4. ClockTypes
  <2>1. period \in Periods /\ toTx \in 1..period /\ toSync \in 1..Sync
    BY PathAssumption DEF Init
  <2>2. /\ phase_to_rf_toggle \in BOOLEAN /\ toggle1 \in BOOLEAN
        /\ phase_to_rf_toggle_rf \in BOOLEAN /\ last_phase_toggle_rf \in BOOLEAN
        /\ phase_load_en \in BOOLEAN /\ phase_rf = 0
    BY DEF Init
  <2>3. QED
    BY <1>1, <2>1, <2>2 DEF ClockTypes
<1>5. QED
  BY <1>2, <1>3, <1>4 DEF Types

LEMMA TypesHold == Spec => []Types
<1>1. QED
  BY TypesInit, TypesStep, PTL DEF Spec

(* Every register of the receiver, the delay line and the crossing keeps   *)
(* its width, the tap is one of the delay line's words, and no edge is     *)
(* later than its period, for every width, frame and register value.       *)
THEOREM Typing == Spec => []TypeOK
<1>1. Types => TypeOK
  BY DEF Types, LineTypes, WordTypes, ClockTypes, TypeOK
<1>2. QED
  BY <1>1, TypesHold, PTL

-----------------------------------------------------------------------------
(* The crossing.  How many edges of the sync clock there are at least      *)
(* until the receiver sees BCLK rise and until it copies a word, and how   *)
(* long it is until txClk loads the word that is on its way.               *)

InTime == \A p \in Periods : Sync < 3 * p /\ p < (Bits + 1) * Sync

ToRise ==
  IF bclkRising THEN 1
  ELSE IF sampled.bclk = 1 /\ synced.bclk = 0 THEN 2
  ELSE IF pins.bclk = 1 /\ sampled.bclk = 0 THEN 3
  ELSE IF pins.bclk = 0 THEN left + 3 ELSE left + 5

ToCopy == ToRise + 4 * (IF bitCount <= Bits THEN Bits - bitCount ELSE Bits)

Busy == phase_to_rf_toggle # last_phase_toggle_rf \/ phase_load_en

ToLoad ==
  toTx + period * (IF phase_load_en THEN 0
                   ELSE IF phase_to_rf_toggle_rf # last_phase_toggle_rf THEN 1
                   ELSE IF toggle1 # phase_to_rf_toggle_rf THEN 2 ELSE 3)

(* The level of BCLK lasts for two edges or more. *)
Steady ==
  /\ pins.bclk # sampled.bclk => left > 1 /\ sampled.bclk = synced.bclk
  /\ sampled.bclk # synced.bclk => synced.bclk = bclkPrev

(* One change of the toggle at most is between the two clocks. *)
OneOnItsWay ==
  /\ phase_load_en => phase_to_rf_toggle_rf = last_phase_toggle_rf
  /\ phase_load_en \/ phase_to_rf_toggle_rf # last_phase_toggle_rf => toggle1 = phase_to_rf_toggle_rf
  /\ phase_load_en \/ toggle1 # last_phase_toggle_rf => phase_to_rf_toggle = toggle1

(* After a copy the tap follows the amplitude in two edges and the toggle  *)
(* the phase in one, with no word on its way that they could disturb.      *)
Follows ==
  /\ Moves => /\ mult_temp = amVal * delay.coeff /\ tap_index_reg = Tap
              /\ ToCopy >= 4 * Bits + 4 /\ (Busy => ToLoad < toSync)
  /\ mult_temp # amVal * delay.coeff => ToCopy >= 4 * Bits + 4 /\ (Busy => ToLoad < toSync)
  /\ tap_index_reg # Tap => ToCopy >= 4 * Bits + 3 /\ ~Busy

(* A word on its way is loaded before the next is copied, and after it has *)
(* come to the end of the delay line. *)
Timely ==
  Busy => /\ ToLoad < toSync + ToCopy * Sync
          /\ phase_history[tap_index_reg] = due
          /\ delayed_phase_reg # due => toSync < ToLoad

PInv == Types /\ Steady /\ OneOnItsWay /\ Follows /\ Timely

(* An edge of the sync clock: BCLK comes nearer to its next rise by one    *)
(* edge at most, and after a rise there are three edges without one. *)
LEMMA Rises ==
  ASSUME LineTypes, Steady, Receive, Line
  PROVE  /\ Steady'
         /\ ToRise \in Nat \ {0} /\ ToRise' \in Nat \ {0}
         /\ ToRise' >= ToRise - 1
         /\ bclkRising => ToRise = 1 /\ ToRise' >= 4
<1> DEFINE p == pins.bclk  s == sampled.bclk  y == synced.bclk  b == bclkPrev
           n == pins'.bclk
<1>1. p \in {0, 1} /\ s \in {0, 1} /\ y \in {0, 1} /\ b \in {0, 1} /\ left \in Nat \ {0}
  BY DEF LineTypes, Pins
<1>2. sampled'.bclk = p /\ synced'.bclk = s /\ bclkPrev' = y
  BY DEF Receive
<1>3. \/ left > 1 /\ left' = left - 1 /\ n = p
      \/ left = 1 /\ left' \in Nat /\ left' > 1 /\ n = 1 - p
  <2>1. pins \in Pins /\ \A h \in Halves : h \in Nat /\ h > 1
    BY PathAssumption DEF LineTypes
  <2>2. CASE left > 1 /\ left' = left - 1 /\ UNCHANGED <<pins, pos, word>>
    BY <2>2
  <2>3. CASE left = 1 /\ left' \in Halves /\ IF pins.bclk = 1 THEN NextBit \/ NextSlot ELSE Rise
    <3>1. CASE pins.bclk = 1
      <4>1. n = 0
        <5> DEFINE bit == IF pos' > Bits THEN 0 ELSE (word \div 2^(Bits - pos')) % 2
        <5>1. NextBit => pins' = [pins EXCEPT !.bclk = 0, !.data = bit]
          BY DEF NextBit, bit
        <5> HIDE DEF bit
        <5>2. NextBit => n = 0
          BY <2>1, <5>1 DEF Pins
        <5>3. NextSlot => n = 0
          BY DEF NextSlot
        <5>4. QED
          BY <2>3, <3>1, <5>2, <5>3
      <4>2. QED
        BY <2>1, <2>3, <3>1, <4>1
    <3>2. CASE pins.bclk # 1
      <4>1. n = 1
        BY <2>1, <2>3, <3>2 DEF Rise, Pins
      <4>2. QED
        BY <2>1, <2>3, <3>2, <4>1, <1>1
    <3>3. QED
      BY <3>1, <3>2
  <2>4. QED
    BY <2>2, <2>3 DEF Line
<1>4. /\ p # s => left > 1 /\ s = y
      /\ s # y => y = b
  BY DEF Steady
<1>5. ToRise = IF y = 1 /\ b = 0 THEN 1 ELSE IF s = 1 /\ y = 0 THEN 2
               ELSE IF p = 1 /\ s = 0 THEN 3 ELSE IF p = 0 THEN left + 3 ELSE left + 5
  BY DEF ToRise, bclkRising
<1>6. ToRise' = IF s = 1 /\ y = 0 THEN 1 ELSE IF p = 1 /\ s = 0 THEN 2
                ELSE IF n = 1 /\ p = 0 THEN 3 ELSE IF n = 0 THEN left' + 3 ELSE left' + 5
  BY <1>2 DEF ToRise, bclkRising
<1>7. Steady' <=> /\ n # p => left' > 1 /\ p = s
                  /\ p # s => s = y
  BY <1>2 DEF Steady
<1>8. bclkRising <=> y = 1 /\ b = 0
  BY DEF bclkRising
<1> HIDE DEF p, s, y, b, n
<1>9. QED
  BY <1>1, <1>3, <1>4, <1>5, <1>6, <1>7, <1>8

(* One edge brings the next copy nearer by one edge at most; after a copy  *)
(* it is a whole word away. *)
LEMMA Copying ==
  ASSUME LineTypes, WordTypes, Steady, Receive, Line
  PROVE  /\ ToCopy \in Nat \ {0} /\ ToCopy' \in Nat \ {0}
         /\ ToCopy' >= ToCopy - 1
         /\ Copies => ToCopy = 1 /\ ToCopy' >= 4 * Bits + 4
<1> DEFINE c(n) == IF n <= Bits THEN Bits - n ELSE Bits
<1>1. Bits \in 1..16
  BY PathAssumption
<1>2. /\ ToRise \in Nat \ {0} /\ ToRise' \in Nat \ {0}
      /\ ToRise' >= ToRise - 1
      /\ bclkRising => ToRise = 1 /\ ToRise' >= 4
  BY Rises
<1>3. ToCopy = ToRise + 4 * c(bitCount) /\ ToCopy' = ToRise' + 4 * c(bitCount')
  BY DEF ToCopy
<1>4. bitCount \in 0..63
  BY DEF WordTypes
<1>5. bitCount' = IF syncChanged THEN 0 ELSE IF bclkRising THEN (bitCount + 1) % 64 ELSE bitCount
  BY DEF Receive
<1>6. \A n \in 0..63 : c(n) \in Int /\ c(n) <= Bits /\ (n <= Bits => c(n) = Bits - n) /\ (n > Bits => c(n) = Bits)
  BY <1>1
<1>7. c(0) = Bits /\ c(bitCount) \in Int /\ c(bitCount) <= Bits /\ c(bitCount) >= 0
  BY <1>1, <1>4
<1>8. Copies <=> bclkRising /\ ~syncChanged /\ bitCount = Bits
  BY DEF Copies
<1>13. ToRise \in Nat \ {0} /\ ToRise' \in Nat \ {0} /\ ToRise' >= ToRise - 1
  BY <1>2
<1>14. 4 * c(bitCount) \in Nat /\ 4 * c(bitCount) <= 4 * Bits /\ 4 * Bits \in Nat
  BY <1>1, <1>7
<1> HIDE DEF c
<1>9. CASE syncChanged
  <2>1. c(bitCount') = Bits
    BY <1>5, <1>7, <1>9
  <2>2. ~Copies
    BY <1>8, <1>9
  <2>3. ToCopy \in Nat \ {0} /\ ToCopy' \in Nat \ {0} /\ ToCopy' >= ToCopy - 1
    BY <2>1, <1>13, <1>3, <1>14
  <2>4. QED
    BY <2>2, <2>3
<1>10. CASE ~syncChanged /\ ~bclkRising
  <2>1. bitCount' = bitCount
    BY <1>5, <1>10
  <2>2. ~Copies
    BY <1>8, <1>10
  <2>3. ToCopy \in Nat \ {0} /\ ToCopy' \in Nat \ {0} /\ ToCopy' >= ToCopy - 1
    BY <2>1, <1>13, <1>3, <1>14
  <2>4. QED
    BY <2>2, <2>3
<1>11. CASE ~syncChanged /\ bclkRising
  <2>1. bitCount' = IF bitCount = 63 THEN 0 ELSE bitCount + 1
    BY <1>4, <1>5, <1>11
  <2>2. bitCount' \in 0..63
    BY <1>4, <2>1
  <2>3. c(bitCount') >= 0 /\ c(bitCount') >= c(bitCount) - 1 /\ c(bitCount') \in Int
    BY <1>1, <1>4, <1>6, <2>1, <2>2
  <2>4. bitCount = Bits => c(bitCount) = 0 /\ c(bitCount') = Bits
    BY <1>1, <1>4, <1>6, <2>1, <2>2
  <2>5. ToRise = 1 /\ ToRise' >= 4 /\ (Copies => bitCount = Bits)
    BY <1>2, <1>8, <1>11
  <2>6. ToCopy \in Nat \ {0} /\ ToCopy' \in Nat \ {0} /\ ToCopy' >= ToCopy - 1
    BY <2>3, <2>5, <1>1, <1>13, <1>3, <1>7
  <2>7. ASSUME bitCount = Bits PROVE ToCopy = 1 /\ ToCopy' >= 4 * Bits + 4
    <3>1. ToCopy = 1 + 4 * 0 /\ ToCopy' = ToRise' + 4 * Bits
      BY <2>4, <2>5, <2>7, <1>3
    <3>2. QED
      BY <3>1, <2>5, <1>13, <1>14
  <2>8. QED
    BY <2>5, <2>6, <2>7
<1>12. QED
  BY <1>9, <1>10, <1>11

(* How long a word is still on its way. *)
LEMMA Loading ==
  ASSUME ClockTypes, OneOnItsWay
  PROVE  /\ period \in Nat \ {0} /\ Sync \in Nat \ {0}
         /\ toSync \in Nat \ {0} /\ toTx \in Nat \ {0} /\ ToLoad \in Nat
         /\ toTx <= ToLoad /\ toTx <= period /\ ToLoad <= toTx + 3 * period
         /\ ToLoad >= toTx + 3 * period \/ phase_load_en \/ toggle1 # last_phase_toggle_rf
<1>1. period \in Nat \ {0} /\ Sync \in Nat \ {0}
  BY PathAssumption DEF ClockTypes
<1>2. toSync \in Nat \ {0} /\ toTx \in Nat \ {0} /\ toTx <= period
  BY <1>1 DEF ClockTypes
<1>3. QED
  BY <1>1, <1>2 DEF ToLoad, ClockTypes, OneOnItsWay

(* An edge of txClk takes the word that is on its way one stage further. *)
LEMMA TxMoves ==
  ASSUME ClockTypes, OneOnItsWay, TxEdge, toTx' = period, period' = period,
         phase_to_rf_toggle' = phase_to_rf_toggle
  PROVE  /\ OneOnItsWay' /\ (Busy' => Busy /\ ToLoad' = ToLoad - toTx)
         /\ Busy => (~Busy' <=> phase_load_en)
         /\ phase_load_en => ToLoad = toTx
<1>1. period \in Nat \ {0} /\ toTx \in Nat \ {0}
  BY Loading
<1>2. /\ toggle1' = phase_to_rf_toggle /\ phase_to_rf_toggle_rf' = toggle1
      /\ last_phase_toggle_rf' = phase_to_rf_toggle_rf
      /\ phase_load_en' = (phase_to_rf_toggle_rf # last_phase_toggle_rf)
  BY DEF TxEdge
<1>3. OneOnItsWay' /\ (Busy' => Busy) /\ (Busy => (~Busy' <=> phase_load_en))
  BY <1>2 DEF OneOnItsWay, Busy, ClockTypes
<1>4. ASSUME Busy' PROVE ToLoad' = ToLoad - toTx
  <2>1. CASE phase_load_en
    BY <2>1, <1>3, <1>4
  <2>2. CASE ~phase_load_en /\ phase_to_rf_toggle_rf # last_phase_toggle_rf
    <3>1. phase_load_en'
      BY <1>2, <2>2
    <3>2. ToLoad = toTx + period * 1 /\ ToLoad' = period + period * 0
      BY <2>2, <3>1 DEF ToLoad
    <3>3. QED
      BY <3>2, <1>1
  <2>3. CASE ~phase_load_en /\ phase_to_rf_toggle_rf = last_phase_toggle_rf /\ toggle1 # phase_to_rf_toggle_rf
    <3>1. ~phase_load_en' /\ phase_to_rf_toggle_rf' # last_phase_toggle_rf'
      BY <1>2, <2>3
    <3>2. ToLoad = toTx + period * 2 /\ ToLoad' = period + period * 1
      BY <2>3, <3>1 DEF ToLoad
    <3>3. QED
      BY <3>2, <1>1
  <2>4. CASE ~phase_load_en /\ phase_to_rf_toggle_rf = last_phase_toggle_rf /\ toggle1 = phase_to_rf_toggle_rf
    <3>1. ~phase_load_en' /\ phase_to_rf_toggle_rf' = last_phase_toggle_rf'
      BY <1>2, <2>4
    <3>2. toggle1' # phase_to_rf_toggle_rf'
      BY <1>2, <1>3, <1>4, <2>4 DEF Busy
    <3>3. ToLoad = toTx + period * 3 /\ ToLoad' = period + period * 2
      BY <2>4, <3>1, <3>2 DEF ToLoad
    <3>4. QED
      BY <3>3, <1>1
  <2>5. QED
    BY <2>1, <2>2, <2>3, <2>4
<1>5. phase_load_en => ToLoad = toTx
  BY <1>1 DEF ToLoad
<1>6. QED
  BY <1>3, <1>4, <1>5

(* An edge of the sync clock, alone or with one of txClk. *)
SyncStep == SyncOnly \/ Both

LEMMA SyncMoves ==
  ASSUME Types, OneOnItsWay, Follows, SyncStep
  PROVE  /\ SyncEdge /\ toSync' = Sync /\ period' = period /\ OneOnItsWay'
         /\ ~(Busy /\ ToLoad < toSync)
         /\ ~Moves => (Busy' => Busy /\ ToLoad' = ToLoad - toSync)
         /\ Moves => ~Busy /\ Busy' /\ 3 * period <= ToLoad' /\ ToLoad' <= 4 * period
<1>1. /\ period \in Nat \ {0} /\ toSync \in Nat \ {0} /\ toTx \in Nat \ {0} /\ ToLoad \in Nat
      /\ toTx <= ToLoad /\ toTx <= period
  BY Loading DEF Types
<1>2. SyncEdge /\ toSync <= toTx /\ toSync' = Sync /\ period' = period
  BY <1>1 DEF SyncStep, SyncOnly, Both, Passes
<1>3. ~(ToLoad < toSync)
  BY <1>1, <1>2
<1>0. phase_to_rf_toggle \in BOOLEAN /\ last_phase_toggle_rf \in BOOLEAN
  BY DEF Types, ClockTypes
<1>4. Moves => ~Busy
  BY <1>3 DEF Follows
<1>5. phase_to_rf_toggle' = IF Moves THEN ~phase_to_rf_toggle ELSE phase_to_rf_toggle
  BY <1>2 DEF SyncEdge, Announce
<1>6. ASSUME ~Moves PROVE OneOnItsWay' /\ (Busy' => Busy /\ ToLoad' = ToLoad - toSync)
  <2>1. phase_to_rf_toggle' = phase_to_rf_toggle
    BY <1>5, <1>6
  <2>2. CASE SyncOnly
    <3>1. UNCHANGED rf /\ toTx' = toTx - toSync
      BY <2>2, <1>1 DEF SyncOnly, Passes
    <3>2. OneOnItsWay' /\ (Busy' => Busy)
      BY <2>1, <3>1 DEF OneOnItsWay, Busy, rf
    <3>3. ToLoad' = ToLoad - toSync
      BY <3>1, <1>1, <1>2 DEF ToLoad, rf
    <3>4. QED
      BY <3>2, <3>3
  <2>3. CASE Both
    <3>1. TxEdge /\ toTx = toSync /\ toTx' = period
      BY <2>3, <1>1 DEF Both, Passes
    <3>2. QED
      BY <2>1, <3>1, <1>2, TxMoves DEF Types
  <2>4. QED
    BY <2>2, <2>3 DEF SyncStep
<1>7. ASSUME Moves PROVE OneOnItsWay' /\ Busy' /\ 3 * period <= ToLoad' /\ ToLoad' <= 4 * period
  <2>1. phase_to_rf_toggle' = ~phase_to_rf_toggle
    BY <1>5, <1>7
  <2>2. /\ ~phase_load_en /\ phase_to_rf_toggle = last_phase_toggle_rf
        /\ toggle1 = phase_to_rf_toggle /\ phase_to_rf_toggle_rf = phase_to_rf_toggle
    BY <1>4, <1>7 DEF Busy, OneOnItsWay, Types, ClockTypes
  <2>3. CASE SyncOnly
    <3>1. UNCHANGED rf /\ toTx' = toTx - toSync /\ toSync < toTx
      BY <2>3, <1>1 DEF SyncOnly, Passes
    <3>2. OneOnItsWay' /\ Busy'
      BY <2>1, <2>2, <3>1, <1>0 DEF OneOnItsWay, Busy, rf
    <3>3. ToLoad' = toTx' + period * 3
      BY <2>2, <3>1, <1>2 DEF ToLoad, rf
    <3>4. QED
      BY <3>1, <3>2, <3>3, <1>1
  <2>4. CASE Both
    <3>1. TxEdge /\ toTx' = period
      BY <2>4, <1>1 DEF Both, Passes
    <3>2. /\ toggle1' = phase_to_rf_toggle \/ toggle1' = ~phase_to_rf_toggle
          /\ phase_to_rf_toggle_rf' = phase_to_rf_toggle
          /\ last_phase_toggle_rf' = phase_to_rf_toggle /\ ~phase_load_en'
      BY <2>1, <2>2, <3>1 DEF TxEdge
    <3>3. OneOnItsWay' /\ Busy'
      BY <2>1, <3>2, <1>0 DEF OneOnItsWay, Busy, Types, ClockTypes
    <3>4. ToLoad' = period + period * (IF toggle1' # phase_to_rf_toggle THEN 2 ELSE 3)
      BY <3>1, <3>2, <1>2 DEF ToLoad
    <3>5. QED
      BY <3>3, <3>4, <1>1
  <2>5. QED
    BY <2>3, <2>4 DEF SyncStep
<1>8. QED
  BY <1>2, <1>3, <1>4, <1>6, <1>7

(* A step of the registers that follow the amplitude. *)
LEMMA TapMoves ==
  ASSUME SyncEdge, Types
  PROVE  /\ amVal' # amVal => Copies /\ ~Moves'
         /\ Moves' => Copies /\ amVal' = amVal
         /\ mult_temp' = amVal * delay.coeff /\ delay' = delay /\ tap_index_reg' = Tap
         /\ mult_temp' = mult_temp => Tap' = Tap
<1>1. amVal' # amVal => Copies /\ lastSync = 0
  BY DEF SyncEdge, Receive
<1>2. Moves' <=> phaseUpdated' # phaseUpdated
  BY DEF SyncEdge, DelayLine, Moves
<1>3. Moves' => Copies /\ lastSync = 1
  BY <1>2 DEF SyncEdge, Receive
<1>4. mult_temp' = amVal * delay.coeff /\ delay' = delay /\ tap_index_reg' = Tap
  BY DEF SyncEdge, DelayLine
<1>5. mult_temp' = mult_temp => Tap' = Tap
  BY <1>4 DEF Tap
<1>6. QED
  BY <1>1, <1>3, <1>4, <1>5

LEMMA FollowsStep ==
  ASSUME Types, Steady, OneOnItsWay, Follows, Timely, SyncStep
  PROVE  Follows'
<1>1. /\ SyncEdge /\ toSync' = Sync /\ ~(Busy /\ ToLoad < toSync)
      /\ ~Moves => (Busy' => Busy /\ ToLoad' = ToLoad - toSync)
  BY SyncMoves
<1>2. /\ amVal' # amVal => Copies /\ ~Moves'
      /\ Moves' => Copies /\ amVal' = amVal
      /\ mult_temp' = amVal * delay.coeff /\ delay' = delay /\ tap_index_reg' = Tap
      /\ mult_temp' = mult_temp => Tap' = Tap
  BY <1>1, TapMoves
<1>3. /\ ToCopy \in Nat \ {0} /\ ToCopy' \in Nat \ {0} /\ ToCopy' >= ToCopy - 1
      /\ Copies => ToCopy = 1 /\ ToCopy' >= 4 * Bits + 4
  BY <1>1, Copying DEF Types, SyncEdge
<1>4. Bits \in 1..16 /\ Sync \in Nat /\ toSync \in Nat /\ ToLoad \in Nat
  BY Loading, PathAssumption DEF Types
<1>5. ASSUME Copies PROVE /\ ToCopy' >= 4 * Bits + 4 /\ (Busy' => ToLoad' < toSync')
                          /\ mult_temp' = mult_temp
  <2>1. ToCopy = 1 /\ ToCopy' >= 4 * Bits + 4
    BY <1>3, <1>5
  <2>2. ~(ToCopy >= 4 * Bits + 4)
    BY <2>1, <1>4
  <2>3. ~Moves /\ mult_temp = amVal * delay.coeff
    BY <2>2 DEF Follows
  <2>4. ASSUME Busy' PROVE ToLoad' < toSync'
    <3>1. Busy /\ ToLoad' = ToLoad - toSync
      BY <2>3, <2>4, <1>1
    <3>2. ToLoad < toSync + 1 * Sync
      BY <3>1, <2>1 DEF Timely
    <3>3. QED
      BY <3>1, <3>2, <1>1, <1>4
  <2>5. QED
    BY <2>1, <2>3, <2>4, <1>2
<1>6. ASSUME mult_temp' # mult_temp PROVE ToCopy' >= 4 * Bits + 3 /\ ~Busy'
  <2>1. ToCopy >= 4 * Bits + 4 /\ (Busy => ToLoad < toSync) /\ ~Moves
    BY <1>2, <1>6 DEF Follows
  <2>2. ToCopy' >= 4 * Bits + 3
    BY <2>1, <1>3, <1>4
  <2>3. QED
    BY <2>1, <2>2, <1>1
<1>7. ASSUME Moves' PROVE /\ mult_temp' = amVal' * delay'.coeff /\ tap_index_reg' = Tap'
                          /\ ToCopy' >= 4 * Bits + 4 /\ (Busy' => ToLoad' < toSync')
  BY <1>2, <1>5, <1>7
<1>8. ASSUME mult_temp' # amVal' * delay'.coeff
      PROVE  ToCopy' >= 4 * Bits + 4 /\ (Busy' => ToLoad' < toSync')
  BY <1>2, <1>5, <1>8
<1>9. ASSUME tap_index_reg' # Tap' PROVE ToCopy' >= 4 * Bits + 3 /\ ~Busy'
  BY <1>2, <1>6, <1>9
<1>10. QED
  BY <1>7, <1>8, <1>9 DEF Follows

LEMMA TimelyStep ==
  ASSUME InTime, Types, Steady, OneOnItsWay, Follows, Timely, SyncStep
  PROVE  Timely'
<1> SUFFICES ASSUME Busy'
             PROVE  /\ ToLoad' < toSync' + ToCopy' * Sync
                    /\ phase_history'[tap_index_reg'] = due'
                    /\ delayed_phase_reg' # due' => toSync' < ToLoad'
  BY DEF Timely
<1>1. /\ SyncEdge /\ toSync' = Sync
      /\ ~Moves => Busy /\ ToLoad' = ToLoad - toSync
      /\ Moves => 3 * period <= ToLoad' /\ ToLoad' <= 4 * period
  BY SyncMoves
<1>2. ToCopy \in Nat /\ ToCopy' \in Nat /\ ToCopy' >= ToCopy - 1
  BY <1>1, Copying DEF Types, SyncEdge
<1>3. /\ Bits \in 1..16 /\ Sync \in Nat \ {0} /\ toSync \in Nat /\ ToLoad \in Nat
      /\ period \in Nat \ {0}
  BY Loading, PathAssumption DEF Types
<1>4. CASE ~Moves
  <2>1. Busy /\ ToLoad' = ToLoad - toSync
    BY <1>1, <1>4
  <2>2. /\ ToLoad < toSync + ToCopy * Sync
        /\ phase_history[tap_index_reg] = due /\ tap_index_reg = Tap
    BY <2>1 DEF Timely, Follows
  <2>3. ToCopy * Sync <= (ToCopy' + 1) * Sync /\ (ToCopy' + 1) * Sync = ToCopy' * Sync + Sync
    <3>1. ToCopy \in Int /\ ToCopy' \in Int /\ ToCopy' >= ToCopy - 1 /\ Sync \in Nat
      BY <1>2, <1>3
    <3>2. QED
      BY Zenon, <3>1, OneLess
  <2>4. ToCopy * Sync \in Int /\ ToCopy' * Sync \in Int
    BY <1>2, <1>3
  <2>5. ToLoad' < toSync' + ToCopy' * Sync
    BY <2>1, <2>2, <2>3, <2>4, <1>1, <1>3
  <2>6. /\ phase_history' = phase_history /\ tap_index_reg' = tap_index_reg /\ due' = due
        /\ delayed_phase_reg' = due
    BY <1>1, <1>4, <2>2 DEF SyncEdge, DelayLine, Announce
  <2>7. QED
    BY <2>2, <2>5, <2>6
<1>5. CASE Moves
  <2>1. ToCopy' >= 4 * Bits + 3
    <3>1. ToCopy >= 4 * Bits + 4
      BY <1>5 DEF Follows
    <3>2. QED
      BY <3>1, <1>2, <1>3
  <2>2. Sync < 3 * period /\ period < (Bits + 1) * Sync
    BY DEF InTime, Types, ClockTypes
  <2>3. (4 * Bits + 3) * Sync <= ToCopy' * Sync
    <3>1. 4 * Bits + 3 \in Int /\ ToCopy' \in Int /\ Sync \in Nat /\ 4 * Bits + 3 <= ToCopy'
      BY <2>1, <1>2, <1>3
    <3>2. QED
      BY Zenon, <3>1, Scaled
  <2>4. 4 * ((Bits + 1) * Sync) = (4 * Bits + 3) * Sync + Sync
    BY <1>3
  <2>5. /\ (Bits + 1) * Sync \in Int /\ (4 * Bits + 3) * Sync \in Int /\ ToCopy' * Sync \in Int
    BY <1>2, <1>3
  <2>6. 4 * period < 4 * ((Bits + 1) * Sync)
    BY <2>2, <2>5, <1>3
  <2>7. ToLoad' \in Int /\ 3 * period <= ToLoad' /\ ToLoad' <= 4 * period
    <3>1. Types'
      BY TypesStep DEF SyncStep, Next
    <3>2. toTx' \in Int /\ period' \in Int
      BY <3>1, PathAssumption DEF Types, ClockTypes
    <3>3. ToLoad' \in Int
      BY <3>2 DEF ToLoad
    <3>4. QED
      BY <3>3, <1>1, <1>5
  <2>8. ToLoad' < toSync' + ToCopy' * Sync /\ toSync' < ToLoad'
    BY <2>2, <2>3, <2>4, <2>5, <2>6, <2>7, <1>1, <1>3
  <2>9. phase_history'[tap_index_reg'] = due'
    BY <1>1, <1>5 DEF SyncEdge, Announce
  <2>10. QED
    BY <2>8, <2>9
<1>6. QED
  BY <1>4, <1>5

(* A step of txClk alone changes nothing in the sync domain. *)
LEMMA TxOnlyStep ==
  ASSUME Types, Steady, OneOnItsWay, Follows, Timely, TxOnly
  PROVE  Steady' /\ OneOnItsWay' /\ Follows' /\ Timely'
<1>1. /\ TxEdge /\ toTx < toSync /\ toSync' = toSync - toTx /\ toTx' = period /\ period' = period
      /\ UNCHANGED <<line, receiver, taps, sender>>
  <2>1. toTx \in Nat /\ toSync \in Nat
    BY Loading DEF Types
  <2>2. QED
    BY <2>1 DEF TxOnly, Passes
<1>2. /\ period \in Nat /\ Sync \in Nat /\ toSync \in Nat /\ toTx \in Nat /\ ToLoad \in Nat
  BY Loading DEF Types
<1>3. OneOnItsWay' /\ (Busy' => Busy /\ ToLoad' = ToLoad - toTx)
  BY <1>1, TxMoves DEF Types, sender
<1>4. Steady' /\ ToCopy' = ToCopy /\ Moves' = Moves /\ Tap' = Tap
  BY <1>1 DEF Steady, ToCopy, ToRise, bclkRising, Moves, Tap, line, receiver, taps
<1>5. Busy' /\ ToLoad < toSync => ToLoad' < toSync'
  BY <1>1, <1>2, <1>3
<1>6. Follows'
  BY <1>1, <1>3, <1>4, <1>5 DEF Follows, receiver, taps
<1>7. Timely'
  <2> SUFFICES ASSUME Busy'
               PROVE  /\ ToLoad' < toSync' + ToCopy' * Sync
                      /\ phase_history'[tap_index_reg'] = due'
                      /\ delayed_phase_reg' # due' => toSync' < ToLoad'
    BY DEF Timely
  <2>1. /\ ToLoad < toSync + ToCopy * Sync
        /\ phase_history[tap_index_reg] = due
        /\ delayed_phase_reg # due => toSync < ToLoad
    BY <1>3 DEF Timely
  <2>2. ToCopy \in Int /\ ToCopy * Sync \in Int
    <3>1. left \in Int /\ bitCount \in Int /\ Bits \in Int
      BY PathAssumption DEF Types, LineTypes, WordTypes
    <3>2. ToCopy \in Int
      BY <3>1 DEF ToCopy, ToRise
    <3>3. QED
      BY <3>2, <1>2
  <2>3. ToLoad' < toSync' + ToCopy' * Sync /\ (toSync < ToLoad => toSync' < ToLoad')
    BY <2>1, <2>2, <1>1, <1>2, <1>3, <1>4
  <2>4. QED
    BY <2>1, <2>3, <1>1 DEF taps, sender
<1>8. QED
  BY <1>3, <1>4, <1>6, <1>7

LEMMA PInvStep == InTime /\ PInv /\ [Next]_vars => PInv'
<1> SUFFICES ASSUME InTime, PInv, [Next]_vars PROVE PInv'
  OBVIOUS
<1>1. Types /\ Steady /\ OneOnItsWay /\ Follows /\ Timely /\ Types'
  BY TypesStep DEF PInv
<1>2. CASE SyncStep
  <2>1. SyncEdge /\ OneOnItsWay'
    BY <1>1, <1>2, SyncMoves
  <2>2. Steady'
    BY <1>1, <2>1, Rises DEF Types, SyncEdge
  <2>3. QED
    BY <1>1, <1>2, <2>1, <2>2, FollowsStep, TimelyStep DEF PInv
<1>3. CASE TxOnly
  BY <1>1, <1>3, TxOnlyStep DEF PInv
<1>4. CASE UNCHANGED vars
  <2>1. /\ Steady' /\ OneOnItsWay' /\ ToCopy' = ToCopy /\ Moves' = Moves /\ Tap' = Tap
        /\ Busy' = Busy /\ ToLoad' = ToLoad
    BY <1>1, <1>4 DEF vars, clock, line, receiver, taps, sender, rf, Steady, OneOnItsWay, ToCopy,
       ToRise, bclkRising, Moves, Tap, Busy, ToLoad
  <2>2. Follows' /\ Timely'
    BY <1>1, <1>4, <2>1 DEF Follows, Timely, vars, clock, receiver, taps, sender
  <2>3. QED
    BY <1>1, <2>1, <2>2 DEF PInv
<1>5. QED
  BY <1>2, <1>3, <1>4 DEF Next, SyncStep

LEMMA PInvInit == Init => PInv
<1> SUFFICES ASSUME Init PROVE PInv
  OBVIOUS
<1>1. Types
  BY TypesInit
<1>2. pins.bclk = 0 /\ sampled.bclk = 0 /\ synced.bclk = 0 /\ bclkPrev = 0
  BY DEF Init, Low
<1>3. Steady /\ OneOnItsWay /\ ~Busy
  BY <1>2 DEF Init, Steady, OneOnItsWay, Busy
<1>4. ToCopy >= 4 * Bits + 3
  <2>1. Bits \in 1..16 /\ left \in Nat /\ bitCount = 0
    BY <1>1, PathAssumption DEF Types, LineTypes, Init
  <2>2. ToRise = left + 3
    BY <1>2 DEF ToRise, bclkRising
  <2>3. QED
    BY <2>1, <2>2 DEF ToCopy
<1>5. ~Moves /\ mult_temp = amVal * delay.coeff
  <2>1. delay.coeff \in Nat /\ amVal = 0 /\ mult_temp = 0
    BY PathAssumption DEF Init
  <2>2. mult_temp = amVal * delay.coeff
    BY <2>1
  <2>3. ~Moves
    BY DEF Init, Moves
  <2>4. QED
    BY <2>2, <2>3
<1>6. QED
  BY <1>1, <1>3, <1>4, <1>5 DEF PInv, Follows, Timely

LEMMA PInvHolds == InTime => (Spec => []PInv)
<1> SUFFICES ASSUME InTime PROVE Spec => []PInv
  OBVIOUS
<1>1. PInv /\ [Next]_vars => PInv'
  BY PInvStep
<1>2. QED
  BY <1>1, PInvInit, PTL DEF Spec

(* What a step is for the crossing: a word is offered, it comes out, or    *)
(* nothing happens; and what comes out is the word that was offered. *)
LEMMA Crosses ==
  ASSUME PInv, [Next]_vars
  PROVE  /\ [Crossing!Offer \/ Crossing!Take]_<<due, Busy, phase_rf>>
         /\ phase_rf # Torn => phase_rf' # Torn
<1>0. Types /\ OneOnItsWay /\ Follows /\ Timely /\ Types'
  BY TypesStep DEF PInv
<1>1. due \in Word /\ due' \in Word /\ due' # Torn
  BY <1>0, PathAssumption DEF Types, WordTypes
<1>2. period \in Nat /\ toSync \in Nat /\ toTx \in Nat
  BY <1>0, Loading DEF Types
<1>3. ASSUME TxEdge, phase_load_en, due' = due,
             delayed_phase_reg = due, delayed_phase_reg' = due
      PROVE  phase_rf' = due
  BY <1>3 DEF TxEdge
<1>4. TxEdge /\ ~phase_load_en => phase_rf' = phase_rf
  BY DEF TxEdge
<1>5. ASSUME Busy, ~Busy', due' = due, phase_rf' = due
      PROVE  Crossing!Take /\ phase_rf' # Torn
  BY <1>1, <1>5 DEF Crossing!Take, Busy
<1>6. CASE TxOnly
  <2>1. /\ TxEdge /\ toTx < toSync /\ toTx' = period /\ period' = period
        /\ UNCHANGED <<taps, sender>>
    BY <1>2, <1>6 DEF TxOnly, Passes
  <2>2. /\ Busy' => Busy
        /\ Busy => (~Busy' <=> phase_load_en)
        /\ phase_load_en => ToLoad = toTx
    BY <1>0, <2>1, TxMoves DEF Types, sender
  <2>3. CASE phase_load_en
    <3>1. Busy /\ ~Busy' /\ ToLoad = toTx
      BY <2>2, <2>3 DEF Busy
    <3>2. delayed_phase_reg = due
      BY <3>1, <2>1, <1>0, <1>2 DEF Timely
    <3>3. phase_rf' = due /\ due' = due
      BY <3>2, <2>1, <2>3, <1>3 DEF taps, sender
    <3>4. QED
      BY <3>1, <3>3, <1>5
  <2>4. CASE ~phase_load_en
    <3>1. phase_rf' = phase_rf /\ due' = due /\ Busy' = Busy
      BY <2>1, <2>2, <2>4, <1>4 DEF sender, Busy
    <3>2. QED
      BY <3>1
  <2>5. QED
    BY <2>3, <2>4
<1>7. CASE SyncStep
  <2>1. /\ SyncEdge
        /\ ~Moves => (Busy' => Busy)
        /\ Moves => ~Busy /\ Busy'
    BY <1>0, <1>7, SyncMoves
  <2>2. CASE Moves
    <3>1. ~Busy /\ ~phase_load_en
      BY <2>1, <2>2 DEF Busy
    <3>2. phase_rf' = phase_rf
      BY <1>7, <1>4, <3>1 DEF SyncStep, SyncOnly, Both, rf
    <3>3. Crossing!Offer
      BY <1>1, <2>1, <2>2, <3>1, <3>2 DEF Crossing!Offer, Busy
    <3>4. QED
      BY <3>2, <3>3
  <2>3. CASE ~Moves
    <3>1. due' = due /\ phase_to_rf_toggle' = phase_to_rf_toggle
      BY <2>1, <2>3 DEF SyncEdge, Announce
    <3>2. CASE SyncOnly
      BY <3>1, <3>2 DEF SyncOnly, rf, Busy
    <3>3. CASE Both
      <4>1. TxEdge /\ toTx = toSync /\ toTx' = period /\ period' = period
        BY <3>3, <1>2 DEF Both, Passes
      <4>2. /\ Busy' => Busy
            /\ Busy => (~Busy' <=> phase_load_en)
            /\ phase_load_en => ToLoad = toTx
        BY <1>0, <3>1, <4>1, TxMoves DEF Types
      <4>3. CASE phase_load_en
        <5>1. Busy /\ ~Busy' /\ ToLoad = toTx
          BY <4>2, <4>3 DEF Busy
        <5>2. delayed_phase_reg = due /\ phase_history[tap_index_reg] = due
          BY <5>1, <4>1, <1>0, <1>2 DEF Timely
        <5>3. delayed_phase_reg' = due
          BY <5>2, <2>1 DEF SyncEdge, DelayLine
        <5>4. phase_rf' = due
          BY <5>2, <5>3, <4>1, <4>3, <3>1, <1>3
        <5>5. QED
          BY <5>1, <5>4, <3>1, <1>5
      <4>4. CASE ~phase_load_en
        <5>1. phase_rf' = phase_rf /\ Busy' = Busy
          BY <4>1, <4>2, <4>4, <1>4 DEF Busy
        <5>2. QED
          BY <5>1, <3>1
      <4>5. QED
        BY <4>3, <4>4
    <3>4. QED
      BY <1>7, <3>2, <3>3 DEF SyncStep
  <2>4. QED
    BY <2>2, <2>3
<1>8. CASE UNCHANGED vars
  BY <1>8 DEF vars, sender, rf, Busy
<1>9. QED
  BY <1>6, <1>7, <1>8 DEF Next, SyncStep

(* Where txClk is neither too fast nor too slow for the sync clock, what   *)
(* it gets is never a mixture of two words.                                *)
THEOREM Whole == InTime => (Spec => []SafeCrossing)
<1> SUFFICES ASSUME InTime PROVE Spec => []SafeCrossing
  OBVIOUS
<1>1. Init => SafeCrossing
  <2>1. Init => Types /\ phase_rf = 0
    BY TypesInit DEF Init
  <2>2. 0 \in Word
    BY Span DEF Word
  <2>3. QED
    BY <2>1, <2>2, PathAssumption DEF SafeCrossing
<1>2. PInv /\ SafeCrossing /\ [Next]_vars => SafeCrossing'
  BY Crosses DEF SafeCrossing
<1>3. QED
  BY <1>1, <1>2, PInvHolds, PTL DEF Spec

(* The crossing implements its promise, step by step: from the edge that   *)
(* toggles phase_to_rf_toggle until the one that loads phase_rf a word is  *)
(* on its way, the word of the delay line comes out, and no other is       *)
(* announced meanwhile, however the edges of the two clocks fall.          *)
THEOREM Implements == InTime => (Spec => WordsCross)
<1> SUFFICES ASSUME InTime PROVE Spec => WordsCross
  OBVIOUS
<1>1. Init => Crossing!CrossInit
  <2>1. 0 \in Word
    BY Span DEF Word
  <2>2. QED
    BY <2>1 DEF Init, Crossing!CrossInit
<1>2. PInv /\ [Next]_vars => [Crossing!Offer \/ Crossing!Take]_Crossing!crossVars
  BY Crosses DEF Crossing!crossVars, Busy
<1>3. QED
  BY <1>1, <1>2, PInvHolds, PTL DEF Spec, WordsCross, Crossing!CrossSafety

-----------------------------------------------------------------------------
(* Arithmetic of a shift register. *)

(* There is one quotient and one remainder. *)
LEMMA OneRemainder ==
  ASSUME NEW c \in Nat \ {0}, NEW a \in Int, NEW e \in Int,
         NEW r \in 0..(c - 1), NEW t \in 0..(c - 1),
         c * a + r = c * e + t
  PROVE  a = e /\ r = t
<1>1. ~(a < e)
  <2>1. ASSUME a < e PROVE FALSE
    <3>1. (a + 1) * c <= e * c
      <4>1. a + 1 <= e /\ a + 1 \in Int
        BY <2>1
      <4>2. QED
        BY Zenon, <4>1, Scaled
    <3>2. QED
      BY <3>1
  <2>2. QED
    BY <2>1
<1>2. ~(e < a)
  <2>1. ASSUME e < a PROVE FALSE
    <3>1. (e + 1) * c <= a * c
      <4>1. e + 1 <= a /\ e + 1 \in Int
        BY <2>1
      <4>2. QED
        BY Zenon, <4>1, Scaled
    <3>2. QED
      BY <3>1
  <2>2. QED
    BY <2>1
<1>3. a = e
  BY <1>1, <1>2
<1>4. QED
  BY <1>3

LEMMA Division ==
  ASSUME NEW n \in Nat, NEW c \in Nat \ {0}
  PROVE  n \div c \in Nat /\ n % c \in 0..(c - 1) /\ n = c * (n \div c) + (n % c)
BY SMT

LEMMA Quotient ==
  ASSUME NEW n \in Nat, NEW c \in Nat \ {0}, NEW a \in Int, NEW r \in 0..(c - 1), n = c * a + r
  PROVE  n \div c = a /\ n % c = r
<1>1. n \div c \in Nat /\ n % c \in 0..(c - 1) /\ n = c * (n \div c) + (n % c)
  BY Zenon, Division
<1>2. n \div c \in Int /\ c * (n \div c) + (n % c) = c * a + r
  BY <1>1
<1> QED
  BY <1>1, <1>2, OneRemainder

(* A bit that comes in at the lower end. *)
LEMMA ShiftIn ==
  ASSUME NEW m \in Nat \ {0}, NEW q \in Nat \ {0}, NEW s \in Nat, NEW w \in Nat,
         s % m = w \div (2 * q)
  PROVE  ((2 * s + ((w \div q) % 2)) % ((2 * m) * q)) % (2 * m) = w \div q
<1> DEFINE d == (w \div q) % 2
           x == 2 * s + d
           N == 2 * m
           M == N * q
           e == x \div M
           f == x % M
           g == f \div N
           h == f % N
           r == s % m
           a == s \div m
           u == w \div (2 * q)
           v == w \div q
<1>1. N \in Nat \ {0} /\ M \in Nat \ {0} /\ 2 * q \in Nat \ {0}
  OBVIOUS
<1>2. v \in Nat /\ u \in Nat /\ a \in Nat /\ r \in 0..(m - 1) /\ s = m * a + r
  BY <1>1, Division
<1>3. d \in 0..1 /\ v = 2 * (v \div 2) + d /\ v \div 2 \in Nat
  BY <1>2
<1>4. v \div 2 = u
  <2> DEFINE i == w % q  j == v \div 2
  <2>1. i \in 0..(q - 1) /\ w = q * v + i
    BY Division
  <2>2. q * d \in {0, q}
    BY <1>3
  <2>3. q * d + i \in 0..(2 * q - 1)
    BY <2>1, <2>2
  <2>4. w = (2 * q) * j + (q * d + i)
    <3> HIDE DEF v, i, d, j
    <3>1. v = 2 * j + d /\ j \in Nat /\ i \in Nat /\ d \in Nat
      BY <1>3, <2>1 DEF j
    <3>2. q * v = (2 * q) * j + q * d
      BY <3>1
    <3>3. QED
      BY <2>1, <3>1, <3>2, <1>2
  <2>5. j \in Int
    BY <1>3
  <2> HIDE DEF i, j, v, d
  <2>6. j = w \div (2 * q)
    BY Zenon, <1>1, <2>3, <2>4, <2>5, Quotient
  <2>7. QED
    BY <2>6 DEF j
<1>5. x = N * a + (2 * r + d) /\ 2 * r + d \in 0..(N - 1) /\ x \in Nat
  <2> HIDE DEF a, r, d
  <2>1. a \in Int /\ r \in Int /\ d \in Int
    BY <1>2, <1>3
  <2>2. 2 * (m * a) = N * a
    BY <2>1
  <2>3. QED
    BY <1>2, <1>3, <2>1, <2>2
<1>6. x = M * e + f /\ f \in 0..(M - 1) /\ e \in Nat
  <2> HIDE DEF x, M
  <2>1. QED
    BY <1>1, <1>5, Division DEF e, f
<1>7. f = N * g + h /\ h \in 0..(N - 1) /\ g \in Nat
  <2>1. f \in Nat
    BY <1>6
  <2> HIDE DEF f, N
  <2>2. QED
    BY <1>1, <2>1, Division DEF g, h
<1>8. x = N * (q * e + g) + h
  <2> HIDE DEF x, e, f, g, h
  <2>1. M * e = N * (q * e)
    BY <1>6, <1>1
  <2>2. N * (q * e + g) = N * (q * e) + N * g
    BY <1>1, <1>6, <1>7
  <2>3. QED
    BY <1>6, <1>7, <2>1, <2>2
<1>9. h = 2 * r + d
  <2> DEFINE k == q * e + g  t == 2 * r + d
  <2>1. k \in Int /\ a \in Int
    BY <1>2, <1>6, <1>7
  <2>2. N * k + h = N * a + t
    BY <1>5, <1>8
  <2>3. t \in 0..(N - 1) /\ N \in Nat \ {0} /\ h \in 0..(N - 1)
    BY <1>1, <1>5, <1>7
  <2> HIDE DEF N, h, a, k, t
  <2>4. h = t
    BY <2>1, <2>2, <2>3, OneRemainder
  <2>5. QED
    BY <2>4 DEF t
<1>10. h = v
  <2> HIDE DEF h, r, d, v, u
  <2>1. r = u
    BY DEF r, u
  <2>2. QED
    BY <1>2, <1>3, <1>4, <1>9, <2>1
<1>11. QED
  BY Zenon, <1>10 DEF h, f, N, M, x, d, v

(* The powers of two that a word can have. *)
LEMMA Doubles == ASSUME NEW k \in 0..15 PROVE 2^(k + 1) = 2 * 2^k
<1> DEFINE D(i) == 2^(i + 1) = 2 * 2^i
<1>1. /\ D(0) /\ D(1) /\ D(2) /\ D(3) /\ D(4) /\ D(5) /\ D(6) /\ D(7)
      /\ D(8) /\ D(9) /\ D(10) /\ D(11) /\ D(12) /\ D(13) /\ D(14) /\ D(15)
  BY SMT
<1>2. k \in {0, 1, 2, 3, 4, 5, 6, 7, 8, 9, 10, 11, 12, 13, 14, 15}
  OBVIOUS
<1> HIDE DEF D
<1>3. D(k)
  BY Zenon, <1>1, <1>2
<1>4. QED
  BY <1>3 DEF D

(* A word falls into its first bits and the rest of them. *)
Splits(k) == \A n \in 0..16 : k + n <= 16 => 2^(k + n) = 2^k * 2^n

LEMMA SplitsNext == ASSUME NEW k \in 0..15, Splits(k) PROVE Splits(k + 1)
<1> SUFFICES ASSUME NEW n \in 0..16, k + 1 + n <= 16
             PROVE  2^(k + 1 + n) = 2^(k + 1) * 2^n
  BY DEF Splits
<1> DEFINE x == 2^k  y == 2^n  z == 2^(k + n)
<1>1. k + n \in 0..15 /\ k + n <= 16 /\ k + 1 + n = (k + n) + 1 /\ k \in 0..16
  OBVIOUS
<1>2. z = x * y
  BY <1>1 DEF Splits
<1>3. 2^(k + 1) = 2 * x /\ 2^((k + n) + 1) = 2 * z
  BY <1>1, Doubles
<1>4. x \in Nat /\ y \in Nat
  BY <1>1, Power
<1> HIDE DEF x, y, z
<1>5. 2 * z = (2 * x) * y
  BY <1>2, <1>4
<1>6. QED
  BY <1>1, <1>3, <1>5 DEF y

LEMMA PowerSplits == ASSUME NEW k \in 0..16 PROVE Splits(k)
<1>1. Splits(0)
  <2>1. \A n \in 0..16 : 2^n \in Nat /\ 2^(0 + n) = 2^n
    <3> SUFFICES ASSUME NEW n \in 0..16 PROVE 2^n \in Nat /\ 2^(0 + n) = 2^n
      OBVIOUS
    <3>1. 0 + n = n
      OBVIOUS
    <3>2. QED
      BY <3>1, Power
  <2>2. 2^0 = 1
    BY SMT
  <2>3. QED
    BY <2>1, <2>2 DEF Splits
<1>2. \A i \in 0..15 : Splits(i) => Splits(i + 1)
  BY SplitsNext
<1>3. Splits(1) /\ Splits(2) /\ Splits(3) /\ Splits(4)
  BY <1>1, <1>2
<1>4. Splits(5) /\ Splits(6) /\ Splits(7) /\ Splits(8)
  BY <1>2, <1>3
<1>5. Splits(9) /\ Splits(10) /\ Splits(11) /\ Splits(12)
  BY <1>2, <1>4
<1>6. Splits(13) /\ Splits(14) /\ Splits(15) /\ Splits(16)
  BY <1>2, <1>5
<1>7. k \in {0, 1, 2, 3, 4, 5, 6, 7, 8, 9, 10, 11, 12, 13, 14, 15, 16}
  OBVIOUS
<1>8. QED
  BY Zenon, <1>1, <1>3, <1>4, <1>5, <1>6, <1>7

(* A register that ends with the first k - 1 bits of a word ends with k of *)
(* them when the next one is shifted in. *)
Bit(w, k) == (w \div 2^(Bits - k)) % 2

Ends(s, w, k) == s % 2^(k - 1) = w \div 2^(Bits - k + 1)

LEMMA BitShiftedIn ==
  ASSUME NEW w \in Word, NEW s \in Word, NEW k \in 1..Bits, Ends(s, w, k)
  PROVE  ((2 * s + Bit(w, k)) % 2^Bits) % 2^k = w \div 2^(Bits - k)
<1> DEFINE m == 2^(k - 1)  q == 2^(Bits - k)  M == 2^Bits
<1>1. Bits \in 1..16 /\ k \in 0..16 /\ k - 1 \in 0..15 /\ Bits - k \in 0..15
      /\ k - 1 \in 0..16 /\ Bits - k \in 0..16
      /\ k + (Bits - k) = Bits /\ (k - 1) + 1 = k
  BY PathAssumption
<1>2. m \in Nat \ {0} /\ q \in Nat \ {0}
  BY Zenon, <1>1, Power
<1>3. 2^k = 2 * m /\ 2^(Bits - k + 1) = 2 * q
  BY <1>1, Doubles
<1>4. M = (2 * m) * q
  <2>1. Splits(k) /\ Bits - k \in 0..16 /\ k + (Bits - k) <= 16
    BY <1>1, PowerSplits
  <2>2. 2^(k + (Bits - k)) = 2^k * 2^(Bits - k)
    BY Zenon, <2>1 DEF Splits
  <2>3. QED
    BY <1>1, <1>3, <2>2
<1>5. w \in Nat /\ s \in Nat
  BY Span DEF Word
<1>6. Bit(w, k) = (w \div q) % 2
  BY DEF Bit
<1> HIDE DEF m, q, M
<1>7. s % m = w \div (2 * q)
  BY Zenon, <1>3 DEF m, Ends
<1>8. ((2 * s + ((w \div q) % 2)) % ((2 * m) * q)) % (2 * m) = w \div q
  BY <1>2, <1>5, <1>7, ShiftIn
<1>9. QED
  BY Zenon, <1>3, <1>4, <1>6, <1>8 DEF q, M

(* No bit has come in, one more has, or all have. *)
LEMMA EndsMoves ==
  ASSUME NEW w \in Word, NEW s \in Word
  PROVE  /\ Ends(s, w, 1)
         /\ \A k \in 1..Bits : Ends(s, w, k) => k = Bits \/ Ends((2 * s + Bit(w, k)) % 2^Bits, w, k + 1)
         /\ Ends(s, w, Bits) => (2 * s + Bit(w, Bits)) % 2^Bits = w
<1>1. Bits \in 1..16 /\ 2^Bits \in Nat \ {0} /\ w \in 0..(2^Bits - 1) /\ s \in Nat
  BY Span DEF Word
<1>2. Ends(s, w, 1)
  <2>1. 2^(1 - 1) = 1
    BY SMT
  <2>2. Bits - 1 + 1 = Bits
    BY <1>1
  <2> DEFINE M == 2^Bits
  <2>3. M \in Nat \ {0} /\ w \in 0..(M - 1)
    BY <1>1
  <2> HIDE DEF M
  <2>4. w \div M = 0
    BY <2>3
  <2>5. s % 1 = 0
    BY <1>1
  <2>6. s % 2^(1 - 1) = w \div 2^(Bits - 1 + 1)
    BY Zenon, <2>1, <2>2, <2>4, <2>5 DEF M
  <2>7. QED
    BY Zenon, <2>6 DEF Ends
<1>3. ASSUME NEW k \in 1..Bits, Ends(s, w, k), k # Bits
      PROVE  Ends((2 * s + Bit(w, k)) % 2^Bits, w, k + 1)
  <2>1. (k + 1) - 1 = k /\ Bits - (k + 1) + 1 = Bits - k
    BY <1>1
  <2>2. ((2 * s + Bit(w, k)) % 2^Bits) % 2^k = w \div 2^(Bits - k)
    BY Zenon, <1>3, BitShiftedIn
  <2>3. QED
    BY Zenon, <2>1, <2>2 DEF Ends
<1>4. ASSUME Ends(s, w, Bits) PROVE (2 * s + Bit(w, Bits)) % 2^Bits = w
  <2> DEFINE M == 2^Bits  x == 2 * s + Bit(w, Bits)  y == x % M
  <2>1. Bits \in 1..Bits /\ Bits - Bits = 0
    BY <1>1
  <2>2. y % M = w \div 2^(Bits - Bits)
    BY Zenon, <1>4, <2>1, BitShiftedIn
  <2>3. 2^0 = 1
    BY SMT
  <2>4. x \in Nat
    <3>1. Bits - Bits \in 0..16
      BY <2>1
    <3>2. 2^(Bits - Bits) \in Nat \ {0}
      BY Zenon, <3>1, Power
    <3>3. w \in Nat
      BY <1>1
    <3>4. w \div 2^(Bits - Bits) \in Nat
      BY Zenon, <3>2, <3>3, DivRange
    <3>5. Bit(w, Bits) \in Nat
      BY <3>4 DEF Bit
    <3>6. QED
      BY <1>1, <3>5
  <2>5. M \in Nat \ {0}
    BY <1>1
  <2> HIDE DEF x, M
  <2>6. y \in 0..(M - 1)
    BY <2>4, <2>5, ModRange
  <2> HIDE DEF y
  <2>7. y % M = y
    BY <2>5, <2>6
  <2>8. w \div 1 = w
    BY <1>1
  <2>9. y = w
    BY Zenon, <2>1, <2>2, <2>3, <2>7, <2>8
  <2>10. QED
    BY Zenon, <2>9 DEF y, x, M
<1>5. QED
  BY Zenon, <1>2, <1>3, <1>4

-----------------------------------------------------------------------------
(* The receiver.  Where a rise of BCLK is on its way to it, Place is the   *)
(* bit clock of the slot that this rise is, and else that of the next      *)
(* rise; the line may have gone on to the next bit, or to the next slot.   *)

FitsCounter == \A n \in Slots : n <= 64 + Bits

Rising == \/ bclkRising
          \/ sampled.bclk = 1 /\ synced.bclk = 0
          \/ pins.bclk = 1 /\ sampled.bclk = 0
Fallen == Rising /\ pins.bclk = 0
Passed == Fallen /\ pos = 0
Place  == IF Passed THEN slot - 1 ELSE IF Fallen THEN pos - 1
          ELSE IF pins.bclk = 1 /\ ~Rising THEN pos + 1 ELSE pos

(* SYNC has come through the synchronizer. *)
Arrived == pins.sync = sampled.sync /\ sampled.sync = synced.sync /\ synced.sync = lastSync

(* A change of SYNC goes with the fall of BCLK that begins a slot. *)
Syncs ==
  /\ framed \in BOOLEAN
  /\ pos = 0 => /\ pins.sync # sampled.sync <=> pins.bclk = 0 /\ sampled.bclk = 1
                /\ sampled.sync # synced.sync <=> sampled.bclk = 0 /\ synced.bclk = 1
                /\ synced.sync # lastSync <=> synced.bclk = 0 /\ bclkPrev = 1
  /\ pos > 0 /\ framed => Arrived
  /\ pos > 0 /\ ~framed =>
       /\ pins.sync # sampled.sync => left > 1 /\ pins.bclk = 0
       /\ sampled.sync # synced.sync => pins.bclk = 0
       /\ ~Arrived => sampled.bclk = 0 /\ synced.bclk = 0 /\ bclkPrev = 0

(* The bit counter is the place, until a slot passes it by. *)
Counted ==
  /\ framed /\ (pos > 0 \/ Passed) => bitCount = Place % 64
  /\ pos = 0 /\ Arrived => bitCount = Place

(* A word is owed while its last rise is on its way. *)
Owing ==
  /\ framed /\ Rising /\ Place = Bits =>
       owed \in [sync : {0, 1}, word : Words] /\ owed.sync = lastSync /\ (~Passed => owed.word = word)
  /\ owed # None => framed /\ Rising /\ Place = Bits

(* The data change with the falls of BCLK. *)
DataSteady ==
  /\ framed /\ pos \in 1..Bits => pins.data = Bit(word, pos)
  /\ pins.bclk = 1 \/ sampled.bclk = 0 => pins.data = sampled.data
  /\ sampled.bclk = 1 \/ synced.bclk = 0 => sampled.data = synced.data
  /\ framed /\ Fallen /\ ~Passed /\ Place \in 1..Bits => synced.data = Bit(word, Place)

(* The shift register ends with the bits that have come. *)
Gathered ==
  /\ framed /\ ~Passed /\ Place \in 1..Bits => Ends(shifterR, word, Place)
  /\ framed /\ Passed /\ Place = Bits => Shifted = owed.word

(* What an edge of the sync clock does to the line. *)
LineHolds == left > 1 /\ left' = left - 1 /\ pins' = pins /\ pos' = pos /\ word' = word
LineRises == /\ left = 1 /\ pins.bclk = 0 /\ pos' = pos /\ word' = word
             /\ pins'.bclk = 1 /\ pins'.sync = pins.sync /\ pins'.data = pins.data
LineFalls == /\ left = 1 /\ pins.bclk = 1 /\ pos < slot - 1 /\ pos' = pos + 1 /\ word' = word
             /\ pins'.bclk = 0 /\ pins'.sync = pins.sync
             /\ pos' <= Bits => pins'.data = Bit(word, pos')
SlotEnds  == /\ left = 1 /\ pins.bclk = 1 /\ pos = slot - 1 /\ pos' = 0
             /\ pins'.bclk = 0 /\ pins'.sync = 1 - pins.sync

LEMMA LineMoves ==
  ASSUME LineTypes, Line
  PROVE  /\ slot' = slot /\ slot \in Nat /\ slot > Bits /\ Bits \in 1..16
         /\ pos \in Nat /\ pos < slot /\ left \in Nat \ {0} /\ left' \in Nat \ {0}
         /\ left = 1 => left' > 1
         /\ LineHolds \/ LineRises \/ LineFalls \/ SlotEnds
<1>1. slot' = slot /\ slot \in Nat /\ slot > Bits /\ Bits \in 1..16
  <2>1. \A n \in Slots : n \in Nat /\ n > Bits
    BY PathAssumption
  <2>2. QED
    BY <2>1, PathAssumption DEF Line, LineTypes
<1>2. pos \in Nat /\ pos < slot /\ left \in Nat \ {0}
  BY <1>1 DEF LineTypes
<1>3. \A h \in Halves : h \in Nat /\ h > 1
  BY PathAssumption
<1>4. left' \in Nat \ {0} /\ (left = 1 => left' > 1)
  BY <1>2, <1>3 DEF Line
<1>5. CASE left > 1 /\ left' = left - 1 /\ UNCHANGED <<pins, pos, word>>
  <2>1. pins' = pins /\ pos' = pos /\ word' = word
    BY <1>5
  <2>2. LineHolds
    BY Zenon, <1>5, <2>1 DEF LineHolds
  <2>3. QED
    BY Zenon, <1>1, <1>2, <1>4, <2>2
<1>6. CASE left = 1 /\ IF pins.bclk = 1 THEN NextBit \/ NextSlot ELSE Rise
  <2>1. pins \in Pins /\ pins.bclk \in {0, 1}
    BY DEF LineTypes, Pins
  <2>2. ASSUME NextBit, pins.bclk = 1 PROVE LineFalls
    <3> DEFINE bit == IF pos' > Bits THEN 0 ELSE (word \div 2^(Bits - pos')) % 2
    <3>1. pins' = [pins EXCEPT !.bclk = 0, !.data = bit]
      BY <2>2 DEF NextBit, bit
    <3>2. pos' <= Bits => bit = Bit(word, pos')
      <4>1. pos' \in Nat /\ Bits \in Nat
        BY <1>1, <1>2, <2>2 DEF NextBit
      <4>2. pos' <= Bits => ~(pos' > Bits)
        BY <4>1
      <4>3. QED
        BY <4>2 DEF Bit, bit
    <3> HIDE DEF bit
    <3>3. pins'.bclk = 0 /\ pins'.sync = pins.sync /\ pins'.data = bit
      BY <2>1, <3>1 DEF Pins
    <3>4. pos < slot - 1 /\ pos' = pos + 1 /\ word' = word
      BY <2>2 DEF NextBit
    <3>5. QED
      BY <1>6, <2>2, <3>2, <3>3, <3>4 DEF LineFalls
  <2>3. ASSUME NextSlot, pins.bclk = 1 PROVE SlotEnds
    BY <1>6, <2>1, <2>3 DEF NextSlot, SlotEnds
  <2>4. ASSUME Rise, pins.bclk # 1 PROVE LineRises
    BY <1>6, <2>1, <2>4 DEF Rise, LineRises, Pins
  <2>5. LineRises \/ LineFalls \/ SlotEnds
    BY Zenon, <1>6, <2>2, <2>3, <2>4
  <2>6. QED
    BY Zenon, <1>1, <1>2, <1>4, <2>5
<1>7. QED
  BY <1>1, <1>2, <1>4, <1>5, <1>6 DEF Line

(* The receiver goes on by one place when it sees BCLK rise, and passes to *)
(* the next slot with the line. *)
LEMMA PlaceMoves ==
  ASSUME LineTypes, Steady, Receive, Line
  PROVE  /\ Place \in Nat /\ Place <= slot /\ (Rising => Place < slot)
         /\ bclkRising => Rising /\ (Place' = Place + 1 \/ (Passed /\ pos' = 0) \/ SlotEnds)
         /\ bclkRising => ~Rising'
         /\ ~bclkRising => Place' = Place \/ (SlotEnds /\ ~Rising)
         /\ ~bclkRising => (Rising' <=> Rising \/ LineRises)
<1>1. /\ slot' = slot /\ slot \in Nat /\ slot > Bits /\ Bits \in 1..16
      /\ pos \in Nat /\ pos < slot /\ left \in Nat \ {0} /\ left' \in Nat \ {0}
      /\ left = 1 => left' > 1
      /\ LineHolds \/ LineRises \/ LineFalls \/ SlotEnds
  BY LineMoves
<1>2. /\ pins.bclk \in {0, 1} /\ sampled.bclk \in {0, 1} /\ synced.bclk \in {0, 1} /\ bclkPrev \in {0, 1}
      /\ sampled'.bclk = pins.bclk /\ synced'.bclk = sampled.bclk /\ bclkPrev' = synced.bclk
  BY DEF LineTypes, Pins, Receive
<1>3. Steady
  OBVIOUS
<1>4. CASE LineHolds
  BY <1>1, <1>2, <1>3, <1>4 DEF LineHolds, LineRises, SlotEnds, Steady, Place, Passed, Fallen, Rising, bclkRising
<1>5. CASE LineRises
  BY <1>1, <1>2, <1>3, <1>5 DEF LineRises, SlotEnds, Steady, Place, Passed, Fallen, Rising, bclkRising
<1>6. CASE LineFalls
  BY <1>1, <1>2, <1>3, <1>6 DEF LineFalls, LineRises, SlotEnds, Steady, Place, Passed, Fallen, Rising, bclkRising
<1>7. CASE SlotEnds
  BY <1>1, <1>2, <1>3, <1>7 DEF SlotEnds, LineRises, Steady, Place, Passed, Fallen, Rising, bclkRising
<1>8. QED
  BY <1>1, <1>4, <1>5, <1>6, <1>7

(* The history of the line. *)
LEMMA HistoryMoves ==
  ASSUME LineTypes, framed \in BOOLEAN, Line
  PROVE  /\ framed' \in BOOLEAN
         /\ LineRises => /\ framed' <=> framed \/ pos = 0
                         /\ owed' = IF framed /\ pos = Bits THEN [sync |-> pins.sync, word |-> word]
                                    ELSE IF Copies THEN None ELSE owed
         /\ LineHolds \/ LineFalls \/ SlotEnds =>
              (framed' <=> framed) /\ owed' = IF Copies THEN None ELSE owed
<1>1. pins.bclk \in {0, 1}
  BY DEF LineTypes, Pins
<1> DEFINE rises == pins'.bclk > pins.bclk
<1>2. /\ framed' = (framed \/ (rises /\ pos = 0))
      /\ owed' = IF rises /\ framed /\ pos = Bits THEN [sync |-> pins.sync, word |-> word]
                 ELSE IF Copies THEN None ELSE owed
  BY DEF Line
<1>3. (LineRises => rises) /\ (LineHolds \/ LineFalls \/ SlotEnds => ~rises)
  BY <1>1 DEF LineRises, LineHolds, LineFalls, SlotEnds
<1> HIDE DEF rises
<1>4. QED
  BY Zenon, <1>2, <1>3

(* The levels of the bit clock, and of SYNC, in the registers they pass. *)
LEMMA LevelsMove ==
  ASSUME LineTypes, Receive
  PROVE  /\ pins.bclk \in {0, 1} /\ sampled.bclk \in {0, 1} /\ synced.bclk \in {0, 1} /\ bclkPrev \in {0, 1}
         /\ pins.sync \in {0, 1} /\ sampled.sync \in {0, 1} /\ synced.sync \in {0, 1} /\ lastSync \in {0, 1}
         /\ sampled'.bclk = pins.bclk /\ synced'.bclk = sampled.bclk /\ bclkPrev' = synced.bclk
         /\ sampled'.sync = pins.sync /\ synced'.sync = sampled.sync /\ lastSync' = synced.sync
         /\ sampled'.data = pins.data /\ synced'.data = sampled.data
BY DEF LineTypes, Pins, Receive

LEMMA SyncsNext ==
  ASSUME LineTypes, Steady, Syncs, Receive, Line
  PROVE  Syncs'
<1>1. /\ slot' = slot /\ slot \in Nat /\ slot > Bits /\ Bits \in 1..16
      /\ pos \in Nat /\ pos < slot /\ left \in Nat \ {0} /\ left' \in Nat \ {0}
      /\ left = 1 => left' > 1
      /\ LineHolds \/ LineRises \/ LineFalls \/ SlotEnds
  BY LineMoves
<1>2. framed \in BOOLEAN /\ framed' \in BOOLEAN
  BY HistoryMoves DEF Syncs
<1>3. CASE LineHolds
  <2>1. framed' <=> framed
    BY Zenon, <1>2, <1>3, HistoryMoves
  <2>2. QED
    BY <1>1, <1>2, <1>3, <2>1, LevelsMove DEF LineHolds, Syncs, Steady, Arrived
<1>4. CASE LineRises
  <2>1. framed' <=> framed \/ pos = 0
    BY Zenon, <1>2, <1>4, HistoryMoves
  <2>2. QED
    BY <1>1, <1>2, <1>4, <2>1, LevelsMove DEF LineRises, Syncs, Steady, Arrived
<1>5. CASE LineFalls
  <2>1. framed' <=> framed
    BY Zenon, <1>2, <1>5, HistoryMoves
  <2>2. QED
    BY <1>1, <1>2, <1>5, <2>1, LevelsMove DEF LineFalls, Syncs, Steady, Arrived
<1>6. CASE SlotEnds
  <2>1. framed' <=> framed
    BY Zenon, <1>2, <1>6, HistoryMoves
  <2>2. QED
    BY <1>1, <1>2, <1>6, <2>1, LevelsMove DEF SlotEnds, Syncs, Steady, Arrived
<1>7. QED
  BY Zenon, <1>1, <1>3, <1>4, <1>5, <1>6

LEMMA CountedNext ==
  ASSUME LineTypes, WordTypes, Steady, Syncs, Counted, Receive, Line
  PROVE  Counted'
<1>1. /\ slot' = slot /\ slot \in Nat /\ slot > Bits /\ Bits \in 1..16
      /\ pos \in Nat /\ pos < slot /\ left \in Nat \ {0} /\ left' \in Nat \ {0}
      /\ left = 1 => left' > 1
      /\ LineHolds \/ LineRises \/ LineFalls \/ SlotEnds
  BY LineMoves
<1>2. framed \in BOOLEAN /\ framed' \in BOOLEAN
  BY HistoryMoves DEF Syncs
<1>3. /\ bitCount' = IF syncChanged THEN 0 ELSE IF bclkRising THEN (bitCount + 1) % 64 ELSE bitCount
      /\ bitCount \in 0..63
  BY DEF Receive, WordTypes
<1>4. CASE LineHolds
  <2>1. framed' <=> framed
    BY Zenon, <1>2, <1>4, HistoryMoves
  <2>2. QED
    BY <1>1, <1>2, <1>3, <1>4, <2>1, LevelsMove DEF LineHolds, Counted, Syncs, Steady, Arrived, Place, Passed, Fallen, Rising, bclkRising, syncChanged
<1>5. CASE LineRises
  <2>1. framed' <=> framed \/ pos = 0
    BY Zenon, <1>2, <1>5, HistoryMoves
  <2>2. QED
    BY <1>1, <1>2, <1>3, <1>5, <2>1, LevelsMove DEF LineRises, Counted, Syncs, Steady, Arrived, Place, Passed, Fallen, Rising, bclkRising, syncChanged
<1>6. CASE LineFalls
  <2>1. framed' <=> framed
    BY Zenon, <1>2, <1>6, HistoryMoves
  <2>2. QED
    BY <1>1, <1>2, <1>3, <1>6, <2>1, LevelsMove DEF LineFalls, Counted, Syncs, Steady, Arrived, Place, Passed, Fallen, Rising, bclkRising, syncChanged
<1>7. CASE SlotEnds
  <2>1. framed' <=> framed
    BY Zenon, <1>2, <1>7, HistoryMoves
  <2>2. QED
    BY <1>1, <1>2, <1>3, <1>7, <2>1, LevelsMove DEF SlotEnds, Counted, Syncs, Steady, Arrived, Place, Passed, Fallen, Rising, bclkRising, syncChanged
<1>8. QED
  BY Zenon, <1>1, <1>4, <1>5, <1>6, <1>7

(* A word is copied as its last rise is seen: the counter does not come    *)
(* round to it again.                                                      *)
LEMMA CopiesAtBits ==
  ASSUME FitsCounter, LineTypes, WordTypes, Steady, Syncs, Counted, framed
  PROVE  Copies <=> bclkRising /\ Place = Bits
<1>1. slot \in Nat /\ slot > Bits /\ slot <= 64 + Bits /\ Bits \in 1..16 /\ pos \in Nat /\ pos < slot
  <2>1. \A n \in Slots : n \in Nat /\ n > Bits /\ n <= 64 + Bits
    BY PathAssumption DEF FitsCounter
  <2>2. QED
    BY <2>1, PathAssumption DEF LineTypes
<1>2. /\ pins.bclk \in {0, 1} /\ sampled.bclk \in {0, 1} /\ synced.bclk \in {0, 1} /\ bclkPrev \in {0, 1}
      /\ bitCount \in 0..63
  BY DEF LineTypes, WordTypes, Pins
<1>3. bclkRising => Rising /\ Place \in Nat /\ Place < slot /\ bitCount = Place % 64 /\ ~syncChanged
  BY <1>1, <1>2 DEF Counted, Syncs, Steady, Arrived, Place, Passed, Fallen, Rising, bclkRising, syncChanged
<1>4. Copies <=> bclkRising /\ ~syncChanged /\ bitCount = Bits
  BY DEF Copies
<1> HIDE DEF FitsCounter
<1>5. bclkRising => (bitCount = Bits <=> Place = Bits)
  BY <1>1, <1>3
<1>6. QED
  BY <1>3, <1>4, <1>5

LEMMA OwingNext ==
  ASSUME FitsCounter, LineTypes, WordTypes, Steady, Syncs, Counted, Owing, Receive, Line
  PROVE  Owing'
<1>1. /\ slot' = slot /\ slot \in Nat /\ slot > Bits /\ Bits \in 1..16
      /\ pos \in Nat /\ pos < slot /\ left \in Nat \ {0} /\ left' \in Nat \ {0}
      /\ left = 1 => left' > 1
      /\ LineHolds \/ LineRises \/ LineFalls \/ SlotEnds
  BY LineMoves
<1>2. framed \in BOOLEAN /\ framed' \in BOOLEAN
  BY HistoryMoves DEF Syncs
<1>3. (framed => (Copies <=> bclkRising /\ Place = Bits)) /\ (~framed => owed = None)
  BY CopiesAtBits DEF Owing
<1>a. lastSync \in {0, 1} /\ word \in Words /\ lastSync' = synced.sync
  BY DEF LineTypes, Receive
<1>4. CASE LineHolds
  <2>1. (framed' <=> framed) /\ owed' = IF Copies THEN None ELSE owed
    BY Zenon, <1>2, <1>4, HistoryMoves
  <2>2. QED
    BY <1>1, <1>2, <1>3, <1>a, <1>4, <2>1, LevelsMove DEF LineHolds, Owing, Syncs, Steady, Arrived, Place, Passed, Fallen, Rising, bclkRising
<1>5. CASE LineRises
  <2>1. (framed' <=> framed \/ pos = 0) /\ owed' = IF framed /\ pos = Bits
              THEN [sync |-> pins.sync, word |-> word] ELSE IF Copies THEN None ELSE owed
    BY Zenon, <1>2, <1>5, HistoryMoves
  <2>2. QED
    BY <1>1, <1>2, <1>3, <1>a, <1>5, <2>1, LevelsMove DEF LineRises, Owing, Syncs, Steady, Arrived, Place, Passed, Fallen, Rising, bclkRising
<1>6. CASE LineFalls
  <2>1. (framed' <=> framed) /\ owed' = IF Copies THEN None ELSE owed
    BY Zenon, <1>2, <1>6, HistoryMoves
  <2>2. QED
    BY <1>1, <1>2, <1>3, <1>a, <1>6, <2>1, LevelsMove DEF LineFalls, Owing, Syncs, Steady, Arrived, Place, Passed, Fallen, Rising, bclkRising
<1>7. CASE SlotEnds
  <2>1. (framed' <=> framed) /\ owed' = IF Copies THEN None ELSE owed
    BY Zenon, <1>2, <1>7, HistoryMoves
  <2>2. QED
    BY <1>1, <1>2, <1>3, <1>a, <1>7, <2>1, LevelsMove DEF SlotEnds, Owing, Syncs, Steady, Arrived, Place, Passed, Fallen, Rising, bclkRising
<1>8. QED
  BY Zenon, <1>1, <1>4, <1>5, <1>6, <1>7

LEMMA DataNext ==
  ASSUME LineTypes, Steady, Syncs, DataSteady, Receive, Line
  PROVE  DataSteady'
<1>1. /\ slot' = slot /\ slot \in Nat /\ slot > Bits /\ Bits \in 1..16
      /\ pos \in Nat /\ pos < slot /\ left \in Nat \ {0} /\ left' \in Nat \ {0}
      /\ left = 1 => left' > 1
      /\ LineHolds \/ LineRises \/ LineFalls \/ SlotEnds
  BY LineMoves
<1>2. framed \in BOOLEAN /\ framed' \in BOOLEAN
  BY HistoryMoves DEF Syncs
<1>4. CASE LineHolds
  <2>1. framed' <=> framed
    BY Zenon, <1>2, <1>4, HistoryMoves
  <2>2. QED
    BY <1>1, <1>2, <1>4, <2>1, LevelsMove DEF LineHolds, DataSteady, Steady, Place, Passed, Fallen, Rising, bclkRising
<1>5. CASE LineRises
  <2>1. framed' <=> framed \/ pos = 0
    BY Zenon, <1>2, <1>5, HistoryMoves
  <2>2. QED
    BY <1>1, <1>2, <1>5, <2>1, LevelsMove DEF LineRises, DataSteady, Steady, Place, Passed, Fallen, Rising, bclkRising
<1>6. CASE LineFalls
  <2>1. framed' <=> framed
    BY Zenon, <1>2, <1>6, HistoryMoves
  <2>2. QED
    BY <1>1, <1>2, <1>6, <2>1, LevelsMove DEF LineFalls, DataSteady, Steady, Place, Passed, Fallen, Rising, bclkRising
<1>7. CASE SlotEnds
  <2>1. framed' <=> framed
    BY Zenon, <1>2, <1>7, HistoryMoves
  <2>2. QED
    BY <1>1, <1>2, <1>7, <2>1, LevelsMove DEF SlotEnds, DataSteady, Steady, Place, Passed, Fallen, Rising, bclkRising
<1>8. QED
  BY Zenon, <1>1, <1>4, <1>5, <1>6, <1>7

(* The data that is sampled at a rise. *)
LEMMA DataAtRise ==
  ASSUME LineTypes, Steady, Syncs, DataSteady, framed, bclkRising, ~Passed, Place \in 1..Bits
  PROVE  synced.data = Bit(word, Place)
<1>1. /\ pins.bclk \in {0, 1} /\ sampled.bclk \in {0, 1} /\ synced.bclk \in {0, 1} /\ bclkPrev \in {0, 1}
  BY DEF LineTypes, Pins
<1>2. CASE Fallen
  BY Zenon, <1>2 DEF DataSteady
<1>3. CASE ~Fallen
  <2>1. synced.bclk = 1 /\ pins.bclk = 1 /\ sampled.bclk = 1 /\ Place = pos
    BY <1>1, <1>3 DEF Steady, Place, Passed, Fallen, Rising, bclkRising
  <2>2. QED
    BY <2>1 DEF DataSteady
<1>4. QED
  BY <1>2, <1>3

(* A word that is copied is the word that is owed. *)
LEMMA WordComplete ==
  ASSUME FitsCounter, LineTypes, WordTypes, Steady, Syncs, Counted, Owing, DataSteady, Gathered,
         framed, Copies
  PROVE  /\ owed \in [sync : {0, 1}, word : Words] /\ owed.sync = lastSync
         /\ owed.word = Shifted
<1>1. bclkRising /\ Rising /\ Place = Bits
  BY CopiesAtBits DEF Rising
<1>2. /\ owed \in [sync : {0, 1}, word : Words] /\ owed.sync = lastSync
      /\ ~Passed => owed.word = word
  BY Zenon, <1>1 DEF Owing
<1>3. CASE Passed
  BY Zenon, <1>1, <1>2, <1>3 DEF Gathered
<1>4. CASE ~Passed
  <2>1. Bits \in 1..Bits /\ Place \in 1..Bits
    BY <1>1, Span
  <2>2. synced.data = Bit(word, Bits)
    BY Zenon, <1>1, <1>4, <2>1, DataAtRise
  <2>3. Ends(shifterR, word, Bits)
    BY Zenon, <1>1, <1>4, <2>1 DEF Gathered
  <2>4. word \in Word /\ shifterR \in Word
    BY PathAssumption DEF LineTypes, WordTypes
  <2>5. (2 * shifterR + Bit(word, Bits)) % 2^Bits = word
    BY Zenon, <2>3, <2>4, EndsMoves
  <2>6. Shifted = word
    BY Zenon, <2>2, <2>5 DEF Shifted
  <2>7. QED
    BY Zenon, <1>2, <1>4, <2>6
<1>5. QED
  BY Zenon, <1>3, <1>4

LEMMA GatheredNext ==
  ASSUME FitsCounter, LineTypes, WordTypes, Steady, Syncs, Counted, Owing, DataSteady, Gathered,
         Receive, Line
  PROVE  Gathered'
<1>1. /\ slot' = slot /\ slot \in Nat /\ slot > Bits /\ Bits \in 1..16
      /\ pos \in Nat /\ pos < slot /\ left \in Nat \ {0} /\ left' \in Nat \ {0}
      /\ left = 1 => left' > 1
      /\ LineHolds \/ LineRises \/ LineFalls \/ SlotEnds
  BY LineMoves
<1>2. framed \in BOOLEAN /\ framed' \in BOOLEAN
  BY HistoryMoves DEF Syncs
<1>3. /\ shifterR' = IF bclkRising /\ ~syncChanged /\ bitCount \in 1..Bits THEN Shifted ELSE shifterR
      /\ bitCount \in 0..63 /\ shifterR \in Word /\ word \in Word
  BY PathAssumption DEF Receive, LineTypes, WordTypes
<1>4. /\ framed' <=> framed \/ (LineRises /\ pos = 0)
      /\ ~LineRises => owed' = IF Copies THEN None ELSE owed
  <2>1. LineRises => (framed' <=> framed \/ pos = 0)
    BY Zenon, <1>2, HistoryMoves
  <2>2. LineHolds \/ LineFalls \/ SlotEnds => (framed' <=> framed) /\ owed' = IF Copies THEN None ELSE owed
    BY Zenon, <1>2, HistoryMoves
  <2>3. ~(LineRises /\ (LineHolds \/ LineFalls \/ SlotEnds))
    BY DEF LineRises, LineHolds, LineFalls, SlotEnds
  <2>4. QED
    BY Zenon, <1>1, <2>1, <2>2, <2>3
<1>5. CASE SlotEnds
  <2>1. ~Passed' => Place' = 0
    BY <1>1, <1>5, LevelsMove DEF SlotEnds, Place, Fallen, Passed, Rising, bclkRising
  <2>2. ASSUME framed', Passed', Place' = Bits PROVE Shifted' = owed'.word
    <3>1. framed /\ ~LineRises
      BY <1>4, <1>5, <2>2 DEF SlotEnds, LineRises
    <3>2. pos = slot - 1 /\ Place = pos /\ pos = Bits /\ Rising /\ ~Passed /\ ~bclkRising
      BY <1>1, <1>5, <2>2, LevelsMove DEF SlotEnds, Steady, Place, Fallen, Passed, Rising, bclkRising
    <3>3. synced'.data = Bit(word, Bits)
      <4> pos \in 1..Bits
        BY <1>1, <3>2
      <4>1. pins.data = Bit(word, pos)
        BY Zenon, <3>1 DEF DataSteady
      <4>2. pins.data = sampled.data
        BY <1>5 DEF SlotEnds, DataSteady
      <4>3. QED
        BY <3>2, <4>1, <4>2, LevelsMove
    <3>4. shifterR' = shifterR /\ owed' = owed
      BY <1>3, <1>4, <3>1, <3>2 DEF Copies
    <3>5. owed.word = word
      BY Zenon, <3>1, <3>2 DEF Owing
    <3>6. Place \in 1..Bits /\ Place = Bits
      BY <1>1, <3>2
    <3>7. Ends(shifterR, word, Bits)
      BY Zenon, <3>1, <3>2, <3>6 DEF Gathered
    <3>8. (2 * shifterR + Bit(word, Bits)) % 2^Bits = word
      BY Zenon, <1>3, <3>7, EndsMoves
    <3>9. Shifted' = word
      BY Zenon, <3>3, <3>4, <3>8 DEF Shifted
    <3>10. QED
      BY Zenon, <3>4, <3>5, <3>9
  <2>3. ~Passed' => Place' \notin 1..Bits
    BY <2>1
  <2>4. QED
    BY Zenon, <2>2, <2>3 DEF Gathered
<1>6. CASE ~SlotEnds
  <2>1. word' = word
    BY <1>1, <1>6 DEF LineHolds, LineRises, LineFalls
  <2>2. ~Passed'
    <3>1. CASE LineHolds
      BY <1>1, <3>1, LevelsMove DEF LineHolds, Steady, Fallen, Passed, Rising, bclkRising
    <3>2. CASE LineRises
      BY <1>1, <3>2, LevelsMove DEF LineRises, Steady, Fallen, Passed, Rising, bclkRising
    <3>3. CASE LineFalls
      BY <1>1, <3>3, LevelsMove DEF LineFalls, Steady, Fallen, Passed, Rising, bclkRising
    <3>4. QED
      BY Zenon, <1>1, <1>6, <3>1, <3>2, <3>3
  <2>3. ASSUME framed', Place' \in 1..Bits PROVE Ends(shifterR', word, Place')
    <3>1. /\ Place \in Nat /\ (Rising => Place < slot)
          /\ bclkRising => Rising /\ (Place' = Place + 1 \/ (Passed /\ pos' = 0))
          /\ ~bclkRising => Place' = Place
      BY Zenon, <1>6, PlaceMoves
    <3>2. framed
      <4>1. ASSUME LineRises, pos = 0 PROVE Place' = 0
        BY <1>1, <4>1, LevelsMove DEF LineRises, Place, Fallen, Passed, Rising, bclkRising
      <4>2. Place' # 0
        BY <2>3
      <4>3. QED
        BY Zenon, <1>4, <2>3, <4>1, <4>2
    <3>3. CASE bclkRising
      <4>1. Place' = Place + 1 /\ ~Passed /\ bitCount = Place % 64 /\ ~syncChanged
        <5>1. Passed => Place' = 0
          BY <1>1, <1>6, <3>3, LevelsMove DEF LineHolds, LineRises, LineFalls, Steady, Place, Fallen, Passed, Rising, bclkRising
        <5>2. QED
          BY <1>1, <2>3, <3>1, <3>2, <3>3, <5>1, LevelsMove
             DEF Counted, Syncs, Steady, Arrived, Place, Passed, Fallen, Rising, bclkRising, syncChanged
      <4>2. Place \in 0..(Bits - 1) /\ bitCount = Place
        BY <1>1, <2>3, <3>1, <4>1
      <4>3. CASE Place = 0
        <5>1. shifterR' = shifterR /\ Place' = 1
          BY <1>3, <4>1, <4>2, <4>3
        <5>2. QED
          BY Zenon, <1>3, <5>1, EndsMoves
      <4>4. CASE Place # 0
        <5>1. Place \in 1..Bits /\ bitCount \in 1..Bits /\ Place # Bits
          BY <1>1, <4>2, <4>4
        <5>2. shifterR' = Shifted
          BY Zenon, <1>3, <3>3, <4>1, <5>1
        <5>3. synced.data = Bit(word, Place)
          BY Zenon, <3>2, <3>3, <4>1, <5>1, DataAtRise
        <5>4. Ends(shifterR, word, Place)
          BY Zenon, <3>2, <4>1, <5>1 DEF Gathered
        <5>5. Ends((2 * shifterR + Bit(word, Place)) % 2^Bits, word, Place + 1)
          BY Zenon, <1>3, <5>1, <5>4, EndsMoves
        <5>6. QED
          BY Zenon, <4>1, <5>2, <5>3, <5>5 DEF Shifted
      <4>5. QED
        BY Zenon, <4>3, <4>4
    <3>4. CASE ~bclkRising
      <4>1. Place' = Place /\ ~Passed /\ shifterR' = shifterR
        <5>1. Passed => bclkRising
          BY LevelsMove DEF Steady, Fallen, Passed, Rising, bclkRising
        <5>2. QED
          BY Zenon, <1>3, <3>1, <3>4, <5>1
      <4>2. QED
        BY Zenon, <2>3, <3>2, <4>1 DEF Gathered
    <3>5. QED
      BY Zenon, <3>3, <3>4
  <2>4. QED
    BY Zenon, <2>1, <2>2, <2>3 DEF Gathered
<1>7. QED
  BY Zenon, <1>5, <1>6

RInv == Types /\ Steady /\ Syncs /\ Counted /\ Owing /\ DataSteady /\ Gathered

LEMMA RInvInit == Init => RInv
<1> SUFFICES ASSUME Init PROVE RInv
  OBVIOUS
<1>1. Types
  BY TypesInit
<1>2. /\ pins.bclk = 0 /\ pins.data = 0 /\ sampled = Low /\ synced = Low /\ bclkPrev = 0 /\ lastSync = 0
      /\ framed = FALSE /\ owed = None
  BY DEF Init
<1>3. pos \in Nat /\ pos > 0 /\ left > 1
  <2>1. slot \in Nat /\ left > 1
    BY PathAssumption DEF Init
  <2>2. QED
    BY <2>1 DEF Init
<1>4. ~Rising /\ Place = pos
  BY <1>2 DEF Rising, Fallen, Passed, Place, bclkRising, Low
<1>5. Steady /\ Syncs
  <2>1. /\ sampled.bclk = 0 /\ synced.bclk = 0 /\ sampled.sync = 0 /\ synced.sync = 0
    BY <1>2 DEF Low
  <2>2. Steady
    BY <1>2, <1>3, <2>1 DEF Steady
  <2>3. ~framed /\ framed \in BOOLEAN
    BY <1>2
  <2>4. Syncs
    BY <1>2, <1>3, <2>1, <2>3 DEF Syncs
  <2>5. QED
    BY <2>2, <2>4
<1>6. Counted /\ Owing /\ DataSteady /\ Gathered
  BY <1>2, <1>3, <1>4 DEF Counted, Owing, DataSteady, Gathered, Fallen, Passed, Low
<1>7. QED
  BY <1>1, <1>5, <1>6 DEF RInv

LEMMA RInvStep == FitsCounter /\ RInv /\ [Next]_vars => RInv'
<1> SUFFICES ASSUME FitsCounter, RInv, [Next]_vars PROVE RInv'
  OBVIOUS
<1>1. /\ Types /\ LineTypes /\ WordTypes
      /\ Steady /\ Syncs /\ Counted /\ Owing /\ DataSteady /\ Gathered
  BY DEF RInv, Types
<1>2. Types'
  BY Zenon, <1>1, TypesStep
<1>3. CASE Receive /\ Line
  <2>1. Steady'
    BY Zenon, <1>1, <1>3, Rises
  <2>2. Syncs' /\ Counted' /\ Owing'
    BY Zenon, <1>1, <1>3, SyncsNext, CountedNext, OwingNext
  <2>3. DataSteady' /\ Gathered'
    BY Zenon, <1>1, <1>3, DataNext, GatheredNext
  <2>4. QED
    BY Zenon, <1>2, <2>1, <2>2, <2>3 DEF RInv
<1>4. CASE UNCHANGED <<line, receiver>>
  <2>1. Rising' = Rising /\ Fallen' = Fallen /\ Passed' = Passed /\ Place' = Place /\ Arrived' = Arrived
    BY <1>4 DEF line, receiver, Rising, Fallen, Passed, Place, Arrived, bclkRising
  <2>2. Steady' /\ Syncs' /\ Counted' /\ Owing'
    BY <1>1, <1>4, <2>1 DEF line, receiver, Steady, Syncs, Counted, Owing
  <2>3. DataSteady'
    BY <1>1, <1>4, <2>1 DEF line, receiver, DataSteady, Bit
  <2>4. Gathered'
    BY <1>1, <1>4, <2>1 DEF line, receiver, Gathered, Ends, Shifted
  <2>5. QED
    BY Zenon, <1>2, <2>2, <2>3, <2>4 DEF RInv
<1>5. QED
  BY <1>3, <1>4 DEF Next, SyncOnly, TxOnly, Both, SyncEdge, vars

LEMMA RInvHolds == FitsCounter => (Spec => []RInv)
<1> SUFFICES ASSUME FitsCounter PROVE Spec => []RInv
  OBVIOUS
<1>1. RInv /\ [Next]_vars => RInv'
  BY RInvStep
<1>2. QED
  BY <1>1, RInvInit, PTL DEF Spec

(* The word that comes into a register is the one that is owed, and when   *)
(* BCLK rises for the next bit none is owed any more.                      *)
LEMMA Received ==
  ASSUME FitsCounter, RInv, [Next]_vars, framed
  PROVE  /\ phaseUpdated' # phaseUpdated => owed = [sync |-> 1, word |-> phaseVal']
         /\ amVal' # amVal => owed = [sync |-> 0, word |-> amVal']
         /\ pins'.bclk > pins.bclk => owed = None
<1>1. /\ LineTypes /\ WordTypes
      /\ Steady /\ Syncs /\ Counted /\ Owing /\ DataSteady /\ Gathered
  BY DEF RInv, Types
<1>2. CASE Receive /\ Line
  <2>1. ASSUME phaseUpdated' # phaseUpdated PROVE owed = [sync |-> 1, word |-> phaseVal']
    <3>1. Copies /\ lastSync = 1 /\ phaseVal' = Shifted
      BY <1>2, <2>1 DEF Receive
    <3>2. /\ owed \in [sync : {0, 1}, word : Words] /\ owed.sync = lastSync
          /\ owed.word = Shifted
      BY Zenon, <1>1, <3>1, WordComplete
    <3>3. QED
      BY <3>1, <3>2
  <2>2. ASSUME amVal' # amVal PROVE owed = [sync |-> 0, word |-> amVal']
    <3>1. Copies /\ lastSync = 0 /\ amVal' = Shifted
      BY <1>2, <2>2 DEF Receive
    <3>2. /\ owed \in [sync : {0, 1}, word : Words] /\ owed.sync = lastSync
          /\ owed.word = Shifted
      BY Zenon, <1>1, <3>1, WordComplete
    <3>3. QED
      BY <3>1, <3>2
  <2>3. ASSUME pins'.bclk > pins.bclk PROVE owed = None
    <3>1. LineHolds \/ LineRises \/ LineFalls \/ SlotEnds
      BY Zenon, <1>1, <1>2, LineMoves
    <3>2. pins.bclk = 0 /\ left = 1
      BY <1>1, <2>3, <3>1 DEF LineTypes, Pins, LineHolds, LineRises, LineFalls, SlotEnds
    <3>3. ~Rising
      BY <1>1, <3>2 DEF LineTypes, Pins, Steady, Rising, bclkRising
    <3>4. QED
      BY Zenon, <1>1, <3>3 DEF Owing
  <2>4. QED
    BY Zenon, <2>1, <2>2, <2>3
<1>3. CASE UNCHANGED <<line, receiver>>
  <2>1. phaseUpdated' = phaseUpdated /\ amVal' = amVal /\ pins' = pins /\ pins.bclk \in {0, 1}
    BY <1>1, <1>3 DEF line, receiver, LineTypes, Pins
  <2>2. QED
    BY <2>1
<1>4. QED
  BY <1>2, <1>3 DEF Next, SyncOnly, TxOnly, Both, SyncEdge, vars

(* The I2S receiver takes each word once and whole, into the register of   *)
(* its channel and before the next bit, however its clock and that of the  *)
(* bus lie, in slots that the six bits of bitCount can tell from a word.   *)
THEOREM EachReceived == FitsCounter => (Spec => EachWordReceived)
<1> SUFFICES ASSUME FitsCounter PROVE Spec => EachWordReceived
  OBVIOUS
<1>1. RInv /\ [Next]_vars =>
        [framed =>
           /\ phaseUpdated' # phaseUpdated => owed = [sync |-> 1, word |-> phaseVal']
           /\ amVal' # amVal => owed = [sync |-> 0, word |-> amVal']
           /\ pins'.bclk > pins.bclk => owed = None]_vars
  BY Received
<1>2. Spec => []RInv
  BY RInvHolds
<1>3. QED
  BY <1>1, <1>2, PTL DEF Spec, EachWordReceived
=============================================================================

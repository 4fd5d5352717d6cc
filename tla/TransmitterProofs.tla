------------------------- MODULE TransmitterProofs -------------------------
(***************************************************************************)
(* Proofs about Transmitter, for every set of frequencies, every number of *)
(* sweep steps and every number of failing transfers.                      *)
(***************************************************************************)
EXTENDS Transmitter, TLAPS

USE FreqsAssumption, StepsAssumption, ErrorsAssumption

(* Every frequency a thread passes to setFrequency is a natural number. *)
LEMMA ArgType ==
  ASSUME TypeOK, NEW t \in Threads
  PROVE  Arg(t) \in Nat
<1>1. \A a \in Nat, b \in Nat \ {0} : a \div b \in Nat
  OBVIOUS
<1>2. 29000 * step \in Nat
  BY DEF TypeOK
<1>3. (29000 * step) \div Steps \in Nat
  BY <1>1, <1>2
<1>4. QED
  BY <1>3 DEF Arg, SweepFreq, TypeOK

(* The word a function writes back is a word of the Control register. *)
LEMMA ModifiedType ==
  ASSUME TypeOK, NEW t \in Threads
  PROVE  Modified(t) \in Control
<1>1. Arg(t) \in Nat
  BY ArgType
<1>2. Square(Arg(t)) \in BOOLEAN /\ Square(currentFreq) \in BOOLEAN
  BY <1>1 DEF Square, TypeOK
<1>3. image[t] \in Control
  BY DEF TypeOK
<1>4. QED
  BY <1>2, <1>3 DEF Modified, Control

(* A function returns to a label of the program. *)
LEMMA ReturnType ==
  ASSUME NEW t \in Threads, NEW f
  PROVE  Return(t, f) \in Labels
  BY DEF Return, Labels, Threads, Shell, Sweep

-----------------------------------------------------------------------------
Transfer == {"select", "acquire", "clock", "deselect"}

(* The shell is on its way into a transmission. *)
Starting ==
  \/ pc[Shell] \in {"setFrequency", "i2c", "startCheck", "startMark", "startPA", "launch"}
  \/ pc[Shell] \in Transfer /\ call[Shell] \in {"setFrequency", "startTX"}

(* Where the sweep thread can be: only in setFrequency, with a step of the *)
(* sweep, and in stopTX.  TypeOK alone is not inductive: that step stays   *)
(* in its range needs to know that a sleeping sweep has a step to go from. *)
Flow ==
  /\ pc[Sweep] \in Transfer \cup {"idle", "loop", "setFrequency", "i2c", "sleep",
                                  "stopCheck", "stopMark", "stopPA"}
  /\ pc[Sweep] \in Transfer => call[Sweep] \in {"setFrequency", "stopTX"}
  /\ \/ pc[Sweep] \in {"setFrequency", "i2c", "sleep"}
     \/ pc[Sweep] \in Transfer /\ call[Sweep] = "setFrequency"
     => step <= Steps

Inv == TypeOK /\ Flow

(* Every operation keeps the state well formed. *)
LEMMA OperationInv ==
  ASSUME Inv, NEW t \in Threads, Operation(t)
  PROVE  Inv'
<1> USE DEF Inv, Threads, Shell, Sweep
<1>t. TypeOK /\ Flow
  OBVIOUS
<1>u. SUFFICES TypeOK' /\ Flow'
  OBVIOUS
<1> USE DEF device, carrier, bus, sweep, console, local, Goto, BeginTransfer, Transfer
<1>1. CASE Select(t)
  <2>1. TypeOK'
    BY <1>1, <1>t DEF Select, TypeOK, Labels, Calls
  <2>2. Flow'
    BY <1>1, <1>t DEF Select, At, Flow, TypeOK
  <2>3. QED
    BY <2>1, <2>2
<1>2. CASE Acquire(t)
  <2>1. TypeOK'
    BY <1>2, <1>t DEF Acquire, TypeOK, Labels, Calls
  <2>2. Flow'
    BY <1>2, <1>t DEF Acquire, At, Flow, TypeOK
  <2>3. QED
    BY <2>1, <2>2
<1>3. CASE Clock(t)
  <2>1. /\ UNCHANGED <<booted, initialized, transmitting, paEN, currentFreq, lpf,
                       sweepRunning, sweepContinuous, step, cmd, cmdFreq, call, dir>>
        /\ frame' \in {"high", "fresh", "used"}
        /\ lock' \in Threads \cup {Free}
        /\ pc' \in [Threads -> Labels]
    BY <1>3, <1>t DEF Clock, TypeOK, Labels
  <2>2. /\ ctrl' \in Control /\ image' \in [Threads -> Control]
        /\ ok' \in [Threads -> BOOLEAN]
        /\ errors' \in 0..MaxErrors /\ voided' \in BOOLEAN
    <3>1. CASE ClockGood(t) /\ frame = "fresh"
      BY <3>1, <1>t DEF ClockGood, TypeOK
    <3>2. CASE ClockGood(t) /\ frame # "fresh"
      BY <3>2, <1>t DEF ClockGood, TypeOK
    <3>3. CASE ClockFails(t)
      BY <3>3, <1>t DEF ClockFails, TypeOK
    <3>4. QED
      BY <1>3, <3>1, <3>2, <3>3 DEF Clock
  <2>3. TypeOK'
    BY <2>1, <2>2, <1>t DEF TypeOK
  <2>4. Flow'
    BY <1>3, <1>t DEF Clock, At, Flow, TypeOK
  <2>5. QED
    BY <2>3, <2>4
<1>4. CASE Deselect(t)
  <2>1. Modified(t) \in Control /\ Cleared \in Control
    BY <1>t, ModifiedType DEF Control, Cleared
  <2>2. Return(t, call[t]) \in Labels
    BY ReturnType
  <2>3. CASE dir[t] = "read" /\ ok[t] /\ call[t] # "status"
    <3>1. TypeOK'
      BY <1>4, <1>t, <2>1, <2>3 DEF Deselect, TypeOK, Labels
    <3>2. Flow'
      BY <1>4, <1>t, <2>3 DEF Deselect, At, Flow, TypeOK
    <3>3. QED
      BY <3>1, <3>2
  <2>4. CASE ~(dir[t] = "read" /\ ok[t] /\ call[t] # "status")
    <3>1. TypeOK'
      <4>1. /\ pc' \in [Threads -> Labels] /\ call' \in [Threads -> Calls]
            /\ dir' \in [Threads -> {"read", "write"}]
            /\ image' \in [Threads -> Control] /\ ok' \in [Threads -> BOOLEAN]
        <5>1. /\ pc' = [pc EXCEPT ![t] = Return(t, call[t])]
              /\ call' = [call EXCEPT ![t] = "none"]
              /\ dir' = [dir EXCEPT ![t] = "read"]
              /\ image' = [image EXCEPT ![t] = Cleared]
              /\ ok' = [ok EXCEPT ![t] = TRUE]
          BY <1>4, <2>4 DEF Deselect
        <5>2. pc' \in [Threads -> Labels]
          BY <5>1, <1>t, <2>2 DEF TypeOK
        <5>3. call' \in [Threads -> Calls]
          BY <5>1, <1>t DEF TypeOK, Calls
        <5>4. dir' \in [Threads -> {"read", "write"}] /\ ok' \in [Threads -> BOOLEAN]
          BY <5>1, <1>t DEF TypeOK
        <5>5. image' \in [Threads -> Control]
          BY <5>1, <1>t, <2>1 DEF TypeOK
        <5>6. QED
          BY <5>2, <5>3, <5>4, <5>5
      <4>2. /\ UNCHANGED <<device, carrier, ctrl, lock, errors, voided, sweep, console>>
            /\ frame' = "high"
        BY <1>4 DEF Deselect
      <4>3. QED
        BY <4>1, <4>2, <1>t DEF TypeOK
    <3>2. Flow'
      BY <1>4, <1>t, <2>4 DEF Deselect, At, Flow, TypeOK, Return
    <3>3. QED
      BY <3>1, <3>2
  <2>5. QED
    BY <2>3, <2>4
<1>5. CASE SetFrequency(t)
  <2>1. Arg(t) \in Nat /\ Return(t, "setFrequency") \in Labels
    BY <1>t, ArgType, ReturnType
  <2>2. TypeOK'
    BY <1>5, <1>t, <2>1 DEF SetFrequency, TypeOK, Labels
  <2>3. Flow'
    BY <1>5, <1>t DEF SetFrequency, At, Flow, TypeOK, Return
  <2>4. QED
    BY <2>2, <2>3
<1>6. CASE SynthProgrammed(t)
  <2>1. TypeOK'
    BY <1>6, <1>t DEF SynthProgrammed, TypeOK, Labels, Calls
  <2>2. Flow'
    BY <1>6, <1>t DEF SynthProgrammed, At, Flow, TypeOK
  <2>3. QED
    BY <2>1, <2>2
<1>7. CASE StartCheck(t)
  <2>1. Return(t, "startTX") \in Labels
    BY ReturnType
  <2>2. TypeOK'
    BY <1>7, <1>t, <2>1 DEF StartCheck, TypeOK, Labels
  <2>3. Flow'
    BY <1>7, <1>t DEF StartCheck, At, Flow, TypeOK
  <2>4. QED
    BY <2>2, <2>3
<1>8. CASE StartMark(t)
  <2>1. TypeOK'
    BY <1>8, <1>t DEF StartMark, TypeOK, Labels, Calls
  <2>2. Flow'
    BY <1>8, <1>t DEF StartMark, At, Flow, TypeOK
  <2>3. QED
    BY <2>1, <2>2
<1>9. CASE StartPA(t)
  <2>1. TypeOK'
    BY <1>9, <1>t DEF StartPA, TypeOK, Labels, Calls
  <2>2. Flow'
    BY <1>9, <1>t DEF StartPA, At, Flow, TypeOK
  <2>3. QED
    BY <2>1, <2>2
<1>10. CASE StopCheck(t)
  <2>1. TypeOK'
    BY <1>10, <1>t DEF StopCheck, TypeOK, Labels, Calls
  <2>2. Flow'
    BY <1>10, <1>t DEF StopCheck, At, Flow, TypeOK
  <2>3. QED
    BY <2>1, <2>2
<1>11. CASE StopMark(t)
  <2>1. TypeOK'
    BY <1>11, <1>t DEF StopMark, TypeOK, Labels, Calls
  <2>2. Flow'
    BY <1>11, <1>t DEF StopMark, At, Flow, TypeOK
  <2>3. QED
    BY <2>1, <2>2
<1>12. CASE StopPA(t)
  <2>1. TypeOK'
    BY <1>12, <1>t DEF StopPA, TypeOK, Labels, Calls
  <2>2. Flow'
    BY <1>12, <1>t DEF StopPA, At, Flow, TypeOK
  <2>3. QED
    BY <2>1, <2>2
<1>13. QED
  BY <1>1, <1>2, <1>3, <1>4, <1>5, <1>6, <1>7, <1>8, <1>9, <1>10, <1>11, <1>12
  DEF Operation

(* The state is well formed, always: every program counter is at a label,  *)
(* the errors stay within their bound, the sweep within its steps.         *)
LEMMA InvHolds == Spec => []Inv
<1> USE DEF Inv
<1>1. Init => Inv
  <2>1. Cleared \in Control
    BY DEF Control, Cleared
  <2>2. Init => TypeOK
    <3> SUFFICES ASSUME Init PROVE TypeOK
      OBVIOUS
    <3>1. 0 \in 0..MaxErrors /\ 0 \in 0..(Steps + 1)
      OBVIOUS
    <3>2. /\ pc \in [Threads -> Labels] /\ call \in [Threads -> Calls]
          /\ dir \in [Threads -> {"read", "write"}]
          /\ image \in [Threads -> Control] /\ ok \in [Threads -> BOOLEAN]
      BY <2>1 DEF Init, Labels, Calls
    <3>3. QED
      BY <3>1, <3>2 DEF Init, TypeOK, Commands
  <2>3. Init => Flow
    BY DEF Init, Flow, Threads, Transfer
  <2>4. QED
    BY <2>2, <2>3
<1>2. Inv /\ [Next]_vars => Inv'
  <2> SUFFICES ASSUME Inv, [Next]_vars PROVE Inv'
    OBVIOUS
  <2>t. TypeOK /\ Flow
    OBVIOUS
  <2>1. CASE FPGAInit
    <3>1. UNCHANGED <<carrier, frame, lock, errors, voided, sweep, console, pc, local>>
      BY <2>1 DEF FPGAInit
    <3>2. /\ booted' \in BOOLEAN /\ initialized' \in BOOLEAN /\ currentFreq' \in Nat
          /\ ctrl' \in Control /\ lpf' \subseteq {"lo", "mid", "hi"}
      BY <2>1, <2>t DEF FPGAInit, TypeOK, Control, Cleared, Band20m, Filter
    <3>3. TypeOK'
      BY <2>t, <3>1, <3>2 DEF TypeOK, carrier, sweep, console, local
    <3>4. Flow'
      BY <2>t, <3>1 DEF Flow, sweep, local
    <3>5. QED
      BY <3>3, <3>4
  <2> USE DEF device, carrier, bus, sweep, console, local, Goto, BeginTransfer, Transfer,
              Threads, Shell, Sweep
  <2>2. CASE ShellStep
    <3>1. CASE Operation(Shell)
      BY <3>1, OperationInv
    <3>2. CASE Launch
      <4>1. TypeOK'
        BY <2>t, <3>2 DEF Launch, TypeOK, Labels, Calls, Commands, Ready
      <4>2. Flow'
        BY <2>t, <3>2 DEF Launch, Flow, TypeOK, At, Ready
      <4>3. QED
        BY <4>1, <4>2
    <3>3. CASE ResetRelease
      <4>1. TypeOK'
        BY <2>t, <3>3 DEF ResetRelease, TypeOK, Labels, Calls, Commands, Ready
      <4>2. Flow'
        BY <2>t, <3>3 DEF ResetRelease, Flow, TypeOK, At, Ready
      <4>3. QED
        BY <4>1, <4>2
    <3>4. CASE PLLReset
      <4>1. TypeOK'
        BY <2>t, <3>4 DEF PLLReset, TypeOK, Labels, Calls, Commands, Ready
      <4>2. Flow'
        BY <2>t, <3>4 DEF PLLReset, Flow, TypeOK, At, Ready
      <4>3. QED
        BY <4>1, <4>2
    <3>5. QED
      BY <2>2, <3>1, <3>2, <3>3, <3>4 DEF ShellStep
  <2>3. CASE SweepStep
    <3>1. CASE Operation(Sweep)
      BY <3>1, OperationInv
    <3>2. CASE SweepLoop
      <4>1. TypeOK'
        <5>a. 0 \in 0..(Steps + 1)
          OBVIOUS
        <5>1. step' \in 0..(Steps + 1) /\ sweepRunning' \in BOOLEAN
          BY <2>t, <3>2, <5>a DEF SweepLoop, TypeOK
        <5>2. pc' \in [Threads -> Labels]
          BY <2>t, <3>2 DEF SweepLoop, TypeOK, Labels
        <5>3. QED
          BY <2>t, <3>2, <5>1, <5>2 DEF SweepLoop, TypeOK
      <4>2. Flow'
        BY <2>t, <3>2 DEF SweepLoop, Flow, TypeOK, At, Ready
      <4>3. QED
        BY <4>1, <4>2
    <3>3. CASE SweepWake
      <4>1. TypeOK'
        <5>1. step' \in 0..(Steps + 1)
          BY <2>t, <3>3 DEF SweepWake, TypeOK, Flow, At
        <5>2. pc' \in [Threads -> Labels]
          BY <2>t, <3>3 DEF SweepWake, TypeOK, Labels
        <5>3. QED
          BY <2>t, <3>3, <5>1, <5>2 DEF SweepWake, TypeOK
      <4>2. Flow'
        BY <2>t, <3>3 DEF SweepWake, Flow, TypeOK, At, Ready
      <4>3. QED
        BY <4>1, <4>2
    <3>4. QED
      BY <2>3, <3>1, <3>2, <3>3 DEF SweepStep
  <2>4. CASE Operator
    <3>1. CASE TxCommand
      <4>1. TypeOK'
        BY <2>t, <3>1 DEF TxCommand, TypeOK, Labels, Calls, Commands, Ready
      <4>2. Flow'
        BY <2>t, <3>1 DEF TxCommand, Flow, TypeOK, At, Ready
      <4>3. QED
        BY <4>1, <4>2
    <3>2. CASE StopCommand
      <4>1. TypeOK'
        BY <2>t, <3>2 DEF StopCommand, TypeOK, Labels, Calls, Commands, Ready
      <4>2. Flow'
        BY <2>t, <3>2 DEF StopCommand, Flow, TypeOK, At, Ready
      <4>3. QED
        BY <4>1, <4>2
    <3>3. CASE SweepCommand
      <4>1. TypeOK'
        BY <2>t, <3>3 DEF SweepCommand, TypeOK, Labels, Calls, Commands, Ready
      <4>2. Flow'
        BY <2>t, <3>3 DEF SweepCommand, Flow, TypeOK, At, Ready
      <4>3. QED
        BY <4>1, <4>2
    <3>4. CASE ResetCommand
      <4>1. TypeOK'
        BY <2>t, <3>4 DEF ResetCommand, TypeOK, Labels, Calls, Commands, Ready
      <4>2. Flow'
        BY <2>t, <3>4 DEF ResetCommand, Flow, TypeOK, At, Ready
      <4>3. QED
        BY <4>1, <4>2
    <3>5. CASE StatusCommand
      <4>1. TypeOK'
        BY <2>t, <3>5 DEF StatusCommand, TypeOK, Labels, Calls, Commands, Ready
      <4>2. Flow'
        BY <2>t, <3>5 DEF StatusCommand, Flow, TypeOK, At, Ready
      <4>3. QED
        BY <4>1, <4>2
    <3>6. QED
      BY <2>4, <3>1, <3>2, <3>3, <3>4, <3>5 DEF Operator
  <2>5. CASE UNCHANGED vars
    BY <2>t, <2>5 DEF vars, TypeOK, Flow
  <2>6. QED
    BY <2>1, <2>2, <2>3, <2>4, <2>5 DEF Next
<1>3. QED
  BY <1>1, <1>2, PTL DEF Spec

(* Type correctness, for every value of the constants. *)
THEOREM Typing == Spec => []TypeOK
  BY InvHolds, PTL DEF Inv
-----------------------------------------------------------------------------
(* The operator starts no transmission while a sweep thread lives: having  *)
(* given "tx stop", they wait for its "Sweep stopped.".                    *)
Disciplined == Overlap \cap {"tx", "sweep"} = {}

(* With that, a thread that switches the amplifier on has no other beside  *)
(* it, and the two stopTX that may overlap both switch it off.             *)
Switching ==
  /\ Starting => ~Live
  /\ pc[Shell] = "startMark" => ~transmitting /\ ~paEN
  /\ pc[Shell] = "startPA" => transmitting /\ ~paEN
  /\ \A t \in Threads : pc[t] = "stopPA" => ~transmitting
  /\ AmplifierFollowsFlag

LEMMA OperationSwitching ==
  ASSUME Disciplined, Inv, Switching, NEW t \in Threads, Operation(t)
  PROVE  Switching'
<1> USE DEF Threads, Shell, Sweep, carrier, local, Goto, BeginTransfer, Transfer, At, Live,
            Starting, Switching, AmplifierFollowsFlag
<1>t. /\ pc \in [Threads -> Labels] /\ call \in [Threads -> Calls]
      /\ transmitting \in BOOLEAN /\ paEN \in BOOLEAN /\ Flow
  BY DEF Inv, TypeOK
<1>1. CASE Select(t)
  BY <1>1, <1>t DEF Select
<1>2. CASE Acquire(t)
  BY <1>2, <1>t DEF Acquire
<1>3. CASE Clock(t)
  BY <1>3, <1>t DEF Clock
<1>4. CASE Deselect(t)
  BY <1>4, <1>t DEF Deselect, Return, Flow
<1>5. CASE SetFrequency(t)
  BY <1>5, <1>t DEF SetFrequency, Return, Flow
<1>6. CASE SynthProgrammed(t)
  BY <1>6, <1>t DEF SynthProgrammed, Flow
<1>7. CASE StartCheck(t)
  BY <1>7, <1>t DEF StartCheck, Return, Flow
<1>8. CASE StartMark(t)
  BY <1>8, <1>t DEF StartMark, Flow
<1>9. CASE StartPA(t)
  BY <1>9, <1>t DEF StartPA, Flow
<1>10. CASE StopCheck(t)
  BY <1>10, <1>t DEF StopCheck, Flow
<1>11. CASE StopMark(t)
  BY <1>11, <1>t DEF StopMark, Flow
<1>12. CASE StopPA(t)
  BY <1>12, <1>t DEF StopPA, Flow
<1>13. QED
  BY <1>1, <1>2, <1>3, <1>4, <1>5, <1>6, <1>7, <1>8, <1>9, <1>10, <1>11, <1>12 DEF Operation

LEMMA SwitchingHolds ==
  ASSUME Disciplined
  PROVE  Spec => [](Inv /\ Switching)
<1>1. Init => Switching
  BY DEF Init, Switching, Starting, Live, AmplifierFollowsFlag, Threads, Shell, Sweep, Transfer
<1>2. Inv /\ Switching /\ [Next]_vars => Switching'
  <2> SUFFICES ASSUME Inv, Switching, [Next]_vars PROVE Switching'
    OBVIOUS
  <2>1. CASE Operation(Shell) \/ Operation(Sweep)
    BY <2>1, OperationSwitching DEF Threads
  <2>t. /\ pc \in [Threads -> Labels] /\ call \in [Threads -> Calls]
        /\ transmitting \in BOOLEAN /\ paEN \in BOOLEAN /\ Flow
    BY DEF Inv, TypeOK
  <2> USE DEF Threads, Shell, Sweep, carrier, local, Goto, BeginTransfer, Transfer, At, Live,
              Starting, Switching, AmplifierFollowsFlag, Ready
  <2>2. CASE FPGAInit
    BY <2>2, <2>t DEF FPGAInit
  <2>3. CASE Launch
    BY <2>3, <2>t DEF Launch
  <2>4. CASE ResetRelease
    BY <2>4, <2>t DEF ResetRelease
  <2>5. CASE PLLReset
    BY <2>5, <2>t DEF PLLReset
  <2>6. CASE SweepLoop
    BY <2>6, <2>t DEF SweepLoop
  <2>7. CASE SweepWake
    BY <2>7, <2>t DEF SweepWake
  <2>8. CASE TxCommand
    BY <2>8, <2>t DEF TxCommand, Disciplined
  <2>9. CASE StopCommand
    BY <2>9, <2>t DEF StopCommand, Disciplined
  <2>10. CASE SweepCommand
    BY <2>10, <2>t DEF SweepCommand, Disciplined
  <2>11. CASE ResetCommand
    BY <2>11, <2>t DEF ResetCommand, Disciplined
  <2>12. CASE StatusCommand
    BY <2>12, <2>t DEF StatusCommand, Disciplined
  <2>13. CASE UNCHANGED vars
    BY <2>13 DEF vars
  <2>14. QED
    BY <2>1, <2>2, <2>3, <2>4, <2>5, <2>6, <2>7, <2>8, <2>9, <2>10, <2>11, <2>12, <2>13
    DEF Next, ShellStep, SweepStep, Operator
<1>3. QED
  BY InvHolds, <1>1, <1>2, PTL DEF Spec

(* The amplifier is on exactly while the software believes it transmits,   *)
(* for every number of failing transfers and every interleaving of the     *)
(* shell with a sweep thread, if the operator is disciplined.              *)
THEOREM AmplifierSafe ==
  ASSUME Disciplined
  PROVE  Spec => []AmplifierFollowsFlag
<1>1. Switching => AmplifierFollowsFlag
  BY DEF Switching
<1>2. QED
  BY SwitchingHolds, <1>1, PTL

(* With such an operator the thread object of the sweep is started only    *)
(* when no sweep runs on it.                                               *)
THEOREM ThreadFree ==
  ASSUME Disciplined
  PROVE  Spec => []NoThreadReuse
<1>1. Switching => NoThreadReuse
  BY DEF Switching, Starting, NoThreadReuse
<1>2. QED
  BY SwitchingHolds, <1>1, PTL
=============================================================================

--------------------------- MODULE ControlProofs ---------------------------
(***************************************************************************)
(* The Control register of the CPLD and the two threads that read, modify  *)
(* and write it, for every set of frequencies, every number of sweep steps *)
(* and every number of failing transfers.                                  *)
(***************************************************************************)
EXTENDS TransmitterProofs

(* During a sweep the operator gives "tx stop" and asks for the status.    *)
(* With "fpga reset" beside a sweep the shell would write back a word it   *)
(* read before the sweep's last write.                                     *)
Careful == Overlap \subseteq {"stop", "status"}

In(t, f)      == pc[t] \in Transfer /\ call[t] = f
Pending(t, f) == In(t, f) /\ ~(dir[t] = "write" /\ pc[t] = "deselect")
HasRead(t)    == pc[t] = "deselect" /\ dir[t] = "read" /\ ok[t]
ToWrite(t)    == pc[t] \in {"select", "acquire", "clock"} /\ dir[t] = "write"

(* What function f makes of the word w of the Control register. *)
Made(f, w) ==
  CASE f = "setFrequency" -> [w EXCEPT !.modeSquare = Square(currentFreq)]
    [] f = "startTX"  -> [w EXCEPT !.txEnable = TRUE, !.modeSquare = Square(currentFreq)]
    [] f = "stopTX"   -> [w EXCEPT !.txEnable = FALSE]
    [] f = "resetOn"  -> [w EXCEPT !.softReset = TRUE]
    [] f = "resetOff" -> [w EXCEPT !.softReset = FALSE]
    [] OTHER -> w

(* The driver's lock belongs to the thread that clocks.  The shell never   *)
(* holds it between the sweep thread's read and its write: the sweep's     *)
(* read-modify-write cannot be interrupted.                                *)
Locking ==
  /\ \A t \in Threads : lock = t <=> pc[t] = "clock"
  /\ pc[Sweep] = "deselect" \/ (ToWrite(Sweep) /\ pc[Sweep] # "clock") => lock = Free

(* Beside a sweep the shell is in stopTX or reads the status; and a thread *)
(* that has come to a transfer is there for a function, with no error yet. *)
Alone ==
  /\ Live => pc[Shell] \notin {"setFrequency", "i2c", "startCheck", "startMark", "startPA",
                               "launch", "pause", "pllReset"}
  /\ Live /\ pc[Shell] \in Transfer => call[Shell] \in {"stopTX", "status"}
  /\ \A t \in Threads : ToWrite(t) => call[t] # "status"
  /\ \A t \in Threads : pc[t] \in Transfer => call[t] # "none"
  /\ errors = 0 => \A t \in Threads : ok[t]

(* Before the device is found nobody gets beyond a test of initialized. *)
Off ==
  /\ initialized => booted
  /\ ~initialized =>
       /\ ~transmitting
       /\ \A t \in Threads : pc[t] \in {"idle", "setFrequency", "startCheck", "stopCheck",
                                        "launch", "loop", "sleep"}

(* While a thread is in setFrequency nobody else changes the frequency. *)
Noted ==
  \A t \in Threads : pc[t] = "i2c" \/ In(t, "setFrequency") => currentFreq = Arg(t)

(* Flag and pin on the way through startTX and stopTX. *)
Marks ==
  /\ pc[Shell] = "startMark" => ~transmitting
  /\ pc[Shell] = "startPA" => transmitting
  /\ In(Shell, "startTX") => transmitting /\ paEN
  /\ \A t \in Threads : pc[t] = "stopPA" \/ In(t, "stopTX") => ~transmitting

(* What a thread holds of the register is still what is there, but for a   *)
(* "tx stop" beside a sweep, whose word may be old but has txEnable off.   *)
Images ==
  ~voided =>
    /\ HasRead(Sweep) => image[Sweep] = ctrl
    /\ ToWrite(Sweep) => image[Sweep] = Made(call[Sweep], ctrl)
    /\ HasRead(Shell) /\ call[Shell] \notin {"stopTX", "status"} => image[Shell] = ctrl
    /\ ToWrite(Shell) /\ call[Shell] # "stopTX" => image[Shell] = Made(call[Shell], ctrl)
    /\ ToWrite(Shell) /\ call[Shell] = "stopTX" => ~image[Shell].txEnable

(* The register and the software, with what is on its way between them. *)
Agreed ==
  BusIntact /\ initialized =>
    /\ (HasRead(Shell) \/ ToWrite(Shell)) /\ call[Shell] = "stopTX" => ~image[Shell].softReset
    /\ (\A t \in Threads : /\ pc[t] \notin {"startPA", "stopPA"}
                           /\ ~Pending(t, "startTX") /\ ~Pending(t, "stopTX"))
         => ctrl.txEnable = transmitting
    /\ transmitting /\ (\A t \in Threads : /\ pc[t] \notin {"i2c", "startPA"}
                                           /\ ~Pending(t, "startTX")
                                           /\ ~Pending(t, "setFrequency"))
         => ctrl.modeSquare = Square(currentFreq)
    /\ ctrl.softReset => \/ pc[Shell] = "pause" \/ In(Shell, "resetOn")
                         \/ Pending(Shell, "resetOff")

Course == Locking /\ Alone /\ Off /\ Noted /\ Marks
CInv   == Inv /\ Course /\ Images /\ Agreed

-----------------------------------------------------------------------------
(* What a function makes of the word it holds is what it makes of a word   *)
(* that has not changed, if it has noted its frequency.                    *)
LEMMA ModifiedIsMade ==
  ASSUME Noted, NEW t \in Threads, pc[t] \in Transfer
  PROVE  Modified(t) = Made(call[t], image[t])
<1>1. call[t] = "setFrequency" => currentFreq = Arg(t)
  BY DEF Noted, In
<1>2. QED
  BY <1>1 DEF Modified, Made
(* Every operation keeps the threads on their course. *)
LEMMA OperationCourse ==
  ASSUME Careful, Inv, Course, NEW t \in Threads, Operation(t)
  PROVE  Course'
<1> USE DEF Threads, Shell, Sweep, Free, device, carrier, bus, sweep, console, local, Goto,
            BeginTransfer, Transfer, At, CanRun, SweepBlocked, Live, Course, In, ToWrite,
            Locking, Alone, Off, Noted, Marks, Arg
<1>t. /\ pc \in [Threads -> Labels] /\ call \in [Threads -> Calls]
      /\ dir \in [Threads -> {"read", "write"}]
      /\ transmitting \in BOOLEAN /\ paEN \in BOOLEAN /\ errors \in Nat
      /\ ok \in [Threads -> BOOLEAN] /\ Flow
  BY DEF Inv, TypeOK
<1>1. CASE Select(t)
  BY <1>1, <1>t DEF Select, Flow
<1>2. CASE Acquire(t)
  BY <1>2, <1>t DEF Acquire, Flow
<1>3. CASE Clock(t)
  BY <1>3, <1>t DEF Clock, ClockGood, ClockFails, Flow
<1>4. CASE Deselect(t)
  BY <1>4, <1>t DEF Deselect, Return, Flow
<1>5. CASE SetFrequency(t)
  BY <1>5, <1>t DEF SetFrequency, Return, Flow
<1>6. CASE SynthProgrammed(t)
  BY <1>6, <1>t DEF SynthProgrammed, Flow
<1>7. CASE StartCheck(t)
  BY <1>7, <1>t DEF StartCheck, Return, Flow
<1>8. CASE StartMark(t)
  BY <1>8, <1>t DEF StartMark, Flow
<1>9. CASE StartPA(t)
  BY <1>9, <1>t DEF StartPA, Flow
<1>10. CASE StopCheck(t)
  BY <1>10, <1>t DEF StopCheck, Flow
<1>11. CASE StopMark(t)
  BY <1>11, <1>t DEF StopMark, Flow
<1>12. CASE StopPA(t)
  BY <1>12, <1>t DEF StopPA, Flow
<1>13. QED
  BY <1>1, <1>2, <1>3, <1>4, <1>5, <1>6, <1>7, <1>8, <1>9, <1>10, <1>11, <1>12 DEF Operation
(* Every operation keeps what the threads hold of the register up to date. *)
LEMMA OperationImages ==
  ASSUME Careful, Inv, Course, Images, NEW t \in Threads, Operation(t)
  PROVE  Images'
<1> USE DEF Threads, Shell, Sweep, Free, device, carrier, bus, sweep, console, local, Goto,
            BeginTransfer, Transfer, At, CanRun, SweepBlocked, Live, Course, In, ToWrite, HasRead,
            Locking, Alone, Images, Made, Control
<1>t. /\ pc \in [Threads -> Labels] /\ call \in [Threads -> Calls]
      /\ dir \in [Threads -> {"read", "write"}]
      /\ image \in [Threads -> Control] /\ ctrl \in Control /\ ok \in [Threads -> BOOLEAN]
      /\ transmitting \in BOOLEAN /\ voided \in BOOLEAN /\ Flow
  BY DEF Inv, TypeOK
<1>1. CASE Select(t)
  BY <1>1, <1>t DEF Select, Flow
<1>2. CASE Acquire(t)
  BY <1>2, <1>t DEF Acquire, Flow
<1>3. CASE Clock(t)
  BY <1>3, <1>t DEF Clock, ClockGood, ClockFails, Flow
<1>4. CASE Deselect(t)
  <2>1. CASE dir[t] = "read" /\ ok[t] /\ call[t] # "status"
    <3>1. Modified(t) = Made(call[t], image[t])
      BY <1>4, ModifiedIsMade DEF Deselect
    <3>2. /\ pc[t] = "deselect"
          /\ image' = [image EXCEPT ![t] = Made(call[t], image[t])]
          /\ dir' = [dir EXCEPT ![t] = "write"] /\ pc' = [pc EXCEPT ![t] = "select"]
          /\ UNCHANGED <<call, ok, ctrl, voided, currentFreq>>
      BY <1>4, <2>1, <3>1 DEF Deselect
    <3>3. ~voided /\ ~(t = Shell /\ call[t] = "stopTX") => image[t] = ctrl
      BY <2>1, <3>2
    <3>4. call[t] = "stopTX" => ~Made(call[t], image[t]).txEnable
      BY <1>t
    <3>5. Made(call[t], ctrl)' = Made(call[t], ctrl)
      BY <3>2
    <3>6. CASE t = Shell
      BY <1>t, <3>2, <3>3, <3>4, <3>6
    <3>7. CASE t = Sweep
      BY <1>t, <3>2, <3>3, <3>4, <3>7
    <3>8. QED
      BY <3>6, <3>7
  <2>2. CASE ~(dir[t] = "read" /\ ok[t] /\ call[t] # "status")
    <3>1. Return(t, call[t]) \notin Transfer
      BY DEF Return
    <3>2. /\ pc' = [pc EXCEPT ![t] = Return(t, call[t])]
          /\ image' = [image EXCEPT ![t] = Cleared] /\ dir' = [dir EXCEPT ![t] = "read"]
          /\ call' = [call EXCEPT ![t] = "none"] /\ ok' = [ok EXCEPT ![t] = TRUE]
          /\ UNCHANGED <<ctrl, voided, currentFreq>>
      BY <1>4, <2>2 DEF Deselect
    <3>3. QED
      BY <1>t, <3>1, <3>2
  <2>3. QED
    BY <2>1, <2>2
<1>5. CASE SetFrequency(t)
  BY <1>5, <1>t DEF SetFrequency, Return, Flow
<1>6. CASE SynthProgrammed(t)
  BY <1>6, <1>t DEF SynthProgrammed, Flow
<1>7. CASE StartCheck(t)
  BY <1>7, <1>t DEF StartCheck, Return, Flow
<1>8. CASE StartMark(t)
  BY <1>8, <1>t DEF StartMark, Flow
<1>9. CASE StartPA(t)
  BY <1>9, <1>t DEF StartPA, Flow
<1>10. CASE StopCheck(t)
  BY <1>10, <1>t DEF StopCheck, Flow
<1>11. CASE StopMark(t)
  BY <1>11, <1>t DEF StopMark, Flow
<1>12. CASE StopPA(t)
  BY <1>12, <1>t DEF StopPA, Flow
<1>13. QED
  BY <1>1, <1>2, <1>3, <1>4, <1>5, <1>6, <1>7, <1>8, <1>9, <1>10, <1>11, <1>12 DEF Operation

(* Every operation keeps the register in agreement with the software. *)
LEMMA OperationAgreed ==
  ASSUME Careful, Inv, Course, Images, Agreed, NEW t \in Threads, Operation(t)
  PROVE  Agreed'
<1> USE DEF Threads, Shell, Sweep, Free, device, carrier, bus, sweep, console, local, Goto,
            BeginTransfer, Transfer, At, CanRun, SweepBlocked, Live, Course, In, ToWrite, HasRead,
            Locking, Alone, Images, Made, Control, Agreed, Pending, BusIntact, Marks
<1>t. /\ pc \in [Threads -> Labels] /\ call \in [Threads -> Calls]
      /\ dir \in [Threads -> {"read", "write"}]
      /\ image \in [Threads -> Control] /\ ctrl \in Control /\ ok \in [Threads -> BOOLEAN]
      /\ transmitting \in BOOLEAN /\ voided \in BOOLEAN /\ Flow
  BY DEF Inv, TypeOK
<1>1. CASE Select(t)
  BY <1>1, <1>t DEF Select, Flow
<1>2. CASE Acquire(t)
  BY <1>2, <1>t DEF Acquire, Flow
<1>3. CASE Clock(t)
  <2>0. /\ pc[t] = "clock" /\ pc' = [pc EXCEPT ![t] = "deselect"]
        /\ UNCHANGED <<initialized, transmitting, paEN, currentFreq, call, dir>>
    BY <1>3 DEF Clock
  <2>1. CASE ClockFails(t)
    <3>1. errors' = errors + 1 /\ errors \in Nat
      BY <2>1 DEF ClockFails, Inv, TypeOK
    <3>2. ~BusIntact'
      BY <3>1
    <3>3. QED
      BY <3>2
  <2>2. CASE ClockGood(t) /\ frame # "fresh"
    BY <2>2 DEF ClockGood
  <2>3. CASE ClockGood(t) /\ frame = "fresh" /\ dir[t] = "read"
    <3>1. /\ ok' = [ok EXCEPT ![t] = TRUE] /\ image' = [image EXCEPT ![t] = ctrl]
          /\ UNCHANGED <<ctrl, voided, errors>>
      BY <2>3 DEF ClockGood
    <3>2. QED
      BY <1>t, <2>0, <2>3, <3>1
  <2>4. CASE ClockGood(t) /\ frame = "fresh" /\ dir[t] = "write"
    <3>1. /\ ok' = [ok EXCEPT ![t] = TRUE] /\ ctrl' = image[t]
          /\ UNCHANGED <<image, voided, errors>>
      BY <2>4 DEF ClockGood
    <3>2. call[t] \in {"setFrequency", "startTX", "stopTX", "resetOn", "resetOff"}
      BY <1>t, <2>0, <2>4 DEF Calls
    <3>3. CASE call[t] = "setFrequency"
      BY <1>t, <2>0, <2>4, <3>1, <3>3
    <3>4. CASE call[t] = "startTX"
      <4>1. t = Shell /\ transmitting /\ ~Live
        BY <1>t, <2>0, <3>4 DEF Flow
      <4>2. ~voided => ctrl' = [ctrl EXCEPT !.txEnable = TRUE, !.modeSquare = Square(currentFreq)]
        BY <1>t, <2>0, <2>4, <3>1, <3>4, <4>1
      <4>3. Pending(Shell, "startTX") /\ ~In(Shell, "resetOn") /\ ~Pending(Shell, "resetOff")
        BY <1>t, <2>0, <3>4, <4>1
      <4>4. QED
        BY <1>t, <2>0, <2>4, <3>1, <3>4, <4>1, <4>2, <4>3
    <3>5. CASE call[t] = "stopTX"
      BY <1>t, <2>0, <2>4, <3>1, <3>5
    <3>6. CASE call[t] \in {"resetOn", "resetOff"}
      BY <1>t, <2>0, <2>4, <3>1, <3>6 DEF Flow
    <3>7. QED
      BY <3>2, <3>3, <3>4, <3>5, <3>6
  <2>5. QED
    BY <1>3, <1>t, <2>1, <2>2, <2>3, <2>4 DEF Clock
<1>4. CASE Deselect(t)
  <2>0. UNCHANGED <<ctrl, errors, voided, initialized, transmitting, currentFreq>>
    BY <1>4 DEF Deselect
  <2>1. CASE dir[t] = "read" /\ ok[t] /\ call[t] # "status"
    <3>1. Modified(t) = Made(call[t], image[t])
      BY <1>4, ModifiedIsMade DEF Deselect
    <3>2. /\ pc[t] = "deselect"
          /\ image' = [image EXCEPT ![t] = Made(call[t], image[t])]
          /\ dir' = [dir EXCEPT ![t] = "write"] /\ pc' = [pc EXCEPT ![t] = "select"]
          /\ UNCHANGED <<call, ok>>
      BY <1>4, <2>1, <3>1 DEF Deselect
    <3>3. call[t] = "stopTX" => Made(call[t], image[t]).softReset = image[t].softReset
      BY <1>t
    <3>4. \A u \in Threads, f \in Calls : Pending(u, f)' = Pending(u, f) /\ In(u, f)' = In(u, f)
      BY <1>t, <2>1, <3>2
    <3>5. \A u \in Threads : pc[u] \notin {"i2c", "startPA", "stopPA"}
                               <=> pc'[u] \notin {"i2c", "startPA", "stopPA"}
      BY <1>t, <3>2
    <3>6. QED
      BY <1>t, <2>0, <2>1, <3>2, <3>3, <3>4, <3>5 DEF Calls
  <2>2. CASE ~(dir[t] = "read" /\ ok[t] /\ call[t] # "status")
    <3>1. Return(t, call[t]) \notin Transfer /\ (call[t] = "resetOn" => Return(t, call[t]) = "pause")
      BY DEF Return
    <3>2. /\ pc[t] = "deselect" /\ pc' = [pc EXCEPT ![t] = Return(t, call[t])]
          /\ dir' = [dir EXCEPT ![t] = "read"]
          /\ call' = [call EXCEPT ![t] = "none"] /\ ok' = [ok EXCEPT ![t] = TRUE]
          /\ image' = [image EXCEPT ![t] = Cleared]
      BY <1>4, <2>2 DEF Deselect
    <3>3. QED
      BY <1>t, <2>0, <2>2, <3>1, <3>2
  <2>3. QED
    BY <2>1, <2>2
<1>5. CASE SetFrequency(t)
  BY <1>5, <1>t DEF SetFrequency, Return, Flow, Off
<1>6. CASE SynthProgrammed(t)
  BY <1>6, <1>t DEF SynthProgrammed, Flow
<1>7. CASE StartCheck(t)
  BY <1>7, <1>t DEF StartCheck, Return, Flow
<1>8. CASE StartMark(t)
  BY <1>8, <1>t DEF StartMark, Flow
<1>9. CASE StartPA(t)
  BY <1>9, <1>t DEF StartPA, Flow
<1>10. CASE StopCheck(t)
  BY <1>10, <1>t DEF StopCheck, Flow
<1>11. CASE StopMark(t)
  BY <1>11, <1>t DEF StopMark, Flow
<1>12. CASE StopPA(t)
  BY <1>12, <1>t DEF StopPA, Flow
<1>13. QED
  BY <1>1, <1>2, <1>3, <1>4, <1>5, <1>6, <1>7, <1>8, <1>9, <1>10, <1>11, <1>12 DEF Operation

-----------------------------------------------------------------------------
(* The steps that are no operation of class FPGA. *)
Other ==
  \/ FPGAInit \/ Launch \/ ResetRelease \/ PLLReset \/ SweepLoop \/ SweepWake
  \/ TxCommand \/ StopCommand \/ SweepCommand \/ ResetCommand \/ StatusCommand

LEMMA OtherSteps ==
  ASSUME Careful, Inv, Course, Images, Agreed, Other
  PROVE  Course' /\ Images' /\ Agreed'
<1> USE DEF Threads, Shell, Sweep, Free, device, carrier, bus, sweep, console, local, Goto,
            BeginTransfer, Transfer, At, CanRun, SweepBlocked, Live, Course, In, ToWrite, HasRead,
            Locking, Alone, Off, Noted, Marks, Images, Made, Agreed, Pending, BusIntact, Ready
<1>t. /\ pc \in [Threads -> Labels] /\ call \in [Threads -> Calls]
      /\ dir \in [Threads -> {"read", "write"}] /\ ok \in [Threads -> BOOLEAN]
      /\ transmitting \in BOOLEAN /\ Flow
  BY DEF Inv, TypeOK
<1>1. CASE FPGAInit
  <2>1. Course'
    BY <1>1, <1>t DEF FPGAInit, Cleared, Arg, Flow
  <2>2. /\ ~initialized /\ UNCHANGED <<transmitting, paEN, voided, errors, pc, call, dir, image, ok>>
        /\ initialized' => ctrl' = Cleared
    BY <1>1 DEF FPGAInit
  <2>3. ~transmitting /\ \A t \in Threads : pc[t] \notin Transfer
    BY <2>2
  <2>4. Images'
    BY <2>2, <2>3
  <2>5. Agreed'
    <3>1. transmitting' = FALSE
      BY <1>t, <2>2, <2>3
    <3>2. initialized' => ctrl'.txEnable = FALSE /\ ctrl'.softReset = FALSE
      BY <2>2 DEF Cleared
    <3>3. QED
      BY <2>2, <2>3, <3>1, <3>2
  <2>6. QED
    BY <2>1, <2>4, <2>5
<1>2. CASE Launch
  <2>1. Course'
    BY <1>2, <1>t DEF Launch, Arg, Flow
  <2>2. Images' /\ Agreed'
    BY <1>2, <1>t DEF Launch, Flow
  <2>3. QED
    BY <2>1, <2>2
<1>3. CASE ResetRelease
  <2>1. Course'
    BY <1>3, <1>t DEF ResetRelease, Arg, Flow
  <2>2. Images' /\ Agreed'
    BY <1>3, <1>t DEF ResetRelease, Flow
  <2>3. QED
    BY <2>1, <2>2
<1>4. CASE PLLReset
  <2>1. Course'
    BY <1>4, <1>t DEF PLLReset, Arg, Flow
  <2>2. Images' /\ Agreed'
    BY <1>4, <1>t DEF PLLReset, Flow
  <2>3. QED
    BY <2>1, <2>2
<1>5. CASE SweepLoop
  <2>1. Course'
    BY <1>5, <1>t DEF SweepLoop, Arg, Flow
  <2>2. Images' /\ Agreed'
    BY <1>5, <1>t DEF SweepLoop, Flow
  <2>3. QED
    BY <2>1, <2>2
<1>6. CASE SweepWake
  <2>1. Course'
    BY <1>6, <1>t DEF SweepWake, Arg, Flow
  <2>2. Images' /\ Agreed'
    BY <1>6, <1>t DEF SweepWake, Flow
  <2>3. QED
    BY <2>1, <2>2
<1>7. CASE TxCommand
  <2>1. Course'
    BY <1>7, <1>t DEF TxCommand, Careful, Arg, Flow
  <2>2. Images' /\ Agreed'
    BY <1>7, <1>t DEF TxCommand, Careful, Flow
  <2>3. QED
    BY <2>1, <2>2
<1>8. CASE StopCommand
  <2>1. Course'
    BY <1>8, <1>t DEF StopCommand, Careful, Arg, Flow
  <2>2. Images' /\ Agreed'
    BY <1>8, <1>t DEF StopCommand, Careful, Flow
  <2>3. QED
    BY <2>1, <2>2
<1>9. CASE SweepCommand
  <2>1. Course'
    BY <1>9, <1>t DEF SweepCommand, Careful, Arg, Flow
  <2>2. Images' /\ Agreed'
    BY <1>9, <1>t DEF SweepCommand, Careful, Flow
  <2>3. QED
    BY <2>1, <2>2
<1>10. CASE ResetCommand
  <2>1. Course'
    BY <1>10, <1>t DEF ResetCommand, Careful, Arg, Flow
  <2>2. Images' /\ Agreed'
    BY <1>10, <1>t DEF ResetCommand, Careful, Flow
  <2>3. QED
    BY <2>1, <2>2
<1>11. CASE StatusCommand
  <2>1. Course'
    BY <1>11, <1>t DEF StatusCommand, Careful, Arg, Flow
  <2>2. Images' /\ Agreed'
    BY <1>11, <1>t DEF StatusCommand, Careful, Flow
  <2>3. QED
    BY <2>1, <2>2
<1>12. QED
  BY <1>1, <1>2, <1>3, <1>4, <1>5, <1>6, <1>7, <1>8, <1>9, <1>10, <1>11 DEF Other

(* Whatever happens, the threads stay on their course, hold what is in the *)
(* register, and the register agrees with the software.                    *)
LEMMA CInvHolds ==
  ASSUME Careful
  PROVE  Spec => []CInv
<1>1. Init => Course /\ Images /\ Agreed
  BY DEF Init, Course, Images, Agreed, Locking, Alone, Off, Noted, Marks, In, Pending, HasRead,
         ToWrite, Live, Threads, Shell, Sweep, Free, Transfer
<1>2. Inv /\ Course /\ Images /\ Agreed /\ [Next]_vars => (Course /\ Images /\ Agreed)'
  <2> SUFFICES ASSUME Inv, Course, Images, Agreed, [Next]_vars
               PROVE  Course' /\ Images' /\ Agreed'
    OBVIOUS
  <2>1. CASE Operation(Shell) \/ Operation(Sweep)
    BY <2>1, OperationCourse, OperationImages, OperationAgreed DEF Threads
  <2>2. CASE Other
    BY <2>2, OtherSteps
  <2>3. CASE UNCHANGED vars
    BY <2>3 DEF vars, device, carrier, bus, sweep, console, local, Course, Images, Agreed,
                Locking, Alone, Off, Noted, Marks, In, Pending, HasRead, ToWrite, Live, Arg,
                Made, BusIntact
  <2>4. QED
    BY <2>1, <2>2, <2>3 DEF Next, ShellStep, SweepStep, Operator, Other
<1>3. QED
  BY InvHolds, <1>1, <1>2, PTL DEF Spec, CInv

(* As long as every transfer reached the CPLD, its Control register agrees *)
(* with the software whenever no function of FPGA runs, if the operator    *)
(* gives nothing but "tx stop" and "fpga status" during a sweep.           *)
THEOREM RegisterAgrees ==
  ASSUME Careful
  PROVE  Spec => []ControlAgrees
<1>1. CInv => ControlAgrees
  BY DEF CInv, Agreed, Marks, ControlAgrees, Quiet, Pending, In, Transfer, Threads, Shell, Sweep
<1>2. QED
  BY CInvHolds, <1>1, PTL

-----------------------------------------------------------------------------
(* No step raises txEnable but the write at the end of startTX, and then   *)
(* the amplifier is on. *)
LEMMA CarrierNeedsAmplifier ==
  ASSUME Careful, CInv, [Next]_vars, ~ctrl.txEnable, ctrl'.txEnable, ~voided
  PROVE  paEN
<1>t. Inv /\ Course /\ Images /\ Flow /\ call \in [Threads -> Calls] /\ ctrl \in Control
  BY DEF CInv, Inv, TypeOK
<1>1. PICK t \in Threads : Clock(t)
  <2>1. ctrl' # ctrl /\ ctrl' # Cleared
    BY DEF Cleared
  <2>2. QED
    BY <2>1 DEF Next, ShellStep, SweepStep, Operator, Operation, vars, device, carrier, bus, sweep,
                console, local, Threads, FPGAInit, Launch, ResetRelease, PLLReset, SweepLoop,
                SweepWake, TxCommand, StopCommand, SweepCommand, ResetCommand, StatusCommand,
                Select, Acquire, Deselect, SetFrequency, SynthProgrammed, StartCheck, StartMark,
                StartPA, StopCheck, StopMark, StopPA, BeginTransfer
<1>2. pc[t] = "clock" /\ dir[t] = "write" /\ ctrl' = image[t]
  BY <1>1 DEF Clock, ClockGood, ClockFails, At
<1>3. ToWrite(t) /\ call[t] \in {"setFrequency", "startTX", "stopTX", "resetOn", "resetOff"}
  BY <1>t, <1>2 DEF ToWrite, Course, Alone, Transfer, Calls
<1>4. image[t].txEnable /\ ~(t = Shell /\ call[t] = "stopTX")
  BY <1>2, <1>3, <1>t DEF Images, Shell
<1>5. image[t] = Made(call[t], ctrl)
  BY <1>3, <1>4, <1>t DEF Images, Threads, Shell, Sweep
<1>6. call[t] = "startTX"
  BY <1>3, <1>4, <1>5, <1>t DEF Made, Control
<1>7. t = Shell
  BY <1>2, <1>6, <1>t DEF Flow, Threads, Shell, Sweep, Transfer
<1>8. QED
  BY <1>2, <1>6, <1>7, <1>t DEF Course, Marks, In, Transfer

(* The carrier is never switched on into an amplifier that is off, however *)
(* many transfers fail, as long as none is lost unnoticed.                 *)
THEOREM AmplifierBeforeCarrier ==
  ASSUME Careful
  PROVE  Spec => NoCarrierBeforeAmplifier
<1>1. CInv /\ [Next]_vars => [~ctrl.txEnable /\ ctrl'.txEnable /\ ~voided => paEN]_vars
  BY CarrierNeedsAmplifier
<1>2. QED
  BY CInvHolds, <1>1, PTL DEF Spec, NoCarrierBeforeAmplifier
=============================================================================

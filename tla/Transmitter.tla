---------------------------- MODULE Transmitter ----------------------------
(***************************************************************************)
(* The transmit path of the firmware: class FPGA (sw/src/fpga.cpp) and the *)
(* shell commands and the sweep thread that drive it                       *)
(* (sw/src/shellcmds.cpp).                                                 *)
(*                                                                         *)
(* Two threads use the FPGA object.  Nothing locks it, so a step of this   *)
(* module is what one thread does between two points where the other one   *)
(* can come in between: a flag is tested, a flag is written, a pin is      *)
(* switched, the bus driver's lock is taken, 40 bits have been clocked.    *)
(*                                                                         *)
(* The processor has one core and the sweep thread the higher priority:    *)
(* it preempts the shell anywhere, and the shell runs only while the sweep *)
(* thread is blocked (CanRun).                                             *)
(***************************************************************************)
EXTENDS Naturals

CONSTANTS
  Freqs,      (* frequencies "tx <freq>" may ask for, in kHz                *)
  Steps,      (* steps of a sweep (1000 in the code)                        *)
  MaxErrors,  (* bound on the bus transfers that fail                       *)
  Overlap     (* commands the operator may give while a sweep thread lives  *)

Commands == {"tx", "stop", "sweep", "reset", "status"}

ASSUME FreqsAssumption   == Freqs \subseteq Nat \ {0}
ASSUME StepsAssumption   == Steps \in Nat \ {0}
ASSUME ErrorsAssumption  == MaxErrors \in Nat
ASSUME OverlapAssumption == Overlap \subseteq Commands

Shell == "shell"
Sweep == "sweepThread"
Threads == {Shell, Sweep}
Free == "free"

VARIABLES
  booted,          (* FPGA::init has returned                               *)
  initialized, transmitting, currentFreq, paEN, lpf,  (* members and pins   *)
  ctrl,            (* the CPLD's Control register                           *)
  frame,           (* NCS high; low and no bit clocked; low and 40 clocked  *)
  lock,            (* the bus driver's lock: its holder, or Free            *)
  errors, voided,  (* transfers that failed; one was lost unnoticed         *)
  sweepRunning, sweepContinuous, step,                (* sweep globals      *)
  cmd, cmdFreq,    (* the shell's command and its frequency                 *)
  pc, call, dir, image, ok  (* per thread: where it is, for which function  *)

device  == <<booted, initialized, currentFreq, lpf>>
carrier == <<transmitting, paEN>>
bus     == <<ctrl, frame, lock, errors, voided>>
sweep   == <<sweepRunning, sweepContinuous, step>>
console == <<cmd, cmdFreq>>
local   == <<call, dir, image, ok>>
vars    == <<device, carrier, bus, sweep, console, pc, local>>

-----------------------------------------------------------------------------
Control == [txEnable : BOOLEAN, modeSquare : BOOLEAN, softReset : BOOLEAN]
Cleared == [txEnable |-> FALSE, modeSquare |-> FALSE, softReset |-> FALSE]

Band20m == 14095
Square(f) == f >= 10000
Filter(f) == IF f <= 4000 THEN "lo" ELSE IF f <= 11500 THEN "mid" ELSE "hi"

(* The i-th frequency of a sweep, from 1 to 30 MHz. *)
SweepFreq(i) == 1000 + (29000 * i) \div Steps

Labels == {"idle", "setFrequency", "i2c", "select", "acquire", "clock", "deselect",
           "startCheck", "startMark", "startPA", "stopCheck", "stopMark", "stopPA",
           "launch", "pause", "pllReset", "loop", "sleep"}
Calls == {"setFrequency", "startTX", "stopTX", "resetOn", "resetOff", "status", "none"}

Live == pc[Sweep] # "idle"

(* The sweep thread gives the processor away only where it blocks. *)
SweepBlocked == \/ pc[Sweep] \in {"idle", "sleep", "i2c"}
                \/ pc[Sweep] = "acquire" /\ lock = Shell
CanRun(t) == t = Sweep \/ SweepBlocked

At(t, label)   == pc[t] = label /\ CanRun(t)
Goto(t, label) == pc' = [pc EXCEPT ![t] = label]

(* The frequency a thread passes to setFrequency. *)
Arg(t) == IF t = Shell THEN cmdFreq ELSE SweepFreq(step)

(* Enter the read-modify-write of the Control register (or the one read of *)
(* "fpga status") on behalf of function f.                                 *)
BeginTransfer(t, f) ==
  /\ call' = [call EXCEPT ![t] = f]
  /\ dir'  = [dir EXCEPT ![t] = "read"]
  /\ Goto(t, "select")
  /\ UNCHANGED <<image, ok>>

-----------------------------------------------------------------------------
Init ==
  /\ booted = FALSE /\ initialized = FALSE /\ transmitting = FALSE
  /\ currentFreq = 0 /\ paEN = FALSE /\ lpf = {}
  /\ ctrl \in Control           \* the CPLD keeps it when the processor restarts
  /\ frame = "high" /\ lock = Free /\ errors = 0 /\ voided = FALSE
  /\ sweepRunning = FALSE /\ sweepContinuous = FALSE /\ step = 0
  /\ cmd = "stop" /\ cmdFreq = 0
  /\ pc    = [t \in Threads |-> "idle"]
  /\ call  = [t \in Threads |-> "none"]
  /\ dir   = [t \in Threads |-> "read"]
  /\ image = [t \in Threads |-> Cleared]
  /\ ok    = [t \in Threads |-> TRUE]

(* FPGA::init: every other operation waits for initialized, so the steps   *)
(* inside it cannot be told apart.  The PROG pulse clears the CPLD.        *)
FPGAInit ==
  /\ ~booted
  /\ booted' = TRUE
  /\ \E result \in {"ready", "noDevice", "noSignature"} :
       /\ initialized' = (result = "ready")
       /\ currentFreq' = IF result = "noDevice" THEN currentFreq ELSE Band20m
       /\ ctrl' = IF result = "noDevice" THEN ctrl ELSE Cleared
       /\ lpf'  = IF result = "ready" THEN {Filter(Band20m)} ELSE {}
  /\ UNCHANGED <<carrier, frame, lock, errors, voided, sweep, console, pc, local>>

-----------------------------------------------------------------------------
(* One transfer of spiReadReg or spiWriteReg.  NCS is a plain pin set and  *)
(* cleared outside the bus driver's lock.                                  *)

Select(t) ==
  /\ At(t, "select")
  /\ frame' = IF frame = "high" THEN "fresh" ELSE frame
  /\ Goto(t, "acquire")
  /\ UNCHANGED <<device, carrier, ctrl, lock, errors, voided, sweep, console, local>>

Acquire(t) ==
  /\ At(t, "acquire")
  /\ lock = Free
  /\ lock' = t
  /\ Goto(t, "clock")
  /\ UNCHANGED <<device, carrier, ctrl, frame, errors, voided, sweep, console, local>>

(* The CPLD takes part in a transfer that starts on a falling NCS.  In any *)
(* other frame a write is lost and a read returns what happens to be on    *)
(* the wire; the driver reports success for both.                          *)
ClockGood(t) ==
  /\ ok' = [ok EXCEPT ![t] = TRUE]
  /\ IF frame = "fresh"
     THEN /\ IF dir[t] = "write"
             THEN ctrl' = image[t] /\ UNCHANGED image
             ELSE image' = [image EXCEPT ![t] = ctrl] /\ UNCHANGED ctrl
          /\ UNCHANGED voided
     ELSE /\ voided' = TRUE
          /\ IF dir[t] = "write"
             THEN UNCHANGED image
             ELSE \E garbage \in Control : image' = [image EXCEPT ![t] = garbage]
          /\ UNCHANGED ctrl
  /\ UNCHANGED errors

ClockFails(t) ==
  /\ errors < MaxErrors
  /\ errors' = errors + 1
  /\ ok' = [ok EXCEPT ![t] = FALSE]
  /\ UNCHANGED <<ctrl, image, voided>>

Clock(t) ==
  /\ At(t, "clock")
  /\ ClockGood(t) \/ ClockFails(t)
  /\ frame' = IF frame = "high" THEN frame ELSE "used"
  /\ lock' = Free
  /\ Goto(t, "deselect")
  /\ UNCHANGED <<device, carrier, sweep, console, call, dir>>

(* Mutation of Modified: setFrequency writes a fresh word. *)
ModifiedFresh(t) ==
  CASE call[t] = "setFrequency" -> [Cleared EXCEPT !.modeSquare = Square(Arg(t))]
    [] call[t] = "startTX"  -> [image[t] EXCEPT !.txEnable = TRUE,
                                                !.modeSquare = Square(currentFreq)]
    [] call[t] = "stopTX"   -> [image[t] EXCEPT !.txEnable = FALSE]
    [] call[t] = "resetOn"  -> [image[t] EXCEPT !.softReset = TRUE]
    [] call[t] = "resetOff" -> [image[t] EXCEPT !.softReset = FALSE]
    [] OTHER -> image[t]

(* What a function changes in the word it read from Control. *)
Modified(t) ==
  CASE call[t] = "setFrequency" -> [image[t] EXCEPT !.modeSquare = Square(Arg(t))]
    [] call[t] = "startTX"  -> [image[t] EXCEPT !.txEnable = TRUE,
                                                !.modeSquare = Square(currentFreq)]
    [] call[t] = "stopTX"   -> [image[t] EXCEPT !.txEnable = FALSE]
    [] call[t] = "resetOn"  -> [image[t] EXCEPT !.softReset = TRUE]
    [] call[t] = "resetOff" -> [image[t] EXCEPT !.softReset = FALSE]
    [] OTHER -> image[t]

(* Where a thread goes on when the function it called returns. *)
Return(t, f) ==
  CASE f = "setFrequency" /\ t = Shell -> "startCheck"
    [] f = "setFrequency" /\ t = Sweep -> "sleep"
    [] f = "startTX"  -> IF cmd = "sweep" THEN "launch" ELSE "idle"
    [] f = "resetOn"  -> "pause"
    [] f = "resetOff" -> "pllReset"
    [] OTHER -> "idle"

(* NCS goes up.  A read that succeeded is followed by the write; after the *)
(* write, and after an error, the function returns.  What it returns only  *)
(* chooses the line the shell prints.                                      *)
Deselect(t) ==
  /\ At(t, "deselect")
  /\ frame' = "high"
  /\ IF dir[t] = "read" /\ ok[t] /\ call[t] # "status"
     THEN /\ image' = [image EXCEPT ![t] = Modified(t)]
          /\ dir' = [dir EXCEPT ![t] = "write"]
          /\ Goto(t, "select")
          /\ UNCHANGED <<call, ok>>
     ELSE /\ Goto(t, Return(t, call[t]))
          /\ call' = [call EXCEPT ![t] = "none"]
          /\ dir' = [dir EXCEPT ![t] = "read"]
          /\ image' = [image EXCEPT ![t] = Cleared]
          /\ ok' = [ok EXCEPT ![t] = TRUE]
  /\ UNCHANGED <<device, carrier, ctrl, lock, errors, voided, sweep, console>>

-----------------------------------------------------------------------------
(* FPGA::setFrequency: the frequency is noted, the Si5351 programmed over  *)
(* I2C (the thread blocks), then the mode bit is written.                  *)
SetFrequency(t) ==
  /\ At(t, "setFrequency")
  /\ IF initialized
     THEN currentFreq' = Arg(t) /\ Goto(t, "i2c")
     ELSE Goto(t, Return(t, "setFrequency")) /\ UNCHANGED currentFreq
  /\ UNCHANGED <<booted, initialized, lpf, carrier, bus, sweep, console, local>>

SynthProgrammed(t) ==
  /\ At(t, "i2c")
  /\ BeginTransfer(t, "setFrequency")
  /\ UNCHANGED <<device, carrier, bus, sweep, console>>

(* FPGA::startTX: test, then set, the flag; amplifier on; then txEnable. *)
StartCheck(t) ==
  /\ At(t, "startCheck")
  /\ IF initialized /\ ~transmitting
     THEN Goto(t, "startMark")
     ELSE Goto(t, Return(t, "startTX"))
  /\ UNCHANGED <<device, carrier, bus, sweep, console, local>>

StartMark(t) ==
  /\ At(t, "startMark")
  /\ transmitting' = TRUE
  /\ Goto(t, "startPA")
  /\ UNCHANGED <<device, paEN, bus, sweep, console, local>>

(* Mutation of StartPA: the carrier first, the amplifier left for later. *)
StartPALater(t) ==
  /\ At(t, "startPA")
  /\ BeginTransfer(t, "startTX")
  /\ UNCHANGED <<device, carrier, bus, sweep, console>>

StartPA(t) ==
  /\ At(t, "startPA")
  /\ paEN' = TRUE
  /\ BeginTransfer(t, "startTX")
  /\ UNCHANGED <<device, transmitting, bus, sweep, console>>

(* FPGA::stopTX: test, then clear, the flag; amplifier off; then txEnable. *)
StopCheck(t) ==
  /\ At(t, "stopCheck")
  /\ IF initialized /\ transmitting
     THEN Goto(t, "stopMark")
     ELSE Goto(t, "idle")
  /\ UNCHANGED <<device, carrier, bus, sweep, console, local>>

StopMark(t) ==
  /\ At(t, "stopMark")
  /\ transmitting' = FALSE
  /\ Goto(t, "stopPA")
  /\ UNCHANGED <<device, paEN, bus, sweep, console, local>>

(* Mutation of StopPA: the pin is left on when the shell stops a sweep. *)
StopPAUnlessLive(t) ==
  /\ At(t, "stopPA")
  /\ paEN' = (t = Shell /\ Live /\ paEN)
  /\ BeginTransfer(t, "stopTX")
  /\ UNCHANGED <<device, transmitting, bus, sweep, console>>

StopPA(t) ==
  /\ At(t, "stopPA")
  /\ paEN' = FALSE
  /\ BeginTransfer(t, "stopTX")
  /\ UNCHANGED <<device, transmitting, bus, sweep, console>>

-----------------------------------------------------------------------------
(* The shell commands.  Their first step is the operator's: a new command  *)
(* is read when the last one has returned.                                 *)

Ready(c) == /\ At(Shell, "idle")
            /\ Live => c \in Overlap
            /\ cmd' = c

TxCommand ==
  /\ Ready("tx")
  /\ \E f \in Freqs : cmdFreq' = f
  /\ Goto(Shell, "setFrequency")
  /\ UNCHANGED <<device, carrier, bus, sweep, local>>

(* Mutation of StopCommand: the sweep thread is not told. *)
StopCommandSilent ==
  /\ Ready("stop")
  /\ Goto(Shell, "stopCheck")
  /\ UNCHANGED <<device, carrier, bus, sweep, cmdFreq, local>>

StopCommand ==
  /\ Ready("stop")
  /\ sweepRunning' = FALSE
  /\ Goto(Shell, "stopCheck")
  /\ UNCHANGED <<device, carrier, bus, sweepContinuous, step, cmdFreq, local>>

SweepCommand ==
  /\ Ready("sweep")
  /\ IF sweepRunning
     THEN UNCHANGED <<pc, sweepContinuous>>       \* -EBUSY
     ELSE /\ \E c \in BOOLEAN : sweepContinuous' = c
          /\ Goto(Shell, "startCheck")
  /\ UNCHANGED <<device, carrier, bus, sweepRunning, step, cmdFreq, local>>

(* sweepRunning is set and the static thread object started; on an object  *)
(* that still runs a sweep, that sweep is lost.                            *)
Launch ==
  /\ At(Shell, "launch")
  /\ sweepRunning' = TRUE
  /\ step' = 0
  /\ pc' = [pc EXCEPT ![Shell] = "idle", ![Sweep] = "loop"]
  /\ UNCHANGED <<device, carrier, bus, sweepContinuous, console, local>>

(* FPGA::reset, softReset on for 2 ms and off again, then a Si5351 write;  *)
(* and the reads of "fpga status" on the same bus, of which one stands     *)
(* for all.                                                                *)
ResetCommand ==
  /\ Ready("reset")
  /\ IF initialized THEN BeginTransfer(Shell, "resetOn") ELSE UNCHANGED <<pc, local>>
  /\ UNCHANGED <<device, carrier, bus, sweep, cmdFreq>>

ResetRelease ==
  /\ At(Shell, "pause")
  /\ BeginTransfer(Shell, "resetOff")
  /\ UNCHANGED <<device, carrier, bus, sweep, console>>

PLLReset ==
  /\ At(Shell, "pllReset")
  /\ Goto(Shell, "idle")
  /\ UNCHANGED <<device, carrier, bus, sweep, console, local>>

StatusCommand ==
  /\ Ready("status")
  /\ IF initialized THEN BeginTransfer(Shell, "status") ELSE UNCHANGED <<pc, local>>
  /\ UNCHANGED <<device, carrier, bus, sweep, cmdFreq>>

-----------------------------------------------------------------------------
(* Mutation of SweepLoop: every sweep starts over. *)
SweepLoopForever ==
  /\ At(Sweep, "loop")
  /\ IF sweepRunning /\ step <= Steps
     THEN Goto(Sweep, "setFrequency") /\ UNCHANGED <<step, sweepRunning>>
     ELSE IF sweepRunning
          THEN step' = 0 /\ UNCHANGED <<pc, sweepRunning>>
          ELSE sweepRunning' = FALSE /\ Goto(Sweep, "stopCheck") /\ UNCHANGED step
  /\ UNCHANGED <<device, carrier, bus, sweepContinuous, console, local>>

(* Mutation of SweepLoop: one step too many. *)
SweepLoopOneMore ==
  /\ At(Sweep, "loop")
  /\ IF sweepRunning /\ step <= Steps + 1
     THEN Goto(Sweep, "setFrequency") /\ UNCHANGED <<step, sweepRunning>>
     ELSE IF sweepRunning /\ sweepContinuous
          THEN step' = 0 /\ UNCHANGED <<pc, sweepRunning>>
          ELSE sweepRunning' = FALSE /\ Goto(Sweep, "stopCheck") /\ UNCHANGED step
  /\ UNCHANGED <<device, carrier, bus, sweepContinuous, console, local>>

(* sweepThreadEntry: step through the frequencies while sweepRunning, and  *)
(* again when the sweep is continuous; at the end stop the transmitter.    *)
SweepLoop ==
  /\ At(Sweep, "loop")
  /\ IF sweepRunning /\ step <= Steps
     THEN Goto(Sweep, "setFrequency") /\ UNCHANGED <<step, sweepRunning>>
     ELSE IF sweepRunning /\ sweepContinuous
          THEN step' = 0 /\ UNCHANGED <<pc, sweepRunning>>
          ELSE sweepRunning' = FALSE /\ Goto(Sweep, "stopCheck") /\ UNCHANGED step
  /\ UNCHANGED <<device, carrier, bus, sweepContinuous, console, local>>

SweepWake ==
  /\ At(Sweep, "sleep")
  /\ step' = step + 1
  /\ Goto(Sweep, "loop")
  /\ UNCHANGED <<device, carrier, bus, sweepRunning, sweepContinuous, console, local>>

-----------------------------------------------------------------------------
Operation(t) ==
  \/ Select(t) \/ Acquire(t) \/ Clock(t) \/ Deselect(t)
  \/ SetFrequency(t) \/ SynthProgrammed(t)
  \/ StartCheck(t) \/ StartMark(t) \/ StartPA(t)
  \/ StopCheck(t) \/ StopMark(t) \/ StopPA(t)

ShellStep == Operation(Shell) \/ Launch \/ ResetRelease \/ PLLReset
SweepStep == Operation(Sweep) \/ SweepLoop \/ SweepWake
Operator  == TxCommand \/ StopCommand \/ SweepCommand \/ ResetCommand \/ StatusCommand

Next == FPGAInit \/ ShellStep \/ SweepStep \/ Operator

Spec == Init /\ [][Next]_vars

(* The scheduler: a thread that stays ready runs, and the shell, held up   *)
(* for as long as the sweep thread runs, gets its turn in the end because  *)
(* each step of a sweep blocks on I2C and in k_msleep.                     *)
Fairness == WF_vars(SweepStep) /\ SF_vars(ShellStep)
FairSpec == Spec /\ Fairness
-----------------------------------------------------------------------------
(* The shape of every state. *)
TypeOK ==
  /\ booted \in BOOLEAN /\ initialized \in BOOLEAN
  /\ transmitting \in BOOLEAN /\ paEN \in BOOLEAN
  /\ currentFreq \in Nat /\ lpf \subseteq {"lo", "mid", "hi"}
  /\ ctrl \in Control /\ frame \in {"high", "fresh", "used"}
  /\ lock \in Threads \cup {Free}
  /\ errors \in 0..MaxErrors /\ voided \in BOOLEAN
  /\ sweepRunning \in BOOLEAN /\ sweepContinuous \in BOOLEAN /\ step \in 0..(Steps + 1)
  /\ cmd \in Commands /\ cmdFreq \in Freqs \cup {0}
  /\ pc \in [Threads -> Labels] /\ call \in [Threads -> Calls]
  /\ dir \in [Threads -> {"read", "write"}]
  /\ image \in [Threads -> Control] /\ ok \in [Threads -> BOOLEAN]

(* Nobody is inside a function of FPGA. *)
Quiet == pc[Shell] = "idle" /\ pc[Sweep] \in {"idle", "loop", "sleep"}

(* No transfer failed or was lost so far. *)
BusIntact == errors = 0 /\ ~voided

(* The amplifier is on exactly while the software believes it transmits,   *)
(* but for the moment between writing the flag and switching the pin,      *)
(* whatever transfers fail and however the two threads' stopTX interleave. *)
AmplifierFollowsFlag ==
  (\A t \in Threads : pc[t] \notin {"startPA", "stopPA"}) => paEN = transmitting

(* As long as every transfer reached the CPLD, its Control register agrees *)
(* with the software whenever no function of FPGA is running: carrier on   *)
(* or off, the wave shape of the current frequency, no reset left behind.  *)
(* The read-modify-writes of the two threads would lose each other's bits  *)
(* if the shell could run inside one of the sweep thread's.                *)
ControlAgrees ==
  initialized /\ Quiet /\ BusIntact =>
    /\ ctrl.txEnable = transmitting
    /\ transmitting => ctrl.modeSquare = Square(currentFreq)
    /\ ~ctrl.softReset

(* The carrier is never switched on into an amplifier that is off: a write *)
(* that sets txEnable finds paEN set, unless the word written was garbage. *)
NoCarrierBeforeAmplifier ==
  [][~ctrl.txEnable /\ ctrl'.txEnable /\ ~voided => paEN]_vars

(* The static thread object is started only when no sweep runs on it. *)
NoThreadReuse == pc[Shell] = "launch" => ~Live

(* "tx stop" is carried out: the amplifier goes off and the sweep ends. *)
StopStops ==
  (cmd = "stop" /\ pc[Shell] # "idle") ~> (~paEN /\ ~Live)

(* A sweep that is not continuous ends, and with it the transmission. *)
SweepEnds ==
  (Live /\ ~sweepContinuous) ~> (~Live /\ ~paEN)
=============================================================================

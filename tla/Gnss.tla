-------------------------------- MODULE Gnss --------------------------------
(***************************************************************************)
(* class GNSS (sw/src/gnss.cpp): the worker thread that turns the bytes of *)
(* the receiver into the time of day, and isTXSlot(), which the main loop  *)
(* asks once a second whether a WSPR slot begins.                          *)
(*                                                                         *)
(* A sentence is three pieces: a head ('$', the type, hours and minutes),  *)
(* a tail (the seconds and every later field) and the end of the line.  It *)
(* can be cut between them, and the pieces of two sentences joined.        *)
(*                                                                         *)
(* Time is counted in seconds; a minute has Minute of them, and the model  *)
(* repeats after two minutes.  At 9600 baud the receiver sends its lines   *)
(* within the second and the worker, which polls every millisecond, has    *)
(* read them before the next one (Tick).                                   *)
(***************************************************************************)
EXTENDS Naturals, Sequences

CONSTANTS
  Minute,   (* seconds in a minute                                          *)
  MaxFifo,  (* pieces the UART keeps for the reader                         *)
  MaxBuf,   (* pieces nmeaBuf has room for                                  *)
  MaxCuts   (* bound on transmissions, receiver resets and losses of the fix *)

ASSUME MinuteAssumption == Minute \in Nat /\ Minute >= 2
ASSUME FifoAssumption   == MaxFifo \in Nat \ {0}
ASSUME BufAssumption    == MaxBuf \in Nat /\ MaxBuf >= 2
ASSUME CutsAssumption   == MaxCuts \in Nat

VARIABLES
  now,           (* the true time                                           *)
  fix, silent,   (* the receiver has a fix; it is being reset               *)
  pending,       (* kinds of sentence still to send in this second          *)
  sending,       (* what is left of the sentence being sent                 *)
  transmitting,  (* FPGA::isTransmitting()                                  *)
  fifo,          (* received and not read                                   *)
  wpc, slept,    (* where the worker is; a second of its sleep is over      *)
  buf,           (* nmeaBuf                                                 *)
  lock,          (* GNSS::mutex is held by the worker                       *)
  valid, minute, second,   (* of data                                       *)
  cuts,          (* transmissions, resets and losses of the fix so far      *)
  lost,          (* history: after how many pieces of fifo some were lost   *)
  age            (* history: seconds since an unbroken line was parsed, or Old *)

receiver == <<fix, silent, pending, sending>>
history  == <<lost, age>>
data     == <<valid, minute, second>>
worker   == <<wpc, slept, buf, lock>>
vars     == <<now, receiver, transmitting, fifo, worker, data, cuts, history>>

Cycle == 2 * Minute
Time  == 0..(Cycle - 1)
Kinds == {"RMC", "GGA"}
Piece == [part : {"head", "tail", "end"}, kind : Kinds, at : Time, fix : BOOLEAN]
Old   == 2

MinuteOf(t) == t \div Minute
SecondOf(t) == t % Minute

PieceOf(k, part) == [part |-> part, kind |-> k, at |-> now, fix |-> fix]
Sentence(k) == <<PieceOf(k, "head"), PieceOf(k, "tail"), PieceOf(k, "end")>>

Init ==
  /\ now \in Time
  /\ fix = FALSE /\ silent = FALSE /\ pending = Kinds /\ sending = <<>>
  /\ transmitting = FALSE /\ fifo = <<>>
  /\ wpc = "poll" /\ slept = FALSE /\ buf = <<>> /\ lock = FALSE
  /\ valid = FALSE /\ minute = 0 /\ second = 0
  /\ cuts = 0 /\ lost = {} /\ age = Old

-----------------------------------------------------------------------------
(* The receiver.  Each second it sends an RMC and a GGA sentence, in an    *)
(* order that is the receiver's choice.  A worker that is awake has read    *)
(* and handled a piece before the next is complete; while it sleeps the    *)
(* FIFO fills, and what does not fit is lost.                              *)
Receive(p) ==
  IF Len(fifo) < MaxFifo THEN fifo' = Append(fifo, p) /\ UNCHANGED lost
                         ELSE lost' = lost \cup {Len(fifo)} /\ UNCHANGED fifo

Emit ==
  /\ (wpc = "poll" /\ fifo = <<>>) \/ wpc = "asleep"
  /\ \/ /\ sending # <<>>
        /\ Receive(Head(sending)) /\ sending' = Tail(sending)
        /\ UNCHANGED pending
     \/ /\ sending = <<>>
        /\ \E k \in pending :
             /\ Receive(Sentence(k)[1]) /\ sending' = Tail(Sentence(k))
             /\ pending' = pending \ {k}
  /\ UNCHANGED <<now, fix, silent, transmitting, worker, data, cuts, age>>

(* The next second begins: all lines are out, the worker has read them or  *)
(* sleeps through it.  The receiver may have come back, or found its fix.  *)
Tick ==
  /\ pending = {} /\ sending = <<>>
  /\ \/ wpc = "poll" /\ ~transmitting /\ fifo = <<>>
     \/ wpc = "asleep" /\ ~slept
  /\ now' = (now + 1) % Cycle
  /\ slept' = (wpc = "asleep")
  /\ age' = IF age = Old THEN Old ELSE age + 1
  /\ silent' \in {silent, FALSE}
  /\ fix' \in IF silent' THEN {FALSE} ELSE {fix, TRUE}
  /\ pending' = IF silent' THEN {} ELSE Kinds
  /\ UNCHANGED <<sending, transmitting, fifo, wpc, buf, lock, data, cuts, lost>>

Disturb == cuts < MaxCuts /\ cuts' = cuts + 1

LoseFix ==
  /\ fix /\ Disturb
  /\ fix' = FALSE
  /\ UNCHANGED <<now, silent, pending, sending, transmitting, fifo, worker, data, history>>

(* GNSS::reset, from the shell: the receiver stops where it is. *)
ResetReceiver ==
  /\ Disturb
  /\ silent' = TRUE /\ fix' = FALSE /\ pending' = {} /\ sending' = <<>>
  /\ UNCHANGED <<now, transmitting, fifo, worker, data, history>>

(* The shell starts or stops the transmitter. *)
Transmit ==
  /\ transmitting' = ~transmitting
  /\ IF transmitting THEN UNCHANGED cuts ELSE Disturb
  /\ UNCHANGED <<now, receiver, fifo, worker, data, history>>

-----------------------------------------------------------------------------
(* processLoop.  While the transmitter is on, what arrives is thrown away  *)
(* once a second and nmeaBuf is left as it is.                             *)
Flush ==
  /\ wpc = "poll" /\ transmitting
  /\ fifo' = <<>> /\ lost' = IF fifo = <<>> THEN lost ELSE {0}
  /\ wpc' = "asleep" /\ slept' = FALSE
  /\ UNCHANGED <<now, receiver, transmitting, buf, lock, data, cuts, age>>

(* Mutation of Wake: once asleep, always asleep. *)
WakeNever ==
  /\ wpc = "asleep" /\ slept
  /\ wpc' = "asleep" /\ slept' = FALSE
  /\ UNCHANGED <<now, receiver, transmitting, fifo, buf, lock, data, cuts, history>>

Wake ==
  /\ wpc = "asleep" /\ slept
  /\ wpc' = "poll" /\ slept' = FALSE
  /\ UNCHANGED <<now, receiver, transmitting, fifo, buf, lock, data, cuts, history>>

(* One piece fewer before each gap; a '$' leaves the gaps before it behind. *)
Read(p) ==
  /\ fifo' = Tail(fifo)
  /\ lost' = {i \in 0..MaxFifo : i + 1 \in lost} \cup (IF p.part = "head" THEN {} ELSE lost \cap {0})

(* Mutation of ReadUart: the size of nmeaBuf is not looked at. *)
ReadUartUnchecked ==
  /\ wpc = "poll" /\ ~transmitting /\ fifo # <<>>
  /\ Read(Head(fifo))
  /\ LET p == Head(fifo) IN
     \/ p.part = "head" /\ buf' = <<p>> /\ UNCHANGED <<wpc, lock>>
     \/ p.part = "tail" /\ buf' = Append(buf, p) /\ UNCHANGED <<wpc, lock>>
     \/ p.part = "end" /\ buf = <<>> /\ UNCHANGED <<buf, wpc, lock>>
     \/ p.part = "end" /\ buf # <<>> /\ lock' = TRUE /\ wpc' = "parse" /\ UNCHANGED buf
  /\ UNCHANGED <<now, receiver, transmitting, slept, data, cuts, age>>

(* '$' begins a new sentence, a piece with no room empties the buffer (or  *)
(* leaves its own end in it), a line that is not empty is handled.         *)
ReadUart ==
  /\ wpc = "poll" /\ ~transmitting /\ fifo # <<>>
  /\ Read(Head(fifo))
  /\ LET p == Head(fifo) IN
     \/ p.part = "head" /\ buf' = <<p>> /\ UNCHANGED <<wpc, lock>>
     \/ /\ p.part = "tail"
        /\ IF Len(buf) < MaxBuf THEN buf' = Append(buf, p) ELSE buf' \in {<<>>, <<p>>}
        /\ UNCHANGED <<wpc, lock>>
     \/ p.part = "end" /\ buf = <<>> /\ UNCHANGED <<buf, wpc, lock>>
     \/ p.part = "end" /\ buf # <<>> /\ lock' = TRUE /\ wpc' = "parse" /\ UNCHANGED buf
  /\ UNCHANGED <<now, receiver, transmitting, slept, data, cuts, age>>

(* A line has been handled: the mutex is given back, nmeaBuf emptied. *)
Handled == lock' = FALSE /\ buf' = <<>> /\ wpc' = "poll"

(* parseNMEA.  An RMC line without status 'A' makes the data invalid.  A   *)
(* GGA line with a fix makes it valid and sets no time.  In a line joined  *)
(* from two kinds the fields are out of place: RMC finds no 'A', GGA takes *)
(* a digit of the longitude for the fix.                                   *)
Parse ==
  /\ wpc = "parse"
  /\ LET head == buf[1]
         joined == Len(buf) >= 2 /\ buf[2].kind # head.kind
         good == Len(buf) >= 2 /\ ~joined /\ buf[2].fix
     IN \/ head.part # "head" /\ Handled /\ UNCHANGED valid
        \/ /\ head.part = "head" /\ head.kind = "RMC"
           /\ valid' = good
           /\ IF good THEN wpc' = "parseTime" /\ UNCHANGED <<lock, buf>> ELSE Handled
        \/ /\ head.part = "head" /\ head.kind = "GGA"
           /\ valid' = (valid \/ good) \/ (joined /\ valid' = TRUE)
           /\ Handled
  /\ UNCHANGED <<now, receiver, transmitting, fifo, slept, minute, second, cuts, history>>

(* Mutation of ParseMinute: the mutex is given back too early. *)
ParseMinuteUnlocks ==
  /\ wpc = "parseTime"
  /\ minute' = MinuteOf(buf[1].at)
  /\ wpc' = "parseSecond" /\ lock' = FALSE
  /\ UNCHANGED <<now, receiver, transmitting, fifo, slept, buf, valid, second, cuts, history>>

ParseMinute ==
  /\ wpc = "parseTime"
  /\ minute' = MinuteOf(buf[1].at)
  /\ wpc' = "parseSecond"
  /\ UNCHANGED <<now, receiver, transmitting, fifo, slept, buf, lock, valid, second, cuts, history>>

ParseSecond ==
  /\ wpc = "parseSecond"
  /\ second' = SecondOf(buf[2].at)
  /\ age' = IF 0 \in lost THEN Old ELSE 0
  /\ Handled
  /\ UNCHANGED <<now, receiver, transmitting, fifo, slept, valid, minute, cuts, lost>>

-----------------------------------------------------------------------------
(* isTXSlot, which waits for the mutex. *)
IsTXSlot == valid /\ second = 0 /\ minute % 2 = 0

WorkerStep == Flush \/ Wake \/ ReadUart \/ Parse \/ ParseMinute \/ ParseSecond

Next == Emit \/ Tick \/ LoseFix \/ ResetReceiver \/ Transmit \/ WorkerStep

Spec == Init /\ [][Next]_vars

(* The worker runs, the receiver sends and the clock ticks. *)
FairSpec == Spec /\ WF_vars(WorkerStep) /\ WF_vars(Emit) /\ WF_vars(Tick)
-----------------------------------------------------------------------------
(* The shape of every state. *)
TypeOK ==
  /\ now \in Time /\ fix \in BOOLEAN /\ silent \in BOOLEAN /\ pending \subseteq Kinds
  /\ sending \in Seq(Piece) /\ Len(sending) <= 2
  /\ transmitting \in BOOLEAN /\ fifo \in Seq(Piece) /\ Len(fifo) <= MaxFifo
  /\ wpc \in {"poll", "asleep", "parse", "parseTime", "parseSecond"}
  /\ slept \in BOOLEAN /\ buf \in Seq(Piece) /\ Len(buf) <= MaxBuf /\ lock \in BOOLEAN
  /\ valid \in BOOLEAN /\ minute \in 0..1 /\ second \in 0..(Minute - 1)
  /\ cuts \in 0..MaxCuts /\ lost \subseteq 0..MaxFifo /\ age \in 0..Old

(* A line whose bytes have all been read, from its '$' on, sets the time    *)
(* right: when the mutex is free, data holds the minute and the second in   *)
(* which it was sent, at most a second before it was parsed.  So neither    *)
(* what nmeaBuf kept, a reset of the receiver, a full buffer nor the time   *)
(* the worker takes between the fields spoils it.  Nothing is claimed of a  *)
(* line with a gap, where the head of one sentence and the tail of another  *)
(* may set a wrong time, as no checksum is tested, nor of data two seconds  *)
(* later.                                                                   *)
TimeCoherent ==
  ~lock /\ age < Old =>
    \E d \in {0, 1} : now = (minute * Minute + second + age + d) % Cycle

(* After a transmission, a reset of the receiver or a lost fix the time    *)
(* comes right again as soon as the receiver is heard for long enough.     *)
TimeRecovers ==
  (fix /\ ~silent /\ ~transmitting) ~> (age < Old \/ ~fix \/ silent \/ transmitting)

(* gnss.hpp:76: isTXSlot tells that an even minute begins.  It is on time  *)
(* in the first second of one, and one second late.  GGA without a time and *)
(* a line with a gap can each make it report another moment.               *)
SlotOnTime ==
  ~lock /\ IsTXSlot => now \in {0, 1}
=============================================================================

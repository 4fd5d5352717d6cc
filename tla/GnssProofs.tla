----------------------------- MODULE GnssProofs -----------------------------
(***************************************************************************)
(* Proofs about Gnss, for minutes of any length and buffers of any size:   *)
(* the time in data is never a mixture of two times.                       *)
(***************************************************************************)
EXTENDS Gnss, SequenceTheorems, TLAPS

-----------------------------------------------------------------------------
(* Arithmetic of the clock. *)

LEMMA CycleIsLong == Cycle \in Nat /\ Cycle >= 4
BY MinuteAssumption DEF Cycle

(* A remainder is the one number in range that differs by a multiple. *)
LEMMA ModRange ==
  ASSUME NEW a \in Nat, NEW c \in Nat, c > 0
  PROVE  /\ a % c \in 0..(c - 1)
         /\ a < c => a % c = a
         /\ a >= c /\ a < 2 * c => a % c = a - c
<1>1. a % c \in 0..(c - 1)
  OBVIOUS
<1>2. ASSUME a < c PROVE a % c = a
  BY <1>2
<1>3. ASSUME a >= c, a < 2 * c PROVE a % c = a - c
  BY <1>3
<1>4. QED
  BY <1>1, <1>2, <1>3

(* The minute and the second of a time make the time. *)
LEMMA MinuteAndSecond ==
  ASSUME NEW t \in Time
  PROVE  /\ MinuteOf(t) \in 0..1 /\ SecondOf(t) \in 0..(Minute - 1)
         /\ t = MinuteOf(t) * Minute + SecondOf(t)
<1> USE MinuteAssumption
<1>1. t \in Nat /\ t < 2 * Minute
  BY DEF Time, Cycle
<1>2. CASE t < Minute
  <2>1. t \div Minute = 0 /\ t % Minute = t
    BY <1>1, <1>2
  <2>2. QED
    BY <1>1, <1>2, <2>1 DEF MinuteOf, SecondOf
<1>3. CASE t >= Minute
  <2>1. t \div Minute = 1 /\ t % Minute = t - Minute
    BY <1>1, <1>3
  <2>2. QED
    BY <1>1, <1>3, <2>1 DEF MinuteOf, SecondOf
<1>4. QED
  BY <1>1, <1>2, <1>3

(* A second passes: the remainder goes on. *)
LEMMA NextSecond ==
  ASSUME NEW t \in Time, NEW a \in Nat, a < Old
  PROVE  (t + a + 1) % Cycle = (((t + a) % Cycle) + 1) % Cycle
<1>1. t \in Nat /\ t < Cycle /\ Cycle \in Nat /\ Cycle >= 4 /\ a <= 1
  BY CycleIsLong DEF Time, Old
<1> HIDE DEF Cycle
<1>2. CASE t + a + 1 < Cycle
  <2>1. (t + a) % Cycle = t + a /\ (t + a + 1) % Cycle = t + a + 1
    BY <1>1, <1>2
  <2>2. QED
    BY <1>1, <1>2, <2>1
<1>3. CASE t + a + 1 = Cycle
  <2>1. (t + a) % Cycle = t + a
    BY <1>1, <1>3
  <2>2. QED
    BY <1>1, <1>3, <2>1
<1>4. CASE t + a + 1 > Cycle
  <2>1. t = Cycle - 1 /\ a = 1
    BY <1>1, <1>4
  <2>2. (t + a) % Cycle = 0 /\ (t + a + 1) % Cycle = 1
    BY <1>1, <2>1, ModRange
  <2>3. 1 % Cycle = 1
    BY <1>1
  <2>4. QED
    BY <2>2, <2>3
<1>5. QED
  BY <1>1, <1>2, <1>3, <1>4

-----------------------------------------------------------------------------
(* The inductive invariant. *)

HeadPiece == {p \in Piece : p.part = "head"}
TailPiece == {p \in Piece : p.part = "tail"}

Receiving ==
  /\ now \in Time /\ fix \in BOOLEAN /\ silent \in BOOLEAN /\ pending \subseteq Kinds
  /\ sending \in Seq(Piece) /\ Len(sending) <= 2
  /\ fifo \in Seq(Piece) /\ Len(fifo) <= MaxFifo /\ lost \subseteq 0..Len(fifo)

Working ==
  /\ wpc \in {"poll", "asleep", "parse", "parseTime", "parseSecond"}
  /\ transmitting \in BOOLEAN /\ slept \in BOOLEAN /\ valid \in BOOLEAN
  /\ lock \in BOOLEAN /\ (lock <=> wpc \in {"parse", "parseTime", "parseSecond"})

Counting == minute \in 0..1 /\ second \in 0..(Minute - 1) /\ cuts \in 0..MaxCuts /\ age \in 0..Old

(* In nmeaBuf there are tails, and perhaps a head before them; where a time *)
(* is taken from it, it begins with a head and goes on with a tail.        *)
Buffer ==
  /\ buf \in Seq(HeadPiece \cup TailPiece) /\ Len(buf) <= MaxBuf
  /\ \A i \in 2..Len(buf) : buf[i] \in TailPiece
  /\ wpc = "parse" => buf # <<>>
  /\ wpc \in {"parseTime", "parseSecond"} => Len(buf) >= 2 /\ buf[1] \in HeadPiece

(* A piece is of this second, or of the last if the worker has slept. *)
Fresh(t) == t = now \/ (now = (t + 1) % Cycle /\ (wpc = "asleep" => slept))

(* The same of the next state, of a piece that is there now. *)
FreshNext(t) == t = now' \/ (now' = (t + 1) % Cycle /\ (wpc' = "asleep" => slept'))

(* What comes after a piece when nothing is lost between. *)
Follows(p, q) == q.part = "head" \/ q.at = p.at

(* The bytes on their way are recent ones... *)
Recent ==
  /\ \A i \in 1..Len(fifo) : Fresh(fifo[i].at)
  /\ \A i \in 1..Len(sending) : sending[i].at = now
  /\ wpc \in {"parse", "parseTime", "parseSecond"} /\ 0 \notin lost => Fresh(buf[1].at)

(* ... and one sentence follows another, but where some were lost. *)
Linked ==
  /\ \A i \in 1..Len(fifo) : i \notin lost =>
       /\ i < Len(fifo) => Follows(fifo[i], fifo[i + 1])
       /\ i = Len(fifo) /\ sending # <<>> => Follows(fifo[i], sending[1])
  /\ 0 \notin lost => \A i \in 1..Len(buf) :
       /\ buf[i].at = buf[1].at
       /\ fifo # <<>> => Follows(buf[i], fifo[1])
       /\ fifo = <<>> /\ sending # <<>> => Follows(buf[i], sending[1])

(* The time in data is as old as it is known to be, but while its minute   *)
(* is new and its second is not.                                           *)
Coherent ==
  /\ wpc = "parseSecond" => minute = MinuteOf(buf[1].at)
  /\ wpc # "parseSecond" /\ age < Old =>
       \E d \in {0, 1} : now = (minute * Minute + second + age + d) % Cycle

GInv == Receiving /\ Working /\ Counting /\ Buffer /\ Recent /\ Linked /\ Coherent

-----------------------------------------------------------------------------
(* Each step keeps it, part by part. *)

LEMMA SentenceIsPieces ==
  ASSUME NEW k \in Kinds, now \in Time, fix \in BOOLEAN
  PROVE  /\ Sentence(k) \in Seq(Piece) /\ Len(Sentence(k)) = 3 /\ Sentence(k) # <<>>
         /\ Sentence(k)[1].part = "head"
         /\ \A i \in 1..3 : Sentence(k)[i] \in Piece /\ Sentence(k)[i].at = now
<1>1. \A part \in {"head", "tail", "end"} : PieceOf(k, part) \in Piece /\ PieceOf(k, part).at = now
  BY DEF PieceOf, Piece
<1>2. PieceOf(k, "head").part = "head"
  BY DEF PieceOf
<1>3. QED
  BY <1>1, <1>2 DEF Sentence

(* What arrives at the UART is a piece of this second: the next of its     *)
(* sentence, or a head.                                                    *)
LEMMA EmitPiece ==
  ASSUME Receiving, Emit, \A i \in 1..Len(sending) : sending[i].at = now
  PROVE  \E p \in Piece :
           /\ Receive(p) /\ p.at = now
           /\ sending # <<>> => p = sending[1]
           /\ sending = <<>> => p.part = "head"
           /\ sending' \in Seq(Piece) /\ Len(sending') <= 2
           /\ \A i \in 1..Len(sending') : sending'[i].at = now
           /\ pending' \subseteq Kinds
<1> USE DEF Receiving
<1>1. CASE /\ sending # <<>> /\ Receive(Head(sending)) /\ sending' = Tail(sending)
           /\ UNCHANGED pending
  <2>1. /\ sending' \in Seq(Piece) /\ Len(sending') = Len(sending) - 1 /\ Len(sending) \in Nat \ {0}
        /\ \A i \in 1..Len(sending') : sending'[i] = sending[i + 1]
    BY <1>1, HeadTailProperties
  <2>2. Head(sending) \in Piece /\ Head(sending) = sending[1] /\ Head(sending).at = now
    BY <1>1, <2>1
  <2>3. \A i \in 1..Len(sending') : sending'[i].at = now
    BY <2>1
  <2>4. Len(sending') <= 2 /\ pending' \subseteq Kinds
    BY <1>1, <2>1
  <2>5. QED
    BY <1>1, <2>1, <2>2, <2>3, <2>4
<1>2. CASE \E k \in pending : /\ Receive(Sentence(k)[1]) /\ sending' = Tail(Sentence(k))
                              /\ sending = <<>> /\ pending' = pending \ {k}
  <2>1. PICK k \in pending : /\ Receive(Sentence(k)[1]) /\ sending' = Tail(Sentence(k))
                             /\ sending = <<>> /\ pending' = pending \ {k}
    BY <1>2
  <2> DEFINE s == Sentence(k)
  <2>2. /\ s \in Seq(Piece) /\ Len(s) = 3 /\ s # <<>> /\ s[1].part = "head"
        /\ \A i \in 1..3 : s[i] \in Piece /\ s[i].at = now
    BY SentenceIsPieces
  <2> HIDE DEF s
  <2>3. /\ sending' \in Seq(Piece) /\ Len(sending') = 2
        /\ \A i \in 1..Len(sending') : sending'[i] = s[i + 1]
    <3>1. sending' = Tail(s)
      BY <2>1 DEF s
    <3>2. QED
      BY <2>2, <3>1, HeadTailProperties
  <2>4. \A i \in 1..Len(sending') : sending'[i].at = now
    BY <2>2, <2>3
  <2>5. Receive(s[1]) /\ s[1] \in Piece /\ s[1].at = now
    BY <2>1, <2>2 DEF s
  <2>6. pending' \subseteq Kinds
    BY <2>1
  <2>7. QED
    BY <2>1, <2>2, <2>3, <2>4, <2>5, <2>6
<1>3. QED
  BY <1>1, <1>2 DEF Emit

(* Into the FIFO it goes, or it leaves a gap at its end. *)
LEMMA ReceiveStep ==
  ASSUME Receiving, NEW p \in Piece, Receive(p)
  PROVE  /\ fifo' \in Seq(Piece) /\ Len(fifo') <= MaxFifo /\ lost' \subseteq 0..Len(fifo')
         /\ \/ fifo' = Append(fifo, p) /\ Len(fifo') = Len(fifo) + 1 /\ lost' = lost
            \/ fifo' = fifo /\ lost' = lost \cup {Len(fifo)}
<1> USE FifoAssumption DEF Receiving
<1>1. CASE Len(fifo) < MaxFifo
  <2>1. fifo' = Append(fifo, p) /\ lost' = lost
    BY <1>1 DEF Receive
  <2>2. fifo' \in Seq(Piece) /\ Len(fifo') = Len(fifo) + 1 /\ Len(fifo) \in Nat
    BY <2>1
  <2>3. 0..Len(fifo) \subseteq 0..Len(fifo')
    BY <2>2
  <2>4. QED
    BY <1>1, <2>1, <2>2, <2>3
<1>2. CASE ~(Len(fifo) < MaxFifo)
  <2>1. fifo' = fifo /\ lost' = lost \cup {Len(fifo)} /\ Len(fifo) \in Nat
    BY <1>2 DEF Receive
  <2>2. Len(fifo) \in 0..Len(fifo) /\ lost \subseteq 0..Len(fifo)
    BY <2>1
  <2>3. lost' \subseteq 0..Len(fifo')
    BY <2>1, <2>2
  <2>4. QED
    BY <2>1, <2>3
<1>3. QED
  BY <1>1, <1>2

(* Out of the FIFO it comes, and the gaps come one piece nearer. *)
LEMMA ReadStep ==
  ASSUME Receiving, ReadUart
  PROVE  /\ fifo # <<>> /\ Head(fifo) = fifo[1] /\ fifo[1] \in Piece
         /\ fifo' \in Seq(Piece) /\ Len(fifo') = Len(fifo) - 1 /\ Len(fifo) \in Nat
         /\ \A i \in 1..Len(fifo') : fifo'[i] = fifo[i + 1]
         /\ lost' \subseteq 0..Len(fifo')
         /\ \A i \in 0..Len(fifo') : i \notin lost' => i + 1 \notin lost
         /\ 0 \notin lost' => fifo[1].part = "head" \/ 0 \notin lost
<1> USE FifoAssumption DEF Receiving
<1>1. fifo # <<>> /\ Read(Head(fifo))
  BY DEF ReadUart
<1>2. /\ Head(fifo) = fifo[1] /\ fifo[1] \in Piece
      /\ fifo' \in Seq(Piece) /\ Len(fifo') = Len(fifo) - 1 /\ Len(fifo) \in Nat \ {0}
      /\ \A i \in 1..Len(fifo') : fifo'[i] = fifo[i + 1]
  BY <1>1, HeadTailProperties DEF Read
<1>3. lost' = {i \in 0..MaxFifo : i + 1 \in lost} \cup (IF fifo[1].part = "head" THEN {} ELSE lost \cap {0})
  BY <1>1, <1>2 DEF Read
<1>4. lost' \subseteq 0..Len(fifo')
  <2>1. ASSUME NEW i \in 0..MaxFifo, i + 1 \in lost PROVE i \in 0..Len(fifo')
    BY <1>2, <2>1
  <2>2. 0 \in 0..Len(fifo')
    BY <1>2
  <2>3. QED
    BY <1>3, <2>1, <2>2
<1>5. ASSUME NEW i \in 0..Len(fifo'), i \notin lost' PROVE i + 1 \notin lost
  <2>1. i \in 0..MaxFifo
    BY <1>2
  <2>2. QED
    BY <1>3, <1>5, <2>1
<1>6. 0 \notin lost' => fifo[1].part = "head" \/ 0 \notin lost
  BY <1>3
<1>7. QED
  BY <1>1, <1>2, <1>4, <1>5, <1>6

LEMMA NowNext ==
  ASSUME now \in Time
  PROVE  (now + 1) % Cycle \in Time
BY CycleIsLong, ModRange DEF Time

LEMMA ReceivingNext == Receiving /\ Recent /\ [Next]_vars => Receiving'
<1> SUFFICES ASSUME Receiving, Recent, [Next]_vars PROVE Receiving'
  OBVIOUS
<1> USE DEF Receiving, receiver, data, worker
<1>1. CASE Emit
  <2>1. PICK p \in Piece :
           /\ Receive(p) /\ sending' \in Seq(Piece) /\ Len(sending') <= 2 /\ pending' \subseteq Kinds
    BY <1>1, EmitPiece DEF Recent
  <2>2. fifo' \in Seq(Piece) /\ Len(fifo') <= MaxFifo /\ lost' \subseteq 0..Len(fifo')
    BY <2>1, ReceiveStep
  <2>3. UNCHANGED <<now, fix, silent>>
    BY <1>1 DEF Emit
  <2>4. QED
    BY <2>1, <2>2, <2>3
<1>2. CASE Tick
  <2>1. now' \in Time
    BY <1>2, NowNext DEF Tick
  <2>2. silent' \in BOOLEAN /\ fix' \in BOOLEAN /\ pending' \subseteq Kinds
    BY <1>2 DEF Tick
  <2>3. UNCHANGED <<sending, fifo, lost>>
    BY <1>2 DEF Tick
  <2>4. QED
    BY <2>1, <2>2, <2>3
<1>3. CASE LoseFix \/ ResetReceiver \/ Transmit
  <2>1. sending' \in {sending, <<>>} /\ UNCHANGED <<now, fifo, lost>>
    BY <1>3 DEF LoseFix, ResetReceiver, Transmit, history
  <2>2. fix' \in BOOLEAN /\ silent' \in BOOLEAN /\ pending' \subseteq Kinds
    BY <1>3 DEF LoseFix, ResetReceiver, Transmit
  <2>3. <<>> \in Seq(Piece) /\ Len(<<>>) <= 2
    OBVIOUS
  <2>4. sending' \in Seq(Piece) /\ Len(sending') <= 2
    BY <2>1, <2>3
  <2>5. QED
    BY <2>1, <2>2, <2>4
<1>4. CASE ReadUart
  <2>1. UNCHANGED <<now, fix, silent, pending, sending>>
    BY <1>4 DEF ReadUart
  <2>2. fifo' \in Seq(Piece) /\ Len(fifo') <= MaxFifo /\ lost' \subseteq 0..Len(fifo')
    BY <1>4, ReadStep, FifoAssumption
  <2>3. QED
    BY <2>1, <2>2
<1>5. CASE Flush
  <2>1. UNCHANGED <<now, fix, silent, pending, sending>>
    BY <1>5 DEF Flush
  <2>2. fifo' = <<>> /\ (lost' = {0} \/ (fifo = <<>> /\ lost' = lost))
    BY <1>5 DEF Flush
  <2>3. <<>> \in Seq(Piece) /\ Len(<<>>) = 0 /\ 0 \in 0..0
    OBVIOUS
  <2>4. Len(fifo') = 0 /\ lost' \subseteq 0..0
    BY <2>2, <2>3
  <2>5. fifo' \in Seq(Piece) /\ Len(fifo') <= MaxFifo /\ lost' \subseteq 0..Len(fifo')
    BY <2>2, <2>3, <2>4, FifoAssumption
  <2>6. QED
    BY <2>1, <2>5
<1>6. CASE Wake \/ Parse \/ ParseMinute \/ ParseSecond \/ UNCHANGED vars
  BY <1>6 DEF Wake, Parse, ParseMinute, ParseSecond, vars, history
<1>7. QED
  BY <1>1, <1>2, <1>3, <1>4, <1>5, <1>6 DEF Next, WorkerStep

(* Where the worker is, what it has of nmeaBuf, and whether it has the     *)
(* mutex. *)
LEMMA WorkingNext == Working /\ Buffer /\ [Next]_vars => Working'
<1> SUFFICES ASSUME Working, Buffer, [Next]_vars PROVE Working'
  OBVIOUS
<1> USE DEF Working, receiver, data, worker
<1>1. CASE Emit \/ Tick \/ LoseFix \/ ResetReceiver \/ Transmit
  <2>1. UNCHANGED <<wpc, valid, lock>>
    BY <1>1 DEF Emit, Tick, LoseFix, ResetReceiver, Transmit
  <2>2. slept' \in BOOLEAN /\ transmitting' \in BOOLEAN
    BY <1>1 DEF Emit, Tick, LoseFix, ResetReceiver, Transmit
  <2>3. QED
    BY <2>1, <2>2
<1>2. CASE Flush \/ Wake
  <2>1. wpc \in {"poll", "asleep"} /\ wpc' \in {"poll", "asleep"} /\ slept' = FALSE
    BY <1>2 DEF Flush, Wake
  <2>2. UNCHANGED <<transmitting, valid, lock>>
    BY <1>2 DEF Flush, Wake
  <2>3. QED
    BY <2>1, <2>2
<1>3. CASE ReadUart
  <2>1. UNCHANGED <<transmitting, slept, valid>> /\ ~lock
    BY <1>3 DEF ReadUart
  <2>2. \/ wpc' = "poll" /\ lock' = lock
        \/ wpc' = "parse" /\ lock' = TRUE
    BY <1>3 DEF ReadUart
  <2>3. CASE wpc' = "poll" /\ lock' = lock
    BY <2>1, <2>3
  <2>4. CASE wpc' = "parse" /\ lock' = TRUE
    BY <2>1, <2>4
  <2>5. QED
    BY <2>2, <2>3, <2>4
<1>4. CASE Parse
  <2>1. /\ UNCHANGED <<transmitting, slept>>
        /\ \/ Handled
           \/ wpc' = "parseTime" /\ UNCHANGED <<lock, buf>>
    BY <1>4 DEF Parse
  <2>2. valid' \in BOOLEAN
    <3>1. Len(buf) >= 2 => buf[2].fix \in BOOLEAN
      BY DEF Buffer, TailPiece, Piece
    <3>2. QED
      BY <1>4, <3>1 DEF Parse
  <2>3. QED
    BY <1>4, <2>1, <2>2 DEF Handled, Parse
<1>5. CASE ParseMinute \/ ParseSecond
  <2>1. UNCHANGED <<transmitting, slept, valid>> /\ lock
    BY <1>5 DEF ParseMinute, ParseSecond
  <2>2. \/ wpc' = "parseSecond" /\ lock' = lock
        \/ wpc' = "poll" /\ lock' = FALSE
    BY <1>5 DEF ParseMinute, ParseSecond, Handled
  <2>3. QED
    BY <2>1, <2>2
<1>6. CASE UNCHANGED vars
  BY <1>6 DEF vars
<1>7. QED
  BY <1>1, <1>2, <1>3, <1>4, <1>5, <1>6 DEF Next, WorkerStep

LEMMA BufferNext == Receiving /\ Buffer /\ [Next]_vars => Buffer'
<1> SUFFICES ASSUME Receiving, Buffer, [Next]_vars PROVE Buffer'
  OBVIOUS
<1> USE DEF receiver, data, worker
<1>1. CASE ReadUart
  <2> DEFINE p == Head(fifo)
  <2>1. p \in Piece
    BY <1>1 DEF ReadUart, Receiving
  <2>2. CASE p.part = "head"
    <3>1. p \in HeadPiece
      BY <2>1, <2>2 DEF Piece, HeadPiece
    <3>2. buf' = <<p>> /\ wpc' = "poll"
      BY <1>1, <2>2 DEF ReadUart
    <3>3. QED
      BY <3>1, <3>2, BufAssumption DEF Buffer
  <2>3. CASE p.part = "tail"
    <3>1. p \in TailPiece
      BY <2>1, <2>3 DEF Piece, TailPiece
    <3>2. wpc' = "poll"
      BY <1>1, <2>3 DEF ReadUart
    <3>3. CASE Len(buf) < MaxBuf /\ buf' = Append(buf, p)
      <4>1. buf' \in Seq(HeadPiece \cup TailPiece) /\ Len(buf') = Len(buf) + 1 /\ Len(buf) \in Nat
        BY <3>1, <3>3 DEF Buffer
      <4>2. \A i \in 2..Len(buf') : buf'[i] \in TailPiece
        BY <3>1, <3>3, <4>1 DEF Buffer
      <4>3. QED
        BY <3>2, <3>3, <4>1, <4>2, BufAssumption DEF Buffer
    <3>4. CASE buf' \in {<<>>, <<p>>}
      <4>1. buf' \in Seq(HeadPiece \cup TailPiece) /\ Len(buf') <= 1 /\ Len(buf') \in Nat
        <5>1. CASE buf' = <<>>
          BY <5>1
        <5>2. CASE buf' = <<p>>
          BY <3>1, <5>2
        <5>3. QED
          BY <3>4, <5>1, <5>2
      <4>2. QED
        BY <3>2, <4>1, BufAssumption DEF Buffer
    <3>5. QED
      BY <1>1, <2>3, <3>3, <3>4 DEF ReadUart
  <2>4. CASE p.part = "end"
    <3>1. buf' = buf /\ wpc' \in {"poll", "parse"} /\ (wpc' = "parse" => buf # <<>>)
      BY <1>1, <2>4 DEF ReadUart
    <3>2. QED
      BY <3>1 DEF Buffer
  <2>5. QED
    BY <2>1, <2>2, <2>3, <2>4 DEF Piece
<1>2. CASE Parse
  <2>1. CASE Handled
    BY <2>1, BufAssumption DEF Handled, Buffer
  <2>2. CASE ~Handled
    <3>1. buf' = buf /\ wpc' = "parseTime" /\ Len(buf) >= 2 /\ buf[1].part = "head"
      BY <1>2, <2>2 DEF Parse
    <3>2. buf[1] \in HeadPiece \cup TailPiece
      BY <3>1 DEF Buffer
    <3>3. buf[1] \in HeadPiece
      BY <3>1, <3>2 DEF TailPiece
    <3>4. QED
      BY <3>1, <3>3 DEF Buffer
  <2>3. QED
    BY <2>1, <2>2
<1>3. CASE ParseSecond
  <2>1. buf' = <<>> /\ wpc' = "poll"
    BY <1>3 DEF ParseSecond, Handled
  <2>2. QED
    BY <2>1, BufAssumption DEF Buffer
<1>4. CASE ParseMinute \/ Flush \/ Wake
  BY <1>4 DEF ParseMinute, Flush, Wake, Buffer
<1>5. CASE Emit \/ Tick \/ LoseFix \/ ResetReceiver \/ Transmit \/ UNCHANGED vars
  BY <1>5 DEF Emit, Tick, LoseFix, ResetReceiver, Transmit, vars, Buffer
<1>6. QED
  BY <1>1, <1>2, <1>3, <1>4, <1>5 DEF Next, WorkerStep

LEMMA CountingNext == Counting /\ Receiving /\ Buffer /\ [Next]_vars => Counting'
<1> SUFFICES ASSUME Counting, Receiving, Buffer, [Next]_vars PROVE Counting'
  OBVIOUS
<1> USE CutsAssumption DEF Counting, receiver, data, worker, history, Old
<1>1. CASE Emit \/ Flush \/ Wake \/ ReadUart \/ Parse \/ UNCHANGED vars
  BY <1>1 DEF Emit, Flush, Wake, ReadUart, Parse, vars
<1>2. CASE LoseFix \/ ResetReceiver \/ Transmit
  BY <1>2 DEF LoseFix, ResetReceiver, Transmit, Disturb
<1>3. CASE Tick
  BY <1>3 DEF Tick
<1>4. CASE ParseMinute
  <2>1. buf[1].at \in Time
    BY <1>4 DEF ParseMinute, Buffer, HeadPiece, Piece
  <2>2. minute' \in 0..1
    BY <1>4, <2>1, MinuteAndSecond DEF ParseMinute
  <2>3. QED
    BY <1>4, <2>2 DEF ParseMinute
<1>5. CASE ParseSecond
  <2>1. buf[1].at \in Time /\ buf[2].at \in Time
    BY <1>5 DEF ParseSecond, Buffer, HeadPiece, TailPiece, Piece
  <2>2. second' \in 0..(Minute - 1)
    BY <1>5, <2>1, MinuteAndSecond DEF ParseSecond
  <2>3. age' \in 0..Old
    BY <1>5 DEF ParseSecond
  <2>4. QED
    BY <1>5, <2>2, <2>3 DEF ParseSecond
<1>6. QED
  BY <1>1, <1>2, <1>3, <1>4, <1>5 DEF Next, WorkerStep

(* No second begins while a line is handled, nor while bytes of the last   *)
(* one are unread, but for the one second of the worker's sleep.           *)
LEMMA RecentNext == Receiving /\ Working /\ Buffer /\ Recent /\ Linked /\ [Next]_vars => Recent'
<1> SUFFICES ASSUME Receiving, Working, Buffer, Recent, Linked, [Next]_vars PROVE Recent'
  OBVIOUS
<1> USE DEF receiver, data, worker, history
<1>1. CASE Emit
  <2>1. PICK p \in Piece :
           /\ Receive(p) /\ p.at = now
           /\ sending' \in Seq(Piece)
           /\ \A i \in 1..Len(sending') : sending'[i].at = now
    BY <1>1, EmitPiece DEF Recent
  <2>2. UNCHANGED <<now, wpc, slept, buf>> /\ wpc \in {"poll", "asleep"}
    BY <1>1 DEF Emit
  <2>3. \A i \in 1..Len(fifo') : fifo'[i].at = now \/ (i \in 1..Len(fifo) /\ fifo'[i] = fifo[i])
    <3>1. fifo \in Seq(Piece) /\ Len(fifo) \in Nat
      BY DEF Receiving
    <3>2. CASE fifo' = Append(fifo, p) /\ Len(fifo') = Len(fifo) + 1
      <4>1. \A i \in 1..Len(fifo) : fifo'[i] = fifo[i]
        BY <3>1, <3>2
      <4>2. fifo'[Len(fifo) + 1] = p
        BY <3>1, <3>2
      <4>3. QED
        BY <2>1, <3>1, <3>2, <4>1, <4>2
    <3>3. CASE fifo' = fifo
      BY <3>1, <3>3
    <3>4. QED
      BY <2>1, <3>2, <3>3, ReceiveStep
  <2>4. \A i \in 1..Len(fifo') : Fresh(fifo'[i].at)
    BY <2>3 DEF Recent, Fresh, FreshNext
  <2>5. QED
    BY <2>1, <2>2, <2>4 DEF Recent, Fresh, FreshNext
<1>2. CASE Tick
  <2>1. /\ now' = (now + 1) % Cycle /\ sending = <<>> /\ UNCHANGED <<sending, fifo, wpc, buf, lost>>
        /\ wpc \in {"poll", "asleep"} /\ slept' = (wpc = "asleep")
        /\ (wpc = "poll" /\ fifo = <<>>) \/ (wpc = "asleep" /\ ~slept)
    BY <1>2 DEF Tick
  <2>2. CASE wpc = "poll" /\ fifo = <<>>
    <3>1. Len(fifo') = 0 /\ Len(sending') = 0
      BY <2>1, <2>2
    <3>2. QED
      BY <2>1, <2>2, <3>1 DEF Recent
  <2>3. CASE wpc = "asleep" /\ ~slept
    <3>1. \A i \in 1..Len(fifo) : fifo[i].at = now
      BY <2>3 DEF Recent, Fresh, FreshNext
    <3>2. \A i \in 1..Len(fifo') : now' = (fifo'[i].at + 1) % Cycle /\ slept'
      BY <2>1, <2>3, <3>1
    <3>3. Len(sending') = 0
      BY <2>1
    <3>4. QED
      BY <2>1, <2>3, <3>2, <3>3 DEF Recent, Fresh, FreshNext
  <2>4. QED
    BY <2>1, <2>2, <2>3
<1>3. CASE LoseFix \/ ResetReceiver \/ Transmit
  <2>1. UNCHANGED <<now, wpc, slept, buf, lost, fifo>> /\ sending' \in {sending, <<>>}
    BY <1>3 DEF LoseFix, ResetReceiver, Transmit
  <2>2. \A i \in 1..Len(sending') : sending'[i].at = now
    BY <2>1 DEF Recent
  <2>3. QED
    BY <2>1, <2>2 DEF Recent, Fresh, FreshNext
<1>4. CASE Flush
  <2>1. Len(fifo') = 0 /\ wpc' = "asleep" /\ UNCHANGED <<now, sending>>
    BY <1>4 DEF Flush
  <2>2. QED
    BY <2>1 DEF Recent
<1>5. CASE Wake
  <2>1. wpc = "asleep" /\ slept /\ wpc' = "poll" /\ UNCHANGED <<now, sending, fifo>>
    BY <1>5 DEF Wake
  <2>2. \A i \in 1..Len(fifo') : FreshNext(fifo'[i].at)
    BY <2>1 DEF Recent, Fresh, FreshNext
  <2>3. QED
    BY <2>1, <2>2 DEF Recent, Fresh, FreshNext
<1>6. CASE ReadUart
  <2>1. UNCHANGED <<now, sending, slept>> /\ wpc = "poll" /\ wpc' \in {"poll", "parse"}
    BY <1>6 DEF ReadUart
  <2>2. /\ fifo # <<>> /\ fifo[1] \in Piece /\ Len(fifo) \in Nat /\ Len(fifo') = Len(fifo) - 1
        /\ \A i \in 1..Len(fifo') : fifo'[i] = fifo[i + 1]
        /\ Head(fifo) = fifo[1]
        /\ 0 \notin lost' => fifo[1].part = "head" \/ 0 \notin lost
    BY <1>6, ReadStep
  <2>3. \A i \in 1..Len(fifo) : fifo[i].at = now \/ now = (fifo[i].at + 1) % Cycle
    BY DEF Recent, Fresh, FreshNext
  <2>4. \A i \in 1..Len(fifo') : FreshNext(fifo'[i].at)
    <3>1. \A i \in 1..Len(fifo') : i + 1 \in 1..Len(fifo)
      BY <2>2
    <3>2. \A i \in 1..Len(fifo') : fifo'[i].at = now \/ now = (fifo'[i].at + 1) % Cycle
      BY <2>2, <2>3, <3>1
    <3>3. wpc' # "asleep"
      BY <2>1
    <3>4. QED
      BY <2>1, <3>2, <3>3 DEF FreshNext
  <2>5. ASSUME wpc' = "parse", 0 \notin lost' PROVE FreshNext(buf'[1].at)
    <3>1. fifo[1].part = "end" /\ buf # <<>> /\ buf' = buf
      BY <1>6, <2>2, <2>5 DEF ReadUart
    <3>2. 0 \notin lost /\ 1 \in 1..Len(buf)
      <4>1. Len(buf) \in Nat /\ (Len(buf) = 0 => buf = <<>>)
        BY DEF Buffer
      <4>2. QED
        BY <2>2, <2>5, <3>1, <4>1
    <3>3. Follows(buf[1], fifo[1])
      BY <2>2, <3>2 DEF Linked
    <3>4. buf[1].at = fifo[1].at /\ 1 \in 1..Len(fifo)
      BY <2>2, <3>1, <3>3 DEF Follows
    <3>5. QED
      BY <2>1, <2>3, <2>5, <3>1, <3>4 DEF Fresh, FreshNext
  <2>6. QED
    BY <2>1, <2>4, <2>5 DEF Recent, Fresh, FreshNext
<1>7. CASE Parse \/ ParseMinute \/ ParseSecond
  <2>1. /\ UNCHANGED <<now, sending, fifo, slept, lost>> /\ wpc # "asleep"
        /\ wpc \in {"parse", "parseTime", "parseSecond"}
        /\ wpc' = "poll" \/ (wpc' \in {"parseTime", "parseSecond"} /\ buf' = buf)
    BY <1>7 DEF Parse, ParseMinute, ParseSecond, Handled
  <2>3. \A i \in 1..Len(fifo') : FreshNext(fifo'[i].at)
    BY <2>1 DEF Recent, Fresh, FreshNext
  <2>4. wpc' \in {"parse", "parseTime", "parseSecond"} /\ 0 \notin lost' => FreshNext(buf'[1].at)
    BY <2>1 DEF Recent, Fresh, FreshNext
  <2>5. QED
    BY <2>1, <2>3, <2>4 DEF Recent, Fresh, FreshNext
<1>8. CASE UNCHANGED vars
  BY <1>8 DEF vars, Recent, Fresh
<1>9. QED
  BY <1>1, <1>2, <1>3, <1>4, <1>5, <1>6, <1>7, <1>8 DEF Next, WorkerStep

(* What is lost leaves a gap; what is not keeps its order. *)
LEMMA LinkedNext == Receiving /\ Buffer /\ Recent /\ Linked /\ [Next]_vars => Linked'
<1> SUFFICES ASSUME Receiving, Buffer, Recent, Linked, [Next]_vars PROVE Linked'
  OBVIOUS
<1> USE DEF receiver, data, worker, history
<1>1. CASE Emit
  <2>1. PICK p \in Piece :
           /\ Receive(p) /\ p.at = now
           /\ sending # <<>> => p = sending[1]
           /\ sending = <<>> => p.part = "head"
           /\ sending' \in Seq(Piece)
           /\ \A i \in 1..Len(sending') : sending'[i].at = now
    BY <1>1, EmitPiece DEF Recent
  <2>2. buf' = buf /\ fifo \in Seq(Piece) /\ Len(fifo) \in Nat /\ lost \subseteq 0..Len(fifo)
    BY <1>1 DEF Emit, Receiving
  <2>3. sending' # <<>> => Follows(p, sending'[1])
    BY <2>1 DEF Follows
  <2>4. CASE fifo' = Append(fifo, p) /\ Len(fifo') = Len(fifo) + 1 /\ lost' = lost
    <3>1. \A i \in 1..Len(fifo) : fifo'[i] = fifo[i]
      BY <2>2, <2>4
    <3>2. fifo'[Len(fifo) + 1] = p
      BY <2>2, <2>4
    <3>3. \A q : (sending # <<>> => Follows(q, sending[1])) => Follows(q, p)
      BY <2>1 DEF Follows
    <3>4. ASSUME NEW i \in 1..Len(fifo'), i \notin lost'
          PROVE  /\ i < Len(fifo') => Follows(fifo'[i], fifo'[i + 1])
                 /\ i = Len(fifo') /\ sending' # <<>> => Follows(fifo'[i], sending'[1])
      <4>1. CASE i < Len(fifo)
        BY <2>2, <2>4, <3>1, <3>4, <4>1 DEF Linked
      <4>2. CASE i = Len(fifo)
        <5>1. sending # <<>> => Follows(fifo[i], sending[1])
          BY <2>2, <2>4, <3>4, <4>2 DEF Linked
        <5>2. QED
          BY <2>2, <2>4, <3>1, <3>2, <3>3, <3>4, <4>2, <5>1
      <4>3. CASE i = Len(fifo) + 1
        BY <2>2, <2>3, <2>4, <3>2, <4>3
      <4>4. QED
        BY <2>2, <2>4, <3>4, <4>1, <4>2, <4>3
    <3>5. ASSUME 0 \notin lost', NEW i \in 1..Len(buf)
          PROVE  /\ buf[i].at = buf[1].at
                 /\ Follows(buf[i], fifo'[1])
      <4>1. /\ buf[i].at = buf[1].at
            /\ fifo # <<>> => Follows(buf[i], fifo[1])
            /\ fifo = <<>> /\ sending # <<>> => Follows(buf[i], sending[1])
        BY <2>4, <3>5 DEF Linked
      <4>2. CASE fifo = <<>>
        BY <2>2, <3>2, <3>3, <4>1, <4>2
      <4>3. CASE fifo # <<>>
        BY <2>2, <3>1, <4>1, <4>3
      <4>4. QED
        BY <4>2, <4>3
    <3>6. fifo' # <<>>
      BY <2>2, <2>4
    <3>7. QED
      BY <2>2, <3>4, <3>5, <3>6 DEF Linked
  <2>5. CASE fifo' = fifo /\ lost' = lost \cup {Len(fifo)}
    <3>1. ASSUME NEW i \in 1..Len(fifo'), i \notin lost'
          PROVE  /\ i < Len(fifo') => Follows(fifo'[i], fifo'[i + 1])
                 /\ i = Len(fifo') /\ sending' # <<>> => Follows(fifo'[i], sending'[1])
      BY <2>5, <3>1 DEF Linked
    <3>2. fifo = <<>> => 0 \in lost'
      BY <2>2, <2>5
    <3>3. QED
      BY <2>2, <2>5, <3>1, <3>2 DEF Linked
  <2>6. QED
    BY <2>1, <2>4, <2>5, ReceiveStep
<1>2. CASE LoseFix \/ ResetReceiver \/ Transmit \/ Tick \/ Wake
  <2>1. UNCHANGED <<buf, lost, fifo>> /\ sending' \in {sending, <<>>}
    BY <1>2 DEF LoseFix, ResetReceiver, Transmit, Tick, Wake
  <2>2. QED
    BY <2>1 DEF Linked
<1>3. CASE Flush
  <2>1. fifo' = <<>> /\ UNCHANGED <<buf, sending>> /\ (lost' = {0} \/ (fifo = <<>> /\ lost' = lost))
    BY <1>3 DEF Flush
  <2>2. Len(fifo') = 0
    BY <2>1
  <2>3. QED
    BY <2>1, <2>2 DEF Linked
<1>4. CASE ReadUart
  <2> DEFINE p == fifo[1]
  <2>1. UNCHANGED sending
    BY <1>4 DEF ReadUart
  <2>2. /\ fifo # <<>> /\ Head(fifo) = fifo[1] /\ fifo[1] \in Piece
        /\ fifo' \in Seq(Piece) /\ Len(fifo') = Len(fifo) - 1 /\ Len(fifo) \in Nat
        /\ \A i \in 1..Len(fifo') : fifo'[i] = fifo[i + 1]
        /\ \A i \in 0..Len(fifo') : i \notin lost' => i + 1 \notin lost
        /\ 0 \notin lost' => fifo[1].part = "head" \/ 0 \notin lost
    BY <1>4, ReadStep
  <2>3. ASSUME NEW i \in 1..Len(fifo'), i \notin lost'
        PROVE  /\ i < Len(fifo') => Follows(fifo'[i], fifo'[i + 1])
               /\ i = Len(fifo') /\ sending' # <<>> => Follows(fifo'[i], sending'[1])
    <3>1. i + 1 \in 1..Len(fifo) /\ i + 1 \notin lost
      BY <2>2, <2>3
    <3>2. /\ i + 1 < Len(fifo) => Follows(fifo[i + 1], fifo[i + 1 + 1])
          /\ i + 1 = Len(fifo) /\ sending # <<>> => Follows(fifo[i + 1], sending[1])
      BY <3>1 DEF Linked
    <3>3. QED
      BY <2>1, <2>2, <3>1, <3>2
  <2>4. ASSUME 0 \notin lost', NEW i \in 1..Len(buf')
        PROVE  /\ buf'[i].at = p.at
               /\ fifo' # <<>> => Follows(buf'[i], fifo'[1])
               /\ fifo' = <<>> /\ sending' # <<>> => Follows(buf'[i], sending'[1])
    <3>1. 1 \in 1..Len(fifo) /\ 1 \notin lost
      BY <2>2, <2>4
    <3>2. /\ fifo' # <<>> => Follows(p, fifo'[1])
          /\ fifo' = <<>> /\ sending' # <<>> => Follows(p, sending'[1])
      <4>1. /\ 1 < Len(fifo) => Follows(fifo[1], fifo[1 + 1])
            /\ 1 = Len(fifo) /\ sending # <<>> => Follows(fifo[1], sending[1])
        BY <3>1 DEF Linked
      <4>2. CASE fifo' = <<>>
        <5>1. Len(fifo) = 1
          BY <2>2, <4>2
        <5>2. QED
          BY <2>1, <4>1, <4>2, <5>1
      <4>3. CASE fifo' # <<>>
        <5>1. 1 < Len(fifo) /\ fifo'[1] = fifo[1 + 1]
          BY <2>2, <4>3
        <5>2. QED
          BY <4>1, <4>3, <5>1
      <4>4. QED
        BY <4>2, <4>3
    <3>3. buf'[i].at = p.at
      <4>1. ASSUME p.part # "head", NEW j \in 1..Len(buf) PROVE buf[j].at = p.at
        <5>1. Follows(buf[j], fifo[1])
          BY <2>2, <2>4, <4>1 DEF Linked
        <5>2. QED
          BY <4>1, <5>1 DEF Follows
      <4>2. \/ buf' = <<p>> \/ buf' = <<>>
            \/ p.part # "head" /\ buf' = Append(buf, p)
            \/ p.part # "head" /\ buf' = buf
        BY <1>4, <2>2 DEF ReadUart
      <4>3. CASE p.part # "head" /\ buf' = Append(buf, p)
        <5>1. Len(buf') = Len(buf) + 1 /\ Len(buf) \in Nat
          BY <4>3 DEF Buffer
        <5>2. i \in 1..Len(buf) \/ i = Len(buf) + 1
          BY <2>4, <5>1
        <5>3. CASE i \in 1..Len(buf)
          BY <4>1, <4>3, <5>3 DEF Buffer
        <5>4. CASE i = Len(buf) + 1
          BY <4>3, <5>4 DEF Buffer
        <5>5. QED
          BY <5>2, <5>3, <5>4
      <4>4. CASE buf' = <<p>> \/ buf' = <<>>
        <5>1. CASE buf' = <<p>>
          BY <2>4, <5>1
        <5>2. CASE buf' = <<>>
          BY <2>4, <5>2
        <5>3. QED
          BY <4>4, <5>1, <5>2
      <4>5. CASE p.part # "head" /\ buf' = buf
        BY <2>4, <4>1, <4>5
      <4>6. QED
        BY <4>2, <4>3, <4>4, <4>5
    <3>4. QED
      BY <3>2, <3>3 DEF Follows
  <2>5. ASSUME 0 \notin lost', NEW i \in 1..Len(buf')
        PROVE  buf'[i].at = buf'[1].at
    <3>1. Len(buf') \in Nat
      <4>1. buf' = <<p>> \/ buf' = <<>> \/ buf' = Append(buf, p) \/ buf' = buf
        BY <1>4, <2>2 DEF ReadUart
      <4>2. QED
        BY <4>1 DEF Buffer
    <3>2. 1 \in 1..Len(buf')
      BY <2>5, <3>1
    <3>3. QED
      BY <2>4, <2>5, <3>2
  <2>6. QED
    BY <2>3, <2>4, <2>5 DEF Linked
<1>5. CASE Parse \/ ParseMinute \/ ParseSecond
  <2>1. UNCHANGED <<sending, fifo, lost>> /\ (buf' = buf \/ buf' = <<>>)
    BY <1>5 DEF Parse, ParseMinute, ParseSecond, Handled
  <2>2. QED
    BY <2>1 DEF Linked
<1>6. CASE UNCHANGED vars
  BY <1>6 DEF vars, Linked
<1>7. QED
  BY <1>1, <1>2, <1>3, <1>4, <1>5, <1>6 DEF Next, WorkerStep

LEMMA CoherentNext == GInv /\ [Next]_vars => Coherent'
<1> SUFFICES ASSUME GInv, [Next]_vars PROVE Coherent'
  OBVIOUS
<1>s. Receiving /\ Working /\ Counting /\ Buffer /\ Recent /\ Linked /\ Coherent
  BY DEF GInv
<1> USE DEF receiver, data, worker, history
<1>1. CASE Tick
  <2>1. wpc # "parseSecond" /\ wpc' = wpc
    BY <1>1 DEF Tick
  <2>2. ASSUME age' < Old
        PROVE  \E d \in {0, 1} : now' = (minute' * Minute + second' + age' + d) % Cycle
    <3>1. age < Old /\ age = 0 /\ age' = 1 /\ UNCHANGED <<minute, second>>
      BY <1>1, <1>s, <2>2 DEF Tick, Counting, Old
    <3>2. PICK d \in {0, 1} : now = (minute * Minute + second + 0 + d) % Cycle
      BY <1>s, <2>1, <3>1 DEF Coherent
    <3>3. now' = (now + 1) % Cycle
      BY <1>1 DEF Tick
    <3>4. minute * Minute + second \in Time
      BY <1>s, MinuteAssumption DEF Counting, Time, Cycle
    <3>5. d \in Nat /\ d < Old
      BY DEF Old
    <3>6. (minute * Minute + second + d + 1) % Cycle =
            (((minute * Minute + second + d) % Cycle) + 1) % Cycle
      BY <3>4, <3>5, NextSecond
    <3>7. /\ minute * Minute + second + 1 + d = minute * Minute + second + d + 1
          /\ minute * Minute + second + 0 + d = minute * Minute + second + d
      BY <3>4, <3>5 DEF Time
    <3>8. now' = (minute * Minute + second + 1 + d) % Cycle
      BY <3>2, <3>3, <3>6, <3>7
    <3>9. QED
      BY <3>1, <3>8
  <2>3. QED
    BY <2>1, <2>2 DEF Coherent
<1>2. CASE ParseMinute
  BY <1>2, <1>s DEF ParseMinute, Coherent
<1>3. CASE ParseSecond
  <2>1. wpc' = "poll" /\ now' = now /\ minute' = minute
    BY <1>3 DEF ParseSecond, Handled
  <2>2. ASSUME age' < Old
        PROVE  \E d \in {0, 1} : now = (minute * Minute + second' + age' + d) % Cycle
    <3>1. 0 \notin lost /\ age' = 0
      BY <1>3, <2>2 DEF ParseSecond, Old
    <3>2. Len(buf) >= 2 /\ buf[1] \in HeadPiece /\ Len(buf) \in Nat
      BY <1>3, <1>s DEF ParseSecond, Buffer
    <3>3. buf[1].at = buf[2].at /\ buf[1].at \in Time
      BY <1>s, <3>1, <3>2 DEF Linked, HeadPiece, Piece
    <3>4. minute = MinuteOf(buf[1].at) /\ second' = SecondOf(buf[1].at)
      BY <1>3, <1>s, <3>3 DEF ParseSecond, Coherent
    <3>5. buf[1].at = minute * Minute + second'
      BY <3>3, <3>4, MinuteAndSecond
    <3>6. now = buf[1].at \/ now = (buf[1].at + 1) % Cycle
      BY <1>3, <1>s, <3>1 DEF ParseSecond, Recent, Fresh
    <3>7. now \in Nat /\ now < Cycle /\ now % Cycle = now
      <4>1. now \in Nat /\ now < Cycle /\ Cycle \in Nat /\ Cycle > 0
        BY <1>s, CycleIsLong DEF Receiving, Time
      <4>2. QED
        BY <4>1, ModRange
    <3>8. buf[1].at + 0 = buf[1].at /\ buf[1].at \in Nat
      BY <3>3 DEF Time
    <3>9. \E d \in {0, 1} : now = (buf[1].at + 0 + d) % Cycle
      <4>1. CASE now = buf[1].at
        <5>1. now = (buf[1].at + 0 + 0) % Cycle
          BY <3>7, <3>8, <4>1
        <5>2. QED
          BY <5>1
      <4>2. CASE now = (buf[1].at + 1) % Cycle
        <5>1. now = (buf[1].at + 0 + 1) % Cycle
          BY <3>8, <4>2
        <5>2. QED
          BY <5>1
      <4>3. QED
        BY <3>6, <4>1, <4>2
    <3>10. QED
      BY <3>1, <3>5, <3>9
  <2>3. QED
    BY <2>1, <2>2 DEF Coherent
<1>4. CASE ReadUart \/ Parse \/ Flush \/ Wake
  <2>1. UNCHANGED <<now, minute, second, age>> /\ wpc # "parseSecond" /\ wpc' # "parseSecond"
    BY <1>4 DEF ReadUart, Parse, Handled, Flush, Wake
  <2>2. QED
    BY <1>s, <2>1 DEF Coherent
<1>5. CASE Emit \/ LoseFix \/ ResetReceiver \/ Transmit \/ UNCHANGED vars
  <2>1. UNCHANGED <<now, minute, second, age, wpc, buf>>
    BY <1>5 DEF Emit, LoseFix, ResetReceiver, Transmit, vars
  <2>2. QED
    BY <1>s, <2>1 DEF Coherent
<1>6. QED
  BY <1>1, <1>2, <1>3, <1>4, <1>5 DEF Next, WorkerStep

LEMMA GInvHolds == Spec => []GInv
<1>1. Init => GInv
  <2> SUFFICES ASSUME Init PROVE GInv
    OBVIOUS
  <2>1. <<>> \in Seq(Piece) /\ <<>> \in Seq(HeadPiece \cup TailPiece) /\ Len(<<>>) = 0
    OBVIOUS
  <2>2. Receiving
    <3>1. sending = <<>> /\ fifo = <<>> /\ now \in Time /\ pending = Kinds
      BY DEF Init
    <3>2. fix \in BOOLEAN /\ silent \in BOOLEAN
      BY DEF Init
    <3>3. Len(sending) <= 2 /\ Len(fifo) <= MaxFifo /\ lost \subseteq 0..Len(fifo)
      BY <2>1, <3>1, FifoAssumption DEF Init
    <3>4. QED
      BY <2>1, <3>1, <3>2, <3>3 DEF Receiving
  <2>3. Working
    BY DEF Init, Working
  <2>4. Counting
    BY MinuteAssumption, CutsAssumption DEF Init, Counting, Old
  <2>5. Buffer
    BY <2>1, BufAssumption DEF Init, Buffer
  <2>6. Coherent
    BY DEF Init, Coherent, Old
  <2>7. Recent /\ Linked
    BY <2>1 DEF Init, Recent, Linked
  <2>8. QED
    BY <2>2, <2>3, <2>4, <2>5, <2>6, <2>7 DEF GInv
<1>2. GInv /\ [Next]_vars => GInv'
  BY ReceivingNext, WorkingNext, BufferNext, CountingNext, RecentNext, LinkedNext, CoherentNext DEF GInv
<1>3. QED
  BY <1>1, <1>2, PTL DEF Spec

-----------------------------------------------------------------------------
(* Type correctness: the FIFO and nmeaBuf are never overrun. *)
THEOREM Typing == Spec => []TypeOK
<1>1. GInv => TypeOK
  <2> SUFFICES ASSUME GInv PROVE TypeOK
    OBVIOUS
  <2>1. buf \in Seq(Piece) /\ Len(buf) <= MaxBuf
    <3>1. HeadPiece \cup TailPiece \subseteq Piece
      BY DEF HeadPiece, TailPiece
    <3>2. buf \in Seq(HeadPiece \cup TailPiece) /\ Len(buf) <= MaxBuf
      BY DEF GInv, Buffer
    <3>3. QED
      BY <3>1, <3>2, SeqMonotonic
  <2>2. lock \in BOOLEAN
    BY DEF GInv, Working
  <2>3. lost \subseteq 0..MaxFifo
    BY FifoAssumption DEF GInv, Receiving
  <2>4. QED
    BY <2>1, <2>2, <2>3 DEF GInv, Receiving, Working, Counting, TypeOK
<1>2. QED
  BY GInvHolds, <1>1, PTL

(* A line whose bytes have all been read, from its '$' on, sets the time    *)
(* right: data holds the minute and the second in which it was sent, and   *)
(* that is at most a second before it was parsed.                          *)
THEOREM TimeIsCoherent == Spec => []TimeCoherent
<1>1. GInv => TimeCoherent
  BY DEF GInv, Working, Coherent, TimeCoherent
<1>2. QED
  BY GInvHolds, <1>1, PTL
=============================================================================

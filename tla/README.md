# WSPR-ease in TLA+

Formal specifications of the WSPR-ease beacon: the firmware of the ESP32-S3
(`sw/src`), the CPLD's gateware (`FPGA/gateware.py`), the page in the browser
(`webui/www/app.js`) and the way they work together. TLC checks every module on
small instances, and TLAPS proves theorems for every value of the constants. Paths below are relative to
the repository's root.

    tlc -config MCGnss.cfg MCGnss        # a run
    tlapm TransmitterProofs.tla          # the proofs of a module

## 1. The system

The firmware runs on Zephyr on *one* core. What can interleave with what is
therefore a question of priorities:

| thread | priority | uses |
|---|---|---|
| network management (events), net stack | cooperative | `WifiManager::onWifiEvent` |
| `httpServer` | `K_PRIO_COOP(10)` | web server, `appConfig`, NVS, littlefs |
| `main` | 0, preemptive | bring-up, WiFi supervision, `isTXSlot` |
| sweep thread | 7, preemptive | class `FPGA` |
| `gnssWorker` | `K_PRIO_PREEMPT(10)` | UART, `GNSS` data, reads `FPGA::isTransmitting` |
| shell | lowest application priority | class `FPGA`, class `GNSS`, log switches |

A cooperative thread is not preempted, but it may come between any two steps of
a preemptive one. A preemptive thread comes between any two steps of a thread of
lower priority, which runs only while the higher one blocks. None of the classes
`FPGA`, `WifiManager` or the web server has a lock; only `GNSS` has one, and
only some of its readers take it.

### Components

**FPGA driver** (`sw/src/fpga.cpp`). *State:* `initialized`, `transmitting`,
`currentFreq`, the pins of amplifier and low pass filters, and in the CPLD the
Control register (`txEnable`, `softReset`, modulation mode). *Operations:*
`init`, `reset`, `setFrequency`, `startTX`, `stopTX`, `sendSymbol`, register
reads and writes over SPI with a chip select that is driven as a plain pin.
*Interaction:* called by the shell thread and by the sweep thread at the same
time. *Hard:* read-modify-write of one register by two threads, errors in the
middle of a function, a static thread object that is started again.
*Correct means:* amplifier, flag and register agree; the carrier is never
switched on into a dead amplifier; a stop is carried out.

**Shell and sweep** (`sw/src/shellcmds.cpp`). *State:* `sweepRunning`,
`sweepContinuous`, the static thread object and the step of the sweep.
*Operations:* `tx <freq>`, `tx stop`, `tx sweep`, `fpga reset`, `fpga status`
and commands that only print. *Correct means:* one sweep at a time, and it ends.

**WiFi manager** (`sw/src/wifiManager.cpp`) and **main thread**
(`sw/src/main.cpp`). *State:* `state`, `ipAddr`, `currentSSID`, three binary
semaphores; in main `wasConnected`. *Operations:* `connect`, `disconnect`,
`startAP` (no caller), the event handler; the retry loop and the monitoring
loop. *Hard:* the result of an attempt that has timed out arrives in the next
one; a disconnect is ignored in state Connecting; the link is lost between two
looks. *Correct means:* the manager is never stuck, what it believes about the
link comes right, and a loss leads to a new connection.

**GNSS receiver and clock** (`sw/src/gnss.cpp`). *State:* the UART's FIFO,
`nmeaBuf`, `data` (validity, time, position) and its mutex. *Operations:*
`processLoop`, `parseNMEA`, `reset`, `isTXSlot`, the getters. *Interaction:* the
worker throws input away while `FPGA::isTransmitting`. *Hard:* sentences cut and
joined by that, by a reset or by a full buffer; time fields written one by one.
*Correct means:* a line that was read without a gap sets the time right, and after
a disturbance the clock comes back. A line with a gap may set it wrong; nothing in the
code can tell.

**Clock synthesizer** (`sw/src/Si5351.cpp`). *State:* `rfBaseFreq`,
`pllaFreq`, `ms0` and the registers of the chip. *Operations:* `init`,
`setCarrierFreq`, `tuneCarrierOffset`, `setClockOutputsEnabled`. *Correct
means:* the best divider for every band, the VCO within its limits.

**Gateware** (`FPGA/gateware.py`). *State:* two ring counters, a pipeline of
multiplier and lookup tables, the gate drives, and around them the SPI register
block, the PPS counter, the I2S receiver, a delay line and a clock crossing.
*Interaction:* CLK0 of the synthesizer is its RF clock, CLK2 its system clock;
the firmware writes the Control register. *Correct means:* the drive that belongs to counter and phase
is on in each mode, with stages of different pipelines in step;
each word from the I2S bus in its register, whole and once, in both clock domains.

**Web server** (`sw/src/webserver.cpp`). *State:* one connection and its request
buffer, `appConfig`, NVS, the files in littlefs. *Operations:* start, receive,
GET/PUT config, GET/PUT/DELETE files, status. *Hard:* requests that come in
segments, stop in the middle or overrun the buffer; power lost between two
steps; one thread for all clients. *Correct means:* what is in use is what is
stored, a file holds what was received, no silent client stops the server.

**Web page** (`webui/www/app.js`). *State:* the form, what the last load brought
(`originalConfig`), a working copy (`currentConfig`), `isDirty`, and the requests on
their way. *Operations:* edit, save, cancel, load, reload when the server has
another version. *Interaction:* with the device, or with the **mock web server**
(`webui/src`) that stands in for it and takes no configuration (`fromJson` always
fails). *Hard:* everything is asynchronous, nothing is disabled while a request is on
the way, answers are lost or overtaken, and the device loses power. *Correct
means:* a page whose buttons are off shows what was loaded, and what the device uses if
nothing came between; a load after a save shows what the device took of it; saves end;
an outdated page is replaced.

**Not modelled**

* *Captive DNS* (`captiveDNS.cpp`): nothing starts it, and it keeps no state
  between packets.
* *File system mount*: one call at start. What littlefs keeps over a power failure
  is an assumption of `WebServer`.
* *Log manager*: switches that decide which lines are printed.
* *SPI register block, PPS counter, PDM* of the gateware: the register block does not
  elaborate as committed (undefined names), and nothing in the firmware reads or
  drives the other two. The Control register is modelled as the firmware uses it.
* *Register generator, build scripts, simulator test bench* (`tbTop.cpp`): no part
  of the running system. `webui/src/httplib.h` is vendored.
* *Operations without a caller:* `startAP`, `updatePolarMod`, `writeRegister`,
  `WebServer::stop`, `GNSS::start` and `stop` after `init`.
* *In the page:* the status display, the file list and the transmit button, each
  one a request and a display of its answer; and a second browser: a save sends every
  field, so that the last writer wins.

### How the parts interact

    shell ---+                             +--> Si5351 --CLK0--> sequencer --> gates
             +--> FPGA driver --SPI/I2C----+                        ^
    sweep ---+         |                   +--> Control register ---+
                       | isTransmitting
                       v
    UART ------> GNSS worker --> data --(mutex)--> isTXSlot --> main
                                                                 |  connect()
    radio, DHCP --events--> onWifiEvent --semaphores, state--> WifiManager
                                                                 |
    page --TCP----> httpServer --> appConfig <--> NVS, littlefs  +--> starts server

    I2S master --> receiver --> delay line --toggle, word--> phase_rf (clock CLK0)

## 2. Modules

| module | models | extends |
|---|---|---|
| `Transmitter` | class `FPGA`, the tx and fpga commands, the sweep thread, the Control register | |
| `WifiManager` | `connect`, `disconnect`, `onWifiEvent`; radio and DHCP as environment | |
| `Supervisor` | the main thread, composed with `WifiManager` | `WifiManager` |
| `Gnss` | the GNSS worker, its parser, `isTXSlot`; receiver and UART as environment | |
| `Si5351` | the synthesizer's driver and what it sets in the chip | |
| `Sequencer` | the RF sequencer, one step per clock edge | |
| `Exciter` | `Sequencer` running on the clock that `Si5351` makes | both |
| `WebServer` | the server thread, configuration, NVS, one file; clients and power as environment | |
| `ConfigStore` | what the web server promises about its configuration (abstract) | |
| `WebPage` | the page, in front of a device that is a `ConfigStore`, or of the mock server | `ConfigStore` |
| `PhasePath` | I2S receiver, delay line and clock crossing of the gateware | |
| `WordCrossing` | what a clock crossing promises (abstract) | |
| `TransmitterProofs`, `SupervisorProofs`, `GnssProofs`, `ExciterProofs`, `WebServerProofs`, `WebPageProofs`, `PhasePathProofs` | theorems | the module they are about |
| `ControlProofs` | theorems on the Control register | `TransmitterProofs` |
| `MC...` | the values TLC uses | |

An operator named "Mutation of X" above X in a module is a plausible mistake in X.
Nothing uses it; put in the place of X it makes one of the properties fail, which
shows that the property depends on that part of the code.

### Transmitter

One step is what a thread does between two points where the other one can act.
`pc[t]` says where thread `t` is, `call[t]` for which function of `FPGA` it is in
a transfer, `dir`, `image` and `ok` are its local variables. `CanRun` is the
scheduler: the sweep thread has the higher priority, so the shell runs only while
the sweep thread sleeps, waits for I2C, or waits for the SPI driver's lock.
A transfer is Select (NCS low), Acquire (the driver's lock), Clock (the bits) and
Deselect (NCS high); because NCS is outside the lock, `frame` tells whether NCS has
fallen since the last transfer. A transfer that does not start on a falling NCS
is lost without an error (`voided`), and a read in it returns any value.
At most two transfers can fall into one NCS frame, as there are two threads.

* The polarity of NCS is taken as the firmware drives it. In `gateware.py` as
  committed the synchronized select is inverted (lines 132 and 168), the register
  block does not elaborate, and its signature 0x57535052 is not the 0x52505357 the
  firmware compares with; `FPGAInit` therefore covers a device that answers and one that
  does not.
* `FPGA::init` is one step: every other operation tests `initialized` first.
* `Overlap` is the set of commands the operator gives while a sweep is alive.
  The documented use is `tx stop`. With every command allowed the code keeps few
  promises: the run `transmitter_reuse` shows the thread object started twice, and
  `AmplifierFollowsFlag`, `ControlAgrees` and `StopStops` fail then as well.

### WifiManager and Supervisor

`connect()` is one action per step between which an event can be handled; `wpc`
is its program counter. `onWifiEvent` is one action, since its thread is
cooperative. `queue` holds the events raised and not yet delivered, so that a late
answer can arrive in a later attempt. A wait with a timeout ends whenever its
semaphore is not given. The radio joins, fails, loses the link and raises the
disconnect event in the middle of a join that a comment of the driver code
describes. `Supervisor` adds main's steps; `LinkLost` can come between any two of
them.

### Gnss

A sentence is three pieces, head (type, hours, minutes), tail (seconds and
later fields) and line end; the FIFO and `nmeaBuf` hold pieces. While the
transmitter is on the worker empties the FIFO once a second and keeps `nmeaBuf`.
Parsing is three steps under the mutex, one for each group of fields that is
written on its own. Pieces of different sentences are joined in `nmeaBuf` wherever something between them was
thrown away or overrun, and the parser takes them as the code does: no checksum is tested.
Two variables are history and no guard reads them: `lost`, the places of the FIFO after
which pieces were lost, and `age`, the seconds since a line without a gap was parsed
(`Old` from two on). `TimeCoherent` is about such lines only. A line with a gap may set the
minute of one sentence and the second of another, which is one of the two ways to break `SlotOnTime`.

### Si5351, Sequencer, Exciter

`BestDivider` is the loop of `setCarrierFreq` as a recursive function.
Frequencies are in units of 100 Hz; the fraction of the PLL is exact.
I2C errors are ignored, as the code ignores them. `Sequencer` has one variable per
register of the gateware; the control bits pass two-stage synchronizers in which
the first stage may catch the old or the new value, and the phase may be torn on
its first edge. The DSP block has no output register, as its parameter
`TOPOUTPUT_SELECT` is 0. The I2S phase of modulation mode 2 is left out: the target
phase is any of `Phases`, whoever sends it.

The documents ask for more than the code has, and the properties claim no more than
it has. `DividerIsBest` is what the loop looks for, an even divider; the comment on it says a
multiple of 6. `DrivesFollowPhase` says that the pipelines are in step, for target phases up to one
step of the table: beyond, the sum of the phases does not wrap at a turn as `FPGA.md:113` has it.
The noise that stage 3 of `FPGA.md` adds to the phase is not in `gateware.py` at all, and so not
in `Sequencer`. That CLK0 is six times the carrier in both modes, where the documents have 15 and
5 times, is in no property: `Exciter` runs the rings on whatever clock there is. Section 3 lists these
disagreements.

### WebServer

A request is counted in pieces: the request line with Content-Length, the
rest of the headers, and each field or block of the body. A segment is any number of
pieces. If Content-Length itself arrives late the server stops receiving at
once, which is a case of `RecvBreak` or of a first segment without body. `cut` says that
a part of the next piece is there. What counts as body is `counted`: header bytes
that arrive in a later segment are counted as body, as in the code. Reading an NVS
entry of the wrong size is taken together with NVS that cannot be mounted:
both leave the defaults. `PowerLoss` may come between any two steps; what a file was
given before it is closed is lost then (littlefs), what NVS was given is kept.
A GET is one kind of request, answered by `SendContent`; the text of JSON and the
paths are left out.

`Store` is the refinement mapping onto `ConfigStore`: the phase is `changed` at the
label `save`, `off` without power and `idle` everywhere else, `mem` is `appConfig`,
`kept` is `nvs`. So receiving, files and answers are stuttering steps, and nothing but
`ConfigPut`, `SaveConfigToNVS`, `Start` and `PowerLoss` may touch what the store holds.

### ConfigStore and WebPage

`WebPage` does not know of segments, buffers and threads: its device is the
`ConfigStore` that `WebServer` has been shown to implement, so that the two models together
cover the way from the form to NVS. `ops` are the requests on their way, each with its
place (sent, handled, answered, failed) and, for a save, the body. `LoadArrives` is
`loadConfig` after its fetch, `SaveArrives` the step from a good answer to the load that
follows it. A reload gives up the loads; saves on the way go on and are answered to
nobody. `Body` is `gatherConfigFromUI`: it changes the bands of `currentConfig` in
place, because the copy made with `...` is shallow, and the other fields in the body
only. `Reads` is what the conversions make of a field (capitals; `|| 1440`, which turns
an offset of zero into 1440). `Stored` are the fields the device keeps; the time
windows of the page are not among them.
A body may break off anywhere, as `WebServer` shows that a receive timeout makes it: `ServeSave`
takes any front of it, in the order `Place`, and answers ok (`Merged`). The value it breaks off in
is not taken if it is a text, and may become one of `Cut` if it is a number or a switch. `Takes`
is what `getJSONString` makes of a value: cut where the array of the field is full and at
a quote, of which it keeps the backslash. With a value of `Broken` in use the answer to a load is
not JSON, and the load fails (`ServeUnreadable`).
`files` and `page` are the versions of `app.js` in the file system and in the browser.
`loaded`, `trusted`, and `asked`, `was` and `sure` of a request are history: what the last
load brought, what a save asked for and what the device had before it, and whether anything
came between. `LoadShowsTaken` compares the load after a save with what the save asked for and
what the device had: a front of the one, as the device takes it, and the other behind it.

### PhasePath and WordCrossing

Time is explicit: `toSync` and `toTx` are the distances to the next edges of the two
clocks, and a step is the next edge, or both edges when they fall together. There a
register that samples the other domain gets the old or the new value, and a word
that changes in that moment may come out as `Torn`. The I2S master is a third clock:
half a bit clock is any number of sync periods from `Halves`, at every edge anew. The
registers are those of the gateware, one variable each, with fewer bits and taps.
`Crossing` maps them onto `WordCrossing`, a handshake that takes each offered word whole,
once, and before the next one; a word is on its way from the flip of the toggle to the
load of `phase_rf`. `CrossSafety` is its safety part (`WordsCross` says that it is implemented),
`CrossLiveness` says that each word gets across (`WordsArrive`). With slots of exactly as many bit clocks as a word has bits the receiver
would never copy a word (it takes bit 16 on the 17th rising edge); no code in
this repository drives the bus, so `Slots` are assumed longer. They may be longer by 64 at the most: then `bitCount`,
which has six bits, comes round to the number it copies at, and the zeros behind the word are copied
as a word (TLC finds this with a slot of 67 bit clocks and words of two bits).

## 3. Runs

| run | shows | result |
|---|---|---|
| `transmitter` | `AmplifierFollowsFlag`, `ControlAgrees`, `NoCarrierBeforeAmplifier`, `StopStops`, `SweepEnds` with `tx stop` during sweeps and one failing transfer | holds, 123,054 states |
| `transmitter_reuse` | `NoThreadReuse` with every command at any time | violated |
| `supervisor` | `ConnectingOnlyInConnect`, `ConnectedNotDown`, `RememberedLossRepaired`, `ConnectReturns` | holds, 118,893 states |
| `supervisor_loss` | `LossRepaired` | violated |
| `gnss` | `TimeCoherent`, `TimeRecovers` | holds, 593,008 states |
| `gnss_slot` | `SlotOnTime` | violated |
| `exciter` | `DividerIsBest`, `RingsAligned`, `DrivesFollowPhase` | holds, 1,320,927 states |
| `exciter_vco` | `VCOInRange` | violated |
| `web` | `ImplementsStore`, `ConfigDurable`, `FileBeginsWithReceived`, `ServerReturns` | holds, 505,922 states |
| `page` | `CleanShowsLoaded`, `TrustedPageIsTrue`, `LoadShowsTaken`, `SaveEnds`, `PageUpdates` | holds, 64,011 states |
| `crossing` | `EachWordReceived`, `WordsCross` and `WordsArrive` (the refinement of `WordCrossing`) | holds, 1,386,718 states |
| `crossing_fast` | `SafeCrossing` on 12 m and 15 m | violated |

Each passing run also checks the `TypeOK` of its module. The violated
properties state what a comment or a document of the repository says; what the
code does instead:

* **`tx stop`, `tx sweep`** in quick succession starts the static thread object of the
  sweep again while the old sweep still runs on its stack (`shellcmds.cpp:101`).
* **A loss of WiFi** between the return of `connect()` and main's next reading of
  `isConnected` is never repaired, because `wasConnected` is read afresh after the
  look (`main.cpp:166`).
* **A slot** is reported at a wrong time when GGA, which carries a fix and sets no
  time, makes the data valid (`gnss.cpp:259`). A mixture has the same effect: during a transmission what
  arrives is thrown away and `nmeaBuf` stays as it is, so that the head of one RMC sentence is joined to
  the tail of another and taken as a time (`gnss.cpp:115`), under the mutex that is to "keep GNSSData coherent"
  (`gnss.cpp:144`). With a receiver that sends no GGA TLC finds a slot a whole minute off in this way. The next
  line without a gap puts the time right, which is `TimeCoherent`.
* **The VCO** runs at 1687 MHz on 10 m: no divider fits and the default 10 is
  used unchecked (`Si5351.cpp:79`). Nor is the divider the "multiple of 6" of the same comment: the loop
  goes on by 2 and takes 38 on 80 m and 10 on 20 m (`Si5351.cpp:83`).
* **The clock crossing** of the phase word is called safe, but the word itself changes one
  sync edge after the toggle that announces it, and is loaded three to four txClk
  periods after. On 12 m and 15 m that window holds the change, and bits of two
  words may be loaded; on 10 m the load always comes first and is one word late; from
  17 m down it is safe, which is the run `crossing` (`gateware.py:520`).

Seen while modelling, and stated by no run: CLK0 is six times the carrier in both modes
(`Si5351.cpp:76`), where `FPGA.md:59` has 15 times and `FPGA.md:60` 5 times (so too
`FPGA-clocking.md:64`), the lengths of the two rings of the gateware, so that the wave at the
gates has 6/15 or 6/5 of the frequency asked for; the sum of base and target phase is to wrap at a turn
(`FPGA.md:113`), but only the target phase goes through the multiplier, and past a turn the sum names a state that
no wave has, in which no gate is driven (`gateware.py:704`; the firmware sends no phase but zero,
the I2S bus may bring any); `setLPFBand` is called once, for 20 m, so the
low pass filter does not follow the frequency (`fpga.cpp:131`); the dither of
`FPGA.md` is not in the gateware; an upload shorter than the file leaves the old end in place (`webserver.cpp:440`); `strtok_r` joins
empty fields, so that an RMC sentence without a course sets no date (`gnss.cpp:220`);
a quote in a text field is cut by `getJSONString`, the backslash before it is kept and breaks
the JSON of every later GET (`webserver.cpp:293`, `252`), after which the page can load, and so save,
nothing any more; a body cut by the receive timeout is applied as far as it came and answered with
ok (`webserver.cpp:639`); a load that was overtaken still turns the buttons of the page off over an old
configuration (`app.js:72`); the mock server writes its defaults over its file at
each start, where `webui/README.md:177` says the configuration persists
(`config_manager.hpp:160`, `main.cpp:39`).

### Bounds

* `transmitter`: frequencies on both sides of 10 MHz, where the wave shape
  changes; a sweep of three frequencies, so that there is a first, a middle and a last step
  with both wave shapes; one failing transfer, at any transfer.
* `supervisor`: three undelivered events: the late answer of an attempt, a loss, and the
  answer to the next attempt.
* `gnss`: a minute of three seconds has a second 0 and others; two minutes have an
  even and an odd one, the modulus of `isTXSlot`. Buffer and FIFO of two pieces hold
  a whole sentence without its end, and overflow with one more. One disturbance
  (transmission, reset or lost fix), at any time; two meet only what one leaves.
* `exciter`: the nine bands of `band.hpp` and both ends of a sweep as carriers, each
  set after each other one; all fifteen and five states of the rings at every
  change of each control bit; target phase 0 and one step of the table. An input
  changes when the pipeline has settled, since an SPI write takes hundreds of
  edges.
* `web`: a file that overruns the buffer, one that fits and one shorter; a string
  and a number field; every segmentation, every stop and every power failure.

* `page`: the callsign, which is turned into capitals, is too long or holds a quote; the switch of
  a band, changed in place and off when it is cut; and a time window, changed in place and not
  kept by the device. Two requests on the way at once, which is a save or load overtaken by
  another (`MaxOps`); one power failure at any time (`MaxFails`); one edit (`MaxEdits`), which can be saved,
  cancelled and saved again, after a failure as well. Two edits, as of two saves with different bodies, make
  1,061,060 states: TLC finds the safety properties to hold there too, but liveness takes too long for a run; the
  theorems are for any number.
* `crossing`: the sync period has 8 units, txClk periods of 3, 8 and 15 stand for 17 m (the
  fastest safe one), for equal clocks, and for 80 m; every offset between the clocks. Words of
  two bits from {1, 3}, two taps, amplitudes that select both; slots of one and two
  bit clocks more than a word needs; 2 or 3 sync periods for half a bit clock, the shortest
  the receiver can sample. `crossing_fast`: 48 units, periods 13 (12 m) and 15 (15 m).

`CHECK_DEADLOCK` is on in all runs.

### Fairness

* `Transmitter`: weak for the sweep thread, which runs whenever it is ready;
  strong for the shell, which is held up again and again, but gets its turn each
  time the sweep thread blocks, and every step of a sweep blocks in I2C and
  `k_msleep`. Nothing is assumed of the operator, nor of the success of a transfer.
* `Supervisor`: weak for the main thread and for the event thread. Each wait of
  `connect()` has a timeout in the code, hence its end is a step of main. Nothing is
  assumed of the radio: it may never join.
* `Gnss`: weak for the worker (it polls each millisecond), for the receiver and
  for the clock. That the receiver finds a fix is not assumed.
* `WebServer`: weak for the end of a wait (the receive timeout of two seconds) and for
  the handlers. Not for sending the answer to a GET, which has no timeout: a client that does not
  read holds the server. The short answers to a PUT and a DELETE are
  assumed to fit the client's window. Nothing is assumed of the clients.
* `WebPage`: weak for the return of power, for what the browser does with an answer, and for
  each request to be served or lost (a fetch ends). Strong for `CheckVersion`: the page
  asks every ten seconds, and what the cache serves in place of a new `app.js`
  expires within the hour, however often power fails in between. Nothing is
  assumed of the user.
* `PhasePath`: weak for the next edge: both clocks run.

## 4. Proofs

Each safety invariant and action property that a passing run checks is a theorem as well, and so
are the safety parts of both refinements. TLC checked each strengthening below as an
invariant of the run before it was proved.

`TransmitterProofs` (for all frequencies, numbers of steps and numbers of errors)

* `Typing`: `Spec => []TypeOK`. `TypeOK` is not inductive: that a sweep's step
  stays within `Steps + 1` depends on where the sweep thread can be. `Flow` says
  that it is only ever in `setFrequency` and in `stopTX`, and that within
  `setFrequency` and the sleep after it the step is a step of the sweep.
* `AmplifierSafe`: `AmplifierFollowsFlag`, under the assumption `Disciplined`, that no
  `tx` and no `tx sweep` is given while a sweep is alive. This is needed: the run
  with every command breaks the property. The strengthening adds `Starting` (the
  shell is on its way into a transmission only while no sweep lives) and
  `Switching` (what flag and pin are at each label between test and
  pin), so that two threads are never at a `startPA` and a `stopPA` that would
  leave them apart.
* `ThreadFree`: under `Disciplined` `NoThreadReuse` holds, which the run `transmitter_reuse` refutes
  without it.

`ControlProofs` (the same, with `tx stop` and `fpga status` beside a sweep)

* `RegisterAgrees`: `ControlAgrees`. The two threads read, modify and write one register
  without a lock of their own, so the argument is about what each of them has read: `Locking`
  (the priorities keep the shell out between the read and the write of the sweep thread), `Images`
  (a word on its way back is what its function makes of the register as it is now; only the
  word of a `tx stop` may be older, and then `txEnable` is off in it) and `Agreed` (register, flag
  and frequency agree but for what a pending call is about to write). The assumption `Careful` is stronger than
  `Disciplined`: `fpga reset` beside a sweep writes back a word read before the sweep's
  last write.
* `AmplifierBeforeCarrier`: `NoCarrierBeforeAmplifier`, from the same invariant, with no
  condition on the transfers that fail.

`SupervisorProofs` (for every length of the event queue)

* `Typing`: every state has its type; the semaphores stay binary.
* `NeverStuckConnecting`: outside of `connect()` the state is not Connecting. The
  strengthening bounds, for each step of `connect()`, what the state can be there.
* `LossIsNoticed`: `ConnectedNotDown`. `LossKnown` looks at the last event of the queue: while
  the link is down, either the state does not say Connected and nothing in the queue makes it
  say so, or a disconnect comes last.

`GnssProofs` (for minutes of any length and buffers of any size)

* `Typing`: neither FIFO nor `nmeaBuf` is overrun.
* `TimeIsCoherent`: `TimeCoherent`. `Buffer` says that `nmeaBuf` holds tails and perhaps one head before
  them, and a head and a tail where a time is taken from it; `Recent` that what is in the FIFO
  was sent in this second or, after a sleep of the worker, in the last, and so was a line that is parsed, unless
  something was lost in it; `Linked` that a piece and the next one, where nothing was lost between, are of
  one sentence or the next is a head, from `nmeaBuf` over the FIFO to the line; and
  `Coherent` that minute and second are those of the line parsed, `age` seconds ago, but while
  the minute is new and the second is not. That an unbroken line is one sentence is therefore
  proved, not assumed. The lemmas before it are the arithmetic of a clock that wraps.

`ExciterProofs` (for all carriers, offsets and phases)

* `Aligned`: the ring counters never drift apart. The lemma `NextRings` is the
  arithmetic of one step.
* `Drives`: `DrivesFollowPhase`. A pipeline is proved by history: `Shifting` and `Looking` say what each
  stage holds in terms of the place the ring had `k` edges ago (`Ago(k)`), for each stage that has
  been filled since the last change of an input, and `Driving` what the drives are nine edges after.
* `BestOfAll`: `DividerIsBest`, for carriers of any number and size. `Divider` is a recursive
  function; `LoopExists` shows that it is one and `LoopStep` what one turn of the loop does.
  As no theorem of induction can be cited here, `LoopBest` takes the least candidate
  at which the claim fails (`FromTwo`) and refutes it. `SInv` adds that registers and chip
  agree.
* `VCOStays`: `VCOInRange`, which `exciter_vco` refutes, holds for carriers from 666.7 kHz to 25 MHz, that
  is on every band but 10 m. `SomeDividerFits` is the arithmetic: up to 25 MHz the multiples that two
  neighbouring dividers make are no further apart than the range is wide.
* `Typing`: dividers are even and in range, registers keep their widths.

`WebServerProofs` (for all bodies, fields, values, blocks and sizes of the buffer)

* `ServerImplementsStore`: `Spec => ImplementsStore`, the safety refinement onto
  `ConfigStore`. `Shape` is the invariant it needs: types, that only a PUT of a
  configuration is ever applied, that a request is received no further than it is
  long, and that without power the defaults are in place. `FieldAfterType` is the lemma
  on the handler: whatever arrived, each field gets a value a field may have.
* `ConfigIsDurable`: `Spec => []ConfigDurable`, from the refinement: `StoreKeepsDurable`
  argues on the steps of the abstract store only. It needs that an empty NVS is
  not a configuration, hence `ValueAssumption`.
* `Typing` and `FileHoldsReceived` (`FileBeginsWithReceived`): `Counts` bounds what was received,
  `Files` relates the open file to the handler's place, `Written` says that what is written so
  far is the beginning of the file; `OverBegins` is the lemma on overwriting a longer file.

`WebPageProofs` (for every number of requests, edits and failures, every set of fields)

* `CleanPage`, `TrustedPage`, `TakenIsShown` (the action property `LoadShowsTaken`) and `Typing`
  rest on one invariant `PInv`: the types of `Device` and `Slots`; `OneHandled` (the device
  handles one request when its configuration is changed, and none otherwise); `Copies` (what form, original and copy have in
  common while the buttons are off); `Sole` (a request that is sure is alone); `Truth` (what a trusted
  page shows is what the device uses, or without power what it will start with); and `Asked` (at each
  place of a sure save's way, how its body, what was asked for and what the device had are related). The lemmas
  `ServeSaveOps` and `MergedIsConfig` carry this over a body that breaks off, for any order of the fields
  and any `Takes` and `Cut`.

`PhasePathProofs` (for every width of the words, delay line, frame and register value)

* `Typing`: every register keeps its width, the tap stays in the delay line.
* `Implements`: `WordsCross`, step by step, under the assumption `InTime`: a txClk period is longer
  than a third of a sync period and shorter than `Bits + 1` of them. With the sync clock at
  40 MHz and txClk at six times the carrier these are carriers below 20 MHz and above
  about 0.4 MHz, which takes in 160 m to 17 m. Beyond the first bound the property fails: the run
  `crossing_fast`. `OneOnItsWay` says how far the toggle has come, `Follows` which register
  holds the word that is announced, and `Timely` compares the time until the load with the time
  until the next word is copied (`ToLoad`, `ToCopy`).
* `Whole`: under `InTime` `SafeCrossing` holds, the very property that `crossing_fast` refutes.
* `EachReceived`: the action property `EachWordReceived`, for every ratio of the clocks (`InTime` is not
  needed), under `FitsCounter`: a slot has at most 64 bit clocks more than a word, the exact
  limit of the six bits of `bitCount`. `Place` is the place of the rise that is on its way to the
  receiver; the line itself may have gone on. `Syncs` and `DataSteady` say when SYNC and data
  change, `Counted` that `bitCount` is `Place`, `Owing` that a word is owed exactly while its last
  rise is on its way, and `Gathered` that `shifterR` ends with the bits that have come. The lemmas
  on powers and remainders before it (`ShiftIn`, `PowerSplits`, `EndsMoves`) show that a bit
  shifted in is the next bit of the word.

Only model-checked: every liveness property (`StopStops`, `SweepEnds`, `RememberedLossRepaired`,
`ConnectReturns`, `TimeRecovers`, `ServerReturns`, `SaveEnds`, `PageUpdates`, `WordsArrive`), as
fairness and ENABLED are out of the prover's reach.

## 5. Plan

Done, in this order: `Transmitter` (the part that can damage hardware), its
proofs, `WifiManager`/`Supervisor`, `Gnss`, the exciter, `WebServer`, its abstract
`ConfigStore` with the proof of the refinement, `WebPage` on top of it, and
`PhasePath` with `WordCrossing`; then the theorems of section 4.

Next, models: the tokens of NMEA sentences, which `strtok_r` shifts when a field is
empty; a transmitter that is off, starting, on or stopping as the abstract
specification of `Transmitter`; the SPI register block, once it elaborates.

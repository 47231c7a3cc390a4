# A TLA+ development of RepRapFirmware for the Da Vinci Jr 1.0

The firmware is a fork of RepRapFirmware 3 for a printer with two processors.
The main one, an Atmel SAM4E (the *host*), runs RepRapFirmware under FreeRTOS.
The second one, an NXP LPC1115 (the *coprocessor*), drives the hotend heater,
its thermistor, two fans, a filament sensor and an LED, and is connected to the
host by an on-board UART. The link and the coprocessor's firmware are this
repository's own; the rest is inherited (`src/VENDORED_VERSIONS.md`). The link
was therefore verified first: two processors, three threads of control and an
interrupt decide together whether a heater is on. The services of the inherited
firmware on which tasks depend together come second: the reader-writer lock, the
UART buffers, pauses of a print, events, reply buffers and the heap.

## 1. Inventory

### The parts and how they interact

| part | code | state it keeps | operations |
| --- | --- | --- | --- |
| thermal controller | `LpcFirmware/src/Thermal.cpp` | heater state, error, link-timeout latch, PWM output, configuration flags, fault timers, counter of bad samples, status flag | one handler per frame; `Control` every 250 ms; `TakeStatus`; the SysTick interrupt `Tick` |
| coprocessor main loop | `LpcFirmware/src/main.cpp` | `needsConfiguration`, the decoder | reads bytes, runs `Thermal::Spin` after each, handles frames, then reports pins and status |
| coprocessor pins | `Gpio.cpp`, `Pwm.cpp` | mode and last value of each pin, timer registers | `Configure`, `Write`, `Poll`, `Set` |
| frame protocol | `Shared/src/LpcProtocol.cpp` | decoder state, index, checksum | `Encode`, `Feed`, `Reset` |
| link on the host | `Hardware/SAM4E/LpcInterface.cpp` | `online`, `connectionGeneration`, ping and pong times, every configuration payload, pin states, last thermal status, `firmwareUpdateActive`, `transmitMutex` | `Spin` (main task), the `Configure...` functions, `CommandHeater`, `SetPinMode`, `WritePin`, `WritePwm`, `GetThermalStatus` |
| heater on the host | `Heating/LpcHeater.cpp` | `mode`, `connectionGeneration` copy | `Spin` (heat task), `SwitchOn`, `SwitchOff`, `Suspend`, `ResetFault` (main task) |
| heat management | `Heating/Heat.cpp`, `Heater.cpp`, sensors | heaters, sensors, monitors, locks | heat task, G-codes, `SwitchOffAllLocalFromISR` |
| ISP updater | `Hardware/SAM4E/LpcIspUpdater.cpp` | progress of an update; the coprocessor's flash | `M997 S3` |
| host UART | `CoreN2G/.../AsyncSerial.cpp`, `RingBuffer.h` | two ring buffers, `txWaitingTask`, the interrupt mask | `write`, `read`, `flush`, `ClearReceiveBuffer`, the interrupt |
| RTOS interface | `RRFLibraries/src/RTOSIface` | mutexes, reader-writer locks | `LockForReading`, `LockForWriting`, `Release...`, `DowngradeWriter` |
| G-code processing | `GCodes/*` | channels and their states, `pauseState`, the move waiting to be taken, the queue of deferred commands | `DoFilePrint`, `DoAsynchronousPause`, `ProcessEvent`, ... |
| motion | `Movement/*` | DDA ring, `scheduledMoves`, `completedMoves` | `MoveLoop`, `Spin`, `PauseMoves` |
| platform | `Platform/*` | event list, output buffers, heap of strings and arrays | `AddEvent`, `Allocate`, `Release`, `GarbageCollect`, ... |
| networking | `Networking/*` | sessions, the stored reply, what each responder sends | `SendGCodeReply`, `SendData`, `CheckSessions` |
| storage, devices, monitors | the rest of `RepRapFirmware/src` | files, fans, endstops, tools | inherited |
| vendored code | most of `CoreN2G`, `FreeRTOS`, `CANlib`, `WiFiSocketServerRTOS`, Fatfs | - | third party |

The host pings once a second. A pong says whether the coprocessor needs its
configuration; a pong of that kind, or the first after three silent seconds,
makes the host send everything it remembers, from `configurationReset` to
`configurationComplete`. The coprocessor sends a status whenever it has changed
or been sampled; `LpcHeater::Spin` turns a missing status, a new connection or a
fault into a heater fault on the host. When the coprocessor has heard no ping
for `LinkTimeoutMillis` it turns the heater off by itself, in the interrupt.

On the host, the Main task runs the G-code channels one after the other; the Move
task, of higher priority, takes the one move that GCodes holds and keeps the ring
of moves going; the Network task serves the clients; the heat task watches the
heaters. They share the movement ring, the event list, the output buffers and the
heap through critical sections, mutexes and the reader-writer lock.

### What is hard, and what must hold

* **Interrupt against main loop** (coprocessor). `Tick` may write the heater, the
  state, the error, the latch and the status flag between any two accesses of a
  handler, of `Control` or of `TakeStatus`. Must hold: after a timeout the
  heater stays off until it is unlocked; a silent host means a cold heater;
  a heater that is on is supervised; no fault and no status is lost.
* **A lossy link without acknowledgements**. A frame that fails its checksum is
  dropped. Must hold: what the coprocessor has is what the host remembers, once
  the link is quiet; the two sides find each other again; off is obeyed; pins
  drive and read what they should; no heater model is a mixture of two.
* **Reboots of either side**, with frames of the earlier life still under way.
* **Two tasks on the host**. The heat task preempts the main task between the
  tests, the frames and the assignments of `SwitchOn` and its like. Must hold:
  a heater reported as faulted is off; a fault stays until an operation clears it; the
  frames of one call are not broken into. (`SwitchOn` does not keep to the first two:
  a fault raised behind its tests is overwritten. See the findings.)
* **Firmware update**: power loss between any two erase or program commands must
  not leave a coprocessor that boots a mixed image.
* **The byte decoder**: it must find frames again after noise.
* **The UART interrupt** against the task that writes or reads its buffers: no
  byte out of order, no lost wake-up.
* **Locks**: the tick interrupt switches heaters off and runs into a task mutex;
  a reader-writer lock that nests, downgrades and prefers writers must lose no waiter.
* **Pausing a print** while the Move task takes moves: what a pause takes back must
  be done after the resume, once queued commands and macros are counted in.
* **Events** that arrive while one is handled.
* **Shared replies**: several clients, USB, time-outs and lost connections let go
  of the same buffers, and two tasks count in them what they have sent without a lock
  that both take.
* **A moving heap**: a collection relocates what handles and array elements name.

Every such hazard is listed at its line in `PROJECT.json`, with the properties
that would catch it.

## 2. Plan

Modules, in the order in which they were written; all exist.

1. `LpcThermal`, with `HeaterInterlock` as its abstract specification and
   `LpcThermalProofs`: interrupt against main loop.
2. `LpcLink`, `LpcLinkProofs`: connection, replay, heater modes, loss, reboots.
3. `LpcIspUpdater`, `LpcIspUpdaterProofs`: erase and program order against power
   loss and retries.
4. `LpcCrc`, `LpcDecoder`, `LpcDecoderProofs`: the byte decoder on a noisy line,
   and its checksum against polynomial division.
5. `LpcPins`, `LpcModelUpdate`: the mirror of pins; the three frames of a model.
6. `LpcTransmit`, `RingBuffer`, `SerialTransmit`, `SerialReceive`: what is under the
   link; `LpcPartsProofs` about these and the two before.
7. `ReadWriteLock`, `ReadWriteAbstract`, `ReadWriteLockProofs`: the lock of the host.
8. `PrintPause`, `EventQueue`, `ReplyBuffers`, `ObjectHeap`: services of the host;
   `HostQueuesProofs` about the event list, `HostServicesProofs` about the reply
   buffers and the heap.

Open: proofs about prints; the resource locks of G-codes; file buffers.

Composition. `LpcThermal` is the detailed form of the four-state controller in
`LpcLink`; `LpcDecoder` justifies the loss of whole frames in `LpcLink`;
`MCLpcFrames` puts the table computed by `LpcCrc` into `LpcDecoder`. Parts that share
no variable are not composed in parallel, which would only multiply their states:
`MCLpcParts`, `MCLpcRecovery`, `MCLpcLinkSafety`, `MCHostServices` and `MCHostQueues`
have a variable (`part` or `scenario`) that is chosen once, and a behaviour is a
behaviour of the part chosen. `MCHostServices` extends `ReplyBuffers`, whose constants
and properties are its own, and has instances of the two others. Where two components do interact they are in one
module: both tasks, both processors and the line in `LpcLink`; the Main and Move
tasks in `PrintPause`; Main, USB and the clients in `ReplyBuffers`.

## 3. What is modelled

### LpcThermal: the coprocessor's thermal controller

A step of the model is the code between two accesses to variables that the
interrupt shares: `state`, `error`, `linkTimeoutLatched`, `statusDirty` and the
heater output. `at` is the place the main loop has reached; `"loop"` is between
two frames, and `Control` may start there, since `main` calls `Thermal::Spin`
after every byte. The steps of `Control` are `StartControl`, `Sample`, `Decide`,
`Boost`, `Reboost`, `SwitchHeating`/`SwitchStable`/`SwitchOther`, `Settle`,
`CheckLatch` and the three of `ApplyHeater`; commands and status reports are cut
in the same way. `SetFault` is a step of its own, `RecordFault`, because the
interrupt may arrive before it. `Tick` is the whole interrupt handler.

Abstractions: a temperature is below, at or above the target, or unreadable; the
result of the PID or bang-bang law is any duty; fault timers count control
periods; the kinds of sensor errors are one value, so are the two monitor errors;
a configuration frame is valid or refused. The payload lengths of frames are
right, because they come from the host's own encoder.

### HeaterInterlock: what it promises

Three variables, `hot`, `locked` and `silence`. The heater heats only while the
host has been heard and nothing is locked; a silence turns it off and locks it.
`LpcThermal` implements it with `hot` meaning a non-zero output, except for the
instant in `ApplyHeater` after a duty was written and before the second look at
a latch that was set in between.

### LpcLink: host, coprocessor and the UART between them

Host variables follow `LpcInterface` (`online`, `hostConfig`, `status`) and
`LpcHeater` (`mode`, `newGeneration`); `main` is the place of the main task in a
heater operation, `HeaterSpin` the heat task, which may run at any of them. The
coprocessor is `main.cpp` with a thermal controller of four states. `toLpc` and
`toHost` are the frames under way. A configuration item stands for the frames of
one `LpcInterface` function, a version for their contents. Failures are the loss
of the first frame of a direction, a pong that arrives as one of another version or
length (`SpoilPong`, after which `RefusePong` ends the connection) and the reboot of a
side. The coprocessor turns the heater on when thermistor, model and heater have been
configured (`Ready`).

How many pings, statuses and frames are under way is a bound of the model and not of
the code, which pings once a second and reports whenever the status is dirty: `MaxPings`,
`MaxStatuses` and `Capacity` are constants (`RoomForPing`, `RoomForStatus`, `Transmit`), no
property speaks of them, and the proofs hold for every value of them. They stand in the
guards because a state constraint would cut the behaviours that liveness is about.

A timer is a flag that says that a frame which rewinds it was lost or that its
sender rebooted; only then may it run out. One lost frame thus stands for the
three pings, or the four statuses, that have to be lost in a row. Frames are lost
whole: the decoder drops them on a wrong checksum.

Left out of it: feed-forward frames. Pins are in `LpcPins`, the mode in which the ISP
updater holds the UART in `LpcTransmit`.

### LpcIspUpdater: a firmware update of the coprocessor

The state is the coprocessor's flash, block by block, its RAM buffer, who is in
charge of the processor (a program or the boot ROM) and the place that `Update`
has reached. Steps are the ISP commands in their order: `Start` is the
validation of the file (`CheckFirmwareFile`), then `EnterRom`, `Handshake`,
`PrepareAll`, `Erase`, for each block `Write`, `Transfer`, `Prepare`, `Copy` and
`Compare`, and `Leave`. `Order` is the order of the blocks: sector zero is
programmed last and backwards, so that the block which makes the flash bootable
is the very last one. Each command may fail, with or without its effect, within a
budget; `PowerLoss` and `HostReset` may come at any place, and an erase or a copy
that the power loss cuts off has not started, is done, or has left its blocks torn.

About the boot ROM, which is not in this repository, the model assumes what its
manual says: it starts the program if the vector table in block zero has the
right sum, and it serves ISP commands otherwise, unless the code read protection
word forbids it. A block zero that was torn while it was programmed is taken not
to have the right sum. UU-encoding, the checksum of a transfer and the texts of
replies are left out; a wrong reply is one kind of failure.

### LpcCrc and LpcDecoder: frames, byte by byte

`LpcCrc` is the loop of `UpdateCrc` in eight bits, and next to it the remainder
of a division of polynomials. `LpcDecoder` has the sender, which puts the bytes
that `Encode` writes on the line one at a time, the decoder, which is fed with
each byte that arrives, and a line that may change, lose or add a byte. `Feed`,
`Reset` and `Returned` are the decoder; `SendSync` to `SendCheck` are `Encode`.
A second frame may begin when the first has ended, whatever state the decoder is
in. The checksum is a constant, a table with two properties that a cyclic code
has (`DecoderAssumption`): for a given register, different bytes lead to
different registers, and for a given byte, so do different registers.

Two variables record history. `damage` says what has become of the frame under
way: nothing, one changed byte that leaves the framing alone, or anything else.
`sinceNoise` counts good bytes since the line failed; a byte inside a frame that
equals `SyncByte` starts the count again, because a decoder that is looking for
a frame begins a false one there. `Swallowed` is then `MaxPayload + 3`, the rest
of a false frame after its sync byte, and it is the least such bound: with one
byte less TLC finds a false frame that takes them all.

What this does not say: the decoder has no timeout. On an idle link, where a ping
of five bytes a second is all that is sent, a false length of sixteen takes up
four pings, which is longer than the three seconds after which either side gives
the other up. `Resynchronises` bounds bytes, not seconds.

### LpcPins: inputs and outputs of the coprocessor

`SetPinMode`, `WritePin`, `WritePwm`, `HandleGpioState`, the ping and the replay on
the host; `Gpio::Configure`, `Write`, `Poll` and `Pwm::Set` on the coprocessor. A
frame is lost, the connection times out, the coprocessor reboots, levels change.
Four history variables say when the code can know better: `intact` (nothing for the
coprocessor was lost since its reset), `first` and `missed` (a change before the
first report, or a lost report, leaves the host with an old reading until the next
one; the code has no defence), `written` (which outputs have been given a duty).
The order in which a replay goes through the pins is left open, since what is sent
for one pin does not touch another. Pings and reports under way are bounded by
constants, as in `LpcLink`.

What the host has sent before the coprocessor reboots arrives after that, so a
coprocessor can be left `MistakenlyConfigured`: it took `configurationComplete` for the
end of a replay of which it has seen the end only, polls pins that are disabled, and its
pongs ask for nothing. Nothing but another reconnection puts that right, and
`ReadingRecovers` has as its premise that it does not last.

### LpcModelUpdate: a heater model in three frames

Parts A, B and C carry the model they belong to. `MaxRun` bounds how many are lost
in a row. It is 2 because with 3 `ModelIsWhole` is false: when B1, C1 and A2 are lost, A1
is followed by B2 and C2, and the three pass for one model. The coprocessor has no number
to tell the parts of two models apart. The theorem has `MaxRun <= 2` as its hypothesis
for the same reason; its other constants are free.

### LpcTransmit: who may transmit

A call of `LpcInterface` is a script of instructions (take the recursive mutex, test
`firmwareUpdateActive`, send a piece, give it). Two tasks run their scripts, and the
tick interrupt strikes anywhere. `CallsAreWhole` says that what one call sends is not
broken into by the other task, and that nothing is sent beside an update.

### RingBuffer, SerialTransmit, SerialReceive: the host's UART

`RingBuffer` is the index arithmetic. In `SerialTransmit` the steps of `write` are its
accesses to what the interrupt also uses; the interrupt handler is one step; the
holding and the shift register are hardware. In `SerialReceive` the interrupt stores
bytes and marks, the reader takes them in the two steps of `GetItem`, and
`ClearReceiveBuffer` empties the buffer beside it. Bytes are numbered.

### ReadWriteLock: readers and writers on the host

The lock of `RTOSIface.cpp`, whose calls run in critical sections: one step up to the
wait, and `Wake` for each round of the waiting loop. Lock records are a task with a
count, the writers a queue whose head owns the lock. `ReadWriteAbstract` is what it
promises, several readers or one writer; nesting is not visible there.

### PrintPause: pausing and resuming a print

The ring of moves, the one move that GCodes holds (`ms`), the file channel with one
level of macro, and the queue of commands that wait for moves. `MovePass` is one round
of `MoveLoop`: `ReadMove` takes a segment, `Spin` retires the first move and prepares
another. The file channel's steps are its commands; `DoAsynchronousPause` is cut into
`PauseMoves` and the steps `PauseStep` between which a timer may wake the Move task.
A command is known by its place in the file and in the macro, a position by its
place in the file. Left open: which segments are too fast to stop after, how long
moves take, which are no movement at all. Macros are those that cannot be restarted
(`CanRestartMacro` is false), as is the case unless a macro says otherwise.

### EventQueue: events and the AutoPause channel

`AddEvent` is the insertion by priority behind the event that is handled;
`StartProcessing`, `ProcessEvent` and the states of the channel follow one event from
the list to its end, with `pauseState` shared with the user's pauses and resumes.

### ReplyBuffers: the reply to a command

Output buffers with their chains, reference counts and lengths in halves of a buffer;
the stacks of replies for HTTP and USB; sessions, the responders that send, lost
connections and both kinds of time-out. The code follows a chain by its `next` pointers;
`Chain` is the least set that holds the head and the next of each of its buffers, which
is finite whether or not the pointers end. What a mutex or critical section encloses is
one step; the storing of a reply for HTTP and then for USB is two.

`FlushMessages`, in Main under `usbMutex`, and `SendData`, in the Network task without a
lock, are cut at every access to the `bytesRead` of a buffer that both may be sending:
`LookAtUsb`, `WriteUsb`, `CountUsb`, `TestUsb` and then `ReleaseUsb` or `TimeOutUsb`; and
`LookAtBuffer`, `SendBuffer`, `CountSent`, `ReleaseSent`. `flushing` and `sending` hold where
each is and the count it is about to write. So counts are lost and counted twice, and
one can pass the length, for which `Beyond` stands; `BytesLeft` then underflows, as in
`OutputMemory.h:41`. No property promises a whole reply; that the buffers are accounted
for does not depend on the counts.

### ObjectHeap: strings and arrays that move

Blocks of storage with gaps, the index of slots with reference counts, handles of
tasks. An operation under the write lock is one step and excludes the readers, which
`ReadWriteLock` justifies; `Delete`, under the read lock, is cut where another task may
come in between. Values are remembered in a history variable and compared with what
the handle reaches.

## 4. The runs

| run | specification and bounds | what it shows |
| --- | --- | --- |
| `thermal` | `LpcThermal!Spec`; one tick of tolerated silence, one fault period, one bad reading allowed, duties 0 and 1 | type invariant, heater safety, no lost status, no lost fault, refinement of the interlock |
| `lpc_recovery` | a flash of six blocks in sectors of two, five images (installed, longer, shorter, bad vectors, read protected), three attempts, four failures; and a configured controller with the bounds of `thermal`; fairness | an update that is cut off anywhere leaves a whole program or the boot ROM and can be repeated until it succeeds; a heater that is on goes off or the host is heard; faults are reported |
| `link_live` | a connected pair, two operations, one loss, one reboot, fairness | recovery, obedience and agreement |
| `link_safety` | two configuration changes, two pings, one loss, one reboot; or three heater operations, one ping, one loss, one reboot; or two pings and two statuses around an on, without failures | the configuration mirror is right whenever the link is quiet; a faulted heater is off once its stop has arrived, outside `SwitchOn`'s window; a second replay does not turn off a heater that was turned on after the first |
| `frames` | all 256 byte values, frames of up to two bytes, two types, two payload bytes, three noise bytes, two failures of the line; every value of the checksum's register | whole frames arrive, changed ones do not, noise swallows one false frame at most; eight shifts are a polynomial division |
| `link_parts` | eight transmit slots with blocks of nine bytes; four receive slots and ten bytes; two tasks at the mutex; two pins, one ping, two operations, two changes, one loss, one fault; three models, one of them refused, two frames lost in a row | order, wake-ups and marks of the UART; whole calls; pins; models |
| `host_services` | three prints in a ring of four slots with up to two pauses; two buffers, two clients, two replies; three slots, one block, two tasks | nothing of a print is skipped and pauses complete; buffers are accounted for; variables keep their values |
| `host_queues` | four tasks, two levels of nesting; four kinds of events, five events, one pause | the lock implements the abstract one, loses no waiter and starves nobody; events are handled in order and all of them |
| `link_off_lost` | on, off, one loss; expected to fail | a lost off is never repeated |
| `transmit_tick` | the tick interrupt at any step of two tasks; expected to fail | the interrupt takes a mutex |
| `pins_pwm` | two pings, three operations, no failures; expected to fail | a PWM pin that is configured again gets its old duty |
| `pause_macro` | a print of a move, a macro with a move and a move, one pause; expected to fail | moves of a macro are lost |

`MCLpcParts`, `MCLpcLinkSafety`, `MCHostQueues` and, for the reply buffers and the heap,
`MCHostServices` take the sizes of their instances as constants, which the table gives
as the cfg does and the proofs leave open.

Why the bounds are enough. *Thermal*: the comparisons are with one more than a
limit, so a limit of one and a counter that saturates above it reach every
branch; a second tick of tolerated silence only lengthens the wait; two duties
tell on from off, which is all that the properties mention. *Link*: two versions
tell an old value from a new one; two pings are what a double replay takes; the
hazards listed take one loss and one reboot each, which the run combines; three
operations are configure, on and one more; a queue of five frames is the shortest
that takes a replay of three items, and six leave room for a ping before it. One ping and
one status under way are enough for `link_live`, where only the order of frames and
losses matters; two of each are what it takes for a second replay to come behind an on,
and `link_safety` has them.
*Updater*: lengths are in half blocks, so that images end inside a block, inside
sector zero and beyond it; every update takes one failure to cut off, and four cut
off four in a row. *Frames*: the sync byte and the length limit are among the bytes
sent and the noise, the properties speak of one frame, and two failures are the least
that damage a frame and the one after it; the proofs cover every other size. The
checksum's loop has no state but the register, which takes all its values.
*UART*: a block longer than the buffer waits while half of the buffer is sent, and
more bytes than slots make every index wrap. *Mutex*: two tasks are all that
transmit. *Pins*: one input and one output do not affect each other; a mode change and
a write need two operations. *Prints*: three moves fill the ring, two commands the
queue; moves of one, two and three segments have a first, a last and a middle one; a
second pause finds the fraction of the first. *Buffers*: one reply of two
buffers, or two of one, exhaust two; two clients and USB are the least that share in
every way; the proof covers every other number; *heap*: three slots
hold an array, its element and a copy, and one block of six units has to be collected
before it takes a fourth entry. *Lock*: with four tasks two readers and a writer all wait
for a fourth, and three writers queue; its proofs hold for any number. *Events*: two of
one priority and one on either side of the one that is handled.

`CHECK_DEADLOCK FALSE` is said where the system stops: a print that has ended, all
replies stored, all handles in use, all events handled.

### Findings

* `link_off_lost`: `sys/stop.g:1` and `sys/cancel.g:1` say "Leave all LPC-controlled
  thermal outputs safe", which `M568 P0 A0` does by one off frame. If that frame is
  lost while pings get through, the coprocessor goes on heating, and
  `LpcHeater::Spin` takes the state heating from the next status. `StopIsObeyed` is
  what does hold: a stop that is not lost is obeyed.
* `transmit_tick`: `SwitchOffAllLocalFromISR` (`Heat.cpp:879`), "safe to call from an
  ISR", calls `LpcHeater::SwitchOff`, which takes a mutex and so asserts.
* `pins_pwm`: `SetPinMode` (`LpcInterface.cpp:373`) keeps the duty of the pin's earlier
  use, and the next replay sends it.
* `pause_macro`: a pause that takes back moves of a macro which has ended
  (`GCodes.cpp:1088`) does not set the file back; the moves are lost. The passing run
  has macros without moves, for which `NothingIsSkipped` does hold.

Observed while modelling, and named in the hazards, without a run of their own:
`flush` of the UART returns with a byte in the shift register (`AsyncSerial.cpp:134`); a
synchronous pause keeps the fraction of an earlier pause (`RawMove.cpp:191`, against
`RestorePoint.h:20`); a move that the Move task takes between two steps of a pause can
be made twice in part; a serious event during a resume does not pause the print
(`GCodes3.cpp:1357`); two clients and USB share `bytesRead` of a reply
(`HttpResponder.cpp:1050`), which two tasks count in without a common lock, so that it can
pass the length (`NetworkResponder.cpp:77`, `Platform.cpp:796`); a fault that the heat task
raises behind the tests of `SwitchOn` is overwritten by its assignment, with on as the
last command (`LpcHeater.cpp:240`); a coprocessor that reboots in the middle of a replay
calls itself configured (`main.cpp:59`);
one of two clients timing out can drop a reply that the other has not fetched
(`HttpResponder.cpp:1597`); the elements of an array whose last two handles are deleted
at once stay taken (`ArrayHandle.cpp:177`); an input report that is lost is not repeated
(`Gpio.cpp:158`).

### Fairness

*Thermal*: weak fairness of `Tick` (a timer interrupt), of the steps inside a
handler (they contain no unbounded wait; the ADC loop is bounded), and strong
fairness of `TakeStatus`, which needs the inner loop of `main` to run out of
bytes again and again: the link carries far less than its capacity. `Control` and
the host's frames need not happen: `HeatingNeedsPings` rests on the interrupt.
*Link*: weak fairness of both main loops, of the heat task and of the timers.
Losses, reboots, operations and local faults need not happen; they end because
they have budgets, which is the assumption "from some time on nothing is lost"
that recovery needs. The same holds for *pins*.
*Updater*: weak fairness of the steps (every wait for a reply has a timeout, after
which `Update` goes on or gives up) and of `Retry`: the user repeats a failed
update, as its message asks. Failures again end with their budget.
*UART*: weak fairness of the task, of an enabled interrupt and of the transmitter.
*Mutex*: strong fairness of each task's next instruction; a task that waits for the
mutex is among those FreeRTOS wakes when it is given, and the heat task sleeps.
*Lock*: weak fairness of a notified task and of leaving, strong fairness of leaving
from the outermost level: a task does not nest for ever.
*Print*: weak fairness of the Move task, of the channels and of the steps of a pause;
neither a pause nor a resume need be asked for. *Events*: weak fairness of the AutoPause
channel and of the end of a pause or resume.

## 5. The proofs

`LpcThermalProofs` proves, for every value of the constants that satisfies
`ConstantsAssumption`:

* `TypeCorrect`: `Spec => []TypeOK`, one step per action.
* `Invariance`: `Spec => []IInv`, the inductive invariant. The safety invariants
  are not inductive: that the heater is off after a timeout depends on what each
  place of the main loop may still do. `Guarded` says it, place by place: the duty
  held between the first look at the latch and the write, that a handler which
  will overwrite a fault has already turned the heater off, that inside `Control`
  an inactive state means a cold heater.
* `HeaterIsSafe`: `HeatingIsSafe`, the conjunction of the four heater invariants, from
  `IInv`.
* `ControllerIsInterlock`: `Spec => ImplementsInterlock`. Every step is a step of
  `HeaterInterlock` or a stutter; `IInv` supplies that a step which turns the
  heater on finds the host heard and the latch clear.
* `FaultsAreKept`: the action property, from `IInv` and its primed form.
* `StatusIsReported`: `StatusIsNotLost`. Its strengthening, `StatusOwed`, covers the places
  inside a handler and inside `TakeStatus`: a state that the interrupt changes after they
  looked at it is marked again.

`LpcLinkProofs` proves, for any number of versions, pings, operations, losses and
reboots and any capacity of the queues:

* `Invariance`: `IInv` is `FlagsTyped`, `ValuesTyped`, `FramesTyped` and `MirrorKept`.
  `MirrorInSync` speaks of a quiet link only; `MirrorKept` says the same with frames
  under way: for each item the last version is in the coprocessor, or in a frame
  that nothing after it undoes, or something has been lost that the host will find
  out.
* `MirrorIsInSync` and `TypeCorrect`, from `IInv`.
* `FaultStopsHeater`: `FaultedHeaterIsOff`, which speaks of a stop that has arrived. Its
  strengthening, `FaultStops`, covers the way there: a stop is among the frames and no on
  behind it, or the heater is off and no on is under way. It leaves out what the property
  leaves out, a lost stop and the window of `SwitchOn`, where it is false of the code.
  `FaultStays`: the action property `FaultIsSticky`.

`LpcPartsProofs` proves `MCLpcParts`, one inductive invariant per part, for every size:

* `NobodyIsStranded` and `BytesInOrder`. For the transmitter, `TxOrdered`: what has left
  the buffer, what is in it and what `PutBlock` has copied but not published are
  consecutive bytes; `TxAwake`: a task about to wait is known to the interrupt or has
  been notified. For the receiver, `RxOrdered`: the buffer is in order with a mark at
  every gap; `RxClosed`: unless a mark is due, the next byte may follow the last. The
  sizes of the rings are powers of two up to 256 (`RingAssumption`), because the
  masking of the indices is proved by cases.
* `CallsStayWhole`: the action property `CallsAreWhole`. `MutexInv` says that each task has
  come to an instruction `k` of a call `c`, that it holds the mutex `HeldAt(c, k)` times,
  and that it is in the middle of its pieces exactly when it sent the last one and
  that was not its end. The bytes of an update are sent without the mutex; the flag
  set before them makes the other task skip its frames (`firmwareUpdateActive` holds in
  those instructions only).
* `PinsAreFollowed`: `PinsFollow`. `PinsInv` says for each pin that the last frame under way
  which decides its mode, or its output, is one that leaves it as the host remembers it,
  and that it is so already if there is none; likewise for the reports of an input.
  The lemmas `KeptTail` to `KeptWeaker` are about the last such frame of a queue.
* `ModelOfOneUpdate`: `MaxRun <= 2 => (Spec => []ModelIsSound)`. `PartsMatch` counts what
  must have been lost for the pending parts and the next frame to be of different
  models, which is why three losses in a row break it.
* `PartsTypeCorrect`: `Spec => []TypeOK`, from the invariants above and two more.
  `PinsDriven`: the types of outputs, duties and histories, which `PinsTyped` leaves out.
  The lengths of the queues are not part of it. `ModelTyped` needs no bound on the losses: pending parts are parts of some model.

`HostQueuesProofs` proves the event list for any kinds of events and any number of
them: `EventOrder` (`EventsInOrder`) and `HostTypeCorrect`, which takes the types of the lock
from `ReadWriteLockProofs`. The order of the list is inductive with its types (`EventInv`),
because the entry that is handled stays at the head and every other that the new event
passes goes before it; `PlaceFound` says that the loop of `AddEventV` ends there.

`HostServicesProofs` proves the reply buffers for any number of buffers, clients and
replies, any depth of the stacks and any reserve (`BuffersAssumption`: there is a buffer,
the reserve is less than all of them, a stack takes one chain at least and the clients
are a finite set):

* `RepliesAreAccounted`: `BuffersAreAccounted`, that the references of a buffer are as
  many as reach it and that a buffer nobody reaches is free. It is not inductive: the
  count of one release could be right for the wrong chains. `BuffersInv` says who holds
  what. A buffer is held by a client, by the stored reply, by USB, or by Main on its way
  to either (`Holders`); each holder has the heads of some chains. `Sound` says that
  chains end, that the chains of one holder are apart, that the references of a buffer
  are its holders, that what follows a buffer which was never shared has one holder only
  (`Alone`, which is why `cat` may lengthen a chain), and that what Main carries to a
  stack is not on it yet (`Crossed`). `Once` says that no stack has a chain twice,
  `Served` that a reply which is kept has clients still to be served.
* The lemmas before it are about any buffers and heads: what is reached when a chain
  begins (`NewChain`), grows (`LongerChain`), is let go of from its head (`GiveUp`,
  whole or one buffer at a time), is handed to another holder (`HandOver`) or is shared
  with one (`ShareOut`). Every action is one of these or two, and has one lemma, whose
  name ends in `Keeps`, that traces it back to them.
* The property counts places in stacks, the invariant holders; `HoldingsCountHolders`
  says that they are equally many, since a holder reaches a buffer through one of its
  chains only (`InOneChain`).
* `CountingInv` goes with it, since the senders are cut into steps: a responder that is
  in the middle of its steps has a buffer, and USB a first chain, so that what they count
  in and release is what they hold.
* `ReplyBuffersTypeCorrect`: `Spec => []TypeOK`; the bound on the references is the number
  of holders. `bytesRead` is bounded by `Beyond` only, not by the length.
* `ServicesRunTheBuffers`: `ServicesSpec => Spec`, which makes the two theorems speak of
  the specification that the run checks.

It proves the heap for any finite set of tasks, any number of handles, slots, blocks and
elements and any lengths (`HeapAssumption`: a text and an array fit a block; the text that
stands for none is no text):

* `ValuesOutliveCollections`: `ServicesSpec => []VariablesKeepTheirValues`. That handles
  have their values says nothing of slots that are about to be freed or used again;
  `HeapInv` does. `Stored`: a slot that is not in use is as it was at first, one that is
  names an entry of its own that is not free. `Counted`: the handles and the elements of
  arrays that name a slot are its references at most. At most, because two tasks that delete
  the last two handles of an array under the read lock may both leave its elements alone,
  and their counts are then too high for good. The elements of an array whose only
  reference is about to go are not counted, since `DeleteElements` has let go of them
  (`Dying`). `Elementary`: elements are strings. `Valued`: every handle that is not being
  deleted reaches its value.
* All but `Stored` is about counts of references and contents of slots, whatever the
  places in blocks (`counts`, `contents`). The lemmas whose name ends in `KeepsHandles`
  say what each operation does to these; `CollectKeeps` that a collection leaves both as
  they are, since each entry in use is found at its rank among those in use (`Ranks`),
  which is what `AdjustHandles` computes; `StoreKeeps`, `DeleteSlotsKeeps` and
  `AssignInPlaceStores` how the operations on blocks change them. `HeapInvHolds` joins
  the two for every action.

`LpcIspUpdaterProofs` proves, for every flash, sector and image size:

* `Invariance`: `IInv` is `TypeOK` and `Guarded`. The two properties are not
  inductive, because a crash may come at any command. `Progress` says which blocks
  have been programmed when `position` have, in terms of `Order`; `BufferHolds` that
  a block about to be copied is in RAM; `RomInCharge` that the boot ROM runs while
  Update is at work; `BootsWhole` that a flash with a valid first block holds
  a whole good image, which is what makes every cut-off harmless.
* `NeverRunsMixture` and `SuccessIsTrue`, from `IInv` and the lemmas on `Order`: it
  reaches every block of the image, and block zero last.

`LpcDecoderProofs` proves the decoder's four invariants for every payload size,
every finite set of bytes, every checksum that satisfies `DecoderAssumption` and
any amount of noise. TLC evaluates the assumption on the table of `UpdateCrc` itself.
`IInv` adds to the properties `Aligned` (while a frame is undamaged both ends are at
the same byte with the same register, after one changed byte at the same byte
with different registers) and `SwallowsBounded` (the bytes a false frame may still
take and the good bytes since the noise add up to `Swallowed` at most). The lemmas
`FeedIdle` to `FeedCheck` say what `Feed` does in each of its states;
`ByteMatters` and `RegisterMatters` draw from the assumption (the checksum reaches
every value) what the proof uses: no two bytes, and no two registers, are confused.

`ReadWriteLockProofs` proves the lock for any set of tasks and any depth of nesting:

* `Invariance`: `IInv` says how records, counts, owner and queue belong together:
  the counts of a task that runs are what it has locked, the count of a waiting task is
  one once it was let in and zero before, a task in the queue stands there once, only its
  head has a count and then no reader has (`Shut`), without a queue no reader waits
  (`Open`), and a queue waits for somebody who was let in.
* `LockStaysSound`: the assertions of the release functions hold, an unused lock has no
  records, and nobody waits for a lock that nobody has. `WritersExclude`,
  `NoAssertionFails`, `NoRecordLeaks` and `NoWaitIsForgotten` are its parts.
* `Refinement`: `Spec => ImplementsLock`. A hand-over by the task that leaves is, in the
  abstract lock, its `Leave` only: the new holder enters with its `Wake`.

Only model-checked: `ReplaySparesHeater`; prints (`NothingIsSkipped` and their part of `ServicesTypeOK`), whose
values for TLC are definitions of `MCHostServices`: what a print has done is folded over the
jobs and macros of its file, which asks for inductions over sequences; the bounds of the
heap's types, which are there for TLC (`MaxReferences`, and the bytes to recycle, a sum
over the slots); the checksum's arithmetic (`CrcIsRemainder`: its module uses bit
operations, which the prover does not know); and all liveness, which is out of the
prover's reach.

## 6. Not modelled

Numbers: the PID law, the Steinhart-Hart equation, timer set-up, kinematics and step
timing. The registers of both processors. The vendored code (FreeRTOS, CoreN2G, Fatfs,
CANlib, lwIP and the WiFi module's software), which is far the larger part of the
repository's lines: it is third party, and most of it is tables, headers and drivers of
hardware that is not described here. The SPI exchange with the WiFi module
depends on what that module does, which is not in this repository. Of the inherited
firmware: parsing of G-codes, configuration commands, tools, endstops, filament
monitors, file storage, HTTP headers and uploads, FTP and Telnet, the display. Of G-code
processing: resource locks between channels and restartable macros. Lasers, forked file
streams and the SBC interface are compiled out for this board (`Pins_DaVinciJr.h:27`, `:42`,
`:45`).

The modules cover the code in which tasks, processors and interrupts meet. Counted in
lines that is a small share of the repository, and it would stay small if all of the
inherited state machines were modelled: of some 287 000 lines, most are third-party
libraries and code that sets hardware up or formats text.

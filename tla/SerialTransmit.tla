--------------------------- MODULE SerialTransmit ----------------------------
(***************************************************************************)
(* The transmitter of AsyncSerial.cpp in CoreN2G, the host's UART towards  *)
(* the coprocessor.  A task writes blocks into a ring buffer and waits for *)
(* room; the interrupt moves the bytes to the transmit holding register    *)
(* and wakes the task; flush spins.  Every access of the task to what the  *)
(* interrupt also uses is a step of its own, the interrupt is one step.    *)
(* Bytes are numbered in the order in which they are written.              *)
(***************************************************************************)
EXTENDS RingBuffer

CONSTANTS
  MaxBlock,       \* the longest block of one call
  MaxBytes        \* bound: how many bytes are written

\* What the constants may be.
SerialAssumption == MaxBlock \in Nat /\ MaxBytes \in Nat

VARIABLES
  putIndex, getIndex, data,
  at,             \* where the task is
  room,           \* the room it found
  written,        \* how many bytes are in the buffer or beyond
  target,         \* the last byte of the block being written
  txWaitingTask, notified,
  txInterrupt,    \* whether TXRDY interrupts
  holding,        \* the transmit holding register, 0 when ready
  shifting,       \* the transmitter's shift register, 0 when empty
  line            \* what has been sent

ring == <<putIndex, getIndex, data>>
hardware == <<holding, shifting, line>>
wake == <<txWaitingTask, notified, txInterrupt>>
vars == <<ring, at, room, written, target, wake, hardware>>

NoByte == 0
TxReady == holding = NoByte
IsEmpty == getIndex = putIndex

-----------------------------------------------------------------------------
(* The task: write.                                                        *)

StartWrite ==
  /\ at = "idle"
  /\ \E n \in 1 .. MaxBlock : written + n <= MaxBytes /\ target' = written + n
  /\ at' = "measure"
  /\ UNCHANGED <<ring, room, written, wake, hardware>>

Smaller(a, b) == IF a < b THEN a ELSE b

\* PutBlock looks at the indices once.
Measure ==
  /\ at = "measure"
  /\ room' = Smaller(SpaceLeft(getIndex, putIndex), target - written)
  /\ at' = "copy"
  /\ UNCHANGED <<ring, written, target, wake, hardware>>

Items == [i \in 1 .. room |-> written + i]

\* Mutant of Copy: the bytes are copied one slot too far.
CopyBeyond ==
  /\ at = "copy"
  /\ data' = Stored(data, Wrap(putIndex + 1), Items)
  /\ at' = "publish"
  /\ UNCHANGED <<putIndex, getIndex, room, written, target, wake, hardware>>

Copy ==
  /\ at = "copy"
  /\ data' = Stored(data, putIndex, Items)
  /\ at' = "publish"
  /\ UNCHANGED <<putIndex, getIndex, room, written, target, wake, hardware>>

\* PutBlock returns; the rest of the block has to wait.
Publish ==
  /\ at = "publish"
  /\ putIndex' = Wrap(putIndex + room)
  /\ written' = written + room
  /\ at' = IF written' = target THEN "enable" ELSE "arm"
  /\ UNCHANGED <<getIndex, data, room, target, wake, hardware>>

Enable ==
  /\ at = "enable" /\ at' = "idle" /\ txInterrupt' = TRUE
  /\ UNCHANGED <<ring, room, written, target, txWaitingTask, notified, hardware>>

Arm ==
  /\ at = "arm" /\ at' = "enableAndWait" /\ txWaitingTask' = TRUE
  /\ UNCHANGED <<ring, room, written, target, notified, txInterrupt, hardware>>

EnableAndWait ==
  /\ at = "enableAndWait" /\ at' = "wait" /\ txInterrupt' = TRUE
  /\ UNCHANGED <<ring, room, written, target, txWaitingTask, notified, hardware>>

\* TakeIndexed returns when the task is notified.
Resume ==
  /\ at = "wait" /\ notified
  /\ notified' = FALSE /\ at' = "measure"
  /\ UNCHANGED <<ring, room, written, target, txWaitingTask, txInterrupt, hardware>>

\* It also returns after 50 ms.
TimeOut ==
  /\ at = "wait" /\ ~notified /\ at' = "measure"
  /\ UNCHANGED <<ring, room, written, target, wake, hardware>>

-----------------------------------------------------------------------------
(* The task: flush.                                                        *)

StartFlush ==
  /\ at = "idle" /\ at' = "drain"
  /\ UNCHANGED <<ring, room, written, target, wake, hardware>>

Drained ==
  /\ at = "drain" /\ IsEmpty /\ at' = "settle"
  /\ UNCHANGED <<ring, room, written, target, wake, hardware>>

Settled ==
  /\ at = "settle" /\ TxReady /\ at' = "flushed"
  /\ UNCHANGED <<ring, room, written, target, wake, hardware>>

Flushed ==
  /\ at = "flushed" /\ at' = "idle"
  /\ UNCHANGED <<ring, room, written, target, wake, hardware>>

-----------------------------------------------------------------------------
(* The interrupt, and the hardware.                                        *)

\* The task is worth waking when half of the buffer is free.
WakeWriter(get) ==
  IF txWaitingTask /\ SpaceLeft(get, putIndex) >= Capacity \div 2
  THEN notified' = TRUE /\ txWaitingTask' = FALSE
  ELSE UNCHANGED <<txWaitingTask, notified>>

SendNext ==
  /\ txInterrupt /\ TxReady /\ ~IsEmpty
  /\ holding' = data[getIndex]
  /\ getIndex' = Wrap(getIndex + 1)
  /\ WakeWriter(getIndex')
  /\ UNCHANGED <<putIndex, data, at, room, written, target, txInterrupt, shifting, line>>

\* Mutant of NothingLeft: the interrupt is masked and nobody is woken.
MaskOnly ==
  /\ txInterrupt /\ TxReady /\ IsEmpty /\ txInterrupt' = FALSE
  /\ UNCHANGED <<ring, at, room, written, target, txWaitingTask, notified, hardware>>

NothingLeft ==
  /\ txInterrupt /\ TxReady /\ IsEmpty
  /\ txInterrupt' = FALSE
  /\ notified' = (notified \/ txWaitingTask) /\ txWaitingTask' = FALSE
  /\ UNCHANGED <<ring, at, room, written, target, hardware>>

Load ==
  /\ shifting = NoByte /\ holding # NoByte
  /\ shifting' = holding /\ holding' = NoByte
  /\ UNCHANGED <<ring, at, room, written, target, wake, line>>

Shift ==
  /\ shifting # NoByte
  /\ line' = Append(line, shifting) /\ shifting' = NoByte
  /\ UNCHANGED <<ring, at, room, written, target, wake, holding>>

-----------------------------------------------------------------------------
Init ==
  /\ putIndex = 0 /\ getIndex = 0 /\ data = [i \in Indices |-> NoByte]
  /\ at = "idle" /\ room = 0 /\ written = 0 /\ target = 0
  /\ txWaitingTask = FALSE /\ notified = FALSE /\ txInterrupt = FALSE
  /\ holding = NoByte /\ shifting = NoByte /\ line = <<>>

Write == Measure \/ Copy \/ Publish \/ Enable \/ Arm \/ EnableAndWait \/ Resume
Flush == Drained \/ Settled \/ Flushed
Interrupt == SendNext \/ NothingLeft
Transmitter == Load \/ Shift

Next == StartWrite \/ Write \/ TimeOut \/ StartFlush \/ Flush \/ Interrupt \/ Transmitter

Spec == Init /\ [][Next]_vars

\* The task runs, the interrupt is served and the transmitter shifts; nothing
\* is assumed of the time-out.
FairSpec ==
  /\ Spec /\ WF_vars(Write) /\ WF_vars(Flush) /\ WF_vars(Interrupt) /\ WF_vars(Transmitter)

-----------------------------------------------------------------------------
(* Properties.                                                             *)

TypeOK ==
  /\ putIndex \in Indices /\ getIndex \in Indices /\ data \in [Indices -> 0 .. MaxBytes]
  /\ at \in {"idle", "measure", "copy", "publish", "enable", "arm", "enableAndWait", "wait",
             "drain", "settle", "flushed"}
  /\ room \in 0 .. Capacity /\ written \in 0 .. MaxBytes /\ target \in 0 .. MaxBytes
  /\ txWaitingTask \in BOOLEAN /\ notified \in BOOLEAN /\ txInterrupt \in BOOLEAN
  /\ holding \in 0 .. MaxBytes /\ shifting \in 0 .. MaxBytes /\ line \in Seq(1 .. MaxBytes)

Register(b) == IF b = NoByte THEN <<>> ELSE <<b>>

\* Whatever the interrupt does between the steps of PutBlock, the bytes leave
\* in the order in which they were written, none lost, none twice.
SentInOrder ==
  line \o Register(shifting) \o Register(holding) \o Contents(data, getIndex, putIndex)
    = [i \in 1 .. written |-> i]

\* A task that waits for room will be woken by the interrupt, without the
\* time-out of TakeIndexed: the notification is not lost between the look at
\* the buffer and the wait.
WaiterIsArmed == at = "wait" /\ ~notified => txInterrupt /\ txWaitingTask

\* A call of write returns though the time-out never strikes.
WriteReturns == at = "measure" ~> at = "idle"

\* When the transmitter stands still everything has been sent: the interrupt
\* is not masked for good while there are bytes in the buffer.
QuietMeansSent ==
  at = "idle" /\ ~txInterrupt /\ TxReady /\ shifting = NoByte => Len(line) = written

=============================================================================

---------------------------- MODULE SerialReceive ----------------------------
(***************************************************************************)
(* The receiver of AsyncSerial.cpp in CoreN2G, the host's UART from the    *)
(* coprocessor.  The interrupt puts bytes into a ring buffer and, in place *)
(* of bytes that found no room or arrived damaged, a mark; the main task   *)
(* takes them out, in two steps, and empties the buffer around an update   *)
(* of the firmware.  Bytes are numbered as they arrive.                    *)
(***************************************************************************)
EXTENDS RingBuffer

CONSTANT MaxBytes       \* bound: how many bytes arrive

\* What the constants may be.
ReceiveAssumption == MaxBytes \in Nat

VARIABLES
  putIndex, getIndex, data,
  bufferOverrunPending,
  arrived,              \* the last byte that arrived
  at, value,            \* where GetItem is, and what it has taken
  expected,             \* the byte the reader would see next if none is lost
  marked                \* whether it has seen a mark since the last byte

ring == <<putIndex, getIndex, data>>
reader == <<at, value, expected, marked>>
vars == <<ring, bufferOverrunPending, arrived, reader>>

Mark == 0
IsByte(v) == v # Mark

-----------------------------------------------------------------------------
(* The interrupt.                                                          *)

HasRoom(put) == Wrap(put + 1) # getIndex

\* PutItem, on what the interrupt has stored so far.
Put(r, v) ==
  IF HasRoom(r.put) THEN [put |-> Wrap(r.put + 1), data |-> [r.data EXCEPT ![r.put] = v]] ELSE r

Buffer == [put |-> putIndex, data |-> data]

\* A byte, after the mark that is still due.
Store(c) ==
  IF ~bufferOverrunPending THEN Put(Buffer, c)
  ELSE IF HasRoom(putIndex) THEN Put(Put(Buffer, Mark), c) ELSE Buffer

\* The interrupt for a byte, with or without an error of the UART.
Receive(error) ==
  LET c == arrived + 1
      r == IF error THEN Put(Store(c), Mark) ELSE Store(c)
  IN /\ c <= MaxBytes /\ arrived' = c
     /\ putIndex' = r.put /\ data' = r.data
     /\ bufferOverrunPending' = ~HasRoom(putIndex)
     /\ UNCHANGED <<getIndex, reader>>

-----------------------------------------------------------------------------
(* The main task.                                                          *)

\* GetItem up to the fetch of the item.
Fetch ==
  /\ at = "idle" /\ getIndex # putIndex
  /\ value' = data[getIndex] /\ at' = "fetched"
  /\ UNCHANGED <<ring, bufferOverrunPending, arrived, expected, marked>>

Advance ==
  /\ at = "fetched" /\ at' = "idle"
  /\ getIndex' = Wrap(getIndex + 1)
  /\ expected' = IF IsByte(value) THEN value + 1 ELSE expected
  /\ marked' = ~IsByte(value)
  /\ UNCHANGED <<putIndex, data, bufferOverrunPending, arrived, value>>

\* ClearReceiveBuffer, with the interrupt disabled; a mark that is due stays due.
ClearReceiveBuffer ==
  /\ at = "idle"
  /\ getIndex' = 0 /\ putIndex' = 0
  /\ expected' = arrived + 1 /\ marked' = FALSE
  /\ UNCHANGED <<data, bufferOverrunPending, arrived, at, value>>

-----------------------------------------------------------------------------
Init ==
  /\ putIndex = 0 /\ getIndex = 0 /\ data = [i \in Indices |-> Mark]
  /\ bufferOverrunPending = FALSE /\ arrived = 0
  /\ at = "idle" /\ value = Mark /\ expected = 1 /\ marked = FALSE

Next == (\E error \in BOOLEAN : Receive(error)) \/ Fetch \/ Advance \/ ClearReceiveBuffer

Spec == Init /\ [][Next]_vars

-----------------------------------------------------------------------------
(* Properties.                                                             *)

TypeOK ==
  /\ putIndex \in Indices /\ getIndex \in Indices /\ data \in [Indices -> 0 .. MaxBytes]
  /\ bufferOverrunPending \in BOOLEAN /\ arrived \in 0 .. MaxBytes
  /\ at \in {"idle", "fetched"} /\ value \in 0 .. MaxBytes
  /\ expected \in 1 .. MaxBytes + 1 /\ marked \in BOOLEAN

\* No byte is read twice, out of order, or after the buffer was emptied,
\* wherever the interrupt strikes.
ReadsInOrder == at = "fetched" /\ IsByte(value) => value >= expected

\* A byte that found no room leaves a mark before the next byte that is read,
\* so the decoder cannot take what follows for the rest of a frame.
LossIsMarked == at = "fetched" /\ IsByte(value) => value = expected \/ marked

=============================================================================

----------------------------- MODULE RingBuffer ------------------------------
(***************************************************************************)
(* The index arithmetic of RRFLibraries/src/General/RingBuffer.h.  Masking *)
(* with the capacity is the remainder by the number of slots, a power of   *)
(* two; one slot is never used, so that a full buffer differs from an      *)
(* empty one.                                                              *)
(***************************************************************************)
EXTENDS Naturals, Sequences

CONSTANT Slots

\* What the constants may be.
RingAssumption == Slots \in {2, 4, 8, 16, 32, 64, 128, 256}

Capacity == Slots - 1
Indices == 0 .. Capacity

\* Mutant of Wrap: the index wraps one slot too late.
WrapLate(i) == IF i > Slots THEN i - Slots ELSE i

Wrap(i) == i % Slots

SpaceLeft(get, put) == Wrap(get + Capacity + Slots - put)

ItemsPresent(get, put) == Wrap(put + Slots - get)

\* What GetItem would return, one call after the other.
Contents(data, get, put) ==
  [i \in 1 .. ItemsPresent(get, put) |-> data[Wrap(get + i - 1)]]

\* The copies of PutBlock and PutItem, up to the end of the array and then
\* from its beginning.
Stored(data, put, items) ==
  [i \in Indices |-> LET k == Wrap(i + Slots - put) + 1
                     IN IF k <= Len(items) THEN items[k] ELSE data[i]]

=============================================================================

----------------------------- MODULE ObjectHeap ------------------------------
(***************************************************************************)
(* The heap of strings and arrays of the object model and of the variables *)
(* of macros (Platform/Heap, StringHandle, ArrayHandle): handles name      *)
(* slots, slots count references and name storage, and a collection closes *)
(* the gaps in the blocks of storage and adjusts the slots.                *)
(*                                                                         *)
(* What happens under the write lock of the heap is one step, and no task  *)
(* is then under the read lock; tasks under the read lock go together.  A  *)
(* variable with its handle has a lock of its own (VariableSet), so that   *)
(* nobody copies a handle that is being deleted.                           *)
(*                                                                         *)
(* An address is a block and the number of an entry in it; lengths are     *)
(* counted in units.  Arrays hold strings.                                 *)
(***************************************************************************)
EXTENDS Naturals, Sequences, FiniteSetsExt, Functions

CONSTANTS
  Tasks,
  Writers,      \* the tasks that run commands; the others copy and let go
  Handles,      \* how many handles each task has
  Slots,        \* how many slots the index has
  Length,       \* the texts and their lengths
  Elements,     \* elements of an array, of one unit each
  BlockSize,    \* HeapBlockSize
  MaxBlocks,    \* bound on the blocks
  MaxReferences \* bound on the references to a slot

\* The text of an array, and of an element without a string.
Nothing == "nothing"

\* What the constants may be.
HeapAssumption ==
  /\ IsFiniteSet(Tasks) /\ Writers \subseteq Tasks /\ Handles \in [Tasks -> Nat]
  /\ Slots \in Nat /\ Elements \in Nat \ {0}
  /\ BlockSize \in Nat /\ MaxBlocks \in Nat /\ MaxReferences \in Nat
  /\ \A text \in DOMAIN Length : Length[text] \in 1 .. BlockSize
  /\ Nothing \notin DOMAIN Length
  /\ Elements <= BlockSize

VARIABLES
  block,             \* the blocks, oldest first, with their entries
  slot,              \* the index: refCount and storage of each slot
  heapToRecycle,
  handle,            \* the slot of each task's handles, 0 for none
  at, target,        \* where a task is with deleting one of its handles
  value              \* what was assigned to each handle: a text, or a text per element

vars == <<block, slot, heapToRecycle, handle, at, target, value>>

Null == 0
Nowhere == <<0, 0>>
Unassigned == [isArray |-> FALSE, texts |-> <<>>]
Texts == DOMAIN Length
Places == UNION {{t} \X (1 .. Handles[t]) : t \in Tasks}

FreeSlot == [refCount |-> 0, storage |-> Nowhere]

TypeOK ==
  /\ Len(block) <= MaxBlocks
  /\ \A b \in DOMAIN block, k \in 1 .. BlockSize : k \in DOMAIN block[b] =>
       /\ block[b][k].length \in 1 .. BlockSize /\ block[b][k].free \in BOOLEAN
       /\ block[b][k].text \in Texts \cup {Nothing}
       /\ block[b][k].elements \in Seq(0 .. Slots)
  /\ slot \in [1 .. Slots -> [refCount : 0 .. MaxReferences + Elements, storage : (0 .. MaxBlocks) \X (0 .. BlockSize)]]
  /\ heapToRecycle \in 0 .. MaxBlocks * BlockSize
  /\ handle \in [Places -> 0 .. Slots]
  /\ at \in [Tasks -> {"idle", "elements", "slot"}]
  /\ target \in [Tasks -> Nat]
  /\ value \in [Places -> [isArray : BOOLEAN, texts : Seq(Texts \cup {Nothing})]]

Init ==
  /\ block = <<>> /\ heapToRecycle = 0
  /\ slot = [s \in 1 .. Slots |-> FreeSlot]
  /\ handle = [p \in Places |-> Null] /\ value = [p \in Places |-> Unassigned]
  /\ at = [t \in Tasks |-> "idle"] /\ target = [t \in Tasks |-> 1]

-----------------------------------------------------------------------------
(* Storage.                                                                *)

Allocated(entries) == FoldFunction(LAMBDA e, n : e.length + n, 0, entries)

\* GarbageCollectInternal: the entries in use move down over those that are
\* free, and AdjustHandles follows them.
UsedUpTo(b, k) == {j \in 1 .. k : ~block[b][j].free}
Movable(b) == UsedUpTo(b, Len(block[b]))
Collected ==
  [b \in DOMAIN block |-> [n \in 1 .. Cardinality(Movable(b)) |->
     block[b][CHOOSE k \in Movable(b) : Cardinality(UsedUpTo(b, k)) = n]]]

\* Mutant of MovedTo: the slots still name the old places.
MovedNowhere(address) == address

MovedTo(address) ==
  IF address = Nowhere THEN Nowhere
  ELSE <<address[1], Cardinality(UsedUpTo(address[1], address[2]))>>
Adjusted == [s \in 1 .. Slots |-> [slot[s] EXCEPT !.storage = MovedTo(@)]]

Fits(blocks, length) == {b \in DOMAIN blocks : Allocated(blocks[b]) + length <= BlockSize}

\* An entry is added to a block, the newest with room; or to a new block.
Placed(blocks, entry) ==
  LET room == Fits(blocks, entry.length)
  IN IF room # {} THEN [blocks EXCEPT ![Max(room)] = Append(@, entry)]
                  ELSE Append(blocks, <<entry>>)
PlaceOf(blocks, entry) ==
  LET room == Fits(blocks, entry.length)
      b == IF room # {} THEN Max(room) ELSE Len(blocks) + 1
  IN <<b, IF room # {} THEN Len(blocks[b]) + 1 ELSE 1>>

\* AllocateSpace: when no block has room and there is enough to recycle, the
\* garbage is collected once.
Collects(length) == Fits(block, length) = {} /\ heapToRecycle >= 4 * length
Blocks(length) == IF Collects(length) THEN Collected ELSE block
Index(length) == IF Collects(length) THEN Adjusted ELSE slot

\* The storage of a new slot: an entry with a text or with elements.
Store(s, length, text, elements, refCounts) ==
  LET entry == [length |-> length, free |-> FALSE, text |-> text, elements |-> elements]
      blocks == Blocks(length)
  IN /\ Len(blocks) < MaxBlocks \/ Fits(blocks, length) # {}
     /\ block' = Placed(blocks, entry)
     /\ slot' = [r \in 1 .. Slots |->
          [refCount |-> IF r = s THEN 1 ELSE refCounts[r],
           storage |-> IF r = s THEN PlaceOf(blocks, entry) ELSE Index(length)[r].storage]]
     /\ heapToRecycle' = IF Collects(length) THEN 0 ELSE heapToRecycle

RefCounts == [s \in 1 .. Slots |-> slot[s].refCount]

\* AllocateHandle: the first slot that is free.
SlotIsFree(s) == slot[s] = FreeSlot
FirstFree == Min({s \in 1 .. Slots : SlotIsFree(s)})
HasFreeSlot == \E s \in 1 .. Slots : SlotIsFree(s)

Storage(s) == block[slot[s].storage[1]][slot[s].storage[2]]
Element(s, k) == Storage(s).elements[k]
IsArray(s) == Storage(s).text = Nothing

-----------------------------------------------------------------------------
(* Under the write lock.                                                   *)

NoReaders == \A t \in Tasks : at[t] = "idle"

\* The handle of a task that is empty and gets a new string or array.
MakeString(t, i, text) ==
  /\ NoReaders /\ HasFreeSlot /\ handle[<<t, i>>] = Null
  /\ Store(FirstFree, Length[text], text, <<>>, RefCounts)
  /\ handle' = [handle EXCEPT ![<<t, i>>] = FirstFree]
  /\ value' = [value EXCEPT ![<<t, i>>] = [isArray |-> FALSE, texts |-> <<text>>]]
  /\ UNCHANGED <<at, target>>

MakeArray(t, i) ==
  /\ NoReaders /\ HasFreeSlot /\ handle[<<t, i>>] = Null
  /\ Store(FirstFree, Elements, Nothing, [k \in 1 .. Elements |-> Null], RefCounts)
  /\ handle' = [handle EXCEPT ![<<t, i>>] = FirstFree]
  /\ value' = [value EXCEPT ![<<t, i>>] =
       [isArray |-> TRUE, texts |-> [k \in 1 .. Elements |-> Nothing]]]
  /\ UNCHANGED <<at, target>>

\* AssignIndexed: an array that is shared is copied first (MakeUnique), its
\* elements being shared; then the element gets a string of the task.
CopyAndAssign(t, i, k, j) ==
  LET old == handle[<<t, i>>]
      elements == [Storage(old).elements EXCEPT ![k] = handle[<<t, j>>]]
      more(s) == Cardinality({n \in 1 .. Elements : elements[n] = s})
  IN /\ slot[old].refCount > 1 /\ HasFreeSlot
     /\ Store(FirstFree, Elements, Nothing, elements,
              [s \in 1 .. Slots |->
                 slot[s].refCount + more(s) - (IF s = old THEN 1 ELSE 0)])
     /\ handle' = [handle EXCEPT ![<<t, i>>] = FirstFree]

\* What is left when a string or an array has lost references.
Emptied(lost) == {s \in 1 .. Slots : lost[s] > 0 /\ lost[s] = slot[s].refCount}
FreeEntry(length) == [length |-> length, free |-> TRUE, text |-> Nothing, elements |-> <<>>]
WithGaps(lost) ==
  [b \in DOMAIN block |-> [k \in DOMAIN block[b] |->
     IF \E s \in Emptied(lost) : slot[s].storage = <<b, k>>
     THEN FreeEntry(block[b][k].length) ELSE block[b][k]]]
Freed(lost) ==
  /\ block' = WithGaps(lost)
  /\ heapToRecycle' = heapToRecycle + MapThenSumSet(LAMBDA s : Storage(s).length, Emptied(lost))

AssignInPlace(t, i, k, j) ==
  LET array == handle[<<t, i>>]
      new == handle[<<t, j>>]
      lost == [s \in 1 .. Slots |-> IF s = Element(array, k) /\ s # new THEN 1 ELSE 0]
      address == slot[array].storage
  IN /\ slot[array].refCount = 1
     /\ block' = [WithGaps(lost) EXCEPT ![address[1]][address[2]].elements[k] = new]
     /\ heapToRecycle' = heapToRecycle + MapThenSumSet(LAMBDA s : Storage(s).length, Emptied(lost))
     /\ slot' = [s \in 1 .. Slots |->
          IF s \in Emptied(lost) THEN FreeSlot
          ELSE [slot[s] EXCEPT !.refCount =
                  @ - lost[s] + (IF s = new /\ s # Element(array, k) THEN 1 ELSE 0)]]
     /\ UNCHANGED handle

AssignElement(t, i, k, j) ==
  /\ NoReaders /\ handle[<<t, i>>] # Null /\ handle[<<t, j>>] # Null
  /\ IsArray(handle[<<t, i>>]) /\ ~IsArray(handle[<<t, j>>])
  /\ slot[handle[<<t, j>>]].refCount < MaxReferences
  /\ CopyAndAssign(t, i, k, j) \/ AssignInPlace(t, i, k, j)
  /\ value' = [value EXCEPT ![<<t, i>>].texts[k] = value[<<t, j>>].texts[1]]
  /\ UNCHANGED <<at, target>>

-----------------------------------------------------------------------------
(* Without the write lock.                                                 *)

\* A handle is copied, from one's own or from another task's variable.
Copy(t, i, u, j) ==
  /\ at[t] = "idle" /\ handle[<<t, i>>] = Null
  /\ handle[<<u, j>>] # Null /\ ~(at[u] # "idle" /\ target[u] = j)
  /\ slot[handle[<<u, j>>]].refCount < MaxReferences
  /\ handle' = [handle EXCEPT ![<<t, i>>] = handle[<<u, j>>]]
  /\ value' = [value EXCEPT ![<<t, i>>] = value[<<u, j>>]]
  /\ slot' = [slot EXCEPT ![handle[<<u, j>>]].refCount = @ + 1]
  /\ UNCHANGED <<block, heapToRecycle, at, target>>

\* Delete takes the read lock.  For an array it looks whether this is the last
\* reference.
Delete(t, i) ==
  /\ at[t] = "idle" /\ handle[<<t, i>>] # Null
  /\ at' = [at EXCEPT ![t] =
       IF IsArray(handle[<<t, i>>]) /\ slot[handle[<<t, i>>]].refCount = 1 THEN "elements" ELSE "slot"]
  /\ target' = [target EXCEPT ![t] = i]
  /\ UNCHANGED <<block, slot, heapToRecycle, handle, value>>

\* DeleteSlot, for a number of references to each slot.
DeleteSlots(lost) ==
  /\ Freed(lost)
  /\ slot' = [s \in 1 .. Slots |->
       IF s \in Emptied(lost) THEN FreeSlot ELSE [slot[s] EXCEPT !.refCount = @ - lost[s]]]

DeleteElements(t) ==
  /\ at[t] = "elements" /\ at' = [at EXCEPT ![t] = "slot"]
  /\ DeleteSlots([s \in 1 .. Slots |->
       Cardinality({k \in 1 .. Elements : Element(handle[<<t, target[t]>>], k) = s})])
  /\ UNCHANGED <<handle, target, value>>

DeleteHandle(t) ==
  LET place == <<t, target[t]>> IN
  /\ at[t] = "slot" /\ at' = [at EXCEPT ![t] = "idle"]
  /\ DeleteSlots([s \in 1 .. Slots |-> IF s = handle[place] THEN 1 ELSE 0])
  /\ handle' = [handle EXCEPT ![place] = Null]
  /\ value' = [value EXCEPT ![place] = Unassigned]
  /\ target' = [target EXCEPT ![t] = 1]

-----------------------------------------------------------------------------
Next ==
  \/ \E t \in Writers : \E i \in 1 .. Handles[t] :
       \/ \E text \in Texts : MakeString(t, i, text)
       \/ MakeArray(t, i)
       \/ \E j \in 1 .. Handles[t], k \in 1 .. Elements : AssignElement(t, i, k, j)
  \/ \E t \in Tasks : \E i \in 1 .. Handles[t] :
       \/ \E u \in Tasks : \E j \in 1 .. Handles[u] : Copy(t, i, u, j)
       \/ Delete(t, i)
  \/ \E t \in Tasks : DeleteElements(t) \/ DeleteHandle(t)

Spec == Init /\ [][Next]_vars

-----------------------------------------------------------------------------
(* Properties.                                                             *)

\* The handles that are not being deleted.
Live == {p \in Places : handle[p] # Null /\ ~(at[p[1]] # "idle" /\ target[p[1]] = p[2])}

\* A slot that is in use and names an entry.
IsStored(s) ==
  /\ slot[s].refCount > 0
  /\ slot[s].storage[1] \in DOMAIN block
  /\ slot[s].storage[2] \in DOMAIN block[slot[s].storage[1]]

Contains(s, text) == IF s = Null THEN text = Nothing ELSE IsStored(s) /\ Storage(s).text = text

\* What was assigned to a variable is what it has, through copies, assignments to
\* elements of shared arrays and collections that move the storage; no slot is given
\* up or used again while a handle or an element names it.
VariablesKeepTheirValues ==
  \A p \in Live :
    /\ IsStored(handle[p])
    /\ value[p].isArray = IsArray(handle[p])
    /\ IF value[p].isArray
       THEN \A k \in 1 .. Elements : Contains(Element(handle[p], k), value[p].texts[k])
       ELSE Contains(handle[p], value[p].texts[1])

=============================================================================

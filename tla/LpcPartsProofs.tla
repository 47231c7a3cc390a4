--------------------------- MODULE LpcPartsProofs ---------------------------
(***************************************************************************)
(* Proofs about the parts of the link in MCLpcParts, for every size of the *)
(* buffers, all sets of pins and every set of models.  The parts share no  *)
(* variable, so each has an inductive invariant over its own.              *)
(***************************************************************************)
EXTENDS
  MCLpcParts, SequenceTheorems, FiniteSets, FiniteSetTheorems, FunctionTheorems, TLAPS

-----------------------------------------------------------------------------
(* The assembly of a heater model.                                         *)

UpdateTyped ==
  /\ sending \in Models \cup {Update!Nothing} /\ nextFrame \in 0 .. 3 /\ lost \in 0 .. MaxRun
  /\ nextFrame > 0 => sending \in Models
  /\ pendingModel \in (Models \cup {Update!Nothing}) \X (Models \cup {Update!Nothing})
  /\ pendingModelParts \in 0 .. 2
  /\ modelConfigured \in BOOLEAN /\ heater \in {"off", "active", "fault"} /\ arrived \in BOOLEAN

\* The parts that are pending are of one model, and the frames that have been
\* lost since are too many for the frame of another to be taken for the next.
PartsMatch ==
  /\ pendingModelParts = 1 =>
       /\ pendingModel[1] \in Models
       /\ nextFrame = 2 => sending = pendingModel[1]
       /\ nextFrame = 3 => sending = pendingModel[1] /\ lost >= 1
       /\ nextFrame \in {0, 1} => lost >= 2
  /\ pendingModelParts = 2 =>
       /\ pendingModel[1] \in Models /\ pendingModel[1] = pendingModel[2]
       /\ nextFrame = 3 => sending = pendingModel[1]
       /\ nextFrame \in {0, 1} => lost >= 1
       /\ nextFrame = 2 => lost >= 2
  /\ arrived =>
       /\ nextFrame = 2 => pendingModelParts = 1 /\ pendingModel[1] = sending
       /\ nextFrame = 3 => pendingModelParts = 2

\* The model in use, and the heater that needs one.
ModelInUse ==
  /\ \E m \in (Models \ Invalid) \cup {Update!Nothing} : model = Update!Whole(m)
  /\ modelConfigured => model # Update!Whole(Update!Nothing)
  /\ heater = "active" => model # Update!Whole(Update!Nothing)
  /\ Update!CompleteUpdateCounts

UpdateInv == UpdateTyped /\ PartsMatch /\ ModelInUse

\* What is assumed of the models.
LEMMA ModelFacts ==
  Invalid \subseteq Models /\ Update!Nothing \notin Models /\ MaxRun \in Nat
BY PartsAssumption DEF Update!ModelAssumption, Update!Nothing

\* At the start nothing is pending.
LEMMA UpdateStart == Update!Init => UpdateInv
<1> SUFFICES ASSUME Update!Init PROVE UpdateInv
  OBVIOUS
<1> USE ModelFacts DEF Update!Init
<1>1. UpdateTyped
  <2>1. modelConfigured \in BOOLEAN /\ arrived \in BOOLEAN
    BY Zenon
  <2> QED
    BY <2>1 DEF UpdateTyped
<1>2. PartsMatch
  BY DEF PartsMatch
<1>3. ModelInUse
  BY DEF ModelInUse, Update!CompleteUpdateCounts
<1> QED
  BY <1>1, <1>2, <1>3 DEF UpdateInv

\* The third part completes a model.
LEMMA Completed ==
  ASSUME NEW m \in Models
  PROVE  Append(<<m, m>>, m) = Update!Whole(m)
<1> DEFINE put == Append(<<m, m>>, m)
           all == <<m, m, m>>
<1>1. <<m, m>> \in Seq(Models) /\ Len(<<m, m>>) = 2
  OBVIOUS
<1>2. put \in Seq(Models) /\ Len(put) = 3 /\ put[1] = m /\ put[2] = m /\ put[3] = m
  BY <1>1, AppendProperties
<1>3. all \in Seq(Models) /\ Len(all) = 3 /\ all[1] = m /\ all[2] = m /\ all[3] = m
  OBVIOUS
<1> HIDE DEF put, all
<1>4. \A i \in 1 .. Len(put) : put[i] = all[i]
  BY <1>2, <1>3
<1>5. put = all
  BY <1>2, <1>3, <1>4, SeqEqual
<1> QED
  BY <1>5 DEF put, all, Update!Whole

\* Every step of the host, the line and the coprocessor keeps the parts
\* together, as long as no more than two frames are lost in a row.
LEMMA UpdateStep ==
  ASSUME MaxRun <= 2, UpdateInv, Update!Next
  PROVE  UpdateInv'
<1> USE ModelFacts DEF UpdateInv
<1>1. CASE Update!StartUpdate
  BY <1>1 DEF Update!StartUpdate, UpdateTyped, PartsMatch, ModelInUse,
              Update!CompleteUpdateCounts
<1>2. CASE Update!Lose
  <2>1. nextFrame \in 1 .. 3 /\ nextFrame' = (IF nextFrame = 3 THEN 0 ELSE nextFrame + 1)
    BY <1>2 DEF Update!Lose, Update!NextPart, UpdateTyped
  <2>2. arrived' \in BOOLEAN
    BY <1>2, Zenon DEF Update!Lose
  <2> QED
    BY <1>2, <2>1, <2>2 DEF Update!Lose, Update!NextPart, UpdateTyped, PartsMatch, ModelInUse,
                      Update!CompleteUpdateCounts
<1>3. CASE Update!ResetConfiguration
  <2> USE <1>3 DEF Update!ResetConfiguration, Update!host
  <2>1. UpdateTyped'
    <3>1. modelConfigured' \in BOOLEAN
      BY Zenon
    <3> QED
      BY <3>1 DEF UpdateTyped
  <2>2. PartsMatch'
    BY DEF PartsMatch
  <2>3. ModelInUse'
    BY DEF ModelInUse, Update!CompleteUpdateCounts
  <2> QED
    BY <2>1, <2>2, <2>3
<1>4. CASE Update!SwitchOn
  BY <1>4 DEF Update!SwitchOn, Update!host, UpdateTyped, PartsMatch, ModelInUse,
              Update!CompleteUpdateCounts
<1>5. CASE Update!ResetFault
  BY <1>5 DEF Update!ResetFault, Update!host, UpdateTyped, PartsMatch, ModelInUse,
              Update!CompleteUpdateCounts
<1>6. CASE Update!ConfigureModelA
  BY <1>6 DEF Update!ConfigureModelA, Update!Receive, Update!NextPart, UpdateTyped, PartsMatch,
              ModelInUse, Update!CompleteUpdateCounts
<1>7. CASE Update!ConfigureModelB
  BY <1>7 DEF Update!ConfigureModelB, Update!Receive, Update!NextPart, Update!InTurn,
              Update!RejectModelUpdate, UpdateTyped, PartsMatch, ModelInUse,
              Update!CompleteUpdateCounts
<1>8. CASE Update!ConfigureModelC
  <2>1. nextFrame = 3 /\ nextFrame' = 0 /\ sending \in Models /\ sending' = sending
        /\ lost' = 0 /\ arrived' = arrived
    BY <1>8 DEF Update!ConfigureModelC, Update!Receive, Update!NextPart, UpdateTyped
  <2>2. CASE Update!InTurn(2) /\ sending \notin Invalid
    <3>1. pendingModelParts' = 0 /\ modelConfigured' = TRUE /\ pendingModel' = pendingModel
          /\ heater' = heater /\ model' = Append(pendingModel, sending)
      BY <1>8, <2>2 DEF Update!ConfigureModelC
    <3>2. pendingModel = <<sending, sending>>
      BY <2>1, <2>2 DEF Update!InTurn, PartsMatch, UpdateTyped
    <3>3. model' = Update!Whole(sending)
      BY <2>1, <3>1, <3>2, Completed
    <3>4. model' # Update!Whole(Update!Nothing)
      BY <3>3, <2>1 DEF Update!Whole
    <3>5. UpdateTyped' /\ PartsMatch'
      BY <2>1, <3>1 DEF UpdateTyped, PartsMatch
    <3>6. ModelInUse'
      BY <2>1, <2>2, <3>3, <3>4 DEF ModelInUse, Update!CompleteUpdateCounts
    <3> QED
      BY <3>5, <3>6
  <2>3. CASE ~(Update!InTurn(2) /\ sending \notin Invalid)
    <3>1. Update!RejectModelUpdate
      BY <1>8, <2>3 DEF Update!ConfigureModelC
    <3>2. arrived /\ sending \notin Invalid => FALSE
      BY <2>1, <2>3 DEF PartsMatch, Update!InTurn
    <3> QED
      BY <2>1, <3>1, <3>2 DEF Update!RejectModelUpdate, UpdateTyped, PartsMatch, ModelInUse,
                              Update!CompleteUpdateCounts
  <2> QED
    BY <2>2, <2>3
<1> QED
  BY <1>1, <1>2, <1>3, <1>4, <1>5, <1>6, <1>7, <1>8 DEF Update!Next

\* The steps of the other parts do not touch the model.
LEMMA UpdateStutter ==
  ASSUME UpdateInv, UNCHANGED updateVars
  PROVE  UpdateInv'
BY DEF updateVars, UpdateInv, UpdateTyped, PartsMatch, ModelInUse, Update!CompleteUpdateCounts

\* The invariant says what ModelIsSound promises.
LEMMA UpdateSound == UpdateInv => ModelIsSound
<1> SUFFICES ASSUME UpdateInv PROVE ModelIsSound
  OBVIOUS
<1> QED
  BY DEF UpdateInv, ModelInUse, ModelIsSound, Update!ModelIsWhole

\* ConfigureHeaterModel, ReplayConfiguration, Thermal.cpp: the model in use is
\* one that the host sent and is valid, never put together from parts of two,
\* and an update of which every frame arrived is in use, for every set of
\* models, if no more than two frames are lost in a row.
THEOREM ModelOfOneUpdate == MaxRun <= 2 => (Spec => []ModelIsSound)
<1> SUFFICES ASSUME MaxRun <= 2 PROVE Spec => []ModelIsSound
  OBVIOUS
<1>1. Init => UpdateInv
  BY UpdateStart DEF Init
<1>2. UpdateInv /\ [Next]_vars => UpdateInv'
  <2> SUFFICES ASSUME UpdateInv, [Next]_vars PROVE UpdateInv'
    OBVIOUS
  <2>1. CASE Update!Next
    BY <2>1, UpdateStep
  <2>2. CASE UNCHANGED updateVars
    BY <2>2, UpdateStutter
  <2> QED
    BY <2>1, <2>2 DEF Next, Others, vars
<1> QED
  BY <1>1, <1>2, UpdateSound, PTL DEF Spec

-----------------------------------------------------------------------------
(* The arithmetic of the indices.                                          *)

Sizes == {2, 4, 8, 16, 32, 64, 128, 256}

\* What is left of an index that is at most two rounds too far.
Folded(i, n) == IF i < n THEN i ELSE IF i < 2 * n THEN i - n ELSE i - 2 * n

\* Masking an index takes the whole rounds off.
LEMMA Masked ==
  ASSUME NEW n \in Sizes, NEW i \in 0 .. 3 * n - 1
  PROVE  i % n = Folded(i, n)
<1>1. CASE n = 2
  BY <1>1 DEF Folded
<1>2. CASE n = 4
  BY <1>2 DEF Folded
<1>3. CASE n = 8
  BY <1>3 DEF Folded
<1>4. CASE n = 16
  BY <1>4 DEF Folded
<1>5. CASE n = 32
  BY <1>5 DEF Folded
<1>6. CASE n = 64
  BY <1>6 DEF Folded
<1>7. CASE n = 128
  BY <1>7 DEF Folded
<1>8. CASE n = 256
  BY <1>8 DEF Folded
<1> QED
  BY <1>1, <1>2, <1>3, <1>4, <1>5, <1>6, <1>7, <1>8 DEF Sizes

\* How many items are present between two indices, the index behind one, and
\* where the i-th item is.
Between(get, put, n) == IF get <= put THEN put - get ELSE put + n - get
Behind(index, n) == IF index = n - 1 THEN 0 ELSE index + 1
Slot(index, i, n) == IF index + i - 1 < n THEN index + i - 1 ELSE index + i - 1 - n

\* The operators of the transmitter's buffer, without remainders.
LEMMA TxIndex ==
  /\ TransmitSlots \in Nat /\ TransmitSlots >= 2
  /\ Tx!Capacity = TransmitSlots - 1 /\ Tx!Indices = 0 .. TransmitSlots - 1
  /\ \A get, put \in Tx!Indices :
       /\ Tx!ItemsPresent(get, put) = Between(get, put, TransmitSlots)
       /\ Tx!SpaceLeft(get, put) = TransmitSlots - 1 - Between(get, put, TransmitSlots)
       /\ Tx!Wrap(put + TransmitSlots - get) = Between(get, put, TransmitSlots)
  /\ \A index \in Tx!Indices, i \in 1 .. TransmitSlots :
       Tx!Wrap(index + i - 1) = Slot(index, i, TransmitSlots)
<1> DEFINE N == TransmitSlots
<1>1. N \in Sizes
  BY PartsAssumption DEF Tx!RingAssumption, Sizes
<1>2. N \in Nat /\ N >= 2
  BY <1>1 DEF Sizes
<1>3. Tx!Capacity = N - 1 /\ Tx!Indices = 0 .. N - 1
  BY DEF Tx!Capacity, Tx!Indices
<1>4. \A i \in 0 .. 3 * N - 1 : Tx!Wrap(i) = Folded(i, N)
  BY <1>1, Masked DEF Tx!Wrap
<1> HIDE DEF N
<1>5. ASSUME NEW get \in 0 .. N - 1, NEW put \in 0 .. N - 1
      PROVE  /\ Tx!Wrap(put + N - get) = Between(get, put, N)
             /\ Tx!Wrap(get + (N - 1) + N - put) = N - 1 - Between(get, put, N)
  <2>1. put + N - get \in 0 .. 3 * N - 1 /\ get + (N - 1) + N - put \in 0 .. 3 * N - 1
    BY <1>2
  <2> QED
    BY <1>2, <1>4, <2>1 DEF Folded, Between
<1>6. ASSUME NEW index \in 0 .. N - 1, NEW i \in 1 .. N
      PROVE  Tx!Wrap(index + i - 1) = Slot(index, i, N)
  <2>1. index + i - 1 \in 0 .. 3 * N - 1
    BY <1>2
  <2> QED
    BY <1>2, <1>4, <2>1 DEF Folded, Slot
<1> QED
  BY <1>2, <1>3, <1>5, <1>6 DEF N, Tx!ItemsPresent, Tx!SpaceLeft

\* The same, for two indices and for one slot.
LEMMA TxCount ==
  ASSUME NEW get \in 0 .. TransmitSlots - 1, NEW put \in 0 .. TransmitSlots - 1
  PROVE  /\ Tx!ItemsPresent(get, put) = Between(get, put, TransmitSlots)
         /\ Tx!SpaceLeft(get, put) = TransmitSlots - 1 - Between(get, put, TransmitSlots)
BY TxIndex

\* The index of an item in the transmitter's buffer.
LEMMA TxSlot ==
  ASSUME NEW index \in 0 .. TransmitSlots - 1, NEW i \in 1 .. TransmitSlots
  PROVE  Tx!Wrap(index + i - 1) = Slot(index, i, TransmitSlots)
BY TxIndex

\* The same for the receiver's buffer.
LEMMA RxIndex ==
  /\ ReceiveSlots \in Nat /\ ReceiveSlots >= 2
  /\ Rx!Capacity = ReceiveSlots - 1 /\ Rx!Indices = 0 .. ReceiveSlots - 1
  /\ \A get, put \in Rx!Indices : Rx!ItemsPresent(get, put) = Between(get, put, ReceiveSlots)
  /\ \A index \in Rx!Indices, i \in 1 .. ReceiveSlots :
       Rx!Wrap(index + i - 1) = Slot(index, i, ReceiveSlots)
  /\ \A index \in Rx!Indices : Rx!Wrap(index + 1) = IF index = ReceiveSlots - 1 THEN 0 ELSE index + 1
<1> DEFINE N == ReceiveSlots
<1>1. N \in Sizes
  BY PartsAssumption DEF Rx!RingAssumption, Sizes
<1>2. N \in Nat /\ N >= 2
  BY <1>1 DEF Sizes
<1>3. Rx!Capacity = N - 1 /\ Rx!Indices = 0 .. N - 1
  BY DEF Rx!Capacity, Rx!Indices
<1>4. \A i \in 0 .. 3 * N - 1 : Rx!Wrap(i) = Folded(i, N)
  BY <1>1, Masked DEF Rx!Wrap
<1> HIDE DEF N
<1>5. ASSUME NEW get \in 0 .. N - 1, NEW put \in 0 .. N - 1
      PROVE  Rx!Wrap(put + N - get) = Between(get, put, N)
  <2>1. put + N - get \in 0 .. 3 * N - 1
    BY <1>2
  <2> QED
    BY <1>2, <1>4, <2>1 DEF Folded, Between
<1>6. ASSUME NEW index \in 0 .. N - 1, NEW i \in 1 .. N
      PROVE  Rx!Wrap(index + i - 1) = Slot(index, i, N)
  <2>1. index + i - 1 \in 0 .. 3 * N - 1
    BY <1>2
  <2> QED
    BY <1>2, <1>4, <2>1 DEF Folded, Slot
<1>7. ASSUME NEW index \in 0 .. N - 1
      PROVE  Rx!Wrap(index + 1) = IF index = N - 1 THEN 0 ELSE index + 1
  <2>1. index + 1 \in 0 .. 3 * N - 1
    BY <1>2
  <2> QED
    BY <1>2, <1>4, <2>1 DEF Folded
<1> QED
  BY <1>2, <1>3, <1>5, <1>6, <1>7 DEF N, Rx!ItemsPresent

-----------------------------------------------------------------------------
(* The transmitter.                                                        *)

\* What has left the buffer, with what the registers of the UART hold.
Sent == line \o Tx!Register(shifting) \o Tx!Register(holding)

TxHeld == Tx!ItemsPresent(getIndex, putIndex)
TxSpace == Tx!SpaceLeft(getIndex, putIndex)

\* PutBlock has measured what is left of the block and of the room, and the
\* interrupt only makes more room; the block ends where written gets to.
TxTyped ==
  /\ Tx!TypeOK
  /\ written <= target
  /\ at \in {"copy", "publish"} => room <= TxSpace /\ written + room <= target
  /\ at \in {"idle", "enable", "drain", "settle", "flushed"} => written = target

\* The bytes that have left the buffer, those in it, and those that PutBlock has
\* copied but not yet published, follow each other.
TxOrdered ==
  /\ Len(Sent) + TxHeld = written
  /\ \A i \in 1 .. Len(Sent) : Sent[i] = i
  /\ \A i \in 1 .. TxHeld : data[Tx!Wrap(getIndex + i - 1)] = Len(Sent) + i
  /\ at = "publish" => \A i \in 1 .. room : data[Tx!Wrap(putIndex + i - 1)] = written + i

\* The task that is about to wait, or waits, is known to the interrupt or has
\* been notified; outside of write the interrupt is masked only when the buffer
\* is empty.
TxAwake ==
  /\ at = "enableAndWait" /\ ~notified => txWaitingTask
  /\ Tx!WaiterIsArmed
  /\ at \in {"idle", "drain", "settle", "flushed"} /\ ~txInterrupt => Tx!IsEmpty

TxInv == TxTyped /\ TxOrdered /\ TxAwake

\* What is assumed of the transmitter's constants.
LEMMA TxFacts ==
  /\ MaxBlock \in Nat /\ MaxSent \in Nat
  /\ TransmitSlots \in Nat /\ TransmitSlots >= 2
BY PartsAssumption, TxIndex DEF Tx!SerialAssumption

\* How many bytes are in the buffer, and how many would find room.
LEMMA TxCounts ==
  ASSUME TxTyped
  PROVE  /\ getIndex \in 0 .. TransmitSlots - 1 /\ putIndex \in 0 .. TransmitSlots - 1
         /\ TxHeld = Between(getIndex, putIndex, TransmitSlots)
         /\ TxSpace = TransmitSlots - 1 - TxHeld
         /\ TxHeld \in 0 .. TransmitSlots - 1 /\ TxSpace \in 0 .. TransmitSlots - 1
<1>1. getIndex \in Tx!Indices /\ putIndex \in Tx!Indices
  BY DEF TxTyped, Tx!TypeOK
<1>2. getIndex \in 0 .. TransmitSlots - 1 /\ putIndex \in 0 .. TransmitSlots - 1
  BY <1>1, TxIndex
<1>3. Between(getIndex, putIndex, TransmitSlots) \in 0 .. TransmitSlots - 1
  BY <1>2, TxFacts DEF Between
<1>4. /\ TxHeld = Between(getIndex, putIndex, TransmitSlots)
      /\ TxSpace = TransmitSlots - 1 - Between(getIndex, putIndex, TransmitSlots)
  BY <1>1, TxIndex DEF TxHeld, TxSpace
<1> QED
  BY <1>2, <1>3, <1>4, TxFacts

\* What the line and the registers hold is a sequence of bytes.
LEMMA SentIsSeq ==
  ASSUME TxTyped
  PROVE  /\ Sent \in Seq(0 .. MaxSent)
         /\ line \in Seq(0 .. MaxSent)
         /\ Tx!Register(shifting) \in Seq(0 .. MaxSent) /\ Tx!Register(holding) \in Seq(0 .. MaxSent)
<1>1. line \in Seq(0 .. MaxSent)
  <2>1. line \in Seq(1 .. MaxSent) /\ 1 .. MaxSent \subseteq 0 .. MaxSent
    BY DEF TxTyped, Tx!TypeOK
  <2> QED
    BY <2>1, SeqMonotonic
<1>2. Tx!Register(shifting) \in Seq(0 .. MaxSent) /\ Tx!Register(holding) \in Seq(0 .. MaxSent)
  <2>1. shifting \in 0 .. MaxSent /\ holding \in 0 .. MaxSent
    BY DEF TxTyped, Tx!TypeOK
  <2>2. ASSUME NEW b \in 0 .. MaxSent PROVE Tx!Register(b) \in Seq(0 .. MaxSent)
    <3>1. <<>> \in Seq(0 .. MaxSent) /\ <<b>> \in Seq(0 .. MaxSent)
      OBVIOUS
    <3> QED
      BY <3>1, Zenon DEF Tx!Register
  <2> QED
    BY <2>1, <2>2
<1>3. line \o Tx!Register(shifting) \in Seq(0 .. MaxSent)
  BY <1>1, <1>2, ConcatProperties
<1> QED
  BY <1>1, <1>2, <1>3, ConcatProperties DEF Sent

\* An empty register adds nothing, a full one its byte.
LEMMA Registers ==
  ASSUME NEW q \in Seq(0 .. MaxSent), NEW b \in 0 .. MaxSent
  PROVE  /\ b = Tx!NoByte => q \o Tx!Register(b) = q
         /\ b # Tx!NoByte => q \o Tx!Register(b) = Append(q, b)
<1>1. CASE b = Tx!NoByte
  BY <1>1, ConcatEmptySeq DEF Tx!Register
<1>2. CASE b # Tx!NoByte
  BY <1>2, AppendIsConcat DEF Tx!Register
<1> QED
  BY <1>1, <1>2

\* At the start the buffer is empty and nothing was sent.
LEMMA TxStart == Tx!Init => TxInv
<1> SUFFICES ASSUME Tx!Init PROVE TxInv
  OBVIOUS
<1> USE TxFacts, TxIndex DEF Tx!Init
<1>1. txWaitingTask \in BOOLEAN /\ notified \in BOOLEAN /\ txInterrupt \in BOOLEAN
  BY Zenon
<1>2. TxTyped
  <2>1. data \in [Tx!Indices -> 0 .. MaxSent]
    BY DEF Tx!NoByte
  <2>2. line \in Seq(1 .. MaxSent)
    OBVIOUS
  <2> QED
    BY <1>1, <2>1, <2>2 DEF TxTyped, Tx!TypeOK, Tx!NoByte
<1>3. TxHeld = 0
  BY DEF TxHeld, Between
<1>4. Sent = <<>>
  BY DEF Sent, Tx!Register
<1>5. TxOrdered
  BY <1>3, <1>4 DEF TxOrdered
<1>6. TxAwake
  BY DEF TxAwake, Tx!WaiterIsArmed, Tx!IsEmpty
<1> QED
  BY <1>2, <1>5, <1>6 DEF TxInv

\* A step that leaves the buffer and the hardware alone keeps the order.
LEMMA TxOrderKept ==
  ASSUME TxOrdered, UNCHANGED <<putIndex, getIndex, data, holding, shifting, line, written>>,
         at' = "publish" => at = "publish" /\ room' = room
  PROVE  TxOrdered'
<1>1. Sent' = Sent
  BY DEF Sent
<1>2. TxHeld' = TxHeld
  BY DEF TxHeld
<1> QED
  BY <1>1, <1>2 DEF TxOrdered

\* The steps of write and flush that only look at the buffer, wait, or deal
\* with the interrupt.
LEMMA TxTask ==
  ASSUME TxInv,
         \/ Tx!StartWrite \/ Tx!Measure \/ Tx!Enable \/ Tx!Arm \/ Tx!EnableAndWait \/ Tx!Resume
         \/ Tx!TimeOut \/ Tx!StartFlush \/ Tx!Drained \/ Tx!Settled \/ Tx!Flushed
  PROVE  TxInv'
<1> USE TxFacts DEF TxInv
<1>1. UNCHANGED <<putIndex, getIndex, data, holding, shifting, line, written>>
  BY DEF Tx!StartWrite, Tx!Measure, Tx!Enable, Tx!Arm, Tx!EnableAndWait, Tx!Resume,
         Tx!TimeOut, Tx!StartFlush, Tx!Drained, Tx!Settled, Tx!Flushed, Tx!ring, Tx!hardware
<1>2. at' # "publish"
  BY DEF Tx!StartWrite, Tx!Measure, Tx!Enable, Tx!Arm, Tx!EnableAndWait, Tx!Resume,
         Tx!TimeOut, Tx!StartFlush, Tx!Drained, Tx!Settled, Tx!Flushed
<1>3. TxOrdered'
  BY <1>1, <1>2, TxOrderKept
<1>4. TxSpace' = TxSpace
  BY <1>1 DEF TxSpace
<1>5. TxTyped'
  <2>0. TxSpace \in 0 .. TransmitSlots - 1 /\ TxSpace = Tx!SpaceLeft(getIndex, putIndex)
        /\ Tx!Capacity = TransmitSlots - 1
    BY TxCounts, TxIndex DEF TxSpace
  <2>1. CASE Tx!StartWrite
    BY <1>1, <1>4, <2>1 DEF Tx!StartWrite, TxTyped, Tx!TypeOK, Tx!wake
  <2>2. CASE Tx!Measure
    <3>1. room' \in 0 .. Tx!Capacity /\ room' <= TxSpace /\ written + room' <= target
      BY <2>0, <2>2 DEF Tx!Measure, Tx!Smaller, TxTyped, Tx!TypeOK
    <3> QED
      BY <1>1, <1>4, <2>2, <3>1 DEF Tx!Measure, TxTyped, Tx!TypeOK, Tx!wake
  <2>3. CASE Tx!Enable \/ Tx!Arm \/ Tx!EnableAndWait \/ Tx!Resume
    <3>1. txWaitingTask' \in BOOLEAN /\ notified' \in BOOLEAN /\ txInterrupt' \in BOOLEAN
      BY <2>3, Zenon DEF Tx!Enable, Tx!Arm, Tx!EnableAndWait, Tx!Resume, TxTyped, Tx!TypeOK
    <3> QED
      BY <1>1, <1>4, <2>3, <3>1
         DEF Tx!Enable, Tx!Arm, Tx!EnableAndWait, Tx!Resume, TxTyped, Tx!TypeOK
  <2>4. CASE Tx!TimeOut \/ Tx!StartFlush \/ Tx!Drained \/ Tx!Settled \/ Tx!Flushed
    BY <1>1, <1>4, <2>4
       DEF Tx!TimeOut, Tx!StartFlush, Tx!Drained, Tx!Settled, Tx!Flushed, TxTyped, Tx!TypeOK,
           Tx!wake
  <2> QED
    BY <2>1, <2>2, <2>3, <2>4
<1>6. TxAwake'
  BY <1>1 DEF TxAwake, Tx!WaiterIsArmed, Tx!IsEmpty, Tx!wake,
         Tx!StartWrite, Tx!Measure, Tx!Enable, Tx!Arm, Tx!EnableAndWait, Tx!Resume,
         Tx!TimeOut, Tx!StartFlush, Tx!Drained, Tx!Settled, Tx!Flushed
<1> QED
  BY <1>3, <1>5, <1>6

\* PutBlock copies into slots that hold nothing.
LEMMA TxCopy ==
  ASSUME TxInv, Tx!Copy
  PROVE  TxInv'
<1> USE TxFacts
<1> DEFINE N == TransmitSlots
           offset(i) == Between(putIndex, i, N)
<1>0. TxTyped /\ TxOrdered /\ TxAwake
  BY DEF TxInv
<1>1. /\ at = "copy" /\ at' = "publish" /\ data' = Tx!Stored(data, putIndex, Tx!Items)
      /\ UNCHANGED <<putIndex, getIndex, room, written, target, Tx!wake, Tx!hardware>>
  BY DEF Tx!Copy
<1>2. /\ getIndex \in 0 .. N - 1 /\ putIndex \in 0 .. N - 1 /\ Tx!Indices = 0 .. N - 1
      /\ TxHeld = Between(getIndex, putIndex, N) /\ TxSpace = N - 1 - TxHeld
      /\ TxHeld \in 0 .. N - 1
  BY <1>0, TxCounts, TxIndex
<1>3. room \in 0 .. N - 1 /\ room <= N - 1 - TxHeld /\ written \in Nat /\ written + room <= MaxSent
  BY <1>0, <1>1, <1>2, TxIndex DEF TxTyped, Tx!TypeOK
<1>4. Len(Tx!Items) = room /\ \A i \in 1 .. room : Tx!Items[i] = written + i
  BY <1>3 DEF Tx!Items
<1>5. ASSUME NEW i \in 0 .. N - 1
      PROVE  /\ data'[i] = IF offset(i) < room THEN written + offset(i) + 1 ELSE data[i]
             /\ offset(i) \in 0 .. N - 1
  <2>1. offset(i) \in 0 .. N - 1
    BY <1>2 DEF Between
  <2>2. Tx!Wrap(i + TransmitSlots - putIndex) = offset(i)
    BY <1>2, TxIndex
  <2>3. data'[i] = IF offset(i) + 1 <= Len(Tx!Items) THEN Tx!Items[offset(i) + 1] ELSE data[i]
    BY <1>1, <1>2, <2>2, Zenon DEF Tx!Stored
  <2> HIDE DEF offset
  <2> QED
    BY <1>3, <1>4, <2>1, <2>3
<1>6. data' \in [Tx!Indices -> 0 .. MaxSent]
  <2> HIDE DEF offset
  <2>1. ASSUME NEW i \in 0 .. N - 1 PROVE data'[i] \in 0 .. MaxSent
    <3>1. data[i] \in 0 .. MaxSent
      BY <1>0, <1>2 DEF TxTyped, Tx!TypeOK
    <3>2. /\ data'[i] = IF offset(i) < room THEN written + offset(i) + 1 ELSE data[i]
          /\ offset(i) \in 0 .. N - 1
      BY <1>5
    <3> QED
      BY <1>3, <3>1, <3>2
  <2>2. data' = [i \in Tx!Indices |-> data'[i]]
    BY <1>1 DEF Tx!Stored
  <2> QED
    BY <1>2, <2>1, <2>2, Zenon
<1>7. Sent' = Sent /\ TxHeld' = TxHeld /\ TxSpace' = TxSpace
  BY <1>1 DEF Sent, TxHeld, TxSpace, Tx!hardware
<1>8. TxTyped'
  BY <1>0, <1>1, <1>6, <1>7 DEF TxTyped, Tx!TypeOK, Tx!wake, Tx!hardware
<1>9. TxOrdered'
  <2>1. ASSUME NEW i \in 1 .. TxHeld
        PROVE  data'[Tx!Wrap(getIndex + i - 1)] = Len(Sent) + i
    <3> DEFINE s == Slot(getIndex, i, N)
    <3>1. Tx!Wrap(getIndex + i - 1) = s
      BY <1>2, TxIndex
    <3>2. s \in 0 .. N - 1 /\ offset(s) >= room
      BY <1>2, <1>3 DEF Slot, Between
    <3>3. data[s] = Len(Sent) + i
      BY <1>0, <3>1 DEF TxOrdered
    <3> HIDE DEF s, offset
    <3> QED
      BY <1>3, <1>5, <3>1, <3>2, <3>3
  <2>2. ASSUME NEW i \in 1 .. room
        PROVE  data'[Tx!Wrap(putIndex + i - 1)] = written + i
    <3> DEFINE s == Slot(putIndex, i, N)
    <3>1. Tx!Wrap(putIndex + i - 1) = s
      BY <1>2, <1>3, TxIndex
    <3>2. s \in 0 .. N - 1 /\ offset(s) = i - 1
      BY <1>2, <1>3 DEF Slot, Between
    <3> HIDE DEF s, offset
    <3> QED
      BY <1>3, <1>5, <3>1, <3>2
  <2> QED
    BY <1>0, <1>1, <1>7, <2>1, <2>2 DEF TxOrdered
<1>10. TxAwake'
  BY <1>0, <1>1 DEF TxAwake, Tx!WaiterIsArmed, Tx!IsEmpty, Tx!wake
<1> QED
  BY <1>8, <1>9, <1>10 DEF TxInv

\* PutBlock publishes what it has copied.
LEMMA TxPublish ==
  ASSUME TxInv, Tx!Publish
  PROVE  TxInv'
<1> USE TxFacts
<1> DEFINE N == TransmitSlots
<1>0. TxTyped /\ TxOrdered /\ TxAwake
  BY DEF TxInv
<1>1. /\ at = "publish" /\ at' = IF written + room = target THEN "enable" ELSE "arm"
      /\ putIndex' = Tx!Wrap(putIndex + room) /\ written' = written + room
      /\ UNCHANGED <<getIndex, data, room, target, Tx!wake, Tx!hardware>>
  BY DEF Tx!Publish
<1>2. /\ getIndex \in 0 .. N - 1 /\ putIndex \in 0 .. N - 1 /\ Tx!Indices = 0 .. N - 1
      /\ TxHeld = Between(getIndex, putIndex, N) /\ TxSpace = N - 1 - TxHeld
      /\ TxHeld \in 0 .. N - 1
  BY <1>0, TxCounts, TxIndex
<1>3. /\ room \in 0 .. N - 1 /\ room <= N - 1 - TxHeld /\ written \in Nat /\ target \in 0 .. MaxSent
      /\ written + room <= target
  BY <1>0, <1>1, <1>2, TxIndex DEF TxTyped, Tx!TypeOK
<1>4. putIndex' = Slot(putIndex, room + 1, N)
  BY <1>1, <1>2, <1>3, TxIndex
<1>5. putIndex' \in 0 .. N - 1 /\ Between(getIndex, putIndex', N) = TxHeld + room
  BY <1>2, <1>3, <1>4 DEF Slot, Between
<1>6. TxHeld' = TxHeld + room /\ TxSpace' = TxSpace - room
  <2>1. /\ TxHeld' = Tx!ItemsPresent(getIndex, putIndex')
        /\ TxSpace' = Tx!SpaceLeft(getIndex, putIndex')
    BY <1>1 DEF TxHeld, TxSpace
  <2>2. /\ TxHeld' = Between(getIndex', putIndex', N)
        /\ TxSpace' = N - 1 - Between(getIndex', putIndex', N)
    BY <1>1, <1>2, <1>5, <2>1, TxCount
  <2> QED
    BY <1>1, <1>2, <1>3, <1>5, <2>2
<1>7. Sent' = Sent
  BY <1>1 DEF Sent, Tx!hardware
<1>8. TxTyped'
  <2>1. at' # "copy" /\ at' # "publish" /\ (at' = "enable" => written' = target)
    BY <1>1
  <2>2. at' \in {"enable", "arm"}
    BY <1>1
  <2>3. written' \in 0 .. MaxSent /\ written' <= target /\ putIndex' \in Tx!Indices
    BY <1>1, <1>2, <1>3, <1>5
  <2>4. Tx!TypeOK'
    BY <1>0, <1>1, <2>2, <2>3 DEF TxTyped, Tx!TypeOK, Tx!wake, Tx!hardware
  <2> QED
    BY <1>1, <2>1, <2>2, <2>3, <2>4 DEF TxTyped
<1>9. TxOrdered'
  <2>1. Len(Sent) + TxHeld = written /\ Len(Sent) \in Nat
    BY <1>0, SentIsSeq, LenProperties DEF TxOrdered
  <2>2. ASSUME NEW i \in 1 .. TxHeld + room
        PROVE  data[Tx!Wrap(getIndex + i - 1)] = Len(Sent) + i
    <3>1. CASE i <= TxHeld
      BY <1>0, <1>2, <3>1 DEF TxOrdered
    <3>2. CASE i > TxHeld
      <4> DEFINE k == i - TxHeld
      <4>1. k \in 1 .. room /\ k \in 1 .. N /\ i \in 1 .. N
        BY <1>2, <1>3, <3>2
      <4>2. data[Tx!Wrap(putIndex + k - 1)] = written + k
        BY <1>0, <1>1, <4>1 DEF TxOrdered
      <4>3. Slot(getIndex, i, N) = Slot(putIndex, k, N)
        BY <1>2, <1>3, <3>2 DEF Slot, Between
      <4>4. Tx!Wrap(getIndex + i - 1) = Slot(getIndex, i, N)
            /\ Tx!Wrap(putIndex + k - 1) = Slot(putIndex, k, N)
        <5> HIDE DEF k
        <5> QED
          BY <1>2, <4>1, TxIndex
      <4> QED
        BY <1>2, <2>1, <4>2, <4>3, <4>4
    <3> QED
      BY <1>2, <3>1, <3>2
  <2>3. at' # "publish"
    BY <1>1
  <2>4. Len(Sent) + (TxHeld + room) = written + room
    <3>1. TxHeld \in Nat /\ room \in Nat
      BY <1>2, <1>3
    <3> QED
      BY <2>1, <3>1
  <2> QED
    BY <1>0, <1>1, <1>6, <1>7, <2>2, <2>3, <2>4 DEF TxOrdered
<1>10. TxAwake'
  BY <1>0, <1>1 DEF TxAwake, Tx!WaiterIsArmed, Tx!IsEmpty, Tx!wake
<1> QED
  BY <1>8, <1>9, <1>10 DEF TxInv

\* The interrupt takes the first byte of the buffer, which is the next to be sent.
LEMMA TxSendNext ==
  ASSUME TxInv, Tx!SendNext
  PROVE  TxInv'
<1> USE TxFacts
<1> DEFINE N == TransmitSlots
           byte == data[getIndex]
<1>0. TxTyped /\ TxOrdered /\ TxAwake
  BY DEF TxInv
<1>1. /\ txInterrupt /\ holding = Tx!NoByte /\ getIndex # putIndex
      /\ holding' = byte /\ getIndex' = Tx!Wrap(getIndex + 1) /\ Tx!WakeWriter(getIndex')
      /\ UNCHANGED <<putIndex, data, at, room, written, target, txInterrupt, shifting, line>>
  BY DEF Tx!SendNext, Tx!TxReady, Tx!IsEmpty
<1>2. /\ getIndex \in 0 .. N - 1 /\ putIndex \in 0 .. N - 1 /\ Tx!Indices = 0 .. N - 1
      /\ TxHeld = Between(getIndex, putIndex, N) /\ TxSpace = N - 1 - TxHeld
      /\ TxHeld \in 0 .. N - 1
  BY <1>0, TxCounts, TxIndex
<1>3. TxHeld > 0
  BY <1>1, <1>2 DEF Between
<1>4. getIndex' = Slot(getIndex, 2, N)
  <2>1. 2 \in 1 .. N /\ getIndex + 1 = getIndex + 2 - 1
    BY <1>2
  <2> QED
    BY <1>1, <1>2, <2>1, TxIndex
<1>5. getIndex' \in 0 .. N - 1 /\ Between(getIndex', putIndex, N) = TxHeld - 1
  BY <1>1, <1>2, <1>4 DEF Slot, Between
<1>6. TxHeld' = TxHeld - 1 /\ TxSpace' = TxSpace + 1
  <2>1. /\ TxHeld' = Tx!ItemsPresent(getIndex', putIndex)
        /\ TxSpace' = Tx!SpaceLeft(getIndex', putIndex)
    BY <1>1 DEF TxHeld, TxSpace
  <2>2. /\ TxHeld' = Between(getIndex', putIndex', N)
        /\ TxSpace' = N - 1 - Between(getIndex', putIndex', N)
    BY <1>1, <1>2, <1>5, <2>1, TxCount
  <2> QED
    BY <1>1, <1>2, <1>3, <1>5, <2>2
<1>7. Sent \in Seq(0 .. MaxSent) /\ Len(Sent) \in Nat /\ Len(Sent) + TxHeld = written
  BY <1>0, SentIsSeq, LenProperties DEF TxOrdered
<1>8. byte = Len(Sent) + 1 /\ byte \in 0 .. MaxSent
  <2>1. 1 \in 1 .. TxHeld /\ 1 \in 1 .. N
    BY <1>2, <1>3
  <2>2. Tx!Wrap(getIndex + 1 - 1) = Slot(getIndex, 1, N)
    BY <1>2, <2>1, TxSlot
  <2>5. Slot(getIndex, 1, N) = getIndex
    BY <1>2 DEF Slot
  <2>3. data[Tx!Wrap(getIndex + 1 - 1)] = Len(Sent) + 1
    BY <1>0, <2>1 DEF TxOrdered
  <2>4. byte \in 0 .. MaxSent
    BY <1>0, <1>2 DEF TxTyped, Tx!TypeOK
  <2> QED
    BY <2>2, <2>3, <2>4, <2>5
<1> HIDE DEF byte
<1>9. Sent' = Append(Sent, byte)
  <2> DEFINE q == line \o Tx!Register(shifting)
  <2>1. q \in Seq(0 .. MaxSent)
    BY <1>0, SentIsSeq, ConcatProperties
  <2>2. Sent = q \o Tx!Register(holding) /\ Sent' = q \o Tx!Register(byte)
    BY <1>1 DEF Sent, Tx!Register
  <2>3. byte # Tx!NoByte /\ holding \in 0 .. MaxSent
    BY <1>0, <1>7, <1>8 DEF Tx!NoByte, TxTyped, Tx!TypeOK
  <2> HIDE DEF q
  <2>4. q \o Tx!Register(holding) = q
    BY <1>1, <2>1, <2>3, Registers
  <2>5. q \o Tx!Register(byte) = Append(q, byte)
    BY <1>8, <2>1, <2>3, Registers
  <2> QED
    BY <2>2, <2>4, <2>5
<1>10. TxTyped'
  <2>1. txWaitingTask' \in BOOLEAN /\ notified' \in BOOLEAN
    BY <1>0, <1>1, Zenon DEF Tx!WakeWriter, TxTyped, Tx!TypeOK
  <2>2. TxSpace <= TxSpace'
    BY <1>2, <1>6
  <2>3. at \in {"copy", "publish"} => room <= TxSpace'
    BY <1>0, <1>2, <1>6, <2>2, TxIndex DEF TxTyped, Tx!TypeOK
  <2>4. Tx!TypeOK'
    BY <1>0, <1>1, <1>2, <1>5, <1>8, <2>1 DEF TxTyped, Tx!TypeOK
  <2> QED
    BY <1>0, <1>1, <2>3, <2>4 DEF TxTyped
<1>11. TxOrdered'
  <2>1. /\ Len(Sent') = Len(Sent) + 1
        /\ \A i \in 1 .. Len(Sent) + 1 : Sent'[i] = i
    <3>1. \A i \in 1 .. Len(Sent) : Sent[i] = i
      BY <1>0 DEF TxOrdered
    <3> QED
      BY <1>7, <1>8, <1>9, <3>1, AppendProperties
  <2>2. ASSUME NEW i \in 1 .. TxHeld - 1
        PROVE  data[Tx!Wrap(getIndex' + i - 1)] = Len(Sent) + 1 + i
    <3>1. i + 1 \in 1 .. TxHeld /\ i + 1 \in 1 .. N /\ i \in 1 .. N
      BY <1>2
    <3>2. data[Tx!Wrap(getIndex + (i + 1) - 1)] = Len(Sent) + (i + 1)
      BY <1>0, <3>1 DEF TxOrdered
    <3>3. Slot(getIndex, i + 1, N) = Slot(getIndex', i, N)
      BY <1>2, <1>4, <3>1 DEF Slot
    <3>4. Tx!Wrap(getIndex + (i + 1) - 1) = Slot(getIndex, i + 1, N)
      BY <1>2, <3>1, TxIndex
    <3>5. Tx!Wrap(getIndex' + i - 1) = Slot(getIndex', i, N)
      BY <1>2, <1>5, <3>1, TxIndex
    <3> QED
      BY <1>7, <3>2, <3>3, <3>4, <3>5
  <2>3. Len(Sent) + 1 + (TxHeld - 1) = written
    BY <1>2, <1>7
  <2> QED
    BY <1>0, <1>1, <1>6, <2>1, <2>2, <2>3 DEF TxOrdered
<1>12. TxAwake'
  BY <1>0, <1>1 DEF TxAwake, Tx!WaiterIsArmed, Tx!IsEmpty, Tx!WakeWriter
<1> QED
  BY <1>10, <1>11, <1>12 DEF TxInv

\* The interrupt finds nothing left, masks itself and wakes whoever waits.
LEMMA TxNothingLeft ==
  ASSUME TxInv, Tx!NothingLeft
  PROVE  TxInv'
<1> USE DEF TxInv
<1>1. /\ txInterrupt' = FALSE /\ txWaitingTask' = FALSE
      /\ notified' = (notified \/ txWaitingTask) /\ Tx!IsEmpty
      /\ UNCHANGED <<putIndex, getIndex, data, holding, shifting, line, at, room, written, target>>
  BY DEF Tx!NothingLeft, Tx!ring, Tx!hardware
<1>2. TxOrdered'
  BY <1>1, TxOrderKept
<1>3. TxTyped'
  <2>1. txWaitingTask' \in BOOLEAN /\ notified' \in BOOLEAN /\ txInterrupt' \in BOOLEAN
    BY <1>1, Zenon
  <2>2. TxSpace' = TxSpace
    BY <1>1 DEF TxSpace
  <2> QED
    BY <1>1, <2>1, <2>2 DEF TxTyped, Tx!TypeOK
<1>4. TxAwake'
  BY <1>1 DEF TxAwake, Tx!WaiterIsArmed, Tx!IsEmpty
<1> QED
  BY <1>2, <1>3, <1>4

\* A byte that moves from register to register or from there onto the line
\* stays where it is in the order.
LEMMA TxHardware ==
  ASSUME TxInv, Tx!Load \/ Tx!Shift
  PROVE  TxInv'
<1> USE DEF TxInv
<1>1. UNCHANGED <<putIndex, getIndex, data, at, room, written, target, txWaitingTask, notified,
                  txInterrupt>>
  BY DEF Tx!Load, Tx!Shift, Tx!ring, Tx!wake
<1>2. shifting \in 0 .. MaxSent /\ holding \in 0 .. MaxSent /\ line \in Seq(1 .. MaxSent)
      /\ line \in Seq(0 .. MaxSent)
      /\ Tx!Register(shifting) \in Seq(0 .. MaxSent) /\ Tx!Register(holding) \in Seq(0 .. MaxSent)
  BY SentIsSeq DEF TxTyped, Tx!TypeOK
<1>3. shifting' \in 0 .. MaxSent /\ holding' \in 0 .. MaxSent /\ line' \in Seq(1 .. MaxSent)
  <2>1. CASE Tx!Load
    BY <1>2, <2>1, TxFacts DEF Tx!Load, Tx!NoByte
  <2>2. CASE Tx!Shift
    <3>1. shifting \in 1 .. MaxSent /\ line' = Append(line, shifting) /\ shifting' = 0
          /\ holding' = holding
      BY <1>2, <2>2 DEF Tx!Shift, Tx!NoByte
    <3>2. line' \in Seq(1 .. MaxSent)
      BY <1>2, <3>1, AppendProperties
    <3> QED
      BY <1>2, <3>1, <3>2, TxFacts
  <2> QED
    BY <2>1, <2>2
<1>4. Sent' = Sent
  <2>1. CASE Tx!Load
    <3>1. shifting = Tx!NoByte /\ shifting' = holding /\ holding' = Tx!NoByte /\ line' = line
      BY <2>1 DEF Tx!Load
    <3>2. line \o Tx!Register(shifting) = line
      BY <1>2, <3>1, Registers
    <3>3. line \o Tx!Register(holding) \in Seq(0 .. MaxSent) /\ Tx!NoByte \in 0 .. MaxSent
      BY <1>2, TxFacts, ConcatProperties DEF Tx!NoByte
    <3>4. (line \o Tx!Register(holding)) \o Tx!Register(Tx!NoByte) = line \o Tx!Register(holding)
      BY <3>3, Registers
    <3>5. Sent' = (line \o Tx!Register(holding)) \o Tx!Register(Tx!NoByte)
      BY <3>1 DEF Sent, Tx!Register
    <3> QED
      BY <3>2, <3>4, <3>5 DEF Sent
  <2>2. CASE Tx!Shift
    <3>1. shifting # Tx!NoByte /\ shifting' = Tx!NoByte /\ holding' = holding
          /\ line' = Append(line, shifting)
      BY <2>2 DEF Tx!Shift
    <3>2. line \o Tx!Register(shifting) = Append(line, shifting)
      BY <1>2, <3>1, Registers
    <3>3. Append(line, shifting) \in Seq(0 .. MaxSent) /\ Tx!NoByte \in 0 .. MaxSent
      BY <1>2, TxFacts, AppendProperties DEF Tx!NoByte
    <3>4. Append(line, shifting) \o Tx!Register(Tx!NoByte) = Append(line, shifting)
      BY <3>3, Registers
    <3>5. Sent' = (Append(line, shifting) \o Tx!Register(Tx!NoByte)) \o Tx!Register(holding)
      BY <3>1 DEF Sent, Tx!Register
    <3> QED
      BY <3>2, <3>4, <3>5 DEF Sent
  <2> QED
    BY <2>1, <2>2
<1>5. TxHeld' = TxHeld /\ TxSpace' = TxSpace
  BY <1>1 DEF TxHeld, TxSpace
<1>6. TxTyped'
  BY <1>1, <1>3, <1>5 DEF TxTyped, Tx!TypeOK
<1>7. TxOrdered'
  BY <1>1, <1>4, <1>5 DEF TxOrdered
<1>8. TxAwake'
  BY <1>1 DEF TxAwake, Tx!WaiterIsArmed, Tx!IsEmpty
<1> QED
  BY <1>6, <1>7, <1>8

\* Every step of the writer, the interrupt and the hardware keeps the order.
LEMMA TxStep ==
  ASSUME TxInv, Tx!Next
  PROVE  TxInv'
BY TxTask, TxCopy, TxPublish, TxSendNext, TxNothingLeft, TxHardware
   DEF Tx!Next, Tx!Write, Tx!Flush, Tx!Interrupt, Tx!Transmitter

\* The transmitter's invariant is about its own variables only.
LEMMA TxStutter ==
  ASSUME TxInv, UNCHANGED txVars
  PROVE  TxInv'
<1>1. UNCHANGED <<putIndex, getIndex, data, at, room, written, target, txWaitingTask, notified,
                  txInterrupt, holding, shifting, line>>
  BY DEF txVars
<1>2. Sent' = Sent /\ TxHeld' = TxHeld /\ TxSpace' = TxSpace
  BY <1>1 DEF Sent, TxHeld, TxSpace
<1> QED
  BY <1>1, <1>2 DEF TxInv, TxTyped, Tx!TypeOK, TxOrdered, TxAwake, Tx!WaiterIsArmed, Tx!IsEmpty

\* What was sent and what is in the buffer are the bytes written, in order.
LEMMA TxInOrder == TxInv => Tx!SentInOrder
<1> SUFFICES ASSUME TxInv PROVE Tx!SentInOrder
  OBVIOUS
<1> USE TxFacts
<1> DEFINE buffered == Tx!Contents(data, getIndex, putIndex)
           all == [i \in 1 .. written |-> i]
<1>0. TxTyped /\ TxOrdered
  BY DEF TxInv
<1>1. Sent \in Seq(Nat) /\ Len(Sent) \in Nat /\ TxHeld \in Nat /\ Len(Sent) + TxHeld = written
  <2>1. Sent \in Seq(0 .. MaxSent) /\ 0 .. MaxSent \subseteq Nat
    BY <1>0, SentIsSeq
  <2> QED
    BY <1>0, <2>1, SeqMonotonic, LenProperties, TxCounts DEF TxOrdered
<1>2. buffered = [i \in 1 .. TxHeld |-> data[Tx!Wrap(getIndex + i - 1)]]
  BY DEF Tx!Contents, TxHeld
<1>3. \A i \in 1 .. TxHeld : buffered[i] = Len(Sent) + i
  BY <1>0, <1>2 DEF TxOrdered
<1>4. buffered \in Seq(Nat) /\ Len(buffered) = TxHeld
  <2>1. \A i \in 1 .. TxHeld : data[Tx!Wrap(getIndex + i - 1)] \in Nat
    BY <1>0, <1>1 DEF TxOrdered
  <2> QED
    BY <1>1, <1>2, <2>1, IsASeq
<1>5. all \in Seq(Nat) /\ Len(all) = written /\ \A i \in 1 .. written : all[i] = i
  BY <1>0 DEF TxTyped, Tx!TypeOK
<1>6. \A i \in 1 .. Len(Sent) : Sent[i] = i
  BY <1>0 DEF TxOrdered
<1> HIDE DEF buffered, all
<1>7. /\ Sent \o buffered \in Seq(Nat) /\ Len(Sent \o buffered) = written
      /\ \A i \in 1 .. written : (Sent \o buffered)[i] = i
  BY <1>1, <1>3, <1>4, <1>6, ConcatProperties
<1>8. Sent \o buffered = all
  BY <1>5, <1>7, SeqEqual
<1> QED
  BY <1>8 DEF Sent, buffered, all, Tx!SentInOrder

\* When everything is quiet the line has carried everything.
LEMMA TxQuiet == TxInv => Tx!WaiterIsArmed /\ Tx!QuietMeansSent
<1> SUFFICES ASSUME TxInv, at = "idle", ~txInterrupt, Tx!TxReady, shifting = Tx!NoByte
             PROVE  Len(line) = written
  BY DEF TxInv, TxAwake, Tx!QuietMeansSent
<1>0. TxTyped /\ TxOrdered /\ TxAwake
  BY DEF TxInv
<1>1. TxHeld = 0
  <2>1. getIndex = putIndex
    BY <1>0 DEF TxAwake, Tx!IsEmpty
  <2> QED
    BY <1>0, <2>1, TxCounts DEF Between
<1>2. Sent = line
  <2>1. /\ line \in Seq(0 .. MaxSent) /\ shifting \in 0 .. MaxSent /\ holding \in 0 .. MaxSent
        /\ holding = Tx!NoByte
    BY <1>0, SentIsSeq DEF TxTyped, Tx!TypeOK, Tx!TxReady
  <2>2. line \o Tx!Register(shifting) = line /\ line \o Tx!Register(holding) = line
    BY <2>1, Registers
  <2> QED
    BY <2>2 DEF Sent
<1>3. Len(line) \in Nat /\ Len(Sent) + TxHeld = written
  BY <1>0, SentIsSeq, LenProperties DEF TxOrdered
<1> QED
  BY <1>1, <1>2, <1>3

\* WriteUart, the interrupt and flush: a task that waits for room in write will
\* be woken by the interrupt, and no byte is left in the buffer when nothing
\* would send it, for every size of the buffer.
THEOREM NobodyIsStranded == Spec => []NothingIsStranded
<1>1. Init => TxInv
  BY TxStart DEF Init
<1>2. TxInv /\ [Next]_vars => TxInv'
  <2> SUFFICES ASSUME TxInv, [Next]_vars PROVE TxInv'
    OBVIOUS
  <2>1. CASE Tx!Next
    BY <2>1, TxStep
  <2>2. CASE UNCHANGED txVars
    BY <2>2, TxStutter
  <2> QED
    BY <2>1, <2>2 DEF Next, Others, vars
<1>3. TxInv => NothingIsStranded
  BY TxQuiet DEF NothingIsStranded
<1> QED
  BY <1>1, <1>2, <1>3, PTL DEF Spec

-----------------------------------------------------------------------------
(* The receiver, whose buffer the interrupt fills in up to three calls of  *)
(* PutItem.                                                                *)

RxBuffers == [put : Rx!Indices, data : [Rx!Indices -> 0 .. MaxArrived]]
RxHeld(r) == Rx!ItemsPresent(rxGetIndex, r.put)
RxItem(r, i) == r.data[Rx!Wrap(rxGetIndex + i - 1)]

\* What buffer r holds, none of it after byte top: bytes in order, each the next
\* of the one before it unless there is a mark between them, and the first the
\* one that is expected unless the reader has just seen a mark.  The item that
\* GetItem has fetched is still there.
RxOrdered(r, top) ==
  /\ \A i \in 1 .. RxHeld(r) :
       Rx!IsByte(RxItem(r, i)) => expected <= RxItem(r, i) /\ RxItem(r, i) <= top
  /\ \A i, k \in 1 .. RxHeld(r) :
       i < k /\ Rx!IsByte(RxItem(r, i)) /\ Rx!IsByte(RxItem(r, k)) =>
         /\ RxItem(r, i) < RxItem(r, k)
         /\ k = i + 1 => RxItem(r, k) = RxItem(r, i) + 1
  /\ RxHeld(r) > 0 /\ Rx!IsByte(RxItem(r, 1)) => RxItem(r, 1) = expected \/ marked
  /\ rxAt = "fetched" => RxHeld(r) > 0 /\ RxItem(r, 1) = value

\* Byte top + 1 may follow without a mark.
RxClosed(r, top) ==
  IF RxHeld(r) > 0
  THEN Rx!IsByte(RxItem(r, RxHeld(r))) => RxItem(r, RxHeld(r)) = top
  ELSE expected = top + 1 \/ marked

\* A mark is due as long as the last byte that arrived cannot be followed.
RxInv ==
  /\ Rx!TypeOK
  /\ expected <= rxArrived + 1
  /\ RxOrdered(Rx!Buffer, rxArrived)
  /\ ~bufferOverrunPending => RxClosed(Rx!Buffer, rxArrived)

\* What is assumed of the receiver's constants.
LEMMA RxFacts ==
  /\ MaxArrived \in Nat /\ ReceiveSlots \in Nat /\ ReceiveSlots >= 2
  /\ Rx!Indices = 0 .. ReceiveSlots - 1
BY PartsAssumption, RxIndex DEF Rx!ReceiveAssumption

\* The index behind a slot, the slot of an item, and the number of items.
LEMMA RxBehind ==
  ASSUME NEW index \in Rx!Indices
  PROVE  /\ Rx!Wrap(index + 1) = Behind(index, ReceiveSlots)
         /\ Behind(index, ReceiveSlots) \in Rx!Indices
BY RxFacts, RxIndex DEF Behind

\* The index of an item in the receiver's buffer.
LEMMA RxSlot ==
  ASSUME NEW index \in Rx!Indices, NEW i \in 1 .. ReceiveSlots
  PROVE  Rx!Wrap(index + i - 1) = Slot(index, i, ReceiveSlots)
BY RxIndex

\* The items in the receiver's buffer are counted and typed.
LEMMA RxCount ==
  ASSUME NEW r \in RxBuffers, rxGetIndex \in Rx!Indices
  PROVE  /\ RxHeld(r) = Between(rxGetIndex, r.put, ReceiveSlots)
         /\ RxHeld(r) \in 0 .. ReceiveSlots - 1
         /\ \A i \in 1 .. RxHeld(r) : RxItem(r, i) \in 0 .. MaxArrived
<1> USE RxFacts
<1>1. r.put \in 0 .. ReceiveSlots - 1 /\ rxGetIndex \in 0 .. ReceiveSlots - 1
      /\ r.data \in [0 .. ReceiveSlots - 1 -> 0 .. MaxArrived]
  BY DEF RxBuffers
<1>2. RxHeld(r) = Between(rxGetIndex, r.put, ReceiveSlots)
  BY <1>1, RxIndex DEF RxHeld
<1>3. RxHeld(r) \in 0 .. ReceiveSlots - 1
  BY <1>1, <1>2 DEF Between
<1>4. ASSUME NEW i \in 1 .. RxHeld(r) PROVE RxItem(r, i) \in 0 .. MaxArrived
  <2>1. i \in 1 .. ReceiveSlots
    BY <1>3
  <2>2. Slot(rxGetIndex, i, ReceiveSlots) \in 0 .. ReceiveSlots - 1
    BY <1>1, <2>1 DEF Slot
  <2> QED
    BY <1>1, <2>1, <2>2, RxSlot DEF RxItem
<1> QED
  BY <1>2, <1>3, <1>4

\* The slot behind the items is the one that PutItem fills, and no other item's.
LEMMA SlotBehind ==
  ASSUME NEW n \in Nat, n >= 2, NEW get \in 0 .. n - 1, NEW put \in 0 .. n - 1,
         Behind(put, n) # get
  PROVE  /\ Between(get, Behind(put, n), n) = Between(get, put, n) + 1
         /\ Slot(get, Between(get, put, n) + 1, n) = put
         /\ Between(get, put, n) + 1 \in 1 .. n
         /\ \A i \in 1 .. Between(get, put, n) : Slot(get, i, n) # put
<1>1. CASE get <= put
  BY <1>1 DEF Between, Slot, Behind
<1>2. CASE get > put
  BY <1>2 DEF Between, Slot, Behind
<1> QED
  BY <1>1, <1>2

\* PutItem puts an item behind those that are there, if there is room.
LEMMA RxPut ==
  ASSUME NEW r \in RxBuffers, NEW v \in 0 .. MaxArrived, rxGetIndex \in Rx!Indices,
         Rx!HasRoom(r.put)
  PROVE  /\ Rx!Put(r, v) \in RxBuffers
         /\ RxHeld(Rx!Put(r, v)) = RxHeld(r) + 1
         /\ \A i \in 1 .. RxHeld(r) : RxItem(Rx!Put(r, v), i) = RxItem(r, i)
         /\ RxItem(Rx!Put(r, v), RxHeld(r) + 1) = v
<1> USE RxFacts
<1> DEFINE N == ReceiveSlots
           s == Rx!Put(r, v)
           held == RxHeld(r)
<1>1. r.put \in 0 .. N - 1 /\ rxGetIndex \in 0 .. N - 1 /\ r.data \in [0 .. N - 1 -> 0 .. MaxArrived]
  BY DEF RxBuffers
<1>2. s = [put |-> Rx!Wrap(r.put + 1), data |-> [r.data EXCEPT ![r.put] = v]]
  BY DEF Rx!Put
<1>3. s.put = Behind(r.put, N) /\ s.put # rxGetIndex
      /\ s.data = [r.data EXCEPT ![r.put] = v]
  <2>1. s.put = Rx!Wrap(r.put + 1) /\ s.data = [r.data EXCEPT ![r.put] = v]
    BY <1>2
  <2>2. Rx!Wrap(r.put + 1) = Behind(r.put, N)
    BY <1>1, RxBehind
  <2>3. Rx!Wrap(r.put + 1) # rxGetIndex
    BY DEF Rx!HasRoom
  <2> QED
    BY <2>1, <2>2, <2>3
<1>4. s.put \in 0 .. N - 1 /\ s.data \in [0 .. N - 1 -> 0 .. MaxArrived]
  <2>1. Rx!Wrap(r.put + 1) \in 0 .. N - 1
    BY <1>1, RxBehind
  <2>2. s.put = Rx!Wrap(r.put + 1) /\ s.data = [r.data EXCEPT ![r.put] = v]
    BY <1>2
  <2> HIDE DEF s
  <2> QED
    BY <1>1, <2>1, <2>2
<1>5. s \in RxBuffers
  BY <1>2, <1>3, <1>4 DEF RxBuffers
<1>6. held = Between(rxGetIndex, r.put, N) /\ held \in 0 .. N - 1
  BY RxCount
<1> HIDE DEF s, held
<1>7. RxHeld(s) = Between(rxGetIndex, s.put, N)
  BY <1>5, RxCount
<1>8. /\ RxHeld(s) = held + 1
      /\ Slot(rxGetIndex, held + 1, N) = r.put /\ held + 1 \in 1 .. N
      /\ \A i \in 1 .. held : Slot(rxGetIndex, i, N) # r.put
  <2> DEFINE b == Between(rxGetIndex, r.put, N)
  <2>1. /\ Between(rxGetIndex, s.put, N) = b + 1
        /\ Slot(rxGetIndex, b + 1, N) = r.put /\ b + 1 \in 1 .. N
        /\ \A i \in 1 .. b : Slot(rxGetIndex, i, N) # r.put
    BY <1>1, <1>3, SlotBehind
  <2> QED
    BY <1>6, <1>7, <2>1
<1>9. ASSUME NEW i \in 1 .. held
      PROVE  RxItem(s, i) = RxItem(r, i)
  <2>1. i \in 1 .. N /\ Slot(rxGetIndex, i, N) \in 0 .. N - 1
    BY <1>1, <1>6 DEF Slot
  <2>2. Slot(rxGetIndex, i, N) # r.put
    BY <1>8
  <2>3. Rx!Wrap(rxGetIndex + i - 1) = Slot(rxGetIndex, i, N)
    BY <2>1, RxSlot
  <2> QED
    BY <1>1, <1>3, <2>1, <2>2, <2>3 DEF RxItem
<1>10. RxItem(s, held + 1) = v
  <2>1. held + 1 \in 1 .. N /\ Slot(rxGetIndex, held + 1, N) = r.put
    BY <1>8
  <2>2. Rx!Wrap(rxGetIndex + (held + 1) - 1) = r.put
    BY <2>1, RxSlot
  <2> QED
    BY <1>1, <1>3, <2>2 DEF RxItem
<1> QED
  BY <1>5, <1>8, <1>9, <1>10 DEF s, held

\* A mark keeps the order, and any byte may follow it.
LEMMA RxMark ==
  ASSUME Rx!TypeOK, NEW r \in RxBuffers, NEW top \in 0 .. MaxArrived, RxOrdered(r, top),
         Rx!HasRoom(r.put)
  PROVE  /\ Rx!Put(r, Rx!Mark) \in RxBuffers
         /\ RxOrdered(Rx!Put(r, Rx!Mark), top)
         /\ \A t : RxClosed(Rx!Put(r, Rx!Mark), t)
<1> USE RxFacts
<1> DEFINE s == Rx!Put(r, Rx!Mark)
<1>1. rxGetIndex \in Rx!Indices /\ Rx!Mark = 0 /\ Rx!Mark \in 0 .. MaxArrived
  BY DEF Rx!TypeOK, Rx!Mark
<1>2. /\ s \in RxBuffers /\ RxHeld(s) = RxHeld(r) + 1
      /\ \A i \in 1 .. RxHeld(r) : RxItem(s, i) = RxItem(r, i)
      /\ RxItem(s, RxHeld(r) + 1) = 0
  BY <1>1, RxPut
<1>3. RxHeld(r) \in Nat
  BY <1>1, RxCount
<1> HIDE DEF s
<1>4. \A i \in 1 .. RxHeld(s) : Rx!IsByte(RxItem(s, i)) => i \in 1 .. RxHeld(r)
  BY <1>2, <1>3 DEF Rx!IsByte, Rx!Mark
<1>5. RxOrdered(s, top)
  BY <1>2, <1>3, <1>4 DEF RxOrdered
<1>6. \A t : RxClosed(s, t)
  BY <1>2, <1>3 DEF RxClosed, Rx!IsByte, Rx!Mark
<1> QED
  BY <1>2, <1>5, <1>6 DEF s

\* The next byte keeps the order where it may follow.
LEMMA RxByte ==
  ASSUME Rx!TypeOK, NEW r \in RxBuffers, NEW top \in 0 .. MaxArrived, top + 1 <= MaxArrived,
         expected <= top + 1, RxOrdered(r, top), RxClosed(r, top), Rx!HasRoom(r.put)
  PROVE  /\ Rx!Put(r, top + 1) \in RxBuffers
         /\ RxOrdered(Rx!Put(r, top + 1), top + 1)
         /\ RxClosed(Rx!Put(r, top + 1), top + 1)
<1> USE RxFacts
<1> DEFINE s == Rx!Put(r, top + 1)
           held == RxHeld(r)
<1>1. rxGetIndex \in Rx!Indices /\ top + 1 \in 0 .. MaxArrived /\ expected \in Nat
  BY DEF Rx!TypeOK
<1>2. /\ s \in RxBuffers /\ RxHeld(s) = held + 1
      /\ \A i \in 1 .. held : RxItem(s, i) = RxItem(r, i)
      /\ RxItem(s, held + 1) = top + 1
  BY <1>1, RxPut
<1>3. held \in Nat /\ \A i \in 1 .. held : RxItem(r, i) \in Nat
  BY <1>1, RxCount
<1> HIDE DEF s
<1>4. RxOrdered(s, top + 1)
  <2>1. ASSUME NEW i \in 1 .. held + 1, Rx!IsByte(RxItem(s, i))
        PROVE  expected <= RxItem(s, i) /\ RxItem(s, i) <= top + 1
    <3>1. CASE i = held + 1
      BY <1>2, <3>1
    <3>2. CASE i # held + 1
      <4>1. i \in 1 .. held /\ RxItem(s, i) = RxItem(r, i)
        BY <1>2, <1>3, <3>2
      <4> QED
        BY <1>1, <1>3, <2>1, <4>1 DEF RxOrdered
    <3> QED
      BY <3>1, <3>2
  <2>2. ASSUME NEW i \in 1 .. held + 1, NEW k \in 1 .. held + 1, i < k,
               Rx!IsByte(RxItem(s, i)), Rx!IsByte(RxItem(s, k))
        PROVE  /\ RxItem(s, i) < RxItem(s, k)
               /\ k = i + 1 => RxItem(s, k) = RxItem(s, i) + 1
    <3>1. i \in 1 .. held /\ RxItem(s, i) = RxItem(r, i) /\ RxItem(r, i) \in Nat
      BY <1>2, <1>3, <2>2
    <3>2. CASE k = held + 1
      <4>1. RxItem(s, k) = top + 1
        BY <1>2, <3>2
      <4>2. RxItem(r, i) <= top
        BY <2>2, <3>1 DEF RxOrdered
      <4>3. k = i + 1 => RxItem(r, i) = top
        BY <1>3, <2>2, <3>1, <3>2 DEF RxClosed
      <4> QED
        BY <3>1, <4>1, <4>2, <4>3
    <3>3. CASE k # held + 1
      <4>1. k \in 1 .. held /\ RxItem(s, k) = RxItem(r, k)
        BY <1>2, <1>3, <3>3
      <4> QED
        BY <2>2, <3>1, <4>1 DEF RxOrdered
    <3> QED
      BY <3>2, <3>3
  <2>3. held + 1 > 0 /\ Rx!IsByte(RxItem(s, 1)) => RxItem(s, 1) = expected \/ marked
    <3>1. CASE held = 0
      BY <1>2, <3>1 DEF RxClosed
    <3>2. CASE held > 0
      <4>1. RxItem(s, 1) = RxItem(r, 1)
        BY <1>2, <1>3, <3>2
      <4> QED
        BY <3>2, <4>1 DEF RxOrdered
    <3> QED
      BY <1>3, <3>1, <3>2
  <2>4. rxAt = "fetched" => held + 1 > 0 /\ RxItem(s, 1) = value
    BY <1>2, <1>3 DEF RxOrdered
  <2> QED
    BY <1>2, <2>1, <2>2, <2>3, <2>4 DEF RxOrdered
<1>5. RxClosed(s, top + 1)
  BY <1>2, <1>3 DEF RxClosed
<1> QED
  BY <1>2, <1>4, <1>5 DEF s

\* What is none of it after a byte is none of it after the next.
LEMMA RxMore ==
  ASSUME Rx!TypeOK, NEW r \in RxBuffers, NEW top \in 0 .. MaxArrived, RxOrdered(r, top)
  PROVE  RxOrdered(r, top + 1)
<1>1. \A i \in 1 .. RxHeld(r) : RxItem(r, i) \in 0 .. MaxArrived
  BY RxCount DEF Rx!TypeOK
<1>2. \A i \in 1 .. RxHeld(r) : RxItem(r, i) <= top => RxItem(r, i) <= top + 1
  BY <1>1, RxFacts
<1> QED
  BY <1>2 DEF RxOrdered

\* The interrupt for a byte, with the mark that is due before it.
LEMMA RxStore ==
  ASSUME RxInv, rxArrived + 1 <= MaxArrived
  PROVE  LET s == Rx!Store(rxArrived + 1)
         IN /\ s \in RxBuffers
            /\ RxOrdered(s, rxArrived + 1)
            /\ Rx!HasRoom(rxPutIndex) => RxClosed(s, rxArrived + 1)
<1> USE RxFacts
<1> DEFINE b == Rx!Buffer
           c == rxArrived + 1
           m == Rx!Put(b, Rx!Mark)
<1>1. /\ Rx!TypeOK /\ b \in RxBuffers /\ b.put = rxPutIndex
      /\ rxArrived \in 0 .. MaxArrived /\ expected <= rxArrived + 1
  BY DEF RxInv, Rx!TypeOK, RxBuffers, Rx!Buffer
<1>2. RxOrdered(b, rxArrived) /\ (~bufferOverrunPending => RxClosed(b, rxArrived))
  BY DEF RxInv
<1> HIDE DEF b
<1>3. CASE ~Rx!HasRoom(rxPutIndex)
  <2>1. Rx!Store(c) = b
    BY <1>1, <1>3 DEF Rx!Store, Rx!Put, b
  <2> QED
    BY <1>1, <1>2, <1>3, <2>1, RxMore
<1>4. CASE Rx!HasRoom(rxPutIndex) /\ ~bufferOverrunPending
  <2>1. Rx!Store(c) = Rx!Put(b, c)
    BY <1>4 DEF Rx!Store, b
  <2> QED
    BY <1>1, <1>2, <1>4, <2>1, RxByte
<1>5. CASE Rx!HasRoom(rxPutIndex) /\ bufferOverrunPending
  <2>1. Rx!Store(c) = Rx!Put(m, c)
    BY <1>5 DEF Rx!Store, b
  <2>2. m \in RxBuffers /\ RxOrdered(m, rxArrived) /\ \A t : RxClosed(m, t)
    BY <1>1, <1>2, <1>5, RxMark
  <2> HIDE DEF m
  <2>3. CASE Rx!HasRoom(m.put)
    BY <1>1, <2>1, <2>2, <2>3, RxByte
  <2>4. CASE ~Rx!HasRoom(m.put)
    <3>1. Rx!Store(c) = m
      BY <2>1, <2>4 DEF Rx!Put
    <3> QED
      BY <1>1, <2>2, <3>1, RxMore
  <2> QED
    BY <2>3, <2>4
<1> QED
  BY <1>3, <1>4, <1>5

\* The order that holds for a buffer with the old reader holds for it in the
\* next state if the reader has not moved.
LEMMA RxSame ==
  ASSUME NEW r, Rx!Buffer' = r, NEW top, rxArrived' = top,
         UNCHANGED <<rxGetIndex, rxAt, value, expected, marked>>
  PROVE  /\ RxOrdered(r, top) => RxOrdered(Rx!Buffer, rxArrived)'
         /\ RxClosed(r, top) => RxClosed(Rx!Buffer, rxArrived)'
<1>1. RxHeld(Rx!Buffer)' = RxHeld(r) /\ \A i : RxItem(Rx!Buffer, i)' = RxItem(r, i)
  BY DEF RxHeld, RxItem
<1>2. RxOrdered(r, top) => RxOrdered(Rx!Buffer, rxArrived)'
  BY <1>1 DEF RxOrdered
<1>3. RxClosed(r, top) => RxClosed(Rx!Buffer, rxArrived)'
  BY <1>1 DEF RxClosed
<1> QED
  BY <1>2, <1>3

\* The interrupt.
LEMMA RxReceive ==
  ASSUME RxInv, NEW error \in BOOLEAN, Rx!Receive(error)
  PROVE  RxInv'
<1> USE RxFacts
<1> DEFINE c == rxArrived + 1
           s == Rx!Store(c)
           r == IF error THEN Rx!Put(s, Rx!Mark) ELSE s
<1>1. /\ c <= MaxArrived /\ rxArrived' = c /\ rxPutIndex' = r.put /\ rxData' = r.data
      /\ bufferOverrunPending' = ~Rx!HasRoom(rxPutIndex)
      /\ UNCHANGED <<rxGetIndex, rxAt, value, expected, marked>>
  BY DEF Rx!Receive, Rx!reader
<1>2. Rx!TypeOK /\ rxArrived \in 0 .. MaxArrived /\ c \in 0 .. MaxArrived
      /\ expected \in 1 .. MaxArrived + 1 /\ expected <= c
  BY <1>1 DEF RxInv, Rx!TypeOK
<1>3. s \in RxBuffers /\ RxOrdered(s, c) /\ (Rx!HasRoom(rxPutIndex) => RxClosed(s, c))
  BY <1>1, RxStore
<1> HIDE DEF s
<1>4. r \in RxBuffers /\ RxOrdered(r, c) /\ (Rx!HasRoom(rxPutIndex) => RxClosed(r, c))
  <2>1. CASE error /\ Rx!HasRoom(s.put)
    BY <1>2, <1>3, <2>1, RxMark
  <2>2. CASE ~(error /\ Rx!HasRoom(s.put))
    BY <1>3, <2>2 DEF Rx!Put
  <2> QED
    BY <2>1, <2>2
<1> HIDE DEF r
<1>5. Rx!Buffer' = r
  BY <1>1, <1>4 DEF Rx!Buffer, RxBuffers
<1>6. RxOrdered(Rx!Buffer, rxArrived)' /\ (Rx!HasRoom(rxPutIndex) => RxClosed(Rx!Buffer, rxArrived)')
  BY <1>1, <1>4, <1>5, RxSame
<1>7. Rx!TypeOK'
  <2>1. bufferOverrunPending' \in BOOLEAN
    BY <1>1, Zenon
  <2>2. rxPutIndex' \in Rx!Indices /\ rxData' \in [Rx!Indices -> 0 .. MaxArrived]
    BY <1>1, <1>4 DEF RxBuffers
  <2> QED
    BY <1>1, <1>2, <2>1, <2>2 DEF Rx!TypeOK
<1>8. (expected <= rxArrived + 1)'
  BY <1>1, <1>2
<1>9. ~bufferOverrunPending' => Rx!HasRoom(rxPutIndex)
  BY <1>1, Zenon
<1> QED
  BY <1>6, <1>7, <1>8, <1>9 DEF RxInv

\* GetItem fetches the first item.
LEMMA RxFirst ==
  ASSUME RxInv, rxGetIndex # rxPutIndex
  PROVE  RxHeld(Rx!Buffer) > 0 /\ RxItem(Rx!Buffer, 1) = rxData[rxGetIndex]
<1> USE RxFacts
<1>1. /\ rxGetIndex \in 0 .. ReceiveSlots - 1 /\ rxPutIndex \in 0 .. ReceiveSlots - 1
      /\ Rx!Buffer \in RxBuffers /\ Rx!Buffer.put = rxPutIndex /\ Rx!Buffer.data = rxData
  BY DEF RxInv, Rx!TypeOK, RxBuffers, Rx!Buffer
<1>2. RxHeld(Rx!Buffer) = Between(rxGetIndex, rxPutIndex, ReceiveSlots)
  BY <1>1, RxCount
<1>3. Slot(rxGetIndex, 1, ReceiveSlots) = rxGetIndex
  BY <1>1 DEF Slot
<1>4. Rx!Wrap(rxGetIndex + 1 - 1) = Slot(rxGetIndex, 1, ReceiveSlots)
  <2>1. 1 \in 1 .. ReceiveSlots
    OBVIOUS
  <2> QED
    BY <1>1, <2>1, RxSlot
<1> QED
  BY <1>1, <1>2, <1>3, <1>4 DEF RxItem, Between

\* GetItem reads the slot at the head, which stays in the buffer.
LEMMA RxFetch ==
  ASSUME RxInv, Rx!Fetch
  PROVE  RxInv'
<1> USE RxFacts
<1> DEFINE b == Rx!Buffer
<1>1. /\ rxGetIndex # rxPutIndex /\ value' = rxData[rxGetIndex] /\ rxAt' = "fetched"
      /\ UNCHANGED <<rxPutIndex, rxGetIndex, rxData, bufferOverrunPending, rxArrived, expected, marked>>
  BY DEF Rx!Fetch, Rx!ring
<1>2. RxHeld(b) > 0 /\ RxItem(b, 1) = rxData[rxGetIndex]
  BY <1>1, RxFirst
<1>3. b' = b
  BY <1>1 DEF Rx!Buffer
<1>4. RxHeld(b)' = RxHeld(b) /\ \A i : RxItem(b, i)' = RxItem(b, i)
  BY <1>1, <1>3 DEF RxHeld, RxItem
<1>5. Rx!TypeOK /\ RxOrdered(b, rxArrived) /\ (~bufferOverrunPending => RxClosed(b, rxArrived))
  BY DEF RxInv
<1>6. Rx!TypeOK'
  <2>1. rxData[rxGetIndex] \in 0 .. MaxArrived
    BY <1>5 DEF Rx!TypeOK
  <2> QED
    BY <1>1, <1>5, <2>1 DEF Rx!TypeOK
<1> HIDE DEF b
<1>7. RxOrdered(b, rxArrived)'
  BY <1>1, <1>2, <1>4, <1>5 DEF RxOrdered
<1>8. ~bufferOverrunPending' => RxClosed(b, rxArrived)'
  BY <1>1, <1>4, <1>5 DEF RxClosed
<1> QED
  BY <1>1, <1>6, <1>7, <1>8 DEF RxInv, b

\* The index behind the first item leaves one fewer.
LEMMA OneFewer ==
  ASSUME NEW n \in Nat, n >= 2, NEW get \in 0 .. n - 1, NEW put \in 0 .. n - 1, get # put
  PROVE  /\ Behind(get, n) \in 0 .. n - 1
         /\ Between(Behind(get, n), put, n) = Between(get, put, n) - 1
<1>1. CASE get < put
  BY <1>1 DEF Between, Behind
<1>2. CASE get > put
  BY <1>2 DEF Between, Behind
<1> QED
  BY <1>1, <1>2

\* GetItem moves on to the next item.
LEMMA RxAdvance ==
  ASSUME RxInv, Rx!Advance
  PROVE  RxInv'
<1> USE RxFacts
<1> DEFINE b == Rx!Buffer
           N == ReceiveSlots
           held == RxHeld(b)
<1>1. /\ rxAt = "fetched" /\ rxAt' = "idle" /\ rxGetIndex' = Rx!Wrap(rxGetIndex + 1)
      /\ expected' = (IF Rx!IsByte(value) THEN value + 1 ELSE expected)
      /\ marked' = ~Rx!IsByte(value)
      /\ UNCHANGED <<rxPutIndex, rxData, bufferOverrunPending, rxArrived, value>>
  BY DEF Rx!Advance
<1>2. /\ Rx!TypeOK /\ RxOrdered(b, rxArrived) /\ (~bufferOverrunPending => RxClosed(b, rxArrived))
      /\ expected <= rxArrived + 1
  BY DEF RxInv
<1>3. /\ rxGetIndex \in 0 .. N - 1 /\ rxPutIndex \in 0 .. N - 1 /\ rxData \in [0 .. N - 1 -> 0 .. MaxArrived]
      /\ b \in RxBuffers /\ b.put = rxPutIndex /\ b.data = rxData
      /\ value \in 0 .. MaxArrived /\ rxArrived \in 0 .. MaxArrived /\ expected \in 1 .. MaxArrived + 1
  BY <1>2 DEF Rx!TypeOK, RxBuffers, Rx!Buffer
<1>4. /\ held \in 0 .. N - 1 /\ held = Between(rxGetIndex, rxPutIndex, N)
      /\ \A i \in 1 .. held : RxItem(b, i) \in 0 .. MaxArrived
  BY <1>3, RxCount
<1>5. held > 0 /\ RxItem(b, 1) = value
  BY <1>1, <1>2 DEF RxOrdered
<1>6. rxGetIndex' = Behind(rxGetIndex, N)
  BY <1>1, <1>3, RxBehind
<1>7. rxGetIndex' \in 0 .. N - 1 /\ Between(rxGetIndex', rxPutIndex, N) = held - 1
  <2>1. rxGetIndex # rxPutIndex
    BY <1>3, <1>4, <1>5 DEF Between
  <2>2. /\ Behind(rxGetIndex, N) \in 0 .. N - 1
        /\ Between(Behind(rxGetIndex, N), rxPutIndex, N) = Between(rxGetIndex, rxPutIndex, N) - 1
    BY <1>3, <2>1, OneFewer
  <2> QED
    BY <1>4, <1>6, <2>2
<1>8. b' = b
  BY <1>1 DEF Rx!Buffer
<1>9. RxHeld(b)' = held - 1
  <2>1. RxHeld(b)' = Rx!ItemsPresent(rxGetIndex', rxPutIndex)
    BY <1>3, <1>8 DEF RxHeld
  <2>2. Rx!ItemsPresent(rxGetIndex', rxPutIndex) = Between(rxGetIndex', rxPutIndex, N)
    BY <1>3, <1>7, RxIndex
  <2> QED
    BY <1>7, <2>1, <2>2
<1>10. ASSUME NEW i \in 1 .. held - 1
       PROVE  RxItem(b, i)' = RxItem(b, i + 1)
  <2>1. i \in 1 .. N /\ i + 1 \in 1 .. N
    BY <1>4
  <2>2. Slot(rxGetIndex', i, N) = Slot(rxGetIndex, i + 1, N)
    BY <1>3, <1>6, <2>1 DEF Slot, Behind
  <2>3. Rx!Wrap(rxGetIndex' + i - 1) = Slot(rxGetIndex', i, N)
    BY <1>7, <2>1, RxSlot
  <2>4. Rx!Wrap(rxGetIndex + (i + 1) - 1) = Slot(rxGetIndex, i + 1, N)
    BY <1>3, <2>1, RxSlot
  <2> QED
    BY <1>3, <1>8, <2>2, <2>3, <2>4 DEF RxItem
<1> HIDE DEF b, held
<1>11. Rx!TypeOK'
  <2>1. marked' \in BOOLEAN
    BY <1>1, Zenon
  <2>2. expected' \in 1 .. MaxArrived + 1
    BY <1>1, <1>3
  <2> QED
    BY <1>1, <1>2, <1>7, <2>1, <2>2 DEF Rx!TypeOK
<1>12. Rx!IsByte(value) => value <= rxArrived
  <2>1. 1 \in 1 .. held
    BY <1>4, <1>5
  <2> QED
    BY <1>2, <1>5, <2>1 DEF RxOrdered, held
<1>13. (expected <= rxArrived + 1)'
  BY <1>1, <1>2, <1>3, <1>12
<1>14. ASSUME NEW i \in 1 .. held - 1, Rx!IsByte(RxItem(b, i + 1))
       PROVE  expected' <= RxItem(b, i + 1) /\ RxItem(b, i + 1) <= rxArrived
  <2>1. i + 1 \in 1 .. held /\ 1 \in 1 .. held /\ 1 < i + 1
    BY <1>4, <1>5
  <2>2. expected <= RxItem(b, i + 1) /\ RxItem(b, i + 1) <= rxArrived
    BY <1>2, <1>14, <2>1 DEF RxOrdered, held
  <2>3. Rx!IsByte(value) => value < RxItem(b, i + 1)
    BY <1>2, <1>5, <1>14, <2>1 DEF RxOrdered, held
  <2>4. RxItem(b, i + 1) \in 0 .. MaxArrived
    BY <1>4, <2>1
  <2> QED
    BY <1>1, <1>3, <2>2, <2>3, <2>4
<1>15. ASSUME NEW i \in 1 .. held - 1, NEW k \in 1 .. held - 1, i < k,
              Rx!IsByte(RxItem(b, i + 1)), Rx!IsByte(RxItem(b, k + 1))
       PROVE  /\ RxItem(b, i + 1) < RxItem(b, k + 1)
              /\ k = i + 1 => RxItem(b, k + 1) = RxItem(b, i + 1) + 1
  <2>1. i + 1 \in 1 .. held /\ k + 1 \in 1 .. held /\ i + 1 < k + 1
    BY <1>4, <1>15
  <2>2. k = i + 1 => k + 1 = (i + 1) + 1
    OBVIOUS
  <2> QED
    BY <1>2, <1>15, <2>1, <2>2 DEF RxOrdered, held
<1>16. held - 1 > 0 /\ Rx!IsByte(RxItem(b, 2)) => RxItem(b, 2) = expected' \/ marked'
  <2> SUFFICES ASSUME held - 1 > 0, Rx!IsByte(RxItem(b, 2)), Rx!IsByte(value)
               PROVE  RxItem(b, 2) = expected'
    BY <1>1
  <2>1. 1 \in 1 .. held /\ 2 \in 1 .. held /\ 1 < 2 /\ 2 = 1 + 1
    BY <1>4
  <2>2. RxItem(b, 2) = value + 1
    BY <1>2, <1>5, <2>1 DEF RxOrdered, held
  <2> QED
    BY <1>1, <2>2
<1>17. RxOrdered(b, rxArrived)'
  <2>1. \A i \in 1 .. held - 1 : RxItem(b, i)' = RxItem(b, i + 1)
    BY <1>10
  <2>2. held - 1 > 0 => RxItem(b, 1)' = RxItem(b, 2)
    BY <1>4, <2>1
  <2>3. \A i \in 1 .. held - 1 :
          Rx!IsByte(RxItem(b, i)') => expected' <= RxItem(b, i)' /\ RxItem(b, i)' <= rxArrived'
    BY <1>1, <1>14, <2>1
  <2>4. \A i, k \in 1 .. held - 1 :
          i < k /\ Rx!IsByte(RxItem(b, i)') /\ Rx!IsByte(RxItem(b, k)') =>
            /\ RxItem(b, i)' < RxItem(b, k)'
            /\ k = i + 1 => RxItem(b, k)' = RxItem(b, i)' + 1
    BY <1>15, <2>1
  <2>5. held - 1 > 0 /\ Rx!IsByte(RxItem(b, 1)') => RxItem(b, 1)' = expected' \/ marked'
    BY <1>16, <2>2
  <2> QED
    BY <1>1, <1>9, <2>3, <2>4, <2>5 DEF RxOrdered
<1>18. ~bufferOverrunPending' => RxClosed(b, rxArrived)'
  <2> SUFFICES ASSUME RxClosed(b, rxArrived) PROVE RxClosed(b, rxArrived)'
    BY <1>1, <1>2
  <2>1. CASE held = 1
    <3>1. Rx!IsByte(value) => value = rxArrived
      BY <1>5, <2>1 DEF RxClosed, held
    <3>2. expected' = rxArrived' + 1 \/ marked'
      BY <1>1, <3>1
    <3> QED
      BY <1>9, <2>1, <3>2 DEF RxClosed
  <2>2. CASE held > 1
    <3>1. PICK last \in 1 .. held - 1 : last = held - 1
      BY <1>4, <2>2
    <3>2. RxItem(b, last)' = RxItem(b, held)
      <4>1. RxItem(b, last)' = RxItem(b, last + 1) /\ last + 1 = held
        BY <1>4, <1>10, <3>1
      <4> QED
        BY <4>1
    <3>3. Rx!IsByte(RxItem(b, held)) => RxItem(b, held) = rxArrived
      BY <1>5 DEF RxClosed, held
    <3>4. RxItem(b, RxHeld(b))' = RxItem(b, last)'
      BY <1>9, <3>1 DEF RxItem
    <3> QED
      BY <1>1, <1>9, <3>1, <3>2, <3>3, <3>4 DEF RxClosed
  <2> QED
    BY <1>4, <1>5, <2>1, <2>2
<1> QED
  BY <1>11, <1>13, <1>17, <1>18 DEF RxInv, b

\* An empty buffer is in order.
LEMMA RxEmpty ==
  ASSUME NEW r \in RxBuffers, rxGetIndex \in Rx!Indices, r.put = rxGetIndex
  PROVE  RxHeld(r) = 0
BY RxFacts, RxCount DEF Between

\* ClearReceiveBuffer leaves an empty buffer and expects the next byte.
LEMMA RxClear ==
  ASSUME RxInv, Rx!ClearReceiveBuffer
  PROVE  RxInv'
<1> USE RxFacts
<1>1. /\ rxAt = "idle" /\ rxGetIndex' = 0 /\ rxPutIndex' = 0
      /\ expected' = rxArrived + 1 /\ marked' = FALSE
      /\ UNCHANGED <<rxData, bufferOverrunPending, rxArrived, rxAt, value>>
  BY DEF Rx!ClearReceiveBuffer
<1>2. Rx!TypeOK
  BY DEF RxInv
<1>3. Rx!TypeOK'
  <2>1. marked' \in BOOLEAN
    BY <1>1, Zenon
  <2> QED
    BY <1>1, <1>2, <2>1 DEF Rx!TypeOK
<1>4. RxHeld(Rx!Buffer)' = 0
  <2>1. (Rx!Buffer \in RxBuffers)' /\ (rxGetIndex \in Rx!Indices)' /\ (Rx!Buffer.put = rxGetIndex)'
    BY <1>1, <1>3 DEF Rx!Buffer, RxBuffers, Rx!TypeOK
  <2>2. RxHeld(Rx!Buffer)' = Rx!ItemsPresent(0, 0)
    BY <1>1 DEF RxHeld, Rx!Buffer
  <2>3. Rx!ItemsPresent(0, 0) = Between(0, 0, ReceiveSlots)
    BY RxIndex
  <2> QED
    BY <2>2, <2>3 DEF Between
<1>5. RxOrdered(Rx!Buffer, rxArrived)'
  BY <1>1, <1>4 DEF RxOrdered
<1>6. RxClosed(Rx!Buffer, rxArrived)'
  BY <1>1, <1>4 DEF RxClosed
<1>7. (expected <= rxArrived + 1)'
  BY <1>1, <1>2 DEF Rx!TypeOK
<1> QED
  BY <1>3, <1>5, <1>6, <1>7 DEF RxInv

\* At the start the buffer is empty and the first byte is expected.
LEMMA RxStart == Rx!Init => RxInv
<1> SUFFICES ASSUME Rx!Init PROVE RxInv
  OBVIOUS
<1> USE RxFacts DEF Rx!Init
<1>1. Rx!TypeOK
  <2>1. bufferOverrunPending \in BOOLEAN /\ marked \in BOOLEAN
    BY Zenon
  <2> QED
    BY <2>1 DEF Rx!TypeOK, Rx!Mark
<1>2. RxHeld(Rx!Buffer) = 0
  BY <1>1, RxEmpty DEF Rx!Buffer, RxBuffers, Rx!TypeOK
<1> QED
  BY <1>1, <1>2 DEF RxInv, RxOrdered, RxClosed

\* Every step of the interrupt and of the reader keeps the order.
LEMMA RxStep ==
  ASSUME RxInv, Rx!Next
  PROVE  RxInv'
BY RxReceive, RxFetch, RxAdvance, RxClear DEF Rx!Next

\* The receiver's invariant is about its own variables only.
LEMMA RxStutter ==
  ASSUME RxInv, UNCHANGED rxVars
  PROVE  RxInv'
<1>1. UNCHANGED <<rxPutIndex, rxGetIndex, rxData, bufferOverrunPending, rxArrived, rxAt, value,
                  expected, marked>>
  BY DEF rxVars
<1>2. Rx!Buffer' = Rx!Buffer
  BY <1>1 DEF Rx!Buffer
<1> DEFINE b == Rx!Buffer
<1>3. RxHeld(b)' = RxHeld(b) /\ \A i : RxItem(b, i)' = RxItem(b, i)
  BY <1>1, <1>2 DEF RxHeld, RxItem
<1>4. RxOrdered(b, rxArrived) /\ (~bufferOverrunPending => RxClosed(b, rxArrived))
      /\ Rx!TypeOK /\ expected <= rxArrived + 1
  BY DEF RxInv
<1> HIDE DEF b
<1>5. RxOrdered(b, rxArrived)'
  BY <1>1, <1>3, <1>4 DEF RxOrdered
<1>6. ~bufferOverrunPending' => RxClosed(b, rxArrived)'
  <2> SUFFICES ASSUME RxClosed(b, rxArrived) PROVE RxClosed(b, rxArrived)'
    BY <1>1, <1>4
  <2>1. RxItem(b, RxHeld(b))' = RxItem(b, RxHeld(b))
    BY <1>1, <1>2, <1>3 DEF b, RxItem
  <2> QED
    BY <1>1, <1>3, <2>1 DEF RxClosed
<1>7. Rx!TypeOK' /\ (expected <= rxArrived + 1)'
  BY <1>1, <1>4 DEF Rx!TypeOK
<1> QED
  BY <1>5, <1>6, <1>7 DEF RxInv, b

\* What GetItem has fetched is the first item in the buffer.
LEMMA RxSound == RxInv => Rx!ReadsInOrder /\ Rx!LossIsMarked
<1> SUFFICES ASSUME RxInv, rxAt = "fetched", Rx!IsByte(value)
             PROVE  value >= expected /\ (value = expected \/ marked)
  BY DEF Rx!ReadsInOrder, Rx!LossIsMarked
<1> DEFINE b == Rx!Buffer
<1>1. RxOrdered(b, rxArrived) /\ RxHeld(b) > 0 /\ RxItem(b, 1) = value
  BY DEF RxInv, RxOrdered
<1>2. b \in RxBuffers /\ rxGetIndex \in Rx!Indices /\ value \in 0 .. MaxArrived
      /\ expected \in 1 .. MaxArrived + 1
  BY DEF RxInv, Rx!TypeOK, Rx!Buffer, RxBuffers
<1>3. 1 \in 1 .. RxHeld(b)
  <2>1. RxHeld(b) \in Nat
    BY <1>2, RxCount, RxFacts
  <2> QED
    BY <1>1, <2>1
<1> HIDE DEF b
<1>4. expected <= value
  BY <1>1, <1>3 DEF RxOrdered
<1>5. value = expected \/ marked
  BY <1>1 DEF RxOrdered
<1> QED
  BY <1>2, <1>4, <1>5, RxFacts

\* AsyncSerial and RingBuffer.h: whatever the interrupts do between the steps of
\* write and of GetItem, the bytes written are sent in order, none lost and none
\* twice, the bytes read are in order, and where some were lost a mark is read
\* before the next, for every size of the buffers.
THEOREM BytesInOrder == Spec => []BytesStayInOrder
<1>1. Init => TxInv /\ RxInv
  BY TxStart, RxStart DEF Init
<1>2. TxInv /\ RxInv /\ [Next]_vars => TxInv' /\ RxInv'
  <2> SUFFICES ASSUME TxInv, RxInv, [Next]_vars PROVE TxInv' /\ RxInv'
    OBVIOUS
  <2>1. Tx!Next \/ UNCHANGED txVars
    BY DEF Next, Others, vars
  <2>2. Rx!Next \/ UNCHANGED rxVars
    BY DEF Next, Others, vars
  <2>3. TxInv'
    BY <2>1, TxStep, TxStutter
  <2>4. RxInv'
    BY <2>2, RxStep, RxStutter
  <2> QED
    BY <2>3, <2>4
<1>3. TxInv /\ RxInv => BytesStayInOrder
  BY TxInOrder, RxSound DEF BytesStayInOrder
<1> QED
  BY <1>1, <1>2, <1>3, PTL DEF Spec

-----------------------------------------------------------------------------
(* The pins.                                                               *)

\* What the two processors send each other.
PinFrames ==
  [type : {"ping", "configurationReset", "configurationComplete"}]
  \cup [type : {"gpioConfig"}, pin : Inputs, mode : Pins!InputModes, value : BOOLEAN]
  \cup [type : {"gpioConfig"}, pin : Outputs, mode : Pins!OutputModes, value : BOOLEAN]
  \cup [type : {"gpioWrite"}, pin : Outputs, value : BOOLEAN]
  \cup [type : {"pwmWrite"}, pin : Outputs, duty : {"off", "part", "full"}]

PinReports ==
  [type : {"pong"}, needsConfiguration : BOOLEAN]
  \cup [type : {"gpioState"}, pin : Inputs, value : BOOLEAN]

PinsTyped ==
  /\ online \in BOOLEAN /\ pinMode \in [Pins!Pins -> Pins!Modes]
  /\ \A p \in Inputs : pinMode[p] \notin Pins!OutputModes
  /\ \A p \in Outputs : pinMode[p] \notin Pins!InputModes
  /\ pinValue \in [Pins!Pins -> BOOLEAN] /\ pinStateReceived \in [Pins!Pins -> BOOLEAN]
  /\ pwmValue \in [Outputs -> {"none", "off", "part", "full"}]
  /\ toLpc \in Seq(PinFrames) /\ toHost \in Seq(PinReports)
  /\ needsConfiguration \in BOOLEAN /\ intact \in BOOLEAN
  /\ state \in [Pins!Pins -> Pins!Modes] /\ lastValue \in [Inputs -> BOOLEAN]
  /\ DOMAIN out = Pins!Pins /\ level \in [Inputs -> BOOLEAN]
  /\ dutyWritten \subseteq {p \in Outputs : pinMode[p] = "pwm" /\ pwmValue[p] # "none"}

\* No frame of a queue is in S; or this is the last that is.
NoneIn(q, S) == \A k \in DOMAIN q : q[k] \notin S
LastIn(q, S, k) == k \in DOMAIN q /\ q[k] \in S /\ \A l \in DOMAIN q : l > k => q[l] \notin S

\* The last frame in S is a good one; if there is none, now holds.
Kept(q, S, Good, now) ==
  /\ \A k \in DOMAIN q : LastIn(q, S, k) => q[k] \in Good
  /\ NoneIn(q, S) => now

IsReset(f) == f.type = "configurationReset"

\* The frames that decide the mode of a pin, and those that leave it as the host
\* remembers it.
ModeFrames(p) ==
  {f \in PinFrames :
     \/ IsReset(f)
     \/ f.type = "gpioConfig" /\ f.pin = p
     \/ f.type = "pwmWrite" /\ f.pin = p /\ f.duty # "part"}
GoodMode(p) ==
  {f \in PinFrames :
     pinMode[p] = CASE IsReset(f) -> "disabled" [] f.type = "gpioConfig" -> f.mode [] OTHER -> "pwm"}
ModeNow(p) == intact => state[p] = pinMode[p]
ModeKept(p) == Kept(toLpc, ModeFrames(p), GoodMode(p), ModeNow(p))

\* The frames that decide what an output drives, and those that leave it as the
\* host wants it.
OutFrames(p) ==
  {f \in PinFrames : IsReset(f) \/ (f.type \in {"gpioConfig", "gpioWrite", "pwmWrite"} /\ f.pin = p)}
Driven(f) ==
  CASE IsReset(f) -> "float"
    [] f.type \in {"gpioConfig", "gpioWrite"} -> Pins!Level(f.value)
    [] OTHER -> Pins!DutyLevel(f.duty)
GoodOut(p) ==
  {f \in PinFrames :
     /\ Pins!Unwritten(p) \/ Driven(f) = Pins!Wanted(p)
     /\ f.type = "gpioWrite" => pinMode[p] = "output"
     /\ IsReset(f) => pinMode[p] = "disabled"}
OutNow(p) == intact => Pins!Unwritten(p) \/ out[p] = Pins!Wanted(p)
OutKept(p) == Kept(toLpc, OutFrames(p), GoodOut(p), OutNow(p))

\* What the host will have read of an input whose mode is settled, and of which
\* no report is missed.
ReportsOf(p) == {f \in PinReports : f.type = "gpioState" /\ f.pin = p}
GoodReport(p) == {f \in PinReports : f.type = "gpioState" => f.value = lastValue[p]}
ReportNow(p) == pinStateReceived[p] /\ pinValue[p] = lastValue[p]
Settling(p) ==
  /\ intact /\ NoneIn(toLpc, ModeFrames(p))
  /\ pinMode[p] \in Pins!InputModes /\ p \notin missed
InputKept(p) ==
  Settling(p) =>
    IF p \in first THEN level[p] # lastValue[p]
    ELSE Kept(toHost, ReportsOf(p), GoodReport(p), ReportNow(p))

\* The host that is online has sent what makes the coprocessor as it remembers it.
PinsInv ==
  /\ PinsTyped
  /\ online =>
       /\ \A p \in Pins!Pins : ModeKept(p)
       /\ \A p \in Outputs : OutKept(p)
       /\ \A p \in Inputs : InputKept(p)

\* What is assumed of the pins.
LEMMA PinsFacts ==
  /\ Inputs \cap Outputs = {} /\ Pins!Pins = Inputs \cup Outputs /\ IsFiniteSet(Pins!Pins)
  /\ Duties \subseteq {"off", "part", "full"}
  /\ {MaxOperations, MaxLosses, MaxFaults, MaxChanges} \subseteq Nat
BY PartsAssumption DEF Pins!PinsAssumption, Pins!Pins, Pins!IsFiniteSet, IsFiniteSet

\* A queue that loses its first frame.
LEMMA KeptTail ==
  ASSUME NEW F, NEW q \in Seq(F), q # <<>>, NEW S, NEW Good, NEW now, NEW then,
         Kept(q, S, Good, now),
         Head(q) \in S /\ Head(q) \in Good => then,
         Head(q) \notin S /\ now => then
  PROVE  Kept(Tail(q), S, Good, then)
<1>1. /\ Len(q) \in Nat /\ Len(q) > 0 /\ DOMAIN q = 1 .. Len(q) /\ Head(q) = q[1]
      /\ DOMAIN Tail(q) = 1 .. Len(q) - 1
      /\ \A k \in 1 .. Len(q) - 1 : Tail(q)[k] = q[k + 1]
  BY HeadTailProperties, EmptySeq, LenProperties
<1>2. ASSUME NEW k \in DOMAIN Tail(q), LastIn(Tail(q), S, k) PROVE Tail(q)[k] \in Good
  <2>1. k + 1 \in DOMAIN q /\ Tail(q)[k] = q[k + 1]
    BY <1>1
  <2>2. ASSUME NEW l \in DOMAIN q, l > k + 1 PROVE q[l] \notin S
    <3>1. l - 1 \in DOMAIN Tail(q) /\ l - 1 > k /\ Tail(q)[l - 1] = q[l]
      BY <1>1, <2>2
    <3> QED
      BY <1>2, <3>1 DEF LastIn
  <2>3. LastIn(q, S, k + 1)
    BY <1>2, <2>1, <2>2 DEF LastIn
  <2> QED
    BY <2>1, <2>3 DEF Kept
<1>3. ASSUME NoneIn(Tail(q), S) PROVE then
  <2>1. ASSUME NEW l \in DOMAIN q, l > 1 PROVE q[l] \notin S
    <3>1. l - 1 \in DOMAIN Tail(q) /\ Tail(q)[l - 1] = q[l]
      BY <1>1, <2>1
    <3> QED
      BY <1>3, <3>1 DEF NoneIn
  <2>2. CASE Head(q) \in S
    <3>1. LastIn(q, S, 1)
      BY <1>1, <2>1, <2>2 DEF LastIn
    <3>2. Head(q) \in Good
      BY <1>1, <3>1 DEF Kept
    <3> QED
      BY <2>2, <3>2
  <2>3. CASE Head(q) \notin S
    <3>1. NoneIn(q, S)
      BY <1>1, <2>1, <2>3 DEF NoneIn
    <3>2. now
      BY <3>1 DEF Kept
    <3> QED
      BY <2>3, <3>2
  <2> QED
    BY <2>2, <2>3
<1> QED
  BY <1>2, <1>3 DEF Kept

\* A queue behind which frames of another kind are put.
LEMMA KeptConcat ==
  ASSUME NEW F, NEW q \in Seq(F), NEW r \in Seq(F), NEW S, NEW Good, NEW now,
         Kept(q, S, Good, now), NoneIn(r, S)
  PROVE  Kept(q \o r, S, Good, now)
<1>1. /\ Len(q) \in Nat /\ Len(r) \in Nat /\ DOMAIN q = 1 .. Len(q) /\ DOMAIN r = 1 .. Len(r)
      /\ DOMAIN (q \o r) = 1 .. Len(q) + Len(r)
      /\ \A k \in 1 .. Len(q) : (q \o r)[k] = q[k]
      /\ \A k \in Len(q) + 1 .. Len(q) + Len(r) : (q \o r)[k] = r[k - Len(q)]
  BY ConcatProperties, LenProperties
<1>2. ASSUME NEW k \in DOMAIN (q \o r), LastIn(q \o r, S, k) PROVE (q \o r)[k] \in Good
  <2>1. k \in 1 .. Len(q)
    BY <1>1, <1>2 DEF LastIn, NoneIn
  <2>2. LastIn(q, S, k)
    BY <1>1, <1>2, <2>1 DEF LastIn
  <2> QED
    BY <1>1, <2>1, <2>2 DEF Kept
<1>3. ASSUME NoneIn(q \o r, S) PROVE now
  <2>1. NoneIn(q, S)
    BY <1>1, <1>3 DEF NoneIn
  <2> QED
    BY <2>1 DEF Kept
<1> QED
  BY <1>2, <1>3 DEF Kept

\* A queue behind which frames of the kind are put.
LEMMA KeptBehind ==
  ASSUME NEW F, NEW q \in Seq(F), NEW r \in Seq(F), NEW S, NEW Good, NEW now,
         ~NoneIn(r, S), \A k \in DOMAIN r : LastIn(r, S, k) => r[k] \in Good
  PROVE  Kept(q \o r, S, Good, now)
<1>1. /\ Len(q) \in Nat /\ Len(r) \in Nat /\ DOMAIN q = 1 .. Len(q) /\ DOMAIN r = 1 .. Len(r)
      /\ DOMAIN (q \o r) = 1 .. Len(q) + Len(r)
      /\ \A k \in 1 .. Len(q) : (q \o r)[k] = q[k]
      /\ \A k \in 1 .. Len(r) : (q \o r)[k + Len(q)] = r[k]
  BY ConcatProperties, LenProperties
<1>2. PICK i \in DOMAIN r : r[i] \in S
  BY DEF NoneIn
<1>3. i + Len(q) \in DOMAIN (q \o r) /\ (q \o r)[i + Len(q)] \in S
  BY <1>1, <1>2
<1>4. ~NoneIn(q \o r, S)
  BY <1>3 DEF NoneIn
<1>5. ASSUME NEW k \in DOMAIN (q \o r), LastIn(q \o r, S, k) PROVE (q \o r)[k] \in Good
  <2>1. k > Len(q)
    BY <1>1, <1>3, <1>5 DEF LastIn
  <2>2. k - Len(q) \in DOMAIN r /\ (k - Len(q)) + Len(q) = k
    BY <1>1, <2>1
  <2>3. r[k - Len(q)] = (q \o r)[k]
    BY <1>1, <2>2
  <2>4. ASSUME NEW l \in DOMAIN r, l > k - Len(q) PROVE r[l] \notin S
    <3>1. l + Len(q) \in DOMAIN (q \o r) /\ l + Len(q) > k /\ (q \o r)[l + Len(q)] = r[l]
      BY <1>1, <2>4
    <3> QED
      BY <1>5, <3>1 DEF LastIn
  <2>5. LastIn(r, S, k - Len(q))
    BY <1>5, <2>2, <2>3, <2>4 DEF LastIn
  <2> QED
    BY <2>2, <2>3, <2>5
<1> QED
  BY <1>4, <1>5 DEF Kept

\* One frame of the kind is put behind the queue.
LEMMA KeptByOne ==
  ASSUME NEW F, NEW q \in Seq(F), NEW f \in F, NEW S, NEW Good, NEW now, f \in S, f \in Good
  PROVE  Kept(q \o <<f>>, S, Good, now)
<1>1. <<f>> \in Seq(F) /\ DOMAIN <<f>> = {1} /\ <<f>>[1] = f
  OBVIOUS
<1>2. ~NoneIn(<<f>>, S) /\ \A k \in DOMAIN <<f>> : <<f>>[k] \in Good
  BY <1>1 DEF NoneIn
<1> QED
  BY <1>1, <1>2, KeptBehind

\* One frame of another kind.
LEMMA KeptPastOne ==
  ASSUME NEW F, NEW q \in Seq(F), NEW f \in F, NEW S, NEW Good, NEW now,
         Kept(q, S, Good, now), f \notin S
  PROVE  Kept(q \o <<f>>, S, Good, now)
<1>1. <<f>> \in Seq(F) /\ DOMAIN <<f>> = {1} /\ <<f>>[1] = f
  OBVIOUS
<1>2. NoneIn(<<f>>, S)
  BY <1>1 DEF NoneIn
<1> QED
  BY <1>1, <1>2, KeptConcat

\* More frames are good, and more holds.
LEMMA KeptWeaker ==
  ASSUME NEW q, NEW S, NEW Good, NEW Better, NEW now, NEW then,
         Kept(q, S, Good, now), \A f \in S : f \in Good => f \in Better, now => then
  PROVE  Kept(q, S, Better, then)
BY DEF Kept, LastIn

\* What a frame to the coprocessor carries.
LEMMA PinFrameParts ==
  ASSUME NEW f \in PinFrames
  PROVE  /\ f.type \in {"ping", "configurationReset", "configurationComplete", "gpioConfig",
                        "gpioWrite", "pwmWrite"}
         /\ f.type = "gpioConfig" =>
              /\ f.pin \in Pins!Pins /\ f.mode \in Pins!Modes /\ f.value \in BOOLEAN
              /\ f.mode \in Pins!InputModes \cup Pins!OutputModes
              /\ f.pin \in Inputs => f.mode \in Pins!InputModes
              /\ f.pin \in Outputs => f.mode \in Pins!OutputModes
         /\ f.type = "gpioWrite" => f.pin \in Outputs /\ f.value \in BOOLEAN
         /\ f.type = "pwmWrite" => f.pin \in Outputs /\ f.duty \in {"off", "part", "full"}
BY PinsFacts DEF PinFrames, Pins!Pins, Pins!Modes, Pins!InputModes, Pins!OutputModes

\* At the start the host is offline.
LEMMA PinsStart == Pins!Init => PinsInv
<1> SUFFICES ASSUME Pins!Init PROVE PinsInv
  OBVIOUS
<1> USE DEF Pins!Init
<1>1. [type |-> "ping"] \in PinFrames
  BY DEF PinFrames
<1>2. toLpc \in Seq(PinFrames) /\ toHost \in Seq(PinReports)
  BY <1>1
<1>3. PinsTyped
  BY <1>2, PinsFacts DEF PinsTyped, Pins!Modes, Pins!InputModes, Pins!OutputModes
<1> QED
  BY <1>3 DEF PinsInv

\* What is kept of a pin depends on what is known of it and on the queues.
LEMMA PinUntouched ==
  ASSUME PinsTyped, NEW r \in Pins!Pins,
         UNCHANGED <<state[r], out[r], pinMode[r], intact>>,
         r \in Outputs => UNCHANGED <<pinValue[r], pwmValue[r], r \in dutyWritten>>
  PROVE  /\ GoodMode(r)' = GoodMode(r) /\ (ModeNow(r)' <=> ModeNow(r))
         /\ r \in Outputs => GoodOut(r)' = GoodOut(r) /\ (OutNow(r)' <=> OutNow(r))
<1>1. GoodMode(r)' = GoodMode(r)
  BY DEF GoodMode
<1>2. ModeNow(r)' <=> ModeNow(r)
  BY DEF ModeNow
<1>3. ASSUME r \in Outputs
      PROVE  (Pins!Unwritten(r)' <=> Pins!Unwritten(r)) /\ Pins!Wanted(r)' = Pins!Wanted(r)
  BY <1>3 DEF Pins!Unwritten, Pins!Wanted, Pins!Level, Pins!DutyLevel
<1>4. ASSUME r \in Outputs PROVE GoodOut(r)' = GoodOut(r) /\ (OutNow(r)' <=> OutNow(r))
  BY <1>3, <1>4 DEF GoodOut, OutNow
<1> QED
  BY <1>1, <1>2, <1>4

\* A device's call sends one frame for one pin.
LEMMA DeviceSends ==
  ASSUME PinsInv, online, NEW p \in Pins!Pins, NEW f \in PinFrames,
         toLpc' = toLpc \o <<f>>,
         f.type \in {"gpioConfig", "gpioWrite", "pwmWrite"}, f.pin = p,
         UNCHANGED <<online, toHost, state, lastValue, out, level, intact, first, missed>>,
         \A r \in Pins!Pins \ {p} :
           /\ UNCHANGED <<pinMode[r], pinValue[r], pinStateReceived[r]>>
           /\ r \in Outputs => UNCHANGED <<pwmValue[r], r \in dutyWritten>>,
         ModeKept(p)', p \in Outputs => OutKept(p)', p \in Inputs => InputKept(p)'
  PROVE  /\ \A r \in Pins!Pins : ModeKept(r)'
         /\ \A r \in Outputs : OutKept(r)'
         /\ \A r \in Inputs : InputKept(r)'
<1>1. /\ PinsTyped /\ toLpc \in Seq(PinFrames)
      /\ \A r \in Pins!Pins : ModeKept(r)
      /\ \A r \in Outputs : OutKept(r)
      /\ \A r \in Inputs : InputKept(r)
  BY DEF PinsInv, PinsTyped
<1> SUFFICES ASSUME NEW r \in Pins!Pins, r # p
             PROVE  /\ ModeKept(r)'
                    /\ r \in Outputs => OutKept(r)'
                    /\ r \in Inputs => InputKept(r)'
  BY PinsFacts
<1>2. f \notin ModeFrames(r) /\ f \notin OutFrames(r)
  BY DEF ModeFrames, OutFrames, IsReset
<1>3. /\ GoodMode(r)' = GoodMode(r) /\ (ModeNow(r)' <=> ModeNow(r))
      /\ r \in Outputs => GoodOut(r)' = GoodOut(r) /\ (OutNow(r)' <=> OutNow(r))
  BY <1>1, PinUntouched
<1>4. ModeKept(r)'
  <2>1. Kept(toLpc, ModeFrames(r), GoodMode(r), ModeNow(r))
    BY <1>1 DEF ModeKept
  <2>2. Kept(toLpc \o <<f>>, ModeFrames(r), GoodMode(r), ModeNow(r))
    BY <1>1, <1>2, <2>1, KeptPastOne
  <2> QED
    BY <1>3, <2>2 DEF ModeKept, Kept
<1>5. ASSUME r \in Outputs PROVE OutKept(r)'
  <2>1. Kept(toLpc, OutFrames(r), GoodOut(r), OutNow(r))
    BY <1>1, <1>5 DEF OutKept
  <2>2. Kept(toLpc \o <<f>>, OutFrames(r), GoodOut(r), OutNow(r))
    BY <1>1, <1>2, <2>1, KeptPastOne
  <2> QED
    BY <1>3, <1>5, <2>2 DEF OutKept, Kept
<1>6. ASSUME r \in Inputs PROVE InputKept(r)'
  <2>1. InputKept(r)
    BY <1>1, <1>6
  <2>2. NoneIn(toLpc', ModeFrames(r)) => NoneIn(toLpc, ModeFrames(r))
    BY <1>1 DEF NoneIn
  <2>3. Settling(r)' => Settling(r)
    BY <2>2 DEF Settling
  <2>4. GoodReport(r)' = GoodReport(r) /\ (ReportNow(r)' <=> ReportNow(r))
    BY DEF GoodReport, ReportNow
  <2> QED
    BY <2>1, <2>3, <2>4 DEF InputKept, Kept
<1> QED
  BY <1>4, <1>5, <1>6

\* A queue with one frame more.
LEMMA OneFrameMore ==
  ASSUME NEW F, NEW q \in Seq(F), NEW f \in F
  PROVE  q \o <<f>> \in Seq(F)
OBVIOUS

\* Offline nothing is claimed but the types.
LEMMA PinsOffline ==
  ASSUME PinsTyped', ~online'
  PROVE  PinsInv'
BY DEF PinsInv

\* SetPinMode of an input, which the configuration on its way will settle.
LEMMA PinsSetInput ==
  ASSUME PinsInv, NEW p \in Inputs, Pins!SetInput(p)
  PROVE  PinsInv'
<1>1. /\ PinsTyped /\ p \in Pins!Pins /\ p \notin Outputs
  BY PinsFacts DEF PinsInv
<1>2. PICK m \in Pins!InputModes : pinMode' = [pinMode EXCEPT ![p] = m]
  BY DEF Pins!SetInput
<1> DEFINE f == [Pins!GpioConfig(p) EXCEPT !.mode = pinMode'[p]]
<1>3. pinMode'[p] = m /\ m \in Pins!Modes /\ m \notin Pins!OutputModes
  BY <1>1, <1>2 DEF PinsTyped, Pins!Modes, Pins!InputModes, Pins!OutputModes
<1>4. /\ f \in [type : {"gpioConfig"}, pin : Inputs, mode : Pins!InputModes, value : BOOLEAN]
      /\ f.type = "gpioConfig" /\ f.pin = p /\ f.mode = m
  BY <1>1, <1>3 DEF PinsTyped, Pins!GpioConfig
<1> HIDE DEF f
<1>5. f \in PinFrames
  BY <1>4 DEF PinFrames
<1>6. /\ UNCHANGED <<online, toHost, needsConfiguration, state, lastValue, out, level, intact,
                     first, missed, pinValue, pwmValue, dutyWritten>>
      /\ pinStateReceived' = [pinStateReceived EXCEPT ![p] = FALSE]
      /\ IF online THEN toLpc' = toLpc \o <<f>> ELSE UNCHANGED toLpc
  BY DEF Pins!SetInput, Pins!Operation, Pins!IfOnline, Pins!Transmit, Pins!lpc, f
<1>7. toLpc' \in Seq(PinFrames)
  <2>1. toLpc \in Seq(PinFrames)
    BY <1>1 DEF PinsTyped
  <2> QED
    BY <1>5, <1>6, <2>1, OneFrameMore
<1>8. PinsTyped'
  <2>1. pinMode' \in [Pins!Pins -> Pins!Modes]
    BY <1>1, <1>2, <1>3 DEF PinsTyped
  <2>2. \A r \in Pins!Pins : r # p => pinMode'[r] = pinMode[r]
    BY <1>1, <1>2 DEF PinsTyped
  <2>3. dutyWritten' \subseteq {r \in Outputs : pinMode'[r] = "pwm" /\ pwmValue'[r] # "none"}
    BY <1>1, <1>6, <2>2, PinsFacts DEF PinsTyped
  <2>4. pinStateReceived' \in [Pins!Pins -> BOOLEAN]
    BY <1>1, <1>6 DEF PinsTyped
  <2>5. /\ \A r \in Inputs : pinMode'[r] \notin Pins!OutputModes
        /\ \A r \in Outputs : pinMode'[r] \notin Pins!InputModes
    BY <1>1, <1>3, <2>2, PinsFacts DEF PinsTyped
  <2> QED
    BY <1>1, <1>6, <1>7, <2>1, <2>3, <2>4, <2>5 DEF PinsTyped
<1>9. CASE ~online
  BY <1>6, <1>8, <1>9, PinsOffline
<1>10. CASE online
  <2>1. toLpc \in Seq(PinFrames) /\ toLpc' = toLpc \o <<f>>
    BY <1>1, <1>6, <1>10 DEF PinsTyped
  <2>2. f \in ModeFrames(p) /\ f \in GoodMode(p)'
    BY <1>3, <1>4, <1>5 DEF ModeFrames, GoodMode, IsReset
  <2>3. Kept(toLpc \o <<f>>, ModeFrames(p), GoodMode(p)', ModeNow(p)')
    BY <1>5, <2>1, <2>2, KeptByOne
  <2>4. ModeKept(p)'
    BY <2>1, <2>3 DEF ModeKept
  <2>5. ~NoneIn(toLpc', ModeFrames(p))
    <3>1. Len(toLpc) + 1 \in DOMAIN (toLpc \o <<f>>) /\ (toLpc \o <<f>>)[Len(toLpc) + 1] = f
      BY <1>5, <2>1
    <3> QED
      BY <2>1, <2>2, <3>1 DEF NoneIn
  <2>6. InputKept(p)'
    BY <2>5 DEF InputKept, Settling
  <2>7. \A r \in Pins!Pins \ {p} :
          /\ UNCHANGED <<pinMode[r], pinValue[r], pinStateReceived[r]>>
          /\ r \in Outputs => UNCHANGED <<pwmValue[r], r \in dutyWritten>>
    BY <1>1, <1>2, <1>6 DEF PinsTyped
  <2>8. /\ \A r \in Pins!Pins : ModeKept(r)'
        /\ \A r \in Outputs : OutKept(r)'
        /\ \A r \in Inputs : InputKept(r)'
    BY <1>1, <1>4, <1>5, <1>6, <1>10, <2>1, <2>4, <2>6, <2>7, DeviceSends
  <2> QED
    BY <1>8, <2>8 DEF PinsInv
<1> QED
  BY <1>9, <1>10

\* SetPinMode of an output, whose initial value the configuration carries.
LEMMA PinsSetOutput ==
  ASSUME PinsInv, NEW p \in Outputs, Pins!SetOutput(p)
  PROVE  PinsInv'
<1>1. /\ PinsTyped /\ p \in Pins!Pins /\ p \notin Inputs
  BY PinsFacts DEF PinsInv
<1>2. PICK m \in Pins!OutputModes, high \in BOOLEAN :
        pinMode' = [pinMode EXCEPT ![p] = m] /\ pinValue' = [pinValue EXCEPT ![p] = high]
  BY DEF Pins!SetOutput
<1> DEFINE f == [Pins!GpioConfig(p) EXCEPT !.mode = pinMode'[p], !.value = pinValue'[p]]
<1>3. /\ pinMode'[p] = m /\ m \in Pins!Modes /\ m \notin Pins!InputModes
      /\ pinValue'[p] = high
  BY <1>1, <1>2 DEF PinsTyped, Pins!Modes, Pins!InputModes, Pins!OutputModes
<1>4. /\ f \in [type : {"gpioConfig"}, pin : Outputs, mode : Pins!OutputModes, value : BOOLEAN]
      /\ f.type = "gpioConfig" /\ f.pin = p /\ f.mode = m /\ f.value = high
  BY <1>1, <1>3 DEF PinsTyped, Pins!GpioConfig
<1> HIDE DEF f
<1>5. f \in PinFrames
  BY <1>4 DEF PinFrames
<1>6. /\ UNCHANGED <<online, toHost, needsConfiguration, state, lastValue, out, level, intact,
                     first, missed, pinStateReceived, pwmValue>>
      /\ dutyWritten' = dutyWritten \ {p}
      /\ IF online THEN toLpc' = toLpc \o <<f>> ELSE UNCHANGED toLpc
  BY DEF Pins!SetOutput, Pins!Operation, Pins!IfOnline, Pins!Transmit, Pins!lpc, f
<1>7. toLpc' \in Seq(PinFrames)
  <2>1. toLpc \in Seq(PinFrames)
    BY <1>1 DEF PinsTyped
  <2> QED
    BY <1>5, <1>6, <2>1, OneFrameMore
<1>8. PinsTyped'
  <2>1. pinMode' \in [Pins!Pins -> Pins!Modes] /\ pinValue' \in [Pins!Pins -> BOOLEAN]
    BY <1>1, <1>2, <1>3 DEF PinsTyped
  <2>2. \A r \in Pins!Pins : r # p => pinMode'[r] = pinMode[r]
    BY <1>1, <1>2 DEF PinsTyped
  <2>3. dutyWritten' \subseteq {r \in Outputs : pinMode'[r] = "pwm" /\ pwmValue'[r] # "none"}
    BY <1>1, <1>6, <2>2, PinsFacts DEF PinsTyped
  <2>4. /\ \A r \in Inputs : pinMode'[r] \notin Pins!OutputModes
        /\ \A r \in Outputs : pinMode'[r] \notin Pins!InputModes
    BY <1>1, <1>3, <2>2, PinsFacts DEF PinsTyped
  <2> QED
    BY <1>1, <1>6, <1>7, <2>1, <2>3, <2>4 DEF PinsTyped
<1>9. CASE ~online
  BY <1>6, <1>8, <1>9, PinsOffline
<1>10. CASE online
  <2>1. toLpc \in Seq(PinFrames) /\ toLpc' = toLpc \o <<f>>
    BY <1>1, <1>6, <1>10 DEF PinsTyped
  <2>2. f \in ModeFrames(p) /\ f \in GoodMode(p)'
    BY <1>3, <1>4, <1>5 DEF ModeFrames, GoodMode, IsReset
  <2>3. Kept(toLpc \o <<f>>, ModeFrames(p), GoodMode(p)', ModeNow(p)')
    BY <1>5, <2>1, <2>2, KeptByOne
  <2>4. ModeKept(p)'
    BY <2>1, <2>3 DEF ModeKept
  <2>5. Driven(f) = Pins!Wanted(p)'
    BY <1>3, <1>4, <1>6 DEF Driven, IsReset, Pins!Wanted, Pins!Level
  <2>6. f \in OutFrames(p) /\ f \in GoodOut(p)'
    BY <1>4, <1>5, <2>5 DEF OutFrames, GoodOut, IsReset
  <2>7. Kept(toLpc \o <<f>>, OutFrames(p), GoodOut(p)', OutNow(p)')
    BY <1>5, <2>1, <2>6, KeptByOne
  <2>8. OutKept(p)'
    BY <2>1, <2>7 DEF OutKept
  <2>9. \A r \in Pins!Pins \ {p} :
          /\ UNCHANGED <<pinMode[r], pinValue[r], pinStateReceived[r]>>
          /\ r \in Outputs => UNCHANGED <<pwmValue[r], r \in dutyWritten>>
    BY <1>1, <1>2, <1>6 DEF PinsTyped
  <2>10. /\ \A r \in Pins!Pins : ModeKept(r)'
         /\ \A r \in Outputs : OutKept(r)'
         /\ \A r \in Inputs : InputKept(r)'
    BY <1>1, <1>4, <1>5, <1>6, <1>10, <2>1, <2>4, <2>8, <2>9, DeviceSends
  <2> QED
    BY <1>8, <2>10 DEF PinsInv
<1> QED
  BY <1>9, <1>10

\* WritePin, whose frame reaches a pin that is an output by then.
LEMMA PinsWritePin ==
  ASSUME PinsInv, NEW p \in Outputs, Pins!WritePin(p)
  PROVE  PinsInv'
<1>1. /\ PinsTyped /\ p \in Pins!Pins /\ p \notin Inputs /\ pinMode[p] = "output"
  BY PinsFacts DEF PinsInv, Pins!WritePin
<1>2. PICK high \in BOOLEAN :
        /\ pinValue' = [pinValue EXCEPT ![p] = high]
        /\ Pins!IfOnline(<<[type |-> "gpioWrite", pin |-> p, value |-> high]>>)
  BY DEF Pins!WritePin
<1> DEFINE f == [type |-> "gpioWrite", pin |-> p, value |-> high]
<1>3. /\ f \in PinFrames
      /\ f.type = "gpioWrite" /\ f.pin = p /\ f.value = high
  BY DEF PinFrames
<1> HIDE DEF f
<1>4. /\ UNCHANGED <<online, toHost, needsConfiguration, state, lastValue, out, level, intact,
                     first, missed, pinMode, pinStateReceived, pwmValue, dutyWritten>>
      /\ IF online THEN toLpc' = toLpc \o <<f>> ELSE UNCHANGED toLpc
  <2>1. UNCHANGED <<online, toHost, needsConfiguration, state, lastValue, out, level, intact,
                    first, missed, pinMode, pinStateReceived, pwmValue, dutyWritten>>
    BY DEF Pins!WritePin, Pins!Operation, Pins!lpc
  <2>2. IF online THEN toLpc' = toLpc \o <<f>> ELSE UNCHANGED toLpc
    BY <1>2, Zenon DEF Pins!IfOnline, Pins!Transmit, f
  <2> QED
    BY <2>1, <2>2
<1>5. PinsTyped'
  <2>1. toLpc' \in Seq(PinFrames)
    <3>1. toLpc \in Seq(PinFrames)
      BY <1>1 DEF PinsTyped
    <3>2. <<f>> \in Seq(PinFrames)
      BY <1>3
    <3>3. toLpc \o <<f>> \in Seq(PinFrames)
      BY <3>1, <3>2, ConcatProperties, Zenon
    <3> QED
      BY <1>4, <3>1, <3>3, Zenon
  <2>2. pinValue' \in [Pins!Pins -> BOOLEAN]
    BY <1>1, <1>2 DEF PinsTyped
  <2> QED
    BY <1>1, <1>4, <2>1, <2>2 DEF PinsTyped
<1>6. CASE ~online
  BY <1>4, <1>5, <1>6, PinsOffline
<1>7. CASE online
  <2>1. toLpc \in Seq(PinFrames) /\ toLpc' = toLpc \o <<f>>
    BY <1>1, <1>4, <1>7 DEF PinsTyped
  <2>2. f \notin ModeFrames(p)
    BY <1>3 DEF ModeFrames, IsReset
  <2>3. Kept(toLpc, ModeFrames(p), GoodMode(p), ModeNow(p))
    BY <1>1, <1>7 DEF PinsInv, ModeKept
  <2>4. Kept(toLpc \o <<f>>, ModeFrames(p), GoodMode(p), ModeNow(p))
    BY <1>3, <2>1, <2>2, <2>3, KeptPastOne
  <2>5. ModeKept(p)'
    BY <1>4, <2>1, <2>4 DEF ModeKept, GoodMode, ModeNow
  <2>6. Driven(f) = Pins!Wanted(p)'
    <3>1. pinMode'[p] = "output" /\ p \notin dutyWritten' /\ pinValue'[p] = high
      BY <1>1, <1>2, <1>4 DEF PinsTyped
    <3> QED
      BY <1>3, <3>1 DEF Driven, IsReset, Pins!Wanted, Pins!Level, Pins!OutputModes
  <2>7. f \in OutFrames(p) /\ f \in GoodOut(p)'
    BY <1>1, <1>3, <1>4, <2>6 DEF OutFrames, GoodOut, IsReset
  <2>8. Kept(toLpc \o <<f>>, OutFrames(p), GoodOut(p)', OutNow(p)')
    BY <1>3, <2>1, <2>7, KeptByOne
  <2>9. OutKept(p)'
    BY <2>1, <2>8 DEF OutKept
  <2>10. \A r \in Pins!Pins \ {p} :
           /\ UNCHANGED <<pinMode[r], pinValue[r], pinStateReceived[r]>>
           /\ r \in Outputs => UNCHANGED <<pwmValue[r], r \in dutyWritten>>
    BY <1>1, <1>2, <1>4 DEF PinsTyped
  <2>11. /\ \A r \in Pins!Pins : ModeKept(r)'
         /\ \A r \in Outputs : OutKept(r)'
         /\ \A r \in Inputs : InputKept(r)'
    BY <1>1, <1>3, <1>4, <1>7, <2>1, <2>5, <2>9, <2>10, DeviceSends
  <2> QED
    BY <1>5, <2>11 DEF PinsInv
<1> QED
  BY <1>6, <1>7

\* WritePwm; the constant duties also set the mode that the pin has.
LEMMA PinsWritePwm ==
  ASSUME PinsInv, NEW p \in Outputs, Pins!WritePwm(p)
  PROVE  PinsInv'
<1>1. /\ PinsTyped /\ p \in Pins!Pins /\ p \notin Inputs /\ pinMode[p] = "pwm"
  BY PinsFacts DEF PinsInv, Pins!WritePwm
<1>2. PICK d \in Duties :
        /\ pwmValue' = [pwmValue EXCEPT ![p] = d]
        /\ Pins!IfOnline(<<[Pins!PwmWrite(p) EXCEPT !.duty = d]>>)
  BY DEF Pins!WritePwm
<1> DEFINE f == [Pins!PwmWrite(p) EXCEPT !.duty = d]
<1>3. /\ d \in {"off", "part", "full"} /\ pwmValue'[p] = d
  BY <1>1, <1>2, PinsFacts DEF PinsTyped
<1>4. /\ f \in [type : {"pwmWrite"}, pin : Outputs, duty : {"off", "part", "full"}]
      /\ f.type = "pwmWrite" /\ f.pin = p /\ f.duty = d
  BY <1>1, <1>3 DEF PinsTyped, Pins!PwmWrite
<1> HIDE DEF f
<1>5. f \in PinFrames
  BY <1>4 DEF PinFrames
<1>6. /\ UNCHANGED <<online, toHost, needsConfiguration, state, lastValue, out, level, intact,
                     first, missed, pinMode, pinStateReceived, pinValue>>
      /\ dutyWritten' = dutyWritten \cup {p}
      /\ IF online THEN toLpc' = toLpc \o <<f>> ELSE UNCHANGED toLpc
  BY <1>2 DEF Pins!WritePwm, Pins!Operation, Pins!IfOnline, Pins!Transmit, Pins!lpc, f
<1>7. PinsTyped'
  <2>1. toLpc' \in Seq(PinFrames)
    <3>1. toLpc \in Seq(PinFrames)
      BY <1>1 DEF PinsTyped
    <3> QED
      BY <1>5, <1>6, <3>1, OneFrameMore
  <2>2. pwmValue' \in [Outputs -> {"none", "off", "part", "full"}]
    BY <1>1, <1>2, <1>3 DEF PinsTyped
  <2>3. dutyWritten' \subseteq {r \in Outputs : pinMode'[r] = "pwm" /\ pwmValue'[r] # "none"}
    BY <1>1, <1>2, <1>3, <1>6 DEF PinsTyped
  <2> QED
    BY <1>1, <1>6, <2>1, <2>2, <2>3 DEF PinsTyped
<1>8. CASE ~online
  BY <1>6, <1>7, <1>8, PinsOffline
<1>9. CASE online
  <2>1. toLpc \in Seq(PinFrames) /\ toLpc' = toLpc \o <<f>>
    BY <1>1, <1>6, <1>9 DEF PinsTyped
  <2>2. Kept(toLpc, ModeFrames(p), GoodMode(p), ModeNow(p))
    BY <1>1, <1>9 DEF PinsInv, ModeKept
  <2>3. f \in GoodMode(p)
    BY <1>1, <1>4, <1>5 DEF GoodMode, IsReset
  <2>4. Kept(toLpc \o <<f>>, ModeFrames(p), GoodMode(p), ModeNow(p))
    <3>1. CASE f \in ModeFrames(p)
      BY <1>5, <2>1, <2>3, <3>1, KeptByOne
    <3>2. CASE f \notin ModeFrames(p)
      BY <1>5, <2>1, <2>2, <3>2, KeptPastOne
    <3> QED
      BY <3>1, <3>2
  <2>5. ModeKept(p)'
    BY <1>6, <2>1, <2>4 DEF ModeKept, GoodMode, ModeNow
  <2>6. Driven(f) = Pins!Wanted(p)'
    <3>1. pinMode'[p] = "pwm" /\ p \in dutyWritten'
      BY <1>1, <1>6
    <3>2. Pins!Wanted(p)' = Pins!DutyLevel(d)
      BY <1>3, <3>1 DEF Pins!Wanted, Pins!OutputModes, Pins!DutyLevel
    <3>3. Driven(f) = Pins!DutyLevel(d)
      BY <1>4 DEF Driven, IsReset
    <3> QED
      BY <3>2, <3>3
  <2>7. f \in OutFrames(p) /\ f \in GoodOut(p)'
    BY <1>4, <1>5, <2>6 DEF OutFrames, GoodOut, IsReset
  <2>8. Kept(toLpc \o <<f>>, OutFrames(p), GoodOut(p)', OutNow(p)')
    BY <1>5, <2>1, <2>7, KeptByOne
  <2>9. OutKept(p)'
    BY <2>1, <2>8 DEF OutKept
  <2>10. \A r \in Pins!Pins \ {p} :
           /\ UNCHANGED <<pinMode[r], pinValue[r], pinStateReceived[r]>>
           /\ r \in Outputs => UNCHANGED <<pwmValue[r], r \in dutyWritten>>
    BY <1>1, <1>2, <1>6 DEF PinsTyped
  <2>11. /\ \A r \in Pins!Pins : ModeKept(r)'
         /\ \A r \in Outputs : OutKept(r)'
         /\ \A r \in Inputs : InputKept(r)'
    BY <1>1, <1>4, <1>5, <1>6, <1>9, <2>1, <2>5, <2>9, <2>10, DeviceSends
  <2> QED
    BY <1>7, <2>11 DEF PinsInv
<1> QED
  BY <1>8, <1>9

\* A ping is put behind what is under way.
LEMMA PinsSendPing ==
  ASSUME PinsInv, Pins!SendPing
  PROVE  PinsInv'
<1> DEFINE f == [type |-> "ping"]
<1>1. /\ toLpc' = toLpc \o <<f>>
      /\ UNCHANGED <<online, pinMode, pinValue, pinStateReceived, pwmValue, toHost,
                     needsConfiguration, state, lastValue, out, level, intact, first, missed,
                     dutyWritten>>
  BY DEF Pins!SendPing, Pins!Transmit, Pins!host, Pins!lpc, Pins!history
<1>2. f \in PinFrames /\ f.type = "ping"
  BY DEF PinFrames
<1> HIDE DEF f
<1>3. PinsTyped /\ toLpc \in Seq(PinFrames)
  BY DEF PinsInv, PinsTyped
<1>4. PinsTyped'
  <2>1. toLpc' \in Seq(PinFrames)
    BY <1>1, <1>2, <1>3, OneFrameMore
  <2> QED
    BY <1>1, <1>3, <2>1 DEF PinsTyped
<1> SUFFICES ASSUME online
             PROVE  /\ \A r \in Pins!Pins : ModeKept(r)'
                    /\ \A r \in Outputs : OutKept(r)'
                    /\ \A r \in Inputs : InputKept(r)'
  BY <1>1, <1>4 DEF PinsInv
<1> SUFFICES ASSUME NEW r \in Pins!Pins
             PROVE  /\ ModeKept(r)'
                    /\ r \in Outputs => OutKept(r)'
                    /\ r \in Inputs => InputKept(r)'
  BY PinsFacts
<1>5. f \notin ModeFrames(r) /\ f \notin OutFrames(r)
  BY <1>2 DEF ModeFrames, OutFrames, IsReset
<1>6. /\ GoodMode(r)' = GoodMode(r) /\ (ModeNow(r)' <=> ModeNow(r))
      /\ r \in Outputs => GoodOut(r)' = GoodOut(r) /\ (OutNow(r)' <=> OutNow(r))
  BY <1>1, <1>3, PinUntouched
<1>7. ModeKept(r)'
  <2>1. Kept(toLpc, ModeFrames(r), GoodMode(r), ModeNow(r))
    BY DEF ModeKept, PinsInv
  <2>2. Kept(toLpc \o <<f>>, ModeFrames(r), GoodMode(r), ModeNow(r))
    BY <1>2, <1>3, <1>5, <2>1, KeptPastOne
  <2> QED
    BY <1>1, <1>6, <2>2 DEF ModeKept, Kept
<1>8. ASSUME r \in Outputs PROVE OutKept(r)'
  <2>1. Kept(toLpc, OutFrames(r), GoodOut(r), OutNow(r))
    BY <1>8 DEF OutKept, PinsInv
  <2>2. Kept(toLpc \o <<f>>, OutFrames(r), GoodOut(r), OutNow(r))
    BY <1>2, <1>3, <1>5, <2>1, KeptPastOne
  <2> QED
    BY <1>1, <1>6, <1>8, <2>2 DEF OutKept, Kept
<1>9. ASSUME r \in Inputs PROVE InputKept(r)'
  <2>1. InputKept(r)
    BY <1>9 DEF PinsInv
  <2>2. NoneIn(toLpc', ModeFrames(r)) => NoneIn(toLpc, ModeFrames(r))
    BY <1>1, <1>2, <1>3 DEF NoneIn
  <2>3. Settling(r)' => Settling(r)
    BY <1>1, <2>2 DEF Settling
  <2>4. GoodReport(r)' = GoodReport(r) /\ (ReportNow(r)' <=> ReportNow(r))
    BY <1>1 DEF GoodReport, ReportNow
  <2> QED
    BY <1>1, <2>1, <2>3, <2>4 DEF InputKept, Kept
<1> QED
  BY <1>7, <1>8, <1>9

\* The frames of the replay are finitely many.
LEMMA ReplayIsFinite == Pins!Cardinality(Pins!ReplayFrames) \in Nat
<1> DEFINE S == {p \in Pins!Pins : pinMode[p] # "disabled"}
           T == {p \in Outputs : pinMode[p] = "pwm" /\ pwmValue[p] # "none"}
           A == {Pins!GpioConfig(p) : p \in S}
           B == {Pins!PwmWrite(p) : p \in T}
           a == [p \in S |-> Pins!GpioConfig(p)]
           b == [p \in T |-> Pins!PwmWrite(p)]
<1>1. IsFiniteSet(S) /\ IsFiniteSet(T)
  BY PinsFacts, FS_Subset
<1>2. a \in Surjection(S, A) /\ b \in Surjection(T, B)
  BY Fun_IsSurj
<1>3. IsFiniteSet(A) /\ IsFiniteSet(B)
  BY <1>1, <1>2, FS_Surjection
<1>4. Pins!ReplayFrames = A \cup B
  BY DEF Pins!ReplayFrames
<1> HIDE DEF A, B
<1>5. Cardinality(Pins!ReplayFrames) \in Nat
  BY <1>3, <1>4, FS_Union, FS_CardinalityType
<1>6. Pins!Cardinality(Pins!ReplayFrames) = Cardinality(Pins!ReplayFrames)
  BY DEF Pins!Cardinality, Cardinality
<1> QED
  BY <1>5, <1>6

\* The whole of a replay.
Replay(frames) ==
  <<[type |-> "configurationReset"]>> \o frames \o <<[type |-> "configurationComplete"]>>

\* What the replay puts behind what is under way.
LEMMA ReplayedFrames ==
  ASSUME PinsTyped, NEW frames \in Pins!ReplaysOfPins
  PROVE  /\ Replay(frames) \in Seq(PinFrames) /\ Len(frames) \in Nat
         /\ DOMAIN Replay(frames) = 1 .. Len(frames) + 2
         /\ IsReset(Replay(frames)[1])
         /\ Replay(frames)[Len(frames) + 2].type = "configurationComplete"
         /\ \A k \in 2 .. Len(frames) + 1 : Replay(frames)[k] \in Pins!ReplayFrames
         /\ \A f \in Pins!ReplayFrames : \E k \in 2 .. Len(frames) + 1 : Replay(frames)[k] = f
         /\ \A i, k \in 2 .. Len(frames) + 1 :
              /\ Replay(frames)[i].type = "pwmWrite"
              /\ Replay(frames)[k] = Pins!GpioConfig(Replay(frames)[i].pin)
              => k < i
<1> DEFINE r == Replay(frames)
<1> DEFINE n == Pins!Cardinality(Pins!ReplayFrames)
<1>1. Pins!ReplayFrames \subseteq PinFrames
  <2> SUFFICES ASSUME NEW f \in Pins!ReplayFrames PROVE f \in PinFrames
    OBVIOUS
  <2>1. CASE \E p \in Pins!Pins : pinMode[p] # "disabled" /\ f = Pins!GpioConfig(p)
    <3>1. PICK p \in Pins!Pins : pinMode[p] # "disabled" /\ f = Pins!GpioConfig(p)
      BY <2>1
    <3>2. pinValue[p] \in BOOLEAN /\ pinMode[p] \in Pins!InputModes \cup Pins!OutputModes
      BY <3>1 DEF PinsTyped, Pins!Modes
    <3>3. \/ p \in Inputs /\ pinMode[p] \in Pins!InputModes
          \/ p \in Outputs /\ pinMode[p] \in Pins!OutputModes
      <4>1. /\ p \in Inputs => pinMode[p] \notin Pins!OutputModes
            /\ p \in Outputs => pinMode[p] \notin Pins!InputModes
        BY DEF PinsTyped
      <4> QED
        BY <3>1, <3>2, <4>1, PinsFacts
    <3> QED
      BY <3>1, <3>2, <3>3 DEF Pins!GpioConfig, PinFrames
  <2>2. CASE \E p \in Outputs : pwmValue[p] # "none" /\ f = Pins!PwmWrite(p)
    BY <2>2 DEF Pins!PwmWrite, PinFrames, PinsTyped
  <2> QED
    BY <2>1, <2>2 DEF Pins!ReplayFrames
<1>2. /\ frames \in [1 .. n -> Pins!ReplayFrames]
      /\ \A f \in Pins!ReplayFrames : \E i \in DOMAIN frames : frames[i] = f
      /\ \A i, k \in DOMAIN frames :
           frames[i].type = "pwmWrite" /\ frames[k] = Pins!GpioConfig(frames[i].pin) => k < i
  BY DEF Pins!ReplaysOfPins
<1>3. n \in Nat
  BY ReplayIsFinite
<1> HIDE DEF n
<1>4. frames \in Seq(PinFrames) /\ DOMAIN frames = 1 .. Len(frames) /\ Len(frames) \in Nat
  <2>1. frames \in [1 .. n -> PinFrames]
    BY <1>1, <1>2
  <2> QED
    BY <1>3, <2>1, LenProperties
<1> DEFINE reset == [type |-> "configurationReset"]
           complete == [type |-> "configurationComplete"]
<1>5. reset \in PinFrames /\ complete \in PinFrames
  BY DEF PinFrames
<1>6. reset.type = "configurationReset" /\ complete.type = "configurationComplete"
  OBVIOUS
<1> HIDE DEF reset, complete
<1>7. /\ r \in Seq(PinFrames) /\ DOMAIN r = 1 .. Len(frames) + 2
      /\ r[1] = reset /\ r[Len(frames) + 2] = complete
      /\ \A k \in 2 .. Len(frames) + 1 : r[k] = frames[k - 1]
  <2>1. r = <<reset>> \o frames \o <<complete>>
    BY DEF Replay, reset, complete
  <2> HIDE DEF r
  <2> QED
    BY <1>4, <1>5, <2>1
<1> HIDE DEF r
<1>8. \A k \in 2 .. Len(frames) + 1 : k - 1 \in DOMAIN frames /\ r[k] = frames[k - 1]
  BY <1>4, <1>7
<1>9. \A k \in 2 .. Len(frames) + 1 : r[k] \in Pins!ReplayFrames
  BY <1>2, <1>8
<1>10. \A f \in Pins!ReplayFrames : \E k \in 2 .. Len(frames) + 1 : r[k] = f
  <2> SUFFICES ASSUME NEW f \in Pins!ReplayFrames PROVE \E k \in 2 .. Len(frames) + 1 : r[k] = f
    OBVIOUS
  <2>1. PICK i \in DOMAIN frames : frames[i] = f
    BY <1>2
  <2>2. i + 1 \in 2 .. Len(frames) + 1 /\ (i + 1) - 1 = i
    BY <1>4, <2>1
  <2> QED
    BY <1>7, <2>1, <2>2
<1>11. ASSUME NEW i \in 2 .. Len(frames) + 1, NEW k \in 2 .. Len(frames) + 1,
              r[i].type = "pwmWrite", r[k] = Pins!GpioConfig(r[i].pin)
       PROVE  k < i
  <2>1. k - 1 < i - 1
    BY <1>2, <1>8, <1>11
  <2> QED
    BY <1>4, <2>1
<1> QED
  BY <1>4, <1>6, <1>7, <1>9, <1>10, <1>11 DEF IsReset, r

\* The replay is good for every pin, whatever is under way before it.
LEMMA ReplayIsGood ==
  ASSUME PinsTyped, NEW frames \in Pins!ReplaysOfPins,
         NEW r, r = Replay(frames),
         NEW p \in Pins!Pins
  PROVE  /\ ~NoneIn(r, ModeFrames(p))
         /\ \A k \in DOMAIN r : LastIn(r, ModeFrames(p), k) => r[k] \in GoodMode(p)
         /\ p \in Outputs =>
              /\ ~NoneIn(r, OutFrames(p))
              /\ \A k \in DOMAIN r : LastIn(r, OutFrames(p), k) => r[k] \in GoodOut(p)
<1> DEFINE n == Len(frames)
<1>a. /\ r \in Seq(PinFrames) /\ Len(frames) \in Nat
      /\ DOMAIN r = 1 .. Len(frames) + 2
      /\ IsReset(r[1]) /\ r[Len(frames) + 2].type = "configurationComplete"
      /\ \A k \in 2 .. Len(frames) + 1 : r[k] \in Pins!ReplayFrames
      /\ \A f \in Pins!ReplayFrames : \E k \in 2 .. Len(frames) + 1 : r[k] = f
      /\ \A i, k \in 2 .. Len(frames) + 1 :
           r[i].type = "pwmWrite" /\ r[k] = Pins!GpioConfig(r[i].pin) => k < i
  <2> HIDE DEF n
  <2> QED
    BY ReplayedFrames
<1>1. /\ r \in Seq(PinFrames) /\ n \in Nat /\ DOMAIN r = 1 .. n + 2
      /\ IsReset(r[1]) /\ r[n + 2].type = "configurationComplete"
      /\ \A k \in 2 .. n + 1 : r[k] \in Pins!ReplayFrames
      /\ \A f \in Pins!ReplayFrames : \E k \in 2 .. n + 1 : r[k] = f
      /\ \A i, k \in 2 .. n + 1 :
           r[i].type = "pwmWrite" /\ r[k] = Pins!GpioConfig(r[i].pin) => k < i
  BY <1>a DEF n
<1> HIDE DEF n
<1>2. \A k \in DOMAIN r : r[k] \in PinFrames
  BY <1>1, ElementOfSeq
<1>3. 1 \in DOMAIN r /\ r[1] \in ModeFrames(p) /\ r[1] \in OutFrames(p)
  BY <1>1, <1>2 DEF ModeFrames, OutFrames
<1>4. ~NoneIn(r, ModeFrames(p)) /\ ~NoneIn(r, OutFrames(p))
  BY <1>3 DEF NoneIn
<1>7. \A s : /\ Pins!GpioConfig(s).type = "gpioConfig" /\ Pins!GpioConfig(s).pin = s
             /\ Pins!GpioConfig(s).mode = pinMode[s] /\ Pins!GpioConfig(s).value = pinValue[s]
             /\ Pins!PwmWrite(s).type = "pwmWrite" /\ Pins!PwmWrite(s).pin = s
             /\ Pins!PwmWrite(s).duty = pwmValue[s]
  BY DEF Pins!GpioConfig, Pins!PwmWrite
<1>5. ASSUME pinMode[p] # "disabled"
      PROVE  \E k \in DOMAIN r : k > 1 /\ r[k] \in ModeFrames(p) /\ r[k] \in OutFrames(p)
  <2>1. Pins!GpioConfig(p) \in Pins!ReplayFrames
    BY <1>5 DEF Pins!ReplayFrames
  <2>2. PICK k \in 2 .. n + 1 : r[k] = Pins!GpioConfig(p)
    BY <1>1, <2>1
  <2>3. k \in DOMAIN r /\ k > 1
    BY <1>1
  <2>4. r[k].type = "gpioConfig" /\ r[k].pin = p
    BY <1>7, <2>2
  <2> QED
    BY <1>2, <2>3, <2>4 DEF ModeFrames, OutFrames
<1>6. \A f \in Pins!ReplayFrames :
        \/ \E s \in Pins!Pins : pinMode[s] # "disabled" /\ f = Pins!GpioConfig(s)
        \/ \E s \in Outputs : pinMode[s] = "pwm" /\ pwmValue[s] # "none" /\ f = Pins!PwmWrite(s)
  BY DEF Pins!ReplayFrames
<1>8. ASSUME NEW k \in DOMAIN r, r[k] \in ModeFrames(p) \cup OutFrames(p), k # 1
      PROVE  \/ r[k] = Pins!GpioConfig(p)
             \/ p \in Outputs /\ pinMode[p] = "pwm" /\ pwmValue[p] # "none" /\ r[k] = Pins!PwmWrite(p)
  <2>1. k # n + 2
    BY <1>1, <1>8 DEF ModeFrames, OutFrames, IsReset
  <2>2. r[k] \in Pins!ReplayFrames
    BY <1>1, <1>8, <2>1
  <2>3. r[k].type = "configurationReset" \/ r[k].pin = p
    BY <1>8 DEF ModeFrames, OutFrames, IsReset
  <2>4. CASE \E s \in Pins!Pins : pinMode[s] # "disabled" /\ r[k] = Pins!GpioConfig(s)
    BY <1>7, <2>3, <2>4
  <2>5. CASE \E s \in Outputs : pinMode[s] = "pwm" /\ pwmValue[s] # "none" /\ r[k] = Pins!PwmWrite(s)
    BY <1>7, <2>3, <2>5
  <2> QED
    BY <1>6, <2>2, <2>4, <2>5
<1>9. ASSUME NEW k \in DOMAIN r, LastIn(r, ModeFrames(p), k) PROVE r[k] \in GoodMode(p)
  <2>1. CASE k = 1
    <3>1. pinMode[p] = "disabled"
      BY <1>5, <1>9, <2>1 DEF LastIn
    <3> QED
      BY <1>1, <1>2, <1>3, <2>1, <3>1 DEF GoodMode, IsReset
  <2>2. CASE k # 1
    <3>1. \/ r[k] = Pins!GpioConfig(p)
          \/ pinMode[p] = "pwm" /\ r[k] = Pins!PwmWrite(p)
      BY <1>8, <1>9, <2>2 DEF LastIn
    <3> QED
      BY <1>2, <1>7, <3>1 DEF GoodMode, IsReset
  <2> QED
    BY <2>1, <2>2
<1>10. ASSUME p \in Outputs, NEW k \in DOMAIN r, LastIn(r, OutFrames(p), k) PROVE r[k] \in GoodOut(p)
  <2>1. CASE k = 1
    <3>1. pinMode[p] = "disabled"
      BY <1>5, <1>10, <2>1 DEF LastIn
    <3>2. Pins!Wanted(p) = "float" /\ Driven(r[1]) = "float"
      BY <1>1, <3>1 DEF Pins!Wanted, Pins!OutputModes, Driven, IsReset
    <3>3. r[1].type # "gpioWrite"
      BY <1>1 DEF IsReset
    <3> QED
      BY <1>2, <2>1, <3>1, <3>2, <3>3 DEF GoodOut
  <2>2. CASE k # 1 /\ r[k] = Pins!GpioConfig(p)
    <3>1. r[k].type = "gpioConfig" /\ Driven(r[k]) = Pins!Level(pinValue[p])
      BY <1>7, <2>2 DEF Driven, IsReset
    <3>2. CASE p \in dutyWritten
      <4>1. pinMode[p] = "pwm" /\ pwmValue[p] # "none"
        BY <3>2 DEF PinsTyped
      <4>2. Pins!PwmWrite(p) \in Pins!ReplayFrames
        BY <1>10, <4>1 DEF Pins!ReplayFrames
      <4>3. PICK i \in 2 .. n + 1 : r[i] = Pins!PwmWrite(p)
        BY <1>1, <4>2
      <4>4. k \in 2 .. n + 1
        BY <1>1, <2>2, <3>1
      <4>5. k < i
        <5>1. r[i].type = "pwmWrite" /\ r[i].pin = p
          BY <1>7, <4>3
        <5>2. r[k] = Pins!GpioConfig(r[i].pin)
          BY <2>2, <5>1
        <5> QED
          BY <1>1, <4>4, <5>1, <5>2
      <4>6. i \in DOMAIN r /\ r[i] \in OutFrames(p)
        BY <1>1, <1>2, <1>7, <4>3 DEF OutFrames
      <4> QED
        BY <1>1, <1>10, <4>5, <4>6 DEF LastIn
    <3>3. CASE p \notin dutyWritten
      <4>1. pinMode[p] \in {"output", "pwm", "disabled"}
        BY <1>10, PinsFacts DEF PinsTyped, Pins!Modes, Pins!OutputModes, Pins!InputModes
      <4>2. pinMode[p] # "disabled"
        <5>1. k \in 2 .. n + 1
          BY <1>1, <2>2, <3>1
        <5>2. r[k] \in Pins!ReplayFrames
          BY <1>1, <5>1
        <5>3. \E s \in Pins!Pins : pinMode[s] # "disabled" /\ r[k] = Pins!GpioConfig(s)
          <6>1. \A s : r[k] # Pins!PwmWrite(s)
            <7>1. \A s : Pins!PwmWrite(s).type = "pwmWrite"
              BY <1>7, Zenon
            <7>2. r[k].type # "pwmWrite"
              BY <3>1
            <7> QED
              BY <7>1, <7>2, Zenon
          <6> QED
            BY <1>6, <5>2, <6>1, Zenon
        <5>4. PICK s \in Pins!Pins : pinMode[s] # "disabled" /\ r[k] = Pins!GpioConfig(s)
          BY <5>3, Zenon
        <5>5. Pins!GpioConfig(s).pin = s /\ Pins!GpioConfig(p).pin = p
          BY <1>7, Zenon
        <5>6. s = p
          BY <2>2, <5>4, <5>5, Zenon
        <5> QED
          BY <5>4, <5>6, Zenon
      <4>3. pinMode[p] = "output" => Pins!Wanted(p) = Pins!Level(pinValue[p])
        BY <3>3 DEF Pins!Wanted, Pins!OutputModes
      <4>4. Pins!Unwritten(p) \/ Driven(r[k]) = Pins!Wanted(p)
        BY <3>1, <3>3, <4>1, <4>2, <4>3 DEF Pins!Unwritten
      <4> QED
        BY <1>2, <3>1, <4>4 DEF GoodOut, IsReset
    <3> QED
      BY <3>2, <3>3
  <2>3. CASE k # 1 /\ pinMode[p] = "pwm" /\ r[k] = Pins!PwmWrite(p)
    <3>1. r[k].type = "pwmWrite" /\ Driven(r[k]) = Pins!DutyLevel(pwmValue[p])
      BY <1>7, <2>3 DEF Driven, IsReset
    <3>2. Pins!Unwritten(p) \/ Driven(r[k]) = Pins!Wanted(p)
      BY <2>3, <3>1 DEF Pins!Unwritten, Pins!Wanted, Pins!OutputModes
    <3> QED
      BY <1>2, <3>1, <3>2 DEF GoodOut, IsReset
  <2> QED
    BY <1>8, <1>10, <2>1, <2>2, <2>3 DEF LastIn
<1> QED
  BY <1>4, <1>9, <1>10

\* A pong that asks for the configuration is answered with the replay.
LEMMA PinsReplayed ==
  ASSUME PinsInv, Pins!ReplayConfiguration,
         UNCHANGED <<pinMode, pinValue, pwmValue, needsConfiguration, state, lastValue, out,
                     level, intact, first, missed, dutyWritten>>,
         online' \in BOOLEAN, toHost' \in Seq(PinReports),
         pinStateReceived' \in [Pins!Pins -> BOOLEAN]
  PROVE  PinsInv'
<1>1. PICK frames \in Pins!ReplaysOfPins :
        Pins!Transmit(Replay(frames))
  BY DEF Pins!ReplayConfiguration, Replay
<1> DEFINE r == Replay(frames)
<1>2. toLpc' = toLpc \o r
  BY <1>1 DEF Pins!Transmit
<1>3. PinsTyped /\ toLpc \in Seq(PinFrames)
  BY DEF PinsInv, PinsTyped
<1>4. r \in Seq(PinFrames)
  BY <1>3, ReplayedFrames
<1>5. \A p \in Pins!Pins :
        /\ ~NoneIn(r, ModeFrames(p))
        /\ \A k \in DOMAIN r : LastIn(r, ModeFrames(p), k) => r[k] \in GoodMode(p)
        /\ p \in Outputs =>
             /\ ~NoneIn(r, OutFrames(p))
             /\ \A k \in DOMAIN r : LastIn(r, OutFrames(p), k) => r[k] \in GoodOut(p)
  BY <1>3, ReplayIsGood
<1> HIDE DEF r
<1>6. PinsTyped'
  <2>1. toLpc' \in Seq(PinFrames)
    BY <1>2, <1>3, <1>4, ConcatProperties
  <2> QED
    BY <1>3, <2>1 DEF PinsTyped
<1>7. ASSUME NEW p \in Pins!Pins PROVE ModeKept(p)'
  <2>1. Kept(toLpc \o r, ModeFrames(p), GoodMode(p), ModeNow(p))
    BY <1>3, <1>4, <1>5, KeptBehind
  <2> QED
    BY <1>2, <2>1 DEF ModeKept, GoodMode, ModeNow
<1>8. ASSUME NEW p \in Outputs PROVE OutKept(p)'
  <2>1. Kept(toLpc \o r, OutFrames(p), GoodOut(p), OutNow(p))
    BY <1>3, <1>4, <1>5, PinsFacts, KeptBehind
  <2>2. p \in Pins!Pins
    BY PinsFacts
  <2>3. GoodOut(p)' = GoodOut(p) /\ (OutNow(p)' <=> OutNow(p))
    BY <1>3, <1>8, <2>2, PinUntouched
  <2> QED
    BY <1>2, <2>1, <2>3 DEF OutKept, Kept
<1>9. ASSUME NEW p \in Inputs PROVE InputKept(p)'
  <2>1. p \in Pins!Pins
    BY PinsFacts
  <2>2. ~NoneIn(toLpc', ModeFrames(p))
    <3>1. PICK i \in DOMAIN r : r[i] \in ModeFrames(p)
      BY <1>5, <2>1 DEF NoneIn
    <3>2. i + Len(toLpc) \in DOMAIN (toLpc \o r) /\ (toLpc \o r)[i + Len(toLpc)] = r[i]
      BY <1>3, <1>4
    <3> QED
      BY <1>2, <3>1, <3>2 DEF NoneIn
  <2> QED
    BY <2>2 DEF InputKept, Settling
<1> QED
  BY <1>6, <1>7, <1>8, <1>9 DEF PinsInv

\* A queue without its first frame.
LEMMA FrameTaken ==
  ASSUME NEW F, NEW q \in Seq(F), q # <<>>
  PROVE  Tail(q) \in Seq(F) /\ Head(q) \in F
BY HeadTailProperties, EmptySeq

\* What is kept of a pin while nothing is sent to the coprocessor or taken from it.
LEMMA QueueUntouched ==
  ASSUME PinsInv, online, NEW r \in Pins!Pins,
         UNCHANGED <<toLpc, state[r], out[r], pinMode[r], intact>>,
         r \in Outputs => UNCHANGED <<pinValue[r], pwmValue[r], r \in dutyWritten>>
  PROVE  ModeKept(r)' /\ (r \in Outputs => OutKept(r)')
<1>1. PinsTyped /\ ModeKept(r) /\ (r \in Outputs => OutKept(r))
  BY DEF PinsInv
<1>2. /\ GoodMode(r)' = GoodMode(r) /\ (ModeNow(r)' <=> ModeNow(r))
      /\ r \in Outputs => GoodOut(r)' = GoodOut(r) /\ (OutNow(r)' <=> OutNow(r))
  BY <1>1, PinUntouched
<1> QED
  BY <1>1, <1>2 DEF ModeKept, OutKept, Kept

\* A frame that says nothing of a pin is taken from the queue to the coprocessor.
LEMMA FrameOfOthers ==
  ASSUME PinsInv, online, toLpc # <<>>, toLpc' = Tail(toLpc), NEW r \in Pins!Pins,
         UNCHANGED <<state[r], out[r], pinMode[r], intact>>,
         r \in Outputs => UNCHANGED <<pinValue[r], pwmValue[r], r \in dutyWritten>>,
         Head(toLpc) \notin ModeFrames(r), r \in Outputs => Head(toLpc) \notin OutFrames(r)
  PROVE  ModeKept(r)' /\ (r \in Outputs => OutKept(r)')
<1>1. PinsTyped /\ toLpc \in Seq(PinFrames) /\ ModeKept(r) /\ (r \in Outputs => OutKept(r))
  BY DEF PinsInv, PinsTyped
<1>2. /\ GoodMode(r)' = GoodMode(r) /\ (ModeNow(r)' <=> ModeNow(r))
      /\ r \in Outputs => GoodOut(r)' = GoodOut(r) /\ (OutNow(r)' <=> OutNow(r))
  BY <1>1, PinUntouched
<1>3. ModeKept(r)'
  <2>1. Kept(toLpc, ModeFrames(r), GoodMode(r), ModeNow(r))
    BY <1>1 DEF ModeKept
  <2>2. Kept(Tail(toLpc), ModeFrames(r), GoodMode(r), ModeNow(r))
    BY <1>1, <2>1, KeptTail
  <2> QED
    BY <1>2, <2>2 DEF ModeKept, Kept
<1>4. ASSUME r \in Outputs PROVE OutKept(r)'
  <2>1. Kept(toLpc, OutFrames(r), GoodOut(r), OutNow(r))
    BY <1>1, <1>4 DEF OutKept
  <2>2. Kept(Tail(toLpc), OutFrames(r), GoodOut(r), OutNow(r))
    BY <1>1, <1>4, <2>1, KeptTail
  <2> QED
    BY <1>2, <1>4, <2>2 DEF OutKept, Kept
<1> QED
  BY <1>3, <1>4

\* Without a frame that says nothing of its mode, a pin is as settled as with it.
LEMMA InputOfOthers ==
  ASSUME PinsInv, online, toLpc # <<>>, toLpc' = Tail(toLpc), NEW r \in Inputs,
         UNCHANGED <<pinMode[r], pinValue[r], pinStateReceived[r], lastValue[r], level[r],
                     r \in first, r \in missed>>,
         intact' => intact,
         Head(toLpc) \notin ModeFrames(r),
         Kept(toHost, ReportsOf(r), GoodReport(r), ReportNow(r))
           => Kept(toHost', ReportsOf(r), GoodReport(r), ReportNow(r))
  PROVE  InputKept(r)'
<1>1. PinsTyped /\ toLpc \in Seq(PinFrames) /\ InputKept(r)
  BY DEF PinsInv, PinsTyped
<1>2. NoneIn(Tail(toLpc), ModeFrames(r)) => NoneIn(toLpc, ModeFrames(r))
  <2> SUFFICES ASSUME NoneIn(Tail(toLpc), ModeFrames(r)), NEW k \in DOMAIN toLpc
               PROVE  toLpc[k] \notin ModeFrames(r)
    BY DEF NoneIn
  <2>1. /\ Len(toLpc) \in Nat /\ DOMAIN toLpc = 1 .. Len(toLpc) /\ Head(toLpc) = toLpc[1]
        /\ DOMAIN Tail(toLpc) = 1 .. Len(toLpc) - 1
        /\ \A l \in 1 .. Len(toLpc) - 1 : Tail(toLpc)[l] = toLpc[l + 1]
    BY <1>1, HeadTailProperties, EmptySeq, LenProperties
  <2>2. CASE k = 1
    BY <2>1, <2>2
  <2>3. CASE k # 1
    <3>1. k - 1 \in DOMAIN Tail(toLpc) /\ Tail(toLpc)[k - 1] = toLpc[k]
      BY <2>1, <2>3
    <3> QED
      BY <3>1 DEF NoneIn
  <2> QED
    BY <2>2, <2>3
<1>3. Settling(r)' => Settling(r)
  BY <1>2 DEF Settling
<1>4. GoodReport(r)' = GoodReport(r) /\ (ReportNow(r)' <=> ReportNow(r))
  BY DEF GoodReport, ReportNow
<1> QED
  BY <1>1, <1>3, <1>4 DEF InputKept, Kept

\* The same while the queue to the coprocessor stays as it is.
LEMMA InputUntouched ==
  ASSUME PinsInv, online, NEW r \in Inputs,
         UNCHANGED <<toLpc, pinMode[r], pinValue[r], pinStateReceived[r], lastValue[r],
                     r \in first, intact>>,
         r \in first => level'[r] = level[r] \/ r \in missed',
         r \notin missed' => r \notin missed,
         r \notin missed' /\ Kept(toHost, ReportsOf(r), GoodReport(r), ReportNow(r))
           => Kept(toHost', ReportsOf(r), GoodReport(r), ReportNow(r))
  PROVE  InputKept(r)'
<1>1. InputKept(r)
  BY DEF PinsInv
<1>2. Settling(r)' => Settling(r) /\ r \notin missed'
  BY DEF Settling
<1>3. GoodReport(r)' = GoodReport(r) /\ (ReportNow(r)' <=> ReportNow(r))
  BY DEF GoodReport, ReportNow
<1> QED
  BY <1>1, <1>2, <1>3 DEF InputKept, Kept

\* The host that finds no pong claims nothing any more.
LEMMA PinsTimeout ==
  ASSUME PinsInv, Pins!PongTimeout
  PROVE  PinsInv'
<1>1. /\ PinsTyped /\ online' = FALSE /\ pinStateReceived' = [p \in Pins!Pins |-> FALSE]
      /\ UNCHANGED <<pinMode, pinValue, pwmValue, toLpc, toHost, needsConfiguration, state,
                     lastValue, out, level, intact, dutyWritten>>
  BY DEF PinsInv, Pins!PongTimeout, Pins!lpc, Pins!history
<1>2. PinsTyped'
  BY <1>1 DEF PinsTyped
<1> QED
  BY <1>1, <1>2, PinsOffline

\* A pong finds the host online and the coprocessor configured, or brings the replay.
LEMMA PinsPong ==
  ASSUME PinsInv, Pins!HandlePong
  PROVE  PinsInv'
<1>1. /\ PinsTyped /\ toHost \in Seq(PinReports)
      /\ toHost # <<>> /\ Head(toHost).type = "pong" /\ toHost' = Tail(toHost)
      /\ online' = TRUE
      /\ UNCHANGED <<pinMode, pinValue, pwmValue, needsConfiguration, state, lastValue, out,
                     level, intact, first, missed, dutyWritten>>
  BY DEF PinsInv, PinsTyped, Pins!HandlePong, Pins!FromLpc, Pins!lpc, Pins!history
<1>2. Tail(toHost) \in Seq(PinReports) /\ Head(toHost) \in PinReports
  BY <1>1, FrameTaken
<1>3. CASE ~online \/ Head(toHost).needsConfiguration
  <2>1. pinStateReceived' = [p \in Pins!Pins |-> FALSE] /\ Pins!ReplayConfiguration
    BY <1>3 DEF Pins!HandlePong
  <2>2. pinStateReceived' \in [Pins!Pins -> BOOLEAN]
    BY <2>1
  <2> QED
    BY <1>1, <1>2, <2>1, <2>2, PinsReplayed
<1>4. CASE ~(~online \/ Head(toHost).needsConfiguration)
  <2>1. online /\ UNCHANGED <<online, pinStateReceived, toLpc>>
    BY <1>1, <1>4 DEF Pins!HandlePong, PinsTyped
  <2>2. PinsTyped'
    BY <1>1, <1>2, <2>1 DEF PinsTyped
  <2>3. ASSUME NEW r \in Pins!Pins PROVE ModeKept(r)' /\ (r \in Outputs => OutKept(r)')
    BY <1>1, <2>1, <2>3, QueueUntouched
  <2>4. ASSUME NEW r \in Inputs PROVE InputKept(r)'
    <3>1. Head(toHost) \notin ReportsOf(r)
      BY <1>1 DEF ReportsOf
    <3>2. Kept(toHost, ReportsOf(r), GoodReport(r), ReportNow(r))
            => Kept(Tail(toHost), ReportsOf(r), GoodReport(r), ReportNow(r))
      BY <1>1, <3>1, KeptTail
    <3> QED
      BY <1>1, <2>1, <3>2, InputUntouched
  <2> QED
    BY <2>2, <2>3, <2>4, PinsFacts DEF PinsInv
<1> QED
  BY <1>3, <1>4

\* A report makes the host read what the coprocessor takes for reported.
LEMMA PinsReported ==
  ASSUME PinsInv, Pins!HandleGpioState
  PROVE  PinsInv'
<1> DEFINE f == Head(toHost)
<1>1. /\ PinsTyped /\ toHost \in Seq(PinReports)
      /\ toHost # <<>> /\ f.type = "gpioState" /\ toHost' = Tail(toHost)
      /\ pinValue' = [pinValue EXCEPT ![f.pin] = f.value]
      /\ pinStateReceived' = [pinStateReceived EXCEPT ![f.pin] = TRUE]
      /\ UNCHANGED <<online, pinMode, pwmValue, toLpc, needsConfiguration, state, lastValue, out,
                     level, intact, first, missed, dutyWritten>>
  BY DEF PinsInv, PinsTyped, Pins!HandleGpioState, Pins!FromLpc, Pins!lpc, Pins!history
<1>2. Tail(toHost) \in Seq(PinReports) /\ f \in PinReports
  BY <1>1, FrameTaken
<1> HIDE DEF f
<1>3. f.pin \in Inputs /\ f.value \in BOOLEAN
  BY <1>1, <1>2 DEF PinReports
<1>4. f.pin \in Pins!Pins /\ \A r \in Outputs : r # f.pin
  BY <1>3, PinsFacts
<1>5. PinsTyped'
  <2>1. pinValue' \in [Pins!Pins -> BOOLEAN] /\ pinStateReceived' \in [Pins!Pins -> BOOLEAN]
    BY <1>1, <1>3 DEF PinsTyped
  <2> QED
    BY <1>1, <1>2, <2>1 DEF PinsTyped
<1>6. \A r \in Pins!Pins :
        r # f.pin => pinValue'[r] = pinValue[r] /\ pinStateReceived'[r] = pinStateReceived[r]
  BY <1>1 DEF PinsTyped
<1>7. CASE ~online
  BY <1>1, <1>5, <1>7, PinsOffline
<1>8. CASE online
  <2>1. ASSUME NEW r \in Pins!Pins PROVE ModeKept(r)' /\ (r \in Outputs => OutKept(r)')
    BY <1>1, <1>4, <1>6, <1>8, <2>1, QueueUntouched
  <2>2. ASSUME NEW r \in Inputs PROVE InputKept(r)'
    <3>1. r \in Pins!Pins /\ InputKept(r)
      BY <1>8, PinsFacts DEF PinsInv
    <3>2. ASSUME Kept(toHost, ReportsOf(r), GoodReport(r), ReportNow(r))
          PROVE  Kept(Tail(toHost), ReportsOf(r), GoodReport(r), ReportNow(r)')
      <4>1. CASE f.pin = r
        <5>1. f \in GoodReport(r) => ReportNow(r)'
          BY <1>1, <1>3, <3>1, <4>1 DEF GoodReport, ReportNow, PinsTyped
        <5>2. f \in ReportsOf(r)
          BY <1>1, <1>2, <4>1 DEF ReportsOf
        <5>3. /\ Head(toHost) \in ReportsOf(r) /\ Head(toHost) \in GoodReport(r) => ReportNow(r)'
              /\ Head(toHost) \notin ReportsOf(r) /\ ReportNow(r) => ReportNow(r)'
          BY <5>1, <5>2 DEF f
        <5> QED
          BY <1>1, <3>2, <5>3, KeptTail
      <4>2. CASE f.pin # r
        <5>1. ReportNow(r)' <=> ReportNow(r)
          BY <1>1, <1>6, <3>1, <4>2 DEF ReportNow
        <5>2. Head(toHost) \notin ReportsOf(r)
          BY <4>2 DEF f, ReportsOf
        <5> QED
          BY <1>1, <3>2, <5>1, <5>2, KeptTail
      <4> QED
        BY <4>1, <4>2
    <3>3. Settling(r)' => Settling(r)
      BY <1>1 DEF Settling
    <3>4. GoodReport(r)' = GoodReport(r)
      BY <1>1 DEF GoodReport
    <3> QED
      BY <1>1, <3>1, <3>2, <3>3, <3>4 DEF InputKept, Kept
  <2> QED
    BY <1>5, <2>1, <2>2, PinsFacts DEF PinsInv
<1> QED
  BY <1>7, <1>8

\* The coprocessor answers a ping.
LEMMA PinsPing ==
  ASSUME PinsInv, Pins!LpcPing
  PROVE  PinsInv'
<1> DEFINE f == [type |-> "pong", needsConfiguration |-> needsConfiguration]
<1>1. /\ PinsTyped /\ toLpc \in Seq(PinFrames) /\ toHost \in Seq(PinReports)
      /\ toLpc # <<>> /\ Head(toLpc).type = "ping" /\ toLpc' = Tail(toLpc)
      /\ toHost' = Append(toHost, f)
      /\ UNCHANGED <<online, pinMode, pinValue, pinStateReceived, pwmValue, needsConfiguration,
                     state, lastValue, out, level, intact, first, missed, dutyWritten>>
  BY DEF PinsInv, PinsTyped, Pins!LpcPing, Pins!FromHost, Pins!host, Pins!lpc
<1>2. f \in PinReports /\ f.type = "pong"
  BY <1>1 DEF PinsTyped, PinReports
<1> HIDE DEF f
<1>3. Append(toHost, f) = toHost \o <<f>> /\ Append(toHost, f) \in Seq(PinReports)
  BY <1>1, <1>2
<1>4. Tail(toLpc) \in Seq(PinFrames)
  BY <1>1, FrameTaken
<1>5. PinsTyped'
  BY <1>1, <1>3, <1>4 DEF PinsTyped
<1>6. CASE ~online
  BY <1>1, <1>5, <1>6, PinsOffline
<1>7. CASE online
  <2>1. ASSUME NEW r \in Pins!Pins
        PROVE  Head(toLpc) \notin ModeFrames(r) /\ Head(toLpc) \notin OutFrames(r)
    BY <1>1 DEF ModeFrames, OutFrames, IsReset
  <2>2. ASSUME NEW r \in Pins!Pins PROVE ModeKept(r)' /\ (r \in Outputs => OutKept(r)')
    BY <1>1, <1>7, <2>1, FrameOfOthers
  <2>3. ASSUME NEW r \in Inputs PROVE InputKept(r)'
    <3>1. f \notin ReportsOf(r)
      BY <1>2 DEF ReportsOf
    <3>2. Kept(toHost, ReportsOf(r), GoodReport(r), ReportNow(r))
            => Kept(toHost', ReportsOf(r), GoodReport(r), ReportNow(r))
      BY <1>1, <1>2, <1>3, <3>1, KeptPastOne
    <3>3. Head(toLpc) \notin ModeFrames(r)
      BY <2>1, PinsFacts
    <3> QED
      BY <1>1, <1>7, <3>2, <3>3, InputOfOthers
  <2> QED
    BY <1>5, <2>2, <2>3, PinsFacts DEF PinsInv
<1> QED
  BY <1>6, <1>7

\* The configuration is complete.
LEMMA PinsComplete ==
  ASSUME PinsInv, Pins!ConfigurationComplete
  PROVE  PinsInv'
<1>1. /\ PinsTyped /\ toLpc \in Seq(PinFrames)
      /\ toLpc # <<>> /\ Head(toLpc).type = "configurationComplete" /\ toLpc' = Tail(toLpc)
      /\ needsConfiguration' = FALSE
      /\ UNCHANGED <<online, pinMode, pinValue, pinStateReceived, pwmValue, toHost,
                     state, lastValue, out, level, intact, first, missed, dutyWritten>>
  BY DEF PinsInv, PinsTyped, Pins!ConfigurationComplete, Pins!FromHost, Pins!host
<1>2. Tail(toLpc) \in Seq(PinFrames)
  BY <1>1, FrameTaken
<1>3. PinsTyped'
  BY <1>1, <1>2 DEF PinsTyped
<1>4. CASE ~online
  BY <1>1, <1>3, <1>4, PinsOffline
<1>5. CASE online
  <2>1. ASSUME NEW r \in Pins!Pins
        PROVE  Head(toLpc) \notin ModeFrames(r) /\ Head(toLpc) \notin OutFrames(r)
    BY <1>1 DEF ModeFrames, OutFrames, IsReset
  <2>2. ASSUME NEW r \in Pins!Pins PROVE ModeKept(r)' /\ (r \in Outputs => OutKept(r)')
    BY <1>1, <1>5, <2>1, FrameOfOthers
  <2>3. ASSUME NEW r \in Inputs PROVE InputKept(r)'
    <3>1. Head(toLpc) \notin ModeFrames(r)
      BY <2>1, PinsFacts
    <3> QED
      BY <1>1, <1>5, <3>1, InputOfOthers
  <2> QED
    BY <1>3, <2>2, <2>3, PinsFacts DEF PinsInv
<1> QED
  BY <1>4, <1>5

\* A reset leaves the pins disabled that the host has not configured behind it.
LEMMA PinsReset ==
  ASSUME PinsInv, Pins!ConfigurationReset
  PROVE  PinsInv'
<1>1. /\ PinsTyped /\ toLpc \in Seq(PinFrames)
      /\ toLpc # <<>> /\ Head(toLpc).type = "configurationReset" /\ toLpc' = Tail(toLpc)
      /\ needsConfiguration' = TRUE /\ intact' = TRUE /\ first' = {} /\ missed' = {}
      /\ state' = [p \in Pins!Pins |-> "disabled"] /\ out' = [p \in Pins!Pins |-> "float"]
      /\ lastValue' = [p \in Inputs |-> FALSE]
      /\ UNCHANGED <<online, pinMode, pinValue, pinStateReceived, pwmValue, toHost, level,
                     dutyWritten>>
  BY DEF PinsInv, PinsTyped, Pins!ConfigurationReset, Pins!FromHost, Pins!host
<1>2. Tail(toLpc) \in Seq(PinFrames) /\ Head(toLpc) \in PinFrames
  BY <1>1, FrameTaken
<1>3. PinsTyped'
  <2>1. state' \in [Pins!Pins -> Pins!Modes] /\ lastValue' \in [Inputs -> BOOLEAN]
        /\ DOMAIN out' = Pins!Pins
    BY <1>1 DEF Pins!Modes
  <2> QED
    BY <1>1, <1>2, <2>1 DEF PinsTyped
<1>4. CASE ~online
  BY <1>1, <1>3, <1>4, PinsOffline
<1>5. CASE online
  <2>1. ASSUME NEW r \in Pins!Pins PROVE ModeKept(r)'
    <3>1. Kept(toLpc, ModeFrames(r), GoodMode(r), ModeNow(r))
      BY <1>5 DEF PinsInv, ModeKept
    <3>2. Head(toLpc) \in ModeFrames(r)
      BY <1>1, <1>2 DEF ModeFrames, IsReset
    <3>3. Head(toLpc) \in GoodMode(r) => pinMode[r] = "disabled"
      BY <1>1 DEF GoodMode, IsReset
    <3>4. Head(toLpc) \in GoodMode(r) => ModeNow(r)'
      BY <1>1, <3>3 DEF ModeNow
    <3>5. Kept(Tail(toLpc), ModeFrames(r), GoodMode(r), ModeNow(r)')
      BY <1>1, <3>1, <3>2, <3>4, KeptTail
    <3>6. GoodMode(r)' = GoodMode(r)
      BY <1>1 DEF GoodMode
    <3> QED
      BY <1>1, <3>5, <3>6 DEF ModeKept, Kept
  <2>2. ASSUME NEW r \in Outputs PROVE OutKept(r)'
    <3>1. Kept(toLpc, OutFrames(r), GoodOut(r), OutNow(r))
      BY <1>5 DEF PinsInv, OutKept
    <3>2. Head(toLpc) \in OutFrames(r)
      BY <1>1, <1>2 DEF OutFrames, IsReset
    <3>3. (Pins!Unwritten(r)' <=> Pins!Unwritten(r)) /\ Pins!Wanted(r)' = Pins!Wanted(r)
      BY <1>1 DEF Pins!Unwritten, Pins!Wanted, Pins!Level, Pins!DutyLevel
    <3>4. Driven(Head(toLpc)) = "float" /\ out'[r] = "float"
      BY <1>1, PinsFacts DEF Driven, IsReset
    <3>5. Head(toLpc) \in GoodOut(r) => OutNow(r)'
      BY <3>3, <3>4 DEF GoodOut, OutNow
    <3>6. Kept(Tail(toLpc), OutFrames(r), GoodOut(r), OutNow(r)')
      BY <1>1, <3>1, <3>2, <3>5, KeptTail
    <3>7. GoodOut(r)' = GoodOut(r)
      BY <1>1, <3>3 DEF GoodOut
    <3> QED
      BY <1>1, <3>6, <3>7 DEF OutKept, Kept
  <2>3. ASSUME NEW r \in Inputs PROVE InputKept(r)'
    <3>1. r \in Pins!Pins /\ ModeKept(r)'
      BY <2>1, PinsFacts
    <3>2. NoneIn(toLpc', ModeFrames(r)) => ModeNow(r)'
      BY <3>1 DEF ModeKept, Kept
    <3>3. ModeNow(r)' => pinMode'[r] = "disabled"
      BY <1>1, <3>1 DEF ModeNow
    <3>4. ~Settling(r)'
      BY <3>2, <3>3 DEF Settling, Pins!InputModes
    <3> QED
      BY <3>4 DEF InputKept
  <2> QED
    BY <1>3, <2>1, <2>2, <2>3 DEF PinsInv
<1> QED
  BY <1>4, <1>5

\* A configuration sets a pin to what the host remembers, or more is to come.
LEMMA PinsConfig ==
  ASSUME PinsInv, Pins!LpcConfig
  PROVE  PinsInv'
<1> DEFINE f == Head(toLpc)
<1>1. /\ PinsTyped /\ toLpc \in Seq(PinFrames)
      /\ toLpc # <<>> /\ f.type = "gpioConfig" /\ toLpc' = Tail(toLpc)
      /\ Pins!Configure(f.pin, f.mode, f.value)
      /\ first' = IF f.pin \in Inputs THEN first \cup {f.pin} ELSE first
      /\ missed' = missed \ {f.pin}
      /\ UNCHANGED <<online, pinMode, pinValue, pinStateReceived, pwmValue, toHost, level,
                     needsConfiguration, intact, dutyWritten>>
  BY DEF PinsInv, PinsTyped, Pins!LpcConfig, Pins!FromHost, Pins!host
<1>2. Tail(toLpc) \in Seq(PinFrames) /\ f \in PinFrames
  BY <1>1, FrameTaken
<1> HIDE DEF f
<1>3. /\ f.pin \in Pins!Pins /\ f.mode \in Pins!Modes /\ f.value \in BOOLEAN
      /\ f.mode \in Pins!InputModes \cup Pins!OutputModes
      /\ f.pin \in Inputs => f.mode \in Pins!InputModes
      /\ f.pin \in Outputs => f.mode \in Pins!OutputModes
  BY <1>1, <1>2, PinFrameParts
<1>4. /\ state' = [state EXCEPT ![f.pin] = f.mode]
      /\ out' = [out EXCEPT ![f.pin] = IF f.mode \in Pins!OutputModes THEN Pins!Level(f.value) ELSE "float"]
      /\ lastValue' = IF f.mode \in Pins!InputModes
                      THEN [lastValue EXCEPT ![f.pin] = ~level[f.pin]] ELSE lastValue
  BY <1>1 DEF Pins!Configure, Pins!Fresh
<1>5. f.mode \in Pins!InputModes => f.pin \in Inputs
  BY <1>3, PinsFacts DEF Pins!InputModes, Pins!OutputModes
<1>6. PinsTyped'
  <2>1. state' \in [Pins!Pins -> Pins!Modes]
    BY <1>1, <1>3, <1>4 DEF PinsTyped
  <2>2. DOMAIN out' = Pins!Pins
    BY <1>1, <1>4 DEF PinsTyped
  <2>3. lastValue' \in [Inputs -> BOOLEAN]
    BY <1>1, <1>4, <1>5 DEF PinsTyped
  <2> QED
    BY <1>1, <1>2, <2>1, <2>2, <2>3 DEF PinsTyped
<1>7. /\ state'[f.pin] = f.mode
      /\ f.pin \in Outputs => out'[f.pin] = Pins!Level(f.value)
      /\ f.pin \in Inputs => lastValue'[f.pin] = ~level[f.pin]
  BY <1>1, <1>3, <1>4 DEF PinsTyped
<1>8. ASSUME NEW r \in Pins!Pins, r # f.pin
      PROVE  state'[r] = state[r] /\ out'[r] = out[r] /\ (r \in Inputs => lastValue'[r] = lastValue[r])
  BY <1>1, <1>4, <1>5, <1>8 DEF PinsTyped
<1>9. CASE ~online
  BY <1>1, <1>6, <1>9, PinsOffline
<1>10. CASE online
  <2>1. ASSUME NEW r \in Pins!Pins, r # f.pin
        PROVE  Head(toLpc) \notin ModeFrames(r) /\ Head(toLpc) \notin OutFrames(r)
    BY <1>1, <2>1 DEF ModeFrames, OutFrames, IsReset, f
  <2>2. ASSUME NEW r \in Pins!Pins, r # f.pin PROVE ModeKept(r)' /\ (r \in Outputs => OutKept(r)')
    BY <1>1, <1>8, <1>10, <2>1, <2>2, FrameOfOthers
  <2>3. ASSUME NEW r \in Inputs, r # f.pin PROVE InputKept(r)'
    <3>1. r \in Pins!Pins
      BY PinsFacts
    <3>2. Head(toLpc) \notin ModeFrames(r) /\ lastValue'[r] = lastValue[r]
      BY <1>8, <2>1, <2>3, <3>1
    <3>3. UNCHANGED <<r \in first, r \in missed>>
      BY <1>1, <2>3
    <3> QED
      BY <1>1, <1>10, <3>2, <3>3, InputOfOthers
  <2>4. ASSUME NEW r \in Pins!Pins, r = f.pin PROVE ModeKept(r)'
    <3>1. Kept(toLpc, ModeFrames(r), GoodMode(r), ModeNow(r))
      BY <1>10 DEF PinsInv, ModeKept
    <3>2. f \in ModeFrames(r)
      BY <1>1, <1>2, <2>4 DEF ModeFrames
    <3>3. f \in GoodMode(r) => pinMode[r] = f.mode
      BY <1>1 DEF GoodMode, IsReset
    <3>4. f \in GoodMode(r) => ModeNow(r)'
      BY <1>1, <1>7, <2>4, <3>3 DEF ModeNow
    <3>5. /\ Head(toLpc) \in ModeFrames(r) /\ Head(toLpc) \in GoodMode(r) => ModeNow(r)'
          /\ Head(toLpc) \notin ModeFrames(r) /\ ModeNow(r) => ModeNow(r)'
      BY <3>2, <3>4 DEF f
    <3>6. Kept(Tail(toLpc), ModeFrames(r), GoodMode(r), ModeNow(r)')
      BY <1>1, <3>1, <3>5, KeptTail
    <3>7. GoodMode(r)' = GoodMode(r)
      BY <1>1 DEF GoodMode
    <3> QED
      BY <1>1, <3>6, <3>7 DEF ModeKept, Kept
  <2>5. ASSUME NEW r \in Outputs, r = f.pin PROVE OutKept(r)'
    <3>1. Kept(toLpc, OutFrames(r), GoodOut(r), OutNow(r))
      BY <1>10 DEF PinsInv, OutKept
    <3>2. f \in OutFrames(r)
      BY <1>1, <1>2, <2>5 DEF OutFrames
    <3>3. (Pins!Unwritten(r)' <=> Pins!Unwritten(r)) /\ Pins!Wanted(r)' = Pins!Wanted(r)
      BY <1>1 DEF Pins!Unwritten, Pins!Wanted, Pins!Level, Pins!DutyLevel
    <3>4. Driven(f) = out'[r]
      BY <1>1, <1>7, <2>5 DEF Driven, IsReset
    <3>5. f \in GoodOut(r) => OutNow(r)'
      BY <3>3, <3>4 DEF GoodOut, OutNow
    <3>6. /\ Head(toLpc) \in OutFrames(r) /\ Head(toLpc) \in GoodOut(r) => OutNow(r)'
          /\ Head(toLpc) \notin OutFrames(r) /\ OutNow(r) => OutNow(r)'
      BY <3>2, <3>5 DEF f
    <3>7. Kept(Tail(toLpc), OutFrames(r), GoodOut(r), OutNow(r)')
      BY <1>1, <3>1, <3>6, KeptTail
    <3>8. GoodOut(r)' = GoodOut(r)
      BY <1>1, <3>3 DEF GoodOut
    <3> QED
      BY <1>1, <3>7, <3>8 DEF OutKept, Kept
  <2>6. ASSUME NEW r \in Inputs, r = f.pin PROVE InputKept(r)'
    <3>1. r \in first' /\ level'[r] = level[r] /\ lastValue'[r] = ~level[r]
      BY <1>1, <1>7, <2>6
    <3>2. level[r] \in BOOLEAN
      BY <1>1 DEF PinsTyped
    <3>3. level'[r] # lastValue'[r]
      BY <3>1, <3>2
    <3> QED
      BY <3>1, <3>3 DEF InputKept
  <2> QED
    BY <1>6, <2>2, <2>3, <2>4, <2>5, <2>6, PinsFacts DEF PinsInv
<1> QED
  BY <1>9, <1>10

\* A value is driven if the pin is an output, which it is once it has its mode.
LEMMA PinsWrite ==
  ASSUME PinsInv, Pins!LpcWrite
  PROVE  PinsInv'
<1> DEFINE f == Head(toLpc)
<1>1. /\ PinsTyped /\ toLpc \in Seq(PinFrames)
      /\ toLpc # <<>> /\ f.type = "gpioWrite" /\ toLpc' = Tail(toLpc)
      /\ out' = IF state[f.pin] = "output" THEN [out EXCEPT ![f.pin] = Pins!Level(f.value)] ELSE out
      /\ UNCHANGED <<online, pinMode, pinValue, pinStateReceived, pwmValue, toHost, level, state,
                     lastValue, needsConfiguration, intact, first, missed, dutyWritten>>
  BY DEF PinsInv, PinsTyped, Pins!LpcWrite, Pins!FromHost, Pins!host
<1>2. Tail(toLpc) \in Seq(PinFrames) /\ f \in PinFrames
  BY <1>1, FrameTaken
<1> HIDE DEF f
<1>3. f.pin \in Outputs /\ f.pin \in Pins!Pins
  BY <1>1, <1>2, PinFrameParts, PinsFacts
<1>4. PinsTyped'
  <2>1. DOMAIN out' = Pins!Pins
    BY <1>1 DEF PinsTyped
  <2> QED
    BY <1>1, <1>2, <2>1 DEF PinsTyped
<1>5. state[f.pin] = "output" => out'[f.pin] = Pins!Level(f.value)
  BY <1>1, <1>3 DEF PinsTyped
<1>6. ASSUME NEW r \in Pins!Pins, r # f.pin PROVE out'[r] = out[r]
  BY <1>1, <1>6 DEF PinsTyped
<1>7. CASE ~online
  BY <1>1, <1>4, <1>7, PinsOffline
<1>8. CASE online
  <2>1. ASSUME NEW r \in Pins!Pins PROVE Head(toLpc) \notin ModeFrames(r)
    BY <1>1 DEF ModeFrames, IsReset, f
  <2>2. ASSUME NEW r \in Pins!Pins PROVE ModeKept(r)'
    <3>1. Kept(toLpc, ModeFrames(r), GoodMode(r), ModeNow(r))
      BY <1>8 DEF PinsInv, ModeKept
    <3>2. Kept(Tail(toLpc), ModeFrames(r), GoodMode(r), ModeNow(r))
      BY <1>1, <2>1, <3>1, KeptTail
    <3> QED
      BY <1>1, <3>2 DEF ModeKept, GoodMode, ModeNow
  <2>3. ASSUME NEW r \in Outputs, r # f.pin PROVE OutKept(r)'
    <3>1. r \in Pins!Pins /\ Head(toLpc) \notin OutFrames(r)
      BY <1>1, <2>3, PinsFacts DEF OutFrames, IsReset, f
    <3>2. out'[r] = out[r] /\ Head(toLpc) \notin ModeFrames(r)
      BY <1>6, <2>1, <2>3, <3>1
    <3> QED
      BY <1>1, <1>8, <2>3, <3>1, <3>2, FrameOfOthers
  <2>4. ASSUME NEW r \in Outputs, r = f.pin PROVE OutKept(r)'
    <3> DEFINE then == NoneIn(Tail(toLpc), OutFrames(r)) => OutNow(r)'
    <3>1. Kept(toLpc, OutFrames(r), GoodOut(r), OutNow(r))
      BY <1>8 DEF PinsInv, OutKept
    <3>2. f \in OutFrames(r)
      BY <1>1, <1>2, <2>4 DEF OutFrames
    <3>3. (Pins!Unwritten(r)' <=> Pins!Unwritten(r)) /\ Pins!Wanted(r)' = Pins!Wanted(r)
      BY <1>1 DEF Pins!Unwritten, Pins!Wanted, Pins!Level, Pins!DutyLevel
    <3>4. Driven(f) = Pins!Level(f.value)
      BY <1>1 DEF Driven, IsReset
    <3>5. ASSUME f \in GoodOut(r), NoneIn(Tail(toLpc), OutFrames(r)) PROVE OutNow(r)'
      <4>1. NoneIn(Tail(toLpc), ModeFrames(r))
        BY <3>5 DEF NoneIn, ModeFrames, OutFrames
      <4>2. ModeNow(r)'
        BY <1>1, <1>3, <2>2, <2>4, <4>1 DEF ModeKept, Kept
      <4>3. pinMode[r] = "output"
        BY <1>1, <3>5 DEF GoodOut
      <4>4. intact' => out'[r] = Driven(f)
        BY <1>1, <1>5, <2>4, <3>4, <4>2, <4>3 DEF ModeNow
      <4> QED
        BY <1>1, <3>3, <3>5, <4>4 DEF GoodOut, OutNow
    <3>6. /\ Head(toLpc) \in OutFrames(r) /\ Head(toLpc) \in GoodOut(r) => then
          /\ Head(toLpc) \notin OutFrames(r) /\ OutNow(r) => then
      BY <3>2, <3>5 DEF f
    <3> HIDE DEF then
    <3>7. Kept(Tail(toLpc), OutFrames(r), GoodOut(r), then)
      BY <1>1, <3>1, <3>6, KeptTail
    <3>8. GoodOut(r)' = GoodOut(r)
      BY <1>1, <3>3 DEF GoodOut
    <3> QED
      BY <1>1, <3>7, <3>8 DEF OutKept, Kept, then
  <2>5. ASSUME NEW r \in Inputs PROVE InputKept(r)'
    <3>1. Head(toLpc) \notin ModeFrames(r)
      BY <2>1, PinsFacts
    <3> QED
      BY <1>1, <1>8, <3>1, InputOfOthers
  <2> QED
    BY <1>4, <2>2, <2>3, <2>4, <2>5 DEF PinsInv
<1> QED
  BY <1>7, <1>8

\* A duty is driven, and a constant one makes its pin one of PWM, which it is.
LEMMA PinsPwm ==
  ASSUME PinsInv, Pins!LpcPwm
  PROVE  PinsInv'
<1> DEFINE f == Head(toLpc)
<1>1. /\ PinsTyped /\ toLpc \in Seq(PinFrames)
      /\ toLpc # <<>> /\ f.type = "pwmWrite" /\ toLpc' = Tail(toLpc)
      /\ IF f.duty = "part"
         THEN out' = [out EXCEPT ![f.pin] = "part"] /\ UNCHANGED <<state, lastValue>>
         ELSE Pins!Configure(f.pin, "pwm", f.duty = "full")
      /\ UNCHANGED <<online, pinMode, pinValue, pinStateReceived, pwmValue, toHost, level,
                     needsConfiguration, intact, first, missed, dutyWritten>>
  BY DEF PinsInv, PinsTyped, Pins!LpcPwm, Pins!FromHost, Pins!host
<1>2. Tail(toLpc) \in Seq(PinFrames) /\ f \in PinFrames
  BY <1>1, FrameTaken
<1> HIDE DEF f
<1>3. f.pin \in Outputs /\ f.pin \in Pins!Pins /\ f.duty \in {"off", "part", "full"}
  BY <1>1, <1>2, PinFrameParts, PinsFacts
<1>4. /\ lastValue' = lastValue
      /\ state' = IF f.duty = "part" THEN state ELSE [state EXCEPT ![f.pin] = "pwm"]
      /\ out' = [out EXCEPT ![f.pin] = Pins!DutyLevel(f.duty)]
  BY <1>1, <1>3 DEF Pins!Configure, Pins!InputModes, Pins!OutputModes, Pins!Level, Pins!DutyLevel
<1>5. PinsTyped'
  <2>1. DOMAIN out' = Pins!Pins /\ state' \in [Pins!Pins -> Pins!Modes]
    BY <1>1, <1>3, <1>4 DEF PinsTyped, Pins!Modes, Pins!OutputModes
  <2> QED
    BY <1>1, <1>2, <1>4, <2>1 DEF PinsTyped
<1>6. /\ out'[f.pin] = Pins!DutyLevel(f.duty)
      /\ state'[f.pin] = IF f.duty = "part" THEN state[f.pin] ELSE "pwm"
  BY <1>1, <1>3, <1>4 DEF PinsTyped
<1>7. ASSUME NEW r \in Pins!Pins, r # f.pin PROVE out'[r] = out[r] /\ state'[r] = state[r]
  BY <1>1, <1>4, <1>7 DEF PinsTyped
<1>8. CASE ~online
  BY <1>1, <1>5, <1>8, PinsOffline
<1>9. CASE online
  <2>1. ASSUME NEW r \in Pins!Pins, r # f.pin
        PROVE  Head(toLpc) \notin ModeFrames(r) /\ Head(toLpc) \notin OutFrames(r)
    BY <1>1, <2>1 DEF ModeFrames, OutFrames, IsReset, f
  <2>2. ASSUME NEW r \in Pins!Pins, r # f.pin PROVE ModeKept(r)' /\ (r \in Outputs => OutKept(r)')
    BY <1>1, <1>7, <1>9, <2>1, <2>2, FrameOfOthers
  <2>3. ASSUME NEW r \in Inputs PROVE InputKept(r)'
    <3>1. r \in Pins!Pins /\ r # f.pin
      BY <1>3, PinsFacts
    <3>2. Head(toLpc) \notin ModeFrames(r)
      BY <2>1, <3>1
    <3> QED
      BY <1>1, <1>4, <1>9, <3>2, InputOfOthers
  <2>4. ASSUME NEW r \in Outputs, r = f.pin PROVE ModeKept(r)'
    <3>1. Kept(toLpc, ModeFrames(r), GoodMode(r), ModeNow(r))
      BY <1>3, <1>9, <2>4 DEF PinsInv, ModeKept
    <3>2. f \in ModeFrames(r) <=> f.duty # "part"
      BY <1>1, <1>2, <2>4 DEF ModeFrames, IsReset
    <3>3. f \in GoodMode(r) => pinMode[r] = "pwm"
      BY <1>1 DEF GoodMode, IsReset
    <3>4. /\ f \in ModeFrames(r) /\ f \in GoodMode(r) => ModeNow(r)'
          /\ f \notin ModeFrames(r) /\ ModeNow(r) => ModeNow(r)'
      BY <1>1, <1>6, <2>4, <3>2, <3>3 DEF ModeNow
    <3>5. Kept(Tail(toLpc), ModeFrames(r), GoodMode(r), ModeNow(r)')
      <4>1. /\ Head(toLpc) \in ModeFrames(r) /\ Head(toLpc) \in GoodMode(r) => ModeNow(r)'
            /\ Head(toLpc) \notin ModeFrames(r) /\ ModeNow(r) => ModeNow(r)'
        BY <3>4 DEF f
      <4> QED
        BY <1>1, <3>1, <4>1, KeptTail
    <3>6. GoodMode(r)' = GoodMode(r)
      BY <1>1 DEF GoodMode
    <3> QED
      BY <1>1, <3>5, <3>6 DEF ModeKept, Kept
  <2>5. ASSUME NEW r \in Outputs, r = f.pin PROVE OutKept(r)'
    <3>1. Kept(toLpc, OutFrames(r), GoodOut(r), OutNow(r))
      BY <1>9 DEF PinsInv, OutKept
    <3>2. f \in OutFrames(r)
      BY <1>1, <1>2, <2>5 DEF OutFrames
    <3>3. (Pins!Unwritten(r)' <=> Pins!Unwritten(r)) /\ Pins!Wanted(r)' = Pins!Wanted(r)
      BY <1>1 DEF Pins!Unwritten, Pins!Wanted, Pins!Level, Pins!DutyLevel
    <3>4. Driven(f) = out'[r]
      BY <1>1, <1>6, <2>5 DEF Driven, IsReset
    <3>5. f \in GoodOut(r) => OutNow(r)'
      BY <3>3, <3>4 DEF GoodOut, OutNow
    <3>6. /\ Head(toLpc) \in OutFrames(r) /\ Head(toLpc) \in GoodOut(r) => OutNow(r)'
          /\ Head(toLpc) \notin OutFrames(r) /\ OutNow(r) => OutNow(r)'
      BY <3>2, <3>5 DEF f
    <3>7. Kept(Tail(toLpc), OutFrames(r), GoodOut(r), OutNow(r)')
      BY <1>1, <3>1, <3>6, KeptTail
    <3>8. GoodOut(r)' = GoodOut(r)
      BY <1>1, <3>3 DEF GoodOut
    <3> QED
      BY <1>1, <3>7, <3>8 DEF OutKept, Kept
  <2> QED
    <3>1. ASSUME NEW r \in Pins!Pins PROVE ModeKept(r)'
      BY <1>3, <2>2, <2>4
    <3>2. ASSUME NEW r \in Outputs PROVE OutKept(r)'
      BY <2>2, <2>5, PinsFacts
    <3> QED
      BY <1>5, <2>3, <3>1, <3>2 DEF PinsInv
<1> QED
  BY <1>8, <1>9

\* Poll reports what it then takes for reported.
LEMMA PinsPoll ==
  ASSUME PinsInv, NEW p \in Inputs, Pins!Poll(p)
  PROVE  PinsInv'
<1> DEFINE f == [type |-> "gpioState", pin |-> p, value |-> level[p]]
<1>1. /\ PinsTyped /\ toHost \in Seq(PinReports)
      /\ lastValue' = [lastValue EXCEPT ![p] = level[p]]
      /\ toHost' = Append(toHost, f)
      /\ first' = first \ {p} /\ missed' = missed \ {p}
      /\ UNCHANGED <<online, pinMode, pinValue, pinStateReceived, pwmValue, toLpc, level, state,
                     out, needsConfiguration, intact, dutyWritten>>
  BY DEF PinsInv, PinsTyped, Pins!Poll, Pins!host
<1>2. level[p] \in BOOLEAN /\ f \in PinReports /\ f.type = "gpioState" /\ f.pin = p /\ f.value = level[p]
  BY <1>1 DEF PinsTyped, PinReports
<1> HIDE DEF f
<1>3. Append(toHost, f) = toHost \o <<f>> /\ Append(toHost, f) \in Seq(PinReports)
  BY <1>1, <1>2
<1>4. PinsTyped'
  <2>1. lastValue' \in [Inputs -> BOOLEAN]
    BY <1>1, <1>2 DEF PinsTyped
  <2> QED
    BY <1>1, <1>3, <2>1 DEF PinsTyped
<1>5. CASE ~online
  BY <1>1, <1>4, <1>5, PinsOffline
<1>6. CASE online
  <2>1. ASSUME NEW r \in Pins!Pins PROVE ModeKept(r)' /\ (r \in Outputs => OutKept(r)')
    BY <1>1, <1>6, <2>1, QueueUntouched
  <2>2. ASSUME NEW r \in Inputs, r # p PROVE InputKept(r)'
    <3>1. lastValue'[r] = lastValue[r]
      BY <1>1, <2>2 DEF PinsTyped
    <3>2. f \notin ReportsOf(r)
      BY <1>2, <2>2 DEF ReportsOf
    <3>3. Kept(toHost, ReportsOf(r), GoodReport(r), ReportNow(r))
            => Kept(toHost', ReportsOf(r), GoodReport(r), ReportNow(r))
      BY <1>1, <1>2, <1>3, <3>2, KeptPastOne
    <3>4. UNCHANGED <<r \in first, r \in missed>>
      BY <1>1, <2>2
    <3> QED
      BY <1>1, <1>6, <3>1, <3>3, <3>4, InputUntouched
  <2>3. InputKept(p)'
    <3>1. lastValue'[p] = level[p] /\ p \notin first'
      BY <1>1 DEF PinsTyped
    <3>2. f \in ReportsOf(p) /\ f \in GoodReport(p)'
      BY <1>2, <3>1 DEF ReportsOf, GoodReport
    <3>3. Kept(toHost \o <<f>>, ReportsOf(p), GoodReport(p)', ReportNow(p)')
      BY <1>1, <1>2, <3>2, KeptByOne
    <3> QED
      BY <1>1, <1>3, <3>1, <3>3 DEF InputKept, Kept
  <2> QED
    BY <1>4, <2>1, <2>2, <2>3, PinsFacts DEF PinsInv
<1> QED
  BY <1>5, <1>6

\* The level of an input changes, which a first report misses.
LEMMA PinsChange ==
  ASSUME PinsInv, NEW p \in Inputs, Pins!Change(p)
  PROVE  PinsInv'
<1>1. /\ PinsTyped
      /\ level' = [level EXCEPT ![p] = ~level[p]]
      /\ missed' = IF p \in first THEN missed \cup {p} ELSE missed
      /\ UNCHANGED <<online, pinMode, pinValue, pinStateReceived, pwmValue, toLpc, toHost, state,
                     lastValue, out, needsConfiguration, intact, first, dutyWritten>>
  BY DEF PinsInv, Pins!Change, Pins!host, Pins!lpc
<1>2. PinsTyped'
  <2>1. level' \in [Inputs -> BOOLEAN]
    BY <1>1 DEF PinsTyped
  <2> QED
    BY <1>1, <2>1 DEF PinsTyped
<1>3. CASE ~online
  BY <1>1, <1>2, <1>3, PinsOffline
<1>4. CASE online
  <2>1. ASSUME NEW r \in Pins!Pins PROVE ModeKept(r)' /\ (r \in Outputs => OutKept(r)')
    BY <1>1, <1>4, <2>1, QueueUntouched
  <2>2. ASSUME NEW r \in Inputs PROVE InputKept(r)'
    <3>1. r \in first => level'[r] = level[r] \/ r \in missed'
      BY <1>1 DEF PinsTyped
    <3>2. r \notin missed' => r \notin missed
      BY <1>1
    <3> QED
      BY <1>1, <1>4, <3>1, <3>2, InputUntouched
  <2> QED
    BY <1>2, <2>1, <2>2, PinsFacts DEF PinsInv
<1> QED
  BY <1>3, <1>4

\* What is lost on the way to the coprocessor leaves it behind until it is reset.
LEMMA PinsLoseToLpc ==
  ASSUME PinsInv, Pins!LoseToLpc
  PROVE  PinsInv'
<1>1. /\ PinsTyped /\ toLpc \in Seq(PinFrames)
      /\ toLpc # <<>> /\ toLpc' = Tail(toLpc)
      /\ intact' = (intact /\ Head(toLpc).type = "ping")
      /\ UNCHANGED <<online, pinMode, pinValue, pinStateReceived, pwmValue, toHost, state,
                     lastValue, out, level, needsConfiguration, first, missed, dutyWritten>>
  BY DEF PinsInv, PinsTyped, Pins!LoseToLpc, Pins!Loss, Pins!host, Pins!lpc
<1>2. Tail(toLpc) \in Seq(PinFrames)
  BY <1>1, FrameTaken
<1>3. PinsTyped'
  BY <1>1, <1>2 DEF PinsTyped
<1>4. CASE ~online
  BY <1>1, <1>3, <1>4, PinsOffline
<1>5. CASE online /\ Head(toLpc).type = "ping"
  <2>1. intact' = intact
    BY <1>1, <1>5 DEF PinsTyped
  <2>2. ASSUME NEW r \in Pins!Pins
        PROVE  Head(toLpc) \notin ModeFrames(r) /\ Head(toLpc) \notin OutFrames(r)
    BY <1>5 DEF ModeFrames, OutFrames, IsReset
  <2>3. ASSUME NEW r \in Pins!Pins PROVE ModeKept(r)' /\ (r \in Outputs => OutKept(r)')
    BY <1>1, <1>5, <2>1, <2>2, FrameOfOthers
  <2>4. ASSUME NEW r \in Inputs PROVE InputKept(r)'
    <3>1. Head(toLpc) \notin ModeFrames(r)
      BY <2>2, PinsFacts
    <3> QED
      BY <1>1, <1>5, <2>1, <3>1, InputOfOthers
  <2> QED
    BY <1>3, <2>3, <2>4, PinsFacts DEF PinsInv
<1>6. CASE online /\ Head(toLpc).type # "ping"
  <2>1. intact' = FALSE
    BY <1>1, <1>6
  <2>2. ASSUME NEW r \in Pins!Pins PROVE ModeKept(r)'
    <3>1. Kept(toLpc, ModeFrames(r), GoodMode(r), ModeNow(r))
      BY <1>6 DEF PinsInv, ModeKept
    <3>2. ModeNow(r)'
      BY <2>1 DEF ModeNow
    <3>3. Kept(Tail(toLpc), ModeFrames(r), GoodMode(r), ModeNow(r)')
      BY <1>1, <3>1, <3>2, KeptTail
    <3>4. GoodMode(r)' = GoodMode(r)
      BY <1>1 DEF GoodMode
    <3> QED
      BY <1>1, <3>3, <3>4 DEF ModeKept, Kept
  <2>3. ASSUME NEW r \in Outputs PROVE OutKept(r)'
    <3>1. Kept(toLpc, OutFrames(r), GoodOut(r), OutNow(r))
      BY <1>6 DEF PinsInv, OutKept
    <3>2. OutNow(r)'
      BY <2>1 DEF OutNow
    <3>3. Kept(Tail(toLpc), OutFrames(r), GoodOut(r), OutNow(r)')
      BY <1>1, <3>1, <3>2, KeptTail
    <3>4. (Pins!Unwritten(r)' <=> Pins!Unwritten(r)) /\ Pins!Wanted(r)' = Pins!Wanted(r)
      BY <1>1 DEF Pins!Unwritten, Pins!Wanted, Pins!Level, Pins!DutyLevel
    <3>5. GoodOut(r)' = GoodOut(r)
      BY <1>1, <3>4 DEF GoodOut
    <3> QED
      BY <1>1, <3>3, <3>5 DEF OutKept, Kept
  <2>4. ASSUME NEW r \in Inputs PROVE InputKept(r)'
    BY <2>1 DEF InputKept, Settling
  <2> QED
    BY <1>3, <2>2, <2>3, <2>4 DEF PinsInv
<1> QED
  BY <1>4, <1>5, <1>6

\* A lost report is missed.
LEMMA PinsLoseToHost ==
  ASSUME PinsInv, Pins!LoseToHost
  PROVE  PinsInv'
<1>1. /\ PinsTyped /\ toHost \in Seq(PinReports)
      /\ toHost # <<>> /\ toHost' = Tail(toHost)
      /\ missed' = IF Head(toHost).type = "gpioState" THEN missed \cup {Head(toHost).pin} ELSE missed
      /\ UNCHANGED <<online, pinMode, pinValue, pinStateReceived, pwmValue, toLpc, state,
                     lastValue, out, level, needsConfiguration, intact, first, dutyWritten>>
  BY DEF PinsInv, PinsTyped, Pins!LoseToHost, Pins!Loss, Pins!host, Pins!lpc
<1>2. Tail(toHost) \in Seq(PinReports)
  BY <1>1, FrameTaken
<1>3. PinsTyped'
  BY <1>1, <1>2 DEF PinsTyped
<1>4. CASE ~online
  BY <1>1, <1>3, <1>4, PinsOffline
<1>5. CASE online
  <2>1. ASSUME NEW r \in Pins!Pins PROVE ModeKept(r)' /\ (r \in Outputs => OutKept(r)')
    BY <1>1, <1>5, <2>1, QueueUntouched
  <2>2. ASSUME NEW r \in Inputs PROVE InputKept(r)'
    <3>1. r \notin missed' => r \notin missed /\ Head(toHost) \notin ReportsOf(r)
      BY <1>1 DEF ReportsOf
    <3>2. r \notin missed' /\ Kept(toHost, ReportsOf(r), GoodReport(r), ReportNow(r))
            => Kept(Tail(toHost), ReportsOf(r), GoodReport(r), ReportNow(r))
      BY <1>1, <3>1, KeptTail
    <3> QED
      BY <1>1, <1>5, <3>1, <3>2, InputUntouched
  <2> QED
    BY <1>3, <2>1, <2>2, PinsFacts DEF PinsInv
<1> QED
  BY <1>4, <1>5

\* A coprocessor that starts again is not intact until it is reset.
LEMMA PinsReboot ==
  ASSUME PinsInv, Pins!LpcReboot
  PROVE  PinsInv'
<1>1. /\ PinsTyped /\ intact' = FALSE /\ needsConfiguration' = TRUE
      /\ state' = [p \in Pins!Pins |-> "disabled"] /\ out' = [p \in Pins!Pins |-> "float"]
      /\ lastValue' = [p \in Inputs |-> FALSE]
      /\ UNCHANGED <<online, pinMode, pinValue, pinStateReceived, pwmValue, toLpc, toHost, level,
                     first, missed, dutyWritten>>
  BY DEF PinsInv, Pins!LpcReboot, Pins!host
<1>2. PinsTyped'
  <2>1. state' \in [Pins!Pins -> Pins!Modes] /\ lastValue' \in [Inputs -> BOOLEAN]
        /\ DOMAIN out' = Pins!Pins
    BY <1>1 DEF Pins!Modes
  <2> QED
    BY <1>1, <2>1 DEF PinsTyped
<1>3. CASE ~online
  BY <1>1, <1>2, <1>3, PinsOffline
<1>4. CASE online
  <2>1. ASSUME NEW r \in Pins!Pins PROVE ModeKept(r)'
    <3>1. Kept(toLpc, ModeFrames(r), GoodMode(r), ModeNow(r))
      BY <1>4 DEF PinsInv, ModeKept
    <3>2. ModeNow(r)' /\ GoodMode(r)' = GoodMode(r)
      BY <1>1 DEF ModeNow, GoodMode
    <3> QED
      BY <1>1, <3>1, <3>2 DEF ModeKept, Kept
  <2>2. ASSUME NEW r \in Outputs PROVE OutKept(r)'
    <3>1. Kept(toLpc, OutFrames(r), GoodOut(r), OutNow(r))
      BY <1>4 DEF PinsInv, OutKept
    <3>2. (Pins!Unwritten(r)' <=> Pins!Unwritten(r)) /\ Pins!Wanted(r)' = Pins!Wanted(r)
      BY <1>1 DEF Pins!Unwritten, Pins!Wanted, Pins!Level, Pins!DutyLevel
    <3>3. OutNow(r)' /\ GoodOut(r)' = GoodOut(r)
      BY <1>1, <3>2 DEF OutNow, GoodOut
    <3> QED
      BY <1>1, <3>1, <3>3 DEF OutKept, Kept
  <2>3. ASSUME NEW r \in Inputs PROVE InputKept(r)'
    BY <1>1 DEF InputKept, Settling
  <2> QED
    BY <1>2, <2>1, <2>2, <2>3 DEF PinsInv
<1> QED
  BY <1>3, <1>4

\* Every step of the host, of the coprocessor and of what happens to them.
LEMMA PinsStep ==
  ASSUME PinsInv, Pins!Next
  PROVE  PinsInv'
<1>1. CASE Pins!Device
  BY <1>1, PinsSetInput, PinsSetOutput, PinsWritePin, PinsWritePwm DEF Pins!Device
<1>2. CASE Pins!Link
  BY <1>2, PinsSendPing, PinsPong, PinsReported DEF Pins!Link
<1>3. CASE Pins!Lpc
  BY <1>3, PinsPing, PinsReset, PinsComplete, PinsConfig, PinsWrite, PinsPwm DEF Pins!Lpc
<1>4. CASE Pins!PollInputs
  BY <1>4, PinsPoll DEF Pins!PollInputs
<1>5. CASE Pins!Environment
  BY <1>5, PinsTimeout, PinsChange, PinsLoseToLpc, PinsLoseToHost, PinsReboot DEF Pins!Environment
<1> QED
  BY <1>1, <1>2, <1>3, <1>4, <1>5 DEF Pins!Next

\* The invariant of the pins is about their own variables only.
LEMMA PinsStutter ==
  ASSUME PinsInv, UNCHANGED pinsVars
  PROVE  PinsInv'
<1>1. /\ PinsTyped
      /\ UNCHANGED <<online, pinMode, pinValue, pinStateReceived, pwmValue, toLpc, toHost,
                     needsConfiguration, state, lastValue, out, level, intact, first, missed,
                     dutyWritten>>
  BY DEF PinsInv, pinsVars
<1>2. PinsTyped'
  BY <1>1 DEF PinsTyped
<1>3. CASE ~online
  BY <1>1, <1>2, <1>3, PinsOffline
<1>4. CASE online
  <2>1. ASSUME NEW r \in Pins!Pins PROVE ModeKept(r)' /\ (r \in Outputs => OutKept(r)')
    BY <1>1, <1>4, <2>1, QueueUntouched
  <2>2. ASSUME NEW r \in Inputs PROVE InputKept(r)'
    BY <1>1, <1>4, InputUntouched
  <2> QED
    BY <1>2, <2>1, <2>2, PinsFacts DEF PinsInv
<1> QED
  BY <1>3, <1>4

\* With nothing under way the pins are as the invariant says the last frames make them.
LEMMA PinsSound == PinsInv => PinsFollow
<1> SUFFICES ASSUME PinsInv, Pins!Settled PROVE Pins!OutputsFollow /\ Pins!InputsFollow
  BY DEF PinsFollow, Pins!OutputsFollow, Pins!InputsFollow
<1>1. online /\ intact /\ toLpc = <<>> /\ PinsTyped
  BY DEF Pins!Settled, PinsInv
<1>2. \A S : NoneIn(toLpc, S)
  BY <1>1 DEF NoneIn
<1>3. ASSUME NEW p \in Outputs PROVE Pins!Unwritten(p) \/ out[p] = Pins!Wanted(p)
  <2>1. OutKept(p)
    BY <1>1 DEF PinsInv
  <2>2. OutNow(p)
    BY <1>2, <2>1 DEF OutKept, Kept
  <2> QED
    BY <1>1, <2>2 DEF OutNow
<1>4. ASSUME toHost = <<>>, NEW p \in Inputs, pinMode[p] \in Pins!InputModes,
             level[p] = lastValue[p], p \notin missed
      PROVE  pinStateReceived[p] /\ pinValue[p] = level[p]
  <2>1. Settling(p)
    BY <1>1, <1>2, <1>4 DEF Settling
  <2>2. InputKept(p)
    BY <1>1 DEF PinsInv
  <2>3. Kept(toHost, ReportsOf(p), GoodReport(p), ReportNow(p))
    BY <1>4, <2>1, <2>2 DEF InputKept
  <2>4. NoneIn(toHost, ReportsOf(p))
    BY <1>4 DEF NoneIn
  <2>5. ReportNow(p)
    BY <2>3, <2>4 DEF Kept
  <2> QED
    BY <1>4, <2>5 DEF ReportNow
<1> QED
  BY <1>3, <1>4 DEF Pins!OutputsFollow, Pins!InputsFollow

\* LpcInterface.cpp, Gpio.cpp and Pwm.cpp: through losses, time-outs, reboots and
\* replays, a coprocessor that has missed nothing since its reset drives every
\* output as the host last asked, and the host has read of every input what the
\* coprocessor takes for reported, unless the report of it was missed; for any
\* number of pins, of calls and of frames under way.
THEOREM PinsAreFollowed == Spec => []PinsFollow
<1>1. Init => PinsInv
  BY PinsStart DEF Init
<1>2. PinsInv /\ [Next]_vars => PinsInv'
  <2> SUFFICES ASSUME PinsInv, [Next]_vars PROVE PinsInv'
    OBVIOUS
  <2>1. Pins!Next \/ UNCHANGED pinsVars
    BY DEF Next, Others, vars
  <2> QED
    BY <2>1, PinsStep, PinsStutter
<1>3. PinsInv => PinsFollow
  BY PinsSound
<1> QED
  BY <1>1, <1>2, <1>3, PTL DEF Spec

-----------------------------------------------------------------------------
(* The transmit mutex.                                                     *)

\* The calls by name, and at which of their instructions they do what.
CallNames == {"one", "several", "update"}
Body(c) ==
  CASE c = "one" -> Mutex!OneFrame [] c = "several" -> Mutex!SeveralFrames [] OTHER -> Mutex!Update
Size(c) == IF c = "one" THEN 5 ELSE 17
TakeAt(c) ==
  CASE c = "one" -> {1} [] c = "several" -> {1, 2, 7, 12} [] OTHER -> {1, 2, 10, 12}
GiveAt(c) ==
  CASE c = "one" -> {5} [] c = "several" -> {6, 11, 16, 17} [] OTHER -> {6, 8, 16, 17}
TestAt(c) == CASE c = "one" -> {2} [] c = "several" -> {3, 8, 13} [] OTHER -> {3, 13}
PutAt(c) ==
  CASE c = "one" -> {3, 4} [] c = "several" -> {4, 5, 9, 10, 14, 15} [] OTHER -> {4, 5, 9, 14, 15}
FirstAt(c) == IF c = "one" THEN 3 ELSE 4
LastAt(c) == IF c = "one" THEN 4 ELSE 15
ActivateAt(c) == IF c = "update" THEN {7} ELSE {}
DeactivateAt(c) == IF c = "update" THEN {11} ELSE {}

\* How often the mutex is held by a call that has come to instruction k.
HeldAt(c, k) ==
  CASE c = "one" -> IF k \in 2 .. 5 THEN 1 ELSE 0
    [] c = "several" ->
         CASE k \in {2, 7, 12, 17} -> 1
           [] k \in (3 .. 6) \cup (8 .. 11) \cup (13 .. 16) -> 2
           [] OTHER -> 0
    [] OTHER ->
         CASE k \in {2, 7, 8, 11, 12, 17} -> 1
           [] k \in (3 .. 6) \cup (13 .. 16) -> 2
           [] OTHER -> 0

\* Between its first piece and its last a call has the line.
MidAt(c, k) ==
  \/ c = "one" /\ k = 4
  \/ c = "several" /\ ~firmwareUpdateActive /\ k \in 5 .. 15
  \/ c = "update" /\ k \in 5 .. 15

Rest(c, k) == SubSeq(Body(c), k, Size(c))

\* A task that has come to instruction k of call c, and what that says of the
\* mutex, of the update and of the line.
AtTask(t, c, k) ==
  /\ script[t] = Rest(c, k)
  /\ owner = t <=> HeldAt(c, k) > 0
  /\ owner = t => depth = HeldAt(c, k)
  /\ c # "update" /\ k \in PutAt(c) => ~firmwareUpdateActive
  /\ MidAt(c, k) <=> lastPiece.by = t /\ ~lastPiece.last

At(c, k) ==
  /\ \A t \in Mutex!Tasks : k[t] \in 1 .. Size(c[t]) + 1 /\ AtTask(t, c[t], k[t])
  /\ c[Heat] # "update"
  /\ firmwareUpdateActive <=> c[Main] = "update" /\ k[Main] \in 8 .. 11

MutexTyped ==
  /\ DOMAIN script = Mutex!Tasks
  /\ owner \in Mutex!Tasks \cup {Mutex!Nobody}
  /\ owner = Mutex!Nobody => depth = 0
  /\ firmwareUpdateActive \in BOOLEAN /\ outcome = "none"
  /\ lastPiece \in [by : Mutex!Tasks \cup {Mutex!Nobody}, first : BOOLEAN, last : BOOLEAN]
  /\ lastPiece.by = Mutex!Nobody => lastPiece.last

MutexInv ==
  /\ MutexTyped
  /\ \E c \in [Mutex!Tasks -> CallNames], k \in [Mutex!Tasks -> 1 .. 18] : At(c, k)


\* What an instruction is.
Instructions ==
  [op : {"take", "give", "test", "activate", "deactivate"}]
  \cup [op : {"put"}, first : BOOLEAN, last : BOOLEAN]

\* Two scripts one after the other.
LEMMA Joined ==
  ASSUME NEW q \in Seq(Instructions), NEW r \in Seq(Instructions)
  PROVE  /\ q \o r \in Seq(Instructions) /\ Len(q \o r) = Len(q) + Len(r)
         /\ \A i \in 1 .. Len(q) : (q \o r)[i] = q[i]
         /\ \A i \in 1 .. Len(r) : (q \o r)[Len(q) + i] = r[i]
BY ConcatProperties, LenProperties

\* A script between two instructions.
IsEnclosed(s, q, a, b) ==
  /\ s \in Seq(Instructions) /\ Len(s) = Len(q) + 2
  /\ s[1] = a[1] /\ s[Len(q) + 2] = b[1]
  /\ \A i \in 1 .. Len(q) : s[1 + i] = q[i]

LEMMA Enclosed ==
  ASSUME NEW q \in Seq(Instructions), NEW a \in Seq(Instructions), NEW b \in Seq(Instructions),
         Len(a) = 1, Len(b) = 1
  PROVE  IsEnclosed(a \o q \o b, q, a, b)
<1> DEFINE v == a \o q
           s == v \o b
<1>1. Len(q) \in Nat
  BY LenProperties
<1>2. /\ v \in Seq(Instructions) /\ Len(v) = Len(a) + Len(q)
      /\ \A i \in 1 .. Len(a) : v[i] = a[i]
      /\ \A i \in 1 .. Len(q) : v[Len(a) + i] = q[i]
  BY Joined
<1> HIDE DEF v
<1>3. /\ s \in Seq(Instructions) /\ Len(s) = Len(v) + Len(b)
      /\ \A i \in 1 .. Len(v) : s[i] = v[i]
      /\ \A i \in 1 .. Len(b) : s[Len(v) + i] = b[i]
  BY <1>2, Joined
<1> HIDE DEF s
<1>4. Len(v) = Len(q) + 1 /\ Len(s) = Len(q) + 2
  BY <1>1, <1>2, <1>3
<1>5. s[1] = a[1]
  <2>1. 1 \in 1 .. Len(v) /\ 1 \in 1 .. Len(a)
    BY <1>1, <1>4
  <2> QED
    BY <1>2, <1>3, <2>1
<1>6. s[Len(q) + 2] = b[1]
  <2>1. 1 \in 1 .. Len(b) /\ Len(v) + 1 = Len(q) + 2
    BY <1>1, <1>4
  <2>2. s[Len(v) + 1] = b[1]
    BY <1>3, <2>1
  <2> QED
    BY <2>1, <2>2
<1>7. ASSUME NEW i \in 1 .. Len(q) PROVE s[1 + i] = q[i]
  <2>1. 1 + i \in 1 .. Len(v)
    BY <1>1, <1>4
  <2>2. v[1 + i] = q[i]
    BY <1>2
  <2> QED
    BY <1>3, <2>1, <2>2
<1> QED
  <2>1. IsEnclosed(s, q, a, b)
    BY <1>3, <1>4, <1>5, <1>6, <1>7, Zenon DEF IsEnclosed
  <2> QED
    BY <2>1, Zenon DEF s, v

\* One instruction, and two.
LEMMA OneOrTwo ==
  ASSUME NEW a \in Instructions, NEW b \in Instructions
  PROVE  /\ <<a>> \in Seq(Instructions) /\ Len(<<a>>) = 1 /\ <<a>>[1] = a
         /\ <<a>> \o <<b>> \in Seq(Instructions) /\ Len(<<a>> \o <<b>>) = 2
         /\ (<<a>> \o <<b>>)[1] = a /\ (<<a>> \o <<b>>)[2] = b
OBVIOUS

\* Two instructions, two more and a last one.
LEMMA FiveParts ==
  ASSUME NEW q \in Seq(Instructions), NEW r \in Seq(Instructions), NEW x \in Seq(Instructions),
         Len(q) = 2, Len(r) = 2, Len(x) = 1
  PROVE  /\ q \o r \o x \in Seq(Instructions) /\ Len(q \o r \o x) = 5
         /\ (q \o r \o x)[1] = q[1] /\ (q \o r \o x)[2] = q[2]
         /\ (q \o r \o x)[3] = r[1] /\ (q \o r \o x)[4] = r[2] /\ (q \o r \o x)[5] = x[1]
<1> DEFINE u == q \o r
           s == u \o x
<1>1. /\ u \in Seq(Instructions) /\ Len(u) = Len(q) + Len(r)
      /\ \A i \in 1 .. Len(q) : u[i] = q[i]
      /\ \A i \in 1 .. Len(r) : u[Len(q) + i] = r[i]
  BY Joined
<1> HIDE DEF u
<1>2. Len(u) = 4 /\ u[1] = q[1] /\ u[2] = q[2] /\ u[3] = r[1] /\ u[4] = r[2]
  <2>1. u[Len(q) + 1] = r[1] /\ u[Len(q) + 2] = r[2]
    BY <1>1
  <2>2. Len(q) + 1 = 3 /\ Len(q) + 2 = 4
    OBVIOUS
  <2> QED
    BY <1>1, <2>1, <2>2
<1>3. /\ s \in Seq(Instructions) /\ Len(s) = Len(u) + Len(x)
      /\ \A i \in 1 .. Len(u) : s[i] = u[i]
      /\ \A i \in 1 .. Len(x) : s[Len(u) + i] = x[i]
  BY <1>1, Joined
<1> HIDE DEF s
<1>4. s[5] = x[1]
  <2>1. s[Len(u) + 1] = x[1]
    BY <1>3
  <2>2. Len(u) + 1 = 5
    BY <1>2
  <2> QED
    BY <2>1, <2>2
<1>5. Len(s) = 5 /\ s[1] = u[1] /\ s[2] = u[2] /\ s[3] = u[3] /\ s[4] = u[4]
  BY <1>2, <1>3
<1> QED
  BY <1>2, <1>3, <1>4, <1>5 DEF s, u

\* Send takes the mutex, tests for an update, puts the frame and gives the mutex.
LEMMA SendParts ==
  ASSUME NEW a \in BOOLEAN, NEW b \in BOOLEAN
  PROVE  /\ Mutex!Send(a, b) \in Seq(Instructions) /\ Len(Mutex!Send(a, b)) = 5
         /\ Mutex!Send(a, b)[1] = [op |-> "take"] /\ Mutex!Send(a, b)[2] = [op |-> "test"]
         /\ Mutex!Send(a, b)[3] = [op |-> "put", first |-> a, last |-> FALSE]
         /\ Mutex!Send(a, b)[4] = [op |-> "put", first |-> FALSE, last |-> b]
         /\ Mutex!Send(a, b)[5] = [op |-> "give"]
<1> DEFINE take == [op |-> "take"]
           test == [op |-> "test"]
           give == [op |-> "give"]
           p == [op |-> "put", first |-> a, last |-> FALSE]
           s == [op |-> "put", first |-> FALSE, last |-> b]
           q == <<take>> \o <<test>>
           r == <<p>> \o <<s>>
           x == <<give>>
<1>1. Mutex!Send(a, b) = q \o r \o x
  BY DEF Mutex!Send, Mutex!Frame, Mutex!Put, Mutex!Take, Mutex!Test, Mutex!Give
<1>2. take \in Instructions /\ test \in Instructions /\ p \in Instructions
      /\ s \in Instructions /\ give \in Instructions
  BY DEF Instructions
<1> HIDE DEF take, test, give, p, s
<1>3. /\ q \in Seq(Instructions) /\ Len(q) = 2 /\ q[1] = take /\ q[2] = test
      /\ r \in Seq(Instructions) /\ Len(r) = 2 /\ r[1] = p /\ r[2] = s
      /\ x \in Seq(Instructions) /\ Len(x) = 1 /\ x[1] = give
  BY <1>2, OneOrTwo
<1> HIDE DEF q, r, x
<1>4. /\ q \o r \o x \in Seq(Instructions) /\ Len(q \o r \o x) = 5
      /\ (q \o r \o x)[1] = q[1] /\ (q \o r \o x)[2] = q[2]
      /\ (q \o r \o x)[3] = r[1] /\ (q \o r \o x)[4] = r[2] /\ (q \o r \o x)[5] = x[1]
  BY <1>3, FiveParts
<1> QED
  BY <1>1, <1>3, <1>4 DEF take, test, give, p, s

\* Three scripts of five instructions.
AreInTurn(s, q, r, u) ==
  /\ s \in Seq(Instructions) /\ Len(s) = 15
  /\ \A i \in 1 .. 5 : s[i] = q[i] /\ s[5 + i] = r[i] /\ s[10 + i] = u[i]

LEMMA ThreeFives ==
  ASSUME NEW q \in Seq(Instructions), NEW r \in Seq(Instructions), NEW u \in Seq(Instructions),
         Len(q) = 5, Len(r) = 5, Len(u) = 5
  PROVE  AreInTurn(q \o r \o u, q, r, u)
<1> DEFINE v == q \o r
           w == v \o u
<1>1. /\ v \in Seq(Instructions) /\ Len(v) = Len(q) + Len(r)
      /\ \A i \in 1 .. Len(q) : v[i] = q[i]
      /\ \A i \in 1 .. Len(r) : v[Len(q) + i] = r[i]
  BY Joined
<1> HIDE DEF v
<1>2. Len(v) = 10
  BY <1>1
<1>3. /\ w \in Seq(Instructions) /\ Len(w) = Len(v) + Len(u)
      /\ \A i \in 1 .. Len(v) : w[i] = v[i]
      /\ \A i \in 1 .. Len(u) : w[Len(v) + i] = u[i]
  BY <1>1, Joined
<1> HIDE DEF w
<1>4. Len(w) = 15
  BY <1>2, <1>3
<1>5. ASSUME NEW i \in 1 .. 5 PROVE w[i] = q[i] /\ w[5 + i] = r[i] /\ w[10 + i] = u[i]
  <2>1. /\ i \in 1 .. Len(q) /\ i \in 1 .. Len(r) /\ i \in 1 .. Len(u)
        /\ i \in 1 .. Len(v) /\ 5 + i \in 1 .. Len(v) /\ Len(q) + i = 5 + i /\ Len(v) + i = 10 + i
    BY <1>2
  <2>2. v[i] = q[i] /\ v[Len(q) + i] = r[i] /\ w[Len(v) + i] = u[i]
    BY <1>1, <1>3, <2>1
  <2>3. w[i] = v[i] /\ w[5 + i] = v[5 + i]
    BY <1>3, <2>1
  <2> QED
    BY <2>1, <2>2, <2>3
<1>6. AreInTurn(w, q, r, u)
  BY <1>3, <1>4, <1>5, Zenon DEF AreInTurn
<1> QED
  BY <1>6, Zenon DEF v, w

\* The instructions of the call that sends several frames.
LEMMA SeveralParts ==
  /\ Mutex!SeveralFrames \in Seq(Instructions) /\ Len(Mutex!SeveralFrames) = 17
  /\ Mutex!SeveralFrames[1] = [op |-> "take"] /\ Mutex!SeveralFrames[17] = [op |-> "give"]
  /\ \A i \in 1 .. 5 : /\ Mutex!SeveralFrames[1 + i] = Mutex!Send(TRUE, FALSE)[i]
                       /\ Mutex!SeveralFrames[6 + i] = Mutex!Send(FALSE, FALSE)[i]
                       /\ Mutex!SeveralFrames[11 + i] = Mutex!Send(FALSE, TRUE)[i]
<1> DEFINE q == Mutex!Send(TRUE, FALSE)
           r == Mutex!Send(FALSE, FALSE)
           u == Mutex!Send(FALSE, TRUE)
           take == [op |-> "take"]
           give == [op |-> "give"]
           a == <<take>>
           b == <<give>>
           w == q \o r \o u
           s == a \o w \o b
<1>1. Mutex!SeveralFrames = s
  BY DEF Mutex!SeveralFrames, Mutex!Guarded, Mutex!Take, Mutex!Give
<1>2. take \in Instructions /\ give \in Instructions
  BY DEF Instructions
<1> HIDE DEF take, give
<1>3. /\ a \in Seq(Instructions) /\ Len(a) = 1 /\ a[1] = take
      /\ b \in Seq(Instructions) /\ Len(b) = 1 /\ b[1] = give
  BY <1>2, OneOrTwo
<1> HIDE DEF a, b
<1>4. /\ q \in Seq(Instructions) /\ Len(q) = 5 /\ r \in Seq(Instructions) /\ Len(r) = 5
      /\ u \in Seq(Instructions) /\ Len(u) = 5
  BY SendParts
<1> HIDE DEF q, r, u
<1>5. /\ w \in Seq(Instructions) /\ Len(w) = 15
      /\ \A i \in 1 .. 5 : w[i] = q[i] /\ w[5 + i] = r[i] /\ w[10 + i] = u[i]
  <2>1. AreInTurn(q \o r \o u, q, r, u)
    BY <1>4, ThreeFives
  <2> QED
    BY <2>1, Zenon DEF w, AreInTurn
<1> HIDE DEF w
<1>6. /\ s \in Seq(Instructions) /\ Len(s) = Len(w) + 2 /\ s[1] = a[1] /\ s[Len(w) + 2] = b[1]
      /\ \A i \in 1 .. Len(w) : s[1 + i] = w[i]
  <2>1. a \in Seq(Instructions) /\ b \in Seq(Instructions) /\ Len(a) = 1 /\ Len(b) = 1
    BY <1>3
  <2>2. w \in Seq(Instructions)
    BY <1>5
  <2>3. IsEnclosed(a \o w \o b, w, a, b)
    BY <2>1, <2>2, Enclosed
  <2> QED
    BY <2>3, Zenon DEF s, IsEnclosed
<1> HIDE DEF s
<1>7. ASSUME NEW i \in 1 .. 5 PROVE s[1 + i] = q[i] /\ s[6 + i] = r[i] /\ s[11 + i] = u[i]
  <2>1. i \in 1 .. Len(w) /\ 5 + i \in 1 .. Len(w) /\ 10 + i \in 1 .. Len(w)
        /\ 1 + (5 + i) = 6 + i /\ 1 + (10 + i) = 11 + i
    BY <1>5
  <2>2. s[1 + i] = w[i] /\ s[1 + (5 + i)] = w[5 + i] /\ s[1 + (10 + i)] = w[10 + i]
    BY <1>6, <2>1
  <2> QED
    BY <1>5, <2>1, <2>2
<1>8. Len(s) = 17 /\ s[1] = take /\ s[17] = give
  <2>1. Len(w) + 2 = 17
    BY <1>5
  <2> QED
    BY <1>3, <1>6, <2>1
<1> QED
  BY <1>1, <1>6, <1>7, <1>8 DEF q, r, u, take, give

\* The two halves of an update.
LEMMA PrepareParts ==
  LET s == Mutex!PrepareForFirmwareUpdate
  IN  /\ s \in Seq(Instructions) /\ Len(s) = 8
      /\ s[1] = [op |-> "take"] /\ s[7] = [op |-> "activate"] /\ s[8] = [op |-> "give"]
      /\ \A i \in 1 .. 5 : s[1 + i] = Mutex!Send(TRUE, FALSE)[i]
<1> DEFINE take == [op |-> "take"]
           give == [op |-> "give"]
           act == [op |-> "activate"]
           a == <<take>>
           b == <<give>>
           q == Mutex!Send(TRUE, FALSE)
           x == <<act>>
           w == q \o x
           s == a \o w \o b
<1>1. Mutex!PrepareForFirmwareUpdate = s
  BY DEF Mutex!PrepareForFirmwareUpdate, Mutex!Guarded, Mutex!Take, Mutex!Give, Mutex!Activate
<1>2. take \in Instructions /\ give \in Instructions /\ act \in Instructions
  BY DEF Instructions
<1> HIDE DEF take, give, act
<1>3. /\ a \in Seq(Instructions) /\ Len(a) = 1 /\ a[1] = take
      /\ b \in Seq(Instructions) /\ Len(b) = 1 /\ b[1] = give
      /\ x \in Seq(Instructions) /\ Len(x) = 1 /\ x[1] = act
  BY <1>2, OneOrTwo
<1> HIDE DEF a, b, x
<1>4. q \in Seq(Instructions) /\ Len(q) = 5
  BY SendParts
<1> HIDE DEF q
<1>5. /\ w \in Seq(Instructions) /\ Len(w) = 6 /\ w[6] = act /\ \A i \in 1 .. 5 : w[i] = q[i]
  <2>1. /\ q \o x \in Seq(Instructions) /\ Len(q \o x) = Len(q) + Len(x)
        /\ \A i \in 1 .. Len(q) : (q \o x)[i] = q[i]
        /\ \A i \in 1 .. Len(x) : (q \o x)[Len(q) + i] = x[i]
    BY <1>3, <1>4, Joined
  <2>2. (q \o x)[Len(q) + 1] = x[1]
    BY <1>3, <2>1
  <2>3. Len(q) + 1 = 6 /\ Len(q) + Len(x) = 6
    BY <1>3, <1>4
  <2> QED
    BY <1>3, <1>4, <2>1, <2>2, <2>3 DEF w
<1> HIDE DEF w
<1>6. /\ s \in Seq(Instructions) /\ Len(s) = Len(w) + 2 /\ s[1] = a[1] /\ s[Len(w) + 2] = b[1]
      /\ \A i \in 1 .. Len(w) : s[1 + i] = w[i]
  <2>1. a \in Seq(Instructions) /\ b \in Seq(Instructions) /\ Len(a) = 1 /\ Len(b) = 1
    BY <1>3
  <2>2. w \in Seq(Instructions)
    BY <1>5
  <2>3. IsEnclosed(a \o w \o b, w, a, b)
    BY <2>1, <2>2, Enclosed
  <2> QED
    BY <2>3, Zenon DEF s, IsEnclosed
<1> HIDE DEF s
<1>7. Len(s) = 8 /\ s[1] = take /\ s[7] = act /\ s[8] = give
  <2>1. Len(w) + 2 = 8 /\ 6 \in 1 .. Len(w) /\ 1 + 6 = 7
    BY <1>5
  <2>2. s[1 + 6] = w[6]
    BY <1>6, <2>1
  <2> QED
    BY <1>3, <1>5, <1>6, <2>1, <2>2
<1>8. ASSUME NEW i \in 1 .. 5 PROVE s[1 + i] = q[i]
  <2>1. i \in 1 .. Len(w)
    BY <1>5
  <2> QED
    BY <1>5, <1>6, <2>1
<1> QED
  BY <1>1, <1>6, <1>7, <1>8 DEF q, take, give, act

LEMMA FinishedParts ==
  LET s == Mutex!FirmwareUpdateFinished
  IN  /\ s \in Seq(Instructions) /\ Len(s) = 8
      /\ s[1] = [op |-> "take"] /\ s[2] = [op |-> "deactivate"] /\ s[8] = [op |-> "give"]
      /\ \A i \in 1 .. 5 : s[2 + i] = Mutex!Send(FALSE, TRUE)[i]
<1> DEFINE take == [op |-> "take"]
           give == [op |-> "give"]
           deact == [op |-> "deactivate"]
           a == <<take>>
           b == <<give>>
           q == Mutex!Send(FALSE, TRUE)
           x == <<deact>>
           w == x \o q
           s == a \o w \o b
<1>1. Mutex!FirmwareUpdateFinished = s
  BY DEF Mutex!FirmwareUpdateFinished, Mutex!Guarded, Mutex!Take, Mutex!Give, Mutex!Deactivate
<1>2. take \in Instructions /\ give \in Instructions /\ deact \in Instructions
  BY DEF Instructions
<1> HIDE DEF take, give, deact
<1>3. /\ a \in Seq(Instructions) /\ Len(a) = 1 /\ a[1] = take
      /\ b \in Seq(Instructions) /\ Len(b) = 1 /\ b[1] = give
      /\ x \in Seq(Instructions) /\ Len(x) = 1 /\ x[1] = deact
  BY <1>2, OneOrTwo
<1> HIDE DEF a, b, x
<1>4. q \in Seq(Instructions) /\ Len(q) = 5
  BY SendParts
<1> HIDE DEF q
<1>5. /\ w \in Seq(Instructions) /\ Len(w) = 6 /\ w[1] = deact
      /\ \A i \in 1 .. 5 : w[1 + i] = q[i]
  <2>1. /\ x \o q \in Seq(Instructions) /\ Len(x \o q) = Len(x) + Len(q)
        /\ \A i \in 1 .. Len(x) : (x \o q)[i] = x[i]
        /\ \A i \in 1 .. Len(q) : (x \o q)[Len(x) + i] = q[i]
    BY <1>3, <1>4, Joined
  <2>2. (x \o q)[1] = x[1] /\ Len(x) + Len(q) = 6
    BY <1>3, <1>4, <2>1
  <2> QED
    BY <1>3, <1>4, <2>1, <2>2 DEF w
<1> HIDE DEF w
<1>6. /\ s \in Seq(Instructions) /\ Len(s) = Len(w) + 2 /\ s[1] = a[1] /\ s[Len(w) + 2] = b[1]
      /\ \A i \in 1 .. Len(w) : s[1 + i] = w[i]
  <2>1. a \in Seq(Instructions) /\ b \in Seq(Instructions) /\ Len(a) = 1 /\ Len(b) = 1
    BY <1>3
  <2>2. w \in Seq(Instructions)
    BY <1>5
  <2>3. IsEnclosed(a \o w \o b, w, a, b)
    BY <2>1, <2>2, Enclosed
  <2> QED
    BY <2>3, Zenon DEF s, IsEnclosed
<1> HIDE DEF s
<1>7. Len(s) = 8 /\ s[1] = take /\ s[2] = deact /\ s[8] = give
  <2>1. Len(w) + 2 = 8 /\ 1 \in 1 .. Len(w) /\ 1 + 1 = 2
    BY <1>5
  <2>2. s[1 + 1] = w[1]
    BY <1>6, <2>1
  <2> QED
    BY <1>3, <1>5, <1>6, <2>1, <2>2
<1>8. ASSUME NEW i \in 1 .. 5 PROVE s[2 + i] = q[i]
  <2>1. 1 + i \in 1 .. Len(w) /\ 1 + (1 + i) = 2 + i
    BY <1>5
  <2>2. s[1 + (1 + i)] = w[1 + i]
    BY <1>6, <2>1
  <2> QED
    BY <1>5, <2>1, <2>2
<1> QED
  BY <1>1, <1>6, <1>7, <1>8 DEF q, take, give, deact

\* The instructions of an update.
LEMMA UpdateParts ==
  LET s == Mutex!Update
  IN  /\ s \in Seq(Instructions) /\ Len(s) = 17
      /\ \A i \in 1 .. 8 : s[i] = Mutex!PrepareForFirmwareUpdate[i]
      /\ s[9] = [op |-> "put", first |-> FALSE, last |-> FALSE]
      /\ \A i \in 1 .. 8 : s[9 + i] = Mutex!FirmwareUpdateFinished[i]
<1> DEFINE p == Mutex!PrepareForFirmwareUpdate
           f == Mutex!FirmwareUpdateFinished
           put == [op |-> "put", first |-> FALSE, last |-> FALSE]
           x == <<put>>
           v == p \o x
           s == v \o f
<1>1. Mutex!Update = s
  BY DEF Mutex!Update, Mutex!Put
<1>2. put \in Instructions
  BY DEF Instructions
<1> HIDE DEF put
<1>3. x \in Seq(Instructions) /\ Len(x) = 1 /\ x[1] = put
  BY <1>2, OneOrTwo
<1> HIDE DEF x
<1>4. p \in Seq(Instructions) /\ Len(p) = 8 /\ f \in Seq(Instructions) /\ Len(f) = 8
  BY PrepareParts, FinishedParts
<1> HIDE DEF p, f
<1>5. /\ v \in Seq(Instructions) /\ Len(v) = Len(p) + Len(x)
      /\ \A i \in 1 .. Len(p) : v[i] = p[i]
      /\ \A i \in 1 .. Len(x) : v[Len(p) + i] = x[i]
  BY <1>3, <1>4, Joined
<1> HIDE DEF v
<1>6. Len(v) = 9 /\ v[9] = put
  <2>1. v[Len(p) + 1] = x[1] /\ Len(p) + 1 = 9
    BY <1>3, <1>4, <1>5
  <2> QED
    BY <1>3, <1>4, <1>5, <2>1
<1>7. /\ s \in Seq(Instructions) /\ Len(s) = Len(v) + Len(f)
      /\ \A i \in 1 .. Len(v) : s[i] = v[i]
      /\ \A i \in 1 .. Len(f) : s[Len(v) + i] = f[i]
  BY <1>4, <1>5, Joined
<1> HIDE DEF s
<1>8. ASSUME NEW i \in 1 .. 8 PROVE s[i] = p[i] /\ s[9 + i] = f[i]
  <2>1. i \in 1 .. Len(v) /\ i \in 1 .. Len(p) /\ i \in 1 .. Len(f)
    BY <1>4, <1>6
  <2> QED
    BY <1>5, <1>6, <1>7, <2>1
<1>9. Len(s) = 17 /\ s[9] = put
  BY <1>4, <1>6, <1>7
<1> QED
  BY <1>1, <1>7, <1>8, <1>9 DEF p, f, put

\* Every instruction of every call.
Opening == [op |-> "put", first |-> TRUE, last |-> FALSE]
Middle == [op |-> "put", first |-> FALSE, last |-> FALSE]
Closing == [op |-> "put", first |-> FALSE, last |-> TRUE]

\* Where a call sends a frame.
LEMMA FrameAt ==
  ASSUME NEW s, NEW n \in Nat, NEW q,
         q[1] = [op |-> "take"], q[2] = [op |-> "test"], q[5] = [op |-> "give"],
         \A i \in 1 .. 5 : s[n + i] = q[i]
  PROVE  /\ s[n + 1].op = "take" /\ s[n + 2].op = "test" /\ s[n + 3] = q[3]
         /\ s[n + 4] = q[4] /\ s[n + 5].op = "give"
<1>1. s[n + 1] = q[1] /\ s[n + 2] = q[2] /\ s[n + 3] = q[3] /\ s[n + 4] = q[4] /\ s[n + 5] = q[5]
  OBVIOUS
<1> QED
  BY <1>1

LEMMA Sends ==
  /\ Mutex!Send(TRUE, TRUE)[3] = Opening
  /\ Mutex!Send(TRUE, TRUE)[4] = Closing
  /\ Mutex!Send(TRUE, FALSE)[3] = Opening
  /\ Mutex!Send(TRUE, FALSE)[4] = Middle
  /\ Mutex!Send(FALSE, TRUE)[3] = Middle
  /\ Mutex!Send(FALSE, TRUE)[4] = Closing
  /\ Mutex!Send(FALSE, FALSE)[3] = Middle
  /\ Mutex!Send(FALSE, FALSE)[4] = Middle
<1>1. TRUE \in BOOLEAN /\ FALSE \in BOOLEAN
  OBVIOUS
<1> QED
  BY <1>1, SendParts, Zenon DEF Opening, Middle, Closing

LEMMA OneBody ==
  LET s == Body("one")
  IN  /\ s \in Seq(Instructions) /\ Len(s) = 5
      /\ s[1].op = "take" /\ s[2].op = "test" /\ s[3] = Opening
      /\ s[4] = Closing /\ s[5].op = "give"
<1> DEFINE q == Mutex!Send(TRUE, TRUE)
<1>1. Body("one") = q
  BY DEF Body, Mutex!OneFrame
<1>2. /\ q \in Seq(Instructions) /\ Len(q) = 5 /\ q[1] = [op |-> "take"]
      /\ q[2] = [op |-> "test"] /\ q[5] = [op |-> "give"]
  BY SendParts, Zenon
<1>3. q[3] = Opening /\ q[4] = Closing
  BY Sends
<1> HIDE DEF q
<1> QED
  BY <1>1, <1>2, <1>3

LEMMA SeveralBody ==
  LET s == Body("several")
  IN  /\ s \in Seq(Instructions) /\ Len(s) = 17
      /\ s[1].op = "take" /\ s[2].op = "take" /\ s[3].op = "test" /\ s[4] = Opening
      /\ s[5] = Middle /\ s[6].op = "give"
      /\ s[7].op = "take" /\ s[8].op = "test" /\ s[9] = Middle
      /\ s[10] = Middle /\ s[11].op = "give"
      /\ s[12].op = "take" /\ s[13].op = "test" /\ s[14] = Middle
      /\ s[15] = Closing /\ s[16].op = "give" /\ s[17].op = "give"
<1> DEFINE s == Mutex!SeveralFrames
           q == Mutex!Send(TRUE, FALSE)
           r == Mutex!Send(FALSE, FALSE)
           u == Mutex!Send(FALSE, TRUE)
<1>1. Body("several") = s
  BY DEF Body
<1>2. /\ s \in Seq(Instructions) /\ Len(s) = 17
      /\ s[1] = [op |-> "take"] /\ s[17] = [op |-> "give"]
      /\ \A i \in 1 .. 5 : s[1 + i] = q[i] /\ s[6 + i] = r[i] /\ s[11 + i] = u[i]
  BY SeveralParts
<1>3. /\ q[1] = [op |-> "take"] /\ q[2] = [op |-> "test"] /\ q[5] = [op |-> "give"]
      /\ r[1] = [op |-> "take"] /\ r[2] = [op |-> "test"] /\ r[5] = [op |-> "give"]
      /\ u[1] = [op |-> "take"] /\ u[2] = [op |-> "test"] /\ u[5] = [op |-> "give"]
  BY SendParts, Zenon
<1>4. /\ q[3] = Opening /\ q[4] = Middle
      /\ r[3] = Middle /\ r[4] = Middle
      /\ u[3] = Middle /\ u[4] = Closing
  BY Sends
<1> HIDE DEF s, q, r, u
<1>5. /\ s[1 + 1].op = "take" /\ s[1 + 2].op = "test" /\ s[1 + 3] = q[3]
      /\ s[1 + 4] = q[4] /\ s[1 + 5].op = "give"
  BY <1>2, <1>3, FrameAt
<1>6. /\ s[6 + 1].op = "take" /\ s[6 + 2].op = "test" /\ s[6 + 3] = r[3]
      /\ s[6 + 4] = r[4] /\ s[6 + 5].op = "give"
  BY <1>2, <1>3, FrameAt
<1>7. /\ s[11 + 1].op = "take" /\ s[11 + 2].op = "test" /\ s[11 + 3] = u[3]
      /\ s[11 + 4] = u[4] /\ s[11 + 5].op = "give"
  BY <1>2, <1>3, FrameAt
<1>8. s[1].op = "take" /\ s[17].op = "give"
  BY <1>2
<1>9. /\ s[2].op = "take" /\ s[3].op = "test" /\ s[4] = Opening /\ s[5] = Middle /\ s[6].op = "give"
      /\ s[7].op = "take" /\ s[8].op = "test" /\ s[9] = Middle /\ s[10] = Middle /\ s[11].op = "give"
      /\ s[12].op = "take" /\ s[13].op = "test" /\ s[14] = Middle /\ s[15] = Closing /\ s[16].op = "give"
  BY <1>4, <1>5, <1>6, <1>7
<1> QED
  BY <1>1, <1>2, <1>8, <1>9, Zenon

LEMMA UpdateBody ==
  LET s == Body("update")
  IN  /\ s \in Seq(Instructions) /\ Len(s) = 17
      /\ s[1].op = "take" /\ s[2].op = "take" /\ s[3].op = "test" /\ s[4] = Opening
      /\ s[5] = Middle /\ s[6].op = "give" /\ s[7].op = "activate"
      /\ s[8].op = "give" /\ s[9] = Middle /\ s[10].op = "take"
      /\ s[11].op = "deactivate"
      /\ s[12].op = "take" /\ s[13].op = "test" /\ s[14] = Middle
      /\ s[15] = Closing /\ s[16].op = "give" /\ s[17].op = "give"
<1> DEFINE s == Mutex!Update
           p == Mutex!PrepareForFirmwareUpdate
           f == Mutex!FirmwareUpdateFinished
           q == Mutex!Send(TRUE, FALSE)
           u == Mutex!Send(FALSE, TRUE)
<1>1. Body("update") = s
  BY DEF Body
<1>2. /\ s \in Seq(Instructions) /\ Len(s) = 17
      /\ \A i \in 1 .. 8 : s[i] = p[i]
      /\ s[9] = Middle
      /\ \A i \in 1 .. 8 : s[9 + i] = f[i]
  BY UpdateParts DEF Middle
<1>3. /\ p[1] = [op |-> "take"] /\ p[7] = [op |-> "activate"] /\ p[8] = [op |-> "give"]
      /\ \A i \in 1 .. 5 : p[1 + i] = q[i]
  BY PrepareParts
<1>4. /\ f[1] = [op |-> "take"] /\ f[2] = [op |-> "deactivate"] /\ f[8] = [op |-> "give"]
      /\ \A i \in 1 .. 5 : f[2 + i] = u[i]
  BY FinishedParts
<1>5. /\ q[1] = [op |-> "take"] /\ q[2] = [op |-> "test"] /\ q[5] = [op |-> "give"]
      /\ u[1] = [op |-> "take"] /\ u[2] = [op |-> "test"] /\ u[5] = [op |-> "give"]
  BY SendParts, Zenon
<1>6. /\ q[3] = Opening /\ q[4] = Middle
      /\ u[3] = Middle /\ u[4] = Closing
  BY Sends
<1> HIDE DEF s, p, f, q, u
<1>7. /\ p[1 + 1].op = "take" /\ p[1 + 2].op = "test" /\ p[1 + 3] = q[3]
      /\ p[1 + 4] = q[4] /\ p[1 + 5].op = "give"
  BY <1>3, <1>5, FrameAt
<1>8. /\ f[2 + 1].op = "take" /\ f[2 + 2].op = "test" /\ f[2 + 3] = u[3]
      /\ f[2 + 4] = u[4] /\ f[2 + 5].op = "give"
  BY <1>4, <1>5, FrameAt
<1>9. /\ s[1] = p[1] /\ s[2] = p[2] /\ s[3] = p[3] /\ s[4] = p[4] /\ s[5] = p[5]
      /\ s[6] = p[6] /\ s[7] = p[7] /\ s[8] = p[8]
  BY <1>2
<1>10. /\ s[10] = f[1] /\ s[11] = f[2] /\ s[12] = f[3] /\ s[13] = f[4] /\ s[14] = f[5]
       /\ s[15] = f[6] /\ s[16] = f[7] /\ s[17] = f[8]
  <2>1. \A i \in 1 .. 8 : s[9 + i] = f[i]
    BY <1>2
  <2> QED
    BY <2>1
<1>11. /\ s[1].op = "take" /\ s[7].op = "activate" /\ s[8].op = "give"
       /\ s[10].op = "take" /\ s[11].op = "deactivate" /\ s[17].op = "give"
  BY <1>3, <1>4, <1>9, <1>10
<1>12. /\ s[2].op = "take" /\ s[3].op = "test" /\ s[4] = Opening
       /\ s[5] = Middle /\ s[6].op = "give"
  BY <1>6, <1>7, <1>9
<1>13. /\ s[12].op = "take" /\ s[13].op = "test" /\ s[14] = Middle
       /\ s[15] = Closing /\ s[16].op = "give"
  BY <1>6, <1>8, <1>10
<1> QED
  BY <1>1, <1>2, <1>11, <1>12, <1>13

\* What the instruction is at which a call is.
LEMMA InstructionAt ==
  ASSUME NEW c \in CallNames, NEW k \in 1 .. Size(c)
  PROVE  /\ Body(c)[k].op = "take" <=> k \in TakeAt(c)
         /\ Body(c)[k].op = "give" <=> k \in GiveAt(c)
         /\ Body(c)[k].op = "test" <=> k \in TestAt(c)
         /\ Body(c)[k].op = "put" <=> k \in PutAt(c)
         /\ Body(c)[k].op = "activate" <=> k \in ActivateAt(c)
         /\ Body(c)[k].op = "deactivate" <=> k \in DeactivateAt(c)
         /\ k \in PutAt(c) => /\ Body(c)[k].first <=> k = FirstAt(c)
                              /\ Body(c)[k].last <=> k = LastAt(c)
<1>1. CASE c = "one"
  <2>1. k \in {1, 2, 3, 4, 5}
    BY <1>1 DEF Size
  <2> QED
    BY <1>1, <2>1, OneBody DEF Opening, Middle, Closing, TakeAt, GiveAt, TestAt, PutAt, ActivateAt, DeactivateAt, FirstAt, LastAt
<1>2. CASE c = "several"
  <2>1. k \in {1, 2, 3, 4, 5, 6, 7, 8, 9, 10, 11, 12, 13, 14, 15, 16, 17}
    BY <1>2 DEF Size
  <2> DEFINE s == Body(c)
  <2>2. /\ s[1].op = "take" /\ s[2].op = "take" /\ s[3].op = "test" /\ s[4].op = "put"
        /\ s[5].op = "put" /\ s[6].op = "give" /\ s[7].op = "take" /\ s[8].op = "test"
        /\ s[9].op = "put" /\ s[10].op = "put" /\ s[11].op = "give" /\ s[12].op = "take"
        /\ s[13].op = "test" /\ s[14].op = "put" /\ s[15].op = "put" /\ s[16].op = "give"
        /\ s[17].op = "give"
    <3>1. Opening.op = "put" /\ Middle.op = "put" /\ Closing.op = "put"
      BY DEF Opening, Middle, Closing
    <3>2. s = Body("several")
      BY <1>2
    <3> HIDE DEF s
    <3>3. /\ s[4].op = "put" /\ s[5].op = "put" /\ s[9].op = "put" /\ s[10].op = "put"
          /\ s[14].op = "put" /\ s[15].op = "put"
      BY <3>1, <3>2, SeveralBody, Zenon
    <3> QED
      BY <3>2, <3>3, SeveralBody, Zenon
  <2>3. /\ s[4] = Opening /\ s[15] = Closing
        /\ \A i \in PutAt(c) : i \notin {4, 15} => s[i] = Middle
    BY <1>2, SeveralBody DEF PutAt
  <2> HIDE DEF s
  <2>4. s[k].op = "take" <=> k \in TakeAt(c)
    BY <1>2, <2>1, <2>2 DEF TakeAt
  <2>5. s[k].op = "give" <=> k \in GiveAt(c)
    BY <1>2, <2>1, <2>2 DEF GiveAt
  <2>6. s[k].op = "test" <=> k \in TestAt(c)
    BY <1>2, <2>1, <2>2 DEF TestAt
  <2>7. s[k].op = "put" <=> k \in PutAt(c)
    BY <1>2, <2>1, <2>2 DEF PutAt
  <2>8. s[k].op = "activate" <=> k \in ActivateAt(c)
    BY <1>2, <2>1, <2>2 DEF ActivateAt
  <2>9. s[k].op = "deactivate" <=> k \in DeactivateAt(c)
    BY <1>2, <2>1, <2>2 DEF DeactivateAt
  <2>10. ASSUME k \in PutAt(c)
         PROVE  (s[k].first <=> k = FirstAt(c)) /\ (s[k].last <=> k = LastAt(c))
    <3>1. FirstAt(c) = 4 /\ LastAt(c) = 15
      BY <1>2 DEF FirstAt, LastAt
    <3>2. CASE k = 4
      BY <2>3, <3>1, <3>2 DEF Opening
    <3>3. CASE k = 15
      BY <2>3, <3>1, <3>3 DEF Closing
    <3>4. CASE k \notin {4, 15}
      BY <2>3, <2>10, <3>1, <3>4 DEF Middle
    <3> QED
      BY <3>2, <3>3, <3>4
  <2> QED
    BY <2>4, <2>5, <2>6, <2>7, <2>8, <2>9, <2>10 DEF s
<1>3. CASE c = "update"
  <2>1. k \in {1, 2, 3, 4, 5, 6, 7, 8, 9, 10, 11, 12, 13, 14, 15, 16, 17}
    BY <1>3 DEF Size
  <2> DEFINE s == Body(c)
  <2>2. /\ s[1].op = "take" /\ s[2].op = "take" /\ s[3].op = "test" /\ s[4].op = "put"
        /\ s[5].op = "put" /\ s[6].op = "give" /\ s[7].op = "activate" /\ s[8].op = "give"
        /\ s[9].op = "put" /\ s[10].op = "take" /\ s[11].op = "deactivate" /\ s[12].op = "take"
        /\ s[13].op = "test" /\ s[14].op = "put" /\ s[15].op = "put" /\ s[16].op = "give"
        /\ s[17].op = "give"
    <3>1. Opening.op = "put" /\ Middle.op = "put" /\ Closing.op = "put"
      BY DEF Opening, Middle, Closing
    <3>2. s = Body("update")
      BY <1>3
    <3> HIDE DEF s
    <3>3. s[4].op = "put" /\ s[5].op = "put" /\ s[9].op = "put" /\ s[14].op = "put" /\ s[15].op = "put"
      BY <3>1, <3>2, UpdateBody, Zenon
    <3> QED
      BY <3>2, <3>3, UpdateBody, Zenon
  <2>3. /\ s[4] = Opening /\ s[15] = Closing
        /\ \A i \in PutAt(c) : i \notin {4, 15} => s[i] = Middle
    BY <1>3, UpdateBody DEF PutAt
  <2> HIDE DEF s
  <2>4. s[k].op = "take" <=> k \in TakeAt(c)
    BY <1>3, <2>1, <2>2 DEF TakeAt
  <2>5. s[k].op = "give" <=> k \in GiveAt(c)
    BY <1>3, <2>1, <2>2 DEF GiveAt
  <2>6. s[k].op = "test" <=> k \in TestAt(c)
    BY <1>3, <2>1, <2>2 DEF TestAt
  <2>7. s[k].op = "put" <=> k \in PutAt(c)
    BY <1>3, <2>1, <2>2 DEF PutAt
  <2>8. s[k].op = "activate" <=> k \in ActivateAt(c)
    BY <1>3, <2>1, <2>2 DEF ActivateAt
  <2>9. s[k].op = "deactivate" <=> k \in DeactivateAt(c)
    BY <1>3, <2>1, <2>2 DEF DeactivateAt
  <2>10. ASSUME k \in PutAt(c)
         PROVE  (s[k].first <=> k = FirstAt(c)) /\ (s[k].last <=> k = LastAt(c))
    <3>1. FirstAt(c) = 4 /\ LastAt(c) = 15
      BY <1>3 DEF FirstAt, LastAt
    <3>2. CASE k = 4
      BY <2>3, <3>1, <3>2 DEF Opening
    <3>3. CASE k = 15
      BY <2>3, <3>1, <3>3 DEF Closing
    <3>4. CASE k \notin {4, 15}
      BY <2>3, <2>10, <3>1, <3>4 DEF Middle
    <3> QED
      BY <3>2, <3>3, <3>4
  <2> QED
    BY <2>4, <2>5, <2>6, <2>7, <2>8, <2>9, <2>10 DEF s
<1> QED
  BY <1>1, <1>2, <1>3 DEF CallNames

LEMMA Bodies ==
  ASSUME NEW c \in CallNames
  PROVE  Body(c) \in Seq(Instructions) /\ Len(Body(c)) = Size(c) /\ Size(c) \in {5, 17}
<1>1. CASE c = "one"
  BY <1>1, OneBody DEF Size
<1>2. CASE c = "several"
  BY <1>2, SeveralBody DEF Size
<1>3. CASE c = "update"
  BY <1>3, UpdateBody DEF Size
<1> QED
  BY <1>1, <1>2, <1>3 DEF CallNames

\* What is left of a call, one instruction and three later.
LEMMA Rests ==
  ASSUME NEW c \in CallNames, NEW k \in 1 .. Size(c) + 1
  PROVE  /\ Rest(c, k) \in Seq(Instructions) /\ Len(Rest(c, k)) = Size(c) + 1 - k
         /\ Rest(c, k) = <<>> <=> k = Size(c) + 1
         /\ k <= Size(c) => /\ Head(Rest(c, k)) = Body(c)[k]
                            /\ Tail(Rest(c, k)) = Rest(c, k + 1)
         /\ k + 2 <= Size(c) => SubSeq(Rest(c, k), 4, Len(Rest(c, k))) = Rest(c, k + 3)
<1>1. /\ Body(c) \in Seq(Instructions) /\ Len(Body(c)) = Size(c)
      /\ Size(c) \in Nat
  BY Bodies
<1> DEFINE s == Body(c)
           n == Size(c)
           r == Rest(c, k)
<1>2. r = SubSeq(s, k, n)
  BY DEF Rest
<1>3. /\ s \in Seq(Instructions) /\ Len(s) = n /\ n \in Nat /\ k \in 1 .. n + 1
  BY <1>1
<1>4. /\ \A j : Rest(c, j) = SubSeq(s, j, n)
  BY DEF Rest
<1> HIDE DEF s, n, r
<1>5. /\ r \in Seq(Instructions) /\ Len(r) = n + 1 - k
      /\ \A i \in 1 .. n + 1 - k : r[i] = s[k + i - 1]
  <2>1. /\ SubSeq(s, k, n) \in Seq(Instructions) /\ Len(SubSeq(s, k, n)) = IF k <= n THEN n - k + 1 ELSE 0
        /\ \A i \in 1 .. n - k + 1 : SubSeq(s, k, n)[i] = s[k + i - 1]
    BY <1>3, SubSeqProperties
  <2>2. n - k + 1 = n + 1 - k /\ (k > n => n + 1 - k = 0)
    BY <1>3
  <2> QED
    BY <1>2, <1>3, <2>1, <2>2
<1>6. r = <<>> <=> k = n + 1
  <2>1. r = <<>> <=> Len(r) = 0
    BY <1>5, EmptySeq
  <2> QED
    BY <1>3, <1>5, <2>1
<1>7. ASSUME k <= n PROVE Head(r) = s[k] /\ Tail(r) = SubSeq(s, k + 1, n)
  <2>1. k \in 1 .. Len(s) /\ n \in k .. Len(s)
    BY <1>3, <1>7
  <2>2. Head(SubSeq(s, k, n)) = s[k] /\ Tail(SubSeq(s, k, n)) = SubSeq(s, k + 1, n)
    BY <1>3, <2>1, HeadTailOfSubSeq
  <2> QED
    BY <1>2, <2>2
<1>8. ASSUME k + 2 <= n PROVE SubSeq(r, 4, Len(r)) = SubSeq(s, k + 3, n)
  <2>1. CASE k + 3 <= n
    <3>1. /\ k \in 1 .. Len(s) /\ n \in 1 .. Len(s) /\ 4 \in 1 .. n - k + 1
          /\ n - k + 1 \in 1 .. n - k + 1
      BY <1>3, <2>1
    <3>2. SubSeq(SubSeq(s, k, n), 4, n - k + 1) = SubSeq(s, k + 4 - 1, k + (n - k + 1) - 1)
      BY <1>3, <3>1, SubSeqOfSubSeq
    <3>3. k + 4 - 1 = k + 3 /\ k + (n - k + 1) - 1 = n /\ Len(r) = n - k + 1
      BY <1>3, <1>5
    <3> QED
      BY <1>2, <3>2, <3>3
  <2>2. CASE k + 3 > n
    <3>1. Len(r) \in Int /\ Len(r) < 4 /\ k + 3 \in Int /\ n \in Int /\ n < k + 3
      BY <1>3, <1>5, <2>2
    <3>2. SubSeq(r, 4, Len(r)) = <<>>
      BY <3>1, SubSeqEmpty
    <3>3. SubSeq(s, k + 3, n) = <<>>
      BY <3>1, SubSeqEmpty
    <3> QED
      BY <3>2, <3>3
  <2> QED
    BY <1>3, <2>1, <2>2
<1>9. /\ Rest(c, k + 1) = SubSeq(s, k + 1, n) /\ Rest(c, k + 3) = SubSeq(s, k + 3, n)
  BY <1>4
<1> QED
  BY <1>5, <1>6, <1>7, <1>8, <1>9 DEF s, n, r

\* How an instruction changes what is held and who has the line.
LEMMA TakesOne ==
  ASSUME NEW c \in CallNames, NEW k \in TakeAt(c)
  PROVE  /\ k \in 1 .. Size(c) /\ HeldAt(c, k) \in Nat /\ HeldAt(c, k + 1) = HeldAt(c, k) + 1
         /\ k \notin PutAt(c) /\ k + 1 \notin PutAt(c)
         /\ MidAt(c, k) <=> MidAt(c, k + 1)
         /\ c = "update" => (k \in 8 .. 11 <=> k + 1 \in 8 .. 11)
BY DEF CallNames, TakeAt, Size, HeldAt, PutAt, MidAt

LEMMA GivesOne ==
  ASSUME NEW c \in CallNames, NEW k \in GiveAt(c)
  PROVE  /\ k \in 1 .. Size(c) /\ HeldAt(c, k) \in {1, 2} /\ HeldAt(c, k + 1) = HeldAt(c, k) - 1
         /\ k \notin PutAt(c)
         /\ c # "update" => k + 1 \notin PutAt(c)
         /\ MidAt(c, k) <=> MidAt(c, k + 1)
         /\ c = "update" => (k \in 8 .. 11 <=> k + 1 \in 8 .. 11)
BY DEF CallNames, GiveAt, Size, HeldAt, PutAt, MidAt

LEMMA TestsOnce ==
  ASSUME NEW c \in CallNames, NEW k \in TestAt(c)
  PROVE  /\ k \in 1 .. Size(c) /\ k + 2 <= Size(c)
         /\ HeldAt(c, k) > 0 /\ HeldAt(c, k + 1) = HeldAt(c, k) /\ HeldAt(c, k + 3) = HeldAt(c, k)
         /\ k + 3 \notin PutAt(c)
         /\ MidAt(c, k) <=> MidAt(c, k + 1)
         /\ firmwareUpdateActive /\ c # "update" => (MidAt(c, k) <=> MidAt(c, k + 3))
         /\ c = "update" => k \notin 8 .. 11 /\ k + 1 \notin 8 .. 11
BY DEF CallNames, TestAt, Size, HeldAt, PutAt, MidAt

LEMMA PutsOne ==
  ASSUME NEW c \in CallNames, NEW k \in PutAt(c)
  PROVE  /\ k \in 1 .. Size(c) /\ HeldAt(c, k + 1) = HeldAt(c, k)
         /\ \/ HeldAt(c, k) > 0
            \/ c = "update" /\ k = 9
         /\ (c = "update" \/ ~firmwareUpdateActive)
              => /\ MidAt(c, k) <=> k # FirstAt(c)
                 /\ MidAt(c, k + 1) <=> k # LastAt(c)
         /\ c = "update" => (k \in 8 .. 11 <=> k + 1 \in 8 .. 11)
BY DEF CallNames, PutAt, Size, HeldAt, FirstAt, LastAt, MidAt

\* Who is in the middle of a call has the mutex, or has an update active.
LEMMA MiddleIsHeld ==
  ASSUME NEW c \in CallNames, NEW k, MidAt(c, k)
  PROVE  \/ HeldAt(c, k) > 0
         \/ c = "update" /\ k \in {9, 10}
BY DEF CallNames, HeldAt, MidAt

LEMMA EndsFree ==
  ASSUME NEW c \in CallNames
  PROVE  /\ HeldAt(c, 1) = 0 /\ HeldAt(c, Size(c) + 1) = 0
         /\ ~MidAt(c, 1) /\ ~MidAt(c, Size(c) + 1)
         /\ 1 \notin PutAt(c) /\ Size(c) + 1 \notin PutAt(c)
         /\ Size(c) + 1 \notin 8 .. 11
BY DEF CallNames, Size, HeldAt, MidAt, PutAt

\* One task moves to instruction j of call d, the others stay.
LEMMA Moves ==
  ASSUME Mutex!TransmitAssumption,
         NEW c \in [Mutex!Tasks -> CallNames], NEW k \in [Mutex!Tasks -> 1 .. 18], At(c, k),
         NEW t \in Mutex!Tasks, NEW d \in CallNames, NEW j \in 1 .. Size(d) + 1,
         t = Heat => d # "update", MutexTyped', AtTask(t, d, j)',
         \A u \in Mutex!Tasks \ {t} : AtTask(u, c[u], k[u])',
         firmwareUpdateActive' <=> IF t = Main THEN d = "update" /\ j \in 8 .. 11
                                   ELSE c[Main] = "update" /\ k[Main] \in 8 .. 11
  PROVE  MutexInv'
<1> DEFINE cc == [c EXCEPT ![t] = d]
           kk == [k EXCEPT ![t] = j]
<1>1. j \in 1 .. 18
  BY Bodies
<1>2. cc \in [Mutex!Tasks -> CallNames] /\ kk \in [Mutex!Tasks -> 1 .. 18]
  BY <1>1
<1>3. cc[t] = d /\ kk[t] = j
  OBVIOUS
<1>4. ASSUME NEW u \in Mutex!Tasks \ {t} PROVE cc[u] = c[u] /\ kk[u] = k[u]
  OBVIOUS
<1>5. Main \in Mutex!Tasks /\ Heat \in Mutex!Tasks /\ Main # Heat
  BY DEF Mutex!Tasks, Mutex!TransmitAssumption
<1>6. /\ c[Heat] # "update" /\ \A u \in Mutex!Tasks : k[u] \in 1 .. Size(c[u]) + 1
  BY DEF At
<1> HIDE DEF cc, kk
<1>7. cc[Heat] # "update"
  BY <1>3, <1>4, <1>5, <1>6
<1>8. firmwareUpdateActive' <=> cc[Main] = "update" /\ kk[Main] \in 8 .. 11
  BY <1>3, <1>4, <1>5
<1>9. ASSUME NEW u \in Mutex!Tasks
      PROVE  kk[u] \in 1 .. Size(cc[u]) + 1 /\ AtTask(u, cc[u], kk[u])'
  <2>1. CASE u = t
    BY <1>3, <2>1
  <2>2. CASE u # t
    BY <1>4, <1>6, <2>2
  <2> QED
    BY <2>1, <2>2
<1>10. At(cc, kk)'
  BY <1>7, <1>8, <1>9 DEF At
<1> QED
  BY <1>2, <1>10 DEF MutexInv

\* A task that runs an instruction: which it is, and what is left of its call.
LEMMA Runs ==
  ASSUME NEW c \in [Mutex!Tasks -> CallNames], NEW k \in [Mutex!Tasks -> 1 .. 18], At(c, k),
         NEW t \in Mutex!Tasks, NEW op, Mutex!Running(t, op)
  PROVE  /\ c[t] \in CallNames /\ k[t] \in 1 .. Size(c[t]) /\ Body(c[t])[k[t]].op = op
         /\ Head(script[t]) = Body(c[t])[k[t]] /\ script[t] = Rest(c[t], k[t])
         /\ Tail(script[t]) = Rest(c[t], k[t] + 1)
         /\ k[t] + 1 \in 1 .. Size(c[t]) + 1
<1> DEFINE d == c[t]
           j == k[t]
<1>1. /\ d \in CallNames /\ j \in 1 .. Size(d) + 1 /\ script[t] = Rest(d, j)
      /\ script[t] # <<>> /\ Head(script[t]).op = op
  BY DEF At, AtTask, Mutex!Running
<1> HIDE DEF d, j
<1>2. /\ Rest(d, j) = <<>> <=> j = Size(d) + 1
      /\ j <= Size(d) => /\ Head(Rest(d, j)) = Body(d)[j]
                         /\ Tail(Rest(d, j)) = Rest(d, j + 1)
  BY <1>1, Rests
<1>3. Size(d) \in Nat
  BY <1>1, Bodies
<1>4. j \in 1 .. Size(d) /\ j + 1 \in 1 .. Size(d) + 1
  BY <1>1, <1>2, <1>3
<1>5. Head(script[t]) = Body(d)[j] /\ Tail(script[t]) = Rest(d, j + 1)
  BY <1>1, <1>2, <1>3, <1>4
<1> QED
  BY <1>1, <1>4, <1>5 DEF d, j

\* The script of the others does not change.
LEMMA OtherScripts ==
  ASSUME MutexTyped, NEW t \in Mutex!Tasks, NEW s, script' = [script EXCEPT ![t] = s]
  PROVE  /\ DOMAIN script' = Mutex!Tasks /\ script'[t] = s
         /\ \A u \in Mutex!Tasks \ {t} : script'[u] = script[u]
BY DEF MutexTyped

LEMMA TakeStep ==
  ASSUME Mutex!TransmitAssumption, MutexInv, NEW t \in Mutex!Tasks, Mutex!DoTake(t)
  PROVE  MutexInv'
<1>1. PICK c \in [Mutex!Tasks -> CallNames], k \in [Mutex!Tasks -> 1 .. 18] : At(c, k)
  BY DEF MutexInv
<1> DEFINE d == c[t]
           j == k[t]
<1>2. /\ MutexTyped /\ Mutex!Running(t, "take") /\ owner \in {Mutex!Nobody, t}
      /\ owner' = t /\ depth' = depth + 1
      /\ script' = [script EXCEPT ![t] = Tail(script[t])]
      /\ UNCHANGED <<firmwareUpdateActive, lastPiece, outcome>>
  BY DEF MutexInv, Mutex!DoTake, Mutex!Rest
<1>3. /\ d \in CallNames /\ j \in 1 .. Size(d) /\ Body(d)[j].op = "take"
      /\ Tail(script[t]) = Rest(d, j + 1) /\ j + 1 \in 1 .. Size(d) + 1
  BY <1>1, <1>2, Runs
<1>4. /\ AtTask(t, d, j) /\ c[Heat] # "update"
      /\ \A u \in Mutex!Tasks : AtTask(u, c[u], k[u])
      /\ firmwareUpdateActive <=> c[Main] = "update" /\ k[Main] \in 8 .. 11
  BY <1>1 DEF At
<1>5. t # Mutex!Nobody /\ t \in {Main, Heat} /\ Main # Heat
  BY DEF Mutex!TransmitAssumption, Mutex!Nobody, Mutex!Tasks
<1>6. /\ DOMAIN script' = Mutex!Tasks /\ script'[t] = Tail(script[t])
      /\ \A u \in Mutex!Tasks \ {t} : script'[u] = script[u]
  BY <1>2, OtherScripts
<1>7. t = Heat => d # "update"
  BY <1>4
<1>8. t = Main => (firmwareUpdateActive <=> d = "update" /\ j \in 8 .. 11)
  BY <1>4
<1> HIDE DEF d, j
<1>9. j \in TakeAt(d)
  BY <1>3, InstructionAt
<1>10. /\ HeldAt(d, j) \in Nat /\ HeldAt(d, j + 1) = HeldAt(d, j) + 1
       /\ j \notin PutAt(d) /\ j + 1 \notin PutAt(d)
       /\ MidAt(d, j) <=> MidAt(d, j + 1)
       /\ d = "update" => (j \in 8 .. 11 <=> j + 1 \in 8 .. 11)
  BY <1>3, <1>9, TakesOne
<1>11. depth = HeldAt(d, j)
  <2>1. CASE owner = t
    BY <1>4, <2>1 DEF AtTask
  <2>2. CASE owner # t
    BY <1>2, <1>4, <1>10, <2>2 DEF AtTask, MutexTyped
  <2> QED
    BY <2>1, <2>2
<1>12. AtTask(t, d, j + 1)'
  <2>1. script'[t] = Rest(d, j + 1)
    BY <1>3, <1>6
  <2>2. owner' = t /\ HeldAt(d, j + 1) > 0 /\ depth' = HeldAt(d, j + 1)
    BY <1>2, <1>10, <1>11
  <2>3. MidAt(d, j + 1)' <=> MidAt(d, j)
    BY <1>2, <1>10 DEF MidAt
  <2> QED
    BY <1>2, <1>4, <1>10, <2>1, <2>2, <2>3 DEF AtTask
<1>13. ASSUME NEW u \in Mutex!Tasks \ {t} PROVE AtTask(u, c[u], k[u])'
  <2>1. AtTask(u, c[u], k[u]) /\ u # t /\ u # Mutex!Nobody
    BY <1>4 DEF Mutex!TransmitAssumption, Mutex!Nobody, Mutex!Tasks
  <2>2. owner # u /\ owner' # u
    BY <1>2, <2>1
  <2>3. MidAt(c[u], k[u])' <=> MidAt(c[u], k[u])
    BY <1>2 DEF MidAt
  <2> QED
    BY <1>2, <1>6, <2>1, <2>2, <2>3 DEF AtTask
<1>14. firmwareUpdateActive' <=> IF t = Main THEN d = "update" /\ j + 1 \in 8 .. 11
                                 ELSE c[Main] = "update" /\ k[Main] \in 8 .. 11
  BY <1>2, <1>4, <1>8, <1>10
<1>15. MutexTyped'
  BY <1>2, <1>5, <1>6 DEF MutexTyped
<1> QED
  BY <1>1, <1>3, <1>7, <1>12, <1>13, <1>14, <1>15, Moves

LEMMA GiveStep ==
  ASSUME Mutex!TransmitAssumption, MutexInv, NEW t \in Mutex!Tasks, Mutex!DoGive(t)
  PROVE  MutexInv'
<1>1. PICK c \in [Mutex!Tasks -> CallNames], k \in [Mutex!Tasks -> 1 .. 18] : At(c, k)
  BY DEF MutexInv
<1> DEFINE d == c[t]
           j == k[t]
<1>2. /\ MutexTyped /\ Mutex!Running(t, "give")
      /\ depth' = depth - 1 /\ owner' = IF depth = 1 THEN Mutex!Nobody ELSE owner
      /\ script' = [script EXCEPT ![t] = Tail(script[t])]
      /\ UNCHANGED <<firmwareUpdateActive, lastPiece, outcome>>
  BY DEF MutexInv, Mutex!DoGive, Mutex!Rest
<1>3. /\ d \in CallNames /\ j \in 1 .. Size(d) /\ Body(d)[j].op = "give"
      /\ Tail(script[t]) = Rest(d, j + 1) /\ j + 1 \in 1 .. Size(d) + 1
  BY <1>1, <1>2, Runs
<1>4. /\ AtTask(t, d, j) /\ c[Heat] # "update"
      /\ \A u \in Mutex!Tasks : AtTask(u, c[u], k[u])
      /\ firmwareUpdateActive <=> c[Main] = "update" /\ k[Main] \in 8 .. 11
  BY <1>1 DEF At
<1>5. t # Mutex!Nobody /\ t \in {Main, Heat} /\ Main # Heat
  BY DEF Mutex!TransmitAssumption, Mutex!Nobody, Mutex!Tasks
<1>6. /\ DOMAIN script' = Mutex!Tasks /\ script'[t] = Tail(script[t])
      /\ \A u \in Mutex!Tasks \ {t} : script'[u] = script[u]
  BY <1>2, OtherScripts
<1>7. t = Heat => d # "update"
  BY <1>4
<1>8. t = Main => (firmwareUpdateActive <=> d = "update" /\ j \in 8 .. 11)
  BY <1>4
<1> HIDE DEF d, j
<1>9. j \in GiveAt(d)
  BY <1>3, InstructionAt
<1>10. /\ HeldAt(d, j) \in {1, 2} /\ HeldAt(d, j + 1) = HeldAt(d, j) - 1
       /\ j \notin PutAt(d)
       /\ d # "update" => j + 1 \notin PutAt(d)
       /\ MidAt(d, j) <=> MidAt(d, j + 1)
       /\ d = "update" => (j \in 8 .. 11 <=> j + 1 \in 8 .. 11)
  BY <1>3, <1>9, GivesOne
<1>11. owner = t /\ depth = HeldAt(d, j)
  BY <1>4, <1>10 DEF AtTask
<1>12. AtTask(t, d, j + 1)'
  <2>1. script'[t] = Rest(d, j + 1)
    BY <1>3, <1>6
  <2>2. /\ owner' = t <=> HeldAt(d, j + 1) > 0
        /\ depth' = HeldAt(d, j + 1)
    BY <1>2, <1>5, <1>10, <1>11
  <2>3. MidAt(d, j + 1)' <=> MidAt(d, j)
    BY <1>2, <1>10 DEF MidAt
  <2> QED
    BY <1>2, <1>4, <1>10, <2>1, <2>2, <2>3 DEF AtTask
<1>13. ASSUME NEW u \in Mutex!Tasks \ {t} PROVE AtTask(u, c[u], k[u])'
  <2>1. AtTask(u, c[u], k[u]) /\ u # t /\ u # Mutex!Nobody
    BY <1>4 DEF Mutex!TransmitAssumption, Mutex!Nobody, Mutex!Tasks
  <2>2. owner # u /\ owner' # u
    BY <1>2, <1>11, <2>1
  <2>3. MidAt(c[u], k[u])' <=> MidAt(c[u], k[u])
    BY <1>2 DEF MidAt
  <2> QED
    BY <1>2, <1>6, <2>1, <2>2, <2>3 DEF AtTask
<1>14. firmwareUpdateActive' <=> IF t = Main THEN d = "update" /\ j + 1 \in 8 .. 11
                                 ELSE c[Main] = "update" /\ k[Main] \in 8 .. 11
  BY <1>2, <1>4, <1>8, <1>10
<1>15. MutexTyped'
  BY <1>2, <1>5, <1>6, <1>10, <1>11 DEF MutexTyped
<1> QED
  BY <1>1, <1>3, <1>7, <1>12, <1>13, <1>14, <1>15, Moves

\* A frame that is skipped takes the call to where it gives the mutex.
LEMMA TestStep ==
  ASSUME Mutex!TransmitAssumption, MutexInv, NEW t \in Mutex!Tasks, Mutex!DoTest(t)
  PROVE  MutexInv'
<1>1. PICK c \in [Mutex!Tasks -> CallNames], k \in [Mutex!Tasks -> 1 .. 18] : At(c, k)
  BY DEF MutexInv
<1> DEFINE d == c[t]
           j == k[t]
           left == IF firmwareUpdateActive THEN SubSeq(script[t], 4, Len(script[t]))
                   ELSE Tail(script[t])
<1>2. /\ MutexTyped /\ Mutex!Running(t, "test")
      /\ script' = [script EXCEPT ![t] = left]
      /\ UNCHANGED <<owner, depth, firmwareUpdateActive, lastPiece, outcome>>
  BY DEF MutexInv, Mutex!DoTest, Mutex!mutex
<1> HIDE DEF left
<1>3. /\ d \in CallNames /\ j \in 1 .. Size(d) /\ Body(d)[j].op = "test"
      /\ script[t] = Rest(d, j)
      /\ Tail(script[t]) = Rest(d, j + 1) /\ j + 1 \in 1 .. Size(d) + 1
  BY <1>1, <1>2, Runs
<1>4. /\ AtTask(t, d, j) /\ c[Heat] # "update"
      /\ \A u \in Mutex!Tasks : AtTask(u, c[u], k[u])
      /\ firmwareUpdateActive <=> c[Main] = "update" /\ k[Main] \in 8 .. 11
  BY <1>1 DEF At
<1>5. t # Mutex!Nobody /\ t \in {Main, Heat} /\ Main # Heat
  BY DEF Mutex!TransmitAssumption, Mutex!Nobody, Mutex!Tasks
<1>6. /\ DOMAIN script' = Mutex!Tasks /\ script'[t] = left
      /\ \A u \in Mutex!Tasks \ {t} : script'[u] = script[u]
  BY <1>2, OtherScripts
<1>7. t = Heat => d # "update"
  BY <1>4
<1>8. t = Main => (firmwareUpdateActive <=> d = "update" /\ j \in 8 .. 11)
  BY <1>4
<1> HIDE DEF d, j
<1>9. j \in TestAt(d) /\ Size(d) \in Nat
  BY <1>3, InstructionAt, Bodies
<1>10. /\ j + 2 <= Size(d)
       /\ HeldAt(d, j) > 0 /\ HeldAt(d, j + 1) = HeldAt(d, j) /\ HeldAt(d, j + 3) = HeldAt(d, j)
       /\ j + 3 \notin PutAt(d)
       /\ MidAt(d, j) <=> MidAt(d, j + 1)
       /\ firmwareUpdateActive /\ d # "update" => (MidAt(d, j) <=> MidAt(d, j + 3))
       /\ d = "update" => j \notin 8 .. 11 /\ j + 1 \notin 8 .. 11
  BY <1>3, <1>9, TestsOnce
<1>11. owner = t /\ depth = HeldAt(d, j) /\ firmwareUpdateActive \in BOOLEAN
  BY <1>2, <1>4, <1>10 DEF AtTask, MutexTyped
\* During an update it is the heat task that tests.
<1>12. d = "update" => ~firmwareUpdateActive
  BY <1>5, <1>7, <1>8, <1>10
<1>13. PICK n \in 1 .. Size(d) + 1 :
         /\ left = Rest(d, n) /\ HeldAt(d, n) = HeldAt(d, j)
         /\ d # "update" /\ n \in PutAt(d) => ~firmwareUpdateActive
         /\ MidAt(d, n) <=> MidAt(d, j)
         /\ d = "update" => n \notin 8 .. 11
  <2>1. CASE firmwareUpdateActive
    <3>1. SubSeq(Rest(d, j), 4, Len(Rest(d, j))) = Rest(d, j + 3)
      <4>1. d \in CallNames /\ j \in 1 .. Size(d) + 1 /\ j + 2 <= Size(d)
        BY <1>3, <1>9, <1>10
      <4> QED
        BY <4>1, Rests
    <3>2. left = Rest(d, j + 3)
      BY <1>3, <2>1, <3>1 DEF left
    <3>3. j + 3 \in 1 .. Size(d) + 1
      BY <1>3, <1>9, <1>10
    <3> QED
      BY <1>10, <1>12, <2>1, <3>2, <3>3
  <2>2. CASE ~firmwareUpdateActive
    <3>1. left = Rest(d, j + 1)
      BY <1>3, <2>2 DEF left
    <3> QED
      BY <1>3, <1>10, <2>2, <3>1
  <2> QED
    BY <2>1, <2>2
<1>14. AtTask(t, d, n)'
  <2>1. script'[t] = Rest(d, n)
    BY <1>6, <1>13
  <2>2. MidAt(d, n)' <=> MidAt(d, j)
    BY <1>2, <1>13 DEF MidAt
  <2> QED
    BY <1>2, <1>4, <1>13, <2>1, <2>2 DEF AtTask
<1>15. ASSUME NEW u \in Mutex!Tasks \ {t} PROVE AtTask(u, c[u], k[u])'
  <2>1. AtTask(u, c[u], k[u]) /\ script'[u] = script[u]
    BY <1>4, <1>6
  <2>2. MidAt(c[u], k[u])' <=> MidAt(c[u], k[u])
    BY <1>2 DEF MidAt
  <2> QED
    BY <1>2, <2>1, <2>2 DEF AtTask
<1>16. firmwareUpdateActive' <=> IF t = Main THEN d = "update" /\ n \in 8 .. 11
                                 ELSE c[Main] = "update" /\ k[Main] \in 8 .. 11
  BY <1>2, <1>4, <1>8, <1>10, <1>13
<1>17. MutexTyped'
  BY <1>2, <1>6 DEF MutexTyped
<1> QED
  BY <1>1, <1>3, <1>7, <1>14, <1>15, <1>16, <1>17, Moves

\* What is put on the line goes on with what the task has begun there, or
\* begins, after the other has ended.
LEMMA PutStep ==
  ASSUME Mutex!TransmitAssumption, MutexInv, NEW t \in Mutex!Tasks, Mutex!DoPut(t)
  PROVE  /\ MutexInv'
         /\ lastPiece'.by # lastPiece.by => lastPiece.last /\ lastPiece'.first
<1>1. PICK c \in [Mutex!Tasks -> CallNames], k \in [Mutex!Tasks -> 1 .. 18] : At(c, k)
  BY DEF MutexInv
<1> DEFINE d == c[t]
           j == k[t]
           a == Head(script[t]).first
           b == Head(script[t]).last
<1>2. /\ MutexTyped /\ Mutex!Running(t, "put")
      /\ lastPiece' = [by |-> t, first |-> a, last |-> b]
      /\ script' = [script EXCEPT ![t] = Tail(script[t])]
      /\ UNCHANGED <<owner, depth, firmwareUpdateActive, outcome>>
  BY DEF MutexInv, Mutex!DoPut, Mutex!Rest, Mutex!mutex
<1>3. /\ d \in CallNames /\ j \in 1 .. Size(d) /\ Body(d)[j].op = "put"
      /\ Head(script[t]) = Body(d)[j]
      /\ Tail(script[t]) = Rest(d, j + 1) /\ j + 1 \in 1 .. Size(d) + 1
  BY <1>1, <1>2, Runs
<1>4. /\ AtTask(t, d, j) /\ c[Heat] # "update" /\ d \in CallNames
      /\ \A u \in Mutex!Tasks : AtTask(u, c[u], k[u]) /\ c[u] \in CallNames
      /\ firmwareUpdateActive <=> c[Main] = "update" /\ k[Main] \in 8 .. 11
  BY <1>1 DEF At
<1>5. t # Mutex!Nobody /\ t \in {Main, Heat} /\ Main # Heat
  BY DEF Mutex!TransmitAssumption, Mutex!Nobody, Mutex!Tasks
<1>6. /\ DOMAIN script' = Mutex!Tasks /\ script'[t] = Tail(script[t])
      /\ \A u \in Mutex!Tasks \ {t} : script'[u] = script[u]
  BY <1>2, OtherScripts
<1>7. t = Heat => d # "update"
  BY <1>4
<1>8. t = Main => (firmwareUpdateActive <=> d = "update" /\ j \in 8 .. 11)
  BY <1>4
<1> HIDE DEF d, j
<1>9. /\ j \in PutAt(d)
      /\ a <=> j = FirstAt(d)
      /\ b <=> j = LastAt(d)
      /\ a \in BOOLEAN /\ b \in BOOLEAN
  <2>1. j \in PutAt(d) /\ (Body(d)[j].first <=> j = FirstAt(d)) /\ (Body(d)[j].last <=> j = LastAt(d))
    BY <1>3, InstructionAt
  <2>2. Body(d) \in Seq(Instructions) /\ j \in 1 .. Len(Body(d))
    BY <1>3, Bodies
  <2>3. Body(d)[j] \in Instructions
    BY <2>2, ElementOfSeq
  <2>4. Body(d)[j] \in [op : {"put"}, first : BOOLEAN, last : BOOLEAN]
    BY <1>3, <2>3 DEF Instructions
  <2>5. Body(d)[j].first \in BOOLEAN /\ Body(d)[j].last \in BOOLEAN
    BY <2>4
  <2> QED
    BY <1>3, <2>1, <2>5
<1>10. /\ HeldAt(d, j + 1) = HeldAt(d, j)
       /\ \/ HeldAt(d, j) > 0
          \/ d = "update" /\ j = 9
       /\ d = "update" \/ ~firmwareUpdateActive
       /\ MidAt(d, j) <=> j # FirstAt(d)
       /\ MidAt(d, j + 1) <=> j # LastAt(d)
       /\ d = "update" => (j \in 8 .. 11 <=> j + 1 \in 8 .. 11)
  <2>1. d = "update" \/ ~firmwareUpdateActive
    BY <1>4, <1>9 DEF AtTask
  <2> QED
    BY <1>3, <1>9, <2>1, PutsOne
<1>11. /\ lastPiece' \in [by : Mutex!Tasks \cup {Mutex!Nobody}, first : BOOLEAN, last : BOOLEAN]
       /\ lastPiece'.by = t /\ (lastPiece'.first <=> a) /\ (lastPiece'.last <=> b)
  BY <1>2, <1>9
<1> HIDE DEF a, b
\* The others are not in the middle of theirs.
<1>12. ASSUME NEW u \in Mutex!Tasks \ {t} PROVE ~MidAt(c[u], k[u])
  <2>1. u \in Mutex!Tasks /\ AtTask(u, c[u], k[u]) /\ c[u] \in CallNames /\ u # t
    BY <1>4
  <2> SUFFICES ASSUME MidAt(c[u], k[u]) PROVE FALSE
    OBVIOUS
  <2>2. \/ HeldAt(c[u], k[u]) > 0
        \/ c[u] = "update" /\ k[u] \in {9, 10}
    BY <2>1, MiddleIsHeld
  <2>3. CASE HeldAt(c[u], k[u]) > 0
    <3>1. owner = u
      BY <2>1, <2>3 DEF AtTask
    <3>2. ~(HeldAt(d, j) > 0)
      BY <1>4, <2>1, <3>1 DEF AtTask
    <3>3. d = "update" /\ j = 9
      BY <1>10, <3>2
    <3>4. t = Main /\ u = Heat
      BY <1>5, <1>7, <2>1, <3>3 DEF Mutex!Tasks
    <3>5. firmwareUpdateActive
      BY <1>8, <3>3, <3>4
    <3>6. c[u] # "update" /\ c[u] # "several"
      BY <1>4, <3>4, <3>5 DEF MidAt
    <3>7. c[u] = "one" /\ k[u] = 4
      BY <3>6 DEF MidAt
    <3>8. k[u] \in PutAt(c[u])
      BY <3>7 DEF PutAt
    <3> QED
      BY <2>1, <3>5, <3>6, <3>8 DEF AtTask
  <2>4. CASE c[u] = "update" /\ k[u] \in {9, 10}
    <3>1. u = Main /\ t = Heat
      BY <1>4, <1>5, <2>1, <2>4 DEF Mutex!Tasks
    <3>2. firmwareUpdateActive
      BY <1>4, <2>4, <3>1
    <3> QED
      BY <1>7, <1>10, <3>1, <3>2
  <2> QED
    BY <2>2, <2>3, <2>4
<1>13. AtTask(t, d, j + 1)'
  <2>1. script'[t] = Rest(d, j + 1)
    BY <1>3, <1>6
  <2>2. MidAt(d, j + 1)' <=> MidAt(d, j + 1)
    BY <1>2 DEF MidAt
  <2>3. MidAt(d, j + 1)' <=> lastPiece'.by = t /\ ~lastPiece'.last
    BY <1>9, <1>10, <1>11, <2>2
  <2>4. d # "update" => ~firmwareUpdateActive'
    BY <1>2, <1>10
  <2> QED
    BY <1>2, <1>4, <1>10, <2>1, <2>3, <2>4 DEF AtTask
<1>14. ASSUME NEW u \in Mutex!Tasks \ {t} PROVE AtTask(u, c[u], k[u])'
  <2>1. AtTask(u, c[u], k[u]) /\ script'[u] = script[u]
    BY <1>4, <1>6
  <2>2. ~MidAt(c[u], k[u])'
    BY <1>2, <1>12 DEF MidAt
  <2>3. lastPiece'.by # u
    BY <1>11
  <2> QED
    BY <1>2, <2>1, <2>2, <2>3 DEF AtTask
<1>15. firmwareUpdateActive' <=> IF t = Main THEN d = "update" /\ j + 1 \in 8 .. 11
                                 ELSE c[Main] = "update" /\ k[Main] \in 8 .. 11
  BY <1>2, <1>4, <1>8, <1>10
<1>16. MutexTyped'
  BY <1>2, <1>5, <1>6, <1>11 DEF MutexTyped
<1>17. MutexInv'
  BY <1>1, <1>3, <1>7, <1>13, <1>14, <1>15, <1>16, Moves
<1>18. ASSUME lastPiece'.by # lastPiece.by PROVE lastPiece.last /\ lastPiece'.first
  <2>1. lastPiece.by # t
    BY <1>11, <1>18
  <2>2. lastPiece'.first
    BY <1>4, <1>9, <1>10, <1>11, <2>1 DEF AtTask
  <2>3. lastPiece.by \in Mutex!Tasks \cup {Mutex!Nobody} /\ lastPiece.last \in BOOLEAN
    BY <1>2 DEF MutexTyped
  <2>4. CASE lastPiece.by = Mutex!Nobody
    BY <1>2, <2>2, <2>4 DEF MutexTyped
  <2>5. CASE lastPiece.by \in Mutex!Tasks
    <3>1. lastPiece.by \in Mutex!Tasks \ {t}
      BY <2>1, <2>5
    <3>2. ~MidAt(c[lastPiece.by], k[lastPiece.by])
      BY <1>12, <3>1
    <3>3. AtTask(lastPiece.by, c[lastPiece.by], k[lastPiece.by])
      BY <1>4, <2>5
    <3>4. lastPiece.last
      BY <3>2, <3>3 DEF AtTask
    <3> QED
      BY <2>2, <3>4
  <2> QED
    BY <2>3, <2>4, <2>5
<1> QED
  BY <1>17, <1>18

\* Only the main task, which then has the mutex, makes an update active or not.
LEMMA ActivateStep ==
  ASSUME Mutex!TransmitAssumption, MutexInv, NEW t \in Mutex!Tasks, Mutex!DoActivate(t)
  PROVE  MutexInv'
<1>1. PICK c \in [Mutex!Tasks -> CallNames], k \in [Mutex!Tasks -> 1 .. 18] : At(c, k)
  BY DEF MutexInv
<1> DEFINE d == c[t]
           j == k[t]
<1>2. /\ MutexTyped
      /\ Mutex!Running(t, "activate") \/ Mutex!Running(t, "deactivate")
      /\ firmwareUpdateActive' = (Head(script[t]).op = "activate")
      /\ script' = [script EXCEPT ![t] = Tail(script[t])]
      /\ UNCHANGED <<owner, depth, lastPiece, outcome>>
  BY DEF MutexInv, Mutex!DoActivate, Mutex!Rest, Mutex!mutex
<1>3. /\ d \in CallNames /\ j \in 1 .. Size(d) /\ Body(d)[j].op \in {"activate", "deactivate"}
      /\ Head(script[t]) = Body(d)[j]
      /\ Tail(script[t]) = Rest(d, j + 1) /\ j + 1 \in 1 .. Size(d) + 1
  <2>1. CASE Mutex!Running(t, "activate")
    BY <1>1, <2>1, Runs
  <2>2. CASE Mutex!Running(t, "deactivate")
    BY <1>1, <2>2, Runs
  <2> QED
    BY <1>2, <2>1, <2>2
<1>4. /\ AtTask(t, d, j) /\ c[Heat] # "update"
      /\ \A u \in Mutex!Tasks : AtTask(u, c[u], k[u]) /\ c[u] \in CallNames
      /\ firmwareUpdateActive <=> c[Main] = "update" /\ k[Main] \in 8 .. 11
  BY <1>1 DEF At
<1>5. t # Mutex!Nobody /\ t \in {Main, Heat} /\ Main # Heat
  BY DEF Mutex!TransmitAssumption, Mutex!Nobody, Mutex!Tasks
<1>6. /\ DOMAIN script' = Mutex!Tasks /\ script'[t] = Tail(script[t])
      /\ \A u \in Mutex!Tasks \ {t} : script'[u] = script[u]
  BY <1>2, OtherScripts
<1>7. t = Heat => d # "update"
  BY <1>4
<1> HIDE DEF d, j
<1>8. /\ d = "update"
      /\ \/ j = 7 /\ firmwareUpdateActive'
         \/ j = 11 /\ ~firmwareUpdateActive'
  <2>1. j \in ActivateAt(d) \/ j \in DeactivateAt(d)
    BY <1>3, InstructionAt
  <2>2. d = "update" /\ j \in {7, 11}
    BY <2>1 DEF ActivateAt, DeactivateAt
  <2>3. firmwareUpdateActive' <=> j = 7
    BY <1>2, <1>3, <2>2, InstructionAt DEF ActivateAt
  <2> QED
    BY <2>2, <2>3
<1>9. t = Main
  BY <1>5, <1>7, <1>8
<1>10. HeldAt(d, j) = 1 /\ HeldAt(d, j + 1) = 1 /\ MidAt(d, j) /\ MidAt(d, j + 1)'
  BY <1>8 DEF HeldAt, MidAt
<1>11. owner = t /\ depth = 1 /\ lastPiece.by = t /\ ~lastPiece.last
  BY <1>4, <1>10 DEF AtTask
<1>12. AtTask(t, d, j + 1)'
  <2>1. script'[t] = Rest(d, j + 1)
    BY <1>3, <1>6
  <2> QED
    BY <1>2, <1>8, <1>10, <1>11, <2>1 DEF AtTask
<1>13. ASSUME NEW u \in Mutex!Tasks \ {t} PROVE AtTask(u, c[u], k[u])'
  <2>1. AtTask(u, c[u], k[u]) /\ script'[u] = script[u] /\ u # t /\ c[u] \in CallNames
    BY <1>4, <1>6
  <2>2. u = Heat /\ c[u] # "update"
    BY <1>4, <1>9, <2>1 DEF Mutex!Tasks
  <2>3. owner # u /\ ~(HeldAt(c[u], k[u]) > 0)
    BY <1>11, <2>1 DEF AtTask
  <2>4. k[u] \notin PutAt(c[u])
    <3> SUFFICES ASSUME k[u] \in PutAt(c[u]) PROVE FALSE
      OBVIOUS
    <3> QED
      BY <2>1, <2>2, <2>3, PutsOne
  <2>5. ~MidAt(c[u], k[u])'
    <3>1. ~(c[u] = "one" /\ k[u] = 4)
      BY <2>4 DEF PutAt
    <3>2. ~(c[u] = "several" /\ k[u] \in 5 .. 15)
      <4> SUFFICES ASSUME c[u] = "several", k[u] \in 5 .. 15 PROVE FALSE
        OBVIOUS
      <4>1. HeldAt(c[u], k[u]) > 0
        BY DEF HeldAt
      <4> QED
        BY <2>3, <4>1
    <3> QED
      BY <2>2, <3>1, <3>2 DEF MidAt
  <2>6. lastPiece.by # u
    BY <1>11, <2>1
  <2> QED
    BY <1>2, <2>1, <2>3, <2>4, <2>5, <2>6 DEF AtTask
<1>14. firmwareUpdateActive' <=> IF t = Main THEN d = "update" /\ j + 1 \in 8 .. 11
                                 ELSE c[Main] = "update" /\ k[Main] \in 8 .. 11
  BY <1>8, <1>9
<1>15. MutexTyped'
  BY <1>2, <1>6 DEF MutexTyped
<1> QED
  BY <1>1, <1>3, <1>7, <1>12, <1>13, <1>14, <1>15, Moves

\* A new call.
LEMMA CallStep ==
  ASSUME Mutex!TransmitAssumption, MutexInv, NEW t \in Mutex!Tasks, Mutex!Call(t)
  PROVE  MutexInv'
<1>1. PICK c \in [Mutex!Tasks -> CallNames], k \in [Mutex!Tasks -> 1 .. 18] : At(c, k)
  BY DEF MutexInv
<1>2. PICK s \in Mutex!Calls(t) : script' = [script EXCEPT ![t] = s]
  BY DEF Mutex!Call
<1>3. /\ MutexTyped /\ script[t] = <<>>
      /\ UNCHANGED <<owner, depth, firmwareUpdateActive, lastPiece, outcome>>
  BY DEF MutexInv, Mutex!Call, Mutex!mutex
<1>4. PICK e \in CallNames : s = Body(e) /\ (t = Heat => e # "update")
  <2>1. s \in {Mutex!OneFrame, Mutex!SeveralFrames} \/ (t = Main /\ s = Mutex!Update)
    BY <1>2 DEF Mutex!Calls
  <2>2. Main # Heat
    BY DEF Mutex!TransmitAssumption
  <2>3. CASE s = Mutex!OneFrame
    <3>1. s = Body("one")
      BY <2>3 DEF Body
    <3> QED
      BY <3>1 DEF CallNames
  <2>4. CASE s = Mutex!SeveralFrames
    <3>1. s = Body("several")
      BY <2>4 DEF Body
    <3> QED
      BY <3>1 DEF CallNames
  <2>5. CASE t = Main /\ s = Mutex!Update
    <3>1. s = Body("update")
      BY <2>5 DEF Body
    <3> QED
      BY <2>2, <2>5, <3>1 DEF CallNames
  <2> QED
    BY <2>1, <2>3, <2>4, <2>5
<1>5. /\ AtTask(t, c[t], k[t]) /\ c[t] \in CallNames /\ k[t] \in 1 .. Size(c[t]) + 1
      /\ c[Heat] # "update"
      /\ \A u \in Mutex!Tasks : AtTask(u, c[u], k[u])
      /\ firmwareUpdateActive <=> c[Main] = "update" /\ k[Main] \in 8 .. 11
  BY <1>1 DEF At
<1>6. k[t] = Size(c[t]) + 1
  <2>1. Rest(c[t], k[t]) = <<>>
    BY <1>3, <1>5 DEF AtTask
  <2> QED
    BY <1>5, <2>1, Rests
<1>7. /\ owner # t /\ ~(lastPiece.by = t /\ ~lastPiece.last)
      /\ t = Main => ~firmwareUpdateActive
  <2>1. /\ HeldAt(c[t], Size(c[t]) + 1) = 0 /\ ~MidAt(c[t], Size(c[t]) + 1)
        /\ Size(c[t]) + 1 \notin 8 .. 11
    BY <1>5, EndsFree
  <2> QED
    BY <1>5, <1>6, <2>1 DEF AtTask
<1>8. /\ HeldAt(e, 1) = 0 /\ ~MidAt(e, 1) /\ ~MidAt(e, 1)' /\ 1 \notin PutAt(e)
      /\ 1 \in 1 .. Size(e) + 1 /\ s = Rest(e, 1)
  <2>1. /\ HeldAt(e, 1) = 0 /\ ~MidAt(e, 1) /\ 1 \notin PutAt(e)
    BY <1>4, EndsFree
  <2>2. ~MidAt(e, 1)'
    BY <1>3, <2>1 DEF MidAt
  <2>3. Body(e) \in Seq(Instructions) /\ Len(Body(e)) = Size(e) /\ Size(e) \in {5, 17}
    BY <1>4, Bodies
  <2>4. SubSeq(Body(e), 1, Len(Body(e))) = Body(e)
    BY <2>3, SubSeqFull
  <2> QED
    BY <1>4, <2>1, <2>2, <2>3, <2>4 DEF Rest
<1>9. /\ DOMAIN script' = Mutex!Tasks /\ script'[t] = s
      /\ \A u \in Mutex!Tasks \ {t} : script'[u] = script[u]
  BY <1>2, <1>3, OtherScripts
<1>10. AtTask(t, e, 1)'
  BY <1>3, <1>7, <1>8, <1>9 DEF AtTask
<1>11. ASSUME NEW u \in Mutex!Tasks \ {t} PROVE AtTask(u, c[u], k[u])'
  <2>1. AtTask(u, c[u], k[u]) /\ script'[u] = script[u]
    BY <1>5, <1>9
  <2>2. MidAt(c[u], k[u])' <=> MidAt(c[u], k[u])
    BY <1>3 DEF MidAt
  <2> QED
    BY <1>3, <2>1, <2>2 DEF AtTask
<1>12. firmwareUpdateActive' <=> IF t = Main THEN e = "update" /\ 1 \in 8 .. 11
                                 ELSE c[Main] = "update" /\ k[Main] \in 8 .. 11
  BY <1>3, <1>5, <1>7
<1>13. MutexTyped'
  BY <1>3, <1>9 DEF MutexTyped
<1> QED
  BY <1>1, <1>4, <1>8, <1>10, <1>11, <1>12, <1>13, Moves

LEMMA MutexStart ==
  ASSUME Mutex!TransmitAssumption, Mutex!Init
  PROVE  MutexInv
<1> DEFINE c == [t \in Mutex!Tasks |-> "one"]
           k == [t \in Mutex!Tasks |-> 6]
<1>1. c \in [Mutex!Tasks -> CallNames] /\ k \in [Mutex!Tasks -> 1 .. 18]
  BY DEF CallNames
<1>2. /\ script = [t \in Mutex!Tasks |-> <<>>] /\ owner = Mutex!Nobody /\ depth = 0
      /\ firmwareUpdateActive = FALSE /\ outcome = "none"
      /\ lastPiece = [by |-> Mutex!Nobody, first |-> TRUE, last |-> TRUE]
  BY DEF Mutex!Init
<1>3. MutexTyped
  <2>1. lastPiece \in [by : Mutex!Tasks \cup {Mutex!Nobody}, first : BOOLEAN, last : BOOLEAN]
    BY <1>2
  <2> QED
    BY <1>2, <2>1 DEF MutexTyped
<1>4. ASSUME NEW t \in Mutex!Tasks PROVE 6 \in 1 .. Size("one") + 1 /\ AtTask(t, "one", 6)
  <2>1. Rest("one", 6) = <<>> /\ Size("one") = 5
    <3>1. Size("one") = 5 /\ "one" \in CallNames
      BY DEF Size, CallNames
    <3> QED
      BY <3>1, Rests
  <2>2. HeldAt("one", 6) = 0 /\ ~MidAt("one", 6) /\ 6 \notin PutAt("one")
    BY DEF HeldAt, MidAt, PutAt
  <2>3. t # Mutex!Nobody
    BY DEF Mutex!TransmitAssumption, Mutex!Tasks, Mutex!Nobody
  <2> QED
    BY <1>2, <2>1, <2>2, <2>3 DEF AtTask
<1>5. At(c, k)
  <2>1. Main \in Mutex!Tasks /\ Heat \in Mutex!Tasks
    BY DEF Mutex!Tasks
  <2> QED
    BY <1>2, <1>4, <2>1 DEF At
<1> QED
  BY <1>1, <1>3, <1>5 DEF MutexInv

LEMMA MutexStep ==
  ASSUME Mutex!TransmitAssumption, MutexInv, Mutex!Next
  PROVE  /\ MutexInv'
         /\ lastPiece'.by # lastPiece.by => lastPiece.last /\ lastPiece'.first
<1>1. PICK t \in Mutex!Tasks : Mutex!Call(t) \/ Mutex!Step(t)
  BY DEF Mutex!Next
<1>2. CASE Mutex!Call(t)
  BY <1>2, CallStep DEF Mutex!Call
<1>3. CASE Mutex!DoTake(t)
  BY <1>3, TakeStep DEF Mutex!DoTake
<1>4. CASE Mutex!DoGive(t)
  BY <1>4, GiveStep DEF Mutex!DoGive
<1>5. CASE Mutex!DoTest(t)
  BY <1>5, TestStep DEF Mutex!DoTest
<1>6. CASE Mutex!DoPut(t)
  BY <1>6, PutStep
<1>7. CASE Mutex!DoActivate(t)
  BY <1>7, ActivateStep DEF Mutex!DoActivate
<1> QED
  BY <1>1, <1>2, <1>3, <1>4, <1>5, <1>6, <1>7 DEF Mutex!Step

LEMMA MutexStutter ==
  ASSUME MutexInv, UNCHANGED mutexVars
  PROVE  MutexInv'
<1>1. PICK c \in [Mutex!Tasks -> CallNames], k \in [Mutex!Tasks -> 1 .. 18] : At(c, k)
  BY DEF MutexInv
<1>2. UNCHANGED <<script, owner, depth, firmwareUpdateActive, lastPiece, outcome>>
  BY DEF mutexVars
<1>3. At(c, k)'
  BY <1>1, <1>2 DEF At, AtTask, MidAt
<1>4. MutexTyped'
  BY <1>2 DEF MutexInv, MutexTyped
<1> QED
  BY <1>3, <1>4 DEF MutexInv

\* What a call of one task sends, a frame, the three frames of a model, a replay
\* or an update of the firmware, the other task does not break into: each takes
\* the mutex before its first piece and gives it after its last, and what does
\* not take it, the bytes of an update, is sent while an update is active, which
\* makes the other skip its frames.
THEOREM CallsStayWhole == Spec => CallsAreWhole
<1>1. Mutex!TransmitAssumption
  BY PartsAssumption
<1>2. Init => MutexInv
  BY <1>1, MutexStart DEF Init
<1>3. MutexInv /\ [Next]_vars =>
        /\ MutexInv'
        /\ [lastPiece'.by # lastPiece.by => lastPiece.last /\ lastPiece'.first]_lastPiece
  <2> SUFFICES ASSUME MutexInv, [Next]_vars
               PROVE  /\ MutexInv'
                      /\ lastPiece'.by # lastPiece.by => lastPiece.last /\ lastPiece'.first
    OBVIOUS
  <2>1. CASE Mutex!Next
    BY <1>1, <2>1, MutexStep
  <2>2. CASE UNCHANGED mutexVars
    BY <2>2, MutexStutter DEF mutexVars
  <2> QED
    BY <2>1, <2>2 DEF Next, Others, vars
<1> QED
  BY <1>2, <1>3, PTL DEF Spec, CallsAreWhole, Mutex!CallsAreWhole

-----------------------------------------------------------------------------
(* The types.                                                              *)

\* What PinsTyped leaves out of the types.
PinLevels == {"float", "low", "high", "part"}
PinsDriven ==
  /\ out \in [Pins!Pins -> PinLevels] /\ pwmValue \in [Outputs -> Duties \cup {"none"}]
  /\ first \subseteq Inputs /\ missed \subseteq Inputs

LEMMA DrivenDevice ==
  ASSUME PinsDriven, Pins!Device
  PROVE  PinsDriven'
<1> USE DEF PinsDriven, Pins!Operation, Pins!lpc
<1>1. ASSUME NEW p \in Inputs, Pins!SetInput(p) PROVE PinsDriven'
  BY <1>1 DEF Pins!SetInput
<1>2. ASSUME NEW p \in Outputs, Pins!SetOutput(p) PROVE PinsDriven'
  BY <1>2 DEF Pins!SetOutput
<1>3. ASSUME NEW p \in Outputs, Pins!WritePin(p) PROVE PinsDriven'
  BY <1>3 DEF Pins!WritePin
<1>4. ASSUME NEW p \in Outputs, Pins!WritePwm(p) PROVE PinsDriven'
  <2>1. PICK d \in Duties : pwmValue' = [pwmValue EXCEPT ![p] = d]
    BY <1>4 DEF Pins!WritePwm
  <2>2. UNCHANGED <<out, first, missed>>
    BY <1>4 DEF Pins!WritePwm
  <2> QED
    BY <2>1, <2>2
<1> QED
  BY <1>1, <1>2, <1>3, <1>4 DEF Pins!Device

LEMMA DrivenLink ==
  ASSUME PinsDriven, Pins!Link
  PROVE  PinsDriven'
<1>1. UNCHANGED <<out, pwmValue, first, missed>>
  BY DEF Pins!Link, Pins!SendPing, Pins!HandlePong, Pins!HandleGpioState, Pins!host, Pins!lpc,
         Pins!history
<1> QED
  BY <1>1 DEF PinsDriven

\* The pin of a frame is an input or an output, and so is what it says.
LEMMA DrivenLpc ==
  ASSUME PinsDriven, Pins!Lpc
  PROVE  PinsDriven'
<1> USE DEF PinsDriven, PinLevels, Pins!FromHost, Pins!host
<1>1. CASE Pins!LpcPing
  BY <1>1 DEF Pins!LpcPing, Pins!lpc
<1>2. CASE Pins!ConfigurationReset
  BY <1>2 DEF Pins!ConfigurationReset
<1>3. CASE Pins!ConfigurationComplete
  BY <1>3 DEF Pins!ConfigurationComplete
<1>4. CASE Pins!LpcConfig
  BY <1>4 DEF Pins!LpcConfig, Pins!Configure, Pins!Level
<1>5. CASE Pins!LpcWrite
  BY <1>5 DEF Pins!LpcWrite, Pins!Level
<1>6. CASE Pins!LpcPwm
  BY <1>6 DEF Pins!LpcPwm, Pins!Configure, Pins!Level
<1> QED
  BY <1>1, <1>2, <1>3, <1>4, <1>5, <1>6 DEF Pins!Lpc

LEMMA DrivenEnvironment ==
  ASSUME PinsInv, PinsDriven, Pins!Environment
  PROVE  PinsDriven'
<1> USE DEF PinsDriven
<1>1. CASE Pins!PongTimeout
  BY <1>1 DEF Pins!PongTimeout, Pins!lpc, Pins!history
<1>2. ASSUME NEW p \in Inputs, Pins!Change(p) PROVE PinsDriven'
  BY <1>2 DEF Pins!Change, Pins!host, Pins!lpc
<1>3. CASE Pins!LoseToLpc
  BY <1>3 DEF Pins!LoseToLpc, Pins!Loss, Pins!host, Pins!lpc
<1>4. CASE Pins!LoseToHost
  <2>1. toHost \in Seq(PinReports) /\ toHost # <<>> /\ UNCHANGED <<out, pwmValue, first>>
        /\ missed' = IF Head(toHost).type = "gpioState" THEN missed \cup {Head(toHost).pin} ELSE missed
    BY <1>4 DEF Pins!LoseToHost, Pins!Loss, Pins!host, Pins!lpc, PinsInv, PinsTyped
  <2>2. Head(toHost) \in PinReports
    BY <2>1, FrameTaken
  <2>3. Head(toHost).type = "gpioState" => Head(toHost).pin \in Inputs
    BY <2>2 DEF PinReports
  <2> QED
    BY <2>1, <2>3
<1>5. CASE Pins!LpcReboot
  BY <1>5 DEF Pins!LpcReboot, Pins!host, PinLevels
<1> QED
  BY <1>1, <1>2, <1>3, <1>4, <1>5 DEF Pins!Environment

LEMMA DrivenStep ==
  ASSUME PinsInv, PinsDriven, Pins!Next
  PROVE  PinsDriven'
<1>1. ASSUME NEW p \in Inputs, Pins!Poll(p) PROVE PinsDriven'
  BY <1>1 DEF Pins!Poll, Pins!host, PinsDriven
<1> QED
  BY <1>1, DrivenDevice, DrivenLink, DrivenLpc, DrivenEnvironment DEF Pins!Next, Pins!PollInputs

LEMMA DrivenStart == Pins!Init => PinsDriven
BY DEF Pins!Init, PinsDriven, PinLevels

LEMMA DrivenStutter ==
  ASSUME PinsDriven, UNCHANGED pinsVars
  PROVE  PinsDriven'
BY DEF PinsDriven, pinsVars

\* The types of the pins follow.
LEMMA PinsTypes == PinsInv /\ PinsDriven => Pins!TypeOK
<1> SUFFICES ASSUME PinsInv, PinsDriven PROVE Pins!TypeOK
  OBVIOUS
<1>1. PinsTyped /\ dutyWritten \subseteq Outputs
  BY DEF PinsInv, PinsTyped
<1> QED
  BY <1>1 DEF PinsTyped, PinsDriven, PinLevels, Pins!TypeOK

\* However many frames are lost in a row, the parts that are pending are of
\* models that the host sent.
ModelTyped ==
  /\ UpdateTyped
  /\ model \in {Update!Whole(Update!Nothing)} \cup (Models \X Models \X Models)
  /\ pendingModelParts >= 1 => pendingModel[1] \in Models
  /\ pendingModelParts = 2 => pendingModel[2] \in Models

\* A third part makes a model of the two that are pending.
LEMMA Appended ==
  ASSUME NEW a \in Models, NEW b \in Models, NEW c \in Models
  PROVE  Append(<<a, b>>, c) = <<a, b, c>>
<1> DEFINE put == Append(<<a, b>>, c)
           all == <<a, b, c>>
<1>1. <<a, b>> \in Seq(Models) /\ Len(<<a, b>>) = 2
  OBVIOUS
<1>2. put \in Seq(Models) /\ Len(put) = 3 /\ put[1] = a /\ put[2] = b /\ put[3] = c
  BY <1>1, AppendProperties
<1>3. all \in Seq(Models) /\ Len(all) = 3 /\ all[1] = a /\ all[2] = b /\ all[3] = c
  OBVIOUS
<1> HIDE DEF put, all
<1>4. \A i \in 1 .. Len(put) : put[i] = all[i]
  BY <1>2, <1>3
<1>5. put = all
  BY <1>2, <1>3, <1>4, SeqEqual
<1> QED
  BY <1>5 DEF put, all

LEMMA ModelStep ==
  ASSUME ModelTyped, Update!Next
  PROVE  ModelTyped'
<1> USE ModelFacts DEF ModelTyped
<1>1. CASE Update!StartUpdate
  BY <1>1 DEF Update!StartUpdate, UpdateTyped
<1>2. CASE Update!Lose
  <2>1. nextFrame \in 1 .. 3 /\ nextFrame' = (IF nextFrame = 3 THEN 0 ELSE nextFrame + 1)
    BY <1>2 DEF Update!Lose, Update!NextPart, UpdateTyped
  <2>2. arrived' \in BOOLEAN
    BY <1>2, Zenon DEF Update!Lose
  <2> QED
    BY <1>2, <2>1, <2>2 DEF Update!Lose, Update!NextPart, UpdateTyped
<1>3. CASE Update!ResetConfiguration
  <2>1. modelConfigured' \in BOOLEAN
    BY <1>3, Zenon DEF Update!ResetConfiguration
  <2> QED
    BY <1>3, <2>1 DEF Update!ResetConfiguration, Update!host, UpdateTyped
<1>4. CASE Update!SwitchOn
  BY <1>4 DEF Update!SwitchOn, Update!host, UpdateTyped
<1>5. CASE Update!ResetFault
  BY <1>5 DEF Update!ResetFault, Update!host, UpdateTyped
<1>6. CASE Update!ConfigureModelA
  BY <1>6 DEF Update!ConfigureModelA, Update!Receive, Update!NextPart, UpdateTyped
<1>7. CASE Update!ConfigureModelB
  BY <1>7 DEF Update!ConfigureModelB, Update!Receive, Update!NextPart, Update!InTurn,
              Update!RejectModelUpdate, UpdateTyped
<1>8. CASE Update!ConfigureModelC
  <2>1. nextFrame = 3 /\ nextFrame' = 0 /\ sending \in Models /\ sending' = sending
        /\ lost' = 0 /\ arrived' = arrived
    BY <1>8 DEF Update!ConfigureModelC, Update!Receive, Update!NextPart, UpdateTyped
  <2>2. CASE Update!InTurn(2) /\ sending \notin Invalid
    <3>1. pendingModelParts' = 0 /\ modelConfigured' = TRUE /\ pendingModel' = pendingModel
          /\ heater' = heater /\ model' = Append(pendingModel, sending)
      BY <1>8, <2>2 DEF Update!ConfigureModelC
    <3>2. PICK a \in Models, b \in Models : pendingModel = <<a, b>>
      BY <2>2 DEF Update!InTurn, UpdateTyped
    <3>3. Append(<<a, b>>, sending) = <<a, b, sending>>
      BY <2>1, Appended
    <3>4. model' \in Models \X Models \X Models
      BY <2>1, <3>1, <3>2, <3>3
    <3>5. UpdateTyped'
      BY <2>1, <3>1 DEF UpdateTyped
    <3> QED
      BY <3>1, <3>4, <3>5
  <2>3. CASE ~(Update!InTurn(2) /\ sending \notin Invalid)
    <3>1. Update!RejectModelUpdate
      BY <1>8, <2>3 DEF Update!ConfigureModelC
    <3> QED
      BY <2>1, <3>1 DEF Update!RejectModelUpdate, UpdateTyped
  <2> QED
    BY <2>2, <2>3
<1> QED
  BY <1>1, <1>2, <1>3, <1>4, <1>5, <1>6, <1>7, <1>8 DEF Update!Next

LEMMA ModelStart == Update!Init => ModelTyped
<1> SUFFICES ASSUME Update!Init PROVE ModelTyped
  OBVIOUS
<1>1. UpdateTyped
  BY UpdateStart DEF UpdateInv
<1>2. pendingModelParts = 0 /\ model = Update!Whole(Update!Nothing)
  BY DEF Update!Init
<1> QED
  BY <1>1, <1>2 DEF ModelTyped

LEMMA ModelStutter ==
  ASSUME ModelTyped, UNCHANGED updateVars
  PROVE  ModelTyped'
BY DEF ModelTyped, UpdateTyped, updateVars

LEMMA ModelTypes == ModelTyped => Update!TypeOK
BY DEF ModelTyped, UpdateTyped, Update!TypeOK

\* What a call holds and has left is bounded by the call.
LEMMA MutexTypes ==
  ASSUME Mutex!TransmitAssumption, MutexInv
  PROVE  Mutex!TypeOK
<1>1. PICK c \in [Mutex!Tasks -> CallNames], k \in [Mutex!Tasks -> 1 .. 18] : At(c, k)
  BY DEF MutexInv
<1>2. ASSUME NEW t \in Mutex!Tasks
      PROVE  /\ Len(script[t]) <= 20
             /\ owner = t => depth \in 1 .. 2
  <2>1. k[t] \in 1 .. Size(c[t]) + 1 /\ AtTask(t, c[t], k[t]) /\ c[t] \in CallNames
    BY <1>1 DEF At
  <2>2. Len(Rest(c[t], k[t])) = Size(c[t]) + 1 - k[t] /\ Size(c[t]) \in {5, 17}
    BY <2>1, Bodies, Rests
  <2>3. HeldAt(c[t], k[t]) \in 0 .. 2
    BY DEF HeldAt
  <2>4. script[t] = Rest(c[t], k[t]) /\ (owner = t => depth = HeldAt(c[t], k[t]) /\ HeldAt(c[t], k[t]) > 0)
    BY <2>1 DEF AtTask
  <2> QED
    BY <2>1, <2>2, <2>3, <2>4
<1>3. owner \in Mutex!Tasks \/ owner = Mutex!Nobody
  BY DEF MutexInv, MutexTyped
<1>4. Mutex!Nobody \notin Mutex!Tasks
  BY DEF Mutex!TransmitAssumption, Mutex!Tasks, Mutex!Nobody
<1>5. owner = Mutex!Nobody => depth = 0
  BY DEF MutexInv, MutexTyped
<1>6. depth \in 0 .. Mutex!MaxDepth /\ (owner = Mutex!Nobody <=> depth = 0)
  BY <1>2, <1>3, <1>4, <1>5 DEF Mutex!MaxDepth
<1>7. lastPiece \in [by : Mutex!Tasks \cup {Mutex!Nobody, "tick"}, first : BOOLEAN, last : BOOLEAN]
  BY DEF MutexInv, MutexTyped
<1> QED
  BY <1>2, <1>3, <1>6, <1>7 DEF MutexInv, MutexTyped, Mutex!TypeOK

\* Serial.cpp, RingBuffer.h, LpcInterface.cpp and the firmware: every variable of
\* the parts keeps to its type: the indices stay in their rings, the mutex is held
\* at most twice by one task, an output is driven by what a frame can say, and no
\* model in use has a part that is missing, however many frames are lost.
THEOREM PartsTypeCorrect == Spec => []TypeOK
<1> DEFINE Inv == TxInv /\ RxInv /\ MutexInv /\ PinsInv /\ PinsDriven /\ ModelTyped
<1>1. Mutex!TransmitAssumption
  BY PartsAssumption
<1>2. Init => Inv
  BY <1>1, TxStart, RxStart, MutexStart, PinsStart, DrivenStart, ModelStart DEF Init
<1>3. Inv /\ [Next]_vars => Inv'
  <2> SUFFICES ASSUME TxInv, RxInv, MutexInv, PinsInv, PinsDriven, ModelTyped, [Next]_vars
               PROVE  Inv'
    OBVIOUS
  <2>1. /\ Tx!Next \/ UNCHANGED txVars
        /\ Rx!Next \/ UNCHANGED rxVars
        /\ Mutex!Next \/ UNCHANGED mutexVars
        /\ Pins!Next \/ UNCHANGED pinsVars
        /\ Update!Next \/ UNCHANGED updateVars
    BY DEF Next, Others, vars
  <2>2. TxInv'
    BY <2>1, TxStep, TxStutter
  <2>3. RxInv'
    BY <2>1, RxStep, RxStutter
  <2>4. MutexInv'
    BY <1>1, <2>1, MutexStep, MutexStutter
  <2>5. PinsInv'
    BY <2>1, PinsStep, PinsStutter
  <2>6. PinsDriven'
    BY <2>1, DrivenStep, DrivenStutter
  <2>7. ModelTyped'
    BY <2>1, ModelStep, ModelStutter
  <2> QED
    BY <2>2, <2>3, <2>4, <2>5, <2>6, <2>7
<1>4. Inv => TypeOK
  BY <1>1, PinsTypes, ModelTypes, MutexTypes DEF TypeOK, TxInv, TxTyped, RxInv
<1> QED
  BY <1>2, <1>3, <1>4, PTL DEF Spec

==============================================================================

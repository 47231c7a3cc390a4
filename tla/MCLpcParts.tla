----------------------------- MODULE MCLpcParts ------------------------------
(***************************************************************************)
(* Instances of the parts of the link that have a module of their own: the *)
(* transmitter and the receiver of the host's UART, the transmit mutex,    *)
(* the pins, and the assembly of a heater model.  They share no variable,  *)
(* so behaviours in which one of them runs, from the start of all, show    *)
(* everything that each can do.                                            *)
(***************************************************************************)
EXTENDS Naturals, Sequences

CONSTANTS
  TransmitSlots, MaxBlock, MaxSent,                   \* the transmitter
  ReceiveSlots, MaxArrived,                           \* the receiver
  Main, Heat,                                         \* the transmit mutex
  Inputs, Outputs, Duties, PinCapacity, MaxReports, MaxPings,   \* the pins
  MaxOperations, MaxLosses, MaxFaults, MaxChanges,
  Models, Invalid, MaxRun                             \* the heater model

VARIABLES
  part,       \* the part that runs
  putIndex, getIndex, data, at, room, written, target, txWaitingTask, notified,
  txInterrupt, holding, shifting, line,
  rxPutIndex, rxGetIndex, rxData, bufferOverrunPending, rxArrived, rxAt, value,
  expected, marked,
  script, owner, depth, firmwareUpdateActive, lastPiece, outcome,
  online, pinMode, pinValue, pinStateReceived, pwmValue, toLpc, toHost,
  needsConfiguration, state, lastValue, out, level,
  operationsLeft, lossesLeft, faultsLeft, changesLeft, intact, first, missed, dutyWritten,
  sending, nextFrame, lost, pendingModel, pendingModelParts, model, modelConfigured,
  heater, arrived

Tx == INSTANCE SerialTransmit WITH Slots <- TransmitSlots, MaxBytes <- MaxSent

Rx == INSTANCE SerialReceive WITH
  Slots <- ReceiveSlots, MaxBytes <- MaxArrived,
  putIndex <- rxPutIndex, getIndex <- rxGetIndex, data <- rxData,
  arrived <- rxArrived, at <- rxAt

Mutex == INSTANCE LpcTransmit WITH line <- lastPiece

Pins == INSTANCE LpcPins WITH Capacity <- PinCapacity, written <- dutyWritten

Update == INSTANCE LpcModelUpdate WITH part <- nextFrame

\* What the constants may be.
ASSUME PartsAssumption ==
  /\ Tx!RingAssumption /\ Tx!SerialAssumption
  /\ Rx!RingAssumption /\ Rx!ReceiveAssumption
  /\ Mutex!TransmitAssumption /\ Pins!PinsAssumption /\ Update!ModelAssumption

-----------------------------------------------------------------------------
txVars == <<putIndex, getIndex, data, at, room, written, target, txWaitingTask, notified,
            txInterrupt, holding, shifting, line>>
rxVars == <<rxPutIndex, rxGetIndex, rxData, bufferOverrunPending, rxArrived, rxAt, value,
            expected, marked>>
mutexVars == <<script, owner, depth, firmwareUpdateActive, lastPiece, outcome>>
pinsVars == <<online, pinMode, pinValue, pinStateReceived, pwmValue, toLpc, toHost,
              needsConfiguration, state, lastValue, out, level, operationsLeft, lossesLeft,
              faultsLeft, changesLeft, intact, first, missed, dutyWritten>>
updateVars == <<sending, nextFrame, lost, pendingModel, pendingModelParts, model,
                modelConfigured, heater, arrived>>

Others(p) ==
  /\ part' = part
  /\ p # "tx" => UNCHANGED txVars
  /\ p # "rx" => UNCHANGED rxVars
  /\ p # "mutex" => UNCHANGED mutexVars
  /\ p # "pins" => UNCHANGED pinsVars
  /\ p # "update" => UNCHANGED updateVars

vars == <<part, txVars, rxVars, mutexVars, pinsVars, updateVars>>

Init ==
  /\ part \in {"tx", "rx", "mutex", "pins", "update"}
  /\ Tx!Init /\ Rx!Init /\ Mutex!Init /\ Pins!Init /\ Update!Init

Next ==
  \/ part = "tx" /\ Tx!Next /\ Others("tx")
  \/ part = "rx" /\ Rx!Next /\ Others("rx")
  \/ part = "mutex" /\ Mutex!Next /\ Others("mutex")
  \/ part = "pins" /\ Pins!Next /\ Others("pins")
  \/ part = "update" /\ Update!Next /\ Others("update")

\* The fairness of each part, while it runs.
Fairness ==
  /\ WF_vars(part = "tx" /\ Tx!Write /\ Others("tx"))
  /\ WF_vars(part = "tx" /\ Tx!Interrupt /\ Others("tx"))
  /\ WF_vars(part = "tx" /\ Tx!Transmitter /\ Others("tx"))
  /\ WF_vars(part = "pins" /\ Pins!SendPing /\ Others("pins"))
  /\ WF_vars(part = "pins" /\ Pins!HandlePong /\ Others("pins"))
  /\ WF_vars(part = "pins" /\ Pins!HandleGpioState /\ Others("pins"))
  /\ WF_vars(part = "pins" /\ Pins!Lpc /\ Others("pins"))
  /\ WF_vars(part = "pins" /\ Pins!PollInputs /\ Others("pins"))
  /\ \A t \in {Main, Heat} : SF_vars(part = "mutex" /\ Mutex!Step(t) /\ Others("mutex"))

Spec == Init /\ [][Next]_vars /\ Fairness

-----------------------------------------------------------------------------
(* The properties, stated in the modules of the parts.                     *)

TypeOK == Tx!TypeOK /\ Rx!TypeOK /\ Mutex!TypeOK /\ Pins!TypeOK /\ Update!TypeOK

\* Both directions of the UART keep the order of the bytes: what write puts
\* into the buffer leaves in that order, none lost and none twice, and what is
\* read is in order with a mark at every gap.
BytesStayInOrder == Tx!SentInOrder /\ Rx!ReadsInOrder /\ Rx!LossIsMarked

\* No task that waits for room in write, and no byte in its buffer, is left
\* without the interrupt that would wake or send it.
NothingIsStranded == Tx!WaiterIsArmed /\ Tx!QuietMeansSent

\* The frames, models, replays and updates of one task are not broken into by
\* the other.
CallsAreWhole == Mutex!CallsAreWhole

\* Every write to the UART and every call that takes the transmit mutex returns.
EveryCallReturns == Tx!WriteReturns /\ Mutex!EveryCallReturns

\* Outputs drive what the host last asked for and the host reads what inputs
\* have, through reconnections, replays, changes of mode, reboots and losses.
PinsFollow == Pins!OutputsFollow /\ Pins!InputsFollow

\* After reboots and time-outs the host ends up with the level of the input.
ReadingRecovers == Pins!ReadingRecovers

\* The model in use is never put together from two, and is the one sent last
\* when all of its frames arrived.
ModelIsSound == Update!ModelIsWhole /\ Update!CompleteUpdateCounts

=============================================================================

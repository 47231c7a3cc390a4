----------------------------- MODULE LpcTransmit -----------------------------
(***************************************************************************)
(* What the host's tasks put on the line to the coprocessor, and the       *)
(* recursive transmitMutex that keeps it apart (LpcInterface.cpp).  A call *)
(* is a script of instructions; other tasks run, and the tick interrupt    *)
(* strikes, between any two of them.  A frame is two pieces, so that it    *)
(* can be torn; a piece carries whether it begins or ends what its call    *)
(* sends.                                                                  *)
(***************************************************************************)
EXTENDS Naturals, Sequences

CONSTANTS
  Main,           \* the main task, which also updates the firmware
  Heat            \* the heat task

\* What the constants may be.
TransmitAssumption == Main # Heat /\ "nobody" \notin {Main, Heat}

VARIABLES
  script,         \* what each task still has to do
  owner, depth,   \* transmitMutex
  firmwareUpdateActive,
  line,           \* the last piece sent
  outcome         \* of SwitchOffAllLocalFromISR

mutex == <<owner, depth>>
vars == <<script, mutex, firmwareUpdateActive, line, outcome>>

Tasks == {Main, Heat}
Nobody == "nobody"
MaxDepth == 3

-----------------------------------------------------------------------------
(* The calls.                                                              *)

Take == <<[op |-> "take"]>>
Give == <<[op |-> "give"]>>
Test == <<[op |-> "test"]>>
Activate == <<[op |-> "activate"]>>
Deactivate == <<[op |-> "deactivate"]>>
Put(first, last) == <<[op |-> "put", first |-> first, last |-> last]>>

Frame(first, last) == Put(first, FALSE) \o Put(FALSE, last)

\* MutexLocker.
Guarded(body) == Take \o body \o Give

\* Mutant of Send: the update is looked for before the mutex is taken.
SendTestFirst(first, last) == Test \o Take \o Frame(first, last) \o Give

Send(first, last) == Take \o Test \o Frame(first, last) \o Give

\* CommandHeater, SendPing and the calls that send one frame.
OneFrame == Send(TRUE, TRUE)

\* ConfigureHeaterModel and, with as many frames as there are items,
\* ReplayConfiguration.
SeveralFrames == Guarded(Send(TRUE, FALSE) \o Send(FALSE, FALSE) \o Send(FALSE, TRUE))

PrepareForFirmwareUpdate == Guarded(Send(TRUE, FALSE) \o Activate)

FirmwareUpdateFinished == Guarded(Deactivate \o Send(FALSE, TRUE))

\* The bytes for the boot ROM are written past the mutex.
Update == PrepareForFirmwareUpdate \o Put(FALSE, FALSE) \o FirmwareUpdateFinished

Calls(t) == {OneFrame, SeveralFrames} \cup (IF t = Main THEN {Update} ELSE {})

-----------------------------------------------------------------------------
(* The tasks.                                                              *)

Running(t, op) == script[t] # <<>> /\ Head(script[t]).op = op
Rest(t) == script' = [script EXCEPT ![t] = Tail(@)]

Call(t) ==
  /\ script[t] = <<>>
  /\ \E s \in Calls(t) : script' = [script EXCEPT ![t] = s]
  /\ UNCHANGED <<mutex, firmwareUpdateActive, line, outcome>>

DoTake(t) ==
  /\ Running(t, "take") /\ owner \in {Nobody, t}
  /\ owner' = t /\ depth' = depth + 1
  /\ Rest(t) /\ UNCHANGED <<firmwareUpdateActive, line, outcome>>

\* Mutant of DoGive: the outermost give does not release the mutex.
GiveInnerOnly(t) ==
  /\ Running(t, "give")
  /\ depth' = (IF depth = 1 THEN depth ELSE depth - 1) /\ UNCHANGED owner
  /\ Rest(t) /\ UNCHANGED <<firmwareUpdateActive, line, outcome>>

DoGive(t) ==
  /\ Running(t, "give")
  /\ depth' = depth - 1 /\ owner' = IF depth = 1 THEN Nobody ELSE owner
  /\ Rest(t) /\ UNCHANGED <<firmwareUpdateActive, line, outcome>>

\* During an update the two pieces of the frame are skipped.
DoTest(t) ==
  /\ Running(t, "test")
  /\ script' = [script EXCEPT ![t] = IF firmwareUpdateActive THEN SubSeq(@, 4, Len(@)) ELSE Tail(@)]
  /\ UNCHANGED <<mutex, firmwareUpdateActive, line, outcome>>

DoPut(t) ==
  /\ Running(t, "put")
  /\ line' = [by |-> t, first |-> Head(script[t]).first, last |-> Head(script[t]).last]
  /\ Rest(t) /\ UNCHANGED <<mutex, firmwareUpdateActive, outcome>>

DoActivate(t) ==
  /\ Running(t, "activate") \/ Running(t, "deactivate")
  /\ firmwareUpdateActive' = (Head(script[t]).op = "activate")
  /\ Rest(t) /\ UNCHANGED <<mutex, line, outcome>>

-----------------------------------------------------------------------------
(* The tick interrupt, in the middle of task t, when a task seems stuck:   *)
(* SwitchOffAllLocalFromISR, SwitchOff, CommandHeater, Send.  The mutex    *)
(* counts one more take by its owner; otherwise the take enters a critical *)
(* section, which asserts that it is not in an interrupt.                  *)

TickSwitchOff(t) ==
  /\ outcome = "none"
  /\ outcome' = IF owner # t THEN "assert" ELSE IF firmwareUpdateActive THEN "dropped" ELSE "sent"
  /\ line' = IF outcome' = "sent" THEN [by |-> "tick", first |-> TRUE, last |-> TRUE] ELSE line
  /\ UNCHANGED <<script, mutex, firmwareUpdateActive>>

-----------------------------------------------------------------------------
Init ==
  /\ script = [t \in Tasks |-> <<>>] /\ owner = Nobody /\ depth = 0
  /\ firmwareUpdateActive = FALSE /\ outcome = "none"
  /\ line = [by |-> Nobody, first |-> TRUE, last |-> TRUE]

Step(t) == DoTake(t) \/ DoGive(t) \/ DoTest(t) \/ DoPut(t) \/ DoActivate(t)

Next == \E t \in Tasks : Call(t) \/ Step(t)

Spec == Init /\ [][Next]_vars

\* A task that has been let in runs on; one that waits for the mutex is woken
\* by the release, and the heat task, whose priority is higher, sleeps between
\* its calls.
FairSpec == Spec /\ \A t \in Tasks : SF_vars(Step(t))

TickSpec == Init /\ [][Next \/ \E t \in Tasks : TickSwitchOff(t)]_vars

-----------------------------------------------------------------------------
(* Properties.                                                             *)

TypeOK ==
  /\ owner \in Tasks \cup {Nobody} /\ depth \in 0 .. MaxDepth /\ (owner = Nobody <=> depth = 0)
  /\ firmwareUpdateActive \in BOOLEAN /\ outcome \in {"none", "sent", "dropped", "assert"}
  /\ line \in [by : Tasks \cup {Nobody, "tick"}, first : BOOLEAN, last : BOOLEAN]
  /\ \A t \in Tasks : Len(script[t]) <= 20

\* What one call sends is not broken into by another task: neither a frame,
\* nor the three frames of a model, nor a replay, nor an update of the
\* firmware from its first frame to its last.
CallsAreWhole == [][line'.by # line.by => line.last /\ line'.first]_line

\* Nobody waits for the mutex for ever: each call gives back what it takes,
\* also when it is nested and when an update is active.
EveryCallReturns == \A t \in Tasks : script[t] # <<>> ~> script[t] = <<>>

\* "Safe to call from an ISR": the interrupt can switch the heater off
\* whatever it has interrupted.
SwitchOffIsSafe == outcome # "assert"

=============================================================================

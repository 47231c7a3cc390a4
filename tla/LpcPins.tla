------------------------------- MODULE LpcPins -------------------------------
(***************************************************************************)
(* The pins of the coprocessor as the host sees them: LpcInterface.cpp     *)
(* keeps a mirror of what it has asked for and of what the coprocessor has *)
(* reported; Gpio.cpp and Pwm.cpp drive and read the pins.  Frames are     *)
(* lost in both directions, the connection times out, the coprocessor      *)
(* reboots, and the levels of the inputs change.                           *)
(***************************************************************************)
EXTENDS Naturals, Sequences, FiniteSets

CONSTANTS
  Inputs,         \* pins that can be read
  Outputs,        \* pins with the capabilities write and pwm
  Duties,         \* "off", "part", "full"
  Capacity,       \* bound: frames in the direction to the coprocessor
  MaxReports,     \* bound: reports of inputs under way at a time
  MaxPings,       \* bound: pings and pongs under way at a time
  MaxOperations, MaxLosses, MaxFaults, MaxChanges    \* budgets of a behaviour

\* What the constants may be.
PinsAssumption ==
  /\ IsFiniteSet(Inputs \cup Outputs) /\ Inputs \cap Outputs = {}
  /\ Duties \subseteq {"off", "part", "full"}
  /\ {Capacity, MaxReports, MaxPings, MaxOperations, MaxLosses, MaxFaults, MaxChanges} \subseteq Nat
  /\ Capacity > 0 /\ MaxPings > 0

VARIABLES
  online, pinMode, pinValue, pinStateReceived,
  pwmValue,                  \* "none" while pwmFrequencies is zero
  toLpc, toHost,
  needsConfiguration, state, lastValue,
  out,                       \* what an output pin drives
  level,                     \* what an input pin reads
  operationsLeft, lossesLeft, faultsLeft, changesLeft,
  intact,    \* history: nothing for the coprocessor was lost since it was reset
  first,     \* history: inputs not reported since they were configured
  missed,    \* history: inputs whose last report was lost or never made
  written    \* history: outputs whose duty was written since their mode was set

host == <<online, pinMode, pinValue, pinStateReceived, pwmValue>>
lpc == <<needsConfiguration, state, lastValue, out>>
budgets == <<operationsLeft, lossesLeft, faultsLeft, changesLeft>>
history == <<intact, first, missed, written>>
vars == <<host, toLpc, toHost, lpc, level, budgets, history>>

Pins == Inputs \cup Outputs
InputModes == {"input", "inputPullup"}
OutputModes == {"output", "pwm"}
Modes == InputModes \cup OutputModes \cup {"disabled"}
Level(b) == IF b THEN "high" ELSE "low"

Transmit(frames) == Len(toLpc \o frames) <= Capacity /\ toLpc' = toLpc \o frames

GpioConfig(p) == [type |-> "gpioConfig", pin |-> p, mode |-> pinMode[p], value |-> pinValue[p]]
PwmWrite(p) == [type |-> "pwmWrite", pin |-> p, duty |-> pwmValue[p]]

-----------------------------------------------------------------------------
(* The host: what devices ask for.                                         *)

\* An offline host keeps the change for the next replay.
IfOnline(frames) == IF online THEN Transmit(frames) ELSE UNCHANGED toLpc

Operation ==
  /\ operationsLeft > 0 /\ operationsLeft' = operationsLeft - 1
  /\ UNCHANGED <<online, toHost, lpc, level, lossesLeft, faultsLeft, changesLeft, intact, first, missed>>

\* SetPinMode, for the modes the pin is capable of.
SetInput(p) ==
  /\ Operation
  /\ \E m \in InputModes : pinMode' = [pinMode EXCEPT ![p] = m]
  /\ pinStateReceived' = [pinStateReceived EXCEPT ![p] = FALSE]
  /\ UNCHANGED <<pinValue, pwmValue, written>>
  /\ IfOnline(<<[GpioConfig(p) EXCEPT !.mode = pinMode'[p]]>>)

SetOutput(p) ==
  /\ Operation
  /\ \E m \in OutputModes, high \in BOOLEAN :
       /\ pinMode' = [pinMode EXCEPT ![p] = m]
       /\ pinValue' = [pinValue EXCEPT ![p] = high]
  /\ written' = written \ {p}
  /\ UNCHANGED <<pinStateReceived, pwmValue>>
  /\ IfOnline(<<[GpioConfig(p) EXCEPT !.mode = pinMode'[p], !.value = pinValue'[p]]>>)

\* IoPort writes digitally only to pins of mode output.
WritePin(p) ==
  /\ Operation /\ pinMode[p] = "output"
  /\ \E high \in BOOLEAN :
       /\ pinValue' = [pinValue EXCEPT ![p] = high]
       /\ IfOnline(<<[type |-> "gpioWrite", pin |-> p, value |-> high]>>)
  /\ UNCHANGED <<pinMode, pinStateReceived, pwmValue, written>>

\* PwmPort writes duties only to pins of mode pwm.
WritePwm(p) ==
  /\ Operation /\ pinMode[p] = "pwm"
  /\ \E d \in Duties :
       /\ pwmValue' = [pwmValue EXCEPT ![p] = d]
       /\ IfOnline(<<[PwmWrite(p) EXCEPT !.duty = d]>>)
  /\ written' = written \cup {p}
  /\ UNCHANGED <<pinMode, pinValue, pinStateReceived>>

-----------------------------------------------------------------------------
(* The host: the link.                                                     *)

\* Bounds of the model: the code pings once a second and reports every change,
\* whatever is under way.
Count(frames, type) == Cardinality({k \in DOMAIN frames : frames[k].type = type})

RoomForPing   == Count(toLpc, "ping") + Count(toHost, "pong") < MaxPings
RoomForReport == Count(toHost, "gpioState") < MaxReports

SendPing ==
  /\ RoomForPing /\ Transmit(<<[type |-> "ping"]>>)
  /\ UNCHANGED <<host, toHost, lpc, level, budgets, history>>

\* Three seconds without a pong, or a pong of another protocol version.
PongTimeout ==
  /\ online /\ faultsLeft > 0 /\ faultsLeft' = faultsLeft - 1
  /\ online' = FALSE /\ pinStateReceived' = [p \in Pins |-> FALSE]
  /\ UNCHANGED <<pinMode, pinValue, pwmValue, toLpc, toHost, lpc, level, operationsLeft, lossesLeft, changesLeft, history>>

\* What the host repeats for the pins that are in use.
ReplayFrames ==
  {GpioConfig(p) : p \in {r \in Pins : pinMode[r] # "disabled"}}
  \cup {PwmWrite(p) : p \in {r \in Outputs : pinMode[r] = "pwm" /\ pwmValue[r] # "none"}}

\* The order of the pins, which do not affect each other, is left open; the duty
\* of a pin follows its mode.
ReplaysOfPins ==
  {frames \in [1 .. Cardinality(ReplayFrames) -> ReplayFrames] :
     /\ \A f \in ReplayFrames : \E i \in DOMAIN frames : frames[i] = f
     /\ \A i, k \in DOMAIN frames :
          frames[i].type = "pwmWrite" /\ frames[k] = GpioConfig(frames[i].pin) => k < i}

ReplayConfiguration ==
  \E frames \in ReplaysOfPins :
    Transmit(<<[type |-> "configurationReset"]>> \o frames \o <<[type |-> "configurationComplete"]>>)

FromLpc(type) == toHost # <<>> /\ Head(toHost).type = type /\ toHost' = Tail(toHost)

\* Mutant of HandlePong: a coprocessor that has rebooted is not configured.
HandlePongIfOffline ==
  /\ FromLpc("pong")
  /\ online' = TRUE
  /\ IF ~online
     THEN pinStateReceived' = [p \in Pins |-> FALSE] /\ ReplayConfiguration
     ELSE UNCHANGED <<pinStateReceived, toLpc>>
  /\ UNCHANGED <<pinMode, pinValue, pwmValue, lpc, level, budgets, history>>

HandlePong ==
  /\ FromLpc("pong")
  /\ online' = TRUE
  /\ IF ~online \/ Head(toHost).needsConfiguration
     THEN pinStateReceived' = [p \in Pins |-> FALSE] /\ ReplayConfiguration
     ELSE UNCHANGED <<pinStateReceived, toLpc>>
  /\ UNCHANGED <<pinMode, pinValue, pwmValue, lpc, level, budgets, history>>

HandleGpioState ==
  /\ FromLpc("gpioState")
  /\ LET f == Head(toHost)
     IN /\ pinValue' = [pinValue EXCEPT ![f.pin] = f.value]
        /\ pinStateReceived' = [pinStateReceived EXCEPT ![f.pin] = TRUE]
  /\ UNCHANGED <<online, pinMode, pwmValue, toLpc, lpc, level, budgets, history>>

-----------------------------------------------------------------------------
(* The coprocessor.                                                        *)

FromHost(type) ==
  /\ toLpc # <<>> /\ Head(toLpc).type = type /\ toLpc' = Tail(toLpc)
  /\ UNCHANGED <<host, level, budgets, written>>

\* Mutant of Fresh: the level is taken to be known.
FreshAsRead(p) == level[p]

\* Configure takes the opposite of the level, so that Poll reports it.
Fresh(p) == ~level[p]

\* Gpio::Configure.
Configure(p, mode, value) ==
  /\ state' = [state EXCEPT ![p] = mode]
  /\ out' = [out EXCEPT ![p] = IF mode \in OutputModes THEN Level(value) ELSE "float"]
  /\ lastValue' = IF mode \in InputModes THEN [lastValue EXCEPT ![p] = Fresh(p)] ELSE lastValue

LpcPing ==
  /\ FromHost("ping")
  /\ toHost' = Append(toHost, [type |-> "pong", needsConfiguration |-> needsConfiguration])
  /\ UNCHANGED <<lpc, intact, first, missed>>

ConfigurationReset ==
  /\ FromHost("configurationReset")
  /\ needsConfiguration' = TRUE
  /\ state' = [p \in Pins |-> "disabled"] /\ out' = [p \in Pins |-> "float"]
  /\ lastValue' = [p \in Inputs |-> FALSE]
  /\ intact' = TRUE /\ first' = {} /\ missed' = {} /\ UNCHANGED toHost

ConfigurationComplete ==
  /\ FromHost("configurationComplete")
  /\ needsConfiguration' = FALSE
  /\ UNCHANGED <<toHost, state, lastValue, out, intact, first, missed>>

LpcConfig ==
  /\ FromHost("gpioConfig")
  /\ LET f == Head(toLpc)
     IN /\ Configure(f.pin, f.mode, f.value)
        /\ first' = IF f.pin \in Inputs THEN first \cup {f.pin} ELSE first
        /\ missed' = missed \ {f.pin}
  /\ UNCHANGED <<toHost, needsConfiguration, intact>>

LpcWrite ==
  /\ FromHost("gpioWrite")
  /\ LET f == Head(toLpc)
     IN out' = IF state[f.pin] = "output" THEN [out EXCEPT ![f.pin] = Level(f.value)] ELSE out
  /\ UNCHANGED <<toHost, needsConfiguration, state, lastValue, intact, first, missed>>

\* Pwm::Set stops the timer for the two constant duties.
LpcPwm ==
  /\ FromHost("pwmWrite")
  /\ LET f == Head(toLpc)
     IN IF f.duty = "part"
        THEN out' = [out EXCEPT ![f.pin] = "part"] /\ UNCHANGED <<state, lastValue>>
        ELSE Configure(f.pin, "pwm", f.duty = "full")
  /\ UNCHANGED <<toHost, needsConfiguration, intact, first, missed>>

\* Gpio::Poll, once the configuration is complete.
Poll(p) ==
  /\ ~needsConfiguration /\ RoomForReport
  /\ state[p] \in InputModes /\ level[p] # lastValue[p]
  /\ lastValue' = [lastValue EXCEPT ![p] = level[p]]
  /\ toHost' = Append(toHost, [type |-> "gpioState", pin |-> p, value |-> level[p]])
  /\ first' = first \ {p} /\ missed' = missed \ {p}
  /\ UNCHANGED <<host, toLpc, needsConfiguration, state, out, level, budgets, intact, written>>

-----------------------------------------------------------------------------
(* What happens to them.                                                   *)

\* A change before the first report makes the level what the coprocessor takes
\* for reported.
Change(p) ==
  /\ changesLeft > 0 /\ changesLeft' = changesLeft - 1
  /\ level' = [level EXCEPT ![p] = ~@]
  /\ missed' = IF p \in first THEN missed \cup {p} ELSE missed
  /\ UNCHANGED <<host, toLpc, toHost, lpc, operationsLeft, lossesLeft, faultsLeft, intact, first, written>>

Loss ==
  /\ lossesLeft > 0 /\ lossesLeft' = lossesLeft - 1
  /\ UNCHANGED <<host, level, operationsLeft, faultsLeft, changesLeft, written>>

LoseToLpc ==
  /\ Loss /\ toLpc # <<>> /\ toLpc' = Tail(toLpc)
  /\ intact' = (intact /\ Head(toLpc).type = "ping")
  /\ UNCHANGED <<toHost, lpc, first, missed>>

LoseToHost ==
  /\ Loss /\ toHost # <<>> /\ toHost' = Tail(toHost)
  /\ missed' = IF Head(toHost).type = "gpioState" THEN missed \cup {Head(toHost).pin} ELSE missed
  /\ UNCHANGED <<toLpc, lpc, first, intact>>

\* main calls Gpio::Init; what the host has already sent arrives after that.
LpcReboot ==
  /\ faultsLeft > 0 /\ faultsLeft' = faultsLeft - 1
  /\ needsConfiguration' = TRUE
  /\ state' = [p \in Pins |-> "disabled"] /\ out' = [p \in Pins |-> "float"]
  /\ lastValue' = [p \in Inputs |-> FALSE]
  /\ intact' = FALSE
  /\ UNCHANGED <<host, toLpc, toHost, level, operationsLeft, lossesLeft, changesLeft, first, missed, written>>

-----------------------------------------------------------------------------
Init ==
  /\ online = FALSE /\ pinMode = [p \in Pins |-> "disabled"] /\ pinValue = [p \in Pins |-> FALSE]
  /\ pinStateReceived = [p \in Pins |-> FALSE] /\ pwmValue = [p \in Outputs |-> "none"]
  /\ toLpc = <<[type |-> "ping"]>> /\ toHost = <<>>
  /\ needsConfiguration = TRUE /\ state = [p \in Pins |-> "disabled"]
  /\ lastValue = [p \in Inputs |-> FALSE] /\ out = [p \in Pins |-> "float"]
  /\ level = [p \in Inputs |-> FALSE]
  /\ operationsLeft = MaxOperations /\ lossesLeft = MaxLosses /\ faultsLeft = MaxFaults /\ changesLeft = MaxChanges
  /\ intact = FALSE /\ first = {} /\ missed = {} /\ written = {}

Device == (\E p \in Inputs : SetInput(p)) \/ (\E p \in Outputs : SetOutput(p) \/ WritePin(p) \/ WritePwm(p))
Link == SendPing \/ HandlePong \/ HandleGpioState
Lpc == LpcPing \/ ConfigurationReset \/ ConfigurationComplete \/ LpcConfig \/ LpcWrite \/ LpcPwm
PollInputs == \E p \in Inputs : Poll(p)
Environment == PongTimeout \/ (\E p \in Inputs : Change(p)) \/ LoseToLpc \/ LoseToHost \/ LpcReboot

Next == Device \/ Link \/ Lpc \/ PollInputs \/ Environment

Spec == Init /\ [][Next]_vars

\* Both main loops run; devices need not ask and nothing need go wrong.
FairSpec ==
  /\ Spec /\ WF_vars(SendPing) /\ WF_vars(HandlePong) /\ WF_vars(HandleGpioState)
  /\ WF_vars(Lpc) /\ WF_vars(PollInputs)

-----------------------------------------------------------------------------
(* Properties.                                                             *)

TypeOK ==
  /\ online \in BOOLEAN /\ pinMode \in [Pins -> Modes] /\ pinValue \in [Pins -> BOOLEAN]
  /\ pinStateReceived \in [Pins -> BOOLEAN] /\ pwmValue \in [Outputs -> Duties \cup {"none"}]
  /\ needsConfiguration \in BOOLEAN /\ state \in [Pins -> Modes] /\ lastValue \in [Inputs -> BOOLEAN]
  /\ out \in [Pins -> {"float", "low", "high", "part"}] /\ level \in [Inputs -> BOOLEAN]
  /\ intact \in BOOLEAN /\ first \subseteq Inputs /\ missed \subseteq Inputs /\ written \subseteq Outputs

\* Nothing is under way to a coprocessor that missed nothing since its reset.
Settled == online /\ intact /\ toLpc = <<>>

DutyLevel(d) == CASE d = "off" -> "low" [] d = "full" -> "high" [] OTHER -> "part"

Wanted(p) ==
  IF pinMode[p] \notin OutputModes THEN "float"
  ELSE IF p \in written THEN DutyLevel(pwmValue[p]) ELSE Level(pinValue[p])

Unwritten(p) == pinMode[p] = "pwm" /\ p \notin written

\* Every output drives what the host last asked for: through reconnections,
\* replays and changes of mode, made online or offline.
OutputsFollow == Settled => \A p \in Outputs : Unwritten(p) \/ out[p] = Wanted(p)

\* "PWM output mode, initially low": a pin that was set to a mode of PWM and
\* not written to since drives its initial value.
PwmStartsAsAsked == Settled => \A p \in Outputs : Unwritten(p) => out[p] = Wanted(p)

\* When everything has been polled and delivered, the host can read each input
\* and reads its level, unless the report of the last change was lost or the
\* level changed between the configuration and the first report.
InputsFollow ==
  Settled /\ ~needsConfiguration /\ toHost = <<>> =>
    \A p \in Inputs : pinMode[p] \in InputModes /\ level[p] = lastValue[p] /\ p \notin missed
                        => pinStateReceived[p] /\ pinValue[p] = level[p]

\* A coprocessor that rebooted while a replay was under way received the rest of
\* it, configurationComplete included: it calls itself configured, and the pongs
\* do not ask for what it has missed.
MistakenlyConfigured == ~needsConfiguration /\ ~intact

\* When no frame is lost, and nothing else goes wrong any more, the host ends up
\* with the level of each input, unless the report of it is missed: a
\* coprocessor that rebooted unnoticed is configured again.  The exception is one
\* that is mistakenly configured for good, which nothing but another connection
\* puts right.
ReadingRecovers ==
  [](lossesLeft = MaxLosses) /\ <>[]~MistakenlyConfigured =>
    \A p \in Inputs : <>[](pinMode[p] \in InputModes /\ p \notin missed)
                         => <>[](pinStateReceived[p] /\ pinValue[p] = level[p])

=============================================================================

------------------------------ MODULE LpcLink -------------------------------
(***************************************************************************)
(* The link between the SAM4E host and the LPC1115 coprocessor: the host's *)
(* LpcInterface (connection, configuration replay) and LpcHeater (the mode *)
(* the rest of the firmware sees), the coprocessor's frame handlers, and   *)
(* the two directions of the UART, which lose frames.                      *)
(*                                                                         *)
(* On the host the main task handles frames, pings, timeouts and G-codes,  *)
(* and the heat task, which has a higher priority, runs LpcHeater::Spin    *)
(* and may preempt an operation of the main task at any of the places of   *)
(* "main".  The coprocessor handles one frame at a time; its thermal       *)
(* controller is the module LpcThermal, here reduced to four states,       *)
(* cooling, stable and heating being "active".  Either side may reboot.    *)
(*                                                                         *)
(* A configuration item has a version, 0 meaning that it was never set; an *)
(* item stands for the frames of one LpcInterface function.  A timer runs  *)
(* out only after a frame that would have rewound it was lost, or its      *)
(* sender rebooted: one loss stands for the few in a row that the timer    *)
(* tolerates.                                                              *)
(*                                                                         *)
(* Capacity, MaxPings, MaxStatuses and the budgets lossesLeft, rebootsLeft *)
(* and operationsLeft bound the model and not the code, and no property    *)
(* speaks of them: they stand in the guards because state constraints      *)
(* would cut the behaviours that liveness is about.                        *)
(***************************************************************************)
EXTENDS Naturals, Sequences, FiniteSets

CONSTANTS
  Items,          \* what the host configures; all but "pin" drive the heater
  Settings,       \* the items that operations may set
  Commands,       \* the heater operations the host may ask for
  MaxVersion,     \* versions of a configuration item
  Capacity,       \* frames that fit in the direction to the coprocessor
  MaxPings,       \* pings and pongs under way at a time
  MaxStatuses,    \* statuses under way at a time
  MaxLosses, MaxReboots, MaxOperations    \* budgets of a behaviour

ASSUME LinkAssumption ==
  /\ {"thermistor", "model", "heater"} \subseteq Items
  /\ Items \subseteq {"pin", "thermistor", "model", "heater"}
  /\ Settings \subseteq Items
  /\ Commands \subseteq {"on", "off", "suspend", "resetFault", "unregister"}
  /\ {MaxVersion, MaxLosses, MaxReboots, MaxOperations} \subseteq Nat
  /\ {Capacity, MaxPings, MaxStatuses} \subseteq Nat \ {0}

VARIABLES
  online, newGeneration,   \* LpcInterface; connectionGeneration differs from LpcHeater's copy
  hostConfig,              \* LpcInterface: the configuration to replay
  status,                  \* LpcInterface: the last thermal status, or NoStatus
  mode,                    \* LpcHeater
  main,                    \* where the main task is
  toLpc, toHost,           \* frames under way
  needsConfiguration,      \* coprocessor main()
  lpcConfig, lpcState, statusDirty,
  pingOverdue, pongOverdue, statusOverdue,  \* a frame that rewinds the timer was lost
  lossesLeft, rebootsLeft, operationsLeft,
  mirrorBroken,            \* history: a frame since the last configurationReset is missing
  stopSent, stopLost       \* history: the host wants no heat; the frame that says so was lost

host    == <<online, newGeneration, hostConfig, status, mode, main>>
lpc     == <<needsConfiguration, lpcConfig, lpcState, statusDirty>>
overdue == <<pingOverdue, pongOverdue, statusOverdue>>
budgets == <<lossesLeft, rebootsLeft, operationsLeft>>
stops   == <<stopSent, stopLost>>
vars    == <<host, toLpc, toHost, lpc, overdue, budgets, mirrorBroken, stops>>

HeaterStates == {"fault", "off", "suspended", "active"}
Modes == HeaterStates \cup {"offline"}
NoStatus == "none"
Unset == [i \in Items |-> 0]

\* Between two steps of an operation the main task has tested what it tests
\* and has yet to send the command, or has sent it and has yet to set mode.
Places == {"idle", "sendOn", "sendSuspend", "setOn", "setSuspended", "setOff"}

PingFrame  == [type |-> "ping"]
Reset      == [type |-> "configurationReset"]
Complete   == [type |-> "configurationComplete"]
Config(i, v) == [type |-> "config", item |-> i, version |-> v]
Command(c) == [type |-> "heaterCommand", command |-> c]
Pong(flag) == [type |-> "pong", needsConfiguration |-> flag]
BadPong    == [type |-> "badPong"]
Status(s)  == [type |-> "thermalStatus", state |-> s]

Stopping == {"off", "suspend"}
Busy     == mode \in {"suspended", "active"}
Ready    == \A i \in {"thermistor", "model", "heater"} : lpcConfig[i] > 0

\* Bounds of the model: the code pings once a second, and reports whenever the
\* status is dirty, whatever is under way.
Count(frames, types) == Cardinality({k \in DOMAIN frames : frames[k].type \in types})

RoomForPing   == Count(toLpc, {"ping"}) + Count(toHost, {"pong", "badPong"}) < MaxPings
RoomForStatus == Count(toHost, {"thermalStatus"}) < MaxStatuses

Transmit(frames) ==
  /\ Len(toLpc) + Len(frames) <= Capacity
  /\ toLpc' = toLpc \o frames

\* CommandHeater: only off is transmitted while the host is offline.
CommandHeater(c) ==
  IF c = "off" \/ online
  THEN /\ Transmit(<<Command(c)>>)
       /\ IF c = "resetFault"
          THEN UNCHANGED stops
          ELSE stopSent' = (c \in Stopping) /\ stopLost' = FALSE
  ELSE UNCHANGED <<toLpc, stops>>

-----------------------------------------------------------------------------
(* Host, main task: LpcInterface::Spin.                                    *)

\* ReplayConfiguration sends everything the host knows, in a fixed order.
Known(i) == IF i \in Items /\ hostConfig[i] > 0 THEN <<Config(i, hostConfig[i])>> ELSE <<>>

Replay ==
  <<Reset>> \o Known("pin") \o Known("thermistor") \o Known("model") \o Known("heater") \o <<Complete>>

\* A second has passed since the last ping.
SendPing ==
  /\ main = "idle"
  /\ RoomForPing
  /\ Transmit(<<PingFrame>>)
  /\ UNCHANGED <<host, toHost, lpc, overdue, budgets, mirrorBroken, stops>>

\* Mutant of AcceptPong: a pong that does not ask for the configuration
\* starts no new connection.
AcceptPongIfAsked ==
  /\ main = "idle" /\ toHost # <<>> /\ Head(toHost).type = "pong"
  /\ toHost' = Tail(toHost)
  /\ pongOverdue' = FALSE
  /\ online' = TRUE
  /\ IF Head(toHost).needsConfiguration
     THEN newGeneration' = TRUE /\ status' = NoStatus /\ Transmit(Replay)
     ELSE UNCHANGED <<newGeneration, status, toLpc>>
  /\ UNCHANGED <<hostConfig, mode, main, lpc, pingOverdue, statusOverdue, budgets, mirrorBroken, stops>>

\* A pong while offline, or one that asks for the configuration, starts a
\* new connection: everything received before is forgotten, and the whole
\* configuration sent again.
AcceptPong ==
  /\ main = "idle" /\ toHost # <<>> /\ Head(toHost).type = "pong"
  /\ toHost' = Tail(toHost)
  /\ pongOverdue' = FALSE
  /\ online' = TRUE
  /\ IF ~online \/ Head(toHost).needsConfiguration
     THEN newGeneration' = TRUE /\ status' = NoStatus /\ Transmit(Replay)
     ELSE UNCHANGED <<newGeneration, status, toLpc>>
  /\ UNCHANGED <<hostConfig, mode, main, lpc, pingOverdue, statusOverdue, budgets, mirrorBroken, stops>>

\* A pong of another protocol version or of a wrong length ends the connection.
RefusePong ==
  /\ main = "idle" /\ toHost # <<>> /\ Head(toHost) = BadPong
  /\ toHost' = Tail(toHost)
  /\ online' = FALSE
  /\ status' = NoStatus
  /\ UNCHANGED <<newGeneration, hostConfig, mode, main, toLpc, lpc, overdue, budgets, mirrorBroken, stops>>

HandlePong == AcceptPong \/ RefusePong

\* A status received while offline is stored but not visible: the pong that
\* brings the host online forgets it.
HandleThermalStatus ==
  /\ main = "idle" /\ toHost # <<>> /\ Head(toHost).type = "thermalStatus"
  /\ toHost' = Tail(toHost)
  /\ status' = (IF online THEN Head(toHost).state ELSE NoStatus)
  /\ statusOverdue' = FALSE
  /\ UNCHANGED <<online, newGeneration, hostConfig, mode, main, toLpc, lpc, pingOverdue,
                 pongOverdue, budgets, mirrorBroken, stops>>

\* Three seconds without a pong: SetOffline.
PongTimeout ==
  /\ main = "idle" /\ online /\ pongOverdue
  /\ online' = FALSE
  /\ status' = NoStatus
  /\ UNCHANGED <<newGeneration, hostConfig, mode, main, toLpc, toHost, lpc, overdue, budgets,
                 mirrorBroken, stops>>

\* The status is a second old: GetThermalStatus no longer returns it.
StatusTimeout ==
  /\ status # NoStatus /\ statusOverdue
  /\ status' = NoStatus
  /\ UNCHANGED <<online, newGeneration, hostConfig, mode, main, toLpc, toHost, lpc, overdue,
                 budgets, mirrorBroken, stops>>

-----------------------------------------------------------------------------
(* Host, main task: G-codes.                                               *)

StartOperation ==
  /\ main = "idle" /\ operationsLeft > 0
  /\ operationsLeft' = operationsLeft - 1

\* SetPinMode, ConfigureThermistor, ConfigureHeaterModel and ConfigureHeater
\* remember the value and send it at once only if the host is online.
ConfigureItem(i, v) ==
  /\ StartOperation
  /\ hostConfig' = [hostConfig EXCEPT ![i] = v]
  /\ IF online THEN Transmit(<<Config(i, v)>>) ELSE UNCHANGED toLpc
  /\ UNCHANGED <<online, newGeneration, status, mode, main, toHost, lpc, overdue, lossesLeft,
                 rebootsLeft, mirrorBroken, stops>>

\* The coprocessor keeps the thermistor; it is only told to stop heating.
UnregisterThermistor ==
  /\ StartOperation /\ "unregister" \in Commands
  /\ hostConfig["thermistor"] > 0
  /\ hostConfig' = [hostConfig EXCEPT !["thermistor"] = 0]
  /\ CommandHeater("off")
  /\ UNCHANGED <<online, newGeneration, status, mode, main, toHost, lpc, overdue, lossesLeft,
                 rebootsLeft, mirrorBroken>>

\* SetActiveOrStandby and the tests of SwitchOn.
StartSwitchOn ==
  /\ StartOperation /\ "on" \in Commands
  /\ mode # "fault" /\ online /\ hostConfig["thermistor"] > 0
  /\ status \notin {NoStatus, "fault"}
  /\ main' = "sendOn"
  /\ UNCHANGED <<online, newGeneration, hostConfig, status, mode, toLpc, toHost, lpc, overdue,
                 lossesLeft, rebootsLeft, mirrorBroken, stops>>

\* SwitchOn sends the model and the heater's configuration before the command on.
SendOn(m, v) ==
  /\ main = "sendOn"
  /\ hostConfig' = [hostConfig EXCEPT !["model"] = m, !["heater"] = v]
  /\ Transmit(<<Config("model", m), Config("heater", v), Command("on")>>)
  /\ stopSent' = FALSE /\ stopLost' = FALSE
  /\ main' = "setOn"
  /\ UNCHANGED <<online, newGeneration, status, mode, toHost, lpc, overdue, budgets, mirrorBroken>>

StartSuspend ==
  /\ StartOperation /\ "suspend" \in Commands
  /\ mode = "active"
  /\ main' = "sendSuspend"
  /\ UNCHANGED <<online, newGeneration, hostConfig, status, mode, toLpc, toHost, lpc, overdue,
                 lossesLeft, rebootsLeft, mirrorBroken, stops>>

SendSuspend ==
  /\ main = "sendSuspend"
  /\ CommandHeater("suspend")
  /\ main' = "setSuspended"
  /\ UNCHANGED <<online, newGeneration, hostConfig, status, mode, toHost, lpc, overdue, budgets,
                 mirrorBroken>>

SwitchOff ==
  /\ StartOperation /\ "off" \in Commands
  /\ CommandHeater("off")
  /\ main' = (IF mode = "fault" THEN "idle" ELSE "setOff")
  /\ UNCHANGED <<online, newGeneration, hostConfig, status, mode, toHost, lpc, overdue, lossesLeft,
                 rebootsLeft, mirrorBroken>>

ResetFault ==
  /\ StartOperation /\ "resetFault" \in Commands /\ online
  /\ CommandHeater("resetFault")
  /\ main' = "setOff"
  /\ UNCHANGED <<online, newGeneration, hostConfig, status, mode, toHost, lpc, overdue, lossesLeft,
                 rebootsLeft, mirrorBroken>>

\* The last step of an operation sets mode, whatever the heat task has made
\* of it in the meantime.
SetMode ==
  /\ main \in {"setOn", "setSuspended", "setOff"}
  /\ mode' = (CASE main = "setOn" -> "active" [] main = "setSuspended" -> "suspended"
                [] main = "setOff" -> "off")
  /\ main' = "idle"
  /\ UNCHANGED <<online, newGeneration, hostConfig, status, toLpc, toHost, lpc, overdue, budgets,
                 mirrorBroken, stops>>

-----------------------------------------------------------------------------
(* Host, heat task.                                                        *)

\* Mutant of RaiseFault: the coprocessor is left to find out by itself.
RaiseFaultSilently == mode' = "fault" /\ UNCHANGED <<toLpc, stops>>

\* RaiseFault: mode is set, then off sent, even when the host is offline.
RaiseFault == mode' = "fault" /\ CommandHeater("off")

\* Mutant of HeaterSpin: a status replaces any mode.
HeaterSpinFollows ==
  /\ newGeneration' = FALSE
  /\ CASE newGeneration /\ Busy -> RaiseFault
       [] ~(newGeneration /\ Busy) /\ status = "fault" /\ mode # "fault" -> RaiseFault
       [] ~(newGeneration /\ Busy) /\ status \notin {NoStatus, "fault"} ->
            mode' = status /\ UNCHANGED <<toLpc, stops>>
       [] ~(newGeneration /\ Busy) /\ status = NoStatus /\ Busy -> RaiseFault
       [] ~(newGeneration /\ Busy) /\ status = NoStatus /\ mode \notin {"fault", "suspended", "active"} ->
            mode' = "offline" /\ UNCHANGED <<toLpc, stops>>
       [] OTHER -> UNCHANGED <<mode, toLpc, stops>>
  /\ UNCHANGED <<online, hostConfig, status, main, toHost, lpc, overdue, budgets, mirrorBroken>>

\* LpcHeater::Spin.  A heater that should be heating does not survive a new
\* connection or a missing status; any other mode follows the status.
HeaterSpin ==
  /\ newGeneration' = FALSE
  /\ IF mode = "fault"
     THEN UNCHANGED <<mode, toLpc, stops>>
     ELSE CASE newGeneration /\ Busy -> RaiseFault
            [] ~(newGeneration /\ Busy) /\ status = "fault" -> RaiseFault
            [] ~(newGeneration /\ Busy) /\ status \notin {NoStatus, "fault"} ->
                 mode' = status /\ UNCHANGED <<toLpc, stops>>
            [] ~(newGeneration /\ Busy) /\ status = NoStatus /\ Busy -> RaiseFault
            [] OTHER -> mode' = "offline" /\ UNCHANGED <<toLpc, stops>>
  /\ UNCHANGED <<online, hostConfig, status, main, toHost, lpc, overdue, budgets, mirrorBroken>>

-----------------------------------------------------------------------------
(* Coprocessor.                                                            *)

Receive(frame) ==
  /\ toLpc # <<>>
  /\ frame = Head(toLpc)
  /\ toLpc' = Tail(toLpc)

\* Mutant of LpcPing: the pong never asks for the configuration.
LpcPingOnly ==
  /\ Receive(PingFrame)
  /\ toHost' = Append(toHost, Pong(FALSE))
  /\ pingOverdue' = FALSE
  /\ UNCHANGED <<host, lpc, pongOverdue, statusOverdue, budgets, mirrorBroken, stops>>

LpcPing ==
  /\ Receive(PingFrame)
  /\ toHost' = Append(toHost, Pong(needsConfiguration))
  /\ pingOverdue' = FALSE
  /\ UNCHANGED <<host, lpc, pongOverdue, statusOverdue, budgets, mirrorBroken, stops>>

\* Mutant of LpcReset: the heater is left as it was.
LpcResetKeepsHeating ==
  /\ Receive(Reset)
  /\ needsConfiguration' = TRUE
  /\ lpcConfig' = Unset
  /\ statusDirty' = TRUE
  /\ mirrorBroken' = FALSE
  /\ UNCHANGED <<host, toHost, lpcState, overdue, budgets, stops>>

LpcReset ==
  /\ Receive(Reset)
  /\ needsConfiguration' = TRUE
  /\ lpcConfig' = Unset
  /\ lpcState' = "off"
  /\ statusDirty' = TRUE
  /\ mirrorBroken' = FALSE
  /\ UNCHANGED <<host, toHost, overdue, budgets, stops>>

LpcConfigure ==
  /\ \E i \in Items, v \in 1 .. MaxVersion :
       Receive(Config(i, v)) /\ lpcConfig' = [lpcConfig EXCEPT ![i] = v]
  /\ statusDirty' = TRUE
  /\ UNCHANGED <<host, toHost, needsConfiguration, lpcState, overdue, budgets, mirrorBroken, stops>>

LpcComplete ==
  /\ Receive(Complete)
  /\ needsConfiguration' = FALSE
  /\ UNCHANGED <<host, toHost, lpcConfig, lpcState, statusDirty, overdue, budgets, mirrorBroken, stops>>

\* What a command makes of the state; on and resetFault depend on the sensor,
\* on the limits and on the age of the last ping.
Outcomes(c) ==
  CASE c = "on" -> IF lpcState # "fault" /\ Ready THEN {"active", "fault"} ELSE {"fault"}
    [] c = "resetFault" -> {"off", lpcState}
    [] c = "off" -> IF lpcState = "fault" THEN {"fault"} ELSE {"off"}
    [] c = "suspend" -> IF lpcState = "fault" THEN {"fault"} ELSE {"suspended"}

LpcCommand ==
  /\ \E c \in {"on", "off", "suspend", "resetFault"} :
       Receive(Command(c)) /\ lpcState' \in Outcomes(c)
  /\ statusDirty' = TRUE
  /\ UNCHANGED <<host, toHost, needsConfiguration, lpcConfig, overdue, budgets, mirrorBroken, stops>>

\* A fault found by Control, or by the interrupt after a silence of the host.
LpcFault ==
  /\ lpcState = "active"
  /\ lpcState' = "fault"
  /\ statusDirty' = TRUE
  /\ UNCHANGED <<host, toLpc, toHost, needsConfiguration, lpcConfig, overdue, budgets, mirrorBroken, stops>>

\* Mutant of LpcRefresh: an inactive controller has nothing to report.
LpcRefreshActive ==
  /\ ~statusDirty /\ lpcState = "active"
  /\ statusDirty' = TRUE
  /\ UNCHANGED <<host, toLpc, toHost, needsConfiguration, lpcConfig, lpcState, overdue, budgets,
                 mirrorBroken, stops>>

\* Control marks the status dirty four times a second.
LpcRefresh ==
  /\ ~statusDirty
  /\ statusDirty' = TRUE
  /\ UNCHANGED <<host, toLpc, toHost, needsConfiguration, lpcConfig, lpcState, overdue, budgets,
                 mirrorBroken, stops>>

\* Mutant of SendStatus: a coprocessor without its configuration reports too.
SendStatusAlways ==
  /\ statusDirty
  /\ RoomForStatus
  /\ statusDirty' = FALSE
  /\ toHost' = Append(toHost, Status(lpcState))
  /\ UNCHANGED <<host, toLpc, needsConfiguration, lpcConfig, lpcState, overdue, budgets, mirrorBroken, stops>>

SendStatus ==
  /\ statusDirty /\ ~needsConfiguration
  /\ RoomForStatus
  /\ statusDirty' = FALSE
  /\ toHost' = Append(toHost, Status(lpcState))
  /\ UNCHANGED <<host, toLpc, needsConfiguration, lpcConfig, lpcState, overdue, budgets, mirrorBroken, stops>>

\* The interrupt: the host has been silent for LinkTimeoutMillis.
LinkTimeout ==
  /\ pingOverdue /\ lpcState = "active"
  /\ lpcState' = "fault"
  /\ statusDirty' = TRUE
  /\ UNCHANGED <<host, toLpc, toHost, needsConfiguration, lpcConfig, overdue, budgets, mirrorBroken, stops>>

-----------------------------------------------------------------------------
(* The UART and the power supply.                                          *)

\* A frame with a wrong checksum, or with a byte that overran the receiver,
\* is dropped by the decoder; nobody repeats it.
LoseToLpc ==
  /\ toLpc # <<>> /\ lossesLeft > 0
  /\ toLpc' = Tail(toLpc)
  /\ lossesLeft' = lossesLeft - 1
  /\ LET lost == Head(toLpc)
     IN /\ pingOverdue' = (pingOverdue \/ lost.type = "ping")
        /\ pongOverdue' = (pongOverdue \/ lost.type = "ping")
        /\ mirrorBroken' = (mirrorBroken \/ lost.type = "config")
        /\ stopLost' = (stopLost \/ lost \in {Reset} \cup {Command(c) : c \in Stopping})
  /\ UNCHANGED <<host, toHost, lpc, statusOverdue, rebootsLeft, operationsLeft, stopSent>>

LoseToHost ==
  /\ toHost # <<>> /\ lossesLeft > 0
  /\ toHost' = Tail(toHost)
  /\ lossesLeft' = lossesLeft - 1
  /\ pongOverdue' = (pongOverdue \/ Head(toHost).type = "pong")
  /\ statusOverdue' = (statusOverdue \/ Head(toHost).type = "thermalStatus")
  /\ UNCHANGED <<host, toLpc, lpc, pingOverdue, rebootsLeft, operationsLeft, mirrorBroken, stops>>

\* A pong damaged in a way that its checksum does not show: to the host it is
\* a pong of another version, and does not rewind the timer.
SpoilPong ==
  /\ toHost # <<>> /\ Head(toHost).type = "pong" /\ lossesLeft > 0
  /\ toHost' = <<BadPong>> \o Tail(toHost)
  /\ lossesLeft' = lossesLeft - 1
  /\ pongOverdue' = TRUE
  /\ UNCHANGED <<host, toLpc, lpc, pingOverdue, statusOverdue, rebootsLeft, operationsLeft,
                 mirrorBroken, stops>>

\* The coprocessor starts again without a configuration; what the host has
\* already sent arrives after that.
LpcReboot ==
  /\ rebootsLeft > 0
  /\ rebootsLeft' = rebootsLeft - 1
  /\ needsConfiguration' = TRUE
  /\ lpcConfig' = Unset
  /\ lpcState' = "off"
  /\ statusDirty' = TRUE
  /\ pingOverdue' = FALSE /\ pongOverdue' = TRUE /\ statusOverdue' = TRUE
  /\ mirrorBroken' = TRUE
  /\ UNCHANGED <<host, toLpc, toHost, lossesLeft, operationsLeft, stops>>

\* The host starts again; what it had received or was about to is gone.
HostReboot ==
  /\ rebootsLeft > 0
  /\ rebootsLeft' = rebootsLeft - 1
  /\ online' = FALSE /\ newGeneration' = FALSE
  /\ hostConfig' = Unset
  /\ status' = NoStatus /\ mode' = "off" /\ main' = "idle"
  /\ toHost' = <<>>
  /\ pingOverdue' = TRUE /\ pongOverdue' = FALSE /\ statusOverdue' = FALSE
  /\ stopSent' = TRUE /\ stopLost' = FALSE
  /\ UNCHANGED <<toLpc, lpc, lossesLeft, operationsLeft, mirrorBroken>>

-----------------------------------------------------------------------------
Init ==
  /\ online = FALSE /\ newGeneration = FALSE
  /\ hostConfig = Unset
  /\ status = NoStatus /\ mode = "off" /\ main = "idle"
  /\ toLpc = <<PingFrame>> /\ toHost = <<>>
  /\ needsConfiguration = TRUE /\ lpcConfig = Unset /\ lpcState = "off" /\ statusDirty = TRUE
  /\ pingOverdue = FALSE /\ pongOverdue = FALSE /\ statusOverdue = FALSE
  /\ lossesLeft = MaxLosses /\ rebootsLeft = MaxReboots /\ operationsLeft = MaxOperations
  /\ mirrorBroken = FALSE
  /\ stopSent = TRUE /\ stopLost = FALSE

HostReceives == HandlePong \/ HandleThermalStatus
HostTimeouts == PongTimeout \/ StatusTimeout
FinishOperation == (\E m, v \in 1 .. MaxVersion : SendOn(m, v)) \/ SendSuspend \/ SetMode
Operation ==
  \/ \E i \in Settings, v \in 1 .. MaxVersion : ConfigureItem(i, v)
  \/ UnregisterThermistor \/ StartSwitchOn \/ StartSuspend \/ SwitchOff \/ ResetFault
LpcReceives == LpcPing \/ LpcReset \/ LpcConfigure \/ LpcComplete \/ LpcCommand
LpcReports == LpcRefresh \/ SendStatus
Failure == LoseToLpc \/ LoseToHost \/ SpoilPong \/ LpcReboot \/ HostReboot

Next ==
  \/ SendPing \/ HostReceives \/ HostTimeouts \/ Operation \/ FinishOperation \/ HeaterSpin
  \/ LpcReceives \/ LpcReports \/ LpcFault \/ LinkTimeout \/ Failure

Spec == Init /\ [][Next]_vars

-----------------------------------------------------------------------------
(* Fairness: both main loops and the heat task run on, and timers run out. *)
(* Neither failures nor operations have to happen.                         *)

Fairness ==
  /\ WF_vars(SendPing) /\ WF_vars(HostReceives) /\ WF_vars(PongTimeout) /\ WF_vars(StatusTimeout)
  /\ WF_vars(FinishOperation) /\ WF_vars(HeaterSpin)
  /\ WF_vars(LpcReceives) /\ WF_vars(LpcRefresh) /\ WF_vars(SendStatus) /\ WF_vars(LinkTimeout)

FairSpec == Spec /\ Fairness

-----------------------------------------------------------------------------
(* Properties.                                                             *)

FramesToLpc ==
  {PingFrame, Reset, Complete}
    \cup {Config(i, v) : i \in Items, v \in 1 .. MaxVersion}
    \cup {Command(c) : c \in {"on", "off", "suspend", "resetFault"}}
FramesToHost == {BadPong} \cup {Pong(flag) : flag \in BOOLEAN} \cup {Status(s) : s \in HeaterStates}

FlagsTyped ==
  /\ online \in BOOLEAN /\ newGeneration \in BOOLEAN
  /\ needsConfiguration \in BOOLEAN /\ statusDirty \in BOOLEAN
  /\ pingOverdue \in BOOLEAN /\ pongOverdue \in BOOLEAN /\ statusOverdue \in BOOLEAN
  /\ mirrorBroken \in BOOLEAN /\ stopSent \in BOOLEAN /\ stopLost \in BOOLEAN

ValuesTyped ==
  /\ hostConfig \in [Items -> 0 .. MaxVersion] /\ lpcConfig \in [Items -> 0 .. MaxVersion]
  /\ status \in HeaterStates \cup {NoStatus} /\ mode \in Modes /\ lpcState \in HeaterStates
  /\ main \in Places
  /\ lossesLeft \in 0 .. MaxLosses /\ rebootsLeft \in 0 .. MaxReboots
  /\ operationsLeft \in 0 .. MaxOperations

FramesTyped == toLpc \in Seq(FramesToLpc) /\ toHost \in Seq(FramesToHost)

\* Every variable keeps its type.  How many frames are under way is a bound of
\* the model and no part of it.
TypeOK == FlagsTyped /\ ValuesTyped /\ FramesTyped

\* When the host is online, the coprocessor says it is configured and no
\* configuration is under way, then the coprocessor has every value the host
\* remembers, in its last version: however connections, replays, changes
\* made offline and reboots of either side follow each other.  The exception
\* is a configuration frame lost since the last configurationReset, or a
\* coprocessor that rebooted in the middle of a replay: nobody repeats those.
MirrorInSync ==
  /\ online /\ ~needsConfiguration /\ ~mirrorBroken
  /\ \A k \in DOMAIN toLpc : toLpc[k].type \in {"ping", "heaterCommand"}
  => \A i \in Items : hostConfig[i] > 0 => lpcConfig[i] = hostConfig[i]

IsStop(frame) == frame = Reset \/ \E c \in Stopping : frame = Command(c)

\* A heater that LpcHeater reports as faulted is not heating, nor going to,
\* once the off of RaiseFault has arrived: however RaiseFault, in a task that
\* preempts the main task, falls between the tests, the frames and the mode of
\* an operation.  The exceptions are a stop that was lost, and SwitchOn between
\* its frames and its assignment of mode, which turns the heater on over a fault
\* raised behind its tests and then forgets the fault.
FaultedHeaterIsOff ==
  /\ mode = "fault" /\ main # "setOn" /\ ~stopLost
  /\ \A k \in DOMAIN toLpc : ~IsStop(toLpc[k])
  => /\ lpcState # "active"
     /\ \A k \in DOMAIN toLpc : toLpc[k] # Command("on")

\* While no frame has been lost and nobody has rebooted, a heater that heats is
\* not turned off by a replay: the configurations that several pings of an
\* unconfigured coprocessor make the host send have all been received before
\* the host can turn the heater on.
ReplaySparesHeater ==
  /\ lossesLeft = MaxLosses /\ rebootsLeft = MaxReboots /\ lpcState = "active"
  => /\ \A k \in DOMAIN toLpc : toLpc[k] # Reset
     /\ \A k \in DOMAIN toHost : toHost[k] # Pong(TRUE)

\* LpcHeater leaves the fault mode only at the end of an operation, never
\* because of a status, a new connection or a timeout.
FaultIsSticky ==
  [][mode = "fault" /\ mode' # "fault" => main # "idle" \/ rebootsLeft' # rebootsLeft]_vars

\* Once frames are no longer lost and nobody reboots, the two sides get
\* connected and configured, and stay so.
LinkRecovers == <>[](online /\ ~needsConfiguration)

\* A coprocessor that the host no longer wants to heat, because of an
\* operation, a fault or a reboot of the host, stops heating unless the frame
\* that tells it is lost.
StopIsObeyed == stopSent /\ ~stopLost ~> lpcState # "active" \/ ~stopSent \/ stopLost

\* In the end the host reports the state that the coprocessor is in, or a
\* fault that awaits a reset.
HostAgrees == <>[](mode = "fault" \/ mode = lpcState)

\* Turning the heater off turns it off.  (sys/stop.g and sys/cancel.g.)
OffEndsHeating == stopSent ~> lpcState # "active" \/ ~stopSent

=============================================================================

----------------------------- MODULE LpcThermal -----------------------------
(***************************************************************************)
(* The thermal controller of the LPC1115 coprocessor                       *)
(* (LpcFirmware/src/Thermal.cpp) and the part of its main loop (main.cpp)  *)
(* that drives it.                                                         *)
(*                                                                         *)
(* Two flows of control share the state: the main loop, which handles one  *)
(* frame at a time, runs the control law and reports the status, and the   *)
(* SysTick interrupt, whose handler Tick turns the heater off when the     *)
(* host has been silent for too long.  The interrupt may arrive between    *)
(* any two accesses of the main loop to the variables they share (state,   *)
(* error, linkTimeoutLatched, statusDirty and the heater output), so a     *)
(* handler is cut into one step per such access; "at" is the place the     *)
(* main loop has reached.  Accesses that the interrupt cannot tell apart   *)
(* are one step: writing zero to an output, and whatever follows an        *)
(* assignment that makes the controller inactive, because Tick does        *)
(* nothing then.                                                           *)
(*                                                                         *)
(* The data is abstracted to what the control flow distinguishes: a        *)
(* temperature is a band around the target, a fault counter counts control *)
(* periods, the six errors of the two sensor stages and the two monitor    *)
(* errors are one value each, PWM duties are 0..MaxDuty.                   *)
(***************************************************************************)
EXTENDS Naturals

CONSTANTS
  LinkTimeout,    \* ticks without a ping that the controller tolerates
  FaultPeriods,   \* control periods that maxFaultTime allows
  BadLimits,      \* the values of maxBadReadings the host may send
  DefaultBadLimit,\* the value of maxBadReadings after a reset
  MaxBad,         \* where the counter badReadings saturates (255 in the code)
  MaxDuty         \* the largest PWM duty (65535 in the code)

ASSUME ConstantsAssumption ==
  /\ LinkTimeout \in Nat
  /\ FaultPeriods \in Nat
  /\ MaxBad \in Nat
  /\ BadLimits \subseteq 0 .. MaxBad
  /\ DefaultBadLimit \in BadLimits
  /\ MaxDuty \in Nat \ {0}

VARIABLES
  at,                   \* where the main loop is
  state, error,         \* what the status frame reports
  linkTimeoutLatched,   \* set by the interrupt only
  heater,               \* the duty of the heater output
  statusDirty,
  silence,              \* ticks since lastHostHeartbeat, saturating past LinkTimeout
  needsConfiguration,   \* local to main()
  thermistorConfigured, heaterConfigured, modelConfigured,
  pendingModelParts,    \* parts of a model update received so far: 0, 1 or 3
  maxBadReadings, badReadings,
  heatingFault, excursionFault,  \* the two fault timers, in control periods
  boostDue,             \* extrusionTemperatureBoost differs from its last value
  heldState, heldError, \* values read or computed earlier in the current handler
  band,                 \* the temperature just sampled, relative to the target
  duty,                 \* the limited PWM that ApplyHeater is about to write
  reported              \* history: the last status frame sent

shared  == <<state, error, linkTimeoutLatched, heater, statusDirty>>
config  == <<needsConfiguration, thermistorConfigured, heaterConfigured,
             modelConfigured, pendingModelParts, maxBadReadings>>
control == <<badReadings, heatingFault, excursionFault, boostDue>>
locals  == <<heldState, heldError, band, duty>>
vars    == <<at, shared, silence, config, control, locals, reported>>

ActiveStates == {"cooling", "stable", "heating"}
States == {"fault", "off", "suspended"} \cup ActiveStates

Errors == {"none", "notConfigured", "sensor", "linkTimeout", "limit",
           "controlFault", "heatingTooSlow", "temperatureExcursion"}

\* A sample that succeeds lands below, around or above the (boosted) target.
GoodBands == {"cold", "near", "hot"}
Bands == GoodBands \cup {"bad"}

Places == {"loop", "park", "onSample", "onRefuse", "onSet", "resetSample",
           "resetClear", "resetDone", "sample", "decide", "boost", "reboost",
           "switch", "settle", "latch", "apply", "write", "recheck", "fault",
           "reportState", "reportError"}

Active    == state \in ActiveStates
LinkAlive == silence <= LinkTimeout
Ready     == thermistorConfigured /\ heaterConfigured /\ modelConfigured

-----------------------------------------------------------------------------
(* Moving the main loop on.  The values held for the next steps are reset  *)
(* where they are no longer needed.                                        *)

Goto(place) == at' = place

ForgetLocals ==
  /\ heldState' = "off"
  /\ heldError' = "none"
  /\ band' = "bad"
  /\ duty' = 0

EndHandler == Goto("loop") /\ ForgetLocals

\* The call SetFault(e): the heater is turned off and the fault recorded by
\* the step RecordFault, before which the interrupt may still arrive.
CallSetFault(e) ==
  /\ Goto("fault")
  /\ heldError' = e
  /\ heldState' = "off" /\ band' = "bad" /\ duty' = 0

\* Mutant of RecordFault: the new fault is not marked for the next status.
RecordFaultSilently ==
  /\ at = "fault"
  /\ heater' = 0
  /\ state' = "fault"
  /\ error' = heldError
  /\ EndHandler
  /\ UNCHANGED <<statusDirty, linkTimeoutLatched, silence, config, control, reported>>

RecordFault ==
  /\ at = "fault"
  /\ heater' = 0
  /\ state' = "fault"
  /\ error' = heldError
  /\ statusDirty' = TRUE
  /\ EndHandler
  /\ UNCHANGED <<linkTimeoutLatched, silence, config, control, reported>>

\* The state UpdateHeaterState derives from the sample.
StateFor(b) == CASE b = "cold" -> "heating" [] b = "hot" -> "cooling" [] OTHER -> "stable"

\* UpdateHeaterState: both fault timers restart when the state changes.
UpdateHeaterState(new) ==
  /\ state' = new
  /\ IF new = state
     THEN UNCHANGED <<heatingFault, excursionFault>>
     ELSE heatingFault' = 0 /\ excursionFault' = 0

\* SampleTemperature: the error is overwritten whatever it was.
SampleTemperature(b) ==
  /\ b \in Bands
  /\ b # "bad" => thermistorConfigured
  /\ error' = IF ~thermistorConfigured THEN "notConfigured"
              ELSE IF b = "bad" THEN "sensor" ELSE "none"

-----------------------------------------------------------------------------
(* Frames handled by main() itself.                                        *)

Ping ==
  /\ at = "loop"
  /\ silence' = 0
  /\ UNCHANGED <<at, shared, config, control, locals, reported>>

ConfigurationReset ==
  /\ at = "loop"
  /\ needsConfiguration' = TRUE
  /\ thermistorConfigured' = FALSE
  /\ heaterConfigured' = FALSE
  /\ modelConfigured' = FALSE
  /\ pendingModelParts' = 0
  /\ maxBadReadings' = DefaultBadLimit
  /\ badReadings' = 0 /\ heatingFault' = 0 /\ excursionFault' = 0
  /\ boostDue' = FALSE
  /\ state' = "off"
  /\ error' = "notConfigured"
  /\ linkTimeoutLatched' = FALSE
  /\ heater' = 0
  /\ statusDirty' = TRUE
  /\ UNCHANGED <<at, silence, locals, reported>>

ConfigurationComplete ==
  /\ at = "loop"
  /\ needsConfiguration' = FALSE
  /\ UNCHANGED <<at, shared, silence, thermistorConfigured, heaterConfigured, modelConfigured,
                 pendingModelParts, maxBadReadings, control, locals, reported>>

-----------------------------------------------------------------------------
(* Configuration frames.                                                   *)

\* A configuration that is refused faults an active heater; the main loop
\* reads the state once, so an interrupt after that is not seen.
RefuseConfiguration ==
  IF Active
  THEN UNCHANGED <<shared>>
  ELSE /\ error' = "notConfigured"
       /\ statusDirty' = TRUE
       /\ UNCHANGED <<state, linkTimeoutLatched, heater>>

ConfigureThermistor(valid) ==
  /\ at = "loop"
  /\ thermistorConfigured' = valid
  /\ IF valid
     THEN /\ badReadings' = 0
          /\ statusDirty' = TRUE
          /\ UNCHANGED <<at, locals, state, error, linkTimeoutLatched, heater>>
     ELSE /\ RefuseConfiguration
          /\ IF Active THEN CallSetFault("notConfigured") ELSE UNCHANGED <<at, locals>>
          /\ UNCHANGED badReadings
  /\ UNCHANGED <<silence, needsConfiguration, heaterConfigured, modelConfigured,
                 pendingModelParts, maxBadReadings, heatingFault, excursionFault,
                 boostDue, reported>>

\* RejectModelUpdate, with its test of Active.
RejectModelUpdate ==
  /\ pendingModelParts' = 0
  /\ UNCHANGED modelConfigured
  /\ IF Active THEN CallSetFault("controlFault") ELSE UNCHANGED <<at, locals>>

\* The frames heaterModelA, B and C, in the order that pendingModelParts
\* enforces; "valid" says that part C makes a model that ModelReady accepts.
ConfigureModel(part, valid) ==
  /\ at = "loop"
  /\ CASE part = "A" ->
            /\ pendingModelParts' = 1
            /\ UNCHANGED <<at, locals, modelConfigured>>
       [] part = "B" /\ pendingModelParts = 1 ->
            /\ pendingModelParts' = 3
            /\ UNCHANGED <<at, locals, modelConfigured>>
       [] part = "C" /\ pendingModelParts = 3 /\ valid ->
            /\ pendingModelParts' = 0
            /\ modelConfigured' = TRUE
            /\ UNCHANGED <<at, locals>>
       [] OTHER -> RejectModelUpdate
  /\ UNCHANGED <<shared, silence, needsConfiguration, thermistorConfigured,
                 heaterConfigured, maxBadReadings, control, reported>>

ConfigureHeater(valid, limit) ==
  /\ at = "loop"
  /\ heaterConfigured' = valid
  /\ IF valid
     THEN /\ maxBadReadings' = limit
          /\ statusDirty' = TRUE
          /\ UNCHANGED <<at, locals, state, error, linkTimeoutLatched, heater>>
     ELSE /\ RefuseConfiguration
          /\ IF Active THEN CallSetFault("controlFault") ELSE UNCHANGED <<at, locals>>
          /\ UNCHANGED maxBadReadings
  /\ UNCHANGED <<silence, needsConfiguration, thermistorConfigured, modelConfigured,
                 pendingModelParts, control, reported>>

\* The new temperature boost may differ from the one Control used last.
ConfigureFeedForward(finite, differs) ==
  /\ at = "loop"
  /\ IF finite
     THEN boostDue' = differs /\ UNCHANGED <<at, locals>>
     ELSE CallSetFault("controlFault") /\ UNCHANGED boostDue
  /\ UNCHANGED <<shared, silence, config, badReadings, heatingFault, excursionFault, reported>>

-----------------------------------------------------------------------------
(* Command frames.                                                         *)

\* off and suspend turn the heater off, then read the state and, unless it
\* is fault, replace it: the interrupt may arrive between the two.
CommandPark(command) ==
  /\ at = "loop"
  /\ heater' = 0
  /\ IF command = "off"
     THEN boostDue' = FALSE /\ heatingFault' = 0 /\ excursionFault' = 0
     ELSE UNCHANGED <<boostDue, heatingFault, excursionFault>>
  /\ IF state = "fault"
     THEN statusDirty' = TRUE /\ UNCHANGED <<at, heldState>>
     ELSE /\ Goto("park")
          /\ heldState' = (IF command = "off" THEN "off" ELSE "suspended")
          /\ UNCHANGED statusDirty
  /\ UNCHANGED <<state, error, linkTimeoutLatched, silence, config, badReadings,
                 heldError, band, duty, reported>>

Park ==
  /\ at = "park"
  /\ state' = heldState
  /\ statusDirty' = TRUE
  /\ EndHandler
  /\ UNCHANGED <<error, linkTimeoutLatched, heater, silence, config, control, reported>>

\* Mutant of CommandOn: on is accepted in the fault state.
CommandOnWhenFaulted ==
  /\ at = "loop"
  /\ Goto(IF LinkAlive /\ Ready THEN "onSample" ELSE "onRefuse")
  /\ UNCHANGED <<shared, silence, config, control, locals, reported>>

\* on: the checks before the temperature is sampled.
CommandOn ==
  /\ at = "loop"
  /\ Goto(IF LinkAlive /\ Ready /\ state # "fault" THEN "onSample" ELSE "onRefuse")
  /\ UNCHANGED <<shared, silence, config, control, locals, reported>>

OnSample(b) ==
  /\ at = "onSample"
  /\ SampleTemperature(b)
  /\ band' = b
  /\ Goto(IF b = "bad" THEN "onRefuse" ELSE "onSet")
  /\ UNCHANGED <<state, linkTimeoutLatched, heater, statusDirty, silence, config, control,
                 heldState, heldError, duty, reported>>

\* on is refused with a fault, unless there is one already.
OnRefuse ==
  /\ at = "onRefuse"
  /\ IF state = "fault"
     THEN EndHandler
     ELSE CallSetFault(IF ~LinkAlive THEN "linkTimeout"
                       ELSE IF ~Ready THEN "notConfigured" ELSE error)
  /\ UNCHANGED <<shared, silence, config, control, reported>>

\* on is carried out, or faults when the target is outside the limits.
OnSet(inRange) ==
  /\ at = "onSet"
  /\ IF inRange
     THEN /\ UpdateHeaterState(StateFor(band))
          /\ statusDirty' = TRUE
          /\ EndHandler
     ELSE CallSetFault("controlFault") /\ UNCHANGED <<state, statusDirty, heatingFault, excursionFault>>
  /\ UNCHANGED <<error, linkTimeoutLatched, heater, silence, config, badReadings, boostDue, reported>>

\* resetFault is ignored while the link is silent or the sensor unreadable.
CommandResetFault ==
  /\ at = "loop"
  /\ IF LinkAlive
     THEN Goto("resetSample") /\ UNCHANGED statusDirty
     ELSE statusDirty' = TRUE /\ UNCHANGED at
  /\ UNCHANGED <<state, error, linkTimeoutLatched, heater, silence, config, control, locals, reported>>

ResetSample(b) ==
  /\ at = "resetSample"
  /\ SampleTemperature(b)
  /\ IF b = "bad"
     THEN EndHandler /\ statusDirty' = TRUE
     ELSE Goto("resetClear") /\ UNCHANGED <<locals, statusDirty>>
  /\ UNCHANGED <<state, linkTimeoutLatched, heater, silence, config, control, reported>>

ResetClear ==
  /\ at = "resetClear"
  /\ linkTimeoutLatched' = FALSE
  /\ heater' = 0
  /\ Goto("resetDone")
  /\ UNCHANGED <<state, error, statusDirty, silence, config, control, locals, reported>>

ResetDone ==
  /\ at = "resetDone"
  /\ state' = "off"
  /\ error' = "none"
  /\ badReadings' = 0 /\ heatingFault' = 0 /\ excursionFault' = 0
  /\ boostDue' = FALSE
  /\ statusDirty' = TRUE
  /\ EndHandler
  /\ UNCHANGED <<linkTimeoutLatched, heater, silence, config, reported>>

-----------------------------------------------------------------------------
(* Control, which Spin runs every SampleIntervalMillis, also between the   *)
(* bytes of a frame.                                                       *)

StartControl ==
  /\ at = "loop"
  /\ heldState' = state
  /\ heldError' = error
  /\ Goto("sample")
  /\ UNCHANGED <<shared, silence, config, control, band, duty, reported>>

\* The error of a fault seen at the start of Control survives the sample.
Sample(b) ==
  /\ at = "sample"
  /\ IF heldState = "fault"
     THEN /\ b \in Bands /\ (b # "bad" => thermistorConfigured)
          /\ error' = heldError
     ELSE SampleTemperature(b)
  /\ badReadings' = (IF b # "bad" THEN 0
                     ELSE IF badReadings < MaxBad THEN badReadings + 1 ELSE badReadings)
  /\ band' = b
  /\ Goto("decide")
  /\ UNCHANGED <<state, linkTimeoutLatched, heater, statusDirty, silence, config, heatingFault,
                 excursionFault, boostDue, heldState, heldError, duty, reported>>

TooManyBad == badReadings > maxBadReadings

\* The checks before the control law; "outside" says that the temperature
\* is beyond a monitor's limit.  An isolated bad sample leaves the heater on.
Decide(outside) ==
  /\ at = "decide"
  /\ CASE ~Active ->
            heater' = 0 /\ statusDirty' = TRUE /\ EndHandler
       [] Active /\ ~LinkAlive ->
            CallSetFault("linkTimeout") /\ UNCHANGED <<heater, statusDirty>>
       [] Active /\ LinkAlive /\ band = "bad" /\ TooManyBad ->
            CallSetFault(error) /\ UNCHANGED <<heater, statusDirty>>
       [] Active /\ LinkAlive /\ band = "bad" /\ ~TooManyBad ->
            statusDirty' = TRUE /\ EndHandler /\ UNCHANGED heater
       [] Active /\ LinkAlive /\ band # "bad" /\ outside ->
            CallSetFault("limit") /\ UNCHANGED <<heater, statusDirty>>
       [] OTHER ->
            Goto("boost") /\ UNCHANGED <<heater, statusDirty, locals>>
  /\ UNCHANGED <<state, error, linkTimeoutLatched, silence, config, control, reported>>

Boost ==
  /\ at = "boost"
  /\ Goto(IF Active /\ boostDue THEN "reboost" ELSE "switch")
  /\ UNCHANGED <<shared, silence, config, control, locals, reported>>

Reboost ==
  /\ at = "reboost"
  /\ UpdateHeaterState(StateFor(band))
  /\ boostDue' = FALSE
  /\ Goto("switch")
  /\ UNCHANGED <<error, linkTimeoutLatched, heater, statusDirty, silence, config,
                 badReadings, locals, reported>>

\* Mutant of LowerTimer: the subtraction is not guarded.
LowerTimerUnguarded(t) == t - 1

LowerTimer(t) == IF t > 0 THEN t - 1 ELSE t

\* case heating: the timer of a heater that warms up too slowly.
SwitchHeating ==
  /\ at = "switch" /\ state = "heating"
  /\ IF band # "cold"
     THEN heatingFault' = 0 /\ Goto("settle") /\ UNCHANGED locals
     ELSE \/ heatingFault' = 0 /\ Goto("latch") /\ UNCHANGED locals   \* still in the dead time
          \/ UNCHANGED <<heatingFault, locals>> /\ Goto("latch")      \* nothing to compare yet
          \/ heatingFault' = LowerTimer(heatingFault) /\ Goto("latch") /\ UNCHANGED locals
          \/ /\ heatingFault' = heatingFault + 1                      \* too slow
             /\ IF heatingFault' > FaultPeriods
                THEN CallSetFault("heatingTooSlow")
                ELSE Goto("latch") /\ UNCHANGED locals
  /\ UNCHANGED <<shared, silence, config, badReadings, excursionFault, boostDue, reported>>

\* case stable: the timer of a temperature that strays from the target.
SwitchStable ==
  /\ at = "switch" /\ state = "stable"
  /\ \/ excursionFault' = LowerTimer(excursionFault) /\ Goto("latch") /\ UNCHANGED locals
     \/ /\ excursionFault' = excursionFault + 1
        /\ IF excursionFault' > FaultPeriods
           THEN CallSetFault("temperatureExcursion")
           ELSE Goto("latch") /\ UNCHANGED locals
  /\ UNCHANGED <<shared, silence, config, badReadings, heatingFault, boostDue, reported>>

\* case cooling, and the default: "warm" says that the target is above the
\* ambient temperature.
SwitchOther(warm) ==
  /\ at = "switch" /\ state \notin {"heating", "stable"}
  /\ IF state = "cooling" /\ band # "hot" /\ warm
     THEN heatingFault' = 0 /\ excursionFault' = 0 /\ Goto("settle")
     ELSE UNCHANGED <<heatingFault, excursionFault>> /\ Goto("latch")
  /\ UNCHANGED <<shared, silence, config, badReadings, boostDue, locals, reported>>

\* The write of the state decided above, whatever the state is by now.
Settle ==
  /\ at = "settle"
  /\ state' = "stable"
  /\ Goto("latch")
  /\ UNCHANGED <<error, linkTimeoutLatched, heater, statusDirty, silence, config, control,
                 locals, reported>>

\* The last look at the latch before the PWM is applied; the PID and
\* bang-bang laws may ask for any duty.
CheckLatch(d) ==
  /\ at = "latch"
  /\ IF linkTimeoutLatched
     THEN CallSetFault("linkTimeout")
     ELSE duty' = d /\ Goto("apply") /\ UNCHANGED <<heldState, heldError, band>>
  /\ UNCHANGED <<shared, silence, config, control, reported>>

\* ApplyHeater: limit the duty, write it, and look at the latch once more.
LimitDuty ==
  /\ at = "apply"
  /\ duty' = (IF linkTimeoutLatched THEN 0 ELSE duty)
  /\ Goto("write")
  /\ UNCHANGED <<shared, silence, config, control, heldState, heldError, band, reported>>

WriteDuty ==
  /\ at = "write"
  /\ heater' = duty
  /\ Goto("recheck")
  /\ UNCHANGED <<state, error, linkTimeoutLatched, statusDirty, silence, config, control,
                 locals, reported>>

\* Mutant of RecheckLatch: no second look at the latch.
NoRecheck ==
  /\ at = "recheck"
  /\ statusDirty' = TRUE
  /\ EndHandler
  /\ UNCHANGED <<state, error, linkTimeoutLatched, heater, silence, config, control, reported>>

RecheckLatch ==
  /\ at = "recheck"
  /\ heater' = (IF linkTimeoutLatched THEN 0 ELSE heater)
  /\ statusDirty' = TRUE
  /\ EndHandler
  /\ UNCHANGED <<state, error, linkTimeoutLatched, silence, config, control, reported>>

-----------------------------------------------------------------------------
(* TakeStatus: the dirty flag is cleared before the state and the error    *)
(* are read one after the other.                                           *)

TakeStatus ==
  /\ at = "loop" /\ ~needsConfiguration /\ statusDirty
  /\ statusDirty' = FALSE
  /\ Goto("reportState")
  /\ UNCHANGED <<state, error, linkTimeoutLatched, heater, silence, config, control, locals, reported>>

ReadState ==
  /\ at = "reportState"
  /\ heldState' = state
  /\ Goto("reportError")
  /\ UNCHANGED <<shared, silence, config, control, heldError, band, duty, reported>>

\* Mutant of ReadError: the dirty flag is cleared after the values are read.
ReadErrorThenClear ==
  /\ at = "reportError"
  /\ reported' = <<heldState, error>>
  /\ statusDirty' = FALSE
  /\ EndHandler
  /\ UNCHANGED <<state, error, linkTimeoutLatched, heater, silence, config, control>>

ReadError ==
  /\ at = "reportError"
  /\ reported' = <<heldState, error>>
  /\ EndHandler
  /\ UNCHANGED <<shared, silence, config, control>>

-----------------------------------------------------------------------------
(* SysTick_Handler.                                                        *)

\* Mutant of Tick: the fault is raised but not latched.
TickWithoutLatch ==
  /\ silence' = (IF LinkAlive THEN silence + 1 ELSE silence)
  /\ IF Active /\ silence' > LinkTimeout
     THEN /\ heater' = 0 /\ state' = "fault" /\ error' = "linkTimeout" /\ statusDirty' = TRUE
          /\ UNCHANGED linkTimeoutLatched
     ELSE UNCHANGED shared
  /\ UNCHANGED <<at, config, control, locals, reported>>

\* Mutant of Tick: only Control looks at the time of the last heartbeat.
TickCountsOnly ==
  /\ silence' = (IF LinkAlive THEN silence + 1 ELSE silence)
  /\ UNCHANGED <<at, shared, config, control, locals, reported>>

Tick ==
  /\ silence' = (IF LinkAlive THEN silence + 1 ELSE silence)
  /\ IF Active /\ silence' > LinkTimeout
     THEN /\ linkTimeoutLatched' = TRUE
          /\ heater' = 0
          /\ state' = "fault"
          /\ error' = "linkTimeout"
          /\ statusDirty' = TRUE
     ELSE UNCHANGED shared
  /\ UNCHANGED <<at, config, control, locals, reported>>

-----------------------------------------------------------------------------
\* main() after Thermal::Init, which calls ResetConfiguration.  The clock and
\* the time of the last heartbeat both start at zero.
Init ==
  /\ at = "loop"
  /\ state = "off" /\ error = "notConfigured"
  /\ linkTimeoutLatched = FALSE
  /\ heater = 0
  /\ statusDirty = TRUE
  /\ silence = 0
  /\ needsConfiguration = TRUE
  /\ thermistorConfigured = FALSE /\ heaterConfigured = FALSE /\ modelConfigured = FALSE
  /\ pendingModelParts = 0
  /\ maxBadReadings = DefaultBadLimit /\ badReadings = 0
  /\ heatingFault = 0 /\ excursionFault = 0
  /\ boostDue = FALSE
  /\ heldState = "off" /\ heldError = "none" /\ band = "bad" /\ duty = 0
  /\ reported = <<"off", "notConfigured">>

\* A frame of the link, whatever the host sends and when.
HandleFrame ==
  \/ Ping
  \/ ConfigurationReset
  \/ ConfigurationComplete
  \/ \E valid \in BOOLEAN : ConfigureThermistor(valid)
  \/ \E part \in {"A", "B", "C"}, valid \in BOOLEAN : ConfigureModel(part, valid)
  \/ \E valid \in BOOLEAN, limit \in BadLimits : ConfigureHeater(valid, limit)
  \/ \E finite, differs \in BOOLEAN : ConfigureFeedForward(finite, differs)
  \/ \E command \in {"off", "suspend"} : CommandPark(command)
  \/ CommandOn
  \/ CommandResetFault

\* The rest of the handler, of Control or of TakeStatus that the main loop is in.
Continue ==
  \/ RecordFault
  \/ Park
  \/ \E b \in Bands : OnSample(b) \/ ResetSample(b) \/ Sample(b)
  \/ OnRefuse
  \/ \E inRange \in BOOLEAN : OnSet(inRange)
  \/ ResetClear
  \/ ResetDone
  \/ \E outside \in BOOLEAN : Decide(outside)
  \/ Boost
  \/ Reboost
  \/ SwitchHeating
  \/ SwitchStable
  \/ \E warm \in BOOLEAN : SwitchOther(warm)
  \/ Settle
  \/ \E d \in 0 .. MaxDuty : CheckLatch(d)
  \/ LimitDuty
  \/ WriteDuty
  \/ RecheckLatch
  \/ ReadState
  \/ ReadError

Next == HandleFrame \/ StartControl \/ TakeStatus \/ Continue \/ Tick

Spec == Init /\ [][Next]_vars

-----------------------------------------------------------------------------
(* Properties.                                                             *)

FlagsTyped ==
  /\ linkTimeoutLatched \in BOOLEAN
  /\ statusDirty \in BOOLEAN
  /\ needsConfiguration \in BOOLEAN
  /\ thermistorConfigured \in BOOLEAN
  /\ heaterConfigured \in BOOLEAN
  /\ modelConfigured \in BOOLEAN
  /\ boostDue \in BOOLEAN

ValuesTyped ==
  /\ at \in Places
  /\ state \in States
  /\ error \in Errors
  /\ heater \in 0 .. MaxDuty
  /\ silence \in 0 .. LinkTimeout + 1
  /\ pendingModelParts \in {0, 1, 3}
  /\ maxBadReadings \in BadLimits
  /\ badReadings \in 0 .. MaxBad
  /\ heatingFault \in Nat
  /\ excursionFault \in Nat
  /\ heldState \in States
  /\ heldError \in Errors
  /\ band \in Bands
  /\ duty \in 0 .. MaxDuty

\* Every variable of the controller keeps its type, the handler-local ones
\* included.
TypeOK ==
  /\ FlagsTyped
  /\ ValuesTyped
  /\ reported \in States \X Errors

\* Once the interrupt has latched a link timeout the heater stays off, even
\* if pings come back, until a reset clears the latch.  The only exception is
\* the instant in ApplyHeater between the write of a duty computed before the
\* interrupt and the second look at the latch.
LatchHoldsHeaterOff == linkTimeoutLatched /\ at # "recheck" => heater = 0

\* The heater is off once the host has been silent for longer than
\* LinkTimeoutMillis, whatever handler or control step the main loop is in.
SilenceStopsHeating == ~LinkAlive /\ at # "recheck" => heater = 0

\* The heater is on only in an active state and with thermistor, limits and
\* model configured: every command, refused configuration and fault that
\* leaves that state has turned it off.  (A refused configuration is recorded
\* one step before SetFault turns the heater off.)
HeatingIsSupervised ==
  heater # 0 /\ at \notin {"recheck", "fault"} => Active /\ Ready

\* Between two runs of Control the heater is never on with more consecutive
\* unreadable samples than some limit the host may have sent: the heater that
\* Control leaves on after a bad sample cannot stay on blindly.
BlindHeatingIsBounded ==
  heater # 0 /\ at = "loop" => \E limit \in BadLimits : badReadings <= limit

\* Everything that keeps heat and supervision together, in one invariant: the
\* latch and the silence that turn the heater off whatever the main loop is in
\* the middle of, the states it may be on in, and how long it may be on blindly.
HeatingIsSafe ==
  /\ LatchHoldsHeaterOff
  /\ SilenceStopsHeating
  /\ HeatingIsSupervised
  /\ BlindHeatingIsBounded

\* When the main loop has nothing to report, the host was last told the
\* present state and error: an interrupt in the middle of TakeStatus, which
\* can tear the frame being built, always causes another one.
StatusIsNotLost ==
  at = "loop" /\ ~statusDirty /\ ~needsConfiguration => reported = <<state, error>>

\* A fault that leaves without resetFault or configurationReset was one the
\* interrupt raised behind the back of a handler that then wrote the state:
\* the latch is still set, so the heater stays off.
FaultIsAcknowledgedOrLatched ==
  [][state = "fault" /\ state' # "fault" =>
       \/ linkTimeoutLatched'
       \/ at = "resetDone"
       \/ at = "loop" /\ needsConfiguration']_vars

-----------------------------------------------------------------------------
(* Refinement: the controller is an interlock.  A duty written in the      *)
(* instant before ApplyHeater takes its second look at a latch set         *)
(* meanwhile does not count as heating.                                    *)

Hot == heater # 0 /\ ~(at = "recheck" /\ linkTimeoutLatched)

Interlock == INSTANCE HeaterInterlock WITH hot <- Hot, locked <- linkTimeoutLatched

\* Every step of the controller is a step of the interlock or leaves it
\* alone: no order of frames, control steps and interrupts turns the heater
\* on while it is locked or while the host is silent.
ImplementsInterlock == Interlock!Spec

-----------------------------------------------------------------------------
(* Fairness: the timer interrupt never stops, a handler that started runs  *)
(* on (it contains no unbounded wait), and the host leaves gaps between    *)
(* its frames, in which the main loop leaves the inner loop and reports.   *)

Fairness ==
  /\ WF_vars(Tick)
  /\ WF_vars(Continue)
  /\ SF_vars(TakeStatus)

FairSpec == Spec /\ Fairness

\* A heater that is on is turned off, or the host has been heard again: the
\* interrupt alone guarantees it, even if Control is never run.
HeatingNeedsPings == heater # 0 ~> (heater = 0 \/ silence = 0)

\* A fault of a configured controller is reported, or acknowledged first.
FaultIsReported ==
  state = "fault" /\ ~needsConfiguration
    ~> (reported[1] = "fault" \/ state # "fault" \/ needsConfiguration)

=============================================================================

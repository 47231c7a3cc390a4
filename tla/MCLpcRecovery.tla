--------------------------- MODULE MCLpcRecovery -----------------------------
(***************************************************************************)
(* Instances of two modules for what must happen in the end: a firmware    *)
(* update after failures, and the reports of the coprocessor's controller  *)
(* and its stop when pings stay away.  They share no variable, so each     *)
(* behaviour runs one of them.                                             *)
(*                                                                         *)
(* The images to install are an installed one, a longer and a shorter one, *)
(* one with a bad vector table and one that enables code read protection.  *)
(* The controller has been configured, and from then on gets pings,        *)
(* commands and feed-forward values.                                       *)
(***************************************************************************)
EXTENDS LpcIspUpdater

VARIABLES
  part,       \* "update" or "controller"
  at, state, error, linkTimeoutLatched, heater, statusDirty, silence, needsConfiguration,
  thermistorConfigured, heaterConfigured, modelConfigured, pendingModelParts,
  maxBadReadings, badReadings, heatingFault, excursionFault, boostDue, heldState,
  heldError, band, duty, reported

Lengths == [installed |-> 6, long |-> 9, short |-> 1, broken |-> 8, locked |-> 5]

\* The bounds of LpcThermal.cfg.
Controller == INSTANCE LpcThermal WITH
  LinkTimeout <- 1, FaultPeriods <- 1, BadLimits <- {1}, DefaultBadLimit <- 1,
  MaxBad <- 2, MaxDuty <- 1

controllerVars ==
  <<at, state, error, linkTimeoutLatched, heater, statusDirty, silence, needsConfiguration,
    thermistorConfigured, heaterConfigured, modelConfigured, pendingModelParts,
    maxBadReadings, badReadings, heatingFault, excursionFault, boostDue, heldState,
    heldError, band, duty, reported>>
allVars == <<part, vars, controllerVars>>

\* The state after configurationComplete, before the first command.
ControllerInit ==
  /\ at = "loop"
  /\ state = "off" /\ error = "notConfigured"
  /\ linkTimeoutLatched = FALSE /\ heater = 0 /\ statusDirty = TRUE /\ silence = 0
  /\ needsConfiguration = FALSE
  /\ thermistorConfigured = TRUE /\ heaterConfigured = TRUE /\ modelConfigured = TRUE
  /\ pendingModelParts = 0 /\ maxBadReadings = 1 /\ badReadings = 0
  /\ heatingFault = 0 /\ excursionFault = 0 /\ boostDue = FALSE
  /\ heldState = "off" /\ heldError = "none" /\ band = "bad" /\ duty = 0
  /\ reported = <<"off", "notConfigured">>

RecoveryInit ==
  /\ part \in {"update", "controller"}
  /\ Init /\ ControllerInit

Others(p) ==
  /\ part = p /\ part' = p
  /\ p # "update" => UNCHANGED vars
  /\ p # "controller" => UNCHANGED controllerVars

ControllerNext ==
  \/ Controller!Ping
  \/ \E finite, differs \in BOOLEAN : Controller!ConfigureFeedForward(finite, differs)
  \/ \E command \in {"off", "suspend"} : Controller!CommandPark(command)
  \/ Controller!CommandOn \/ Controller!CommandResetFault
  \/ Controller!StartControl \/ Controller!TakeStatus
  \/ Controller!Continue \/ Controller!Tick

RecoveryNext ==
  \/ part = "update" /\ Next /\ Others("update")
  \/ part = "controller" /\ ControllerNext /\ Others("controller")

\* The fairness of each module.
OfUpdate(A) == part = "update" /\ A /\ Others("update")
OfController(A) == part = "controller" /\ A /\ Others("controller")

RecoveryFairness ==
  /\ WF_allVars(OfUpdate(Step)) /\ WF_allVars(OfUpdate(Retry))
  /\ WF_allVars(OfController(Controller!Tick)) /\ WF_allVars(OfController(Controller!Continue))
  /\ SF_allVars(OfController(Controller!TakeStatus))

RecoverySpec == RecoveryInit /\ [][RecoveryNext]_allVars /\ RecoveryFairness

-----------------------------------------------------------------------------
(* The properties, stated in the modules; those of the update are          *)
(* LpcIspUpdater's own.                                                    *)

\* Without pings a controller that heats stops, and a fault of it is reported.
HeatingNeedsPings == Controller!HeatingNeedsPings
FaultIsReported == Controller!FaultIsReported

=============================================================================

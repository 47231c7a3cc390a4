-------------------------- MODULE MCLpcLinkSafety ---------------------------
(***************************************************************************)
(* LpcLink for its safety properties.  A behaviour runs one of three       *)
(* smaller instances within the sizes that the configuration file gives to *)
(* LpcLink: "configure" spends its operations on two versions of two items *)
(* of the configuration, with two pings under way and so two replays of    *)
(* one request; "heat" configures the thermistor, and the rest when it     *)
(* turns the heater on, and commands the heater; "pings" turns the heater  *)
(* on with two pings and two statuses under way, and nothing fails.        *)
(***************************************************************************)
EXTENDS LpcLink

VARIABLE scenario

Configure == INSTANCE LpcLink WITH
  Settings <- {"thermistor", "heater"}, Commands <- {}, Capacity <- 5, MaxOperations <- 2, MaxStatuses <- 1

Heat == INSTANCE LpcLink WITH
  Settings <- {"thermistor"}, Capacity <- 5, MaxVersion <- 1, MaxPings <- 1, MaxStatuses <- 1

Pings == INSTANCE LpcLink WITH Commands <- {"on"}, MaxVersion <- 1

SafetyInit ==
  \/ scenario = "configure" /\ Configure!Init
  \/ scenario = "heat" /\ Heat!Init
  \/ scenario = "pings" /\ Pings!Init

SafetyNext ==
  /\ UNCHANGED scenario
  /\ \/ scenario = "configure" /\ Configure!Next
     \/ scenario = "heat" /\ Heat!Next
     \/ scenario = "pings" /\ Pings!Next /\ UNCHANGED <<lossesLeft, rebootsLeft>>

SafetySpec == SafetyInit /\ [][SafetyNext]_<<vars, scenario>>

=============================================================================

--------------------------- MODULE HeaterInterlock --------------------------
(***************************************************************************)
(* What the coprocessor promises about the heater, whatever it is doing:   *)
(* an interlock on the heater output.  The heater heats only while the     *)
(* host has been heard recently and the interlock has not tripped; when    *)
(* the host falls silent with the heater on, the heater goes off and stays *)
(* locked until it is unlocked.                                            *)
(* LpcThermal implements this specification.                               *)
(***************************************************************************)
EXTENDS Naturals

CONSTANT LinkTimeout    \* ticks of silence that the interlock tolerates

VARIABLES
  hot,      \* the heater output is on
  locked,   \* the interlock has tripped
  silence   \* ticks since the host was heard, saturating past LinkTimeout

vars == <<hot, locked, silence>>

Init == ~hot /\ ~locked /\ silence = 0

Hear == silence' = 0 /\ UNCHANGED <<hot, locked>>

\* The time passes; at the end of the tolerated silence a heater that is on
\* goes off and is locked, and one that is off may be locked too.
Tick ==
  /\ silence' = (IF silence <= LinkTimeout THEN silence + 1 ELSE silence)
  /\ IF silence' > LinkTimeout
     THEN /\ ~hot'
          /\ locked' \in {locked, TRUE}
          /\ hot => locked'
     ELSE UNCHANGED <<hot, locked>>

Heat ==
  /\ ~locked /\ silence <= LinkTimeout
  /\ hot' = TRUE
  /\ UNCHANGED <<locked, silence>>

Cool == hot' = FALSE /\ UNCHANGED <<locked, silence>>

Unlock ==
  /\ locked' = FALSE
  /\ hot' = FALSE
  /\ UNCHANGED silence

Next == Hear \/ Tick \/ Heat \/ Cool \/ Unlock

Spec == Init /\ [][Next]_vars

=============================================================================

---------------------------- MODULE LpcModelUpdate ----------------------------
(***************************************************************************)
(* The three frames A, B and C in which the host sends a heater model      *)
(* (ConfigureHeaterModel and ReplayConfiguration in LpcInterface.cpp) and  *)
(* their assembly in Thermal.cpp.  A frame arrives or is lost; frames are  *)
(* not overtaken.  What a part carries is the model it belongs to.         *)
(***************************************************************************)
EXTENDS Naturals, Sequences

CONSTANTS
  Models,         \* the models the host may send
  Invalid,        \* those that ModelReady refuses
  MaxRun          \* bound: how many frames of models are lost in a row

\* What the constants may be.
ModelAssumption == Invalid \subseteq Models /\ "nothing" \notin Models /\ MaxRun \in Nat

VARIABLES
  sending, part,          \* the host: the model, and the next of its frames
  lost,                   \* how many frames of models have been lost in a row
  pendingModel,           \* the parts A and B that were received
  pendingModelParts,      \* how many there are
  model,                  \* the model of each part of the model in use
  modelConfigured, heater,
  arrived                 \* history: no frame of this update has been lost

host == <<sending, part>>
vars == <<host, lost, pendingModel, pendingModelParts, model, modelConfigured, heater, arrived>>

Nothing == "nothing"
Whole(m) == <<m, m, m>>

-----------------------------------------------------------------------------
(* The host.                                                               *)

StartUpdate ==
  /\ part = 0
  /\ \E m \in Models : sending' = m
  /\ part' = 1 /\ arrived' = TRUE
  /\ UNCHANGED <<lost, pendingModel, pendingModelParts, model, modelConfigured, heater>>

NextPart == part' = (part + 1) % 4 /\ UNCHANGED sending

Lose ==
  /\ part > 0 /\ lost < MaxRun
  /\ NextPart /\ lost' = lost + 1 /\ arrived' = FALSE
  /\ UNCHANGED <<pendingModel, pendingModelParts, model, modelConfigured, heater>>

\* ResetConfiguration, which the frames of a replay follow.
ResetConfiguration ==
  /\ part = 0
  /\ pendingModelParts' = 0 /\ modelConfigured' = FALSE /\ heater' = "off" /\ lost' = 0
  /\ UNCHANGED <<host, pendingModel, model, arrived>>

\* The command on, which without a model is a fault, and resetFault.
SwitchOn ==
  /\ heater # "fault" /\ heater' = IF modelConfigured THEN "active" ELSE "fault"
  /\ UNCHANGED <<host, lost, pendingModel, pendingModelParts, model, modelConfigured, arrived>>

ResetFault ==
  /\ heater = "fault" /\ heater' = "off"
  /\ UNCHANGED <<host, lost, pendingModel, pendingModelParts, model, modelConfigured, arrived>>

-----------------------------------------------------------------------------
(* The coprocessor.                                                        *)

Receive(n) == part = n /\ NextPart /\ lost' = 0 /\ UNCHANGED arrived

RejectModelUpdate ==
  /\ pendingModelParts' = 0
  /\ heater' = IF heater = "active" THEN "fault" ELSE heater
  /\ UNCHANGED <<pendingModel, model, modelConfigured>>

ConfigureModelA ==
  /\ Receive(1)
  /\ pendingModel' = <<sending, Nothing>> /\ pendingModelParts' = 1
  /\ UNCHANGED <<model, modelConfigured, heater>>

\* Mutant of InTurn: a part is taken whatever came before it.
InAnyTurn(n) == TRUE

InTurn(n) == pendingModelParts = n

ConfigureModelB ==
  /\ Receive(2)
  /\ IF InTurn(1)
     THEN /\ pendingModel' = [pendingModel EXCEPT ![2] = sending] /\ pendingModelParts' = 2
          /\ UNCHANGED <<model, modelConfigured, heater>>
     ELSE RejectModelUpdate

ConfigureModelC ==
  /\ Receive(3)
  /\ IF InTurn(2) /\ sending \notin Invalid
     THEN /\ model' = Append(pendingModel, sending)
          /\ modelConfigured' = TRUE /\ pendingModelParts' = 0
          /\ UNCHANGED <<pendingModel, heater>>
     ELSE RejectModelUpdate

-----------------------------------------------------------------------------
Init ==
  /\ sending = Nothing /\ part = 0 /\ lost = 0 /\ arrived = FALSE
  /\ pendingModel = <<Nothing, Nothing>> /\ pendingModelParts = 0
  /\ model = Whole(Nothing) /\ modelConfigured = FALSE /\ heater = "off"

Next ==
  \/ StartUpdate \/ Lose \/ ResetConfiguration \/ SwitchOn \/ ResetFault
  \/ ConfigureModelA \/ ConfigureModelB \/ ConfigureModelC

Spec == Init /\ [][Next]_vars

-----------------------------------------------------------------------------
(* Properties.                                                             *)

TypeOK ==
  /\ sending \in Models \cup {Nothing} /\ part \in 0 .. 3 /\ lost \in 0 .. MaxRun
  /\ pendingModel \in (Models \cup {Nothing}) \X (Models \cup {Nothing}) /\ pendingModelParts \in 0 .. 2
  /\ model \in {Whole(Nothing)} \cup (Models \X Models \X Models)
  /\ modelConfigured \in BOOLEAN /\ heater \in {"off", "active", "fault"} /\ arrived \in BOOLEAN

\* The model in use is one that the host has sent, never parts of two, and
\* never one that ModelReady refuses, whatever frames are lost as long as
\* fewer are lost in a row than a model has: A1 and then B2 and C2 would be
\* taken for one model.  No heater is active without one.
ModelIsWhole ==
  /\ \E m \in (Models \ Invalid) \cup {Nothing} : model = Whole(m)
  /\ heater = "active" => model # Whole(Nothing)

\* An update of which every frame arrives is in use at its end, whatever was
\* lost of the updates before it.
CompleteUpdateCounts ==
  part = 0 /\ arrived /\ sending \notin Invalid /\ modelConfigured => model = Whole(sending)

=============================================================================

----------------------------- MODULE MCLpcLink ------------------------------
(***************************************************************************)
(* Instance of LpcLink for its liveness properties.  The two sides are     *)
(* connected, configured and idle, so that the budget of operations is     *)
(* left for the heater.                                                    *)
(***************************************************************************)
EXTENDS LpcLink

\* The state after the replay of the first version of every item.
ConnectedInit ==
  /\ online = TRUE /\ newGeneration = FALSE
  /\ hostConfig = [i \in Items |-> 1]
  /\ status = "off" /\ mode = "off" /\ main = "idle"
  /\ toLpc = <<>> /\ toHost = <<>>
  /\ needsConfiguration = FALSE /\ lpcConfig = [i \in Items |-> 1]
  /\ lpcState = "off" /\ statusDirty = FALSE
  /\ pingOverdue = FALSE /\ pongOverdue = FALSE /\ statusOverdue = FALSE
  /\ lossesLeft = MaxLosses /\ rebootsLeft = MaxReboots /\ operationsLeft = MaxOperations
  /\ mirrorBroken = FALSE
  /\ stopSent = TRUE /\ stopLost = FALSE

FairConnectedSpec == ConnectedInit /\ [][Next]_vars /\ Fairness

=============================================================================

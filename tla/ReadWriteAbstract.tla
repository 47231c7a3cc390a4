------------------------- MODULE ReadWriteAbstract --------------------------
(***************************************************************************)
(* What a reader-writer lock promises: any number of tasks inside to read, *)
(* or one to write and nobody else.                                        *)
(***************************************************************************)
CONSTANT Tasks

VARIABLE inside      \* "out", "reading" or "writing"

Init == inside = [t \in Tasks |-> "out"]

EnterToRead(t) ==
  /\ inside[t] = "out"
  /\ \A u \in Tasks : inside[u] # "writing"
  /\ inside' = [inside EXCEPT ![t] = "reading"]

EnterToWrite(t) ==
  /\ \A u \in Tasks : inside[u] = "out"
  /\ inside' = [inside EXCEPT ![t] = "writing"]

Downgrade(t) ==
  /\ inside[t] = "writing"
  /\ inside' = [inside EXCEPT ![t] = "reading"]

Leave(t) ==
  /\ inside[t] # "out"
  /\ inside' = [inside EXCEPT ![t] = "out"]

Next ==
  \E t \in Tasks : EnterToRead(t) \/ EnterToWrite(t) \/ Downgrade(t) \/ Leave(t)

Spec == Init /\ [][Next]_inside

=============================================================================

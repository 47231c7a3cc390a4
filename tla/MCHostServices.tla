--------------------------- MODULE MCHostServices ---------------------------
(***************************************************************************)
(* Instances of three services that the tasks of the main board share:     *)
(* the output buffers, which this module extends, the movement ring with   *)
(* the pauses of a print, and the heap of the object model.  They share    *)
(* no variable, so each behaviour runs one of them.                        *)
(***************************************************************************)
EXTENDS ReplyBuffers

CONSTANTS
  Tasks, Writers, Handles, Slots, Length, Elements, BlockSize, MaxBlocks, MaxReferences

\* Handles share arrays and strings, slots and the block run out, and the block
\* is collected.
MCHandles == [main |-> 2, net |-> 1]
MCLength == [text |-> 1]

VARIABLES
  part,     \* the service that runs
  job, next, ring, scheduled, completed, ms, fraction, awake, queue, pauseState, deferred,
  step, restore, pausesLeft, done, finished,
  block, slot, heapToRecycle, handle, at, target, value

\* A ring of three moves and a queue of two commands fill up.  Two pauses in a
\* print with long moves and an arc; one around a macro without moves; and one
\* that the file asks for.
Printing == INSTANCE PrintPause WITH
  Prints <- {[job |-> <<"long", "code", "arc", "code", "line">>, pauses |-> 2],
             [job |-> <<"line", "macro", "long", "code">>, pauses |-> 1],
             [job |-> <<"line", "pause", "long">>, pauses |-> 0]},
  Macro <- <<"code", "code">>,
  Segments <- [line |-> 1, long |-> 2, arc |-> 3],
  RingSize <- 4, QueueSize <- 2, at <- next

Heap == INSTANCE ObjectHeap

ASSUME PrintingAssumption == Printing!PauseAssumption
ASSUME HeapAssumed == Heap!HeapAssumption

-----------------------------------------------------------------------------
printVars == <<job, next, ring, scheduled, completed, ms, fraction, awake, queue,
               pauseState, deferred, step, restore, pausesLeft, done, finished>>
heapVars == <<block, slot, heapToRecycle, handle, at, target, value>>
serviceVars == <<part, printVars, vars, heapVars>>

Others(p) ==
  /\ part = p /\ part' = p
  /\ p # "print" => UNCHANGED printVars
  /\ p # "replies" => UNCHANGED vars
  /\ p # "heap" => UNCHANGED heapVars

ServicesInit ==
  /\ part \in {"print", "replies", "heap"}
  /\ Printing!Init /\ Init /\ Heap!Init
  /\ part # "print" => pausesLeft = 0      \* which of the prints does not matter then

ServicesNext ==
  \/ part = "print" /\ Printing!Next /\ Others("print")
  \/ part = "replies" /\ Next /\ Others("replies")
  \/ part = "heap" /\ Heap!Next /\ Others("heap")

\* The fairness of the print.
OfPrint(A) == part = "print" /\ A /\ Others("print")
Stopping == Printing!SynchronousPause \/ Printing!PauseStep \/ Printing!Paused

Fairness ==
  /\ WF_serviceVars(OfPrint(Printing!MovePass))
  /\ WF_serviceVars(OfPrint(Printing!File))
  /\ WF_serviceVars(OfPrint(Stopping))

ServicesSpec == ServicesInit /\ [][ServicesNext]_serviceVars /\ Fairness

-----------------------------------------------------------------------------
(* The properties, stated in the modules; that of the reply buffers is      *)
(* BuffersAreAccounted.                                                     *)

\* Every variable keeps its type: no ring, queue, stack or count of references
\* overflows.
ServicesTypeOK == Printing!TypeOK /\ TypeOK /\ Heap!TypeOK

\* A print that ends has done everything in its file, whatever pauses took back.
NothingIsSkipped == Printing!NothingIsSkipped

\* A pause that was begun stops the machine.
PauseCompletes == Printing!PauseCompletes

\* Strings and arrays stay what was assigned, through copies and collections.
VariablesKeepTheirValues == Heap!VariablesKeepTheirValues

=============================================================================

----------------------------- MODULE MCHostQueues ----------------------------
(***************************************************************************)
(* Instances of the two services of the main board that serve requests in  *)
(* an order of their own: the reader-writer lock and the list of events.   *)
(* They share no variable, so each behaviour runs one of them.             *)
(***************************************************************************)
EXTENDS ReadWriteLock

CONSTANTS
  t1, t2, t3, t4,                                                   \* the lock
  Events, Priority, Serious, HasMacro, MaxEvents, MaxPauses         \* the list of events

\* Four tasks, so that two readers and a writer can all wait for a fourth task
\* and three writers can queue.
MCTasks == {t1, t2, t3, t4}

\* Two events of one priority, two behind them.
MCPriority == [fault |-> 3, monitor |-> 3, stall |-> 6, warning |-> 7]

VARIABLES
  part,     \* the service that runs
  eventsPending, channel, pauseState, eventsQueued, eventsProcessed, pausesLeft,
  current

EventList == INSTANCE EventQueue

ASSUME QueuesAssumption == EventList!EventAssumption

-----------------------------------------------------------------------------
eventVars == <<eventsPending, channel, pauseState, eventsQueued, eventsProcessed,
               pausesLeft, current>>
hostVars == <<part, vars, eventVars>>

Others(p) ==
  /\ part = p /\ part' = p
  /\ p # "lock" => UNCHANGED vars
  /\ p # "events" => UNCHANGED eventVars

HostInit ==
  /\ part \in {"lock", "events"}
  /\ Init /\ EventList!Init

HostNext ==
  \/ part = "lock" /\ Next /\ Others("lock")
  \/ part = "events" /\ EventList!Next /\ Others("events")

\* The fairness of each service.
OfLock(A) == part = "lock" /\ A /\ Others("lock")
OfEvents(A) == part = "events" /\ A /\ Others("events")

HostFairness ==
  /\ \A t \in Tasks :
       /\ WF_hostVars(OfLock(Wake(t))) /\ WF_hostVars(OfLock(Leave(t)))
       /\ SF_hostVars(OfLock(Depth(t) = 1 /\ Leave(t)))
  /\ WF_hostVars(OfEvents(EventList!Channel)) /\ WF_hostVars(OfEvents(EventList!UserPaused))

HostSpec == HostInit /\ [][HostNext]_hostVars /\ HostFairness

-----------------------------------------------------------------------------
(* The properties, stated in the modules; those of the lock are            *)
(* ReadWriteLock's own.                                                    *)

HostTypeOK == TypeOK /\ EventList!TypeOK

\* The event that is handled stays at the head of the list; behind it the list is
\* in the order of priority.
EventsInOrder == EventList!EventsInOrder

\* No task starves at the lock, and every event is dealt with.
RequestsEnd == EverybodyIsServed /\ EventList!EveryEventIsHandled

=============================================================================

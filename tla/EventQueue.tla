----------------------------- MODULE EventQueue ------------------------------
(***************************************************************************)
(* The list of events that sensors and heaters raise (Platform/Event) and  *)
(* the AutoPause channel that handles them one at a time: it runs the      *)
(* event's macro if there is one, or else reports the event and, when it   *)
(* is a serious one, pauses the print.                                     *)
(*                                                                         *)
(* Any task may add an event at any time, under a critical section.  The   *)
(* channel, and the commands that pause and resume the print, run in the   *)
(* Main task.                                                              *)
(***************************************************************************)
EXTENDS Naturals, Sequences, SequencesExt

CONSTANTS
  Events,       \* type, parameter and device of the events that can occur
  Priority,     \* the number of the type of an event; the lowest goes first
  Serious,      \* the events whose default action is to pause
  HasMacro,     \* the events for which there is a macro file
  MaxEvents,    \* bound on the events that occur
  MaxPauses     \* bound on the pauses that the user asks for

\* What the constants may be.
EventAssumption ==
  /\ Priority \in [Events -> Nat]
  /\ Serious \subseteq Events /\ HasMacro \subseteq Events
  /\ MaxEvents \in Nat /\ MaxPauses \in Nat

VARIABLES
  eventsPending,     \* the list: events, and whether each isBeingProcessed
  channel,           \* the state of the AutoPause channel
  pauseState,        \* of the print
  eventsQueued, eventsProcessed,
  pausesLeft,
  current            \* the event that the channel took up

vars == <<eventsPending, channel, pauseState, eventsQueued, eventsProcessed, pausesLeft,
          current>>

None == "none"

TypeOK ==
  /\ eventsPending \in Seq([event : Events, isBeingProcessed : BOOLEAN])
  /\ channel \in {"normal", "started", "macro", "processingEvent", "eventPausing",
                  "finishedProcessingEvent"}
  /\ pauseState \in {"notPaused", "pausing", "paused", "resuming"}
  /\ eventsQueued \in 0 .. MaxEvents
  /\ eventsProcessed + Len(eventsPending) = eventsQueued
  /\ pausesLeft \in 0 .. MaxPauses
  /\ current \in Events \cup {None}

Init ==
  /\ eventsPending = <<>> /\ eventsQueued = 0 /\ eventsProcessed = 0
  /\ channel = "normal" /\ current = None
  /\ pauseState = "notPaused" /\ pausesLeft = MaxPauses

-----------------------------------------------------------------------------
\* Mutant of Passes: the event that is being processed can be overtaken.
PassesByPriority(entry, event) == Priority[event] >= Priority[entry.event]

\* Where AddEventV stops: at the first event of lower priority that is not
\* being processed.
Passes(entry, event) ==
  Priority[event] >= Priority[entry.event] \/ entry.isBeingProcessed

Place(event) ==
  CHOOSE i \in 1 .. Len(eventsPending) + 1 :
    /\ \A k \in 1 .. i - 1 : Passes(eventsPending[k], event)
    /\ i <= Len(eventsPending) => ~Passes(eventsPending[i], event)

\* AddEventV: an event like one that it passes is dropped.
AddEvent(event) ==
  /\ eventsQueued < MaxEvents
  /\ \A i \in 1 .. Place(event) - 1 : eventsPending[i].event # event
  /\ eventsPending' = InsertAt(eventsPending, Place(event),
                               [event |-> event, isBeingProcessed |-> FALSE])
  /\ eventsQueued' = eventsQueued + 1
  /\ UNCHANGED <<channel, pauseState, eventsProcessed, pausesLeft, current>>

\* FinishedProcessing
FinishedProcessing ==
  IF eventsPending # <<>> /\ Head(eventsPending).isBeingProcessed
  THEN eventsPending' = Tail(eventsPending) /\ eventsProcessed' = eventsProcessed + 1
  ELSE UNCHANGED <<eventsPending, eventsProcessed>>

-----------------------------------------------------------------------------
(* The AutoPause channel.                                                  *)

\* StartProcessing
StartProcessing ==
  /\ channel = "normal" /\ eventsPending # <<>>
  /\ eventsPending' = [eventsPending EXCEPT ![1].isBeingProcessed = TRUE]
  /\ current' = Head(eventsPending).event
  /\ channel' = "started"
  /\ UNCHANGED <<pauseState, eventsQueued, eventsProcessed, pausesLeft>>

\* ProcessEvent reads the event at the head of the list: its macro, or the
\* default action.  The print pauses in a state of its own.
ProcessEvent ==
  /\ channel = "started"
  /\ LET event == Head(eventsPending).event IN
       IF event \in HasMacro
       THEN channel' = "macro" /\ UNCHANGED <<eventsPending, eventsProcessed>>
       ELSE IF event \in Serious /\ pauseState = "notPaused"
       THEN channel' = "processingEvent" /\ UNCHANGED <<eventsPending, eventsProcessed>>
       ELSE channel' = "normal" /\ FinishedProcessing
  /\ UNCHANGED <<pauseState, eventsQueued, pausesLeft, current>>

MacroEnds ==
  /\ channel = "macro" /\ channel' = "finishedProcessingEvent"
  /\ UNCHANGED <<eventsPending, pauseState, eventsQueued, eventsProcessed, pausesLeft,
                 current>>

\* processingEvent waits for a resume to end; if the print is not paused yet,
\* it is paused now.
PauseForEvent ==
  /\ channel = "processingEvent" /\ pauseState # "resuming"
  /\ IF pauseState = "notPaused"
     THEN pauseState' = "pausing" /\ channel' = "eventPausing"
     ELSE channel' = "finishedProcessingEvent" /\ UNCHANGED pauseState
  /\ UNCHANGED <<eventsPending, eventsQueued, eventsProcessed, pausesLeft, current>>

\* eventPausing1 and eventPausing2
PausedForEvent ==
  /\ channel = "eventPausing"
  /\ pauseState' = "paused" /\ channel' = "finishedProcessingEvent"
  /\ UNCHANGED <<eventsPending, eventsQueued, eventsProcessed, pausesLeft, current>>

EventDone ==
  /\ channel = "finishedProcessingEvent" /\ channel' = "normal"
  /\ FinishedProcessing
  /\ UNCHANGED <<pauseState, eventsQueued, pausesLeft, current>>

-----------------------------------------------------------------------------
(* The print, which is running all the time, on behalf of the user.  The   *)
(* Main task does nothing else while it is in ProcessEvent.                *)

UserPause ==
  /\ channel # "started" /\ pauseState = "notPaused" /\ pausesLeft > 0
  /\ pauseState' = "pausing" /\ pausesLeft' = pausesLeft - 1
  /\ UNCHANGED <<eventsPending, channel, eventsQueued, eventsProcessed, current>>

UserResume ==
  /\ channel # "started" /\ pauseState = "paused" /\ pauseState' = "resuming"
  /\ UNCHANGED <<eventsPending, channel, eventsQueued, eventsProcessed, pausesLeft, current>>

\* The pausing and resuming states of the user's channel come to their ends.
UserPaused ==
  /\ channel \notin {"started", "eventPausing"}
  /\ \/ pauseState = "pausing" /\ pauseState' = "paused"
     \/ pauseState = "resuming" /\ pauseState' = "notPaused"
  /\ UNCHANGED <<eventsPending, channel, eventsQueued, eventsProcessed, pausesLeft, current>>

Channel ==
  \/ StartProcessing \/ ProcessEvent \/ MacroEnds
  \/ PauseForEvent \/ PausedForEvent \/ EventDone

Next ==
  \/ \E event \in Events : AddEvent(event)
  \/ Channel
  \/ UserPause \/ UserResume \/ UserPaused

\* The channels are served in turn, and standstill is reached.
Fairness == WF_vars(Channel) /\ WF_vars(UserPaused)

Spec == Init /\ [][Next]_vars /\ Fairness

-----------------------------------------------------------------------------
(* Properties.                                                             *)

\* The event that is handled is the one that was taken up, and stays at the
\* head of the list however many are added meanwhile; behind it the list is in
\* the order of priority and no event is in the list twice.
EventsInOrder ==
  /\ channel # "normal" =>
       eventsPending # <<>> /\ Head(eventsPending) = [event |-> current, isBeingProcessed |-> TRUE]
  /\ \A i, k \in DOMAIN eventsPending : i < k =>
       /\ ~eventsPending[k].isBeingProcessed
       /\ eventsPending[i].event # eventsPending[k].event
       /\ \/ eventsPending[i].isBeingProcessed
          \/ Priority[eventsPending[i].event] <= Priority[eventsPending[k].event]

\* Every event is dealt with.
EveryEventIsHandled == eventsPending # <<>> ~> eventsPending = <<>>

=============================================================================

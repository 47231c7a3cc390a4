-------------------------- MODULE HostQueuesProofs --------------------------
(***************************************************************************)
(* Proofs about the list of events, and about the lock beside it, for any  *)
(* number of tasks, events and priorities.                                 *)
(***************************************************************************)
EXTENDS MCHostQueues, ReadWriteLockProofs, SequenceTheorems, WellFoundedInduction

Entries == [event : Events, isBeingProcessed : BOOLEAN]

\* The order of the list is inductive with the types: a step of the channel
\* depends on no more of the past.
EventInv == EventList!TypeOK /\ eventsProcessed \in Nat /\ EventList!EventsInOrder

\* The order of a list, and the entry of the event that the channel took up.
InOrder(q) ==
  \A i, k \in 1 .. Len(q) : i < k =>
    /\ ~q[k].isBeingProcessed
    /\ q[i].event # q[k].event
    /\ q[i].isBeingProcessed \/ Priority[q[i].event] <= Priority[q[k].event]
TakenUp(q) == q # <<>> /\ Head(q) = [event |-> current, isBeingProcessed |-> TRUE]

-----------------------------------------------------------------------------
(* Where an event goes in the list.                                        *)

\* A set of natural numbers that is not empty has a smallest member.
LEMMA Smallest ==
  ASSUME NEW T \in SUBSET Nat, T # {}
  PROVE  \E x \in T : \A y \in T : x <= y
<1>1. PICK x \in T : \A y \in T : ~(<<y, x>> \in OpToRel(<, Nat))
  BY NatLessThanWellFounded, WFMin
<1>2. \A y \in T : ~(y < x)
  BY <1>1 DEF OpToRel
<1> QED
  BY <1>2

\* The loop of AddEventV ends behind the entries that the event passes.
LEMMA PlaceFound ==
  ASSUME EventList!TypeOK, NEW event \in Events
  PROVE  LET p == EventList!Place(event) IN
           /\ p \in 1 .. Len(eventsPending) + 1
           /\ \A k \in 1 .. p - 1 : EventList!Passes(eventsPending[k], event)
           /\ p <= Len(eventsPending) => ~EventList!Passes(eventsPending[p], event)
<1> DEFINE n == Len(eventsPending)
           T == {i \in 1 .. n + 1 : i <= n => ~EventList!Passes(eventsPending[i], event)}
           Found(p) == /\ \A k \in 1 .. p - 1 : EventList!Passes(eventsPending[k], event)
                       /\ p <= n => ~EventList!Passes(eventsPending[p], event)
<1>1. n \in Nat
  BY LenProperties DEF EventList!TypeOK
<1>2. T \in SUBSET Nat /\ n + 1 \in T
  BY <1>1
<1>3. PICK x \in T : \A y \in T : x <= y
  BY <1>2, Smallest
<1>4. x \in 1 .. n + 1 /\ Found(x)
  <2>1. x \in 1 .. n + 1 /\ (x <= n => ~EventList!Passes(eventsPending[x], event))
    BY <1>3
  <2>2. ASSUME NEW k \in 1 .. x - 1
        PROVE  EventList!Passes(eventsPending[k], event)
    <3>1. k \in 1 .. n + 1 /\ k <= n /\ ~(x <= k)
      BY <1>1, <2>1
    <3>2. k \notin T
      BY <1>3, <3>1
    <3> QED
      BY <3>1, <3>2
  <2> QED
    BY <2>1, <2>2
<1>5. EventList!Place(event) = CHOOSE i \in 1 .. n + 1 : Found(i)
  BY DEF EventList!Place
<1> HIDE DEF Found
<1>6. EventList!Place(event) \in 1 .. n + 1 /\ Found(EventList!Place(event))
  BY <1>4, <1>5
<1> QED
  BY <1>6 DEF Found

\* What InsertAt makes of a list.
LEMMA Inserted ==
  ASSUME NEW S, NEW q \in Seq(S), NEW e \in S, NEW p \in 1 .. Len(q) + 1
  PROVE  /\ EventList!InsertAt(q, p, e) \in Seq(S)
         /\ Len(EventList!InsertAt(q, p, e)) = Len(q) + 1
         /\ \A i \in 1 .. Len(q) + 1 : EventList!InsertAt(q, p, e)[i] =
              IF i < p THEN q[i] ELSE IF i = p THEN e ELSE q[i - 1]
<1> DEFINE n == Len(q)
           front == SubSeq(q, 1, p - 1)
           back == SubSeq(q, p, n)
           middle == <<e>>
<1>1. n \in Nat /\ p \in Int /\ p - 1 \in Int /\ 1 \in Int /\ n \in Int
  BY LenProperties
<1>2. \A i \in 1 .. n : q[i] \in S
  BY ElementOfSeq
<1>3. /\ front \in Seq(S) /\ Len(front) = p - 1
      /\ \A i \in 1 .. p - 1 : front[i] = q[i]
  <2>1. \A i \in 1 .. p - 1 : q[i] \in S
    BY <1>1, <1>2
  <2>2. /\ front \in Seq(S) /\ Len(front) = IF 1 <= p - 1 THEN (p - 1) - 1 + 1 ELSE 0
        /\ \A i \in 1 .. (p - 1) - 1 + 1 : front[i] = q[1 + i - 1]
    BY <1>1, <2>1, SubSeqProperties
  <2> QED
    BY <1>1, <2>2
<1>4. /\ back \in Seq(S) /\ Len(back) = n - p + 1
      /\ \A i \in 1 .. n - p + 1 : back[i] = q[p + i - 1]
  <2>1. \A i \in p .. n : q[i] \in S
    BY <1>1, <1>2
  <2>2. /\ back \in Seq(S) /\ Len(back) = IF p <= n THEN n - p + 1 ELSE 0
        /\ \A i \in 1 .. n - p + 1 : back[i] = q[p + i - 1]
    BY <1>1, <2>1, SubSeqProperties
  <2> QED
    BY <1>1, <2>2
<1>5. middle \in Seq(S) /\ Len(middle) = 1 /\ middle[1] = e
  OBVIOUS
<1>6. EventList!InsertAt(q, p, e) = (front \o middle) \o back
  BY DEF EventList!InsertAt
<1> HIDE DEF front, middle, back
<1>7. /\ front \o middle \in Seq(S) /\ Len(front \o middle) = p
      /\ \A i \in 1 .. p : (front \o middle)[i] = IF i < p THEN q[i] ELSE e
  <2>0. /\ front \o middle \in Seq(S) /\ Len(front \o middle) = Len(front) + Len(middle)
        /\ \A i \in 1 .. Len(front) + Len(middle) :
             (front \o middle)[i] = IF i <= Len(front) THEN front[i] ELSE middle[i - Len(front)]
    BY <1>3, <1>5, ConcatProperties
  <2>1. /\ front \o middle \in Seq(S) /\ Len(front \o middle) = p - 1 + 1
        /\ \A i \in 1 .. p - 1 + 1 :
             (front \o middle)[i] = IF i <= p - 1 THEN front[i] ELSE middle[i - (p - 1)]
    BY <1>3, <1>5, <2>0, Zenon
  <2>2. p - 1 + 1 = p /\ \A i \in 1 .. p : i <= p - 1 <=> i < p
    BY <1>1
  <2>3. \A i \in 1 .. p : ~(i < p) => i - (p - 1) = 1
    BY <1>1
  <2>4. \A i \in 1 .. p : i < p => i \in 1 .. p - 1
    BY <1>1
  <2> QED
    BY <1>3, <1>5, <2>1, <2>2, <2>3, <2>4
<1> DEFINE start == front \o middle
           r == start \o back
<1> HIDE DEF start
<1>8. /\ r \in Seq(S) /\ Len(r) = p + (n - p + 1)
      /\ \A i \in 1 .. p + (n - p + 1) : r[i] = IF i <= p THEN start[i] ELSE back[i - p]
  <2>1. start \in Seq(S) /\ Len(start) = p
    BY <1>7 DEF start
  <2> QED
    BY <1>4, <2>1, ConcatProperties
<1>9. ASSUME NEW i \in 1 .. n + 1
      PROVE  r[i] = IF i < p THEN q[i] ELSE IF i = p THEN e ELSE q[i - 1]
  <2> HIDE DEF r
  <2>1. CASE i <= p
    <3>1. i \in 1 .. p /\ i \in 1 .. p + (n - p + 1)
      BY <1>1, <2>1
    <3>2. r[i] = start[i]
      BY <1>8, <2>1, <3>1
    <3>3. start[i] = IF i < p THEN q[i] ELSE e
      BY <1>7, <3>1 DEF start
    <3> QED
      BY <1>1, <2>1, <3>2, <3>3
  <2>2. CASE i > p
    <3>1. i - p \in 1 .. n - p + 1 /\ p + (i - p) - 1 = i - 1 /\ i \in 1 .. p + (n - p + 1)
      BY <1>1, <2>2
    <3>2. r[i] = back[i - p] /\ back[i - p] = q[p + (i - p) - 1]
      BY <1>1, <1>4, <1>8, <2>2, <3>1
    <3> QED
      BY <2>2, <3>1, <3>2
  <2> QED
    BY <1>1, <2>1, <2>2
<1>10. Len(r) = n + 1
  BY <1>1, <1>8
<1> QED
  BY <1>6, <1>8, <1>9, <1>10 DEF start

-----------------------------------------------------------------------------
(* The steps.                                                              *)

\* What is assumed of the constants.
LEMMA EventFacts ==
  /\ Priority \in [Events -> Nat]
  /\ Serious \subseteq Events /\ HasMacro \subseteq Events
  /\ MaxEvents \in Nat /\ MaxPauses \in Nat
BY QueuesAssumption DEF EventList!EventAssumption

\* The invariant in its parts.
LEMMA EventParts ==
  ASSUME EventList!TypeOK
  PROVE  /\ eventsPending \in Seq(Entries) /\ Len(eventsPending) \in Nat
         /\ EventList!EventsInOrder <=>
              (channel # "normal" => TakenUp(eventsPending)) /\ InOrder(eventsPending)
<1>1. eventsPending \in Seq(Entries)
  BY DEF EventList!TypeOK, Entries
<1>2. Len(eventsPending) \in Nat /\ DOMAIN eventsPending = 1 .. Len(eventsPending)
  BY <1>1, LenProperties
<1> QED
  BY <1>1, <1>2 DEF EventList!EventsInOrder, TakenUp, InOrder

\* The same in the next state.
LEMMA EventPartsNext ==
  ASSUME EventList!TypeOK'
  PROVE  EventList!EventsInOrder' <=>
           (channel' # "normal" => TakenUp(eventsPending)') /\ InOrder(eventsPending')
<1>1. eventsPending' \in Seq(Entries)
  BY DEF EventList!TypeOK, Entries
<1>2. Len(eventsPending') \in Nat /\ DOMAIN eventsPending' = 1 .. Len(eventsPending')
  BY <1>1, LenProperties
<1> QED
  BY <1>1, <1>2 DEF EventList!EventsInOrder, TakenUp, InOrder

\* At the start the list is empty.
LEMMA EventStart == EventList!Init => EventInv
<1> SUFFICES ASSUME EventList!Init PROVE EventInv
  OBVIOUS
<1>1. EventList!TypeOK
  BY EventFacts DEF EventList!Init, EventList!TypeOK, EventList!None
<1> QED
  BY <1>1 DEF EventList!Init, EventInv, EventList!EventsInOrder

\* AddEventV: wherever the event goes, what is before it has at least its
\* priority or is being processed, what is behind it has less.
LEMMA EventAdded ==
  ASSUME EventInv, NEW event \in Events, EventList!AddEvent(event)
  PROVE  EventInv'
<1> USE EventFacts
<1> DEFINE q == eventsPending
           n == Len(q)
           p == EventList!Place(event)
           e == [event |-> event, isBeingProcessed |-> FALSE]
           r == EventList!InsertAt(q, p, e)
<1>1. /\ eventsQueued < MaxEvents /\ \A i \in 1 .. p - 1 : q[i].event # event
      /\ q' = r /\ eventsQueued' = eventsQueued + 1
      /\ UNCHANGED <<channel, pauseState, eventsProcessed, pausesLeft, current>>
  BY DEF EventList!AddEvent
<1>2. /\ EventList!TypeOK /\ eventsProcessed \in Nat /\ q \in Seq(Entries) /\ n \in Nat
      /\ channel # "normal" => TakenUp(q)
      /\ InOrder(q) /\ \A i \in 1 .. n : q[i] \in Entries
  BY EventParts, ElementOfSeq DEF EventInv
<1>3. /\ p \in 1 .. n + 1
      /\ \A k \in 1 .. p - 1 : EventList!Passes(q[k], event)
      /\ p <= n => ~EventList!Passes(q[p], event)
  BY <1>2, PlaceFound
<1>4. e \in Entries
  BY DEF Entries
<1> HIDE DEF p, e
<1>5. /\ r \in Seq(Entries) /\ Len(r) = n + 1
      /\ \A i \in 1 .. n + 1 : r[i] = IF i < p THEN q[i] ELSE IF i = p THEN e ELSE q[i - 1]
  BY <1>2, <1>3, <1>4, Inserted
<1> HIDE DEF r
<1>6. EventList!TypeOK' /\ eventsProcessed' \in Nat
  <2>1. eventsProcessed + n = eventsQueued /\ eventsQueued \in 0 .. MaxEvents
    BY <1>2 DEF EventList!TypeOK
  <2>2. eventsProcessed + (n + 1) = eventsQueued + 1 /\ eventsQueued + 1 \in 0 .. MaxEvents
    BY <1>1, <1>2, <2>1
  <2>3. Len(q') = n + 1 /\ q' \in Seq(Entries)
    BY <1>1, <1>5
  <2> QED
    BY <1>1, <1>2, <2>2, <2>3 DEF EventList!TypeOK, Entries
<1>7. channel' # "normal" => TakenUp(q)'
  <2> SUFFICES ASSUME channel # "normal"
               PROVE  r # <<>> /\ Head(r) = [event |-> current, isBeingProcessed |-> TRUE]
    BY <1>1 DEF TakenUp
  <2>1. n > 0 /\ q[1] = [event |-> current, isBeingProcessed |-> TRUE]
    <3>1. q # <<>> /\ Head(q) = [event |-> current, isBeingProcessed |-> TRUE]
      BY <1>2 DEF TakenUp
    <3>2. n > 0
      BY <1>2, <3>1, EmptySeq
    <3>3. Head(q) = q[1]
      OBVIOUS
    <3> QED
      BY <3>1, <3>2, <3>3
  <2>2. EventList!Passes(q[1], event)
    BY <2>1 DEF EventList!Passes
  <2>3. 1 < p
    BY <1>2, <1>3, <2>1, <2>2
  <2>4. r[1] = q[1]
    BY <1>2, <1>5, <2>3
  <2> QED
    BY <1>2, <1>5, <2>1, <2>4
<1>8. InOrder(r)
  <2> SUFFICES ASSUME NEW i \in 1 .. n + 1, NEW k \in 1 .. n + 1, i < k
               PROVE  /\ ~r[k].isBeingProcessed
                      /\ r[i].event # r[k].event
                      /\ r[i].isBeingProcessed \/ Priority[r[i].event] <= Priority[r[k].event]
    BY <1>2, <1>5 DEF InOrder
  <2>1. CASE k < p
    <3>1. i \in 1 .. n /\ k \in 1 .. n /\ r[i] = q[i] /\ r[k] = q[k]
      BY <1>2, <1>3, <1>5, <2>1
    <3> QED
      BY <1>2, <3>1 DEF InOrder
  <2>2. CASE k = p
    <3>1. i \in 1 .. p - 1 /\ i \in 1 .. n /\ r[i] = q[i] /\ r[k] = e
      BY <1>2, <1>3, <1>5, <2>2
    <3>2. EventList!Passes(q[i], event) /\ q[i].event # event
      BY <1>1, <1>3, <3>1
    <3> QED
      BY <1>2, <3>1, <3>2 DEF EventList!Passes, e, Entries
  <2>3. CASE i > p
    <3>1. i - 1 \in 1 .. n /\ k - 1 \in 1 .. n /\ i - 1 < k - 1
          /\ r[i] = q[i - 1] /\ r[k] = q[k - 1]
      BY <1>2, <1>3, <1>5, <2>3
    <3> QED
      BY <1>2, <3>1 DEF InOrder
  <2>4. CASE i < p /\ k > p
    <3>1. i \in 1 .. n /\ k - 1 \in 1 .. n /\ i < k - 1 /\ r[i] = q[i] /\ r[k] = q[k - 1]
      BY <1>2, <1>3, <1>5, <2>4
    <3> QED
      BY <1>2, <3>1 DEF InOrder
  <2>5. CASE i = p /\ k > p
    <3>1. k - 1 \in 1 .. n /\ p \in 1 .. n /\ r[i] = e /\ r[k] = q[k - 1] /\ p <= k - 1
      BY <1>2, <1>3, <1>5, <2>5
    <3>2. ~q[p].isBeingProcessed /\ Priority[q[p].event] > Priority[event]
      <4>1. ~EventList!Passes(q[p], event) /\ q[p].event \in Events
        BY <1>2, <1>3, <3>1 DEF Entries
      <4>2. Priority[q[p].event] \in Nat /\ Priority[event] \in Nat
        BY <4>1
      <4> QED
        BY <4>1, <4>2 DEF EventList!Passes
    <3>3. ~q[k - 1].isBeingProcessed /\ Priority[q[p].event] <= Priority[q[k - 1].event]
      <4>1. CASE k - 1 = p
        BY <1>2, <3>1, <3>2, <4>1 DEF Entries
      <4>2. CASE p < k - 1
        BY <1>2, <3>1, <3>2, <4>2 DEF InOrder
      <4> QED
        BY <1>2, <1>3, <3>1, <4>1, <4>2
    <3>4. Priority[q[k - 1].event] \in Nat /\ Priority[q[p].event] \in Nat /\ Priority[event] \in Nat
      BY <1>2, <3>1 DEF Entries
    <3>5. Priority[event] < Priority[q[k - 1].event]
      BY <3>2, <3>3, <3>4
    <3> QED
      BY <3>1, <3>3, <3>4, <3>5 DEF e
  <2> QED
    BY <1>3, <2>1, <2>2, <2>3, <2>4, <2>5
<1> QED
  BY <1>1, <1>6, <1>7, <1>8, EventPartsNext DEF EventInv

\* A step that leaves the list alone, in which nothing is taken up.
LEMMA EventSame ==
  ASSUME EventInv, UNCHANGED <<eventsPending, eventsQueued, eventsProcessed, current>>,
         channel' # "normal" => channel # "normal",
         channel' \in {"normal", "started", "macro", "processingEvent", "eventPausing",
                       "finishedProcessingEvent"},
         pauseState' \in {"notPaused", "pausing", "paused", "resuming"},
         pausesLeft' \in 0 .. MaxPauses
  PROVE  EventInv'
<1>1. EventList!TypeOK'
  BY DEF EventInv, EventList!TypeOK
<1>2. (channel # "normal" => TakenUp(eventsPending)) /\ InOrder(eventsPending)
  BY EventParts DEF EventInv
<1>3. (channel' # "normal" => TakenUp(eventsPending)') /\ InOrder(eventsPending)'
  BY <1>2 DEF TakenUp, InOrder
<1> QED
  BY <1>1, <1>3, EventPartsNext DEF EventInv

\* FinishedProcessing takes the event that was being processed off the list.
LEMMA EventFinished ==
  ASSUME EventInv, EventList!FinishedProcessing, channel' = "normal",
         UNCHANGED <<pauseState, eventsQueued, pausesLeft, current>>
  PROVE  EventInv'
<1> DEFINE q == eventsPending
<1>1. /\ EventList!TypeOK /\ eventsProcessed \in Nat /\ q \in Seq(Entries) /\ Len(q) \in Nat
      /\ InOrder(q)
  BY EventParts DEF EventInv
<1>2. CASE UNCHANGED <<eventsPending, eventsProcessed>>
  <2>1. /\ channel' \in {"normal", "started", "macro", "processingEvent", "eventPausing",
                         "finishedProcessingEvent"}
        /\ pauseState' \in {"notPaused", "pausing", "paused", "resuming"}
        /\ pausesLeft' \in 0 .. MaxPauses
    BY <1>1 DEF EventList!TypeOK
  <2> QED
    BY <1>2, <2>1, EventSame
<1>3. CASE q # <<>> /\ q' = Tail(q) /\ eventsProcessed' = eventsProcessed + 1
  <2>1. /\ Tail(q) \in Seq(Entries) /\ Len(Tail(q)) = Len(q) - 1
        /\ \A i \in 1 .. Len(q) - 1 : Tail(q)[i] = q[i + 1]
    BY <1>1, <1>3, HeadTailProperties
  <2>2. EventList!TypeOK' /\ eventsProcessed' \in Nat
    <3>1. q' \in Seq(Entries) /\ Len(q') = Len(q) - 1
      BY <1>3, <2>1
    <3>2. eventsProcessed + Len(q) = eventsQueued /\ eventsQueued \in 0 .. MaxEvents
      BY <1>1 DEF EventList!TypeOK
    <3>3. eventsProcessed' + Len(q') = eventsQueued
      BY <1>1, <1>3, <3>1, <3>2
    <3> QED
      BY <1>1, <1>3, <3>1, <3>3 DEF EventList!TypeOK, Entries
  <2>3. InOrder(q)'
    <3>1. \A i \in 1 .. Len(q) - 1 : i + 1 \in 1 .. Len(q)
      BY <1>1
    <3>2. \A i, k \in 1 .. Len(q) - 1 : i < k => i + 1 < k + 1
      BY <1>1
    <3> HIDE DEF q
    <3>3. \A i, k \in 1 .. Len(q) - 1 : i < k =>
            /\ ~q[k + 1].isBeingProcessed
            /\ q[i + 1].event # q[k + 1].event
            /\ q[i + 1].isBeingProcessed \/ Priority[q[i + 1].event] <= Priority[q[k + 1].event]
      BY <1>1, <3>1, <3>2 DEF InOrder
    <3> QED
      BY <1>3, <2>1, <3>3 DEF InOrder
  <2> QED
    BY <2>2, <2>3, EventPartsNext DEF EventInv
<1> QED
  BY <1>2, <1>3 DEF EventList!FinishedProcessing

\* Marking an entry as being processed keeps the event it holds.
LEMMA MarkedEntry ==
  ASSUME NEW x \in Entries
  PROVE  [x EXCEPT !.isBeingProcessed = TRUE] = [event |-> x.event, isBeingProcessed |-> TRUE]
<1> DEFINE y == [x EXCEPT !.isBeingProcessed = TRUE]
<1>1. y \in Entries
  BY DEF Entries
<1>2. y.event = x.event /\ y.isBeingProcessed = TRUE
  BY DEF Entries
<1> HIDE DEF y
<1>3. y = [event |-> x.event, isBeingProcessed |-> TRUE]
  BY <1>1, <1>2 DEF Entries
<1> QED
  BY <1>3 DEF y

\* StartProcessing takes up the event at the head, which stays there.
LEMMA EventStarted ==
  ASSUME EventInv, EventList!StartProcessing
  PROVE  EventInv'
<1> DEFINE q == eventsPending
<1>1. /\ EventList!TypeOK /\ eventsProcessed \in Nat /\ q \in Seq(Entries) /\ Len(q) \in Nat
      /\ InOrder(q)
  BY EventParts DEF EventInv
<1>2. /\ q # <<>> /\ q' = [q EXCEPT ![1].isBeingProcessed = TRUE] /\ current' = Head(q).event
      /\ channel' = "started" /\ UNCHANGED <<pauseState, eventsQueued, eventsProcessed, pausesLeft>>
  BY DEF EventList!StartProcessing
<1>3. 1 \in 1 .. Len(q) /\ Head(q) = q[1] /\ q[1] \in Entries
  <2>1. Len(q) > 0
    BY <1>1, <1>2, EmptySeq
  <2>2. 1 \in 1 .. Len(q)
    BY <1>1, <2>1
  <2>3. q[1] \in Entries
    BY <1>1, <2>2, ElementOfSeq
  <2> QED
    BY <2>2, <2>3
<1> DEFINE e == [event |-> q[1].event, isBeingProcessed |-> TRUE]
           r == [q EXCEPT ![1] = e]
<1>4. [q[1] EXCEPT !.isBeingProcessed = TRUE] = e
  BY <1>3, MarkedEntry
<1>5. q' = r
  BY <1>2, <1>4
<1>6. e \in Entries
  BY <1>3 DEF Entries
<1> HIDE DEF e
<1>7. /\ r \in Seq(Entries) /\ Len(r) = Len(q)
      /\ \A j \in 1 .. Len(q) : r[j] = IF j = 1 THEN e ELSE q[j]
  BY <1>1, <1>3, <1>6, ExceptSeq
<1> HIDE DEF r
<1>8. EventList!TypeOK' /\ eventsProcessed' \in Nat
  <2>1. current' \in Events
    BY <1>2, <1>3 DEF Entries
  <2>2. q' \in Seq(Entries) /\ Len(q') = Len(q)
    BY <1>5, <1>7
  <2> QED
    BY <1>1, <1>2, <2>1, <2>2 DEF EventList!TypeOK, Entries
<1>9. TakenUp(q)'
  <2>1. Head(r) = r[1] /\ r # <<>>
    BY <1>1, <1>3, <1>7
  <2>2. r[1] = e
    BY <1>3, <1>7
  <2>3. e = [event |-> current', isBeingProcessed |-> TRUE]
    BY <1>2, <1>3 DEF e
  <2> QED
    BY <1>5, <2>1, <2>2, <2>3 DEF TakenUp
<1>10. InOrder(r)
  <2> SUFFICES ASSUME NEW i \in 1 .. Len(q), NEW k \in 1 .. Len(q), i < k
               PROVE  /\ ~r[k].isBeingProcessed
                      /\ r[i].event # r[k].event
                      /\ r[i].isBeingProcessed \/ Priority[r[i].event] <= Priority[r[k].event]
    BY <1>7 DEF InOrder
  <2>1. r[k] = q[k]
    BY <1>1, <1>7
  <2>2. CASE i = 1
    <3>1. r[i].event = q[i].event /\ r[i].isBeingProcessed
      BY <1>7, <2>2 DEF e
    <3> QED
      BY <1>1, <2>1, <3>1 DEF InOrder
  <2>3. CASE i # 1
    BY <1>1, <1>7, <2>1, <2>3 DEF InOrder
  <2> QED
    BY <2>2, <2>3
<1>11. InOrder(q)'
  BY <1>5, <1>10 DEF InOrder
<1> QED
  BY <1>8, <1>9, <1>11, EventPartsNext DEF EventInv

\* Every step of the tasks, the channel and the user keeps the order.
LEMMA EventStep ==
  ASSUME EventInv, EventList!Next
  PROVE  EventInv'
<1>0. EventList!TypeOK
  BY DEF EventInv
<1>1. CASE \E event \in Events : EventList!AddEvent(event)
  BY <1>1, EventAdded
<1>2. CASE EventList!StartProcessing
  BY <1>2, EventStarted
<1>3. CASE EventList!ProcessEvent
  <2>1. CASE channel' = "normal" /\ EventList!FinishedProcessing
    BY <1>3, <2>1, EventFinished DEF EventList!ProcessEvent
  <2>2. CASE channel' \in {"macro", "processingEvent"} /\ UNCHANGED <<eventsPending, eventsProcessed>>
    BY <1>0, <1>3, <2>2, EventSame DEF EventList!ProcessEvent, EventList!TypeOK
  <2> QED
    BY <1>3, <2>1, <2>2 DEF EventList!ProcessEvent
<1>4. CASE EventList!MacroEnds \/ EventList!PauseForEvent \/ EventList!PausedForEvent
  <2>1. channel # "normal" /\ UNCHANGED <<eventsPending, eventsQueued, eventsProcessed, current, pausesLeft>>
    BY <1>4 DEF EventList!MacroEnds, EventList!PauseForEvent, EventList!PausedForEvent
  <2>2. /\ channel' \in {"eventPausing", "finishedProcessingEvent"}
        /\ pauseState' \in {pauseState, "pausing", "paused"}
    BY <1>4 DEF EventList!MacroEnds, EventList!PauseForEvent, EventList!PausedForEvent
  <2> QED
    BY <1>0, <2>1, <2>2, EventSame DEF EventList!TypeOK
<1>5. CASE EventList!EventDone
  BY <1>5, EventFinished DEF EventList!EventDone
<1>6. CASE EventList!UserPause \/ EventList!UserResume \/ EventList!UserPaused
  <2>1. UNCHANGED <<eventsPending, eventsQueued, eventsProcessed, current, channel>>
    BY <1>6 DEF EventList!UserPause, EventList!UserResume, EventList!UserPaused
  <2>2. pauseState' \in {"notPaused", "pausing", "paused", "resuming"}
    BY <1>6 DEF EventList!UserPause, EventList!UserResume, EventList!UserPaused
  <2>3. pausesLeft' \in 0 .. MaxPauses
    BY <1>0, <1>6, EventFacts
       DEF EventList!UserPause, EventList!UserResume, EventList!UserPaused, EventList!TypeOK
  <2> QED
    BY <1>0, <2>1, <2>2, <2>3, EventSame DEF EventList!TypeOK
<1> QED
  BY <1>1, <1>2, <1>3, <1>4, <1>5, <1>6 DEF EventList!Next, EventList!Channel

\* The invariant is about the variables of the events only.
LEMMA EventStutter ==
  ASSUME EventInv, UNCHANGED eventVars
  PROVE  EventInv'
<1>1. UNCHANGED <<eventsPending, channel, pauseState, eventsQueued, eventsProcessed, pausesLeft,
                  current>>
  BY DEF eventVars
<1> QED
  BY <1>1, EventSame DEF EventInv, EventList!TypeOK

-----------------------------------------------------------------------------
(* The theorems.                                                           *)

\* The list of events keeps its invariant whatever the lock does.
LEMMA EventInvariance == HostSpec => []EventInv
<1>1. HostInit => EventInv
  BY EventStart DEF HostInit
<1>2. EventInv /\ [HostNext]_hostVars => EventInv'
  <2> SUFFICES ASSUME EventInv, [HostNext]_hostVars PROVE EventInv'
    OBVIOUS
  <2>1. EventList!Next \/ UNCHANGED eventVars
    BY DEF HostNext, Others, hostVars
  <2> QED
    BY <2>1, EventStep, EventStutter
<1> QED
  BY <1>1, <1>2, PTL DEF HostSpec

\* The lock keeps its invariant beside the list of events.
LEMMA LockInvariance == HostSpec => []IInv
<1>1. HostInit => IInv
  BY InitIInv DEF HostInit
<1>2. IInv /\ [HostNext]_hostVars => IInv'
  <2> SUFFICES ASSUME IInv, [HostNext]_hostVars PROVE IInv'
    OBVIOUS
  <2>1. [Next]_vars
    BY DEF HostNext, Others, hostVars
  <2> QED
    BY <2>1, NextIInv
<1> QED
  BY <1>1, <1>2, PTL DEF HostSpec

\* Event.cpp: the event that the AutoPause channel handles stays at the head of
\* the list however many are added meanwhile, behind it the list is in the order
\* of priority, and no event is in it twice, for any events and priorities.
THEOREM EventOrder == HostSpec => []EventsInOrder
<1>1. EventInv => EventsInOrder
  BY DEF EventInv, EventsInOrder
<1> QED
  BY <1>1, EventInvariance, PTL

\* The lock and the list of events keep their types, and no event is lost: those
\* that were queued are in the list or have been dealt with.
THEOREM HostTypeCorrect == HostSpec => []HostTypeOK
<1>1. EventInv /\ IInv => HostTypeOK
  BY DEF EventInv, IInv, HostTypeOK
<1> QED
  BY <1>1, EventInvariance, LockInvariance, PTL

=============================================================================

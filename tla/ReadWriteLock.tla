---------------------------- MODULE ReadWriteLock ----------------------------
(***************************************************************************)
(* The reader-writer lock of RRFLibraries/src/RTOSIface/RTOSIface.cpp.     *)
(*                                                                         *)
(* A call runs in a critical section, so it is one step, up to the loop in *)
(* which it waits to be notified; Wake is one round of that loop.  A lock  *)
(* record is a task in readers or writers with its count, zero while the   *)
(* task waits.  The list of readers is only searched, so its order is left *)
(* out.  reads and writes are what the calls have given the task so far.   *)
(***************************************************************************)
EXTENDS Naturals, Sequences

CONSTANTS
  Tasks,
  MaxDepth           \* how often a task enters without leaving

ASSUME LockAssumption == MaxDepth \in Nat

VARIABLES
  readers, readCount,
  writers, writeCount,
  waiting,           \* what the task waits for: "no", "read" or "write"
  notified,          \* tasks with a notification they have not taken
  reads, writes

locks == <<readers, readCount, writers, writeCount>>
vars == <<locks, waiting, notified, reads, writes>>

Add(f, t) == [f EXCEPT ![t] = @ + 1]
Lower(f, t) == [f EXCEPT ![t] = @ - 1]

OwnsWriteLock(t) == writers # <<>> /\ Head(writers) = t

Ready(t) == waiting[t] = "no"
Depth(t) == reads[t] + writes[t]

-----------------------------------------------------------------------------
(* Entering.                                                               *)

\* Mutant of MayRead: a reader waits only while a writer is inside.
MayReadBeforeWaiters(t) == writers # <<>> => writeCount[Head(writers)] = 0

\* A new reader waits for the writers that wait, too.
MayRead(t) == writers = <<>>

\* LockForReading, by the record that is found.
EnterRead(t) ==
  /\ Ready(t) /\ Depth(t) < MaxDepth
  /\ \/ OwnsWriteLock(t) /\ UNCHANGED locks
     \/ /\ ~OwnsWriteLock(t) /\ t \in readers
        /\ readCount' = Add(readCount, t)
        /\ UNCHANGED <<readers, writers, writeCount>>
     \/ /\ ~OwnsWriteLock(t) /\ t \notin readers /\ MayRead(t)
        /\ readers' = readers \cup {t} /\ readCount' = Add(readCount, t)
        /\ UNCHANGED <<writers, writeCount>>
  /\ reads' = Add(reads, t)
  /\ UNCHANGED <<waiting, notified, writes>>

WaitToRead(t) ==
  /\ Ready(t) /\ Depth(t) < MaxDepth
  /\ ~OwnsWriteLock(t) /\ t \notin readers /\ ~MayRead(t)
  /\ readers' = readers \cup {t}
  /\ waiting' = [waiting EXCEPT ![t] = "read"]
  /\ UNCHANGED <<readCount, writers, writeCount, notified, reads, writes>>

\* LockForWriting; the callers hold no read lock then, except inside a write
\* lock of their own.
EnterWrite(t) ==
  /\ Ready(t) /\ Depth(t) < MaxDepth
  /\ reads[t] > 0 => writes[t] > 0
  /\ \/ OwnsWriteLock(t) /\ UNCHANGED writers
     \/ writers = <<>> /\ readers = {} /\ writers' = <<t>>
  /\ writeCount' = Add(writeCount, t)
  /\ writes' = Add(writes, t)
  /\ UNCHANGED <<readers, readCount, waiting, notified, reads>>

WaitToWrite(t) ==
  /\ Ready(t) /\ Depth(t) = 0 /\ MaxDepth > 0
  /\ writers # <<>> \/ readers # {}
  /\ writers' = Append(writers, t)
  /\ waiting' = [waiting EXCEPT ![t] = "write"]
  /\ UNCHANGED <<readers, readCount, writeCount, notified, reads, writes>>

\* ConditionalLockForReading and ConditionalLockForWriting, when they succeed.
TryRead(t) == EnterRead(t)
TryWrite(t) == readers = {} /\ writers = <<>> /\ EnterWrite(t)

\* A round of the loop around TakeIndexed: a task that has not been let in
\* waits again.
Served(t) == \/ waiting[t] = "read" /\ readCount[t] # 0
             \/ waiting[t] = "write" /\ writeCount[t] # 0

Wake(t) ==
  /\ t \in notified /\ ~Ready(t)
  /\ notified' = notified \ {t}
  /\ IF Served(t)
     THEN /\ waiting' = [waiting EXCEPT ![t] = "no"]
          /\ reads' = IF waiting[t] = "read" THEN Add(reads, t) ELSE reads
          /\ writes' = IF waiting[t] = "write" THEN Add(writes, t) ELSE writes
     ELSE UNCHANGED <<waiting, reads, writes>>
  /\ UNCHANGED locks

-----------------------------------------------------------------------------
(* Leaving.                                                                *)

\* No reader is left when t has left.
LastReader(t) == readCount[t] = 1 /\ \A u \in readers \ {t} : readCount[u] = 0

\* The first writer in the queue is let in, if it waits.
PassToWriter ==
  IF writers # <<>> /\ writeCount[Head(writers)] = 0
  THEN /\ writeCount' = Add(writeCount, Head(writers))
       /\ notified' = notified \cup {Head(writers)}
  ELSE UNCHANGED <<writeCount, notified>>

\* Mutant of Ignored: a read lock is released inside the write lock too.
IgnoredNever(t) == FALSE

\* A read lock of the task that writes has no record.
Ignored(t) == OwnsWriteLock(t)

Forgotten(t) == IF readCount[t] = 1 THEN {t} ELSE {}

ReleaseReader(t) ==
  /\ Ready(t) /\ reads[t] > 0
  /\ IF Ignored(t)
     THEN UNCHANGED <<locks, notified>>
     ELSE /\ readCount' = Lower(readCount, t)
          /\ readers' = readers \ Forgotten(t)
          /\ IF LastReader(t) THEN PassToWriter ELSE UNCHANGED <<writeCount, notified>>
          /\ UNCHANGED writers
  /\ reads' = Lower(reads, t)
  /\ UNCHANGED <<waiting, writes>>

Waiters == {u \in readers : readCount[u] = 0}

\* Mutant of WakeReaders: nobody is woken.
WakeNobody == UNCHANGED <<readCount, notified>>

WakeReaders ==
  /\ readCount' = [u \in Tasks |-> IF u \in Waiters THEN 1 ELSE readCount[u]]
  /\ notified' = notified \cup Waiters

\* Mutant of HandOver: the next writer gets the lock, and so do the readers.
HandOverToAll(t) ==
  LET next == IF Tail(writers) = <<>> THEN {} ELSE {Head(Tail(writers))}
  IN /\ writers' = Tail(writers)
     /\ writeCount' = [u \in Tasks |-> IF u \in next THEN 1 ELSE IF u = t THEN 0 ELSE writeCount[u]]
     /\ readCount' = [u \in Tasks |-> IF u \in Waiters THEN 1 ELSE readCount[u]]
     /\ notified' = notified \cup Waiters \cup next

\* The lock goes to the next writer, or to all readers if there is none.
HandOver(t) ==
  /\ writers' = Tail(writers)
  /\ IF Tail(writers) # <<>>
     THEN LET next == Head(Tail(writers))
          IN /\ writeCount' = Add(Lower(writeCount, t), next)
             /\ notified' = notified \cup {next}
             /\ UNCHANGED readCount
     ELSE writeCount' = Lower(writeCount, t) /\ WakeReaders

\* What is read inside a write lock is released first.
ReleaseWriter(t) ==
  /\ Ready(t) /\ writes[t] > 0 /\ (writes[t] = 1 => reads[t] = 0)
  /\ IF writeCount[t] = 1
     THEN HandOver(t)
     ELSE writeCount' = Lower(writeCount, t) /\ UNCHANGED <<writers, readCount, notified>>
  /\ writes' = Lower(writes, t)
  /\ UNCHANGED <<readers, waiting, reads>>

\* The record moves to the list of readers; those who wait there come in.
DowngradeWriter(t) ==
  /\ Ready(t) /\ writes[t] = 1 /\ reads[t] = 0
  /\ writers' = Tail(writers) /\ writeCount' = [writeCount EXCEPT ![t] = 0]
  /\ readers' = readers \cup {t}
  /\ readCount' = [u \in Tasks |-> IF u \in Waiters \cup {t} THEN 1 ELSE readCount[u]]
  /\ notified' = notified \cup Waiters
  /\ writes' = [writes EXCEPT ![t] = 0] /\ reads' = [reads EXCEPT ![t] = 1]
  /\ UNCHANGED waiting

-----------------------------------------------------------------------------
Init ==
  /\ readers = {} /\ readCount = [t \in Tasks |-> 0]
  /\ writers = <<>> /\ writeCount = [t \in Tasks |-> 0]
  /\ waiting = [t \in Tasks |-> "no"] /\ notified = {}
  /\ reads = [t \in Tasks |-> 0] /\ writes = [t \in Tasks |-> 0]

Next ==
  \E t \in Tasks :
    \/ EnterRead(t) \/ WaitToRead(t) \/ EnterWrite(t) \/ WaitToWrite(t)
    \/ TryRead(t) \/ TryWrite(t) \/ Wake(t)
    \/ ReleaseReader(t) \/ ReleaseWriter(t) \/ DowngradeWriter(t)

Spec == Init /\ [][Next]_vars

\* A task that was notified runs, and a section that was entered is left: no
\* task enters again and again without ever coming out.
Leave(t) == ReleaseReader(t) \/ ReleaseWriter(t)

FairSpec ==
  /\ Spec
  /\ \A t \in Tasks :
       WF_vars(Wake(t)) /\ WF_vars(Leave(t)) /\ SF_vars(Depth(t) = 1 /\ Leave(t))

-----------------------------------------------------------------------------
(* Properties.                                                             *)

\* The counts of the records and of the tasks are counts, the queue of writers
\* is one of tasks.
TypeOK ==
  /\ readers \subseteq Tasks /\ readCount \in [Tasks -> Nat]
  /\ writers \in Seq(Tasks) /\ writeCount \in [Tasks -> Nat]
  /\ waiting \in [Tasks -> {"no", "read", "write"}] /\ notified \subseteq Tasks
  /\ reads \in [Tasks -> Nat] /\ writes \in [Tasks -> Nat]

\* While a task is between LockForWriting and ReleaseWriter, no other task is
\* in a section it has locked for reading or for writing.
Exclusion ==
  \A t \in Tasks : writes[t] > 0 => \A u \in Tasks \ {t} : reads[u] = 0 /\ writes[u] = 0

\* The assertions of ReleaseReader, ReleaseWriter and DowngradeWriter hold for
\* a task that releases what it has locked: its record is there, and counts
\* what it will release.
AssertionsHold ==
  \A t \in Tasks :
    /\ reads[t] > 0 /\ ~OwnsWriteLock(t) => t \in readers /\ readCount[t] = reads[t]
    /\ writes[t] > 0 => OwnsWriteLock(t) /\ writeCount[t] = writes[t]

\* When nobody holds or wants the lock no record is left behind that would
\* keep the next writer out: the records are made and deleted in pairs.
QuietMeansFree ==
  (\A t \in Tasks : Ready(t) /\ Depth(t) = 0) => readers = {} /\ writers = <<>>

\* A task that waits and has not been let in waits for a task that is inside
\* or was let in: a release that fails to pass the lock on would leave every
\* later caller waiting.
NobodyWaitsForNobody ==
  (\E t \in Tasks : waiting[t] # "no" /\ readCount[t] = 0 /\ writeCount[t] = 0)
    => \E u \in Tasks : readCount[u] > 0 \/ writeCount[u] > 0

\* What the bookkeeping of the lock promises: its assertions hold, unused
\* locks keep no records, and every wait is a wait for somebody.
LockIsSound == AssertionsHold /\ QuietMeansFree /\ NobodyWaitsForNobody

\* Seen from outside the lock is the abstract one: a task is inside from the
\* end of its outermost Lock call to the beginning of the matching Release.
Lock == INSTANCE ReadWriteAbstract WITH
  inside <- [t \in Tasks |-> IF writes[t] > 0 THEN "writing"
                             ELSE IF reads[t] > 0 THEN "reading" ELSE "out"]

\* The lock implements it, the hand-over of ReleaseWriter and the waiting
\* readers that DowngradeWriter lets in included.
ImplementsLock == Lock!Spec

\* A task that waits in LockForWriting gets the lock, however many readers
\* come: those that arrive after it wait.
WriterIsServed == \A t \in Tasks : waiting[t] = "write" ~> writes[t] > 0

\* A task that waits in LockForReading gets the lock if the queue of writers
\* is empty again and again.
ReaderIsServed ==
  []<>(writers = <<>>) => \A t \in Tasks : waiting[t] = "read" ~> reads[t] > 0

\* No task starves: writers are served whatever the readers do, and readers
\* as long as the writers do not queue up for ever.
EverybodyIsServed == WriterIsServed /\ ReaderIsServed

=============================================================================

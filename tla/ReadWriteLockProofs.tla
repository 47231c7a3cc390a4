------------------------- MODULE ReadWriteLockProofs -------------------------
(***************************************************************************)
(* Proofs about ReadWriteLock for any number of tasks and any depth.  The  *)
(* invariant ties what a task has been given to its records: only the head *)
(* of the queue of writers has a count, and readers with a count keep it   *)
(* at zero.                                                                *)
(***************************************************************************)
EXTENDS ReadWriteLock, TLAPS

InQueue(q, t) == \E i \in 1 .. Len(q) : q[i] = t

Distinct(q) == \A i, j \in 1 .. Len(q) : q[i] = q[j] => i = j

\* What the records say of a task that is not in a wait loop.
RecordsOfRunning(t) ==
  /\ writeCount[t] = writes[t]
  /\ writes[t] = 0 => readCount[t] = reads[t]
  /\ t \in readers => readCount[t] > 0
  /\ InQueue(writers, t) => writes[t] > 0

\* What they say of a task in the loop of LockForReading and LockForWriting.
RecordsOfWaiting(t) ==
  /\ reads[t] = 0 /\ writes[t] = 0
  /\ waiting[t] = "read" => t \in readers /\ ~InQueue(writers, t) /\ readCount[t] \in {0, 1}
  /\ waiting[t] = "write" => t \notin readers /\ InQueue(writers, t) /\ writeCount[t] \in {0, 1}

Records(t) ==
  /\ writeCount[t] > 0 => OwnsWriteLock(t)
  /\ readCount[t] > 0 => t \in readers
  /\ waiting[t] = "no" => RecordsOfRunning(t)
  /\ waiting[t] # "no" => RecordsOfWaiting(t)

\* A writer that was let in excludes readers with a count; without writers in
\* the queue no reader waits; writers that queue wait for somebody.
Shut == \A t, u \in Tasks : writeCount[t] > 0 => readCount[u] = 0
Open == writers = <<>> => \A u \in readers : readCount[u] > 0
WritersWaitForSomebody == writers # <<>> => \/ writeCount[Head(writers)] > 0
                             \/ \E u \in Tasks : readCount[u] > 0

IInv ==
  /\ TypeOK /\ Distinct(writers)
  /\ \A t \in Tasks : Records(t)
  /\ Shut /\ Open /\ WritersWaitForSomebody

-----------------------------------------------------------------------------
(* The queue of writers.                                                   *)

\* The first of a queue is in it.
LEMMA HeadInQueue ==
  ASSUME NEW q \in Seq(Tasks), q # <<>>
  PROVE  Head(q) \in Tasks /\ InQueue(q, Head(q))
BY DEF InQueue

\* Nobody is in an empty queue.
LEMMA EmptyQueue == ASSUME NEW t PROVE ~InQueue(<<>>, t)
BY DEF InQueue

\* The queue of one writer.
LEMMA SingleQueue ==
  ASSUME NEW t \in Tasks
  PROVE  /\ <<t>> \in Seq(Tasks) /\ Distinct(<<t>>) /\ Head(<<t>>) = t /\ <<t>> # <<>>
         /\ \A u : InQueue(<<t>>, u) <=> u = t
<1>1. Len(<<t>>) = 1 /\ <<t>>[1] = t /\ <<t>> \in Seq(Tasks)
  OBVIOUS
<1>2. 1 .. 1 = {1}
  OBVIOUS
<1> QED BY <1>1, <1>2 DEF Distinct, InQueue

\* LockForWriting puts a task at the end of the queue.
LEMMA AppendQueue ==
  ASSUME NEW q \in Seq(Tasks), NEW t \in Tasks, Distinct(q), ~InQueue(q, t)
  PROVE  /\ Append(q, t) \in Seq(Tasks) /\ Append(q, t) # <<>>
         /\ Distinct(Append(q, t))
         /\ \A u : InQueue(Append(q, t), u) <=> InQueue(q, u) \/ u = t
         /\ Head(Append(q, t)) = IF q = <<>> THEN t ELSE Head(q)
<1> DEFINE a == Append(q, t)
<1>1. /\ a \in Seq(Tasks) /\ a # <<>> /\ Len(a) = Len(q) + 1 /\ Len(q) \in Nat
      /\ \A i \in 1 .. Len(q) : a[i] = q[i]
      /\ a[Len(q) + 1] = t
  OBVIOUS
<1>2. Head(a) = IF q = <<>> THEN t ELSE Head(q)
  BY <1>1
<1>3. \A u : InQueue(a, u) <=> InQueue(q, u) \/ u = t
  <2> SUFFICES ASSUME NEW u PROVE InQueue(a, u) <=> InQueue(q, u) \/ u = t
    OBVIOUS
  <2>1. ASSUME InQueue(a, u) PROVE InQueue(q, u) \/ u = t
    <3>1. PICK i \in 1 .. Len(a) : a[i] = u BY <2>1 DEF InQueue
    <3> HIDE DEF a
    <3>2. i \in 1 .. Len(q) \/ i = Len(q) + 1 BY <1>1
    <3> QED BY <3>1, <3>2, <1>1 DEF InQueue
  <2>2. ASSUME InQueue(q, u) \/ u = t PROVE InQueue(a, u)
    <3> HIDE DEF a
    <3>1. CASE u = t BY <3>1, <1>1 DEF InQueue
    <3>2. CASE InQueue(q, u)
      <4>1. PICK i \in 1 .. Len(q) : q[i] = u BY <3>2 DEF InQueue
      <4>2. i \in 1 .. Len(a) BY <1>1
      <4> QED BY <4>1, <4>2, <1>1 DEF InQueue
    <3> QED BY <2>2, <3>1, <3>2
  <2> QED BY <2>1, <2>2
<1>4. Distinct(a)
  <2> SUFFICES ASSUME NEW i \in 1 .. Len(a), NEW j \in 1 .. Len(a), a[i] = a[j] PROVE i = j
    BY DEF Distinct
  <2> HIDE DEF a
  <2>1. \A k \in 1 .. Len(q) : q[k] # t BY DEF InQueue
  <2>2. (i \in 1 .. Len(q) \/ i = Len(q) + 1) /\ (j \in 1 .. Len(q) \/ j = Len(q) + 1)
    BY <1>1
  <2> QED BY <1>1, <2>1, <2>2 DEF Distinct
<1> QED BY <1>1, <1>2, <1>3, <1>4

\* ReleaseWriter and DowngradeWriter take the first writer out of it.
LEMMA TailQueue ==
  ASSUME NEW q \in Seq(Tasks), q # <<>>, Distinct(q)
  PROVE  /\ Tail(q) \in Seq(Tasks) /\ Distinct(Tail(q))
         /\ \A u : InQueue(Tail(q), u) <=> InQueue(q, u) /\ u # Head(q)
<1> DEFINE r == Tail(q)
<1>1. /\ r \in Seq(Tasks) /\ Len(q) \in Nat \ {0} /\ Len(r) = Len(q) - 1
      /\ \A i \in 1 .. Len(r) : r[i] = q[i + 1] /\ i + 1 \in 1 .. Len(q)
      /\ Head(q) = q[1] /\ 1 \in 1 .. Len(q)
  OBVIOUS
<1>2. Distinct(r)
  <2> HIDE DEF r
  <2> SUFFICES ASSUME NEW i \in 1 .. Len(r), NEW j \in 1 .. Len(r), r[i] = r[j] PROVE i = j
    BY DEF Distinct
  <2>1. i + 1 = j + 1 BY <1>1 DEF Distinct
  <2> QED BY <2>1
<1>3. \A u : InQueue(r, u) <=> InQueue(q, u) /\ u # Head(q)
  <2> HIDE DEF r
  <2> SUFFICES ASSUME NEW u PROVE InQueue(r, u) <=> InQueue(q, u) /\ u # Head(q)
    OBVIOUS
  <2>1. ASSUME InQueue(r, u) PROVE InQueue(q, u) /\ u # Head(q)
    <3>1. PICK i \in 1 .. Len(r) : r[i] = u BY <2>1 DEF InQueue
    <3>2. i + 1 \in 1 .. Len(q) /\ q[i + 1] = u /\ i + 1 # 1 BY <3>1, <1>1
    <3> QED BY <3>2, <1>1 DEF InQueue, Distinct
  <2>2. ASSUME InQueue(q, u), u # Head(q) PROVE InQueue(r, u)
    <3>1. PICK i \in 1 .. Len(q) : q[i] = u BY <2>2 DEF InQueue
    <3>2. i # 1 BY <3>1, <1>1, <2>2
    <3>3. i - 1 \in 1 .. Len(r) /\ (i - 1) + 1 = i BY <3>2, <1>1
    <3>4. r[i - 1] = u BY <3>1, <3>3, <1>1
    <3> QED BY <3>3, <3>4 DEF InQueue
  <2> QED BY <2>1, <2>2
<1> QED BY <1>1, <1>2, <1>3

-----------------------------------------------------------------------------
(* The invariant.                                                          *)

\* In every state of IInv the head of a queue is a task that owns the lock or
\* waits for it, and only the head has a count.
LEMMA OwnerRecords ==
  ASSUME IInv, NEW t \in Tasks, waiting[t] = "no", writes[t] > 0
  PROVE  /\ writers # <<>> /\ Head(writers) = t /\ writeCount[t] = writes[t]
         /\ t \notin readers /\ \A u \in Tasks : readCount[u] = 0
         /\ \A u \in Tasks \ {t} : writeCount[u] = 0
<1>1. writeCount[t] = writes[t] /\ writeCount[t] > 0
  BY DEF IInv, Records, RecordsOfRunning
<1>2. OwnsWriteLock(t) /\ \A u \in Tasks : writeCount[u] > 0 => OwnsWriteLock(u)
  BY <1>1 DEF IInv, Records
<1>3. \A u \in Tasks : readCount[u] = 0
  BY <1>1 DEF IInv, Shut
<1>4. t \notin readers
  BY <1>3 DEF IInv, Records, RecordsOfRunning
<1>5. \A u \in Tasks \ {t} : writeCount[u] = 0
  <2> TAKE u \in Tasks \ {t}
  <2>1. writeCount[u] \in Nat BY DEF IInv, TypeOK
  <2>2. ~OwnsWriteLock(u) BY <1>2 DEF OwnsWriteLock
  <2> QED BY <2>1, <2>2, <1>2
<1> QED BY <1>1, <1>2, <1>3, <1>4, <1>5 DEF OwnsWriteLock

\* Nothing is held and nobody waits at the start.
LEMMA InitIInv == Init => IInv
<1> SUFFICES ASSUME Init PROVE IInv
  OBVIOUS
<1>1. TypeOK
  BY DEF Init, TypeOK
<1>2. Distinct(writers) /\ Shut /\ Open /\ WritersWaitForSomebody
  BY DEF Init, Distinct, Shut, Open, WritersWaitForSomebody
<1>3. \A t \in Tasks : Records(t)
  <2> TAKE t \in Tasks
  <2>1. ~InQueue(writers, t) BY EmptyQueue DEF Init
  <2>2. /\ readCount[t] = 0 /\ writeCount[t] = 0 /\ reads[t] = 0 /\ writes[t] = 0
        /\ waiting[t] = "no" /\ t \notin readers
    BY DEF Init
  <2> QED BY <2>1, <2>2 DEF Records, RecordsOfRunning
<1> QED BY <1>1, <1>2, <1>3 DEF IInv

\* Entering to read: by a record of the task, or by a new one.
LEMMA EnterReadKeeps ==
  ASSUME IInv, NEW t \in Tasks, EnterRead(t) PROVE IInv'
<1> USE DEF IInv, EnterRead, Ready, Add
<1>1. TypeOK'
  BY DEF TypeOK, locks
<1>2. CASE OwnsWriteLock(t) /\ UNCHANGED locks
  <2> USE <1>2 DEF locks
  <2>1. writes[t] > 0
    <3>1. InQueue(writers, t) BY HeadInQueue DEF TypeOK, OwnsWriteLock
    <3> QED BY <3>1 DEF Records, RecordsOfRunning
  <2>2. \A u \in Tasks : Records(u)'
    <3> TAKE u \in Tasks
    <3>1. Records(u) OBVIOUS
    <3>2. u # t => reads'[u] = reads[u] BY DEF TypeOK
    <3>3. writes' = writes /\ waiting' = waiting OBVIOUS
    <3> QED BY <3>1, <3>2, <3>3, <2>1
        DEF Records, RecordsOfRunning, RecordsOfWaiting, OwnsWriteLock
  <2>3. Distinct(writers)' /\ Shut' /\ Open' /\ WritersWaitForSomebody'
    BY DEF Distinct, Shut, Open, WritersWaitForSomebody
  <2> QED BY <1>1, <2>2, <2>3
<1>3. CASE /\ ~OwnsWriteLock(t)
           /\ t \in readers \/ writers = <<>>
           /\ readers' = readers \cup {t} /\ readCount' = Add(readCount, t)
           /\ UNCHANGED <<writers, writeCount>>
  <2> USE <1>3
  <2>1. writeCount[t] = 0 /\ writes[t] = 0
    BY DEF Records, RecordsOfRunning, TypeOK
  <2>2. \A u \in Tasks : writeCount[u] = 0
    <3>1. CASE writers = <<>> BY <3>1 DEF Records, OwnsWriteLock, TypeOK
    <3>2. CASE t \in readers
      <4>1. readCount[t] > 0 BY <3>2 DEF Records, RecordsOfRunning
      <4>2. \A u \in Tasks : ~(writeCount[u] > 0) BY <4>1 DEF Shut, TypeOK
      <4> QED BY <4>2 DEF TypeOK
    <3> QED BY <3>1, <3>2
  <2>3. readCount'[t] = readCount[t] + 1 /\ \A u \in Tasks \ {t} : readCount'[u] = readCount[u]
    BY DEF TypeOK
  <2>4. \A u \in Tasks : Records(u)'
    <3> TAKE u \in Tasks
    <3>1. Records(u) OBVIOUS
    <3>2. u # t => reads'[u] = reads[u] BY DEF TypeOK
    <3>3. reads'[t] = reads[t] + 1 BY DEF TypeOK
    <3>4. writes' = writes /\ waiting' = waiting OBVIOUS
    <3>5. readCount[t] \in Nat BY DEF TypeOK
    <3>6. CASE u = t
      BY <3>1, <3>3, <3>4, <3>5, <3>6, <2>1, <2>3
        DEF Records, RecordsOfRunning, RecordsOfWaiting
    <3>7. CASE u # t
      BY <3>1, <3>2, <3>4, <3>7, <2>3 DEF Records, RecordsOfRunning, RecordsOfWaiting, OwnsWriteLock
    <3> QED BY <3>6, <3>7
  <2>5. Distinct(writers)' /\ Shut'
    BY <2>2 DEF Distinct, Shut
  <2>6. Open' /\ WritersWaitForSomebody'
    <3>1. readCount'[t] > 0 BY <2>3 DEF TypeOK
    <3> QED BY <2>3, <3>1 DEF Open, WritersWaitForSomebody, TypeOK
  <2> QED BY <1>1, <2>4, <2>5, <2>6
<1> QED BY <1>2, <1>3 DEF MayRead

\* Waiting to read: only the record is new, and it has no count.
LEMMA WaitToReadKeeps ==
  ASSUME IInv, NEW t \in Tasks, WaitToRead(t) PROVE IInv'
<1> USE DEF IInv, WaitToRead, Ready
<1>1. TypeOK'
  BY DEF TypeOK
<1>2. writeCount[t] = 0 /\ writes[t] = 0 /\ readCount[t] = 0 /\ reads[t] = 0 /\ ~InQueue(writers, t)
  BY DEF Records, RecordsOfRunning, TypeOK
<1>3. \A u \in Tasks : Records(u)'
  <2> TAKE u \in Tasks
  <2>1. Records(u) /\ (u # t => waiting'[u] = waiting[u]) /\ waiting'[t] = "read"
    BY DEF TypeOK
  <2>2. CASE u = t
    BY <2>1, <2>2, <1>2 DEF Records, RecordsOfWaiting
  <2>3. CASE u # t
    BY <2>1, <2>3 DEF Records, RecordsOfRunning, RecordsOfWaiting, OwnsWriteLock
  <2> QED BY <2>2, <2>3
<1>4. Distinct(writers)' /\ Shut' /\ Open' /\ WritersWaitForSomebody'
  BY DEF Distinct, Shut, Open, WritersWaitForSomebody, MayRead
<1> QED BY <1>1, <1>3, <1>4

\* Entering to write: again, or the first one at a free lock.
LEMMA EnterWriteKeeps ==
  ASSUME IInv, NEW t \in Tasks, EnterWrite(t) PROVE IInv'
<1> USE DEF IInv, EnterWrite, Ready, Add
<1>1. TypeOK'
  <2>1. writers' \in Seq(Tasks) BY SingleQueue DEF TypeOK
  <2> QED BY <2>1 DEF TypeOK
<1>2. writeCount'[t] = writeCount[t] + 1 /\ writes'[t] = writes[t] + 1
      /\ \A u \in Tasks \ {t} : writeCount'[u] = writeCount[u] /\ writes'[u] = writes[u]
  BY DEF TypeOK
<1>3. CASE OwnsWriteLock(t) /\ UNCHANGED writers
  <2> USE <1>3
  <2>1. writes[t] > 0
    <3>1. InQueue(writers, t) BY HeadInQueue DEF TypeOK, OwnsWriteLock
    <3> QED BY <3>1 DEF Records, RecordsOfRunning
  <2>2. \A u \in Tasks : readCount[u] = 0 BY <2>1, OwnerRecords
  <2>3. \A u \in Tasks : Records(u)'
    <3> TAKE u \in Tasks
    <3>1. Records(u) OBVIOUS
    <3>2. CASE u = t
      BY <3>1, <3>2, <1>2, <2>1, <2>2
        DEF Records, RecordsOfRunning, RecordsOfWaiting, OwnsWriteLock, TypeOK
    <3>3. CASE u # t
      BY <3>1, <3>3, <1>2 DEF Records, RecordsOfRunning, RecordsOfWaiting, OwnsWriteLock
    <3> QED BY <3>2, <3>3
  <2>4. writeCount'[t] > 0 BY <1>2 DEF TypeOK
  <2> QED BY <1>1, <2>2, <2>3, <2>4
      DEF Distinct, Shut, Open, WritersWaitForSomebody, OwnsWriteLock
<1>4. CASE writers = <<>> /\ readers = {} /\ writers' = <<t>>
  <2> USE <1>4
  <2>1. \A u \in Tasks : readCount[u] = 0 /\ writeCount[u] = 0
    BY DEF Records, OwnsWriteLock, TypeOK
  <2>2. Distinct(writers)' /\ Head(writers)' = t /\ \A u : InQueue(writers, u)' <=> u = t
    BY SingleQueue
  <2>3. \A u \in Tasks : Records(u)'
    <3> TAKE u \in Tasks
    <3>1. Records(u) OBVIOUS
    <3>2. CASE u = t
      BY <3>1, <3>2, <1>2, <2>1, <2>2
        DEF Records, RecordsOfRunning, RecordsOfWaiting, OwnsWriteLock, TypeOK
    <3>3. CASE u # t
      <4>1. ~InQueue(writers, u) BY EmptyQueue
      <4> QED BY <3>1, <3>3, <4>1, <1>2, <2>1, <2>2
          DEF Records, RecordsOfRunning, RecordsOfWaiting, OwnsWriteLock, TypeOK
    <3> QED BY <3>2, <3>3
  <2>4. writeCount'[t] > 0 BY <1>2 DEF TypeOK
  <2> QED BY <1>1, <2>1, <2>2, <2>3, <2>4 DEF Shut, Open, WritersWaitForSomebody
<1> QED BY <1>3, <1>4

\* Waiting to write: the queue grows, and somebody is in the way.
LEMMA WaitToWriteKeeps ==
  ASSUME IInv, NEW t \in Tasks, WaitToWrite(t) PROVE IInv'
<1> USE DEF IInv, WaitToWrite, Ready, Depth
<1>1. reads[t] = 0 /\ writes[t] = 0
  BY DEF TypeOK
<1>2. /\ writeCount[t] = 0 /\ readCount[t] = 0 /\ t \notin readers /\ ~InQueue(writers, t)
  BY <1>1 DEF Records, RecordsOfRunning, TypeOK
<1>3. /\ writers' \in Seq(Tasks) /\ writers' # <<>> /\ Distinct(writers)'
      /\ \A u : InQueue(writers, u)' <=> InQueue(writers, u) \/ u = t
      /\ Head(writers)' = IF writers = <<>> THEN t ELSE Head(writers)
  BY <1>2, AppendQueue DEF TypeOK
<1>4. TypeOK'
  BY <1>3 DEF TypeOK
<1>5. \A u \in Tasks : Records(u)'
  <2> TAKE u \in Tasks
  <2>1. Records(u) /\ (u # t => waiting'[u] = waiting[u]) /\ waiting'[t] = "write"
    BY DEF TypeOK
  <2>2. CASE u = t
    BY <2>1, <2>2, <1>1, <1>2, <1>3 DEF Records, RecordsOfWaiting
  <2>3. CASE u # t
    <3>1. OwnsWriteLock(u) => OwnsWriteLock(u)' BY <1>3 DEF OwnsWriteLock
    <3>2. InQueue(writers, u)' <=> InQueue(writers, u) BY <1>3, <2>3
    <3> QED BY <2>1, <2>3, <3>1, <3>2 DEF Records, RecordsOfRunning, RecordsOfWaiting
  <2> QED BY <2>2, <2>3
<1>6. Shut' /\ Open'
  BY <1>3 DEF Shut, Open
<1>7. WritersWaitForSomebody'
  <2>1. CASE writers # <<>>
    BY <2>1, <1>3 DEF WritersWaitForSomebody
  <2>2. CASE writers = <<>>
    <3>1. PICK u \in readers : readCount[u] > 0 BY <2>2 DEF Open
    <3> QED BY <3>1 DEF WritersWaitForSomebody, TypeOK
  <2> QED BY <2>1, <2>2
<1> QED BY <1>3, <1>4, <1>5, <1>6, <1>7

\* What counting up and down does.
LEMMA Counting ==
  ASSUME NEW f \in [Tasks -> Nat], NEW t \in Tasks
  PROVE  /\ Add(f, t) \in [Tasks -> Nat] /\ Add(f, t)[t] = f[t] + 1
         /\ \A u \in Tasks \ {t} : Add(f, t)[u] = f[u] /\ Lower(f, t)[u] = f[u]
         /\ Lower(f, t)[t] = f[t] - 1
         /\ f[t] > 0 => Lower(f, t) \in [Tasks -> Nat] /\ Lower(f, t)[t] \in Nat
BY DEF Add, Lower

\* A task that has been let in comes out of its wait loop with its record.
LEMMA WakeKeeps ==
  ASSUME IInv, NEW t \in Tasks, Wake(t) PROVE IInv'
<1> USE DEF IInv, Wake, Ready, locks
<1>1. CASE ~Served(t)
  <2>1. TypeOK' BY <1>1 DEF TypeOK
  <2> QED BY <1>1, <2>1 DEF Distinct, Shut, Open, WritersWaitForSomebody, Records,
                            RecordsOfRunning, RecordsOfWaiting, OwnsWriteLock
<1>2. CASE Served(t)
  <2>1. TypeOK'
    <3>1. reads' \in [Tasks -> Nat] /\ writes' \in [Tasks -> Nat]
      <4>1. reads' = Add(reads, t) \/ reads' = reads BY <1>2
      <4>2. writes' = Add(writes, t) \/ writes' = writes BY <1>2
      <4>3. reads \in [Tasks -> Nat] /\ writes \in [Tasks -> Nat] BY DEF TypeOK
      <4> HIDE DEF IInv, Wake
      <4> QED BY <4>1, <4>2, <4>3, Counting
    <3> QED BY <1>2, <3>1 DEF TypeOK
  <2>2. /\ waiting'[t] = "no" /\ reads[t] = 0 /\ writes[t] = 0
        /\ \A u \in Tasks \ {t} : /\ waiting'[u] = waiting[u]
                                  /\ reads'[u] = reads[u] /\ writes'[u] = writes[u]
    BY <1>2 DEF TypeOK, Add, Records, RecordsOfWaiting
  <2>3. RecordsOfRunning(t)'
    <3>1. Records(t) /\ t \in Tasks /\ readCount[t] \in Nat /\ writeCount[t] \in Nat
      BY DEF TypeOK
    <3>2. CASE waiting[t] = "read" /\ readCount[t] # 0
      <4>1. reads'[t] = 1 /\ writes'[t] = 0 BY <1>2, <3>2, <2>2 DEF TypeOK, Add
      <4>2. ~OwnsWriteLock(t)
        BY <3>1, <3>2, HeadInQueue DEF Records, RecordsOfWaiting, OwnsWriteLock, TypeOK
      <4> QED BY <3>1, <3>2, <4>1, <4>2 DEF Records, RecordsOfRunning, RecordsOfWaiting
    <3>3. CASE waiting[t] = "write" /\ writeCount[t] # 0
      <4>1. reads'[t] = 0 /\ writes'[t] = 1 BY <1>2, <3>3, <2>2 DEF TypeOK, Add
      <4> QED BY <3>1, <3>3, <4>1 DEF Records, RecordsOfRunning, RecordsOfWaiting
    <3> QED BY <1>2, <3>2, <3>3 DEF Served
  <2>4. \A u \in Tasks : Records(u)'
    <3> TAKE u \in Tasks
    <3>1. CASE u = t
      BY <3>1, <2>2, <2>3 DEF Records, OwnsWriteLock
    <3>2. CASE u # t
      BY <3>2, <2>2 DEF Records, RecordsOfRunning, RecordsOfWaiting, OwnsWriteLock
    <3> QED BY <3>1, <3>2
  <2> QED BY <2>1, <2>4 DEF Distinct, Shut, Open, WritersWaitForSomebody
<1> QED BY <1>1, <1>2

\* A task that runs and reads without owning the lock has a record for it.
LEMMA ReaderRecords ==
  ASSUME IInv, NEW t \in Tasks, waiting[t] = "no", reads[t] > 0, ~OwnsWriteLock(t)
  PROVE  /\ writes[t] = 0 /\ t \in readers /\ readCount[t] = reads[t]
         /\ ~InQueue(writers, t) /\ \A u \in Tasks : writeCount[u] = 0
<1> USE DEF IInv
<1>1. writes[t] = 0
  <2>1. writeCount[t] = writes[t] /\ ~(writeCount[t] > 0) BY DEF Records, RecordsOfRunning
  <2> QED BY <2>1 DEF TypeOK
<1>2. readCount[t] = reads[t] /\ t \in readers /\ ~InQueue(writers, t)
  BY <1>1 DEF Records, RecordsOfRunning
<1>3. \A u \in Tasks : ~(writeCount[u] > 0)
  BY <1>2 DEF Shut
<1> QED BY <1>1, <1>2, <1>3 DEF TypeOK

\* Releasing a read lock: the last reader lets the first writer in.
LEMMA ReleaseReaderKeeps ==
  ASSUME IInv, NEW t \in Tasks, ReleaseReader(t) PROVE IInv'
<1> USE DEF IInv, ReleaseReader, Ready, Lower
<1>1. /\ reads'[t] = reads[t] - 1 /\ reads[t] \in Nat
      /\ \A u \in Tasks \ {t} : reads'[u] = reads[u]
      /\ reads' \in [Tasks -> Nat]
  BY DEF TypeOK
<1>2. CASE Ignored(t)
  <2> USE <1>2 DEF locks
  <2>1. writes[t] > 0
    <3>1. InQueue(writers, t) BY HeadInQueue DEF TypeOK, OwnsWriteLock, Ignored
    <3> QED BY <3>1 DEF Records, RecordsOfRunning
  <2>2. \A u \in Tasks : Records(u)'
    <3> TAKE u \in Tasks
    <3>1. Records(u) /\ (u # t => reads'[u] = reads[u]) BY <1>1
    <3>2. writes' = writes /\ waiting' = waiting OBVIOUS
    <3> QED BY <3>1, <3>2, <2>1
        DEF Records, RecordsOfRunning, RecordsOfWaiting, OwnsWriteLock
  <2>3. TypeOK' BY <1>1 DEF TypeOK
  <2> QED BY <2>2, <2>3 DEF Distinct, Shut, Open, WritersWaitForSomebody
<1>3. CASE ~Ignored(t)
  <2>1. /\ writes[t] = 0 /\ t \in readers /\ readCount[t] = reads[t]
        /\ ~InQueue(writers, t) /\ \A u \in Tasks : writeCount[u] = 0
    BY <1>3, ReaderRecords DEF Ignored
  <2>2. /\ readCount'[t] = readCount[t] - 1 /\ readCount'[t] \in Nat
        /\ \A u \in Tasks \ {t} : readCount'[u] = readCount[u]
        /\ readCount' \in [Tasks -> Nat]
    <3>1. readCount' = Lower(readCount, t) BY <1>3
    <3>2. readCount[t] > 0 /\ readCount \in [Tasks -> Nat] BY <2>1 DEF TypeOK
    <3> HIDE DEF IInv, ReleaseReader, Lower
    <3> QED BY <3>1, <3>2, Counting
  <2>3. /\ writers' = writers /\ writers \in Seq(Tasks)
        /\ readers' = IF readCount[t] = 1 THEN readers \ {t} ELSE readers
    BY <1>3 DEF Forgotten, TypeOK
  <2>4. CASE LastReader(t) /\ writers # <<>>
    <3> DEFINE h == Head(writers)
    <3>1. h \in Tasks /\ InQueue(writers, h) /\ h # t /\ writers # <<>>
      BY <2>1, <2>3, <2>4, HeadInQueue
    <3> HIDE DEF h
    <3>2. /\ writeCount'[h] = 1 /\ \A u \in Tasks \ {h} : writeCount'[u] = 0
          /\ writeCount' \in [Tasks -> Nat] /\ notified' = notified \cup {h}
      <4>1. writeCount' = Add(writeCount, h) /\ notified' = notified \cup {h}
        BY <1>3, <2>1, <2>4, <3>1 DEF PassToWriter, h
      <4> QED BY <4>1, <2>1, <3>1 DEF TypeOK, Add
    <3>3. \A u \in Tasks : readCount'[u] = 0
      <4>1. \A u \in Tasks \ {t} : readCount[u] = 0
        BY <2>4 DEF LastReader, Records, TypeOK
      <4>2. readCount[t] = 1 BY <2>4 DEF LastReader
      <4> HIDE DEF IInv, ReleaseReader
      <4> QED BY <4>1, <4>2, <2>2
    <3>4. TypeOK' BY <2>2, <2>3, <3>1, <3>2, <1>1 DEF TypeOK
    <3>5. \A u \in Tasks : Records(u)'
      <4> TAKE u \in Tasks
      <4>1. Records(u) /\ (u # t => u \in readers' <=> u \in readers)
        BY <2>3
      <4>2. OwnsWriteLock(u)' <=> u = h
        BY <3>1, <2>3 DEF OwnsWriteLock, h
      <4>3. CASE u = t
        BY <4>1, <4>2, <4>3, <1>1, <2>1, <2>2, <2>3, <2>4, <3>1, <3>2, <3>3
          DEF Records, RecordsOfRunning, LastReader
      <4>4. CASE u = h
        BY <4>1, <4>2, <4>4, <1>1, <2>1, <2>2, <2>3, <3>1, <3>2, <3>3
          DEF Records, RecordsOfRunning, RecordsOfWaiting, TypeOK
      <4>5. CASE u # t /\ u # h
        BY <4>1, <4>2, <4>5, <1>1, <2>1, <2>2, <2>3, <3>1, <3>2, <3>3
          DEF Records, RecordsOfRunning, RecordsOfWaiting
      <4> QED BY <4>3, <4>4, <4>5
    <3>6. Distinct(writers)' /\ Shut' /\ Open' /\ WritersWaitForSomebody'
      BY <2>3, <3>1, <3>2, <3>3 DEF Distinct, Shut, Open, WritersWaitForSomebody, h
    <3> QED BY <3>4, <3>5, <3>6
  <2>5. CASE ~(LastReader(t) /\ writers # <<>>)
    <3>1. UNCHANGED <<writeCount, notified>>
      BY <1>3, <2>5 DEF PassToWriter
    <3>2. TypeOK' BY <2>2, <2>3, <3>1, <1>1 DEF TypeOK
    <3>3. \A u \in Tasks : Records(u)'
      <4> TAKE u \in Tasks
      <4>1. Records(u) /\ (u # t => u \in readers' <=> u \in readers)
        BY <2>3
      <4>2. writers' = writers /\ writeCount' = writeCount /\ writes' = writes /\ waiting' = waiting
        BY <2>3, <3>1
      <4>3. CASE u = t
        BY <4>1, <4>2, <4>3, <1>1, <2>1, <2>2, <2>3
          DEF Records, RecordsOfRunning, OwnsWriteLock, TypeOK
      <4>4. CASE u # t
        BY <4>1, <4>2, <4>4, <1>1, <2>2 DEF Records, RecordsOfRunning, RecordsOfWaiting, OwnsWriteLock
      <4> QED BY <4>3, <4>4
    <3>4. Distinct(writers)' /\ Shut'
      BY <2>1, <2>3, <3>1 DEF Distinct, Shut
    <3>5. Open'
      BY <2>2, <2>3 DEF Open, TypeOK
    <3>6. WritersWaitForSomebody'
      <4> SUFFICES ASSUME writers # <<>> PROVE \E u \in Tasks : readCount'[u] > 0
        BY <2>3 DEF WritersWaitForSomebody
      <4>1. CASE readCount[t] = 1
        <5>1. PICK u \in readers \ {t} : readCount[u] # 0 BY <2>5, <4>1 DEF LastReader
        <5>2. u \in Tasks /\ readCount[u] \in Nat BY <5>1 DEF TypeOK
        <5> QED BY <5>1, <5>2, <2>2
      <4>2. CASE readCount[t] # 1
        <5>1. readCount'[t] > 0 BY <4>2, <2>1, <2>2 DEF TypeOK
        <5> QED BY <5>1
      <4> QED BY <4>1, <4>2
    <3> QED BY <3>2, <3>3, <3>4, <3>5, <3>6
  <2> QED BY <2>4, <2>5
<1> QED BY <1>2, <1>3

\* The readers with a count of zero wait, and are let in by those who leave.
LEMMA WaitersRecords ==
  ASSUME IInv, NEW u \in Tasks
  PROVE  /\ u \in Waiters => waiting[u] = "read"
         /\ u \notin Waiters /\ u \in readers => readCount[u] > 0
<1>1. Records(u) /\ waiting[u] \in {"no", "read", "write"} /\ readCount[u] \in Nat
  BY DEF IInv, TypeOK
<1> QED BY <1>1 DEF Waiters, Records, RecordsOfRunning, RecordsOfWaiting

\* Releasing the write lock: the next writer comes in, or all readers do.
LEMMA ReleaseWriterKeeps ==
  ASSUME IInv, NEW t \in Tasks, ReleaseWriter(t) PROVE IInv'
<1>1. /\ waiting[t] = "no" /\ writes[t] > 0 /\ (writes[t] = 1 => reads[t] = 0)
      /\ writes' = Lower(writes, t) /\ readers' = readers /\ waiting' = waiting
      /\ reads' = reads /\ TypeOK /\ Distinct(writers) /\ \A u \in Tasks : Records(u)
  BY DEF IInv, ReleaseWriter, Ready
<1>2. /\ writers # <<>> /\ Head(writers) = t /\ writeCount[t] = writes[t]
      /\ t \notin readers /\ \A u \in Tasks : readCount[u] = 0
      /\ \A u \in Tasks \ {t} : writeCount[u] = 0
  BY <1>1, OwnerRecords
<1>3. /\ writes' \in [Tasks -> Nat] /\ writes'[t] = writes[t] - 1
      /\ \A u \in Tasks \ {t} : writes'[u] = writes[u]
  BY <1>1, Counting DEF TypeOK
<1>4. /\ Lower(writeCount, t) \in [Tasks -> Nat]
      /\ Lower(writeCount, t)[t] = writeCount[t] - 1
      /\ \A u \in Tasks \ {t} : Lower(writeCount, t)[u] = 0
  <2>1. writeCount \in [Tasks -> Nat] /\ writeCount[t] > 0 BY <1>1, <1>2 DEF TypeOK
  <2>2. \A u \in Tasks \ {t} : Lower(writeCount, t)[u] = writeCount[u] BY <2>1, Counting
  <2> QED BY <1>2, <2>1, <2>2, Counting
<1>5. CASE writeCount[t] # 1
  <2>1. writeCount' = Lower(writeCount, t) /\ UNCHANGED <<writers, readCount, notified>>
    BY <1>5 DEF ReleaseWriter
  <2>2. TypeOK' BY <1>1, <1>3, <1>4, <2>1 DEF TypeOK
  <2>3. writeCount'[t] > 0 BY <1>1, <1>2, <1>4, <1>5, <2>1 DEF TypeOK
  <2>4. \A u \in Tasks : Records(u)'
    <3> TAKE u \in Tasks
    <3>1. Records(u) BY <1>1
    <3>2. CASE u = t
      BY <3>1, <3>2, <1>1, <1>2, <1>3, <1>4, <2>1, <2>3
        DEF Records, RecordsOfRunning, OwnsWriteLock
    <3>3. CASE u # t
      BY <3>1, <3>3, <1>1, <1>2, <1>3, <1>4, <2>1
        DEF Records, RecordsOfRunning, RecordsOfWaiting, OwnsWriteLock
    <3> QED BY <3>2, <3>3
  <2>5. Distinct(writers)' /\ Shut' /\ Open' /\ WritersWaitForSomebody'
    BY <1>1, <1>2, <2>1, <2>3 DEF Distinct, Shut, Open, WritersWaitForSomebody
  <2> QED BY <2>2, <2>4, <2>5 DEF IInv
<1>6. CASE writeCount[t] = 1
  <2>1. HandOver(t) BY <1>6 DEF ReleaseWriter
  <2>2. /\ writers' = Tail(writers) /\ writers' \in Seq(Tasks) /\ Distinct(writers)'
        /\ \A u : InQueue(writers, u)' <=> InQueue(writers, u) /\ u # t
    BY <1>1, <1>2, <2>1, TailQueue DEF HandOver, TypeOK
  <2>3. writes'[t] = 0 /\ reads[t] = 0 /\ Lower(writeCount, t)[t] = 0
    BY <1>1, <1>2, <1>3, <1>4, <1>6
  <2>4. CASE writers' # <<>>
    <3> DEFINE next == Head(Tail(writers))
    <3>1. /\ writeCount' = Add(Lower(writeCount, t), next)
          /\ notified' = notified \cup {next} /\ readCount' = readCount
      BY <2>1, <2>2, <2>4 DEF HandOver
    <3>2. next = Head(writers)' BY <2>2
    <3> HIDE DEF next
    <3>3. next \in Tasks /\ InQueue(writers, next) /\ next # t
      BY <2>2, <2>4, <3>2, HeadInQueue
    <3>4. /\ writeCount' \in [Tasks -> Nat] /\ writeCount'[next] = 1
          /\ \A u \in Tasks \ {next} : writeCount'[u] = 0
      <4>1. Lower(writeCount, t)[next] = 0 BY <1>4, <3>3
      <4> QED BY <1>4, <2>3, <3>1, <3>3, <4>1, Counting
    <3>5. TypeOK' BY <1>1, <1>3, <2>2, <3>1, <3>3, <3>4 DEF TypeOK
    <3>6. \A u \in Tasks : Records(u)'
      <4> TAKE u \in Tasks
      <4>1. Records(u) BY <1>1
      <4>2. OwnsWriteLock(u)' <=> u = next BY <2>4, <3>2 DEF OwnsWriteLock
      <4>3. CASE u = t
        BY <4>1, <4>2, <4>3, <1>1, <1>2, <2>2, <2>3, <3>1, <3>3, <3>4
          DEF Records, RecordsOfRunning
      <4>4. CASE u = next
        <5>1. writeCount[u] = 0 /\ writes[u] \in Nat BY <1>1, <1>2, <3>3, <4>4 DEF TypeOK
        <5>2. waiting[u] = "write"
          BY <4>1, <4>4, <5>1, <3>3, <1>1 DEF Records, RecordsOfRunning, RecordsOfWaiting, TypeOK
        <5> QED BY <5>2, <4>1, <4>2, <4>4, <1>1, <1>2, <1>3, <2>2, <3>1, <3>3, <3>4
            DEF Records, RecordsOfWaiting
      <4>5. CASE u # t /\ u # next
        BY <4>1, <4>2, <4>5, <1>1, <1>2, <1>3, <2>2, <3>1, <3>4
          DEF Records, RecordsOfRunning, RecordsOfWaiting
      <4> QED BY <4>3, <4>4, <4>5
    <3>7. Shut' /\ Open' /\ WritersWaitForSomebody'
      BY <1>2, <2>4, <3>1, <3>2, <3>4 DEF Shut, Open, WritersWaitForSomebody
    <3> QED BY <2>2, <3>5, <3>6, <3>7 DEF IInv
  <2>5. CASE writers' = <<>>
    <3>1. /\ writeCount' = Lower(writeCount, t) /\ WakeReaders
      BY <2>1, <2>2, <2>5 DEF HandOver
    <3>2. /\ readCount' \in [Tasks -> Nat] /\ notified' = notified \cup Waiters
          /\ Waiters \subseteq Tasks
          /\ \A u \in Tasks : readCount'[u] = IF u \in Waiters THEN 1 ELSE 0
      BY <1>1, <1>2, <3>1 DEF WakeReaders, Waiters, TypeOK
    <3>3. \A u \in Tasks : writeCount'[u] = 0 BY <1>4, <2>3, <3>1
    <3>4. TypeOK' BY <1>1, <1>3, <1>4, <2>2, <3>1, <3>2 DEF TypeOK
    <3>5. \A u \in Tasks : Records(u)'
      <4> TAKE u \in Tasks
      <4>1. Records(u) /\ ~InQueue(writers, u)' /\ (u \in Waiters <=> u \in readers)
        BY <1>1, <1>2, <2>2, <2>5, EmptyQueue DEF Waiters
      <4>2. InQueue(writers, u) => u = t BY <2>2, <2>5, EmptyQueue
      <4>3. CASE u = t
        BY <4>1, <4>3, <1>1, <1>2, <2>3, <3>2, <3>3 DEF Records, RecordsOfRunning
      <4>4. CASE u # t
        <5>1. u \in Waiters => waiting[u] = "read" BY WaitersRecords
        <5> QED BY <5>1, <4>1, <4>2, <4>4, <1>1, <1>2, <1>3, <3>2, <3>3
          DEF Records, RecordsOfRunning, RecordsOfWaiting
      <4> QED BY <4>3, <4>4
    <3>6. Shut' /\ WritersWaitForSomebody'
      BY <2>5, <3>3 DEF Shut, WritersWaitForSomebody
    <3>7. Open'
      BY <1>1, <1>2, <3>2 DEF Open, Waiters, TypeOK
    <3> QED BY <2>2, <3>4, <3>5, <3>6, <3>7 DEF IInv
  <2> QED BY <2>4, <2>5
<1> QED BY <1>5, <1>6

\* Turning the write lock into a read lock: the waiting readers come in too.
LEMMA DowngradeKeeps ==
  ASSUME IInv, NEW t \in Tasks, DowngradeWriter(t) PROVE IInv'
<1>1. /\ waiting[t] = "no" /\ writes[t] = 1 /\ reads[t] = 0
      /\ writers' = Tail(writers) /\ writeCount' = [writeCount EXCEPT ![t] = 0]
      /\ readers' = readers \cup {t} /\ waiting' = waiting
      /\ readCount' = [u \in Tasks |-> IF u \in Waiters \cup {t} THEN 1 ELSE readCount[u]]
      /\ notified' = notified \cup Waiters
      /\ writes' = [writes EXCEPT ![t] = 0] /\ reads' = [reads EXCEPT ![t] = 1]
      /\ TypeOK /\ Distinct(writers) /\ \A u \in Tasks : Records(u)
  BY DEF IInv, DowngradeWriter, Ready
<1>2. /\ writers # <<>> /\ Head(writers) = t
      /\ t \notin readers /\ \A u \in Tasks : readCount[u] = 0
      /\ \A u \in Tasks \ {t} : writeCount[u] = 0
  BY <1>1, OwnerRecords
<1>3. /\ writes'[t] = 0 /\ reads'[t] = 1
      /\ \A u \in Tasks \ {t} : writes'[u] = writes[u] /\ reads'[u] = reads[u]
      /\ \A u \in Tasks : writeCount'[u] = 0
  BY <1>1, <1>2 DEF TypeOK
<1>4. /\ writers' \in Seq(Tasks) /\ Distinct(writers)'
      /\ \A u : InQueue(writers, u)' <=> InQueue(writers, u) /\ u # t
  BY <1>1, <1>2, TailQueue DEF TypeOK
<1>5. /\ Waiters \subseteq Tasks
      /\ \A u \in Tasks : readCount'[u] = IF u \in readers' THEN 1 ELSE 0
  BY <1>1, <1>2 DEF Waiters, TypeOK
<1>6. TypeOK'
  BY <1>1, <1>4, <1>5 DEF TypeOK
<1>7. \A u \in Tasks : Records(u)'
  <2> TAKE u \in Tasks
  <2>1. Records(u) BY <1>1
  <2>2. CASE u = t
    BY <2>1, <2>2, <1>1, <1>2, <1>3, <1>4, <1>5 DEF Records, RecordsOfRunning
  <2>3. CASE u # t
    <3>1. u \in readers => waiting[u] = "read"
      BY <1>2, WaitersRecords DEF Waiters
    <3>2. u \in readers' <=> u \in readers BY <1>1, <2>3
    <3> QED BY <2>1, <2>3, <3>1, <3>2, <1>1, <1>2, <1>3, <1>4, <1>5
            DEF Records, RecordsOfRunning, RecordsOfWaiting
  <2> QED BY <2>2, <2>3
<1>8. Shut' /\ Open' /\ WritersWaitForSomebody'
  <2>1. readCount'[t] = 1 BY <1>1, <1>5
  <2> QED BY <1>3, <1>5, <1>6, <2>1 DEF Shut, Open, WritersWaitForSomebody, TypeOK
<1> QED BY <1>4, <1>6, <1>7, <1>8 DEF IInv

\* Every step keeps the invariant.
LEMMA NextIInv == IInv /\ [Next]_vars => IInv'
<1> SUFFICES ASSUME IInv, [Next]_vars PROVE IInv'
  OBVIOUS
<1>1. CASE UNCHANGED vars
  BY <1>1 DEF IInv, TypeOK, Distinct, Shut, Open, WritersWaitForSomebody, Records,
              RecordsOfRunning, RecordsOfWaiting, OwnsWriteLock, vars, locks
<1>2. ASSUME NEW t \in Tasks,
             EnterRead(t) \/ WaitToRead(t) \/ EnterWrite(t) \/ WaitToWrite(t)
               \/ TryRead(t) \/ TryWrite(t) \/ Wake(t)
               \/ ReleaseReader(t) \/ ReleaseWriter(t) \/ DowngradeWriter(t)
      PROVE  IInv'
  BY <1>2, EnterReadKeeps, WaitToReadKeeps, EnterWriteKeeps, WaitToWriteKeeps, WakeKeeps,
     ReleaseReaderKeeps, ReleaseWriterKeeps, DowngradeKeeps DEF TryRead, TryWrite
<1> QED BY <1>1, <1>2 DEF Next

\* The invariant holds in every state of the specification.
THEOREM Invariance == Spec => []IInv
BY InitIInv, NextIInv, PTL DEF Spec

-----------------------------------------------------------------------------
(* What follows from it.                                                   *)

\* The records and counts have their types.
THEOREM TypeCorrect == Spec => []TypeOK
<1>1. IInv => TypeOK BY DEF IInv
<1> QED BY <1>1, Invariance, PTL

\* A task that writes excludes all others.
LEMMA IInvExcludes == IInv => Exclusion
<1> SUFFICES ASSUME IInv, NEW t \in Tasks, writes[t] > 0, NEW u \in Tasks \ {t}
             PROVE  reads[u] = 0 /\ writes[u] = 0
  BY DEF Exclusion
<1>1. waiting[t] = "no" BY DEF IInv, Records, RecordsOfWaiting
<1>2. readCount[u] = 0 /\ writeCount[u] = 0 BY <1>1, OwnerRecords
<1> QED BY <1>2 DEF IInv, Records, RecordsOfRunning, RecordsOfWaiting

\* While one task writes no other is inside, for any number of tasks.
THEOREM WritersExclude == Spec => []Exclusion
BY IInvExcludes, Invariance, PTL

\* The assertions of the release functions never fail.
THEOREM NoAssertionFails == Spec => []AssertionsHold
<1>1. IInv => AssertionsHold
  <2> SUFFICES ASSUME IInv, NEW t \in Tasks
               PROVE  /\ reads[t] > 0 /\ ~OwnsWriteLock(t) => t \in readers /\ readCount[t] = reads[t]
                      /\ writes[t] > 0 => OwnsWriteLock(t) /\ writeCount[t] = writes[t]
    BY DEF AssertionsHold
  <2>1. reads[t] > 0 \/ writes[t] > 0 => waiting[t] = "no"
    BY DEF IInv, Records, RecordsOfWaiting
  <2> QED BY <2>1, OwnerRecords, ReaderRecords DEF OwnsWriteLock
<1> QED BY <1>1, Invariance, PTL

\* No record outlives the calls that made it.
THEOREM NoRecordLeaks == Spec => []QuietMeansFree
<1>1. IInv => QuietMeansFree
  <2> SUFFICES ASSUME IInv, \A t \in Tasks : Ready(t) /\ Depth(t) = 0
               PROVE  readers = {} /\ writers = <<>>
    BY DEF QuietMeansFree
  <2>1. \A t \in Tasks : reads[t] = 0 /\ writes[t] = 0 /\ RecordsOfRunning(t)
    <3> TAKE t \in Tasks
    <3>1. reads[t] \in Nat /\ writes[t] \in Nat /\ Records(t) BY DEF IInv, TypeOK
    <3>2. waiting[t] = "no" /\ reads[t] + writes[t] = 0 BY DEF Ready, Depth
    <3> QED BY <3>1, <3>2 DEF Records
  <2>2. readers = {} BY <2>1 DEF RecordsOfRunning, IInv, TypeOK
  <2>3. writers = <<>>
    <3> SUFFICES ASSUME writers # <<>> PROVE FALSE OBVIOUS
    <3>1. Head(writers) \in Tasks /\ InQueue(writers, Head(writers))
      BY HeadInQueue DEF IInv, TypeOK
    <3> QED BY <3>1, <2>1 DEF RecordsOfRunning
  <2> QED BY <2>2, <2>3
<1> QED BY <1>1, Invariance, PTL

\* Whoever waits, waits for a task that is in or has been let in.
THEOREM NoWaitIsForgotten == Spec => []NobodyWaitsForNobody
<1>1. IInv => NobodyWaitsForNobody
  <2> SUFFICES ASSUME IInv, NEW t \in Tasks,
                      waiting[t] # "no", readCount[t] = 0, writeCount[t] = 0
               PROVE  \E u \in Tasks : readCount[u] > 0 \/ writeCount[u] > 0
    BY DEF NobodyWaitsForNobody
  <2>1. writers # <<>>
    <3> SUFFICES ASSUME writers = <<>> PROVE FALSE OBVIOUS
    <3>1. ~InQueue(writers, t) BY EmptyQueue
    <3>2. t \in readers BY <3>1 DEF IInv, Records, RecordsOfWaiting, TypeOK
    <3> QED BY <3>2 DEF IInv, Open
  <2>2. Head(writers) \in Tasks BY <2>1, HeadInQueue DEF IInv, TypeOK
  <2> QED BY <2>1, <2>2 DEF IInv, WritersWaitForSomebody
<1> QED BY <1>1, Invariance, PTL

\* The assertions hold, no record leaks and no wait is forgotten.
THEOREM LockStaysSound == Spec => []LockIsSound
<1>1. AssertionsHold /\ QuietMeansFree /\ NobodyWaitsForNobody => LockIsSound
  BY DEF LockIsSound
<1> QED BY <1>1, NoAssertionFails, NoRecordLeaks, NoWaitIsForgotten, PTL

-----------------------------------------------------------------------------
(* The abstract lock.                                                      *)

\* Where the abstract lock sees a task.
Inside(t) == IF writes[t] > 0 THEN "writing" ELSE IF reads[t] > 0 THEN "reading" ELSE "out"
AllInside == [t \in Tasks |-> Inside(t)]

\* A step that changes where one task is, and how, is a step of the abstract
\* lock.
LEMMA OneMoves ==
  ASSUME IInv, NEW t \in Tasks,
         \A u \in Tasks \ {t} : reads'[u] = reads[u] /\ writes'[u] = writes[u],
         \/ Inside(t)' = Inside(t)
         \/ Inside(t)' = "out"
         \/ Inside(t) = "out" /\ Inside(t)' = "reading" /\ \A u \in Tasks : writes[u] = 0
         \/ Inside(t)' = "writing" /\ \A u \in Tasks : reads[u] = 0 /\ writes[u] = 0
         \/ Inside(t) = "writing" /\ Inside(t)' = "reading"
  PROVE  [Lock!Next]_AllInside
<1>1. AllInside' = [AllInside EXCEPT ![t] = Inside(t)']
  BY DEF AllInside, Inside
<1>2. \A u \in Tasks : AllInside[u] = Inside(u)
  BY DEF AllInside
<1>3. AllInside = [u \in Tasks |-> IF writes[u] > 0 THEN "writing"
                                   ELSE IF reads[u] > 0 THEN "reading" ELSE "out"]
  BY DEF AllInside, Inside
<1>4. Lock!Next <=> \E u \in Tasks :
        \/ /\ AllInside[u] = "out" /\ \A v \in Tasks : AllInside[v] # "writing"
           /\ AllInside' = [AllInside EXCEPT ![u] = "reading"]
        \/ /\ \A v \in Tasks : AllInside[v] = "out"
           /\ AllInside' = [AllInside EXCEPT ![u] = "writing"]
        \/ /\ AllInside[u] = "writing"
           /\ AllInside' = [AllInside EXCEPT ![u] = "reading"]
        \/ /\ AllInside[u] # "out"
           /\ AllInside' = [AllInside EXCEPT ![u] = "out"]
  BY <1>3 DEF Lock!Next, Lock!EnterToRead, Lock!EnterToWrite, Lock!Downgrade, Lock!Leave, AllInside, Inside
<1>5. CASE Inside(t)' = Inside(t)
  <2>1. AllInside' = AllInside BY <1>1, <1>2, <1>5 DEF AllInside
  <2> QED BY <2>1
<1>6. CASE Inside(t)' = "out" /\ Inside(t)' # Inside(t)
  BY <1>1, <1>2, <1>4, <1>6
<1>7. CASE Inside(t) = "out" /\ Inside(t)' = "reading" /\ \A u \in Tasks : writes[u] = 0
  <2>1. \A u \in Tasks : AllInside[u] # "writing" BY <1>2, <1>7 DEF Inside
  <2> QED BY <1>1, <1>2, <1>4, <1>7, <2>1
<1>8. CASE Inside(t)' = "writing" /\ \A u \in Tasks : reads[u] = 0 /\ writes[u] = 0
  <2>1. \A u \in Tasks : AllInside[u] = "out" BY <1>2, <1>8 DEF Inside
  <2> QED BY <1>1, <1>4, <1>8, <2>1
<1>9. CASE Inside(t) = "writing" /\ Inside(t)' = "reading"
  BY <1>1, <1>2, <1>4, <1>9
<1> QED BY <1>5, <1>6, <1>7, <1>8, <1>9

\* A step that changes nothing the callers have is a stutter.
LEMMA NobodyMoves ==
  ASSUME UNCHANGED <<reads, writes>> PROVE [Lock!Next]_AllInside
BY DEF AllInside, Inside

\* Entering and leaving, as the abstract lock sees them.
LEMMA EntriesAreAbstract ==
  ASSUME IInv, NEW t \in Tasks, EnterRead(t) \/ EnterWrite(t)
  PROVE  [Lock!Next]_AllInside
<1> USE DEF IInv
<1>1. waiting[t] = "no" /\ reads[t] \in Nat /\ writes[t] \in Nat /\ Records(t)
  BY DEF EnterRead, EnterWrite, Ready, TypeOK
<1>2. OwnsWriteLock(t) => writes[t] > 0
  BY <1>1, HeadInQueue DEF TypeOK, OwnsWriteLock, Records, RecordsOfRunning
<1>3. CASE EnterRead(t)
  <2>1. /\ reads'[t] = reads[t] + 1 /\ writes' = writes
        /\ \A u \in Tasks \ {t} : reads'[u] = reads[u]
    <3>1. reads' = Add(reads, t) /\ writes' = writes BY <1>3 DEF EnterRead
    <3>2. reads \in [Tasks -> Nat] BY DEF TypeOK
    <3> HIDE DEF IInv
    <3> QED BY <3>1, <3>2, Counting
  <2>2. CASE writes[t] > 0 \/ reads[t] > 0
    <3>1. Inside(t)' = Inside(t) BY <1>1, <2>1, <2>2 DEF Inside
    <3> QED BY <2>1, <3>1, OneMoves
  <2>3. CASE writes[t] = 0 /\ reads[t] = 0
    <3>1. t \notin readers BY <1>1, <2>3 DEF Records, RecordsOfRunning
    <3>2. writers = <<>> BY <1>2, <1>3, <2>3, <3>1 DEF EnterRead, MayRead
    <3>3. \A u \in Tasks : writes[u] = 0
      <4> TAKE u \in Tasks
      <4>1. ~(writeCount[u] > 0) BY <3>2 DEF Records, OwnsWriteLock
      <4> QED BY <4>1 DEF Records, RecordsOfRunning, RecordsOfWaiting, TypeOK
    <3>4. Inside(t) = "out" /\ Inside(t)' = "reading" BY <2>1, <2>3 DEF Inside
    <3> QED BY <2>1, <3>3, <3>4, OneMoves
  <2> QED BY <1>1, <2>2, <2>3
<1>4. CASE EnterWrite(t)
  <2>1. /\ writes'[t] = writes[t] + 1 /\ reads' = reads
        /\ \A u \in Tasks \ {t} : writes'[u] = writes[u]
    <3>1. writes' = Add(writes, t) /\ reads' = reads BY <1>4 DEF EnterWrite
    <3>2. writes \in [Tasks -> Nat] BY DEF TypeOK
    <3> HIDE DEF IInv
    <3> QED BY <3>1, <3>2, Counting
  <2>2. CASE writes[t] > 0
    <3>1. Inside(t)' = Inside(t) BY <1>1, <2>1, <2>2 DEF Inside
    <3> QED BY <2>1, <3>1, OneMoves
  <2>3. CASE writes[t] = 0
    <3>1. writers = <<>> /\ readers = {} BY <1>2, <1>4, <2>3 DEF EnterWrite
    <3>2. \A u \in Tasks : reads[u] = 0 /\ writes[u] = 0
      <4> TAKE u \in Tasks
      <4>1. ~(writeCount[u] > 0) /\ ~(readCount[u] > 0) BY <3>1 DEF Records, OwnsWriteLock
      <4> QED BY <4>1 DEF Records, RecordsOfRunning, RecordsOfWaiting, TypeOK
    <3>3. Inside(t)' = "writing" BY <2>1, <2>3 DEF Inside
    <3> QED BY <2>1, <3>2, <3>3, OneMoves
  <2> QED BY <1>1, <2>2, <2>3
<1> QED BY <1>3, <1>4

\* A task that comes out of a wait loop enters the abstract lock.
LEMMA WakeIsAbstract ==
  ASSUME IInv, NEW t \in Tasks, Wake(t) PROVE [Lock!Next]_AllInside
<1> USE DEF IInv
<1>1. waiting[t] # "no" /\ reads[t] = 0 /\ writes[t] = 0 /\ RecordsOfWaiting(t)
  BY DEF Wake, Ready, Records, RecordsOfWaiting
<1>2. CASE ~Served(t)
  BY <1>2, NobodyMoves DEF Wake
<1>3. CASE waiting[t] = "read" /\ readCount[t] # 0
  <2>1. reads' = Add(reads, t) /\ writes' = writes BY <1>3 DEF Wake, Served
  <2>2. reads'[t] = 1 /\ \A u \in Tasks \ {t} : reads'[u] = reads[u]
    <3>1. reads \in [Tasks -> Nat] BY DEF TypeOK
    <3> HIDE DEF IInv
    <3> QED BY <1>1, <2>1, <3>1, Counting
  <2>3. \A u \in Tasks : writes[u] = 0
    <3> TAKE u \in Tasks
    <3>1. ~(writeCount[u] > 0) BY <1>3 DEF Shut, TypeOK
    <3> QED BY <3>1 DEF Records, RecordsOfRunning, RecordsOfWaiting, TypeOK
  <2>4. Inside(t) = "out" /\ Inside(t)' = "reading" BY <1>1, <2>1, <2>2 DEF Inside
  <2> QED BY <2>1, <2>2, <2>3, <2>4, OneMoves
<1>4. CASE waiting[t] = "write" /\ writeCount[t] # 0
  <2>1. writes' = Add(writes, t) /\ reads' = reads BY <1>4 DEF Wake, Served
  <2>2. writes'[t] = 1 /\ \A u \in Tasks \ {t} : writes'[u] = writes[u]
    <3>1. writes \in [Tasks -> Nat] BY DEF TypeOK
    <3> HIDE DEF IInv
    <3> QED BY <1>1, <2>1, <3>1, Counting
  <2>3. writeCount[t] > 0 BY <1>4 DEF TypeOK
  <2>4. \A u \in Tasks : reads[u] = 0 /\ writes[u] = 0
    <3> TAKE u \in Tasks
    <3>1. readCount[u] = 0 BY <2>3 DEF Shut
    <3>2. u # t => ~(writeCount[u] > 0) BY <2>3 DEF Records, OwnsWriteLock
    <3>3. writeCount[u] \in Nat BY DEF TypeOK
    <3>4. CASE u = t BY <3>4, <1>1
    <3>5. CASE u # t
      BY <3>1, <3>2, <3>3, <3>5 DEF Records, RecordsOfRunning, RecordsOfWaiting
    <3> QED BY <3>4, <3>5
  <2>5. Inside(t)' = "writing" BY <2>2 DEF Inside
  <2> QED BY <2>1, <2>2, <2>4, <2>5, OneMoves
<1> QED BY <1>2, <1>3, <1>4 DEF Served

\* Leaving and downgrading.
LEMMA ExitsAreAbstract ==
  ASSUME IInv, NEW t \in Tasks, ReleaseReader(t) \/ ReleaseWriter(t) \/ DowngradeWriter(t)
  PROVE  [Lock!Next]_AllInside
<1>0. TypeOK /\ reads[t] \in Nat /\ writes[t] \in Nat BY DEF IInv, TypeOK
<1>1. CASE ReleaseReader(t)
  <2>1. /\ reads'[t] = reads[t] - 1 /\ writes' = writes /\ reads[t] > 0
        /\ \A u \in Tasks \ {t} : reads'[u] = reads[u]
    <3>1. reads' = Lower(reads, t) /\ writes' = writes /\ reads[t] > 0
      BY <1>1 DEF ReleaseReader
    <3>2. reads \in [Tasks -> Nat] BY <1>0 DEF TypeOK
    <3> QED BY <3>1, <3>2, Counting
  <2>2. Inside(t)' = Inside(t) \/ Inside(t)' = "out"
    BY <1>0, <2>1 DEF Inside
  <2> QED BY <2>1, <2>2, OneMoves
<1>2. CASE ReleaseWriter(t)
  <2>1. /\ writes'[t] = writes[t] - 1 /\ reads' = reads /\ writes[t] > 0
        /\ (writes[t] = 1 => reads[t] = 0)
        /\ \A u \in Tasks \ {t} : writes'[u] = writes[u]
    <3>1. /\ writes' = Lower(writes, t) /\ reads' = reads /\ writes[t] > 0
          /\ (writes[t] = 1 => reads[t] = 0)
      BY <1>2 DEF ReleaseWriter
    <3> QED BY <1>0, <3>1, Counting DEF TypeOK
  <2>2. Inside(t)' = Inside(t) \/ Inside(t)' = "out"
    BY <1>0, <2>1 DEF Inside
  <2> QED BY <2>1, <2>2, OneMoves
<1>3. CASE DowngradeWriter(t)
  <2>1. /\ writes[t] = 1 /\ writes'[t] = 0 /\ reads'[t] = 1
        /\ \A u \in Tasks \ {t} : writes'[u] = writes[u] /\ reads'[u] = reads[u]
    <3>1. /\ writes[t] = 1 /\ writes' = [writes EXCEPT ![t] = 0]
          /\ reads' = [reads EXCEPT ![t] = 1]
      BY <1>3 DEF DowngradeWriter
    <3> QED BY <1>0, <3>1 DEF TypeOK
  <2>2. Inside(t) = "writing" /\ Inside(t)' = "reading" BY <2>1 DEF Inside
  <2> QED BY <2>1, <2>2, OneMoves
<1> QED BY <1>1, <1>2, <1>3

\* The lock of the code implements the abstract lock, for any number of tasks
\* and any depth of nesting.
THEOREM Refinement == Spec => ImplementsLock
<1>1. Init => Lock!Init
  BY DEF Init, Lock!Init
<1>2. ASSUME IInv, [Next]_vars PROVE [Lock!Next]_AllInside
  <2>1. CASE UNCHANGED vars
    BY <2>1, NobodyMoves DEF vars
  <2>2. ASSUME NEW t \in Tasks,
               EnterRead(t) \/ WaitToRead(t) \/ EnterWrite(t) \/ WaitToWrite(t)
                 \/ TryRead(t) \/ TryWrite(t) \/ Wake(t)
                 \/ ReleaseReader(t) \/ ReleaseWriter(t) \/ DowngradeWriter(t)
        PROVE  [Lock!Next]_AllInside
    <3>1. CASE WaitToRead(t) \/ WaitToWrite(t)
      BY <3>1, NobodyMoves DEF WaitToRead, WaitToWrite
    <3> QED BY <1>2, <2>2, <3>1, EntriesAreAbstract, WakeIsAbstract, ExitsAreAbstract
            DEF TryRead, TryWrite
  <2> QED BY <1>2, <2>1, <2>2 DEF Next
<1>3. AllInside = [t \in Tasks |-> IF writes[t] > 0 THEN "writing"
                                   ELSE IF reads[t] > 0 THEN "reading" ELSE "out"]
  BY DEF AllInside, Inside
<1>4. IInv /\ [Next]_vars
      => [Lock!Next]_[t \in Tasks |-> IF writes[t] > 0 THEN "writing"
                                      ELSE IF reads[t] > 0 THEN "reading" ELSE "out"]
  BY <1>2 DEF AllInside, Inside
<1> QED BY <1>1, <1>4, Invariance, PTL DEF Spec, ImplementsLock, Lock!Spec

=============================================================================

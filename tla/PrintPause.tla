----------------------------- MODULE PrintPause ------------------------------
(***************************************************************************)
(* Pausing and resuming a print: the movement ring that the Move task      *)
(* fills and empties (DDARing, Move::MoveLoop), the one move that GCodes   *)
(* holds for it (MovementState), the file channel and the macro it may be  *)
(* running, and the queue of commands that wait for the moves before them  *)
(* (GCodeQueue).  A pause takes back the moves that have not started and   *)
(* sets the file back to the first of them.                                *)
(*                                                                         *)
(* GCodes runs in the Main task, which has the lower priority: it makes a  *)
(* step only while the Move task sleeps.  A timer can wake the Move task   *)
(* between any two steps of Main.                                          *)
(*                                                                         *)
(* Which moves are too fast to stop after, how long moves take, and which  *)
(* turn out to be no movement at all are left open.  The macros and travel *)
(* moves of a pause and of a resume, which run at a standstill, are left   *)
(* out.                                                                    *)
(***************************************************************************)
EXTENDS Naturals, Sequences, FiniteSets

CONSTANTS
  Prints,      \* the prints: [job |-> kinds of commands, pauses |-> requests]
  Macro,       \* the kinds of the commands of the macro
  Segments,    \* the number of segments of each kind of move
  RingSize,    \* DDAs in the ring
  QueueSize    \* commands that GCodeQueue holds

\* What the constants may be.
PauseAssumption ==
  /\ RingSize \in Nat /\ RingSize > 1
  /\ QueueSize \in Nat \ {0}
  /\ Segments \in [{"line", "long", "arc"} -> Nat \ {0}]
  /\ Macro \in Seq({"line", "code"})
  /\ \A print \in Prints :
       /\ print.job \in Seq({"line", "long", "arc", "code", "macro", "pause"})
       /\ print.pauses \in Nat

VARIABLES
  job,                    \* the file that is printed
  at,                     \* the command the file channel reads next
  ring,                   \* the moves from getPointer to addPointer
  scheduled, completed,   \* scheduledMoves, completedMoves
  ms,                     \* the move that GCodes holds: its command, segmentsLeft,
                          \*   segmentsLeftToStartAt
  fraction,               \* moveFractionToSkip, in segments
  awake,                  \* the Move task has something to do
  queue,                  \* queuedItems
  pauseState,
  deferred,               \* deferredPauseCommandPending is set
  step,                   \* how far DoAsynchronousPause has got
  restore,                \* filePos and proportionDone of the pause restore point
  pausesLeft,             \* pauses that may still be asked for
  done,                   \* the segments and commands that have been executed
  finished                \* the print has ended

vars == <<job, at, ring, scheduled, completed, ms, fraction, awake, queue, pauseState,
          deferred, step, restore, pausesLeft, done, finished>>

(* A command has an address: its place in the file, and its place in the   *)
(* macro called there, or 0 for the command of the file itself.            *)
InMacro(a) == a[2] # 0
Kind(a) == IF InMacro(a) THEN Macro[a[2]] ELSE job[a[1]]
Ended(a) == IF InMacro(a) THEN a[2] > Len(Macro) ELSE a[1] > Len(job)
After(a) == IF InMacro(a) THEN <<a[1], a[2] + 1>> ELSE <<a[1] + 1, 0>>
IsMove(kind) == kind \in DOMAIN Segments

NoPosition == 0      \* noFilePosition
FilePosition(a) == IF InMacro(a) THEN NoPosition ELSE a[1]

\* What the commands of an address are executed as: segments, or a command.
Parts(a) ==
  CASE IsMove(Kind(a)) -> {<<a, s>> : s \in 1 .. Segments[Kind(a)]}
    [] Kind(a) = "code" -> {<<a, 0>>}
    [] Kind(a) = "macro" ->
         UNION {IF Macro[j] = "code" THEN {<<<<a[1], j>>, 0>>}
                ELSE {<<<<a[1], j>>, s>> : s \in 1 .. Segments[Macro[j]]} :
                j \in DOMAIN Macro}
    [] OTHER -> {}

Work == UNION {Parts(<<p, 0>>) : p \in DOMAIN job}

TypeOK ==
  /\ \E print \in Prints : job = print.job /\ pausesLeft \in 0 .. print.pauses
  /\ at[1] \in 1 .. Len(job) + 1 /\ at[2] \in 0 .. Len(Macro) + 1
  /\ Len(ring) < RingSize
  /\ scheduled \in Nat /\ completed \in Nat /\ scheduled = completed + Len(ring)
  /\ ms.left \in 0 .. 3 /\ ms.startAt \in 0 .. 3 /\ fraction \in 0 .. 3
  /\ Len(queue) <= QueueSize
  /\ awake \in BOOLEAN /\ deferred \in BOOLEAN /\ finished \in BOOLEAN
  /\ pauseState \in {"notPaused", "pausing", "paused"}
  /\ step \in {"none", "skipped", "kept", "found", "recorded"}
  /\ restore.pos \in 0 .. Len(job) + 1 /\ restore.done \in 0 .. 3
  /\ done \subseteq Work

Init ==
  /\ \E print \in Prints : job = print.job /\ pausesLeft = print.pauses
  /\ at = <<1, 0>>
  /\ ring = <<>> /\ scheduled = 0 /\ completed = 0
  /\ ms = [cmd |-> <<1, 0>>, left |-> 0, startAt |-> 0] /\ fraction = 0
  /\ awake = FALSE
  /\ queue = <<>>
  /\ pauseState = "notPaused" /\ deferred = FALSE /\ step = "none"
  /\ restore = [pos |-> NoPosition, done |-> 0]
  /\ done = {} /\ finished = FALSE

-----------------------------------------------------------------------------
(* The Move task.                                                          *)

\* Mutant of HasRoom: every slot of the ring is used.
HasRoomForAll == Len(ring) < RingSize

\* The last slot of the ring stays empty.  A move is also refused while those
\* that are not prepared last long enough, which takes two.
HasRoom == Len(ring) < RingSize - 1
MayRefuse == Cardinality({i \in DOMAIN ring : ~ring[i].committed}) >= 2

\* The segment ReadMove takes, counted from the end of the move: the ones that
\* were done before a pause are passed over, but never the last.
SegmentToRead ==
  IF ms.startAt < ms.left /\ ms.left > 1
  THEN IF ms.startAt = 0 THEN 1 ELSE ms.startAt
  ELSE ms.left

NextSegment ==
  [cmd |-> ms.cmd, seg |-> Segments[Kind(ms.cmd)] - SegmentToRead + 1, committed |-> FALSE]

\* ReadMove; the last segment ends with ClearMove.
ReadMove ==
  /\ ms' = [ms EXCEPT !.left = SegmentToRead - 1]
  /\ fraction' = IF SegmentToRead = 1 THEN 0 ELSE fraction

\* DDARing::Spin: retires the first move when it has expired, and prepares the
\* first that is not prepared.
Retired(moves, n) == SubSeq(moves, n + 1, Len(moves))

\* Mutant of Prepared: a move is prepared when another one follows it.
PreparedIfFollowed(moves, n) ==
  [i \in DOMAIN moves |->
     IF n = 1 /\ i < Len(moves) /\ \A k \in 1 .. i - 1 : moves[k].committed
     THEN [moves[i] EXCEPT !.committed = TRUE] ELSE moves[i]]

Prepared(moves, n) ==
  [i \in DOMAIN moves |->
     IF n = 1 /\ ~moves[i].committed /\ \A k \in 1 .. i - 1 : moves[k].committed
     THEN [moves[i] EXCEPT !.committed = TRUE] ELSE moves[i]]

\* Once round the loop of the task: take a segment if there is room for it, let
\* the ring work, and sleep if nothing was taken.
MovePass ==
  \E taken, noMovement \in BOOLEAN, retire, prepare \in {0, 1} :
    LET loaded == IF taken /\ ~noMovement THEN Append(ring, NextSegment) ELSE ring
    IN /\ IF taken
          THEN ms.left # 0 /\ HasRoom /\ ReadMove
          ELSE /\ ms.left = 0 \/ ~HasRoom \/ MayRefuse
               /\ ~noMovement /\ UNCHANGED <<ms, fraction>>
       /\ retire = 1 => Len(loaded) > 0 /\ loaded[1].committed
       /\ ring' = Prepared(Retired(loaded, retire), prepare)
       /\ scheduled' = scheduled + Len(loaded) - Len(ring)
       /\ completed' = completed + retire
       /\ done' = done \cup (IF taken /\ noMovement
                             THEN {<<NextSegment.cmd, NextSegment.seg>>} ELSE {})
                       \cup {<<loaded[i].cmd, loaded[i].seg>> : i \in 1 .. retire}
       /\ awake' = taken
       /\ UNCHANGED <<job, at, queue, pauseState, deferred, step, restore, pausesLeft,
                      finished>>

-----------------------------------------------------------------------------
(* The file channel.                                                       *)

Main == ~awake /\ ~finished

\* Not while paused; while pausing only inside a macro; and not after the macro
\* in which a pause was asked for.
FileRuns ==
  /\ Main /\ step = "none" /\ ~Ended(at)
  /\ pauseState = "notPaused" \/ (pauseState = "pausing" /\ InMacro(at))
  /\ InMacro(at) \/ ~deferred

\* The command before has gone: waitingForSegmentedMoveToGo, when it was a move
\* of several segments.
LastHasGone == ms.left = 0 \/ Segments[Kind(ms.cmd)] = 1

\* G0 to G3.  The pausing channel has the movement lock.  After a pause inside
\* the move the segments that were done are not done again.
FileMove ==
  /\ FileRuns /\ IsMove(Kind(at)) /\ pauseState = "notPaused" /\ ms.left = 0
  /\ LET total == Segments[Kind(at)]
     IN ms' = [cmd |-> at, left |-> total,
               startAt |-> IF total > fraction THEN total - fraction ELSE 0]
  /\ at' = After(at) /\ awake' = TRUE
  /\ UNCHANGED <<job, ring, scheduled, completed, fraction, queue, pauseState, deferred,
                 step, restore, pausesLeft, done, finished>>

\* A command that goes with the moves around it: it is queued while moves are
\* on their way, which must have been taken from GCodes, and executed if not.
FileCode ==
  /\ FileRuns /\ Kind(at) = "code" /\ LastHasGone
  /\ at' = After(at)
  /\ IF scheduled # completed
     THEN /\ ms.left = 0 /\ Len(queue) < QueueSize
          /\ queue' = Append(queue, [cmd |-> at, executeAtMove |-> scheduled])
          /\ UNCHANGED done
     ELSE done' = done \cup {<<at, 0>>} /\ UNCHANGED queue
  /\ UNCHANGED <<job, ring, scheduled, completed, ms, fraction, awake, pauseState,
                 deferred, step, restore, pausesLeft, finished>>

\* M98, and the end of the macro.
FileMacro ==
  /\ \/ FileRuns /\ Kind(at) = "macro" /\ LastHasGone /\ at' = <<at[1], 1>>
     \/ /\ Main /\ step = "none" /\ pauseState # "paused" /\ LastHasGone
        /\ InMacro(at) /\ Ended(at) /\ at' = <<at[1] + 1, 0>>
  /\ UNCHANGED <<job, ring, scheduled, completed, ms, fraction, awake, queue, pauseState,
                 deferred, step, restore, pausesLeft, done, finished>>

\* The queue's channel.
RunQueued ==
  /\ Main /\ step = "none" /\ queue # <<>> /\ Head(queue).executeAtMove <= completed
  /\ done' = done \cup {<<Head(queue).cmd, 0>>} /\ queue' = Tail(queue)
  /\ UNCHANGED <<job, at, ring, scheduled, completed, ms, fraction, awake, pauseState,
                 deferred, step, restore, pausesLeft, finished>>

\* LockMovementSystemAndWaitForStandstill
Standstill ==
  /\ ms.left = 0 /\ ring = <<>>
  /\ queue # <<>> => Head(queue).executeAtMove > completed

\* The end of the file.
FinishPrint ==
  /\ Main /\ step = "none" /\ pauseState = "notPaused" /\ ~deferred
  /\ ~InMacro(at) /\ Ended(at) /\ Standstill
  /\ finished' = TRUE
  /\ UNCHANGED <<job, at, ring, scheduled, completed, ms, fraction, awake, queue,
                 pauseState, deferred, step, restore, pausesLeft, done>>

-----------------------------------------------------------------------------
(* Pausing and resuming.                                                   *)

\* A pause in the file, or the one that was put off until the macro ended
\* (DoSynchronousPause).  The file goes on behind it.
SynchronousPause ==
  /\ Main /\ step = "none" /\ pauseState = "notPaused" /\ ~InMacro(at) /\ Standstill
  /\ IF deferred THEN UNCHANGED at ELSE ~Ended(at) /\ Kind(at) = "pause" /\ at' = After(at)
  /\ restore' = [restore EXCEPT !.pos = at[1]]
  /\ pauseState' = "pausing" /\ deferred' = FALSE
  /\ UNCHANGED <<job, ring, scheduled, completed, ms, fraction, awake, queue, step,
                 pausesLeft, done, finished>>

\* Whether the print can stop after a segment: not inside an arc; nor where it
\* is too fast, which the caller chooses.
CanPauseAfter(move) ==
  Kind(move.cmd) # "arc" \/ move.seg = Segments["arc"]

\* The part of the move of ring[i] that was done in the segments before.
ProportionDone(i) ==
  IF /\ FilePosition(ring[i].cmd) # NoPosition
     /\ FilePosition(ring[i].cmd) = FilePosition(ring[i - 1].cmd)
  THEN ring[i - 1].seg ELSE 0

\* DDARing::PauseMoves: moves that are not prepared are taken out of the ring
\* behind one the print can stop after; the first move always stays.
PauseMoves ==
  \/ \E last \in 1 .. Len(ring) - 1 :
       /\ CanPauseAfter(ring[last]) /\ ~ring[last + 1].committed
       /\ ring' = SubSeq(ring, 1, last)
       /\ scheduled' = scheduled - (Len(ring) - last)
       /\ restore' = [pos |-> FilePosition(ring[last + 1].cmd),
                      done |-> ProportionDone(last + 1)]
       /\ step' = "skipped"
  \/ step' = "kept" /\ UNCHANGED <<ring, scheduled, restore>>

\* M25 from another channel; it is put off while the file runs a macro.
RequestPause ==
  /\ Main /\ step = "none" /\ pauseState = "notPaused" /\ pausesLeft > 0
  /\ pausesLeft' = pausesLeft - 1
  /\ IF InMacro(at) THEN deferred' = TRUE /\ UNCHANGED <<ring, scheduled, restore, step>>
                    ELSE PauseMoves /\ UNCHANGED deferred
  /\ UNCHANGED <<job, at, completed, ms, fraction, awake, queue, pauseState, done,
                 finished>>

\* Mutant of Kept: what waits for the last move of the ring is forgotten too.
KeptBeforeLast(item) == item.executeAtMove < scheduled

\* PurgeEntries: what was queued behind a move that was taken out is forgotten.
Kept(item) == item.executeAtMove <= scheduled

\* The end of DoAsynchronousPause.
GoBackTo(position) ==
  /\ at' = IF position = NoPosition THEN at ELSE <<position, 0>>
  /\ queue' = SelectSeq(queue, Kept)
  /\ pauseState' = "pausing" /\ step' = "none"

ClearMove == ms' = [ms EXCEPT !.left = 0] /\ fraction' = 0

\* GCodes goes back to the first move that was taken out; or to the one it
\* holds; or, when it holds none, to the command that comes next.  The Move task
\* may take the move that GCodes holds between these steps.
PauseStep ==
  /\ Main
  /\ \/ step = "skipped" /\ ClearMove /\ GoBackTo(restore.pos) /\ UNCHANGED restore
     \/ /\ step = "kept" /\ ms.left = 0
        /\ restore' = [pos |-> at[1], done |-> 0]
        /\ GoBackTo(at[1]) /\ UNCHANGED <<ms, fraction>>
     \/ /\ step = "kept" /\ ms.left # 0
        /\ step' = "found" /\ UNCHANGED <<ms, fraction, at, queue, pauseState, restore>>
     \/ /\ step = "found" /\ step' = "recorded"
        /\ restore' = [pos |-> FilePosition(ms.cmd),
                       done |-> Segments[Kind(ms.cmd)] - ms.left]
        /\ UNCHANGED <<ms, fraction, at, queue, pauseState>>
     \/ step = "recorded" /\ ClearMove /\ GoBackTo(restore.pos) /\ UNCHANGED restore
  /\ UNCHANGED <<job, ring, scheduled, completed, awake, deferred, pausesLeft, done,
                 finished>>

\* All moves have ended, and what was queued for them.
Paused ==
  /\ Main /\ step = "none" /\ pauseState = "pausing" /\ Standstill
  /\ pauseState' = "paused"
  /\ UNCHANGED <<job, at, ring, scheduled, completed, ms, fraction, awake, queue, deferred,
                 step, restore, pausesLeft, done, finished>>

\* M24
Resume ==
  /\ Main /\ step = "none" /\ pauseState = "paused"
  /\ pauseState' = "notPaused" /\ fraction' = restore.done
  /\ UNCHANGED <<job, at, ring, scheduled, completed, ms, awake, queue, deferred, step,
                 restore, pausesLeft, done, finished>>

File == FileMove \/ FileCode \/ FileMacro \/ RunQueued \/ FinishPrint
Pause == SynchronousPause \/ RequestPause \/ PauseStep \/ Paused \/ Resume
Next == MovePass \/ File \/ Pause

\* Both tasks get their turns; a pause is asked for or not, and ends with M24
\* or not.
Fairness ==
  /\ WF_vars(MovePass)
  /\ WF_vars(File) /\ WF_vars(SynchronousPause \/ PauseStep \/ Paused)

Spec == Init /\ [][Next]_vars /\ Fairness

-----------------------------------------------------------------------------
(* Properties.                                                             *)

\* A print that ends has done every segment of every move and every command in
\* its file and its macros, whatever pauses there were: what a pause takes back
\* is done after the resume, also when the Move task takes the move that
\* GCodes holds while the pause is being worked out.
NothingIsSkipped == finished => Work \subseteq done

\* A pause that was begun stops the machine.
PauseCompletes == pauseState = "pausing" ~> pauseState = "paused"

=============================================================================

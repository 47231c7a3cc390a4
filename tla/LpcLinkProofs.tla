---------------------------- MODULE LpcLinkProofs ----------------------------
(***************************************************************************)
(* Proofs about LpcLink for any number of versions, pings, statuses,       *)
(* losses, reboots and operations, and for a direction of any capacity.    *)
(* The mirror of the configuration rests on where its last version is: in  *)
(* a frame that nothing behind it undoes, or in the coprocessor.  In the   *)
(* same way the end of heating rests on where the last command to stop is. *)
(***************************************************************************)
EXTENDS LpcLink, FunctionTheorems, SequenceTheorems, TLAPS

\* None of the frames is in the set, and one of the frames of a set is under
\* way with none of another set behind it.
Free(frames, undoing) == \A k \in DOMAIN frames : frames[k] \notin undoing

Pending(frames, wanted, undoing) ==
  \E k \in DOMAIN frames :
    /\ frames[k] \in wanted
    /\ \A l \in DOMAIN frames : l > k => frames[l] \notin undoing

\* The frames that bring a version of an item, and those that undo what the
\* coprocessor knows of it.
Bringing(i, v) == {f \in FramesToLpc : f.type = "config" /\ f.item = i /\ f.version = v}
Undoing(i) ==
  {f \in FramesToLpc : f.type = "configurationReset" \/ (f.type = "config" /\ f.item = i)}

\* An item the host remembers is on its way, or has arrived unless a frame
\* went missing.
Mirrored(i) ==
  \/ Pending(toLpc, Bringing(i, hostConfig[i]), Undoing(i))
  \/ Free(toLpc, Undoing(i)) /\ (mirrorBroken \/ lpcConfig[i] = hostConfig[i])

MirrorKept == online => \A i \in Items : hostConfig[i] > 0 => Mirrored(i)

\* The frames that stop the heater, and the one that starts it.
StopFrames == {f \in FramesToLpc : IsStop(f)}
OnFrames == {Command("on")}

\* A stop is on its way with no on behind it, or has arrived.
StopComing == Pending(toLpc, StopFrames, OnFrames)
Stopped == Free(toLpc, OnFrames) /\ lpcState # "active"

FaultStops == mode = "fault" /\ main # "setOn" /\ ~stopLost => StopComing \/ Stopped

-----------------------------------------------------------------------------
(* Frames behind frames.                                                   *)

\* A queue is free of frames when both its parts are.
LEMMA FreeConcat ==
  ASSUME NEW S, NEW q \in Seq(S), NEW r \in Seq(S), NEW u, Free(q, u), Free(r, u)
  PROVE  Free(q \o r, u)
<1> SUFFICES ASSUME NEW k \in DOMAIN (q \o r) PROVE (q \o r)[k] \notin u
  BY DEF Free
<1>1. CASE k \in 1 .. Len(q)
  BY <1>1 DEF Free
<1>2. CASE k \notin 1 .. Len(q)
  <2>1. k - Len(q) \in DOMAIN r /\ (q \o r)[k] = r[k - Len(q)]
    BY <1>2
  <2>2. QED
    BY <2>1 DEF Free
<1>3. QED
  BY <1>1, <1>2

\* What is pending stays so when frames that undo nothing are sent after it.
LEMMA PendingConcat ==
  ASSUME NEW S, NEW q \in Seq(S), NEW r \in Seq(S), NEW w, NEW u, Pending(q, w, u), Free(r, u)
  PROVE  Pending(q \o r, w, u)
<1>1. PICK k \in DOMAIN q : q[k] \in w /\ \A l \in DOMAIN q : l > k => q[l] \notin u
  BY DEF Pending
<1>2. k \in DOMAIN (q \o r) /\ (q \o r)[k] = q[k]
  OBVIOUS
<1>3. ASSUME NEW l \in DOMAIN (q \o r), l > k PROVE (q \o r)[l] \notin u
  <2>1. CASE l \in 1 .. Len(q)
    BY <1>1, <1>3, <2>1
  <2>2. CASE l \notin 1 .. Len(q)
    <3>1. l - Len(q) \in DOMAIN r /\ (q \o r)[l] = r[l - Len(q)]
      BY <1>3, <2>2
    <3>2. QED
      BY <3>1 DEF Free
  <2>3. QED
    BY <2>1, <2>2
<1>4. QED
  BY <1>1, <1>2, <1>3 DEF Pending

\* What is pending in the frames sent last is pending.
LEMMA PendingBehind ==
  ASSUME NEW S, NEW q \in Seq(S), NEW r \in Seq(S), NEW w, NEW u, Pending(r, w, u)
  PROVE  Pending(q \o r, w, u)
<1>1. PICK k \in DOMAIN r : r[k] \in w /\ \A l \in DOMAIN r : l > k => r[l] \notin u
  BY DEF Pending
<1>2. k + Len(q) \in DOMAIN (q \o r) /\ (q \o r)[k + Len(q)] = r[k]
  OBVIOUS
<1>3. ASSUME NEW l \in DOMAIN (q \o r), l > k + Len(q) PROVE (q \o r)[l] \notin u
  <2>1. l - Len(q) \in DOMAIN r /\ l - Len(q) > k /\ (q \o r)[l] = r[l - Len(q)]
    BY <1>3
  <2>2. QED
    BY <1>1, <2>1
<1>4. QED
  BY <1>1, <1>2, <1>3 DEF Pending

\* What is pending in either part, unless the second undoes it.
LEMMA PendingThrough ==
  ASSUME NEW S, NEW q \in Seq(S), NEW r \in Seq(S), NEW w, NEW u,
         Pending(q, w, u) \/ Pending(r, w, u), Pending(r, w, u) \/ Free(r, u)
  PROVE  Pending(q \o r, w, u)
BY PendingConcat, PendingBehind

\* A queue stays free without its first frame, which was none of the set.
LEMMA FreeTail ==
  ASSUME NEW S, NEW q \in Seq(S), q # <<>>, NEW u, Free(q, u)
  PROVE  Free(Tail(q), u) /\ Head(q) \notin u
<1>1. \A k \in DOMAIN Tail(q) : Tail(q)[k] \notin u
  <2> SUFFICES ASSUME NEW k \in DOMAIN Tail(q) PROVE Tail(q)[k] \notin u
    OBVIOUS
  <2>1. k + 1 \in DOMAIN q /\ Tail(q)[k] = q[k + 1]
    OBVIOUS
  <2>2. QED
    BY <2>1 DEF Free
<1>2. 1 \in DOMAIN q /\ Head(q) = q[1]
  OBVIOUS
<1>3. QED
  BY <1>1, <1>2 DEF Free

\* Without the first frame a frame is still pending, or it was the first and
\* nothing behind it undoes it.
LEMMA PendingTail ==
  ASSUME NEW S, NEW q \in Seq(S), q # <<>>, NEW w, NEW u, Pending(q, w, u)
  PROVE  Pending(Tail(q), w, u) \/ (Head(q) \in w /\ Free(Tail(q), u))
<1>0. /\ DOMAIN q = 1 .. Len(q) /\ Len(q) \in Nat /\ Head(q) = q[1]
      /\ \A l \in DOMAIN Tail(q) : l + 1 \in DOMAIN q /\ l + 1 > 1 /\ Tail(q)[l] = q[l + 1]
  OBVIOUS
<1>1. PICK k \in DOMAIN q : q[k] \in w /\ \A l \in DOMAIN q : l > k => q[l] \notin u
  BY DEF Pending
<1>2. CASE k = 1
  BY <1>0, <1>1, <1>2 DEF Free
<1>3. CASE k # 1
  <2>1. k - 1 \in DOMAIN Tail(q) /\ Tail(q)[k - 1] = q[k]
    BY <1>0, <1>3
  <2>2. ASSUME NEW l \in DOMAIN Tail(q), l > k - 1 PROVE Tail(q)[l] \notin u
    <3>1. l + 1 > k
      BY <1>0, <2>2
    <3>2. QED
      BY <1>0, <1>1, <3>1
  <2>3. QED
    BY <1>1, <2>1, <2>2 DEF Pending
<1>4. QED
  BY <1>2, <1>3

\* A frame alone, free or pending.
LEMMA OneFrame ==
  ASSUME NEW f, NEW u
  PROVE  /\ f \notin u => Free(<<f>>, u)
         /\ \A w : f \in w => Pending(<<f>>, w, u)
<1>1. DOMAIN <<f>> = {1} /\ <<f>>[1] = f
  OBVIOUS
<1>2. f \notin u => Free(<<f>>, u)
  BY <1>1 DEF Free
<1>3. ASSUME NEW w, f \in w PROVE Pending(<<f>>, w, u)
  BY <1>1, <1>3 DEF Pending
<1>4. QED
  BY <1>2, <1>3

\* No frame at all.
LEMMA FreeEmpty == ASSUME NEW u PROVE Free(<<>>, u)
<1>1. DOMAIN <<>> = {}
  BY EmptySeq, LenProperties
<1>2. QED
  BY <1>1, Zenon DEF Free

-----------------------------------------------------------------------------
(* The frames that are sent.                                               *)

\* Every frame the host or the coprocessor builds is one of its direction.
LEMMA Frames ==
  /\ {PingFrame, Reset, Complete} \subseteq FramesToLpc
  /\ \A i \in Items, v \in 1 .. MaxVersion : Config(i, v) \in FramesToLpc
  /\ \A c \in {"on", "off", "suspend", "resetFault"} : Command(c) \in FramesToLpc
  /\ \A flag \in BOOLEAN : Pong(flag) \in FramesToHost
  /\ \A s \in HeaterStates : Status(s) \in FramesToHost
  /\ BadPong \in FramesToHost
BY DEF FramesToLpc, FramesToHost

\* A frame to the host is a pong, good or bad, or a status.
LEMMA HostFrames ==
  ASSUME NEW f \in FramesToHost
  PROVE  \/ f.type = "pong" /\ f.needsConfiguration \in BOOLEAN
         \/ f.type = "badPong"
         \/ f.type = "thermalStatus" /\ f.state \in HeaterStates
BY DEF FramesToHost, Pong, BadPong, Status

\* A frame that brings a version of an item undoes what is known of that item
\* and of no other; no frame but on turns the heater on.
LEMMA ConfigFrame ==
  ASSUME NEW i \in Items, NEW v \in 1 .. MaxVersion
  PROVE  /\ Config(i, v) \in FramesToLpc
         /\ Config(i, v) \in Bringing(i, v)
         /\ \A j : j # i => Config(i, v) \notin Undoing(j)
         /\ Config(i, v) \notin OnFrames
<1>1. Config(i, v) \in FramesToLpc
  BY Frames
<1>2. Config(i, v).type = "config" /\ Config(i, v).item = i /\ Config(i, v).version = v
  BY DEF Config
<1>3. Command("on").type = "heaterCommand"
  BY DEF Command
<1>4. QED
  BY <1>1, <1>2, <1>3 DEF Bringing, Undoing, OnFrames

\* Pings, commands and the end of a configuration undo nothing.
LEMMA PlainFrames ==
  /\ \A i : PingFrame \notin Undoing(i) /\ Complete \notin Undoing(i)
  /\ \A i, c : Command(c) \notin Undoing(i)
  /\ PingFrame \notin OnFrames /\ Complete \notin OnFrames /\ Reset \notin OnFrames
  /\ \A c : c # "on" => Command(c) \notin OnFrames
BY DEF PingFrame, Complete, Command, Reset, Undoing, OnFrames

\* The part of the replay that concerns one item.
LEMMA KnownFrames ==
  ASSUME hostConfig \in [Items -> 0 .. MaxVersion], NEW j
  PROVE  /\ Known(j) \in Seq(FramesToLpc)
         /\ Free(Known(j), OnFrames)
         /\ \A i : i # j => Free(Known(j), Undoing(i))
         /\ j \in Items /\ hostConfig[j] > 0
              => Pending(Known(j), Bringing(j, hostConfig[j]), Undoing(j))
<1>1. CASE j \in Items /\ hostConfig[j] > 0
  <2> DEFINE f == Config(j, hostConfig[j])
  <2>1. Known(j) = <<f>> /\ hostConfig[j] \in 1 .. MaxVersion
    BY <1>1, LinkAssumption DEF Known
  <2>2. /\ f \in FramesToLpc /\ f \in Bringing(j, hostConfig[j]) /\ f \notin OnFrames
        /\ \A i : i # j => f \notin Undoing(i)
    BY <1>1, <2>1, ConfigFrame
  <2> HIDE DEF f
  <2>3. <<f>> \in Seq(FramesToLpc)
    BY <2>2
  <2>4. QED
    BY <2>1, <2>2, <2>3, OneFrame
<1>2. CASE ~(j \in Items /\ hostConfig[j] > 0)
  <2>1. Known(j) = <<>>
    BY <1>2 DEF Known
  <2>2. QED
    BY <1>2, <2>1, FreeEmpty, EmptySeq
<1>3. QED
  BY <1>1, <1>2

\* Two parts of the replay.
LEMMA Joined ==
  ASSUME NEW q \in Seq(FramesToLpc), NEW r \in Seq(FramesToLpc), Free(q, OnFrames), Free(r, OnFrames)
  PROVE  q \o r \in Seq(FramesToLpc) /\ Free(q \o r, OnFrames)
BY FreeConcat, ConcatProperties

\* The replay turns nothing on and brings every item the host remembers.
LEMMA ReplayFrames ==
  ASSUME hostConfig \in [Items -> 0 .. MaxVersion]
  PROVE  /\ Replay \in Seq(FramesToLpc)
         /\ Free(Replay, OnFrames)
         /\ \A i \in Items : hostConfig[i] > 0
              => Pending(Replay, Bringing(i, hostConfig[i]), Undoing(i))
<1> DEFINE r1 == <<Reset>> \o Known("pin")
           r2 == r1 \o Known("thermistor")
           r3 == r2 \o Known("model")
           r4 == r3 \o Known("heater")
<1>0. Replay = r4 \o <<Complete>>
  BY DEF Replay
<1> HIDE DEF r1, r2, r3, r4
<1>1. /\ <<Reset>> \in Seq(FramesToLpc) /\ <<Complete>> \in Seq(FramesToLpc)
      /\ Free(<<Reset>>, OnFrames) /\ Free(<<Complete>>, OnFrames)
      /\ \A i : Free(<<Complete>>, Undoing(i))
  <2>1. Reset \in FramesToLpc /\ Complete \in FramesToLpc
    BY Frames
  <2>2. <<Reset>> \in Seq(FramesToLpc) /\ <<Complete>> \in Seq(FramesToLpc)
    BY <2>1
  <2>3. QED
    BY <2>2, PlainFrames, OneFrame
<1>2. \A j : Known(j) \in Seq(FramesToLpc) /\ Free(Known(j), OnFrames)
  BY KnownFrames
<1>3. r1 \in Seq(FramesToLpc) /\ Free(r1, OnFrames)
  BY <1>1, <1>2, Joined DEF r1
<1>4. r2 \in Seq(FramesToLpc) /\ Free(r2, OnFrames)
  BY <1>2, <1>3, Joined DEF r2
<1>5. r3 \in Seq(FramesToLpc) /\ Free(r3, OnFrames)
  BY <1>2, <1>4, Joined DEF r3
<1>6. r4 \in Seq(FramesToLpc) /\ Free(r4, OnFrames)
  BY <1>2, <1>5, Joined DEF r4
<1>7. Replay \in Seq(FramesToLpc) /\ Free(Replay, OnFrames)
  BY <1>1, <1>6, <1>0, Joined
<1>8. ASSUME NEW i \in Items, hostConfig[i] > 0
      PROVE  Pending(Replay, Bringing(i, hostConfig[i]), Undoing(i))
  <2> DEFINE w == Bringing(i, hostConfig[i])
             u == Undoing(i)
  <2>0. \A j : IF j = i THEN Pending(Known(j), w, u) ELSE Free(Known(j), u)
    BY <1>8, KnownFrames
  <2>00. Free(<<Complete>>, u)
    BY <1>1
  <2> HIDE DEF w, u
  <2>1. ASSUME i = "pin" PROVE Pending(r1, w, u)
    <3>1. Pending(Known("pin"), w, u) \/ Free(Known("pin"), u)
      BY <2>0
    <3>2. i = "pin" => Pending(Known("pin"), w, u)
      BY <2>0
    <3>3. QED
      BY <1>2, <1>1, <2>1, <3>1, <3>2, PendingThrough DEF r1
  <2>2. ASSUME i = "thermistor" \/ Pending(r1, w, u) PROVE Pending(r2, w, u)
    <3>1. Pending(Known("thermistor"), w, u) \/ Free(Known("thermistor"), u)
      BY <2>0
    <3>2. i = "thermistor" => Pending(Known("thermistor"), w, u)
      BY <2>0
    <3>3. QED
      BY <1>2, <1>3, <2>2, <3>1, <3>2, PendingThrough DEF r2
  <2>3. ASSUME i = "model" \/ Pending(r2, w, u) PROVE Pending(r3, w, u)
    <3>1. Pending(Known("model"), w, u) \/ Free(Known("model"), u)
      BY <2>0
    <3>2. i = "model" => Pending(Known("model"), w, u)
      BY <2>0
    <3>3. QED
      BY <1>2, <1>4, <2>3, <3>1, <3>2, PendingThrough DEF r3
  <2>4. ASSUME i = "heater" \/ Pending(r3, w, u) PROVE Pending(r4, w, u)
    <3>1. Pending(Known("heater"), w, u) \/ Free(Known("heater"), u)
      BY <2>0
    <3>2. i = "heater" => Pending(Known("heater"), w, u)
      BY <2>0
    <3>3. QED
      BY <1>2, <1>5, <2>4, <3>1, <3>2, PendingThrough DEF r4
  <2>5. Pending(r4, w, u)
    BY <2>1, <2>2, <2>3, <2>4, LinkAssumption
  <2>6. Pending(Replay, w, u)
    BY <1>1, <1>6, <1>0, <2>00, <2>5, PendingConcat
  <2>7. QED
    BY <2>6 DEF w, u
<1>9. QED
  BY <1>7, <1>8

\* What SwitchOn sends brings the model and the heater and undoes nothing else.
LEMMA OnSequence ==
  ASSUME NEW m \in 1 .. MaxVersion, NEW v \in 1 .. MaxVersion,
         NEW frames, frames = <<Config("model", m), Config("heater", v), Command("on")>>
  PROVE  /\ frames \in Seq(FramesToLpc)
         /\ Pending(frames, Bringing("model", m), Undoing("model"))
         /\ Pending(frames, Bringing("heater", v), Undoing("heater"))
         /\ \A j : j \notin {"model", "heater"} => Free(frames, Undoing(j))
<1> DEFINE f == Config("model", m)
           g == Config("heater", v)
           h == Command("on")
<1>1. /\ f \in FramesToLpc /\ f \in Bringing("model", m) /\ \A j : j # "model" => f \notin Undoing(j)
      /\ g \in FramesToLpc /\ g \in Bringing("heater", v) /\ \A j : j # "heater" => g \notin Undoing(j)
  BY ConfigFrame, LinkAssumption
<1>2. h \in FramesToLpc /\ \A j : h \notin Undoing(j)
  BY Frames, PlainFrames
<1>3. frames = <<f, g, h>>
  OBVIOUS
<1> HIDE DEF f, g, h
<1>4. frames \in Seq(FramesToLpc) /\ DOMAIN frames = 1 .. 3
  BY <1>1, <1>2, <1>3
<1>5. frames[1] = f /\ frames[2] = g /\ frames[3] = h
  BY <1>3
<1>6. Pending(frames, Bringing("model", m), Undoing("model"))
  BY <1>1, <1>2, <1>4, <1>5 DEF Pending
<1>7. Pending(frames, Bringing("heater", v), Undoing("heater"))
  BY <1>1, <1>2, <1>4, <1>5 DEF Pending
<1>8. ASSUME NEW j, j \notin {"model", "heater"} PROVE Free(frames, Undoing(j))
  BY <1>1, <1>2, <1>4, <1>5, <1>8 DEF Free
<1>9. QED
  BY <1>4, <1>6, <1>7, <1>8

-----------------------------------------------------------------------------
(* What each kind of step does to the frames under way.                    *)

\* Nothing is sent or received.
LEMMA Quiet ==
  ASSUME FramesTyped, UNCHANGED <<toLpc, toHost>>
  PROVE  FramesTyped'
BY DEF FramesTyped

\* Frames are sent to the coprocessor.
LEMMA Sending ==
  ASSUME FramesTyped, NEW frames \in Seq(FramesToLpc), Transmit(frames), UNCHANGED toHost
  PROVE  FramesTyped'
BY ConcatProperties DEF FramesTyped, Transmit

\* A frame to the coprocessor is received or lost.
LEMMA Leaving ==
  ASSUME FramesTyped, toLpc # <<>>, toLpc' = Tail(toLpc), UNCHANGED toHost
  PROVE  FramesTyped'
BY HeadTailProperties DEF FramesTyped

\* A frame to the host is received or lost.
LEMMA Arriving ==
  ASSUME FramesTyped, toHost # <<>>, toHost' = Tail(toHost), UNCHANGED toLpc
  PROVE  FramesTyped'
BY HeadTailProperties DEF FramesTyped

\* A frame to the host is received and the configuration replayed.
LEMMA Answering ==
  ASSUME FramesTyped, toHost # <<>>, toHost' = Tail(toHost),
         NEW frames \in Seq(FramesToLpc), Transmit(frames)
  PROVE  FramesTyped'
<1>1. toHost' \in Seq(FramesToHost)
  BY HeadTailProperties DEF FramesTyped
<1>2. toLpc' \in Seq(FramesToLpc)
  BY ConcatProperties DEF FramesTyped, Transmit
<1>3. QED
  BY <1>1, <1>2 DEF FramesTyped

\* The coprocessor sends a frame.
LEMMA Reporting ==
  ASSUME FramesTyped, NEW f \in FramesToHost, toHost' = Append(toHost, f), UNCHANGED toLpc
  PROVE  FramesTyped'
BY AppendProperties DEF FramesTyped

\* A command is sent, or nothing is.
LEMMA Commanding ==
  ASSUME NEW c \in {"on", "off", "suspend", "resetFault"}, CommandHeater(c)
  PROVE  /\ <<Command(c)>> \in Seq(FramesToLpc)
         /\ \A i : Free(<<Command(c)>>, Undoing(i))
         /\ Transmit(<<Command(c)>>) \/ UNCHANGED toLpc
<1>1. Command(c) \in FramesToLpc
  BY Frames
<1>2. Transmit(<<Command(c)>>) \/ UNCHANGED toLpc
  BY DEF CommandHeater
<1> DEFINE f == Command(c)
<1>3. \A i : f \notin Undoing(i)
  BY PlainFrames
<1> HIDE DEF f
<1>4. <<f>> \in Seq(FramesToLpc)
  BY <1>1 DEF f
<1>5. \A i : Free(<<f>>, Undoing(i))
  BY <1>3, OneFrame
<1>6. QED
  BY <1>2, <1>4, <1>5 DEF f

-----------------------------------------------------------------------------
(* The mirror of the configuration, step by step.                          *)

\* Frames are sent that bring what has changed and do not undo the rest, or
\* the host is offline.
LEMMA MirrorSending ==
  ASSUME FramesTyped, MirrorKept, NEW frames \in Seq(FramesToLpc), online => Transmit(frames),
         UNCHANGED <<online, lpcConfig, mirrorBroken>>,
         \A i \in Items :
           \/ hostConfig'[i] = hostConfig[i] /\ Free(frames, Undoing(i))
           \/ Pending(frames, Bringing(i, hostConfig'[i]), Undoing(i))
           \/ ~(hostConfig'[i] > 0)
  PROVE  MirrorKept'
<1> SUFFICES ASSUME online, NEW i \in Items, hostConfig'[i] > 0 PROVE Mirrored(i)'
  BY DEF MirrorKept
<1>1. toLpc \in Seq(FramesToLpc) /\ toLpc' = toLpc \o frames
  BY DEF FramesTyped, Transmit
<1>2. CASE Pending(frames, Bringing(i, hostConfig'[i]), Undoing(i))
  <2>1. Pending(toLpc', Bringing(i, hostConfig'[i]), Undoing(i))
    BY <1>1, <1>2, PendingBehind
  <2>2. QED
    BY <2>1 DEF Mirrored
<1>3. CASE hostConfig'[i] = hostConfig[i] /\ Free(frames, Undoing(i))
  <2>1. Mirrored(i)
    BY <1>3 DEF MirrorKept
  <2>2. CASE Pending(toLpc, Bringing(i, hostConfig[i]), Undoing(i))
    <3>1. Pending(toLpc', Bringing(i, hostConfig[i]), Undoing(i))
      BY <1>1, <1>3, <2>2, PendingConcat
    <3>2. QED
      BY <1>3, <3>1 DEF Mirrored
  <2>3. CASE Free(toLpc, Undoing(i)) /\ (mirrorBroken \/ lpcConfig[i] = hostConfig[i])
    <3>1. Free(toLpc', Undoing(i))
      BY <1>1, <1>3, <2>3, FreeConcat
    <3>2. QED
      BY <1>3, <2>3, <3>1 DEF Mirrored
  <2>4. QED
    BY <2>1, <2>2, <2>3 DEF Mirrored
<1>4. QED
  BY <1>2, <1>3

\* A frame that leaves may have carried a version; whoever took it away has
\* stored the version or marked the loss.
LEMMA MirrorLeaving ==
  ASSUME FramesTyped, MirrorKept, toLpc # <<>>, toLpc' = Tail(toLpc), UNCHANGED <<online, hostConfig>>,
         mirrorBroken => mirrorBroken',
         \A i \in Items :
           IF Head(toLpc).type = "config" /\ Head(toLpc).item = i
           THEN mirrorBroken' \/ lpcConfig'[i] = Head(toLpc).version
           ELSE lpcConfig'[i] = lpcConfig[i]
  PROVE  MirrorKept'
<1> SUFFICES ASSUME online, NEW i \in Items, hostConfig[i] > 0 PROVE Mirrored(i)'
  BY DEF MirrorKept
<1>1. Mirrored(i) /\ toLpc \in Seq(FramesToLpc) /\ Head(toLpc) \in FramesToLpc
  BY HeadTailProperties DEF MirrorKept, FramesTyped
<1>2. CASE Pending(toLpc, Bringing(i, hostConfig[i]), Undoing(i))
  <2>1. \/ Pending(Tail(toLpc), Bringing(i, hostConfig[i]), Undoing(i))
        \/ Head(toLpc) \in Bringing(i, hostConfig[i]) /\ Free(Tail(toLpc), Undoing(i))
    BY <1>1, <1>2, PendingTail
  <2>2. Head(toLpc) \in Bringing(i, hostConfig[i])
          => Head(toLpc).type = "config" /\ Head(toLpc).item = i /\ Head(toLpc).version = hostConfig[i]
    BY DEF Bringing
  <2>3. QED
    BY <2>1, <2>2 DEF Mirrored
<1>3. CASE Free(toLpc, Undoing(i)) /\ (mirrorBroken \/ lpcConfig[i] = hostConfig[i])
  <2>1. Free(Tail(toLpc), Undoing(i)) /\ Head(toLpc) \notin Undoing(i)
    BY <1>1, <1>3, FreeTail
  <2>2. ~(Head(toLpc).type = "config" /\ Head(toLpc).item = i)
    BY <1>1, <2>1 DEF Undoing
  <2>3. QED
    BY <1>3, <2>1, <2>2 DEF Mirrored
<1>4. QED
  BY <1>1, <1>2, <1>3 DEF Mirrored

\* A configurationReset at the head: every item is coming behind it.
LEMMA MirrorReset ==
  ASSUME FramesTyped, MirrorKept, toLpc # <<>>, Head(toLpc) = Reset,
         toLpc' = Tail(toLpc), UNCHANGED <<online, hostConfig>>
  PROVE  MirrorKept'
<1> SUFFICES ASSUME online, NEW i \in Items, hostConfig[i] > 0 PROVE Mirrored(i)'
  BY DEF MirrorKept
<1>1. Mirrored(i) /\ toLpc \in Seq(FramesToLpc)
  BY DEF MirrorKept, FramesTyped
<1>2. Reset \in Undoing(i) /\ Reset \notin Bringing(i, hostConfig[i])
  BY Frames DEF Reset, Undoing, Bringing
<1>3. Pending(toLpc, Bringing(i, hostConfig[i]), Undoing(i))
  BY <1>1, <1>2, FreeTail DEF Mirrored
<1>4. Pending(Tail(toLpc), Bringing(i, hostConfig[i]), Undoing(i))
  BY <1>1, <1>2, <1>3, PendingTail
<1>5. QED
  BY <1>4 DEF Mirrored

\* Only what the mirror does not depend on changes, or the host goes offline.
LEMMA MirrorQuiet ==
  ASSUME MirrorKept, UNCHANGED toLpc, online' => online,
         \A i \in Items : hostConfig'[i] > 0 => hostConfig'[i] = hostConfig[i],
         \/ UNCHANGED lpcConfig /\ (mirrorBroken => mirrorBroken')
         \/ mirrorBroken'
  PROVE  MirrorKept'
<1> SUFFICES ASSUME online', NEW i \in Items, hostConfig'[i] > 0 PROVE Mirrored(i)'
  BY DEF MirrorKept
<1>1. Mirrored(i) /\ hostConfig'[i] = hostConfig[i]
  BY DEF MirrorKept
<1>2. QED
  BY <1>1 DEF Mirrored

\* What a command records is a flag.
LEMMA CommandFlags ==
  ASSUME NEW c, CommandHeater(c), stopSent \in BOOLEAN, stopLost \in BOOLEAN
  PROVE  stopSent' \in BOOLEAN /\ stopLost' \in BOOLEAN
<1>1. (c \in Stopping) \in BOOLEAN /\ FALSE \in BOOLEAN
  OBVIOUS
<1>2. UNCHANGED <<stopSent, stopLost>> \/ (stopSent' = (c \in Stopping) /\ stopLost' = FALSE)
  BY Zenon DEF CommandHeater, stops
<1>3. QED
  BY <1>1, <1>2, Zenon

\* A command to the heater changes nothing but the frames under way.
LEMMA CommandStep ==
  ASSUME FramesTyped, MirrorKept, NEW c \in {"on", "off", "suspend", "resetFault"}, CommandHeater(c),
         UNCHANGED <<toHost, online, lpcConfig, mirrorBroken>>,
         \A i \in Items : hostConfig'[i] > 0 => hostConfig'[i] = hostConfig[i]
  PROVE  FramesTyped' /\ MirrorKept'
<1> DEFINE frames == <<Command(c)>>
<1>1. /\ frames \in Seq(FramesToLpc) /\ \A i : Free(frames, Undoing(i))
      /\ Transmit(frames) \/ UNCHANGED toLpc
  BY Commanding
<1> HIDE DEF frames
<1>2. CASE Transmit(frames)
  BY <1>1, <1>2, Sending, MirrorSending
<1>3. CASE UNCHANGED toLpc
  BY <1>3, Quiet, MirrorQuiet
<1>4. QED
  BY <1>1, <1>2, <1>3

-----------------------------------------------------------------------------
\* The inductive invariant: types and mirror.
IInv == FlagsTyped /\ ValuesTyped /\ FramesTyped /\ MirrorKept

\* The inductive invariant holds of every behaviour.
THEOREM Invariance == Spec => []IInv
<1>1. Init => IInv
  <2> SUFFICES ASSUME Init PROVE IInv
    OBVIOUS
  <2>1. FlagsTyped
    BY DEF Init, FlagsTyped
  <2>2. ValuesTyped
    BY LinkAssumption DEF Init, ValuesTyped, Unset, HeaterStates, Modes, NoStatus, Places
  <2>3. FramesTyped
    <3>1. <<PingFrame>> \in Seq(FramesToLpc) /\ <<>> \in Seq(FramesToHost)
      BY Frames, EmptySeq
    <3>2. QED
      BY <3>1 DEF Init, FramesTyped
  <2>4. MirrorKept
    BY DEF Init, MirrorKept
  <2>5. QED
    BY <2>1, <2>2, <2>3, <2>4 DEF IInv
<1>2. IInv /\ [Next]_vars => IInv'
  <2> SUFFICES ASSUME IInv, [Next]_vars PROVE IInv'
    OBVIOUS
  <2>1. FlagsTyped /\ ValuesTyped /\ FramesTyped /\ MirrorKept
    BY DEF IInv
  <2> USE <2>1, LinkAssumption DEF host, lpc, overdue, budgets, stops, ValuesTyped, HeaterStates, Modes, NoStatus, Places
  <2>2. CASE SendPing
    <3>1. PingFrame \in FramesToLpc /\ \A i : Free(<<PingFrame>>, Undoing(i))
      BY Frames, PlainFrames, OneFrame
    <3>2. <<PingFrame>> \in Seq(FramesToLpc)
      BY <3>1
    <3>3. FlagsTyped'
      BY <2>2 DEF SendPing, FlagsTyped
    <3>4. ValuesTyped'
      BY <2>2 DEF SendPing
    <3>5. FramesTyped'
      BY <2>2, <3>2, Sending DEF SendPing
    <3>6. MirrorKept'
      BY <2>2, <3>1, <3>2, MirrorSending DEF SendPing
    <3>7. QED
      BY <3>3, <3>4, <3>5, <3>6 DEF IInv
  <2>3. CASE AcceptPong
    <3>1. /\ Replay \in Seq(FramesToLpc)
          /\ \A i \in Items : hostConfig[i] > 0
               => Pending(Replay, Bringing(i, hostConfig[i]), Undoing(i))
      BY ReplayFrames
    <3>2. ASSUME Transmit(Replay) PROVE FramesTyped' /\ MirrorKept'
      <4>1. FramesTyped'
        BY <2>3, <3>1, <3>2, Answering DEF AcceptPong
      <4>2. ASSUME NEW i \in Items, hostConfig[i] > 0
            PROVE  Pending(toLpc', Bringing(i, hostConfig[i]), Undoing(i))
        BY <3>1, <3>2, <4>2, PendingBehind DEF FramesTyped, Transmit
      <4>3. MirrorKept'
        BY <2>3, <4>2 DEF AcceptPong, MirrorKept, Mirrored
      <4>4. QED
        BY <4>1, <4>3
    <3>3. ASSUME UNCHANGED toLpc, online PROVE FramesTyped' /\ MirrorKept'
      BY <2>3, <3>3, Arriving, MirrorQuiet DEF AcceptPong
    <3>4. FlagsTyped'
      BY <2>3 DEF AcceptPong, FlagsTyped
    <3>5. ValuesTyped'
      BY <2>3 DEF AcceptPong
    <3>6. FramesTyped'
      BY <2>3, <3>2, <3>3 DEF AcceptPong
    <3>7. MirrorKept'
      BY <2>3, <3>2, <3>3 DEF AcceptPong
    <3>8. QED
      BY <3>4, <3>5, <3>6, <3>7 DEF IInv
  <2>4. CASE RefusePong
    <3>1. FlagsTyped'
      BY <2>4 DEF RefusePong, FlagsTyped
    <3>2. ValuesTyped'
      BY <2>4 DEF RefusePong
    <3>3. FramesTyped'
      BY <2>4, Arriving DEF RefusePong
    <3>4. MirrorKept'
      BY <2>4 DEF RefusePong, MirrorKept
    <3>5. QED
      BY <3>1, <3>2, <3>3, <3>4 DEF IInv
  <2>5. CASE HandleThermalStatus
    <3>1. FlagsTyped'
      BY <2>5 DEF HandleThermalStatus, FlagsTyped
    <3>2. ValuesTyped'
      <4>1. Head(toHost) \in FramesToHost /\ Head(toHost).type = "thermalStatus"
        BY <2>5, HeadTailProperties DEF HandleThermalStatus, FramesTyped
      <4>2. Head(toHost).state \in HeaterStates
        BY <4>1, HostFrames
      <4>3. QED
        BY <2>5, <4>2 DEF HandleThermalStatus
    <3>3. FramesTyped'
      BY <2>5, Arriving DEF HandleThermalStatus
    <3>4. MirrorKept'
      BY <2>5, MirrorQuiet DEF HandleThermalStatus
    <3>5. QED
      BY <3>1, <3>2, <3>3, <3>4 DEF IInv
  <2>6. CASE PongTimeout
    <3>1. FlagsTyped'
      BY <2>6 DEF PongTimeout, FlagsTyped
    <3>2. ValuesTyped'
      BY <2>6 DEF PongTimeout
    <3>3. FramesTyped'
      BY <2>6, Quiet DEF PongTimeout
    <3>4. MirrorKept'
      BY <2>6, MirrorQuiet DEF PongTimeout
    <3>5. QED
      BY <3>1, <3>2, <3>3, <3>4 DEF IInv
  <2>7. CASE StatusTimeout
    <3>1. FlagsTyped'
      BY <2>7 DEF StatusTimeout, FlagsTyped
    <3>2. ValuesTyped'
      BY <2>7 DEF StatusTimeout
    <3>3. FramesTyped'
      BY <2>7, Quiet DEF StatusTimeout
    <3>4. MirrorKept'
      BY <2>7, MirrorQuiet DEF StatusTimeout
    <3>5. QED
      BY <3>1, <3>2, <3>3, <3>4 DEF IInv
  <2>8. ASSUME NEW i \in Items, NEW v \in 1 .. MaxVersion, ConfigureItem(i, v) PROVE IInv'
    <3> DEFINE frames == <<Config(i, v)>>
    <3>1. /\ Config(i, v) \in FramesToLpc /\ Config(i, v) \in Bringing(i, v)
          /\ \A j : j # i => Config(i, v) \notin Undoing(j)
      BY ConfigFrame
    <3>2. /\ frames \in Seq(FramesToLpc)
          /\ Pending(frames, Bringing(i, v), Undoing(i))
          /\ \A j : j # i => Free(frames, Undoing(j))
      BY <3>1, OneFrame
    <3>3. /\ online => Transmit(frames)
          /\ ~online => UNCHANGED toLpc
          /\ hostConfig' = [hostConfig EXCEPT ![i] = v]
      BY <2>8 DEF ConfigureItem
    <3> HIDE DEF frames
    <3>4. FlagsTyped'
      BY <2>8 DEF ConfigureItem, StartOperation, FlagsTyped
    <3>5. ValuesTyped'
      BY <2>8 DEF ConfigureItem, StartOperation
    <3>6. FramesTyped'
      BY <2>8, <3>2, <3>3, Sending, Quiet DEF ConfigureItem
    <3>7. \A j \in Items :
            \/ hostConfig'[j] = hostConfig[j] /\ Free(frames, Undoing(j))
            \/ Pending(frames, Bringing(j, hostConfig'[j]), Undoing(j))
      <4> SUFFICES ASSUME NEW j \in Items
                   PROVE  \/ hostConfig'[j] = hostConfig[j] /\ Free(frames, Undoing(j))
                          \/ Pending(frames, Bringing(j, hostConfig'[j]), Undoing(j))
        OBVIOUS
      <4>1. hostConfig'[j] = IF j = i THEN v ELSE hostConfig[j]
        BY <3>3
      <4>2. QED
        BY <3>2, <4>1
    <3>8. MirrorKept'
      BY <2>8, <3>2, <3>3, <3>7, MirrorSending DEF ConfigureItem
    <3>9. QED
      BY <3>4, <3>5, <3>6, <3>8 DEF IInv
  <2>9. CASE UnregisterThermistor
    <3>1. FramesTyped' /\ MirrorKept'
      BY <2>9, CommandStep DEF UnregisterThermistor
    <3>2. FlagsTyped'
      BY <2>9, CommandFlags DEF UnregisterThermistor, StartOperation, FlagsTyped
    <3>3. ValuesTyped'
      BY <2>9 DEF UnregisterThermistor, StartOperation, CommandHeater
    <3>4. FramesTyped'
      BY <3>1
    <3>5. MirrorKept'
      BY <3>1
    <3>6. QED
      BY <3>2, <3>3, <3>4, <3>5 DEF IInv
  <2>10. CASE StartSwitchOn
    <3>1. FlagsTyped'
      BY <2>10 DEF StartSwitchOn, StartOperation, FlagsTyped
    <3>2. ValuesTyped'
      BY <2>10 DEF StartSwitchOn, StartOperation
    <3>3. FramesTyped'
      BY <2>10, Quiet DEF StartSwitchOn
    <3>4. MirrorKept'
      BY <2>10, MirrorQuiet DEF StartSwitchOn
    <3>5. QED
      BY <3>1, <3>2, <3>3, <3>4 DEF IInv
  <2>11. CASE StartSuspend
    <3>1. FlagsTyped'
      BY <2>11 DEF StartSuspend, StartOperation, FlagsTyped
    <3>2. ValuesTyped'
      BY <2>11 DEF StartSuspend, StartOperation
    <3>3. FramesTyped'
      BY <2>11, Quiet DEF StartSuspend
    <3>4. MirrorKept'
      BY <2>11, MirrorQuiet DEF StartSuspend
    <3>5. QED
      BY <3>1, <3>2, <3>3, <3>4 DEF IInv
  <2>12. CASE SwitchOff
    <3>1. FramesTyped' /\ MirrorKept'
      BY <2>12, CommandStep DEF SwitchOff
    <3>2. FlagsTyped'
      BY <2>12, CommandFlags DEF SwitchOff, StartOperation, FlagsTyped
    <3>3. ValuesTyped'
      BY <2>12 DEF SwitchOff, StartOperation, CommandHeater
    <3>4. FramesTyped'
      BY <3>1
    <3>5. MirrorKept'
      BY <3>1
    <3>6. QED
      BY <3>2, <3>3, <3>4, <3>5 DEF IInv
  <2>13. CASE ResetFault
    <3>1. FramesTyped' /\ MirrorKept'
      BY <2>13, CommandStep DEF ResetFault
    <3>2. FlagsTyped'
      BY <2>13, CommandFlags DEF ResetFault, StartOperation, FlagsTyped
    <3>3. ValuesTyped'
      BY <2>13 DEF ResetFault, StartOperation, CommandHeater
    <3>4. FramesTyped'
      BY <3>1
    <3>5. MirrorKept'
      BY <3>1
    <3>6. QED
      BY <3>2, <3>3, <3>4, <3>5 DEF IInv
  <2>14. ASSUME NEW m \in 1 .. MaxVersion, NEW v \in 1 .. MaxVersion, SendOn(m, v) PROVE IInv'
    <3> DEFINE frames == <<Config("model", m), Config("heater", v), Command("on")>>
    <3>1. /\ frames \in Seq(FramesToLpc)
          /\ Pending(frames, Bringing("model", m), Undoing("model"))
          /\ Pending(frames, Bringing("heater", v), Undoing("heater"))
          /\ \A j : j \notin {"model", "heater"} => Free(frames, Undoing(j))
      BY OnSequence
    <3>2. Transmit(frames)
      BY <2>14 DEF SendOn
    <3>3. \A j \in Items :
            hostConfig'[j] = IF j = "heater" THEN v ELSE IF j = "model" THEN m ELSE hostConfig[j]
      BY <2>14 DEF SendOn
    <3> HIDE DEF frames
    <3>4. FlagsTyped'
      BY <2>14 DEF SendOn, FlagsTyped
    <3>5. ValuesTyped'
      BY <2>14 DEF SendOn
    <3>6. FramesTyped'
      BY <2>14, <3>1, <3>2, Sending DEF SendOn
    <3>7. ASSUME NEW j \in Items
          PROVE  \/ hostConfig'[j] = hostConfig[j] /\ Free(frames, Undoing(j))
                 \/ Pending(frames, Bringing(j, hostConfig'[j]), Undoing(j))
      BY <3>1, <3>3
    <3>8. MirrorKept'
      BY <2>14, <3>1, <3>2, <3>7, MirrorSending DEF SendOn
    <3>9. QED
      BY <3>4, <3>5, <3>6, <3>8 DEF IInv
  <2>15. CASE SendSuspend
    <3>1. FramesTyped' /\ MirrorKept'
      BY <2>15, CommandStep DEF SendSuspend
    <3>2. FlagsTyped'
      BY <2>15, CommandFlags DEF SendSuspend, StartOperation, FlagsTyped
    <3>3. ValuesTyped'
      BY <2>15 DEF SendSuspend, StartOperation, CommandHeater
    <3>4. FramesTyped'
      BY <3>1
    <3>5. MirrorKept'
      BY <3>1
    <3>6. QED
      BY <3>2, <3>3, <3>4, <3>5 DEF IInv
  <2>16. CASE SetMode
    <3>1. FlagsTyped'
      BY <2>16 DEF SetMode, FlagsTyped
    <3>2. ValuesTyped'
      BY <2>16 DEF SetMode
    <3>3. FramesTyped'
      BY <2>16, Quiet DEF SetMode
    <3>4. MirrorKept'
      BY <2>16, MirrorQuiet DEF SetMode
    <3>5. QED
      BY <3>1, <3>2, <3>3, <3>4 DEF IInv
  <2>17. CASE HeaterSpin
    <3>1. UNCHANGED <<toLpc, stops>> \/ CommandHeater("off")
      BY <2>17 DEF HeaterSpin, RaiseFault
    <3>2. ASSUME CommandHeater("off") PROVE FramesTyped' /\ MirrorKept'
      BY <2>17, <3>2, CommandStep DEF HeaterSpin
    <3>3. ASSUME UNCHANGED <<toLpc, stops>> PROVE FramesTyped' /\ MirrorKept'
      BY <2>17, <3>3, Quiet, MirrorQuiet DEF HeaterSpin
    <3>4. FlagsTyped'
      BY <2>17, <3>1, CommandFlags DEF HeaterSpin, FlagsTyped
    <3>5. ValuesTyped'
      BY <2>17 DEF HeaterSpin, RaiseFault, CommandHeater
    <3>6. FramesTyped'
      BY <3>1, <3>2, <3>3
    <3>7. MirrorKept'
      BY <3>1, <3>2, <3>3
    <3>8. QED
      BY <3>4, <3>5, <3>6, <3>7 DEF IInv
  <2>18. CASE LpcPing
    <3>1. /\ toLpc # <<>> /\ Head(toLpc).type # "config" /\ toLpc' = Tail(toLpc)
          /\ Pong(needsConfiguration) \in FramesToHost
      BY <2>18, Frames DEF LpcPing, Receive, PingFrame, FlagsTyped
    <3>2. FlagsTyped'
      BY <2>18 DEF LpcPing, Receive, FlagsTyped
    <3>3. ValuesTyped'
      BY <2>18 DEF LpcPing, Receive
    <3>4. toLpc' \in Seq(FramesToLpc)
      BY <3>1, HeadTailProperties DEF FramesTyped
    <3>5. toHost' \in Seq(FramesToHost)
      BY <2>18, <3>1, AppendProperties DEF LpcPing, FramesTyped
    <3>6. FramesTyped'
      BY <3>4, <3>5 DEF FramesTyped
    <3>7. MirrorKept'
      BY <2>18, <3>1, MirrorLeaving DEF LpcPing
    <3>8. QED
      BY <3>2, <3>3, <3>6, <3>7 DEF IInv
  <2>19. CASE LpcReset
    <3>1. /\ toLpc # <<>> /\ Head(toLpc) = Reset /\ toLpc' = Tail(toLpc)
      BY <2>19 DEF LpcReset, Receive
    <3>2. FlagsTyped'
      BY <2>19 DEF LpcReset, Receive, Unset, FlagsTyped
    <3>3. ValuesTyped'
      BY <2>19 DEF LpcReset, Receive, Unset
    <3>4. FramesTyped'
      BY <2>19, <3>1, Leaving DEF LpcReset
    <3>5. MirrorKept'
      BY <2>19, <3>1, MirrorReset DEF LpcReset
    <3>6. QED
      BY <3>2, <3>3, <3>4, <3>5 DEF IInv
  <2>20. CASE LpcConfigure
    <3>1. PICK i \in Items, v \in 1 .. MaxVersion :
        Receive(Config(i, v)) /\ lpcConfig' = [lpcConfig EXCEPT ![i] = v]
      BY <2>20 DEF LpcConfigure
    <3>2. /\ toLpc # <<>> /\ toLpc' = Tail(toLpc)
          /\ Head(toLpc).type = "config" /\ Head(toLpc).item = i /\ Head(toLpc).version = v
      <4>1. toLpc # <<>> /\ toLpc' = Tail(toLpc) /\ Head(toLpc) = Config(i, v)
        BY <3>1 DEF Receive
      <4>2. Config(i, v).type = "config" /\ Config(i, v).item = i /\ Config(i, v).version = v
        BY DEF Config
      <4>3. QED
        BY <4>1, <4>2
    <3>3. \A j \in Items : lpcConfig'[j] = IF j = i THEN v ELSE lpcConfig[j]
      BY <3>1
    <3>4. FlagsTyped'
      BY <2>20 DEF LpcConfigure, Receive, FlagsTyped
    <3>5. ValuesTyped'
      <4>1. lpcConfig' \in [Items -> 0 .. MaxVersion]
        BY <3>1, <3>3
      <4>2. UNCHANGED <<hostConfig, status, mode, lpcState, main, lossesLeft, rebootsLeft, operationsLeft>>
        BY <2>20 DEF LpcConfigure
      <4>3. QED
        BY <4>1, <4>2
    <3>6. FramesTyped'
      BY <2>20, <3>2, Leaving DEF LpcConfigure
    <3>7. MirrorKept'
      BY <2>20, <3>2, <3>3, MirrorLeaving DEF LpcConfigure
    <3>8. QED
      BY <3>4, <3>5, <3>6, <3>7 DEF IInv
  <2>21. CASE LpcComplete
    <3>1. /\ toLpc # <<>> /\ Head(toLpc).type # "config" /\ toLpc' = Tail(toLpc)
      BY <2>21 DEF LpcComplete, Receive, Complete
    <3>2. FlagsTyped'
      BY <2>21 DEF LpcComplete, Receive, FlagsTyped
    <3>3. ValuesTyped'
      BY <2>21 DEF LpcComplete, Receive
    <3>4. FramesTyped'
      BY <2>21, <3>1, Leaving DEF LpcComplete
    <3>5. MirrorKept'
      BY <2>21, <3>1, MirrorLeaving DEF LpcComplete
    <3>6. QED
      BY <3>2, <3>3, <3>4, <3>5 DEF IInv
  <2>22. CASE LpcCommand
    <3>1. /\ toLpc # <<>> /\ Head(toLpc).type # "config" /\ toLpc' = Tail(toLpc)
      BY <2>22 DEF LpcCommand, Receive, Command
    <3>2. FlagsTyped'
      BY <2>22 DEF LpcCommand, Receive, Outcomes, FlagsTyped
    <3>3. ValuesTyped'
      <4>1. lpcState' \in HeaterStates
        BY <2>22 DEF LpcCommand, Outcomes
      <4>2. UNCHANGED <<hostConfig, lpcConfig, status, mode, main, lossesLeft, rebootsLeft, operationsLeft>>
        BY <2>22 DEF LpcCommand
      <4>3. QED
        BY <4>1, <4>2
    <3>4. FramesTyped'
      BY <2>22, <3>1, Leaving DEF LpcCommand
    <3>5. MirrorKept'
      BY <2>22, <3>1, MirrorLeaving DEF LpcCommand
    <3>6. QED
      BY <3>2, <3>3, <3>4, <3>5 DEF IInv
  <2>23. CASE LpcRefresh
    <3>1. FlagsTyped'
      BY <2>23 DEF LpcRefresh, FlagsTyped
    <3>2. ValuesTyped'
      BY <2>23 DEF LpcRefresh
    <3>3. FramesTyped'
      BY <2>23, Quiet DEF LpcRefresh
    <3>4. MirrorKept'
      BY <2>23, MirrorQuiet DEF LpcRefresh
    <3>5. QED
      BY <3>1, <3>2, <3>3, <3>4 DEF IInv
  <2>24. CASE SendStatus
    <3>1. FlagsTyped'
      BY <2>24 DEF SendStatus, FlagsTyped
    <3>2. ValuesTyped'
      BY <2>24 DEF SendStatus
    <3>3. FramesTyped'
      BY <2>24, Frames, Reporting DEF SendStatus
    <3>4. MirrorKept'
      BY <2>24, MirrorQuiet DEF SendStatus
    <3>5. QED
      BY <3>1, <3>2, <3>3, <3>4 DEF IInv
  <2>25. CASE LpcFault
    <3>1. FlagsTyped'
      BY <2>25 DEF LpcFault, FlagsTyped
    <3>2. ValuesTyped'
      BY <2>25 DEF LpcFault
    <3>3. FramesTyped'
      BY <2>25, Quiet DEF LpcFault
    <3>4. MirrorKept'
      BY <2>25, MirrorQuiet DEF LpcFault
    <3>5. QED
      BY <3>1, <3>2, <3>3, <3>4 DEF IInv
  <2>26. CASE LinkTimeout
    <3>1. FlagsTyped'
      BY <2>26 DEF LinkTimeout, FlagsTyped
    <3>2. ValuesTyped'
      BY <2>26 DEF LinkTimeout
    <3>3. FramesTyped'
      BY <2>26, Quiet DEF LinkTimeout
    <3>4. MirrorKept'
      BY <2>26, MirrorQuiet DEF LinkTimeout
    <3>5. QED
      BY <3>1, <3>2, <3>3, <3>4 DEF IInv
  <2>27. CASE LoseToLpc
    <3>1. FlagsTyped'
      BY <2>27 DEF LoseToLpc, FlagsTyped
    <3>2. ValuesTyped'
      BY <2>27 DEF LoseToLpc
    <3>3. FramesTyped'
      BY <2>27, Leaving DEF LoseToLpc
    <3>4. MirrorKept'
      BY <2>27, MirrorLeaving DEF LoseToLpc
    <3>5. QED
      BY <3>1, <3>2, <3>3, <3>4 DEF IInv
  <2>28. CASE LoseToHost
    <3>1. FlagsTyped'
      BY <2>28 DEF LoseToHost, FlagsTyped
    <3>2. ValuesTyped'
      BY <2>28 DEF LoseToHost
    <3>3. FramesTyped'
      BY <2>28, Arriving DEF LoseToHost
    <3>4. MirrorKept'
      BY <2>28, MirrorQuiet DEF LoseToHost
    <3>5. QED
      BY <3>1, <3>2, <3>3, <3>4 DEF IInv
  <2>29. CASE LpcReboot
    <3>1. FlagsTyped'
      BY <2>29 DEF LpcReboot, Unset, FlagsTyped
    <3>2. ValuesTyped'
      BY <2>29 DEF LpcReboot, Unset
    <3>3. FramesTyped'
      BY <2>29, Quiet DEF LpcReboot
    <3>4. MirrorKept'
      BY <2>29, MirrorQuiet DEF LpcReboot
    <3>5. QED
      BY <3>1, <3>2, <3>3, <3>4 DEF IInv
  <2>30. CASE HostReboot
    <3>1. FlagsTyped'
      BY <2>30 DEF HostReboot, Unset, NoStatus, FlagsTyped
    <3>2. ValuesTyped'
      BY <2>30 DEF HostReboot, Unset, NoStatus
    <3>3. FramesTyped'
      BY <2>30, EmptySeq DEF HostReboot, FramesTyped
    <3>4. MirrorKept'
      BY <2>30 DEF HostReboot, MirrorKept
    <3>5. QED
      BY <3>1, <3>2, <3>3, <3>4 DEF IInv
  <2>31. CASE SpoilPong
    <3>1. /\ toHost # <<>> /\ toHost \in Seq(FramesToHost)
          /\ toHost' = <<BadPong>> \o Tail(toHost) /\ UNCHANGED toLpc
      BY <2>31 DEF SpoilPong, FramesTyped
    <3>2. Tail(toHost) \in Seq(FramesToHost) /\ <<BadPong>> \in Seq(FramesToHost)
      BY <3>1, Frames, HeadTailProperties
    <3>3. toHost' \in Seq(FramesToHost)
      BY <3>1, <3>2, ConcatProperties
    <3>4. FlagsTyped'
      BY <2>31 DEF SpoilPong, FlagsTyped
    <3>5. ValuesTyped'
      BY <2>31 DEF SpoilPong
    <3>6. FramesTyped'
      BY <3>1, <3>3 DEF FramesTyped
    <3>7. MirrorKept'
      BY <2>31, MirrorQuiet DEF SpoilPong
    <3>8. QED
      BY <3>4, <3>5, <3>6, <3>7 DEF IInv
  <2>32. CASE UNCHANGED vars
    <3>1. FlagsTyped'
      BY <2>32 DEF vars, FlagsTyped
    <3>2. ValuesTyped'
      BY <2>32 DEF vars
    <3>3. FramesTyped'
      BY <2>32, Quiet DEF vars
    <3>4. MirrorKept'
      BY <2>32, MirrorQuiet DEF vars
    <3>5. QED
      BY <3>1, <3>2, <3>3, <3>4 DEF IInv
  <2>33. QED
    BY <2>2, <2>3, <2>4, <2>5, <2>6, <2>7, <2>8, <2>9, <2>10, <2>11, <2>12, <2>13, <2>14, <2>15, <2>16,
       <2>17, <2>18, <2>19, <2>20, <2>21, <2>22, <2>23, <2>24, <2>25, <2>26, <2>27, <2>28, <2>29, <2>30, <2>31, <2>32
       DEF Next, HostReceives, HandlePong, HostTimeouts, Operation, FinishOperation, LpcReceives, LpcReports, Failure
<1>3. QED
  BY <1>1, <1>2, PTL DEF Spec

-----------------------------------------------------------------------------
\* Type correctness.
THEOREM TypeCorrect == Spec => []TypeOK
<1>1. IInv => TypeOK
  BY DEF IInv, TypeOK
<1>2. QED
  BY <1>1, Invariance, PTL

\* A host that is online with a configured coprocessor and no configuration
\* under way has every value it remembers in the coprocessor, unless a frame
\* went missing: for any order of connections, replays, offline changes and
\* reboots.
THEOREM MirrorIsInSync == Spec => []MirrorInSync
<1>1. IInv => MirrorInSync
  <2> SUFFICES ASSUME IInv, online, ~mirrorBroken,
                      \A k \in DOMAIN toLpc : toLpc[k].type \in {"ping", "heaterCommand"},
                      NEW i \in Items, hostConfig[i] > 0
               PROVE  lpcConfig[i] = hostConfig[i]
    BY DEF MirrorInSync
  <2>1. Mirrored(i)
    BY DEF IInv, MirrorKept
  <2>2. ~Pending(toLpc, Bringing(i, hostConfig[i]), Undoing(i))
    BY DEF Pending, Bringing
  <2>3. QED
    BY <2>1, <2>2 DEF Mirrored
<1>2. QED
  BY <1>1, Invariance, PTL

-----------------------------------------------------------------------------
(* The end of heating after a fault, step by step.                         *)

\* A frame that stops the heater is sent: nothing behind it turns it on.
LEMMA StopSent ==
  ASSUME FramesTyped, NEW f \in StopFrames, Transmit(<<f>>)
  PROVE  StopComing'
<1>1. f \in FramesToLpc
  BY DEF StopFrames
<1>2. <<f>> \in Seq(FramesToLpc) /\ Pending(<<f>>, StopFrames, OnFrames)
  BY <1>1, OneFrame
<1>3. toLpc \in Seq(FramesToLpc) /\ toLpc' = toLpc \o <<f>>
  BY DEF FramesTyped, Transmit
<1>4. Pending(toLpc', StopFrames, OnFrames)
  BY <1>2, <1>3, PendingBehind
<1>5. QED
  BY <1>4 DEF StopComing

\* Frames that do not turn the heater on are sent.
LEMMA StopKept ==
  ASSUME FramesTyped, StopComing \/ Stopped, NEW frames \in Seq(FramesToLpc), Free(frames, OnFrames),
         Transmit(frames), UNCHANGED lpcState
  PROVE  StopComing' \/ Stopped'
<1>1. toLpc \in Seq(FramesToLpc) /\ toLpc' = toLpc \o frames
  BY DEF FramesTyped, Transmit
<1>2. CASE StopComing
  <2>1. Pending(toLpc', StopFrames, OnFrames)
    BY <1>1, <1>2, PendingConcat DEF StopComing
  <2>2. QED
    BY <2>1 DEF StopComing
<1>3. CASE Stopped
  <2>1. Free(toLpc', OnFrames)
    BY <1>1, <1>3, FreeConcat DEF Stopped
  <2>2. QED
    BY <1>3, <2>1 DEF Stopped
<1>4. QED
  BY <1>2, <1>3

\* A frame leaves: a stop has been obeyed, and nothing but on starts heating.
LEMMA StopLeaving ==
  ASSUME FramesTyped, StopComing \/ Stopped, toLpc # <<>>, toLpc' = Tail(toLpc),
         Head(toLpc) \in StopFrames => lpcState' # "active",
         Head(toLpc) \notin OnFrames /\ lpcState # "active" => lpcState' # "active"
  PROVE  StopComing' \/ Stopped'
<1>1. toLpc \in Seq(FramesToLpc)
  BY DEF FramesTyped
<1>2. CASE StopComing
  <2>1. \/ Pending(Tail(toLpc), StopFrames, OnFrames)
        \/ Head(toLpc) \in StopFrames /\ Free(Tail(toLpc), OnFrames)
    BY <1>1, <1>2, PendingTail DEF StopComing
  <2>2. QED
    BY <2>1 DEF StopComing, Stopped
<1>3. CASE Stopped
  <2>1. Free(Tail(toLpc), OnFrames) /\ Head(toLpc) \notin OnFrames
    BY <1>1, <1>3, FreeTail DEF Stopped
  <2>2. QED
    BY <1>3, <2>1 DEF Stopped
<1>4. QED
  BY <1>2, <1>3

\* Nothing is sent, and the heater does not start.
LEMMA StopQuiet ==
  ASSUME StopComing \/ Stopped, UNCHANGED toLpc, lpcState # "active" => lpcState' # "active"
  PROVE  StopComing' \/ Stopped'
BY DEF StopComing, Stopped

\* A command that stops is sent unless the host is offline and it is not off.
LEMMA StopCommand ==
  ASSUME FramesTyped, NEW c \in Stopping, CommandHeater(c), UNCHANGED lpcState,
         c = "off" \/ online \/ stopLost \/ StopComing \/ Stopped
  PROVE  stopLost' \/ StopComing' \/ Stopped'
<1>1. CASE c = "off" \/ online
  <2>1. Transmit(<<Command(c)>>)
    BY <1>1 DEF CommandHeater
  <2>2. Command(c) \in StopFrames
    BY Frames DEF StopFrames, IsStop, Stopping
  <2>3. QED
    BY <2>1, <2>2, StopSent
<1>2. CASE ~(c = "off" \/ online)
  <2>1. UNCHANGED <<toLpc, stopLost>>
    BY <1>2, Zenon DEF CommandHeater, stops
  <2>2. QED
    BY <1>2, <2>1, StopQuiet
<1>3. QED
  BY <1>1, <1>2

\* A heater reported as faulted is not heating, nor going to, once the stop that
\* RaiseFault sends has arrived: for any interleaving of RaiseFault with the
\* operations of the main task, any losses but that of the stop, any reboots,
\* and outside of SwitchOn between its frames and its assignment of mode.
THEOREM FaultStopsHeater == Spec => []FaultedHeaterIsOff
<1>1. Init => FaultStops
  BY DEF Init, FaultStops
<1>2. IInv /\ FaultStops /\ [Next]_vars => FaultStops'
  <2> SUFFICES ASSUME IInv, FaultStops, [Next]_vars,
                      mode' = "fault", main' # "setOn", ~stopLost'
               PROVE  StopComing' \/ Stopped'
    BY DEF FaultStops
  <2>0. FramesTyped /\ hostConfig \in [Items -> 0 .. MaxVersion]
    BY DEF IInv, ValuesTyped
  <2>q. ASSUME UNCHANGED <<mode, main, stopLost>> PROVE StopComing \/ Stopped
    BY <2>q DEF FaultStops
  <2> USE DEF host, lpc, stops
  <2>1. CASE SendPing
    <3>1. <<PingFrame>> \in Seq(FramesToLpc) /\ Free(<<PingFrame>>, OnFrames)
      BY Frames, PlainFrames, OneFrame
    <3>2. Transmit(<<PingFrame>>) /\ UNCHANGED lpcState /\ (StopComing \/ Stopped)
      BY <2>1, <2>q DEF SendPing
    <3>3. QED
      BY <2>0, <3>1, <3>2, StopKept
  <2>2. CASE AcceptPong
    <3>1. UNCHANGED lpcState /\ (StopComing \/ Stopped)
      BY <2>2, <2>q DEF AcceptPong
    <3>2. Transmit(Replay) \/ UNCHANGED toLpc
      BY <2>2 DEF AcceptPong
    <3>3. QED
      BY <2>0, <3>1, <3>2, ReplayFrames, StopKept, StopQuiet
  <2>3. CASE RefusePong \/ HandleThermalStatus \/ HostTimeouts \/ StartSwitchOn \/ StartSuspend
    <3>1. UNCHANGED <<mode, stopLost, toLpc, lpcState>> /\ main # "setOn"
      BY <2>3 DEF RefusePong, HandleThermalStatus, HostTimeouts, PongTimeout, StatusTimeout,
                  StartSwitchOn, StartSuspend, StartOperation
    <3>2. StopComing \/ Stopped
      BY <3>1 DEF FaultStops
    <3>3. QED
      BY <3>1, <3>2, StopQuiet
  <2>4. ASSUME NEW i \in Items, NEW v \in 1 .. MaxVersion, ConfigureItem(i, v)
        PROVE  StopComing' \/ Stopped'
    <3>1. Config(i, v) \in FramesToLpc /\ Config(i, v) \notin OnFrames
      BY ConfigFrame
    <3>2. <<Config(i, v)>> \in Seq(FramesToLpc) /\ Free(<<Config(i, v)>>, OnFrames)
      BY <3>1, OneFrame
    <3>3. /\ UNCHANGED lpcState /\ (StopComing \/ Stopped)
          /\ Transmit(<<Config(i, v)>>) \/ UNCHANGED toLpc
      BY <2>4, <2>q DEF ConfigureItem
    <3>4. QED
      BY <2>0, <3>2, <3>3, StopKept, StopQuiet
  <2>5. CASE UnregisterThermistor \/ SwitchOff
    <3>1. CommandHeater("off") /\ UNCHANGED lpcState
      BY <2>5 DEF UnregisterThermistor, SwitchOff
    <3>2. QED
      BY <2>0, <3>1, StopCommand DEF Stopping
  <2>6. CASE ResetFault
    <3>1. /\ UNCHANGED <<mode, stopLost, lpcState>> /\ main # "setOn"
          /\ Transmit(<<Command("resetFault")>>)
      BY <2>6 DEF ResetFault, StartOperation, CommandHeater
    <3>2. Command("resetFault") \in FramesToLpc /\ Command("resetFault") \notin OnFrames
      BY Frames, PlainFrames
    <3>3. <<Command("resetFault")>> \in Seq(FramesToLpc) /\ Free(<<Command("resetFault")>>, OnFrames)
      BY <3>2, OneFrame
    <3>4. StopComing \/ Stopped
      BY <3>1 DEF FaultStops
    <3>5. QED
      BY <2>0, <3>1, <3>3, <3>4, StopKept
  <2>7. ASSUME NEW m \in 1 .. MaxVersion, NEW v \in 1 .. MaxVersion, SendOn(m, v) PROVE FALSE
    BY <2>7 DEF SendOn
  <2>8. CASE SendSuspend
    <3>1. /\ CommandHeater("suspend") /\ UNCHANGED <<mode, lpcState>> /\ main # "setOn"
      BY <2>8 DEF SendSuspend
    <3>2. stopLost \/ StopComing \/ Stopped
      BY <3>1 DEF FaultStops
    <3>3. QED
      BY <2>0, <3>1, <3>2, StopCommand DEF Stopping
  <2>9. CASE SetMode
    BY <2>9 DEF SetMode
  <2>10. CASE HeaterSpin
    <3>1. CASE mode = "fault"
      <4>1. UNCHANGED <<mode, main, stopLost, toLpc, lpcState>>
        BY <2>10, <3>1 DEF HeaterSpin
      <4>2. QED
        BY <2>q, <4>1, StopQuiet
    <3>2. CASE mode # "fault"
      <4>1. CommandHeater("off") /\ UNCHANGED lpcState
        BY <2>10, <3>2 DEF HeaterSpin, RaiseFault
      <4>2. QED
        BY <2>0, <4>1, StopCommand DEF Stopping
    <3>3. QED
      BY <3>1, <3>2
  <2>11. CASE LpcPing \/ LpcConfigure \/ LpcComplete
    <3>1. /\ toLpc # <<>> /\ toLpc' = Tail(toLpc) /\ UNCHANGED <<mode, main, stopLost, lpcState>>
          /\ Head(toLpc).type \in {"ping", "config", "configurationComplete"}
      <4>1. CASE LpcPing
        BY <4>1 DEF LpcPing, Receive, PingFrame
      <4>2. CASE LpcConfigure
        BY <4>2 DEF LpcConfigure, Receive, Config
      <4>3. CASE LpcComplete
        BY <4>3 DEF LpcComplete, Receive, Complete
      <4>4. QED
        BY <2>11, <4>1, <4>2, <4>3
    <3>2. Head(toLpc) \notin StopFrames
      BY <3>1 DEF StopFrames, IsStop, Reset, Command
    <3>3. QED
      BY <2>0, <2>q, <3>1, <3>2, StopLeaving
  <2>12. CASE LpcReset
    <3>1. /\ toLpc # <<>> /\ toLpc' = Tail(toLpc) /\ UNCHANGED <<mode, main, stopLost>>
          /\ lpcState' = "off"
      BY <2>12 DEF LpcReset, Receive
    <3>2. QED
      BY <2>0, <2>q, <3>1, StopLeaving
  <2>13. CASE LpcCommand
    <3>1. PICK c \in {"on", "off", "suspend", "resetFault"} :
            Receive(Command(c)) /\ lpcState' \in Outcomes(c)
      BY <2>13 DEF LpcCommand
    <3>2. /\ toLpc # <<>> /\ toLpc' = Tail(toLpc) /\ UNCHANGED <<mode, main, stopLost>>
          /\ Head(toLpc) = Command(c)
      BY <2>13, <3>1 DEF LpcCommand, Receive
    <3>3. Command(c) \in StopFrames => lpcState' # "active"
      <4>1. Command(c) \in StopFrames => c \in Stopping
        BY DEF StopFrames, IsStop, Reset, Command
      <4>2. QED
        BY <3>1, <4>1 DEF Outcomes, Stopping
    <3>4. Command(c) \notin OnFrames /\ lpcState # "active" => lpcState' # "active"
      BY <3>1 DEF Outcomes, OnFrames
    <3>5. QED
      BY <2>0, <2>q, <3>2, <3>3, <3>4, StopLeaving
  <2>14. CASE LpcReports \/ LpcFault \/ LinkTimeout \/ LpcReboot
    <3>1. /\ UNCHANGED <<mode, main, stopLost, toLpc>>
          /\ lpcState # "active" => lpcState' # "active"
      BY <2>14 DEF LpcReports, LpcRefresh, SendStatus, LpcFault, LinkTimeout, LpcReboot
    <3>2. QED
      BY <2>q, <3>1, StopQuiet
  <2>15. CASE LoseToLpc
    <3>1. /\ toLpc # <<>> /\ toLpc' = Tail(toLpc) /\ UNCHANGED <<mode, main, lpcState>>
          /\ ~stopLost /\ Head(toLpc) \notin {Reset} \cup {Command(c) : c \in Stopping}
      BY <2>15 DEF LoseToLpc
    <3>2. Head(toLpc) \notin StopFrames
      BY <3>1 DEF StopFrames, IsStop
    <3>3. StopComing \/ Stopped
      BY <3>1 DEF FaultStops
    <3>4. QED
      BY <2>0, <3>1, <3>2, <3>3, StopLeaving
  <2>16. CASE HostReboot
    BY <2>16 DEF HostReboot
  <2>17. CASE LoseToHost \/ SpoilPong \/ UNCHANGED vars
    <3>1. UNCHANGED <<mode, main, stopLost, toLpc, lpcState>>
      BY <2>17 DEF LoseToHost, SpoilPong, vars
    <3>2. QED
      BY <2>q, <3>1, StopQuiet
  <2>18. QED
    BY <2>1, <2>2, <2>3, <2>4, <2>5, <2>6, <2>7, <2>8, <2>9, <2>10, <2>11, <2>12, <2>13, <2>14, <2>15, <2>16, <2>17, LinkAssumption
       DEF Next, HostReceives, HandlePong, Operation, FinishOperation, LpcReceives, Failure
<1>3. IInv /\ FaultStops => FaultedHeaterIsOff
  <2> SUFFICES ASSUME IInv, FaultStops, mode = "fault", main # "setOn", ~stopLost,
                      \A k \in DOMAIN toLpc : ~IsStop(toLpc[k])
               PROVE  lpcState # "active" /\ \A k \in DOMAIN toLpc : toLpc[k] # Command("on")
    BY DEF FaultedHeaterIsOff
  <2>1. ~StopComing
    BY DEF StopComing, Pending, StopFrames
  <2>2. Stopped
    BY <2>1 DEF FaultStops
  <2>3. QED
    BY <2>2 DEF Stopped, Free, OnFrames
<1>4. QED
  BY <1>1, <1>2, <1>3, Invariance, PTL DEF Spec

\* The fault mode ends with an operation of the user or a reboot of the host.
THEOREM FaultStays == Spec => FaultIsSticky
<1> DEFINE Sticky == mode = "fault" /\ mode' # "fault" => main # "idle" \/ rebootsLeft' # rebootsLeft
<1>1. ValuesTyped /\ [Next]_vars => Sticky
  <2> SUFFICES ASSUME ValuesTyped, [Next]_vars PROVE Sticky
    OBVIOUS
  <2> USE DEF host
  <2>1. CASE UNCHANGED mode
    BY <2>1
  <2>2. CASE SetMode
    BY <2>2 DEF SetMode
  <2>3. CASE HeaterSpin
    BY <2>3 DEF HeaterSpin
  <2>4. CASE HostReboot
    BY <2>4, LinkAssumption DEF HostReboot, ValuesTyped
  <2>5. SendPing \/ HostReceives \/ HostTimeouts => UNCHANGED mode
    BY DEF SendPing, HostReceives, HandlePong, AcceptPong, RefusePong, HandleThermalStatus, HostTimeouts, PongTimeout, StatusTimeout
  <2>6. Operation => UNCHANGED mode
    BY DEF Operation, ConfigureItem, UnregisterThermistor, StartSwitchOn, StartSuspend, SwitchOff, ResetFault
  <2>7. (\E m, v \in 1 .. MaxVersion : SendOn(m, v)) \/ SendSuspend => UNCHANGED mode
    BY DEF SendOn, SendSuspend
  <2>8. LpcReceives \/ LpcReports \/ LpcFault \/ LinkTimeout => UNCHANGED mode
    BY DEF LpcReceives, LpcPing, LpcReset, LpcConfigure, LpcComplete, LpcCommand,
           LpcReports, LpcRefresh, SendStatus, LpcFault, LinkTimeout
  <2>9. LoseToLpc \/ LoseToHost \/ SpoilPong \/ LpcReboot \/ UNCHANGED vars => UNCHANGED mode
    BY DEF LoseToLpc, LoseToHost, SpoilPong, LpcReboot, vars
  <2>10. QED
    BY <2>1, <2>2, <2>3, <2>4, <2>5, <2>6, <2>7, <2>8, <2>9 DEF Next, FinishOperation, Failure
<1>2. IInv /\ [Next]_vars => [Sticky]_vars
  BY <1>1 DEF IInv
<1>3. QED
  BY <1>2, Invariance, PTL DEF Spec, FaultIsSticky

=============================================================================

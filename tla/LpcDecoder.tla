----------------------------- MODULE LpcDecoder -----------------------------
(***************************************************************************)
(* Frames on the UART: Encode at one end, Feed at the other, and a line    *)
(* that may change, lose or add bytes (Shared/src/LpcProtocol.cpp).        *)
(*                                                                         *)
(* A step is one byte: the sender puts its next one on the line and the    *)
(* decoder is fed with what arrives.  Encode writes a frame into a buffer  *)
(* that is then sent; its loop is taken byte by byte here.  The decoder    *)
(* knows no time: it waits for the rest of a frame for as long as it takes.*)
(***************************************************************************)
EXTENDS Naturals, FiniteSets

CONSTANTS
  Byte, SyncByte,
  MaxPayload,
  Crc,               \* Crc[crc][byte] is UpdateCrc(crc, byte)
  Types, PayloadBytes,   \* what the sender's frames are made of
  NoiseBytes,        \* what a byte may be changed into
  MaxNoise           \* bytes that the line changes, loses or adds

\* The two last parts hold for any cyclic code: whatever the register holds, a
\* byte can take it anywhere, and whatever the byte is, so can the register.
ASSUME DecoderAssumption ==
  /\ MaxPayload \in Nat /\ MaxNoise \in Nat
  /\ IsFiniteSet(Byte) /\ Byte \subseteq Nat /\ 0 .. MaxPayload \subseteq Byte
  /\ SyncByte \in Byte /\ Types \subseteq Byte
  /\ PayloadBytes \subseteq Byte /\ NoiseBytes \subseteq Byte
  /\ Crc \in [Byte -> [Byte -> Byte]]
  /\ \A c \in Byte : {Crc[c][v] : v \in Byte} = Byte
  /\ \A v \in Byte : {Crc[c][v] : c \in Byte} = Byte

VARIABLES
  decoder,           \* the decoder: state, index, crc and the frame so far
  received,          \* what Feed returned: a frame, or nothing
  phase,             \* what the sender's next byte is
  sent,              \* the sender's frame so far
  sendIndex, sendCrc,
  damage,            \* what the line did to this frame
  sinceNoise,        \* good bytes since the line failed
  noiseLeft

sender == <<phase, sent, sendIndex, sendCrc>>
ghosts == <<damage, sinceNoise, noiseLeft>>
vars == <<decoder, received, sender, ghosts>>

Indices == 0 .. MaxPayload - 1
Lengths == 0 .. MaxPayload
Frame == [type : Byte, length : Lengths, payload : [Indices -> Byte]]
FrameOf(type, length, payload) == [type |-> type, length |-> length, payload |-> payload]
NoFrame == FrameOf(0, 0, [i \in Indices |-> 0])

SameFrame(f, g) ==
  /\ f.type = g.type /\ f.length = g.length
  /\ \A i \in 0 .. f.length - 1 : f.payload[i] = g.payload[i]

\* The most bytes that a false frame can swallow once it has begun.
Swallowed == MaxPayload + 3

-----------------------------------------------------------------------------
(* The decoder.                                                            *)

DecoderOf(state, index, crc, frame) ==
  [state |-> state, index |-> index, crc |-> crc, frame |-> frame]

Reset(d) == DecoderOf(0, 0, 0, FrameOf(d.frame.type, 0, d.frame.payload))

\* Mutants of LengthOk: the check left out, and one too strict.
LengthUnchecked(byte) == TRUE
LengthTooStrict(byte) == byte < MaxPayload

LengthOk(byte) == byte <= MaxPayload

\* Mutant of Valid: the checksum is not looked at.
ValidAlways(d, byte) == TRUE

Valid(d, byte) == byte = d.crc

\* Mutant of Finished: the decoder is reset after a valid frame only.
FinishedIfValid(d, byte) == IF Valid(d, byte) THEN Reset(d) ELSE d

Finished(d, byte) == Reset(d)

Feed(d, byte) ==
  LET f == d.frame
  IN CASE d.state = 0 -> IF byte = SyncByte THEN DecoderOf(1, d.index, d.crc, f) ELSE d
       [] d.state = 1 -> DecoderOf(2, d.index, Crc[0][byte], FrameOf(byte, f.length, f.payload))
       [] d.state = 2 -> IF LengthOk(byte)
                         THEN DecoderOf(3, 0, Crc[d.crc][byte], FrameOf(f.type, byte, f.payload))
                         ELSE Reset(d)
       [] d.state = 3 /\ d.index < f.length ->
            DecoderOf(3, d.index + 1, Crc[d.crc][byte],
                      FrameOf(f.type, f.length, [f.payload EXCEPT ![d.index] = byte]))
       [] OTHER -> Finished(d, byte)

Returned(d, byte) ==
  IF d.state = 3 /\ d.index >= d.frame.length /\ Valid(d, byte) THEN {d.frame} ELSE {}

Take(byte) ==
  /\ decoder' = Feed(decoder, byte)
  /\ received' = Returned(decoder, byte)

-----------------------------------------------------------------------------
(* The sender: Encode.                                                     *)

SendSync(byte) ==
  /\ phase = "sync" /\ byte = SyncByte
  /\ phase' = "type" /\ sent' = NoFrame /\ sendIndex' = 0 /\ sendCrc' = 0

SendType(byte) ==
  /\ phase = "type" /\ byte \in Types
  /\ phase' = "length" /\ sent' = FrameOf(byte, sent.length, sent.payload)
  /\ sendCrc' = Crc[0][byte]
  /\ UNCHANGED sendIndex

SendLength(byte) ==
  /\ phase = "length" /\ byte <= MaxPayload
  /\ phase' = "payload" /\ sent' = FrameOf(sent.type, byte, sent.payload)
  /\ sendCrc' = Crc[sendCrc][byte]
  /\ UNCHANGED sendIndex

SendPayload(byte) ==
  /\ phase = "payload" /\ sendIndex < sent.length /\ byte \in PayloadBytes
  /\ sent' = FrameOf(sent.type, sent.length, [sent.payload EXCEPT ![sendIndex] = byte])
  /\ sendIndex' = sendIndex + 1
  /\ sendCrc' = Crc[sendCrc][byte]
  /\ UNCHANGED phase

SendCheck(byte) ==
  /\ phase = "payload" /\ sendIndex = sent.length /\ byte = sendCrc
  /\ phase' = "sync"
  /\ UNCHANGED <<sent, sendIndex, sendCrc>>

SendByte(byte) ==
  SendSync(byte) \/ SendType(byte) \/ SendLength(byte) \/ SendPayload(byte) \/ SendCheck(byte)

-----------------------------------------------------------------------------
(* The line.  damage is "none" while the decoder has taken the bytes of    *)
(* this frame as they were sent, "byte" when one of type, payload or       *)
(* checksum has been changed, and "framing" when the two ends need not     *)
(* agree on where a frame begins.                                          *)

AtStart == IF decoder.state = 0 THEN "none" ELSE "framing"

\* A byte inside a frame that looks like the beginning of one is as bad as
\* noise to a decoder that is looking for a beginning.
Deliver ==
  \E byte \in Byte :
    /\ SendByte(byte)
    /\ Take(byte)
    /\ damage' = IF phase = "sync" THEN AtStart ELSE damage
    /\ sinceNoise' = IF phase # "sync" /\ byte = SyncByte THEN 0
                     ELSE IF sinceNoise < Swallowed THEN sinceNoise + 1 ELSE sinceNoise
    /\ UNCHANGED noiseLeft

Noise ==
  /\ noiseLeft > 0 /\ noiseLeft' = noiseLeft - 1
  /\ sinceNoise' = 0

Change ==
  /\ Noise
  /\ \E byte \in Byte, wrong \in NoiseBytes :
       /\ byte # wrong /\ SendByte(byte)
       /\ Take(wrong)
       /\ damage' = IF phase \in {"type", "payload"} /\ damage = "none" THEN "byte" ELSE "framing"

Lose ==
  /\ Noise
  /\ \E byte \in Byte : SendByte(byte)
  /\ damage' = "framing"
  /\ received' = {}
  /\ UNCHANGED decoder

Add ==
  /\ Noise
  /\ \E byte \in NoiseBytes : Take(byte)
  /\ damage' = "framing"
  /\ UNCHANGED sender

-----------------------------------------------------------------------------
Init ==
  /\ decoder = DecoderOf(0, 0, 0, NoFrame)
  /\ received = {}
  /\ phase = "sync" /\ sent = NoFrame /\ sendIndex = 0 /\ sendCrc = 0
  /\ damage = "framing" /\ sinceNoise = Swallowed /\ noiseLeft = MaxNoise

Next == Deliver \/ Change \/ Lose \/ Add

Spec == Init /\ [][Next]_vars

-----------------------------------------------------------------------------
(* Properties.                                                             *)

\* Every variable keeps its type: above all, no length that comes over the
\* line makes the decoder write outside its payload buffer.
TypeOK ==
  /\ decoder \in [state : 0 .. 3, index : Lengths, crc : Byte, frame : Frame]
  /\ decoder.index <= decoder.frame.length
  /\ received \subseteq Frame
  /\ phase \in {"sync", "type", "length", "payload"}
  /\ sent \in Frame
  /\ sendIndex \in 0 .. sent.length
  /\ sendCrc \in Byte
  /\ damage \in {"none", "byte", "framing"}
  /\ sinceNoise \in 0 .. Swallowed
  /\ noiseLeft \in 0 .. MaxNoise

\* A frame that arrives as it was sent is returned at its last byte, whatever
\* has happened to the frames before it.
GoodFrameArrives ==
  phase = "sync" /\ damage = "none" => \E f \in received : SameFrame(f, sent)

\* A frame of which one byte of type, payload or checksum has been changed is
\* dropped, and nothing is returned in the middle of any frame that began well.
ChangedFrameIsDropped ==
  \/ damage = "byte" /\ phase = "sync"
  \/ damage # "framing" /\ phase # "sync"
  => received = {}

\* After noise the decoder swallows the rest of one false frame at most: when
\* as many good bytes have passed as that may take, it waits for the beginning
\* of a frame when the sender begins one.
Resynchronises == sinceNoise = Swallowed /\ phase = "sync" => decoder.state = 0

=============================================================================

-------------------------- MODULE LpcDecoderProofs --------------------------
(***************************************************************************)
(* For every payload size, cyclic checksum and amount of noise: the        *)
(* decoder stays inside its buffer, returns the frames that arrive whole,  *)
(* drops those with a changed byte and finds its way back after noise.     *)
(***************************************************************************)
EXTENDS LpcDecoder, Functions, FiniteSetTheorems, TLAPS

States == 0 .. 3
Decoders == [state : States, index : Lengths, crc : Byte, frame : Frame]

InBuffer(d) == d.index <= d.frame.length

\* Both ends are at the same byte of the frame, and have seen the same frame.
InStep ==
  /\ phase = "type" => decoder.state = 1
  /\ phase = "length" =>
       decoder.state = 2 /\ decoder.crc = sendCrc /\ decoder.frame.type = sent.type
  /\ phase = "payload" =>
       /\ decoder.state = 3 /\ decoder.crc = sendCrc /\ decoder.index = sendIndex
       /\ decoder.frame.type = sent.type /\ decoder.frame.length = sent.length
       /\ \A i \in 0 .. sendIndex - 1 : decoder.frame.payload[i] = sent.payload[i]

\* Both ends are at the same byte, and their checksums differ.
InStepChanged ==
  /\ phase # "type"
  /\ phase = "length" => decoder.state = 2 /\ decoder.crc # sendCrc
  /\ phase = "payload" =>
       /\ decoder.state = 3 /\ decoder.crc # sendCrc /\ decoder.index = sendIndex
       /\ decoder.frame.length = sent.length

\* The sender counts from zero.
SendIndexStart == phase \in {"type", "length"} => sendIndex = 0

InTheFrame == phase # "sync" /\ damage # "framing"

\* The bytes that the decoder may still swallow.
Left(d) == CASE d.state = 1 -> MaxPayload + 3
             [] d.state = 2 -> MaxPayload + 2
             [] OTHER -> d.frame.length - d.index + 1

SwallowsBounded == decoder.state = 0 \/ InTheFrame \/ sinceNoise + Left(decoder) <= Swallowed

Aligned ==
  /\ phase # "sync" /\ damage = "none" => InStep
  /\ phase # "sync" /\ damage = "byte" => InStepChanged
  /\ phase = "sync" /\ damage # "framing" => decoder.state = 0

\* The inductive invariant.
IInv ==
  /\ TypeOK
  /\ SendIndexStart
  /\ Aligned
  /\ SwallowsBounded
  /\ GoodFrameArrives
  /\ ChangedFrameIsDropped

-----------------------------------------------------------------------------
(* The checksum.                                                           *)

\* A function of the bytes that reaches every byte takes no two to the same.
LEMMA OntoIsOneToOne ==
  ASSUME NEW f \in [Byte -> Byte], {f[x] : x \in Byte} = Byte,
         NEW x \in Byte, NEW y \in Byte, f[x] = f[y]
  PROVE  x = y
<1>1. f \in Surjection(Byte, Byte)
  BY DEF Surjection
<1>2. f \in Injection(Byte, Byte)
  BY <1>1, FS_SurjSameCardinalityImpliesInj, DecoderAssumption
<1>3. QED
  BY <1>2 DEF Injection, IsInjective

\* Different bytes take a register to different values.
LEMMA ByteMatters ==
  ASSUME NEW c \in Byte, NEW v \in Byte, NEW w \in Byte, v # w
  PROVE  Crc[c][v] # Crc[c][w]
<1>1. Crc[c] \in [Byte -> Byte] /\ {Crc[c][x] : x \in Byte} = Byte
  BY DecoderAssumption
<1>2. QED
  BY <1>1, OntoIsOneToOne

\* Registers that differ stay different when the same byte is added to both.
LEMMA RegisterMatters ==
  ASSUME NEW c \in Byte, NEW d \in Byte, NEW v \in Byte, c # d
  PROVE  Crc[c][v] # Crc[d][v]
<1> DEFINE f == [x \in Byte |-> Crc[x][v]]
<1>1. f \in [Byte -> Byte] /\ {f[x] : x \in Byte} = Byte
  <2>1. \A x \in Byte : f[x] = Crc[x][v] /\ Crc[x][v] \in Byte
    BY DecoderAssumption
  <2>2. f \in [Byte -> Byte]
    BY <2>1
  <2>3. {f[x] : x \in Byte} = {Crc[x][v] : x \in Byte}
    BY <2>1
  <2>4. QED
    BY <2>2, <2>3, DecoderAssumption
<1>2. f[c] # f[d]
  BY <1>1, OntoIsOneToOne
<1>3. QED
  BY <1>2

-----------------------------------------------------------------------------
(* Feed, state by state.                                                   *)

\* What the assumption says of numbers.
LEMMA Sizes == MaxPayload \in Nat /\ Byte \subseteq Nat /\ 0 \in Byte
<1>1. MaxPayload \in Nat /\ Byte \subseteq Nat /\ 0 .. MaxPayload \subseteq Byte
  BY DecoderAssumption
<1>2. 0 \in 0 .. MaxPayload
  BY <1>1, SMT
<1>3. QED
  BY <1>1, <1>2

\* A register and a byte make a register.
LEMMA CrcTyped == ASSUME NEW c \in Byte, NEW v \in Byte PROVE Crc[c][v] \in Byte
<1>1. Crc \in [Byte -> [Byte -> Byte]]
  BY DecoderAssumption
<1>2. QED
  BY <1>1

\* A frame is what it is made of.
LEMMA MakeFrame ==
  ASSUME NEW t \in Byte, NEW n \in Lengths, NEW q \in [Indices -> Byte]
  PROVE  /\ FrameOf(t, n, q) \in Frame
         /\ FrameOf(t, n, q).type = t /\ FrameOf(t, n, q).length = n /\ FrameOf(t, n, q).payload = q
  BY SMT DEF FrameOf, Frame

\* So is a decoder.
LEMMA MakeDecoder ==
  ASSUME NEW s \in States, NEW i \in Lengths, NEW c \in Byte, NEW f \in Frame
  PROVE  /\ DecoderOf(s, i, c, f) \in Decoders
         /\ DecoderOf(s, i, c, f).state = s /\ DecoderOf(s, i, c, f).index = i
         /\ DecoderOf(s, i, c, f).crc = c /\ DecoderOf(s, i, c, f).frame = f
  BY SMT DEF DecoderOf, Decoders

\* The fields of a frame and of a decoder, one by one.
LEMMA FrameFields ==
  ASSUME NEW f \in Frame
  PROVE  /\ f.type \in Byte /\ f.length \in Lengths /\ f.length \in Nat
         /\ f.payload \in [Indices -> Byte]
  BY SMT DEF Frame, Lengths

LEMMA Fields ==
  ASSUME NEW d \in Decoders
  PROVE  /\ d.state \in States /\ d.index \in Lengths /\ d.index \in Nat
         /\ d.crc \in Byte /\ d.frame \in Frame
  BY SMT DEF Decoders, Lengths

\* Between frames, only the sync byte counts.
LEMMA FeedIdle ==
  ASSUME NEW d \in Decoders, InBuffer(d), NEW b \in Byte, d.state = 0
  PROVE  /\ Feed(d, b) \in Decoders /\ InBuffer(Feed(d, b)) /\ Returned(d, b) = {}
         /\ b = SyncByte => Feed(d, b).state = 1
         /\ b # SyncByte => Feed(d, b).state = 0
<1>1. Feed(d, b) = IF b = SyncByte THEN DecoderOf(1, d.index, d.crc, d.frame) ELSE d
  BY DEF Feed
<1>2. Returned(d, b) = {}
  BY DEF Returned
<1>3. 1 \in States
  BY SMT DEF States
<1>4. QED
  BY <1>1, <1>2, <1>3, Fields, MakeDecoder DEF InBuffer

\* The type starts the checksum.
LEMMA FeedType ==
  ASSUME NEW d \in Decoders, InBuffer(d), NEW b \in Byte, d.state = 1
  PROVE  /\ Feed(d, b) \in Decoders /\ InBuffer(Feed(d, b)) /\ Returned(d, b) = {}
         /\ Feed(d, b).state = 2 /\ Feed(d, b).crc = Crc[0][b] /\ Feed(d, b).frame.type = b
<1> DEFINE g == FrameOf(b, d.frame.length, d.frame.payload)
<1>1. Feed(d, b) = DecoderOf(2, d.index, Crc[0][b], g)
  BY DEF Feed
<1>2. Returned(d, b) = {}
  BY DEF Returned
<1>3. 2 \in States
  BY SMT DEF States
<1>4. Crc[0][b] \in Byte
  BY Sizes, CrcTyped
<1>5. g \in Frame /\ g.type = b /\ g.length = d.frame.length
  BY Fields, FrameFields, MakeFrame
<1> HIDE DEF g
<1>6. QED
  BY <1>1, <1>2, <1>3, <1>4, <1>5, Fields, MakeDecoder DEF InBuffer

\* A reset leaves the payload and forgets its length.
LEMMA ResetTyped ==
  ASSUME NEW d \in Decoders
  PROVE  Reset(d) \in Decoders /\ InBuffer(Reset(d)) /\ Reset(d).state = 0
<1> DEFINE g == FrameOf(d.frame.type, 0, d.frame.payload)
<1>1. Reset(d) = DecoderOf(0, 0, 0, g)
  BY DEF Reset
<1>2. 0 \in States /\ 0 \in Lengths /\ 0 \in Byte /\ 0 <= 0
  BY Sizes, SMT DEF States, Lengths
<1>3. g \in Frame /\ g.length = 0
  BY <1>2, Fields, FrameFields, MakeFrame
<1> HIDE DEF g
<1>4. QED
  BY <1>1, <1>2, <1>3, MakeDecoder DEF InBuffer

\* A length is taken if the payload fits the buffer.
LEMMA FeedLength ==
  ASSUME NEW d \in Decoders, InBuffer(d), NEW b \in Byte, d.state = 2
  PROVE  /\ Feed(d, b) \in Decoders /\ InBuffer(Feed(d, b)) /\ Returned(d, b) = {}
         /\ b > MaxPayload => Feed(d, b).state = 0
         /\ b <= MaxPayload =>
              /\ Feed(d, b).state = 3 /\ Feed(d, b).index = 0 /\ Feed(d, b).crc = Crc[d.crc][b]
              /\ Feed(d, b).frame.length = b /\ Feed(d, b).frame.type = d.frame.type
<1>1. MaxPayload \in Nat /\ b \in Nat
  BY Sizes
<1>2. Returned(d, b) = {}
  BY DEF Returned
<1>3. CASE b <= MaxPayload
  <2> DEFINE g == FrameOf(d.frame.type, b, d.frame.payload)
  <2>1. Feed(d, b) = DecoderOf(3, 0, Crc[d.crc][b], g)
    BY <1>3 DEF Feed, LengthOk
  <2>2. 3 \in States /\ 0 \in Lengths /\ b \in Lengths
    BY <1>1, <1>3, SMT DEF States, Lengths
  <2>3. Crc[d.crc][b] \in Byte
    BY Fields, CrcTyped
  <2>4. g \in Frame /\ g.type = d.frame.type /\ g.length = b
    BY <2>2, Fields, FrameFields, MakeFrame
  <2> HIDE DEF g
  <2>5. /\ Feed(d, b) \in Decoders /\ Feed(d, b).frame = g
        /\ Feed(d, b).state = 3 /\ Feed(d, b).index = 0 /\ Feed(d, b).crc = Crc[d.crc][b]
    BY <2>1, <2>2, <2>3, <2>4, MakeDecoder
  <2>6. 0 <= b /\ ~(b > MaxPayload)
    BY <1>1, <1>3, SMT
  <2>7. QED
    BY <1>2, <2>4, <2>5, <2>6 DEF InBuffer
<1>4. CASE b > MaxPayload
  <2>1. ~LengthOk(b)
    BY <1>1, <1>4, SMT DEF LengthOk
  <2>2. Feed(d, b) = Reset(d)
    BY <2>1 DEF Feed
  <2>3. QED
    BY <1>1, <1>2, <1>4, <2>1, <2>2, ResetTyped DEF LengthOk
<1>5. QED
  BY <1>1, <1>3, <1>4, SMT

\* A byte of the payload goes to the next place of the buffer.
LEMMA FeedPayload ==
  ASSUME NEW d \in Decoders, InBuffer(d), NEW b \in Byte, d.state = 3, d.index < d.frame.length
  PROVE  /\ Feed(d, b) \in Decoders /\ InBuffer(Feed(d, b)) /\ Returned(d, b) = {}
         /\ Feed(d, b).state = 3 /\ Feed(d, b).index = d.index + 1 /\ Feed(d, b).crc = Crc[d.crc][b]
         /\ Feed(d, b).frame.length = d.frame.length /\ Feed(d, b).frame.type = d.frame.type
         /\ Feed(d, b).frame.payload = [d.frame.payload EXCEPT ![d.index] = b]
<1> DEFINE q == [d.frame.payload EXCEPT ![d.index] = b]
           g == FrameOf(d.frame.type, d.frame.length, q)
<1>1. Feed(d, b) = DecoderOf(3, d.index + 1, Crc[d.crc][b], g)
  BY DEF Feed
<1>2. d.index \in Nat /\ d.frame.length \in Lengths /\ d.frame.payload \in [Indices -> Byte]
  BY Fields, FrameFields
<1>3. /\ 3 \in States /\ d.index + 1 \in Lengths /\ d.index + 1 <= d.frame.length
      /\ ~(d.index >= d.frame.length)
  BY <1>2, Sizes, SMT DEF States, Lengths
<1>4. Crc[d.crc][b] \in Byte
  BY Fields, CrcTyped
<1>5. q \in [Indices -> Byte]
  BY <1>2
<1>6. g \in Frame /\ g.type = d.frame.type /\ g.length = d.frame.length /\ g.payload = q
  BY <1>2, <1>5, Fields, FrameFields, MakeFrame
<1>7. Returned(d, b) = {}
  BY <1>3 DEF Returned
<1> HIDE DEF g
<1>8. /\ Feed(d, b) \in Decoders /\ Feed(d, b).frame = g
      /\ Feed(d, b).state = 3 /\ Feed(d, b).index = d.index + 1 /\ Feed(d, b).crc = Crc[d.crc][b]
  BY <1>1, <1>3, <1>4, <1>6, MakeDecoder
<1>9. QED
  BY <1>3, <1>6, <1>7, <1>8 DEF InBuffer

\* The last byte ends the frame, and returns it if the checksums agree.
LEMMA FeedCheck ==
  ASSUME NEW d \in Decoders, InBuffer(d), NEW b \in Byte, d.state = 3, d.index = d.frame.length
  PROVE  /\ Feed(d, b) \in Decoders /\ InBuffer(Feed(d, b)) /\ Feed(d, b).state = 0
         /\ b = d.crc => Returned(d, b) = {d.frame}
         /\ b # d.crc => Returned(d, b) = {}
<1>1. d.index >= d.frame.length /\ ~(d.index < d.frame.length)
  BY Fields, SMT
<1>2. Feed(d, b) = Reset(d)
  BY <1>1 DEF Feed, Finished
<1>3. QED
  BY <1>1, <1>2, ResetTyped DEF Returned, Valid

\* Whatever comes over the line, the decoder stays a decoder.
LEMMA FeedTyped ==
  ASSUME NEW d \in Decoders, InBuffer(d), NEW b \in Byte
  PROVE  Feed(d, b) \in Decoders /\ InBuffer(Feed(d, b)) /\ Returned(d, b) \subseteq Frame
<1>1. d.index \in Nat /\ d.frame.length \in Nat /\ d.state \in States
  BY Fields, FrameFields
<1>2. \/ d.state = 0 \/ d.state = 1 \/ d.state = 2
      \/ d.state = 3 /\ (d.index < d.frame.length \/ d.index = d.frame.length)
  BY <1>1, SMT DEF InBuffer, States
<1>3. Returned(d, b) \subseteq Frame
  BY Fields DEF Returned
<1>4. QED
  BY <1>2, <1>3, FeedIdle, FeedType, FeedLength, FeedPayload, FeedCheck

-----------------------------------------------------------------------------
(* The invariant.                                                          *)

\* What a byte of the sender does at the sender's end.
LEMMA SenderTyped ==
  ASSUME TypeOK, SendIndexStart, NEW b \in Byte, SendByte(b)
  PROVE  /\ phase' \in {"sync", "type", "length", "payload"} /\ sent' \in Frame
         /\ sendIndex' \in 0 .. sent'.length /\ sendCrc' \in Byte
<1>1. /\ sent \in Frame /\ sent.type \in Byte /\ sent.length \in Lengths /\ sent.length \in Nat
      /\ sent.payload \in [Indices -> Byte] /\ sendIndex \in 0 .. sent.length /\ sendCrc \in Byte
      /\ MaxPayload \in Nat /\ 0 \in Byte /\ b \in Nat /\ phase \in {"sync", "type", "length", "payload"}
  BY FrameFields, Sizes DEF TypeOK
<1>2. CASE SendSync(b)
  <2>1. 0 \in Lengths /\ 0 \in 0 .. 0 /\ [i \in Indices |-> 0] \in [Indices -> Byte]
    BY <1>1, SMT DEF Lengths
  <2>2. NoFrame \in Frame /\ NoFrame.length = 0
    BY <1>1, <2>1, MakeFrame DEF NoFrame
  <2>3. QED
    BY <1>1, <1>2, <2>1, <2>2 DEF SendSync
<1>3. CASE SendType(b)
  BY <1>1, <1>3, MakeFrame, CrcTyped DEF SendType
<1>4. CASE SendLength(b)
  <2>1. b \in Lengths
    BY <1>1, <1>4, SMT DEF SendLength, Lengths
  <2>2. sent' \in Frame /\ sent'.length = b /\ sendIndex' = sendIndex
    BY <1>1, <1>4, <2>1, MakeFrame DEF SendLength
  <2>3. sendIndex = 0 /\ 0 \in 0 .. b
    BY <1>1, <1>4, SMT DEF SendLength, SendIndexStart
  <2>4. QED
    BY <1>1, <1>4, <2>2, <2>3, CrcTyped DEF SendLength
<1>5. CASE SendPayload(b)
  <2> DEFINE q == [sent.payload EXCEPT ![sendIndex] = b]
  <2>1. q \in [Indices -> Byte] /\ sent' = FrameOf(sent.type, sent.length, q)
    BY <1>1, <1>5 DEF SendPayload
  <2> HIDE DEF q
  <2>2. sent' \in Frame /\ sent'.length = sent.length
    <3>1. sent.type \in Byte /\ sent.length \in Lengths
      BY <1>1
    <3>2. QED
      BY <2>1, <3>1, MakeFrame
  <2>3. sendIndex < sent.length
    BY <1>5 DEF SendPayload
  <2>4. sendIndex + 1 \in 0 .. sent.length
    <3>1. sendIndex \in 0 .. sent.length /\ sent.length \in Nat
      BY <1>1
    <3>2. QED
      BY <2>3, <3>1, SMT
  <2>5. QED
    BY <1>1, <1>5, <2>2, <2>4, CrcTyped DEF SendPayload
<1>6. CASE SendCheck(b)
  BY <1>1, <1>6 DEF SendCheck
<1>7. QED
  BY <1>2, <1>3, <1>4, <1>5, <1>6 DEF SendByte

\* The sender starts each payload at its beginning.
LEMMA SenderStarts ==
  ASSUME SendIndexStart, NEW b, SendByte(b)
  PROVE  SendIndexStart'
  BY DEF SendByte, SendSync, SendType, SendLength, SendPayload, SendCheck, SendIndexStart

\* Every byte that a decoder takes inside a frame brings it nearer to the end.
LEMMA FeedLeft ==
  ASSUME NEW d \in Decoders, InBuffer(d), NEW b \in Byte
  PROVE  /\ Left(d) \in 1 .. Swallowed
         /\ d.state # 0 => Feed(d, b).state = 0 \/ Left(Feed(d, b)) <= Left(d) - 1
<1>1. /\ d.index \in Nat /\ d.frame.length \in Nat /\ d.state \in States /\ MaxPayload \in Nat
      /\ b \in Nat /\ d.frame.length \in Lengths
  BY Fields, FrameFields, Sizes
<1>2. Left(d) \in 1 .. Swallowed
  <2>1. d.frame.length <= MaxPayload /\ d.index <= d.frame.length
    BY <1>1, SMT DEF Lengths, InBuffer
  <2>2. QED
    BY <1>1, <2>1, SMT DEF Left, Swallowed
<1>3. CASE d.state = 1
  <2>1. Feed(d, b).state = 2
    BY <1>3, FeedType
  <2>2. QED
    BY <1>1, <1>2, <1>3, <2>1, SMT DEF Left
<1>4. CASE d.state = 2
  <2>1. CASE b <= MaxPayload
    <3>1. Feed(d, b).state = 3 /\ Feed(d, b).index = 0 /\ Feed(d, b).frame.length = b
      BY <1>4, <2>1, FeedLength
    <3>2. Left(Feed(d, b)) = b + 1 /\ Left(d) = MaxPayload + 2
      BY <1>1, <1>4, <3>1, SMT DEF Left
    <3>3. QED
      BY <1>1, <1>2, <2>1, <3>2, SMT
  <2>2. CASE b > MaxPayload
    BY <1>2, <1>4, <2>2, FeedLength
  <2>3. QED
    BY <1>1, <2>1, <2>2, SMT
<1>5. CASE d.state = 3 /\ d.index < d.frame.length
  <2>1. Feed(d, b).state = 3 /\ Feed(d, b).index = d.index + 1 /\ Feed(d, b).frame.length = d.frame.length
    BY <1>5, FeedPayload
  <2>2. QED
    BY <1>1, <1>2, <1>5, <2>1, SMT DEF Left
<1>6. CASE d.state = 3 /\ d.index = d.frame.length
  BY <1>2, <1>6, FeedCheck
<1>7. CASE d.state = 0
  BY <1>2, <1>7
<1>8. QED
  BY <1>1, <1>3, <1>4, <1>5, <1>6, <1>7, SMT DEF States, InBuffer

\* A good byte keeps the two ends aligned, or brings them together.
LEMMA DeliverAligned ==
  ASSUME TypeOK, SendIndexStart, Aligned, NEW b \in Byte, SendByte(b), Take(b),
         damage' = IF phase = "sync" THEN AtStart ELSE damage
  PROVE  Aligned' /\ GoodFrameArrives' /\ ChangedFrameIsDropped'
<1> USE DEF Aligned, InStep, InStepChanged, GoodFrameArrives, ChangedFrameIsDropped
<1>1. /\ decoder \in Decoders /\ InBuffer(decoder) /\ sendCrc \in Byte /\ decoder.crc \in Byte
      /\ decoder.frame \in Frame /\ sendIndex \in 0 .. sent.length /\ sent \in Frame
      /\ sent.length \in Nat /\ damage \in {"none", "byte", "framing"}
  BY Fields, FrameFields DEF TypeOK, Decoders, States, InBuffer
<1>2. decoder' = Feed(decoder, b) /\ received' = Returned(decoder, b)
  BY DEF Take
<1>3. CASE SendSync(b)
  <2>1. phase' = "type" /\ damage' \in {"none", "framing"} /\ (damage' = "none" => decoder.state = 0)
    BY <1>3 DEF SendSync, AtStart
  <2>2. damage' = "none" => decoder'.state = 1 /\ received' = {}
    BY <1>1, <1>2, <1>3, <2>1, FeedIdle DEF SendSync
  <2>3. QED
    BY <2>1, <2>2
<1>4. CASE SendType(b)
  <2>1. phase = "type" /\ phase' = "length" /\ damage' = damage /\ sendCrc' = Crc[0][b]
    BY <1>4 DEF SendType
  <2>2. sent'.type = b
    BY <1>1, <1>4, MakeFrame, FrameFields DEF SendType
  <2>3. damage = "none" => /\ decoder'.state = 2 /\ decoder'.crc = Crc[0][b]
                           /\ decoder'.frame.type = b /\ received' = {}
    BY <1>1, <1>2, <2>1, FeedType
  <2>4. QED
    BY <1>1, <2>1, <2>2, <2>3
<1>5. CASE SendLength(b)
  <2>1. /\ phase = "length" /\ phase' = "payload" /\ damage' = damage /\ sendCrc' = Crc[sendCrc][b]
        /\ sendIndex' = 0 /\ b <= MaxPayload
    BY <1>5 DEF SendLength, SendIndexStart
  <2>2. b \in Lengths
    BY <2>1, Sizes, SMT DEF Lengths
  <2>3. sent'.type = sent.type /\ sent'.length = b
    BY <1>1, <1>5, <2>2, MakeFrame, FrameFields DEF SendLength
  <2>4. damage # "framing" => /\ decoder'.state = 3 /\ decoder'.index = 0 /\ received' = {}
                              /\ decoder'.crc = Crc[decoder.crc][b] /\ decoder'.frame.length = b
                              /\ decoder'.frame.type = decoder.frame.type
    BY <1>1, <1>2, <2>1, FeedLength
  <2>5. damage = "byte" => decoder'.crc # sendCrc'
    BY <1>1, <2>1, <2>4, RegisterMatters
  <2>6. \A i \in 0 .. 0 - 1 : FALSE
    BY SMT
  <2>7. QED
    BY <1>1, <2>1, <2>3, <2>4, <2>5, <2>6
<1>6. CASE SendPayload(b)
  <2>1. /\ phase = "payload" /\ phase' = "payload" /\ damage' = damage /\ sendCrc' = Crc[sendCrc][b]
        /\ sendIndex' = sendIndex + 1 /\ sendIndex < sent.length
    BY <1>6 DEF SendPayload
  <2> DEFINE q == [sent.payload EXCEPT ![sendIndex] = b]
  <2>2. /\ q \in [Indices -> Byte] /\ sent' = FrameOf(sent.type, sent.length, q)
        /\ sent.payload \in [Indices -> Byte]
    BY <1>1, <1>6, FrameFields DEF SendPayload
  <2>3. sent'.type = sent.type /\ sent'.length = sent.length /\ sent'.payload = q
    <3> HIDE DEF q
    <3>1. QED
      BY <1>1, <2>2, MakeFrame, FrameFields
  <2>4. damage # "framing" =>
          /\ decoder'.state = 3 /\ decoder'.index = decoder.index + 1 /\ received' = {}
          /\ decoder'.crc = Crc[decoder.crc][b] /\ decoder'.frame.length = decoder.frame.length
          /\ decoder'.frame.type = decoder.frame.type
          /\ decoder'.frame.payload = [decoder.frame.payload EXCEPT ![decoder.index] = b]
    BY <1>1, <1>2, <2>1, FeedPayload
  <2>5. damage = "byte" => decoder'.crc # sendCrc'
    BY <1>1, <2>1, <2>4, RegisterMatters
  <2>6. damage = "none" => \A i \in 0 .. sendIndex : decoder'.frame.payload[i] = sent'.payload[i]
    <3> SUFFICES ASSUME damage = "none", NEW i \in 0 .. sendIndex
                 PROVE  decoder'.frame.payload[i] = sent'.payload[i]
      OBVIOUS
    <3>1. /\ i \in Indices /\ (i = sendIndex \/ i \in 0 .. sendIndex - 1)
      <4>1. sent.length \in Lengths
        BY <1>1, FrameFields
      <4>2. QED
        BY <1>1, <2>1, <4>1, Sizes, SMT DEF Lengths, Indices
    <3>2. decoder.index = sendIndex /\ decoder.frame.payload \in [Indices -> Byte]
      BY <1>1, <2>1, FrameFields
    <3>3. CASE i = sendIndex
      BY <2>2, <2>3, <2>4, <3>1, <3>2, <3>3
    <3>4. CASE i # sendIndex
      BY <2>1, <2>2, <2>3, <2>4, <3>1, <3>2, <3>4
    <3>5. QED
      BY <3>3, <3>4
  <2>7. 0 .. sendIndex' - 1 = 0 .. sendIndex
    BY <1>1, <2>1, SMT
  <2> HIDE DEF q
  <2>8. QED
    BY <1>1, <2>1, <2>3, <2>4, <2>5, <2>6, <2>7
<1>7. CASE SendCheck(b)
  <2>1. /\ phase = "payload" /\ phase' = "sync" /\ damage' = damage /\ b = sendCrc
        /\ sent' = sent /\ sendIndex = sent.length
    BY <1>7 DEF SendCheck
  <2>2. damage # "framing" => /\ decoder'.state = 0
                              /\ b = decoder.crc => received' = {decoder.frame}
                              /\ b # decoder.crc => received' = {}
    BY <1>1, <1>2, <2>1, FeedCheck
  <2>3. damage = "none" => SameFrame(decoder.frame, sent)
    BY <2>1 DEF SameFrame
  <2>4. QED
    BY <1>1, <2>1, <2>2, <2>3
<1>8. QED
  BY <1>3, <1>4, <1>5, <1>6, <1>7 DEF SendByte

\* A changed byte inside the frame leaves the ends at the same byte, with
\* checksums that differ; the wrong checksum drops the frame.
LEMMA ChangeAligned ==
  ASSUME TypeOK, SendIndexStart, Aligned, NEW b \in Byte, NEW w \in Byte, b # w,
         SendByte(b), Take(w),
         damage' = IF phase \in {"type", "payload"} /\ damage = "none" THEN "byte" ELSE "framing"
  PROVE  Aligned' /\ GoodFrameArrives' /\ ChangedFrameIsDropped'
<1> USE DEF Aligned, InStep, InStepChanged, GoodFrameArrives, ChangedFrameIsDropped
<1>1. /\ decoder \in Decoders /\ InBuffer(decoder) /\ sendCrc \in Byte /\ decoder.crc \in Byte
      /\ sendIndex \in 0 .. sent.length /\ sent \in Frame /\ sent.length \in Nat
  BY Fields, FrameFields DEF TypeOK, Decoders, States, InBuffer
<1>2. decoder' = Feed(decoder, w) /\ received' = Returned(decoder, w)
  BY DEF Take
<1>3. CASE damage' = "framing"
  BY <1>3
<1>4. CASE damage' = "byte" /\ damage = "none" /\ SendType(b)
  <2>1. phase = "type" /\ phase' = "length" /\ sendCrc' = Crc[0][b]
    BY <1>4 DEF SendType
  <2>2. decoder'.state = 2 /\ decoder'.crc = Crc[0][w] /\ received' = {}
    BY <1>1, <1>2, <1>4, <2>1, FeedType
  <2>3. decoder'.crc # sendCrc'
    BY <2>1, <2>2, ByteMatters, Sizes
  <2>4. QED
    BY <1>4, <2>1, <2>2, <2>3
<1>5. CASE damage' = "byte" /\ damage = "none" /\ SendPayload(b)
  <2>1. /\ phase = "payload" /\ phase' = "payload" /\ sendCrc' = Crc[sendCrc][b]
        /\ sendIndex' = sendIndex + 1 /\ sendIndex < sent.length
    BY <1>5 DEF SendPayload
  <2> DEFINE q == [sent.payload EXCEPT ![sendIndex] = b]
  <2>2. q \in [Indices -> Byte] /\ sent' = FrameOf(sent.type, sent.length, q)
    BY <1>1, <1>5, FrameFields DEF SendPayload
  <2> HIDE DEF q
  <2>3. sent'.length = sent.length
    BY <1>1, <2>2, MakeFrame, FrameFields
  <2>4. /\ decoder'.state = 3 /\ decoder'.index = decoder.index + 1 /\ received' = {}
        /\ decoder'.crc = Crc[decoder.crc][w] /\ decoder'.frame.length = decoder.frame.length
    BY <1>1, <1>2, <1>5, <2>1, FeedPayload
  <2>5. decoder.crc = sendCrc /\ decoder.index = sendIndex /\ decoder.frame.length = sent.length
    BY <1>5, <2>1
  <2>6. decoder'.crc # sendCrc'
    BY <1>1, <2>1, <2>4, <2>5, ByteMatters
  <2>7. QED
    BY <1>5, <2>1, <2>3, <2>4, <2>5, <2>6
<1>6. CASE damage' = "byte" /\ damage = "none" /\ SendCheck(b)
  <2>1. phase = "payload" /\ phase' = "sync" /\ b = sendCrc /\ sendIndex = sent.length
    BY <1>6 DEF SendCheck
  <2>2. decoder.state = 3 /\ decoder.index = decoder.frame.length /\ w # decoder.crc
    BY <1>6, <2>1
  <2>3. decoder'.state = 0 /\ received' = {}
    BY <1>1, <1>2, <2>2, FeedCheck
  <2>4. QED
    BY <1>6, <2>1, <2>3
<1>7. \/ damage' = "framing"
      \/ damage' = "byte" /\ damage = "none" /\ (phase = "type" \/ phase = "payload")
  <2>1. CASE phase \in {"type", "payload"} /\ damage = "none"
    BY <2>1
  <2>2. CASE ~(phase \in {"type", "payload"} /\ damage = "none")
    BY <2>2
  <2>3. QED
    BY <2>1, <2>2
<1>8. QED
  BY <1>3, <1>4, <1>5, <1>6, <1>7 DEF SendByte, SendSync, SendLength

\* After noise any amount of the false frame may be left.
LEMMA NoiseBounded ==
  ASSUME decoder' \in Decoders, InBuffer(decoder)', sinceNoise' = 0
  PROVE  SwallowsBounded'
<1>1. Left(decoder') \in 1 .. Swallowed
  BY Sizes, FeedLeft DEF InBuffer
<1>2. 0 + Left(decoder') <= Swallowed
  <2>1. Swallowed \in Nat
    BY Sizes, SMT DEF Swallowed
  <2>2. QED
    BY <1>1, <2>1, SMT
<1>3. QED
  BY <1>2 DEF SwallowsBounded

\* A good byte is one less to swallow.
LEMMA DeliverBounded ==
  ASSUME TypeOK, SwallowsBounded, Aligned', NEW b \in Byte, SendByte(b), Take(b),
         damage' = IF phase = "sync" THEN AtStart ELSE damage,
         sinceNoise' = IF phase # "sync" /\ b = SyncByte THEN 0
                       ELSE IF sinceNoise < Swallowed THEN sinceNoise + 1 ELSE sinceNoise
  PROVE  SwallowsBounded'
<1>1. decoder \in Decoders /\ InBuffer(decoder) /\ sinceNoise \in 0 .. Swallowed
  BY DEF TypeOK, Decoders, States, InBuffer
<1>2. decoder' = Feed(decoder, b) /\ decoder' \in Decoders /\ InBuffer(decoder')
  BY <1>1, FeedTyped DEF Take
<1>3. CASE InTheFrame' \/ decoder'.state = 0
  BY <1>3 DEF SwallowsBounded
<1>4. CASE sinceNoise' = 0
  BY <1>2, <1>4, NoiseBounded DEF InBuffer
<1>5. CASE ~InTheFrame' /\ decoder'.state # 0 /\ sinceNoise' # 0
  <2>1. damage' = "framing"
    BY <1>5 DEF InTheFrame, Aligned
  <2>2. decoder.state # 0
    <3>1. SUFFICES ASSUME decoder.state = 0 PROVE FALSE
      OBVIOUS
    <3>2. phase # "sync"
      BY <2>1, <3>1 DEF AtStart
    <3>3. b # SyncByte
      BY <1>5, <3>2
    <3>4. QED
      BY <1>1, <1>2, <1>5, <3>1, <3>3, FeedIdle
  <2>3. ~InTheFrame
    BY <2>1 DEF InTheFrame
  <2>4. sinceNoise + Left(decoder) <= Swallowed
    BY <2>2, <2>3 DEF SwallowsBounded
  <2>5. /\ Left(decoder) \in 1 .. Swallowed /\ Left(decoder') \in 1 .. Swallowed
        /\ Left(decoder') <= Left(decoder) - 1
    BY <1>1, <1>2, <1>5, <2>2, FeedLeft
  <2>6. sinceNoise' <= sinceNoise + 1 /\ sinceNoise' \in Nat
    <3>1. Swallowed \in Nat
      BY Sizes, SMT DEF Swallowed
    <3>2. QED
      BY <1>1, <1>5, <3>1, SMT
  <2>7. sinceNoise' + Left(decoder') <= Swallowed
    <3>1. Swallowed \in Nat
      BY Sizes, SMT DEF Swallowed
    <3>2. QED
      BY <1>1, <2>4, <2>5, <2>6, <3>1, SMT
  <2>8. QED
    BY <2>7 DEF SwallowsBounded
<1>6. QED
  BY <1>3, <1>4, <1>5

-----------------------------------------------------------------------------
(* The steps.                                                              *)

\* The invariant without its parts about single actions.
Typed ==
  /\ decoder \in Decoders /\ InBuffer(decoder) /\ received \subseteq Frame
  /\ phase \in {"sync", "type", "length", "payload"} /\ sent \in Frame
  /\ sendIndex \in 0 .. sent.length /\ sendCrc \in Byte
  /\ damage \in {"none", "byte", "framing"}
  /\ sinceNoise \in 0 .. Swallowed /\ noiseLeft \in 0 .. MaxNoise

LEMMA TypedIsTypeOK == (Typed <=> TypeOK) /\ (Typed' <=> TypeOK')
  BY DEF Typed, TypeOK, Decoders, States, InBuffer

LEMMA DeliverKeeps == IInv /\ Deliver => IInv'
<1>1. SUFFICES ASSUME IInv, Deliver PROVE IInv'
  OBVIOUS
<1>2. PICK b \in Byte :
        /\ SendByte(b) /\ Take(b)
        /\ damage' = IF phase = "sync" THEN AtStart ELSE damage
        /\ sinceNoise' = IF phase # "sync" /\ b = SyncByte THEN 0
                         ELSE IF sinceNoise < Swallowed THEN sinceNoise + 1 ELSE sinceNoise
        /\ noiseLeft' = noiseLeft
  BY <1>1 DEF Deliver
<1>3. TypeOK /\ Typed /\ SendIndexStart /\ Aligned /\ SwallowsBounded
  BY <1>1, TypedIsTypeOK DEF IInv
<1>4. Aligned' /\ GoodFrameArrives' /\ ChangedFrameIsDropped'
  BY <1>2, <1>3, DeliverAligned
<1>5. SwallowsBounded'
  BY <1>2, <1>3, <1>4, DeliverBounded
<1>6. SendIndexStart'
  BY <1>2, <1>3, SenderStarts
<1>7. decoder' \in Decoders /\ InBuffer(decoder') /\ received' \subseteq Frame
  BY <1>2, <1>3, FeedTyped DEF Take, Typed
<1>8. /\ phase' \in {"sync", "type", "length", "payload"} /\ sent' \in Frame
      /\ sendIndex' \in 0 .. sent'.length /\ sendCrc' \in Byte
  BY <1>2, <1>3, SenderTyped
<1>9. damage' \in {"none", "byte", "framing"}
  BY <1>2, <1>3 DEF Typed, AtStart
<1>10. sinceNoise' \in 0 .. Swallowed
  <2>1. Swallowed \in Nat /\ sinceNoise \in 0 .. Swallowed
    BY <1>3, Sizes, SMT DEF Swallowed, Typed
  <2>2. QED
    BY <1>2, <2>1, SMT
<1>11. noiseLeft' \in 0 .. MaxNoise
  BY <1>2, <1>3 DEF Typed
<1>12. TypeOK'
  <2>1. Typed'
    BY <1>7, <1>8, <1>9, <1>10, <1>11 DEF Typed, InBuffer
  <2>2. QED
    BY <2>1, TypedIsTypeOK
<1>13. QED
  BY <1>4, <1>5, <1>6, <1>12 DEF IInv

\* What every kind of noise has in common.
LEMMA NoiseTyped ==
  ASSUME Typed, Noise
  PROVE  sinceNoise' = 0 /\ sinceNoise' \in 0 .. Swallowed /\ noiseLeft' \in 0 .. MaxNoise
<1>1. MaxNoise \in Nat /\ noiseLeft \in 0 .. MaxNoise /\ noiseLeft > 0 /\ noiseLeft' = noiseLeft - 1
  BY DecoderAssumption DEF Typed, Noise
<1>2. noiseLeft' \in 0 .. MaxNoise
  BY <1>1, SMT
<1>3. sinceNoise' = 0
  BY DEF Noise
<1>4. 0 \in 0 .. Swallowed
  BY Sizes, SMT DEF Swallowed
<1>5. QED
  BY <1>2, <1>3, <1>4

LEMMA ChangeKeeps == IInv /\ Change => IInv'
<1>1. SUFFICES ASSUME IInv, Change PROVE IInv'
  OBVIOUS
<1>2. PICK b \in Byte, w \in NoiseBytes :
        /\ b # w /\ SendByte(b) /\ Take(w)
        /\ damage' = IF phase \in {"type", "payload"} /\ damage = "none" THEN "byte" ELSE "framing"
  BY <1>1 DEF Change
<1>3. TypeOK /\ Typed /\ SendIndexStart /\ Aligned /\ w \in Byte
  BY <1>1, TypedIsTypeOK, DecoderAssumption DEF IInv
<1>4. Aligned' /\ GoodFrameArrives' /\ ChangedFrameIsDropped'
  BY <1>2, <1>3, ChangeAligned
<1>5. SendIndexStart'
  BY <1>2, <1>3, SenderStarts
<1>6. decoder' \in Decoders /\ InBuffer(decoder') /\ received' \subseteq Frame
  BY <1>2, <1>3, FeedTyped DEF Take, Typed
<1>7. sinceNoise' = 0 /\ sinceNoise' \in 0 .. Swallowed /\ noiseLeft' \in 0 .. MaxNoise
  BY <1>1, <1>3, NoiseTyped DEF Change
<1>8. SwallowsBounded'
  BY <1>6, <1>7, NoiseBounded DEF InBuffer
<1>9. /\ phase' \in {"sync", "type", "length", "payload"} /\ sent' \in Frame
      /\ sendIndex' \in 0 .. sent'.length /\ sendCrc' \in Byte
  BY <1>2, <1>3, SenderTyped
<1>10. TypeOK'
  <2>1. damage' \in {"none", "byte", "framing"}
    BY <1>2
  <2>2. Typed'
    BY <1>6, <1>7, <1>9, <2>1 DEF Typed, InBuffer
  <2>3. QED
    BY <2>2, TypedIsTypeOK
<1>11. QED
  BY <1>4, <1>5, <1>8, <1>10 DEF IInv

LEMMA LoseKeeps == IInv /\ Lose => IInv'
<1>1. SUFFICES ASSUME IInv, Lose PROVE IInv'
  OBVIOUS
<1>2. PICK b \in Byte : SendByte(b)
  BY <1>1 DEF Lose
<1>3. TypeOK /\ Typed /\ SendIndexStart
  BY <1>1, TypedIsTypeOK DEF IInv
<1>4. decoder' = decoder /\ damage' = "framing" /\ received' = {}
  BY <1>1 DEF Lose
<1>5. SendIndexStart'
  BY <1>2, <1>3, SenderStarts
<1>6. sinceNoise' = 0 /\ sinceNoise' \in 0 .. Swallowed /\ noiseLeft' \in 0 .. MaxNoise
  BY <1>1, <1>3, NoiseTyped DEF Lose
<1>7. decoder' \in Decoders /\ InBuffer(decoder')
  BY <1>3, <1>4 DEF Typed
<1>8. SwallowsBounded'
  BY <1>6, <1>7, NoiseBounded DEF InBuffer
<1>9. /\ phase' \in {"sync", "type", "length", "payload"} /\ sent' \in Frame
      /\ sendIndex' \in 0 .. sent'.length /\ sendCrc' \in Byte
  BY <1>2, <1>3, SenderTyped
<1>10. Typed'
  BY <1>4, <1>6, <1>7, <1>9 DEF Typed, InBuffer
<1>11. Aligned' /\ GoodFrameArrives' /\ ChangedFrameIsDropped'
  BY <1>4 DEF Aligned, GoodFrameArrives, ChangedFrameIsDropped
<1>12. QED
  BY <1>5, <1>8, <1>10, <1>11, TypedIsTypeOK DEF IInv

LEMMA AddKeeps == IInv /\ Add => IInv'
<1>1. SUFFICES ASSUME IInv, Add PROVE IInv'
  OBVIOUS
<1>2. PICK w \in NoiseBytes : Take(w)
  BY <1>1 DEF Add
<1>3. TypeOK /\ Typed /\ SendIndexStart /\ w \in Byte
  BY <1>1, TypedIsTypeOK, DecoderAssumption DEF IInv
<1>4. /\ damage' = "framing" /\ phase' = phase /\ sent' = sent
      /\ sendIndex' = sendIndex /\ sendCrc' = sendCrc
  BY <1>1 DEF Add, sender
<1>5. sinceNoise' = 0 /\ sinceNoise' \in 0 .. Swallowed /\ noiseLeft' \in 0 .. MaxNoise
  BY <1>1, <1>3, NoiseTyped DEF Add
<1>6. decoder' \in Decoders /\ InBuffer(decoder') /\ received' \subseteq Frame
  BY <1>2, <1>3, FeedTyped DEF Take, Typed
<1>7. SwallowsBounded'
  BY <1>5, <1>6, NoiseBounded DEF InBuffer
<1>8. Typed'
  BY <1>3, <1>4, <1>5, <1>6 DEF Typed, InBuffer
<1>9. Aligned' /\ GoodFrameArrives' /\ ChangedFrameIsDropped' /\ SendIndexStart'
  BY <1>3, <1>4 DEF Aligned, GoodFrameArrives, ChangedFrameIsDropped, SendIndexStart
<1>10. QED
  BY <1>7, <1>8, <1>9, TypedIsTypeOK DEF IInv

\* Both ends begin between two frames.
LEMMA InitTyped == Init => IInv
<1>1. SUFFICES ASSUME Init PROVE IInv
  OBVIOUS
<1>2. /\ 0 \in Lengths /\ 0 \in States /\ 0 \in Byte /\ 0 \in 0 .. 0 /\ 0 <= 0
      /\ Swallowed \in 0 .. Swallowed /\ MaxNoise \in 0 .. MaxNoise
  BY Sizes, DecoderAssumption, SMT DEF Lengths, States, Swallowed
<1>3. NoFrame \in Frame /\ NoFrame.length = 0
  <2>1. [i \in Indices |-> 0] \in [Indices -> Byte]
    BY <1>2
  <2>2. QED
    BY <1>2, <2>1, MakeFrame DEF NoFrame
<1>4. decoder \in Decoders /\ decoder.state = 0 /\ InBuffer(decoder)
  BY <1>1, <1>2, <1>3, MakeDecoder DEF Init, InBuffer
<1>5. Typed
  BY <1>1, <1>2, <1>3, <1>4 DEF Init, Typed
<1>6. SendIndexStart /\ Aligned /\ SwallowsBounded /\ GoodFrameArrives /\ ChangedFrameIsDropped
  BY <1>1, <1>4 DEF Init, SendIndexStart, Aligned, SwallowsBounded, GoodFrameArrives,
                    ChangedFrameIsDropped
<1>7. QED
  BY <1>5, <1>6, TypedIsTypeOK DEF IInv

\* Nothing else in the invariant depends on more than the variables.
LEMMA StutterKeeps == IInv /\ UNCHANGED vars => IInv'
  BY DEF IInv, vars, sender, ghosts, TypeOK, SendIndexStart, Aligned, InStep, InStepChanged,
         SwallowsBounded, InTheFrame, GoodFrameArrives, ChangedFrameIsDropped, InBuffer

-----------------------------------------------------------------------------
(* The theorems.                                                           *)

\* The inductive invariant holds of the decoder, the sender and the line.
THEOREM Invariance == Spec => []IInv
<1>1. IInv /\ [Next]_vars => IInv'
  BY DeliverKeeps, ChangeKeeps, LoseKeeps, AddKeeps, StutterKeeps DEF Next
<1>2. QED
  BY <1>1, InitTyped, PTL DEF Spec

\* The decoder stays within its payload buffer, whatever length, payload or
\* noise comes over the line (the test of the length in Feed).
THEOREM StaysInBuffer == Spec => []TypeOK
<1>1. IInv => TypeOK
  BY DEF IInv
<1>2. QED
  BY <1>1, Invariance, PTL

\* Feed returns every frame of Encode that arrives as it was sent and begins
\* when the decoder waits for one.
THEOREM ReturnsGoodFrames == Spec => []GoodFrameArrives
<1>1. IInv => GoodFrameArrives
  BY DEF IInv
<1>2. QED
  BY <1>1, Invariance, PTL

\* The checksum of Feed finds any one changed byte of a frame.
THEOREM DropsChangedFrames == Spec => []ChangedFrameIsDropped
<1>1. IInv => ChangedFrameIsDropped
  BY DEF IInv
<1>2. QED
  BY <1>1, Invariance, PTL

\* Feed waits for the beginning of a frame again MaxPayload + 3 good bytes
\* after noise, at the next byte that begins one.
THEOREM FindsTheNextFrame == Spec => []Resynchronises
<1>1. IInv => Resynchronises
  <2>1. SUFFICES ASSUME IInv, sinceNoise = Swallowed, phase = "sync", decoder.state # 0
                 PROVE  FALSE
    BY DEF Resynchronises
  <2>2. Swallowed + Left(decoder) <= Swallowed
    BY <2>1 DEF IInv, SwallowsBounded, InTheFrame
  <2>3. Left(decoder) \in 1 .. Swallowed
    BY <2>1, Sizes, FeedLeft DEF IInv, TypeOK, Decoders, States, InBuffer
  <2>4. Swallowed \in Nat
    BY Sizes, SMT DEF Swallowed
  <2>5. QED
    BY <2>2, <2>3, <2>4, SMT
<1>2. QED
  BY <1>1, Invariance, PTL

=============================================================================

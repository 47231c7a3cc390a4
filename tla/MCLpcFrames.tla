---------------------------- MODULE MCLpcFrames -----------------------------
(***************************************************************************)
(* Instance of LpcDecoder with the protocol's own checksum and bytes, and, *)
(* in behaviours of their own, the checksum's register as it is fed with   *)
(* the bytes of a message.                                                 *)
(***************************************************************************)
EXTENDS LpcDecoder, LpcCrc

CONSTANT Message      \* the bytes of messages

VARIABLE register     \* the checksum, or Unused in a behaviour of the decoder

AllBytes == 0 .. 255
Unused == 256

\* UpdateCrc, with its loop done once for each byte.
CrcTable ==
  LET shifted == [b \in AllBytes |-> Shifted(b)]
  IN [c \in AllBytes |-> [v \in AllBytes |-> shifted[c ^^ v]]]

FeedRegister ==
  /\ register # Unused
  /\ \E value \in Message : register' = UpdateCrc(register, value)
  /\ UNCHANGED vars

Line == register = Unused /\ Next /\ UNCHANGED register

FramesInit == Init /\ register \in {0, Unused}

FramesSpec == FramesInit /\ [][FeedRegister \/ Line]_<<vars, register>>

-----------------------------------------------------------------------------
\* The register holds a byte, and the next one takes it to the remainder of
\* what the two stand for: UpdateCrc shifts and truncates as division would.
CrcIsRemainder ==
  register # Unused =>
    /\ register \in AllBytes
    /\ \A value \in Message :
         UpdateCrc(register, value) = Remainder(256 * (register ^^ value))

=============================================================================

\* Frames of up to two bytes; types and noise that can be taken for lengths and
\* for the sync byte; messages that reach every value of the register.
CONSTANTS
  Byte <- AllBytes
  SyncByte = 165
  MaxPayload = 2
  Crc <- CrcTable
  Types = {1, 2}
  PayloadBytes = {0, 165}
  NoiseBytes = {0, 2, 165}
  MaxNoise = 2
  Message = {0, 1, 2, 16, 128, 165, 255}
SPECIFICATION FramesSpec
INVARIANTS
  TypeOK
  GoodFrameArrives
  ChangedFrameIsDropped
  Resynchronises
  CrcIsRemainder

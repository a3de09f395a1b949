SPECIFICATION CodecsSpec
CONSTANTS
  MaxData = 3
  Xor <- XorBytes
  Frames <- SomeFrames
  Noise = {4, 255}
  MaxInFlight = 2
  MaxPayload = 2
  ReadBytes = 5
  ChunkBytes = 2
  Writings <- SomeWritings
  MaxWritings = 3
INVARIANTS DecoderFits OnFrameBoundaries ParserFits EveryByteCounts AnswersAreWhole
PROPERTY FramesAreFaithful

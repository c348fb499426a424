SPECIFICATION RingSpec
CONSTANTS
  Channels = 2
  Capacity = 8
  BlockFrames = 2
  Sounds = {1, 2}
  MaxChunk = 5
  Silence = Silence
INVARIANTS
  ChannelsApart
PROPERTIES
  ImplementsQueue

SPECIFICATION FairSpec
CONSTANTS
  Voices = 2
  Byte = 6
  Memory <- Songs
  Streams <- TwoSongs
  Envelopes <- SomeEnvelopes
  Pitches = {0, 1}
  MaxCalls = 4
  MaxCommands = 4
INVARIANTS StopsAsAsked Silenced
PROPERTIES WaitEnds StreamsEnd
CHECK_DEADLOCK FALSE

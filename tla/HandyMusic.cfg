SPECIFICATION FairSpec
CONSTANTS
    Voices = 2
    Depth = 2
    Byte = 2
    Script <- TheScript
    Instruments <- TheInstruments
    Effects <- TheEffects
    Song <- TheSong
    Slots = {1}
    Lengths = {0, 3}
    MaxCalls = 4
INVARIANTS LoopsInBounds SongStops
PROPERTIES NoHangingNote HandedBack
CHECK_DEADLOCK FALSE

SPECIFICATION Spec
CONSTANTS
    Configs <- MCConfigs
    MaxAlignment = 16
    Primes = {2, 3}
    Top = 12
    Page = 4
INVARIANTS
    SegmentsApart
    SegmentsInside
    AlignmentsKept
    FileAsLinked
    Resident
    Relocated
CHECK_DEADLOCK FALSE

SPECIFICATION FairSpec
CONSTANTS
  Table <- LinkedTable
  MaxVbl = 3
INVARIANTS NestsOnce
PROPERTIES LostOnlyLate CountedOnce EngineComesFree

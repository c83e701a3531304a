SPECIFICATION Spec
CONSTANTS
  Org = 8
  End = 46
  Word = 64
  Admin = 2
  MinBlock = 6
  Requests = {1, 5, 9}
  Arrays <- SmallArray
  Donations = {}
INVARIANTS AvailHonest KeepsPromises NoLeak Coalesced
PROPERTIES ImplementsBlocks

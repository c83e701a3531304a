SPECIFICATION Spec
CONSTANTS
  Org = 8
  End = 38
  Word = 64
  Admin = 2
  MinBlock = 6
  Requests = {1, 5, 9}
  Arrays = {}
  Donations <- AroundHeap
INVARIANTS DonationsKept AvailHonest

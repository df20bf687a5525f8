CONSTANTS
  Members = {1, 2, 3}
  Starter = 1
  Kinds <- MCKinds
  MaxJoins = 2
  Restarting = {3}
SPECIFICATION FairSpec
INVARIANTS
  SameSession
  NothingRefused
  NothingWithheld
PROPERTIES
  FixedBeforeReveal
  EveryoneFinishes
CHECK_DEADLOCK FALSE

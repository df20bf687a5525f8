CONSTANTS
  SlotCount = 4
  Keys = {k1, k2}
  Changes = {c1, c2, c3, c4}
  k1 = k1
  k2 = k2
  c1 = c1
  c2 = c2
  c3 = c3
  c4 = c4
  NoSlot = NoSlot
  NoSave = NoSave
  ReadFaults = FALSE
  Faults = TRUE
  PowerCuts = TRUE
SPECIFICATION Spec
SYMMETRY Symmetry
INVARIANTS
  AckedSurvives
PROPERTIES
  NewerStays
  KeepsPromise
CHECK_DEADLOCK FALSE

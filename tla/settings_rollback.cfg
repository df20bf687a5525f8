CONSTANTS
  SlotCount = 3
  Keys = {k1}
  Changes = {c1, c2, c3, c4}
  k1 = k1
  c1 = c1
  c2 = c2
  c3 = c3
  c4 = c4
  NoSlot = NoSlot
  NoSave = NoSave
  ReadFaults = TRUE
  Faults = FALSE
  PowerCuts = FALSE
SPECIFICATION Spec
SYMMETRY Symmetry
INVARIANTS
  AckedSurvives
CHECK_DEADLOCK FALSE

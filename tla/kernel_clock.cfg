CONSTANTS
  Wrap = 8
  Per = 3
  MaxCycles = 26
SPECIFICATION ClockSpec
INVARIANTS
  NoCycleLost
CHECK_DEADLOCK FALSE

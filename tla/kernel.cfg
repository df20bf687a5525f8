CONSTANTS
  MaxTasks = 3
  NoTask = NoTask
  Launchers <- MCLaunchers
  MaxNesting = 2
SPECIFICATION FairSpec
INVARIANTS
  LockHolderRuns
  OwedSwitchRemembered
  OwnContext
  PrivilegeFollowsApp
PROPERTIES
  AppEndsInItsLauncher
  OverflowIsCaught
  ImplementsRoundRobin
CHECK_DEADLOCK FALSE

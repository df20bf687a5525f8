CONSTANTS
  MaxTicks = 4
  ann = ann
  bob = bob
  NoLimit = NoLimit
  NoTx = NoTx
  Wrong = Wrong
  NotStarted = NotStarted
  Rules <- MCRules
  Txs <- MCTxs
  Users <- MCUsers
  Totp <- MCTotp
  Period = 2
  Lockout = 2
  MaxRefusals = 2
  TickWrap = 3
  Window = 2
  TotpWindow = 2
  MaxCode <- MCMaxCode
  MaxRestarts = 1
SPECIFICATION Spec
INVARIANTS
  VelocityHolds
  LocalCodeOnce
  OtpOnce
CHECK_DEADLOCK FALSE

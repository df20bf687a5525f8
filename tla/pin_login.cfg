CONSTANTS
  p1 = p1
  p2 = p2
  s1 = s1
  s2 = s2
  Prefixes = {p1, p2}
  Suffixes = {s1, s2}
  Tricks <- MCTricks
  Secrets = {w1, w2}
  MaxAttempts = 3
  Nothing = Nothing
  Region = Region
  GateFaults = TRUE
SPECIFICATION LoginSpec
INVARIANTS
  LoginTypeOK
  NeverStale
  SessionIsReal
  CountIsTheGates

CONSTANTS
  ABANDON_LIMIT = 3
  ATTEMPT_COOLDOWN = 1
  PROMPT = 2
  MaxPrompts = 3
SPECIFICATION FairSpec
INVARIANT SilentBounded
PROPERTIES YesIsForItsPrompt UnpairedEnds DeadCodeLeaves BlockGetsShown

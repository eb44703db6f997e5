SPECIFICATION FairSpec
CONSTANTS
  p1 = p1
  Pid = {p1, p2}
  MaxStopped = 1
  NoPid = NoPid
  Input <- MCInput
  MaxChars = 5
  MaxTokens = 6
INVARIANTS ParsesGrammar Wired ForegroundFirst
PROPERTIES JobEnds
CHECK_DEADLOCK FALSE

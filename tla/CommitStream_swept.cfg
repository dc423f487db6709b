SPECIFICATION LiveSpec
CONSTANTS
  s1 = s1
  s2 = s2
  main = main
  Streams = {s2}
  Channels = {main}
  Nothing = Nothing
  ResponseBuffer = 1
  SubscriberBuffer = 1
  BranchOf <- OneBranch
  SinceOf <- Since
  HasTimeout <- Timeouts
  KeptNotices = 1
  HookRuns = 1
  MaxCommits = 2
  MaxUpsets = 1
PROPERTY OnlyStaleAreSwept
CHECK_DEADLOCK FALSE

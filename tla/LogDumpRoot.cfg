SPECIFICATION FairSpec
CONSTANTS
  Cats <- EventOnly
  Roots <- TwoRoots
  StartOrder <- EventOrder
  SnapOrder <- EventOrder
  PollOrder <- EventOrder
  CloseOrder <- EventOrder
  ClosesOnStop <- EventOnly
  EnableFirst <- EventOnly
  MaxFd = 1
  MaxLines = 1
  Stdin = Stdin
  Free = Free
PROPERTIES
  LosesByStore
  ExitsByLoss
  FollowsProp
  FollowsRoot
CHECK_DEADLOCK FALSE

SPECIFICATION FairSpec
CONSTANTS
  Cats <- MainOnly
  Roots <- OneRoot
  StartOrder <- MainOrder
  SnapOrder <- MainOrder
  PollOrder <- MainOrder
  CloseOrder <- MainOrder
  ClosesOnStop <- None
  EnableFirst <- None
  MaxFd = 2
  MaxLines = 1
  Stdin = Stdin
  Free = Free
PROPERTIES
  StartedIsWritten

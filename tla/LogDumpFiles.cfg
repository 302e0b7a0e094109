SPECIFICATION Spec
CONSTANTS
  Cats <- MainKernel
  Roots <- OneRoot
  StartOrder <- MainKernelOrder
  SnapOrder <- KernelMainOrder
  PollOrder <- KernelMainOrder
  CloseOrder <- MainKernelOrder
  ClosesOnStop <- None
  EnableFirst <- None
  MaxFd = 2
  MaxLines = 1
  Stdin = Stdin
  Free = Free
INVARIANTS
  TypeOK
  WriteToOwnFile
PROPERTIES
  AgreementStable

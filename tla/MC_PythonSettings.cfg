CONSTANTS
  None = None
  Depth = 1
  MaxRequests = 2

SPECIFICATION Spec

INVARIANT TypeOK
INVARIANT HookCallsAsSpecified
INVARIANT ProjectRootIsPriorityRoot

CHECK_DEADLOCK FALSE

CONSTANTS
  p1 = p1
  p2 = p2
  None = None
  Ports <- MC_Ports
  MaxStarts = 3
  Timeout = 2
  MaxForeign = 1

SPECIFICATION Spec

INVARIANT TypeOK
PROPERTY BenchmarkTerminates

\* the benchmark process exits when done or when an exception escapes
CHECK_DEADLOCK FALSE

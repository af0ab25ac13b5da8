CONSTANTS
  t1 = t1
  t2 = t2
  p1 = p1
  p2 = p2
  p3 = p3
  None = None
  Threads <- MC_Threads
  Ports <- MC_Ports
  MaxSpawns = 3
  KeepLogfiles = FALSE

SPECIFICATION Spec

PROPERTY ReleasedEngineExits
VIEW MC_LifecycleView

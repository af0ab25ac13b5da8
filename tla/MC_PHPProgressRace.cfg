CONSTANTS
  t1 = t1
  t2 = t2
  f1 = f1
  f2 = f2
  f3 = f3
  r1 = r1
  r2 = r2
  None = None
  Threads <- MC_Threads
  Files <- MC_Files
  Roots <- MC_Roots
  FileRoot <- MC_FileRoot
  MaxProjects = 3
  MaxIndexers = 2

SPECIFICATION Spec

INVARIANT GetProgressNeverRaises

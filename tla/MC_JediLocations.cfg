CONSTANTS
  MaxChars = 2
  None = None

SPECIFICATION Spec

INVARIANT SubcommandsLandOnDefinitions

CONSTANTS
  Sups = {s1, s2}
  LateSups = {s2}
  MaxCrashes = 1
  MaxStarts = 3
  InitPolls = 2
  NoProc = NoProc
  EmptyFile = EmptyFile
  MaxReuses = 0
  Signalled = {s1}
  DirStates = {"initialised"}
SPECIFICATION Spec
INVARIANT SingleInstance

CONSTANTS
  Sups = {s1, s2}
  LateSups = {s2}
  MaxCrashes = 0
  MaxStarts = 2
  InitPolls = 2
  NoProc = NoProc
  EmptyFile = EmptyFile
  MaxReuses = 0
  Signalled = {}
  DirStates = {"absent", "partial", "initialised"}
SPECIFICATION Spec
PROPERTY DataDirSafe

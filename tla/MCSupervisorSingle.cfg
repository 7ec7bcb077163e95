CONSTANTS
  Sups = {s1}
  LateSups = {}
  MaxCrashes = 2
  MaxStarts = 3
  InitPolls = 2
  NoProc = NoProc
  EmptyFile = EmptyFile
  MaxReuses = 1
  Signalled = {s1}
  DirStates = {"absent", "partial", "initialised"}
SPECIFICATION Spec
INVARIANT TypeOK
PROPERTY ServersRestarted

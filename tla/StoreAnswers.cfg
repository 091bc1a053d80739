SPECIFICATION Spec
CONSTANTS
  b1 = b1
  Backends <- OneBackend
  MaxRules = 3
  MaxRewrites = 3
INVARIANTS
  PermitsComeFromCompleteFile
  LoadedIsComplete
  

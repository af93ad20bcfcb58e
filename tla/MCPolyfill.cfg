SPECIFICATION Spec
CONSTANTS
  log = log
  nothing = nothing
  Functions <- MCFunctions
  Missing = nothing
  Binary <- MCBinary
  Starts <- MCStarts
  Rewrites <- MCRewrites
  MaxNames = 3
  MaxTypes = 4
  MaxTableSize = 4
  MaxPages = 2
  PageSize = 4
  MaxInstances = 2
  MaxCalls = 1
  MaxReloads = 1
INVARIANTS
  TypeOK
  FreedOnce
  OneImage
  ImportsLinked
  ExportsListed
  ErrorsKeepClass
  InstalledWhereImported
PROPERTIES
  PromisesSettle

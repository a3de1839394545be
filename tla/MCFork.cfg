CONSTANTS
  Task <- ForkTask
  Depends <- ForkDepends
  Setscene <- ForkSetscene
  Targets = {"image"}
  HardDepsRev <- ForkHardDeps
  Hash = {0, 1}
  InitHash <- ZeroHash
  Recipe <- One
  TaskName <- Same
  PN <- Same
  Stamp <- Same
  Rank <- One
  NumberThreads <- Unlimited
  NumberTasks = 2
  NoExec = {"b_comp"}
  InitStamps <- ForkStamps
  MayBeValid <- ForkSetscene
  DepValid = {TRUE, FALSE}
  MayFail <- Both
  Configurations <- HaltOrContinueOrSceneOnly
  IgnoreTasks = {}
  MayInterrupt = {}
  MaxUpdates = 2
  ActiveFloor = 0
SPECIFICATION Spec
INVARIANTS DepsComplete ActiveExact InputsPresent NoRunUnderRestore HashesKept EndIsRight CoveredXorNotCovered WorkerInv
PROPERTIES RefinesTaskGraph

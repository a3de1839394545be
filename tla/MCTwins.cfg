CONSTANTS
  Task <- TwinsTask
  Depends <- TwinsDepends
  Setscene <- TwinsSetscene
  Targets = {"m1_image", "m2_image"}
  HardDepsRev <- NoHardDeps
  Hash = {0, 1}
  InitHash <- LibHash
  Recipe <- One
  TaskName <- TwinsPN
  PN <- TwinsPN
  Stamp <- LibStamp
  Rank <- TwinsRank
  NumberThreads <- OneOfApp
  NumberTasks = 2
  NoExec = {}
  InitStamps = {}
  MayBeValid <- TwinsSetscene
  DepValid = {TRUE, FALSE}
  MayFail <- TwinsFail
  Configurations <- HaltOrEnforce
  IgnoreTasks = {"m1_lib", "m1_app", "m1_image", "m2_image"}
  MayInterrupt = {"stop", "force"}
  MaxUpdates = 2
  ActiveFloor <- MinusTwo
SPECIFICATION Spec
INVARIANTS TypeOK RunsApart NoSpuriousFailure
PROPERTIES Ends

CONSTANTS
  Client = {a, b}
  NoClient = nobody
  Commands = {"buildTargets", "parseFiles", "findConfigFiles", "resetCooker", "stateShutdown", "stateForceShutdown", "terminateServer"}
  MaxRequests = 2
  ServerTimeout = "none"
SPECIFICATION Spec
INVARIANTS OneCommand
PROPERTIES FreshClient CommandsAnswered ServerEnds
CHECK_DEADLOCK FALSE

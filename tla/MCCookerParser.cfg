CONSTANTS
  Parser = {p1, p2}
  Recipe = {r1, r2, r3}
  Broken = {r3}
  PipeSize = 2
  MaxKills = 1
SPECIFICATION Spec
INVARIANTS ParsedMeansAll NoFalseAlarm NothingLost
PROPERTIES ParserEnds
CHECK_DEADLOCK FALSE

SPECIFICATION Spec
INVARIANTS ExitCodeComesLast NothingLost
PROPERTIES TornDown
CONSTANTS
    Task = {t1, t2}
    None = None
    MaxEvents = 1
    PipeSize = 2
    MaxDeaths = 1
CHECK_DEADLOCK FALSE

SPECIFICATION Spec
CONSTANTS
    None = None
    Client = {c1, c2}
    Conn = {k1, k2}
    Checksum = {1, 2}
    Upstreams = {TRUE, FALSE}
    Starts = {0}
    MaxRequests = 2
    MaxUpstream = 2
    MaxTries = 1
    MaxFaults = 1
INVARIANTS AnswersKept NoHistoryGrows
PROPERTIES RequestsEnd
CHECK_DEADLOCK FALSE

SPECIFICATION Spec
INVARIANTS AnswerIsRecorded EquivalentUnified
PROPERTIES UnihashStable SweepKeepsMarked RequestsEnd
CONSTANTS
    t1 = t1
    t2 = t2
    o1 = o1
    o2 = o2
    m1 = m1
    c1 = c1
    c2 = c2
    None = None
    Taskhash = {t1, t2}
    Outhash = {o1, o2}
    Mark = {m1}
    Client = {c1, c2}
    Conn = {k1, k2}
    Backend = "sqlite"
    MaxRequests = 3
    MaxTries = 1
    MaxFaults = 1
    Requests <- MCRequests
    Upstreams <- MCUpstreams
CHECK_DEADLOCK FALSE

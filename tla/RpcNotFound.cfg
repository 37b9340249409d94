\* Three messages, two connections, one id: every pair of a watch, its
\* namesake and a cancel, on the same or on different connections.
CONSTANTS
    k1 = k1  k2 = k2  i1 = i1  i2 = i2  m1 = m1  m2 = m2  m3 = m3
    Conn = {k1, k2}
    Id = {i1}
    Msg = {m1, m2, m3}
    Requests <- WatchWatchCancel
    MaxReplies = 1
    NoMsg = NoMsg
SPECIFICATION Spec
PROPERTY NotFoundMeansNotActive

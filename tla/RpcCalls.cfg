\* Two messages of any kind on the same or different connections, with an event
\* under way when a call is cancelled, a write fails or a connection ends.
CONSTANTS
    k1 = k1  k2 = k2  i1 = i1  i2 = i2  m1 = m1  m2 = m2  m3 = m3
    Conn = {k1, k2}
    Id = {i1, i2}
    Msg = {m1, m2}
    Requests <- TwoMessages
    MaxReplies = 1
    NoMsg = NoMsg
SPECIFICATION FairSpec
INVARIANTS
    TypeOK
    RegistrySound
    LockHolderCanReply
    EntryLostOnlyToNamesake
    CancelledByNamesake
    CrashNeedsEndedWatch
    NoReplyLost
PROPERTIES
    ImplementsReplyStream
    LockReleased
    EndedCallsReturn
    NoLeakAfterClose

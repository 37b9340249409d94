\* Four messages: enough for a stranded reader to take one before or after
\* the loop has gone on reading.
CONSTANT MaxMsgs = 4
SPECIFICATION Spec
INVARIANTS
    OneReader
    HandledInOrder
PROPERTY CancelledCloses

CONSTANT MaxMsgs = 2
SPECIFICATION Spec
INVARIANT OnlyJunkIsRefused

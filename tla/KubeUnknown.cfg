CONSTANTS
    Ctx = {c1, c2, c3}
    NoCtx = NoCtx
    MaxAttempts = 2
SPECIFICATION Spec
INVARIANT UnknownContextIsRefused

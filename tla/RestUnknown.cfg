CONSTANTS
    Req = {r1, r2}
    MaxBase = 1
    Asked <- Request
SPECIFICATION Spec
INVARIANT UnknownContextIs404

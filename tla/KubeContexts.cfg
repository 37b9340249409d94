\* Three contexts, three attempts: a failed attempt leaves a flag that differs
\* from the user's context and from the kubeconfig's.
CONSTANTS
    Ctx = {c1, c2, c3}
    NoCtx = NoCtx
    MaxAttempts = 3
SPECIFICATION Spec
INVARIANTS
    CurrentIsFunctional
    FirstAttemptHonoursUser
    FailsOnlyForCause

----------------------------- MODULE KubeContexts -----------------------------
(***************************************************************************)
(* Start-up of the server: initKubeClientPoolWithRetry and                 *)
(* initKubeClientPool (main.go) filling a kubeclient.ClientPool            *)
(* (kubeclient/pool.go) from the contexts of the kubeconfig.  A cluster    *)
(* may be unreachable in one attempt and back in the next; the map of      *)
(* contexts is walked in any order.                                        *)
(***************************************************************************)
EXTENDS Naturals

CONSTANTS
    Ctx,            \* names of kube contexts
    NoCtx,          \* the empty name, and a nil *Context
    MaxAttempts     \* bound on the attempts that fit in maxWait

ASSUME NoCtxAssumption == NoCtx \notin Ctx
ASSUME AttemptsAssumption == MaxAttempts \in Nat \ {0}

VARIABLES
    known,          \* contexts of the kubeconfig file
    fileCurrent,    \* its current-context entry
    userFlag,       \* the --context flag given by the user
    pc,             \* "attempt", "adding", "finish", "sleep", "serving", "failed"
    attempt,        \* number of attempts begun
    flag,           \* *flags.Context
    want,           \* curKubeCtx
    todo,           \* contexts the range loop has not visited yet
    pool,           \* ClientPool.contexts
    current         \* ClientPool.current

vars == <<known, fileCurrent, userFlag, pc, attempt, flag, want, todo, pool, current>>
given == <<known, fileCurrent, userFlag>>

\* The context the user asked for.
Requested == IF userFlag = NoCtx THEN fileCurrent ELSE userFlag

\* The command line and the kubeconfig may name any context.
Init ==
    /\ known \in SUBSET Ctx
    /\ fileCurrent \in Ctx \cup {NoCtx}
    /\ userFlag \in Ctx \cup {NoCtx}
    /\ pc = "attempt"
    /\ attempt = 0
    /\ flag = userFlag
    /\ want = NoCtx
    /\ todo = {}
    /\ pool = {}
    /\ current = NoCtx

\* The head of initKubeClientPool: a fresh pool, and the wanted context from
\* the flag as it now is.
StartAttempt ==
    /\ pc = "attempt"
    /\ attempt' = attempt + 1
    /\ want' = IF flag = NoCtx THEN fileCurrent ELSE flag
    /\ todo' = known
    /\ pool' = {}
    /\ current' = NoCtx
    /\ pc' = "adding"
    /\ UNCHANGED <<given, flag>>

\* RawConfig() fails: the attempt ends before it touches anything.
ConfigFails ==
    /\ pc = "attempt"
    /\ attempt' = attempt + 1
    /\ pc' = "sleep"
    /\ UNCHANGED <<given, flag, want, todo, pool, current>>

\* Mutant: the first functional context is not made current.
AddContext_NoCurrent(c) ==
    /\ pc = "adding" /\ c \in todo
    /\ flag' = c /\ todo' = todo \ {c} /\ pool' = pool \cup {c}
    /\ UNCHANGED <<given, pc, attempt, want, current>>

\* ClientPool.Add succeeds.  flags.Context = &name: the flag now points at the
\* loop variable, and keeps the last name when the loop is over.
AddContext(c) ==
    /\ pc = "adding"
    /\ c \in todo
    /\ flag' = c
    /\ todo' = todo \ {c}
    /\ pool' = pool \cup {c}
    /\ current' = IF current = NoCtx THEN c ELSE current
    /\ UNCHANGED <<given, pc, attempt, want>>

\* Mutant: the wanted context is still wanted when it cannot be used.
SkipContext_KeepsWant(c) ==
    /\ pc = "adding" /\ c \in todo
    /\ flag' = c /\ todo' = todo \ {c}
    /\ UNCHANGED <<given, pc, attempt, want, pool, current>>

\* No REST config, no client, or the cluster does not answer: continue.
SkipContext(c) ==
    /\ pc = "adding"
    /\ c \in todo
    /\ flag' = c
    /\ todo' = todo \ {c}
    /\ want' = IF c = want THEN NoCtx ELSE want
    /\ UNCHANGED <<given, pc, attempt, pool, current>>

\* Mutant: the error of SetCurrent is ignored.
FinishAttempt_IgnoresError ==
    /\ pc = "adding" /\ todo = {}
    /\ IF pool = {} THEN pc' = "sleep" /\ UNCHANGED current
       ELSE /\ pc' = "serving"
            /\ current' = IF want \in pool THEN want ELSE current
    /\ UNCHANGED <<given, attempt, flag, want, todo, pool>>

\* The tail of initKubeClientPool: no context is an error, and so is a wanted
\* context the pool does not hold (SetCurrent: unknown context).
FinishAttempt ==
    /\ pc = "adding"
    /\ todo = {}
    /\ IF pool = {} \/ want \notin pool \cup {NoCtx}
       THEN pc' = "sleep" /\ UNCHANGED current
       ELSE /\ pc' = "serving"
            /\ current' = IF want = NoCtx THEN current ELSE want
    /\ UNCHANGED <<given, attempt, flag, want, todo, pool>>

\* One second later, if maxWait has not passed.
Retry ==
    /\ pc = "sleep"
    /\ attempt < MaxAttempts
    /\ pc' = "attempt"
    /\ UNCHANGED <<given, attempt, flag, want, todo, pool, current>>

\* maxWait has passed: the server ends with the last error.
GiveUp ==
    /\ pc = "sleep"
    /\ pc' = "failed"
    /\ UNCHANGED <<given, attempt, flag, want, todo, pool, current>>

Finished == pc \in {"serving", "failed"} /\ UNCHANGED vars

Next ==
    \/ StartAttempt \/ ConfigFails \/ FinishAttempt \/ Retry \/ GiveUp
    \/ \E c \in Ctx : AddContext(c) \/ SkipContext(c)
    \/ Finished

Spec == Init /\ [][Next]_vars

-----------------------------------------------------------------------------
(* Properties                                                              *)

TypeOK ==
    /\ known \subseteq Ctx
    /\ fileCurrent \in Ctx \cup {NoCtx}
    /\ userFlag \in Ctx \cup {NoCtx}
    /\ pc \in {"attempt", "adding", "sleep", "serving", "failed"}
    /\ attempt \in 0 .. MaxAttempts
    /\ flag \in Ctx \cup {NoCtx}
    /\ want \in Ctx \cup {NoCtx}
    /\ todo \subseteq known
    /\ pool \subseteq known
    /\ current \in Ctx \cup {NoCtx}

\* A server that has started has a current context, and it is one of its
\* functional ones: the environment handler's CurrentContext() is never nil,
\* and exactly one context of the list is marked current.
CurrentIsFunctional == pc = "serving" => current \in pool

\* A server started at its first attempt runs with the context the user asked
\* for, if the cluster behind it answered; and when it asked for a context the
\* kubeconfig does not have, it does not start at that attempt.
FirstAttemptHonoursUser ==
    pc = "serving" /\ attempt = 1 =>
        /\ Requested \in known \cup {NoCtx}
        /\ Requested \in pool => current = Requested

\* An unusable context never keeps the server from starting: an attempt that
\* found a functional context fails only over a wanted context that the
\* kubeconfig does not have.
FailsOnlyForCause ==
    pc = "sleep" /\ pool # {} => want \notin known

\* "unknown context" (pool.go:15) is an error of SetCurrent that
\* initKubeClientPool returns (main.go:157): no server runs when the user
\* asked for a context that the kubeconfig does not have.
UnknownContextIsRefused ==
    pc = "serving" => Requested \in known \cup {NoCtx}
=============================================================================

-------------------------- MODULE KubeContextsProofs --------------------------
(***************************************************************************)
(* Theorems about KubeContexts, for any set of contexts and any bound on   *)
(* the attempts.  What the properties rest on: what the loop has left of   *)
(* the wanted context (AddingInv), what a failed attempt leaves behind     *)
(* (FailedInv), and that the flag is the user's until the loop of the      *)
(* first attempt has overwritten it (FirstInv).                            *)
(***************************************************************************)
EXTENDS KubeContexts, TLAPS

\* The pool holds visited contexts only, and has a current one once it holds
\* any.  A wanted context of the kubeconfig is in the pool or not yet visited.
AddingInv ==
    /\ pc = "adding" =>
        /\ pool \cap todo = {}
        /\ want \in known => want \in todo \cup pool
    /\ pc \in {"adding", "serving"} => current \in pool \/ (pool = {} /\ current = NoCtx)
    /\ pc = "serving" => pool # {}

\* An attempt is only begun within the bound.
AttemptInv == pc = "attempt" => attempt < MaxAttempts

\* Between attempts, what the last one found is unusable for one reason.
FailedInv == pc \in {"sleep", "attempt"} /\ pool # {} => want \notin known

\* The first attempt wants what the user asked for, until that context turns
\* out unusable.
FirstInv ==
    /\ attempt = 0 => flag = userFlag /\ pc = "attempt"
    /\ attempt = 1 /\ pc = "adding" =>
        \/ want = Requested
        \/ want = NoCtx /\ Requested \in known \ (pool \cup todo)

SafetyInv ==
    /\ TypeOK
    /\ AddingInv
    /\ AttemptInv
    /\ FailedInv
    /\ FirstInv
    /\ FirstAttemptHonoursUser

-----------------------------------------------------------------------------
\* The initial states satisfy the invariant.
LEMMA InitSafe == Init => SafetyInv
BY NoCtxAssumption, AttemptsAssumption
DEF Init, SafetyInv, TypeOK, AddingInv, AttemptInv, FailedInv, FirstInv,
    FirstAttemptHonoursUser

\* Every step keeps it.
LEMMA SafetyStep == SafetyInv /\ [Next]_vars => SafetyInv'
<1> SUFFICES ASSUME SafetyInv, [Next]_vars PROVE SafetyInv'
    OBVIOUS
<1> USE NoCtxAssumption, AttemptsAssumption
        DEF SafetyInv, TypeOK, AddingInv, AttemptInv, FailedInv, FirstInv,
            FirstAttemptHonoursUser, Requested, given
<1>1. CASE StartAttempt
    BY <1>1 DEF StartAttempt
<1>2. CASE ConfigFails
    BY <1>2 DEF ConfigFails
<1>3. CASE FinishAttempt
    BY <1>3 DEF FinishAttempt
<1>4. CASE Retry
    BY <1>4 DEF Retry
<1>5. CASE GiveUp
    BY <1>5 DEF GiveUp
<1>6. ASSUME NEW c \in Ctx, AddContext(c) PROVE SafetyInv'
    BY <1>6 DEF AddContext
<1>7. ASSUME NEW c \in Ctx, SkipContext(c) PROVE SafetyInv'
    BY <1>7 DEF SkipContext
<1>8. CASE UNCHANGED vars
    BY <1>8 DEF vars
<1> HIDE DEF SafetyInv
<1> QED
    BY <1>1, <1>2, <1>3, <1>4, <1>5, <1>6, <1>7, <1>8 DEF Next, Finished

-----------------------------------------------------------------------------
(* The theorems                                                            *)

\* The inductive invariant of the start-up.
THEOREM SafetyInvariant == Spec => []SafetyInv
    BY InitSafe, SafetyStep, PTL DEF Spec

\* Whatever the kubeconfig and the flag, the start-up keeps its types: pool
\* and loop stay within the kubeconfig, the attempts within the bound.
THEOREM TypeCorrect == Spec => []TypeOK
<1>1. SafetyInv => TypeOK
    BY DEF SafetyInv
<1> QED
    BY SafetyInvariant, <1>1, PTL

\* A server that has started has a current context, one of its functional ones.
THEOREM CurrentCorrect == Spec => []CurrentIsFunctional
<1>1. SafetyInv => CurrentIsFunctional
    BY DEF SafetyInv, AddingInv, CurrentIsFunctional
<1> QED
    BY SafetyInvariant, <1>1, PTL

\* A server started at its first attempt runs with the user's context.
THEOREM FirstAttemptCorrect == Spec => []FirstAttemptHonoursUser
<1>1. SafetyInv => FirstAttemptHonoursUser
    BY DEF SafetyInv
<1> QED
    BY SafetyInvariant, <1>1, PTL

\* An attempt that found a functional context fails only over a wanted context
\* that the kubeconfig does not have.
THEOREM FailureExplained == Spec => []FailsOnlyForCause
<1>1. SafetyInv => FailsOnlyForCause
    BY DEF SafetyInv, FailedInv, FailsOnlyForCause
<1> QED
    BY SafetyInvariant, <1>1, PTL
=============================================================================

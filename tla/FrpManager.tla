------------------------------ MODULE FrpManager ------------------------------
(***************************************************************************)
(* Manager.RunFRPc (frp/manager.go) supervising one frpc client after      *)
(* another: frp.Execute (frp/frpc_client.go), the CancellationChannel each *)
(* client gets (frp/notify/cancellation_channel.go) and the kill signal    *)
(* (frp/notify/killsignal).  Round r is the r-th client; two goroutines    *)
(* may cancel its channel: "dog", which watches the local port, and "run", *)
(* which runs the client.                                                  *)
(***************************************************************************)
EXTENDS Naturals

CONSTANT MaxRounds      \* bound on the clients started

ASSUME RoundsAssumption == MaxRounds \in Nat \ {0}

VARIABLES
    mgr,        \* RunFRPc
    round,      \* number of clients started
    pc,         \* pc[r][c]: the goroutine c of round r
    once,       \* the sync.Once of each channel: "fresh", "running", "done"
    closed,     \* its C is closed
    reason,     \* its Reason
    svr,        \* the client: "none", "up", "closed" (told to), "ended"
    errVar,     \* the named result err of each Execute, shared with its goroutine
    arg,        \* the reason "run" passes on
    up,         \* something listens on the local port
    killed,     \* killsignal.HasKillSignaled()
    killRound,  \* clients started when the signal came
    exited      \* the process has ended

chanVars == <<once, closed, reason>>
envVars  == <<up, killed, killRound, exited>>
vars == <<mgr, round, pc, chanVars, svr, errVar, arg, envVars>>

Round  == 1 .. MaxRounds
Caller == {"dog", "run"}
Reason == {"nil", "error", "unavailable"}

Init ==
    /\ mgr = "check"
    /\ round = 0
    /\ pc = [r \in Round |-> [c \in Caller |-> "off"]]
    /\ once = [r \in Round |-> "fresh"]
    /\ closed = [r \in Round |-> FALSE]
    /\ reason = [r \in Round |-> "nil"]
    /\ svr = [r \in Round |-> "none"]
    /\ errVar = [r \in Round |-> "nil"]
    /\ arg = [r \in Round |-> "nil"]
    /\ up \in BOOLEAN
    /\ killed = FALSE
    /\ killRound = 0
    /\ exited = FALSE

Goto(r, c, l) == pc' = [pc EXCEPT ![r][c] = l]

-----------------------------------------------------------------------------
(* RunFRPc                                                                 *)

\* Mutant: the loop has no condition.
CheckKill_Never ==
    /\ mgr = "check" /\ mgr' = "probe"
    /\ UNCHANGED <<round, pc, chanVars, svr, errVar, arg, envVars>>

CheckKill ==
    /\ mgr = "check"
    /\ mgr' = IF killed THEN "done" ELSE "probe"
    /\ UNCHANGED <<round, pc, chanVars, svr, errVar, arg, envVars>>

\* The local port takes a connection.
IsAvailable == up

\* WaitForLocalPortToBecomeAvailable also returns on the kill signal.
ProbeUp ==
    /\ mgr = "probe"
    /\ killed \/ IsAvailable
    /\ mgr' = "execute"
    /\ UNCHANGED <<round, pc, chanVars, svr, errVar, arg, envVars>>

\* No client can be made of the configuration: log.Panicf.
ExecuteFails ==
    /\ mgr = "execute"
    /\ mgr' = "panic"
    /\ UNCHANGED <<round, pc, chanVars, svr, errVar, arg, envVars>>

\* Execute starts the client's goroutine; its result is yet to be returned.
StartClient ==
    /\ mgr = "execute"
    /\ round < MaxRounds
    /\ round' = round + 1
    /\ Goto(round + 1, "run", "running")
    /\ svr' = [svr EXCEPT ![round + 1] = "up"]
    /\ mgr' = "return"
    /\ UNCHANGED <<chanVars, errVar, arg, envVars>>

\* return cancelChan, nil assigns nil to the variable the goroutine shares ...
AssignNil ==
    /\ mgr = "return"
    /\ errVar' = [errVar EXCEPT ![round] = "nil"]
    /\ mgr' = "returned"
    /\ UNCHANGED <<round, pc, chanVars, svr, arg, envVars>>

\* Mutant: a client that is already cancelled counts as not started.
ReturnErr_IfClosed ==
    /\ mgr = "returned"
    /\ IF errVar[round] = "nil" /\ ~closed[round]
       THEN mgr' = "wait" /\ Goto(round, "dog", "loop")
       ELSE mgr' = "panic" /\ UNCHANGED pc
    /\ UNCHANGED <<round, chanVars, svr, errVar, arg, envVars>>

\* ... and hands the caller what the variable holds by then.
ReturnErr ==
    /\ mgr = "returned"
    /\ IF errVar[round] = "nil"
       THEN /\ mgr' = "wait"
            /\ Goto(round, "dog", "loop")
       ELSE /\ mgr' = "panic"
            /\ UNCHANGED pc
    /\ UNCHANGED <<round, chanVars, svr, errVar, arg, envVars>>

\* Mutant: the wait does not block (a select with a default).
Resume_AtOnce ==
    /\ mgr = "wait"
    /\ mgr' = "check"
    /\ UNCHANGED <<round, pc, chanVars, svr, errVar, arg, envVars>>

\* cancelChan.WaitForCancellation() returns.
Resume ==
    /\ mgr = "wait"
    /\ closed[round]
    /\ mgr' = "check"
    /\ UNCHANGED <<round, pc, chanVars, svr, errVar, arg, envVars>>

-----------------------------------------------------------------------------
(* WaitForLocalPortToBecomeUnavailableAndCancel                            *)

\* Mutant: the loop does not see that the channel is cancelled.
DogLoop_PortOnly(r) ==
    /\ pc[r]["dog"] = "loop" /\ (killed \/ ~IsAvailable)
    /\ Goto(r, "dog", "decide")
    /\ UNCHANGED <<mgr, round, chanVars, svr, errVar, arg, envVars>>

DogLoop(r) ==
    /\ pc[r]["dog"] = "loop"
    /\ killed \/ closed[r] \/ ~IsAvailable
    /\ Goto(r, "dog", "decide")
    /\ UNCHANGED <<mgr, round, chanVars, svr, errVar, arg, envVars>>

DogDecide(r) ==
    /\ pc[r]["dog"] = "decide"
    /\ Goto(r, "dog", IF killed \/ closed[r] THEN "gone" ELSE "call")
    /\ UNCHANGED <<mgr, round, chanVars, svr, errVar, arg, envVars>>

-----------------------------------------------------------------------------
(* The client's goroutine in Execute                                       *)

\* svr.Run returns an error by itself, or nil once it was closed.
RunEnds(r) ==
    /\ pc[r]["run"] = "running"
    /\ svr' = [svr EXCEPT ![r] = "ended"]
    /\ errVar' = [errVar EXCEPT ![r] = IF svr[r] = "closed" THEN "nil" ELSE "error"]
    /\ Goto(r, "run", "ended")
    /\ UNCHANGED <<mgr, round, chanVars, arg, envVars>>

\* cancelChan.CancelWithReason(err), with err as Execute may have left it.
PassReason(r) ==
    /\ pc[r]["run"] = "ended"
    /\ arg' = [arg EXCEPT ![r] = errVar[r]]
    /\ Goto(r, "run", "call")
    /\ UNCHANGED <<mgr, round, chanVars, svr, errVar, envVars>>

-----------------------------------------------------------------------------
(* CancelWithReason, called by c on the channel of round r                 *)

\* Mutant: a flag in place of the sync.Once; nobody waits for the first caller.
EnterOnce_Flag(r, c) ==
    /\ pc[r][c] = "call"
    /\ once' = [once EXCEPT ![r] = IF @ = "fresh" THEN "running" ELSE @]
    /\ Goto(r, c, IF once[r] = "fresh" THEN "close" ELSE "reason")
    /\ UNCHANGED <<mgr, round, closed, reason, svr, errVar, arg, envVars>>

\* Mutant: the channel is tested and closed without the sync.Once.
EnterOnce_Test(r, c) ==
    /\ pc[r][c] = "call"
    /\ Goto(r, c, IF closed[r] THEN "reason" ELSE "close")
    /\ UNCHANGED <<mgr, round, chanVars, svr, errVar, arg, envVars>>

\* once.Do: the first caller runs the function, a later one waits for it.
EnterOnce(r, c) ==
    /\ pc[r][c] = "call"
    /\ once[r] # "running"
    /\ once' = [once EXCEPT ![r] = IF @ = "fresh" THEN "running" ELSE @]
    /\ Goto(r, c, IF once[r] = "fresh" THEN "close" ELSE "reason")
    /\ UNCHANGED <<mgr, round, closed, reason, svr, errVar, arg, envVars>>

\* Mutant: C is never closed.
CloseChan_Skips(r, c) ==
    /\ pc[r][c] = "close"
    /\ Goto(r, c, "callback")
    /\ UNCHANGED <<mgr, round, chanVars, svr, errVar, arg, envVars>>

CloseChan(r, c) ==
    /\ pc[r][c] = "close"
    /\ closed' = [closed EXCEPT ![r] = TRUE]
    /\ Goto(r, c, "callback")
    /\ UNCHANGED <<mgr, round, once, reason, svr, errVar, arg, envVars>>

\* Mutant: the channel is made without a callback.
RunCallback_None(r, c) ==
    /\ pc[r][c] = "callback"
    /\ once' = [once EXCEPT ![r] = "done"]
    /\ Goto(r, c, "reason")
    /\ UNCHANGED <<mgr, round, closed, reason, svr, errVar, arg, envVars>>

\* The callback is svr.Close(); then once.Do is over.
RunCallback(r, c) ==
    /\ pc[r][c] = "callback"
    /\ svr' = [svr EXCEPT ![r] = IF @ = "up" THEN "closed" ELSE @]
    /\ once' = [once EXCEPT ![r] = "done"]
    /\ Goto(r, c, "reason")
    /\ UNCHANGED <<mgr, round, closed, reason, errVar, arg, envVars>>

\* s.Reason = reason, after the Once and under no lock.
SetReason(r, c) ==
    /\ pc[r][c] = "reason"
    /\ reason' = [reason EXCEPT ![r] = IF c = "dog" THEN "unavailable" ELSE arg[r]]
    /\ Goto(r, c, "gone")
    /\ UNCHANGED <<mgr, round, once, closed, svr, errVar, arg, envVars>>

-----------------------------------------------------------------------------
(* The environment: the local service, and the kill signal, after which    *)
(* killsignal ends the process within a second.                            *)

PortChanges ==
    /\ up' = ~up
    /\ UNCHANGED <<mgr, round, pc, chanVars, svr, errVar, arg, killed, killRound, exited>>

Kill ==
    /\ ~killed
    /\ killed' = TRUE
    /\ killRound' = round
    /\ UNCHANGED <<mgr, round, pc, chanVars, svr, errVar, arg, up, exited>>

Exit ==
    /\ killed
    /\ exited' = TRUE
    /\ UNCHANGED <<mgr, round, pc, chanVars, svr, errVar, arg, up, killed, killRound>>

-----------------------------------------------------------------------------
Manager ==
    \/ CheckKill \/ ProbeUp \/ ExecuteFails \/ StartClient
    \/ AssignNil \/ ReturnErr \/ Resume

Cancel(r, c) ==
    EnterOnce(r, c) \/ CloseChan(r, c) \/ RunCallback(r, c) \/ SetReason(r, c)

Dog(r) == DogLoop(r) \/ DogDecide(r) \/ Cancel(r, "dog")
Run(r) == RunEnds(r) \/ PassReason(r) \/ Cancel(r, "run")

Stopped == exited \/ mgr = "panic"

Next ==
    \/ /\ ~Stopped
       /\ \/ Manager
          \/ \E r \in Round : Dog(r) \/ Run(r)
          \/ PortChanges \/ Kill \/ Exit
    \/ Stopped /\ UNCHANGED vars

Spec == Init /\ [][Next]_vars

\* Goroutines run; Run returns once it was closed, but owes nothing before.
Fairness ==
    /\ WF_vars(~Stopped /\ (CheckKill \/ ProbeUp \/ StartClient \/ AssignNil
                            \/ ReturnErr \/ Resume))
    /\ \A r \in Round :
         /\ WF_vars(~Stopped /\ Dog(r))
         /\ WF_vars(~Stopped /\ svr[r] = "closed" /\ RunEnds(r))
         /\ WF_vars(~Stopped /\ (PassReason(r) \/ Cancel(r, "run")))

FairSpec == Spec /\ Fairness

-----------------------------------------------------------------------------
(* Properties                                                              *)

TypeOK ==
    /\ mgr \in {"check", "probe", "execute", "return", "returned", "wait",
                "done", "panic"}
    /\ round \in 0 .. MaxRounds
    /\ pc \in [Round -> [Caller -> {"off", "loop", "decide", "running", "ended",
                                    "call", "close", "callback", "reason", "gone"}]]
    /\ once \in [Round -> {"fresh", "running", "done"}]
    /\ closed \in [Round -> BOOLEAN]
    /\ reason \in [Round -> Reason]
    /\ svr \in [Round -> {"none", "up", "closed", "ended"}]
    /\ errVar \in [Round -> Reason \ {"unavailable"}]
    /\ arg \in [Round -> Reason \ {"unavailable"}]
    /\ up \in BOOLEAN
    /\ killed \in BOOLEAN
    /\ killRound \in 0 .. MaxRounds
    /\ exited \in BOOLEAN

\* CancellationChannel.Cancel never closes its channel twice (which panics),
\* although the watchdog and the client's goroutine may both call it.
ClosedOnce ==
    \A r \in Round, c \in Caller : pc[r][c] = "close" => ~closed[r]

\* Whoever returns from CancellationChannel.Cancel finds the client told to
\* close or over, also when the other caller is the one that closes it.
CancelReturnsLate ==
    \A r \in Round, c \in Caller :
        pc[r][c] = "reason" => closed[r] /\ svr[r] \in {"closed", "ended"}

\* RunFRPc may start a client while the one before still runs, because C is
\* closed before the callback is called; but then that callback is under way.
OldClientIsClosing ==
    \A r \in Round :
        r < round /\ svr[r] = "up" => \E c \in Caller : pc[r][c] = "callback"

\* After the kill signal RunFRPc starts one more client at most, although
\* WaitForLocalPortToBecomeAvailable then no longer waits for the port.
OneClientAfterKill == killed => round <= killRound + 1

\* When Execute has started a client and RunFRPc panics all the same, that
\* client has already ended: the goroutine's write of err overtook the return.
PanicAfterStart ==
    mgr = "panic" /\ round > 0 /\ pc[round]["dog"] = "off" =>
        svr[round] = "ended" /\ errVar[round] = "error"

\* If the local service goes away for good, then so does every client: the
\* watchdog cancels, and RunFRPc starts no other, unless the process ends.
NoServiceNoClient ==
    <>[]~up => <>[](killed \/ Stopped \/ \A r \in Round : svr[r] \in {"none", "ended"})

\* A client that has ended is replaced as long as the local service is there.
ClientReplaced ==
    \A r \in 1 .. (MaxRounds - 1) :
        <>[]up => (svr[r] = "ended" ~> (round > r \/ killed \/ Stopped))

\* The watchdog of a client does not outlive it: no goroutine is leaked from
\* one round to the next.
DogEnds ==
    \A r \in Round : closed[r] ~> (pc[r]["dog"] \in {"off", "gone"} \/ Stopped)

\* The refinement: what RunFRPc does to its clients is a ClientSupply.
Clients == INSTANCE ClientSupply WITH
    given     <- round,
    client    <- svr,
    revoked   <- closed,
    signalled <- killed,
    extra     <- killed /\ round > killRound

\* Every behaviour of the manager, the watchdogs and the clients' goroutines is
\* one of the abstract supplies.
ImplementsClientSupply == Clients!CSSpec
=============================================================================

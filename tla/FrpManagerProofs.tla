--------------------------- MODULE FrpManagerProofs ---------------------------
(***************************************************************************)
(* Theorems about FrpManager, for any bound on the clients started.  What   *)
(* the properties rest on: how far a channel's sync.Once is says where its  *)
(* two callers may be (OnceInv); where RunFRPc is says which goroutines of  *)
(* the last round exist and that all earlier channels are closed (RoundInv);*)
(* and the kill signal leaves RunFRPc one round at most (KillInv).          *)
(***************************************************************************)
EXTENDS FrpManager, TLAPS

InOnce == {"close", "callback"}

\* The channel of round r: at most one caller is within once.Do, and what it
\* has done there is what once, closed and svr say.
OnceOf(r) ==
    /\ once[r] = "running" <=> \E c \in Caller : pc[r][c] \in InOnce
    /\ pc[r]["dog"] \in InOnce => pc[r]["run"] \notin InOnce
    /\ \A c \in Caller :
        /\ pc[r][c] = "close" => ~closed[r]
        /\ pc[r][c] = "callback" => closed[r]
        /\ pc[r][c] = "reason" => once[r] = "done"
    /\ once[r] = "fresh" => ~closed[r]
    /\ once[r] = "done" => closed[r] /\ svr[r] \in {"closed", "ended"}

OnceInv == \A r \in Round : OnceOf(r)

\* RunFRPc has not yet got past Execute for the last client.
Starting == mgr \in {"return", "returned"}

\* The goroutines of round r and its client.
RoundOf(r) ==
    /\ pc[r]["run"] = "off" <=> r > round
    /\ svr[r] = "none" <=> r > round
    /\ pc[r]["run"] \notin {"loop", "decide"}
    /\ pc[r]["dog"] \notin {"running", "ended"}
    /\ pc[r]["run"] = "running" <=> svr[r] \in {"up", "closed"}
    /\ errVar[r] = "error" => svr[r] = "ended"
    /\ r > round => pc[r]["dog"] = "off"
    /\ r < round => closed[r] /\ pc[r]["dog"] # "off"
    /\ r = round /\ Starting => pc[r]["dog"] = "off"
    /\ r = round /\ mgr \in {"check", "probe", "execute", "done"} => closed[r]
    /\ r = round /\ ~Starting /\ mgr # "panic" => pc[r]["dog"] # "off"
    /\ r = round /\ mgr = "panic" /\ pc[r]["dog"] = "off" =>
           svr[r] = "ended" /\ errVar[r] = "error"

RoundInv == \A r \in Round : RoundOf(r)

\* There is a last client when RunFRPc looks at it.
Begun == mgr \in {"return", "returned", "wait"} => round > 0

KillInv ==
    /\ killRound <= round
    /\ killed => \/ round = killRound
                 \/ round = killRound + 1 /\ mgr \notin {"probe", "execute"}

SafetyInv == TypeOK /\ Begun /\ OnceInv /\ RoundInv /\ KillInv

-----------------------------------------------------------------------------
(* Every step keeps the invariant: one lemma per part                      *)

\* Every step keeps the types.
LEMMA TypeStep == TypeOK /\ Begun /\ [Next]_vars => TypeOK'
<1> SUFFICES ASSUME TypeOK, Begun, [Next]_vars PROVE TypeOK'
    OBVIOUS
<1> USE RoundsAssumption DEF TypeOK, Begun, Round, Caller, Reason
<1>1. CASE CheckKill
    BY <1>1 DEF CheckKill, chanVars, envVars
<1>2. CASE ProbeUp
    BY <1>2 DEF ProbeUp, chanVars, envVars
<1>3. CASE ExecuteFails
    BY <1>3 DEF ExecuteFails, chanVars, envVars
<1>4. CASE StartClient
    BY <1>4 DEF StartClient, Goto, chanVars, envVars
<1>5. CASE AssignNil
    BY <1>5 DEF AssignNil, chanVars, envVars
<1>6. CASE ReturnErr
    <2>1. round \in Round
        BY <1>6 DEF ReturnErr
    <2>2. CASE errVar[round] = "nil"
        <3>1. mgr' = "wait" /\ pc' = [pc EXCEPT ![round]["dog"] = "loop"]
            BY <1>6, <2>2 DEF ReturnErr, Goto
        <3>2. pc' \in [Round -> [Caller -> {"off", "loop", "decide", "running", "ended",
                              "call", "close", "callback", "reason", "gone"}]]
            BY <2>1, <3>1
        <3> QED
            BY <1>6, <3>1, <3>2 DEF ReturnErr, chanVars, envVars
    <2>3. CASE errVar[round] # "nil"
        BY <1>6, <2>1, <2>3 DEF ReturnErr, Reason, chanVars, envVars
    <2> QED
        BY <2>2, <2>3
<1>7. CASE Resume
    BY <1>7 DEF Resume, chanVars, envVars
<1>8. CASE PortChanges
    BY <1>8 DEF PortChanges, chanVars, envVars
<1>9. CASE Kill
    BY <1>9 DEF Kill, chanVars, envVars
<1>10. CASE Exit
    BY <1>10 DEF Exit, chanVars, envVars
<1>11. ASSUME NEW r \in Round, DogLoop(r) PROVE TypeOK'
    BY <1>11 DEF DogLoop, Goto, chanVars, envVars
<1>12. ASSUME NEW r \in Round, DogDecide(r) PROVE TypeOK'
    BY <1>12 DEF DogDecide, Goto, chanVars, envVars
<1>13. ASSUME NEW r \in Round, RunEnds(r) PROVE TypeOK'
    BY <1>13 DEF RunEnds, Goto, chanVars, envVars
<1>14. ASSUME NEW r \in Round, PassReason(r) PROVE TypeOK'
    BY <1>14 DEF PassReason, Goto, chanVars, envVars
<1>15. ASSUME NEW r \in Round, NEW c \in Caller, EnterOnce(r, c) PROVE TypeOK'
    BY <1>15 DEF EnterOnce, Goto, chanVars, envVars
<1>16. ASSUME NEW r \in Round, NEW c \in Caller, CloseChan(r, c) PROVE TypeOK'
    BY <1>16 DEF CloseChan, Goto, chanVars, envVars
<1>17. ASSUME NEW r \in Round, NEW c \in Caller, RunCallback(r, c) PROVE TypeOK'
    BY <1>17 DEF RunCallback, Goto, chanVars, envVars
<1>18. ASSUME NEW r \in Round, NEW c \in Caller, SetReason(r, c) PROVE TypeOK'
    BY <1>18 DEF SetReason, Goto, chanVars, envVars
<1>19. CASE UNCHANGED vars
    BY <1>19 DEF vars, chanVars, envVars
<1> HIDE DEF TypeOK
<1> QED
    BY <1>1, <1>2, <1>3, <1>4, <1>5, <1>6, <1>7, <1>8, <1>9, <1>10, <1>11,
       <1>12, <1>13, <1>14, <1>15, <1>16, <1>17, <1>18, <1>19
    DEF Next, Manager, Dog, Run, Cancel, Caller

\* The callers of a channel pass its sync.Once one after the other.
LEMMA OnceStep ==
    TypeOK /\ Begun /\ OnceInv /\ RoundInv /\ [Next]_vars => OnceInv'
<1> SUFFICES ASSUME TypeOK, Begun, OnceInv, RoundInv, [Next]_vars
             PROVE  OnceInv'
    OBVIOUS
<1> USE RoundsAssumption
        DEF TypeOK, Begun, OnceInv, OnceOf, RoundInv, RoundOf, Starting, InOnce,
            Round, Caller
<1>1. CASE CheckKill
    BY <1>1 DEF CheckKill, chanVars, envVars
<1>2. CASE ProbeUp
    BY <1>2 DEF ProbeUp, chanVars, envVars
<1>3. CASE ExecuteFails
    BY <1>3 DEF ExecuteFails, chanVars, envVars
<1>4. CASE StartClient
    BY <1>4 DEF StartClient, Goto, chanVars, envVars
<1>5. CASE AssignNil
    BY <1>5 DEF AssignNil, chanVars, envVars
<1>6. CASE ReturnErr
    <2>1. round \in Round
        BY <1>6 DEF ReturnErr
    <2>2. CASE errVar[round] = "nil"
        <3>1. /\ UNCHANGED <<once, closed, svr>>
              /\ \A r \in Round : \A c \in Caller :
                    \/ pc'[r][c] = pc[r][c]
                    \/ pc'[r][c] = "loop" /\ pc[r][c] = "off"
            BY <1>6, <2>1, <2>2 DEF ReturnErr, Goto, chanVars
        <3> HIDE DEF TypeOK, RoundInv
        <3> QED
            BY <3>1
    <2>3. CASE errVar[round] # "nil"
        BY <1>6, <2>1, <2>3 DEF ReturnErr, Reason, chanVars, envVars
    <2> QED
        BY <2>2, <2>3
<1>7. CASE Resume
    BY <1>7 DEF Resume, chanVars, envVars
<1>8. CASE PortChanges
    BY <1>8 DEF PortChanges, chanVars, envVars
<1>9. CASE Kill
    BY <1>9 DEF Kill, chanVars, envVars
<1>10. CASE Exit
    BY <1>10 DEF Exit, chanVars, envVars
<1>11. ASSUME NEW r \in Round, DogLoop(r) PROVE OnceInv'
    BY <1>11 DEF DogLoop, Goto, chanVars, envVars
<1>12. ASSUME NEW r \in Round, DogDecide(r) PROVE OnceInv'
    BY <1>12 DEF DogDecide, Goto, chanVars, envVars
<1>13. ASSUME NEW r \in Round, RunEnds(r) PROVE OnceInv'
    BY <1>13 DEF RunEnds, Goto, chanVars, envVars
<1>14. ASSUME NEW r \in Round, PassReason(r) PROVE OnceInv'
    BY <1>14 DEF PassReason, Goto, chanVars, envVars
<1>15. ASSUME NEW r \in Round, NEW c \in Caller, EnterOnce(r, c) PROVE OnceInv'
    BY <1>15 DEF EnterOnce, Goto, chanVars, envVars
<1>16. ASSUME NEW r \in Round, NEW c \in Caller, CloseChan(r, c) PROVE OnceInv'
    BY <1>16 DEF CloseChan, Goto, chanVars, envVars
<1>17. ASSUME NEW r \in Round, NEW c \in Caller, RunCallback(r, c) PROVE OnceInv'
    BY <1>17 DEF RunCallback, Goto, chanVars, envVars
<1>18. ASSUME NEW r \in Round, NEW c \in Caller, SetReason(r, c) PROVE OnceInv'
    BY <1>18 DEF SetReason, Goto, chanVars, envVars
<1>19. CASE UNCHANGED vars
    BY <1>19 DEF vars, chanVars, envVars
<1> HIDE DEF OnceInv
<1> QED
    BY <1>1, <1>2, <1>3, <1>4, <1>5, <1>6, <1>7, <1>8, <1>9, <1>10, <1>11,
       <1>12, <1>13, <1>14, <1>15, <1>16, <1>17, <1>18, <1>19
    DEF Next, Manager, Dog, Run, Cancel, Caller

\* The goroutines of a round come and go with RunFRPc's rounds.
LEMMA RoundStep ==
    TypeOK /\ Begun /\ OnceInv /\ RoundInv /\ [Next]_vars => RoundInv'
<1> SUFFICES ASSUME TypeOK, Begun, OnceInv, RoundInv, [Next]_vars
             PROVE  RoundInv'
    OBVIOUS
<1> USE RoundsAssumption
        DEF TypeOK, Begun, OnceInv, OnceOf, RoundInv, RoundOf, Starting, InOnce,
            Round, Caller
<1>1. CASE CheckKill
    BY <1>1 DEF CheckKill, chanVars, envVars
<1>2. CASE ProbeUp
    BY <1>2 DEF ProbeUp, chanVars, envVars
<1>3. CASE ExecuteFails
    BY <1>3 DEF ExecuteFails, chanVars, envVars
<1>4. CASE StartClient
    BY <1>4 DEF StartClient, Goto, chanVars, envVars
<1>5. CASE AssignNil
    BY <1>5 DEF AssignNil, chanVars, envVars
<1>6. CASE ReturnErr
    <2>1. round \in Round
        BY <1>6 DEF ReturnErr
    <2>2. CASE errVar[round] = "nil"
        BY <1>6, <2>1, <2>2 DEF ReturnErr, Goto, chanVars, envVars
    <2>3. CASE errVar[round] # "nil"
        BY <1>6, <2>1, <2>3 DEF ReturnErr, Reason, chanVars, envVars
    <2> QED
        BY <2>2, <2>3
<1>7. CASE Resume
    BY <1>7 DEF Resume, chanVars, envVars
<1>8. CASE PortChanges
    BY <1>8 DEF PortChanges, chanVars, envVars
<1>9. CASE Kill
    BY <1>9 DEF Kill, chanVars, envVars
<1>10. CASE Exit
    BY <1>10 DEF Exit, chanVars, envVars
<1>11. ASSUME NEW r \in Round, DogLoop(r) PROVE RoundInv'
    BY <1>11 DEF DogLoop, Goto, chanVars, envVars
<1>12. ASSUME NEW r \in Round, DogDecide(r) PROVE RoundInv'
    BY <1>12 DEF DogDecide, Goto, chanVars, envVars
<1>13. ASSUME NEW r \in Round, RunEnds(r) PROVE RoundInv'
    BY <1>13 DEF RunEnds, Goto, chanVars, envVars
<1>14. ASSUME NEW r \in Round, PassReason(r) PROVE RoundInv'
    BY <1>14 DEF PassReason, Goto, chanVars, envVars
<1>15. ASSUME NEW r \in Round, NEW c \in Caller, EnterOnce(r, c) PROVE RoundInv'
    BY <1>15 DEF EnterOnce, Goto, chanVars, envVars
<1>16. ASSUME NEW r \in Round, NEW c \in Caller, CloseChan(r, c) PROVE RoundInv'
    BY <1>16 DEF CloseChan, Goto, chanVars, envVars
<1>17. ASSUME NEW r \in Round, NEW c \in Caller, RunCallback(r, c) PROVE RoundInv'
    BY <1>17 DEF RunCallback, Goto, chanVars, envVars
<1>18. ASSUME NEW r \in Round, NEW c \in Caller, SetReason(r, c) PROVE RoundInv'
    BY <1>18 DEF SetReason, Goto, chanVars, envVars
<1>19. CASE UNCHANGED vars
    BY <1>19 DEF vars, chanVars, envVars
<1> HIDE DEF RoundInv
<1> QED
    BY <1>1, <1>2, <1>3, <1>4, <1>5, <1>6, <1>7, <1>8, <1>9, <1>10, <1>11,
       <1>12, <1>13, <1>14, <1>15, <1>16, <1>17, <1>18, <1>19
    DEF Next, Manager, Dog, Run, Cancel, Caller

\* RunFRPc looks at the last client only when there is one.
LEMMA BegunStep == TypeOK /\ Begun /\ [Next]_vars => Begun'
<1> SUFFICES ASSUME TypeOK, Begun, [Next]_vars PROVE Begun'
    OBVIOUS
<1> USE DEF TypeOK, Begun
<1>1. CASE Manager
    BY <1>1 DEF Manager, CheckKill, ProbeUp, ExecuteFails, StartClient, AssignNil,
                ReturnErr, Resume
<1>2. CASE UNCHANGED <<mgr, round>>
    BY <1>2
<1> HIDE DEF Begun
<1> QED
    BY <1>1, <1>2
    DEF Next, vars, Dog, Run, Cancel, DogLoop, DogDecide, RunEnds, PassReason,
        EnterOnce, CloseChan, RunCallback, SetReason, PortChanges, Kill, Exit

\* Once the kill signal is given RunFRPc gets through Execute once at most.
LEMMA KillStep == TypeOK /\ KillInv /\ [Next]_vars => KillInv'
<1> SUFFICES ASSUME TypeOK, KillInv, [Next]_vars PROVE KillInv'
    OBVIOUS
<1> USE RoundsAssumption DEF TypeOK, KillInv
<1>1. CASE Manager
    BY <1>1 DEF Manager, CheckKill, ProbeUp, ExecuteFails, StartClient, AssignNil,
                ReturnErr, Resume, envVars
<1>2. CASE Kill
    BY <1>2 DEF Kill
<1>3. CASE UNCHANGED <<mgr, round, killed, killRound>>
    BY <1>3
<1> HIDE DEF KillInv
<1> QED
    BY <1>1, <1>2, <1>3
    DEF Next, vars, envVars, Dog, Run, Cancel, DogLoop, DogDecide, RunEnds,
        PassReason, EnterOnce, CloseChan, RunCallback, SetReason, PortChanges, Exit

-----------------------------------------------------------------------------
(* The theorems                                                            *)

LEMMA InitSafe == Init => SafetyInv
<1> SUFFICES ASSUME Init PROVE SafetyInv
    OBVIOUS
<1> USE RoundsAssumption DEF Init, Round, Caller
<1>1. Begun /\ KillInv
    BY DEF Begun, KillInv
<1>2. OnceInv
    BY DEF OnceInv, OnceOf, InOnce
<1>3. RoundInv
    BY DEF RoundInv, RoundOf, Starting
<1>4. TypeOK
    <2>1. [c \in Caller |-> "off"]
              \in [Caller -> {"off", "loop", "decide", "running", "ended",
                             "call", "close", "callback", "reason", "gone"}]
        OBVIOUS
    <2>2. round \in 0 .. MaxRounds /\ killRound \in 0 .. MaxRounds
        OBVIOUS
    <2>3. /\ once \in [Round -> {"fresh", "running", "done"}]
          /\ closed \in [Round -> BOOLEAN]
          /\ svr \in [Round -> {"none", "up", "closed", "ended"}]
        OBVIOUS
    <2>4. /\ reason \in [Round -> Reason]
          /\ errVar \in [Round -> Reason \ {"unavailable"}]
          /\ arg \in [Round -> Reason \ {"unavailable"}]
        BY DEF Reason
    <2> HIDE DEF Round, Caller, Reason
    <2>5. pc \in [Round -> [Caller -> {"off", "loop", "decide", "running", "ended",
                                      "call", "close", "callback", "reason", "gone"}]]
        BY <2>1, Zenon
    <2> QED
        BY <2>2, <2>3, <2>4, <2>5 DEF TypeOK
<1> QED
    BY <1>1, <1>2, <1>3, <1>4 DEF SafetyInv

\* The inductive invariant of the supervision of frp clients: the types, where
\* the callers of a channel's sync.Once are, which goroutines a round has, and
\* how far RunFRPc gets after the kill signal.
THEOREM SafetyInvariant == Spec => []SafetyInv
<1>1. SafetyInv /\ [Next]_vars => SafetyInv'
    BY TypeStep, BegunStep, OnceStep, RoundStep, KillStep DEF SafetyInv
<1> QED
    BY InitSafe, <1>1, PTL DEF Spec

\* However many clients RunFRPc starts, its state keeps its types.
THEOREM TypeCorrect == Spec => []TypeOK
<1>1. SafetyInv => TypeOK
    BY DEF SafetyInv
<1> QED
    BY SafetyInvariant, <1>1, PTL

\* CancellationChannel.Cancel never closes its C twice, whichever of the
\* watchdog and the client's goroutine comes first.
THEOREM ChannelClosedOnce == Spec => []ClosedOnce
<1>1. SafetyInv => ClosedOnce
    BY DEF SafetyInv, OnceInv, OnceOf, ClosedOnce
<1> QED
    BY SafetyInvariant, <1>1, PTL

\* Nobody returns from CancellationChannel.Cancel before C is closed and the
\* client has been told to close or is over.
THEOREM CancelCallersWait == Spec => []CancelReturnsLate
<1>1. SafetyInv => CancelReturnsLate
    BY DEF SafetyInv, OnceInv, OnceOf, CancelReturnsLate
<1> QED
    BY SafetyInvariant, <1>1, PTL

\* When RunFRPc has gone on to the next client, the callback that closes the
\* one before has begun.
THEOREM OldClientClosing == Spec => []OldClientIsClosing
<1>1. SafetyInv => OldClientIsClosing
    <2> SUFFICES ASSUME SafetyInv, NEW r \in Round, r < round, svr[r] = "up"
                 PROVE  \E c \in Caller : pc[r][c] = "callback"
        BY DEF OldClientIsClosing
    <2>1. closed[r] /\ once[r] # "fresh" /\ once[r] # "done"
        BY DEF SafetyInv, RoundInv, RoundOf, OnceInv, OnceOf
    <2>2. once[r] = "running"
        BY <2>1 DEF SafetyInv, TypeOK
    <2> QED
        BY <2>1, <2>2 DEF SafetyInv, OnceInv, OnceOf, InOnce
<1> QED
    BY SafetyInvariant, <1>1, PTL

\* After the kill signal RunFRPc starts one more client at most.
THEOREM KillBoundsClients == Spec => []OneClientAfterKill
<1>1. SafetyInv => OneClientAfterKill
    BY DEF SafetyInv, KillInv, TypeOK, OneClientAfterKill
<1> QED
    BY SafetyInvariant, <1>1, PTL

\* When RunFRPc panics over a client it did start, the goroutine's write of the
\* shared err overtook Execute's return: the client had already ended.
THEOREM PanicExplained == Spec => []PanicAfterStart
<1>1. SafetyInv => PanicAfterStart
    <2> SUFFICES ASSUME SafetyInv, mgr = "panic", round > 0, pc[round]["dog"] = "off"
                 PROVE  svr[round] = "ended" /\ errVar[round] = "error"
        BY DEF PanicAfterStart
    <2>1. round \in Round
        BY DEF SafetyInv, TypeOK, Round
    <2> QED
        BY <2>1 DEF SafetyInv, RoundInv, RoundOf
<1> QED
    BY SafetyInvariant, <1>1, PTL

-----------------------------------------------------------------------------
(* The refinement of ClientSupply                                          *)

\* A goroutine that is anywhere belongs to a client that was started.
LEMMA Started ==
    ASSUME SafetyInv, NEW r \in Round, NEW c \in Caller, pc[r][c] # "off"
    PROVE  r \in 1 .. round
<1>1. round \in Nat /\ r \in Nat /\ 1 <= r
    BY RoundsAssumption DEF SafetyInv, TypeOK, Round
<1>2. ~(r > round)
    BY DEF SafetyInv, RoundInv, RoundOf, Caller
<1> QED
    BY <1>1, <1>2

\* What RunFRPc starts is a client the supply may give: all channels are closed,
\* and after the signal it is the first.
LEMMA SupplyStep == SafetyInv /\ StartClient => Clients!Supply
<1> SUFFICES ASSUME SafetyInv, StartClient PROVE Clients!Supply
    OBVIOUS
<1>1. round \in 0 .. MaxRounds /\ killRound \in 0 .. MaxRounds /\ killed \in BOOLEAN
    BY DEF SafetyInv, TypeOK
<1>2. /\ mgr = "execute" /\ round < MaxRounds /\ round' = round + 1
      /\ svr' = [svr EXCEPT ![round + 1] = "up"]
      /\ UNCHANGED <<closed, killed, killRound>>
    BY DEF StartClient, chanVars, envVars
<1>3. \A r \in 1 .. round : closed[r]
    <2> SUFFICES ASSUME NEW r \in 1 .. round PROVE closed[r]
        OBVIOUS
    <2>1. r \in Round /\ (r < round \/ r = round)
        BY <1>1, RoundsAssumption DEF Round
    <2> QED
        BY <1>2, <2>1 DEF SafetyInv, RoundInv, RoundOf
<1>4. ~(killed /\ round > killRound) /\ killRound <= round
    BY <1>1, <1>2 DEF SafetyInv, KillInv
<1>5. (killed /\ round > killRound)' = killed
    BY <1>1, <1>2, <1>4
<1> QED
    BY <1>2, <1>3, <1>4, <1>5 DEF Clients!Supply

\* Each step is a step of ClientSupply or a stutter: the steps of a channel's
\* first caller revoke the client and tell it to close, in this order.
LEMMA RefinementStep == SafetyInv /\ [Next]_vars => [Clients!CSNext]_(Clients!csVars)
<1> SUFFICES ASSUME SafetyInv, [Next]_vars
             PROVE  Clients!CSNext \/ UNCHANGED Clients!csVars
    OBVIOUS
<1>1. CASE StartClient
    BY <1>1, SupplyStep DEF Clients!CSNext
<1>2. CASE Kill
    <2>1. round \in Nat /\ ~(round > round)
        BY RoundsAssumption DEF SafetyInv, TypeOK
    <2>2. Clients!Signal
        BY <1>2, <2>1 DEF Kill, chanVars, Clients!Signal
    <2> QED
        BY <2>2 DEF Clients!CSNext
<1>3. ASSUME NEW r \in Round, RunEnds(r) PROVE Clients!CSNext
    <2>1. r \in 1 .. round
        BY <1>3, Started DEF RunEnds, Caller
    <2>2. svr[r] \in {"up", "closed"}
        BY <1>3 DEF RunEnds, SafetyInv, RoundInv, RoundOf
    <2>3. Clients!End(r)
        BY <1>3, <2>2 DEF RunEnds, chanVars, envVars, Clients!End
    <2> QED
        BY <2>1, <2>3 DEF Clients!CSNext
<1>4. ASSUME NEW r \in Round, NEW c \in Caller, CloseChan(r, c) PROVE Clients!CSNext
    <2>1. r \in 1 .. round
        BY <1>4, Started DEF CloseChan
    <2>2. ~closed[r]
        BY <1>4 DEF CloseChan, SafetyInv, OnceInv, OnceOf
    <2>3. Clients!Revoke(r)
        BY <1>4, <2>2 DEF CloseChan, envVars, Clients!Revoke
    <2> QED
        BY <2>1, <2>3 DEF Clients!CSNext
<1>5. ASSUME NEW r \in Round, NEW c \in Caller, RunCallback(r, c)
      PROVE  Clients!CSNext \/ UNCHANGED Clients!csVars
    <2>1. r \in 1 .. round /\ closed[r]
        BY <1>5, Started DEF RunCallback, SafetyInv, OnceInv, OnceOf
    <2>2. UNCHANGED <<round, closed, killed, killRound>>
        BY <1>5 DEF RunCallback, envVars
    <2>3. CASE svr[r] = "up"
        <3>1. svr' = [svr EXCEPT ![r] = "closed"]
            BY <1>5, <2>3 DEF RunCallback
        <3>2. Clients!TellToClose(r)
            BY <2>1, <2>2, <2>3, <3>1 DEF Clients!TellToClose
        <3> QED
            BY <2>1, <3>2 DEF Clients!CSNext
    <2>4. CASE svr[r] # "up"
        <3>1. svr' = svr
            BY <1>5, <2>4 DEF RunCallback, SafetyInv, TypeOK
        <3> QED
            BY <2>2, <3>1 DEF Clients!csVars
    <2> QED
        BY <2>3, <2>4
<1>6. CASE UNCHANGED <<round, closed, svr, killed, killRound>>
    BY <1>6 DEF Clients!csVars
<1> QED
    BY <1>1, <1>2, <1>3, <1>4, <1>5, <1>6
    DEF Next, Manager, Dog, Run, Cancel, CheckKill, ProbeUp, ExecuteFails, AssignNil, ReturnErr,
        Resume, DogLoop, DogDecide, PassReason, EnterOnce, SetReason, PortChanges, Exit,
        Caller, vars, chanVars, envVars

\* Whatever its goroutines do, RunFRPc is a ClientSupply: one client after
\* another, each revoked once and before it is told to close, a new one only when
\* all before it are revoked, and one more at most after the kill signal.
THEOREM Refinement == Spec => ImplementsClientSupply
<1>1. Init => Clients!CSInit
    BY DEF Init, Round, Clients!CSInit
<1> QED
    BY <1>1, RefinementStep, SafetyInvariant, PTL
    DEF Spec, ImplementsClientSupply, Clients!CSSpec
=============================================================================

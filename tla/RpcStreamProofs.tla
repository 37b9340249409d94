--------------------------- MODULE RpcStreamProofs ---------------------------
(***************************************************************************)
(* Theorems about RpcStream, for any sets of connections, ids and messages *)
(* and any bound on the replies.  The safety properties are not inductive: *)
(* what ties them together is where the three goroutines of a message may  *)
(* be at the same time (Joint), who holds the lock (LockInv), and that a   *)
(* call cancelled through the registry has already left its first steps    *)
(* (CancelledStarted).                                                     *)
(***************************************************************************)
EXTENDS RpcStream, TLAPS

\* Where the goroutines of one message may be together.
Joint(m) ==
    /\ wpc[m] = "idle" <=> hpc[m] = "idle"
    /\ wpc[m] = "done" => hpc[m] = "closed"
    /\ hpc[m] \in {"idle", "handle", "sendok", "sendko", "prepare", "syncing"} =>
           sent[m] = 0 /\ lpc[m] = "off" /\ wpc[m] \in {"idle", "recv"}
    /\ hpc[m] = "sendok" => req[m].method = "cancel"
    /\ hpc[m] = "sendko" => req[m].method = "other"
    /\ Registered(m) => req[m].method = "watch"
    /\ req[m].method # "watch" => lpc[m] = "off" /\ sent[m] <= 1
    /\ lpc[m] \in {"ready", "sending"} /\ hpc[m] # "watching" => Ended(m)

JointInv == \A m \in Msg : Joint(m)

LockInv == \A m \in Msg : lock = m <=> hpc[m] = "sendok"

CancelledStarted == \A m \in cancelled : hpc[m] \notin {"idle", "handle"}

SafetyInv ==
    /\ JointInv
    /\ LockInv
    /\ CancelledStarted
    /\ RegistrySound
    /\ EntryLostOnlyToNamesake
    /\ CancelledByNamesake
    /\ CrashNeedsEndedWatch
    /\ NoReplyLost

-----------------------------------------------------------------------------
(* Two groups of steps that leave most of the state alone                  *)

\* Steps within WatchHandler.Handle.
WatchStep(m) ==
    \/ PrepareFails(m) \/ StartInformer(m) \/ CacheSynced(m)
    \/ SyncAborted(m) \/ WatchEnds(m)

\* Steps of CallDispatcher.Handle that do not touch the registry.
PlainStep(m) ==
    \/ DecodeFails(m) \/ ReplyOk(m) \/ UnknownMethod(m)
    \/ ReplyKo(m) \/ CloseReply(m)

\* Neither the listener, nor the draining loop, nor a connection moves a
\* handler or touches the dispatcher's registry.
Bystander == UNCHANGED <<req, hpc, active, lock, cancelled>>

\* Every step is one of the registry's three locked sections, a step of the
\* two groups above, the dispatch of a message, or a bystander's.
LEMMA StepKinds ==
    ASSUME [Next]_vars
    PROVE  \/ \E n \in Msg : \/ Dispatch(n) \/ WatchStep(n) \/ PlainStep(n)
                            \/ LookupCancel(n) \/ RegisterCall(n)
                            \/ UnregisterCall(n)
           \/ Bystander
<1>1. ASSUME NEW n \in Msg, Listener(n) PROVE Bystander
    BY <1>1 DEF Bystander, Listener, ListenerEvent, SendEvent, SendOnClosed,
                ListenerStops, HandOver, callVars
<1>2. ASSUME NEW n \in Msg, Writer(n) PROVE Bystander
    BY <1>2 DEF Bystander, Writer, WriteOk, WriteFail, WriterEnds, callVars
<1>3. ASSUME NEW k \in Conn, LoopBreaks(k) \/ CloseConn(k) PROVE Bystander
    BY <1>3 DEF Bystander, LoopBreaks, CloseConn, callVars
<1>4. CASE UNCHANGED vars
    BY <1>4 DEF Bystander, vars
<1> QED
    BY <1>1, <1>2, <1>3, <1>4
    DEF Next, Step, Finished, Handler, WatchStep, PlainStep

-----------------------------------------------------------------------------
(* One lemma per conjunct of the invariant                                 *)

\* n was registered under the id of m.
Namesake(n, m) ==
    /\ req[n].method = "watch"
    /\ IdOf(n) = IdOf(m)
    /\ hpc[n] \notin {"idle", "handle"}

\* c is a ".cancel" with the id of m that has been carried out.
Canceller(c, m) ==
    /\ req[c].method = "cancel"
    /\ IdOf(c) = IdOf(m)
    /\ hpc[c] \notin {"idle", "handle"}

\* What a message says is fixed, and no handler goes back to its first steps.
OnlyForward ==
    /\ req' = req
    /\ \A n \in Msg : hpc[n] \notin {"idle", "handle"} =>
                         hpc'[n] \notin {"idle", "handle"}

\* Every step keeps the types.
LEMMA TypeStep == TypeOK /\ [Next]_vars => TypeOK'
<1> SUFFICES ASSUME TypeOK, [Next]_vars PROVE TypeOK'
    OBVIOUS
<1> USE NoMsgAssumption
        DEF TypeOK, Request, HandlerPC, WriterPC, ListenerPC, LoopPC, ConnOf,
            IdOf
<1>1. ASSUME NEW n \in Msg, Dispatch(n) PROVE TypeOK'
    <2>1. hpc' \in [Msg -> HandlerPC]
        BY <1>1 DEF Dispatch
    <2>2. wpc' \in [Msg -> WriterPC]
        BY <1>1 DEF Dispatch
    <2> QED
        BY <1>1, <2>1, <2>2 DEF Dispatch, connVars, callVars, replyVars
<1>2. ASSUME NEW n \in Msg, DecodeFails(n) PROVE TypeOK'
    BY <1>2 DEF DecodeFails, connVars, callVars, replyVars
<1>3. ASSUME NEW n \in Msg, LookupCancel(n) PROVE TypeOK'
    BY <1>3 DEF LookupCancel, connVars, callVars, replyVars
<1>4. ASSUME NEW n \in Msg, ReplyOk(n) PROVE TypeOK'
    BY <1>4 DEF ReplyOk, HandOver, connVars, callVars, replyVars
<1>5. ASSUME NEW n \in Msg, UnknownMethod(n) PROVE TypeOK'
    BY <1>5 DEF UnknownMethod, connVars, callVars, replyVars
<1>6. ASSUME NEW n \in Msg, ReplyKo(n) PROVE TypeOK'
    BY <1>6 DEF ReplyKo, HandOver, connVars, callVars, replyVars
<1>7. ASSUME NEW n \in Msg, RegisterCall(n) PROVE TypeOK'
    BY <1>7 DEF RegisterCall, connVars, callVars, replyVars
<1>8. ASSUME NEW n \in Msg, UnregisterCall(n) PROVE TypeOK'
    BY <1>8 DEF UnregisterCall, connVars, callVars, replyVars
<1>9. ASSUME NEW n \in Msg, PrepareFails(n) PROVE TypeOK'
    BY <1>9 DEF PrepareFails, connVars, callVars, replyVars
<1>10. ASSUME NEW n \in Msg, StartInformer(n) PROVE TypeOK'
    BY <1>10 DEF StartInformer, connVars, callVars, replyVars
<1>11. ASSUME NEW n \in Msg, CacheSynced(n) PROVE TypeOK'
    BY <1>11 DEF CacheSynced, connVars, callVars, replyVars
<1>12. ASSUME NEW n \in Msg, SyncAborted(n) PROVE TypeOK'
    BY <1>12 DEF SyncAborted, connVars, callVars, replyVars
<1>13. ASSUME NEW n \in Msg, WatchEnds(n) PROVE TypeOK'
    BY <1>13 DEF WatchEnds, connVars, callVars, replyVars
<1>14. ASSUME NEW n \in Msg, CloseReply(n) PROVE TypeOK'
    BY <1>14 DEF CloseReply, connVars, callVars, replyVars
<1>15. ASSUME NEW n \in Msg, ListenerEvent(n) PROVE TypeOK'
    BY <1>15 DEF ListenerEvent, connVars, callVars, replyVars
<1>16. ASSUME NEW n \in Msg, SendEvent(n) PROVE TypeOK'
    BY <1>16 DEF SendEvent, HandOver, connVars, callVars, replyVars
<1>17. ASSUME NEW n \in Msg, SendOnClosed(n) PROVE TypeOK'
    BY <1>17 DEF SendOnClosed, connVars, callVars, replyVars
<1>18. ASSUME NEW n \in Msg, ListenerStops(n) PROVE TypeOK'
    BY <1>18 DEF ListenerStops, connVars, callVars, replyVars
<1>19. ASSUME NEW n \in Msg, WriteOk(n) PROVE TypeOK'
    BY <1>19 DEF WriteOk, connVars, callVars, replyVars
<1>20. ASSUME NEW n \in Msg, WriteFail(n) PROVE TypeOK'
    BY <1>20 DEF WriteFail, connVars, callVars, replyVars
<1>21. ASSUME NEW n \in Msg, WriterEnds(n) PROVE TypeOK'
    BY <1>21 DEF WriterEnds, connVars, callVars, replyVars
<1>22. ASSUME NEW k \in Conn, LoopBreaks(k) PROVE TypeOK'
    BY <1>22 DEF LoopBreaks, connVars, callVars, replyVars
<1>23. ASSUME NEW k \in Conn, CloseConn(k) PROVE TypeOK'
    BY <1>23 DEF CloseConn, connVars, callVars, replyVars
<1>24. CASE UNCHANGED vars
    BY <1>24 DEF vars
<1> HIDE DEF TypeOK
<1> QED
    BY <1>1, <1>2, <1>3, <1>4, <1>5, <1>6, <1>7, <1>8, <1>9, <1>10, <1>11,
       <1>12, <1>13, <1>14, <1>15, <1>16, <1>17, <1>18, <1>19, <1>20, <1>21,
       <1>22, <1>23, <1>24
    DEF Next, Step, Finished, Handler, Listener, Writer

\* The goroutines of a message stay in one of the combinations of Joint.
LEMMA JointStep == TypeOK /\ JointInv /\ [Next]_vars => JointInv'
<1> SUFFICES ASSUME TypeOK, JointInv, [Next]_vars PROVE JointInv'
    OBVIOUS
<1> USE NoMsgAssumption
        DEF JointInv, Joint, TypeOK, Registered, Ended, ConnOf, Request
<1>1. ASSUME NEW n \in Msg, Dispatch(n) PROVE JointInv'
    BY <1>1 DEF Dispatch, connVars, callVars, replyVars
<1>2. ASSUME NEW n \in Msg, DecodeFails(n) PROVE JointInv'
    BY <1>2 DEF DecodeFails, connVars, callVars, replyVars
<1>3. ASSUME NEW n \in Msg, LookupCancel(n) PROVE JointInv'
    BY <1>3 DEF LookupCancel, connVars, callVars, replyVars
<1>4. ASSUME NEW n \in Msg, ReplyOk(n) PROVE JointInv'
    BY <1>4 DEF ReplyOk, HandOver, connVars, callVars, replyVars
<1>5. ASSUME NEW n \in Msg, UnknownMethod(n) PROVE JointInv'
    BY <1>5 DEF UnknownMethod, connVars, callVars, replyVars
<1>6. ASSUME NEW n \in Msg, ReplyKo(n) PROVE JointInv'
    BY <1>6 DEF ReplyKo, HandOver, connVars, callVars, replyVars
<1>7. ASSUME NEW n \in Msg, RegisterCall(n) PROVE JointInv'
    BY <1>7 DEF RegisterCall, connVars, callVars, replyVars
<1>8. ASSUME NEW n \in Msg, UnregisterCall(n) PROVE JointInv'
    BY <1>8 DEF UnregisterCall, connVars, callVars, replyVars
<1>9. ASSUME NEW n \in Msg, PrepareFails(n) PROVE JointInv'
    BY <1>9 DEF PrepareFails, connVars, callVars, replyVars
<1>10. ASSUME NEW n \in Msg, StartInformer(n) PROVE JointInv'
    BY <1>10 DEF StartInformer, connVars, callVars, replyVars
<1>11. ASSUME NEW n \in Msg, CacheSynced(n) PROVE JointInv'
    BY <1>11 DEF CacheSynced, connVars, callVars, replyVars
<1>12. ASSUME NEW n \in Msg, SyncAborted(n) PROVE JointInv'
    BY <1>12 DEF SyncAborted, connVars, callVars, replyVars
<1>13. ASSUME NEW n \in Msg, WatchEnds(n) PROVE JointInv'
    BY <1>13 DEF WatchEnds, connVars, callVars, replyVars
<1>14. ASSUME NEW n \in Msg, CloseReply(n) PROVE JointInv'
    BY <1>14 DEF CloseReply, connVars, callVars, replyVars
<1>15. ASSUME NEW n \in Msg, ListenerEvent(n) PROVE JointInv'
    BY <1>15 DEF ListenerEvent, connVars, callVars, replyVars
<1>16. ASSUME NEW n \in Msg, SendEvent(n) PROVE JointInv'
    BY <1>16 DEF SendEvent, HandOver, connVars, callVars, replyVars
<1>17. ASSUME NEW n \in Msg, SendOnClosed(n) PROVE JointInv'
    BY <1>17 DEF SendOnClosed, connVars, callVars, replyVars
<1>18. ASSUME NEW n \in Msg, ListenerStops(n) PROVE JointInv'
    BY <1>18 DEF ListenerStops, connVars, callVars, replyVars
<1>19. ASSUME NEW n \in Msg, WriteOk(n) PROVE JointInv'
    BY <1>19 DEF WriteOk, connVars, callVars, replyVars
<1>20. ASSUME NEW n \in Msg, WriteFail(n) PROVE JointInv'
    BY <1>20 DEF WriteFail, connVars, callVars, replyVars
<1>21. ASSUME NEW n \in Msg, WriterEnds(n) PROVE JointInv'
    BY <1>21 DEF WriterEnds, connVars, callVars, replyVars
<1>22. ASSUME NEW k \in Conn, LoopBreaks(k) PROVE JointInv'
    BY <1>22 DEF LoopBreaks, connVars, callVars, replyVars
<1>23. ASSUME NEW k \in Conn, CloseConn(k) PROVE JointInv'
    BY <1>23 DEF CloseConn, connVars, callVars, replyVars
<1>24. CASE UNCHANGED vars
    BY <1>24 DEF vars
<1> HIDE DEF JointInv
<1> QED
    BY <1>1, <1>2, <1>3, <1>4, <1>5, <1>6, <1>7, <1>8, <1>9, <1>10, <1>11,
       <1>12, <1>13, <1>14, <1>15, <1>16, <1>17, <1>18, <1>19, <1>20, <1>21,
       <1>22, <1>23, <1>24
    DEF Next, Step, Finished, Handler, Listener, Writer

\* Only the handler in the middle of its ok reply keeps the lock.
LEMMA LockStep == TypeOK /\ LockInv /\ [Next]_vars => LockInv'
<1> SUFFICES ASSUME TypeOK, LockInv, [Next]_vars PROVE LockInv'
    OBVIOUS
<1> USE NoMsgAssumption DEF LockInv, TypeOK
<1>1. ASSUME NEW n \in Msg, Dispatch(n) PROVE LockInv'
    BY <1>1 DEF Dispatch, callVars
<1>2. ASSUME NEW n \in Msg, LookupCancel(n) PROVE LockInv'
    BY <1>2 DEF LookupCancel, callVars
<1>3. ASSUME NEW n \in Msg, RegisterCall(n) PROVE LockInv'
    BY <1>3 DEF RegisterCall, callVars
<1>4. ASSUME NEW n \in Msg, UnregisterCall(n) PROVE LockInv'
    BY <1>4 DEF UnregisterCall, callVars
<1>5. ASSUME NEW n \in Msg, WatchStep(n) PROVE LockInv'
    BY <1>5 DEF WatchStep, callVars, PrepareFails, StartInformer, CacheSynced,
       SyncAborted, WatchEnds
<1>6. ASSUME NEW n \in Msg, PlainStep(n) PROVE LockInv'
    BY <1>6 DEF PlainStep, callVars, DecodeFails, ReplyOk, UnknownMethod,
       ReplyKo, CloseReply, HandOver
<1>7. CASE Bystander
    BY <1>7 DEF Bystander
<1> HIDE DEF LockInv
<1> QED
    BY StepKinds, <1>1, <1>2, <1>3, <1>4, <1>5, <1>6, <1>7

\* A call cancelled through the registry has left its first steps: the
\* registry only names calls that entered themselves.
LEMMA StartedStep ==
    TypeOK /\ RegistrySound /\ CancelledStarted /\ [Next]_vars
        => CancelledStarted'
<1> SUFFICES ASSUME TypeOK, RegistrySound, CancelledStarted, [Next]_vars
             PROVE  CancelledStarted'
    OBVIOUS
<1> USE NoMsgAssumption
        DEF CancelledStarted, TypeOK, RegistrySound, Registered, IdOf, Request
<1>1. ASSUME NEW n \in Msg, Dispatch(n) PROVE CancelledStarted'
    BY <1>1 DEF Dispatch, callVars
<1>2. ASSUME NEW n \in Msg, LookupCancel(n) PROVE CancelledStarted'
    BY <1>2 DEF LookupCancel, callVars
<1>3. ASSUME NEW n \in Msg, RegisterCall(n) PROVE CancelledStarted'
    BY <1>3 DEF RegisterCall, callVars
<1>4. ASSUME NEW n \in Msg, UnregisterCall(n) PROVE CancelledStarted'
    BY <1>4 DEF UnregisterCall, callVars
<1>5. ASSUME NEW n \in Msg, WatchStep(n) PROVE CancelledStarted'
    BY <1>5 DEF WatchStep, callVars, PrepareFails, StartInformer, CacheSynced,
       SyncAborted, WatchEnds
<1>6. ASSUME NEW n \in Msg, PlainStep(n) PROVE CancelledStarted'
    BY <1>6 DEF PlainStep, callVars, DecodeFails, ReplyOk, UnknownMethod,
       ReplyKo, CloseReply, HandOver
<1>7. CASE Bystander
    BY <1>7 DEF Bystander
<1> HIDE DEF CancelledStarted
<1> QED
    BY StepKinds, <1>1, <1>2, <1>3, <1>4, <1>5, <1>6, <1>7

\* The registry stays sound: a call removes the entry of its id before it
\* ends, and what a ".cancel" cancels leaves the registry at once.
LEMMA RegistryStep ==
    TypeOK /\ CancelledStarted /\ RegistrySound /\ [Next]_vars
        => RegistrySound'
<1> SUFFICES ASSUME TypeOK, CancelledStarted, RegistrySound, [Next]_vars
             PROVE  RegistrySound'
    OBVIOUS
<1> USE NoMsgAssumption
        DEF RegistrySound, CancelledStarted, TypeOK, Registered, IdOf, Request
<1>1. ASSUME NEW n \in Msg, Dispatch(n) PROVE RegistrySound'
    BY <1>1 DEF Dispatch, callVars
<1>2. ASSUME NEW n \in Msg, LookupCancel(n) PROVE RegistrySound'
    BY <1>2 DEF LookupCancel, callVars
<1>3. ASSUME NEW n \in Msg, RegisterCall(n) PROVE RegistrySound'
    BY <1>3 DEF RegisterCall, callVars
<1>4. ASSUME NEW n \in Msg, UnregisterCall(n) PROVE RegistrySound'
    BY <1>4 DEF UnregisterCall, callVars
<1>5. ASSUME NEW n \in Msg, WatchStep(n) PROVE RegistrySound'
    BY <1>5 DEF WatchStep, callVars, PrepareFails, StartInformer, CacheSynced,
       SyncAborted, WatchEnds
<1>6. ASSUME NEW n \in Msg, PlainStep(n) PROVE RegistrySound'
    BY <1>6 DEF PlainStep, callVars, DecodeFails, ReplyOk, UnknownMethod,
       ReplyKo, CloseReply, HandOver
<1>7. CASE Bystander
    BY <1>7 DEF Bystander
<1> HIDE DEF RegistrySound
<1> QED
    BY StepKinds, <1>1, <1>2, <1>3, <1>4, <1>5, <1>6, <1>7

\* Requests are constant and handlers only move on.
LEMMA LeftStep == TypeOK /\ [Next]_vars => OnlyForward
<1> SUFFICES ASSUME TypeOK, [Next]_vars PROVE OnlyForward
    OBVIOUS
<1> USE NoMsgAssumption DEF TypeOK, OnlyForward
<1>1. ASSUME NEW n \in Msg, Dispatch(n) PROVE OnlyForward
    BY <1>1 DEF Dispatch, callVars
<1>2. ASSUME NEW n \in Msg, LookupCancel(n) PROVE OnlyForward
    BY <1>2 DEF LookupCancel, callVars
<1>3. ASSUME NEW n \in Msg, RegisterCall(n) PROVE OnlyForward
    BY <1>3 DEF RegisterCall, callVars
<1>4. ASSUME NEW n \in Msg, UnregisterCall(n) PROVE OnlyForward
    BY <1>4 DEF UnregisterCall, callVars
<1>5. ASSUME NEW n \in Msg, WatchStep(n) PROVE OnlyForward
    BY <1>5 DEF WatchStep, callVars, PrepareFails, StartInformer, CacheSynced,
       SyncAborted, WatchEnds
<1>6. ASSUME NEW n \in Msg, PlainStep(n) PROVE OnlyForward
    BY <1>6 DEF PlainStep, callVars, DecodeFails, ReplyOk, UnknownMethod,
       ReplyKo, CloseReply, HandOver
<1>7. CASE Bystander
    BY <1>7 DEF Bystander
<1> QED
    BY StepKinds, <1>1, <1>2, <1>3, <1>4, <1>5, <1>6, <1>7

\* A call that is served loses its entry only when a namesake overwrites or
\* deletes it; a ".cancel" that removes it also cancels it.
LEMMA LostStep ==
    TypeOK /\ JointInv /\ EntryLostOnlyToNamesake /\ [Next]_vars
        => EntryLostOnlyToNamesake'
<1> SUFFICES ASSUME TypeOK, JointInv, EntryLostOnlyToNamesake, [Next]_vars,
                    NEW m \in Msg, Serving(m)', m \notin cancelled',
                    (active[IdOf(m)] # m)'
             PROVE  \E n \in Msg \ {m} : Namesake(n, m)'
    BY DEF EntryLostOnlyToNamesake, Namesake
<1>1. /\ OnlyForward
      /\ IdOf(m) \in Id
    BY LeftStep DEF TypeOK, IdOf, Request
<1>2. ASSUME NEW n \in Msg \ {m}, Namesake(n, m)
      PROVE  \E p \in Msg \ {m} : Namesake(p, m)'
    BY <1>1, <1>2 DEF OnlyForward, Namesake, IdOf
<1>3. CASE Serving(m) /\ m \notin cancelled /\ active[IdOf(m)] # m
    BY <1>2, <1>3 DEF EntryLostOnlyToNamesake, Namesake
<1>4. CASE Serving(m) /\ m \notin cancelled /\ active[IdOf(m)] = m
  <2> USE NoMsgAssumption DEF TypeOK, Serving, IdOf
  <2>1. ASSUME NEW n \in Msg, LookupCancel(n) PROVE FALSE
      BY <1>1, <1>4, <2>1 DEF LookupCancel
  <2>2. ASSUME NEW n \in Msg, RegisterCall(n)
        PROVE  \E p \in Msg \ {m} : Namesake(p, m)'
    <3>1. n # m /\ req[n].id = req[m].id
        BY <1>1, <1>4, <2>2 DEF RegisterCall
    <3>2. Namesake(n, m)'
        BY <2>2, <3>1 DEF RegisterCall, Namesake
    <3> QED
        BY <3>1, <3>2
  <2>3. ASSUME NEW n \in Msg, UnregisterCall(n)
        PROVE  \E p \in Msg \ {m} : Namesake(p, m)'
    <3>1. n # m /\ req[n].id = req[m].id
        BY <1>1, <1>4, <2>3 DEF UnregisterCall
    <3>2. req[n].method = "watch"
        BY <2>3 DEF UnregisterCall, JointInv, Joint, Registered
    <3>3. Namesake(n, m)'
        BY <2>3, <3>1, <3>2 DEF UnregisterCall, Namesake
    <3> QED
        BY <3>1, <3>3
  <2>4. ASSUME active' = active, req' = req PROVE FALSE
      BY <1>4, <2>4
  <2> QED
      BY StepKinds, <2>1, <2>2, <2>3, <2>4
      DEF Bystander, Dispatch, WatchStep, PlainStep, callVars, PrepareFails,
          StartInformer, CacheSynced, SyncAborted, WatchEnds, DecodeFails,
          ReplyOk, UnknownMethod, ReplyKo, CloseReply
<1>5. CASE m \in cancelled
    BY <1>5, StepKinds
    DEF LookupCancel, RegisterCall, UnregisterCall, Bystander, Dispatch,
        WatchStep, PlainStep, callVars, PrepareFails, StartInformer,
        CacheSynced, SyncAborted, WatchEnds, DecodeFails, ReplyOk,
        UnknownMethod, ReplyKo, CloseReply
<1>6. CASE ~Serving(m)
  \* The step begins to serve m: it enters m into the registry.
  <2>1. RegisterCall(m)
      BY <1>6, StepKinds
      DEF TypeOK, Serving, LookupCancel, RegisterCall, UnregisterCall,
          Bystander, Dispatch, WatchStep, PlainStep, callVars, PrepareFails,
          StartInformer, CacheSynced, SyncAborted, WatchEnds, DecodeFails,
          ReplyOk, UnknownMethod, ReplyKo, CloseReply
  <2> QED
      BY <1>1, <2>1 DEF RegisterCall, TypeOK, IdOf
<1> QED
    BY <1>3, <1>4, <1>5, <1>6

\* A call joins cancelled only through a ".cancel" carrying its id.
LEMMA NamesakeStep ==
    TypeOK /\ RegistrySound /\ CancelledByNamesake /\ [Next]_vars
        => CancelledByNamesake'
<1> SUFFICES ASSUME TypeOK, RegistrySound, CancelledByNamesake, [Next]_vars,
                    NEW m \in cancelled'
             PROVE  \E c \in Msg : Canceller(c, m)'
    BY DEF CancelledByNamesake, Canceller
<1>1. OnlyForward
    BY LeftStep
<1>2. CASE m \in cancelled
  <2>1. PICK c \in Msg : Canceller(c, m)
      BY <1>2 DEF CancelledByNamesake, Canceller
  <2>2. Canceller(c, m)'
      BY <1>1, <2>1 DEF OnlyForward, Canceller, IdOf
  <2> QED
      BY <2>2
<1>3. CASE m \notin cancelled
  <2>1. PICK c \in Msg : LookupCancel(c)
      BY <1>3, StepKinds
      DEF RegisterCall, UnregisterCall, Bystander, Dispatch, WatchStep,
          PlainStep, callVars, PrepareFails, StartInformer, CacheSynced,
          SyncAborted, WatchEnds, DecodeFails, ReplyOk, UnknownMethod,
          ReplyKo, CloseReply
  <2>2. IdOf(c) \in Id /\ m = active[IdOf(c)] /\ m # NoMsg
      BY <1>3, <2>1 DEF LookupCancel, TypeOK, IdOf, Request
  <2>3. IdOf(m) = IdOf(c)
      BY <2>2 DEF RegistrySound
  <2>4. Canceller(c, m)'
      BY <2>1, <2>3 DEF LookupCancel, Canceller, IdOf, TypeOK
  <2> QED
      BY <2>4
<1> QED
    BY <1>2, <1>3

\* The process dies only in SendOnClosed, and stays as it was then.
LEMMA CrashStep ==
    TypeOK /\ JointInv /\ CrashNeedsEndedWatch /\ [Next]_vars
        => CrashNeedsEndedWatch'
<1> SUFFICES ASSUME TypeOK, JointInv, CrashNeedsEndedWatch, [Next]_vars, crashed'
             PROVE  CrashNeedsEndedWatch'
    BY DEF CrashNeedsEndedWatch
<1>1. CASE crashed
  <2>1. UNCHANGED vars
      BY <1>1 DEF Next, Finished
  <2> QED
      BY <1>1, <2>1 DEF CrashNeedsEndedWatch, vars, Ended, ConnOf
<1>2. CASE ~crashed
  <2>1. PICK n \in Msg : SendOnClosed(n)
      BY <1>2
      DEF Next, Step, Finished, vars, Handler, Listener, Writer, Dispatch,
          DecodeFails, LookupCancel, ReplyOk, UnknownMethod, ReplyKo,
          RegisterCall, UnregisterCall, PrepareFails, StartInformer,
          CacheSynced, SyncAborted, WatchEnds, CloseReply, ListenerEvent,
          SendEvent, ListenerStops, WriteOk, WriteFail, WriterEnds,
          LoopBreaks, CloseConn
  <2>2. Ended(n) /\ req[n].method = "watch"
      BY <2>1 DEF SendOnClosed, JointInv, Joint
  <2> QED
      BY <2>1, <2>2
      DEF SendOnClosed, CrashNeedsEndedWatch, Ended, ConnOf, callVars, connVars
<1> QED
    BY <1>1, <1>2

\* Replies are counted once when taken and once when written.
LEMMA ReplyStep ==
    TypeOK /\ JointInv /\ NoReplyLost /\ [Next]_vars
        => NoReplyLost'
<1> SUFFICES ASSUME TypeOK, JointInv, NoReplyLost, [Next]_vars
             PROVE  NoReplyLost'
    OBVIOUS
<1> USE DEF NoReplyLost, TypeOK, ConnOf, Request
<1>1. ASSUME NEW n \in Msg, Dispatch(n) PROVE NoReplyLost'
    BY <1>1 DEF Dispatch, connVars, replyVars, JointInv, Joint
<1>2. ASSUME NEW n \in Msg, ReplyOk(n) PROVE NoReplyLost'
    BY <1>2 DEF ReplyOk, HandOver, connVars
<1>3. ASSUME NEW n \in Msg, ReplyKo(n) PROVE NoReplyLost'
    BY <1>3 DEF ReplyKo, HandOver, connVars
<1>4. ASSUME NEW n \in Msg, SendEvent(n) PROVE NoReplyLost'
    BY <1>4 DEF SendEvent, HandOver, connVars
<1>5. ASSUME NEW n \in Msg, WriteOk(n) PROVE NoReplyLost'
    BY <1>5 DEF WriteOk, connVars
<1>6. ASSUME NEW n \in Msg, WriteFail(n) PROVE NoReplyLost'
    BY <1>6 DEF WriteFail, replyVars
<1>7. ASSUME NEW n \in Msg, WriterEnds(n) PROVE NoReplyLost'
    BY <1>7 DEF WriterEnds, connVars, replyVars
<1>8. CASE UNCHANGED <<req, wpc, sockErr, sent, delivered>>
    BY <1>8
<1> HIDE DEF NoReplyLost
<1> QED
    BY <1>1, <1>2, <1>3, <1>4, <1>5, <1>6, <1>7, <1>8
    DEF Next, Step, Finished, vars, Handler, Listener, Writer, DecodeFails,
        LookupCancel, UnknownMethod, RegisterCall, UnregisterCall,
        PrepareFails, StartInformer, CacheSynced, SyncAborted, WatchEnds,
        CloseReply, ListenerEvent, SendOnClosed, ListenerStops, LoopBreaks,
        CloseConn, connVars, replyVars, callVars

-----------------------------------------------------------------------------
(* The theorems                                                            *)

\* The initial states are typed and safe.
LEMMA InitSafe == Init => TypeOK /\ SafetyInv
<1> SUFFICES ASSUME Init PROVE TypeOK /\ SafetyInv
    OBVIOUS
<1> USE DEF Init
<1>1. TypeOK
    BY RequestsAssumption DEF TypeOK, HandlerPC, WriterPC, ListenerPC, LoopPC
<1>2. JointInv
    BY DEF JointInv, Joint, Registered
<1>3. LockInv /\ CancelledStarted /\ CancelledByNamesake /\ CrashNeedsEndedWatch
    BY NoMsgAssumption
    DEF LockInv, CancelledStarted, CancelledByNamesake, CrashNeedsEndedWatch
<1>4. RegistrySound /\ EntryLostOnlyToNamesake
    BY DEF RegistrySound, EntryLostOnlyToNamesake, Serving
<1>5. NoReplyLost
    BY DEF NoReplyLost
<1> QED
    BY <1>1, <1>2, <1>3, <1>4, <1>5 DEF SafetyInv

\* RpcStream's goroutines, registry and counters keep their types, for any
\* number of connections, ids and messages.
THEOREM TypeCorrect == Spec => []TypeOK
<1>1. Init => TypeOK
    BY InitSafe
<1> QED
    BY <1>1, TypeStep, PTL DEF Spec

\* The conjuncts above are an inductive invariant of the calls.
THEOREM SafetyInvariant == Spec => []SafetyInv
<1>1. Init => SafetyInv
    BY InitSafe
<1>2. TypeOK /\ SafetyInv /\ [Next]_vars => SafetyInv'
    BY JointStep, LockStep, StartedStep, RegistryStep, LostStep, NamesakeStep,
       CrashStep, ReplyStep
    DEF SafetyInv
<1> QED
    BY <1>1, <1>2, TypeCorrect, PTL DEF Spec

\* CallDispatcher.activeCalls never holds the cancel function of a call that
\* has returned or was cancelled, nor one under another call's id.
THEOREM RegistryCorrect == Spec => []RegistrySound
<1>1. SafetyInv => RegistrySound
    BY DEF SafetyInv
<1> QED
    BY <1>1, SafetyInvariant, PTL

\* The ".cancel" branch sends its reply with activeLock held, but never waits
\* for a socket: its draining goroutine is ready to receive.
THEOREM LockHolderNeverWaits == Spec => []LockHolderCanReply
<1>1. TypeOK /\ SafetyInv => LockHolderCanReply
    BY NoMsgAssumption
    DEF TypeOK, SafetyInv, LockInv, JointInv, Joint, LockHolderCanReply
<1> QED
    BY <1>1, TypeCorrect, SafetyInvariant, PTL

\* A call being served loses its registry entry only to a call with its id.
THEOREM EntryLossExplained == Spec => []EntryLostOnlyToNamesake
<1>1. SafetyInv => EntryLostOnlyToNamesake
    BY DEF SafetyInv
<1> QED
    BY <1>1, SafetyInvariant, PTL

\* Only a ".cancel" that names its id cancels a call.
THEOREM CancelExplained == Spec => []CancelledByNamesake
<1>1. SafetyInv => CancelledByNamesake
    BY DEF SafetyInv
<1> QED
    BY <1>1, SafetyInvariant, PTL

\* The panic of an event handler that sends on a closed reply channel needs a
\* watch whose context has ended.
THEOREM CrashExplained == Spec => []CrashNeedsEndedWatch
<1>1. SafetyInv => CrashNeedsEndedWatch
    BY DEF SafetyInv
<1> QED
    BY <1>1, SafetyInvariant, PTL

\* While a websocket works, what dispatchMessage has taken from a handler has
\* been written, but for the reply being written now.
THEOREM RepliesKept == Spec => []NoReplyLost
<1>1. SafetyInv => NoReplyLost
    BY DEF SafetyInv
<1> QED
    BY <1>1, SafetyInvariant, PTL

-----------------------------------------------------------------------------
(* The refinement of ReplyStream                                           *)

\* The phase of a message in ReplyStream.
Phase(m) == CASE wpc[m] = "idle" -> "new"
              [] wpc[m] = "done" -> "over"
              [] OTHER           -> "open"

\* A step that moves no phase and delivers nothing is a stutter.
LEMMA PhaseStutter ==
    ASSUME req' = req, delivered' = delivered,
           \A m \in Msg : Phase(m)' = Phase(m)
    PROVE  UNCHANGED Replies!rsVars
BY DEF Replies!rsVars, Phase

\* Each step is a step of ReplyStream or a stutter.
LEMMA RefinementStep ==
    TypeOK /\ SafetyInv /\ [Next]_vars => [Replies!RSNext]_(Replies!rsVars)
<1> SUFFICES ASSUME TypeOK, SafetyInv, [Next]_vars
             PROVE  Replies!RSNext \/ UNCHANGED Replies!rsVars
    OBVIOUS
<1> USE DEF TypeOK
<1>1. ASSUME NEW n \in Msg, Dispatch(n) PROVE Replies!RSNext
  <2>1. wpc[n] = "idle" /\ req' = req /\ delivered' = delivered
      BY <1>1 DEF Dispatch, replyVars, SafetyInv, JointInv, Joint
  <2>2. CASE req[n].method = "untyped"
    <3>1. wpc' = [wpc EXCEPT ![n] = "done"]
        BY <1>1, <2>2 DEF Dispatch
    <3>2. Replies!Close(n)
        BY <2>1, <3>1 DEF Replies!Close
    <3> QED
        BY <3>2 DEF Replies!RSNext
  <2>3. CASE req[n].method # "untyped"
    <3>1. wpc' = [wpc EXCEPT ![n] = "recv"]
        BY <1>1, <2>3 DEF Dispatch
    <3>2. Replies!Open(n)
        BY <2>1, <3>1 DEF Replies!Open
    <3> QED
        BY <3>2 DEF Replies!RSNext
  <2> QED
      BY <2>2, <2>3
<1>2. ASSUME NEW n \in Msg, WriteOk(n) PROVE Replies!RSNext
  <2>1. sent[n] = delivered[n] + 1
      BY <1>2 DEF WriteOk, SafetyInv, NoReplyLost
  <2>2. req[n].method # "watch" => delivered[n] = 0
    <3>1. Joint(n) /\ sent[n] \in Nat /\ delivered[n] \in Nat
        BY DEF SafetyInv, JointInv
    <3> QED
        BY <2>1, <3>1 DEF Joint
  <2>3. delivered' = [delivered EXCEPT ![n] = @ + 1]
      BY <1>2, <2>1 DEF WriteOk
  <2>4. /\ wpc[n] = "write"
        /\ wpc' = [wpc EXCEPT ![n] = "recv"]
        /\ req' = req
      BY <1>2 DEF WriteOk
  <2>5. Replies!Deliver(n)
      BY <2>2, <2>3, <2>4 DEF Replies!Deliver
  <2> QED
      BY <2>5 DEF Replies!RSNext
<1>3. ASSUME NEW n \in Msg, WriterEnds(n) PROVE Replies!RSNext
  <2>1. /\ wpc[n] = "recv"
        /\ wpc' = [wpc EXCEPT ![n] = "done"]
        /\ req' = req
        /\ delivered' = delivered
      BY <1>3 DEF WriterEnds, replyVars
  <2>2. Replies!Close(n)
      BY <2>1 DEF Replies!Close
  <2> QED
      BY <2>2 DEF Replies!RSNext
<1>4. ASSUME NEW n \in Msg, ReplyOk(n) \/ ReplyKo(n) \/ SendEvent(n) \/ WriteFail(n)
      PROVE  UNCHANGED Replies!rsVars
  <2>1. /\ req' = req
        /\ delivered' = delivered
        /\ \A m \in Msg : Phase(m)' = Phase(m)
      BY <1>4
      DEF ReplyOk, ReplyKo, SendEvent, WriteFail, HandOver, replyVars, Phase
  <2> QED
      BY <2>1, PhaseStutter
<1>5. CASE UNCHANGED <<req, wpc, delivered>>
    BY <1>5, PhaseStutter DEF Phase
<1> QED
    BY <1>1, <1>2, <1>3, <1>4, <1>5
    DEF Next, Step, Finished, vars, Handler, Listener, Writer, DecodeFails,
        LookupCancel, UnknownMethod, RegisterCall, UnregisterCall,
        PrepareFails, StartInformer, CacheSynced, SyncAborted, WatchEnds,
        CloseReply, ListenerEvent, SendOnClosed, ListenerStops, LoopBreaks,
        CloseConn, connVars, replyVars, callVars

\* What clients see of dispatchMessage and the handlers is a ReplyStream:
\* numbered replies without gap or repetition, one at most to a message that
\* is answered once, none after the end.
THEOREM Refinement == Spec => ImplementsReplyStream
<1>1. Init => Replies!RSInit
    BY DEF Init, Replies!RSInit
<1> QED
    BY <1>1, RefinementStep, TypeCorrect, SafetyInvariant, PTL
    DEF Spec, ImplementsReplyStream, Replies!RSSpec

==============================================================================

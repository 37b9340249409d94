------------------------------ MODULE RpcStream ------------------------------
(***************************************************************************)
(* RPC calls over websocket connections: MessageDispatcher.dispatchMessage *)
(* (api/stream/stream.go), CallDispatcher.Handle (api/stream/rpc/rpc.go)   *)
(* and WatchHandler.Handle (api/stream/rpc/kube/objects/watch.go).         *)
(*                                                                         *)
(* Every message m of Msg is served by up to three goroutines:             *)
(*   hpc[m]  the one that runs handler.Handle and then closes reply,       *)
(*   wpc[m]  dispatchMessage itself, which drains reply into the socket,   *)
(*   lpc[m]  the informer's listener, which runs the three event handlers  *)
(*           that a watch call registers.                                  *)
(* The dispatcher is one object shared by all connections; the module is   *)
(* open: which messages arrive, and when, is the environment's choice.     *)
(***************************************************************************)
EXTENDS Naturals

CONSTANTS
    Conn,        \* websocket connections
    Id,          \* call ids the clients choose
    Msg,         \* messages read from the connections
    Requests,    \* what the clients may send: functions from Msg to Request
    MaxReplies,  \* bound on the replies one watch call produces
    NoMsg        \* the zero value of a *map entry* and of the lock's holder

\* "watch" and "cancel" are the two methods known to the dispatcher, "other"
\* an unregistered method, "garbled" a message that is no Call, "untyped" a
\* message whose type has no handler.
AllMethods == {"watch", "cancel", "other", "garbled", "untyped"}

Request == [conn : Conn, id : Id, method : AllMethods]

ASSUME RequestsAssumption == Requests \subseteq [Msg -> Request]
ASSUME NoMsgAssumption  == NoMsg \notin Msg
ASSUME RepliesAssumption == MaxReplies \in Nat

VARIABLES
    req,        \* what each message says: [conn, id, method]
    hpc,        \* handler goroutine
    wpc,        \* reply-draining goroutine
    lpc,        \* informer listener goroutine
    active,     \* CallDispatcher.activeCalls
    lock,       \* holder of CallDispatcher.activeLock between two steps
    cancelled,  \* calls whose own context has been cancelled
    loop,       \* dispatchLoop of each connection
    down,       \* connections whose context (d.ctx) is cancelled
    sockErr,    \* connections whose websocket has failed a write
    sent,       \* replies accepted by reply, per message
    delivered,  \* number of the last reply written to the socket
    crashed     \* the process died of an unrecovered panic

vars == <<req, hpc, wpc, lpc, active, lock, cancelled, loop, down, sockErr,
          sent, delivered, crashed>>

HandlerPC == {"idle", "handle", "sendok", "sendko", "prepare", "syncing",
              "watching", "unregister", "closing", "closed"}
WriterPC   == {"idle", "recv", "write", "done"}
ListenerPC == {"off", "ready", "sending", "stopped"}
LoopPC     == {"reading", "broken", "closed"}

ConnOf(m) == req[m].conn
IdOf(m)   == req[m].id

\* <-ctx.Done(): the context of a call is a child of its connection's.
Ended(m) == m \in cancelled \/ ConnOf(m) \in down

\* The goroutine is inside handler.Handle, between the two locked sections
\* that enter and remove the call.
Registered(m) == hpc[m] \in {"prepare", "syncing", "watching", "unregister"}
Serving(m)    == hpc[m] \in {"prepare", "syncing", "watching"}

-----------------------------------------------------------------------------
Init ==
    /\ req \in Requests
    /\ hpc = [m \in Msg |-> "idle"]
    /\ wpc = [m \in Msg |-> "idle"]
    /\ lpc = [m \in Msg |-> "off"]
    /\ active = [i \in Id |-> NoMsg]
    /\ lock = NoMsg
    /\ cancelled = {}
    /\ loop = [k \in Conn |-> "reading"]
    /\ down = {}
    /\ sockErr = {}
    /\ sent = [m \in Msg |-> 0]
    /\ delivered = [m \in Msg |-> 0]
    /\ crashed = FALSE

connVars  == <<loop, down, sockErr>>
replyVars == <<sent, delivered>>
callVars  == <<active, lock, cancelled>>

-----------------------------------------------------------------------------
(* dispatchMessage and its two goroutines                                  *)

\* go d.dispatchMessage(msg, type), issued while the loop still reads.
Dispatch(m) ==
    /\ hpc[m] = "idle"
    /\ loop[ConnOf(m)] = "reading"
    /\ IF req[m].method = "untyped"
       THEN /\ hpc' = [hpc EXCEPT ![m] = "closed"]
            /\ wpc' = [wpc EXCEPT ![m] = "done"]
       ELSE /\ hpc' = [hpc EXCEPT ![m] = "handle"]
            /\ wpc' = [wpc EXCEPT ![m] = "recv"]
    /\ UNCHANGED <<req, lpc, callVars, connVars, replyVars, crashed>>

\* The deferred close(reply).
CloseReply(m) ==
    /\ hpc[m] = "closing"
    /\ hpc' = [hpc EXCEPT ![m] = "closed"]
    /\ UNCHANGED <<req, wpc, lpc, callVars, connVars, replyVars, crashed>>

\* A send on the unbuffered reply meets the draining goroutine's receive.
HandOver(m) ==
    /\ wpc[m] = "recv"
    /\ wpc' = [wpc EXCEPT ![m] = "write"]
    /\ sent' = [sent EXCEPT ![m] = @ + 1]

WriteOk(m) ==
    /\ wpc[m] = "write"
    /\ ConnOf(m) \notin sockErr
    /\ loop[ConnOf(m)] # "closed"
    /\ wpc' = [wpc EXCEPT ![m] = "recv"]
    /\ delivered' = [delivered EXCEPT ![m] = sent[m]]
    /\ UNCHANGED <<req, hpc, lpc, callVars, connVars, sent, crashed>>

\* writeMessage: a failed write cancels the connection's context; the
\* websocket keeps its first write error.
WriteFail(m) ==
    /\ wpc[m] = "write"
    /\ wpc' = [wpc EXCEPT ![m] = "recv"]
    /\ sockErr' = sockErr \cup {ConnOf(m)}
    /\ down' = down \cup {ConnOf(m)}
    /\ UNCHANGED <<req, hpc, lpc, callVars, loop, replyVars, crashed>>

\* for message := range reply ends on the closed channel.
WriterEnds(m) ==
    /\ wpc[m] = "recv"
    /\ hpc[m] = "closed"
    /\ wpc' = [wpc EXCEPT ![m] = "done"]
    /\ UNCHANGED <<req, hpc, lpc, callVars, connVars, replyVars, crashed>>

-----------------------------------------------------------------------------
(* CallDispatcher.Handle                                                   *)

\* json.Unmarshal(msg, &call) fails: return err, no reply.
DecodeFails(m) ==
    /\ hpc[m] = "handle"
    /\ req[m].method = "garbled"
    /\ hpc' = [hpc EXCEPT ![m] = "closing"]
    /\ UNCHANGED <<req, wpc, lpc, callVars, connVars, replyVars, crashed>>

\* Mutant: the entry is used without testing that it was found.
LookupCancel_NoFoundTest(m) ==
    /\ hpc[m] = "handle" /\ req[m].method = "cancel" /\ lock = NoMsg
    /\ lock' = m
    /\ hpc' = [hpc EXCEPT ![m] = "sendok"]
    /\ active' = [active EXCEPT ![IdOf(m)] = NoMsg]
    /\ cancelled' = cancelled \cup {active[IdOf(m)]}
    /\ UNCHANGED <<req, wpc, lpc, connVars, replyVars, crashed>>

\* Mutant: the entry is deleted, its cancel function never called.
LookupCancel_NoCancel(m) ==
    /\ hpc[m] = "handle" /\ req[m].method = "cancel" /\ lock = NoMsg
    /\ lock' = m
    /\ hpc' = [hpc EXCEPT ![m] = "sendok"]
    /\ active' = [active EXCEPT ![IdOf(m)] = NoMsg]
    /\ UNCHANGED <<req, wpc, lpc, cancelled, connVars, replyVars, crashed>>

\* Mutant: every active call is cancelled.
LookupCancel_All(m) ==
    /\ hpc[m] = "handle" /\ req[m].method = "cancel" /\ lock = NoMsg
    /\ lock' = m
    /\ hpc' = [hpc EXCEPT ![m] = "sendok"]
    /\ active' = [i \in Id |-> NoMsg]
    /\ cancelled' = cancelled \cup ({active[i] : i \in Id} \ {NoMsg})
    /\ UNCHANGED <<req, wpc, lpc, connVars, replyVars, crashed>>

\* ".cancel": with activeLock held until the ok reply has been taken.
LookupCancel(m) ==
    /\ hpc[m] = "handle"
    /\ req[m].method = "cancel"
    /\ lock = NoMsg
    /\ lock' = m
    /\ hpc' = [hpc EXCEPT ![m] = "sendok"]
    /\ active' = [active EXCEPT ![IdOf(m)] = NoMsg]
    /\ cancelled' = cancelled \cup ({active[IdOf(m)]} \ {NoMsg})
    /\ UNCHANGED <<req, wpc, lpc, connVars, replyVars, crashed>>

\* Mutant: the deferred Unlock is missing.
ReplyOk_KeepsLock(m) ==
    /\ hpc[m] = "sendok" /\ HandOver(m)
    /\ hpc' = [hpc EXCEPT ![m] = "closing"]
    /\ UNCHANGED <<req, lpc, callVars, connVars, delivered, crashed>>

ReplyOk(m) ==
    /\ hpc[m] = "sendok"
    /\ HandOver(m)
    /\ hpc' = [hpc EXCEPT ![m] = "closing"]
    /\ lock' = NoMsg
    /\ UNCHANGED <<req, lpc, active, cancelled, connVars, delivered, crashed>>

UnknownMethod(m) ==
    /\ hpc[m] = "handle"
    /\ req[m].method = "other"
    /\ hpc' = [hpc EXCEPT ![m] = "sendko"]
    /\ UNCHANGED <<req, wpc, lpc, callVars, connVars, replyVars, crashed>>

\* Mutant: no return after the ko reply.
ReplyKo_NoReturn(m) ==
    /\ hpc[m] = "sendko" /\ HandOver(m) /\ sent[m] <= MaxReplies
    /\ UNCHANGED <<req, hpc, lpc, callVars, connVars, delivered, crashed>>

ReplyKo(m) ==
    /\ hpc[m] = "sendko"
    /\ HandOver(m)
    /\ hpc' = [hpc EXCEPT ![m] = "closing"]
    /\ UNCHANGED <<req, lpc, callVars, connVars, delivered, crashed>>

\* Mutant: the Unlock after the map write is missing.
RegisterCall_KeepsLock(m) ==
    /\ hpc[m] = "handle" /\ req[m].method = "watch" /\ lock = NoMsg
    /\ active' = [active EXCEPT ![IdOf(m)] = m]
    /\ lock' = m
    /\ hpc' = [hpc EXCEPT ![m] = "prepare"]
    /\ UNCHANGED <<req, wpc, lpc, cancelled, connVars, replyVars, crashed>>

\* d.activeCalls[call.ID] = cancel, whatever the map held under that id.
RegisterCall(m) ==
    /\ hpc[m] = "handle"
    /\ req[m].method = "watch"
    /\ lock = NoMsg
    /\ active' = [active EXCEPT ![IdOf(m)] = m]
    /\ hpc' = [hpc EXCEPT ![m] = "prepare"]
    /\ UNCHANGED <<req, wpc, lpc, lock, cancelled, connVars, replyVars, crashed>>

\* Mutant: the call is not removed when its handler returns.
UnregisterCall_KeepsEntry(m) ==
    /\ hpc[m] = "unregister" /\ lock = NoMsg
    /\ hpc' = [hpc EXCEPT ![m] = "closing"]
    /\ UNCHANGED <<req, wpc, lpc, callVars, connVars, replyVars, crashed>>

\* delete(d.activeCalls, call.ID), whoever is entered under that id.
UnregisterCall(m) ==
    /\ hpc[m] = "unregister"
    /\ lock = NoMsg
    /\ active' = [active EXCEPT ![IdOf(m)] = NoMsg]
    /\ hpc' = [hpc EXCEPT ![m] = "closing"]
    /\ UNCHANGED <<req, wpc, lpc, lock, cancelled, connVars, replyVars, crashed>>

-----------------------------------------------------------------------------
(* WatchHandler.Handle                                                     *)

\* Undecodable params, unknown context or no client: return err.
PrepareFails(m) ==
    /\ hpc[m] = "prepare"
    /\ hpc' = [hpc EXCEPT ![m] = "unregister"]
    /\ UNCHANGED <<req, wpc, lpc, callVars, connVars, replyVars, crashed>>

\* factory.Start(ctx.Done()).
StartInformer(m) ==
    /\ hpc[m] = "prepare"
    /\ hpc' = [hpc EXCEPT ![m] = "syncing"]
    /\ UNCHANGED <<req, wpc, lpc, callVars, connVars, replyVars, crashed>>

\* WaitForCacheSync returned true; AddEventHandler starts a listener, unless
\* the informer has already stopped with its context.
CacheSynced(m) ==
    /\ hpc[m] = "syncing"
    /\ hpc' = [hpc EXCEPT ![m] = "watching"]
    /\ \/ lpc' = [lpc EXCEPT ![m] = "ready"]
       \/ Ended(m) /\ UNCHANGED lpc
    /\ UNCHANGED <<req, wpc, callVars, connVars, replyVars, crashed>>

SyncAborted(m) ==
    /\ hpc[m] = "syncing"
    /\ Ended(m)
    /\ hpc' = [hpc EXCEPT ![m] = "unregister"]
    /\ UNCHANGED <<req, wpc, lpc, callVars, connVars, replyVars, crashed>>

\* Mutant: the handler returns without waiting for its context.
WatchEnds_NoWait(m) ==
    /\ hpc[m] = "watching"
    /\ hpc' = [hpc EXCEPT ![m] = "unregister"]
    /\ UNCHANGED <<req, wpc, lpc, callVars, connVars, replyVars, crashed>>

\* Mutant: the handler waits for its connection's context, not its own.
WatchEnds_ConnOnly(m) ==
    /\ hpc[m] = "watching" /\ ConnOf(m) \in down
    /\ hpc' = [hpc EXCEPT ![m] = "unregister"]
    /\ UNCHANGED <<req, wpc, lpc, callVars, connVars, replyVars, crashed>>

\* <-ctx.Done(); return nil.
WatchEnds(m) ==
    /\ hpc[m] = "watching"
    /\ Ended(m)
    /\ hpc' = [hpc EXCEPT ![m] = "unregister"]
    /\ UNCHANGED <<req, wpc, lpc, callVars, connVars, replyVars, crashed>>

\* The listener enters one of the event handlers: reply <- encodeResponse(..)
ListenerEvent(m) ==
    /\ lpc[m] = "ready"
    /\ sent[m] < MaxReplies
    /\ lpc' = [lpc EXCEPT ![m] = "sending"]
    /\ UNCHANGED <<req, hpc, wpc, callVars, connVars, replyVars, crashed>>

\* Mutant: an event that finds the draining goroutine busy or gone is dropped.
SendEvent_Drops(m) ==
    /\ lpc[m] = "sending"
    /\ sent' = [sent EXCEPT ![m] = @ + 1]
    /\ wpc' = [wpc EXCEPT ![m] = IF @ = "recv" THEN "write" ELSE @]
    /\ lpc' = [lpc EXCEPT ![m] = "ready"]
    /\ UNCHANGED <<req, hpc, callVars, connVars, delivered, crashed>>

SendEvent(m) ==
    /\ lpc[m] = "sending"
    /\ hpc[m] # "closed"
    /\ HandOver(m)
    /\ lpc' = [lpc EXCEPT ![m] = "ready"]
    /\ UNCHANGED <<req, hpc, callVars, connVars, delivered, crashed>>

\* A send on a closed channel panics, in a goroutine nobody recovers.
SendOnClosed(m) ==
    /\ lpc[m] = "sending"
    /\ hpc[m] = "closed"
    /\ crashed' = TRUE
    /\ UNCHANGED <<req, hpc, wpc, lpc, callVars, connVars, replyVars>>

\* The informer was started with ctx.Done() as its stop channel.
ListenerStops(m) ==
    /\ lpc[m] = "ready"
    /\ Ended(m)
    /\ lpc' = [lpc EXCEPT ![m] = "stopped"]
    /\ UNCHANGED <<req, hpc, wpc, callVars, connVars, replyVars, crashed>>

-----------------------------------------------------------------------------
(* The end of dispatchLoop                                                 *)

\* Mutant: the loop ends without d.cancel().
LoopBreaks_NoCancel(k) ==
    /\ loop[k] = "reading"
    /\ loop' = [loop EXCEPT ![k] = "broken"]
    /\ UNCHANGED <<req, hpc, wpc, lpc, callVars, down, sockErr, replyVars, crashed>>

\* The client leaves, a read fails or the context is done: break; d.cancel().
LoopBreaks(k) ==
    /\ loop[k] = "reading"
    /\ loop' = [loop EXCEPT ![k] = "broken"]
    /\ down' = down \cup {k}
    /\ UNCHANGED <<req, hpc, wpc, lpc, callVars, sockErr, replyVars, crashed>>

\* d.conn.Close().
CloseConn(k) ==
    /\ loop[k] = "broken"
    /\ loop' = [loop EXCEPT ![k] = "closed"]
    /\ UNCHANGED <<req, hpc, wpc, lpc, callVars, down, sockErr, replyVars, crashed>>

-----------------------------------------------------------------------------
Handler(m) ==
    \/ DecodeFails(m) \/ LookupCancel(m) \/ ReplyOk(m)
    \/ UnknownMethod(m) \/ ReplyKo(m)
    \/ RegisterCall(m) \/ UnregisterCall(m)
    \/ PrepareFails(m) \/ StartInformer(m)
    \/ CacheSynced(m) \/ SyncAborted(m) \/ WatchEnds(m)
    \/ CloseReply(m)

Listener(m) ==
    \/ ListenerEvent(m) \/ SendEvent(m) \/ SendOnClosed(m) \/ ListenerStops(m)

Writer(m) == WriteOk(m) \/ WriteFail(m) \/ WriterEnds(m)

Step ==
    \/ \E m \in Msg : Dispatch(m) \/ Handler(m) \/ Listener(m) \/ Writer(m)
    \/ \E k \in Conn : LoopBreaks(k) \/ CloseConn(k)

\* No goroutine of message m is left.
Gone(m) ==
    /\ hpc[m] \in {"idle", "closed"}
    /\ wpc[m] \in {"idle", "done"}
    /\ lpc[m] \in {"off", "stopped"}

\* The only states in which nothing may happen any more.
Finished ==
    /\ \/ crashed
       \/ /\ \A k \in Conn : loop[k] = "closed"
          /\ \A m \in Msg : Gone(m)
    /\ UNCHANGED vars

Next == (~crashed /\ Step) \/ Finished

Spec == Init /\ [][Next]_vars

(***************************************************************************)
(* Fairness.  A runnable goroutine runs, and a mutex hands over to its     *)
(* longest waiter (Go's starvation mode), hence SF for the locked          *)
(* sections.  A write to an open socket may block for ever (no deadline is *)
(* set); on a closed one it fails at once.  Clients owe nothing, and a     *)
(* cache that never syncs is possible.                                     *)
(***************************************************************************)
MsgFairness(m) ==
    /\ WF_vars(~crashed /\ (DecodeFails(m) \/ ReplyOk(m) \/ UnknownMethod(m)
                 \/ ReplyKo(m) \/ PrepareFails(m) \/ StartInformer(m)
                 \/ SyncAborted(m) \/ WatchEnds(m) \/ CloseReply(m)))
    /\ SF_vars(~crashed /\ (LookupCancel(m) \/ RegisterCall(m) \/ UnregisterCall(m)))
    /\ WF_vars(~crashed /\ (SendEvent(m) \/ SendOnClosed(m)))
    /\ WF_vars(~crashed /\ ListenerStops(m))
    /\ WF_vars(~crashed /\ loop[ConnOf(m)] = "closed" /\ WriteFail(m))
    /\ WF_vars(~crashed /\ WriterEnds(m))

Fairness ==
    /\ \A m \in Msg : MsgFairness(m)
    /\ \A k \in Conn : WF_vars(~crashed /\ k \in down /\ LoopBreaks(k))
                       /\ WF_vars(~crashed /\ CloseConn(k))

FairSpec == Spec /\ Fairness

-----------------------------------------------------------------------------
(* Properties                                                              *)

TypeOK ==
    /\ req \in [Msg -> Request]
    /\ hpc \in [Msg -> HandlerPC]
    /\ wpc \in [Msg -> WriterPC]
    /\ lpc \in [Msg -> ListenerPC]
    /\ active \in [Id -> Msg \cup {NoMsg}]
    /\ lock \in Msg \cup {NoMsg}
    /\ cancelled \subseteq Msg
    /\ loop \in [Conn -> LoopPC]
    /\ down \subseteq Conn
    /\ sockErr \subseteq Conn
    /\ sent \in [Msg -> Nat]
    /\ delivered \in [Msg -> Nat]
    /\ crashed \in BOOLEAN

\* What CallDispatcher.activeCalls holds under an id is the cancel function
\* of a call with that id which is still being served and has not been
\* cancelled: a ".cancel" never pulls the string of a call that is over.
RegistrySound ==
    \A i \in Id : active[i] # NoMsg =>
        /\ IdOf(active[i]) = i
        /\ Registered(active[i])
        /\ active[i] \notin cancelled

\* The ".cancel" branch of CallDispatcher.Handle holds activeLock over a
\* channel send.  Its receiver is always ready, so the process-wide lock
\* never waits for a client to read its socket.
LockHolderCanReply ==
    lock # NoMsg => hpc[lock] = "sendok" /\ wpc[lock] = "recv"

\* A call that is being served and was not cancelled can be missing from
\* CallDispatcher.activeCalls only because another call was registered under
\* its id, on whatever connection.
EntryLostOnlyToNamesake ==
    \A m \in Msg :
        Serving(m) /\ m \notin cancelled /\ active[IdOf(m)] # m =>
            \E n \in Msg \ {m} : /\ req[n].method = "watch"
                                 /\ IdOf(n) = IdOf(m)
                                 /\ hpc[n] \notin {"idle", "handle"}

\* Only a ".cancel" message with the id of a call cancels that call's own
\* context: CallDispatcher.Handle touches no other entry of the map.
CancelledByNamesake ==
    \A m \in cancelled :
        \E c \in Msg : /\ req[c].method = "cancel"
                       /\ IdOf(c) = IdOf(m)
                       /\ hpc[c] \notin {"idle", "handle"}

\* The event handlers of WatchHandler.Handle may send on a reply channel that
\* dispatchMessage's goroutine has closed, and the process then dies; but
\* only for a watch whose context has ended while its listener still had an
\* event in hand.
CrashNeedsEndedWatch ==
    crashed => \E m \in Msg : /\ Ended(m)
                              /\ req[m].method = "watch"
                              /\ lpc[m] = "sending"
                              /\ hpc[m] = "closed"

\* While the websocket of a connection has not failed, every reply a handler
\* put on its channel has been written, in order, except the one its draining
\* goroutine (for message := range reply) is writing now.
NoReplyLost ==
    \A m \in Msg : ConnOf(m) \notin sockErr =>
        sent[m] = delivered[m] + (IF wpc[m] = "write" THEN 1 ELSE 0)

\* activeLock is given back even when no client ever reads its socket.
LockReleased == \A m \in Msg : lock = m ~> (lock # m \/ crashed)

\* Once the context of a watch call has ended, by ".cancel" or with its
\* connection, CallDispatcher.Handle returns and reply is closed, unless the
\* process dies of a late event.
EndedCallsReturn ==
    \A m \in Msg : (Serving(m) /\ Ended(m)) ~> (hpc[m] = "closed" \/ crashed)

\* A closed connection leaves no goroutine of its calls behind: neither the
\* handler, nor the draining loop, nor the informer's listener.
NoLeakAfterClose ==
    \A k \in Conn : loop[k] = "closed" ~>
        (crashed \/ \A m \in Msg : ConnOf(m) = k => Gone(m))

\* The refinement: what the clients see of dispatchMessage is a ReplyStream.
Replies == INSTANCE ReplyStream WITH
    once  <- {m \in Msg : req[m].method # "watch"},
    phase <- [m \in Msg |-> CASE wpc[m] = "idle" -> "new"
                               [] wpc[m] = "done" -> "over"
                               [] OTHER           -> "open"]

\* Every behaviour of the calls is one of the abstract reply streams.
ImplementsReplyStream == Replies!RSSpec

\* "active rpc call not found - nothing to cancel." (rpc.go:72): when the
\* dispatcher says so, no call with that id is being served.
NotFoundMeansNotActive ==
    [][\A m \in Msg :
        (hpc[m] = "handle" /\ hpc'[m] = "sendok" /\ active[IdOf(m)] = NoMsg) =>
            ~\E n \in Msg : Serving(n) /\ ~Ended(n) /\ IdOf(n) = IdOf(m)]_vars
=============================================================================

------------------------------ MODULE StreamLoop ------------------------------
(***************************************************************************)
(* The read side of one websocket connection: MessageDispatcher's          *)
(* dispatchLoop and readMessage (api/stream/stream.go).  Each readMessage  *)
(* starts a goroutine of its own, reader n for the n-th call, and waits in *)
(* a select for that reader's result or for the connection's context.      *)
(***************************************************************************)
EXTENDS Naturals, Sequences, FiniteSets

CONSTANT MaxMsgs     \* bound on the messages the client sends

ASSUME MaxMsgsAssumption == MaxMsgs \in Nat

VARIABLES
    loop,       \* dispatchLoop: "read", "select", "got", "broken", "closed"
    calls,      \* number of calls of readMessage so far
    reader,     \* reader[n]: the goroutine of the n-th call
    result,     \* result[n]: what reader n offers on its channel
    got,        \* the message readMessage returned
    ctxDone,    \* d.ctx is cancelled
    peerGone,   \* the client has closed its side
    sentMsgs,   \* the messages the client has sent, in order
    taken,      \* how many of them the websocket has handed to a reader
    handled     \* the messages dispatchLoop has handled, in order

vars == <<loop, calls, reader, result, got, ctxDone, peerGone, sentMsgs,
          taken, handled>>

\* A message is well-formed JSON or it is not; "err" is a failed read.
Kind == {"json", "junk"}
Result == [kind : Kind \cup {"err"}, n : 0 .. MaxMsgs]
NoResult == [kind |-> "err", n |-> 0]
Call == 1 .. MaxMsgs + 2

Alive == {n \in Call : reader[n] \in {"reading", "offering"}}

Init ==
    /\ loop = "read"
    /\ calls = 0
    /\ reader = [n \in Call |-> "off"]
    /\ result = [n \in Call |-> NoResult]
    /\ got = NoResult
    /\ ctxDone = FALSE
    /\ peerGone = FALSE
    /\ sentMsgs = <<>>
    /\ taken = 0
    /\ handled = <<>>

-----------------------------------------------------------------------------
(* The environment: the client, and the goroutines that write replies.     *)

ClientSends(kind) ==
    /\ ~peerGone
    /\ Len(sentMsgs) < MaxMsgs
    /\ sentMsgs' = Append(sentMsgs, kind)
    /\ UNCHANGED <<loop, calls, reader, result, got, ctxDone, peerGone, taken, handled>>

ClientLeaves ==
    /\ ~peerGone
    /\ peerGone' = TRUE
    /\ UNCHANGED <<loop, calls, reader, result, got, ctxDone, sentMsgs, taken, handled>>

\* writeMessage calls d.cancel() when a write fails.
WriterCancels ==
    /\ ~ctxDone
    /\ ctxDone' = TRUE
    /\ UNCHANGED <<loop, calls, reader, result, got, peerGone, sentMsgs, taken, handled>>

-----------------------------------------------------------------------------
(* readMessage                                                             *)

StartRead ==
    /\ loop = "read"
    /\ calls + 1 \in Call
    /\ calls' = calls + 1
    /\ reader' = [reader EXCEPT ![calls + 1] = "reading"]
    /\ loop' = "select"
    /\ UNCHANGED <<result, got, ctxDone, peerGone, sentMsgs, taken, handled>>

\* d.conn.ReadMessage() returns the next message of an open connection.
ReaderGets(n) ==
    /\ reader[n] = "reading"
    /\ loop # "closed"
    /\ taken < Len(sentMsgs)
    /\ taken' = taken + 1
    /\ result' = [result EXCEPT ![n] = [kind |-> sentMsgs[taken + 1], n |-> taken + 1]]
    /\ reader' = [reader EXCEPT ![n] = "offering"]
    /\ UNCHANGED <<loop, calls, got, ctxDone, peerGone, sentMsgs, handled>>

\* ... or an error: the peer is gone or the connection closed.
ReaderFails(n) ==
    /\ reader[n] = "reading"
    /\ peerGone \/ loop = "closed"
    /\ result' = [result EXCEPT ![n] = NoResult]
    /\ reader' = [reader EXCEPT ![n] = "offering"]
    /\ UNCHANGED <<loop, calls, got, ctxDone, peerGone, sentMsgs, taken, handled>>

\* case res := <-read, on the channel of this call.
Receive ==
    /\ loop = "select"
    /\ reader[calls] = "offering"
    /\ reader' = [reader EXCEPT ![calls] = "gone"]
    /\ got' = result[calls]
    /\ loop' = IF result[calls].kind = "err" THEN "broken" ELSE "got"
    /\ UNCHANGED <<calls, result, ctxDone, peerGone, sentMsgs, taken, handled>>

\* Mutant: the select has no ctx.Done() case.
ContextDone_Never == FALSE /\ UNCHANGED vars

\* Mutant: a nil message is skipped instead of ending the loop.
ContextDone_Continue ==
    /\ loop = "select" /\ ctxDone
    /\ loop' = "read"
    /\ UNCHANGED <<calls, reader, result, got, ctxDone, peerGone, sentMsgs, taken, handled>>

\* case <-d.ctx.Done(): return nil, nil, and dispatchLoop breaks.  The reader
\* of this call is left behind.
ContextDone ==
    /\ loop = "select"
    /\ ctxDone
    /\ loop' = "broken"
    /\ UNCHANGED <<calls, reader, result, got, ctxDone, peerGone, sentMsgs, taken, handled>>

-----------------------------------------------------------------------------
(* dispatchLoop                                                            *)

\* json.Unmarshal(msg, partial) is given the struct, not its address;
\* encoding/json refuses every target that is not a pointer.
TargetIsPointer == FALSE
Decodes(kind) == kind = "json" /\ TargetIsPointer

\* A message that does not decode is logged and dropped, any other one goes
\* to a goroutine of its own; the loop reads on in both cases.
HandleMessage ==
    /\ loop = "got"
    /\ handled' = Append(handled,
          [n |-> got.n, kind |-> got.kind, dispatched |-> Decodes(got.kind)])
    /\ loop' = "read"
    /\ UNCHANGED <<calls, reader, result, got, ctxDone, peerGone, sentMsgs, taken>>

\* d.cancel() and d.conn.Close().
CloseConn ==
    /\ loop = "broken"
    /\ ctxDone' = TRUE
    /\ loop' = "closed"
    /\ UNCHANGED <<calls, reader, result, got, peerGone, sentMsgs, taken, handled>>

LoopStep == StartRead \/ Receive \/ ContextDone \/ HandleMessage \/ CloseConn
ReaderStep(n) == ReaderGets(n) \/ ReaderFails(n)

\* A closed connection with nothing left to run.
Finished ==
    /\ loop = "closed"
    /\ \A n \in Call : reader[n] # "reading"
    /\ UNCHANGED vars

Next ==
    \/ \E kind \in Kind : ClientSends(kind)
    \/ ClientLeaves \/ WriterCancels
    \/ LoopStep
    \/ \E n \in Call : ReaderStep(n)
    \/ Finished

\* Goroutines run when they can; the client and the network owe nothing.
Fairness ==
    /\ WF_vars(LoopStep)
    /\ \A n \in Call : WF_vars(ReaderStep(n))

Spec == Init /\ [][Next]_vars /\ Fairness

-----------------------------------------------------------------------------
(* Properties                                                              *)

TypeOK ==
    /\ loop \in {"read", "select", "got", "broken", "closed"}
    /\ calls \in 0 .. MaxMsgs + 2
    /\ reader \in [Call -> {"off", "reading", "offering", "gone"}]
    /\ result \in [Call -> Result]
    /\ got \in Result
    /\ ctxDone \in BOOLEAN
    /\ peerGone \in BOOLEAN
    /\ sentMsgs \in Seq(Kind) /\ Len(sentMsgs) <= MaxMsgs
    /\ taken \in 0 .. Len(sentMsgs)
    /\ handled \in Seq([n : Nat, kind : Kind, dispatched : BOOLEAN])

\* readMessage never has two of its goroutines alive: a websocket supports
\* one concurrent reader, and a connection that ends through its context
\* strands at most one goroutine on its result channel.
OneReader == Cardinality(Alive) <= 1

\* dispatchLoop handles the messages in the order they were sent, each at
\* most once and none passed over, although every one is read by a goroutine
\* of its own.
HandledInOrder ==
    \A i \in 1 .. Len(handled) :
        handled[i].n = i /\ handled[i].kind = sentMsgs[i]

\* Once the context of a connection is done, dispatchLoop ends and closes it,
\* even if the client stays silent with its side open.
CancelledCloses == ctxDone ~> loop = "closed"

\* "can not decode websocket message" (stream.go:87) is said of messages
\* that cannot be decoded.
OnlyJunkIsRefused ==
    \A i \in 1 .. Len(handled) : ~handled[i].dispatched => handled[i].kind = "junk"
=============================================================================
